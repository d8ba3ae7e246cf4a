------------------------- MODULE PieceStorage_proof -------------------------
(***************************************************************************)
(* Proofs about the storage of one torrent and about the gauges that watch *)
(* it, for any torrent, any budget, any capacity of the channel, and any   *)
(* number of hashers, failures and crashes.                                *)
(***************************************************************************)
EXTENDS CacheMetrics, PieceCompletion_proof, PieceLRU_proof

------------------------------------------------------------------------------
(* The goroutines: what the assignments to "thread" do.                    *)

Labels(t) == IF t = Sweep THEN SweepStates ELSE HasherStates

LEMMA ThreadType ==
    ASSUME ThreadsTypeOK, NEW t \in Threads
    PROVE  /\ thread[t].at \in Labels(t)
           /\ thread[t].piece \in Pieces \cup {NoPiece}
           /\ thread[t].victims \in Seq(Pieces)
           /\ thread[t].at \in Evicting =>
                 /\ thread[t].victims # << >>
                 /\ Victim(t) \in Pieces
                 /\ Tail(thread[t].victims) \in Seq(Pieces)
BY DEF ThreadsTypeOK, Threads, HasherThreads, SweepThreads, Labels, Victim

LEMMA HasherPiece ==
    ASSUME ThreadsTypeOK, NEW h \in Hashers, thread[h].at # "idle"
    PROVE  thread[h].piece \in Pieces
BY DEF ThreadsTypeOK, HasherThreads

\* One goroutine takes a step, the others stay where they are.
OnlyMoves(t) ==
    /\ thread' = [s \in Threads |-> thread'[s]]
    /\ \A s \in Threads \ {t} : thread'[s] = thread[s]

LEMMA GotoEffect ==
    ASSUME ThreadsTypeOK, NEW t \in Threads, NEW label, Goto(t, label)
    PROVE  /\ OnlyMoves(t)
           /\ thread'[t] = [thread[t] EXCEPT !.at = label]
           /\ thread'[t].at = label
           /\ thread'[t].piece = thread[t].piece
           /\ thread'[t].victims = thread[t].victims
BY DEF ThreadsTypeOK, Threads, HasherThreads, SweepThreads, OnlyMoves, Goto

LEMMA EvictEachEffect ==
    ASSUME ThreadsTypeOK, NEW t \in Threads, NEW victims, EvictEach(t, victims)
    PROVE  /\ OnlyMoves(t)
           /\ thread'[t].at = IF victims = << >> THEN EvictionsDone(t)
                                                 ELSE "evictSet"
           /\ thread'[t].piece = thread[t].piece
           /\ thread'[t].victims = victims
BY DEF ThreadsTypeOK, Threads, HasherThreads, SweepThreads, OnlyMoves, EvictEach

LEMMA GotoType ==
    ASSUME ThreadsTypeOK, NEW t \in Threads, NEW label \in Labels(t),
           Goto(t, label),
           label \in Evicting => thread[t].at \in Evicting,
           thread[t].piece = NoPiece => label \notin {"verify", "await"},
           t \in Hashers => thread[t].at # "idle"
    PROVE  ThreadsTypeOK'
<1>1. CASE t \in Hashers
  <2>1. [thread[t] EXCEPT !.at = label] \in HasherThreads
    BY <1>1, ThreadsAssumption, HasherPiece, NoPieceAssumption
       DEF ThreadsTypeOK, HasherThreads, Labels
  <2> QED BY <1>1, <2>1, ThreadsAssumption DEF ThreadsTypeOK, Threads, Goto
<1>2. CASE t = Sweep
  <2>1. [thread[t] EXCEPT !.at = label] \in SweepThreads
    BY <1>2 DEF ThreadsTypeOK, SweepThreads, Labels
  <2> QED BY <1>2, <2>1, ThreadsAssumption DEF ThreadsTypeOK, Threads, Goto
<1> QED BY <1>1, <1>2 DEF Threads

LEMMA EvictEachType ==
    ASSUME ThreadsTypeOK, NEW t \in Threads, NEW victims \in Seq(Pieces),
           EvictEach(t, victims),
           t \in Hashers => thread[t].at # "idle"
    PROVE  ThreadsTypeOK'
<1> DEFINE label == IF victims = << >> THEN EvictionsDone(t) ELSE "evictSet"
           next == [thread[t] EXCEPT !.at = label, !.victims = victims]
<1>0. thread' = [thread EXCEPT ![t] = next]
  BY DEF EvictEach, ThreadsTypeOK
<1>1. CASE t \in Hashers
  <2>1. next \in HasherThreads
    BY <1>1, ThreadsAssumption, HasherPiece, NoPieceAssumption
       DEF ThreadsTypeOK, HasherThreads, EvictionsDone, HasherStates, Evicting
  <2> HIDE DEF next
  <2> QED BY <1>0, <1>1, <2>1, ThreadsAssumption DEF ThreadsTypeOK, Threads
<1>2. CASE t = Sweep
  <2>1. next \in SweepThreads
    BY <1>2 DEF ThreadsTypeOK, SweepThreads, EvictionsDone, SweepStates, Evicting
  <2> HIDE DEF next
  <2> QED BY <1>0, <1>2, <2>1, ThreadsAssumption DEF ThreadsTypeOK, Threads
<1> QED BY <1>1, <1>2 DEF Threads

------------------------------------------------------------------------------
(* Types.                                                                  *)

LEMMA StorageInitType == Init => LRUTypeOK /\ StorageTypeOK
<1> SUFFICES ASSUME Init PROVE LRUTypeOK /\ StorageTypeOK
  OBVIOUS
<1>1. Idle \in HasherThreads /\ Idle \in SweepThreads
  BY DEF Idle, HasherThreads, SweepThreads, HasherStates, SweepStates, Evicting
<1>2. ThreadsTypeOK
  BY <1>1, Zenon DEF Init, ThreadsTypeOK, Threads
<1>3. << >> \in Seq(Pieces) /\ Len(<< >>) = 0
  OBVIOUS
<1>4. LRUTypeOK
  BY <1>3 DEF Init, LRUInit, LRUTypeOK
<1>5. verifyCh \in Seq(Pieces) /\ Len(verifyCh) <= VerifyCap
  BY <1>3, VerifyCapAssumption DEF Init
<1>6. open \in BOOLEAN
  BY DEF Init
<1>7. stored \in SUBSET Pieces /\ have \in SUBSET Pieces /\ lost \in SUBSET Pieces
  BY DEF Init
<1> QED BY <1>2, <1>4, <1>5, <1>6, <1>7 DEF StorageTypeOK

LEMMA EvictPieceType ==
    ASSUME LRUTypeOK, StorageTypeOK, NEW t \in Threads, EvictPiece(t)
    PROVE  LRUTypeOK' /\ StorageTypeOK'
<1>0. ThreadsTypeOK
  BY DEF StorageTypeOK
<1>1. /\ Victim(t) \in Pieces
      /\ Tail(thread[t].victims) \in Seq(Pieces)
      /\ thread[t].at \in Evicting
      /\ thread[t].at # "idle"
  BY <1>0, ThreadType
     DEF EvictPiece, EvictSet, EvictFiles, EvictPunch, EvictRemove, EvictQueue,
         Evicting
<1>2. ASSUME NEW label \in Evicting, Goto(t, label) PROVE ThreadsTypeOK'
  BY <1>0, <1>1, <1>2, GotoType
     DEF Labels, HasherStates, SweepStates, Evicting
<1>3. ASSUME EvictNext(t) PROVE ThreadsTypeOK'
  BY <1>0, <1>1, <1>3, EvictEachType DEF EvictNext
<1>4. CASE EvictSet(t)
  <2>1. ThreadsTypeOK'
    BY <1>2, <1>3, <1>4 DEF EvictSet, Evicting
  <2> QED BY <1>4, <2>1 DEF EvictSet, lruVars, LRUTypeOK, StorageTypeOK
<1>5. CASE EvictFiles(t)
  <2>1. ThreadsTypeOK'
    BY <1>2, <1>5 DEF EvictFiles, Evicting
  <2> QED BY <1>5, <2>1 DEF EvictFiles, lruVars, LRUTypeOK, StorageTypeOK
<1>6. CASE EvictPunch(t)
  <2>1. ThreadsTypeOK'
    BY <1>2, <1>6 DEF EvictPunch, Evicting
  <2> QED BY <1>6, <2>1 DEF EvictPunch, lruVars, LRUTypeOK, StorageTypeOK
<1>7. CASE EvictRemove(t)
  <2>1. ThreadsTypeOK'
    BY <1>2, <1>7 DEF EvictRemove, Evicting
  <2>2. LRUTypeOK'
    BY <1>1, <1>7, RemoveType DEF EvictRemove
  <2> QED BY <1>7, <2>1, <2>2 DEF EvictRemove, StorageTypeOK
<1>8. CASE EvictQueue(t)
  <2>1. ThreadsTypeOK'
    BY <1>3, <1>8 DEF EvictQueue
  <2>2. verifyCh' \in Seq(Pieces) /\ Len(verifyCh') <= VerifyCap
    BY <1>1, <1>8, VerifyCapAssumption DEF EvictQueue, QueueVerify, StorageTypeOK
  <2>3. lost' \in SUBSET Pieces
    BY <1>1, <1>8 DEF EvictQueue, QueueVerify, StorageTypeOK
  <2> QED BY <1>8, <2>1, <2>2, <2>3
             DEF EvictQueue, lruVars, LRUTypeOK, StorageTypeOK
<1> QED BY <1>4, <1>5, <1>6, <1>7, <1>8 DEF EvictPiece

LEMMA HasherType ==
    ASSUME LRUTypeOK, StorageTypeOK, NEW h \in Hashers, Hasher(h)
    PROVE  LRUTypeOK' /\ StorageTypeOK'
<1>0. ThreadsTypeOK /\ h \in Threads /\ h # Sweep
  BY ThreadsAssumption DEF StorageTypeOK, Threads
<1>1. ASSUME NEW label \in HasherStates, label \notin Evicting,
             thread[h].at # "idle", Goto(h, label)
      PROVE  ThreadsTypeOK'
  <2>1. label \in Labels(h) /\ label \notin {"verify", "await"}
    BY <1>0, <1>1 DEF Labels, HasherStates, Evicting
  <2> QED BY <1>0, <1>1, <2>1, GotoType
<1>2. CASE MarkSet(h)
  <2>1. ThreadsTypeOK'
    BY <1>1, <1>2 DEF MarkSet, HasherStates, Evicting
  <2> QED BY <1>2, <2>1 DEF MarkSet, lruVars, LRUTypeOK, StorageTypeOK
<1>3. CASE MarkAdd(h)
  <2>1. thread[h].piece \in Pieces
    BY <1>0, <1>3, HasherPiece DEF MarkAdd
  <2>2. PICK toEvict \in AddReturns(thread[h].piece, ProtectedPieces) :
           EvictEach(h, toEvict)
    BY <1>3 DEF MarkAdd
  <2>3. toEvict \in Seq(Pieces)
    <3>1. <<thread[h].piece>> \o lruList \in Seq(Pieces)
      BY <2>1 DEF LRUTypeOK
    <3>2. CASE thread[h].piece \in entries
      BY <2>2, <3>2 DEF AddReturns
    <3>3. CASE thread[h].piece \notin entries
      <4> DEFINE u == used + Size[thread[h].piece]
      <4>1. toEvict \in computeEvictions(<<thread[h].piece>> \o lruList, u,
                                         ProtectedPieces)
        BY <2>2, <3>3 DEF AddReturns
      <4> HIDE DEF u
      <4> QED BY <3>1, <4>1, EvictionsType
    <3> QED BY <3>2, <3>3
  <2>4. ThreadsTypeOK'
    BY <1>0, <1>3, <2>2, <2>3, EvictEachType DEF MarkAdd
  <2>5. LRUTypeOK'
    BY <1>3, <2>1, AddType DEF MarkAdd
  <2> QED BY <1>3, <2>4, <2>5 DEF MarkAdd, StorageTypeOK
<1>4. CASE MarkNotComplete(h)
  <2>1. ThreadsTypeOK'
    BY <1>1, <1>4 DEF MarkNotComplete, HasherStates, Evicting
  <2>2. lost' \in SUBSET Pieces
    <3>1. thread[h].piece \in Pieces
      BY <1>0, <1>4, HasherPiece DEF MarkNotComplete
    <3> QED BY <1>4, <3>1 DEF MarkNotComplete, StorageTypeOK
  <2> QED BY <1>4, <2>1, <2>2
             DEF MarkNotComplete, lruVars, LRUTypeOK, StorageTypeOK
<1>5. CASE HashDone(h)
  <2>1. Idle \in HasherThreads /\ Idle \in SweepThreads
    BY DEF Idle, HasherThreads, SweepThreads, HasherStates, SweepStates, Evicting
  <2>2. ThreadsTypeOK'
    BY <1>0, <1>5, <2>1, ThreadsAssumption DEF HashDone, ThreadsTypeOK, Threads
  <2>3. have' \in SUBSET Pieces
    BY <1>0, <1>5, HasherPiece DEF HashDone, Completion, StorageTypeOK
  <2> QED BY <1>5, <2>2, <2>3 DEF HashDone, lruVars, LRUTypeOK, StorageTypeOK
<1>6. CASE EvictPiece(h)
  BY <1>0, <1>6, EvictPieceType
<1> QED BY <1>2, <1>3, <1>4, <1>5, <1>6 DEF Hasher

LEMMA StartHashType ==
    ASSUME LRUTypeOK, StorageTypeOK, NEW h \in Hashers, NEW p \in Pieces,
           StartHash(h, p)
    PROVE  LRUTypeOK' /\ StorageTypeOK'
<1>1. ThreadsTypeOK'
  <2>1. [thread[h] EXCEPT !.at = IF p \in stored THEN "markSet" ELSE "unmarkSet",
                          !.piece = p] \in HasherThreads
    <3>1. thread[h] \in HasherThreads
      BY DEF StorageTypeOK, ThreadsTypeOK
    <3> QED BY <3>1, NoPieceAssumption DEF HasherThreads, HasherStates, Evicting
  <2>2. ASSUME thread[Sweep].at = "verify"
        PROVE  [thread[Sweep] EXCEPT !.at = "await"] \in SweepThreads
    BY <2>2 DEF StorageTypeOK, ThreadsTypeOK, SweepThreads, SweepStates, Evicting
  <2>3. [thread[Sweep] EXCEPT !.at = @] = thread[Sweep]
    BY DEF StorageTypeOK, ThreadsTypeOK, SweepThreads
  <2> QED BY <2>1, <2>2, <2>3, ThreadsAssumption
             DEF StartHash, StorageTypeOK, ThreadsTypeOK, Threads
<1> QED BY <1>1 DEF StartHash, lruVars, LRUTypeOK, StorageTypeOK

LEMMA OverBudgetType ==
    ASSUME LRUTypeOK, StorageTypeOK, evictOverBudget
    PROVE  ThreadsTypeOK'
<1>1. PICK toEvict \in computeEvictions(lruList, used, ProtectedPieces) :
         EvictEach(Sweep, toEvict)
  BY DEF evictOverBudget
<1>2. toEvict \in Seq(Pieces)
  BY <1>1, EvictionsType DEF LRUTypeOK
<1> QED BY <1>1, <1>2, EvictEachType, ThreadsAssumption DEF StorageTypeOK, Threads

LEMMA CrashType ==
    ASSUME CompletionTypeOK, StorageTypeOK, Crash
    PROVE  LRUTypeOK' /\ StorageTypeOK'
<1>1. LRUTypeOK'
  BY RecoveredEffect DEF Crash, recoverLRU, CompletionTypeOK
<1>2. ThreadsTypeOK'
  <2>1. /\ Idle \in HasherThreads
        /\ [Idle EXCEPT !.at = "opening"] \in SweepThreads
    <3>1. [Idle EXCEPT !.at = "opening"] =
             [at |-> "opening", piece |-> NoPiece, victims |-> << >>]
      BY DEF Idle
    <3>2. [at |-> "opening", piece |-> NoPiece, victims |-> << >>] \in SweepThreads
      BY DEF SweepThreads, SweepStates, Evicting
    <3>3. Idle \in HasherThreads
      BY DEF Idle, HasherThreads, HasherStates, Evicting
    <3> QED BY <3>1, <3>2, <3>3
  <2> QED BY <2>1, ThreadsAssumption, Zenon DEF Crash, ThreadsTypeOK, Threads
<1>3. Announced \subseteq Pieces
  <2>1. \A i \in DOMAIN verifyCh : verifyCh[i] \in Pieces
    BY DEF StorageTypeOK
  <2>2. \A t \in Threads : thread[t].at \in {"verify", "unmarkSet"} =>
                               thread[t].piece \in Pieces
    <3>1. \A h \in Hashers : thread[h].at = "unmarkSet" =>
                                thread[h].piece \in Pieces
      BY HasherPiece DEF StorageTypeOK
    <3>2. /\ thread[Sweep].at = "verify" => thread[Sweep].piece \in Pieces
          /\ thread[Sweep].at # "unmarkSet"
      BY DEF StorageTypeOK, ThreadsTypeOK, SweepThreads, SweepStates, Evicting
    <3>3. \A h \in Hashers : thread[h].at # "verify"
      BY DEF StorageTypeOK, ThreadsTypeOK, HasherThreads, HasherStates, Evicting
    <3> QED BY <3>1, <3>2, <3>3 DEF Threads
  <2>3. \A t \in Threads : thread[t].at \in {"evictRemove", "evictQueue"} =>
                               Victim(t) \in Pieces
    BY ThreadType DEF StorageTypeOK, Evicting
  <2> QED BY <2>1, <2>2, <2>3 DEF Announced
<1>4. verifyCh' \in Seq(Pieces) /\ Len(verifyCh') <= VerifyCap
  BY VerifyCapAssumption DEF Crash
<1>5. open' \in BOOLEAN
  BY DEF Crash
<1>6. stored' \in SUBSET Pieces /\ have' \in SUBSET Pieces /\ lost' \in SUBSET Pieces
  BY <1>3 DEF Crash, StorageTypeOK
<1> QED BY <1>1, <1>2, <1>4, <1>5, <1>6 DEF StorageTypeOK

LEMMA StorageNextType ==
    ASSUME TypeOK, [Next]_vars
    PROVE  LRUTypeOK' /\ StorageTypeOK'
<1> USE DEF TypeOK
<1>1. ASSUME NEW h \in Hashers, Hasher(h) PROVE LRUTypeOK' /\ StorageTypeOK'
  BY <1>1, HasherType
<1>2. ASSUME NEW h \in Hashers, NEW p \in Pieces, StartHash(h, p)
      PROVE  LRUTypeOK' /\ StorageTypeOK'
  BY <1>2, StartHashType
<1>3. ASSUME NEW p \in Pieces, Client(p) PROVE LRUTypeOK' /\ StorageTypeOK'
  <2>1. CASE WriteAt(p)
    BY <2>1 DEF WriteAt, lruVars, LRUTypeOK, StorageTypeOK, ThreadsTypeOK
  <2>2. CASE ReadAt(p)
    <3>1. LRUTypeOK'
      BY <2>2, AddType DEF ReadAt
    <3> QED BY <2>2, <3>1 DEF ReadAt, storageVars, StorageTypeOK, ThreadsTypeOK
  <2>3. CASE ReadCompletion(p)
    BY <2>3
       DEF ReadCompletion, Completion, lruVars, LRUTypeOK, StorageTypeOK,
           ThreadsTypeOK
  <2> QED BY <1>3, <2>1, <2>2, <2>3 DEF Client
<1>4. CASE SweepReceive
  <2>1. Head(verifyCh) \in Pieces /\ Tail(verifyCh) \in Seq(Pieces)
    BY <1>4 DEF SweepReceive, StorageTypeOK
  <2>2. Len(Tail(verifyCh)) <= VerifyCap
    BY <1>4, VerifyCapAssumption DEF SweepReceive, StorageTypeOK
  <2>3. [thread[Sweep] EXCEPT !.at = "verify", !.piece = Head(verifyCh)]
           \in SweepThreads
    <3>1. thread[Sweep] \in SweepThreads
      BY DEF StorageTypeOK, ThreadsTypeOK
    <3> QED BY <2>1, <3>1, NoPieceAssumption
               DEF SweepThreads, SweepStates, Evicting
  <2>4. ThreadsTypeOK'
    BY <1>4, <2>3, ThreadsAssumption
       DEF SweepReceive, StorageTypeOK, ThreadsTypeOK, Threads
  <2> QED BY <1>4, <2>1, <2>2, <2>4
             DEF SweepReceive, lruVars, LRUTypeOK, StorageTypeOK
<1>5. CASE SweepTick \/ OpenEvict
  <2>1. ThreadsTypeOK'
    BY <1>5, OverBudgetType DEF SweepTick, OpenEvict
  <2> QED BY <1>5, <2>1
             DEF SweepTick, OpenEvict, lruVars, LRUTypeOK, StorageTypeOK
<1>6. CASE EvictPiece(Sweep)
  BY <1>6, EvictPieceType DEF Threads
<1>7. CASE Opened
  <2>1. open' \in BOOLEAN
    BY <1>7 DEF Opened
  <2> QED BY <1>7, <2>1
             DEF Opened, lruVars, LRUTypeOK, StorageTypeOK, ThreadsTypeOK,
                 CompletionTypeOK
<1>8. CASE Poll \/ PollFails \/ UNCHANGED vars
  BY <1>8 DEF Poll, PollFails, vars, storageVars, lruVars, LRUTypeOK,
              StorageTypeOK, ThreadsTypeOK
<1>9. CASE Crash
  BY <1>9, CrashType
<1> QED
  BY <1>1, <1>2, <1>3, <1>4, <1>5, <1>6, <1>7, <1>8, <1>9 DEF Next, StorageNext

------------------------------------------------------------------------------
(* The storage drives its completion store through the store's operations. *)

LEMMA EvictPieceCompletion ==
    ASSUME TypeOK, NEW t \in Threads, EvictPiece(t)
    PROVE  [CompletionNext]_completionVars
<1>1. Victim(t) \in Pieces
  BY ThreadType
     DEF TypeOK, StorageTypeOK, EvictPiece, EvictSet, EvictFiles, EvictPunch,
         EvictRemove, EvictQueue, Evicting
<1>2. AffectedFiles(Victim(t)) \in SUBSET Files
  BY DEF AffectedFiles
<1>3. FALSE \in BOOLEAN
  OBVIOUS
<1> QED
  BY <1>1, <1>2, <1>3
     DEF EvictPiece, EvictSet, EvictFiles, EvictPunch, EvictRemove, EvictQueue,
         CompletionNext, completionVars

LEMMA StorageNextCompletion ==
    ASSUME TypeOK, [Next]_vars
    PROVE  [CompletionNext]_completionVars
<1>1. ASSUME NEW h \in Hashers, MarkSet(h) \/ MarkNotComplete(h)
      PROVE  [CompletionNext]_completionVars
  <2>1. thread[h].piece \in Pieces
    BY <1>1, HasherPiece DEF TypeOK, StorageTypeOK, MarkSet, MarkNotComplete
  <2>2. TRUE \in BOOLEAN /\ FALSE \in BOOLEAN
    OBVIOUS
  <2> QED BY <1>1, <2>1, <2>2 DEF MarkSet, MarkNotComplete, CompletionNext
<1>2. ASSUME NEW h \in Hashers, EvictPiece(h)
      PROVE  [CompletionNext]_completionVars
  BY <1>2, EvictPieceCompletion DEF Threads
<1>3. ASSUME NEW h \in Hashers, MarkAdd(h) \/ HashDone(h)
      PROVE  UNCHANGED completionVars
  BY <1>3 DEF MarkAdd, HashDone
<1>4. ASSUME NEW h \in Hashers, NEW p \in Pieces, StartHash(h, p)
      PROVE  UNCHANGED completionVars
  BY <1>4 DEF StartHash
<1>5. ASSUME NEW p \in Pieces, Client(p) PROVE UNCHANGED completionVars
  BY <1>5 DEF Client, WriteAt, ReadAt, ReadCompletion
<1>6. CASE SweepReceive \/ SweepTick \/ OpenEvict \/ Opened
  BY <1>6 DEF SweepReceive, SweepTick, OpenEvict, Opened
<1>7. CASE EvictPiece(Sweep)
  BY <1>7, EvictPieceCompletion DEF Threads
<1>8. CASE Poll \/ PollFails
  BY <1>8 DEF Poll, PollFails, CompletionNext
<1>9. CASE Crash
  BY <1>9 DEF Crash, recoverLRU, CompletionNext
<1>10. CASE UNCHANGED vars
  BY <1>10 DEF vars
<1> QED
  BY <1>1, <1>2, <1>3, <1>4, <1>5, <1>6, <1>7, <1>8, <1>9, <1>10
     DEF Next, StorageNext, Hasher

TypesInv == TypeOK /\ CompletionInv

LEMMA TypesInitInv == Init => TypesInv
BY StorageInitType, CompletionInitInv DEF Init, TypesInv, TypeOK, CompletionInv

LEMMA TypesNextInv == TypesInv /\ [Next]_vars => TypesInv'
<1> SUFFICES ASSUME TypesInv, [Next]_vars PROVE TypesInv'
  OBVIOUS
<1>1. LRUTypeOK' /\ StorageTypeOK'
  BY StorageNextType DEF TypesInv
<1>2. CompletionInv'
  BY StorageNextCompletion, CompletionNextInv DEF TypesInv
<1> QED BY <1>1, <1>2 DEF TypesInv, TypeOK, CompletionInv

\* Every variable of the storage keeps to its type; among others the channel
\* never holds more than its capacity, no goroutine is inside evictPiece
\* (mmap.go:354) without a piece, and VerifyData is never called without one.
THEOREM TypeInvariant == Spec => []TypeOK
<1>1. Spec => []TypesInv
  BY TypesInitInv, TypesNextInv, PTL DEF Spec
<1>2. TypesInv => TypeOK
  BY DEF TypesInv
<1> QED BY <1>1, <1>2, PTL

\* Whatever the hashers, the sweep, the poller and crashes do to the completion
\* store of a storage (mmap.go), the store sees a sequence of its own operations
\* (piece_completion.go): what is proved of CompletionSpec holds here.
THEOREM StoreImplemented == Spec => CompletionSpec
<1>1. Init => CompletionInit
  BY DEF Init
<1>2. TypesInv /\ [Next]_vars => [CompletionNext]_completionVars
  BY StorageNextCompletion DEF TypesInv
<1>3. Spec => []TypesInv
  BY TypesInitInv, TypesNextInv, PTL DEF Spec
<1> QED BY <1>1, <1>2, <1>3, PTL DEF Spec, CompletionSpec

\* A file protects its pieces (isProtected, mmap.go:79) only while all of them
\* are complete, and a restart finds in the database what the memory says while
\* no statement has failed, whatever the goroutines of the storage do.
THEOREM StorageBookkeeping ==
    Spec => []CompletedFilesSound /\ []MemoryMatchesDatabase
<1>1. CompletionInv => CompletedFilesSound /\ MemoryMatchesDatabase
  BY DEF CompletionInv
<1> QED BY <1>1, StoreImplemented, CompletionInvariant, PTL

------------------------------------------------------------------------------
(* Holes.                                                                  *)

\* The library hands a piece to one hasher at a time.
OneHasherPerPiece ==
    \A g, h \in Hashers :
        g # h /\ thread[g].at # "idle" /\ thread[h].at # "idle" =>
            thread[g].piece # thread[h].piece

Holes == HolesAnnounced /\ NoForgottenHole /\ OneHasherPerPiece

\* A step keeps the promises about holes if every hole p is announced (or its
\* announcement is lost) after it, or was neither a new hole nor an announced
\* one and nothing new is claimed about it.
LEMMA HolesKept ==
    ASSUME HolesAnnounced, NoForgottenHole, have' \in SUBSET Pieces,
           \A p \in Pieces \ stored' :
              \/ p \in Announced' \cup lost'
              \/ /\ p \notin stored
                 /\ p \notin Announced \cup lost
                 /\ p \in dbPieces' =>
                       p \in dbPieces \/ HasherAt("markSet", p)
                 /\ HasherAt("markSet", p)' => HasherAt("markSet", p)
                 /\ p \in have' =>
                       \/ p \in dbPieces
                       \/ p \in have /\ (HasherAt("refresh", p) =>
                                             HasherAt("refresh", p)')
    PROVE  HolesAnnounced' /\ NoForgottenHole'
BY DEF HolesAnnounced, NoForgottenHole

LEMMA HasherAtKept ==
    ASSUME NEW t \in Threads, OnlyMoves(t), NEW label, NEW p
    PROVE  /\ thread[t].at # label /\ HasherAt(label, p) => HasherAt(label, p)'
           /\ thread'[t].at # label /\ HasherAt(label, p)' => HasherAt(label, p)
BY DEF HasherAt, OnlyMoves, Threads

LEMMA AnnouncedKept ==
    ASSUME NEW t \in Threads, OnlyMoves(t), UNCHANGED verifyCh, NEW p \in Announced
    PROVE  \/ p \in Announced'
           \/ thread[t].at \in {"verify", "unmarkSet"} /\ thread[t].piece = p
           \/ thread[t].at \in {"evictRemove", "evictQueue"} /\ Victim(t) = p
BY DEF Announced, OnlyMoves, Victim

\* A victim is announced to VerifyData, or its announcement is lost.
LEMMA QueueAnnounced ==
    ASSUME TypeOK, NEW t \in Threads, EvictQueue(t), NEW p \in Announced
    PROVE  p \in Announced' \/ (p = Victim(t) /\ lost' = lost \cup {p})
<1>0. ThreadsTypeOK /\ thread[t].at = "evictQueue"
  BY DEF TypeOK, StorageTypeOK, EvictQueue
<1>1. Victim(t) \in Pieces
  BY <1>0, ThreadType DEF Evicting
<1>2. \/ Victim(t) \in {verifyCh'[i] : i \in DOMAIN verifyCh'}
      \/ lost' = lost \cup {Victim(t)}
  BY <1>1 DEF EvictQueue, QueueVerify, TypeOK, StorageTypeOK
<1>3. {verifyCh[i] : i \in DOMAIN verifyCh}
         \subseteq {verifyCh'[i] : i \in DOMAIN verifyCh'}
  BY <1>1 DEF EvictQueue, QueueVerify, TypeOK, StorageTypeOK
<1>4. OnlyMoves(t)
  BY <1>0, EvictEachEffect DEF EvictQueue, EvictNext
<1>5. \A s \in Threads \ {t} : thread'[s] = thread[s] /\ Victim(s)' = Victim(s)
  BY <1>4 DEF OnlyMoves, Victim
<1> QED BY <1>0, <1>2, <1>3, <1>5 DEF Announced

\* The piece that VerifyData asks for is hashed: it is seen to be a hole.
LEMMA StartHashAnnounced ==
    ASSUME TypeOK, NEW h \in Hashers, NEW q \in Pieces, StartHash(h, q),
           NEW p \in Announced
    PROVE  p \in Announced' \/ (p = q /\ q \in stored)
<1>1. /\ verifyCh' = verifyCh /\ thread[h].at = "idle"
      /\ h \in Threads /\ h # Sweep /\ Sweep \in Threads
  BY ThreadsAssumption DEF StartHash, Threads
<1>2. /\ thread'[h].at = IF q \in stored THEN "markSet" ELSE "unmarkSet"
      /\ thread'[h].piece = q
      /\ \A s \in Threads \ {h, Sweep} : thread'[s] = thread[s]
  BY <1>1 DEF StartHash, TypeOK, StorageTypeOK, ThreadsTypeOK, HasherThreads, Threads
<1>3. \/ thread'[Sweep] = thread[Sweep]
      \/ /\ thread[Sweep].at = "verify" /\ thread[Sweep].piece = q
         /\ thread'[Sweep].at = "await"
  <2>1. thread'[Sweep] = [thread[Sweep] EXCEPT !.at =
                            IF thread[Sweep].at = "verify" /\ thread[Sweep].piece = q
                            THEN "await" ELSE @]
    BY <1>1 DEF StartHash, TypeOK, StorageTypeOK, ThreadsTypeOK
  <2> QED BY <2>1 DEF TypeOK, StorageTypeOK, ThreadsTypeOK, SweepThreads
<1>4. ASSUME q \notin stored
      PROVE  q \in Announced'
  <2>1. h \in {s \in Threads : thread'[s].at \in {"verify", "unmarkSet"}}
    BY <1>1, <1>2, <1>4
  <2>2. q \in {thread'[s].piece :
                 s \in {r \in Threads : thread'[r].at \in {"verify", "unmarkSet"}}}
    BY <1>2, <2>1
  <2> QED BY <2>2 DEF Announced
<1>5. ASSUME p # q, NEW s \in Threads, thread[s].at \in {"verify", "unmarkSet"},
             thread[s].piece = p
      PROVE  p \in Announced'
  <2>1. thread'[s] = thread[s]
    BY <1>1, <1>2, <1>3, <1>5
  <2> QED BY <1>5, <2>1 DEF Announced
<1>6. ASSUME NEW s \in Threads, thread[s].at \in {"evictRemove", "evictQueue"},
             Victim(s) = p
      PROVE  p \in Announced'
  <2>1. thread'[s] = thread[s]
    BY <1>1, <1>2, <1>3, <1>6
  <2> QED BY <1>6, <2>1 DEF Announced, Victim
<1>7. ASSUME NEW i \in DOMAIN verifyCh, verifyCh[i] = p
      PROVE  p \in Announced'
  BY <1>1, <1>7 DEF Announced
<1>8. \/ \E i \in DOMAIN verifyCh : verifyCh[i] = p
      \/ \E s \in Threads : /\ thread[s].at \in {"verify", "unmarkSet"}
                           /\ thread[s].piece = p
      \/ \E s \in Threads : /\ thread[s].at \in {"evictRemove", "evictQueue"}
                           /\ Victim(s) = p
  BY DEF Announced
<1>9. CASE p = q
  BY <1>4, <1>9
<1>10. CASE p # q
  <2>1. (\E i \in DOMAIN verifyCh : verifyCh[i] = p) => p \in Announced'
    BY <1>7
  <2>2. (\E s \in Threads : /\ thread[s].at \in {"verify", "unmarkSet"}
                           /\ thread[s].piece = p) => p \in Announced'
    BY <1>5, <1>10
  <2>3. (\E s \in Threads : /\ thread[s].at \in {"evictRemove", "evictQueue"}
                           /\ Victim(s) = p) => p \in Announced'
    BY <1>6
  <2> QED BY <1>8, <2>1, <2>2, <2>3
<1> QED BY <1>9, <1>10

LEMMA HashDoneAnnounced ==
    ASSUME NEW h \in Hashers, HashDone(h), NEW p \in Announced
    PROVE  p \in Announced'
<1>1. /\ verifyCh' = verifyCh /\ thread[h].at = "refresh" /\ h # Sweep
      /\ thread'[h].at = "idle"
      /\ \A s \in Hashers \ {h} : thread'[s] = thread[s]
      /\ \/ thread'[Sweep] = thread[Sweep]
         \/ thread[Sweep].at = "await" /\ thread'[Sweep].at = "idle"
  BY ThreadsAssumption DEF HashDone, Idle, Threads
<1> QED BY <1>1, ThreadsAssumption DEF Announced, Victim, Threads

LEMMA SweepAnnounced ==
    ASSUME TypeOK, SweepReceive \/ SweepTick \/ OpenEvict, NEW p \in Announced
    PROVE  p \in Announced'
<1>1. thread[Sweep].at \in {"idle", "opening"} /\ Sweep \in Threads
  BY DEF SweepReceive, SweepTick, OpenEvict, Threads
<1>2. OnlyMoves(Sweep)
  <2>1. CASE SweepReceive
    BY <2>1 DEF SweepReceive, OnlyMoves, TypeOK, StorageTypeOK, ThreadsTypeOK
  <2>2. CASE SweepTick \/ OpenEvict
    BY <1>1, <2>2, EvictEachEffect
       DEF SweepTick, OpenEvict, evictOverBudget, TypeOK, StorageTypeOK
  <2> QED BY <2>1, <2>2
<1>3. CASE SweepTick \/ OpenEvict
  BY <1>1, <1>2, <1>3, AnnouncedKept DEF SweepTick, OpenEvict
<1>4. CASE SweepReceive
  <2>1. thread'[Sweep].at = "verify" /\ thread'[Sweep].piece = Head(verifyCh)
    BY <1>4 DEF SweepReceive, TypeOK, StorageTypeOK, ThreadsTypeOK, SweepThreads,
                Threads
  <2>2. Head(verifyCh) \in Announced'
    BY <1>1, <2>1 DEF Announced
  <2>3. \A i \in DOMAIN verifyCh :
           \/ verifyCh[i] = Head(verifyCh)
           \/ \E j \in DOMAIN verifyCh' : verifyCh'[j] = verifyCh[i]
    <3>1. ASSUME NEW i \in DOMAIN verifyCh, i # 1
          PROVE  /\ i - 1 \in DOMAIN verifyCh'
                 /\ verifyCh'[i - 1] = verifyCh[i]
      BY <1>4, <3>1 DEF SweepReceive, TypeOK, StorageTypeOK
    <3>2. verifyCh[1] = Head(verifyCh)
      BY <1>4 DEF SweepReceive, TypeOK, StorageTypeOK
    <3> QED BY <3>1, <3>2
  <2>4. \A s \in Threads \ {Sweep} : thread'[s] = thread[s] /\ Victim(s)' = Victim(s)
    BY <1>2 DEF OnlyMoves, Victim
  <2> QED BY <1>1, <2>2, <2>3, <2>4 DEF Announced
<1> QED BY <1>3, <1>4

\* The sets of holes and claims that no step of this kind touches.
LEMMA SameClaims ==
    ASSUME NEW t \in Threads, OnlyMoves(t), NEW p,
           thread[t].at # "refresh", thread'[t].at # "markSet",
           dbPieces' \subseteq dbPieces, UNCHANGED have
    PROVE  /\ p \in dbPieces' => p \in dbPieces
           /\ HasherAt("markSet", p)' => HasherAt("markSet", p)
           /\ p \in have' => p \in have
           /\ HasherAt("refresh", p) => HasherAt("refresh", p)'
BY HasherAtKept

\* A goroutine moves on in an eviction, or into one.
LEMMA OneHasherKept ==
    ASSUME OneHasherPerPiece, NEW t \in Threads, OnlyMoves(t),
           t \in Hashers => /\ thread[t].at # "idle"
                            /\ thread'[t].piece = thread[t].piece
    PROVE  OneHasherPerPiece'
BY DEF OneHasherPerPiece, OnlyMoves, Threads

LEMMA EvictPieceHoles ==
    ASSUME TypeOK, TypeOK', Holes, NEW t \in Threads, EvictPiece(t)
    PROVE  Holes'
<1> USE DEF Holes
<1>0. /\ ThreadsTypeOK /\ have' \in SUBSET Pieces
      /\ thread[t].at \in Evicting
      /\ thread[t].at \notin {"idle", "refresh", "verify", "unmarkSet"}
      /\ UNCHANGED have
  BY DEF TypeOK, StorageTypeOK, EvictPiece, EvictSet, EvictFiles, EvictPunch,
         EvictRemove, EvictQueue, Evicting
<1>1. /\ OnlyMoves(t)
      /\ thread'[t].at # "markSet"
      /\ thread'[t].piece = thread[t].piece
  <2>1. \/ EvictNext(t)
        \/ \E label \in Evicting : Goto(t, label)
    BY DEF EvictPiece, EvictSet, EvictFiles, EvictPunch, EvictRemove, EvictQueue,
           Evicting
  <2>2. CASE EvictNext(t)
    BY <1>0, <2>2, EvictEachEffect DEF EvictNext, EvictionsDone
  <2>3. ASSUME NEW label \in Evicting, Goto(t, label)
        PROVE  /\ OnlyMoves(t)
               /\ thread'[t].at = label
               /\ thread'[t].piece = thread[t].piece
    BY <1>0, <2>3, GotoEffect
  <2> QED BY <2>1, <2>2, <2>3 DEF Evicting
<1>2. OneHasherPerPiece'
  BY <1>0, <1>1, OneHasherKept
<1>3. dbPieces' \subseteq dbPieces
  BY DEF EvictPiece, EvictSet, EvictFiles, EvictPunch, EvictRemove, EvictQueue,
         Set, SetFails, UncompleteFiles, UncompleteFilesFails, completionVars,
         bookVars
<1>4. SUFFICES ASSUME NEW p \in Pieces \ stored'
               PROVE  \/ p \in Announced' \cup lost'
                      \/ p \notin stored /\ p \notin Announced \cup lost
  BY <1>0, <1>1, <1>2, <1>3, SameClaims, HolesKept
<1>5. CASE EvictSet(t) \/ EvictFiles(t)
  BY <1>1, <1>4, <1>5, AnnouncedKept DEF EvictSet, EvictFiles
<1>6. CASE EvictPunch(t)
  <2>1. thread'[t].at = "evictRemove" /\ Victim(t)' = Victim(t)
    BY <1>0, <1>1, <1>6, GotoEffect DEF EvictPunch, Victim
  <2>2. Victim(t) \in Announced'
    BY <2>1 DEF Announced
  <2> QED BY <1>1, <1>4, <1>6, <2>2, AnnouncedKept DEF EvictPunch
<1>7. CASE EvictRemove(t)
  <2>1. thread'[t].at = "evictQueue" /\ Victim(t)' = Victim(t)
    BY <1>0, <1>1, <1>7, GotoEffect DEF EvictRemove, Victim
  <2>2. Victim(t) \in Announced'
    BY <2>1 DEF Announced
  <2> QED BY <1>1, <1>4, <1>7, <2>2, AnnouncedKept DEF EvictRemove
<1>8. CASE EvictQueue(t)
  <2>1. ASSUME p \in Announced PROVE p \in Announced' \cup lost'
    BY <1>8, <2>1, QueueAnnounced
  <2>2. lost \subseteq lost' /\ stored' = stored
    BY <1>8 DEF EvictQueue, QueueVerify
  <2> QED BY <1>4, <2>1, <2>2
<1> QED BY <1>5, <1>6, <1>7, <1>8 DEF EvictPiece

LEMMA MarkHoles ==
    ASSUME TypeOK, TypeOK', Holes, NEW h \in Hashers,
           MarkSet(h) \/ MarkAdd(h) \/ MarkNotComplete(h)
    PROVE  Holes'
<1> USE DEF Holes
<1> PICK q : q = thread[h].piece
  OBVIOUS
<1>0. /\ ThreadsTypeOK /\ have' \in SUBSET Pieces
      /\ h \in Threads /\ h # Sweep
      /\ thread[h].at \in {"markSet", "markAdd", "unmarkSet"}
      /\ UNCHANGED <<have, stored, verifyCh>>
  BY ThreadsAssumption
     DEF Threads, TypeOK, StorageTypeOK, MarkSet, MarkAdd, MarkNotComplete
<1>1. /\ OnlyMoves(h)
      /\ thread'[h].at # "markSet"
      /\ thread'[h].piece = thread[h].piece
  <2>1. CASE MarkAdd(h)
    BY <1>0, <2>1, EvictEachEffect DEF MarkAdd, EvictionsDone
  <2>2. ASSUME NEW label \in {"markAdd", "refresh"}, Goto(h, label)
        PROVE  /\ OnlyMoves(h)
               /\ thread'[h].at = label
               /\ thread'[h].piece = thread[h].piece
    BY <1>0, <2>2, GotoEffect
  <2>3. CASE MarkSet(h)
    BY <2>2, <2>3 DEF MarkSet
  <2>4. CASE MarkNotComplete(h)
    BY <2>2, <2>4 DEF MarkNotComplete
  <2> QED BY <2>1, <2>3, <2>4
<1>2. OneHasherPerPiece'
  BY <1>0, <1>1, OneHasherKept
<1>3. CASE MarkSet(h)
  <2>1. HasherAt("markSet", q)
    BY <1>3 DEF MarkSet, HasherAt
  <2>2. \A p : p \in dbPieces' => p \in dbPieces \/ HasherAt("markSet", p)
    BY <1>3, <2>1 DEF MarkSet, Set, SetFails, completionVars, bookVars
  <2>3. \A p : p \in Announced \cup lost => p \in Announced' \cup lost'
    BY <1>0, <1>1, <1>3, AnnouncedKept DEF MarkSet
  <2>4. \A p : /\ HasherAt("markSet", p)' => HasherAt("markSet", p)
               /\ HasherAt("refresh", p) => HasherAt("refresh", p)'
    BY <1>0, <1>1, <1>3, HasherAtKept DEF MarkSet
  <2> QED BY <1>0, <1>2, <2>2, <2>3, <2>4, HolesKept
<1>4. CASE MarkAdd(h)
  <2>1. \A p : p \in Announced \cup lost => p \in Announced' \cup lost'
    BY <1>0, <1>1, <1>4, AnnouncedKept DEF MarkAdd
  <2>2. dbPieces' = dbPieces
    BY <1>4 DEF MarkAdd, completionVars, bookVars
  <2>3. \A p : /\ HasherAt("markSet", p)' => HasherAt("markSet", p)
               /\ HasherAt("refresh", p) => HasherAt("refresh", p)'
    BY <1>0, <1>1, <1>4, HasherAtKept DEF MarkAdd
  <2> QED BY <1>0, <1>2, <2>1, <2>2, <2>3, HolesKept
<1>5. CASE MarkNotComplete(h)
  <2>1. thread'[h].at = "refresh"
    BY <1>0, <1>5, GotoEffect DEF MarkNotComplete
  <2>2. HasherAt("refresh", q)'
    BY <1>1, <2>1 DEF HasherAt
  <2>3. dbPieces' \subseteq dbPieces /\ (q \in dbPieces' => q \in lost')
    BY <1>5 DEF MarkNotComplete, Set, SetFails, completionVars, bookVars
  <2>4. ~ HasherAt("markSet", q)'
    BY <1>0, <1>1, <1>2, <2>1 DEF HasherAt, OneHasherPerPiece, OnlyMoves, Threads
  <2>5. lost \subseteq lost'
    BY <1>5 DEF MarkNotComplete
  <2>6. \A p \in Announced : p \in Announced' \/ p = q
    BY <1>0, <1>1, <1>5, AnnouncedKept DEF MarkNotComplete
  <2>7. \A p : /\ HasherAt("markSet", p)' => HasherAt("markSet", p)
               /\ HasherAt("refresh", p) => HasherAt("refresh", p)'
    BY <1>0, <1>1, HasherAtKept, <1>5 DEF MarkNotComplete
  <2>8. HolesAnnounced'
    <3> SUFFICES ASSUME NEW p \in Pieces \ stored',
                        p \in dbPieces' \/ HasherAt("markSet", p)'
                 PROVE  p \in Announced' \cup lost'
      BY DEF HolesAnnounced
    <3>1. p \in Announced \cup lost
      BY <1>0, <2>3, <2>7 DEF HolesAnnounced
    <3> QED BY <2>3, <2>4, <2>5, <2>6, <3>1
  <2>9. NoForgottenHole'
    <3> SUFFICES ASSUME NEW p \in have' \ stored'
                 PROVE  p \in Announced' \cup lost' \/ HasherAt("refresh", p)'
      BY DEF NoForgottenHole
    <3>1. p \in Announced \cup lost \/ HasherAt("refresh", p)
      BY <1>0 DEF NoForgottenHole
    <3> QED BY <2>2, <2>5, <2>6, <2>7, <3>1
  <2> QED BY <1>2, <2>8, <2>9
<1> QED BY <1>3, <1>4, <1>5

LEMMA StartHashHoles ==
    ASSUME TypeOK, TypeOK', Holes, NEW h \in Hashers, NEW q \in Pieces,
           StartHash(h, q)
    PROVE  Holes'
<1> USE DEF Holes
<1>1. /\ have' = have /\ stored' = stored /\ verifyCh' = verifyCh
      /\ lost' = lost /\ dbPieces' = dbPieces
      /\ thread[h].at = "idle" /\ q \notin BeingHashed
      /\ h \in Threads /\ h # Sweep /\ Sweep \in Threads
      /\ have' \in SUBSET Pieces
  BY ThreadsAssumption
     DEF StartHash, completionVars, bookVars, Threads, TypeOK, StorageTypeOK
<1>2. /\ thread'[h].at = IF q \in stored THEN "markSet" ELSE "unmarkSet"
      /\ thread'[h].piece = q
      /\ \A s \in Threads \ {h, Sweep} : thread'[s] = thread[s]
  BY <1>1 DEF StartHash, TypeOK, StorageTypeOK, ThreadsTypeOK, HasherThreads, Threads
<1>4. OneHasherPerPiece'
  BY <1>1, <1>2, ThreadsAssumption DEF OneHasherPerPiece, BeingHashed, Threads
<1>5. ASSUME NEW p \in Announced, p \notin stored PROVE p \in Announced'
  BY <1>5, StartHashAnnounced
<1>6. ASSUME NEW p, p \notin stored
      PROVE  /\ HasherAt("markSet", p)' => HasherAt("markSet", p)
             /\ HasherAt("refresh", p) => HasherAt("refresh", p)'
  BY <1>1, <1>2, <1>6, ThreadsAssumption DEF HasherAt, Threads
<1> QED BY <1>1, <1>4, <1>5, <1>6, HolesKept

LEMMA HashDoneHoles ==
    ASSUME TypeOK, TypeOK', Holes, NEW h \in Hashers, HashDone(h)
    PROVE  Holes'
<1> USE DEF Holes
<1> PICK q : q = thread[h].piece
  OBVIOUS
<1>1. /\ have' = (have \ {q}) \cup (dbPieces \cap {q})
      /\ have' \in SUBSET Pieces
      /\ stored' = stored /\ verifyCh' = verifyCh /\ lost' = lost
      /\ dbPieces' = dbPieces
      /\ thread[h].at = "refresh"
      /\ h # Sweep
  BY ThreadsAssumption
     DEF HashDone, Completion, completionVars, bookVars, TypeOK, StorageTypeOK
<1>2. /\ thread'[h].at = "idle"
      /\ \A s \in Hashers \ {h} : thread'[s] = thread[s]
      /\ \/ thread'[Sweep] = thread[Sweep]
         \/ thread[Sweep].at = "await" /\ thread'[Sweep].at = "idle"
  BY <1>1, ThreadsAssumption DEF HashDone, Idle, Threads
<1>3. OneHasherPerPiece'
  BY <1>2 DEF OneHasherPerPiece
<1>4. ASSUME NEW p \in Announced PROVE p \in Announced'
  BY <1>4, HashDoneAnnounced
<1>5. ASSUME NEW p
      PROVE  /\ HasherAt("markSet", p)' => HasherAt("markSet", p)
             /\ p # q /\ HasherAt("refresh", p) => HasherAt("refresh", p)'
  BY <1>2 DEF HasherAt
<1> QED BY <1>1, <1>3, <1>4, <1>5, HolesKept

LEMMA ClientHoles ==
    ASSUME TypeOK, TypeOK', Holes, NEW q \in Pieces, Client(q)
    PROVE  Holes'
<1> USE DEF Holes
<1>1. /\ thread' = thread /\ verifyCh' = verifyCh /\ dbPieces' = dbPieces
      /\ have' \in SUBSET Pieces
  BY DEF Client, WriteAt, ReadAt, ReadCompletion, completionVars, bookVars,
         storageVars, TypeOK, StorageTypeOK
<1>2. OneHasherPerPiece' /\ Announced' = Announced
  BY <1>1 DEF OneHasherPerPiece, Announced, Victim
<1>3. ASSUME NEW label, NEW p
      PROVE  HasherAt(label, p)' <=> HasherAt(label, p)
  BY <1>1 DEF HasherAt
<1>4. /\ \A p \in Pieces \ stored' : p \notin stored /\ (p \in lost => p \in lost')
      /\ have' \subseteq have \cup dbPieces
  BY DEF Client, WriteAt, ReadAt, ReadCompletion, Completion, storageVars
<1> QED BY <1>1, <1>2, <1>3, <1>4, HolesKept

LEMMA SweepHoles ==
    ASSUME TypeOK, TypeOK', Holes, SweepReceive \/ SweepTick \/ OpenEvict
    PROVE  Holes'
<1> USE DEF Holes
<1>1. /\ thread[Sweep].at \in {"idle", "opening"}
      /\ have' = have /\ stored' = stored /\ lost' = lost
      /\ dbPieces' = dbPieces
      /\ have' \in SUBSET Pieces
      /\ Sweep \in Threads
  BY DEF SweepReceive, SweepTick, OpenEvict, completionVars, bookVars, TypeOK,
         StorageTypeOK, Threads
<1>2. OnlyMoves(Sweep)
  <2>1. CASE SweepReceive
    BY <2>1 DEF SweepReceive, OnlyMoves, TypeOK, StorageTypeOK, ThreadsTypeOK
  <2>2. CASE SweepTick \/ OpenEvict
    BY <1>1, <2>2, EvictEachEffect
       DEF SweepTick, OpenEvict, evictOverBudget, TypeOK, StorageTypeOK
  <2> QED BY <2>1, <2>2
<1>3. OneHasherPerPiece'
  BY <1>1, <1>2, ThreadsAssumption, OneHasherKept
<1>4. ASSUME NEW label, NEW p
      PROVE  HasherAt(label, p)' <=> HasherAt(label, p)
  BY <1>2, ThreadsAssumption DEF HasherAt, OnlyMoves, Threads
<1>5. ASSUME NEW p \in Announced PROVE p \in Announced'
  BY <1>5, SweepAnnounced
<1> QED BY <1>1, <1>3, <1>4, <1>5, HolesKept

LEMMA OpenAndCrashHoles ==
    ASSUME TypeOK, TypeOK', Holes, Opened \/ Crash
    PROVE  Holes'
<1> USE DEF Holes
<1>1. CASE Opened
  <2>1. /\ thread' = thread /\ verifyCh' = verifyCh /\ dbPieces' = dbPieces
        /\ stored' = stored /\ lost' = lost /\ have' = dbPieces
        /\ have' \in SUBSET Pieces
    BY <1>1 DEF Opened, completionVars, bookVars, TypeOK, StorageTypeOK
  <2>2. OneHasherPerPiece' /\ Announced' = Announced
    BY <2>1 DEF OneHasherPerPiece, Announced, Victim
  <2>3. ASSUME NEW label, NEW p
        PROVE  HasherAt(label, p)' <=> HasherAt(label, p)
    BY <2>1 DEF HasherAt
  <2> QED BY <2>1, <2>2, <2>3, HolesKept
<1>2. CASE Crash
  <2>1. /\ have' = {} /\ stored' = stored /\ dbPieces' = dbPieces
        /\ lost' = lost \cup Announced
    BY <1>2 DEF Crash, NewPieceCompletion
  <2>2. \A h \in Hashers : thread'[h].at = "idle"
    BY <1>2, ThreadsAssumption DEF Crash, Idle, Threads
  <2>3. OneHasherPerPiece' /\ NoForgottenHole'
    BY <2>1, <2>2 DEF OneHasherPerPiece, NoForgottenHole
  <2>4. HolesAnnounced'
    BY <2>1, <2>2 DEF HolesAnnounced, HasherAt
  <2> QED BY <2>3, <2>4
<1> QED BY <1>1, <1>2

LEMMA HolesNext ==
    ASSUME TypeOK, TypeOK', Holes, [Next]_vars
    PROVE  Holes'
<1>1. ASSUME NEW h \in Hashers, Hasher(h) PROVE Holes'
  BY <1>1, MarkHoles, HashDoneHoles, EvictPieceHoles DEF Hasher, Threads
<1>2. ASSUME NEW h \in Hashers, NEW p \in Pieces, StartHash(h, p) PROVE Holes'
  BY <1>2, StartHashHoles
<1>3. ASSUME NEW p \in Pieces, Client(p) PROVE Holes'
  BY <1>3, ClientHoles
<1>4. CASE SweepReceive \/ SweepTick \/ OpenEvict
  BY <1>4, SweepHoles
<1>5. CASE EvictPiece(Sweep)
  BY <1>5, EvictPieceHoles DEF Threads
<1>6. CASE Opened \/ Crash
  BY <1>6, OpenAndCrashHoles
<1>7. CASE Poll \/ PollFails \/ UNCHANGED vars
  <2>1. UNCHANGED storageVars /\ dbPieces' = dbPieces
    BY <1>7 DEF Poll, PollFails, Poller, PollerScan, PollerWrite, PollerCheck,
                PollerFails, vars, completionVars, bookVars
  <2> QED BY <2>1 DEF storageVars, Holes, HolesAnnounced, NoForgottenHole,
                      OneHasherPerPiece, Announced, Victim, HasherAt
<1> QED BY <1>1, <1>2, <1>3, <1>4, <1>5, <1>6, <1>7 DEF Next, StorageNext

LEMMA HolesInit == Init => Holes
BY ThreadsAssumption
   DEF Init, CompletionInit, Idle, Holes, HolesAnnounced, NoForgottenHole,
       OneHasherPerPiece, HasherAt, Threads

LEMMA HolesInvariant == Spec => []Holes
<1>1. Init => TypesInv /\ Holes
  BY TypesInitInv, HolesInit
<1>2. TypesInv /\ Holes /\ [Next]_vars => (TypesInv /\ Holes)'
  BY TypesNextInv, HolesNext DEF TypesInv
<1> QED BY <1>1, <1>2, PTL DEF Spec

\* A piece that the database records as complete, or that a hasher is about to
\* record, has its data on disk, or its hole is announced or its announcement
\* was lost: the five steps of evictPiece (mmap.go:354) may interleave with
\* any number of other evictions, marks and crashes.
THEOREM HolesAlwaysAnnounced == Spec => []HolesAnnounced
<1>1. Holes => HolesAnnounced
  BY DEF Holes
<1> QED BY <1>1, HolesInvariant, PTL

\* The library takes a punched piece for complete only until the announcement
\* under way reaches it, unless the announcement was lost: dropped at a full
\* channel (mmap.go:405) or with a statement that failed or a crash.
THEOREM HolesNeverForgotten == Spec => []NoForgottenHole
<1>1. Holes => NoForgottenHole
  BY DEF Holes
<1> QED BY <1>1, HolesInvariant, PTL

------------------------------------------------------------------------------
(* The bytes that the tracker counts, and those over budget.               *)

TrackerStays ==
    /\ lruList' = lruList /\ used' = used
    /\ entries' = entries
    /\ UsedCountsTrackedPieces => UsedCountsTrackedPieces'

LEMMA TrackerUnchanged ==
    ASSUME UNCHANGED lruVars PROVE TrackerStays
BY DEF lruVars, TrackerStays, UsedCountsTrackedPieces, TrackedOnce, entries

LEMMA UsedCountsStep ==
    ASSUME TypeOK, UsedCountsTrackedPieces, [Next]_vars
    PROVE  UsedCountsTrackedPieces'
<1>0. LRUTypeOK /\ ThreadsTypeOK /\ dbPieces \in SUBSET Pieces
  BY DEF TypeOK, StorageTypeOK, CompletionTypeOK
<1>1. ASSUME UNCHANGED lruVars PROVE UsedCountsTrackedPieces'
  BY <1>1, TrackerUnchanged DEF TrackerStays
<1>2. ASSUME NEW t \in Threads, EvictPiece(t) PROVE UsedCountsTrackedPieces'
  <2>1. ASSUME EvictRemove(t) PROVE UsedCountsTrackedPieces'
    <3>1. Victim(t) \in Pieces
      BY <1>0, <2>1, ThreadType DEF EvictRemove, Evicting
    <3> QED BY <1>0, <2>1, <3>1, RemoveEffect DEF EvictRemove
  <2> QED BY <1>1, <1>2, <2>1
             DEF EvictPiece, EvictSet, EvictFiles, EvictPunch, EvictQueue
<1>3. ASSUME NEW h \in Hashers, Hasher(h) PROVE UsedCountsTrackedPieces'
  <2>1. ASSUME MarkAdd(h) PROVE UsedCountsTrackedPieces'
    <3>1. thread[h].piece \in Pieces
      BY <1>0, <2>1, HasherPiece DEF MarkAdd
    <3> QED BY <1>0, <2>1, <3>1, AddEffect DEF MarkAdd
  <2> QED BY <1>1, <1>2, <1>3, <2>1
             DEF Hasher, Threads, MarkSet, MarkNotComplete, HashDone
<1>4. ASSUME NEW p \in Pieces, Client(p) PROVE UsedCountsTrackedPieces'
  BY <1>0, <1>1, <1>4, TouchEffect DEF Client, WriteAt, ReadAt, ReadCompletion
<1>5. CASE Crash
  BY <1>0, <1>5, RecoveredEffect DEF Crash, recoverLRU
<1>6. CASE EvictPiece(Sweep)
  BY <1>2, <1>6 DEF Threads
<1>7. CASE \/ \E h \in Hashers, p \in Pieces : StartHash(h, p)
           \/ SweepReceive \/ SweepTick \/ OpenEvict \/ Opened \/ Poll \/ PollFails
           \/ UNCHANGED vars
  BY <1>1, <1>7 DEF StartHash, SweepReceive, SweepTick, OpenEvict, Opened, Poll,
                    PollFails, vars
<1> QED BY <1>3, <1>4, <1>5, <1>6, <1>7 DEF Next, StorageNext

LEMMA UsedCountsInit == Init => UsedCountsTrackedPieces
<1> SUFFICES ASSUME Init PROVE UsedCountsTrackedPieces
  OBVIOUS
<1>1. lruList = << >> /\ used = 0
  BY DEF Init, LRUInit
<1>2. LRUTypeOK /\ Distinct(lruList) /\ entries = {}
  BY <1>1 DEF LRUTypeOK, Distinct, entries
<1> QED BY <1>1, <1>2, UsedCountsIs, SumOfNone

\* PieceLRU.used is the number of bytes of the tracked pieces whatever hashers,
\* readers, the sweep and crashes do: two threads that evict the same piece
\* (mmap.go:393) subtract it once, and a piece marked twice is added once.
THEOREM UsedAlwaysCounts == Spec => []UsedCountsTrackedPieces
<1>1. Spec => []TypesInv
  BY TypesInitInv, TypesNextInv, PTL DEF Spec
<1>2. TypesInv /\ UsedCountsTrackedPieces /\ [Next]_vars
         => UsedCountsTrackedPieces'
  BY UsedCountsStep DEF TypesInv
<1> QED BY <1>1, <1>2, UsedCountsInit, PTL DEF Spec

------------------------------------------------------------------------------
(* The budget.                                                             *)

\* Only a goroutine that evicts has pieces to evict.
NoIdleVictims ==
    \A t \in Threads : thread[t].at \notin Evicting => thread[t].victims = << >>

Covered == used - SumSize(entries \cap PendingEvictions) <= Budget

BudgetInv ==
    /\ UsedCountsTrackedPieces
    /\ ~ closed             \* nothing in the repository calls Close
    /\ NoIdleVictims
    /\ BudgetCovered

LEMMA NoIdleVictimsKept ==
    ASSUME NoIdleVictims, NEW t \in Threads, OnlyMoves(t),
           \/ thread'[t].at \in Evicting
           \/ thread'[t].victims = << >>
           \/ thread[t].at \notin Evicting /\ thread'[t].victims = thread[t].victims
    PROVE  NoIdleVictims'
BY DEF NoIdleVictims, OnlyMoves

LEMMA NoIdleVictimsNext ==
    ASSUME TypeOK, NoIdleVictims, [Next]_vars
    PROVE  NoIdleVictims'
<1>0. ThreadsTypeOK /\ Sweep \in Threads /\ \A h \in Hashers : h \in Threads /\ h # Sweep
  BY ThreadsAssumption DEF TypeOK, StorageTypeOK, Threads
<1>1. ASSUME NEW t \in Threads, NEW label, Goto(t, label),
             label \in Evicting \/ thread[t].at \notin Evicting
      PROVE  NoIdleVictims'
  <2>1. /\ OnlyMoves(t)
        /\ thread'[t].at = label
        /\ thread'[t].victims = thread[t].victims
    BY <1>0, <1>1, GotoEffect
  <2> QED BY <1>1, <2>1, NoIdleVictimsKept
<1>2. ASSUME NEW t \in Threads, NEW victims, EvictEach(t, victims)
      PROVE  NoIdleVictims'
  <2>1. "evictSet" \in Evicting
    BY DEF Evicting
  <2> QED BY <1>0, <1>2, <2>1, EvictEachEffect, NoIdleVictimsKept
<1>3. ASSUME NEW t \in Threads, EvictPiece(t) PROVE NoIdleVictims'
  <2>1. EvictNext(t) \/ \E label \in Evicting : Goto(t, label)
    BY <1>3 DEF EvictPiece, EvictSet, EvictFiles, EvictPunch, EvictRemove,
                EvictQueue, Evicting
  <2> QED BY <1>1, <1>2, <2>1 DEF EvictNext
<1>4. ASSUME NEW h \in Hashers, MarkSet(h) \/ MarkAdd(h) \/ MarkNotComplete(h)
      PROVE  NoIdleVictims'
  <2>1. thread[h].at \notin Evicting
    BY <1>4 DEF MarkSet, MarkAdd, MarkNotComplete, Evicting
  <2> QED BY <1>0, <1>1, <1>2, <1>4, <2>1 DEF MarkSet, MarkAdd, MarkNotComplete
<1>5. ASSUME NEW h \in Hashers, HashDone(h) PROVE NoIdleVictims'
  BY <1>5 DEF HashDone, NoIdleVictims, Idle
<1>6. ASSUME NEW h \in Hashers, NEW p \in Pieces, StartHash(h, p)
      PROVE  NoIdleVictims'
  BY <1>0, <1>6
     DEF StartHash, NoIdleVictims, Evicting, ThreadsTypeOK, HasherThreads,
         SweepThreads, Threads
<1>7. CASE SweepReceive
  BY <1>0, <1>7
     DEF SweepReceive, NoIdleVictims, Evicting, ThreadsTypeOK, SweepThreads,
         HasherThreads, Threads
<1>8. CASE SweepTick \/ OpenEvict
  BY <1>0, <1>2, <1>8 DEF SweepTick, OpenEvict, evictOverBudget
<1>9. CASE Crash
  BY <1>9 DEF Crash, NoIdleVictims, Idle
<1>10. CASE \/ \E p \in Pieces : Client(p)
            \/ Opened \/ Poll \/ PollFails \/ UNCHANGED vars
  BY <1>10 DEF Client, WriteAt, ReadAt, ReadCompletion, Opened, Poll, PollFails, vars,
               storageVars, NoIdleVictims
<1> QED
  BY <1>0, <1>3, <1>4, <1>5, <1>6, <1>7, <1>8, <1>9, <1>10
     DEF Next, StorageNext, Hasher

LEMMA NeverClosed ==
    ASSUME ~ closed, [Next]_vars
    PROVE  ~ closed'
<1>1. ASSUME NEW t \in Threads, EvictPiece(t) PROVE closed' = closed
  BY <1>1 DEF EvictPiece, EvictSet, EvictFiles, EvictPunch, EvictRemove, EvictQueue,
              Set, SetFails, UncompleteFiles, UncompleteFilesFails, completionVars,
              bookVars
<1>2. ASSUME NEW h \in Hashers, Hasher(h) PROVE closed' = closed
  BY <1>1, <1>2 DEF Hasher, Threads, MarkSet, MarkAdd, MarkNotComplete, HashDone, Set,
                    SetFails, completionVars, bookVars
<1>3. CASE Poll \/ PollFails
  BY <1>3 DEF Poll, PollFails, Poller, PollerScan, PollerWrite, PollerCheck,
              PollerFails
<1>4. CASE Crash
  BY <1>4 DEF Crash, NewPieceCompletion, Loaded
<1>5. CASE \/ \E h \in Hashers, p \in Pieces : StartHash(h, p)
           \/ \E p \in Pieces : Client(p)
           \/ SweepReceive \/ SweepTick \/ OpenEvict \/ Opened \/ UNCHANGED vars
  BY <1>5 DEF StartHash, Client, WriteAt, ReadAt, ReadCompletion, SweepReceive,
              SweepTick, OpenEvict, Opened, vars, completionVars, bookVars
<1>6. CASE EvictPiece(Sweep)
  BY <1>1, <1>6 DEF Threads
<1> QED BY <1>2, <1>3, <1>4, <1>5, <1>6 DEF Next, StorageNext

\* What one goroutine is about to remove.
ThreadPending(t) ==
    {thread[t].victims[i] : i \in IF thread[t].at = "evictQueue"
                                  THEN 2 .. Len(thread[t].victims)
                                  ELSE DOMAIN thread[t].victims}

LEMMA PendingIs ==
    /\ \A p : p \in PendingEvictions <=> \E t \in Threads : p \in ThreadPending(t)
    /\ \A p : p \in PendingEvictions' <=> \E t \in Threads : p \in ThreadPending(t)'
BY DEF PendingEvictions, ThreadPending

LEMMA PendingMoves ==
    ASSUME NEW t \in Threads, OnlyMoves(t)
    PROVE  /\ PendingEvictions \subseteq PendingEvictions' \cup ThreadPending(t)
           /\ ThreadPending(t)' \subseteq PendingEvictions'
<1>1. ASSUME NEW s \in Threads, s # t
      PROVE  ThreadPending(s)' = ThreadPending(s)
  BY <1>1 DEF OnlyMoves, ThreadPending
<1>2. PendingEvictions \subseteq PendingEvictions' \cup ThreadPending(t)
  <2> SUFFICES ASSUME NEW s \in Threads, s # t, NEW p \in ThreadPending(s)
               PROVE  p \in PendingEvictions'
    BY PendingIs
  <2> QED BY <1>1, PendingIs
<1>3. ThreadPending(t)' \subseteq PendingEvictions'
  BY PendingIs
<1> QED BY <1>2, <1>3

LEMMA PendingGoto ==
    ASSUME ThreadsTypeOK, NEW t \in Threads, NEW label, Goto(t, label),
           label # "evictQueue", thread[t].at # "evictQueue"
    PROVE  PendingEvictions \subseteq PendingEvictions'
<1>1. /\ OnlyMoves(t)
      /\ thread'[t].at = label
      /\ thread'[t].victims = thread[t].victims
  BY GotoEffect
<1>2. ThreadPending(t)' = ThreadPending(t)
  BY <1>1 DEF ThreadPending
<1> QED BY <1>1, <1>2, PendingMoves

LEMMA PendingEvictEach ==
    ASSUME ThreadsTypeOK, NEW t \in Threads, NEW victims \in Seq(Pieces),
           EvictEach(t, victims)
    PROVE  /\ PendingEvictions \subseteq PendingEvictions' \cup ThreadPending(t)
           /\ Elems(victims) \subseteq PendingEvictions'
<1>1. /\ OnlyMoves(t)
      /\ thread'[t].at = IF victims = << >> THEN EvictionsDone(t) ELSE "evictSet"
      /\ thread'[t].victims = victims
  BY EvictEachEffect
<1>2. ThreadPending(t)' = Elems(victims)
  BY <1>1 DEF ThreadPending, Elems, EvictionsDone
<1> QED BY <1>1, <1>2, PendingMoves

\* Nothing tracked is forgotten among what is about to be removed.
LEMMA CoveredKept ==
    ASSUME LRUTypeOK, LRUTypeOK', UsedCountsTrackedPieces, Covered,
           UsedCountsTrackedPieces', entries' = entries,
           entries \cap PendingEvictions \subseteq PendingEvictions'
    PROVE  Covered'
<1> PICK S \in SUBSET Pieces : S = entries /\ used = SumSize(S)
  BY UsedCountsIs DEF UsedCountsTrackedPieces
<1> PICK before \in SUBSET S : before = entries \cap PendingEvictions
  OBVIOUS
<1> PICK after \in SUBSET S : after = entries' \cap PendingEvictions'
  OBVIOUS
<1>1. used' = SumSize(S)
  BY DEF UsedCountsTrackedPieces
<1>2. before \in SUBSET after /\ after \in SUBSET Pieces /\ before \in SUBSET Pieces
  OBVIOUS
<1>3. SumSize(before) <= SumSize(after)
  BY <1>2, SumOfMore
<1>4. SumSize(S) \in Nat /\ SumSize(before) \in Nat /\ SumSize(after) \in Nat
  BY <1>2, BytesFinite
<1>5. SumSize(S) - SumSize(before) <= Budget
  BY DEF Covered
<1>6. SumSize(S) - SumSize(after) <= Budget
  BY <1>3, <1>4, <1>5, BudgetAssumption
<1> QED BY <1>1, <1>6 DEF Covered

\* All that computeEvictions returned is about to be removed.
LEMMA CoveredByEvictions ==
    ASSUME LRUTypeOK', UsedCountsTrackedPieces',
           NEW prot, NEW evictions \in computeEvictions(lruList', used', prot),
           Elems(evictions) \subseteq PendingEvictions'
    PROVE  Covered'
<1> PICK list \in Seq(Pieces) : list = lruList'
  BY DEF LRUTypeOK
<1> PICK S \in SUBSET Pieces : S = Elems(list)
  BY ElemsType
<1>1. entries' = S
  BY DEF entries, Elems
<1>2. used' = SumSize(S)
  BY <1>1 DEF UsedCountsTrackedPieces
<1>3. SumSize(S) - SumSize(Elems(evictions)) <= Budget
  BY <1>2, EvictionsFit, EvictionEnabled
<1> PICK T \in SUBSET S : T = Elems(evictions)
  BY EvictionsType
<1> PICK after \in SUBSET S : after = S \cap PendingEvictions'
  OBVIOUS
<1>4. T \in SUBSET after /\ after \in SUBSET Pieces /\ T \in SUBSET Pieces
  OBVIOUS
<1>5. SumSize(T) <= SumSize(after)
  BY <1>4, SumOfMore
<1>6. SumSize(S) \in Nat /\ SumSize(T) \in Nat /\ SumSize(after) \in Nat
  BY <1>4, BytesFinite
<1>7. SumSize(S) - SumSize(after) <= Budget
  BY <1>3, <1>5, <1>6, BudgetAssumption
<1> QED BY <1>1, <1>2, <1>7 DEF Covered

\* A piece leaves the tracker and what is about to be removed in one step.
LEMMA CoveredRemove ==
    ASSUME LRUTypeOK, LRUTypeOK', UsedCountsTrackedPieces, Covered,
           UsedCountsTrackedPieces', NEW p \in Pieces, entries' = entries \ {p},
           p \in PendingEvictions,
           PendingEvictions \subseteq PendingEvictions' \cup {p}
    PROVE  Covered'
<1> PICK S \in SUBSET Pieces : S = entries /\ used = SumSize(S)
  BY UsedCountsIs DEF UsedCountsTrackedPieces
<1> PICK before \in SUBSET S : before = entries \cap PendingEvictions
  OBVIOUS
<1> PICK after \in SUBSET S : after = entries' \cap PendingEvictions'
  OBVIOUS
<1>1. used' = SumSize(S \ {p})
  BY DEF UsedCountsTrackedPieces
<1>2. SumSize(S) - SumSize(before) <= Budget
  BY DEF Covered
<1>3. /\ before \ {p} \in SUBSET after
      /\ after \in SUBSET Pieces /\ before \in SUBSET Pieces
      /\ S \ {p} \in SUBSET Pieces /\ before \ {p} \in SUBSET Pieces
      /\ p \in S <=> p \in before
  OBVIOUS
<1>4. SumSize(before \ {p}) <= SumSize(after)
  BY <1>3, SumOfMore
<1>5. SumSize(S \ {p}) - SumSize(before \ {p}) = SumSize(S) - SumSize(before)
  <2>1. CASE p \in S
    <3>1. /\ SumSize(S \ {p}) = SumSize(S) - Size[p]
          /\ SumSize(before \ {p}) = SumSize(before) - Size[p]
      BY <1>3, <2>1, SumWithPiece
    <3>2. SumSize(S) \in Nat /\ SumSize(before) \in Nat /\ Size[p] \in Nat
      BY <1>3, BytesFinite, SizeAssumption
    <3> QED BY <3>1, <3>2
  <2>2. CASE p \notin S
    <3>1. S \ {p} = S /\ before \ {p} = before
      BY <1>3, <2>2
    <3> QED BY <3>1
  <2> QED BY <2>1, <2>2
<1>6. /\ SumSize(S \ {p}) \in Nat /\ SumSize(before \ {p}) \in Nat
      /\ SumSize(after) \in Nat
  BY <1>3, BytesFinite
<1>7. SumSize(S \ {p}) - SumSize(after) <= Budget
  BY <1>2, <1>4, <1>5, <1>6, BudgetAssumption
<1> QED BY <1>1, <1>7 DEF Covered

\* While nothing has failed Set does what it is asked to.
LEMMA FaultsCount ==
    ASSUME TypeOK, Fault
    PROVE  faults' # 0
BY MaxFaultsAssumption DEF TypeOK, CompletionTypeOK, Fault

LEMMA FaultsGrow ==
    ASSUME TypeOK, [Next]_vars, faults' = 0
    PROVE  faults = 0
<1>1. [CompletionNext]_completionVars
  BY StorageNextCompletion
<1>2. faults' = faults \/ Fault
  BY <1>1 DEF CompletionNext, Set, SetFails, UncompleteFiles, UncompleteFilesFails,
              Close, NewPieceCompletion, Poller, PollerScan, PollerWrite,
              PollerCheck, PollerFails, completionVars
<1> QED BY <1>2, FaultsCount

LEMMA EvictPieceCovered ==
    ASSUME TypeOK, TypeOK', BudgetInv, UsedCountsTrackedPieces',
           NEW t \in Threads, EvictPiece(t), faults' = 0, Covered
    PROVE  Covered'
<1>0. /\ ThreadsTypeOK /\ LRUTypeOK /\ LRUTypeOK'
      /\ UsedCountsTrackedPieces /\ ~ closed
      /\ thread[t].at \in Evicting
  BY DEF TypeOK, StorageTypeOK, BudgetInv, EvictPiece, EvictSet, EvictFiles, EvictPunch,
         EvictRemove, EvictQueue, Evicting
<1>1. /\ Victim(t) \in Pieces
      /\ thread[t].victims \in Seq(Pieces) /\ thread[t].victims # << >>
      /\ Tail(thread[t].victims) \in Seq(Pieces)
  BY <1>0, ThreadType
<1>2. ASSUME UNCHANGED lruVars, PendingEvictions \subseteq PendingEvictions'
      PROVE  Covered'
  BY <1>0, <1>2, TrackerUnchanged, CoveredKept DEF TrackerStays
<1>3. CASE EvictSet(t)
  <2>1. ~ SetFails(Victim(t), FALSE)
    BY <1>0, FaultsCount DEF SetFails
  <2>2. PendingEvictions \subseteq PendingEvictions'
    BY <1>0, <1>3, <2>1, PendingGoto DEF EvictSet
  <2> QED BY <1>2, <1>3, <2>2 DEF EvictSet
<1>4. CASE EvictFiles(t)
  BY <1>0, <1>2, <1>4, PendingGoto DEF EvictFiles
<1>5. CASE EvictPunch(t)
  BY <1>0, <1>2, <1>5, PendingGoto DEF EvictPunch
<1>6. CASE EvictRemove(t)
  <2>1. /\ OnlyMoves(t)
        /\ thread'[t].at = "evictQueue"
        /\ thread'[t].victims = thread[t].victims
    BY <1>0, <1>6, GotoEffect DEF EvictRemove
  <2>2. PICK list \in Seq(Pieces) : list = thread[t].victims /\ list # << >>
    BY <1>1
  <2>3. /\ list[1] = Victim(t) /\ 1 \in DOMAIN list
        /\ \A i \in DOMAIN list : i = 1 \/ i \in 2 .. Len(list)
    BY <2>2 DEF Victim
  <2>4. ThreadPending(t) = Elems(list)
    BY <1>6, <2>2 DEF ThreadPending, EvictRemove, Elems
  <2>5. ThreadPending(t)' = {list[i] : i \in 2 .. Len(list)}
    BY <2>1, <2>2 DEF ThreadPending
  <2>6. ThreadPending(t) \subseteq ThreadPending(t)' \cup {Victim(t)}
    BY <2>3, <2>4, <2>5 DEF Elems
  <2>7. Victim(t) \in PendingEvictions
    BY <2>3, <2>4, PendingIs DEF Elems
  <2>8. PendingEvictions \subseteq PendingEvictions' \cup {Victim(t)}
    BY <2>1, <2>6, PendingMoves
  <2>9. entries' = entries \ {Victim(t)}
    BY <1>0, <1>1, <1>6, RemoveEffect DEF EvictRemove
  <2> QED BY <1>0, <1>1, <2>7, <2>8, <2>9, CoveredRemove
<1>7. CASE EvictQueue(t)
  <2>1. PICK list \in Seq(Pieces) : list = thread[t].victims /\ list # << >>
    BY <1>1
  <2>2. EvictEach(t, Tail(list)) /\ Tail(list) \in Seq(Pieces)
    BY <1>7, <2>1 DEF EvictQueue, EvictNext
  <2>3. ThreadPending(t) = {list[i] : i \in 2 .. Len(list)}
    BY <1>7, <2>1 DEF ThreadPending, EvictQueue
  <2>4. \A i \in 2 .. Len(list) : i - 1 \in DOMAIN Tail(list)
                                  /\ Tail(list)[i - 1] = list[i]
    BY <2>1
  <2>5. ThreadPending(t) \subseteq Elems(Tail(list))
    BY <2>3, <2>4 DEF Elems
  <2>6. PendingEvictions \subseteq PendingEvictions'
    BY <1>0, <2>2, <2>5, PendingEvictEach
  <2> QED BY <1>2, <1>7, <2>6 DEF EvictQueue
<1> QED BY <1>3, <1>4, <1>5, <1>6, <1>7 DEF EvictPiece

LEMMA HasherCovered ==
    ASSUME TypeOK, TypeOK', BudgetInv, UsedCountsTrackedPieces',
           NEW h \in Hashers, Hasher(h), faults' = 0, Covered
    PROVE  Covered'
<1>0. /\ ThreadsTypeOK /\ LRUTypeOK /\ LRUTypeOK'
      /\ UsedCountsTrackedPieces /\ NoIdleVictims
      /\ h \in Threads /\ h # Sweep
  BY ThreadsAssumption DEF TypeOK, StorageTypeOK, BudgetInv, Threads
<1>1. ASSUME UNCHANGED lruVars, PendingEvictions \subseteq PendingEvictions'
      PROVE  Covered'
  BY <1>0, <1>1, TrackerUnchanged, CoveredKept DEF TrackerStays
<1>2. ASSUME NEW t \in Threads, thread[t].at \notin Evicting
      PROVE  thread[t].victims = << >> /\ ThreadPending(t) = {}
  <2>1. thread[t].victims = << >> /\ thread[t].at # "evictQueue"
    BY <1>0, <1>2 DEF NoIdleVictims, Evicting
  <2> QED BY <2>1 DEF ThreadPending
<1>3. CASE MarkSet(h)
  BY <1>0, <1>1, <1>3, PendingGoto DEF MarkSet
<1>4. CASE MarkNotComplete(h)
  BY <1>0, <1>1, <1>4, PendingGoto DEF MarkNotComplete
<1>5. CASE MarkAdd(h)
  <2> PICK p \in Pieces : p = thread[h].piece
    BY <1>0, <1>5, HasherPiece DEF MarkAdd
  <2>1. PICK toEvict \in AddReturns(p, ProtectedPieces) : EvictEach(h, toEvict)
    BY <1>5 DEF MarkAdd
  <2>2. thread[h].at \notin Evicting /\ ThreadPending(h) = {}
    BY <1>0, <1>2, <1>5 DEF MarkAdd, Evicting
  <2>3. CASE p \in entries
    <3>1. toEvict = << >>
      BY <2>1, <2>3 DEF AddReturns
    <3>2. toEvict \in Seq(Pieces)
      BY <3>1
    <3>3. PendingEvictions \subseteq PendingEvictions'
      BY <1>0, <2>1, <2>2, <3>2, PendingEvictEach
    <3>4. entries' = entries
      BY <1>0, <1>5, <2>3, AddEffect DEF MarkAdd
    <3> QED BY <1>0, <3>3, <3>4, CoveredKept
  <2>4. CASE p \notin entries
    <3>1. lruList' = <<p>> \o lruList /\ used' = used + Size[p]
      BY <1>5, <2>4 DEF MarkAdd, Add
    <3>2. toEvict \in computeEvictions(lruList', used', ProtectedPieces)
      BY <2>1, <2>4, <3>1 DEF AddReturns
    <3>3. toEvict \in Seq(Pieces)
      BY <1>0, <3>2, EvictionsType DEF LRUTypeOK
    <3>4. Elems(toEvict) \subseteq PendingEvictions'
      BY <1>0, <2>1, <3>3, PendingEvictEach
    <3> QED BY <1>0, <3>2, <3>4, CoveredByEvictions
  <2> QED BY <2>3, <2>4
<1>6. CASE HashDone(h)
  <2>1. ASSUME NEW t \in Threads
        PROVE  ThreadPending(t) \subseteq ThreadPending(t)'
    <3>1. CASE thread'[t] = thread[t]
      BY <3>1 DEF ThreadPending
    <3>2. CASE thread'[t] # thread[t]
      <4>1. thread[t].at \in {"refresh", "await"}
        BY <1>6, <3>2 DEF HashDone
      <4> QED BY <1>2, <4>1 DEF Evicting
    <3> QED BY <3>1, <3>2
  <2>2. PendingEvictions \subseteq PendingEvictions'
    BY <2>1, PendingIs
  <2> QED BY <1>1, <1>6, <2>2 DEF HashDone
<1>7. CASE EvictPiece(h)
  BY <1>0, <1>7, EvictPieceCovered
<1> QED BY <1>3, <1>4, <1>5, <1>6, <1>7 DEF Hasher

LEMMA SweepCovered ==
    ASSUME TypeOK, TypeOK', BudgetInv, UsedCountsTrackedPieces', SweepTick \/ OpenEvict
    PROVE  Covered'
<1>1. PICK toEvict \in computeEvictions(lruList, used, ProtectedPieces) :
         EvictEach(Sweep, toEvict)
  BY DEF SweepTick, OpenEvict, evictOverBudget
<1>2. lruList' = lruList /\ used' = used /\ LRUTypeOK /\ LRUTypeOK' /\ ThreadsTypeOK
  BY DEF SweepTick, OpenEvict, lruVars, TypeOK, StorageTypeOK
<1>3. toEvict \in Seq(Pieces)
  BY <1>1, <1>2, EvictionsType DEF LRUTypeOK
<1>4. Elems(toEvict) \subseteq PendingEvictions'
  BY <1>1, <1>2, <1>3, PendingEvictEach DEF Threads
<1>5. toEvict \in computeEvictions(lruList', used', ProtectedPieces)
  BY <1>1, <1>2
<1> QED BY <1>2, <1>4, <1>5, CoveredByEvictions

LEMMA OthersCovered ==
    ASSUME TypeOK, TypeOK', BudgetInv, UsedCountsTrackedPieces', Covered,
           \/ \E h \in Hashers, p \in Pieces : StartHash(h, p)
           \/ \E p \in Pieces : Client(p)
           \/ SweepReceive \/ Opened \/ Poll \/ PollFails \/ UNCHANGED vars
    PROVE  Covered'
<1>0. /\ ThreadsTypeOK /\ LRUTypeOK /\ LRUTypeOK' /\ UsedCountsTrackedPieces
      /\ NoIdleVictims
  BY DEF TypeOK, StorageTypeOK, BudgetInv
<1>1. entries' = entries
  <2>1. ASSUME NEW p \in Pieces, Client(p) PROVE entries' = entries
    BY <1>0, <2>1, TouchEffect, TrackerUnchanged
       DEF Client, WriteAt, ReadAt, ReadCompletion, TrackerStays
  <2>2. CASE \E p \in Pieces : Client(p)
    BY <2>1, <2>2
  <2>3. CASE ~ \E p \in Pieces : Client(p)
    <3>1. UNCHANGED lruVars
      BY <2>3 DEF StartHash, SweepReceive, Opened, Poll, PollFails, vars
    <3> QED BY <3>1, TrackerUnchanged DEF TrackerStays
  <2> QED BY <2>2, <2>3
<1>2. ASSUME NEW t \in Threads PROVE ThreadPending(t) \subseteq ThreadPending(t)'
  <2>1. CASE thread' = thread
    BY <2>1 DEF ThreadPending
  <2>2. ASSUME thread[t].at \notin Evicting PROVE ThreadPending(t) = {}
    <3>1. thread[t].victims = << >> /\ thread[t].at # "evictQueue"
      BY <1>0, <2>2 DEF NoIdleVictims, Evicting
    <3> QED BY <3>1 DEF ThreadPending
  <2>3. ASSUME NEW h \in Hashers, NEW p \in Pieces, StartHash(h, p)
        PROVE  ThreadPending(t) \subseteq ThreadPending(t)'
    <3>1. CASE t = h \/ (t = Sweep /\ thread[Sweep].at = "verify")
      <4>1. thread[t].at \notin Evicting
        BY <2>3, <3>1 DEF StartHash, Evicting
      <4> QED BY <2>2, <4>1
    <3>2. CASE t # h /\ ~ (t = Sweep /\ thread[Sweep].at = "verify")
      <4>1. [thread[Sweep] EXCEPT !.at = thread[Sweep].at] = thread[Sweep]
        BY <1>0 DEF ThreadsTypeOK, SweepThreads
      <4>2. thread'[t] = thread[t]
        BY <1>0, <2>3, <3>2, <4>1 DEF StartHash, ThreadsTypeOK
      <4> QED BY <4>2 DEF ThreadPending
    <3> QED BY <3>1, <3>2
  <2>4. CASE SweepReceive
    <3>1. CASE t = Sweep
      <4>1. thread[t].at \notin Evicting
        BY <2>4, <3>1 DEF SweepReceive, Evicting
      <4> QED BY <2>2, <4>1
    <3>2. CASE t # Sweep
      <4>1. thread'[t] = thread[t]
        BY <1>0, <2>4, <3>2 DEF SweepReceive, ThreadsTypeOK
      <4> QED BY <4>1 DEF ThreadPending
    <3> QED BY <3>1, <3>2
  <2>5. ASSUME ~ \E h \in Hashers, p \in Pieces : StartHash(h, p), ~ SweepReceive
        PROVE  thread' = thread
    BY <2>5 DEF Client, WriteAt, ReadAt, ReadCompletion, Opened, Poll, PollFails, vars,
                storageVars
  <2> QED BY <2>1, <2>3, <2>4, <2>5
<1>3. PendingEvictions \subseteq PendingEvictions'
  BY <1>2, PendingIs
<1> QED BY <1>0, <1>1, <1>3, CoveredKept

LEMMA BudgetNext ==
    ASSUME TypeOK, TypeOK', BudgetInv, [Next]_vars
    PROVE  BudgetInv'
<1>1. UsedCountsTrackedPieces' /\ ~ closed' /\ NoIdleVictims'
  BY UsedCountsStep, NeverClosed, NoIdleVictimsNext DEF BudgetInv
<1>2. ASSUME faults' = 0, thread'[Sweep].at # "opening" PROVE Covered'
  <2>1. faults = 0
    BY <1>2, FaultsGrow
  <2>2. CASE SweepTick \/ OpenEvict
    BY <1>1, <2>2, SweepCovered
  <2>3. CASE Crash
    BY <1>2, <2>3 DEF Crash, Idle, Threads
  <2>4. ASSUME NEW h \in Hashers, Hasher(h) PROVE Covered'
    <3>1. thread[Sweep].at # "opening"
      <4>1. ThreadsTypeOK /\ h \in Threads /\ h # Sweep /\ Sweep \in Threads
        BY ThreadsAssumption DEF TypeOK, StorageTypeOK, Threads
      <4>2. CASE HashDone(h)
        BY <1>2, <2>4, <4>1, <4>2 DEF HashDone
      <4>3. CASE ~ HashDone(h)
        <5>1. OnlyMoves(h)
          BY <2>4, <4>1, <4>3, GotoEffect, EvictEachEffect
             DEF Hasher, MarkSet, MarkAdd, MarkNotComplete, EvictPiece, EvictSet,
                 EvictFiles, EvictPunch, EvictRemove, EvictQueue, EvictNext
        <5> QED BY <1>2, <4>1, <5>1 DEF OnlyMoves
      <4> QED BY <4>2, <4>3
    <3>2. Covered
      BY <2>1, <3>1 DEF BudgetInv, BudgetCovered, Covered
    <3> QED BY <1>1, <1>2, <2>4, <3>2, HasherCovered
  <2>5. CASE EvictPiece(Sweep)
    <3>1. thread[Sweep].at # "opening"
      BY <2>5 DEF EvictPiece, EvictSet, EvictFiles, EvictPunch, EvictRemove, EvictQueue
    <3>2. Covered
      BY <2>1, <3>1 DEF BudgetInv, BudgetCovered, Covered
    <3> QED BY <1>1, <1>2, <2>5, <3>2, EvictPieceCovered DEF Threads
  <2>6. CASE \/ \E h \in Hashers, p \in Pieces : StartHash(h, p)
             \/ \E p \in Pieces : Client(p)
             \/ SweepReceive \/ Opened \/ Poll \/ PollFails \/ UNCHANGED vars
    <3>1. thread[Sweep].at # "opening"
      <4>1. ASSUME NEW h \in Hashers, NEW p \in Pieces, StartHash(h, p)
            PROVE  thread[Sweep].at # "opening"
        BY <1>2, <4>1, ThreadsAssumption
           DEF StartHash, TypeOK, StorageTypeOK, ThreadsTypeOK, Threads, SweepThreads
      <4>2. CASE SweepReceive
        BY <4>2 DEF SweepReceive
      <4>3. CASE \/ \E p \in Pieces : Client(p)
                 \/ Opened \/ Poll \/ PollFails \/ UNCHANGED vars
        BY <1>2, <4>3 DEF Client, WriteAt, ReadAt, ReadCompletion, Opened, Poll,
                          PollFails, vars, storageVars
      <4> QED BY <2>6, <4>1, <4>2, <4>3
    <3>2. Covered
      BY <2>1, <3>1 DEF BudgetInv, BudgetCovered, Covered
    <3> QED BY <1>1, <2>6, <3>2, OthersCovered
  <2> QED BY <2>2, <2>3, <2>4, <2>5, <2>6 DEF Next, StorageNext
<1>3. BudgetCovered'
  BY <1>2 DEF BudgetCovered, Covered
<1> QED BY <1>1, <1>3 DEF BudgetInv

LEMMA BudgetInit == Init => BudgetInv
<1> SUFFICES ASSUME Init PROVE BudgetInv
  OBVIOUS
<1>1. UsedCountsTrackedPieces
  BY UsedCountsInit
<1>2. NoIdleVictims
  BY DEF Init, Idle, NoIdleVictims
<1>3. BudgetCovered
  <2>1. used = 0 /\ lruList = << >>
    BY DEF Init, LRUInit
  <2>2. entries \cap PendingEvictions = {}
    BY <2>1 DEF entries
  <2>3. SumSize(entries \cap PendingEvictions) = 0
    BY <2>2, SumOfNone
  <2> QED BY <2>1, <2>3, BudgetAssumption DEF BudgetCovered
<1> QED BY <1>1, <1>2, <1>3 DEF BudgetInv, Init, CompletionInit

LEMMA BudgetInvariant == Spec => []BudgetInv
<1>1. Spec => []TypesInv
  BY TypesInitInv, TypesNextInv, PTL DEF Spec
<1>2. TypesInv /\ TypesInv' /\ BudgetInv /\ [Next]_vars => BudgetInv'
  BY BudgetNext DEF TypesInv
<1> QED BY <1>1, <1>2, BudgetInit, PTL DEF Spec

\* As long as nothing has failed the cache is never over its budget by more than
\* what some goroutine is about to evict: the evictions that Add computes while
\* others are under way (mmap.go:277), those of the sweep and those of
\* OpenTorrent add up, whatever pieces they have in common.
THEOREM BudgetAlwaysCovered == Spec => []BudgetCovered
<1>1. BudgetInv => BudgetCovered
  BY DEF BudgetInv
<1> QED BY <1>1, BudgetInvariant, PTL

------------------------------------------------------------------------------
(* What is complete and on disk is tracked.                                *)

\* The library knows of the pieces that the database records as complete,
\* except for those that a hasher is about to tell it of.
LibraryKnows == open => \A p \in dbPieces \ have : p \in BeingHashed

\* Piece p is tracked, or will be once its hasher is through with MarkComplete,
\* or the library is about to learn that it may be gone.
InSight(p) ==
    \/ p \in entries \cup Announced \cup lost
    \/ HasherAt("markSet", p)
    \/ HasherAt("markAdd", p)

MarkedInSight == faults = 0 => \A p \in pieces \cap stored : InSight(p)

TrackedInv == LibraryKnows /\ MarkedInSight

\* What the steps below may assume: no statement has failed up to and including
\* the step, so the memory and the database agree.
Unfailed ==
    /\ TypeOK /\ TypeOK'
    /\ UsedCountsTrackedPieces
    /\ ~ closed
    /\ faults = 0 /\ faults' = 0
    /\ pieces = dbPieces
    /\ \A p \in pieces \cap stored : InSight(p)

LEMMA HashedKept ==
    ASSUME NEW t \in Threads, OnlyMoves(t),
           t \in Hashers => /\ thread'[t].at # "idle"
                            /\ thread'[t].piece = thread[t].piece
    PROVE  BeingHashed \subseteq BeingHashed'
BY DEF BeingHashed, OnlyMoves, Threads

LEMMA EvictPieceMoves ==
    ASSUME ThreadsTypeOK, NEW t \in Threads, EvictPiece(t)
    PROVE  /\ OnlyMoves(t)
           /\ thread[t].at \in Evicting
           /\ thread'[t].at \notin {"idle", "markSet", "markAdd"} \/ t = Sweep
           /\ thread'[t].piece = thread[t].piece
<1>1. \/ EvictNext(t)
      \/ \E label \in Evicting : Goto(t, label)
  BY DEF EvictPiece, EvictSet, EvictFiles, EvictPunch, EvictRemove, EvictQueue,
         Evicting
<1>2. thread[t].at \in Evicting
  BY DEF EvictPiece, EvictSet, EvictFiles, EvictPunch, EvictRemove, EvictQueue,
         Evicting
<1>3. CASE EvictNext(t)
  BY <1>2, <1>3, EvictEachEffect DEF EvictNext, EvictionsDone
<1>4. ASSUME NEW label \in Evicting, Goto(t, label)
      PROVE  /\ OnlyMoves(t)
             /\ thread'[t].at = label
             /\ thread'[t].piece = thread[t].piece
  BY <1>4, GotoEffect
<1> QED BY <1>1, <1>2, <1>3, <1>4 DEF Evicting

LEMMA LibraryKnowsNext ==
    ASSUME TypeOK, LibraryKnows, [Next]_vars
    PROVE  LibraryKnows'
<1>0. /\ ThreadsTypeOK
      /\ Sweep \in Threads /\ \A h \in Hashers : h \in Threads /\ h # Sweep
  BY ThreadsAssumption DEF TypeOK, StorageTypeOK, Threads
<1>1. ASSUME dbPieces' \subseteq dbPieces, UNCHANGED have, open' => open,
             BeingHashed \subseteq BeingHashed'
      PROVE  LibraryKnows'
  BY <1>1 DEF LibraryKnows
<1>2. ASSUME NEW t \in Threads, EvictPiece(t) PROVE LibraryKnows'
  <2>1. BeingHashed \subseteq BeingHashed'
    BY <1>0, <1>2, EvictPieceMoves, HashedKept
  <2>2. dbPieces' \subseteq dbPieces /\ UNCHANGED <<have, open>>
    BY <1>2 DEF EvictPiece, EvictSet, EvictFiles, EvictPunch, EvictRemove, EvictQueue,
                Set, SetFails, UncompleteFiles, UncompleteFilesFails, completionVars,
                bookVars
  <2> QED BY <1>1, <2>1, <2>2
<1>3. ASSUME NEW h \in Hashers, MarkSet(h) \/ MarkAdd(h) \/ MarkNotComplete(h)
      PROVE  LibraryKnows'
  <2>1. /\ OnlyMoves(h)
        /\ thread'[h].at # "idle"
        /\ thread'[h].piece = thread[h].piece
    <3>1. \/ Goto(h, "markAdd") \/ Goto(h, "refresh")
          \/ \E victims : EvictEach(h, victims)
      BY <1>3 DEF MarkSet, MarkAdd, MarkNotComplete
    <3>2. ASSUME NEW victims, EvictEach(h, victims)
          PROVE  /\ OnlyMoves(h)
                 /\ thread'[h].at # "idle"
                 /\ thread'[h].piece = thread[h].piece
      BY <1>0, <3>2, EvictEachEffect DEF EvictionsDone
    <3>3. ASSUME NEW label \in {"markAdd", "refresh"}, Goto(h, label)
          PROVE  /\ OnlyMoves(h)
                 /\ thread'[h].at # "idle"
                 /\ thread'[h].piece = thread[h].piece
      BY <1>0, <3>3, GotoEffect
    <3> QED BY <3>1, <3>2, <3>3
  <2>2. BeingHashed \subseteq BeingHashed' /\ thread[h].piece \in BeingHashed'
    BY <1>0, <2>1, HashedKept DEF BeingHashed
  <2>3. /\ dbPieces' \subseteq dbPieces \cup {thread[h].piece}
        /\ UNCHANGED <<have, open>>
    BY <1>3 DEF MarkSet, MarkAdd, MarkNotComplete, Set, SetFails, completionVars,
                bookVars
  <2> QED BY <2>2, <2>3 DEF LibraryKnows
<1>4. ASSUME NEW h \in Hashers, HashDone(h) PROVE LibraryKnows'
  <2>1. /\ have' = (have \ {thread[h].piece}) \cup (dbPieces \cap {thread[h].piece})
        /\ UNCHANGED <<dbPieces, open>>
    BY <1>4 DEF HashDone, Completion, completionVars, bookVars
  <2>2. \A g \in Hashers \ {h} : thread'[g] = thread[g]
    BY <1>0, <1>4 DEF HashDone
  <2>3. BeingHashed \subseteq BeingHashed' \cup {thread[h].piece}
    BY <2>2 DEF BeingHashed
  <2> QED BY <2>1, <2>3 DEF LibraryKnows
<1>5. ASSUME NEW h \in Hashers, NEW q \in Pieces, StartHash(h, q)
      PROVE  LibraryKnows'
  <2>1. thread[h].at = "idle" /\ UNCHANGED <<dbPieces, have, open>>
    BY <1>5 DEF StartHash, completionVars, bookVars
  <2>2. \A g \in Hashers \ {h} : thread'[g] = thread[g]
    BY <1>0, <1>5 DEF StartHash, ThreadsTypeOK
  <2>3. BeingHashed \subseteq BeingHashed'
    BY <2>1, <2>2 DEF BeingHashed
  <2> QED BY <1>1, <2>1, <2>3
<1>6. ASSUME NEW p \in Pieces, Client(p) PROVE LibraryKnows'
  <2>1. /\ UNCHANGED <<dbPieces, open, thread>>
        /\ have' \in {have, (have \ {p}) \cup (dbPieces \cap {p})}
    BY <1>6 DEF Client, WriteAt, ReadAt, ReadCompletion, Completion, completionVars,
                bookVars, storageVars
  <2>2. BeingHashed' = BeingHashed
    BY <2>1 DEF BeingHashed
  <2> QED BY <2>1, <2>2 DEF LibraryKnows
<1>7. CASE SweepReceive \/ SweepTick \/ OpenEvict
  <2>1. UNCHANGED <<dbPieces, have, open>>
    BY <1>7 DEF SweepReceive, SweepTick, OpenEvict, completionVars, bookVars
  <2>2. \A g \in Hashers : thread'[g] = thread[g]
    BY <1>0, <1>7 DEF SweepReceive, SweepTick, OpenEvict, evictOverBudget, EvictEach,
                      ThreadsTypeOK
  <2>3. BeingHashed' = BeingHashed
    BY <2>2 DEF BeingHashed
  <2> QED BY <1>1, <2>1, <2>3
<1>8. CASE Opened \/ Crash
  BY <1>8 DEF Opened, Crash, LibraryKnows, completionVars, bookVars
<1>9. CASE Poll \/ PollFails \/ UNCHANGED vars
  <2>1. UNCHANGED <<dbPieces, have, open, thread>>
    BY <1>9 DEF Poll, PollFails, Poller, PollerScan, PollerWrite, PollerCheck,
                PollerFails, vars, storageVars, completionVars, bookVars
  <2>2. BeingHashed' = BeingHashed
    BY <2>1 DEF BeingHashed
  <2> QED BY <1>1, <2>1, <2>2
<1> QED BY <1>0, <1>2, <1>3, <1>4, <1>5, <1>6, <1>7, <1>8, <1>9
        DEF Next, StorageNext, Hasher

LEMMA EvictPieceInSight ==
    ASSUME Unfailed, NEW t \in Threads, EvictPiece(t), NEW p \in pieces' \cap stored'
    PROVE  InSight(p)'
<1>0. ThreadsTypeOK /\ LRUTypeOK /\ UsedCountsTrackedPieces /\ Sweep \notin Hashers
  BY ThreadsAssumption DEF Unfailed, TypeOK, StorageTypeOK
<1>1. /\ OnlyMoves(t) /\ thread[t].at \in Evicting /\ Victim(t) \in Pieces
      /\ thread'[t].at \notin {"markSet", "markAdd"} \/ t \notin Hashers
  BY <1>0, EvictPieceMoves, ThreadType
<1>2. HasherAt("markSet", p) \/ HasherAt("markAdd", p) => InSight(p)'
  BY <1>1, HasherAtKept DEF InSight, Evicting
<1>3. ASSUME UNCHANGED <<entries, lost, verifyCh>>, InSight(p),
             thread[t].at \notin {"evictRemove", "evictQueue"}
      PROVE  InSight(p)'
  BY <1>1, <1>2, <1>3, AnnouncedKept DEF InSight, Evicting
<1>4. pieces' \subseteq pieces /\ stored' \subseteq stored
  BY DEF EvictPiece, EvictSet, EvictFiles, EvictPunch, EvictRemove, EvictQueue, Set,
         SetFails, SetInMemory, Uncomplete, UncompleteFiles, UncompleteFilesFails,
         completionVars, bookVars, memVars
<1>5. InSight(p)
  BY <1>4 DEF Unfailed
<1>6. CASE EvictSet(t) \/ EvictFiles(t) \/ EvictPunch(t)
  <2>1. UNCHANGED <<entries, lost, verifyCh>>
    BY <1>6, TrackerUnchanged DEF EvictSet, EvictFiles, EvictPunch, TrackerStays
  <2> QED BY <1>3, <1>5, <1>6, <2>1 DEF EvictSet, EvictFiles, EvictPunch
<1>7. CASE EvictRemove(t)
  <2>1. /\ thread'[t].at = "evictQueue" /\ Victim(t)' = Victim(t)
        /\ UNCHANGED <<lost, verifyCh>>
    BY <1>0, <1>7, GotoEffect DEF EvictRemove, Victim
  <2>2. Victim(t) \in Announced'
    BY <2>1 DEF Announced
  <2>3. entries' = entries \ {Victim(t)}
    BY <1>0, <1>1, <1>7, RemoveEffect DEF EvictRemove
  <2> QED BY <1>1, <1>2, <1>5, <1>7, <2>1, <2>2, <2>3, AnnouncedKept
          DEF InSight, EvictRemove
<1>8. CASE EvictQueue(t)
  <2>1. entries' = entries
    BY <1>8, TrackerUnchanged DEF EvictQueue, TrackerStays
  <2>2. p \in Announced => p \in Announced' \cup lost'
    BY <1>8, QueueAnnounced DEF Unfailed
  <2>3. p \in lost => p \in lost'
    BY <1>8 DEF EvictQueue, QueueVerify
  <2> QED BY <1>2, <1>5, <2>1, <2>2, <2>3 DEF InSight
<1> QED BY <1>6, <1>7, <1>8 DEF EvictPiece

LEMMA MarkInSight ==
    ASSUME Unfailed, NEW h \in Hashers, MarkSet(h) \/ MarkAdd(h) \/ MarkNotComplete(h),
           NEW p \in pieces' \cap stored'
    PROVE  InSight(p)'
<1>0. /\ ThreadsTypeOK /\ LRUTypeOK /\ UsedCountsTrackedPieces
      /\ h \in Threads /\ h # Sweep
  BY ThreadsAssumption DEF Unfailed, TypeOK, StorageTypeOK, Threads
<1> PICK q \in Pieces : q = thread[h].piece
  BY <1>0, HasherPiece DEF MarkSet, MarkAdd, MarkNotComplete
<1>1. \A piece : ~ SetFails(q, piece)
  BY FaultsCount DEF SetFails, Unfailed
<1>2. OnlyMoves(h) /\ thread'[h].piece = q /\ UNCHANGED <<verifyCh, stored>>
  <2>1. CASE MarkAdd(h)
    BY <1>0, <2>1, EvictEachEffect DEF MarkAdd
  <2>2. CASE MarkSet(h) \/ MarkNotComplete(h)
    BY <1>0, <2>2, GotoEffect DEF MarkSet, MarkNotComplete
  <2> QED BY <2>1, <2>2
<1>3. ASSUME p # q, entries \subseteq entries', lost' = lost, p \in pieces
      PROVE  InSight(p)'
  <2>1. InSight(p)
    BY <1>2, <1>3 DEF Unfailed
  <2>2. thread[h].at \notin {"verify", "evictRemove", "evictQueue"}
    BY DEF MarkSet, MarkAdd, MarkNotComplete
  <2>3. p \in Announced => p \in Announced'
    BY <1>0, <1>2, <1>3, <2>2, AnnouncedKept
  <2>4. /\ HasherAt("markSet", p) => HasherAt("markSet", p)'
        /\ HasherAt("markAdd", p) => HasherAt("markAdd", p)'
    BY <1>0, <1>2, <1>3 DEF HasherAt, OnlyMoves, Threads
  <2> QED BY <1>3, <2>1, <2>3, <2>4 DEF InSight
<1>4. CASE MarkSet(h)
  <2>1. /\ thread'[h].at = "markAdd" /\ UNCHANGED <<lruVars, lost>>
        /\ pieces' \subseteq pieces \cup {q}
    BY <1>0, <1>1, <1>4, GotoEffect DEF MarkSet, Set, SetInMemory, Complete, memVars
  <2>2. HasherAt("markAdd", q)' /\ entries' = entries
    BY <1>2, <2>1, TrackerUnchanged DEF HasherAt, TrackerStays
  <2> QED BY <1>3, <2>1, <2>2 DEF InSight
<1>5. CASE MarkAdd(h)
  <2>1. entries' = entries \cup {q}
    BY <1>0, <1>5, AddEffect DEF MarkAdd
  <2> QED BY <1>3, <1>5, <2>1 DEF InSight, MarkAdd, completionVars, bookVars, memVars
<1>6. CASE MarkNotComplete(h)
  <2>1. Set(q, FALSE) /\ UNCHANGED <<lruVars, lost>>
    BY <1>1, <1>6 DEF MarkNotComplete
  <2>2. pieces' = pieces \ {q}
    BY <2>1 DEF Set, SetInMemory, Uncomplete, memVars
  <2>3. entries' = entries
    BY <2>1, TrackerUnchanged DEF TrackerStays
  <2> QED BY <1>3, <2>1, <2>2, <2>3
<1> QED BY <1>4, <1>5, <1>6

LEMMA HashInSight ==
    ASSUME Unfailed, NEW h \in Hashers, NEW p \in pieces' \cap stored',
           HashDone(h) \/ \E q \in Pieces : StartHash(h, q)
    PROVE  InSight(p)'
<1>0. ThreadsTypeOK /\ Sweep \notin Hashers /\ h \in Threads
  BY ThreadsAssumption DEF Unfailed, TypeOK, StorageTypeOK, Threads
<1>1. /\ UNCHANGED <<pieces, stored, lruVars, lost>>
      /\ thread[h].at \in {"refresh", "idle"}
      /\ \A g \in Hashers \ {h} : thread'[g] = thread[g]
  <2>1. CASE HashDone(h)
    BY <1>0, <2>1 DEF HashDone, completionVars, bookVars, memVars, Threads
  <2>2. CASE \E q \in Pieces : StartHash(h, q)
    BY <1>0, <2>2
       DEF StartHash, completionVars, bookVars, memVars, ThreadsTypeOK, Threads
  <2> QED BY <2>1, <2>2
<1>2. InSight(p) /\ entries' = entries
  BY <1>1, TrackerUnchanged DEF Unfailed, TrackerStays
<1>3. /\ HasherAt("markSet", p) => HasherAt("markSet", p)'
      /\ HasherAt("markAdd", p) => HasherAt("markAdd", p)'
  BY <1>1 DEF HasherAt
<1>4. CASE HashDone(h)
  BY <1>1, <1>2, <1>3, <1>4, HashDoneAnnounced DEF InSight
<1>5. ASSUME NEW q \in Pieces, StartHash(h, q) PROVE InSight(p)'
  <2>1. p \in Announced => p \in Announced' \/ (p = q /\ q \in stored)
    BY <1>5, StartHashAnnounced DEF Unfailed
  <2>2. q \in stored => HasherAt("markSet", q)'
    <3>1. q \in stored => thread'[h].at = "markSet" /\ thread'[h].piece = q
      BY <1>0, <1>5 DEF StartHash, ThreadsTypeOK, HasherThreads
    <3> QED BY <3>1 DEF HasherAt
  <2> QED BY <1>1, <1>2, <1>3, <2>1, <2>2 DEF InSight
<1> QED BY <1>4, <1>5

LEMMA ClientInSight ==
    ASSUME Unfailed, LibraryKnows, NEW q \in Pieces, Client(q),
           NEW p \in pieces' \cap stored'
    PROVE  InSight(p)'
<1>1. UNCHANGED <<pieces, thread, verifyCh>> /\ entries' = entries
  BY TouchEffect, TrackerUnchanged
     DEF Unfailed, TypeOK, TrackerStays, Client, WriteAt, ReadAt, ReadCompletion,
         completionVars, bookVars, memVars, storageVars
<1>2. Announced' = Announced /\ \A label : HasherAt(label, p)' <=> HasherAt(label, p)
  BY <1>1 DEF Announced, Victim, HasherAt
<1>3. CASE UNCHANGED <<stored, lost>>
  BY <1>1, <1>2, <1>3 DEF Unfailed, InSight
<1>4. CASE WriteAt(q)
  \* The library writes only pieces that it does not take for complete.
  <2>1. q \notin pieces
    BY <1>4 DEF WriteAt, LibraryKnows, Unfailed
  <2>2. p # q /\ stored' = stored \cup {q} /\ lost' = lost \ {q}
    BY <1>1, <1>4, <2>1 DEF WriteAt
  <2> QED BY <1>1, <1>2, <2>2 DEF Unfailed, InSight
<1> QED BY <1>3, <1>4 DEF Client, ReadAt, ReadCompletion, storageVars

LEMMA OthersInSight ==
    ASSUME Unfailed, NEW p \in pieces' \cap stored',
           \/ SweepReceive \/ SweepTick \/ OpenEvict \/ Opened
           \/ Poll \/ PollFails \/ UNCHANGED vars
    PROVE  InSight(p)'
<1>0. ThreadsTypeOK /\ Sweep \notin Hashers
  BY ThreadsAssumption DEF Unfailed, TypeOK, StorageTypeOK
<1>1. /\ UNCHANGED <<pieces, stored, lost, lruVars>>
      /\ \A h \in Hashers : thread'[h] = thread[h]
  <2>1. CASE SweepReceive \/ SweepTick \/ OpenEvict
    BY <1>0, <2>1 DEF SweepReceive, SweepTick, OpenEvict, evictOverBudget, EvictEach,
                      ThreadsTypeOK, Threads, completionVars, bookVars, memVars
  <2>2. CASE Opened
    BY <2>2 DEF Opened, completionVars, bookVars, memVars
  <2>3. CASE Poll \/ PollFails \/ UNCHANGED vars
    BY <2>3 DEF Poll, PollFails, Poller, PollerScan, PollerWrite, PollerCheck,
                PollerFails, vars, storageVars, completionVars, bookVars, memVars
  <2> QED BY <2>1, <2>2, <2>3
<1>2. /\ InSight(p) /\ entries' = entries
      /\ \A label : HasherAt(label, p) => HasherAt(label, p)'
  BY <1>1, TrackerUnchanged DEF Unfailed, TrackerStays, HasherAt
<1>3. p \in Announced => p \in Announced'
  <2>1. CASE SweepReceive \/ SweepTick \/ OpenEvict
    BY <2>1, SweepAnnounced DEF Unfailed
  <2>2. CASE Opened \/ Poll \/ PollFails \/ UNCHANGED vars
    <3>1. UNCHANGED <<verifyCh, thread>>
      BY <2>2 DEF Opened, Poll, PollFails, vars, storageVars
    <3> QED BY <3>1 DEF Announced, Victim
  <2> QED BY <2>1, <2>2
<1> QED BY <1>1, <1>2, <1>3 DEF InSight

LEMMA CrashInSight ==
    ASSUME Unfailed, Crash, NEW p \in pieces' \cap stored'
    PROVE  InSight(p)'
<1>1. pieces' = dbPieces
  BY DEF Crash, NewPieceCompletion, Loaded
<1>2. PICK found \in SUBSET dbPieces :
         /\ IF found = dbPieces THEN UNCHANGED faults ELSE Fault
         /\ lruList' \in SeqExt!SetToSeqs(found)
         /\ used' = SumSize(found)
  BY DEF Crash, recoverLRU
<1>3. found = dbPieces
  BY <1>2, FaultsCount DEF Unfailed
<1>4. entries' = dbPieces
  BY <1>2, <1>3, RecoveredEffect DEF Unfailed, TypeOK, CompletionTypeOK
<1> QED BY <1>1, <1>4 DEF InSight

LEMMA TrackedNext ==
    ASSUME TypesInv, TypesInv', BudgetInv, TrackedInv, [Next]_vars
    PROVE  TrackedInv'
<1>1. LibraryKnows'
  BY LibraryKnowsNext DEF TypesInv, TrackedInv
<1>2. ASSUME faults' = 0, NEW p \in pieces' \cap stored'
      PROVE  InSight(p)'
  <2>1. Unfailed
    BY <1>2, FaultsGrow DEF Unfailed, TypesInv, BudgetInv, TrackedInv, MarkedInSight,
                            CompletionInv, MemoryMatchesDatabase
  <2>2. ASSUME NEW h \in Hashers, Hasher(h) PROVE InSight(p)'
    BY <2>1, <2>2, MarkInSight, HashInSight, EvictPieceInSight DEF Hasher, Threads
  <2>3. ASSUME NEW h \in Hashers, NEW q \in Pieces, StartHash(h, q)
        PROVE  InSight(p)'
    BY <2>1, <2>3, HashInSight
  <2>4. ASSUME NEW q \in Pieces, Client(q) PROVE InSight(p)'
    BY <2>1, <2>4, ClientInSight DEF TrackedInv
  <2>5. CASE EvictPiece(Sweep)
    BY <2>1, <2>5, EvictPieceInSight DEF Threads
  <2>6. CASE Crash
    BY <2>1, <2>6, CrashInSight
  <2>7. CASE \/ SweepReceive \/ SweepTick \/ OpenEvict \/ Opened
             \/ Poll \/ PollFails \/ UNCHANGED vars
    BY <2>1, <2>7, OthersInSight
  <2> QED BY <2>2, <2>3, <2>4, <2>5, <2>6, <2>7 DEF Next, StorageNext
<1>3. MarkedInSight'
  BY <1>2 DEF MarkedInSight
<1> QED BY <1>1, <1>3 DEF TrackedInv

\* The data of a complete piece takes disk space that the tracker counts, or will
\* once a goroutine under way is through: a piece marked complete again while it
\* was being evicted (MarkComplete, mmap.go:261, against evictPiece, mmap.go:354)
\* escapes the tracker only until VerifyData has it hashed, unless its
\* notification was lost.
THEOREM CompleteAlwaysTracked == Spec => []CompletePiecesTracked
<1>1. Init => TrackedInv
  BY DEF Init, CompletionInit, TrackedInv, LibraryKnows, MarkedInSight
<1>2. TypesInv /\ TypesInv' /\ BudgetInv /\ TrackedInv /\ [Next]_vars => TrackedInv'
  BY TrackedNext
<1>3. TrackedInv => CompletePiecesTracked
  <2>1. \A p : HasherAt("markSet", p) \/ HasherAt("markAdd", p) => p \in BeingHashed
    BY DEF HasherAt, BeingHashed
  <2> QED BY <2>1 DEF TrackedInv, MarkedInSight, InSight, CompletePiecesTracked
<1>4. Spec => []TypesInv
  BY TypesInitInv, TypesNextInv, PTL DEF Spec
<1> QED BY <1>1, <1>2, <1>3, <1>4, BudgetInvariant, PTL DEF Spec


------------------------------------------------------------------------------
(* The promise to the library.                                             *)

\* A goroutine that is not through with an announcement keeps its notices.
LEMMA UntoldKept ==
    ASSUME NEW t \in Threads, OnlyMoves(t), UNCHANGED verifyCh,
           thread[t].at \notin {"verify", "evictRemove", "evictQueue"},
           IF t \in Hashers
           THEN thread'[t].at # "idle" /\ thread'[t].piece = thread[t].piece
           ELSE thread[t].at # "unmarkSet"
    PROVE  Untold \subseteq Untold'
<1>1. BeingHashed \subseteq BeingHashed'
  BY HashedKept
<1>2. ASSUME NEW p \in Announced PROVE p \in Untold'
  <2>1. CASE p \in Announced'
    BY <2>1 DEF Untold
  <2>2. CASE t \in Hashers /\ thread[t].piece = p
    BY <2>2 DEF Untold, BeingHashed
  <2> QED BY <2>1, <2>2, AnnouncedKept
<1> QED BY <1>1, <1>2 DEF Untold

LEMMA Notified ==
    ASSUME UNCHANGED <<stored, have, dbPieces, lost>>, Untold \subseteq Untold'
    PROVE  Promise!NoticesNext
BY DEF Promise!NoticesNext, Promise!Notify, Promise!NoticesStay

LEMMA Erased ==
    ASSUME UNCHANGED <<stored, have, lost>>, Untold \subseteq Untold',
           NEW p \in Pieces, dbPieces' = dbPieces \ {p}
    PROVE  Promise!NoticesNext
BY DEF Promise!NoticesNext, Promise!Erase, Promise!NoticesStay

LEMMA Missed ==
    ASSUME UNCHANGED <<stored, have, dbPieces>>,
           NEW p \in Pieces, lost' = lost \cup {p}, Untold \ {p} \subseteq Untold'
    PROVE  Promise!NoticesNext
BY DEF Promise!NoticesNext, Promise!Miss, Promise!NoticesStay

LEMMA Told ==
    ASSUME UNCHANGED <<stored, dbPieces, lost>>, NEW p \in Pieces, Completion(p),
           Untold \ {p} \subseteq Untold',
           p \in dbPieces \ stored => p \in Untold' \cup lost
    PROVE  Promise!NoticesNext
BY DEF Promise!NoticesNext, Promise!Tell, Promise!NoticesStay, Completion

LEMMA EvictPiecePromise ==
    ASSUME TypeOK, NEW t \in Threads, EvictPiece(t)
    PROVE  Promise!NoticesNext
<1> DEFINE v == Victim(t)
<1>0. ThreadsTypeOK /\ Sweep \notin Hashers
  BY ThreadsAssumption DEF TypeOK, StorageTypeOK
<1>1. /\ OnlyMoves(t)
      /\ thread[t].at \in Evicting
      /\ thread'[t].piece = thread[t].piece
      /\ t \in Hashers => thread'[t].at # "idle"
  BY <1>0, EvictPieceMoves
<1>2. v \in Pieces
  BY <1>0, <1>1, ThreadType
<1>3. BeingHashed \subseteq BeingHashed'
  BY <1>1, HashedKept
<1>4. CASE EvictSet(t)
  <2>1. Untold \subseteq Untold'
    BY <1>1, <1>4, UntoldKept DEF EvictSet
  <2>2. /\ UNCHANGED <<stored, have, lost>>
        /\ dbPieces' \in {dbPieces, dbPieces \ {v}}
    BY <1>4 DEF EvictSet, Set, SetFails, completionVars, bookVars
  <2> QED BY <1>2, <2>1, <2>2, Notified, Erased
<1>5. CASE EvictFiles(t)
  <2>1. Untold \subseteq Untold'
    BY <1>1, <1>5, UntoldKept DEF EvictFiles
  <2>2. UNCHANGED <<stored, have, dbPieces, lost>>
    BY <1>5 DEF EvictFiles, UncompleteFiles, UncompleteFilesFails, completionVars,
                bookVars
  <2> QED BY <2>1, <2>2, Notified
<1>6. CASE EvictPunch(t)
  <2>1. Untold \subseteq Untold'
    BY <1>1, <1>6, UntoldKept DEF EvictPunch
  <2>2. thread'[t].at = "evictRemove" /\ v' = v
    BY <1>0, <1>6, GotoEffect DEF EvictPunch, Victim
  <2>3. v \in Untold'
    BY <2>2 DEF Untold, Announced
  <2>4. /\ UNCHANGED <<have, dbPieces, lost>>
        /\ stored' \in {stored, stored \ {v}}
    BY <1>6 DEF EvictPunch, completionVars, bookVars
  <2>5. Promise!Punch(v)
    BY <2>1, <2>3, <2>4 DEF Promise!Punch, Promise!NoticesStay
  <2> QED BY <1>2, <2>5 DEF Promise!NoticesNext
<1>7. CASE EvictRemove(t)
  <2>1. thread'[t].at = "evictQueue" /\ v' = v
    BY <1>0, <1>7, GotoEffect DEF EvictRemove, Victim
  <2>2. v \in Announced'
    BY <2>1 DEF Announced
  <2>3. \A p \in Announced : p \in Announced'
    BY <1>1, <1>7, <2>2, AnnouncedKept DEF EvictRemove
  <2>4. UNCHANGED <<stored, have, dbPieces, lost>>
    BY <1>7 DEF EvictRemove, completionVars, bookVars
  <2> QED BY <1>3, <2>3, <2>4, Notified DEF Untold
<1>8. CASE EvictQueue(t)
  <2>1. \A p \in Announced : p \in Announced' \/ (p = v /\ lost' = lost \cup {p})
    BY <1>8, QueueAnnounced
  <2>2. /\ UNCHANGED <<stored, have, dbPieces>>
        /\ lost' \in {lost, lost \cup {v}}
    BY <1>8 DEF EvictQueue, QueueVerify, completionVars, bookVars
  <2>3. CASE lost' = lost \cup {v}
    BY <1>2, <1>3, <2>1, <2>2, <2>3, Missed DEF Untold
  <2>4. CASE lost' # lost \cup {v}
    BY <1>3, <2>1, <2>2, <2>4, Notified DEF Untold
  <2> QED BY <2>3, <2>4
<1> QED BY <1>4, <1>5, <1>6, <1>7, <1>8 DEF EvictPiece

LEMMA HasherPromise ==
    ASSUME TypeOK, Holes, NEW h \in Hashers, Hasher(h)
    PROVE  Promise!NoticesNext
<1> DEFINE q == thread[h].piece
<1>0. /\ ThreadsTypeOK /\ Sweep \in Threads
      /\ h \in Threads /\ h # Sweep
  BY ThreadsAssumption DEF TypeOK, StorageTypeOK, Threads
<1>1. thread[h].at # "idle" /\ q \in Pieces
  <2>1. thread[h].at # "idle"
    BY DEF Hasher, MarkSet, MarkAdd, MarkNotComplete, HashDone, EvictPiece, EvictSet,
           EvictFiles, EvictPunch, EvictRemove, EvictQueue
  <2> QED BY <1>0, <2>1, HasherPiece
<1>2. ASSUME MarkSet(h) \/ MarkAdd(h) \/ MarkNotComplete(h)
      PROVE  Untold \subseteq Untold'
  <2>1. \/ Goto(h, "markAdd") \/ Goto(h, "refresh")
        \/ \E victims : EvictEach(h, victims)
    BY <1>2 DEF MarkSet, MarkAdd, MarkNotComplete
  <2>2. /\ OnlyMoves(h)
        /\ thread'[h].at # "idle"
        /\ thread'[h].piece = thread[h].piece
    <3>1. ASSUME NEW victims, EvictEach(h, victims)
          PROVE  /\ OnlyMoves(h)
                 /\ thread'[h].at # "idle"
                 /\ thread'[h].piece = thread[h].piece
      BY <1>0, <3>1, EvictEachEffect DEF EvictionsDone
    <3>2. ASSUME NEW label \in {"markAdd", "refresh"}, Goto(h, label)
          PROVE  /\ OnlyMoves(h)
                 /\ thread'[h].at # "idle"
                 /\ thread'[h].piece = thread[h].piece
      BY <1>0, <3>2, GotoEffect
    <3> QED BY <2>1, <3>1, <3>2
  <2>3. /\ thread[h].at \in {"markSet", "markAdd", "unmarkSet"}
        /\ UNCHANGED verifyCh
    BY <1>2 DEF MarkSet, MarkAdd, MarkNotComplete
  <2> QED BY <1>0, <2>2, <2>3, UntoldKept
<1>3. CASE MarkSet(h)
  <2>1. /\ UNCHANGED <<stored, have, lost>>
        /\ dbPieces' \in {dbPieces, dbPieces \cup {q}}
    BY <1>3 DEF MarkSet, Set, SetFails, completionVars, bookVars
  <2>2. q \in Untold
    BY <1>1 DEF Untold, BeingHashed
  <2>3. CASE dbPieces' = dbPieces \cup {q}
    <3>1. Promise!Record(q)
      BY <1>2, <1>3, <2>1, <2>2, <2>3 DEF Promise!Record, Promise!NoticesStay
    <3> QED BY <1>1, <3>1 DEF Promise!NoticesNext
  <2> QED BY <1>2, <1>3, <2>1, <2>3, Notified
<1>4. CASE MarkAdd(h)
  <2>1. UNCHANGED <<stored, have, dbPieces, lost>>
    BY <1>4 DEF MarkAdd, completionVars, bookVars
  <2> QED BY <1>2, <1>4, <2>1, Notified
<1>5. CASE MarkNotComplete(h)
  <2>1. /\ UNCHANGED <<stored, have>>
        /\ \/ dbPieces' = dbPieces \ {q} /\ UNCHANGED lost
           \/ dbPieces' = dbPieces /\ lost' = lost \cup {q}
    BY <1>5 DEF MarkNotComplete, Set, SetFails, completionVars, bookVars
  <2> QED BY <1>1, <1>2, <1>5, <2>1, Erased, Missed
<1>6. CASE HashDone(h)
  <2>1. Completion(q) /\ UNCHANGED <<stored, dbPieces, lost>>
    BY <1>6 DEF HashDone, completionVars, bookVars
  <2>2. \A g \in Hashers \ {h} : thread'[g] = thread[g]
    BY <1>0, <1>6, ThreadsAssumption DEF HashDone, Threads
  <2>3. BeingHashed \ {q} \subseteq BeingHashed'
    BY <2>2 DEF BeingHashed
  <2>4. \A p \in Announced : p \in Announced'
    BY <1>6, HashDoneAnnounced
  <2>5. q \in dbPieces \ stored => q \in Announced \cup lost
    BY <1>1 DEF Holes, HolesAnnounced
  <2> QED BY <1>1, <2>1, <2>3, <2>4, <2>5, Told DEF Untold
<1>7. CASE EvictPiece(h)
  BY <1>0, <1>7, EvictPiecePromise
<1> QED BY <1>3, <1>4, <1>5, <1>6, <1>7 DEF Hasher

LEMMA StartHashPromise ==
    ASSUME TypeOK, NEW h \in Hashers, NEW q \in Pieces, StartHash(h, q)
    PROVE  Promise!NoticesNext
<1>1. /\ thread[h].at = "idle" /\ UNCHANGED <<stored, have, dbPieces, lost>>
      /\ h \in Threads /\ h # Sweep
  BY ThreadsAssumption DEF StartHash, completionVars, bookVars, Threads
<1>2. /\ thread'[h].at # "idle" /\ thread'[h].piece = q
      /\ \A g \in Hashers \ {h} : thread'[g] = thread[g]
  BY <1>1, ThreadsAssumption
     DEF StartHash, TypeOK, StorageTypeOK, ThreadsTypeOK, HasherThreads, Threads
<1>3. BeingHashed \cup {q} \subseteq BeingHashed'
  BY <1>1, <1>2 DEF BeingHashed
<1>4. \A p \in Announced : p \in Announced' \cup {q}
  BY StartHashAnnounced
<1> QED BY <1>1, <1>3, <1>4, Notified DEF Untold

LEMMA ClientPromise ==
    ASSUME Holes, NEW p \in Pieces, Client(p)
    PROVE  Promise!NoticesNext
<1>1. UNCHANGED <<thread, verifyCh, dbPieces>>
  BY DEF Client, WriteAt, ReadAt, ReadCompletion, completionVars, bookVars,
         storageVars
<1>2. Untold' = Untold
  BY <1>1 DEF Untold, Announced, BeingHashed, Victim
<1>3. CASE WriteAt(p)
  <2>1. Promise!Fill(p)
    BY <1>1, <1>2, <1>3 DEF WriteAt, Promise!Fill, Promise!NoticesStay
  <2> QED BY <2>1 DEF Promise!NoticesNext
<1>4. CASE ReadAt(p)
  BY <1>1, <1>2, <1>4, Notified DEF ReadAt, storageVars
<1>5. CASE ReadCompletion(p)
  <2>1. p \in dbPieces \ stored => p \in Untold \cup lost
    BY DEF Holes, HolesAnnounced, Untold
  <2> QED BY <1>1, <1>2, <1>5, <2>1, Told DEF ReadCompletion
<1> QED BY <1>3, <1>4, <1>5 DEF Client

LEMMA SweepPromise ==
    ASSUME TypeOK, SweepReceive \/ SweepTick \/ OpenEvict
    PROVE  Promise!NoticesNext
<1>1. UNCHANGED <<stored, have, dbPieces, lost>>
  BY DEF SweepReceive, SweepTick, OpenEvict, completionVars, bookVars
<1>2. \A g \in Hashers : thread'[g] = thread[g]
  BY ThreadsAssumption
     DEF SweepReceive, SweepTick, OpenEvict, evictOverBudget, EvictEach, TypeOK,
         StorageTypeOK, ThreadsTypeOK, Threads
<1>3. BeingHashed' = BeingHashed
  BY <1>2 DEF BeingHashed
<1>4. \A p \in Announced : p \in Announced'
  BY SweepAnnounced
<1> QED BY <1>1, <1>3, <1>4, Notified DEF Untold

LEMMA OpenAndCrashPromise ==
    ASSUME TypeOK, Holes, Opened \/ Crash
    PROVE  Promise!NoticesNext
<1>1. CASE Opened
  <2>1. /\ UNCHANGED <<thread, verifyCh, stored, dbPieces, lost>>
        /\ have' = dbPieces
    BY <1>1 DEF Opened, completionVars, bookVars
  <2>2. Untold' = Untold
    BY <2>1 DEF Untold, Announced, BeingHashed, Victim
  <2>3. Promise!Reopen
    BY <2>1, <2>2 DEF Promise!Reopen, Promise!NoticesStay
  <2> QED BY <2>3 DEF Promise!NoticesNext
<1>2. CASE Crash
  <2>1. /\ have' = {} /\ verifyCh' = << >> /\ lost' = lost \cup Announced
        /\ UNCHANGED <<stored, dbPieces>>
    BY <1>2 DEF Crash, NewPieceCompletion
  <2>2. /\ \A t \in Threads : thread'[t].at \in {"idle", "opening"}
        /\ \A h \in Hashers : thread'[h].at = "idle"
    BY <1>2, ThreadsAssumption DEF Crash, Idle, Threads
  <2>3. Untold' = {}
    BY <2>1, <2>2 DEF Untold, Announced, BeingHashed
  <2>4. dbPieces \ stored \subseteq lost'
    BY <2>1 DEF Holes, HolesAnnounced, TypeOK, CompletionTypeOK
  <2>5. Promise!Restart
    BY <2>1, <2>3, <2>4 DEF Promise!Restart, Untold
  <2> QED BY <2>5 DEF Promise!NoticesNext
<1> QED BY <1>1, <1>2

LEMMA PromiseStep ==
    ASSUME TypeOK, Holes, [Next]_vars
    PROVE  Promise!NoticesNext
<1>1. ASSUME NEW h \in Hashers, NEW p \in Pieces, StartHash(h, p)
      PROVE  Promise!NoticesNext
  BY <1>1, StartHashPromise
<1>2. CASE Poll \/ PollFails \/ UNCHANGED vars
  <2>1. UNCHANGED <<thread, verifyCh, stored, have, dbPieces, lost>>
    BY <1>2 DEF Poll, PollFails, Poller, PollerScan, PollerWrite, PollerCheck,
                PollerFails, vars, storageVars, completionVars, bookVars
  <2>2. Untold' = Untold
    BY <2>1 DEF Untold, Announced, BeingHashed, Victim
  <2> QED BY <2>1, <2>2, Notified
<1>3. CASE EvictPiece(Sweep)
  BY <1>3, EvictPiecePromise DEF Threads
<1> QED BY <1>1, <1>2, <1>3, HasherPromise, ClientPromise, SweepPromise,
           OpenAndCrashPromise DEF Next, StorageNext

\* Evictions, marks, failures and crashes, on whatever goroutines (mmap.go:354), do
\* to the data and the records of a piece only what Notices allows: no hole is made
\* without notice, and no notice is withdrawn from the library before it knows.
THEOREM NoticesImplemented == Spec => KeepsNotices
<1>1. Init => Promise!NoticesInit
  BY ThreadsAssumption
     DEF Init, CompletionInit, Idle, Promise!NoticesInit, Untold, Announced,
         BeingHashed, Threads
<1>2. TypesInv /\ Holes /\ [Next]_vars
         => [Promise!NoticesNext]_(Promise!noticeVars)
  BY PromiseStep DEF TypesInv
<1>3. Spec => []TypesInv /\ []Holes
  BY HolesInvariant, TypesInitInv, TypesNextInv, PTL DEF Spec
<1> QED BY <1>1, <1>2, <1>3, PTL DEF Spec, KeepsNotices, Promise!NoticesSpec

\* What the promise is worth to the library: a storage that keeps it never has a
\* hole recorded as complete, or taken for data, without notice of it, unless the
\* notice was lost.
THEOREM NoticesSuffice == KeepsNotices => []Promise!HolesNoticed
<1>1. Promise!NoticesInit => Promise!HolesNoticed
  BY DEF Promise!NoticesInit, Promise!HolesNoticed
<1>2. ASSUME Promise!HolesNoticed, Promise!NoticesNext
      PROVE  Promise!HolesNoticed'
  <2>1. CASE Promise!Notify \/ Promise!Restart \/ Promise!Reopen
    BY <1>2, <2>1
       DEF Promise!Notify, Promise!Restart, Promise!Reopen, Promise!NoticesStay,
           Promise!HolesNoticed
  <2>2. ASSUME NEW p \in Pieces,
               \/ Promise!Fill(p) \/ Promise!Punch(p) \/ Promise!Record(p)
               \/ Promise!Erase(p) \/ Promise!Tell(p) \/ Promise!Miss(p)
        PROVE  Promise!HolesNoticed'
    BY <1>2, <2>2
       DEF Promise!Fill, Promise!Punch, Promise!Record, Promise!Erase, Promise!Tell,
           Promise!Miss, Promise!NoticesStay, Promise!HolesNoticed
  <2> QED BY <1>2, <2>1, <2>2 DEF Promise!NoticesNext
<1>3. Promise!HolesNoticed /\ UNCHANGED Promise!noticeVars => Promise!HolesNoticed'
  BY DEF Promise!noticeVars, Promise!HolesNoticed
<1> QED BY <1>1, <1>2, <1>3, PTL DEF KeepsNotices, Promise!NoticesSpec

------------------------------------------------------------------------------
(* The gauges of the disk cache.                                           *)

LEMMA MetricsStep == [MetricsNext]_allVars => [Next]_vars
<1> SUFFICES ASSUME [MetricsNext]_allVars PROVE [Next]_vars
  OBVIOUS
<1>1. ASSUME NEW h \in Hashers, CountAdd(h) PROVE Next
  BY <1>1 DEF CountAdd, Hasher, StorageNext, Next
<1>2. ASSUME NEW t \in Threads, EvictPiece(t) PROVE Next
  BY <1>2 DEF Threads, Hasher, StorageNext, Next
<1>3. ASSUME NEW t \in Threads,
             \/ ReadUsed(t) \/ CountedRemove(t) \/ ReadFreed(t) \/ ReportFreed(t)
      PROVE  [Next]_vars
  BY <1>2, <1>3 DEF ReadUsed, CountedRemove, ReadFreed, ReportFreed, EvictPiece
<1>4. CASE CountRecovered
  BY <1>4 DEF CountRecovered, StorageNext, Next
<1>5. CASE Uncounted
  <2>1. ASSUME NEW h \in Hashers,
               \/ MarkSet(h) \/ MarkNotComplete(h) \/ HashDone(h)
               \/ \E p \in Pieces : StartHash(h, p)
        PROVE  Next
    BY <2>1 DEF Hasher, StorageNext, Next
  <2>2. ASSUME NEW t \in Threads,
               \/ EvictSet(t) \/ EvictFiles(t) \/ EvictPunch(t)
               \/ EvictQueue(t)
        PROVE  Next
    BY <1>2, <2>2 DEF EvictPiece
  <2> QED BY <1>5, <2>1, <2>2 DEF Uncounted, StorageNext, Next
<1>6. CASE UNCHANGED allVars
  BY <1>6 DEF allVars
<1>7. ASSUME NEW h \in Hashers, ReportAdded(h) PROVE UNCHANGED vars
  BY <1>7 DEF ReportAdded
<1>8. CASE Poll \/ PollFails
  BY <1>8 DEF Next
<1> QED
  BY <1>1, <1>3, <1>4, <1>5, <1>6, <1>7, <1>8
     DEF MetricsNext, MetricsStorageNext

\* The gauges watch the storage and do not disturb it: with them it does what
\* mmap.go does without them, so that all that is proved of its holes, rows and
\* types holds of the storage with its gauges.
THEOREM GaugesOnlyWatch == MetricsSpec => Spec
<1>1. MetricsInit => Init
  BY DEF MetricsInit
<1> QED BY <1>1, MetricsStep, PTL DEF MetricsSpec, Spec

------------------------------------------------------------------------------
(* Sums of what threads remember.                                          *)

Sums(f) ==
    /\ \A t \in DOMAIN f : f[t] \in Nat
    /\ IsFiniteSet(DOMAIN f)
    /\ IsFiniteSet(BytesIn(f))

LEMMA SumsType ==
    ASSUME NEW f, Sums(f)
    PROVE  Total(f) \in Nat /\ Cardinality(DOMAIN f) \in Nat
BY FS_CardinalityType DEF Sums, Total

LEMMA NobodySums ==
    /\ DOMAIN Nobody = {} /\ Sums(Nobody)
    /\ Total(Nobody) = 0 /\ Cardinality(DOMAIN Nobody) = 0
<1>1. DOMAIN Nobody = {} /\ BytesIn(Nobody) = {}
  BY DEF Nobody, BytesIn
<1> QED BY <1>1, FS_EmptySet DEF Sums, Total

LEMMA BytesOfThread ==
    ASSUME NEW t, NEW n \in Nat
    PROVE  IsFiniteSet({t} \X (1 .. n)) /\ Cardinality({t} \X (1 .. n)) = n
<1>1. IsFiniteSet(1 .. n) /\ Cardinality(1 .. n) = n
  <2>1. /\ IsFiniteSet(1 .. n)
        /\ Cardinality(1 .. n) = IF 1 > n THEN 0 ELSE n - 1 + 1
    BY FS_Interval
  <2> QED BY <2>1
<1>2. IsFiniteSet({t}) /\ Cardinality({t}) = 1
  BY FS_Singleton
<1>3. /\ IsFiniteSet({t} \X (1 .. n))
      /\ Cardinality({t} \X (1 .. n)) = Cardinality({t}) * Cardinality(1 .. n)
  BY <1>1, <1>2, FS_Product, Zenon
<1>4. Cardinality({t} \X (1 .. n)) = 1 * n
  BY <1>1, <1>2, <1>3
<1> QED BY <1>3, <1>4

\* Two sets of pairs without a thread in common.
LEMMA BytesAdd ==
    ASSUME NEW S, IsFiniteSet(S), NEW t, NEW n \in Nat, S \cap ({t} \X (1 .. n)) = {}
    PROVE  /\ IsFiniteSet(S \cup ({t} \X (1 .. n)))
           /\ Cardinality(S \cup ({t} \X (1 .. n))) = Cardinality(S) + n
<1> DEFINE T == {t} \X (1 .. n)
<1>1. IsFiniteSet(T) /\ Cardinality(T) = n
  BY BytesOfThread
<1>2. /\ IsFiniteSet(S \cup T)
      /\ Cardinality(S \cup T) = Cardinality(S) + Cardinality(T) - Cardinality(S \cap T)
  BY <1>1, FS_Union
<1>3. Cardinality(S \cap T) = 0
  BY FS_EmptySet
<1>4. Cardinality(S) \in Nat
  BY FS_CardinalityType
<1> QED BY <1>1, <1>2, <1>3, <1>4

LEMMA RememberSums ==
    ASSUME NEW f, Sums(f), NEW t, t \notin DOMAIN f, NEW n \in Nat
    PROVE  /\ DOMAIN Remember(f, t, n) = DOMAIN f \cup {t}
           /\ Sums(Remember(f, t, n))
           /\ Total(Remember(f, t, n)) = Total(f) + n
           /\ Cardinality(DOMAIN Remember(f, t, n)) = Cardinality(DOMAIN f) + 1
<1> DEFINE g == Remember(f, t, n)
<1>1. /\ DOMAIN g = DOMAIN f \cup {t}
      /\ g[t] = n
      /\ \A s \in DOMAIN f : g[s] = f[s]
  BY DEF Remember
<1> HIDE DEF g
<1>2. BytesIn(g) = BytesIn(f) \cup ({t} \X (1 .. n))
  BY <1>1 DEF BytesIn
<1>3. BytesIn(f) \cap ({t} \X (1 .. n)) = {}
  BY DEF BytesIn
<1>4. IsFiniteSet(BytesIn(g)) /\ Cardinality(BytesIn(g)) = Cardinality(BytesIn(f)) + n
  <2>1. IsFiniteSet(BytesIn(f))
    BY DEF Sums
  <2> DEFINE S == BytesIn(f)
  <2> HIDE DEF S
  <2>2. IsFiniteSet(S) /\ S \cap ({t} \X (1 .. n)) = {}
    BY <1>3, <2>1 DEF S
  <2>3. /\ IsFiniteSet(S \cup ({t} \X (1 .. n)))
        /\ Cardinality(S \cup ({t} \X (1 .. n))) = Cardinality(S) + n
    BY <2>2, BytesAdd
  <2> QED BY <1>2, <2>3 DEF S
<1>5. IsFiniteSet(DOMAIN g) /\ Cardinality(DOMAIN g) = Cardinality(DOMAIN f) + 1
  BY <1>1, FS_AddElement DEF Sums
<1>6. \A s \in DOMAIN g : g[s] \in Nat
  BY <1>1 DEF Sums
<1> QED BY <1>1, <1>4, <1>5, <1>6 DEF Sums, Total, g

LEMMA DiscardSums ==
    ASSUME NEW f, Sums(f), NEW t \in DOMAIN f
    PROVE  /\ DOMAIN Discard(f, t) = DOMAIN f \ {t}
           /\ Sums(Discard(f, t))
           /\ Total(f) = Total(Discard(f, t)) + f[t]
           /\ Cardinality(DOMAIN Discard(f, t)) = Cardinality(DOMAIN f) - 1
<1> DEFINE g == Discard(f, t)
<1>0. f[t] \in Nat
  BY DEF Sums
<1>1. DOMAIN g = DOMAIN f \ {t} /\ \A s \in DOMAIN g : g[s] = f[s]
  BY DEF Discard
<1> HIDE DEF g
<1>2. BytesIn(f) = BytesIn(g) \cup ({t} \X (1 .. f[t]))
  <2>1. \A b \in BytesIn(f) : b \in BytesIn(g) \/ b \in {t} \X (1 .. f[t])
    BY <1>1 DEF BytesIn
  <2>2. \A b \in BytesIn(g) \cup ({t} \X (1 .. f[t])) : b \in BytesIn(f)
    BY <1>1 DEF BytesIn
  <2> QED BY <2>1, <2>2
<1>3. BytesIn(g) \cap ({t} \X (1 .. f[t])) = {}
  BY <1>1 DEF BytesIn
<1>4. IsFiniteSet(BytesIn(g))
  BY <1>2, FS_Subset DEF Sums
<1>5. Cardinality(BytesIn(f)) = Cardinality(BytesIn(g)) + f[t]
  <2> DEFINE S == BytesIn(g)
             n == f[t]
  <2> HIDE DEF S, n
  <2>1. IsFiniteSet(S) /\ n \in Nat /\ S \cap ({t} \X (1 .. n)) = {}
    BY <1>0, <1>3, <1>4 DEF S, n
  <2>2. Cardinality(S \cup ({t} \X (1 .. n))) = Cardinality(S) + n
    BY <2>1, BytesAdd
  <2> QED BY <1>2, <2>2 DEF S, n
<1>6. IsFiniteSet(DOMAIN g) /\ Cardinality(DOMAIN g) = Cardinality(DOMAIN f) - 1
  BY <1>1, FS_RemoveElement DEF Sums
<1>7. \A s \in DOMAIN g : g[s] \in Nat
  BY <1>1 DEF Sums
<1> QED BY <1>1, <1>4, <1>5, <1>6, <1>7 DEF Sums, Total, g

------------------------------------------------------------------------------
(* What threads remember, and what the gauges then show.                   *)

\* The evictions that have removed a piece and not read the count again.
Reporting == {t \in HasRead : thread[t].at = "evictQueue"}

\* The gauges show n bytes in k pieces but for what threads are still to report.
Show(n, k) ==
    /\ promCacheBytesUsed = n - Total(addedBytes) + Total(freedBytes)
    /\ promCachePieceCount = k - Cardinality(DOMAIN addedBytes)
                               + Cardinality(DOMAIN freedBytes)

GaugesFollow ==
    /\ \A s, t \in Reporting : s = t
    /\ \A t \in HasRead \ Reporting : prevUsed[t] = used
    /\ \A t \in Reporting :
          prevUsed[t] - used \in Nat /\ Show(prevUsed[t], Len(lruList) + 1)
    /\ Reporting = {} => Show(used, Len(lruList))

\* A thread whose next step is on the gauges has just taken the step it counts.
ReportersWait ==
    /\ HasRead \subseteq
           {t \in Threads : thread[t].at \in {"evictRemove", "evictQueue"}}
    /\ DOMAIN freedBytes \subseteq
           {t \in Threads : thread[t].at = "evictQueue"} \ HasRead
    /\ DOMAIN addedBytes \subseteq
           {h \in Hashers : thread[h].at \in {"evictSet", "refresh"}}

GaugesInv ==
    /\ ReportersWait
    /\ Sums(freedBytes) /\ Sums(addedBytes)
    /\ \A t \in HasRead : prevUsed[t] \in Int
    /\ promCacheBytesUsed \in Int /\ promCachePieceCount \in Int
    /\ astray => Busy = {}
    /\ ~ astray => GaugesFollow

LEMMA FollowingIsExact == GaugesInv => GaugesExact
BY DEF GaugesInv, GaugesFollow, GaugesExact, Reporting, Show

\* Nobody is to report anything.
NobodyReports ==
    /\ prevUsed = Nobody /\ freedBytes = Nobody /\ addedBytes = Nobody
    /\ promCacheBytesUsed \in Int /\ promCachePieceCount \in Int
    /\ \/ astray
       \/ promCacheBytesUsed = used /\ promCachePieceCount = Len(lruList)

LEMMA NobodyFollows == NobodyReports => GaugesInv
<1> SUFFICES ASSUME NobodyReports PROVE GaugesInv
  OBVIOUS
<1>1. HasRead = {} /\ DOMAIN freedBytes = {} /\ DOMAIN addedBytes = {}
  BY NobodySums DEF NobodyReports, HasRead
<1>2. Sums(freedBytes) /\ Sums(addedBytes)
  BY NobodySums DEF NobodyReports
<1>3. Show(promCacheBytesUsed, promCachePieceCount)
  <2>1. Total(addedBytes) = 0 /\ Total(freedBytes) = 0
    BY NobodySums DEF NobodyReports
  <2>2. Cardinality(DOMAIN addedBytes) = 0 /\ Cardinality(DOMAIN freedBytes) = 0
    BY NobodySums DEF NobodyReports
  <2> QED BY <2>1, <2>2 DEF Show, NobodyReports
<1>4. Reporting = {} /\ Busy = {}
  BY <1>1 DEF Reporting, Busy
<1>5. GaugesFollow \/ astray
  BY <1>1, <1>3, <1>4 DEF GaugesFollow, NobodyReports
<1>6. ReportersWait
  BY <1>1 DEF ReportersWait
<1> QED BY <1>1, <1>2, <1>4, <1>5, <1>6 DEF GaugesInv, NobodyReports

LEMMA GaugesInit == MetricsInit => GaugesInv
<1> SUFFICES ASSUME MetricsInit PROVE GaugesInv
  OBVIOUS
<1>1. used = 0 /\ Len(lruList) = 0
  BY DEF MetricsInit, Init, LRUInit
<1> QED BY <1>1, NobodyFollows DEF MetricsInit, NobodyReports

LEMMA ForgottenFollows ==
    ASSUME Forget, astray'
    PROVE  GaugesInv'
<1>1. NobodyReports'
  BY DEF Forget, NobodyReports
<1> QED BY <1>1, NobodyFollows, PTL

LEMMA RecoveredFollows ==
    ASSUME LRUTypeOK', used' \in Int, CountRecovered
    PROVE  GaugesInv'
<1>1. Len(lruList') \in Int
  BY DEF LRUTypeOK
<1>2. NobodyReports'
  BY <1>1 DEF CountRecovered, NobodyReports
<1> QED BY <1>2, NobodyFollows, PTL

LEMMA AddFollows ==
    ASSUME TypeOK, used \in Int, GaugesInv, NEW h \in Hashers, CountAdd(h)
    PROVE  GaugesInv'
<1> DEFINE p == thread[h].piece
<1>0. ThreadsTypeOK /\ LRUTypeOK /\ h \in Threads /\ h # Sweep
  BY ThreadsAssumption DEF TypeOK, StorageTypeOK, Threads
<1>1. thread[h].at = "markAdd" /\ h \notin Busy
  BY DEF CountAdd, MarkAdd, GaugesInv, ReportersWait, Busy
<1>2. p \in Pieces /\ Size[p] \in Nat
  BY <1>0, <1>1, HasherPiece, SizeAssumption
<1>3. CASE astray'
  BY <1>3, ForgottenFollows DEF CountAdd
<1>4. CASE ~ astray'
  <2>1. p \notin entries /\ HasRead = {} /\ ~ astray
    BY <1>1, <1>4 DEF CountAdd, OverlapsRead, Busy
  <2>2. /\ addedBytes' = Remember(addedBytes, h, Size[p])
        /\ prevUsed' = prevUsed /\ freedBytes' = freedBytes
        /\ promCacheBytesUsed' = promCacheBytesUsed
        /\ promCachePieceCount' = promCachePieceCount
    BY <1>4 DEF CountAdd, gauges
  <2>3. HasRead' = {} /\ Reporting = {} /\ Reporting' = {}
    BY <2>1, <2>2 DEF HasRead, Reporting
  <2>4. used' = used + Size[p] /\ lruList' = <<p>> \o lruList
    BY <2>1 DEF CountAdd, MarkAdd, Add
  <2>5. Len(lruList') = Len(lruList) + 1 /\ Len(lruList) \in Nat
    BY <1>0, <1>2, <2>4 DEF LRUTypeOK
  <2>6. /\ DOMAIN addedBytes' = DOMAIN addedBytes \cup {h}
        /\ Sums(addedBytes')
        /\ Total(addedBytes') = Total(addedBytes) + Size[p]
        /\ Cardinality(DOMAIN addedBytes') = Cardinality(DOMAIN addedBytes) + 1
    BY <1>1, <1>2, <2>2, RememberSums DEF Busy, GaugesInv
  <2>7. ReportersWait'
    <3>1. OnlyMoves(h) /\ thread'[h].at \in {"evictSet", "refresh"}
      BY <1>0, EvictEachEffect DEF CountAdd, MarkAdd, EvictionsDone
    <3>2. \A t \in Busy : thread'[t] = thread[t]
      BY <1>1, <3>1
         DEF OnlyMoves, Busy, GaugesInv, ReportersWait, Threads
    <3> QED BY <2>2, <2>3, <2>6, <3>1, <3>2 DEF GaugesInv, ReportersWait, Busy
  <2>8. Show(used, Len(lruList))
    BY <2>1, <2>3 DEF GaugesInv, GaugesFollow
  <2>9. /\ Total(addedBytes) \in Nat /\ Cardinality(DOMAIN addedBytes) \in Nat
        /\ Total(freedBytes) \in Nat /\ Cardinality(DOMAIN freedBytes) \in Nat
    BY SumsType DEF GaugesInv
  <2>10. Show(used, Len(lruList))'
    <3>1. promCacheBytesUsed' = used' - Total(addedBytes') + Total(freedBytes')
      <4>1. Total(freedBytes') = Total(freedBytes)
        BY <2>2
      <4>2. promCacheBytesUsed = used - Total(addedBytes) + Total(freedBytes)
        BY <2>8 DEF Show
      <4>3. /\ used' = used + Size[p] /\ Size[p] \in Nat
            /\ Total(addedBytes') = Total(addedBytes) + Size[p]
            /\ promCacheBytesUsed' = promCacheBytesUsed
        BY <1>2, <2>2, <2>4, <2>6
      <4>4. Total(addedBytes) \in Nat /\ Total(freedBytes) \in Nat
        BY <2>9
      <4> QED BY <4>1, <4>2, <4>3, <4>4
    <3>2. promCachePieceCount' = Len(lruList') - Cardinality(DOMAIN addedBytes')
                                               + Cardinality(DOMAIN freedBytes')
      BY <2>2, <2>5, <2>6, <2>8, <2>9 DEF Show
    <3> QED BY <3>1, <3>2 DEF Show
  <2>11. GaugesFollow'
    BY <2>3, <2>10 DEF GaugesFollow
  <2> QED BY <1>4, <2>2, <2>3, <2>6, <2>7, <2>11 DEF GaugesInv
<1> QED BY <1>3, <1>4

LEMMA ReportAddedFollows ==
    ASSUME TypeOK, used \in Int, GaugesInv, NEW h \in Hashers, ReportAdded(h)
    PROVE  GaugesInv'
<1>1. /\ h \in DOMAIN addedBytes
      /\ promCacheBytesUsed' = promCacheBytesUsed + addedBytes[h]
      /\ promCachePieceCount' = promCachePieceCount + 1
      /\ used' = used /\ lruList' = lruList /\ thread' = thread
      /\ prevUsed' = prevUsed /\ freedBytes' = freedBytes /\ astray' = astray
  BY DEF ReportAdded, vars, lruVars, storageVars
<1>2. /\ DOMAIN addedBytes' = DOMAIN addedBytes \ {h}
      /\ Sums(addedBytes')
      /\ Total(addedBytes) = Total(addedBytes') + addedBytes[h]
      /\ Cardinality(DOMAIN addedBytes') = Cardinality(DOMAIN addedBytes) - 1
  BY <1>1, DiscardSums DEF ReportAdded, GaugesInv
<1>3. /\ Total(addedBytes') \in Nat /\ Cardinality(DOMAIN addedBytes) \in Nat
      /\ Total(freedBytes) \in Nat /\ Cardinality(DOMAIN freedBytes) \in Nat
  <2>1. Sums(addedBytes) /\ Sums(freedBytes)
    BY DEF GaugesInv
  <2>2. Total(addedBytes') \in Nat
    BY <1>2, SumsType
  <2> QED BY <2>1, <2>2, SumsType
<1>4. addedBytes[h] \in Nat
  BY <1>1 DEF GaugesInv, Sums
<1>5. ASSUME NEW n \in Int, NEW k \in Int, Show(n, k)
      PROVE  /\ promCacheBytesUsed' = n - Total(addedBytes') + Total(freedBytes')
             /\ promCachePieceCount' = k - Cardinality(DOMAIN addedBytes')
                                          + Cardinality(DOMAIN freedBytes')
  BY <1>1, <1>2, <1>3, <1>4, <1>5 DEF Show
<1>6. Reporting' = Reporting /\ HasRead' = HasRead
  BY <1>1 DEF Reporting, HasRead
<1>7. Len(lruList) \in Nat
  BY DEF TypeOK, LRUTypeOK
<1>8. ~ astray
  BY <1>1 DEF GaugesInv, Busy
<1>9. GaugesFollow'
  <2>1. ASSUME NEW t \in Reporting
        PROVE  Show(prevUsed[t], Len(lruList) + 1)'
    <3>1. prevUsed[t] \in Int /\ Show(prevUsed[t], Len(lruList) + 1)
      BY <1>8, <2>1 DEF GaugesInv, GaugesFollow, Reporting
    <3> DEFINE n == prevUsed[t]
               k == Len(lruList) + 1
    <3>2. n \in Int /\ k \in Int /\ Show(n, k)
      BY <1>7, <3>1
    <3> HIDE DEF n, k
    <3>3. /\ promCacheBytesUsed' = n - Total(addedBytes') + Total(freedBytes')
          /\ promCachePieceCount' = k - Cardinality(DOMAIN addedBytes')
                                       + Cardinality(DOMAIN freedBytes')
      BY <1>5, <3>2
    <3>4. n' = n /\ k' = k
      BY <1>1 DEF n, k
    <3> QED BY <3>3, <3>4 DEF Show, n, k
  <2>2. ASSUME Reporting = {}
        PROVE  Show(used, Len(lruList))'
    <3>1. Show(used, Len(lruList))
      BY <1>8, <2>2 DEF GaugesInv, GaugesFollow
    <3> DEFINE k == Len(lruList)
    <3>2. k \in Int
      BY <1>7
    <3> HIDE DEF k
    <3>3. /\ promCacheBytesUsed' = used - Total(addedBytes') + Total(freedBytes')
          /\ promCachePieceCount' = k - Cardinality(DOMAIN addedBytes')
                                       + Cardinality(DOMAIN freedBytes')
      BY <1>5, <3>1, <3>2 DEF k
    <3>4. used' = used /\ k' = k
      BY <1>1 DEF k
    <3> QED BY <3>3, <3>4 DEF Show, k
  <2> QED BY <1>1, <1>6, <1>8, <2>1, <2>2 DEF GaugesInv, GaugesFollow
<1>10. ReportersWait'
  BY <1>1, <1>2, <1>6 DEF GaugesInv, ReportersWait
<1>11. promCacheBytesUsed' \in Int /\ promCachePieceCount' \in Int
  BY <1>1, <1>4 DEF GaugesInv
<1> QED BY <1>1, <1>2, <1>6, <1>8, <1>9, <1>10, <1>11 DEF GaugesInv

LEMMA ReadFollows ==
    ASSUME used \in Int, GaugesInv, NEW t \in Threads, ReadUsed(t)
    PROVE  GaugesInv'
<1>1. /\ ~ astray /\ astray' = astray
      /\ t \notin HasRead
      /\ thread[t].at = "evictRemove"
      /\ used' = used /\ lruList' = lruList /\ thread' = thread
      /\ addedBytes' = addedBytes /\ freedBytes' = freedBytes
      /\ promCacheBytesUsed' = promCacheBytesUsed
      /\ promCachePieceCount' = promCachePieceCount
  BY DEF ReadUsed, vars, lruVars, storageVars, gauges
<1>2. /\ HasRead' = HasRead \cup {t}
      /\ prevUsed'[t] = used
      /\ \A s \in HasRead : prevUsed'[s] = prevUsed[s]
  BY <1>1 DEF ReadUsed, HasRead, Remember
<1>3. Reporting' = Reporting
  BY <1>1, <1>2 DEF Reporting
<1>4. Reporting \subseteq HasRead
  BY DEF Reporting
<1>6. GaugesFollow'
  <2>1. \A s \in Reporting : /\ prevUsed'[s] - used \in Nat
                             /\ Show(prevUsed'[s], Len(lruList) + 1)
    BY <1>1, <1>2, <1>4 DEF GaugesInv, GaugesFollow
  <2>2. \A s \in HasRead' \ Reporting : prevUsed'[s] = used
    BY <1>1, <1>2 DEF GaugesInv, GaugesFollow
  <2>3. Reporting = {} => Show(used, Len(lruList))
    BY <1>1 DEF GaugesInv, GaugesFollow
  <2>4. \A r, s \in Reporting : r = s
    BY <1>1 DEF GaugesInv, GaugesFollow
  <2>5. \A s \in Reporting : Show(prevUsed[s], Len(lruList) + 1)'
    BY <1>1, <1>2, <1>4, <2>1 DEF Show
  <2>6. Reporting = {} => Show(used, Len(lruList))'
    BY <1>1, <2>3 DEF Show
  <2> QED BY <1>1, <1>3, <2>1, <2>2, <2>4, <2>5, <2>6 DEF GaugesFollow
<1>7. ReportersWait'
  BY <1>1, <1>2 DEF GaugesInv, ReportersWait
<1>8. \A s \in HasRead' : prevUsed'[s] \in Int
  BY <1>2 DEF GaugesInv
<1> QED BY <1>1, <1>6, <1>7, <1>8 DEF GaugesInv

LEMMA RemoveFollows ==
    ASSUME TypeOK, used \in Int, GaugesInv, NEW t \in Threads, CountedRemove(t)
    PROVE  GaugesInv'
<1> DEFINE p == Victim(t)
<1>0. ThreadsTypeOK /\ LRUTypeOK
  BY DEF TypeOK, StorageTypeOK
<1>1. thread[t].at = "evictRemove" /\ Goto(t, "evictQueue") /\ Remove(p)
  BY DEF CountedRemove, EvictRemove
<1>2. p \in Pieces /\ Size[p] \in Nat
  BY <1>0, <1>1, ThreadType, SizeAssumption DEF Evicting
<1>3. CASE astray'
  BY <1>3, ForgottenFollows DEF CountedRemove
<1>4. CASE ~ astray'
  <2>1. p \in entries /\ HasRead = {t} /\ ~ astray
    BY <1>4 DEF CountedRemove, OverlapsRead
  <2>2. /\ promCacheBytesUsed' = promCacheBytesUsed
        /\ promCachePieceCount' = promCachePieceCount
        /\ prevUsed' = prevUsed
        /\ freedBytes' = freedBytes /\ addedBytes' = addedBytes
    BY <1>4 DEF CountedRemove, gauges, locals
  <2>3. OnlyMoves(t) /\ thread'[t].at = "evictQueue"
    BY <1>0, <1>1, GotoEffect
  <2>4. HasRead' = {t} /\ Reporting = {} /\ Reporting' = {t}
    BY <1>1, <2>1, <2>2, <2>3 DEF HasRead, Reporting
  <2>5. Show(used, Len(lruList)) /\ prevUsed[t] = used
    BY <2>1, <2>4 DEF GaugesInv, GaugesFollow
  <2>6. Len(lruList') = Len(lruList) - 1 /\ Len(lruList) \in Nat
    BY <1>0, <1>1, <2>1, PositionType, WithoutType DEF Remove, LRUTypeOK
  <2>7. used' = used - Size[p]
    BY <1>1, <2>1 DEF Remove
  <2>8. Show(prevUsed[t], Len(lruList) + 1)'
    BY <2>2, <2>5, <2>6 DEF Show
  <2>9. prevUsed'[t] - used' \in Nat
    BY <1>2, <2>2, <2>5, <2>7
  <2>10. GaugesFollow'
    BY <2>4, <2>8, <2>9 DEF GaugesFollow
  <2>11. ReportersWait'
    <3>1. DOMAIN freedBytes \subseteq Threads \ {t}
      BY <1>1 DEF GaugesInv, ReportersWait
    <3>2. DOMAIN addedBytes \subseteq Threads \ {t}
      BY <1>1 DEF GaugesInv, ReportersWait, Threads
    <3> QED BY <2>1, <2>2, <2>3, <2>4, <3>1, <3>2
            DEF GaugesInv, ReportersWait, OnlyMoves
  <2> QED BY <1>4, <2>2, <2>4, <2>10, <2>11, <2>1 DEF GaugesInv
<1> QED BY <1>3, <1>4

LEMMA ReadFreedFollows ==
    ASSUME TypeOK, used \in Int, GaugesInv, NEW t \in Threads, ReadFreed(t)
    PROVE  GaugesInv'
<1>1. /\ t \in HasRead
      /\ thread[t].at = "evictQueue"
      /\ freedBytes' = Remember(freedBytes, t, prevUsed[t] - used)
      /\ prevUsed' = Discard(prevUsed, t)
      /\ used' = used /\ lruList' = lruList /\ thread' = thread
      /\ addedBytes' = addedBytes /\ astray' = astray
      /\ promCacheBytesUsed' = promCacheBytesUsed
      /\ promCachePieceCount' = promCachePieceCount
  BY DEF ReadFreed, vars, lruVars, storageVars, gauges
<1>2. ~ astray
  BY <1>1 DEF GaugesInv, Busy
<1>3. Reporting = {t} /\ t \notin DOMAIN freedBytes
  BY <1>1, <1>2 DEF GaugesInv, GaugesFollow, Reporting, ReportersWait
<1>4. /\ prevUsed[t] - used \in Nat /\ prevUsed[t] \in Int
      /\ Show(prevUsed[t], Len(lruList) + 1)
  BY <1>1, <1>2, <1>3 DEF GaugesInv, GaugesFollow
<1>5. /\ HasRead' = HasRead \ {t}
      /\ \A s \in HasRead' : prevUsed'[s] = prevUsed[s]
  BY <1>1 DEF HasRead, Discard
<1>6. Reporting' = {}
  BY <1>1, <1>3, <1>5 DEF Reporting
<1>7. /\ DOMAIN freedBytes' = DOMAIN freedBytes \cup {t}
      /\ Sums(freedBytes')
      /\ Total(freedBytes') = Total(freedBytes) + (prevUsed[t] - used)
      /\ Cardinality(DOMAIN freedBytes') = Cardinality(DOMAIN freedBytes) + 1
  <2> DEFINE n == prevUsed[t] - used
  <2> HIDE DEF n
  <2>1. n \in Nat /\ Sums(freedBytes) /\ freedBytes' = Remember(freedBytes, t, n)
    BY <1>1, <1>4 DEF GaugesInv, n
  <2>2. /\ DOMAIN freedBytes' = DOMAIN freedBytes \cup {t}
        /\ Sums(freedBytes')
        /\ Total(freedBytes') = Total(freedBytes) + n
        /\ Cardinality(DOMAIN freedBytes') = Cardinality(DOMAIN freedBytes) + 1
    BY <1>3, <2>1, RememberSums
  <2> QED BY <2>2 DEF n
<1>8. /\ Total(addedBytes) \in Nat /\ Cardinality(DOMAIN addedBytes) \in Nat
      /\ Total(freedBytes) \in Nat /\ Cardinality(DOMAIN freedBytes) \in Nat
  BY SumsType DEF GaugesInv
<1>9. Len(lruList) \in Nat
  BY DEF TypeOK, LRUTypeOK
<1>10. Show(used, Len(lruList))'
  <2>1. promCacheBytesUsed' = used' - Total(addedBytes') + Total(freedBytes')
    <3> DEFINE n == prevUsed[t]
    <3>1. /\ n \in Int /\ promCacheBytesUsed = n - Total(addedBytes) + Total(freedBytes)
          /\ Total(addedBytes) \in Nat /\ Total(freedBytes) \in Nat
      BY <1>4, <1>8 DEF Show
    <3>2. /\ Total(freedBytes') = Total(freedBytes) + (n - used)
          /\ Total(addedBytes') = Total(addedBytes)
          /\ used' = used /\ promCacheBytesUsed' = promCacheBytesUsed
      BY <1>1, <1>7
    <3> HIDE DEF n
    <3> QED BY <3>1, <3>2
  <2>2. promCachePieceCount' = Len(lruList') - Cardinality(DOMAIN addedBytes')
                                             + Cardinality(DOMAIN freedBytes')
    BY <1>1, <1>4, <1>7, <1>8, <1>9 DEF Show
  <2> QED BY <2>1, <2>2 DEF Show
<1>11. GaugesFollow'
  BY <1>1, <1>2, <1>3, <1>5, <1>6, <1>10 DEF GaugesInv, GaugesFollow
<1>12. ReportersWait'
  BY <1>1, <1>5, <1>7 DEF GaugesInv, ReportersWait
<1>13. \A s \in HasRead' : prevUsed'[s] \in Int
  BY <1>5 DEF GaugesInv
<1> QED BY <1>1, <1>2, <1>7, <1>11, <1>12, <1>13 DEF GaugesInv

LEMMA ReportFreedFollows ==
    ASSUME TypeOK, used \in Int, GaugesInv, NEW t \in Threads, ReportFreed(t)
    PROVE  GaugesInv'
<1>1. /\ t \in DOMAIN freedBytes
      /\ promCacheBytesUsed' = promCacheBytesUsed - freedBytes[t]
      /\ promCachePieceCount' = promCachePieceCount - 1
      /\ used' = used /\ lruList' = lruList /\ thread' = thread
      /\ prevUsed' = prevUsed /\ addedBytes' = addedBytes /\ astray' = astray
  BY DEF ReportFreed, vars, lruVars, storageVars
<1>2. /\ DOMAIN freedBytes' = DOMAIN freedBytes \ {t}
      /\ Sums(freedBytes')
      /\ Total(freedBytes) = Total(freedBytes') + freedBytes[t]
      /\ Cardinality(DOMAIN freedBytes') = Cardinality(DOMAIN freedBytes) - 1
  BY <1>1, DiscardSums DEF ReportFreed, GaugesInv
<1>3. /\ Total(freedBytes') \in Nat /\ Cardinality(DOMAIN freedBytes) \in Nat
      /\ Total(addedBytes) \in Nat /\ Cardinality(DOMAIN addedBytes) \in Nat
  <2>1. Sums(addedBytes) /\ Sums(freedBytes)
    BY DEF GaugesInv
  <2>2. Total(freedBytes') \in Nat
    BY <1>2, SumsType
  <2> QED BY <2>1, <2>2, SumsType
<1>4. freedBytes[t] \in Nat
  BY <1>1 DEF GaugesInv, Sums
<1>5. ASSUME NEW n \in Int, NEW k \in Int, Show(n, k)
      PROVE  /\ promCacheBytesUsed' = n - Total(addedBytes') + Total(freedBytes')
             /\ promCachePieceCount' = k - Cardinality(DOMAIN addedBytes')
                                          + Cardinality(DOMAIN freedBytes')
  BY <1>1, <1>2, <1>3, <1>4, <1>5 DEF Show
<1>6. Reporting' = Reporting /\ HasRead' = HasRead
  BY <1>1 DEF Reporting, HasRead
<1>7. Len(lruList) \in Nat
  BY DEF TypeOK, LRUTypeOK
<1>8. ~ astray
  BY <1>1 DEF GaugesInv, Busy
<1>9. GaugesFollow'
  <2>1. ASSUME NEW s \in Reporting
        PROVE  Show(prevUsed[s], Len(lruList) + 1)'
    <3>1. prevUsed[s] \in Int /\ Show(prevUsed[s], Len(lruList) + 1)
      BY <1>8, <2>1 DEF GaugesInv, GaugesFollow, Reporting
    <3> DEFINE n == prevUsed[s]
               k == Len(lruList) + 1
    <3>2. n \in Int /\ k \in Int /\ Show(n, k)
      BY <1>7, <3>1
    <3> HIDE DEF n, k
    <3>3. /\ promCacheBytesUsed' = n - Total(addedBytes') + Total(freedBytes')
          /\ promCachePieceCount' = k - Cardinality(DOMAIN addedBytes')
                                       + Cardinality(DOMAIN freedBytes')
      BY <1>5, <3>2
    <3>4. n' = n /\ k' = k
      BY <1>1 DEF n, k
    <3> QED BY <3>3, <3>4 DEF Show, n, k
  <2>2. ASSUME Reporting = {}
        PROVE  Show(used, Len(lruList))'
    <3>1. Show(used, Len(lruList))
      BY <1>8, <2>2 DEF GaugesInv, GaugesFollow
    <3> DEFINE k == Len(lruList)
    <3>2. k \in Int
      BY <1>7
    <3> HIDE DEF k
    <3>3. /\ promCacheBytesUsed' = used - Total(addedBytes') + Total(freedBytes')
          /\ promCachePieceCount' = k - Cardinality(DOMAIN addedBytes')
                                       + Cardinality(DOMAIN freedBytes')
      BY <1>5, <3>1, <3>2 DEF k
    <3>4. used' = used /\ k' = k
      BY <1>1 DEF k
    <3> QED BY <3>3, <3>4 DEF Show, k
  <2> QED BY <1>1, <1>6, <1>8, <2>1, <2>2 DEF GaugesInv, GaugesFollow
<1>10. ReportersWait'
  BY <1>1, <1>2, <1>6 DEF GaugesInv, ReportersWait
<1>11. promCacheBytesUsed' \in Int /\ promCachePieceCount' \in Int
  BY <1>1, <1>4 DEF GaugesInv
<1> QED BY <1>1, <1>2, <1>6, <1>8, <1>9, <1>10, <1>11 DEF GaugesInv

\* A step that leaves alone what busy threads are to report.
LEMMA UncountedFollows ==
    ASSUME used \in Int, GaugesInv, UNCHANGED metricVars,
           used' = used, Len(lruList') = Len(lruList),
           \A t \in Busy : thread'[t] = thread[t]
    PROVE  GaugesInv'
<1>1. /\ HasRead' = HasRead /\ Busy' = Busy
      /\ prevUsed' = prevUsed /\ astray' = astray
      /\ addedBytes' = addedBytes /\ freedBytes' = freedBytes
      /\ promCacheBytesUsed' = promCacheBytesUsed
      /\ promCachePieceCount' = promCachePieceCount
  BY DEF metricVars, HasRead, Busy, gauges, locals
<1>2. HasRead \subseteq Busy /\ Reporting' = Reporting
  BY <1>1 DEF Reporting, Busy
<1>4. GaugesFollow => GaugesFollow'
  <2>1. \A t \in Reporting :
          Show(prevUsed[t], Len(lruList) + 1) => Show(prevUsed[t], Len(lruList) + 1)'
    BY <1>1 DEF Show
  <2>2. Show(used, Len(lruList)) => Show(used, Len(lruList))'
    BY <1>1 DEF Show
  <2> QED BY <1>1, <1>2, <2>1, <2>2 DEF GaugesFollow
<1>5. ReportersWait'
  BY <1>1 DEF GaugesInv, ReportersWait, Busy
<1> QED BY <1>1, <1>4, <1>5 DEF GaugesInv

\* Whoever takes a step that is not counted is not busy.
LEMMA UncountedStays ==
    ASSUME TypeOK, GaugesInv, Uncounted
    PROVE  /\ used' = used
           /\ Len(lruList') = Len(lruList)
           /\ \A t \in Busy : thread'[t] = thread[t]
<1>0. ThreadsTypeOK /\ LRUTypeOK
  BY DEF TypeOK, StorageTypeOK
<1>1. ASSUME NEW t \in Busy
      PROVE  /\ t \in Threads
             /\ \/ thread[t].at \in {"evictRemove", "evictQueue"}
                \/ t \in Hashers /\ thread[t].at \in {"evictSet", "refresh"}
  BY <1>1 DEF GaugesInv, ReportersWait, Busy, Threads
<1>2. ASSUME NEW s \in Threads, s \notin Busy, OnlyMoves(s)
      PROVE  \A t \in Busy : thread'[t] = thread[t]
  BY <1>1, <1>2 DEF OnlyMoves
<1>3. ASSUME NEW h \in Hashers, MarkSet(h) \/ MarkNotComplete(h)
      PROVE  UNCHANGED lruVars /\ \A t \in Busy : thread'[t] = thread[t]
  <2>1. h \in Threads /\ h \notin Busy
    BY <1>1, <1>3 DEF MarkSet, MarkNotComplete, Threads
  <2>2. OnlyMoves(h)
    BY <1>0, <1>3, <2>1, GotoEffect DEF MarkSet, MarkNotComplete
  <2> QED BY <1>2, <1>3, <2>1, <2>2 DEF MarkSet, MarkNotComplete
<1>4. ASSUME NEW h \in Hashers \ Busy, HashDone(h)
      PROVE  UNCHANGED lruVars /\ \A t \in Busy : thread'[t] = thread[t]
  <2>1. thread[Sweep].at = "await" => Sweep \notin Busy
    BY <1>1, ThreadsAssumption
  <2> QED BY <1>1, <1>4, <2>1 DEF HashDone
<1>5. ASSUME NEW h \in Hashers, NEW p \in Pieces, StartHash(h, p)
      PROVE  UNCHANGED lruVars /\ \A t \in Busy : thread'[t] = thread[t]
  <2>1. h \notin Busy
    BY <1>1, <1>5 DEF StartHash
  <2>2. thread[Sweep].at = "verify" => Sweep \notin Busy
    BY <1>1
  <2>3. [thread[Sweep] EXCEPT !.at = thread[Sweep].at] = thread[Sweep]
    BY <1>0 DEF ThreadsTypeOK, SweepThreads
  <2>4. ASSUME NEW t \in Busy PROVE thread'[t] = thread[t]
    <3>1. t \in Threads /\ t # h
      BY <1>1, <2>1, <2>4
    <3>2. CASE t = Sweep
      <4>1. thread[Sweep].at # "verify"
        BY <2>2, <2>4, <3>2
      <4> QED BY <1>0, <1>5, <2>3, <3>1, <3>2, <4>1 DEF StartHash, ThreadsTypeOK
    <3>3. CASE t # Sweep
      BY <1>0, <1>5, <3>1, <3>3 DEF StartHash, ThreadsTypeOK
    <3> QED BY <3>2, <3>3
  <2> QED BY <1>5, <2>4 DEF StartHash
<1>6. ASSUME NEW s \in Threads \ Busy,
             EvictSet(s) \/ EvictFiles(s) \/ EvictPunch(s) \/ EvictQueue(s)
      PROVE  UNCHANGED lruVars /\ \A t \in Busy : thread'[t] = thread[t]
  <2>1. OnlyMoves(s)
    BY <1>0, <1>6, GotoEffect, EvictEachEffect
       DEF EvictSet, EvictFiles, EvictPunch, EvictQueue, EvictNext
  <2> QED BY <1>2, <1>6, <2>1 DEF EvictSet, EvictFiles, EvictPunch, EvictQueue
<1>7. ASSUME NEW p \in Pieces, Client(p)
      PROVE  used' = used /\ Len(lruList') = Len(lruList) /\ thread' = thread
  BY <1>0, <1>7, MovedLength
     DEF Client, WriteAt, ReadAt, ReadCompletion, Touch, lruVars, storageVars
<1>8. ASSUME SweepReceive \/ SweepTick \/ OpenEvict \/ Opened
      PROVE  UNCHANGED lruVars /\ \A t \in Busy : thread'[t] = thread[t]
  <2>1. Sweep \in Threads
    BY DEF Threads
  <2>2. CASE SweepReceive
    <3>1. Sweep \notin Busy
      BY <1>1, <2>2 DEF SweepReceive
    <3> QED BY <1>0, <1>1, <2>2, <3>1 DEF SweepReceive, ThreadsTypeOK
  <2>3. CASE SweepTick \/ OpenEvict
    <3>1. Sweep \notin Busy
      BY <1>1, <2>3 DEF SweepTick, OpenEvict
    <3>2. OnlyMoves(Sweep)
      BY <1>0, <2>1, <2>3, EvictEachEffect
         DEF SweepTick, OpenEvict, evictOverBudget
    <3> QED BY <1>2, <2>1, <2>3, <3>1, <3>2 DEF SweepTick, OpenEvict
  <2>4. CASE Opened
    BY <2>4 DEF Opened
  <2> QED BY <1>8, <2>2, <2>3, <2>4
<1> QED
  BY <1>3, <1>4, <1>5, <1>6, <1>7, <1>8 DEF Uncounted, lruVars

UsedIsInt == used \in Int

LEMMA UsedType == TypeOK /\ UsedCountsTrackedPieces => UsedIsInt
<1>1. TypeOK => entries \in SUBSET Pieces
  BY DEF TypeOK, LRUTypeOK, entries
<1> QED BY <1>1, BytesFinite DEF UsedCountsTrackedPieces, UsedIsInt

LEMMA GaugesNext ==
    ASSUME TypeOK, TypeOK', UsedIsInt, UsedIsInt', GaugesInv, [MetricsNext]_allVars
    PROVE  GaugesInv'
<1>1. LRUTypeOK' /\ used \in Int /\ used' \in Int
  BY DEF TypeOK, UsedIsInt
<1>2. CASE Uncounted /\ UNCHANGED metricVars
  BY <1>1, <1>2, UncountedStays, UncountedFollows
<1>3. CASE UNCHANGED allVars
  <2>1. UNCHANGED metricVars /\ used' = used /\ lruList' = lruList /\ thread' = thread
    BY <1>3 DEF allVars, vars, lruVars, storageVars
  <2> QED BY <1>1, <2>1, UncountedFollows
<1>4. CASE (Poll \/ PollFails) /\ UNCHANGED metricVars
  <2>1. used' = used /\ lruList' = lruList /\ thread' = thread
    BY <1>4 DEF Poll, PollFails, lruVars, storageVars
  <2> QED BY <1>1, <1>4, <2>1, UncountedFollows
<1> QED
  BY <1>1, <1>2, <1>3, <1>4, AddFollows, ReportAddedFollows, ReadFollows,
     RemoveFollows, ReadFreedFollows, ReportFreedFollows, RecoveredFollows
     DEF MetricsNext, MetricsStorageNext

\* The gauges show what the tracker holds, unless they have gone astray in one of
\* the three ways that CacheMetrics names (mmap.go:275, 392-398) since the process
\* started, whatever the torrent, the budget and the number of hashers, and
\* whatever recoverLRU finds.
THEOREM GaugesStayExact == MetricsSpec => []GaugesExact
<1>1. MetricsSpec => []TypeOK
  BY GaugesOnlyWatch, TypeInvariant, PTL
<1>2. MetricsSpec => []UsedCountsTrackedPieces
  BY GaugesOnlyWatch, UsedAlwaysCounts, PTL
<1>3. MetricsSpec => []UsedIsInt
  BY <1>1, <1>2, UsedType, PTL
<1> QED BY <1>1, <1>3, GaugesInit, GaugesNext, FollowingIsExact, PTL DEF MetricsSpec
=============================================================================
