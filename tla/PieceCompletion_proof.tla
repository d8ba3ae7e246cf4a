------------------------ MODULE PieceCompletion_proof ------------------------
(***************************************************************************)
(* Proofs about the completion store, for any torrent and any number of    *)
(* failing operations, whatever its callers do.                            *)
(***************************************************************************)
EXTENDS PieceCompletionCalls, FiniteSetTheorems, TLAPS

CompletionInv ==
    /\ CompletionTypeOK
    /\ CountAgrees
    /\ CompletedFilesSound
    /\ MemoryMatchesDatabase

LEMMA SubsetsFinite ==
    ASSUME NEW S \in SUBSET Pieces
    PROVE  IsFiniteSet(S) /\ Cardinality(S) \in Nat
BY PiecesAssumption, FS_Subset, FS_CardinalityType

LEMMA CompletionInitInv == CompletionInit => CompletionInv
<1> SUFFICES ASSUME CompletionInit PROVE CompletionInv
  OBVIOUS
<1>1. CompletionTypeOK
  <2>1. completed \in BOOLEAN
    BY Zenon DEF CompletionInit
  <2>2. poller \in PollerStates
    BY DEF CompletionInit, PollerStates
  <2>3. /\ pieces \in SUBSET Pieces /\ completedCount \in Int
        /\ completedFiles \in SUBSET Files /\ dbPieces \in SUBSET Pieces
        /\ dbFiles \in SUBSET Files /\ faults \in 0 .. MaxFaults
    BY MaxFaultsAssumption DEF CompletionInit
  <2>4. closed \in BOOLEAN
    BY DEF CompletionInit
  <2> QED
    BY <2>1, <2>2, <2>3, <2>4, Zenon DEF CompletionTypeOK
<1>2. CountAgrees
  BY FS_EmptySet DEF CompletionInit, CountAgrees
<1>3. CompletedFilesSound /\ MemoryMatchesDatabase
  BY DEF CompletionInit, CompletedFilesSound, MemoryMatchesDatabase
<1> QED BY <1>1, <1>2, <1>3 DEF CompletionInv

MemoryTypeOK ==
    /\ pieces \in SUBSET Pieces
    /\ completedCount \in Int
    /\ completed \in BOOLEAN
    /\ completedFiles \in SUBSET Files

\* Marks in memory keep what memory says of itself.
LEMMA MarksInMemory ==
    ASSUME NEW p \in Pieces, NEW b \in BOOLEAN,
           MemoryTypeOK, CountAgrees, CompletedFilesSound, SetInMemory(p, b)
    PROVE  /\ MemoryTypeOK' /\ CountAgrees' /\ CompletedFilesSound'
           /\ pieces' = IF b THEN pieces \cup {p} ELSE pieces \ {p}
<1> USE DEF MemoryTypeOK
<1>1. CASE UNCHANGED memVars /\ (p \in pieces <=> b)
  BY <1>1 DEF memVars, CountAgrees, CompletedFilesSound
<1>2. CASE b /\ p \notin pieces
  <2>1. /\ completedCount' = completedCount + 1
        /\ pieces' = pieces \cup {p}
        /\ completed' = (completedCount' = Cardinality(Pieces))
        /\ completedFiles' = completedFiles
    BY <1>2 DEF SetInMemory, Complete
  <2>2. Cardinality(pieces') = Cardinality(pieces) + 1
    BY <2>1, <1>2, SubsetsFinite, FS_AddElement
  <2>3. Cardinality(pieces') = Cardinality(Pieces) <=> pieces' = Pieces
    BY <2>1, PiecesAssumption, FS_Subset
  <2>4. CountAgrees'
    BY <2>1, <2>2, <2>3 DEF CountAgrees
  <2>5. CompletedFilesSound'
    BY <2>1 DEF CompletedFilesSound
  <2> QED BY <2>1, <2>4, <2>5, <1>2
<1>3. CASE ~ b /\ p \in pieces
  <2>1. /\ completedCount' = completedCount - 1
        /\ pieces' = pieces \ {p}
        /\ completed' = FALSE
        /\ completedFiles' = completedFiles \ AffectedFiles(p)
    BY <1>3 DEF SetInMemory, Uncomplete
  <2>2. Cardinality(pieces') = Cardinality(pieces) - 1
    BY <2>1, <1>3, SubsetsFinite, FS_RemoveElement
  <2>3. CountAgrees'
    BY <2>1, <2>2 DEF CountAgrees
  <2>4. CompletedFilesSound'
    BY <2>1 DEF CompletedFilesSound, AffectedFiles
  <2>5. completedCount' \in Int
    BY <2>1
  <2>6. completed' \in BOOLEAN /\ pieces' \in SUBSET Pieces /\ completedFiles' \in SUBSET Files
    BY <2>1, Zenon
  <2>7. pieces' = IF b THEN pieces \cup {p} ELSE pieces \ {p}
    BY <2>1, <1>3
  <2>8. MemoryTypeOK'
    BY <2>5, <2>6, Zenon
  <2> QED BY <2>3, <2>4, <2>7, <2>8, Zenon
<1> QED BY <1>1, <1>2, <1>3 DEF SetInMemory, Complete, Uncomplete

\* The files found complete by the poller are complete.
LEMMA CompletedFilesComplete ==
    ASSUME CompletionInv
    PROVE  /\ GetCompletedFiles \in SUBSET Files
           /\ \A f \in GetCompletedFiles : Cover[f] \subseteq pieces
BY CoverAssumption
   DEF CompletionInv, CompletionTypeOK, CountAgrees, CompletedFilesSound,
       GetCompletedFiles

LEMMA PollerTyped ==
    ASSUME NEW todo \in SUBSET Files
    PROVE  AfterScan(todo) \in PollerStates
BY DEF AfterScan, PollerStates

LEMMA CompletionNextInv ==
    CompletionInv /\ [CompletionNext]_completionVars => CompletionInv'
<1> SUFFICES ASSUME CompletionInv, [CompletionNext]_completionVars
             PROVE  CompletionInv'
  OBVIOUS
<1> USE DEF CompletionInv, CompletionTypeOK
<1>0. MemoryTypeOK
  BY DEF MemoryTypeOK
<1>1. ASSUME NEW p \in Pieces, NEW b \in BOOLEAN, Set(p, b)
      PROVE  CompletionInv'
  <2>1. /\ MemoryTypeOK' /\ CountAgrees' /\ CompletedFilesSound'
        /\ pieces' = IF b THEN pieces \cup {p} ELSE pieces \ {p}
    BY <1>0, <1>1, MarksInMemory DEF Set
  <2>2. MemoryMatchesDatabase'
    BY <1>1, <2>1 DEF Set, MemoryMatchesDatabase
  <2> QED BY <1>1, <2>1, <2>2 DEF Set, MemoryTypeOK
<1>2. ASSUME NEW p \in Pieces, NEW b \in BOOLEAN, ~ closed, Fault,
             SetInMemory(p, b), UNCHANGED <<dbPieces, dbFiles, closed, poller>>
      PROVE  CompletionInv'
  <2>1. MemoryTypeOK' /\ CountAgrees' /\ CompletedFilesSound'
    BY <1>0, <1>2, MarksInMemory
  <2>2. faults' # 0 /\ faults' \in 0 .. MaxFaults
    BY <1>2, MaxFaultsAssumption DEF Fault
  <2> QED BY <1>2, <2>1, <2>2 DEF MemoryTypeOK, MemoryMatchesDatabase
<1>3. ASSUME UNCHANGED memVars, UNCHANGED dbPieces,
             dbFiles' \in SUBSET Files, closed' \in BOOLEAN,
             poller' \in PollerStates, Fault \/ UNCHANGED faults
      PROVE  CompletionInv'
  <2>1. faults' \in 0 .. MaxFaults /\ (faults' = 0 => faults = 0)
    BY <1>3, MaxFaultsAssumption DEF Fault
  <2> QED BY <1>3, <2>1
             DEF memVars, CountAgrees, CompletedFilesSound, MemoryMatchesDatabase
<1>4. CASE PollerScan
  <2>1. CountAgrees' /\ MemoryMatchesDatabase'
    BY <1>4 DEF PollerScan, CountAgrees, MemoryMatchesDatabase
  <2>2. CompletedFilesSound'
    BY <1>4, CompletedFilesComplete DEF PollerScan, CompletedFilesSound
  <2>3. CompletionTypeOK'
    BY <1>4, CompletedFilesComplete, PollerTyped DEF PollerScan
  <2> QED BY <2>1, <2>2, <2>3
<1>5. CASE NewPieceCompletion /\ (Fault \/ UNCHANGED faults)
  <2>1. poller' \in PollerStates
    BY <1>5 DEF NewPieceCompletion, Loaded, PollerStates
  <2>2. completedCount' \in Int
    BY <1>5, SubsetsFinite DEF NewPieceCompletion, Loaded
  <2>3. faults' \in 0 .. MaxFaults
    BY <1>5, MaxFaultsAssumption DEF Fault
  <2> QED BY <1>5, <2>1, <2>2, <2>3
             DEF NewPieceCompletion, Loaded, CountAgrees, CompletedFilesSound,
                 MemoryMatchesDatabase
<1>6. CASE UNCHANGED completionVars
  BY <1>3, <1>6 DEF completionVars, bookVars
<1>7. ASSUME NEW p \in Pieces, NEW b \in BOOLEAN, SetFails(p, b)
      PROVE  CompletionInv'
  BY <1>2, <1>6, <1>7 DEF SetFails
<1>8. ASSUME NEW fs \in SUBSET Files,
             UncompleteFiles(fs) \/ UncompleteFilesFails(fs)
      PROVE  CompletionInv'
  BY <1>3, <1>6, <1>8 DEF UncompleteFiles, UncompleteFilesFails
<1>9. CASE Close
  BY <1>3, <1>9 DEF Close
<1>10. CASE PollerWrite
  <2>1. PICK f \in poller.todo : /\ dbFiles' = dbFiles \cup {f}
                                 /\ poller' = AfterScan(poller.todo \ {f})
    BY <1>10 DEF PollerWrite
  <2>2. poller.todo \in SUBSET Files
    BY DEF PollerStates
  <2>3. poller' \in PollerStates
    BY <2>1, <2>2, PollerTyped
  <2> QED BY <1>3, <1>10, <2>1, <2>2, <2>3 DEF PollerWrite
<1>11. CASE PollerCheck \/ PollerFails
  <2>1. poller' \in PollerStates
    BY <1>11 DEF PollerCheck, PollerFails, PollerStates
  <2> QED BY <1>3, <1>11, <2>1 DEF PollerCheck, PollerFails
<1>12. CASE Fault /\ UNCHANGED bookVars
  BY <1>3, <1>12 DEF bookVars
<1> QED
  BY <1>1, <1>4, <1>5, <1>6, <1>7, <1>8, <1>9, <1>10, <1>11, <1>12
     DEF CompletionNext, Poller

\* The bookkeeping of completed pieces and files is right in every state: the
\* count and the flag agree with the set of pieces, files remembered as complete
\* are complete, and while no statement has failed a restart reads from the
\* database what the memory says.
THEOREM CompletionInvariant == CompletionSpec => []CompletionInv
<1>1. CompletionInit => CompletionInv
  BY CompletionInitInv
<1>2. CompletionInv /\ [CompletionNext]_completionVars => CompletionInv'
  BY CompletionNextInv
<1> QED BY <1>1, <1>2, PTL DEF CompletionSpec

\* completions.completedCount and completions.completed (piece_completion.go:18)
\* never disagree with the map of pieces, although each is updated on its own.
THEOREM CountAlwaysAgrees == CompletionSpec => []CountAgrees
<1>1. CompletionInv => CountAgrees
  BY DEF CompletionInv
<1> QED BY <1>1, CompletionInvariant, PTL

\* What NewPieceCompletion (piece_completion.go:153) reads from the database after
\* a crash, or after a close at any point, is what the memory said, as long as no
\* statement has failed: Set writes both under one lock.
THEOREM RestartFindsMemory == CompletionSpec => []MemoryMatchesDatabase
<1>1. CompletionInv => MemoryMatchesDatabase
  BY DEF CompletionInv
<1> QED BY <1>1, CompletionInvariant, PTL

------------------------------------------------------------------------------
(* The calls that marks and evictions make.                                *)

LEMMA AffectedFilesType ==
    ASSUME NEW p \in Pieces
    PROVE  AffectedFiles(p) \in SUBSET Files
BY DEF AffectedFiles

LEMMA StoreCalls == StoreNext => CompletionNext
<1> SUFFICES ASSUME StoreNext PROVE CompletionNext
  OBVIOUS
<1>1. ASSUME NEW p \in Pieces, SetComplete(p) \/ SetNotComplete(p) \/ SetEvicted(p)
      PROVE  CompletionNext
  <2>1. PICK b \in BOOLEAN : Set(p, b) \/ SetFails(p, b)
    BY <1>1, Zenon DEF SetComplete, SetNotComplete, SetEvicted
  <2> QED BY <2>1, Zenon DEF CompletionNext
<1>2. ASSUME NEW p \in Pieces, DropRows(p)
      PROVE  CompletionNext
  BY <1>2, AffectedFilesType, Zenon DEF DropRows, CompletionNext
<1>3. CASE PollCall \/ PollFailsCall \/ CloseCall \/ Reopen
  BY <1>3, Zenon DEF PollCall, PollFailsCall, CloseCall, Reopen, CompletionNext
<1> QED BY <1>1, <1>2, <1>3, Zenon DEF StoreNext

\* The marks of the library and the two halves of an eviction (mmap.go:261, :284
\* and :354), the poller, closing and restarts are operations of the store: what is
\* proved of CompletionSpec holds of them.
THEOREM CallsAreCompletion == StoreSpec => CompletionSpec
<1>1. StoreInit => CompletionInit
  BY DEF StoreInit
<1>2. [StoreNext]_storeVars => [CompletionNext]_completionVars
  BY StoreCalls DEF storeVars
<1> QED BY <1>1, <1>2, PTL DEF StoreSpec, CompletionSpec

\* The state of the store and of the evictions under way has its type: the poller
\* is in one of its states with files that exist, the count is a number and the
\* failures stay within their bound, whatever is called.
THEOREM StoreTypeInvariant == StoreSpec => []StoreTypeOK
<1>1. StoreInit => evicting \in SUBSET Pieces
  BY DEF StoreInit
<1>2. evicting \in SUBSET Pieces /\ [StoreNext]_storeVars
        => (evicting \in SUBSET Pieces)'
  BY DEF StoreNext, storeVars, SetComplete, SetNotComplete, SetEvicted, DropRows,
         PollCall, PollFailsCall, CloseCall, Reopen
<1>3. CompletionInv /\ evicting \in SUBSET Pieces => StoreTypeOK
  BY DEF CompletionInv, StoreTypeOK
<1>4. StoreSpec => []CompletionInv
  BY CallsAreCompletion, CompletionInvariant, PTL
<1> QED BY <1>1, <1>2, <1>3, <1>4, PTL DEF StoreSpec
=============================================================================
