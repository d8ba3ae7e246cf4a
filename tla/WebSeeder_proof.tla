--------------------------- MODULE WebSeeder_proof ---------------------------
(***************************************************************************)
(* Proofs about rows, data and requests, for any torrent, any directories  *)
(* and patterns, and any number of failures, hashes and evictions under    *)
(* way.                                                                    *)
(***************************************************************************)
EXTENDS WebSeeder, PieceCompletion_proof

\* A piece in the database has its data on disk, or was marked on an old hash;
\* the latter if an eviction is still to punch it.
DataInv ==
    \A p \in dbPieces :
        /\ p \in onDisk \cup unproven
        /\ eviction[p] # "idle" => p \in unproven

DiskTypeOK ==
    /\ onDisk \in SUBSET Pieces
    /\ hashed \in SUBSET Pieces
    /\ eviction \in [Pieces -> {"idle", "files", "punch"}]
    /\ unproven \in SUBSET Pieces

RequestTypeOK ==
    /\ open \in BOOLEAN
    /\ orphan \in Orphans
    /\ answers \in [Files -> {"none", "path", "miss"}]

IInv ==
    /\ CompletionInv
    /\ DiskTypeOK
    /\ RequestTypeOK
    /\ stale \in SUBSET dbFiles
    /\ DataInv
    /\ RowsCoverData

LEMMA InitInv == Init => IInv
<1> SUFFICES ASSUME Init PROVE IInv
  OBVIOUS
<1> USE DEF Init, FileInit
<1>1. CompletionInv
  BY CompletionInitInv
<1>2. DiskTypeOK /\ RequestTypeOK
  BY DEF DiskTypeOK, RequestTypeOK, Orphans, NoOrphan
<1>3. DataInv /\ RowsCoverData /\ stale \in SUBSET dbFiles
  BY DEF CompletionInit, DataInv, RowsCoverData
<1> QED BY <1>1, <1>2, <1>3 DEF IInv

------------------------------------------------------------------------------
(* The completion store.  Only the orphan and a crash go past its methods.  *)

LEMMA StoreKept ==
    CompletionInv /\ (CompletionNext \/ UNCHANGED completionVars) => CompletionInv'
BY CompletionNextInv

LEMMA StoreSteps ==
    ASSUME CompletionInv,
           NEW p \in Pieces,
           \/ \E b \in BOOLEAN : Set(p, b) \/ SetFails(p, b)
           \/ UncompleteFiles(AffectedFiles(p))
           \/ UncompleteFilesFails(AffectedFiles(p))
    PROVE  CompletionInv'
<1>1. AffectedFiles(p) \in SUBSET Files
  BY DEF AffectedFiles
<1> QED BY <1>1, StoreKept DEF CompletionNext

\* What Set does to the database.
LEMMA SetInDatabase ==
    ASSUME NEW p \in Pieces, NEW b \in BOOLEAN
    PROVE  /\ Set(p, b) =>
                 /\ dbPieces' = IF b THEN dbPieces \cup {p} ELSE dbPieces \ {p}
                 /\ dbFiles' = dbFiles
           /\ SetFails(p, b) => dbPieces' = dbPieces /\ dbFiles' = dbFiles
BY DEF Set, SetFails, completionVars, bookVars

\* Steps that leave both tables and what is on disk alone.
LEMMA DataUntouched ==
    ASSUME IInv, CompletionInv', RequestTypeOK',
           DiskTypeOK', UNCHANGED <<dbPieces, dbFiles, onDisk, eviction, unproven>>,
           stale' = stale
    PROVE  IInv'
BY DEF IInv, DataInv, RowsCoverData

LEMMA RoundsTyped ==
    ASSUME NEW todo \in SUBSET Files, NEW files \in SUBSET Files,
           NEW finished \in BOOLEAN
    PROVE  NextRound(todo, files, finished) \in Orphans
BY DEF NextRound, Orphans, NoOrphan

------------------------------------------------------------------------------
(* The library and evictions.                                              *)

LEMMA WriteAtInv ==
    ASSUME IInv, NEW p \in Pieces, NEW good \in BOOLEAN, WriteAt(p, good)
    PROVE  IInv'
<1> USE DEF IInv, WriteAt
<1>1. UNCHANGED <<dbPieces, dbFiles, eviction, unproven, stale>> /\ p \notin dbPieces
  BY DEF completionVars, bookVars
<1>2. CompletionInv'
  BY StoreKept
<1>3. DiskTypeOK' /\ RequestTypeOK'
  BY DEF DiskTypeOK, RequestTypeOK
<1>4. DataInv' /\ RowsCoverData'
  BY <1>1 DEF DataInv, RowsCoverData
<1> QED BY <1>1, <1>2, <1>3, <1>4

LEMMA MarkCompleteInv ==
    ASSUME IInv, NEW p \in Pieces, MarkComplete(p)
    PROVE  IInv'
<1> USE DEF IInv, MarkComplete
<1>1. CompletionInv'
  BY StoreSteps
<1>2. DiskTypeOK' /\ RequestTypeOK'
  BY DEF DiskTypeOK, RequestTypeOK
<1>3. dbFiles' = dbFiles /\ dbPieces' \in {dbPieces, dbPieces \cup {p}}
  BY SetInDatabase
<1>4. DataInv'
  BY <1>3 DEF DataInv
<1>5. RowsCoverData'
  BY <1>3 DEF RowsCoverData
<1> QED BY <1>1, <1>2, <1>3, <1>4, <1>5

LEMMA MarkNotCompleteInv ==
    ASSUME IInv, NEW p \in Pieces, MarkNotComplete(p)
    PROVE  IInv'
<1> USE DEF IInv, MarkNotComplete, diskVars
<1>1. CompletionInv'
  BY StoreSteps
<1>2. DiskTypeOK' /\ RequestTypeOK'
  BY DEF DiskTypeOK, RequestTypeOK
<1>3. dbFiles' = dbFiles /\ dbPieces' \in {dbPieces, dbPieces \ {p}}
  BY SetInDatabase
<1>4. DataInv'
  BY <1>3 DEF DataInv
<1>5. RowsCoverData' /\ stale' \in SUBSET dbFiles'
  <2>1. \A f \in dbFiles : p \in Cover[f] => f \in AffectedFiles(p)
    BY DEF AffectedFiles, CompletionInv, CompletionTypeOK
  <2> QED BY <1>3, <2>1 DEF RowsCoverData
<1> QED BY <1>1, <1>2, <1>4, <1>5

LEMMA EvictSetInv ==
    ASSUME IInv, NEW p \in Pieces, EvictSet(p)
    PROVE  IInv'
<1> USE DEF IInv, EvictSet, AfterEvictSet
<1>1. CompletionInv'
  BY StoreSteps
<1>2. DiskTypeOK' /\ RequestTypeOK'
  BY DEF DiskTypeOK, RequestTypeOK
<1>3. \/ /\ dbFiles' = dbFiles /\ dbPieces' = dbPieces \ {p}
         /\ eviction' = [eviction EXCEPT ![p] = "files"]
      \/ UNCHANGED <<dbFiles, dbPieces, eviction>>
  BY SetInDatabase
<1>4. DataInv'
  BY <1>3 DEF DataInv, DiskTypeOK
<1>5. RowsCoverData'
  <2>1. \A f \in dbFiles : Cover[f] \subseteq Pieces
    BY CoverAssumption DEF CompletionInv, CompletionTypeOK
  <2>2. \A q \in Pieces : eviction'[q] = "files" \/ (q # p /\ eviction'[q] = eviction[q])
                          \/ UNCHANGED <<eviction, dbPieces>>
    BY <1>3 DEF DiskTypeOK
  <2>3. \A q \in dbPieces : q = p \/ q \in dbPieces'
    BY <1>3
  <2>4. \A q \in dbPieces' : q \in unproven => q \in unproven'
    OBVIOUS
  <2>5. UNCHANGED <<dbFiles, onDisk, stale>>
    BY <1>3
  <2> QED BY <2>1, <2>2, <2>3, <2>4, <2>5 DEF RowsCoverData
<1> QED BY <1>1, <1>2, <1>3, <1>4, <1>5

LEMMA EvictFilesInv ==
    ASSUME IInv, NEW p \in Pieces, EvictFiles(p)
    PROVE  IInv'
<1> USE DEF IInv, EvictFiles
<1>1. CompletionInv'
  BY StoreSteps
<1>2. DiskTypeOK' /\ RequestTypeOK'
  BY DEF DiskTypeOK, RequestTypeOK
<1>3. dbPieces' = dbPieces /\ dbFiles' \in SUBSET dbFiles
  BY DEF UncompleteFiles, UncompleteFilesFails, completionVars, bookVars
<1>4. DataInv'
  BY <1>3 DEF DataInv, DiskTypeOK
<1>5. RowsCoverData'
  <2>1. \A f \in dbFiles : p \in Cover[f] => f \in AffectedFiles(p)
    BY DEF AffectedFiles, CompletionInv, CompletionTypeOK
  <2> QED BY <1>3, <2>1 DEF RowsCoverData, DiskTypeOK
<1> QED BY <1>1, <1>2, <1>4, <1>5

LEMMA EvictPunchInv ==
    ASSUME IInv, NEW p \in Pieces, EvictPunch(p)
    PROVE  IInv'
<1> USE DEF IInv, EvictPunch
<1>1. CompletionInv'
  BY StoreKept DEF CompletionNext, completionVars
<1>2. DiskTypeOK' /\ RequestTypeOK'
  BY DEF DiskTypeOK, RequestTypeOK
<1>3. UNCHANGED <<dbPieces, dbFiles, unproven, stale>>
  BY DEF bookVars
<1>4. DataInv' /\ RowsCoverData'
  BY <1>3 DEF DataInv, RowsCoverData, DiskTypeOK
<1> QED BY <1>1, <1>2, <1>3, <1>4

------------------------------------------------------------------------------
(* Pollers.                                                                *)

\* A row that is written is stale or covered.
LEMMA RowsWritten ==
    ASSUME IInv, NEW written \in SUBSET Files,
           dbPieces' = dbPieces, dbFiles' = dbFiles \cup written,
           stale' = StaleAfter(written),
           UNCHANGED <<onDisk, eviction, unproven>>
    PROVE  /\ stale' \in SUBSET dbFiles'
           /\ DataInv'
           /\ RowsCoverData'
BY DEF IInv, StaleAfter, DataInv, RowsCoverData

LEMMA PollInv ==
    ASSUME IInv, Poll
    PROVE  IInv'
<1> USE DEF IInv, Poll, diskVars
<1>1. CompletionInv'
  BY StoreKept DEF CompletionNext
<1>2. DiskTypeOK' /\ RequestTypeOK'
  BY DEF DiskTypeOK, RequestTypeOK
<1>3. CASE PollerScan \/ PollerCheck
  <2>1. /\ dbPieces' = dbPieces /\ dbFiles' = dbFiles
        /\ poller.at # "write"
    BY <1>3 DEF PollerScan, PollerCheck
  <2>2. stale' = stale
    BY <2>1 DEF StaleAfter
  <2> QED BY <1>1, <1>2, <2>1, <2>2, DataUntouched
<1>4. CASE PollerWrite
  <2>1. poller.todo \in SUBSET Files /\ poller.at = "write"
    BY <1>4 DEF PollerWrite, CompletionInv, CompletionTypeOK, PollerStates
  <2>2. PICK f \in poller.todo : /\ dbFiles' = dbFiles \cup {f}
                                 /\ poller' = AfterScan(poller.todo \ {f})
    BY <1>4 DEF PollerWrite
  <2>3. poller.todo \ poller'.todo = {f}
    BY <2>2 DEF AfterScan
  <2>4. stale' = StaleAfter({f}) /\ dbPieces' = dbPieces
    BY <1>4, <2>1, <2>3 DEF PollerWrite
  <2> QED BY <1>1, <1>2, <2>1, <2>2, <2>4, RowsWritten
<1> QED BY <1>3, <1>4 DEF Poller

LEMMA PollFailsInv ==
    ASSUME IInv, PollFails
    PROVE  IInv'
<1> USE DEF IInv, PollFails, diskVars
<1>1. CompletionInv'
  BY StoreKept DEF CompletionNext
<1>2. DiskTypeOK' /\ RequestTypeOK'
  BY DEF DiskTypeOK, RequestTypeOK
<1>3. UNCHANGED <<dbPieces, dbFiles>>
  BY DEF PollerFails
<1> QED BY <1>1, <1>2, <1>3, DataUntouched

LEMMA OrphanWritesInv ==
    ASSUME IInv, OrphanWrites
    PROVE  IInv'
<1> USE DEF IInv
<1>1. PICK f \in orphan.todo :
         /\ dbFiles' = dbFiles \cup {f}
         /\ orphan' = NextRound(orphan.todo \ {f}, orphan.files, orphan.completed)
         /\ stale' = StaleAfter({f})
  BY DEF OrphanWrites
<1>2. /\ orphan.todo \in SUBSET Files /\ orphan.files \in SUBSET Files
      /\ orphan.completed \in BOOLEAN
  BY DEF RequestTypeOK, Orphans
<1>3. UNCHANGED <<memVars, dbPieces, closed, poller, faults, diskVars, open,
                  answers, unproven>>
  BY DEF OrphanWrites
<1>4. CompletionInv'
  <2>1. dbFiles' \in SUBSET Files
    BY <1>1, <1>2 DEF CompletionInv, CompletionTypeOK
  <2>2. CompletionTypeOK'
    BY <1>3, <2>1 DEF CompletionInv, CompletionTypeOK, memVars
  <2> QED BY <1>3, <2>2 DEF CompletionInv, CountAgrees, CompletedFilesSound,
                            MemoryMatchesDatabase, memVars
<1>5. DiskTypeOK'
  BY <1>3 DEF DiskTypeOK, diskVars
<1>6. RequestTypeOK'
  BY <1>1, <1>2, <1>3, RoundsTyped DEF RequestTypeOK
<1> QED BY <1>1, <1>2, <1>3, <1>4, <1>5, <1>6, RowsWritten DEF diskVars

LEMMA OrphanFailsInv ==
    ASSUME IInv, OrphanFails
    PROVE  IInv'
<1> USE DEF IInv, OrphanFails
<1>1. CompletionInv'
  BY StoreKept DEF CompletionNext
<1>2. DiskTypeOK' /\ RequestTypeOK'
  BY DEF DiskTypeOK, RequestTypeOK, Orphans, NoOrphan, diskVars
<1> QED BY <1>1, <1>2, DataUntouched DEF bookVars, diskVars

------------------------------------------------------------------------------
(* Dropping, opening, dying.                                               *)

LEMMA DropInv ==
    ASSUME IInv, Drop
    PROVE  IInv'
<1> USE DEF IInv, Drop
<1>1. CompletionInv'
  BY StoreKept
<1>2. DiskTypeOK' /\ RequestTypeOK'
  BY DEF DiskTypeOK, RequestTypeOK
<1> QED BY <1>1, <1>2, DataUntouched DEF bookVars, completionVars

LEMMA CrashInv ==
    ASSUME IInv, Crash
    PROVE  IInv'
<1> USE DEF IInv, Crash
<1>1. CompletionInv'
  <2>1. completedCount' \in Int
    BY SubsetsFinite DEF CompletionInv, CompletionTypeOK
  <2>2. poller' \in PollerStates
    BY DEF PollerStates
  <2>3. completed' \in BOOLEAN
    OBVIOUS
  <2>4. CompletionTypeOK'
    BY <2>1, <2>2, <2>3 DEF CompletionInv, CompletionTypeOK
  <2> QED BY <2>4 DEF CompletionInv, CountAgrees, CompletedFilesSound,
                      MemoryMatchesDatabase
<1>2. DiskTypeOK' /\ RequestTypeOK'
  BY DEF DiskTypeOK, RequestTypeOK, Orphans, NoOrphan
<1>3. DataInv'
  BY DEF DataInv, DiskTypeOK
<1>4. RowsCoverData' /\ stale' \in SUBSET dbFiles'
  BY DEF RowsCoverData, DiskTypeOK
<1> QED BY <1>1, <1>2, <1>3, <1>4

LEMMA OpenTorrentInv ==
    ASSUME IInv, OpenTorrent, answers' \in [Files -> {"none", "path", "miss"}]
    PROVE  IInv'
<1> USE DEF IInv, OpenTorrent
<1>1. CompletionInv'
  BY StoreKept DEF CompletionNext
<1>2. DiskTypeOK'
  BY DEF DiskTypeOK, diskVars
<1>3. RequestTypeOK'
  <2>1. /\ GetCompletedFiles \in SUBSET Files
        /\ poller \in PollerStates /\ poller.todo \in SUBSET Files
        /\ completed \in BOOLEAN
    BY CompletedFilesComplete DEF CompletionInv, CompletionTypeOK, PollerStates
  <2>2. poller.at \in {"scan", "write", "check", "gone"}
    BY <2>1 DEF PollerStates
  <2>3. LeftBehind \in Orphans
    BY <2>1, <2>2, RoundsTyped DEF LeftBehind, Orphans, NoOrphan
  <2> QED BY <2>3 DEF RequestTypeOK
<1> QED BY <1>1, <1>2, <1>3, DataUntouched DEF NewPieceCompletion, diskVars

------------------------------------------------------------------------------
(* Requests.                                                               *)

LEMMA KeepTyped ==
    ASSUME RequestTypeOK, NEW f \in Asked, Keep(f)
    PROVE  answers' \in [Files -> {"none", "path", "miss"}]
BY DirsAssumption DEF RequestTypeOK, Keep, Get, get

LEMMA NoTorrentInv ==
    ASSUME IInv, NoTorrent, answers' \in [Files -> {"none", "path", "miss"}]
    PROVE  IInv'
<1> USE DEF IInv, NoTorrent
<1>1. CompletionInv'
  BY StoreKept
<1>2. DiskTypeOK' /\ RequestTypeOK'
  BY DEF DiskTypeOK, RequestTypeOK, diskVars
<1> QED BY <1>1, <1>2, DataUntouched DEF diskVars, bookVars, completionVars

LEMMA ServeHTTPInv ==
    ASSUME IInv, ServeHTTP
    PROVE  IInv'
<1>1. RequestTypeOK
  BY DEF IInv
<1>2. answers' \in [Files -> {"none", "path", "miss"}]
  <2>1. CASE answers' = answers
    BY <1>1, <2>1 DEF RequestTypeOK
  <2>2. CASE \E f \in Asked : Keep(f)
    BY <1>1, <2>2, KeepTyped
  <2> QED BY <2>1, <2>2
             DEF ServeHTTP, serveFile, serveStatsOfFile, serveDone,
                 serveStatsOfDir, renderTorrent
<1>3. NoTorrent \/ OpenTorrent
  BY DEF ServeHTTP, serveFile, serveStatsOfFile, serveDone, serveStatsOfDir,
         renderTorrent
<1> QED BY <1>2, <1>3, NoTorrentInv, OpenTorrentInv

LEMMA ExpireInv ==
    ASSUME IInv, NEW f \in Asked, Expire(f)
    PROVE  IInv'
<1>1. answers' \in [Files -> {"none", "path", "miss"}]
  BY DirsAssumption DEF IInv, RequestTypeOK, Expire
<1> QED BY <1>1, NoTorrentInv DEF Expire, NoTorrent

------------------------------------------------------------------------------
LEMMA NextInv == IInv /\ [Next]_vars => IInv'
<1> SUFFICES ASSUME IInv, [Next]_vars PROVE IInv'
  OBVIOUS
<1>1. CASE UNCHANGED vars
  <2>1. UNCHANGED <<completionVars, diskVars, open, orphan, answers, unproven, stale>>
    BY <1>1 DEF vars, fileVars
  <2>2. answers' \in [Files -> {"none", "path", "miss"}]
    BY <2>1 DEF IInv, RequestTypeOK
  <2> QED BY <2>1, <2>2, NoTorrentInv DEF NoTorrent
<1>2. ASSUME NEW p \in Pieces,
             \/ \E good \in BOOLEAN : WriteAt(p, good)
             \/ HashPasses(p)
             \/ MarkComplete(p)
             \/ MarkNotComplete(p)
             \/ EvictSet(p)
             \/ EvictFiles(p)
             \/ EvictPunch(p)
      PROVE  IInv'
  <2>1. CASE HashPasses(p)
    <3>1. CompletionInv'
      BY <2>1, StoreKept DEF IInv, HashPasses
    <3>2. DiskTypeOK' /\ RequestTypeOK'
      BY <2>1 DEF IInv, HashPasses, DiskTypeOK, RequestTypeOK
    <3> QED BY <2>1, <3>1, <3>2, DataUntouched
               DEF HashPasses, bookVars, completionVars
  <2> QED BY <1>2, <2>1, WriteAtInv, MarkCompleteInv, MarkNotCompleteInv,
             EvictSetInv, EvictFilesInv, EvictPunchInv
<1> QED BY <1>1, <1>2, ExpireInv, PollInv, PollFailsInv, OrphanWritesInv,
           OrphanFailsInv, DropInv, CrashInv, ServeHTTPInv DEF Next

LEMMA Invariance == Spec => []IInv
<1>1. Init => IInv
  BY InitInv
<1>2. IInv /\ [Next]_vars => IInv'
  BY NextInv
<1> QED BY <1>1, <1>2, PTL DEF Spec

\* Every variable keeps its type: in particular the orphan never spins over nothing
\* (its rounds end, piece_completion.go:201-217), and only rows that exist are stale.
THEOREM TypeInvariant == Spec => []TypeOK
<1>1. IInv => TypeOK
  BY DEF IInv, CompletionInv, DiskTypeOK, RequestTypeOK, TypeOK, FileTypeOK
<1> QED BY <1>1, Invariance, PTL

\* What evictPiece (mmap.go:354-367) achieves by deleting rows before it punches: a
\* row that did not become stale in one of the known ways stands for data on disk.
THEOREM RowsAlwaysCoverData == Spec => []RowsCoverData
<1>1. IInv => RowsCoverData
  BY DEF IInv
<1> QED BY <1>1, Invariance, PTL

\* Counting rows (file_cache_map.go:119-132) is as good as comparing them: when there
\* are as many as files, each file has one, and each row stands for data on disk.
THEOREM DoneAlwaysMeansOnDisk == Spec => []DoneMeansOnDisk
<1>1. IInv => DoneMeansOnDisk
  <2> SUFFICES ASSUME IInv, NEW d \in Dirs, Matches[d] = Under[d],
                      IsDirComplete(d, DirFileCount(d, TRUE)),
                      NEW f \in Under[d] \ stale, NEW p \in Cover[f]
               PROVE  p \in onDisk \cup unproven \/ eviction[p] = "files"
    BY DEF DoneMeansOnDisk
  <2>1. IsFiniteSet(Under[d])
    <3>1. IsFiniteSet(Files)
      BY FilesAssumption, FS_Interval DEF Files
    <3> QED BY <3>1, DirsAssumption, FS_Subset
  <2>2. /\ IsFiniteSet(dbFiles \cap Under[d])
        /\ Cardinality(dbFiles \cap Under[d]) <= Cardinality(Under[d])
        /\ Cardinality(dbFiles \cap Under[d]) = Cardinality(Under[d])
              => dbFiles \cap Under[d] = Under[d]
    <3>1. dbFiles \cap Under[d] \in SUBSET Under[d]
      OBVIOUS
    <3> QED BY <2>1, <3>1, FS_Subset
  <2>3. /\ Cardinality(dbFiles \cap Under[d]) \in Nat
        /\ Cardinality(Under[d]) \in Nat
    BY <2>1, <2>2, FS_CardinalityType
  <2>4. Cardinality(dbFiles \cap Under[d]) >= Cardinality(Under[d])
    BY DEF IsDirComplete, DirFileCount
  <2>5. f \in dbFiles \ stale
    BY <2>2, <2>3, <2>4
  <2> QED BY <2>5 DEF IInv, RowsCoverData
<1> QED BY <1>1, Invariance, PTL
==============================================================================
