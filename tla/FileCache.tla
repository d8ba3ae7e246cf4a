------------------------------- MODULE FileCache -------------------------------
(***************************************************************************)
(* What a row of the table file_completion is worth.  The server serves a  *)
(* file that has a row from the disk, past the torrent library             *)
(* (file_cache_map.go).  The rows are written by the poller of the         *)
(* completion store and deleted by evictions (mmap.go), neither of which   *)
(* holds a lock across its steps.                                          *)
(*                                                                         *)
(* A torrent is opened when a request needs it, dropped when nobody asks   *)
(* for it, and opened again.  Close of the storage does not close the      *)
(* completion store: the poller of the dropped storage runs on, over a     *)
(* memory that nobody marks any more.  It is called the orphan here.  At   *)
(* most one runs at a time (a bound, in the guard of OpenTorrent).         *)
(*                                                                         *)
(* The torrent library downloads, hashes and marks as in PieceStorage,     *)
(* whose tracker, channel and goroutines are left out: any piece that is   *)
(* complete may be evicted at any time.                                    *)
(***************************************************************************)
EXTENDS PieceCompletion

CONSTANTS
    MaxHashed,      \* bound on the pieces between their hash and their mark
    MaxEvicted      \* bound on the evictions at a time

ASSUME BoundsAssumption == MaxHashed \in Nat /\ MaxEvicted \in Nat

VARIABLES
    onDisk,     \* pieces whose data is on disk: others are holes or fail the hash
    hashed,     \* pieces that passed the hash and are about to be marked
    eviction,   \* the next step of the eviction of each piece
    open,       \* the torrent is open in the library
    orphan,     \* the poller of the storage that was open before
    answers,    \* answers kept by FileCacheMap
    unproven,   \* pieces marked complete on a hash older than their eviction
    stale       \* rows that stand for files not complete (neither is in the code)

diskVars == <<onDisk, hashed, eviction>>
fileVars == <<completionVars, diskVars, open, orphan, answers, unproven, stale>>

\* What is seen of the orphan: the row it writes next is the first of todo, and when
\* all are written it writes those of files again, unless its torrent is complete.
Orphans == {o \in [todo : SUBSET Files, files : SUBSET Files, completed : BOOLEAN] :
              o.todo = {} => o.files = {} /\ ~ o.completed}
NoOrphan == [todo |-> {}, files |-> {}, completed |-> FALSE]

FileTypeOK ==
    /\ CompletionTypeOK
    /\ onDisk \in SUBSET Pieces
    /\ hashed \in SUBSET Pieces
    /\ eviction \in [Pieces -> {"idle", "files", "punch"}]
    /\ open \in BOOLEAN
    /\ orphan \in Orphans
    /\ answers \in [Files -> {"none", "path", "miss"}]
    /\ unproven \in SUBSET Pieces
    /\ stale \in SUBSET dbFiles

\* The torrent has just been opened for the first time.
FileInit ==
    /\ CompletionInit
    /\ onDisk = {}
    /\ hashed = {}
    /\ eviction = [p \in Pieces |-> "idle"]
    /\ open = TRUE
    /\ orphan = NoOrphan
    /\ answers = [f \in Files |-> "none"]
    /\ unproven = {}
    /\ stale = {}

------------------------------------------------------------------------------
(* The torrent library.                                                    *)

\* It writes to pieces that the storage does not report as complete.  What peers
\* send may be wrong: only the hash tells.
WriteAt(p, good) ==
    /\ open
    /\ p \notin dbPieces \cup hashed
    /\ onDisk' = IF good THEN onDisk \cup {p} ELSE onDisk \ {p}
    /\ UNCHANGED <<completionVars, hashed, eviction, open, orphan, answers,
                   unproven, stale>>

\* A downloaded piece, or one that VerifyData asks for, passes the hash.
HashPasses(p) ==
    /\ open
    /\ p \in onDisk \ hashed
    /\ Cardinality(hashed) < MaxHashed
    /\ hashed' = hashed \cup {p}
    /\ UNCHANGED <<completionVars, onDisk, eviction, open, orphan, answers,
                   unproven, stale>>

\* The piece may have been evicted since the hash, or an eviction of it may have
\* marked it not complete and be about to punch it.
MarkComplete(p) ==
    /\ p \in hashed
    /\ Set(p, TRUE) \/ SetFails(p, TRUE)
    /\ hashed' = hashed \ {p}
    /\ unproven' = IF p \notin onDisk \/ eviction[p] # "idle"
                   THEN unproven \cup {p}
                   ELSE unproven \ {p}
    /\ UNCHANGED <<onDisk, eviction, open, orphan, answers, stale>>

\* A piece fails the hash.  Rows of files that include it are not deleted.
MarkNotComplete(p) ==
    /\ open
    /\ p \notin onDisk \cup hashed
    /\ Set(p, FALSE) \/ SetFails(p, FALSE)
    /\ unproven' = unproven \cap dbPieces'
    /\ stale' = stale \cup (dbFiles \cap AffectedFiles(p))
    /\ UNCHANGED <<diskVars, open, orphan, answers>>

------------------------------------------------------------------------------
(* evictPiece.  Evictions of one piece by two goroutines are in PieceStorage. *)

\* The next step after marking the piece.  Punching first, rows later.
SlipAfterEvictSet == "punch"

AfterEvictSet == "files"

EvictSet(p) ==
    /\ open
    /\ eviction[p] = "idle"
    /\ Cardinality({q \in Pieces : eviction[q] # "idle"}) < MaxEvicted
    /\ p \in pieces \cup dbPieces
    /\ \/ /\ Set(p, FALSE)
          /\ eviction' = [eviction EXCEPT ![p] = AfterEvictSet]
       \/ /\ SetFails(p, FALSE)
          /\ UNCHANGED eviction
    /\ unproven' = unproven \cap dbPieces'
    /\ UNCHANGED <<onDisk, hashed, open, orphan, answers, stale>>

EvictFiles(p) ==
    /\ eviction[p] = "files"
    /\ \/ UncompleteFiles(AffectedFiles(p))
       \/ UncompleteFilesFails(AffectedFiles(p))
    /\ eviction' = [eviction EXCEPT ![p] = "punch"]
    /\ stale' = (stale \cup AffectedFiles(p)) \cap dbFiles'
    /\ UNCHANGED <<onDisk, hashed, open, orphan, answers, unproven>>

\* A region that cannot be punched is logged, and its bytes stay.
EvictPunch(p) ==
    /\ eviction[p] = "punch"
    /\ \/ onDisk' = onDisk \ {p} /\ UNCHANGED faults
       \/ Fault /\ UNCHANGED onDisk
    /\ eviction' = [eviction EXCEPT ![p] = "idle"]
    /\ UNCHANGED <<bookVars, hashed, open, orphan, answers, unproven, stale>>

------------------------------------------------------------------------------
(* Pollers.                                                                *)

\* A row written for a file that is not complete, or no longer, is stale.
StaleAfter(written) ==
    (stale \ written) \cup {f \in written : ~ Cover[f] \subseteq dbPieces}

Poll ==
    /\ Poller
    /\ stale' = StaleAfter(IF poller.at = "write"
                           THEN poller.todo \ poller'.todo ELSE {})
    /\ UNCHANGED <<diskVars, open, orphan, answers, unproven>>

PollFails ==
    /\ PollerFails
    /\ UNCHANGED <<diskVars, open, orphan, answers, unproven, stale>>

\* The loop of the poller over a memory that was left behind: what it finds there is
\* always the same.
NextRound(todo, files, finished) ==
    IF todo # {}
    THEN [todo |-> todo, files |-> files, completed |-> finished]
    ELSE IF finished \/ files = {}
         THEN NoOrphan
         ELSE [todo |-> files, files |-> files, completed |-> FALSE]

OrphanWrites ==
    /\ \E f \in orphan.todo :
          /\ \A g \in orphan.todo : f <= g
          /\ dbFiles' = dbFiles \cup {f}
          /\ orphan' = NextRound(orphan.todo \ {f}, orphan.files, orphan.completed)
          /\ stale' = StaleAfter({f})
    /\ UNCHANGED <<memVars, dbPieces, closed, poller, faults, diskVars, open,
                   answers, unproven>>

OrphanFails ==
    /\ orphan # NoOrphan
    /\ Fault
    /\ orphan' = NoOrphan
    /\ UNCHANGED <<bookVars, diskVars, open, answers, unproven, stale>>

------------------------------------------------------------------------------
(* Opening, dropping, dying.                                               *)

\* Close of the storage.  It leaves the completion store as it is, and the
\* library reports no hash of a torrent that it has dropped.
Drop ==
    /\ open
    /\ open' = FALSE
    /\ hashed' = {}
    /\ UNCHANGED <<completionVars, onDisk, eviction, orphan, answers, unproven,
                   stale>>

\* The poller of the dropped storage: it is in the middle of writing, or about to
\* look, or to check whether it is done.
LeftBehind ==
    CASE poller.at = "gone"  -> NoOrphan
      [] poller.at = "write" -> NextRound(poller.todo, GetCompletedFiles, completed)
      [] poller.at = "check" -> NextRound({}, GetCompletedFiles, completed)
      [] poller.at = "scan"  -> NextRound(GetCompletedFiles, GetCompletedFiles, completed)

\* The evictions of the dropped storage are over by then.
OpenTorrent ==
    /\ ~ open
    /\ \A p \in Pieces : eviction[p] = "idle"
    /\ orphan = NoOrphan
    /\ NewPieceCompletion
    /\ orphan' = LeftBehind
    /\ open' = TRUE
    /\ UNCHANGED <<faults, diskVars, unproven, stale>>

\* The process dies.  No storage is open in the next one until somebody asks, and
\* then the memory is read from the database: here that is done at once.  An eviction
\* that did not get to the rows never will.
Crash ==
    /\ open' = FALSE
    /\ hashed' = {}
    /\ eviction' = [p \in Pieces |-> "idle"]
    /\ orphan' = NoOrphan
    /\ poller' = [at |-> "gone", todo |-> {}]
    /\ answers' = [f \in Files |-> "none"]
    /\ stale' = stale \cup
          {f \in dbFiles : \E p \in Cover[f] : eviction[p] = "files"}
    /\ pieces' = dbPieces
    /\ completedCount' = Cardinality(dbPieces)
    /\ completed' = (dbPieces = Pieces)
    /\ completedFiles' = {}
    /\ UNCHANGED <<dbPieces, dbFiles, closed, faults, onDisk, unproven>>

------------------------------------------------------------------------------
(* FileCacheMap.                                                           *)

\* The path of a file with a row.  Its content file exists since the torrent was
\* opened first; a missing database is one without rows.
get(f) == IF f \in dbFiles THEN "path" ELSE "miss"

\* An answer is kept for a minute, whichever it is.
Get(f) == IF answers[f] = "none" THEN get(f) ELSE answers[f]

Keep(f) == answers' = [answers EXCEPT ![f] = Get(f)]

Expire(f) ==
    /\ answers[f] # "none"
    /\ answers' = [answers EXCEPT ![f] = "none"]
    /\ UNCHANGED <<completionVars, diskVars, open, orphan, unproven, stale>>

------------------------------------------------------------------------------

\* The data of a file that has a row is on disk, so that it may be served past the
\* library: a row stands for pieces that the database calls complete and whose data
\* is there, or an eviction is about to delete it.  The exceptions are rows that became
\* stale in one of the known ways (a poller that writes late, a hash that fails, a
\* deletion that fails, a process that dies before it) and pieces marked complete
\* while being evicted, whose holes are the matter of PieceStorage.  evictPiece
\* (mmap.go:354-367) deletes the rows before it punches; nothing may write them in
\* between.
RowsCoverData ==
    \A f \in dbFiles \ stale : \A p \in Cover[f] :
        \/ p \in dbPieces /\ p \in onDisk \cup unproven
        \/ eviction[p] = "files"
==============================================================================
