---------------------------- MODULE FallbackStore ----------------------------
(***************************************************************************)
(* The storage of a torrent over a completion store that may not open.     *)
(* When NewPieceCompletion returns an error, pieceCompletionForDir         *)
(* (mmap.go) takes a store in memory in its place, which starts out empty. *)
(* The database stays on disk as it was, and is read by the next process   *)
(* that does open it.                                                      *)
(*                                                                         *)
(* A torrent is opened again by a new process only: the other way is in    *)
(* FileCache.  The tracker is left out: a piece that this process has      *)
(* found or marked complete may be evicted at any time, also by several    *)
(* goroutines, and hashed and marked while it is evicted.                  *)
(***************************************************************************)
EXTENDS PieceCompletion

CONSTANT Evictors   \* the goroutines that evict

VARIABLES
    pc,         \* the store in use
    mapPieces,  \* pieces complete in the store in memory
    known,      \* pieces that this process has found or marked complete
    onDisk,     \* pieces whose data is on disk
    hash,       \* the outcome of the hash of each piece, until it is reported
    eviction,   \* the next step of each goroutine, and the piece it evicts
    overtaken   \* pieces marked in the database on a hash that an eviction
                \* of theirs has overtaken (not in the code)

diskVars == <<pc, mapPieces, known, onDisk, hash, eviction, overtaken>>
vars == <<completionVars, diskVars>>

FallbackTypeOK ==
    /\ CompletionTypeOK
    /\ pc \in {"sqlite", "map"}
    /\ {mapPieces, known, onDisk, overtaken} \subseteq SUBSET Pieces
    /\ hash \in [Pieces -> {"none", "passed", "failed"}]
    /\ eviction \in [Evictors ->
           [at : {"files", "punch"}, piece : Pieces] \cup {[at |-> "idle"]}]

Resting == [e \in Evictors |-> [at |-> "idle"]]

NoHash == [p \in Pieces |-> "none"]

Init ==
    /\ CompletionInit
    /\ pc = "sqlite"
    /\ mapPieces = {}
    /\ known = {}
    /\ onDisk = {}
    /\ hash = NoHash
    /\ eviction = Resting
    /\ overtaken = {}

------------------------------------------------------------------------------
Reported == IF pc = "sqlite" THEN dbPieces ELSE mapPieces

\* Set of the store in use.  The one in memory does not fail.
SetCompletion(p, b) ==
    \/ pc = "sqlite" /\ Set(p, b) /\ UNCHANGED mapPieces
    \/ /\ pc = "map"
       /\ mapPieces' = IF b THEN mapPieces \cup {p} ELSE mapPieces \ {p}
       /\ UNCHANGED completionVars

SetCompletionFails(p, b) ==
    pc = "sqlite" /\ SetFails(p, b) /\ UNCHANGED mapPieces

WriteAt(p) ==
    /\ p \notin Reported
    /\ hash[p] = "none"
    /\ onDisk' = onDisk \cup {p}
    /\ UNCHANGED <<completionVars, pc, mapPieces, known, hash, eviction, overtaken>>

\* The library hashes what it finds on disk, also of an earlier process.
Hash(p) ==
    /\ hash[p] = "none"
    /\ hash' = [hash EXCEPT ![p] = IF p \in onDisk THEN "passed" ELSE "failed"]
    /\ UNCHANGED <<completionVars, pc, mapPieces, known, onDisk, eviction, overtaken>>

\* An eviction of p has marked it incomplete and is still to punch it.
BeingEvicted(p) ==
    \E e \in Evictors : eviction[e].at # "idle" /\ eviction[e].piece = p

\* What a mark in the database does to "overtaken".
Overtake(p, b) ==
    overtaken' = IF pc = "map" THEN overtaken
                 ELSE IF b /\ (BeingEvicted(p) \/ p \notin onDisk)
                 THEN overtaken \cup {p}
                 ELSE overtaken \ {p}

MarkComplete(p) ==
    /\ hash[p] = "passed"
    /\ \/ SetCompletion(p, TRUE) /\ Overtake(p, TRUE) /\ known' = known \cup {p}
       \/ SetCompletionFails(p, TRUE) /\ UNCHANGED <<known, overtaken>>
    /\ hash' = [hash EXCEPT ![p] = "none"]
    /\ UNCHANGED <<pc, onDisk, eviction>>

MarkNotComplete(p) ==
    /\ hash[p] = "failed"
    /\ \/ SetCompletion(p, FALSE) /\ Overtake(p, FALSE)
       \/ SetCompletionFails(p, FALSE) /\ UNCHANGED overtaken
    /\ hash' = [hash EXCEPT ![p] = "none"]
    /\ UNCHANGED <<pc, known, onDisk, eviction>>

Evict(e, next) == eviction' = [eviction EXCEPT ![e] = next]

EvictSet(e, p) ==
    /\ eviction[e].at = "idle"
    /\ p \in known
    /\ \/ /\ SetCompletion(p, FALSE)
          /\ Overtake(p, FALSE)
          /\ Evict(e, [at |-> "files", piece |-> p])
       \/ SetCompletionFails(p, FALSE) /\ UNCHANGED <<overtaken, eviction>>
    /\ UNCHANGED <<pc, known, onDisk, hash>>

\* The store in memory has no UncompleteFiles: the rows stay.
EvictFiles(e) ==
    /\ eviction[e].at = "files"
    /\ IF pc = "sqlite"
       THEN \/ UncompleteFiles(AffectedFiles(eviction[e].piece))
            \/ UncompleteFilesFails(AffectedFiles(eviction[e].piece))
       ELSE UNCHANGED completionVars
    /\ Evict(e, [at |-> "punch", piece |-> eviction[e].piece])
    /\ UNCHANGED <<pc, mapPieces, known, onDisk, hash, overtaken>>

\* A punch that fails is logged and forgotten.
EvictPunch(e) ==
    /\ eviction[e].at = "punch"
    /\ \/ onDisk' = onDisk \ {eviction[e].piece} /\ UNCHANGED faults
       \/ Fault /\ UNCHANGED onDisk
    /\ Evict(e, [at |-> "idle"])
    /\ UNCHANGED <<bookVars, pc, mapPieces, known, hash, overtaken>>

\* The process dies, and the next one opens the torrent.  NewPieceCompletion
\* returns an error when a statement fails, and also when a row that its poller
\* writes fails before it has returned: both assign err.
Reopen ==
    /\ \/ NewPieceCompletion /\ pc' = "sqlite" /\ UNCHANGED faults
       \/ /\ Fault
          /\ pc' = "map"
          /\ poller' = [at |-> "gone", todo |-> {}]
          /\ UNCHANGED <<memVars, dbPieces, dbFiles, closed>>
    /\ mapPieces' = {}
    /\ known' = Reported'
    /\ hash' = NoHash
    /\ eviction' = Resting
    /\ UNCHANGED <<onDisk, overtaken>>

Poll == (Poller \/ PollerFails) /\ UNCHANGED diskVars

Next ==
    \/ \E p \in Pieces : \/ WriteAt(p)
                         \/ Hash(p)
                         \/ MarkComplete(p)
                         \/ MarkNotComplete(p)
    \/ \E e \in Evictors : \/ EvictFiles(e)
                           \/ EvictPunch(e)
                           \/ \E p \in Pieces : EvictSet(e, p)
    \/ Reopen
    \/ Poll

Spec == Init /\ [][Next]_vars

------------------------------------------------------------------------------
\* Holes that the database calls complete, although no mark overlapped with the
\* eviction that made them: nothing announces them.
Forgotten == dbPieces \ (onDisk \cup overtaken)

\* mmap.go:358 says of evictPiece: "Mark piece incomplete in SQLite + in-memory
\* state", before it is punched.  So no hole is complete in the database, but for
\* a piece that was marked complete again during its eviction.
HolesIncompleteInSQLite == Forgotten = {}

\* Only an eviction by a storage that has fallen back makes such a hole.
OnlyFallbackForgets ==
    [][\A p \in Forgotten' : p \in Forgotten \/ pc = "map"]_vars
==============================================================================
