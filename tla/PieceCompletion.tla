--------------------------- MODULE PieceCompletion ---------------------------
(***************************************************************************)
(* Which pieces and files of one torrent are complete                      *)
(* (piece_completion.go).  The same facts are kept twice: in memory        *)
(* (struct completions, under its mutex mux) and in a SQLite database      *)
(* beside the data (struct pieceCompletion, under its mutex mu).  Set      *)
(* changes the memory first and the database next, both under mu.  Nobody  *)
(* can see the database between the two, and a process that dies there     *)
(* leaves the database as if it had died before, so Set is one action.     *)
(*                                                                         *)
(* A goroutine, the poller, asks the memory every five seconds which files *)
(* are complete and writes a file_completion row for each of them.  It     *)
(* holds no lock between the two.                                          *)
(*                                                                         *)
(* Every SQL statement may fail (the database is opened by other readers   *)
(* too).  At most MaxFaults operations do.                                 *)
(***************************************************************************)
EXTENDS Torrent

CONSTANTS
    SingleFile,     \* TRUE for a torrent that has no list of files
    MaxFaults       \* bound on the operations that fail

ASSUME SingleFileAssumption ==
    /\ SingleFile \in BOOLEAN
    /\ SingleFile => NumFiles = 1 /\ Cover[1] = Pieces
ASSUME MaxFaultsAssumption == MaxFaults \in Nat

VARIABLES
    pieces,             \* pieces marked complete in memory
    completedCount,     \* the count kept beside them
    completed,          \* the flag kept beside them
    completedFiles,     \* files known complete, in memory
    dbPieces,           \* pieces with complete = 1 in table piece_completion
    dbFiles,            \* files with a row in table file_completion
    closed,             \* Close was called
    poller,             \* where the poller is, and the files it has yet to write
    faults              \* operations that failed so far

memVars == <<pieces, completedCount, completed, completedFiles>>
bookVars == <<memVars, dbPieces, dbFiles, closed, poller>>
completionVars == <<bookVars, faults>>

\* It is about to write only when there is a file to write.
PollerStates ==
    {s \in [at : {"scan", "write", "check", "gone"}, todo : SUBSET Files] :
        s.at = "write" => s.todo # {}}

CompletionTypeOK ==
    /\ pieces \in SUBSET Pieces
    /\ completedCount \in Int
    /\ completed \in BOOLEAN
    /\ completedFiles \in SUBSET Files
    /\ dbPieces \in SUBSET Pieces
    /\ dbFiles \in SUBSET Files
    /\ closed \in BOOLEAN
    /\ poller \in PollerStates
    /\ faults \in 0 .. MaxFaults

------------------------------------------------------------------------------
(* struct completions                                                      *)

\* A piece that is complete already is counted again.
SlipComplete(p) ==
    /\ completedCount' = completedCount + 1
    /\ pieces' = pieces \cup {p}
    /\ completed' = (completedCount' = Cardinality(Pieces))
    /\ UNCHANGED completedFiles

Complete(p) ==
    IF p \in pieces
    THEN UNCHANGED memVars
    ELSE /\ completedCount' = completedCount + 1
         /\ pieces' = pieces \cup {p}
         /\ completed' = (completedCount' = Cardinality(Pieces))
         /\ UNCHANGED completedFiles

\* The files of the piece stay complete.
SlipUncomplete(p) ==
    IF p \notin pieces
    THEN UNCHANGED memVars
    ELSE /\ completedCount' = completedCount - 1
         /\ pieces' = pieces \ {p}
         /\ completed' = FALSE
         /\ UNCHANGED completedFiles

Uncomplete(p) ==
    IF p \notin pieces
    THEN UNCHANGED memVars
    ELSE /\ completedCount' = completedCount - 1
         /\ pieces' = pieces \ {p}
         /\ completed' = FALSE
         /\ completedFiles' = completedFiles \ AffectedFiles(p)

IsPieceInCompletedFile(p) == \E f \in completedFiles : p \in Cover[f]

\* A torrent of a single file is never entered into completedFiles.
GetCompletedFiles ==
    IF SingleFile
    THEN {f \in Files : completed \/ pieces = Pieces}
    ELSE {f \in Files : \/ completed
                        \/ f \in completedFiles
                        \/ Cover[f] \subseteq pieces}

------------------------------------------------------------------------------
(* struct pieceCompletion                                                  *)

\* NewPieceCompletion: the memory is read from the database.
Loaded ==
    /\ pieces' = dbPieces
    /\ completedCount' = Cardinality(dbPieces)
    /\ completed' = (dbPieces = Pieces)
    /\ completedFiles' = {}
    /\ closed' = FALSE
    /\ poller' = [at |-> "scan", todo |-> {}]

CompletionInit ==
    /\ pieces = {}
    /\ completedCount = 0
    /\ completed = (Pieces = {})
    /\ completedFiles = {}
    /\ dbPieces = {}
    /\ dbFiles = {}
    /\ closed = FALSE
    /\ poller = [at |-> "scan", todo |-> {}]
    /\ faults = 0

NewPieceCompletion == Loaded /\ UNCHANGED <<dbPieces, dbFiles>>

Fault == faults < MaxFaults /\ faults' = faults + 1

SetInMemory(p, b) == IF b THEN Complete(p) ELSE Uncomplete(p)

\* "insert or ignore" in place of "insert or replace".
SlipSet(p, b) ==
    /\ ~ closed
    /\ SetInMemory(p, b)
    /\ dbPieces' = IF b THEN dbPieces \cup {p} ELSE dbPieces
    /\ UNCHANGED <<dbFiles, closed, poller, faults>>

Set(p, b) ==
    /\ ~ closed
    /\ SetInMemory(p, b)
    /\ dbPieces' = IF b THEN dbPieces \cup {p} ELSE dbPieces \ {p}
    /\ UNCHANGED <<dbFiles, closed, poller, faults>>

\* Set returns an error: nothing was done, or only the memory was changed.
SetFails(p, b) ==
    \/ /\ closed
       /\ UNCHANGED completionVars
    \/ /\ ~ closed
       /\ Fault
       /\ SetInMemory(p, b)
       /\ UNCHANGED <<dbPieces, dbFiles, closed, poller>>

UncompleteFiles(fs) ==
    /\ ~ closed
    /\ dbFiles' = dbFiles \ fs
    /\ UNCHANGED <<memVars, dbPieces, closed, poller, faults>>

\* The rows are deleted one by one until a statement fails.
UncompleteFilesFails(fs) ==
    \/ /\ closed
       /\ UNCHANGED completionVars
    \/ /\ ~ closed
       /\ Fault
       /\ \E failed \in fs : dbFiles' = dbFiles \ {f \in fs : f < failed}
       /\ UNCHANGED <<memVars, dbPieces, closed, poller>>

\* Close is part of the type; nothing in the repository calls it.
Close ==
    /\ ~ closed
    /\ closed' = TRUE
    /\ UNCHANGED <<memVars, dbPieces, dbFiles, poller, faults>>

------------------------------------------------------------------------------
(* The poller                                                              *)

\* The loop over the files is entered without a file.
SlipAfterScan(todo) == [at |-> "write", todo |-> todo]

AfterScan(todo) == [at |-> IF todo = {} THEN "check" ELSE "write", todo |-> todo]

\* The rows of files found complete before are not written again.
SlipPollerScan ==
    /\ poller.at = "scan"
    /\ completedFiles' = IF SingleFile THEN completedFiles
                                       ELSE GetCompletedFiles
    /\ poller' = AfterScan(GetCompletedFiles \ completedFiles)
    /\ UNCHANGED <<pieces, completedCount, completed, dbPieces, dbFiles, closed,
                   faults>>

\* GetCompletedFiles, under the mutex of the memory only.
PollerScan ==
    /\ poller.at = "scan"
    /\ completedFiles' = IF SingleFile THEN completedFiles
                                       ELSE GetCompletedFiles
    /\ poller' = AfterScan(GetCompletedFiles)
    /\ UNCHANGED <<pieces, completedCount, completed, dbPieces, dbFiles, closed,
                   faults>>

\* CompleteFile for the next of the files found, in order.
PollerWrite ==
    /\ poller.at = "write"
    /\ ~ closed
    /\ \E f \in poller.todo :
          /\ \A g \in poller.todo : f <= g
          /\ dbFiles' = dbFiles \cup {f}
          /\ poller' = AfterScan(poller.todo \ {f})
    /\ UNCHANGED <<memVars, dbPieces, closed, faults>>

\* CompleteFile returns an error: the poller ends for good.
PollerFails ==
    /\ poller.at = "write"
    /\ poller' = [poller EXCEPT !.at = "gone"]
    /\ IF closed THEN UNCHANGED faults ELSE Fault
    /\ UNCHANGED <<memVars, dbPieces, dbFiles, closed>>

\* completed and closed are read without a lock.
PollerCheck ==
    /\ poller.at = "check"
    /\ poller' = [poller EXCEPT !.at =
                     IF completed \/ closed THEN "gone" ELSE "scan"]
    /\ UNCHANGED <<memVars, dbPieces, dbFiles, closed, faults>>

Poller == PollerScan \/ PollerWrite \/ PollerCheck

------------------------------------------------------------------------------
(* The store, whoever calls it.                                            *)

CompletionNext ==
    \/ \E p \in Pieces, b \in BOOLEAN : Set(p, b) \/ SetFails(p, b)
    \/ \E fs \in SUBSET Files : UncompleteFiles(fs) \/ UncompleteFilesFails(fs)
    \/ Close
    \/ NewPieceCompletion /\ (Fault \/ UNCHANGED faults)
    \/ Poller
    \/ PollerFails
    \/ Fault /\ UNCHANGED bookVars      \* a failure outside the store

CompletionSpec == CompletionInit /\ [][CompletionNext]_completionVars

\* The count and the flag say what the set of pieces says: the poller ends its
\* life on the flag, and each of the three is updated on its own.
CountAgrees ==
    /\ completedCount = Cardinality(pieces)
    /\ completed <=> pieces = Pieces

\* A file is remembered as complete only while all its pieces are: its pieces
\* are protected from eviction on the strength of it.
CompletedFilesSound ==
    \A f \in completedFiles : Cover[f] \subseteq pieces

\* As long as no SQL statement failed, what a restart would read from the
\* database is what the memory says.
MemoryMatchesDatabase ==
    faults = 0 => pieces = dbPieces
==============================================================================
