------------------------- MODULE PieceCompletionCalls -------------------------
(***************************************************************************)
(* The completion store in use: the torrent library marks pieces complete  *)
(* and not complete, evictions mark a piece not complete and then, in a    *)
(* second call, delete the rows of its files; the poller runs beside them; *)
(* the process may die and come back.                                      *)
(***************************************************************************)
EXTENDS PieceCompletion

VARIABLE evicting       \* pieces marked not complete whose rows are still there

storeVars == <<completionVars, evicting>>

StoreTypeOK ==
    /\ CompletionTypeOK
    /\ evicting \in SUBSET Pieces

StoreInit == CompletionInit /\ evicting = {}

\* A piece may be marked while an eviction of it is under way.
SetComplete(p) ==
    /\ Set(p, TRUE) \/ SetFails(p, TRUE)
    /\ UNCHANGED evicting

\* MarkNotComplete deletes no rows.
SetNotComplete(p) ==
    /\ Set(p, FALSE) \/ SetFails(p, FALSE)
    /\ UNCHANGED evicting

\* Evictions of a piece by two goroutines at once are those of PieceStorage.
SetEvicted(p) ==
    /\ p \in pieces \ evicting
    /\ \/ Set(p, FALSE) /\ evicting' = evicting \cup {p}
       \/ SetFails(p, FALSE) /\ UNCHANGED evicting

DropRows(p) ==
    /\ p \in evicting
    /\ UncompleteFiles(AffectedFiles(p)) \/ UncompleteFilesFails(AffectedFiles(p))
    /\ evicting' = evicting \ {p}

CloseCall == Close /\ UNCHANGED evicting

Reopen == NewPieceCompletion /\ evicting' = {} /\ UNCHANGED faults

PollCall == Poller /\ UNCHANGED evicting

PollFailsCall == PollerFails /\ UNCHANGED evicting

StoreNext ==
    \/ \E p \in Pieces : \/ SetComplete(p)
                         \/ SetNotComplete(p)
                         \/ SetEvicted(p)
                         \/ DropRows(p)
    \/ PollCall
    \/ PollFailsCall
    \/ CloseCall
    \/ Reopen

StoreSpec == StoreInit /\ [][StoreNext]_storeVars

\* The poller and the second half of an eviction run on when they can.  A write
\* into a closed store fails.
StoreFairness ==
    /\ WF_storeVars(PollCall \/ (closed /\ PollFailsCall))
    /\ \A p \in Pieces : WF_storeVars(DropRows(p))

FairStoreSpec == StoreSpec /\ StoreFairness

\* Without closing and restarts: one open storage.
OpenNext ==
    \/ \E p \in Pieces : \/ SetComplete(p)
                         \/ SetNotComplete(p)
                         \/ SetEvicted(p)
                         \/ DropRows(p)
    \/ PollCall
    \/ PollFailsCall

OpenSpec == StoreInit /\ [][OpenNext]_storeVars /\ StoreFairness

------------------------------------------------------------------------------
FileComplete(f) == Cover[f] \subseteq pieces

\* A file that is complete when the poller looks, and stays so, gets its row
\* unless a statement fails or the store is closed: also when a late eviction has
\* deleted the row of a file that was downloaded again.  The poller looks again as
\* long as the torrent is not complete, and after a restart.
RowsAppear ==
    \/ []<><<Reopen>>_storeVars
    \/ \A f \in Files :
          LET settled == f \in dbFiles \/ ~ FileComplete(f)
              gone    == poller.at = "gone"
          IN  /\ FileComplete(f) /\ poller.at = "scan" ~>
                     settled \/ closed \/ (gone /\ faults > 0)
              /\ FileComplete(f) ~> settled \/ gone

\* piece_completion.go:202: the poller calls CompleteFile always, "so that
\* after eviction + re-download the file_completion entry is re-added".
RowsReadded ==
    \A f \in Files :
        [](f \in dbFiles /\ Cover[f] \cap evicting # {} =>
             [](FileComplete(f) => <>(f \in dbFiles \/ ~ FileComplete(f))))
==============================================================================
