----------------------------- MODULE PieceStorage -----------------------------
(***************************************************************************)
(* The storage of one torrent that does not fit its cache budget           *)
(* (mmap.go): the data on disk, the completion store, the LRU tracker and  *)
(* the goroutines that work on them.                                       *)
(*                                                                         *)
(* The torrent library hashes a piece on one of its hashers once the       *)
(* piece is downloaded, or when VerifyData asks for it, and calls          *)
(* MarkComplete or MarkNotComplete with the outcome.  MarkComplete evicts  *)
(* on the hasher's goroutine; the sweep goroutine evicts what is over      *)
(* budget when its ticker fires, and passes evicted pieces to VerifyData,  *)
(* so that the library learns that they are gone.  VerifyData returns      *)
(* when the piece was hashed anew.  An eviction is five steps, and no lock *)
(* is held from one to the next: evictions of the same piece and marks of  *)
(* a piece being evicted interleave freely with it.                        *)
(*                                                                         *)
(* Process crashes lose the memory and keep the disk and the database.     *)
(***************************************************************************)
EXTENDS PieceLRU, PieceCompletion

CONSTANTS
    Hashers,        \* hashing goroutines of the torrent library
    Sweep,          \* the sweep goroutine; it also stands for OpenTorrent
    NoPiece,        \* no piece at hand
    VerifyCap,      \* capacity of verifyCh
    MayCrash        \* the process may crash, any number of times

Threads == Hashers \cup {Sweep}

ASSUME ThreadsAssumption == Sweep \notin Hashers
ASSUME NoPieceAssumption == NoPiece \notin Pieces
ASSUME VerifyCapAssumption == VerifyCap \in Nat
ASSUME MayCrashAssumption == MayCrash \in BOOLEAN
ASSUME EvictionEnabled == Budget > 0

VARIABLES
    stored,         \* pieces whose data is on disk, the others are holes
    have,           \* pieces that the torrent library takes to be complete
    verifyCh,       \* evicted pieces queued for VerifyData
    thread,         \* what each goroutine is doing
    open,           \* OpenTorrent has returned
    lost            \* pieces whose notification was lost (not in the code)

storageVars == <<stored, have, verifyCh, thread, open, lost>>
vars == <<lruVars, completionVars, storageVars>>

Evicting ==
    {"evictSet", "evictFiles", "evictPunch", "evictRemove", "evictQueue"}
HasherStates ==
    {"idle", "markSet", "markAdd", "unmarkSet", "refresh"} \cup Evicting
SweepStates == {"opening", "idle", "verify", "await"} \cup Evicting

\* piece is the piece being marked or verified, victims are the pieces that the
\* goroutine has yet to evict.
HasherThreads ==
    {s \in [at : HasherStates, piece : Pieces \cup {NoPiece}, victims : Seq(Pieces)] :
        /\ s.at \in Evicting => s.victims # << >>
        /\ s.piece = NoPiece => s.at = "idle"}
SweepThreads ==
    {s \in [at : SweepStates, piece : Pieces \cup {NoPiece}, victims : Seq(Pieces)] :
        /\ s.at \in Evicting => s.victims # << >>
        /\ s.piece = NoPiece => s.at \notin {"verify", "await"}}

ThreadsTypeOK ==
    /\ thread \in [Threads -> HasherThreads \cup SweepThreads]
    /\ \A h \in Hashers : thread[h] \in HasherThreads
    /\ thread[Sweep] \in SweepThreads

StorageTypeOK ==
    /\ stored \in SUBSET Pieces
    /\ have \in SUBSET Pieces
    /\ verifyCh \in Seq(Pieces)
    /\ Len(verifyCh) <= VerifyCap
    /\ ThreadsTypeOK
    /\ open \in BOOLEAN
    /\ lost \in SUBSET Pieces

TypeOK == LRUTypeOK /\ CompletionTypeOK /\ StorageTypeOK

Idle == [at |-> "idle", piece |-> NoPiece, victims |-> << >>]

Init ==
    /\ LRUInit
    /\ CompletionInit
    /\ stored = {}
    /\ have = {}
    /\ verifyCh = << >>
    /\ thread = [t \in Threads |-> Idle]
    /\ open = FALSE
    /\ lost = {}

------------------------------------------------------------------------------
Goto(t, label) == thread' = [thread EXCEPT ![t].at = label]

Victim(t) == Head(thread[t].victims)

ProtectedPieces == {p \in Pieces : IsPieceInCompletedFile(p)}

\* The end of the loop over the pieces to evict: MarkComplete returns to the
\* library, the sweep to its select (OpenTorrent to its next statement).
EvictionsDone(t) == IF t = Sweep THEN "idle" ELSE "refresh"

EvictEach(t, victims) ==
    thread' = [thread EXCEPT
                  ![t].at = IF victims = << >> THEN EvictionsDone(t)
                                               ELSE "evictSet",
                  ![t].victims = victims]

EvictNext(t) == EvictEach(t, Tail(thread[t].victims))

\* A hasher has piece p in hand and is at "label".
HasherAt(label, p) ==
    \E h \in Hashers : thread[h].at = label /\ thread[h].piece = p

\* Pieces in the hands of a hasher.
BeingHashed == {thread[h].piece : h \in {g \in Hashers : thread[g].at # "idle"}}

------------------------------------------------------------------------------
(* evictPiece, one action per step of the code.                            *)

EvictSet(t) ==
    /\ thread[t].at = "evictSet"
    /\ \/ Set(Victim(t), FALSE) /\ Goto(t, "evictFiles")
       \/ SetFails(Victim(t), FALSE) /\ EvictNext(t)
    /\ UNCHANGED <<lruVars, stored, have, verifyCh, open, lost>>

\* An error of UncompleteFiles is logged and forgotten.
EvictFiles(t) ==
    /\ thread[t].at = "evictFiles"
    /\ \/ UncompleteFiles(AffectedFiles(Victim(t)))
       \/ UncompleteFilesFails(AffectedFiles(Victim(t)))
    /\ Goto(t, "evictPunch")
    /\ UNCHANGED <<lruVars, stored, have, verifyCh, open, lost>>

\* An error of punchHole is logged and forgotten; another region of the piece,
\* in another file, may be punched nevertheless.
EvictPunch(t) ==
    /\ thread[t].at = "evictPunch"
    /\ \/ stored' = stored \ {Victim(t)} /\ UNCHANGED faults
       \/ Fault /\ stored' \in {stored, stored \ {Victim(t)}}
    /\ Goto(t, "evictRemove")
    /\ UNCHANGED <<lruVars, bookVars, have, verifyCh, open, lost>>

EvictRemove(t) ==
    /\ thread[t].at = "evictRemove"
    /\ Remove(Victim(t))
    /\ Goto(t, "evictQueue")
    /\ UNCHANGED <<completionVars, stored, have, verifyCh, open, lost>>

\* No default: the thread waits for room in the channel.
SlipQueueWaits(p) ==
    /\ Len(verifyCh) < VerifyCap
    /\ verifyCh' = Append(verifyCh, p)
    /\ UNCHANGED lost

\* The channel grows without bound.
SlipQueueGrows(p) ==
    /\ verifyCh' = Append(verifyCh, p)
    /\ UNCHANGED lost

\* The select with a default: a full channel drops the piece.
QueueVerify(p) ==
    IF Len(verifyCh) < VerifyCap
    THEN verifyCh' = Append(verifyCh, p) /\ UNCHANGED lost
    ELSE lost' = lost \cup {p} /\ UNCHANGED verifyCh

EvictQueue(t) ==
    /\ thread[t].at = "evictQueue"
    /\ QueueVerify(Victim(t))
    /\ EvictNext(t)
    /\ UNCHANGED <<lruVars, completionVars, stored, have, open>>

EvictPiece(t) ==
    \/ EvictSet(t)
    \/ EvictFiles(t)
    \/ EvictPunch(t)
    \/ EvictRemove(t)
    \/ EvictQueue(t)

------------------------------------------------------------------------------
(* A hasher of the torrent library.                                        *)

\* The library hashes a piece that it does not have yet, or that VerifyData
\* asks it to hash; the outcome is what is on disk now.
StartHash(h, p) ==
    LET asked == thread[Sweep].at = "verify" /\ thread[Sweep].piece = p
    IN  /\ open
        /\ thread[h].at = "idle"
        /\ p \notin BeingHashed
        /\ p \notin have \/ asked
        /\ thread' = [thread EXCEPT
                         ![h].at = IF p \in stored THEN "markSet"
                                                   ELSE "unmarkSet",
                         ![h].piece = p,
                         ![Sweep].at = IF asked THEN "await" ELSE @]
        /\ UNCHANGED <<lruVars, completionVars, stored, have, verifyCh, open, lost>>

\* MarkComplete does not hand the piece to the tracker.
SlipMarkSet(h) ==
    /\ thread[h].at = "markSet"
    /\ Set(thread[h].piece, TRUE) \/ SetFails(thread[h].piece, TRUE)
    /\ Goto(h, "refresh")
    /\ UNCHANGED <<lruVars, stored, have, verifyCh, open, lost>>

\* MarkComplete up to the tracker: an error of Set is returned to the library.
MarkSet(h) ==
    /\ thread[h].at = "markSet"
    /\ \/ Set(thread[h].piece, TRUE) /\ Goto(h, "markAdd")
       \/ SetFails(thread[h].piece, TRUE) /\ Goto(h, "refresh")
    /\ UNCHANGED <<lruVars, stored, have, verifyCh, open, lost>>

\* The rest of MarkComplete: Add, and the evictions it asks for.
MarkAdd(h) ==
    /\ thread[h].at = "markAdd"
    /\ Add(thread[h].piece)
    /\ \E toEvict \in AddReturns(thread[h].piece, ProtectedPieces) :
          EvictEach(h, toEvict)
    /\ UNCHANGED <<completionVars, stored, have, verifyCh, open, lost>>

\* MarkNotComplete trusts that the eviction has done its work.
SlipMarkNotComplete(h) ==
    /\ thread[h].at = "unmarkSet"
    /\ Goto(h, "refresh")
    /\ UNCHANGED <<lruVars, completionVars, stored, have, verifyCh, open, lost>>

\* MarkNotComplete: the tracker and the file rows are left as they are.
MarkNotComplete(h) ==
    /\ thread[h].at = "unmarkSet"
    /\ \/ Set(thread[h].piece, FALSE) /\ UNCHANGED lost
       \/ SetFails(thread[h].piece, FALSE) /\ lost' = lost \cup {thread[h].piece}
    /\ Goto(h, "refresh")
    /\ UNCHANGED <<lruVars, stored, have, verifyCh, open>>

\* Completion, from the database.
Completion(p) == have' = (have \ {p}) \cup (dbPieces \cap {p})

\* After either call the library reads the completion of the piece, and the
\* VerifyData that asked for the hash returns.
HashDone(h) ==
    /\ thread[h].at = "refresh"
    /\ Completion(thread[h].piece)
    /\ thread' = [t \in Threads |->
                     IF \/ t = h
                        \/ /\ t = Sweep
                           /\ thread[t].at = "await"
                           /\ thread[t].piece = thread[h].piece
                     THEN Idle
                     ELSE thread[t]]
    /\ UNCHANGED <<lruVars, completionVars, stored, verifyCh, open, lost>>

Hasher(h) ==
    \/ MarkSet(h)
    \/ MarkAdd(h)
    \/ MarkNotComplete(h)
    \/ HashDone(h)
    \/ EvictPiece(h)

------------------------------------------------------------------------------
(* The torrent library at any time.                                        *)

\* WriteAt completes the data of a piece that is being downloaded.
WriteAt(p) ==
    /\ open
    /\ p \notin have \cup stored \cup BeingHashed
    /\ stored' = stored \cup {p}
    /\ lost' = lost \ {p}
    /\ UNCHANGED <<lruVars, completionVars, have, verifyCh, thread, open>>

\* By a reader or, of any piece, by a hasher.
ReadAt(p) ==
    /\ open
    /\ Touch(p)
    /\ UNCHANGED <<completionVars, storageVars>>

ReadCompletion(p) ==
    /\ open
    /\ Completion(p)
    /\ UNCHANGED <<lruVars, completionVars, stored, verifyCh, thread, open, lost>>

Client(p) == WriteAt(p) \/ ReadAt(p) \/ ReadCompletion(p)

------------------------------------------------------------------------------
(* The sweep goroutine.                                                    *)

\* The piece received is not passed to VerifyData.
SlipSweepReceive ==
    /\ open
    /\ thread[Sweep].at = "idle"
    /\ verifyCh # << >>
    /\ verifyCh' = Tail(verifyCh)
    /\ UNCHANGED <<lruVars, completionVars, stored, have, thread, open, lost>>

\* case idx := <-verifyCh.  The torrent is in the client as long as its storage is
\* open, so that verifyPiece finds it (mmap.go:190-198).
SweepReceive ==
    /\ open
    /\ thread[Sweep].at = "idle"
    /\ verifyCh # << >>
    /\ verifyCh' = Tail(verifyCh)
    /\ thread' = [thread EXCEPT ![Sweep].at = "verify",
                                ![Sweep].piece = Head(verifyCh)]
    /\ UNCHANGED <<lruVars, completionVars, stored, have, open, lost>>

evictOverBudget ==
    \E toEvict \in computeEvictions(lruList, used, ProtectedPieces) :
        EvictEach(Sweep, toEvict)

\* The comparison with the budget is turned round.
SlipSweepTick ==
    /\ open
    /\ thread[Sweep].at = "idle"
    /\ used < Budget
    /\ evictOverBudget
    /\ UNCHANGED <<lruVars, completionVars, stored, have, verifyCh, open, lost>>

\* case <-ticker.C
SweepTick ==
    /\ open
    /\ thread[Sweep].at = "idle"
    /\ used > Budget
    /\ evictOverBudget
    /\ UNCHANGED <<lruVars, completionVars, stored, have, verifyCh, open, lost>>

------------------------------------------------------------------------------
(* OpenTorrent and crashes.                                                *)

\* What was recovered beyond the budget is left to the sweep.
SlipOpenEvict ==
    /\ thread[Sweep].at = "opening"
    /\ Goto(Sweep, "idle")
    /\ UNCHANGED <<lruVars, completionVars, stored, have, verifyCh, open, lost>>

\* OpenTorrent evicts what is over budget before it returns.
OpenEvict ==
    /\ thread[Sweep].at = "opening"
    /\ evictOverBudget
    /\ UNCHANGED <<lruVars, completionVars, stored, have, verifyCh, open, lost>>

\* OpenTorrent returns; the library reads the completion of every piece.
Opened ==
    /\ ~ open
    /\ thread[Sweep].at = "idle"
    /\ open' = TRUE
    /\ have' = dbPieces
    /\ UNCHANGED <<lruVars, completionVars, stored, verifyCh, thread, lost>>

\* Pieces that the library is about to learn not to have, but not from the
\* database: those in the channel, in VerifyData, seen by a hasher to be holes,
\* and in the hands of a thread that has punched them.
Announced ==
    {verifyCh[i] : i \in DOMAIN verifyCh}
        \cup {thread[t].piece : t \in {s \in Threads :
                                 thread[s].at \in {"verify", "unmarkSet"}}}
        \cup {Victim(t) : t \in {s \in Threads :
                                 thread[s].at \in {"evictRemove", "evictQueue"}}}

\* The pieces found in the database are not tracked.
SlipRecoverLRU == lruList' = << >> /\ used' = 0 /\ UNCHANGED faults

\* recoverLRU: a new tracker with the pieces that are complete in the database,
\* in any order; a piece that cannot be read from it is left out.
recoverLRU ==
    \E found \in SUBSET dbPieces :
        /\ IF found = dbPieces THEN UNCHANGED faults ELSE Fault
        /\ lruList' \in SeqExt!SetToSeqs(found)
        /\ used' = SumSize(found)

\* The process dies and is started again, up to NewPieceCompletion and
\* recoverLRU in OpenTorrent.
Crash ==
    /\ MayCrash
    /\ NewPieceCompletion
    /\ recoverLRU
    /\ have' = {}
    /\ verifyCh' = << >>
    /\ thread' = [t \in Threads |->
                     IF t = Sweep THEN [Idle EXCEPT !.at = "opening"] ELSE Idle]
    /\ open' = FALSE
    /\ lost' = lost \cup Announced
    /\ UNCHANGED stored

Poll == Poller /\ UNCHANGED <<lruVars, storageVars>>

PollFails == PollerFails /\ UNCHANGED <<lruVars, storageVars>>

StorageNext ==
    \/ \E h \in Hashers : Hasher(h) \/ \E p \in Pieces : StartHash(h, p)
    \/ \E p \in Pieces : Client(p)
    \/ SweepReceive
    \/ SweepTick
    \/ EvictPiece(Sweep)
    \/ OpenEvict
    \/ Opened
    \/ Crash

Next == StorageNext \/ Poll \/ PollFails

Spec == Init /\ [][Next]_vars

------------------------------------------------------------------------------
\* A piece that the database records as complete, or that a hasher is about to
\* record, has its data on disk, or its hole is announced or its announcement
\* was lost: an eviction may overlap with any other eviction, mark or crash.
HolesAnnounced ==
    \A p \in Pieces \ stored :
        p \in dbPieces \/ HasherAt("markSet", p) => p \in Announced \cup lost

\* The library takes a piece for complete only if its data is on disk, or it is
\* about to learn otherwise, or the announcement was lost on one of the ways on
\* which it can be: no longer than that is a reader served zeros for data.
NoForgottenHole ==
    \A p \in have \ stored :
        p \in Announced \cup lost \/ HasherAt("refresh", p)

\* Pieces that a thread is about to remove from the tracker.
PendingEvictions ==
    UNION {{thread[t].victims[i] :
               i \in IF thread[t].at = "evictQueue"
                     THEN 2 .. Len(thread[t].victims)
                     ELSE DOMAIN thread[t].victims} : t \in Threads}

\* As long as nothing failed, what is tracked beyond the budget is about to be
\* evicted, however the evictions of several threads interleave and whatever
\* pieces they have in common.
BudgetCovered ==
    faults = 0 /\ thread[Sweep].at # "opening" =>
        used - SumSize(entries \cap PendingEvictions) <= Budget

\* The data of a complete piece takes disk space that the tracker counts.  A
\* piece that was marked complete again while an eviction of it was under way
\* escapes the tracker; it comes back when VerifyData has it hashed and marked
\* once more, which only a lost notification prevents.
CompletePiecesTracked ==
    faults = 0 =>
        \A p \in pieces \cap stored :
            p \in entries \cup Announced \cup lost \cup BeingHashed

\* Pieces that the library is still to be told about: those announced and those in
\* the hands of a hasher, which it reads again when the hasher returns.
Untold == Announced \cup BeingHashed

\* The storage keeps the promise of Notices.
Promise == INSTANCE Notices WITH
    data <- stored,
    held <- have,
    recorded <- dbPieces,
    notices <- Untold,
    missed <- lost

\* Whatever threads, failures and crashes do to a piece, every step of them is one
\* that Notices allows: in particular a notice goes only with the data back or the
\* record gone (MarkNotComplete, mmap.go:284), or is known to be lost.
KeepsNotices == Promise!NoticesSpec

------------------------------------------------------------------------------
(* Liveness.  The goroutines run on; a select with several ready cases     *)
(* takes each of them sooner or later; the library serves its queue of     *)
(* pieces to hash, where VerifyData puts its piece.  Nothing obliges the   *)
(* library to download, read or ask for the completion of anything.        *)

AskedHash ==
    \E h \in Hashers :
        /\ StartHash(h, thread[Sweep].piece)
        /\ thread[Sweep].at = "verify"

Fairness ==
    /\ \A h \in Hashers : WF_vars(Hasher(h))
    /\ WF_vars(EvictPiece(Sweep))
    /\ WF_vars(OpenEvict) /\ WF_vars(Opened)
    /\ SF_vars(SweepReceive) /\ SF_vars(SweepTick)
    /\ SF_vars(AskedHash)

\* MarkComplete and MarkNotComplete return, although they evict: VerifyData is
\* never called, and never waited for, on the goroutine of a hasher.
HashersReturn ==
    \A h \in Hashers : thread[h].at # "idle" ~> thread[h].at = "idle"

\* What a failed eviction left beyond the budget is evicted later on.
OverBudgetEvicted ==
    LET quiet == \A h \in Hashers : thread[h].at = "idle"
    IN  used > Budget /\ quiet ~> used <= Budget \/ ~ quiet

\* The library learns of every hole whose announcement was not lost.
HolesLearned ==
    \A p \in Pieces :
        p \in have \ stored ~> p \notin have \/ p \in lost

\* mmap.go:409 says of a full channel that the "verify goroutine will catch up
\* via background sweep": the library learns of every hole.
SweepCatchesUp ==
    \A p \in Pieces : p \in have \ stored ~> p \notin have
==============================================================================
