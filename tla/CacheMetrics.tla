----------------------------- MODULE CacheMetrics -----------------------------
(***************************************************************************)
(* The gauges of the disk cache (cache_metrics.go), which the storage of   *)
(* PieceStorage moves along with its tracker.  The gauges are not under    *)
(* the mutex of the tracker: an eviction reads the tracker's count of      *)
(* bytes, removes the piece, reads the count again and takes the           *)
(* difference off the gauge (mmap.go:393).                                 *)
(*                                                                         *)
(* Every step is one of PieceStorage, or one on the gauges only.  A thread *)
(* that has called Add or Remove moves both gauges before its next step on *)
(* the storage, and other threads run in between; the two gauges are moved *)
(* in one step here, and count as moved when both are.  The gauges add up  *)
(* all torrents: this is the share of one.                                 *)
(*                                                                         *)
(* Once the gauges are astray they stay so until the process restarts:     *)
(* what they show then, and what threads remember for them, is left out.   *)
(***************************************************************************)
EXTENDS PieceStorage

VARIABLES
    promCacheBytesUsed,
    promCachePieceCount,
    prevUsed,   \* of the evictions between their two reads of the count
    freedBytes, \* of the evictions that are to take it off the gauges
    addedBytes, \* of the hashers that are to add it to the gauges
    astray      \* the gauges will be moved by more or less than the tracker
                \* was (not in the code)

gauges == <<promCacheBytesUsed, promCachePieceCount>>
locals == <<prevUsed, freedBytes, addedBytes>>
metricVars == <<gauges, locals, astray>>
allVars == <<vars, metricVars>>

MetricsTypeOK ==
    /\ promCacheBytesUsed \in Int
    /\ promCachePieceCount \in Int
    /\ \E some \in SUBSET Threads : prevUsed \in [some -> Nat]
    /\ \E some \in SUBSET Threads : freedBytes \in [some -> Nat]
    /\ \E some \in SUBSET Hashers : addedBytes \in [some -> Nat]
    /\ astray \in BOOLEAN

Nobody == [t \in {} |-> 0]

Remember(f, t, n) == [s \in DOMAIN f \cup {t} |-> IF s = t THEN n ELSE f[s]]

Discard(f, t) == [s \in DOMAIN f \ {t} |-> f[s]]

HasRead == DOMAIN prevUsed

\* The threads whose next step is one on the gauges.
Busy == HasRead \cup DOMAIN freedBytes \cup DOMAIN addedBytes

MetricsInit ==
    /\ Init
    /\ promCacheBytesUsed = 0
    /\ promCachePieceCount = 0
    /\ prevUsed = Nobody
    /\ freedBytes = Nobody
    /\ addedBytes = Nobody
    /\ astray = FALSE

------------------------------------------------------------------------------
\* What the gauges and the threads show from here on matters no more.
Forget ==
    /\ promCacheBytesUsed' = 0
    /\ promCachePieceCount' = 0
    /\ prevUsed' = Nobody
    /\ freedBytes' = Nobody
    /\ addedBytes' = Nobody

\* Another eviction has read the count and will take off what this step changes.
OverlapsRead(t) == HasRead \ {t} # {}

\* Add.  A piece that is tracked already will be added to the gauges once more.
CountAdd(h) ==
    /\ MarkAdd(h)
    /\ astray' = (astray \/ thread[h].piece \in entries \/ OverlapsRead(h))
    /\ IF astray'
       THEN Forget
       ELSE /\ addedBytes' = Remember(addedBytes, h, Size[thread[h].piece])
            /\ UNCHANGED <<gauges, prevUsed, freedBytes>>

ReportAdded(h) ==
    /\ h \in DOMAIN addedBytes
    /\ promCacheBytesUsed' = promCacheBytesUsed + addedBytes[h]
    /\ promCachePieceCount' = promCachePieceCount + 1
    /\ addedBytes' = Discard(addedBytes, h)
    /\ UNCHANGED <<vars, prevUsed, freedBytes, astray>>

\* The first read of the count.
ReadUsed(t) ==
    /\ ~ astray
    /\ thread[t].at = "evictRemove"
    /\ t \notin HasRead
    /\ prevUsed' = Remember(prevUsed, t, used)
    /\ UNCHANGED <<vars, gauges, freedBytes, addedBytes, astray>>

\* A piece that another eviction has removed will be counted off twice.
CountedRemove(t) ==
    /\ astray \/ t \in HasRead
    /\ EvictRemove(t)
    /\ astray' = (astray \/ Victim(t) \notin entries \/ OverlapsRead(t))
    /\ IF astray' THEN Forget ELSE UNCHANGED <<gauges, locals>>

\* What is used by now is taken for what was freed.
SlipReadFreed(t) ==
    /\ thread[t].at = "evictQueue"
    /\ t \in HasRead
    /\ freedBytes' = Remember(freedBytes, t, used)
    /\ prevUsed' = Discard(prevUsed, t)
    /\ UNCHANGED <<vars, gauges, addedBytes, astray>>

\* The second read.
ReadFreed(t) ==
    /\ thread[t].at = "evictQueue"
    /\ t \in HasRead
    /\ freedBytes' = Remember(freedBytes, t, prevUsed[t] - used)
    /\ prevUsed' = Discard(prevUsed, t)
    /\ UNCHANGED <<vars, gauges, addedBytes, astray>>

ReportFreed(t) ==
    /\ t \in DOMAIN freedBytes
    /\ promCacheBytesUsed' = promCacheBytesUsed - freedBytes[t]
    /\ promCachePieceCount' = promCachePieceCount - 1
    /\ freedBytes' = Discard(freedBytes, t)
    /\ UNCHANGED <<vars, prevUsed, addedBytes, astray>>

\* recoverLRU, in a process whose gauges start from nothing.
CountRecovered ==
    /\ Crash
    /\ promCacheBytesUsed' = used'
    /\ promCachePieceCount' = Len(lruList')
    /\ prevUsed' = Nobody
    /\ freedBytes' = Nobody
    /\ addedBytes' = Nobody
    /\ astray' = FALSE

Uncounted ==
    \/ \E h \in Hashers \ Busy : \/ MarkSet(h) \/ MarkNotComplete(h) \/ HashDone(h)
                                 \/ \E p \in Pieces : StartHash(h, p)
    \/ \E t \in Threads \ Busy :
           EvictSet(t) \/ EvictFiles(t) \/ EvictPunch(t) \/ EvictQueue(t)
    \/ \E p \in Pieces : Client(p)
    \/ SweepReceive
    \/ SweepTick
    \/ OpenEvict
    \/ Opened

MetricsStorageNext ==
    \/ \E h \in Hashers : CountAdd(h) \/ ReportAdded(h)
    \/ \E t \in Threads : \/ ReadUsed(t)
                          \/ CountedRemove(t)
                          \/ ReadFreed(t)
                          \/ ReportFreed(t)
    \/ CountRecovered
    \/ Uncounted /\ UNCHANGED metricVars

MetricsNext ==
    \/ MetricsStorageNext
    \/ Poll /\ UNCHANGED metricVars
    \/ PollFails /\ UNCHANGED metricVars

MetricsSpec == MetricsInit /\ [][MetricsNext]_allVars

------------------------------------------------------------------------------
\* The sum of what threads remember, as a number of pairs of thread and byte.
BytesIn(f) == UNION {{t} \X (1 .. f[t]) : t \in DOMAIN f}
Total(f) == Cardinality(BytesIn(f))

\* The gauges show what is tracked ("current disk cache usage", cache_metrics.go:8),
\* less what was added and plus what was removed by the threads that are still to
\* move them, to the byte and however many threads that are; but for the moment
\* between a removal and the read after it.  They go astray in three ways only: a
\* tracked piece is marked complete again, a piece is evicted twice, or the count
\* of the tracker changes between the two reads of an eviction.
GaugesExact ==
    ~ astray =>
        \/ \E t \in HasRead : thread[t].at = "evictQueue"
        \/ /\ promCacheBytesUsed = used - Total(addedBytes) + Total(freedBytes)
           /\ promCachePieceCount =
                 Len(lruList) - Cardinality(DOMAIN addedBytes)
                              + Cardinality(DOMAIN freedBytes)
==============================================================================
