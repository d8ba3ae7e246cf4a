-------------------------------- MODULE Leases --------------------------------
(***************************************************************************)
(* What the map of torrents promises to who asks for them: a torrent that  *)
(* is asked for has a lease, and is closed only after a lease of it has    *)
(* run out, or when everything is closed at once.  A lease that has run    *)
(* out closes the torrent once: either at once or later, and whoever asks  *)
(* in between does not stop it.  TorrentMap implements this with timers,   *)
(* goroutines and a client that comes and goes.                            *)
(***************************************************************************)
EXTENDS Integers

CONSTANTS
    Hashes,         \* torrents
    TTL             \* life time of a lease

VARIABLES
    open,           \* torrents that are open
    left,           \* what is left of the lease of each
    doomed          \* torrents whose lease ran out and that are to be closed

leaseVars == <<open, left, doomed>>

LeasesInit == open = {} /\ left = [h \in Hashes |-> 0] /\ doomed = {}

\* A torrent that cannot be opened has its lease nevertheless.
AskFor(h) ==
    /\ left' = [left EXCEPT ![h] = TTL]
    /\ open' \in {open, open \cup {h}}
    /\ UNCHANGED doomed

TimePasses ==
    /\ left' = [h \in Hashes |-> IF left[h] > 0 THEN left[h] - 1 ELSE 0]
    /\ UNCHANGED <<open, doomed>>

RunOut(h) ==
    /\ left[h] = 0
    /\ doomed' = doomed \cup {h}
    /\ UNCHANGED <<open, left>>

\* It may be closed already, or remain open in a client that is not the one it
\* was opened in.
Close(h) ==
    /\ h \in doomed
    /\ doomed' = doomed \ {h}
    /\ open' \in {open, open \ {h}}
    /\ UNCHANGED left

CloseAll == open' = {} /\ UNCHANGED <<left, doomed>>

LeasesNext ==
    \/ \E h \in Hashes : AskFor(h) \/ RunOut(h) \/ Close(h)
    \/ TimePasses
    \/ CloseAll

LeasesSpec == LeasesInit /\ [][LeasesNext]_leaseVars
==============================================================================
