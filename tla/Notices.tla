------------------------------- MODULE Notices -------------------------------
(***************************************************************************)
(* What the storage of a torrent promises to the torrent library: data may *)
(* vanish at any time, but not silently.  When a piece becomes a hole, the *)
(* library has notice of it, which stays until the library knows better    *)
(* or the piece has data again; a notice that is lost is remembered in     *)
(* "missed".  There are no goroutines here, no tracker, no channel and no  *)
(* budget.  PieceStorage implements this.                                  *)
(*                                                                         *)
(* A piece may have a notice with no reason, from any step on: looking at  *)
(* a piece again does no harm.                                             *)
(***************************************************************************)
CONSTANT Pieces

VARIABLES
    data,           \* pieces whose data is on disk, the others are holes
    held,           \* pieces that the library takes to be complete
    recorded,       \* pieces that are recorded as complete
    notices,        \* pieces that the library is still to be told about
    missed          \* pieces whose notice was lost

noticeVars == <<data, held, recorded, notices, missed>>

NoticesInit ==
    data = {} /\ held = {} /\ recorded = {} /\ notices = {} /\ missed = {}

\* No notice but that of a piece in S is withdrawn.
NoticesStay(S) == notices \ S \subseteq notices'

Notify ==
    /\ UNCHANGED <<data, held, recorded, missed>>
    /\ NoticesStay({})

\* Data is written to a piece that is a hole and known to be one.
Fill(p) ==
    /\ p \notin data \cup held
    /\ data' = data \cup {p}
    /\ missed' = missed \ {p}
    /\ UNCHANGED <<held, recorded>>
    /\ NoticesStay({})

\* The data of a piece vanishes, or some of it.
Punch(p) ==
    /\ data' \in {data, data \ {p}}
    /\ UNCHANGED <<held, recorded, missed>>
    /\ NoticesStay({})
    /\ p \in notices'

\* A hole is recorded as complete only with notice of it.
Record(p) ==
    /\ recorded' = recorded \cup {p}
    /\ UNCHANGED <<data, held, missed>>
    /\ p \in data \cup notices \cup missed
    /\ NoticesStay({})

Erase(p) ==
    /\ recorded' = recorded \ {p}
    /\ UNCHANGED <<data, held, missed>>
    /\ NoticesStay({})

\* The library reads what is recorded of a piece.  Its notice is done with if the
\* piece has data or is not recorded any more.
Tell(p) ==
    /\ held' = (held \ {p}) \cup (recorded \cap {p})
    /\ UNCHANGED <<data, recorded, missed>>
    /\ NoticesStay({p})
    /\ p \in recorded \ data => p \in notices' \cup missed

Miss(p) ==
    /\ missed' = missed \cup {p}
    /\ UNCHANGED <<data, held, recorded>>
    /\ NoticesStay({p})

\* The library forgets what it knows, and the notices are gone: those of holes
\* that are recorded as complete are lost ones.
Restart ==
    /\ held' = {}
    /\ UNCHANGED <<data, recorded>>
    /\ notices' = {}
    /\ missed \subseteq missed' /\ missed' \subseteq missed \cup notices
    /\ recorded \ data \subseteq missed'

\* The library reads what is recorded of every piece.
Reopen ==
    /\ held' = recorded
    /\ UNCHANGED <<data, recorded, missed>>
    /\ NoticesStay({})

NoticesNext ==
    \/ Notify
    \/ \E p \in Pieces :
          Fill(p) \/ Punch(p) \/ Record(p) \/ Erase(p) \/ Tell(p) \/ Miss(p)
    \/ Restart
    \/ Reopen

NoticesSpec == NoticesInit /\ [][NoticesNext]_noticeVars

------------------------------------------------------------------------------
\* What the promise is worth: a hole that is recorded as complete, or that the
\* library takes for data, has a notice or its notice was lost.
HolesNoticed ==
    (held \cup recorded) \ data \subseteq notices \cup missed
==============================================================================
