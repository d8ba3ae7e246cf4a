------------------------------ MODULE TorrentMap ------------------------------
(***************************************************************************)
(* The torrents that are open (torrent_map.go) in the torrent client that  *)
(* is started on demand and closed when idle (torrent_client.go).          *)
(*                                                                         *)
(* Get opens a torrent, or finds it open, and gives it a new lease; so     *)
(* does Touch, while a reader is being served.  Each open torrent has a    *)
(* timer and a goroutine that waits for it and then drops the torrent.     *)
(* Get holds the mutex of the map while the torrent file is fetched, for   *)
(* as long as a minute: timers fire meanwhile, and the client looks for    *)
(* torrents without that mutex.                                            *)
(***************************************************************************)
EXTENDS Integers, FiniteSets

CONSTANTS
    Hashes,         \* torrents that requests ask for
    Requests,       \* goroutines that serve requests
    None,           \* no holder of the mutex, no timer, no torrent
    TTL,            \* life time of a lease
    MaxClients      \* bound on the clients started

ASSUME HashesAssumption == IsFiniteSet(Hashes)
ASSUME TTLAssumption == TTL \in Nat \ {0}
ASSUME MaxClientsAssumption == MaxClients \in Nat

VARIABLES
    mux,            \* who holds the mutex of the map
    timers,         \* of each torrent, with the client that its goroutine knows
    activeCount,    \* the gauge of active torrents
    request,        \* what each request is doing
    client,         \* the client in use, 0 for none
    clients,        \* clients started so far
    failed,         \* the client could not be started: for good
    closer,         \* the goroutine of the client that closes it
    torrents,       \* torrents in the client in use
    idle,           \* time since a torrent was asked for (not in the code)
    late,           \* asked for after the timer went off (not in the code)
    leaked          \* torrents added while the map had the timer of a torrent
                    \* in an earlier client (not in the code)

mapVars == <<mux, timers, activeCount, request>>
clientVars == <<client, clients, failed, closer>>
auxVars == <<idle, late, leaked>>
vars == <<mapVars, clientVars, torrents, auxVars>>

Gens == 0 .. MaxClients

\* A timer runs until nothing is left and "fired" once its goroutine has
\* received from it.
Timer == [at : {"running", "fired"}, left : 0 .. TTL, gen : Gens]

ASSUME NoneAssumption == None \notin Requests \cup Hashes \cup Timer

\* gen is the client at hand.
Request ==
    [at : {"idle", "fetch", "reading"}, hash : Hashes \cup {None}, gen : Gens]

TypeOK ==
    /\ mux \in Requests \cup {None}
    /\ timers \in [Hashes -> Timer \cup {None}]
    /\ activeCount \in 0 .. Cardinality(Hashes)
    /\ request \in [Requests -> Request]
    /\ client \in Gens
    /\ clients \in client .. MaxClients
    /\ failed \in BOOLEAN
    /\ closer \in {"none", "watching", "closing"}
    /\ torrents \in SUBSET Hashes
    /\ idle \in [Hashes -> 0 .. TTL]
    /\ late \in SUBSET Hashes
    /\ leaked \in SUBSET Hashes

IdleRequest == [at |-> "idle", hash |-> None, gen |-> 0]

Init ==
    /\ mux = None
    /\ timers = [h \in Hashes |-> None]
    /\ activeCount = 0
    /\ request = [r \in Requests |-> IdleRequest]
    /\ client = 0
    /\ clients = 0
    /\ failed = FALSE
    /\ closer = "none"
    /\ torrents = {}
    /\ idle = [h \in Hashes |-> TTL]
    /\ late = {}
    /\ leaked = {}

Active(h) == timers[h] # None

Return(r) == request' = [request EXCEPT ![r] = IdleRequest]

------------------------------------------------------------------------------
(* TorrentClient                                                           *)

\* Get of the client, by request r: the client in use, or a new one.
GetClient(r, h) ==
    /\ mux = None
    /\ request[r].at = "idle"
    /\ ~ failed
    /\ IF client # 0
       THEN UNCHANGED clientVars
       ELSE /\ clients < MaxClients
            /\ clients' = clients + 1
            /\ client' = clients'
            /\ closer' = "watching"
            /\ UNCHANGED failed
    /\ mux' = r
    /\ request' = [request EXCEPT
                      ![r] = [at |-> "fetch", hash |-> h, gen |-> client']]
    /\ UNCHANGED <<timers, activeCount, torrents, auxVars>>

\* The client does not start.  The error is kept: no request tries again.
GetClientFails(r) ==
    /\ mux = None
    /\ request[r].at = "idle"
    /\ client = 0
    /\ failed' = TRUE
    /\ UNCHANGED <<mapVars, client, clients, closer, torrents, auxVars>>

\* The goroutine ends when it finds a torrent.
SlipCloserCheck ==
    /\ closer = "watching"
    /\ closer' = IF torrents = {} THEN "closing" ELSE "none"
    /\ UNCHANGED <<mapVars, client, clients, failed, torrents, auxVars>>

\* The ticker of the client: no torrent in it.
CloserCheck ==
    /\ closer = "watching"
    /\ torrents = {}
    /\ closer' = "closing"
    /\ UNCHANGED <<mapVars, client, clients, failed, torrents, auxVars>>

\* It is closed under the mutex of the client, with what is in it by now.
CloserClose ==
    /\ closer = "closing"
    /\ closer' = "none"
    /\ client' = 0
    /\ torrents' = {}
    /\ leaked' = {}
    /\ UNCHANGED <<mapVars, clients, failed, idle, late>>

------------------------------------------------------------------------------
(* TorrentMap                                                              *)

\* Reset of a timer that runs.  It does not call back the goroutine of a timer
\* that went off.
Reset(timer) ==
    IF timer.at = "running" THEN [timer EXCEPT !.left = TTL] ELSE timer

Asked(h) ==
    /\ idle' = [idle EXCEPT ![h] = 0]
    /\ late' = IF Active(h) /\ timers[h].at = "fired" THEN late \cup {h} ELSE late

\* Every Get counts.
SlipLease(h, g) ==
    /\ timers' = [timers EXCEPT
                     ![h] = IF Active(h)
                            THEN Reset(@)
                            ELSE [at |-> "running", left |-> TTL, gen |-> g]]
    /\ activeCount' = activeCount + 1

\* Every Get starts a timer, also when there is one.
SlipNewLease(h, g) ==
    /\ timers' = [timers EXCEPT ![h] = [at |-> "running", left |-> TTL, gen |-> g]]
    /\ activeCount' = activeCount + (IF Active(h) THEN 0 ELSE 1)

\* A new lease: with a new timer and its goroutine unless there is one.
Lease(h, g) ==
    IF Active(h)
    THEN /\ timers' = [timers EXCEPT ![h] = Reset(@)]
         /\ UNCHANGED activeCount
    ELSE /\ timers' = [timers EXCEPT
                          ![h] = [at |-> "running", left |-> TTL, gen |-> g]]
         /\ activeCount' = activeCount + 1

\* The rest of Get.  The client at hand may be closed by now: it takes the
\* torrent (or refuses it, as in GetFails), but nothing comes of that.
GetTorrent(r) ==
    LET h == request[r].hash
        g == request[r].gen
    IN  /\ request[r].at = "fetch"
        /\ torrents' = IF g = client THEN torrents \cup {h} ELSE torrents
        /\ Lease(h, g)
        /\ leaked' = IF g # client THEN leaked
                     ELSE IF Active(h) /\ timers[h].gen # g THEN leaked \cup {h}
                     ELSE leaked \ {h}
        /\ Asked(h)
        /\ mux' = None
        /\ request' = [request EXCEPT ![r].at = "reading"]
        /\ UNCHANGED clientVars

\* The torrent file cannot be had, or the client does not take it.
GetFails(r) ==
    /\ request[r].at = "fetch"
    /\ mux' = None
    /\ Return(r)
    /\ UNCHANGED <<timers, activeCount, clientVars, torrents, auxVars>>

\* The timer is not reset.
SlipTouch(r) ==
    LET h == request[r].hash
    IN  /\ request[r].at = "reading"
        /\ mux = None
        /\ Asked(h)
        /\ UNCHANGED <<mapVars, clientVars, torrents, leaked>>

\* TouchWriter touches the torrent on every write of the response.
Touch(r) ==
    LET h == request[r].hash
    IN  /\ request[r].at = "reading"
        /\ mux = None
        /\ timers' = IF Active(h) THEN [timers EXCEPT ![h] = Reset(@)] ELSE timers
        /\ Asked(h)
        /\ UNCHANGED <<mux, activeCount, request, clientVars, torrents, leaked>>

Served(r) ==
    /\ request[r].at = "reading"
    /\ Return(r)
    /\ UNCHANGED <<mux, timers, activeCount, clientVars, torrents, auxVars>>

\* Time goes by.
Tick ==
    /\ timers' = [h \in Hashes |->
                     IF Active(h) /\ timers[h].left > 0
                     THEN [timers[h] EXCEPT !.left = @ - 1]
                     ELSE timers[h]]
    /\ idle' = [h \in Hashes |-> IF idle[h] < TTL THEN idle[h] + 1 ELSE TTL]
    /\ UNCHANGED <<mux, activeCount, request, clientVars, torrents, late, leaked>>

\* <-ti.C
Fire(h) ==
    /\ Active(h)
    /\ timers[h].at = "running"
    /\ timers[h].left = 0
    /\ timers' = [timers EXCEPT ![h].at = "fired"]
    /\ UNCHANGED <<mux, activeCount, request, clientVars, torrents, auxVars>>

\* The torrent is taken out of the map but not dropped.
SlipDrop(h) ==
    /\ Active(h)
    /\ timers[h].at = "fired"
    /\ mux = None
    /\ timers' = [timers EXCEPT ![h] = None]
    /\ activeCount' = activeCount - 1
    /\ late' = late \ {h}
    /\ UNCHANGED <<mux, request, clientVars, torrents, idle, leaked>>

\* The goroutine drops the torrent that it was started for: not the one of that
\* hash in a later client.
Drop(h) ==
    /\ Active(h)
    /\ timers[h].at = "fired"
    /\ mux = None
    /\ timers' = [timers EXCEPT ![h] = None]
    /\ activeCount' = activeCount - 1
    /\ torrents' = IF timers[h].gen = client THEN torrents \ {h} ELSE torrents
    /\ late' = late \ {h}
    /\ UNCHANGED <<mux, request, clientVars, idle, leaked>>

------------------------------------------------------------------------------
Ask(r) == Touch(r) \/ \E h \in Hashes : GetClient(r, h)

Next ==
    \/ \E r \in Requests : \/ Ask(r)
                           \/ GetClientFails(r)
                           \/ GetTorrent(r)
                           \/ GetFails(r)
                           \/ Served(r)
    \/ \E h \in Hashes : Fire(h) \/ Drop(h)
    \/ Tick
    \/ CloserCheck
    \/ CloserClose

\* Time passes, goroutines run, and fetching a torrent file comes to an end (it
\* has a time limit).
Fairness ==
    /\ WF_vars(Tick)
    /\ \A r \in Requests : WF_vars(GetTorrent(r) \/ GetFails(r))
    /\ \A h \in Hashes : WF_vars(Fire(h)) /\ WF_vars(Drop(h))
    /\ WF_vars(CloserCheck) /\ WF_vars(CloserClose)

Spec == Init /\ [][Next]_vars

FairSpec == Spec /\ Fairness

------------------------------------------------------------------------------
\* The map has a timer whose goroutine will drop the torrent of h that is in the
\* client: one that was started for it in this client.
Guarded(h) == Active(h) /\ timers[h].gen = client

\* A torrent in the client has a timer that will drop it, unless it was added when
\* the map still had the timer of a torrent in an earlier client and took that for
\* its own (torrent_map.go:133): such a torrent has none, whatever becomes of the
\* old timer, until a Get that finds no timer.  There is no other way to have none.
TorrentsHaveTimers ==
    \A h \in torrents : Guarded(h) <=> h \notin leaked

\* The map keeps the promise of Leases: what is left of a lease is what the time
\* since the torrent was asked for leaves of it, and a torrent is doomed when its
\* timer has gone off.
Promise == INSTANCE Leases WITH
    open   <- torrents,
    left   <- [h \in Hashes |-> TTL - idle[h]],
    doomed <- {h \in Hashes : Active(h) /\ timers[h].at = "fired"}

\* No timer, mutex or client makes the map close a torrent whose lease runs, or
\* close it twice on one lease (torrent_map.go:188): every step is one that Leases
\* allows, or none.
KeepsLeases == Promise!LeasesSpec

\* A torrent is dropped after nobody has asked for it during a whole lease.  Who
\* asks when the timer has gone off comes too late, and is given a torrent that
\* is about to be dropped.
LeaseKept ==
    [][\A h \in torrents \ torrents' :
          idle[h] = TTL \/ h \in late \/ client' # client]_vars

\* If requests stop, what they opened is dropped and the client is closed,
\* unless a torrent was leaked, which keeps it running.
IdleClientCloses ==
    \/ []<><<\E r \in Requests : Ask(r)>>_vars
    \/ <>[](client = 0 \/ leaked # {})
==============================================================================
