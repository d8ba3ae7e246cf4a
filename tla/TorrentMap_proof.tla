--------------------------- MODULE TorrentMap_proof ---------------------------
(***************************************************************************)
(* Proofs about TorrentMap, for any torrents, requests, life time of a     *)
(* lease and number of clients.                                            *)
(***************************************************************************)
EXTENDS TorrentMap, FiniteSetTheorems, TLAPS

ActiveHashes == {h \in Hashes : Active(h)}

\* The gauge counts the timers.
CountInv == activeCount = Cardinality(ActiveHashes)

\* What is left of a lease and the time since the torrent was asked for make up
\* at least a lease.  A timer that went off did so after a whole lease, unless
\* the torrent was asked for after that.
LeaseInv ==
    \A h \in Hashes : Active(h) =>
        /\ timers[h].at = "running" => timers[h].left + idle[h] >= TTL
        /\ timers[h].at = "fired" => idle[h] = TTL \/ h \in late

\* A request that is not idle has a torrent in hand, and a client.
HashInv ==
    \A r \in Requests : request[r].at # "idle" =>
        request[r].hash \in Hashes /\ request[r].gen # 0

\* The goroutine that closes the client lives while there is one, and takes the
\* torrents with it.
CloserInv ==
    /\ closer # "none" => client # 0
    /\ client = 0 => torrents = {}

IInv == TypeOK /\ HashInv /\ CloserInv /\ CountInv /\ TorrentsHaveTimers /\ LeaseInv

------------------------------------------------------------------------------
LEMMA ActiveIsTimer ==
    ASSUME TypeOK, NEW h \in Hashes
    PROVE  Active(h) <=> timers[h] \in Timer
BY NoneAssumption DEF TypeOK, Active

\* The number of timers when one is set, and when one is deleted.
LEMMA ActiveCounts ==
    ASSUME TypeOK, CountInv
    PROVE  /\ IsFiniteSet(ActiveHashes)
           /\ Cardinality(Hashes) \in Nat
           /\ Cardinality(ActiveHashes) <= Cardinality(Hashes)
           /\ \A h \in Hashes \ ActiveHashes :
                 /\ activeCount + 1 = Cardinality(ActiveHashes \cup {h})
                 /\ activeCount + 1 <= Cardinality(Hashes)
           /\ \A h \in ActiveHashes :
                 /\ activeCount - 1 = Cardinality(ActiveHashes \ {h})
                 /\ activeCount > 0
<1>1. ActiveHashes \subseteq Hashes
  BY DEF ActiveHashes
<1>2. IsFiniteSet(ActiveHashes) /\ Cardinality(Hashes) \in Nat
  BY <1>1, HashesAssumption, FS_Subset, FS_CardinalityType
<1>3. Cardinality(ActiveHashes) <= Cardinality(Hashes)
  BY <1>1, HashesAssumption, FS_Subset
<1>4. ASSUME NEW h \in Hashes \ ActiveHashes
      PROVE  /\ activeCount + 1 = Cardinality(ActiveHashes \cup {h})
             /\ activeCount + 1 <= Cardinality(Hashes)
  <2>1. Cardinality(ActiveHashes \cup {h}) = Cardinality(ActiveHashes) + 1
    BY <1>2, FS_AddElement
  <2>2. Cardinality(ActiveHashes \cup {h}) <= Cardinality(Hashes)
    BY <1>1, HashesAssumption, FS_Subset
  <2> QED BY <2>1, <2>2 DEF CountInv
<1>5. ASSUME NEW h \in ActiveHashes
      PROVE  /\ activeCount - 1 = Cardinality(ActiveHashes \ {h})
             /\ activeCount > 0
  <2>1. Cardinality(ActiveHashes \ {h}) = Cardinality(ActiveHashes) - 1
    BY <1>2, FS_RemoveElement
  <2>2. Cardinality(ActiveHashes \ {h}) \in Nat /\ Cardinality(ActiveHashes) \in Nat
    BY <1>2, FS_RemoveElement, FS_CardinalityType
  <2> QED BY <2>1, <2>2 DEF CountInv
<1> QED BY <1>2, <1>3, <1>4, <1>5

LEMMA InitInv == Init => IInv
<1> SUFFICES ASSUME Init PROVE IInv
  OBVIOUS
<1>1. ActiveHashes = {}
  BY DEF Init, ActiveHashes, Active
<1>2. CountInv
  BY <1>1, FS_EmptySet DEF Init, CountInv
<1>3. Cardinality(Hashes) \in Nat
  BY HashesAssumption, FS_CardinalityType
<1>4. TypeOK
  <2>1. 0 \in Gens /\ IdleRequest \in Request
    BY MaxClientsAssumption DEF Gens, Request, IdleRequest
  <2>2. clients \in client .. MaxClients /\ activeCount \in 0 .. Cardinality(Hashes)
    BY <1>3, MaxClientsAssumption DEF Init
  <2>3. idle \in [Hashes -> 0 .. TTL]
    BY TTLAssumption DEF Init
  <2> QED BY <2>1, <2>2, <2>3 DEF Init, TypeOK
<1>5. HashInv /\ CloserInv /\ TorrentsHaveTimers /\ LeaseInv
  BY DEF Init, HashInv, CloserInv, IdleRequest, TorrentsHaveTimers, LeaseInv, Active
<1> QED BY <1>2, <1>4, <1>5 DEF IInv

------------------------------------------------------------------------------
LEMMA ResetType ==
    ASSUME NEW timer \in Timer
    PROVE  /\ Reset(timer) \in Timer
           /\ timer.at = "running" => Reset(timer).left = TTL
           /\ Reset(timer).at = timer.at
           /\ Reset(timer).gen = timer.gen
           /\ timer.at = "fired" => Reset(timer) = timer
BY TTLAssumption DEF Timer, Reset

\* A step that leaves client and torrents alone, and all timers to their clients.
LEMMA SameGuards ==
    ASSUME IInv, UNCHANGED <<client, torrents, leaked>>,
           \A h \in Hashes : Active(h)' <=> Active(h),
           \A h \in Hashes : Active(h) => timers'[h].gen = timers[h].gen
    PROVE  TorrentsHaveTimers'
BY DEF IInv, TypeOK, TorrentsHaveTimers, Guarded

\* What a new lease does to the timers.
LEMMA LeaseTimers ==
    ASSUME TypeOK, CountInv, NEW h \in Hashes, NEW g \in Gens, Lease(h, g)
    PROVE  /\ timers' \in [Hashes -> Timer \cup {None}]
           /\ \A k \in Hashes \ {h} : timers'[k] = timers[k]
           /\ timers'[h] \in Timer
           /\ timers'[h].at = "running" => timers'[h].left = TTL
           /\ timers'[h].at = "fired" => Active(h) /\ timers[h].at = "fired"
           /\ timers'[h].gen = IF Active(h) THEN timers[h].gen ELSE g
           /\ activeCount' \in 0 .. Cardinality(Hashes)
           /\ activeCount' = Cardinality(ActiveHashes \cup {h})
<1>1. CASE Active(h)
  <2>1. timers[h] \in Timer
    BY <1>1, ActiveIsTimer
  <2>2. h \in ActiveHashes /\ ActiveHashes \cup {h} = ActiveHashes
    BY <1>1 DEF ActiveHashes
  <2>3. timers' = [timers EXCEPT ![h] = Reset(timers[h])] /\ activeCount' = activeCount
    BY <1>1 DEF Lease
  <2>4. activeCount' = Cardinality(ActiveHashes \cup {h})
    BY <2>2, <2>3 DEF CountInv
  <2>5. activeCount' \in 0 .. Cardinality(Hashes)
    BY <2>3 DEF TypeOK
  <2>6. timers'[h] = Reset(timers[h])
    BY <2>3 DEF TypeOK
  <2> QED BY <1>1, <2>1, <2>3, <2>4, <2>5, <2>6, ResetType DEF TypeOK
<1>2. CASE ~ Active(h)
  <2> DEFINE new == [at |-> "running", left |-> TTL, gen |-> g]
  <2>1. new \in Timer
    BY TTLAssumption DEF Timer
  <2>2. h \in Hashes \ ActiveHashes
    BY <1>2 DEF ActiveHashes
  <2>3. timers' = [timers EXCEPT ![h] = new] /\ activeCount' = activeCount + 1
    BY <1>2 DEF Lease
  <2>4. /\ activeCount' = Cardinality(ActiveHashes \cup {h})
        /\ activeCount' <= Cardinality(Hashes)
    BY <2>2, <2>3, ActiveCounts
  <2>5. activeCount' \in 0 .. Cardinality(Hashes)
    BY <2>3, <2>4, ActiveCounts DEF TypeOK
  <2>6. timers'[h] = new
    BY <2>3 DEF TypeOK
  <2>7. /\ timers'[h].at = "running"
        /\ timers'[h].left = TTL
        /\ timers'[h].gen = IF Active(h) THEN timers[h].gen ELSE g
    BY <1>2, <2>6
  <2>8. /\ timers' \in [Hashes -> Timer \cup {None}]
        /\ timers'[h] \in Timer
        /\ \A k \in Hashes \ {h} : timers'[k] = timers[k]
    BY <2>1, <2>3, <2>6 DEF TypeOK
  <2> HIDE DEF new
  <2> QED BY <2>4, <2>5, <2>7, <2>8
<1> QED BY <1>1, <1>2

\* The steps that leave the timers and the torrents alone, and may give a
\* request its client, or take it away.
LEMMA OtherSteps ==
    ASSUME IInv,
           \/ \E r \in Requests :
                 \/ \E h \in Hashes : GetClient(r, h)
                 \/ GetClientFails(r)
                 \/ GetFails(r)
                 \/ Served(r)
           \/ CloserCheck
           \/ UNCHANGED vars
    PROVE  IInv'
<1>1. UNCHANGED <<timers, activeCount, torrents, auxVars>>
  BY DEF GetClient, GetClientFails, GetFails, Served, CloserCheck, vars, mapVars
<1>2. IdleRequest \in Request
  BY MaxClientsAssumption DEF Request, IdleRequest, Gens
<1>3. TypeOK' /\ HashInv'
  <2>1. ASSUME NEW r \in Requests, NEW h \in Hashes, GetClient(r, h)
        PROVE  TypeOK' /\ HashInv'
    <3>1. /\ client' \in Gens
          /\ clients' \in client' .. MaxClients
          /\ failed' \in BOOLEAN
          /\ closer' \in {"none", "watching", "closing"}
      <4>1. CASE client # 0
        BY <2>1, <4>1 DEF GetClient, clientVars, IInv, TypeOK
      <4>2. CASE client = 0
        BY <2>1, <4>2, MaxClientsAssumption DEF GetClient, IInv, TypeOK, Gens
      <4> QED BY <4>1, <4>2
    <3>2. [at |-> "fetch", hash |-> h, gen |-> client'] \in Request
      BY <3>1 DEF Request
    <3>3. request' = [request EXCEPT
                         ![r] = [at |-> "fetch", hash |-> h, gen |-> client']]
      BY <2>1 DEF GetClient
    <3>4. request' \in [Requests -> Request]
      BY <3>2, <3>3 DEF IInv, TypeOK
    <3>5. client' # 0
      BY <2>1, MaxClientsAssumption DEF GetClient, clientVars, IInv, TypeOK, Gens
    <3>6. HashInv'
      BY <3>3, <3>5 DEF IInv, TypeOK, HashInv
    <3> QED BY <1>1, <2>1, <3>1, <3>4, <3>6 DEF GetClient, IInv, TypeOK, auxVars
  <2>2. ASSUME NEW r \in Requests, GetFails(r) \/ Served(r)
        PROVE  TypeOK' /\ HashInv'
    <3>1. request' = [request EXCEPT ![r] = IdleRequest]
      BY <2>2 DEF GetFails, Served, Return
    <3>2. request' \in [Requests -> Request]
      BY <1>2, <3>1 DEF IInv, TypeOK
    <3>3. HashInv'
      BY <3>1 DEF IInv, TypeOK, HashInv, IdleRequest
    <3>4. mux' \in Requests \cup {None} /\ UNCHANGED clientVars
      BY <2>2 DEF GetFails, Served, IInv, TypeOK
    <3> QED BY <1>1, <3>2, <3>3, <3>4 DEF IInv, TypeOK, clientVars, auxVars
  <2>3. ASSUME NEW r \in Requests, GetClientFails(r) PROVE TypeOK' /\ HashInv'
    BY <2>3 DEF GetClientFails, IInv, TypeOK, HashInv, mapVars, auxVars
  <2>4. CASE CloserCheck
    BY <2>4 DEF CloserCheck, IInv, TypeOK, HashInv, mapVars, auxVars
  <2>5. CASE UNCHANGED vars
    BY <2>5 DEF vars, IInv, TypeOK, HashInv, mapVars, clientVars, auxVars
  <2> QED BY <2>1, <2>2, <2>3, <2>4, <2>5
<1>4. CloserInv'
  <2>1. ASSUME NEW r \in Requests, NEW h \in Hashes, GetClient(r, h)
        PROVE  CloserInv'
    BY <1>1, <2>1 DEF GetClient, clientVars, IInv, TypeOK, CloserInv, Gens
  <2>2. \/ \E r \in Requests : GetFails(r) \/ Served(r)
        \/ UNCHANGED vars
        => CloserInv'
    BY <1>1 DEF GetFails, Served, vars, clientVars, IInv, CloserInv
  <2>3. \/ \E r \in Requests : GetClientFails(r)
        \/ CloserCheck
        => CloserInv'
    BY <1>1 DEF GetClientFails, CloserCheck, IInv, CloserInv
  <2> QED BY <2>1, <2>2, <2>3
<1>5. CountInv' /\ LeaseInv'
  BY <1>1 DEF IInv, CountInv, ActiveHashes, LeaseInv, Active, auxVars
<1>6. TorrentsHaveTimers'
  <2>1. client' = client \/ torrents = {}
    BY DEF GetClient, GetClientFails, GetFails, Served, CloserCheck, vars, clientVars,
           IInv, CloserInv
  <2> QED BY <1>1, <2>1 DEF IInv, TorrentsHaveTimers, Guarded, Active, auxVars
<1> QED BY <1>3, <1>4, <1>5, <1>6 DEF IInv

LEMMA GetTorrentStep ==
    ASSUME IInv, NEW r \in Requests, GetTorrent(r)
    PROVE  IInv'
<1>1. PICK h \in Hashes : h = request[r].hash
  BY DEF GetTorrent, IInv, HashInv
<1>2. PICK g \in Gens : g = request[r].gen
  BY DEF IInv, TypeOK, Request
<1>3. /\ Lease(h, g)
      /\ torrents' = IF g = client THEN torrents \cup {h} ELSE torrents
      /\ leaked' = IF g # client THEN leaked
                   ELSE IF Active(h) /\ timers[h].gen # g THEN leaked \cup {h}
                   ELSE leaked \ {h}
      /\ idle' = [idle EXCEPT ![h] = 0]
      /\ late' = IF Active(h) /\ timers[h].at = "fired" THEN late \cup {h} ELSE late
      /\ mux' = None
      /\ request' = [request EXCEPT ![r].at = "reading"]
      /\ UNCHANGED clientVars
  BY <1>1, <1>2 DEF GetTorrent, Asked
<1>4. /\ timers' \in [Hashes -> Timer \cup {None}]
      /\ \A k \in Hashes \ {h} : timers'[k] = timers[k]
      /\ timers'[h] \in Timer
      /\ timers'[h].at = "running" => timers'[h].left = TTL
      /\ timers'[h].at = "fired" => Active(h) /\ timers[h].at = "fired"
      /\ timers'[h].gen = IF Active(h) THEN timers[h].gen ELSE g
      /\ activeCount' \in 0 .. Cardinality(Hashes)
      /\ activeCount' = Cardinality(ActiveHashes \cup {h})
  BY <1>3, LeaseTimers DEF IInv
<1>5. Active(h)' /\ \A k \in Hashes \ {h} : Active(k)' <=> Active(k)
  BY <1>4, NoneAssumption DEF Active
<1>6. TypeOK'
  <2>1. 0 \in 0 .. TTL
    BY TTLAssumption
  <2>2. request' \in [Requests -> Request]
    BY <1>3 DEF IInv, TypeOK, Request
  <2>3. idle' \in [Hashes -> 0 .. TTL]
    BY <1>3, <2>1 DEF IInv, TypeOK
  <2> QED BY <1>3, <1>4, <2>2, <2>3 DEF IInv, TypeOK, clientVars
<1>7. HashInv'
  <2>1. \A q \in Requests : /\ request'[q].hash = request[q].hash
                            /\ request'[q].gen = request[q].gen
    BY <1>3 DEF IInv, TypeOK, Request
  <2>2. \A q \in Requests \ {r} : request'[q].at = request[q].at
    BY <1>3 DEF IInv, TypeOK, Request
  <2>3. request[r].at # "idle"
    BY DEF GetTorrent
  <2> QED BY <2>1, <2>2, <2>3 DEF IInv, HashInv
<1>8. CountInv'
  <2>1. ActiveHashes' = ActiveHashes \cup {h}
    BY <1>5 DEF ActiveHashes
  <2> QED BY <1>4, <2>1 DEF CountInv
<1>9. TorrentsHaveTimers'
  <2>1. client' = client
    BY <1>3 DEF clientVars
  <2>2. \A k \in Hashes \ {h} : Guarded(k)' <=> Guarded(k)
    BY <1>4, <1>5, <2>1 DEF Guarded
  <2>3. CASE g = client
    <3>1. Guarded(h)' <=> h \notin leaked'
      BY <1>3, <1>4, <1>5, <2>1, <2>3 DEF Guarded
    <3> QED BY <1>3, <2>2, <2>3, <3>1 DEF IInv, TypeOK, TorrentsHaveTimers
  <2>4. CASE g # client
    <3>1. Guarded(h)' <=> Guarded(h)
      BY <1>4, <1>5, <2>1, <2>4 DEF Guarded
    <3> QED BY <1>3, <2>2, <2>4, <3>1 DEF IInv, TypeOK, TorrentsHaveTimers
  <2> QED BY <2>3, <2>4
<1>10. LeaseInv'
  <2> SUFFICES ASSUME NEW k \in Hashes, Active(k)'
               PROVE  /\ timers'[k].at = "running" => timers'[k].left + idle'[k] >= TTL
                      /\ timers'[k].at = "fired" => idle'[k] = TTL \/ k \in late'
    BY DEF LeaseInv
  <2>1. CASE k = h
    BY <1>3, <1>4, <2>1, TTLAssumption DEF IInv, TypeOK
  <2>2. CASE k # h
    BY <1>3, <1>4, <1>5, <2>2 DEF IInv, TypeOK, LeaseInv
  <2> QED BY <2>1, <2>2
<1>11. CloserInv'
  <2>1. g # 0
    BY <1>2 DEF GetTorrent, IInv, HashInv
  <2> QED BY <1>3, <2>1 DEF clientVars, IInv, CloserInv
<1> QED BY <1>6, <1>7, <1>8, <1>9, <1>10, <1>11 DEF IInv

LEMMA TouchStep ==
    ASSUME IInv, NEW r \in Requests, Touch(r)
    PROVE  IInv'
<1>1. PICK h \in Hashes : h = request[r].hash
  BY DEF Touch, IInv, HashInv
<1>2. /\ timers' = IF Active(h) THEN [timers EXCEPT ![h] = Reset(timers[h])] ELSE timers
      /\ idle' = [idle EXCEPT ![h] = 0]
      /\ late' = IF Active(h) /\ timers[h].at = "fired" THEN late \cup {h} ELSE late
      /\ UNCHANGED <<mux, activeCount, request, clientVars, torrents, leaked>>
  BY <1>1 DEF Touch, Asked
<1>3. Active(h) => timers[h] \in Timer
  BY ActiveIsTimer DEF IInv
<1>4. /\ timers' \in [Hashes -> Timer \cup {None}]
      /\ \A k \in Hashes \ {h} : timers'[k] = timers[k]
      /\ timers'[h] = IF Active(h) THEN Reset(timers[h]) ELSE timers[h]
  <2>1. CASE Active(h)
    BY <1>2, <1>3, <2>1, ResetType DEF IInv, TypeOK
  <2>2. CASE ~ Active(h)
    BY <1>2, <2>2 DEF IInv, TypeOK
  <2> QED BY <2>1, <2>2
<1>5. \A k \in Hashes : Active(k)' <=> Active(k)
  BY <1>3, <1>4, ResetType, NoneAssumption DEF Active
<1>6. TypeOK'
  <2>1. 0 \in 0 .. TTL
    BY TTLAssumption
  <2>2. idle' \in [Hashes -> 0 .. TTL]
    BY <1>2, <2>1 DEF IInv, TypeOK
  <2> QED BY <1>2, <1>4, <2>2 DEF IInv, TypeOK, clientVars
<1>7. HashInv' /\ TorrentsHaveTimers'
  <2>1. HashInv'
    BY <1>2 DEF IInv, HashInv
  <2>2. \A k \in Hashes : Active(k) => timers'[k].gen = timers[k].gen
    BY <1>3, <1>4, ResetType
  <2> QED BY <1>2, <1>5, <2>1, <2>2, SameGuards DEF clientVars
<1>8. CountInv'
  <2>1. ActiveHashes' = ActiveHashes
    BY <1>5 DEF ActiveHashes
  <2> QED BY <1>2, <2>1 DEF IInv, CountInv
<1>9. LeaseInv'
  <2> SUFFICES ASSUME NEW k \in Hashes, Active(k)'
               PROVE  /\ timers'[k].at = "running" => timers'[k].left + idle'[k] >= TTL
                      /\ timers'[k].at = "fired" => idle'[k] = TTL \/ k \in late'
    BY DEF LeaseInv
  <2>1. CASE k = h
    BY <1>2, <1>3, <1>4, <1>5, <2>1, ResetType, TTLAssumption DEF IInv, TypeOK
  <2>2. CASE k # h
    BY <1>2, <1>4, <1>5, <2>2 DEF IInv, TypeOK, LeaseInv
  <2> QED BY <2>1, <2>2
<1>10. CloserInv'
  BY <1>2 DEF clientVars, IInv, CloserInv
<1> QED BY <1>6, <1>7, <1>8, <1>9, <1>10 DEF IInv

LEMMA TickStep ==
    ASSUME IInv, Tick
    PROVE  IInv'
<1>1. /\ \A h \in Hashes : timers'[h] = IF Active(h) /\ timers[h].left > 0
                                       THEN [timers[h] EXCEPT !.left = @ - 1]
                                       ELSE timers[h]
      /\ \A h \in Hashes : idle'[h] = IF idle[h] < TTL THEN idle[h] + 1 ELSE TTL
      /\ UNCHANGED <<mux, activeCount, request, clientVars, torrents, late, leaked>>
  BY DEF Tick
<1>2. ASSUME NEW h \in Hashes, Active(h)
      PROVE  /\ timers'[h] \in Timer
             /\ timers'[h].at = timers[h].at
             /\ timers'[h].gen = timers[h].gen
             /\ timers'[h].left + idle'[h] >= TTL \/
                    timers'[h].left + idle'[h] >= timers[h].left + idle[h]
             /\ idle[h] = TTL => idle'[h] = TTL
  <2>1. timers[h] \in Timer /\ idle[h] \in 0 .. TTL
    BY <1>2, ActiveIsTimer DEF IInv, TypeOK
  <2>2. CASE timers[h].left > 0
    <3>1. timers'[h] = [timers[h] EXCEPT !.left = timers[h].left - 1]
      BY <1>1, <1>2, <2>2
    <3>2. PICK left \in 1 .. TTL : left = timers[h].left
      BY <2>1, <2>2 DEF Timer
    <3>3. timers'[h] = [timers[h] EXCEPT !.left = left - 1] /\ left - 1 \in 0 .. TTL
      BY <3>1, <3>2, TTLAssumption
    <3>4. /\ timers'[h] \in Timer
          /\ timers'[h].at = timers[h].at
          /\ timers'[h].gen = timers[h].gen
          /\ timers'[h].left = left - 1
      BY <2>1, <3>3 DEF Timer
    <3>5. idle'[h] = IF idle[h] < TTL THEN idle[h] + 1 ELSE TTL
      BY <1>1
    <3>6. left - 1 + idle'[h] >= TTL \/ left - 1 + idle'[h] >= left + idle[h]
      BY <2>1, <3>5, TTLAssumption
    <3>7. idle[h] = TTL => idle'[h] = TTL
      BY <3>5, TTLAssumption
    <3> QED BY <3>2, <3>4, <3>6, <3>7
  <2>3. CASE ~ timers[h].left > 0
    <3>1. timers'[h] = timers[h] /\ timers[h].left \in 0 .. TTL
      BY <1>1, <2>1, <2>3 DEF Timer
    <3>2. idle'[h] = IF idle[h] < TTL THEN idle[h] + 1 ELSE TTL
      BY <1>1
    <3>3. /\ timers[h].left + idle'[h] >= timers[h].left + idle[h]
          /\ idle[h] = TTL => idle'[h] = TTL
      BY <2>1, <3>1, <3>2, TTLAssumption
    <3> QED BY <2>1, <3>1, <3>3
  <2> QED BY <2>2, <2>3
<1>3. \A h \in Hashes : Active(h)' <=> Active(h)
  BY <1>1, <1>2, NoneAssumption DEF Active
<1>4. timers' \in [Hashes -> Timer \cup {None}]
  BY <1>1, <1>2 DEF Tick, Active
<1>5. idle' \in [Hashes -> 0 .. TTL]
  BY TTLAssumption DEF Tick, IInv, TypeOK
<1>6. TypeOK' /\ HashInv' /\ TorrentsHaveTimers'
  <2>1. TypeOK' /\ HashInv'
    BY <1>1, <1>4, <1>5 DEF IInv, TypeOK, HashInv, clientVars
  <2> QED BY <1>1, <1>2, <1>3, <2>1, SameGuards DEF clientVars
<1>7. CountInv'
  <2>1. ActiveHashes' = ActiveHashes
    BY <1>3 DEF ActiveHashes
  <2> QED BY <1>1, <2>1 DEF IInv, CountInv
<1>8. LeaseInv'
  <2> SUFFICES ASSUME NEW h \in Hashes, Active(h)'
               PROVE  /\ timers'[h].at = "running" => timers'[h].left + idle'[h] >= TTL
                      /\ timers'[h].at = "fired" => idle'[h] = TTL \/ h \in late'
    BY DEF LeaseInv
  <2>1. Active(h) /\ idle[h] \in 0 .. TTL /\ idle'[h] \in 0 .. TTL
    BY <1>3, <1>5 DEF IInv, TypeOK
  <2>2. timers[h] \in Timer /\ timers'[h] \in Timer
    BY <1>2, <2>1, ActiveIsTimer DEF IInv
  <2>3. /\ timers[h].at = "running" => timers[h].left + idle[h] >= TTL
        /\ timers[h].at = "fired" => idle[h] = TTL \/ h \in late
    BY <2>1 DEF IInv, LeaseInv
  <2> QED BY <1>1, <1>2, <2>1, <2>2, <2>3, TTLAssumption DEF Timer
<1>9. CloserInv'
  BY <1>1 DEF clientVars, IInv, CloserInv
<1> QED BY <1>6, <1>7, <1>8, <1>9 DEF IInv

LEMMA FireStep ==
    ASSUME IInv, NEW h \in Hashes, Fire(h)
    PROVE  IInv'
<1>1. /\ Active(h)
      /\ timers[h].at = "running"
      /\ timers[h].left = 0
      /\ timers' = [timers EXCEPT ![h] = [timers[h] EXCEPT !.at = "fired"]]
      /\ UNCHANGED <<mux, activeCount, request, clientVars, torrents, auxVars>>
  BY DEF Fire
<1>2. [timers[h] EXCEPT !.at = "fired"] \in Timer
  BY <1>1, ActiveIsTimer DEF IInv, Timer
<1>3. /\ timers' \in [Hashes -> Timer \cup {None}]
      /\ timers'[h] = [timers[h] EXCEPT !.at = "fired"]
      /\ \A k \in Hashes \ {h} : timers'[k] = timers[k]
  BY <1>1, <1>2 DEF IInv, TypeOK
<1>4. \A k \in Hashes : Active(k)' <=> Active(k)
  BY <1>1, <1>2, <1>3, NoneAssumption DEF Active
<1>5. TypeOK' /\ HashInv' /\ TorrentsHaveTimers'
  <2>1. TypeOK' /\ HashInv'
    BY <1>1, <1>3 DEF IInv, TypeOK, HashInv, clientVars, auxVars
  <2>2. \A k \in Hashes : Active(k) => timers'[k].gen = timers[k].gen
    BY <1>1, <1>3, ActiveIsTimer DEF IInv, Timer
  <2> QED BY <1>1, <1>4, <2>1, <2>2, SameGuards DEF clientVars, auxVars
<1>6. CountInv'
  <2>1. ActiveHashes' = ActiveHashes
    BY <1>4 DEF ActiveHashes
  <2> QED BY <1>1, <2>1 DEF IInv, CountInv
<1>7. idle[h] = TTL
  <2>1. 0 + idle[h] >= TTL
    BY <1>1 DEF IInv, LeaseInv
  <2> QED BY <2>1, TTLAssumption DEF IInv, TypeOK
<1>8. LeaseInv'
  <2>1. timers'[h].at = "fired"
    BY <1>1, <1>3, ActiveIsTimer DEF IInv, Timer
  <2>2. UNCHANGED <<idle, late>>
    BY <1>1 DEF auxVars
  <2> QED BY <1>3, <1>4, <1>7, <2>1, <2>2 DEF IInv, LeaseInv
<1>9. CloserInv'
  BY <1>1 DEF clientVars, IInv, CloserInv
<1> QED BY <1>5, <1>6, <1>8, <1>9 DEF IInv

LEMMA DropStep ==
    ASSUME IInv, NEW h \in Hashes, Drop(h)
    PROVE  IInv'
<1>1. /\ Active(h)
      /\ timers' = [timers EXCEPT ![h] = None]
      /\ activeCount' = activeCount - 1
      /\ late' = late \ {h}
      /\ UNCHANGED <<mux, request, clientVars, idle, leaked>>
      /\ torrents' = IF timers[h].gen = client THEN torrents \ {h} ELSE torrents
  BY DEF Drop
<1>2. /\ timers' \in [Hashes -> Timer \cup {None}]
      /\ timers'[h] = None
      /\ \A k \in Hashes \ {h} : timers'[k] = timers[k]
  BY <1>1 DEF IInv, TypeOK
<1>3. ~ Active(h)' /\ \A k \in Hashes \ {h} : Active(k)' <=> Active(k)
  BY <1>2 DEF Active
<1>4. h \in ActiveHashes /\ ActiveHashes' = ActiveHashes \ {h}
  BY <1>1, <1>3 DEF ActiveHashes
<1>5. CountInv' /\ activeCount' \in 0 .. Cardinality(Hashes)
  <2>1. activeCount - 1 = Cardinality(ActiveHashes \ {h}) /\ activeCount > 0
    BY <1>4, ActiveCounts DEF IInv
  <2>2. activeCount' = Cardinality(ActiveHashes')
    BY <1>1, <1>4, <2>1
  <2> QED BY <1>1, <2>1, <2>2, ActiveCounts DEF CountInv, IInv, TypeOK
<1>6. torrents' \in SUBSET Hashes /\ TorrentsHaveTimers'
  <2>1. \A k \in Hashes \ {h} : Guarded(k)' <=> Guarded(k)
    BY <1>1, <1>2, <1>3 DEF Guarded, clientVars
  <2>2. ~ Guarded(h)' /\ (Guarded(h) <=> timers[h].gen = client)
    BY <1>1, <1>3 DEF Guarded
  <2> QED BY <1>1, <2>1, <2>2 DEF IInv, TypeOK, TorrentsHaveTimers
<1>7. TypeOK' /\ HashInv'
  BY <1>1, <1>2, <1>5, <1>6 DEF IInv, TypeOK, HashInv, clientVars
<1>8. LeaseInv'
  BY <1>1, <1>2, <1>3 DEF IInv, LeaseInv
<1>9. CloserInv'
  BY <1>1 DEF clientVars, IInv, CloserInv
<1> QED BY <1>5, <1>6, <1>7, <1>8, <1>9 DEF IInv

LEMMA CloserCloseStep ==
    ASSUME IInv, CloserClose
    PROVE  IInv'
<1>1. 0 \in Gens /\ clients' \in 0 .. MaxClients
  BY MaxClientsAssumption DEF CloserClose, IInv, TypeOK, Gens
<1> QED
  BY <1>1 DEF CloserClose, IInv, TypeOK, HashInv, CountInv, ActiveHashes,
              TorrentsHaveTimers, LeaseInv, CloserInv, Active, mapVars

LEMMA NextInv == IInv /\ [Next]_vars => IInv'
BY OtherSteps, GetTorrentStep, TouchStep, TickStep, FireStep, DropStep,
   CloserCloseStep
   DEF Next, Ask

------------------------------------------------------------------------------
\* The state of map and client has its types: the gauge of active torrents, which
\* Get and the goroutines of the timers change, stays between none and all.
THEOREM TypeInvariant == Spec => []TypeOK
<1>1. IInv => TypeOK
  BY DEF IInv
<1> QED BY <1>1, InitInv, NextInv, PTL DEF Spec

\* A torrent in the client has a timer whose goroutine will drop it, if and only if
\* it was not added under the timer of an earlier client (torrent_map.go:133), which
\* drops the torrent of that client (torrent_map.go:194): neither the race of timers
\* with the mutex nor that of the idle close with Get leaves one behind otherwise.
THEOREM TimersGuardTorrents == Spec => []TorrentsHaveTimers
<1>1. IInv => TorrentsHaveTimers
  BY DEF IInv
<1> QED BY <1>1, InitInv, NextInv, PTL DEF Spec

\* No torrent is dropped within the lease that the last Get or Touch gave it,
\* unless that came after its timer had gone off, or with its client.
THEOREM LeasesAreKept == Spec => LeaseKept
<1> DEFINE Kept == \A h \in torrents \ torrents' :
                      idle[h] = TTL \/ h \in late \/ client' # client
<1>1. ASSUME IInv, [Next]_vars PROVE [Kept]_vars
  <2> SUFFICES ASSUME NEW h \in torrents \ torrents',
                      client' = client
               PROVE  idle[h] = TTL \/ h \in late
    OBVIOUS
  <2>1. \/ CloserClose
        \/ \E k \in Hashes : Drop(k)
    BY <1>1 DEF Next, Ask, GetClient, GetClientFails, GetTorrent, GetFails, Served,
                Touch, Fire, Tick, CloserCheck, vars
  <2>2. CASE CloserClose
    BY <1>1, <2>2 DEF CloserClose, IInv, CloserInv
  <2>3. ASSUME NEW k \in Hashes, Drop(k) PROVE idle[h] = TTL \/ h \in late
    BY <1>1, <2>3 DEF Drop, IInv, LeaseInv
  <2> QED BY <2>1, <2>2, <2>3
<1>2. Spec => []IInv
  BY InitInv, NextInv, PTL DEF Spec
<1> QED BY <1>1, <1>2, PTL DEF Spec, LeaseKept
------------------------------------------------------------------------------
(* The map implements Leases.                                              *)

Left == [h \in Hashes |-> TTL - idle[h]]
Doomed == {h \in Hashes : Active(h) /\ timers[h].at = "fired"}

\* Whoever asks is given a whole lease, and saves nothing that is doomed.
LEMMA AskedLeft ==
    ASSUME TypeOK, NEW h \in Hashes, Asked(h)
    PROVE  Left' = [Left EXCEPT ![h] = TTL]
<1>1. ASSUME NEW k \in Hashes
      PROVE  TTL - idle'[k] = IF k = h THEN TTL ELSE TTL - idle[k]
  <2>1. idle'[k] = IF k = h THEN 0 ELSE idle[k]
    BY DEF Asked, TypeOK
  <2> QED BY <2>1, TTLAssumption
<1>2. Left' = [k \in Hashes |-> IF k = h THEN TTL ELSE TTL - idle[k]]
  BY <1>1 DEF Left
<1> QED BY <1>2 DEF Left

\* Time that passes.
LEMMA TickLeft ==
    ASSUME TypeOK, Tick
    PROVE  Left' = [h \in Hashes |-> IF Left[h] > 0 THEN Left[h] - 1 ELSE 0]
<1>1. ASSUME NEW h \in Hashes
      PROVE  TTL - idle'[h] = IF TTL - idle[h] > 0 THEN TTL - idle[h] - 1 ELSE 0
  <2>1. idle[h] \in 0 .. TTL /\ idle'[h] = IF idle[h] < TTL THEN idle[h] + 1 ELSE TTL
    BY DEF Tick, TypeOK
  <2> QED BY <2>1, TTLAssumption
<1> QED BY <1>1 DEF Left

LEMMA LeaseStep ==
    ASSUME IInv, [Next]_vars
    PROVE  [Promise!LeasesNext]_(Promise!leaseVars)
<1>1. ASSUME UNCHANGED <<torrents, idle, timers>>
      PROVE  UNCHANGED Promise!leaseVars
  <2>1. Left' = Left /\ Doomed' = Doomed
    BY <1>1 DEF Left, Doomed, Active
  <2> QED BY <1>1, <2>1 DEF Promise!leaseVars, Left, Doomed
<1>2. ASSUME NEW r \in Requests, GetTorrent(r)
      PROVE  Promise!LeasesNext
  <2>1. PICK h \in Hashes : h = request[r].hash
    BY <1>2 DEF GetTorrent, IInv, HashInv
  <2>2. PICK g \in Gens : g = request[r].gen
    BY DEF IInv, TypeOK, Request
  <2>3. Lease(h, g) /\ Asked(h) /\ torrents' \in {torrents, torrents \cup {h}}
    BY <1>2, <2>1, <2>2 DEF GetTorrent
  <2>4. /\ \A k \in Hashes \ {h} : timers'[k] = timers[k]
        /\ timers'[h] \in Timer
        /\ timers'[h].at = "fired" => Active(h) /\ timers[h].at = "fired"
    BY <2>3, LeaseTimers DEF IInv
  <2>5. h \in Doomed => timers'[h].at = "fired"
    <3> SUFFICES ASSUME h \in Doomed PROVE timers'[h].at = "fired"
      OBVIOUS
    <3>1. timers[h] \in Timer /\ timers[h].at = "fired" /\ Active(h)
      BY ActiveIsTimer DEF Doomed, IInv
    <3>2. timers' = [timers EXCEPT ![h] = timers[h]]
      BY <2>3, <3>1, ResetType DEF Lease
    <3> QED BY <3>1, <3>2 DEF IInv, TypeOK
  <2>6. Doomed' = Doomed
    BY <2>4, <2>5, NoneAssumption DEF Doomed, Active
  <2>7. Left' = [Left EXCEPT ![h] = TTL]
    BY <2>3, AskedLeft DEF IInv
  <2>8. Promise!AskFor(h)
    BY <2>3, <2>6, <2>7 DEF Promise!AskFor, Left, Doomed
  <2> QED BY <2>8 DEF Promise!LeasesNext
<1>3. ASSUME NEW r \in Requests, Touch(r)
      PROVE  Promise!LeasesNext
  <2>1. PICK h \in Hashes : h = request[r].hash
    BY <1>3 DEF Touch, IInv, HashInv
  <2>2. /\ timers' = IF Active(h) THEN [timers EXCEPT ![h] = Reset(timers[h])]
                                  ELSE timers
        /\ Asked(h)
        /\ UNCHANGED torrents
    BY <1>3, <2>1 DEF Touch
  <2>3. Doomed' = Doomed
    <3>1. CASE Active(h)
      <4>1. timers[h] \in Timer /\ timers' = [timers EXCEPT ![h] = Reset(timers[h])]
        BY <2>2, <3>1, ActiveIsTimer DEF IInv
      <4>2. Reset(timers[h]) \in Timer /\ Reset(timers[h]).at = timers[h].at
        BY <4>1, ResetType
      <4> QED BY <3>1, <4>1, <4>2, NoneAssumption DEF Doomed, Active, IInv, TypeOK
    <3>2. CASE ~ Active(h)
      BY <2>2, <3>2 DEF Doomed, Active
    <3> QED BY <3>1, <3>2
  <2>4. Left' = [Left EXCEPT ![h] = TTL]
    BY <2>2, AskedLeft DEF IInv
  <2>5. Promise!AskFor(h)
    BY <2>2, <2>3, <2>4 DEF Promise!AskFor, Left, Doomed
  <2> QED BY <2>5 DEF Promise!LeasesNext
<1>4. CASE Tick
  <2>1. \A h \in Hashes :
           timers'[h] = IF Active(h) /\ timers[h].left > 0
                        THEN [timers[h] EXCEPT !.left = @ - 1]
                        ELSE timers[h]
    BY <1>4 DEF Tick
  <2>2. ASSUME NEW h \in Hashes, Active(h)
        PROVE  timers'[h] # None /\ timers'[h].at = timers[h].at
    <3>1. timers[h] \in Timer
      BY <2>2, ActiveIsTimer DEF IInv
    <3>2. CASE timers[h].left > 0
      <4>1. timers'[h] = [timers[h] EXCEPT !.left = timers[h].left - 1]
        BY <2>1, <2>2, <3>2
      <4>2. timers[h].left - 1 \in 0 .. TTL
        BY <3>1, <3>2, TTLAssumption DEF Timer
      <4>3. timers'[h] \in Timer /\ timers'[h].at = timers[h].at
        BY <3>1, <4>1, <4>2 DEF Timer
      <4> QED BY <4>3, NoneAssumption
    <3>3. CASE ~ timers[h].left > 0
      BY <2>1, <2>2, <3>3 DEF Active
    <3> QED BY <3>2, <3>3
  <2>3. \A h \in Hashes : ~ Active(h) => timers'[h] = None
    BY <2>1 DEF Active
  <2>4. Doomed' = Doomed
    BY <2>2, <2>3 DEF Doomed, Active
  <2>5. Left' = [h \in Hashes |-> IF Left[h] > 0 THEN Left[h] - 1 ELSE 0]
    BY <1>4, TickLeft DEF IInv
  <2>6. Promise!TimePasses
    BY <1>4, <2>4, <2>5 DEF Tick, Promise!TimePasses, Left, Doomed
  <2> QED BY <2>6 DEF Promise!LeasesNext
<1>5. ASSUME NEW h \in Hashes, Fire(h)
      PROVE  Promise!LeasesNext
  <2>1. timers[h] \in Timer /\ timers' = [timers EXCEPT ![h].at = "fired"]
    BY <1>5, ActiveIsTimer DEF Fire, IInv
  <2>2. Doomed' = Doomed \cup {h}
    <3>1. [timers[h] EXCEPT !.at = "fired"] \in Timer
      BY <2>1 DEF Timer
    <3>2. timers'[h] = [timers[h] EXCEPT !.at = "fired"]
      BY <2>1 DEF IInv, TypeOK
    <3>3. timers'[h] # None /\ timers'[h].at = "fired"
      BY <2>1, <3>1, <3>2, NoneAssumption DEF Timer
    <3>4. \A k \in Hashes \ {h} : timers'[k] = timers[k]
      BY <2>1 DEF IInv, TypeOK
    <3> QED BY <3>3, <3>4 DEF Doomed, Active
  <2>3. Left[h] = 0
    <3>1. 0 + idle[h] >= TTL /\ idle[h] \in 0 .. TTL
      BY <1>5 DEF Fire, IInv, LeaseInv, TypeOK
    <3> QED BY <3>1, TTLAssumption DEF Left
  <2>4. UNCHANGED torrents /\ Left' = Left
    BY <1>5 DEF Fire, auxVars, Left
  <2>5. Promise!RunOut(h)
    BY <2>2, <2>3, <2>4 DEF Promise!RunOut, Left, Doomed
  <2> QED BY <2>5 DEF Promise!LeasesNext
<1>6. ASSUME NEW h \in Hashes, Drop(h)
      PROVE  Promise!LeasesNext
  <2>1. /\ timers'[h] = None
        /\ \A k \in Hashes \ {h} : timers'[k] = timers[k]
    BY <1>6 DEF Drop, IInv, TypeOK
  <2>2. h \in Doomed /\ Doomed' = Doomed \ {h}
    BY <1>6, <2>1 DEF Drop, Doomed, Active
  <2>3. torrents' \in {torrents, torrents \ {h}} /\ Left' = Left
    BY <1>6 DEF Drop, Left
  <2>4. Promise!Close(h)
    BY <2>2, <2>3 DEF Promise!Close, Left, Doomed
  <2> QED BY <2>4 DEF Promise!LeasesNext
<1>7. CASE CloserClose
  <2>1. torrents' = {} /\ Left' = Left /\ Doomed' = Doomed
    BY <1>7 DEF CloserClose, mapVars, Left, Doomed, Active
  <2>2. Promise!CloseAll
    BY <2>1 DEF Promise!CloseAll, Left, Doomed
  <2> QED BY <2>2 DEF Promise!LeasesNext
<1>8. \/ \E r \in Requests : \/ \E h \in Hashes : GetClient(r, h)
                           \/ GetClientFails(r)
                           \/ GetFails(r)
                           \/ Served(r)
      \/ CloserCheck
      \/ UNCHANGED vars
      => UNCHANGED <<torrents, idle, timers>>
  BY DEF GetClient, GetClientFails, GetFails, Served, CloserCheck, vars, mapVars,
         auxVars
<1> QED
  BY <1>1, <1>2, <1>3, <1>4, <1>5, <1>6, <1>7, <1>8 DEF Next, Ask

\* No timer, mutex or client makes the map close a torrent whose lease runs, or
\* close it twice on one lease (torrent_map.go:188): the map implements Leases.
THEOREM LeasesImplemented == Spec => KeepsLeases
<1>1. Init => Promise!LeasesInit
  <2> SUFFICES ASSUME Init PROVE Promise!LeasesInit
    OBVIOUS
  <2>1. Left = [h \in Hashes |-> 0] /\ Doomed = {}
    BY TTLAssumption DEF Init, Left, Doomed, Active
  <2> QED BY <2>1 DEF Init, Promise!LeasesInit, Left, Doomed
<1>2. IInv /\ [Next]_vars => [Promise!LeasesNext]_(Promise!leaseVars)
  BY LeaseStep
<1>3. Spec => []IInv
  BY InitInv, NextInv, PTL DEF Spec
<1> QED BY <1>1, <1>2, <1>3, PTL DEF Spec, KeepsLeases, Promise!LeasesSpec
==============================================================================
