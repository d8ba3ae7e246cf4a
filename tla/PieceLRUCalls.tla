---------------------------- MODULE PieceLRUCalls ----------------------------
(***************************************************************************)
(* The methods of the LRU tracker called in any order by its users: the    *)
(* storage adds, touches and removes pieces, recovers them on start and    *)
(* asks for evictions; which pieces are protected changes under way, as    *)
(* files become complete and incomplete.                                   *)
(***************************************************************************)
EXTENDS PieceLRU

VARIABLES
    isProtected,    \* pieces for which the callback holds
    returned        \* the list of pieces the last call returned, if it returns one

callsVars == <<lruList, used, isProtected, returned>>

CallsTypeOK ==
    /\ LRUTypeOK
    /\ TrackedOnce
    /\ isProtected \subseteq Pieces
    /\ returned \in Seq(Pieces)

CallsInit ==
    /\ LRUInit
    /\ isProtected = {}
    /\ returned = << >>

AddCall(p) ==
    /\ Add(p)
    /\ returned' \in AddReturns(p, isProtected)
    /\ UNCHANGED isProtected

TouchCall(p) ==
    /\ Touch(p)
    /\ returned' = << >>
    /\ UNCHANGED isProtected

RemoveCall(p) ==
    /\ Remove(p)
    /\ returned' = << >>
    /\ UNCHANGED isProtected

RecoverCall ==
    /\ \E found \in SUBSET Pieces : Recover(found)
    /\ returned' = << >>
    /\ UNCHANGED isProtected

\* evictOverBudget of mmap.go calls computeEvictions under the same mutex.
EvictionsCall ==
    /\ returned' \in computeEvictions(lruList, used, isProtected)
    /\ UNCHANGED <<lruList, used, isProtected>>

Protect ==
    /\ isProtected' \in SUBSET Pieces
    /\ returned' = << >>
    /\ UNCHANGED lruVars

CallsNext ==
    \/ \E p \in Pieces : AddCall(p) \/ TouchCall(p) \/ RemoveCall(p)
    \/ RecoverCall
    \/ EvictionsCall
    \/ Protect

CallsSpec == CallsInit /\ [][CallsNext]_callsVars

------------------------------------------------------------------------------
\* One turn of the loops of computeEvictions, for the entry at place i of the list:
\* nothing once the bytes left fit; a protected piece is put aside; another goes.
Turn(list, protected, r, i) ==
    IF r.sim <= Budget THEN r
    ELSE IF list[i] \in protected THEN [r EXCEPT !.aside = Append(@, i)]
    ELSE [r EXCEPT !.go = Append(@, i), !.sim = @ - Size[list[i]]]

\* After k turns, for the entries at these places in this order.
Loop(list, protected, places, start) ==
    LET after[k \in 0 .. Len(places)] ==
            IF k = 0
            THEN start
            ELSE Turn(list, protected, after[k - 1], places[k])
    IN  after

\* The first loop walks the list from the back.
FromTheBack(list) == [k \in 1 .. Len(list) |-> Len(list) + 1 - k]

FirstPass(list, u, protected) ==
    Loop(list, protected, FromTheBack(list),
         [go |-> << >>, aside |-> << >>, sim |-> u])[Len(list)]

\* The second takes the pieces that the first put aside, in their order.
SecondPass(list, r) == Loop(list, {}, r.aside, r)[Len(r.aside)]

TwoPasses(list, u, protected) ==
    LET r == SecondPass(list, FirstPass(list, u, protected))
    IN  IF Budget <= 0 \/ u <= Budget
        THEN << >>
        ELSE [m \in DOMAIN r.go |-> list[r.go[m]]]

\* Whatever calls came before, the evictions computed now are those of the two
\* loops, and there is one answer only.
EvictionsAreTwoPasses ==
    computeEvictions(lruList, used, isProtected) = {TwoPasses(lruList, used, isProtected)}

returnedSet == {returned[i] : i \in DOMAIN returned}

\* A caller that evicts what it was given ends within the budget, and would
\* not have without the last piece of the list: no piece is given up in vain.
EvictionsJustEnough ==
    [][\A p \in Pieces :
         ((AddCall(p) /\ p \notin entries) \/ EvictionsCall) /\ Budget > 0 =>
             /\ used' - SumSize(returnedSet') <= Budget
             /\ returned' # << >> =>
                  used' - SumSize({returned'[i] : i \in 1 .. Len(returned') - 1})
                    > Budget]_callsVars

\* A piece of a complete file, which may be being served from the disk, is
\* given up only when every tracked piece that is not protected is given up
\* before it.
ProtectedGoLast ==
    \A i \in DOMAIN returned :
        returned[i] \in isProtected =>
            /\ entries \ isProtected \subseteq {returned[j] : j \in 1 .. i - 1}
            /\ SumSize(entries \cap isProtected) > Budget
==============================================================================
