---------------------------- MODULE AbstractBarrier ----------------------------
(***************************************************************************)
(* What vsg::Barrier promises to a fixed group of participants: nobody     *)
(* passes before the whole group has arrived, the group is then let        *)
(* through at once, and the barrier is ready for the next round even while *)
(* members of the finished round are still on their way out.               *)
(*                                                                         *)
(* Waiters use arrive_and_wait(), Droppers use arrive_and_drop().          *)
(***************************************************************************)
CONSTANTS Waiters, Droppers

VARIABLE place      \* where each participant stands with respect to a round

Participants == Waiters \cup Droppers

Places == {"out", "in", "leaving"}

Init == place = [p \in Participants |-> "out"]

\* The last arrival of a round frees everybody who is "in".
Freed(last) ==
    [p \in Participants |->
        IF p = last \/ (p \in Droppers /\ place[p] = "in") THEN "out"
        ELSE IF place[p] = "in" THEN "leaving" ELSE place[p]]

Arrive(p) ==
    /\ place[p] = "out"
    /\ place' = IF \A q \in Participants \ {p} : place[q] = "in"
                THEN Freed(p)
                ELSE [place EXCEPT ![p] = "in"]

Leave(p) ==
    /\ place[p] = "leaving"
    /\ place' = [place EXCEPT ![p] = "out"]

Next == \E p \in Participants : Arrive(p) \/ Leave(p)

Spec == Init /\ [][Next]_place

TypeOK == place \in [Participants -> Places]
================================================================================
