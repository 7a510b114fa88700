-------------------------------- MODULE Barrier --------------------------------
(***************************************************************************)
(* vsg::Barrier (include/vsg/threading/Barrier.h), one action per critical *)
(* section of its mutex.  A waiter that finds the round incomplete sleeps  *)
(* on the condition variable; it may be woken by _release() or for no      *)
(* reason, and re-evaluates the predicate `_phase != my_phase` whenever it *)
(* holds the mutex again.                                                  *)
(*                                                                         *)
(* The C++ counters are uint32_t.  _phase is kept modulo PhaseModulus, so  *)
(* that its wrap around is part of the model.                              *)
(***************************************************************************)
EXTENDS Naturals, FiniteSets

CONSTANTS
    Waiters,       \* threads that call arrive_and_wait()
    Droppers,      \* threads that call arrive_and_drop()
    PhaseModulus   \* number of values of _phase, 2^32 in the code

ASSUME ParticipantsAssumption ==
    /\ IsFiniteSet(Waiters)
    /\ IsFiniteSet(Droppers)
    /\ Waiters \cap Droppers = {}
    /\ Waiters \cup Droppers # {}

ASSUME PhaseAssumption == PhaseModulus \in Nat /\ PhaseModulus > 1

Participants == Waiters \cup Droppers

\* Barrier::create(n) is always called with the number of participants.
NumThreads == Cardinality(Participants)

VARIABLES
    numArrived,    \* _num_arrived
    phase,         \* _phase
    waiting,       \* waiters inside arrive_and_wait() whose round was incomplete
    myPhase,       \* the local my_phase of each waiter
    asleep,        \* waiters blocked in _cv.wait
    dropped        \* droppers that have arrived in the current round

vars == <<numArrived, phase, waiting, myPhase, asleep, dropped>>

Phases == 0 .. PhaseModulus - 1

Init ==
    /\ numArrived = 0
    /\ phase = 0
    /\ waiting = {}
    /\ myPhase = [w \in Waiters |-> 0]
    /\ asleep = {}
    /\ dropped = {}

\* Mutant: the count is not reset.
ReleaseWithoutReset ==
    /\ numArrived' = numArrived
    /\ phase' = (phase + 1) % PhaseModulus
    /\ asleep' = {}
    /\ dropped' = {}

\* Mutant: the sleeping waiters are not notified.
ReleaseWithoutNotify ==
    /\ numArrived' = 0
    /\ phase' = (phase + 1) % PhaseModulus
    /\ asleep' = asleep
    /\ dropped' = {}

\* Mutant: notify_one instead of notify_all.
ReleaseNotifyOne ==
    /\ numArrived' = 0
    /\ phase' = (phase + 1) % PhaseModulus
    /\ IF asleep = {} THEN asleep' = {} ELSE \E w \in asleep : asleep' = asleep \ {w}
    /\ dropped' = {}

\* _release(): reset the count, start the next phase, notify_all.
Release ==
    /\ numArrived' = 0
    /\ phase' = (phase + 1) % PhaseModulus
    /\ asleep' = {}
    /\ dropped' = {}

LastArrives == numArrived + 1 = NumThreads

ArriveAndWait(w) ==
    /\ w \notin waiting
    /\ \/ /\ LastArrives
          /\ Release
          /\ UNCHANGED <<waiting, myPhase>>
       \/ /\ ~LastArrives
          /\ numArrived' = numArrived + 1
          /\ waiting' = waiting \cup {w}
          /\ myPhase' = [myPhase EXCEPT ![w] = phase]
          /\ asleep' = asleep \cup {w}
          /\ UNCHANGED <<phase, dropped>>

\* A dropper arrives once per round: in the viewer the frame block makes it wait
\* for the next frame, which is not published before the round is over.
ArriveAndDrop(d) ==
    /\ d \notin dropped
    /\ \/ /\ LastArrives
          /\ Release
       \/ /\ ~LastArrives
          /\ numArrived' = numArrived + 1
          /\ dropped' = dropped \cup {d}
          /\ UNCHANGED <<phase, asleep>>
    /\ UNCHANGED <<waiting, myPhase>>

\* Mutant: any wake up ends the wait, as with a _cv.wait that has no predicate.
ReturnOnAnyWakeup(w) ==
    /\ w \in waiting \ asleep
    /\ waiting' = waiting \ {w}
    /\ UNCHANGED <<numArrived, phase, myPhase, asleep, dropped>>

\* The predicate holds: arrive_and_wait() returns.
Return(w) ==
    /\ w \in waiting \ asleep
    /\ phase # myPhase[w]
    /\ waiting' = waiting \ {w}
    /\ UNCHANGED <<numArrived, phase, myPhase, asleep, dropped>>

\* The predicate does not hold: sleep again.
SleepAgain(w) ==
    /\ w \in waiting \ asleep
    /\ phase = myPhase[w]
    /\ asleep' = asleep \cup {w}
    /\ UNCHANGED <<numArrived, phase, waiting, myPhase, dropped>>

SpuriousWakeup(w) ==
    /\ w \in asleep
    /\ asleep' = asleep \ {w}
    /\ UNCHANGED <<numArrived, phase, waiting, myPhase, dropped>>

Next ==
    \/ \E w \in Waiters : \/ ArriveAndWait(w) \/ Return(w)
                          \/ SleepAgain(w) \/ SpuriousWakeup(w)
    \/ \E d \in Droppers : ArriveAndDrop(d)

\* A thread that is not asleep is eventually scheduled, and every participant
\* comes back for the next round; spurious wake ups are never owed.
Fairness ==
    /\ \A w \in Waiters : /\ WF_vars(ArriveAndWait(w))
                          /\ WF_vars(Return(w))
                          /\ WF_vars(SleepAgain(w))
    /\ \A d \in Droppers : WF_vars(ArriveAndDrop(d))

Spec == Init /\ [][Next]_vars
FairSpec == Spec /\ Fairness
--------------------------------------------------------------------------------
TypeOK ==
    /\ numArrived \in 0 .. NumThreads - 1
    /\ phase \in Phases
    /\ waiting \subseteq Waiters
    /\ myPhase \in [Waiters -> Phases]
    /\ asleep \subseteq waiting
    /\ dropped \subseteq Droppers

\* The waiters of the round that is being assembled.
InRound == {w \in waiting : myPhase[w] = phase}

\* Everybody who has arrived in it.
Arrived == InRound \cup dropped

\* _num_arrived counts the threads of the current round and nobody else: a
\* waiter of an earlier round that is still on its way out is never counted
\* again, and none of the current round is forgotten.
CountIsExact == numArrived = Cardinality(Arrived)

\* Of two rounds at most: a waiter still inside belongs to the current round or
\* to the one before it, so the wrap around of _phase cannot confuse them.
NoStalePhase ==
    \A w \in waiting :
        myPhase[w] = phase \/ (myPhase[w] + 1) % PhaseModulus = phase

\* No lost wake up: a thread asleep on the condition variable is waiting for the
\* current round, the one whose completion will notify it.
NoLostWakeup == \A w \in asleep : myPhase[w] = phase

\* Nobody is let through before the whole group has arrived: when a round ends,
\* every other participant is inside it.
ReleaseNeedsAll ==
    [][phase' # phase =>
        \E last \in Participants : Participants \ {last} = Arrived]_vars

\* Whoever arrives is let out again.
EveryWaiterReturns == \A w \in Waiters : w \in waiting ~> w \notin waiting

Place(p) ==
    IF p \in Droppers THEN IF p \in dropped THEN "in" ELSE "out"
    ELSE IF p \notin waiting THEN "out"
    ELSE IF myPhase[p] = phase THEN "in" ELSE "leaving"

Abstract == INSTANCE AbstractBarrier
                WITH place <- [p \in Participants |-> Place(p)]

\* The counter, the phase and the condition variable implement the barrier a
\* caller relies on.
ImplementsAbstractBarrier == Abstract!Spec
================================================================================
