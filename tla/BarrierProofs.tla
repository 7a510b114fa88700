----------------------------- MODULE BarrierProofs -----------------------------
(***************************************************************************)
(* Barrier, for any number of participants and any modulus of _phase.      *)
(*                                                                         *)
(* The inductive invariant IInv joins the type invariant with the three    *)
(* state invariants of the module: the count determines the set of threads *)
(* in the round only because no thread of an older round can be mistaken   *)
(* for one of this round, and that in turn holds only because a round ends *)
(* when the count says that everybody is in it.                            *)
(***************************************************************************)
EXTENDS Barrier, FiniteSetTheorems, TLAPS

IInv == TypeOK /\ CountIsExact /\ NoStalePhase /\ NoLostWakeup

\* The group is finite and not empty: _num_threads is a positive number.
LEMMA ParticipantsFinite ==
    IsFiniteSet(Participants) /\ NumThreads \in Nat \ {0}
<1>1. IsFiniteSet(Participants)
  BY ParticipantsAssumption, FS_Union DEF Participants
<1>2. NumThreads # 0
  BY <1>1, FS_EmptySet, ParticipantsAssumption DEF NumThreads, Participants
<1> QED  BY <1>1, <1>2, FS_CardinalityType DEF NumThreads

\* The next value of _phase differs from the present one, and only the present
\* one is followed by it.
LEMMA PhaseStep ==
    ASSUME NEW i \in Phases
    PROVE  /\ (i + 1) % PhaseModulus \in Phases
           /\ (i + 1) % PhaseModulus # i
BY PhaseAssumption DEF Phases

\* Those who have arrived are finitely many participants.
LEMMA ArrivedFinite ==
    ASSUME TypeOK
    PROVE  Arrived \subseteq Participants /\ IsFiniteSet(Arrived)
<1>1. Arrived \subseteq Participants
  BY DEF TypeOK, Arrived, InRound, Participants
<1> QED  BY <1>1, ParticipantsFinite, FS_Subset

\* When the count says that only one thread is missing, the thread that arrives
\* is that one and all the others are in the round.
LEMMA LastArrivalCompletes ==
    ASSUME TypeOK, CountIsExact, LastArrives,
           NEW p \in Participants, p \notin Arrived
    PROVE  Participants \ {p} = Arrived
<1>1. /\ IsFiniteSet(Participants \ {p})
      /\ Cardinality(Participants \ {p}) = NumThreads - 1
  BY ParticipantsFinite, FS_RemoveElement DEF NumThreads
<1>2. Arrived \subseteq Participants \ {p}
  BY ArrivedFinite
<1>3. Cardinality(Arrived) = NumThreads - 1
  BY ParticipantsFinite DEF CountIsExact, LastArrives, TypeOK
<1> QED  BY <1>1, <1>2, <1>3, FS_Subset

\* A release leaves an empty round behind it, and everyone still inside belongs
\* to the round that has just ended.
LEMMA ReleaseKeepsIInv ==
    ASSUME IInv, NEW p \in Participants, p \notin waiting, p \notin dropped,
           LastArrives, Release, UNCHANGED <<waiting, myPhase>>
    PROVE  IInv'
<1>1. Participants \ {p} = Arrived
  BY LastArrivalCompletes DEF IInv, Arrived, InRound
<1>2. \A w \in waiting : myPhase[w] = phase
  BY <1>1, ParticipantsAssumption DEF IInv, Arrived, InRound, TypeOK, Participants
<1>3. phase \in Phases /\ phase' = (phase + 1) % PhaseModulus
  BY DEF IInv, TypeOK, Release
<1>4. Arrived' = {}
  BY <1>2, <1>3, PhaseStep DEF Arrived, InRound, Release
<1>5. TypeOK'
  BY <1>3, PhaseStep, ParticipantsFinite DEF IInv, TypeOK, Release
<1>6. CountIsExact'
  BY <1>4, FS_EmptySet DEF CountIsExact, Release
<1>7. NoStalePhase'
  BY <1>2, <1>3 DEF NoStalePhase
<1>8. NoLostWakeup'
  BY DEF NoLostWakeup, Release
<1> QED  BY <1>5, <1>6, <1>7, <1>8 DEF IInv

\* An arrival that does not complete the round adds one thread to it.
LEMMA CountedArrival ==
    ASSUME TypeOK, CountIsExact, ~LastArrives,
           NEW p \in Participants, p \notin Arrived,
           numArrived' = numArrived + 1, Arrived' = Arrived \cup {p}
    PROVE  CountIsExact' /\ numArrived' \in 0 .. NumThreads - 1
<1>1. Cardinality(Arrived \cup {p}) = Cardinality(Arrived) + 1
  BY ArrivedFinite, FS_AddElement
<1>2. CountIsExact'
  BY <1>1 DEF CountIsExact
<1>3. numArrived' \in 0 .. NumThreads - 1
  BY ParticipantsFinite DEF TypeOK, LastArrives
<1> QED  BY <1>2, <1>3

\* arrive_and_wait() up to its first wait keeps the invariant.
LEMMA ArriveAndWaitKeepsIInv ==
    ASSUME IInv, NEW w \in Waiters, ArriveAndWait(w)
    PROVE  IInv'
<1>1. CASE LastArrives
  <2>1. w \in Participants /\ w \notin dropped /\ w \notin waiting
    BY ParticipantsAssumption DEF IInv, TypeOK, Participants, ArriveAndWait
  <2>2. Release /\ UNCHANGED <<waiting, myPhase>>
    BY <1>1 DEF ArriveAndWait
  <2> QED  BY <1>1, <2>1, <2>2, ReleaseKeepsIInv
<1>2. CASE ~LastArrives
  <2>1. /\ w \notin waiting
        /\ numArrived' = numArrived + 1
        /\ waiting' = waiting \cup {w}
        /\ myPhase' = [myPhase EXCEPT ![w] = phase]
        /\ asleep' = asleep \cup {w}
        /\ phase' = phase /\ dropped' = dropped
    BY <1>2 DEF ArriveAndWait
  <2>2. \A v \in waiting' : myPhase'[v] = IF v = w THEN phase ELSE myPhase[v]
    BY <2>1 DEF IInv, TypeOK
  <2>3. Arrived' = Arrived \cup {w}
    BY <2>1, <2>2 DEF Arrived, InRound
  <2>4. w \in Participants /\ w \notin Arrived
    BY <2>1, ParticipantsAssumption DEF IInv, TypeOK, Arrived, InRound, Participants
  <2>5. CountIsExact' /\ numArrived' \in 0 .. NumThreads - 1
    BY <1>2, <2>1, <2>3, <2>4, CountedArrival DEF IInv
  <2>6. TypeOK'
    BY <2>1, <2>5 DEF IInv, TypeOK
  <2>7. NoStalePhase' /\ NoLostWakeup'
    BY <2>1, <2>2 DEF IInv, TypeOK, NoStalePhase, NoLostWakeup
  <2> QED  BY <2>5, <2>6, <2>7 DEF IInv
<1> QED  BY <1>1, <1>2

\* arrive_and_drop() keeps the invariant.
LEMMA ArriveAndDropKeepsIInv ==
    ASSUME IInv, NEW d \in Droppers, ArriveAndDrop(d)
    PROVE  IInv'
<1>1. d \in Participants /\ d \notin dropped /\ d \notin waiting
  BY ParticipantsAssumption DEF IInv, TypeOK, Participants, ArriveAndDrop
<1>2. CASE LastArrives
  BY <1>1, <1>2, ReleaseKeepsIInv DEF ArriveAndDrop
<1>3. CASE ~LastArrives
  <2>1. /\ numArrived' = numArrived + 1
        /\ dropped' = dropped \cup {d}
        /\ UNCHANGED <<phase, asleep, waiting, myPhase>>
    BY <1>3 DEF ArriveAndDrop
  <2>2. Arrived' = Arrived \cup {d} /\ d \notin Arrived
    BY <1>1, <2>1 DEF Arrived, InRound
  <2>3. CountIsExact' /\ numArrived' \in 0 .. NumThreads - 1
    BY <1>1, <1>3, <2>1, <2>2, CountedArrival DEF IInv
  <2>4. TypeOK'
    BY <2>1, <2>3 DEF IInv, TypeOK
  <2>5. NoStalePhase' /\ NoLostWakeup'
    BY <2>1 DEF IInv, NoStalePhase, NoLostWakeup
  <2> QED  BY <2>3, <2>4, <2>5 DEF IInv
<1> QED  BY <1>2, <1>3

\* Return, SleepAgain and SpuriousWakeup neither arrive nor release.
LEMMA WaitingKeepsIInv ==
    ASSUME IInv, NEW w \in Waiters,
           Return(w) \/ SleepAgain(w) \/ SpuriousWakeup(w)
    PROVE  IInv'
<1>1. CASE Return(w)
  <2>1. InRound' = InRound
    BY <1>1 DEF Return, InRound
  <2> QED
    BY <1>1, <2>1 DEF Return, IInv, TypeOK, CountIsExact, NoStalePhase, NoLostWakeup, Arrived
<1>2. CASE SleepAgain(w)
  BY <1>2 DEF SleepAgain, IInv, TypeOK, CountIsExact, NoStalePhase, NoLostWakeup, Arrived, InRound
<1>3. CASE SpuriousWakeup(w)
  BY <1>3 DEF SpuriousWakeup, IInv, TypeOK, CountIsExact, NoStalePhase, NoLostWakeup, Arrived, InRound
<1> QED  BY <1>1, <1>2, <1>3

\* The constructor establishes the invariant.
LEMMA IInvInitially == Init => IInv
<1> SUFFICES ASSUME Init PROVE IInv
  OBVIOUS
<1>1. TypeOK
  BY PhaseAssumption, ParticipantsFinite DEF Init, TypeOK, Phases
<1>2. Arrived = {}
  BY DEF Init, Arrived, InRound
<1>3. CountIsExact
  BY <1>2, FS_EmptySet DEF Init, CountIsExact
<1> QED  BY <1>1, <1>3 DEF Init, IInv, NoStalePhase, NoLostWakeup

\* Every step keeps the invariant.
LEMMA IInvPreserved == IInv /\ [Next]_vars => IInv'
<1> SUFFICES ASSUME IInv, [Next]_vars PROVE IInv'
  OBVIOUS
<1>1. ASSUME NEW w \in Waiters, ArriveAndWait(w) PROVE IInv'
  BY <1>1, ArriveAndWaitKeepsIInv
<1>2. ASSUME NEW w \in Waiters, Return(w) \/ SleepAgain(w) \/ SpuriousWakeup(w)
      PROVE  IInv'
  BY <1>2, WaitingKeepsIInv
<1>3. ASSUME NEW d \in Droppers, ArriveAndDrop(d) PROVE IInv'
  BY <1>3, ArriveAndDropKeepsIInv
<1>4. CASE UNCHANGED vars
  BY <1>4 DEF vars, IInv, TypeOK, CountIsExact, NoStalePhase, NoLostWakeup, Arrived, InRound
<1> QED  BY <1>1, <1>2, <1>3, <1>4 DEF Next

\* For any group of threads and any modulus: the count, the set of threads in the
\* round and the phases agree, and no sleeping waiter has missed its release.
THEOREM BarrierInvariant == Spec => []IInv
<1> QED  BY IInvInitially, IInvPreserved, PTL DEF Spec

\* Type correctness, for every group of threads.
THEOREM BarrierTypeOK == Spec => []TypeOK
<1>1. IInv => TypeOK
  BY DEF IInv
<1> QED  BY <1>1, BarrierInvariant, PTL

\* _num_arrived counts the threads of the current round and nobody else.
THEOREM BarrierCountIsExact == Spec => []CountIsExact
<1>1. IInv => CountIsExact
  BY DEF IInv
<1> QED  BY <1>1, BarrierInvariant, PTL

\* A waiter belongs to the current round or to the one before it.
THEOREM BarrierNoStalePhase == Spec => []NoStalePhase
<1>1. IInv => NoStalePhase
  BY DEF IInv
<1> QED  BY <1>1, BarrierInvariant, PTL

\* Whoever is asleep on the condition variable will be notified by the current round.
THEOREM BarrierNoLostWakeup == Spec => []NoLostWakeup
<1>1. IInv => NoLostWakeup
  BY DEF IInv
<1> QED  BY <1>1, BarrierInvariant, PTL

--------------------------------------------------------------------------------
\* Only the last arrival changes the phase, and then every other participant is
\* inside the round.
LEMMA StepReleaseNeedsAll ==
    ASSUME IInv, [Next]_vars, phase' # phase
    PROVE  \E last \in Participants : Participants \ {last} = Arrived
<1>1. CASE \E w \in Waiters : ArriveAndWait(w)
  <2>1. PICK w \in Waiters : ArriveAndWait(w)
    BY <1>1
  <2>2. LastArrives /\ w \in Participants /\ w \notin Arrived
    BY <2>1, ParticipantsAssumption
       DEF ArriveAndWait, IInv, TypeOK, Arrived, InRound, Participants
  <2> QED  BY <2>2, LastArrivalCompletes DEF IInv
<1>2. CASE \E d \in Droppers : ArriveAndDrop(d)
  <2>1. PICK d \in Droppers : ArriveAndDrop(d)
    BY <1>2
  <2>2. LastArrives /\ d \in Participants /\ d \notin Arrived
    BY <2>1, ParticipantsAssumption
       DEF ArriveAndDrop, IInv, TypeOK, Arrived, InRound, Participants
  <2> QED  BY <2>2, LastArrivalCompletes DEF IInv
<1>3. CASE \E w \in Waiters : Return(w) \/ SleepAgain(w) \/ SpuriousWakeup(w)
  BY <1>3 DEF Return, SleepAgain, SpuriousWakeup
<1>4. CASE UNCHANGED vars
  BY <1>4 DEF vars
<1> QED  BY <1>1, <1>2, <1>3, <1>4 DEF Next

\* A round is never closed before every other participant is in it.
THEOREM BarrierReleaseNeedsAll == Spec => ReleaseNeedsAll
<1>1. IInv /\ [Next]_vars
        => [phase' # phase =>
              \E last \in Participants : Participants \ {last} = Arrived]_vars
  BY StepReleaseNeedsAll
<1> QED  BY <1>1, BarrierInvariant, PTL DEF Spec, ReleaseNeedsAll

--------------------------------------------------------------------------------
\* The place of each participant, before a step and after it.
LEMMA RefinementOfArrival ==
    ASSUME IInv, NEW p \in Participants, p \notin waiting, p \notin dropped,
           \/ /\ LastArrives /\ Release /\ UNCHANGED <<waiting, myPhase>>
           \/ /\ ~LastArrives /\ phase' = phase
              /\ \/ /\ p \in Waiters
                    /\ waiting' = waiting \cup {p}
                    /\ myPhase' = [myPhase EXCEPT ![p] = phase]
                    /\ dropped' = dropped
                 \/ /\ p \in Droppers
                    /\ dropped' = dropped \cup {p}
                    /\ UNCHANGED <<waiting, myPhase>>
    PROVE  Abstract!Arrive(p)
<1>1. \A q \in Participants : Place(q) = "in" <=> q \in Arrived
  BY ParticipantsAssumption DEF Place, Arrived, InRound, IInv, TypeOK, Participants
<1>2. Place(p) = "out"
  BY DEF Place
<1>3. CASE LastArrives /\ Release /\ UNCHANGED <<waiting, myPhase>>
  <2>1. Participants \ {p} = Arrived
    BY <1>3, LastArrivalCompletes DEF IInv, Arrived, InRound
  <2>2. \A w \in waiting : myPhase[w] = phase /\ phase' # phase
    BY <1>3, <2>1, ParticipantsAssumption, PhaseStep
       DEF IInv, Arrived, InRound, TypeOK, Participants, Release
  <2>3. \A q \in Participants :
          Place(q)' = IF q = p \/ (q \in Droppers /\ Place(q) = "in") THEN "out"
                      ELSE IF Place(q) = "in" THEN "leaving" ELSE Place(q)
    <3> TAKE q \in Participants
    <3>1. CASE q \in Droppers
      BY <1>1, <1>3, <2>1, <3>1 DEF Place, Release
    <3>2. CASE q \notin Droppers /\ q = p
      BY <1>3, <3>2 DEF Place
    <3>3. CASE q \notin Droppers /\ q # p
      <4>1. q \in waiting /\ Place(q) = "in"
        BY <1>1, <2>1, <3>3 DEF Arrived, InRound, IInv, TypeOK
      <4>2. Place(q)' = "leaving"
        BY <1>3, <2>2, <3>3, <4>1 DEF Place
      <4> QED  BY <3>3, <4>1, <4>2
    <3> QED  BY <3>1, <3>2, <3>3
  <2>4. \A q \in Participants \ {p} : Place(q) = "in"
    BY <1>1, <2>1
  <2> QED
    BY <1>2, <2>3, <2>4 DEF Abstract!Arrive, Abstract!Freed, Abstract!Participants, Participants
<1>4. CASE ~LastArrives
  <2>1. ~(\A q \in Participants \ {p} : Place(q) = "in")
    <3> SUFFICES ASSUME \A q \in Participants \ {p} : Place(q) = "in" PROVE FALSE
      OBVIOUS
    <3>1. Arrived = Participants \ {p}
      BY <1>1, <1>2, ArrivedFinite DEF IInv
    <3>2. Cardinality(Arrived) = NumThreads - 1
      BY <3>1, ParticipantsFinite, FS_RemoveElement DEF NumThreads
    <3> QED
      BY <1>4, <3>2, ParticipantsFinite DEF IInv, CountIsExact, LastArrives, TypeOK
  <2>2. \A q \in Participants : Place(q)' = IF q = p THEN "in" ELSE Place(q)
    BY <1>4, ParticipantsAssumption DEF Place, IInv, TypeOK, Participants
  <2> QED
    BY <1>2, <2>1, <2>2 DEF Abstract!Arrive, Abstract!Participants, Participants
<1> QED  BY <1>3, <1>4

\* A waiter that returns leaves the abstract barrier.
LEMMA RefinementOfReturn ==
    ASSUME IInv, NEW w \in Waiters, Return(w)
    PROVE  Abstract!Leave(w)
<1>1. w \in Participants /\ w \notin Droppers
  BY ParticipantsAssumption DEF Participants
<1>2. Place(w) = "leaving"
  BY <1>1 DEF Return, Place
<1>3. \A q \in Participants : Place(q)' = IF q = w THEN "out" ELSE Place(q)
  BY <1>1 DEF Return, Place
<1> QED  BY <1>1, <1>2, <1>3 DEF Abstract!Leave, Abstract!Participants, Participants

\* Every step of the barrier is a step of the abstract one or none at all.
LEMMA RefinementStep ==
    IInv /\ [Next]_vars =>
        [Abstract!Next]_([p \in Participants |-> Place(p)])
<1> SUFFICES ASSUME IInv, [Next]_vars
             PROVE  \/ Abstract!Next
                    \/ [p \in Participants |-> Place(p)]' = [p \in Participants |-> Place(p)]
  OBVIOUS
<1>1. ASSUME NEW w \in Waiters, ArriveAndWait(w) PROVE Abstract!Next
  <2>1. w \in Participants /\ w \notin waiting /\ w \notin dropped
    BY <1>1, ParticipantsAssumption DEF ArriveAndWait, IInv, TypeOK, Participants
  <2>2. Abstract!Arrive(w)
    BY <1>1, <2>1, RefinementOfArrival DEF ArriveAndWait
  <2> QED  BY <2>1, <2>2 DEF Abstract!Next, Abstract!Participants, Participants
<1>2. ASSUME NEW d \in Droppers, ArriveAndDrop(d) PROVE Abstract!Next
  <2>1. d \in Participants /\ d \notin waiting /\ d \notin dropped
    BY <1>2, ParticipantsAssumption DEF ArriveAndDrop, IInv, TypeOK, Participants
  <2>2. Abstract!Arrive(d)
    BY <1>2, <2>1, RefinementOfArrival DEF ArriveAndDrop
  <2> QED  BY <2>1, <2>2 DEF Abstract!Next, Abstract!Participants, Participants
<1>3. ASSUME NEW w \in Waiters, Return(w) PROVE Abstract!Next
  BY <1>3, RefinementOfReturn DEF Abstract!Next, Abstract!Participants
<1>4. ASSUME NEW w \in Waiters, SleepAgain(w) \/ SpuriousWakeup(w)
      PROVE  [p \in Participants |-> Place(p)]' = [p \in Participants |-> Place(p)]
  BY <1>4 DEF SleepAgain, SpuriousWakeup, Place, Participants
<1>5. CASE UNCHANGED vars
  BY <1>5 DEF vars, Place, Participants
<1> QED  BY <1>1, <1>2, <1>3, <1>4, <1>5 DEF Next

\* The counter, the phase and the condition variable implement the abstract
\* barrier, whatever the number of threads.
THEOREM BarrierImplementsAbstractBarrier == Spec => ImplementsAbstractBarrier
<1>1. Init => Abstract!Init
  BY DEF Init, Abstract!Init, Abstract!Participants, Place, Participants
<1> QED
  BY <1>1, RefinementStep, BarrierInvariant, PTL
     DEF Spec, ImplementsAbstractBarrier, Abstract!Spec
================================================================================
