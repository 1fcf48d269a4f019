---------------------------- MODULE ToolsProofs ----------------------------
(***************************************************************************)
(* The safety properties of the registry of the tools and of the file      *)
(* tools in it, layer by layer.                                            *)
(*                                                                         *)
(* Those of ExecutionGate hold for every set of calls and every width of   *)
(* the shared mode.  The inductive invariant is GateTypeOK /\              *)
(* SlotAccounting /\ Exclusion /\ NoLostWakeup: _can_enter reads the       *)
(* counters, so exclusion needs them to agree with the calls inside, and a *)
(* wake-up is only known to be due for what the queue holds.               *)
(*                                                                         *)
(* Those of ToolRegistry hold for every division of the calls into safe    *)
(* and exclusive ones, set of batches and program of each batch.  They     *)
(* rest on the invariant of the gate, on the agreement of the gate with    *)
(* the stages of the calls, and on a plan of each batch: which of its      *)
(* calls are over, which may run, and which were not made yet.             *)
(*                                                                         *)
(* Those of FileTools hold whatever the calls of file tools ask for, and   *)
(* whatever files there are at first, in a registry that may have other    *)
(* tools.  They rest on the invariant of the registry, on how the worker   *)
(* thread of a call goes with the call, and on what a file holds while a   *)
(* function is at it.                                                      *)
(*                                                                         *)
(* What is proved of the gate and of the registry cites GateAssumption and *)
(* RegistryAssumption; FilesAssumption speaks of what only FileTools has.  *)
(***************************************************************************)
EXTENDS FileTools, SharedLemmas, FiniteSetTheorems, TLAPS

(* The gate *)

(* What every step of the gate keeps. *)
GateInvariant == GateTypeOK /\ SlotAccounting /\ Exclusion /\ NoLostWakeup

(* Calls are finitely many, so those inside can be counted. *)
LEMMA InsideFinite ==
    ASSUME GateTypeOK
    PROVE  /\ IsFiniteSet(inside)
           /\ IsFiniteSet(inside \cap SafeCalls)
  BY GateAssumption, FS_Subset DEF GateTypeOK

(* An entry through any queue that holds the waiters and the entering call. *)
LEMMA EnterStep ==
    ASSUME GateInvariant,
           NEW c \in Calls \ (inside \cup cancelled),
           NEW queue \in Seq(Calls), Distinct(queue),
           Queued(queue) = Waiters \cup {c},
           Enter(queue, c)
    PROVE  GateInvariant'
  <1> USE DEF GateInvariant
  <1>1. /\ waiting' \in Seq(Calls)
        /\ Distinct(waiting')
        /\ Queued(waiting') = Waiters \ {c}
    <2>1. c \in Queued(queue)
      OBVIOUS
    <2>2. /\ Without(queue, c) \in Seq(Calls)
          /\ Distinct(Without(queue, c))
          /\ Queued(Without(queue, c)) = Queued(queue) \ {c}
      BY <2>1, WithoutToken
    <2> QED
      BY <2>2 DEF Enter
  <1>2. GateTypeOK'
    <2>1. /\ activeShared' \in {activeShared, activeShared + 1}
          /\ activeExclusive' \in {activeExclusive, TRUE}
      BY DEF Enter
    <2>2. /\ waiting' \in Seq(Calls)
          /\ Distinct(waiting)'
          /\ Waiters' = Waiters \ {c}
      BY <1>1 DEF Waiters, Distinct
    <2>3. notified' = Waiters' /\ cancelled' = cancelled /\ inside' = inside \cup {c}
      BY DEF Enter, NotifyAll, Waiters
    <2>4. activeShared' \in Nat
      BY <2>1 DEF GateTypeOK
    <2>5. activeExclusive' \in BOOLEAN
      BY <2>1, Zenon DEF GateTypeOK
    <2> QED
      BY <2>2, <2>3, <2>4, <2>5 DEF GateTypeOK
  <1>3. NoLostWakeup'
    BY <1>1 DEF NoLostWakeup, Enter, NotifyAll, Waiters
  <1>4. /\ IsFiniteSet(inside)
        /\ IsFiniteSet(inside \cap SafeCalls)
        /\ inside' = inside \cup {c}
        /\ inside \subseteq SafeCalls
        /\ inside \cap SafeCalls = inside
        /\ Cardinality(inside) = activeShared
    BY InsideFinite DEF Enter, CanEnter, SlotAccounting
  <1>5. CASE c \in SafeCalls
    <2>1. inside' \cap SafeCalls = inside' /\ inside' \ SafeCalls = {}
      BY <1>4, <1>5
    <2>2. Cardinality(inside') = Cardinality(inside) + 1
      BY <1>4, FS_AddElement
    <2>3. activeShared < SharedLimit /\ activeShared' = activeShared + 1
      BY <1>5 DEF Enter, CanEnter
    <2>4. ~activeExclusive'
      BY <1>5 DEF Enter, CanEnter
    <2>5. SlotAccounting'
      BY <1>4, <2>1, <2>2, <2>3, <2>4 DEF SlotAccounting
    <2>6. Exclusion'
      BY <1>4, <2>1, <2>2, <2>3, GateAssumption DEF Exclusion, GateTypeOK
    <2> QED
      BY <1>2, <1>3, <2>5, <2>6
  <1>6. CASE c \notin SafeCalls
    <2>1. activeShared = 0 /\ activeShared' = 0 /\ activeExclusive'
      BY <1>6 DEF Enter, CanEnter
    <2>2. inside' = {c}
      BY <1>4, <2>1, FS_EmptySet
    <2>3. Cardinality(inside') = 1 /\ inside' \cap SafeCalls = {}
      <3>1. Cardinality({c}) = 1
        BY FS_Singleton
      <3>2. {c} \cap SafeCalls = {}
        BY <1>6
      <3> QED
        BY <2>2, <3>1, <3>2
    <2>4. SlotAccounting'
      BY <1>6, <2>1, <2>2, <2>3, FS_EmptySet DEF SlotAccounting
    <2>5. Exclusion'
      BY <2>2, <2>3, GateAssumption DEF Exclusion
    <2> QED
      BY <1>2, <1>3, <2>4, <2>5
  <1> QED
    BY <1>5, <1>6

(* A call that waits leaves what the earlier waiters may do unchanged. *)
LEMMA ArriveStep ==
    ASSUME GateInvariant, NEW c \in Calls, Arrive(c)
    PROVE  GateInvariant'
  <1> USE DEF GateInvariant
  <1> DEFINE queue == Append(waiting, c)
  <1>1. c \notin Waiters /\ c \notin inside /\ c \notin cancelled
    BY DEF Arrive, GateTypeOK
  <1>2. /\ queue \in Seq(Calls)
        /\ Distinct(queue)
        /\ Queued(queue) = Waiters \cup {c}
        /\ \A d \in Waiters : Position(queue, d) = Position(waiting, d)
    BY <1>1, AppendToken DEF GateTypeOK, Waiters
  <1>3. CASE Enter(queue, c)
    BY <1>1, <1>2, <1>3, EnterStep
  <1>4. CASE /\ ~CanEnter(queue, c)
             /\ waiting' = queue
             /\ UNCHANGED <<activeShared, activeExclusive, notified, cancelled, inside>>
    <2>1. GateTypeOK'
      BY <1>1, <1>2, <1>4 DEF GateTypeOK, Waiters, Distinct
    <2>2. SlotAccounting' /\ Exclusion'
      BY <1>4 DEF SlotAccounting, Exclusion
    <2>3. ASSUME NEW d \in Waiters, CanEnter(queue, d)
          PROVE  CanEnter(waiting, d)
      <3>1. Position(waiting, d) \in 1..Len(waiting)
        BY PositionOf DEF GateTypeOK, Waiters
      <3>2. \A i \in 1..(Position(waiting, d) - 1) : queue[i] = waiting[i]
        BY <3>1 DEF GateTypeOK
      <3> QED
        BY <1>2, <2>3, <3>1, <3>2 DEF CanEnter
    <2>4. NoLostWakeup'
      BY <1>2, <1>4, <2>3 DEF NoLostWakeup, Waiters, CanEnter
    <2> QED
      BY <2>1, <2>2, <2>4
  <1> QED
    BY <1>3, <1>4 DEF Arrive

(* A woken waiter enters, or goes on waiting because it may not enter. *)
LEMMA RecheckStep ==
    ASSUME GateInvariant, NEW c \in Calls, Recheck(c)
    PROVE  GateInvariant'
  <1> USE DEF GateInvariant
  <1>1. c \in Waiters /\ c \notin inside /\ c \notin cancelled
    BY DEF Recheck, GateTypeOK
  <1>2. CASE Enter(waiting, c)
    <2>1. waiting \in Seq(Calls) /\ Distinct(waiting) /\ Queued(waiting) = Waiters \cup {c}
      BY <1>1 DEF GateTypeOK, Waiters
    <2> QED
      BY <1>1, <1>2, <2>1, EnterStep
  <1>3. CASE /\ ~CanEnter(waiting, c)
             /\ notified' = notified \ {c}
             /\ UNCHANGED <<waiting, activeShared, activeExclusive, cancelled, inside>>
    <2>1. GateTypeOK'
      BY <1>3 DEF GateTypeOK, Waiters, Distinct
    <2>2. SlotAccounting' /\ Exclusion'
      BY <1>3 DEF SlotAccounting, Exclusion
    <2>3. NoLostWakeup'
      BY <1>3 DEF NoLostWakeup, Waiters, CanEnter
    <2> QED
      BY <2>1, <2>2, <2>3
  <1> QED
    BY <1>2, <1>3 DEF Recheck

(* A cancellation that is due stands in for a wake-up. *)
LEMMA CancelStep ==
    ASSUME GateInvariant, NEW c \in Calls, Cancel(c)
    PROVE  GateInvariant'
  <1> USE DEF GateInvariant, Cancel
  <1>1. GateTypeOK'
    BY DEF GateTypeOK, Waiters, Distinct
  <1>2. SlotAccounting' /\ Exclusion'
    BY DEF SlotAccounting, Exclusion
  <1>3. NoLostWakeup'
    BY DEF NoLostWakeup, Waiters, CanEnter
  <1> QED
    BY <1>1, <1>2, <1>3

(* A waiter that leaves the queue notifies all that stay. *)
LEMMA AbandonStep ==
    ASSUME GateInvariant, NEW c \in Calls, Abandon(c)
    PROVE  GateInvariant'
  <1> USE DEF GateInvariant, Abandon
  <1>1. c \in Queued(waiting)
    BY DEF GateTypeOK, Waiters
  <1>2. /\ waiting' \in Seq(Calls)
        /\ Distinct(waiting')
        /\ Queued(waiting') = Waiters \ {c}
    BY <1>1, WithoutToken DEF GateTypeOK, Waiters
  <1>3. GateTypeOK'
    BY <1>2 DEF GateTypeOK, NotifyAll, Waiters, Distinct
  <1>4. SlotAccounting' /\ Exclusion'
    BY DEF SlotAccounting, Exclusion
  <1>5. NoLostWakeup'
    BY DEF NoLostWakeup, NotifyAll, Waiters
  <1> QED
    BY <1>3, <1>4, <1>5

(* A call that leaves gives back what it took: one of the shared slots, or *)
(* the exclusive mode, which it held alone.                                *)
LEMMA ReleaseStep ==
    ASSUME GateInvariant, NEW c \in Calls, Release(c)
    PROVE  GateInvariant'
  <1> USE DEF GateInvariant
  <1>1. /\ c \in inside
        /\ inside' = inside \ {c}
        /\ waiting' = waiting
        /\ cancelled' = cancelled
        /\ notified' = Waiters
    BY DEF Release, NotifyAll, Waiters
  <1>2. /\ IsFiniteSet(inside)
        /\ IsFiniteSet(inside \cap SafeCalls)
        /\ Cardinality(inside) \in Nat
        /\ Cardinality(inside \cap SafeCalls) \in Nat
    BY InsideFinite, FS_CardinalityType
  <1>3. Cardinality(inside') = Cardinality(inside) - 1
    BY <1>1, <1>2, FS_RemoveElement
  <1>4. NoLostWakeup'
    BY <1>1 DEF NoLostWakeup, Waiters
  <1>5. Exclusion'
    BY <1>1, <1>2, <1>3, GateAssumption DEF Exclusion
  <1>6. CASE c \in SafeCalls
    <2>1. inside' \cap SafeCalls = (inside \cap SafeCalls) \ {c}
      BY <1>1
    <2>2. Cardinality(inside' \cap SafeCalls) = Cardinality(inside \cap SafeCalls) - 1
      BY <1>1, <1>2, <1>6, <2>1, FS_RemoveElement
    <2>3. Cardinality(inside' \cap SafeCalls) \in Nat
      BY <1>2, <2>1, FS_RemoveElement, FS_CardinalityType
    <2>4. activeShared' = activeShared - 1 /\ UNCHANGED activeExclusive
      BY <1>6 DEF Release
    <2>5. inside' \ SafeCalls = inside \ SafeCalls
      BY <1>1, <1>6
    <2>6. SlotAccounting'
      BY <2>2, <2>4, <2>5 DEF SlotAccounting
    <2>7. GateTypeOK'
      BY <1>1, <2>2, <2>3, <2>4 DEF GateTypeOK, SlotAccounting, Waiters, Distinct
    <2> QED
      BY <1>4, <1>5, <2>6, <2>7
  <1>7. CASE c \notin SafeCalls
    <2>1. inside = {c} /\ inside' = {}
      BY <1>1, <1>7 DEF Exclusion
    <2>2. activeExclusive' = FALSE /\ UNCHANGED activeShared
      BY <1>7 DEF Release
    <2>3. SlotAccounting'
      <3>1. inside \cap SafeCalls = inside' \cap SafeCalls
        BY <1>7, <2>1
      <3> QED
        BY <2>1, <2>2, <3>1 DEF SlotAccounting
    <2>4. GateTypeOK'
      BY <1>1, <2>1, <2>2 DEF GateTypeOK, Waiters, Distinct
    <2> QED
      BY <1>4, <1>5, <2>3, <2>4
  <1> QED
    BY <1>6, <1>7

(* The invariant holds at the beginning, and every step of the gate keeps  *)
(* it.                                                                     *)
LEMMA GateInvariantInductive ==
    /\ GateInit => GateInvariant
    /\ GateInvariant /\ [GateNext]_gateVars => GateInvariant'
  <1>1. GateInit => GateInvariant
    <2> SUFFICES ASSUME GateInit PROVE GateInvariant
      OBVIOUS
    <2>1. Waiters = {} /\ inside = {} /\ inside \cap SafeCalls = {}
      BY DEF GateInit, Waiters, Queued
    <2>2. Cardinality(inside) = 0 /\ Cardinality(inside \cap SafeCalls) = 0
      BY <2>1, FS_EmptySet
    <2>3. <<>> \in Seq(Calls) /\ Distinct(<<>>)
      BY DEF Distinct
    <2>4. GateTypeOK
      BY <2>1, <2>3 DEF GateInit, GateTypeOK
    <2>5. SlotAccounting /\ Exclusion /\ NoLostWakeup
      BY <2>1, <2>2, GateAssumption DEF GateInit, SlotAccounting, Exclusion, NoLostWakeup
    <2> QED
      BY <2>4, <2>5 DEF GateInvariant
  <1>2. ASSUME GateInvariant, [GateNext]_gateVars
        PROVE  GateInvariant'
    <2>1. CASE UNCHANGED gateVars
      BY <1>2, <2>1 DEF gateVars, GateInvariant, GateTypeOK, SlotAccounting, Exclusion,
                        NoLostWakeup, Waiters, Distinct, CanEnter
    <2>2. CASE GateNext
      BY <1>2, <2>2, ArriveStep, RecheckStep, CancelStep, AbandonStep, ReleaseStep
         DEF GateNext
    <2> QED
      BY <1>2, <2>1, <2>2
  <1> QED
    BY <1>1, <1>2

(* The gate's invariants hold in every reachable state. *)
THEOREM GateInvariance == GateSpec => []GateInvariant
  BY GateInvariantInductive, PTL DEF GateSpec

(* Type correctness of the gate. *)
THEOREM GateTypeCorrectness == GateSpec => []GateTypeOK
  <1>1. GateInvariant => GateTypeOK
    BY DEF GateInvariant
  <1> QED
    BY <1>1, GateInvariance, PTL

(* Exclusive calls run alone and the shared width is respected. *)
THEOREM GateExclusion == GateSpec => []Exclusion
  <1>1. GateInvariant => Exclusion
    BY DEF GateInvariant
  <1> QED
    BY <1>1, GateInvariance, PTL

(* Cancellations and aborted acquisitions leak no slot of the gate. *)
THEOREM GateSlotAccounting == GateSpec => []SlotAccounting
  <1>1. GateInvariant => SlotAccounting
    BY DEF GateInvariant
  <1> QED
    BY <1>1, GateInvariance, PTL

(* No waiter that could enter sleeps with nothing due to wake it. *)
THEOREM GateNoLostWakeup == GateSpec => []NoLostWakeup
  <1>1. GateInvariant => NoLostWakeup
    BY DEF GateInvariant
  <1> QED
    BY <1>1, GateInvariance, PTL

(* Nobody enters past an exclusive call that came first. *)
THEOREM GateNoOvertaking == GateSpec => NoOvertaking
  <1> DEFINE InOrder ==
        \A c \in inside' \ inside :
            LET queue == IF c \in Waiters THEN waiting ELSE Append(waiting, c)
            IN  \A i \in 1..(Position(queue, c) - 1) :
                    c \in SafeCalls /\ queue[i] \in SafeCalls
  <1>1. ASSUME GateInvariant, [GateNext]_gateVars
        PROVE  [InOrder]_gateVars
    <2> DEFINE Line(c) == IF c \in Waiters THEN waiting ELSE Append(waiting, c)
    <2> SUFFICES ASSUME NEW c \in inside' \ inside
                 PROVE  \A i \in 1..(Position(Line(c), c) - 1) :
                            c \in SafeCalls /\ Line(c)[i] \in SafeCalls
      OBVIOUS
    <2>1. PICK d \in Calls : Arrive(d) \/ Recheck(d)
      BY <1>1 DEF GateNext, gateVars, Cancel, Abandon, Release
    <2>2. c = d
      BY <2>1 DEF Arrive, Recheck, Enter
    <2>3. CanEnter(Line(c), c)
      BY <1>1, <2>1, <2>2 DEF Arrive, Recheck, Enter, GateInvariant, GateTypeOK
    <2> HIDE DEF Line
    <2> QED
      BY <2>3 DEF CanEnter
  <1>2. GateInvariant /\ [GateNext]_gateVars => [InOrder]_gateVars
    BY <1>1
  <1> QED
    BY <1>2, GateInvariance, PTL DEF GateSpec, NoOvertaking

-----------------------------------------------------------------------------
(* The gate implements the lock *)

(* _can_enter reads two counters and the places in the queue; what it      *)
(* decides is whether a request is admissible beside the holders and the   *)
(* earlier requests.                                                       *)
LEMMA EnterIsAdmissible ==
    ASSUME GateInvariant, NEW queue \in Seq(Calls), NEW c \in Queued(queue), Distinct(queue)
    PROVE  CanEnter(queue, c) <=> Lock!Admissible(c, Ahead(queue, c))
  <1> USE DEF GateInvariant
  <1>1. /\ IsFiniteSet(inside)
        /\ activeExclusive <=> inside \ SafeCalls # {}
        /\ activeShared = Cardinality(inside \cap SafeCalls)
    BY InsideFinite DEF SlotAccounting
  <1>2. CASE c \in SafeCalls
    <2>1. CanEnter(queue, c) <=> /\ ~activeExclusive
                                /\ activeShared < SharedLimit
                                /\ Ahead(queue, c) \subseteq SafeCalls
      BY <1>2 DEF CanEnter, Ahead
    <2>2. ~activeExclusive => inside \cap SafeCalls = inside
      BY <1>1
    <2>3. ~activeExclusive <=> inside \subseteq SafeCalls
      BY <1>1
    <2>4. Lock!Cardinality(inside) = Cardinality(inside)
      BY DEF Lock!Cardinality, Cardinality
    <2> QED
      BY <1>1, <1>2, <2>1, <2>2, <2>3, <2>4 DEF Lock!Admissible
  <1>3. CASE c \notin SafeCalls
    <2>1. CanEnter(queue, c) <=> ~activeExclusive /\ Ahead(queue, c) = {} /\ activeShared = 0
      BY <1>3, AheadByPlace DEF CanEnter
    <2>2. ~activeExclusive /\ activeShared = 0 <=> inside = {}
      <3>1. activeShared = 0 <=> inside \cap SafeCalls = {}
        BY <1>1, InsideFinite, FS_EmptySet
      <3> QED
        BY <1>1, <3>1
    <2> QED
      BY <1>3, <2>1, <2>2 DEF Lock!Admissible
  <1> QED
    BY <1>2, <1>3

(* A call that leaves the queue is forgotten by those behind it. *)
LEMMA WithoutForgets ==
    ASSUME GateTypeOK, NEW c \in Waiters, waiting' = Without(waiting, c)
    PROVE  /\ Waiters' = Waiters \ {c}
           /\ Lock!Forget(c)
  <1>1. /\ Queued(waiting') = Queued(waiting) \ {c}
        /\ \A d \in Queued(waiting) \ {c} : Ahead(waiting', d) = Ahead(waiting, d) \ {c}
    BY WithoutToken DEF GateTypeOK, Waiters
  <1>2. Waiters' = Waiters \ {c}
    BY <1>1 DEF Waiters
  <1>3. ASSUME NEW d \in Calls
        PROVE  Earlier'[d] = IF d = c THEN {} ELSE Earlier[d] \ {c}
    BY <1>1, <1>2 DEF Earlier, Waiters
  <1>4. Earlier' = [d \in Calls |-> IF d = c THEN {} ELSE Earlier[d] \ {c}]
    BY <1>3 DEF Earlier
  <1> QED
    BY <1>2, <1>4 DEF Lock!Forget

(* The steps of the gate are steps of the lock, or none at all. *)
LEMMA ArriveAsks ==
    ASSUME GateInvariant, NEW c \in Calls, Arrive(c)
    PROVE  Lock!Take(c) \/ Lock!Request(c)
  <1> DEFINE queue == Append(waiting, c)
  <1>1. c \notin Waiters \cup inside
    BY DEF Arrive
  <1>2. /\ queue \in Seq(Calls) /\ Distinct(queue)
        /\ Queued(queue) = Waiters \cup {c}
        /\ Ahead(queue, c) = Waiters
        /\ \A d \in Waiters : Ahead(queue, d) = Ahead(waiting, d)
    BY <1>1, AppendToken, AppendAhead DEF GateInvariant, GateTypeOK, Waiters
  <1>3. CanEnter(queue, c) <=> Lock!Admissible(c, Waiters)
    BY <1>2, EnterIsAdmissible
  <1>4. CASE Enter(queue, c)
    <2>1. waiting' = Without(queue, c) /\ inside' = inside \cup {c} /\ CanEnter(queue, c)
      BY <1>4 DEF Enter
    <2>2. /\ Queued(waiting') = Waiters
          /\ \A d \in Waiters : Ahead(waiting', d) = Ahead(waiting, d) \ {c}
      <3>1. c \in Queued(queue) /\ Waiters = Queued(queue) \ {c}
        BY <1>1, <1>2
      <3> HIDE DEF queue
      <3>2. /\ Queued(Without(queue, c)) = Queued(queue) \ {c}
            /\ \A d \in Queued(queue) \ {c} :
                  Ahead(Without(queue, c), d) = Ahead(queue, d) \ {c}
        BY <1>2, <3>1, WithoutToken
      <3> QED
        BY <1>2, <2>1, <3>1, <3>2
    <2>3. \A d \in Waiters : c \notin Ahead(waiting, d)
      BY <1>1, AheadByPlace DEF GateInvariant, GateTypeOK, Waiters
    <2>4. Waiters' = Waiters /\ Earlier' = Earlier
      BY <2>2, <2>3 DEF Waiters, Earlier
    <2> QED
      BY <1>1, <1>3, <2>1, <2>4 DEF Lock!Take
  <1>5. CASE /\ ~CanEnter(queue, c)
             /\ waiting' = queue
             /\ UNCHANGED <<activeShared, activeExclusive, notified, cancelled, inside>>
    <2>1. Waiters' = Waiters \cup {c}
      BY <1>2, <1>5 DEF Waiters
    <2>2. ASSUME NEW d \in Calls
          PROVE  Earlier'[d] = IF d = c THEN Waiters ELSE Earlier[d]
      BY <1>1, <1>2, <1>5, <2>1 DEF Earlier
    <2>3. Earlier' = [Earlier EXCEPT ![c] = Waiters]
      BY <2>2 DEF Earlier
    <2> QED
      BY <1>1, <1>3, <1>5, <2>1, <2>3 DEF Lock!Request
  <1> QED
    BY <1>4, <1>5 DEF Arrive

LEMMA RecheckGrants ==
    ASSUME GateInvariant, NEW c \in Calls, Recheck(c)
    PROVE  Lock!Grant(c) \/ UNCHANGED Lock!lockVars
  <1>1. c \in Waiters
    BY DEF Recheck, GateInvariant, GateTypeOK
  <1>2. Earlier[c] = Ahead(waiting, c)
    BY <1>1 DEF Earlier
  <1>3. CASE Enter(waiting, c)
    <2>1. Lock!Admissible(c, Earlier[c])
      BY <1>1, <1>2, <1>3, EnterIsAdmissible DEF Enter, GateInvariant, GateTypeOK, Waiters
    <2>2. Waiters' = Waiters \ {c} /\ Lock!Forget(c)
      BY <1>1, <1>3, WithoutForgets DEF Enter, GateInvariant
    <2> QED
      BY <1>1, <1>3, <2>1, <2>2 DEF Enter, Lock!Grant
  <1>4. CASE UNCHANGED <<waiting, inside>>
    BY <1>4 DEF Lock!lockVars, Waiters, Earlier
  <1> QED
    BY <1>3, <1>4 DEF Recheck

LEMMA AbandonWithdraws ==
    ASSUME GateInvariant, NEW c \in Calls, Abandon(c)
    PROVE  Lock!Withdraw(c)
  <1>1. c \in Waiters /\ GateTypeOK
    BY DEF Abandon, GateInvariant, GateTypeOK
  <1>2. Waiters' = Waiters \ {c} /\ Lock!Forget(c)
    BY <1>1, WithoutForgets DEF Abandon
  <1> QED
    BY <1>1, <1>2 DEF Abandon, Lock!Withdraw

LEMMA ReleaseLeaves ==
    ASSUME NEW c \in Calls, Release(c)
    PROVE  Lock!Leave(c)
  BY DEF Release, Lock!Leave, Waiters, Earlier

(* What GateSpec promises of who waits, who is inside and who came first   *)
(* is what the abstract lock does: the queue, the counters and the wake-up *)
(* of all waiters let nobody in, and keep nobody in line, that a lock      *)
(* which is granted by need and order of arrival would not.                *)
THEOREM GateImplementsLock == GateSpec => Lock!LockSpec
  <1>1. GateInit => Lock!LockInit
    <2> SUFFICES ASSUME GateInit PROVE Lock!LockInit
      OBVIOUS
    <2>1. Waiters = {}
      BY DEF GateInit, Waiters, Queued
    <2> QED
      BY <2>1 DEF GateInit, Lock!LockInit, Earlier
  <1>2. ASSUME GateInvariant, [GateNext]_gateVars
        PROVE  [Lock!LockNext]_(Lock!lockVars)
    <2>1. CASE UNCHANGED gateVars
      BY <2>1 DEF gateVars, Lock!lockVars, Waiters, Earlier
    <2>2. ASSUME NEW c \in Calls, Arrive(c) PROVE Lock!LockNext
      BY <1>2, <2>2, ArriveAsks DEF Lock!LockNext
    <2>3. ASSUME NEW c \in Calls, Recheck(c) PROVE [Lock!LockNext]_(Lock!lockVars)
      BY <1>2, <2>3, RecheckGrants DEF Lock!LockNext
    <2>4. ASSUME NEW c \in Calls, Cancel(c) PROVE UNCHANGED Lock!lockVars
      BY <2>4 DEF Cancel, Lock!lockVars, Waiters, Earlier
    <2>5. ASSUME NEW c \in Calls, Abandon(c) PROVE Lock!LockNext
      BY <1>2, <2>5, AbandonWithdraws DEF Lock!LockNext
    <2>6. ASSUME NEW c \in Calls, Release(c) PROVE Lock!LockNext
      BY <2>6, ReleaseLeaves DEF Lock!LockNext
    <2> QED
      BY <1>2, <2>1, <2>2, <2>3, <2>4, <2>5, <2>6 DEF GateNext
  <1>3. GateInvariant /\ [GateNext]_gateVars => [Lock!LockNext]_(Lock!lockVars)
    BY <1>2
  <1> QED
    BY <1>1, <1>3, GateInvariance, PTL DEF GateSpec, Lock!LockSpec

-----------------------------------------------------------------------------
(* The registry *)

(* A call that has not run the first line of execute() yet. *)
Unstarted(c) == stage[c] \in {"idle", "spawned"}

(* What the observer of a call got and how it ended, by its stage. *)
ObservedBy(c) ==
    /\ stage[c] \in {"idle", "spawned", "waiting", "body"} =>
          outcome[c] = "none" /\ observed[c] = <<>>
    /\ stage[c] = "observing" =>
          outcome[c] \in ResultCodes /\ observed[c] = <<outcome[c]>>
    /\ stage[c] = "done" =>
          \/ outcome[c] \in ResultCodes /\ observed[c] = <<outcome[c]>>
          \/ outcome[c] = "raised" /\ observed[c] = <<>>
          \/ outcome[c] = "cancelled" /\ Len(observed[c]) <= 1

(* The calls of a batch are made and start in order of submission, and     *)
(* wait at the gate in that order.                                         *)
InOrder(b) ==
    \A i, j \in DOMAIN Program[b] : i < j =>
        LET c == Program[b][i]
            d == Program[b][j]
        IN  /\ stage[c] = "idle" => stage[d] = "idle"
            /\ Unstarted(c) => Unstarted(d)
            /\ c \in Waiters /\ d \in Waiters => c \in Earlier[d]

(* A call that returned a result. *)
Settled(c) == stage[c] = "done" /\ outcome[c] \in ResultCodes

(* The results of the calls of a batch before an index. *)
ResultsBefore(b, k) == [i \in 1..(k - 1) |-> outcome[Program[b][i]]]

(* All calls before one index returned, and those from another one on were *)
(* not made.                                                               *)
DoneBefore(b, k) == \A i \in DOMAIN Program[b] : i < k => Settled(Program[b][i])
NotMadeFrom(b, k) == \A i \in DOMAIN Program[b] : i >= k => stage[Program[b][i]] = "idle"

(* How the calls of a batch stand by the state of execute_many(). *)
Plan(b) ==
    LET run == batch[b]
        last == Len(Program[b])
    IN  /\ run.pc \in {"idle", "rejected"} => NotMadeFrom(b, 1)
        /\ run.pc \notin {"idle", "rejected"} => Distinct(Program[b])
        /\ run.pc = "group" =>
              /\ 1 <= run.from /\ run.from < run.upto /\ run.upto <= last + 1
              /\ DoneBefore(b, run.from)
              /\ NotMadeFrom(b, run.upto)
              /\ run.results = ResultsBefore(b, run.from)
        /\ run.pc = "single" =>
              /\ 1 <= run.upto /\ run.upto <= last
              /\ DoneBefore(b, run.upto)
              /\ ~Unstarted(Program[b][run.upto])
              /\ NotMadeFrom(b, run.upto + 1)
              /\ run.results = ResultsBefore(b, run.upto)
        /\ run.pc = "returned" =>
              /\ DoneBefore(b, last + 1)
              /\ run.results = ResultsBefore(b, last + 1)

(* What every step of the registry keeps. *)
CallInvariant ==
    /\ CallTypeOK
    /\ GateInvariant
    /\ NoSlotLeak
    /\ \A c \in Calls : ObservedBy(c)
    /\ \A b \in Batches : InOrder(b)
    /\ BatchBarrier

RegistryInvariant == CallInvariant /\ BatchTypeOK /\ \A b \in Batches : Plan(b)

-----------------------------------------------------------------------------
(* A step of one call *)

(* All other calls stay as they are. *)
Only(c) ==
    \A d \in Calls \ {c} :
        stage'[d] = stage[d] /\ outcome'[d] = outcome[d] /\ observed'[d] = observed[d]

(* The calls before this one in its batch have started. *)
MayStart(c) ==
    \A b \in Batches : \A i, j \in DOMAIN Program[b] :
        (i < j /\ Program[b][j] = c) => ~Unstarted(Program[b][i])

(* The gate does something for one call, or nothing. *)
GateMove(c) ==
    \/ Unstarted(c) /\ (Lock!Take(c) \/ Lock!Request(c))
    \/ Lock!Grant(c) \/ Lock!Withdraw(c) \/ Lock!Leave(c)
    \/ UNCHANGED Lock!lockVars

(* A call that is admitted finds nobody of its batch before it at the gate *)
(* or in a body, unless both are safe; so the order of a batch and its     *)
(* barriers are kept by whatever a single call does.                       *)
LEMMA OrderKept ==
    ASSUME CallInvariant, NEW c \in Calls,
           Only(c), GateMove(c), MayStart(c), CallTypeOK', NoSlotLeak',
           stage'[c] \notin {"idle", "spawned"},
           PastBody(c) => PastBody(c)'
    PROVE  (\A b \in Batches : InOrder(b))' /\ BatchBarrier'
  <1> USE RegistryAssumption DEF CallInvariant, CallTypeOK
  <1>1. ASSUME NEW b \in Batches, NEW i \in DOMAIN Program[b], NEW j \in DOMAIN Program[b], i < j
        PROVE  LET e == Program[b][i]
                   d == Program[b][j]
               IN  /\ stage'[e] = "idle" => stage'[d] = "idle"
                   /\ Unstarted(e)' => Unstarted(d)'
                   /\ e \in Waiters' /\ d \in Waiters' => e \in Earlier'[d]
                   /\ ({e, d} \ SafeCalls # {} /\ d \in inside') => PastBody(e)'
    <2> DEFINE e == Program[b][i]
               d == Program[b][j]
    <2>1. e \in Calls /\ d \in Calls
      OBVIOUS
    <2>2. /\ stage[e] = "idle" => stage[d] = "idle"
          /\ Unstarted(e) => Unstarted(d)
          /\ e \in Waiters /\ d \in Waiters => e \in Earlier[d]
      BY <1>1 DEF InOrder
    <2>3. ({e, d} \ SafeCalls # {} /\ d \in inside) => PastBody(e)
      BY <1>1 DEF BatchBarrier
    <2>4. d = c => ~Unstarted(e)
      BY <1>1 DEF MayStart
    <2> HIDE DEF e, d
    <2>5. \A a \in Calls : /\ a \in Waiters <=> stage[a] = "waiting"
                           /\ a \in inside <=> stage[a] = "body"
      BY DEF NoSlotLeak
    <2>6. \A a \in Calls : /\ a \in Waiters' <=> stage'[a] = "waiting"
                           /\ a \in inside' <=> stage'[a] = "body"
      BY DEF NoSlotLeak
    <2>7. /\ stage'[e] = "idle" => stage'[d] = "idle"
          /\ Unstarted(e)' => Unstarted(d)'
      BY <2>1, <2>2, <2>4 DEF Only, Unstarted
    <2>8. e \in Waiters' /\ d \in Waiters' => e \in Earlier'[d]
      <3> SUFFICES ASSUME e \in Waiters', d \in Waiters'
                   PROVE  e \in Earlier'[d]
        OBVIOUS
      <3>1. DOMAIN Earlier = Calls
        BY DEF Earlier
      <3>2. CASE Unstarted(c) /\ Lock!Request(c)
        <4>1. e # c
          BY <2>1, <2>2, <2>4, <2>5, <2>6, <3>2 DEF Only, Unstarted
        <4>2. e \in Waiters
          BY <2>1, <2>5, <2>6, <4>1 DEF Only
        <4>3. Earlier' = [Earlier EXCEPT ![c] = Waiters]
          BY <3>2 DEF Lock!Request
        <4> QED
          BY <2>1, <2>2, <2>5, <2>6, <3>1, <4>2, <4>3 DEF Only
      <3>3. CASE Lock!Take(c) \/ Lock!Leave(c) \/ UNCHANGED Lock!lockVars
        BY <2>2, <3>3 DEF Lock!Take, Lock!Leave, Lock!lockVars
      <3>4. CASE Lock!Grant(c) \/ Lock!Withdraw(c)
        <4>1. Waiters' = Waiters \ {c} /\ Lock!Forget(c)
          BY <3>4 DEF Lock!Grant, Lock!Withdraw
        <4> QED
          BY <2>1, <2>2, <4>1 DEF Lock!Forget
      <3> QED
        BY <3>2, <3>3, <3>4 DEF GateMove
    <2>9. ({e, d} \ SafeCalls # {} /\ d \in inside') => PastBody(e)'
      <3> SUFFICES ASSUME {e, d} \ SafeCalls # {}, d \in inside'
                   PROVE  PastBody(e)'
        OBVIOUS
      <3>1. CASE d \in inside
        BY <2>1, <2>3, <3>1 DEF Only, PastBody
      <3>2. CASE d \notin inside
        <4>1. d = c
          BY <2>1, <2>5, <2>6, <3>2 DEF Only
        <4>2. stage[e] \notin {"idle", "spawned"}
          BY <2>4, <4>1 DEF Unstarted
        <4>3. \/ Unstarted(c) /\ Lock!Admissible(c, Waiters)
              \/ c \in Waiters /\ Lock!Admissible(c, Earlier[c])
          BY <3>2, <4>1 DEF GateMove, Lock!Take, Lock!Request, Lock!Grant, Lock!Withdraw,
                            Lock!Leave, Lock!lockVars
        <4>4. e \notin inside
          BY <4>1, <4>3 DEF Lock!Admissible
        <4>5. e \notin Waiters
          BY <2>2, <4>1, <4>3 DEF Lock!Admissible
        <4>6. e # c
          BY <4>2, <4>3, <4>5 DEF Unstarted
        <4> QED
          BY <2>1, <2>5, <4>2, <4>4, <4>5, <4>6 DEF Only, PastBody, Stages
      <3> QED
        BY <3>1, <3>2
    <2> QED
      BY <2>7, <2>8, <2>9 DEF e, d
  <1> QED
    BY <1>1 DEF InOrder, BatchBarrier

(* A result is observed once, and nothing is observed when a call raises.  *)
LEMMA ObserveKept ==
    ASSUME CallInvariant, NEW c \in Calls, NEW code \in ResultCodes, Observe(c, code),
           stage[c] \in {"idle", "spawned", "waiting", "body"}
    PROVE  /\ Only(c) /\ PastBody(c)'
           /\ stage' \in [Calls -> Stages]
           /\ outcome' \in [Calls -> ResultCodes \cup {"none", "raised", "cancelled"}]
           /\ observed' \in [Calls -> Seq(ResultCodes)]
           /\ (\A d \in Calls : ObservedBy(d))'
  <1> USE DEF CallInvariant, CallTypeOK
  <1>1. PICK next \in {"observing", "done"} : stage' = [stage EXCEPT ![c] = next]
    BY DEF Observe
  <1>2. outcome' = [outcome EXCEPT ![c] = code] /\ observed[c] = <<>>
    BY DEF Observe, ObservedBy
  <1>3. observed' = [observed EXCEPT ![c] = <<code>>]
    BY <1>2 DEF Observe
  <1>4. stage' \in [Calls -> Stages]
    BY <1>1 DEF Stages
  <1>5. outcome' \in [Calls -> ResultCodes \cup {"none", "raised", "cancelled"}]
    BY <1>2
  <1>6. observed' \in [Calls -> Seq(ResultCodes)]
    BY <1>3
  <1>7. Only(c) /\ PastBody(c)'
    BY <1>1, <1>2, <1>3 DEF Only, PastBody
  <1>8. ASSUME NEW d \in Calls PROVE ObservedBy(d)'
    <2>1. CASE d = c
      BY <1>1, <1>2, <1>3, <2>1 DEF ObservedBy
    <2>2. CASE d # c
      BY <1>1, <1>2, <1>3, <2>2 DEF ObservedBy
    <2> QED
      BY <2>1, <2>2
  <1> QED
    BY <1>4, <1>5, <1>6, <1>7, <1>8

LEMMA RaiseKept ==
    ASSUME CallInvariant, NEW c \in Calls, NEW how \in {"raised", "cancelled"}, Raise(c, how),
           stage[c] # "done", stage[c] = "observing" => how = "cancelled"
    PROVE  /\ Only(c) /\ PastBody(c)'
           /\ stage' \in [Calls -> Stages]
           /\ outcome' \in [Calls -> ResultCodes \cup {"none", "raised", "cancelled"}]
           /\ observed' \in [Calls -> Seq(ResultCodes)]
           /\ (\A d \in Calls : ObservedBy(d))'
  <1> USE DEF CallInvariant, CallTypeOK
  <1>1. /\ stage' = [stage EXCEPT ![c] = "done"]
        /\ outcome' = [outcome EXCEPT ![c] = how]
        /\ observed' = observed
    BY DEF Raise
  <1>2. Len(observed[c]) <= 1 /\ (how = "raised" => observed[c] = <<>>)
    <2>1. \/ observed[c] = <<>>
          \/ stage[c] = "observing" /\ observed[c] = <<outcome[c]>>
      BY DEF ObservedBy, Stages
    <2>2. Len(<<>>) = 0 /\ Len(<<outcome[c]>>) = 1
      OBVIOUS
    <2>3. Len(observed[c]) \in {0, 1}
      BY <2>1, <2>2, Zenon
    <2>4. \A n \in {0, 1} : n <= 1
      OBVIOUS
    <2> QED
      BY <2>1, <2>3, <2>4, Zenon
  <1>3. stage' \in [Calls -> Stages]
    BY <1>1 DEF Stages
  <1>4. /\ outcome' \in [Calls -> ResultCodes \cup {"none", "raised", "cancelled"}]
        /\ observed' \in [Calls -> Seq(ResultCodes)]
    BY <1>1
  <1>5. Only(c) /\ PastBody(c)'
    BY <1>1 DEF Only, PastBody
  <1>6. ASSUME NEW d \in Calls PROVE ObservedBy(d)'
    <2>1. CASE d = c
      BY <1>1, <1>2, <2>1 DEF ObservedBy
    <2>2. CASE d # c
      BY <1>1, <2>2 DEF ObservedBy
    <2> QED
      BY <2>1, <2>2
  <1> QED
    BY <1>3, <1>4, <1>5, <1>6

(* A call goes on at the gate or into its body, and nothing is observed.   *)
LEMMA EnteringKept ==
    ASSUME CallInvariant, NEW c \in Calls, BodyIfEntered(c), UNCHANGED <<outcome, observed>>,
           stage[c] \in {"idle", "spawned", "waiting"}
    PROVE  /\ Only(c)
           /\ stage' = [stage EXCEPT ![c] = IF c \in inside' THEN "body" ELSE "waiting"]
           /\ stage' \in [Calls -> Stages]
           /\ worker' \in [Calls -> {"none", "queued", "running", "finished"}]
           /\ (\A d \in Calls : ObservedBy(d))'
  <1> USE DEF CallInvariant, CallTypeOK
  <1>1. stage' = [stage EXCEPT ![c] = IF c \in inside' THEN "body" ELSE "waiting"]
    BY DEF BodyIfEntered, BeginBody
  <1>2. stage' \in [Calls -> Stages]
    BY <1>1 DEF Stages
  <1>3. worker' \in [Calls -> {"none", "queued", "running", "finished"}]
    BY DEF BodyIfEntered, BeginBody
  <1>4. ASSUME NEW d \in Calls PROVE ObservedBy(d)'
    <2>1. CASE d = c
      BY <1>1, <2>1 DEF ObservedBy
    <2>2. CASE d # c
      BY <1>1, <2>2 DEF ObservedBy
    <2> QED
      BY <2>1, <2>2
  <1> QED
    BY <1>1, <1>2, <1>3, <1>4 DEF Only

(* The gate as it was. *)
LEMMA GateUnchanged ==
    ASSUME GateInvariant, UNCHANGED gateVars
    PROVE  GateInvariant' /\ UNCHANGED Lock!lockVars
  BY DEF gateVars, GateInvariant, GateTypeOK, SlotAccounting, Exclusion, NoLostWakeup,
         Waiters, Distinct, CanEnter, Lock!lockVars, Earlier

(* The parts of a step of one call that keep the invariant together. *)
LEMMA CallKept ==
    ASSUME CallInvariant, NEW c \in Calls,
           Only(c), GateMove(c), MayStart(c), CallTypeOK', GateInvariant',
           (\A d \in Calls : ObservedBy(d))',
           inside' = {d \in Calls : stage'[d] = "body"},
           Waiters' = {d \in Calls : stage'[d] = "waiting"},
           ~Unstarted(c)', PastBody(c) => PastBody(c)'
    PROVE  CallInvariant'
  <1>1. NoSlotLeak'
    BY DEF NoSlotLeak, GateInvariant
  <1>2. (\A b \in Batches : InOrder(b))' /\ BatchBarrier'
    BY <1>1, OrderKept DEF Unstarted
  <1> QED
    BY <1>1, <1>2 DEF CallInvariant

(* A call that is started leaves those before it in its batch started. *)
LEMMA StartedInOrder ==
    ASSUME CallInvariant, NEW c \in Calls, ~Unstarted(c)
    PROVE  MayStart(c)
  BY DEF CallInvariant, InOrder, MayStart

(* What one step of a call does to the others and to its own progress. *)
Advances(c) == Only(c) /\ stage[c] # "done" /\ ~Unstarted(c)'

LEMMA ExecuteStep ==
    ASSUME CallInvariant, NEW c \in Calls, Unstarted(c), MayStart(c),
           Execute(c)
    PROVE  CallInvariant' /\ Advances(c)
  <1> USE DEF CallInvariant, CallTypeOK
  <1>1. UNCHANGED <<definitions, timedOut, cancelDue>> /\ stage[c] \in {"idle", "spawned"}
    BY DEF Execute, Unstarted
  <1>2. ASSUME NEW code \in ResultCodes, Observe(c, code), UNCHANGED <<gateVars, worker>>
        PROVE  CallInvariant' /\ Advances(c)
    <2>1. /\ Only(c) /\ PastBody(c)' /\ CallTypeOK'
          /\ (\A d \in Calls : ObservedBy(d))'
      BY <1>1, <1>2, ObserveKept
    <2>2. GateInvariant' /\ GateMove(c)
      BY <1>2, GateUnchanged DEF GateMove
    <2>3. /\ inside' = {d \in Calls : stage'[d] = "body"}
          /\ Waiters' = {d \in Calls : stage'[d] = "waiting"}
      BY <1>1, <1>2, <2>1 DEF gateVars, Waiters, NoSlotLeak, Only, PastBody
    <2>4. ~Unstarted(c)'
      BY <2>1 DEF PastBody, Unstarted
    <2> QED
      BY <1>1, <2>1, <2>2, <2>3, <2>4, CallKept DEF Advances
  <1>3. ASSUME Raise(c, "raised"), UNCHANGED <<gateVars, worker>>
        PROVE  CallInvariant' /\ Advances(c)
    <2>1. /\ Only(c) /\ PastBody(c)' /\ CallTypeOK'
          /\ (\A d \in Calls : ObservedBy(d))'
      BY <1>1, <1>3, RaiseKept
    <2>2. GateInvariant' /\ GateMove(c)
      BY <1>3, GateUnchanged DEF GateMove
    <2>3. /\ inside' = {d \in Calls : stage'[d] = "body"}
          /\ Waiters' = {d \in Calls : stage'[d] = "waiting"}
      BY <1>1, <1>3, <2>1 DEF gateVars, Waiters, NoSlotLeak, Only, PastBody
    <2>4. ~Unstarted(c)'
      BY <2>1 DEF PastBody, Unstarted
    <2> QED
      BY <1>1, <2>1, <2>2, <2>3, <2>4, CallKept DEF Advances
  <1>4. ASSUME Arrive(c), BodyIfEntered(c), UNCHANGED <<outcome, observed>>
        PROVE  CallInvariant' /\ Advances(c)
    <2>1. /\ Only(c)
          /\ stage' = [stage EXCEPT ![c] = IF c \in inside' THEN "body" ELSE "waiting"]
          /\ CallTypeOK'
          /\ (\A d \in Calls : ObservedBy(d))'
      BY <1>1, <1>4, EnteringKept
    <2>2. GateInvariant'
      BY <1>4, ArriveStep
    <2>3. Lock!Take(c) \/ Lock!Request(c)
      BY <1>4, ArriveAsks
    <2>4. GateMove(c)
      BY <1>1, <2>3 DEF GateMove, Unstarted
    <2>5. /\ inside' = {d \in Calls : stage'[d] = "body"}
          /\ Waiters' = {d \in Calls : stage'[d] = "waiting"}
      BY <1>1, <2>1, <2>3 DEF Lock!Take, Lock!Request, NoSlotLeak
    <2>6. ~Unstarted(c)' /\ ~PastBody(c)
      BY <1>1, <2>1 DEF Unstarted, PastBody
    <2> QED
      BY <1>1, <2>1, <2>2, <2>4, <2>5, <2>6, CallKept DEF Advances
  <1> QED
    BY <1>2, <1>3, <1>4 DEF Execute, ResultCodes

LEMMA ResumeStep ==
    ASSUME CallInvariant, NEW c \in Calls, Resume(c)
    PROVE  CallInvariant' /\ Advances(c)
  <1> USE DEF CallInvariant, CallTypeOK
  <1>1. stage[c] = "waiting" /\ c \in Waiters
    BY DEF Resume, Recheck, NoSlotLeak, GateInvariant, GateTypeOK
  <1>2. /\ Only(c)
        /\ stage' = [stage EXCEPT ![c] = IF c \in inside' THEN "body" ELSE "waiting"]
        /\ CallTypeOK'
        /\ (\A d \in Calls : ObservedBy(d))'
    BY <1>1, EnteringKept DEF Resume
  <1>3. GateInvariant'
    BY RecheckStep DEF Resume
  <1>4. Lock!Grant(c) \/ UNCHANGED Lock!lockVars
    BY RecheckGrants DEF Resume
  <1>5. /\ inside' = {d \in Calls : stage'[d] = "body"}
        /\ Waiters' = {d \in Calls : stage'[d] = "waiting"}
    BY <1>1, <1>2, <1>4 DEF Lock!Grant, Lock!lockVars, NoSlotLeak
  <1>6. ~Unstarted(c)' /\ ~Unstarted(c) /\ ~PastBody(c)
    BY <1>1, <1>2 DEF Unstarted, PastBody
  <1> QED
    BY <1>1, <1>2, <1>3, <1>4, <1>5, <1>6, CallKept, StartedInOrder DEF Advances, GateMove

LEMMA AbandonGateStep ==
    ASSUME CallInvariant, NEW c \in Calls, AbandonGate(c)
    PROVE  CallInvariant' /\ Advances(c)
  <1> USE DEF CallInvariant, CallTypeOK
  <1>1. stage[c] = "waiting" /\ c \in Waiters
    BY DEF AbandonGate, Abandon, NoSlotLeak, GateInvariant, GateTypeOK
  <1>2. /\ Only(c) /\ PastBody(c)' /\ CallTypeOK'
        /\ (\A d \in Calls : ObservedBy(d))'
    BY <1>1, RaiseKept DEF AbandonGate
  <1>3. GateInvariant' /\ Lock!Withdraw(c)
    BY AbandonStep, AbandonWithdraws DEF AbandonGate
  <1>4. /\ inside' = {d \in Calls : stage'[d] = "body"}
        /\ Waiters' = {d \in Calls : stage'[d] = "waiting"}
    BY <1>1, <1>2, <1>3 DEF Lock!Withdraw, NoSlotLeak, Only, PastBody
  <1>5. ~Unstarted(c)' /\ ~Unstarted(c)
    BY <1>1, <1>2 DEF Unstarted, PastBody
  <1> QED
    BY <1>1, <1>2, <1>3, <1>4, <1>5, CallKept, StartedInOrder DEF Advances, GateMove

(* However a body ends, its call leaves the gate. *)
LEMMA LeaveStep ==
    ASSUME CallInvariant, NEW c \in Calls, stage[c] = "body", Release(c), Interrupted(c),
           UNCHANGED definitions,
           worker' \in [Calls -> {"none", "queued", "running", "finished"}],
           \/ \E code \in ResultCodes : Observe(c, code)
           \/ \E how \in {"raised", "cancelled"} : Raise(c, how)
    PROVE  CallInvariant' /\ Advances(c)
  <1> USE DEF CallInvariant, CallTypeOK
  <1>1. /\ Only(c) /\ PastBody(c)'
        /\ stage' \in [Calls -> Stages]
        /\ outcome' \in [Calls -> ResultCodes \cup {"none", "raised", "cancelled"}]
        /\ observed' \in [Calls -> Seq(ResultCodes)]
        /\ (\A d \in Calls : ObservedBy(d))'
    BY ObserveKept, RaiseKept
  <1>2. CallTypeOK'
    BY <1>1 DEF Interrupted
  <1>3. GateInvariant' /\ Lock!Leave(c)
    BY ReleaseStep, ReleaseLeaves
  <1>4. /\ inside' = {d \in Calls : stage'[d] = "body"}
        /\ Waiters' = {d \in Calls : stage'[d] = "waiting"}
    BY <1>1, <1>3 DEF Lock!Leave, NoSlotLeak, Only, PastBody
  <1>5. ~Unstarted(c)' /\ ~Unstarted(c)
    BY <1>1 DEF Unstarted, PastBody
  <1> QED
    BY <1>1, <1>2, <1>3, <1>4, <1>5, CallKept, StartedInOrder DEF Advances, GateMove

LEMMA BodyEndsStep ==
    ASSUME CallInvariant, NEW c \in Calls, BodyEnds(c)
    PROVE  CallInvariant' /\ Advances(c)
  BY LeaveStep DEF BodyEnds, ResultCodes, CallInvariant, CallTypeOK

LEMMA BodyInterruptedStep ==
    ASSUME CallInvariant, NEW c \in Calls, BodyInterrupted(c)
    PROVE  CallInvariant' /\ Advances(c)
  <1>1. worker' \in [Calls -> {"none", "queued", "running", "finished"}]
    BY DEF BodyInterrupted, CallInvariant, CallTypeOK
  <1> QED
    BY <1>1, LeaveStep DEF BodyInterrupted, ResultCodes

LEMMA ObserverEndsStep ==
    ASSUME CallInvariant, NEW c \in Calls, ObserverEnds(c)
    PROVE  CallInvariant' /\ Advances(c)
  <1> USE DEF CallInvariant, CallTypeOK
  <1>1. /\ stage[c] = "observing"
        /\ UNCHANGED <<gateVars, definitions, timedOut, worker>>
        /\ cancelDue' \subseteq Calls
    BY DEF ObserverEnds
  <1>2. /\ Only(c) /\ PastBody(c)'
        /\ stage' \in [Calls -> Stages]
        /\ outcome' \in [Calls -> ResultCodes \cup {"none", "raised", "cancelled"}]
        /\ observed' \in [Calls -> Seq(ResultCodes)]
        /\ (\A d \in Calls : ObservedBy(d))'
    <2>1. CASE Raise(c, "cancelled")
      BY <1>1, <2>1, RaiseKept
    <2>2. CASE stage' = [stage EXCEPT ![c] = "done"] /\ UNCHANGED <<outcome, observed>>
      <3>1. (\A d \in Calls : ObservedBy(d))'
        BY <1>1, <2>2 DEF ObservedBy
      <3>2. stage' \in [Calls -> Stages]
        BY <2>2 DEF Stages
      <3> QED
        BY <2>2, <3>1, <3>2 DEF Only, PastBody
    <2> QED
      BY <2>1, <2>2 DEF ObserverEnds
  <1>3. GateInvariant' /\ GateMove(c)
    BY <1>1, GateUnchanged DEF GateMove
  <1>4. /\ inside' = {d \in Calls : stage'[d] = "body"}
        /\ Waiters' = {d \in Calls : stage'[d] = "waiting"}
    BY <1>1, <1>2 DEF gateVars, Waiters, NoSlotLeak, Only, PastBody
  <1>5. ~Unstarted(c)' /\ ~Unstarted(c)
    BY <1>1, <1>2 DEF Unstarted, PastBody
  <1>6. CallTypeOK'
    BY <1>1, <1>2
  <1> QED
    BY <1>1, <1>2, <1>3, <1>4, <1>5, <1>6, CallKept, StartedInOrder DEF Advances

(* A call of gather() that was cancelled before it ran. *)
LEMMA NeverRunStep ==
    ASSUME CallInvariant, NEW c \in Calls, stage[c] = "spawned", MayStart(c),
           Raise(c, "cancelled"), cancelDue' = cancelDue \ {c},
           UNCHANGED <<gateVars, definitions, timedOut, worker>>
    PROVE  CallInvariant' /\ Advances(c)
  <1> USE DEF CallInvariant, CallTypeOK
  <1>1. /\ Only(c) /\ PastBody(c)' /\ CallTypeOK'
        /\ (\A d \in Calls : ObservedBy(d))'
    BY RaiseKept
  <1>2. GateInvariant' /\ GateMove(c)
    BY GateUnchanged DEF GateMove
  <1>3. /\ inside' = {d \in Calls : stage'[d] = "body"}
        /\ Waiters' = {d \in Calls : stage'[d] = "waiting"}
    BY <1>1 DEF gateVars, Waiters, NoSlotLeak, Only, PastBody
  <1>4. ~Unstarted(c)'
    BY <1>1 DEF Unstarted, PastBody
  <1> QED
    BY <1>1, <1>2, <1>3, <1>4, CallKept DEF Advances

-----------------------------------------------------------------------------
(* Steps that leave all calls at their stages *)

LEMMA StagesUnchanged ==
    ASSUME CallInvariant, UNCHANGED <<stage, outcome, observed, Waiters, inside, Earlier>>,
           CallTypeOK', GateInvariant'
    PROVE  CallInvariant'
  <1>1. NoSlotLeak'
    BY DEF CallInvariant, NoSlotLeak, GateInvariant
  <1>2. (\A c \in Calls : ObservedBy(c))'
    BY DEF CallInvariant, ObservedBy
  <1>3. (\A b \in Batches : InOrder(b))'
    BY DEF CallInvariant, InOrder, Unstarted
  <1>4. BatchBarrier'
    BY DEF CallInvariant, BatchBarrier, PastBody
  <1> QED
    BY <1>1, <1>2, <1>3, <1>4 DEF CallInvariant

LEMMA CancelTasksStep ==
    ASSUME CallInvariant, NEW calls \in SUBSET Calls, CancelTasks(calls)
    PROVE  CallInvariant' /\ UNCHANGED <<stage, outcome>>
  <1>1. /\ waiting' = waiting /\ activeShared' = activeShared
        /\ activeExclusive' = activeExclusive /\ notified' = notified /\ inside' = inside
        /\ cancelled' = cancelled \cup (calls \cap Waiters)
    BY DEF CancelTasks
  <1>2. GateInvariant'
    BY <1>1 DEF CallInvariant, GateInvariant, GateTypeOK, SlotAccounting, Exclusion,
                NoLostWakeup, Waiters, Distinct, CanEnter
  <1>3. UNCHANGED <<stage, outcome, observed, Waiters, inside, Earlier>>
    BY <1>1 DEF CancelTasks, Waiters, Earlier
  <1>4. CallTypeOK'
    BY DEF CallInvariant, CallTypeOK, CancelTasks
  <1> QED
    BY <1>2, <1>3, <1>4, StagesUnchanged

(* A tool is registered, a timeout expires, a worker thread goes on. *)
LEMMA QuietStep ==
    ASSUME CallInvariant, UNCHANGED <<gateVars, stage, outcome, observed>>, CallTypeOK'
    PROVE  CallInvariant'
  <1>1. UNCHANGED <<Waiters, inside, Earlier>>
    BY DEF gateVars, Waiters, Earlier
  <1> QED
    BY <1>1, GateUnchanged, StagesUnchanged DEF CallInvariant

-----------------------------------------------------------------------------
(* Batches *)

(* The scan for the next exclusive call stops, at the latest behind the    *)
(* last call.                                                              *)
LEMMA NextExclusiveFound ==
    ASSUME NEW b \in Batches, NEW from \in 1..(Len(Program[b]) + 1)
    PROVE  NextExclusive(b, from) \in from..(Len(Program[b]) + 1)
  <1> DEFINE last == Len(Program[b])
             Known(i) == Name[Program[b][i]] \in definitions
             Stops == {j \in from..(last + 1) :
                          j <= last => Known(j) /\ Program[b][j] \notin SafeCalls}
  <1>0. last \in Nat
    BY RegistryAssumption
  <1>1. last + 1 \in Stops /\ Stops \in SUBSET Nat
    BY <1>0
  <1>2. PICK least \in Stops : \A k \in Stops : least <= k
    BY <1>1, LeastNatural
  <1>3. ASSUME NEW i \in from..(least - 1)
        PROVE  Known(i) => Program[b][i] \in SafeCalls
    <2>1. i \notin Stops /\ i \in from..(last + 1)
      BY <1>0, <1>2
    <2> QED
      BY <2>1
  <1>4. \E j \in from..(last + 1) :
            /\ j <= last => Known(j) /\ Program[b][j] \notin SafeCalls
            /\ \A i \in from..(j - 1) : Known(i) => Program[b][i] \in SafeCalls
    BY <1>2, <1>3
  <1> QED
    BY <1>4 DEF NextExclusive

(* The steps of a call that is over or was never made by a batch do not    *)
(* touch the plan of the batch.                                            *)
LEMMA PlanKept ==
    ASSUME BatchTypeOK, NEW b \in Batches, Plan(b), batch'[b] = batch[b],
           NEW c \in Calls, Advances(c),
           c \in Queued(Program[b]) => stage[c] # "idle"
    PROVE  Plan(b)'
  <1>1. ASSUME NEW i \in DOMAIN Program[b]
        PROVE  /\ Program[b][i] \in Calls
               /\ Settled(Program[b][i]) => Settled(Program[b][i])'
               /\ Settled(Program[b][i]) => outcome'[Program[b][i]] = outcome[Program[b][i]]
               /\ stage[Program[b][i]] = "idle" => stage'[Program[b][i]] = "idle"
               /\ ~Unstarted(Program[b][i]) => ~Unstarted(Program[b][i])'
    <2> DEFINE d == Program[b][i]
    <2>1. d \in Calls /\ d \in Queued(Program[b])
      BY RegistryAssumption DEF Queued
    <2>2. d # c => stage'[d] = stage[d] /\ outcome'[d] = outcome[d]
      BY <2>1 DEF Advances, Only
    <2>3. d = c => stage[d] \notin {"done", "idle"} /\ ~Unstarted(d)'
      BY <2>1 DEF Advances
    <2> HIDE DEF d
    <2> QED
      BY <2>1, <2>2, <2>3 DEF Settled, Unstarted, d
  <1>2. \A k : DoneBefore(b, k) => DoneBefore(b, k)'
    BY <1>1 DEF DoneBefore
  <1>3. \A k : NotMadeFrom(b, k) => NotMadeFrom(b, k)'
    BY <1>1 DEF NotMadeFrom
  <1>4. ASSUME NEW k \in 1..(Len(Program[b]) + 1), DoneBefore(b, k)
        PROVE  ResultsBefore(b, k)' = ResultsBefore(b, k)
    <2>1. \A i \in 1..(k - 1) : i \in DOMAIN Program[b] /\ i < k
      BY RegistryAssumption
    <2> QED
      BY <1>1, <1>4, <2>1 DEF ResultsBefore, DoneBefore
  <1>5. /\ Len(Program[b]) \in Nat
        /\ batch[b].from \in Nat /\ batch[b].upto \in Nat
    BY RegistryAssumption DEF BatchTypeOK
  <1> DEFINE run == batch[b]
             last == Len(Program[b])
  <1>6. run.pc \in {"idle", "rejected"} => NotMadeFrom(b, 1)'
    BY <1>3 DEF Plan
  <1>7. ASSUME run.pc = "group"
        PROVE  DoneBefore(b, run.from)' /\ NotMadeFrom(b, run.upto)'
                  /\ run.results = [i \in 1..(run.from - 1) |-> outcome'[Program[b][i]]]
    <2>1. /\ run.from \in 1..(last + 1)
          /\ DoneBefore(b, run.from) /\ NotMadeFrom(b, run.upto)
          /\ run.results = ResultsBefore(b, run.from)
      BY <1>5, <1>7 DEF Plan
    <2> QED
      BY <1>2, <1>3, <1>4, <2>1 DEF ResultsBefore, DoneBefore, NotMadeFrom
  <1>8. ASSUME run.pc = "single"
        PROVE  DoneBefore(b, run.upto)' /\ NotMadeFrom(b, run.upto + 1)'
                  /\ ~Unstarted(Program[b][run.upto])'
                  /\ run.results = [i \in 1..(run.upto - 1) |-> outcome'[Program[b][i]]]
    <2>1. /\ run.upto \in 1..(last + 1) /\ run.upto \in DOMAIN Program[b]
          /\ DoneBefore(b, run.upto) /\ NotMadeFrom(b, run.upto + 1)
          /\ ~Unstarted(Program[b][run.upto])
          /\ run.results = ResultsBefore(b, run.upto)
      BY <1>5, <1>8, RegistryAssumption DEF Plan
    <2> QED
      BY <1>1, <1>2, <1>3, <1>4, <2>1 DEF ResultsBefore, DoneBefore, NotMadeFrom, Unstarted
  <1>9. ASSUME run.pc = "returned"
        PROVE  DoneBefore(b, last + 1)'
                  /\ run.results = [i \in 1..last |-> outcome'[Program[b][i]]]
    <2>1. /\ last + 1 \in 1..(last + 1) /\ last + 1 - 1 = last
          /\ DoneBefore(b, last + 1)
          /\ run.results = ResultsBefore(b, last + 1)
      BY <1>5, <1>9 DEF Plan
    <2>2. DoneBefore(b, last + 1)'
      BY <1>2, <2>1 DEF DoneBefore
    <2>3. run.results = [i \in 1..(last + 1 - 1) |-> outcome'[Program[b][i]]]
      BY <1>4, <2>1 DEF ResultsBefore
    <2> QED
      BY <2>1, <2>2, <2>3
  <1> QED
    BY <1>5, <1>6, <1>7, <1>8, <1>9 DEF Plan, ResultsBefore, DoneBefore, NotMadeFrom, Unstarted

LEMMA PlanUnchanged ==
    ASSUME BatchTypeOK, NEW b \in Batches, Plan(b), batch'[b] = batch[b], UNCHANGED outcome,
           \A i \in DOMAIN Program[b] : stage'[Program[b][i]] = stage[Program[b][i]]
    PROVE  Plan(b)'
  <1> DEFINE run == batch[b]
             last == Len(Program[b])
  <1>1. run.pc = "single" => run.upto \in DOMAIN Program[b]
    BY RegistryAssumption DEF Plan, BatchTypeOK
  <1>2. \A i \in DOMAIN Program[b] : /\ Settled(Program[b][i])' = Settled(Program[b][i])
                                     /\ Unstarted(Program[b][i])' = Unstarted(Program[b][i])
    BY DEF Settled, Unstarted
  <1>3. \A k : DoneBefore(b, k)' <=> DoneBefore(b, k)
    BY <1>2 DEF DoneBefore
  <1>4. \A k : NotMadeFrom(b, k)' <=> NotMadeFrom(b, k)
    BY DEF NotMadeFrom
  <1>5. run.pc \in {"idle", "rejected"} => NotMadeFrom(b, 1)'
    BY <1>4 DEF Plan
  <1>6. ASSUME run.pc = "group"
        PROVE  DoneBefore(b, run.from)' /\ NotMadeFrom(b, run.upto)'
    BY <1>3, <1>4, <1>6 DEF Plan, DoneBefore, NotMadeFrom
  <1>7. ASSUME run.pc = "single"
        PROVE  DoneBefore(b, run.upto)' /\ NotMadeFrom(b, run.upto + 1)'
                  /\ ~Unstarted(Program[b][run.upto])'
    BY <1>1, <1>2, <1>3, <1>4, <1>7 DEF Plan, DoneBefore, NotMadeFrom, Unstarted
  <1>8. ASSUME run.pc = "returned" PROVE DoneBefore(b, last + 1)'
    BY <1>3, <1>8 DEF Plan, DoneBefore
  <1> QED
    BY <1>5, <1>6, <1>7, <1>8 DEF Plan, ResultsBefore, DoneBefore, NotMadeFrom, Unstarted

(* What a call of one batch does leaves the plans of the others.           *)
LEMMA OtherPlansKept ==
    ASSUME RegistryInvariant, NEW b \in Batches, NEW i \in DOMAIN Program[b],
           Advances(Program[b][i]), \A d \in Batches \ {b} : batch'[d] = batch[d]
    PROVE  \A d \in Batches \ {b} : Plan(d)'
  <1>1. ASSUME NEW d \in Batches \ {b} PROVE Program[b][i] \notin Queued(Program[d])
    <2>1. Program[b][i] \in Queued(Program[b])
      BY DEF Queued
    <2>2. Queued(Program[b]) \cap Queued(Program[d]) = {}
      BY RegistryAssumption
    <2> QED
      BY <2>1, <2>2
  <1>2. Program[b][i] \in Calls
    BY RegistryAssumption
  <1> QED
    BY <1>1, <1>2, PlanKept DEF RegistryInvariant

(* gather() makes the tasks of the safe calls from an index on.            *)
LEMMA SpawnStep ==
    ASSUME RegistryInvariant, NEW b \in Batches,
           NEW from \in 1..(Len(Program[b]) + 1), NEW upto \in 1..(Len(Program[b]) + 1),
           from < upto, Distinct(Program[b]), DoneBefore(b, from), NotMadeFrom(b, from),
           stage' = [c \in Calls |-> IF c \in Slice(b, from, upto) THEN "spawned" ELSE stage[c]],
           \A d \in Batches \ {b} : batch'[d] = batch[d],
           UNCHANGED <<gateVars, definitions, outcome, observed, timedOut, cancelDue, worker>>
    PROVE  /\ CallInvariant'
           /\ \A d \in Batches \ {b} : Plan(d)'
           /\ DoneBefore(b, from)' /\ NotMadeFrom(b, upto)'
  <1>0. /\ Program[b] \in Seq(Calls) /\ Len(Program[b]) \in Nat
        /\ DOMAIN Program[b] = 1..Len(Program[b])
        /\ \A i \in 1..Len(Program[b]) : Program[b][i] \in Calls
    BY RegistryAssumption
  <1>1. ASSUME NEW i \in 1..Len(Program[b])
        PROVE  /\ Program[b][i] \in Slice(b, from, upto) <=> from <= i /\ i < upto
               /\ stage'[Program[b][i]] =
                     IF from <= i /\ i < upto THEN "spawned" ELSE stage[Program[b][i]]
               /\ from <= i => stage[Program[b][i]] = "idle"
               /\ i < from => stage[Program[b][i]] = "done"
    <2>1. ASSUME Program[b][i] \in Slice(b, from, upto) PROVE from <= i /\ i < upto
      <3>1. PICK k \in from..(upto - 1) : Program[b][k] = Program[b][i]
        BY <2>1 DEF Slice
      <3>2. k \in DOMAIN Program[b] /\ i \in DOMAIN Program[b]
        BY <1>0, <3>1
      <3>3. k = i
        BY <3>1, <3>2 DEF Distinct
      <3> QED
        BY <3>1, <3>3
    <2>2. ASSUME from <= i, i < upto PROVE Program[b][i] \in Slice(b, from, upto)
      BY <2>2 DEF Slice
    <2> QED
      BY <1>0, <2>1, <2>2 DEF NotMadeFrom, DoneBefore, Settled
  <1>2. \A c \in Slice(b, from, upto) : c \in Calls /\ stage[c] = "idle"
    <2> SUFFICES ASSUME NEW k \in from..(upto - 1)
                 PROVE  Program[b][k] \in Calls /\ stage[Program[b][k]] = "idle"
      BY DEF Slice
    <2>1. k \in 1..Len(Program[b]) /\ from <= k
      BY <1>0
    <2> QED
      BY <1>0, <1>1, <2>1
  <1>3. \A c \in Calls : \/ stage'[c] = stage[c]
                         \/ stage[c] = "idle" /\ stage'[c] = "spawned"
    BY <1>2
  <1>4. CallTypeOK'
    <2>1. stage' \in [Calls -> Stages]
      BY DEF Stages, RegistryInvariant, CallInvariant, CallTypeOK
    <2> QED
      BY <2>1 DEF RegistryInvariant, CallInvariant, CallTypeOK
  <1>5. GateInvariant' /\ UNCHANGED <<Waiters, inside, Earlier>>
    BY GateUnchanged DEF gateVars, Waiters, Earlier, RegistryInvariant, CallInvariant
  <1>6. NoSlotLeak'
    BY <1>3, <1>5 DEF NoSlotLeak, GateInvariant, RegistryInvariant, CallInvariant
  <1>7. (\A c \in Calls : ObservedBy(c))'
    BY <1>3 DEF ObservedBy, RegistryInvariant, CallInvariant
  <1>8. BatchBarrier'
    <2>1. ASSUME NEW c \in Calls, PastBody(c) PROVE PastBody(c)'
      BY <1>3, <2>1 DEF PastBody
    <2>2. \A d \in Batches : \A i \in DOMAIN Program[d] : Program[d][i] \in Calls
      BY RegistryAssumption
    <2> QED
      BY <1>5, <2>1, <2>2 DEF BatchBarrier, RegistryInvariant, CallInvariant
  <1>9. InOrder(b)'
    <2> SUFFICES ASSUME NEW i \in 1..Len(Program[b]), NEW j \in 1..Len(Program[b]), i < j
                 PROVE  LET c == Program[b][i]
                            d == Program[b][j]
                        IN  /\ stage'[c] = "idle" => stage'[d] = "idle"
                            /\ Unstarted(c)' => Unstarted(d)'
                            /\ c \in Waiters' /\ d \in Waiters' => c \in Earlier'[d]
      BY <1>0 DEF InOrder
    <2>1. Program[b][i] \in Waiters /\ Program[b][j] \in Waiters
             => Program[b][i] \in Earlier[Program[b][j]]
      BY <1>0 DEF InOrder, RegistryInvariant, CallInvariant
    <2>2. /\ stage'[Program[b][i]] = "idle" => upto <= i
          /\ stage'[Program[b][i]] \in {"idle", "spawned"} => from <= i
      BY <1>1
    <2>3. /\ upto <= i => stage'[Program[b][j]] = "idle"
          /\ from <= i => stage'[Program[b][j]] \in {"idle", "spawned"}
      <3>1. (upto <= i => upto <= j) /\ (from <= i => from <= j)
        BY <1>0
      <3>2. /\ stage'[Program[b][j]] = IF from <= j /\ j < upto THEN "spawned"
                                       ELSE stage[Program[b][j]]
            /\ from <= j => stage[Program[b][j]] = "idle"
        BY <1>1
      <3>3. upto <= i => from <= j /\ ~(j < upto)
        BY <1>0, <3>1
      <3> QED
        BY <3>1, <3>2, <3>3
    <2> QED
      BY <1>5, <2>1, <2>2, <2>3 DEF Unstarted
  <1>10. ASSUME NEW d \in Batches \ {b}
         PROVE  \A i \in DOMAIN Program[d] : stage'[Program[d][i]] = stage[Program[d][i]]
    <2>1. \A i \in DOMAIN Program[d] : Program[d][i] \in Calls /\ Program[d][i] \in Queued(Program[d])
      BY RegistryAssumption DEF Queued
    <2>2. Slice(b, from, upto) \subseteq Queued(Program[b])
      <3>1. from..(upto - 1) \subseteq DOMAIN Program[b]
        BY <1>0
      <3> QED
        BY <3>1 DEF Slice, Queued
    <2>3. Queued(Program[d]) \cap Queued(Program[b]) = {}
      BY RegistryAssumption
    <2> QED
      BY <2>1, <2>2, <2>3
  <1>11. ASSUME NEW d \in Batches \ {b} PROVE InOrder(d)'
    <2>1. InOrder(d)
      BY DEF RegistryInvariant, CallInvariant
    <2>2. \A i \in DOMAIN Program[d] : stage'[Program[d][i]] = stage[Program[d][i]]
      BY <1>10
    <2> QED
      BY <1>5, <2>1, <2>2 DEF InOrder, Unstarted
  <1>12. ASSUME NEW d \in Batches \ {b} PROVE Plan(d)'
    BY <1>10, PlanUnchanged DEF RegistryInvariant
  <1>13. DoneBefore(b, from)' /\ NotMadeFrom(b, upto)'
    <2>1. \A i \in 1..Len(Program[b]) : i < from => Settled(Program[b][i])'
      BY <1>0, <1>1 DEF DoneBefore, Settled
    <2>2. \A i \in 1..Len(Program[b]) : i >= upto => stage'[Program[b][i]] = "idle"
      BY <1>0, <1>1
    <2> QED
      BY <1>0, <2>1, <2>2 DEF DoneBefore, NotMadeFrom
  <1> QED
    BY <1>4, <1>5, <1>6, <1>7, <1>8, <1>9, <1>11, <1>12, <1>13 DEF RegistryInvariant, CallInvariant

(* The batch calls execute() itself for the exclusive call that is next.   *)
LEMMA SingleStep ==
    ASSUME RegistryInvariant, NEW b \in Batches, NEW k \in 1..Len(Program[b]),
           Distinct(Program[b]), DoneBefore(b, k), NotMadeFrom(b, k),
           Execute(Program[b][k]), \A d \in Batches \ {b} : batch'[d] = batch[d]
    PROVE  /\ CallInvariant'
           /\ \A d \in Batches \ {b} : Plan(d)'
           /\ DoneBefore(b, k)' /\ ~Unstarted(Program[b][k])' /\ NotMadeFrom(b, k + 1)'
           /\ ResultsBefore(b, k)' = ResultsBefore(b, k)
  <1> DEFINE c == Program[b][k]
  <1>0. /\ Len(Program[b]) \in Nat
        /\ DOMAIN Program[b] = 1..Len(Program[b])
        /\ \A i \in 1..Len(Program[b]) : Program[b][i] \in Calls
    BY RegistryAssumption
  <1>1. c \in Calls /\ stage[c] = "idle" /\ Unstarted(c)
    BY <1>0 DEF NotMadeFrom, Unstarted
  <1>2. MayStart(c)
    <2> SUFFICES ASSUME NEW d \in Batches, NEW i \in DOMAIN Program[d], NEW j \in DOMAIN Program[d],
                        i < j, Program[d][j] = c
                 PROVE  ~Unstarted(Program[d][i])
      BY DEF MayStart
    <2>1. d = b
      <3>1. c \in Queued(Program[d]) /\ c \in Queued(Program[b])
        BY <1>0 DEF Queued
      <3> QED
        BY <3>1, RegistryAssumption
    <2>2. j = k
      BY <1>0, <2>1 DEF Distinct
    <2> QED
      BY <2>1, <2>2 DEF DoneBefore, Settled, Unstarted
  <1>3. CallInvariant' /\ Advances(c)
    BY <1>1, <1>2, ExecuteStep DEF RegistryInvariant
  <1>4. \A d \in Batches \ {b} : Plan(d)'
    BY <1>0, <1>3, OtherPlansKept
  <1>5. \A i \in 1..Len(Program[b]) :
           i # k => /\ stage'[Program[b][i]] = stage[Program[b][i]]
                    /\ outcome'[Program[b][i]] = outcome[Program[b][i]]
    BY <1>0, <1>3 DEF Advances, Only, Distinct
  <1> HIDE DEF c
  <1>6. DoneBefore(b, k)' /\ NotMadeFrom(b, k + 1)'
    BY <1>0, <1>5 DEF DoneBefore, NotMadeFrom, Settled
  <1>7. ResultsBefore(b, k)' = ResultsBefore(b, k)
    BY <1>0, <1>5 DEF ResultsBefore
  <1> QED
    BY <1>3, <1>4, <1>6, <1>7 DEF Advances, c

LEMMA ResultsTyped ==
    ASSUME NEW b \in Batches, NEW k \in 1..(Len(Program[b]) + 1), DoneBefore(b, k)
    PROVE  ResultsBefore(b, k) \in Seq(ResultCodes)
  <1>1. /\ Len(Program[b]) \in Nat
        /\ DOMAIN Program[b] = 1..Len(Program[b])
    BY RegistryAssumption
  <1>2. ASSUME NEW i \in 1..(k - 1) PROVE outcome[Program[b][i]] \in ResultCodes
    <2>1. i \in DOMAIN Program[b] /\ i < k
      BY <1>1
    <2> QED
      BY <2>1 DEF DoneBefore, Settled
  <1>3. ResultsBefore(b, k) \in [1..(k - 1) -> ResultCodes]
    BY <1>2 DEF ResultsBefore
  <1>4. k - 1 \in Nat
    BY <1>1
  <1> QED
    BY <1>3, <1>4, SeqDef

(* A batch whose calls before an index all returned goes on behind them.   *)
LEMMA ProceedStep ==
    ASSUME RegistryInvariant, NEW b \in Batches, NEW from \in 1..(Len(Program[b]) + 1),
           NEW results, Distinct(Program[b]), DoneBefore(b, from), NotMadeFrom(b, from),
           results = ResultsBefore(b, from), Proceed(b, from, results)
    PROVE  RegistryInvariant'
  <1> DEFINE last == Len(Program[b])
  <1>0. /\ last \in Nat
        /\ DOMAIN Program[b] = 1..last
        /\ \A i \in 1..last : Program[b][i] \in Calls
    BY RegistryAssumption
  <1>1. PICK upto \in from..(last + 1) : upto = NextExclusive(b, from)
    BY NextExclusiveFound
  <1> DEFINE At(pc) == batch' = [batch EXCEPT ![b] =
                [@ EXCEPT !.pc = pc, !.from = from, !.upto = upto, !.results = results]]
  <1>2. results \in Seq(ResultCodes)
    BY ResultsTyped
  <1>3. ASSUME NEW pc \in {"group", "single", "returned"}, At(pc)
        PROVE  /\ BatchTypeOK'
               /\ \A d \in Batches \ {b} : batch'[d] = batch[d]
               /\ batch'[b].pc = pc /\ batch'[b].from = from /\ batch'[b].upto = upto
               /\ batch'[b].results = results
    <2> DEFINE Runs == [pc : {"idle", "group", "single", "returned", "rejected", "raised",
                              "cancelled"},
                        from : Nat, upto : Nat, cancel : BOOLEAN, results : Seq(ResultCodes)]
               next == [batch[b] EXCEPT !.pc = pc, !.from = from, !.upto = upto,
                                        !.results = results]
    <2>1. from \in Nat /\ upto \in Nat
      BY <1>0, <1>1
    <2>2. batch \in [Batches -> Runs]
      BY DEF RegistryInvariant, BatchTypeOK
    <2>3. /\ next \in Runs
          /\ next.pc = pc /\ next.from = from /\ next.upto = upto /\ next.results = results
      BY <1>2, <2>1, <2>2
    <2>4. batch' = [batch EXCEPT ![b] = next]
      BY <1>3
    <2> HIDE DEF next
    <2>5. batch' \in [Batches -> Runs] /\ batch'[b] = next
      BY <2>2, <2>3, <2>4
    <2> QED
      BY <2>2, <2>3, <2>4, <2>5 DEF BatchTypeOK
  <1>4. ASSUME from < upto, At("group"),
               stage' = [c \in Calls |-> IF c \in Slice(b, from, upto) THEN "spawned" ELSE stage[c]],
               UNCHANGED <<gateVars, definitions, outcome, observed, timedOut, cancelDue, worker>>
        PROVE  RegistryInvariant'
    <2>1. /\ CallInvariant'
          /\ \A d \in Batches \ {b} : Plan(d)'
          /\ DoneBefore(b, from)' /\ NotMadeFrom(b, upto)'
      BY <1>0, <1>1, <1>3, <1>4, SpawnStep
    <2>2. /\ batch'[b].pc = "group" /\ batch'[b].from = from /\ batch'[b].upto = upto
          /\ batch'[b].results = results
      BY <1>3, <1>4
    <2>3. results = [i \in 1..(from - 1) |-> outcome'[Program[b][i]]]
      BY <1>4 DEF ResultsBefore
    <2>4. 1 <= from /\ from < upto /\ upto <= last + 1
      BY <1>0, <1>1, <1>4
    <2>5. Plan(b)'
      BY <2>1, <2>2, <2>3, <2>4 DEF Plan, DoneBefore, NotMadeFrom, ResultsBefore
    <2> QED
      BY <1>3, <1>4, <2>1, <2>5 DEF RegistryInvariant
  <1>5. ASSUME from = upto, upto <= last, At("single"), Execute(Program[b][upto])
        PROVE  RegistryInvariant'
    <2>1. /\ CallInvariant'
          /\ \A d \in Batches \ {b} : Plan(d)'
          /\ DoneBefore(b, from)' /\ ~Unstarted(Program[b][from])' /\ NotMadeFrom(b, from + 1)'
          /\ ResultsBefore(b, from)' = ResultsBefore(b, from)
      BY <1>1, <1>3, <1>5, SingleStep
    <2>2. /\ batch'[b].pc = "single" /\ batch'[b].upto = from /\ batch'[b].results = results
      BY <1>3, <1>5
    <2>3. results = [i \in 1..(from - 1) |-> outcome'[Program[b][i]]]
      BY <2>1 DEF ResultsBefore
    <2>4. 1 <= from /\ from <= last
      BY <1>0, <1>1, <1>5
    <2>5. Plan(b)'
      BY <2>1, <2>2, <2>3, <2>4 DEF Plan, DoneBefore, NotMadeFrom, ResultsBefore, Unstarted
    <2> QED
      BY <1>3, <1>5, <2>1, <2>5 DEF RegistryInvariant
  <1>6. ASSUME from = last + 1, At("returned"),
               UNCHANGED <<gateVars, definitions, callVars, worker>>
        PROVE  RegistryInvariant'
    <2>1. CallInvariant'
      BY <1>6, QuietStep DEF RegistryInvariant, CallInvariant, CallTypeOK, callVars
    <2>2. \A d \in Batches \ {b} : Plan(d)'
      BY <1>3, <1>6, PlanUnchanged DEF RegistryInvariant, callVars
    <2>3. batch'[b].pc = "returned" /\ batch'[b].results = results
      BY <1>3, <1>6
    <2>4. DoneBefore(b, last + 1)' /\ ResultsBefore(b, last + 1)' = results
      BY <1>6 DEF DoneBefore, ResultsBefore, Settled, callVars
    <2>5. Plan(b)'
      BY <2>3, <2>4 DEF Plan
    <2> QED
      BY <1>3, <1>6, <2>1, <2>2, <2>5 DEF RegistryInvariant
  <1> QED
    BY <1>1, <1>4, <1>5, <1>6 DEF Proceed

LEMMA ExecuteManyStep ==
    ASSUME RegistryInvariant, NEW b \in Batches, ExecuteMany(b)
    PROVE  RegistryInvariant'
  <1> USE DEF RegistryInvariant
  <1>1. NotMadeFrom(b, 1)
    BY DEF ExecuteMany, Plan
  <1>2. CASE Distinct(Program[b]) /\ Proceed(b, 1, <<>>)
    <2>1. 1 \in 1..(Len(Program[b]) + 1)
      BY RegistryAssumption
    <2>2. DoneBefore(b, 1) /\ <<>> = ResultsBefore(b, 1)
      BY RegistryAssumption DEF DoneBefore, ResultsBefore
    <2> QED
      BY <1>1, <1>2, <2>1, <2>2, ProceedStep
  <1>3. CASE /\ batch' = [batch EXCEPT ![b].pc = "rejected"]
             /\ UNCHANGED <<gateVars, definitions, callVars, worker>>
    <2>1. CallInvariant'
      BY <1>3, QuietStep DEF CallInvariant, CallTypeOK, callVars
    <2>2. /\ BatchTypeOK'
          /\ batch'[b].pc = "rejected"
          /\ \A d \in Batches \ {b} : batch'[d] = batch[d]
      BY <1>3 DEF BatchTypeOK
    <2>3. Plan(b)'
      BY <1>1, <1>3, <2>2 DEF Plan, NotMadeFrom, callVars
    <2>4. \A d \in Batches \ {b} : Plan(d)'
      BY <1>3, <2>2, PlanUnchanged DEF callVars
    <2> QED
      BY <2>1, <2>2, <2>3, <2>4
  <1> QED
    BY <1>2, <1>3 DEF ExecuteMany

(* gather() starts the next of its tasks; those before it have started.    *)
LEMMA StartChildStep ==
    ASSUME RegistryInvariant, NEW b \in Batches, StartChild(b)
    PROVE  RegistryInvariant'
  <1> USE DEF RegistryInvariant
  <1>1. PICK i \in DOMAIN Program[b] :
            /\ stage[Program[b][i]] = "spawned"
            /\ \A j \in 1..(i - 1) : stage[Program[b][j]] # "spawned"
            /\ \/ Execute(Program[b][i])
               \/ /\ cancelDue' = cancelDue \ {Program[b][i]}
                  /\ Raise(Program[b][i], "cancelled")
                  /\ UNCHANGED <<gateVars, definitions, timedOut, worker>>
    BY DEF StartChild
  <1> DEFINE c == Program[b][i]
  <1>2. /\ DOMAIN Program[b] = 1..Len(Program[b]) /\ Len(Program[b]) \in Nat
        /\ \A j \in 1..Len(Program[b]) : Program[b][j] \in Calls
        /\ c \in Calls /\ c \in Queued(Program[b])
    BY RegistryAssumption DEF Queued
  <1>3. Distinct(Program[b])
    BY <1>1, <1>2 DEF Plan, NotMadeFrom
  <1>4. MayStart(c)
    <2> SUFFICES ASSUME NEW d \in Batches, NEW k \in DOMAIN Program[d], NEW j \in DOMAIN Program[d],
                        k < j, Program[d][j] = c
                 PROVE  ~Unstarted(Program[d][k])
      BY DEF MayStart
    <2>1. d = b
      <3>1. c \in Queued(Program[d])
        BY DEF Queued
      <3> QED
        BY <1>2, <3>1, RegistryAssumption
    <2>2. j = i
      BY <1>2, <1>3, <2>1 DEF Distinct
    <2>3. stage[Program[b][k]] # "idle"
      BY <1>1, <2>1, <2>2 DEF CallInvariant, InOrder
    <2>4. stage[Program[b][k]] # "spawned"
      BY <1>1, <1>2, <2>1, <2>2
    <2> QED
      BY <2>1, <2>3, <2>4 DEF Unstarted
  <1>5. CallInvariant' /\ Advances(c)
    BY <1>1, <1>2, <1>4, ExecuteStep, NeverRunStep DEF Unstarted
  <1>6. batch' = batch
    BY DEF StartChild
  <1>7. \A d \in Batches \ {b} : Plan(d)'
    BY <1>5, <1>6, OtherPlansKept
  <1>8. Plan(b)'
    BY <1>1, <1>2, <1>5, <1>6, PlanKept
  <1> QED
    BY <1>5, <1>6, <1>7, <1>8 DEF BatchTypeOK

(* A batch ends by an exception and leaves its calls as they are.          *)
LEMMA EndBatchStep ==
    ASSUME RegistryInvariant, NEW b \in Batches, NEW pc \in {"raised", "cancelled"},
           batch[b].pc \in {"group", "single"}, EndBatch(b, pc)
    PROVE  RegistryInvariant'
  <1> USE DEF RegistryInvariant
  <1>1. CallInvariant'
    BY QuietStep DEF EndBatch, CallInvariant, CallTypeOK, callVars
  <1>2. /\ BatchTypeOK'
        /\ batch'[b].pc = pc
        /\ \A d \in Batches \ {b} : batch'[d] = batch[d]
    BY DEF EndBatch, BatchTypeOK
  <1>3. Plan(b)'
    BY <1>2 DEF Plan
  <1>4. \A d \in Batches \ {b} : Plan(d)'
    BY <1>2, PlanUnchanged DEF EndBatch, callVars
  <1> QED
    BY <1>1, <1>2, <1>3, <1>4

(* A call that is done returned a result or raised.                        *)
LEMMA DoneOutcome ==
    ASSUME CallInvariant, NEW c \in Calls, stage[c] = "done", outcome[c] \notin ResultCodes
    PROVE  outcome[c] \in {"raised", "cancelled"}
  BY DEF CallInvariant, ObservedBy

LEMMA GroupRaisesStep ==
    ASSUME RegistryInvariant, NEW b \in Batches, GroupRaises(b)
    PROVE  RegistryInvariant'
  <1>1. PICK c \in Group(b) :
            stage[c] = "done" /\ outcome[c] \notin ResultCodes /\ EndBatch(b, outcome[c])
    BY DEF GroupRaises
  <1>2. c \in Calls
    <2>1. PICK i \in batch[b].from..(batch[b].upto - 1) : c = Program[b][i]
      BY DEF Group, Slice
    <2>2. i \in 1..Len(Program[b])
      BY RegistryAssumption DEF GroupRaises, RegistryInvariant, Plan, BatchTypeOK
    <2> QED
      BY <2>1, <2>2, RegistryAssumption
  <1>3. outcome[c] \in {"raised", "cancelled"}
    BY <1>1, <1>2, DoneOutcome DEF RegistryInvariant
  <1>4. batch[b].pc = "group"
    BY DEF GroupRaises
  <1> QED
    BY <1>1, <1>3, <1>4, EndBatchStep

(* The results of a group continue those before it. *)
LEMMA ResultsContinue ==
    ASSUME NEW b \in Batches,
           NEW from \in 1..(Len(Program[b]) + 1), NEW upto \in from..(Len(Program[b]) + 1),
           DoneBefore(b, upto)
    PROVE  ResultsBefore(b, from) \o [i \in 1..(upto - from) |-> outcome[Program[b][from + i - 1]]]
              = ResultsBefore(b, upto)
  <1> DEFINE left == ResultsBefore(b, from)
             right == [i \in 1..(upto - from) |-> outcome[Program[b][from + i - 1]]]
  <1>1. Len(Program[b]) \in Nat /\ DOMAIN Program[b] = 1..Len(Program[b])
    BY RegistryAssumption
  <1>2. from - 1 \in Nat /\ upto - 1 \in Nat /\ upto - from \in Nat
    BY <1>1
  <1>3. /\ left \in Seq(ResultCodes) /\ Len(left) = from - 1
        /\ \A i \in 1..(from - 1) : left[i] = outcome[Program[b][i]]
    <2>1. DoneBefore(b, from)
      BY <1>1 DEF DoneBefore
    <2>2. left \in Seq(ResultCodes)
      BY <1>1, <2>1, ResultsTyped
    <2> QED
      BY <1>2, <2>2 DEF ResultsBefore
  <1>4. /\ right \in Seq(ResultCodes) /\ Len(right) = upto - from
        /\ \A i \in 1..(upto - from) : right[i] = outcome[Program[b][from + i - 1]]
    <2>1. ASSUME NEW i \in 1..(upto - from) PROVE outcome[Program[b][from + i - 1]] \in ResultCodes
      <3>1. from + i - 1 \in DOMAIN Program[b] /\ from + i - 1 < upto
        BY <1>1
      <3> QED
        BY <3>1 DEF DoneBefore, Settled
    <2>2. right \in [1..(upto - from) -> ResultCodes]
      BY <2>1
    <2>3. right \in Seq(ResultCodes)
      BY <1>2, <2>2, SeqDef
    <2> QED
      BY <1>2, <2>3
  <1>5. /\ ResultsBefore(b, upto) \in Seq(ResultCodes)
        /\ Len(ResultsBefore(b, upto)) = upto - 1
        /\ \A i \in 1..(upto - 1) : ResultsBefore(b, upto)[i] = outcome[Program[b][i]]
    <2>1. ResultsBefore(b, upto) \in Seq(ResultCodes)
      BY <1>1, ResultsTyped
    <2> QED
      BY <1>2, <2>1 DEF ResultsBefore
  <1> HIDE DEF left, right
  <1>6. /\ left \o right \in Seq(ResultCodes)
        /\ Len(left \o right) = upto - 1
        /\ \A i \in 1..(upto - 1) :
              (left \o right)[i] = IF i <= Len(left) THEN left[i] ELSE right[i - Len(left)]
    <2>1. Len(left) + Len(right) = upto - 1
      BY <1>1, <1>3, <1>4
    <2>2. /\ left \o right \in Seq(ResultCodes)
          /\ Len(left \o right) = Len(left) + Len(right)
          /\ \A i \in 1..(Len(left) + Len(right)) :
                (left \o right)[i] = IF i <= Len(left) THEN left[i] ELSE right[i - Len(left)]
      BY <1>3, <1>4, ConcatProperties
    <2> QED
      BY <2>1, <2>2, Zenon
  <1>7. ASSUME NEW i \in 1..(upto - 1)
        PROVE  (left \o right)[i] = ResultsBefore(b, upto)[i]
    <2>1. CASE i <= from - 1
      BY <1>1, <1>3, <1>5, <1>6, <2>1
    <2>2. CASE ~(i <= from - 1)
      <3>1. i - (from - 1) \in 1..(upto - from) /\ from + (i - (from - 1)) - 1 = i
        BY <1>1, <2>2
      <3>2. (left \o right)[i] = right[i - (from - 1)]
        BY <1>3, <1>6, <2>2
      <3>3. right[i - (from - 1)] = outcome[Program[b][from + (i - (from - 1)) - 1]]
        BY <1>4, <3>1
      <3>4. right[i - (from - 1)] = outcome[Program[b][i]]
        BY <3>1, <3>3
      <3> QED
        BY <1>5, <3>2, <3>4
    <2> QED
      BY <2>1, <2>2
  <1>8. left \o right = ResultsBefore(b, upto)
    BY <1>5, <1>6, <1>7, SeqEqual
  <1> QED
    BY <1>8 DEF left, right

LEMMA GroupReturnsStep ==
    ASSUME RegistryInvariant, NEW b \in Batches, GroupReturns(b)
    PROVE  RegistryInvariant'
  <1> DEFINE last == Len(Program[b])
             run == batch[b]
  <1>0. /\ last \in Nat
        /\ DOMAIN Program[b] = 1..last
        /\ \A i \in 1..last : Program[b][i] \in Calls
        /\ run.from \in Nat /\ run.upto \in Nat /\ run.pc = "group"
    <2>1. run.pc = "group"
      BY DEF GroupReturns
    <2> QED
      BY <2>1, RegistryAssumption DEF RegistryInvariant, BatchTypeOK
  <1>1. PICK from \in 1..(last + 1), upto \in 1..(last + 1) :
            from = run.from /\ upto = run.upto /\ from < upto
    BY <1>0 DEF RegistryInvariant, Plan
  <1>2. /\ Distinct(Program[b]) /\ DoneBefore(b, from) /\ NotMadeFrom(b, upto)
        /\ run.results = ResultsBefore(b, from)
    BY <1>0, <1>1 DEF RegistryInvariant, Plan
  <1>3. DoneBefore(b, upto)
    <2> SUFFICES ASSUME NEW i \in DOMAIN Program[b], i < upto PROVE Settled(Program[b][i])
      BY DEF DoneBefore
    <2>1. CASE i < from
      BY <1>2, <2>1 DEF DoneBefore
    <2>2. CASE from <= i
      <3>1. Program[b][i] \in Group(b)
        BY <1>0, <1>1, <2>2 DEF Group, Slice
      <3> QED
        BY <3>1 DEF GroupReturns, Settled
    <2> QED
      BY <1>0, <2>1, <2>2
  <1>4. PICK results : results = ResultsBefore(b, upto)
    OBVIOUS
  <1>5. results \in Seq(ResultCodes)
    BY <1>0, <1>1, <1>3, <1>4, ResultsTyped
  <1>6. run.results \o [i \in 1..(upto - from) |-> outcome[Program[b][from + i - 1]]] = results
    <2>1. upto \in from..(last + 1)
      BY <1>0, <1>1
    <2>2. ResultsBefore(b, from) \o [i \in 1..(upto - from) |-> outcome[Program[b][from + i - 1]]]
             = ResultsBefore(b, upto)
      BY <1>3, <2>1, ResultsContinue
    <2> QED
      BY <1>2, <1>4, <2>2, Zenon
  <1>7. ASSUME NEW pc \in {"single", "returned"},
               batch' = [batch EXCEPT ![b].pc = pc, ![b].results = results]
        PROVE  /\ BatchTypeOK'
               /\ \A d \in Batches \ {b} : batch'[d] = batch[d]
               /\ batch'[b].pc = pc /\ batch'[b].upto = upto /\ batch'[b].results = results
    BY <1>1, <1>5, <1>7 DEF RegistryInvariant, BatchTypeOK
  <1>8. CASE EndBatch(b, "cancelled")
    BY <1>0, <1>8, EndBatchStep
  <1>9. CASE /\ upto <= last
             /\ batch' = [batch EXCEPT ![b].pc = "single", ![b].results = results]
             /\ Execute(Program[b][upto])
    <2>1. /\ CallInvariant'
          /\ \A d \in Batches \ {b} : Plan(d)'
          /\ DoneBefore(b, upto)' /\ ~Unstarted(Program[b][upto])' /\ NotMadeFrom(b, upto + 1)'
          /\ ResultsBefore(b, upto)' = ResultsBefore(b, upto)
      <3>1. upto \in 1..last
        BY <1>0, <1>1, <1>9
      <3> QED
        BY <1>2, <1>3, <1>7, <1>9, <3>1, SingleStep
    <2>2. /\ batch'[b].pc = "single" /\ batch'[b].upto = upto /\ batch'[b].results = results
      BY <1>7, <1>9
    <2>3. results = [i \in 1..(upto - 1) |-> outcome'[Program[b][i]]]
      BY <1>4, <2>1 DEF ResultsBefore
    <2>4. 1 <= upto /\ upto <= last
      BY <1>0, <1>1, <1>9
    <2>5. Plan(b)'
      BY <1>2, <2>1, <2>2, <2>3, <2>4
         DEF Plan, DoneBefore, NotMadeFrom, ResultsBefore, Unstarted
    <2> QED
      BY <1>7, <1>9, <2>1, <2>5 DEF RegistryInvariant
  <1>10. CASE /\ upto = last + 1
              /\ batch' = [batch EXCEPT ![b].pc = "returned", ![b].results = results]
              /\ UNCHANGED <<gateVars, definitions, callVars, worker>>
    <2>1. CallInvariant'
      BY <1>10, QuietStep DEF RegistryInvariant, CallInvariant, CallTypeOK, callVars
    <2>2. \A d \in Batches \ {b} : Plan(d)'
      BY <1>7, <1>10, PlanUnchanged DEF RegistryInvariant, callVars
    <2>3. batch'[b].pc = "returned" /\ batch'[b].results = results
      BY <1>7, <1>10
    <2>4. DoneBefore(b, last + 1)' /\ ResultsBefore(b, last + 1)' = results
      BY <1>3, <1>4, <1>10 DEF DoneBefore, ResultsBefore, Settled, callVars
    <2>5. Plan(b)'
      BY <1>2, <2>3, <2>4 DEF Plan
    <2> QED
      BY <1>7, <1>10, <2>1, <2>2, <2>5 DEF RegistryInvariant
  <1> QED
    BY <1>1, <1>6, <1>8, <1>9, <1>10 DEF GroupReturns, Single

LEMMA SingleEndsStep ==
    ASSUME RegistryInvariant, NEW b \in Batches, SingleEnds(b)
    PROVE  RegistryInvariant'
  <1> DEFINE last == Len(Program[b])
             run == batch[b]
  <1>0. /\ last \in Nat
        /\ DOMAIN Program[b] = 1..last
        /\ \A i \in 1..last : Program[b][i] \in Calls
        /\ run.pc = "single" /\ run.upto \in Nat
    BY RegistryAssumption DEF SingleEnds, RegistryInvariant, BatchTypeOK
  <1>1. PICK k \in 1..last : k = run.upto
    BY <1>0 DEF RegistryInvariant, Plan
  <1>2. /\ Distinct(Program[b]) /\ DoneBefore(b, k) /\ NotMadeFrom(b, k + 1)
        /\ run.results = ResultsBefore(b, k)
    BY <1>0, <1>1 DEF RegistryInvariant, Plan
  <1>3. stage[Program[b][k]] = "done" /\ Program[b][k] \in Calls
    BY <1>0, <1>1 DEF SingleEnds, Single
  <1>4. CASE /\ outcome[Program[b][k]] \in ResultCodes
             /\ Proceed(b, k + 1, Append(run.results, outcome[Program[b][k]]))
    <2>1. k + 1 \in 1..(last + 1)
      BY <1>0
    <2>2. DoneBefore(b, k + 1)
      <3> SUFFICES ASSUME NEW i \in 1..last, i < k + 1 PROVE Settled(Program[b][i])
        BY <1>0 DEF DoneBefore
      <3>1. i < k \/ i = k
        BY <1>0
      <3> QED
        BY <1>0, <1>2, <1>3, <1>4, <3>1 DEF DoneBefore, Settled
    <2>3. Append(run.results, outcome[Program[b][k]]) = ResultsBefore(b, k + 1)
      <3> DEFINE code == outcome[Program[b][k]]
                 left == ResultsBefore(b, k)
                 all == ResultsBefore(b, k + 1)
      <3>1. left \in Seq(ResultCodes) /\ all \in Seq(ResultCodes) /\ code \in ResultCodes
        BY <1>0, <1>2, <1>4, <2>1, <2>2, ResultsTyped
      <3>2. k - 1 \in Nat /\ k + 1 - 1 = k
        BY <1>0
      <3>3. /\ Len(left) = k - 1
            /\ \A i \in 1..(k - 1) : left[i] = outcome[Program[b][i]]
        BY <3>1, <3>2 DEF ResultsBefore
      <3>4. /\ Len(all) = k
            /\ \A i \in 1..k : all[i] = outcome[Program[b][i]]
        BY <3>1, <3>2 DEF ResultsBefore
      <3> HIDE DEF left, all
      <3>5. Append(left, code) \in Seq(ResultCodes) /\ Len(Append(left, code)) = k
        BY <3>1, <3>2, <3>3
      <3>6. \A i \in 1..k : Append(left, code)[i] = all[i]
        BY <3>1, <3>2, <3>3, <3>4
      <3>7. Append(left, code) = all
        BY <3>1, <3>4, <3>5, <3>6, SeqEqual
      <3> QED
        BY <1>2, <3>7 DEF left, all
    <2> QED
      BY <1>2, <1>4, <2>1, <2>2, <2>3, ProceedStep
  <1>5. CASE /\ outcome[Program[b][k]] \notin ResultCodes
             /\ EndBatch(b, outcome[Program[b][k]])
    BY <1>0, <1>3, <1>5, DoneOutcome, EndBatchStep DEF RegistryInvariant
  <1> QED
    BY <1>1, <1>4, <1>5 DEF SingleEnds, Single

LEMMA CancelBatchStep ==
    ASSUME RegistryInvariant, NEW b \in Batches, CancelBatch(b)
    PROVE  RegistryInvariant'
  <1> DEFINE last == Len(Program[b])
             run == batch[b]
  <1>0. /\ last \in Nat
        /\ \A i \in 1..last : Program[b][i] \in Calls
        /\ run.from \in Nat /\ run.upto \in Nat
    BY RegistryAssumption DEF RegistryInvariant, BatchTypeOK
  <1>1. CASE /\ run.pc = "group"
             /\ batch' = [batch EXCEPT ![b].cancel = TRUE]
             /\ CancelTasks(Group(b))
    <2>1. Group(b) \in SUBSET Calls
      <3>1. 1 <= run.from /\ run.upto <= last + 1
        BY <1>1 DEF RegistryInvariant, Plan
      <3> QED
        BY <1>0, <3>1 DEF Group, Slice
    <2>2. CallInvariant' /\ UNCHANGED <<stage, outcome>>
      BY <1>1, <2>1, CancelTasksStep DEF RegistryInvariant
    <2>3. /\ BatchTypeOK'
          /\ \A d \in Batches \ {b} : batch'[d] = batch[d]
          /\ batch'[b].pc = "group" /\ batch'[b].from = run.from /\ batch'[b].upto = run.upto
          /\ batch'[b].results = run.results
      BY <1>1 DEF RegistryInvariant, BatchTypeOK
    <2>4. \A d \in Batches \ {b} : Plan(d)'
      BY <2>2, <2>3, PlanUnchanged DEF RegistryInvariant
    <2>5. Plan(b)'
      BY <1>1, <2>2, <2>3
         DEF RegistryInvariant, Plan, DoneBefore, NotMadeFrom, ResultsBefore, Settled
    <2> QED
      BY <2>2, <2>3, <2>4, <2>5 DEF RegistryInvariant
  <1>2. CASE /\ run.pc = "single"
             /\ CancelTasks({Single(b)})
             /\ UNCHANGED batch
    <2>1. {Single(b)} \in SUBSET Calls
      <3>1. 1 <= run.upto /\ run.upto <= last
        BY <1>2 DEF RegistryInvariant, Plan
      <3> QED
        BY <1>0, <3>1 DEF Single
    <2>2. CallInvariant' /\ UNCHANGED <<stage, outcome>>
      BY <1>2, <2>1, CancelTasksStep DEF RegistryInvariant
    <2> QED
      BY <1>2, <2>2, PlanUnchanged DEF RegistryInvariant, BatchTypeOK
  <1> QED
    BY <1>1, <1>2 DEF CancelBatch

-----------------------------------------------------------------------------
(* The invariant *)

(* At the beginning nothing was made.                                      *)
LEMMA RegistryInitially == RegistryInit => RegistryInvariant
  <1> SUFFICES ASSUME RegistryInit PROVE RegistryInvariant
    OBVIOUS
  <1>1. GateInvariant /\ Waiters = {} /\ inside = {}
    BY GateInvariantInductive DEF RegistryInit, GateInit, Waiters, Queued
  <1>2. \A c \in Calls : stage[c] = "idle" /\ outcome[c] = "none" /\ observed[c] = <<>>
    BY DEF RegistryInit
  <1>3. CallTypeOK
    BY RegistryAssumption DEF RegistryInit, CallTypeOK, Stages
  <1>4. BatchTypeOK
    <2>1. IdleBatch \in [pc : {"idle", "group", "single", "returned", "rejected", "raised",
                               "cancelled"},
                         from : Nat, upto : Nat, cancel : BOOLEAN, results : Seq(ResultCodes)]
      BY DEF IdleBatch
    <2> QED
      BY <2>1 DEF RegistryInit, BatchTypeOK
  <1>5. NoSlotLeak
    BY <1>1, <1>2 DEF NoSlotLeak, GateInvariant
  <1>6. \A c \in Calls : ObservedBy(c)
    BY <1>2 DEF ObservedBy
  <1>7. \A b \in Batches : \A i \in DOMAIN Program[b] : Program[b][i] \in Calls
    BY RegistryAssumption
  <1>8. BatchBarrier /\ \A b \in Batches : InOrder(b)
    BY <1>1, <1>2, <1>7 DEF BatchBarrier, InOrder, Unstarted
  <1>9. ASSUME NEW b \in Batches PROVE Plan(b)
    <2>1. batch[b].pc = "idle"
      BY DEF RegistryInit, IdleBatch
    <2> QED
      BY <1>2, <1>7, <2>1 DEF Plan, NotMadeFrom
  <1> QED
    BY <1>1, <1>3, <1>4, <1>5, <1>6, <1>8, <1>9 DEF RegistryInvariant, CallInvariant

(* A step of a call that belongs to no batch, or was made by its batch.    *)
LEMMA CallStepKeepsPlans ==
    ASSUME RegistryInvariant, NEW c \in Calls, CallInvariant', Advances(c), UNCHANGED batch,
           stage[c] # "idle" \/ c \in DirectCalls
    PROVE  RegistryInvariant'
  <1>1. ASSUME NEW b \in Batches PROVE Plan(b)'
    <2>1. c \in Queued(Program[b]) => stage[c] # "idle"
      BY RegistryAssumption
    <2> QED
      BY <2>1, PlanKept DEF RegistryInvariant
  <1> QED
    BY <1>1 DEF RegistryInvariant, BatchTypeOK

LEMMA StillStep ==
    ASSUME RegistryInvariant, CallInvariant', UNCHANGED <<stage, outcome, batch>>
    PROVE  RegistryInvariant'
  BY PlanUnchanged DEF RegistryInvariant, BatchTypeOK

LEMMA TaskStep == RegistryInvariant /\ TaskNext => RegistryInvariant'
  <1> SUFFICES ASSUME RegistryInvariant, TaskNext PROVE RegistryInvariant'
    OBVIOUS
  <1> USE DEF RegistryInvariant
  <1>1. ASSUME NEW t \in Tools, Register(t) PROVE RegistryInvariant'
    <2>1. CallInvariant'
      BY <1>1, QuietStep DEF Register, CallInvariant, CallTypeOK, callVars
    <2> QED
      BY <1>1, <2>1, StillStep DEF Register, callVars
  <1>2. ASSUME NEW c \in Calls, ExecuteDirect(c) PROVE RegistryInvariant'
    <2>1. MayStart(c)
      BY <1>2, RegistryAssumption DEF ExecuteDirect, MayStart, Queued
    <2>2. CallInvariant' /\ Advances(c)
      BY <1>2, <2>1, ExecuteStep DEF ExecuteDirect, Unstarted
    <2> QED
      BY <1>2, <2>2, CallStepKeepsPlans DEF ExecuteDirect
  <1>3. ASSUME NEW c \in Calls, CallStep(c) PROVE RegistryInvariant'
    <2>1. CallInvariant' /\ Advances(c)
      BY <1>3, ResumeStep, AbandonGateStep, BodyInterruptedStep, ObserverEndsStep DEF CallStep
    <2>2. stage[c] # "idle"
      <3>1. CASE c \in Waiters
        BY <3>1 DEF CallInvariant, NoSlotLeak
      <3>2. CASE c \notin Waiters
        BY <1>3, <3>2 DEF CallStep, Resume, Recheck, AbandonGate, Abandon, BodyInterrupted,
                          ObserverEnds, CallInvariant, GateInvariant, GateTypeOK
      <3> QED
        BY <3>1, <3>2
    <2>3. UNCHANGED batch
      BY <1>3 DEF CallStep, Resume, AbandonGate, BodyInterrupted, ObserverEnds
    <2> QED
      BY <2>1, <2>2, <2>3, CallStepKeepsPlans
  <1>4. ASSUME NEW c \in Calls, Deadline(c) PROVE RegistryInvariant'
    <2>1. CallInvariant'
      BY <1>4, QuietStep DEF Deadline, CallInvariant, CallTypeOK
    <2> QED
      BY <1>4, <2>1, StillStep DEF Deadline
  <1>5. ASSUME NEW c \in Calls, CancelDirect(c) PROVE RegistryInvariant'
    BY <1>5, CancelTasksStep, StillStep DEF CancelDirect
  <1>6. ASSUME NEW b \in Batches, BatchStep(b) PROVE RegistryInvariant'
    BY <1>6, StartChildStep, GroupRaisesStep, GroupReturnsStep, SingleEndsStep DEF BatchStep
  <1> QED
    BY <1>1, <1>2, <1>3, <1>4, <1>5, <1>6, ExecuteManyStep, CancelBatchStep DEF TaskNext

LEMMA BodyStep ==
    ASSUME RegistryInvariant, NEW c \in Calls, BodyEnds(c)
    PROVE  RegistryInvariant'
  BY BodyEndsStep, CallStepKeepsPlans DEF RegistryInvariant, BodyEnds

(* For the built-in tools, whose functions run in threads (FileTools). *)
LEMMA WorkerKeepsInvariant ==
    ASSUME RegistryInvariant, NEW c \in Calls, WorkerStep(c)
    PROVE  RegistryInvariant'
  <1>1. CallInvariant'
    BY QuietStep DEF RegistryInvariant, WorkerStep, CallInvariant, CallTypeOK, callVars
  <1> QED
    BY <1>1, StillStep DEF WorkerStep, callVars

LEMMA RegistryStutter ==
    ASSUME RegistryInvariant, UNCHANGED registryVars
    PROVE  RegistryInvariant'
  <1>1. CallInvariant'
    BY QuietStep DEF RegistryInvariant, registryVars, CallInvariant, CallTypeOK, callVars
  <1> QED
    BY <1>1, StillStep DEF registryVars, callVars

LEMMA RegistryInvariantInductive ==
    RegistryInvariant /\ [RegistryNext]_registryVars => RegistryInvariant'
  BY TaskStep, BodyStep, RegistryStutter DEF RegistryNext

(* The invariant of the registry holds in every reachable state. *)
THEOREM RegistryInvariance == RegistrySpec => []RegistryInvariant
  BY RegistryInitially, RegistryInvariantInductive, PTL DEF RegistrySpec

(* The registry's variables have their types. *)
THEOREM RegistryTypeCorrectness == RegistrySpec => []RegistryTypeOK
  <1>1. RegistryInvariant => RegistryTypeOK
    BY DEF RegistryInvariant, CallInvariant, GateInvariant, RegistryTypeOK
  <1> QED
    BY <1>1, RegistryInvariance, PTL

(* No end of a call, and no failure of a batch, leaves a slot of the gate  *)
(* or a place in its queue behind.                                         *)
THEOREM RegistryNoSlotLeak == RegistrySpec => []NoSlotLeak
  <1>1. RegistryInvariant => NoSlotLeak
    BY DEF RegistryInvariant, CallInvariant
  <1> QED
    BY <1>1, RegistryInvariance, PTL

(* The calls of the registry use the gate as its clients should, so that   *)
(* what the gate promises of any calls holds of the registry's.            *)
THEOREM RegistryExclusion == RegistrySpec => [](Exclusion /\ NoLostWakeup)
  <1>1. RegistryInvariant => Exclusion /\ NoLostWakeup
    BY DEF RegistryInvariant, CallInvariant, GateInvariant
  <1> QED
    BY <1>1, RegistryInvariance, PTL

(* An exclusive call of a batch runs between the calls before and the      *)
(* calls after it, whatever the tools are and whenever they are registered.*)
THEOREM RegistryBatchBarrier == RegistrySpec => []BatchBarrier
  <1>1. RegistryInvariant => BatchBarrier
    BY DEF RegistryInvariant, CallInvariant
  <1> QED
    BY <1>1, RegistryInvariance, PTL

(* A batch that returns has the results of all its calls in order, and     *)
(* none of them still runs.                                                *)
THEOREM RegistryResultsInOrder == RegistrySpec => []ResultsInOrder
  <1>1. ASSUME RegistryInvariant PROVE ResultsInOrder
    <2> SUFFICES ASSUME NEW b \in Batches, batch[b].pc = "returned"
                 PROVE  /\ batch[b].results = [i \in DOMAIN Program[b] |-> outcome[Program[b][i]]]
                        /\ \A i \in DOMAIN Program[b] : stage[Program[b][i]] = "done"
      BY DEF ResultsInOrder
    <2>1. /\ DoneBefore(b, Len(Program[b]) + 1)
          /\ batch[b].results = ResultsBefore(b, Len(Program[b]) + 1)
      BY <1>1 DEF RegistryInvariant, Plan
    <2>2. /\ DOMAIN Program[b] = 1..Len(Program[b]) /\ Len(Program[b]) \in Nat
          /\ Len(Program[b]) + 1 - 1 = Len(Program[b])
      BY RegistryAssumption
    <2> QED
      BY <2>1, <2>2 DEF ResultsBefore, DoneBefore, Settled
  <1> QED
    BY <1>1, RegistryInvariance, PTL

(* The observer gets the result that execute() returns, once. *)
THEOREM RegistryObservedOnce == RegistrySpec => []ObservedOnce
  <1>1. ASSUME RegistryInvariant PROVE ObservedOnce
    <2> SUFFICES ASSUME NEW c \in Calls
                 PROVE  /\ Len(observed[c]) <= 1
                        /\ outcome[c] \in ResultCodes => observed[c] = <<outcome[c]>>
                        /\ outcome[c] = "raised" => observed[c] = <<>>
      BY DEF ObservedOnce
    <2>1. ObservedBy(c) /\ stage[c] \in Stages
      BY <1>1 DEF RegistryInvariant, CallInvariant, CallTypeOK
    <2>2. Len(<<>>) = 0 /\ Len(<<outcome[c]>>) = 1 /\ \A n \in {0, 1} : n <= 1
      OBVIOUS
    <2>3. Len(observed[c]) \in {0, 1} \/ Len(observed[c]) <= 1
      BY <2>1, <2>2, Zenon DEF ObservedBy, Stages
    <2>4. Len(observed[c]) <= 1
      BY <2>2, <2>3, Zenon
    <2> QED
      BY <2>1, <2>4 DEF ObservedBy, Stages, ResultCodes
  <1> QED
    BY <1>1, RegistryInvariance, PTL

-----------------------------------------------------------------------------
(* The file tools *)

(* A function that opened its file, and may be through with it. *)
Opened(c) == status[c] \in {"opened", "ok", "broken"}

(* What a writer that was alone with its file has written so far. *)
Written(c) == [i \in 1..at[c] |-> c]

(* The worker thread of a call comes with its body, and the function does  *)
(* nothing before it runs.                                                 *)
ThreadOf(c) ==
    /\ stage[c] \in {"idle", "spawned", "waiting"} => worker[c] = "none"
    /\ stage[c] = "body" /\ c \in ThreadedCalls => worker[c] # "none"
    /\ c \notin ThreadedCalls => worker[c] = "none"
    /\ worker[c] = "queued" => stage[c] = "body"
    /\ worker[c] \in {"none", "queued"} => status[c] = "none"
    /\ status[c] = "none" => at[c] = 0 /\ seen[c] = <<>>
    /\ Opened(c) => ~args[c].escapes
    /\ c \in Writers /\ status[c] = "ok" => at[c] = args[c].blocks

(* No call asked to overwrite the file, or none did so in vain. *)
NeverOverwritten(p) ==
    \A w \in Writers : args[w].act = "overwrite" /\ args[w].path = p
                         => status[w] \in {"none", "failed"}

(* A file that a call opened is there to stay; only one call creates it,   *)
(* and has it for itself if none overwrites it.                            *)
Creation ==
    /\ \A c \in Calls : args[c].act # "list" /\ Opened(c) => disk[args[c].path] # Absent
    /\ \A w \in Writers : args[w].act = "create" /\ Opened(w) =>
          /\ \A v \in Writers : args[v].act = "create" /\ args[v].path = args[w].path
                                  /\ Opened(v) => v = w
          /\ NeverOverwritten(args[w].path) => disk[args[w].path] = Written(w)

(* No write of the file outlived its call, and none failed half way. *)
Orderly(p) ==
    \A w \in Writers : args[w].path = p => ~Strayed(w) /\ status[w] # "broken"

(* What a read has of its file so far, if the file stays as it is. *)
ReadSoFar(c) ==
    LET content == disk[args[c].path] IN
    /\ status[c] \in {"opened", "ok"} => content # Absent /\ Len(content) <= MaxRead
    /\ status[c] = "opened" => at[c] <= Len(content) /\ seen[c] = SubSeq(content, 1, at[c])
    /\ status[c] = "ok" => seen[c] = content

(* A file is as its writer left it so far, or whole if there is none, and  *)
(* the reads whose calls are in their bodies see it as it is.              *)
Atomic(p) ==
    /\ \A w \in Writers : args[w].path = p /\ status[w] = "opened" => disk[p] = Written(w)
    /\ (\A w \in Writers : args[w].path = p => status[w] # "opened") => Whole(p)
    /\ \A c \in inside : args[c].path = p /\ args[c].act = "read" => ReadSoFar(c)

FilesInvariant ==
    /\ RegistryInvariant
    /\ FilesTypeOK
    /\ \A c \in Calls : ThreadOf(c)
    /\ Creation
    /\ \A p \in Paths : Orderly(p) => Atomic(p)

-----------------------------------------------------------------------------
(* Threads and calls *)

(* A call goes forward, and its thread comes and goes with its body. *)
Follows(c) ==
    /\ PastBody(c) => PastBody(c)'
    /\ stage[c] = "body" => stage'[c] = "body" \/ PastBody(c)'
    /\ worker'[c] = IF stage'[c] = "body" /\ stage[c] # "body" /\ c \in ThreadedCalls THEN "queued"
                    ELSE IF stage'[c] # "body" /\ worker[c] = "queued" THEN "none"
                    ELSE worker[c]

LEMMA StillFollows ==
    ASSUME UNCHANGED <<stage, worker>>, \A c \in Calls : ThreadOf(c)
    PROVE  \A c \in Calls : Follows(c)
  BY DEF Follows, PastBody, ThreadOf

LEMMA ExecuteFollows ==
    ASSUME CallInvariant, \A d \in Calls : ThreadOf(d), NEW c \in Calls, Unstarted(c), Execute(c)
    PROVE  \A d \in Calls : Follows(d)
  <1> USE DEF CallInvariant, CallTypeOK
  <1>1. ASSUME NEW next \in {"observing", "done"},
               stage' = [stage EXCEPT ![c] = next], UNCHANGED worker
        PROVE  \A d \in Calls : Follows(d)
    BY <1>1 DEF Follows, PastBody, Unstarted, ThreadOf
  <1>2. ASSUME BodyIfEntered(c)
        PROVE  \A d \in Calls : Follows(d)
    BY <1>2 DEF BodyIfEntered, BeginBody, Follows, PastBody, Unstarted, ThreadOf
  <1> QED
    BY <1>1, <1>2 DEF Execute, Observe, Raise

LEMMA CallFollows ==
    ASSUME CallInvariant, \A d \in Calls : ThreadOf(d), NEW c \in Calls, CallStep(c)
    PROVE  \A d \in Calls : Follows(d)
  <1> USE DEF CallInvariant, CallTypeOK
  <1>1. CASE Resume(c)
    <2>1. c \in Waiters
      BY <1>1 DEF Resume, Recheck, GateInvariant, GateTypeOK
    <2>2. stage[c] = "waiting"
      BY <2>1 DEF NoSlotLeak
    <2> QED
      BY <1>1, <2>2 DEF Resume, BodyIfEntered, BeginBody, Follows, PastBody, ThreadOf
  <1>2. CASE AbandonGate(c)
    <2>1. c \in Waiters
      BY <1>2 DEF AbandonGate, Abandon, GateInvariant, GateTypeOK
    <2>2. stage[c] = "waiting"
      BY <2>1 DEF NoSlotLeak
    <2> QED
      BY <1>2, <2>2 DEF AbandonGate, Raise, Follows, PastBody, ThreadOf
  <1>3. CASE BodyInterrupted(c)
    <2>1. PICK next \in {"observing", "done"} : stage' = [stage EXCEPT ![c] = next]
      BY <1>3 DEF BodyInterrupted, Observe, Raise
    <2> QED
      BY <1>3, <2>1 DEF BodyInterrupted, Follows, PastBody, ThreadOf
  <1>4. CASE ObserverEnds(c)
    BY <1>4 DEF ObserverEnds, Raise, Follows, PastBody, ThreadOf
  <1> QED
    BY <1>1, <1>2, <1>3, <1>4 DEF CallStep

LEMMA ProceedFollows ==
    ASSUME RegistryInvariant, \A d \in Calls : ThreadOf(d), NEW b \in Batches,
           NEW from \in 1..(Len(Program[b]) + 1), NEW results,
           NotMadeFrom(b, from), Proceed(b, from, results)
    PROVE  \A d \in Calls : Follows(d)
  <1> USE DEF RegistryInvariant, CallInvariant, CallTypeOK
  <1> DEFINE upto == NextExclusive(b, from)
  <1>1. upto \in from..(Len(Program[b]) + 1)
    BY NextExclusiveFound
  <1>2. /\ Program[b] \in Seq(Calls) /\ Len(Program[b]) \in Nat
        /\ DOMAIN Program[b] = 1..Len(Program[b])
    BY RegistryAssumption
  <1> HIDE DEF upto
  <1>3. ASSUME stage' = [c \in Calls |-> IF c \in Slice(b, from, upto) THEN "spawned" ELSE stage[c]],
               UNCHANGED worker
        PROVE  \A d \in Calls : Follows(d)
    <2>1. \A i \in from..(upto - 1) : i \in DOMAIN Program[b] /\ i >= from
      BY <1>1, <1>2
    <2>2. \A c \in Slice(b, from, upto) : stage[c] = "idle"
      BY <2>1 DEF Slice, NotMadeFrom
    <2> QED
      BY <1>3, <2>2 DEF Follows, PastBody, ThreadOf
  <1>4. ASSUME from = upto, upto <= Len(Program[b]), Execute(Program[b][upto])
        PROVE  \A d \in Calls : Follows(d)
    <2>1. upto \in DOMAIN Program[b]
      BY <1>1, <1>2, <1>4
    <2>2. Program[b][upto] \in Calls /\ Unstarted(Program[b][upto])
      BY <1>1, <1>2, <1>4, <2>1 DEF NotMadeFrom, Unstarted
    <2> QED
      BY <1>4, <2>2, ExecuteFollows
  <1>5. CASE UNCHANGED callVars /\ UNCHANGED worker
    BY <1>5, StillFollows DEF callVars
  <1> QED
    BY <1>3, <1>4, <1>5 DEF Proceed, upto

LEMMA BatchFollows ==
    ASSUME RegistryInvariant, \A d \in Calls : ThreadOf(d), NEW b \in Batches,
           ExecuteMany(b) \/ BatchStep(b) \/ CancelBatch(b)
    PROVE  \A d \in Calls : Follows(d)
  <1> USE DEF RegistryInvariant, CallInvariant, CallTypeOK
  <1>0. /\ Program[b] \in Seq(Calls) /\ Len(Program[b]) \in Nat
        /\ DOMAIN Program[b] = 1..Len(Program[b])
    BY RegistryAssumption
  <1>1. CASE ExecuteMany(b)
    <2>1. CASE Proceed(b, 1, <<>>)
      <3>1. NotMadeFrom(b, 1)
        BY <1>1 DEF ExecuteMany, Plan
      <3>2. 1 \in 1..(Len(Program[b]) + 1)
        BY <1>0
      <3> QED
        BY <2>1, <3>1, <3>2, ProceedFollows
    <2> QED
      BY <1>1, <2>1, StillFollows DEF ExecuteMany, callVars
  <1>2. CASE StartChild(b)
    <2>1. PICK i \in DOMAIN Program[b] :
              /\ stage[Program[b][i]] = "spawned"
              /\ \/ Execute(Program[b][i])
                 \/ Raise(Program[b][i], "cancelled") /\ UNCHANGED worker
      BY <1>2 DEF StartChild
    <2>2. Program[b][i] \in Calls
      BY <1>0
    <2>3. CASE Execute(Program[b][i])
      BY <2>1, <2>2, <2>3, ExecuteFollows DEF Unstarted
    <2>4. CASE Raise(Program[b][i], "cancelled") /\ UNCHANGED worker
      BY <2>1, <2>2, <2>4 DEF Raise, Follows, PastBody, ThreadOf
    <2> QED
      BY <2>1, <2>3, <2>4
  <1>3. CASE GroupReturns(b)
    <2>1. ASSUME batch[b].upto <= Len(Program[b]), Execute(Single(b))
          PROVE  \A d \in Calls : Follows(d)
      <3>1. /\ batch[b].from \in Nat /\ batch[b].upto \in Nat
            /\ 1 <= batch[b].from /\ batch[b].from < batch[b].upto
            /\ NotMadeFrom(b, batch[b].upto)
        BY <1>3 DEF GroupReturns, Plan, BatchTypeOK
      <3>2. batch[b].upto \in DOMAIN Program[b]
        BY <1>0, <2>1, <3>1
      <3>3. Single(b) \in Calls /\ Unstarted(Single(b))
        BY <1>0, <3>1, <3>2 DEF Single, NotMadeFrom, Unstarted
      <3> QED
        BY <2>1, <3>3, ExecuteFollows
    <2> QED
      BY <1>3, <2>1, StillFollows DEF GroupReturns, EndBatch, callVars
  <1>4. CASE SingleEnds(b)
    <2>1. ASSUME NEW results, Proceed(b, batch[b].upto + 1, results)
          PROVE  \A d \in Calls : Follows(d)
      <3>1. /\ batch[b].upto \in Nat /\ 1 <= batch[b].upto /\ batch[b].upto <= Len(Program[b])
            /\ NotMadeFrom(b, batch[b].upto + 1)
        BY <1>4 DEF SingleEnds, Plan, BatchTypeOK
      <3>2. batch[b].upto + 1 \in 1..(Len(Program[b]) + 1)
        BY <1>0, <3>1
      <3> QED
        BY <2>1, <3>1, <3>2, ProceedFollows
    <2> QED
      BY <1>4, <2>1, StillFollows DEF SingleEnds, EndBatch, callVars
  <1>5. CASE GroupRaises(b) \/ CancelBatch(b)
    BY <1>5, StillFollows DEF GroupRaises, EndBatch, CancelBatch, CancelTasks, callVars
  <1> QED
    BY <1>1, <1>2, <1>3, <1>4, <1>5 DEF BatchStep

LEMMA TaskFollows ==
    ASSUME RegistryInvariant, \A d \in Calls : ThreadOf(d), TaskNext
    PROVE  \A d \in Calls : Follows(d)
  <1>1. ASSUME NEW c \in Calls, ExecuteDirect(c) PROVE \A d \in Calls : Follows(d)
    BY <1>1, ExecuteFollows DEF ExecuteDirect, Unstarted, RegistryInvariant
  <1>2. ASSUME NEW c \in Calls, CallStep(c) PROVE \A d \in Calls : Follows(d)
    BY <1>2, CallFollows DEF RegistryInvariant
  <1>3. ASSUME NEW c \in Calls, Deadline(c) \/ CancelDirect(c)
        PROVE  \A d \in Calls : Follows(d)
    BY <1>3, StillFollows DEF Deadline, CancelDirect, CancelTasks
  <1>4. ASSUME NEW t \in Tools, Register(t) PROVE \A d \in Calls : Follows(d)
    BY <1>4, StillFollows DEF Register, callVars
  <1> QED
    BY <1>1, <1>2, <1>3, <1>4, BatchFollows DEF TaskNext

LEMMA BodyFollows ==
    ASSUME RegistryInvariant, \A d \in Calls : ThreadOf(d), NEW c \in Calls, BodyEnds(c)
    PROVE  \A d \in Calls : Follows(d)
  <1>1. PICK next \in {"observing", "done"} : stage' = [stage EXCEPT ![c] = next]
    BY DEF BodyEnds, Observe, Raise
  <1>2. worker[c] # "queued"
    BY DEF BodyEnds, ThreadOf
  <1> QED
    BY <1>1, <1>2 DEF BodyEnds, Follows, PastBody, ThreadOf, RegistryInvariant, CallInvariant,
                      CallTypeOK

-----------------------------------------------------------------------------
(* Steps of the registry *)

(* While no function runs the files stay, and a call that enters its body  *)
(* starts afresh.                                                          *)
LEMMA FollowingKeepsFiles ==
    ASSUME FilesInvariant, RegistryInvariant', \A c \in Calls : Follows(c), UNCHANGED fileVars
    PROVE  FilesInvariant'
  <1> USE DEF FilesInvariant, fileVars, ioVars
  <1>0. /\ \A c \in Calls : worker[c] \in {"none", "queued", "running", "finished"}
        /\ \A c \in Calls : stage[c] \in Stages /\ stage'[c] \in Stages
        /\ \A c \in Calls : c \in inside <=> stage[c] = "body"
        /\ \A c \in Calls : c \in inside' <=> stage'[c] = "body"
        /\ inside' \subseteq Calls
    BY DEF RegistryInvariant, CallInvariant, CallTypeOK, NoSlotLeak, GateInvariant, GateTypeOK
  <1>1. UNCHANGED Writers
    BY DEF Writers
  <1>2. \A c \in Calls : ThreadOf(c)'
    BY <1>0, <1>1 DEF ThreadOf, Follows, PastBody, Opened, Stages
  <1>3. FilesTypeOK'
    <2>1. RegistryTypeOK'
      BY DEF RegistryInvariant, CallInvariant, GateInvariant, RegistryTypeOK
    <2>2. \A c \in Calls : (worker'[c] = "finished") <=> (worker[c] = "finished")
      BY <1>0 DEF ThreadOf, Follows, FilesTypeOK, PastBody, Stages
    <2> QED
      BY <1>1, <2>1, <2>2 DEF FilesTypeOK
  <1>4. Creation'
    BY <1>1 DEF Creation, NeverOverwritten, Opened, Written
  <1>5. ASSUME NEW c \in Calls, Strayed(c) PROVE Strayed(c)'
    BY <1>0, <1>5 DEF Strayed, Follows, PastBody, ThreadOf, Stages
  <1>6. ASSUME NEW p \in Paths, Orderly(p)' PROVE Atomic(p)'
    <2>1. Orderly(p)
      BY <1>1, <1>5, <1>6 DEF Orderly, Writers
    <2>2. Atomic(p)
      BY <2>1
    <2>3. UNCHANGED Whole(p)
      BY <1>1 DEF Whole, Content
    <2>4. \A c \in inside' : c \in inside \/ status[c] = "none"
      BY <1>0, <1>2 DEF Follows, ThreadOf
    <2> QED
      BY <1>1, <2>2, <2>3, <2>4 DEF Atomic, Written, ReadSoFar
  <1> QED
    BY <1>2, <1>3, <1>4, <1>6

-----------------------------------------------------------------------------
(* Steps of a function *)

(* What every step of the function of a call leaves alone. *)
Frame(c) ==
    /\ RegistryInvariant'
    /\ UNCHANGED <<args, stage, inside>>
    /\ \A d \in Calls \ {c} :
          /\ worker'[d] = worker[d] /\ status'[d] = status[d]
          /\ at'[d] = at[d] /\ seen'[d] = seen[d]
          /\ d \in late' <=> d \in late
    /\ worker[c] \in {"queued", "running"} /\ worker'[c] \in {"running", "finished"}
    /\ status[c] \in {"none", "opened"}
    /\ Strayed(c) \/ (worker[c] = "running" /\ stage[c] # "body") => Strayed(c)'
    /\ status' \in [Calls -> {"none", "opened", "ok", "truncated", "failed", "broken"}]
    /\ worker'[c] = "finished" <=> status'[c] \notin {"none", "opened"}
    /\ at' \in [Calls -> Nat]
    /\ DOMAIN seen' = Calls
    /\ late' \subseteq Calls

(* The invariant of the registry gives what the file tools rest on. *)
LEMMA FilesUse ==
    ASSUME FilesInvariant
    PROVE  /\ worker \in [Calls -> {"none", "queued", "running", "finished"}]
           /\ stage \in [Calls -> Stages]
           /\ inside = {c \in Calls : stage[c] = "body"}
           /\ \A c \in inside \ SafeCalls : inside = {c}
           /\ \A c \in Calls : /\ args[c] \in Requests
                               /\ args[c].path \in Paths /\ args[c].path \in Nat
                               /\ args[c].blocks \in Nat
                               /\ c \in SafeCalls <=> args[c].act \notin Writing
           /\ Writers = Calls \ SafeCalls
  <1> USE DEF FilesInvariant
  <1>1. ASSUME NEW c \in Calls
        PROVE  /\ args[c] \in Requests
               /\ args[c].path \in Paths /\ args[c].path \in Nat
               /\ args[c].blocks \in Nat
               /\ c \in SafeCalls <=> args[c].act \notin Writing
    <2>1. args[c] \in Arguments[c] /\ Arguments[c] \in SUBSET Requests
      BY FilesAssumption DEF FilesTypeOK
    <2>2. args[c] \in Requests
      BY <2>1
    <2>3. args[c].path \in Paths
      BY <2>1 DEF Paths
    <2>4. c \in SafeCalls <=> args[c].act \notin Writing
      BY <2>1, FilesAssumption
    <2> QED
      BY <2>2, <2>3, <2>4 DEF Requests
  <1>2. Writers = Calls \ SafeCalls
    BY <1>1 DEF Writers
  <1> QED
    BY <1>1, <1>2 DEF RegistryInvariant, CallInvariant, CallTypeOK, NoSlotLeak, GateInvariant,
                      Exclusion

LEMMA ReturnFrame ==
    ASSUME FilesInvariant, NEW c \in Calls, worker[c] = "running",
           NEW how \in {"ok", "truncated", "failed", "broken"}, Return(c, how),
           UNCHANGED <<args, at>>, DOMAIN seen' = Calls,
           \A d \in Calls \ {c} : seen'[d] = seen[d]
    PROVE  Frame(c) /\ status' = [status EXCEPT ![c] = how]
  <1>1. RegistryInvariant'
    BY WorkerKeepsInvariant DEF Return, FilesInvariant
  <1>2. status[c] \in {"none", "opened"}
    BY DEF FilesInvariant, FilesTypeOK
  <1>3. /\ worker' = [worker EXCEPT ![c] = "finished"]
        /\ UNCHANGED <<stage, inside>>
    BY DEF Return, WorkerStep, gateVars, callVars
  <1>4. /\ status' = [status EXCEPT ![c] = how]
        /\ late' = IF stage[c] = "body" THEN late ELSE late \cup {c}
    BY DEF Return
  <1>5. Strayed(c) \/ (worker[c] = "running" /\ stage[c] # "body") => Strayed(c)'
    BY <1>4 DEF Strayed
  <1> QED
    BY <1>1, <1>2, <1>3, <1>4, <1>5, FilesUse DEF Frame, FilesInvariant, FilesTypeOK

LEMMA ContinueFrame ==
    ASSUME FilesInvariant, NEW c \in Calls, worker[c] = "running", status[c] \in {"none", "opened"},
           status' = [status EXCEPT ![c] = "opened"],
           UNCHANGED <<registryVars, late, args>>, at' \in [Calls -> Nat], DOMAIN seen' = Calls,
           \A d \in Calls \ {c} : seen'[d] = seen[d] /\ at'[d] = at[d]
    PROVE  Frame(c)
  <1>1. RegistryInvariant'
    BY RegistryStutter DEF FilesInvariant
  <1>2. UNCHANGED <<stage, inside, worker>>
    BY DEF registryVars, gateVars, callVars
  <1>3. Strayed(c) \/ (worker[c] = "running" /\ stage[c] # "body") => Strayed(c)'
    BY <1>2 DEF Strayed
  <1> QED
    BY <1>1, <1>2, <1>3, FilesUse DEF Frame, FilesInvariant, FilesTypeOK

(* The parts of the invariant that each step keeps. *)
LEMMA FrameKeeps ==
    ASSUME FilesInvariant, NEW c \in Calls, Frame(c)
    PROVE  /\ UNCHANGED Writers
           /\ \A d \in Calls \ {c} : ThreadOf(d)'
           /\ \A p \in Paths : Orderly(p)' => Orderly(p) /\ Atomic(p)
           /\ \A p \in Paths : Orderly(p)' /\ c \in Writers /\ args[c].path = p
                                 /\ worker[c] = "running" => inside = {c}
           /\ \A d \in Calls : d \in Writers /\ status[d] = "opened" /\ ~Strayed(d)
                                 => inside = {d}
           /\ FilesTypeOK' <=>
                 /\ disk' \in [Paths -> {Absent} \cup Seq(Writers \cup {"original", "hole"})]
                 /\ seen'[c] \in IF args[c].act = "list" THEN Seq(Paths)
                                 ELSE Seq(Writers \cup {"original", "hole"})
  <1> USE DEF FilesInvariant
  <1>1. UNCHANGED Writers /\ Writers \subseteq Calls
    BY DEF Frame, Writers
  <1>2. ASSUME NEW d \in Calls \ {c} PROVE ThreadOf(d)' /\ (Strayed(d) <=> Strayed(d)')
    <2>1. ThreadOf(d)
      OBVIOUS
    <2> QED
      BY <1>1, <2>1 DEF ThreadOf, Frame, Opened, Strayed
  <1>3. Strayed(c) => Strayed(c)'
    BY DEF Frame
  <1>4. ASSUME NEW p \in Paths, Orderly(p)' PROVE Orderly(p) /\ Atomic(p)
    <2>1. ASSUME NEW w \in Writers, args[w].path = p PROVE ~Strayed(w) /\ status[w] # "broken"
      BY <1>1, <1>2, <1>3, <1>4, <2>1 DEF Orderly, Frame
    <2> QED
      BY <2>1 DEF Orderly
  <1>5. ASSUME NEW p \in Paths, Orderly(p)', c \in Writers, args[c].path = p,
               worker[c] = "running"
        PROVE  inside = {c}
    <2>1. ~Strayed(c)'
      BY <1>1, <1>5 DEF Orderly, Frame
    <2>2. stage[c] = "body"
      BY <1>5, <2>1 DEF Frame
    <2> QED
      BY <1>5, <2>2, FilesUse
  <1>6. ASSUME NEW d \in Writers, status[d] = "opened", ~Strayed(d)
        PROVE  inside = {d}
    <2>1. worker[d] = "running"
      BY <1>1, <1>6, FilesUse DEF FilesTypeOK, ThreadOf
    <2> QED
      BY <1>1, <1>6, <2>1, FilesUse DEF Strayed
  <1>7. FilesTypeOK' <=>
            /\ disk' \in [Paths -> {Absent} \cup Seq(Writers \cup {"original", "hole"})]
            /\ seen'[c] \in IF args[c].act = "list" THEN Seq(Paths)
                            ELSE Seq(Writers \cup {"original", "hole"})
    <2>1. RegistryTypeOK'
      BY DEF Frame, RegistryInvariant, CallInvariant, GateInvariant, RegistryTypeOK
    <2>2. \A d \in Calls \ {c} :
              seen'[d] \in IF args'[d].act = "list" THEN Seq(Paths)
                           ELSE Seq(Writers \cup {"original", "hole"})
      BY DEF Frame, FilesTypeOK
    <2>3. \A d \in Calls : (worker'[d] = "finished") <=> (status'[d] \notin {"none", "opened"})
      BY DEF Frame, FilesTypeOK
    <2> QED
      BY <1>1, <2>1, <2>2, <2>3 DEF Frame, FilesTypeOK
  <1> QED
    BY <1>1, <1>2, <1>4, <1>5, <1>6, <1>7

(* A step that leaves the files alone: what is left to show is about the   *)
(* call itself.                                                            *)
LEMMA QuietKept ==
    ASSUME FilesInvariant, NEW c \in Calls, Frame(c), UNCHANGED disk, ThreadOf(c)',
           seen'[c] \in IF args[c].act = "list" THEN Seq(Paths)
                        ELSE Seq(Writers \cup {"original", "hole"}),
           args[c].act = "read" /\ Opened(c)' => disk[args[c].path] # Absent,
           args[c].act = "read" /\ Orderly(args[c].path) /\ Atomic(args[c].path) /\ c \in inside
              => ReadSoFar(c)',
           c \in Writers => /\ at'[c] = at[c]
                            /\ Opened(c)' => Opened(c)
                            /\ status'[c] = "opened" => status[c] = "opened"
                            /\ status'[c] # "truncated"
                            /\ status'[c] \in {"none", "failed"} => status[c] = "none"
                            /\ status'[c] = "ok" => status[c] = "opened" /\ at[c] = args[c].blocks
    PROVE  FilesInvariant'
  <1> USE DEF FilesInvariant
  <1>1. /\ UNCHANGED Writers /\ Writers \subseteq Calls
        /\ \A d \in Calls \ {c} : ThreadOf(d)'
        /\ \A p \in Paths : Orderly(p)' => Orderly(p) /\ Atomic(p)
    BY FrameKeeps DEF Writers
  <1>2. FilesTypeOK'
    BY FrameKeeps DEF FilesTypeOK
  <1>3. UNCHANGED <<args, stage, inside>> /\ inside \subseteq Calls
    BY FilesUse DEF Frame
  <1>4. /\ \A d \in Calls \ {c} : status'[d] = status[d] /\ at'[d] = at[d] /\ seen'[d] = seen[d]
        /\ status[c] \in {"none", "opened"}
    BY DEF Frame
  <1>5. Creation'
    <2>1. \A d \in Calls : args[d].act # "list" /\ Opened(d)' => disk[args[d].path] # Absent
      <3>1. c \in Writers \/ args[c].act \in {"read", "list"}
        BY FilesUse DEF Writers, Requests, Writing
      <3> QED
        BY <1>4, <3>1 DEF Creation, Opened
    <2>2. \A w \in Writers : Opened(w)' => Opened(w) /\ Written(w)' = Written(w)
      BY <1>1, <1>4 DEF Opened, Written
    <2>3. \A p : NeverOverwritten(p)' => NeverOverwritten(p)
      BY <1>1, <1>3, <1>4 DEF NeverOverwritten
    <2> QED
      BY <1>1, <1>3, <2>1, <2>2, <2>3 DEF Creation
  <1>6. ASSUME NEW p \in Paths, Orderly(p)' PROVE Atomic(p)'
    <2>1. Orderly(p) /\ Atomic(p)
      BY <1>1, <1>6
    <2>2. \A w \in Writers : args[w].path = p /\ status'[w] = "opened" => disk[p] = Written(w)'
      BY <1>1, <1>4, <2>1 DEF Atomic, Written
    <2>3. Whole(p) => Whole(p)'
      BY <1>1, <1>3, <1>4 DEF Whole, Content
    <2>4. ASSUME \A w \in Writers : args[w].path = p => status'[w] # "opened"
          PROVE  Whole(p)'
      <3>1. CASE c \in Writers /\ args[c].path = p /\ status[c] = "opened"
        <4>1. status'[c] = "ok"
          <5>1. status'[c] # "broken"
            BY <1>1, <1>3, <1>6, <3>1 DEF Orderly
          <5>2. status'[c] \in {"none", "opened", "ok", "truncated", "failed", "broken"}
            BY DEF Frame
          <5> QED
            BY <1>2, <1>4, <2>4, <3>1, <5>1, <5>2 DEF Opened
        <4>2. disk[p] = Content(c)
          BY <2>1, <3>1, <4>1 DEF Atomic, Written, Content
        <4> QED
          BY <1>1, <1>3, <3>1, <4>1, <4>2 DEF Whole, Content
      <3>2. CASE ~(c \in Writers /\ args[c].path = p /\ status[c] = "opened")
        <4>1. \A w \in Writers : args[w].path = p => status[w] # "opened"
          BY <1>1, <1>4, <2>4, <3>2
        <4> QED
          BY <2>1, <2>3, <4>1 DEF Atomic
      <3> QED
        BY <3>1, <3>2
    <2>5. ASSUME NEW d \in inside, args[d].path = p, args[d].act = "read"
          PROVE  ReadSoFar(d)'
      <3>1. CASE d = c
        BY <2>1, <2>5, <3>1
      <3>2. CASE d # c
        BY <1>3, <1>4, <2>1, <2>5, <3>2 DEF Atomic, ReadSoFar
      <3> QED
        BY <3>1, <3>2
    <2> QED
      BY <1>1, <1>3, <2>2, <2>4, <2>5 DEF Atomic
  <1>7. RegistryInvariant'
    BY DEF Frame
  <1> QED
    BY <1>1, <1>2, <1>5, <1>6, <1>7

LEMMA WorkerStartsStep ==
    ASSUME FilesInvariant, NEW c \in Calls, WorkerStarts(c)
    PROVE  FilesInvariant'
  <1> USE DEF FilesInvariant, fileVars, ioVars
  <1>1. /\ worker' = [worker EXCEPT ![c] = "running"] /\ worker[c] = "queued"
        /\ UNCHANGED <<stage, inside>>
    BY DEF WorkerStarts, WorkerStep, gateVars, callVars
  <1>2. status[c] = "none" /\ stage[c] = "body"
    BY <1>1 DEF ThreadOf
  <1>3. Frame(c)
    <2>1. RegistryInvariant'
      BY WorkerKeepsInvariant DEF WorkerStarts
    <2>2. UNCHANGED fileVars
      BY DEF WorkerStarts
    <2>3. Strayed(c) => Strayed(c)'
      BY <1>1, <2>2 DEF Strayed
    <2> QED
      BY <1>1, <1>2, <2>1, <2>2, <2>3, FilesUse DEF Frame, FilesTypeOK
  <1>4. ThreadOf(c)'
    BY <1>1, <1>2, FilesUse DEF ThreadOf, Opened, WorkerStarts
  <1>5. UNCHANGED fileVars
    BY DEF WorkerStarts
  <1>6. ReadSoFar(c)'
    BY <1>2, <1>5 DEF ReadSoFar
  <1>7. seen'[c] \in IF args[c].act = "list" THEN Seq(Paths)
                     ELSE Seq(Writers \cup {"original", "hole"})
    BY <1>5 DEF FilesTypeOK
  <1> QED
    BY <1>2, <1>3, <1>4, <1>5, <1>6, <1>7, QuietKept DEF Opened

(* A function that returns without a result. *)
LEMMA FailsStep ==
    ASSUME FilesInvariant, NEW c \in Calls, worker[c] = "running", status[c] = "none",
           Return(c, "failed"), UNCHANGED <<args, disk, at, seen>>
    PROVE  FilesInvariant'
  <1> USE DEF FilesInvariant
  <1>1. Frame(c) /\ status' = [status EXCEPT ![c] = "failed"]
    BY ReturnFrame DEF FilesTypeOK
  <1>2. status'[c] = "failed"
    BY <1>1 DEF FilesTypeOK
  <1>3. worker'[c] \in {"running", "finished"} /\ worker'[c] = "finished"
    BY <1>1, <1>2 DEF Frame
  <1>4. ThreadOf(c)'
    BY <1>1, <1>2, <1>3, FilesUse DEF ThreadOf, Opened, Frame
  <1>5. ReadSoFar(c)'
    BY <1>2 DEF ReadSoFar
  <1>6. seen'[c] \in IF args[c].act = "list" THEN Seq(Paths)
                     ELSE Seq(Writers \cup {"original", "hole"})
    BY DEF FilesTypeOK
  <1> QED
    BY <1>1, <1>2, <1>4, <1>5, <1>6, QuietKept DEF Opened

LEMMA ResolveFailsStep ==
    ASSUME FilesInvariant, NEW c \in Calls, ResolveFails(c)
    PROVE  FilesInvariant'
  <1>1. status[c] \notin {"ok", "truncated", "failed", "broken"} /\ ~Opened(c)
    BY DEF ResolveFails, FilesInvariant, FilesTypeOK, ThreadOf
  <1>2. status[c] = "none"
    BY <1>1 DEF FilesInvariant, FilesTypeOK, Opened
  <1> QED
    BY <1>2, FailsStep DEF ResolveFails

LEMMA EndWriteStep ==
    ASSUME FilesInvariant, NEW c \in Calls, EndWrite(c)
    PROVE  FilesInvariant'
  <1> USE DEF FilesInvariant
  <1>1. PICK how \in {"ok", "broken"} :
            Return(c, how) /\ (how = "ok" => at[c] = args[c].blocks)
    BY DEF EndWrite
  <1>2. /\ worker[c] = "running" /\ status[c] = "opened" /\ args[c].act \in Writing
        /\ UNCHANGED <<args, disk, at, seen>>
    BY DEF EndWrite, Transfers
  <1>3. Frame(c) /\ status' = [status EXCEPT ![c] = how]
    BY <1>1, <1>2, ReturnFrame DEF FilesTypeOK
  <1>4. status'[c] = how /\ worker'[c] = "finished"
    BY <1>1, <1>3 DEF FilesTypeOK, Frame
  <1>5. ThreadOf(c)'
    BY <1>1, <1>2, <1>3, <1>4, FilesUse DEF ThreadOf, Opened, Frame
  <1>6. args[c].act # "read"
    BY <1>2 DEF Writing
  <1>7. seen'[c] \in IF args[c].act = "list" THEN Seq(Paths)
                     ELSE Seq(Writers \cup {"original", "hole"})
    BY <1>2 DEF FilesTypeOK
  <1> QED
    BY <1>1, <1>2, <1>3, <1>4, <1>5, <1>6, <1>7, QuietKept DEF Opened

(* A read that found its file small enough. *)
LEMMA OpenForReadStep ==
    ASSUME FilesInvariant, NEW c \in Calls, OpenForRead(c)
    PROVE  FilesInvariant'
  <1> USE DEF FilesInvariant
  <1>1. /\ worker[c] = "running" /\ status[c] = "none" /\ args[c].act = "read"
        /\ ~args[c].escapes
        /\ UNCHANGED <<args, disk, at, seen>>
    BY DEF OpenForRead, Ready
  <1>2. ASSUME disk[args[c].path] # Absent, Len(disk[args[c].path]) <= MaxRead,
               Continue(c, "opened")
        PROVE  FilesInvariant'
    <2>1. status' = [status EXCEPT ![c] = "opened"] /\ UNCHANGED <<registryVars, late>>
      BY <1>2 DEF Continue
    <2>2. Frame(c)
      BY <1>1, <2>1, ContinueFrame DEF FilesTypeOK
    <2>3. status'[c] = "opened" /\ worker'[c] = "running"
      BY <1>1, <2>1 DEF FilesTypeOK, registryVars
    <2>4. ThreadOf(c)'
      BY <1>1, <2>2, <2>3, FilesUse DEF ThreadOf, Opened, Frame
    <2>5. disk[args[c].path] \in Seq(Writers \cup {"original", "hole"})
      BY <1>2, FilesUse DEF FilesTypeOK
    <2>6. SubSeq(disk[args[c].path], 1, 0) = <<>> /\ 0 <= Len(disk[args[c].path])
      BY <2>5
    <2>7. ReadSoFar(c)'
      <3>1. at'[c] = 0 /\ seen'[c] = <<>>
        BY <1>1 DEF ThreadOf
      <3> QED
        BY <1>1, <1>2, <2>3, <2>6, <3>1 DEF ReadSoFar
    <2>8. seen'[c] \in IF args[c].act = "list" THEN Seq(Paths)
                       ELSE Seq(Writers \cup {"original", "hole"})
      BY <1>1 DEF FilesTypeOK
    <2>9. c \notin Writers
      BY <1>1 DEF Writers, Writing
    <2> QED
      BY <1>1, <1>2, <2>2, <2>3, <2>4, <2>7, <2>8, <2>9, QuietKept
  <1> QED
    BY <1>1, <1>2, FailsStep DEF OpenForRead

LEMMA ReadBlockStep ==
    ASSUME FilesInvariant, NEW c \in Calls, ReadBlock(c)
    PROVE  FilesInvariant'
  <1> USE DEF FilesInvariant
  <1> DEFINE content == disk[args[c].path]
             k == at[c]
  <1>1. /\ worker[c] = "running" /\ status[c] = "opened" /\ args[c].act = "read"
        /\ UNCHANGED <<registryVars, args, disk, status, late>>
        /\ k < Len(content)
        /\ at' = [at EXCEPT ![c] = @ + 1]
        /\ seen' = [seen EXCEPT ![c] = Append(@, content[at'[c]])]
    BY DEF ReadBlock, Transfers
  <1>2. content # Absent
    BY <1>1 DEF Creation, Opened
  <1>3. /\ content \in Seq(Writers \cup {"original", "hole"})
        /\ seen[c] \in Seq(Writers \cup {"original", "hole"})
        /\ k \in Nat
    BY <1>1, <1>2, FilesUse DEF FilesTypeOK
  <1>4. /\ at'[c] = k + 1 /\ at' \in [Calls -> Nat]
        /\ seen'[c] = Append(seen[c], content[k + 1]) /\ DOMAIN seen' = Calls
        /\ \A d \in Calls \ {c} : at'[d] = at[d] /\ seen'[d] = seen[d]
    BY <1>1, <1>3 DEF FilesTypeOK
  <1>5. Frame(c)
    <2>1. status' = [status EXCEPT ![c] = "opened"]
      BY <1>1 DEF FilesTypeOK
    <2> QED
      BY <1>1, <1>4, <2>1, ContinueFrame
  <1>6. ThreadOf(c)'
    <2>1. c \notin Writers /\ c \notin Writers'
      BY <1>1 DEF Writers, Writing
    <2> QED
      BY <1>1, <1>5, <2>1, FilesUse DEF ThreadOf, Opened, Frame, registryVars
  <1> HIDE DEF content, k
  <1>7. content[k + 1] \in Writers \cup {"original", "hole"}
    BY <1>1, <1>3
  <1>8. seen'[c] \in Seq(Writers \cup {"original", "hole"})
    BY <1>3, <1>4, <1>7
  <1>9. ASSUME ReadSoFar(c) PROVE ReadSoFar(c)'
    <2>1. /\ Len(content) <= MaxRead /\ k <= Len(content) /\ seen[c] = SubSeq(content, 1, k)
      BY <1>1, <1>9 DEF ReadSoFar, content, k
    <2>2. SubSeq(content, 1, k + 1) = Append(SubSeq(content, 1, k), content[k + 1])
      BY <1>1, <1>3
    <2>3. k + 1 <= Len(content)
      BY <1>1, <1>3
    <2> QED
      BY <1>1, <1>2, <1>4, <2>1, <2>2, <2>3 DEF ReadSoFar, content
  <1>10. c \notin Writers /\ c \in Calls /\ args[c].path \in Paths
    BY <1>1, FilesUse DEF Writers, Writing
  <1>11. Atomic(args[c].path) /\ c \in inside => ReadSoFar(c)
    BY <1>1 DEF Atomic
  <1> QED
    BY <1>1, <1>2, <1>5, <1>6, <1>8, <1>9, <1>10, <1>11, QuietKept DEF content

LEMMA EndReadStep ==
    ASSUME FilesInvariant, NEW c \in Calls, EndRead(c)
    PROVE  FilesInvariant'
  <1> USE DEF FilesInvariant
  <1> DEFINE content == disk[args[c].path]
  <1>1. PICK how \in {"ok", "failed"} : Return(c, how)
    BY DEF EndRead
  <1>2. /\ worker[c] = "running" /\ status[c] = "opened" /\ args[c].act = "read"
        /\ UNCHANGED <<args, disk, at, seen>>
        /\ at[c] >= Len(content)
    BY DEF EndRead, Transfers
  <1>3. Frame(c) /\ status' = [status EXCEPT ![c] = how]
    BY <1>1, <1>2, ReturnFrame DEF FilesTypeOK
  <1>4. status'[c] = how /\ worker'[c] = "finished"
    BY <1>1, <1>3 DEF FilesTypeOK, Frame
  <1>5. c \notin Writers /\ c \notin Writers'
    BY <1>2 DEF Writers, Writing
  <1>6. ThreadOf(c)'
    BY <1>1, <1>2, <1>3, <1>4, <1>5, FilesUse DEF ThreadOf, Opened, Frame
  <1>7. content # Absent
    BY <1>2 DEF Creation, Opened
  <1>8. content \in Seq(Writers \cup {"original", "hole"}) /\ at[c] \in Nat
    BY <1>7, FilesUse DEF FilesTypeOK
  <1>9. ASSUME ReadSoFar(c) PROVE ReadSoFar(c)'
    <2>1. /\ Len(content) <= MaxRead /\ at[c] <= Len(content)
          /\ seen[c] = SubSeq(content, 1, at[c])
      BY <1>2, <1>9 DEF ReadSoFar
    <2>2. at[c] = Len(content) /\ SubSeq(content, 1, Len(content)) = content
      BY <1>2, <1>8, <2>1
    <2> QED
      BY <1>1, <1>2, <1>4, <1>7, <2>1, <2>2 DEF ReadSoFar
  <1>10. seen'[c] \in Seq(Writers \cup {"original", "hole"})
    BY <1>2 DEF FilesTypeOK
  <1>11. Atomic(args[c].path) /\ c \in inside => ReadSoFar(c)
    BY <1>2 DEF Atomic
  <1> QED
    BY <1>2, <1>3, <1>5, <1>6, <1>7, <1>9, <1>10, <1>11, QuietKept

(* Finitely many numbers can be listed in order. *)
LEMMA InOrderOfSize ==
    ASSUME NEW T \in SUBSET Nat, IsFiniteSet(T)
    PROVE  \E s \in [1..Cardinality(T) -> T] : \A i, j \in DOMAIN s : i < j => s[i] < s[j]
  <1> DEFINE Listed(S) == \E s \in [1..Cardinality(S) -> S] :
                             \A i, j \in DOMAIN s : i < j => s[i] < s[j]
             Good == {n \in Nat : \A S \in SUBSET Nat :
                                     IsFiniteSet(S) /\ Cardinality(S) = n => Listed(S)}
  <1>1. 0 \in Good
    <2> SUFFICES ASSUME NEW S \in SUBSET Nat, IsFiniteSet(S), Cardinality(S) = 0
                 PROVE  Listed(S)
      OBVIOUS
    <2>1. [i \in 1..0 |-> 0] \in [1..Cardinality(S) -> S]
      OBVIOUS
    <2>2. 1..0 = {}
      OBVIOUS
    <2> QED
      BY <2>1, <2>2
  <1>2. ASSUME NEW n \in Nat, n \in Good PROVE n + 1 \in Good
    <2> SUFFICES ASSUME NEW S \in SUBSET Nat, IsFiniteSet(S), Cardinality(S) = n + 1
                 PROVE  Listed(S)
      OBVIOUS
    <2>1. S # {}
      BY FS_EmptySet
    <2>2. PICK least \in S : \A k \in S : least <= k
      BY <2>1, LeastNatural
    <2> DEFINE rest == S \ {least}
    <2>3. IsFiniteSet(rest) /\ Cardinality(rest) = n
      <3>1. /\ IsFiniteSet(rest)
            /\ Cardinality(rest) = IF least \in S THEN Cardinality(S) - 1 ELSE Cardinality(S)
        BY FS_RemoveElement
      <3> QED
        BY <3>1
    <2>4. Listed(rest)
      BY <1>2, <2>3
    <2>5. PICK s \in [1..n -> rest] : \A i, j \in DOMAIN s : i < j => s[i] < s[j]
      BY <2>3, <2>4
    <2> DEFINE longer == [i \in 1..(n + 1) |-> IF i = 1 THEN least ELSE s[i - 1]]
    <2>6. ASSUME NEW i \in 2..(n + 1)
          PROVE  i - 1 \in 1..n /\ s[i - 1] \in S /\ least < s[i - 1]
      <3>1. i - 1 \in 1..n
        OBVIOUS
      <3>2. s[i - 1] \in rest
        BY <2>5, <3>1
      <3>3. s[i - 1] \in Nat /\ least \in Nat /\ least <= s[i - 1] /\ least # s[i - 1]
        BY <2>2, <3>2
      <3> QED
        BY <3>1, <3>2, <3>3
    <2>7. longer \in [1..(n + 1) -> S]
      BY <2>6
    <2>8. ASSUME NEW i \in 1..(n + 1), NEW j \in 1..(n + 1), i < j
          PROVE  longer[i] < longer[j]
      <3>1. CASE i = 1
        <4>1. j \in 2..(n + 1)
          BY <2>8
        <4> QED
          BY <2>6, <3>1, <4>1
      <3>2. CASE i # 1
        <4>1. i - 1 \in 1..n /\ j - 1 \in 1..n /\ i - 1 < j - 1 /\ j # 1
          BY <2>8, <3>2
        <4> QED
          BY <2>5, <3>2, <4>1
      <3> QED
        BY <3>1, <3>2
    <2> HIDE DEF longer
    <2> QED
      BY <2>7, <2>8
  <1> HIDE DEF Good
  <1>3. Nat \subseteq Good
    BY <1>1, <1>2, NaturalsBySteps
  <1>4. Cardinality(T) \in Good
    BY <1>3, FS_CardinalityType
  <1> QED
    BY <1>4 DEF Good

(* The files there are, in order, are a sequence of paths. *)
LEMMA OrderedPaths == Cardinality(Present) \in Nat /\ Ordered \in [1..Cardinality(Present) -> Paths]
  <1>1. Paths \subseteq Nat
    <2>1. \A c \in Calls : \A a \in Arguments[c] : a.path \in Nat
      BY FilesAssumption DEF Requests
    <2> QED
      BY <2>1, FilesAssumption DEF Paths
  <1>2. Present \in SUBSET Nat /\ Present \subseteq Paths /\ IsFiniteSet(Present)
    BY <1>1, FilesAssumption, FS_Subset DEF Present
  <1>3. Ordered \in [1..Cardinality(Present) -> Present]
    BY <1>2, InOrderOfSize DEF Ordered
  <1> QED
    BY <1>2, <1>3, FS_CardinalityType

LEMMA ListFilesStep ==
    ASSUME FilesInvariant, NEW c \in Calls, ListFiles(c)
    PROVE  FilesInvariant'
  <1> USE DEF FilesInvariant
  <1>1. /\ worker[c] = "running" /\ status[c] = "none" /\ args[c].act = "list"
        /\ ~args[c].escapes /\ c \notin Writers /\ c \notin Writers'
        /\ UNCHANGED <<args, disk, at>>
    BY DEF ListFiles, Ready, Writers, Writing
  <1>2. Ordered \in Seq(Paths) /\ Len(Ordered) = Cardinality(Present)
    BY OrderedPaths
  <1>3. PICK how \in {"ok", "truncated"}, found \in Seq(Paths) :
            Return(c, how) /\ seen' = [seen EXCEPT ![c] = found]
    <2>1. MaxList < Cardinality(Present) => SubSeq(Ordered, 1, MaxList) \in Seq(Paths)
      BY <1>2, OrderedPaths, FilesAssumption
    <2> QED
      BY <1>2, <2>1, OrderedPaths, FilesAssumption DEF ListFiles
  <1>4. Frame(c) /\ status' = [status EXCEPT ![c] = how]
    BY <1>1, <1>3, ReturnFrame DEF FilesTypeOK
  <1>5. /\ status'[c] = how /\ worker'[c] = "finished"
        /\ seen'[c] = found
    BY <1>3, <1>4 DEF FilesTypeOK, Frame
  <1>6. ThreadOf(c)'
    BY <1>1, <1>3, <1>4, <1>5, FilesUse DEF ThreadOf, Opened, Frame
  <1> QED
    BY <1>1, <1>4, <1>5, <1>6, QuietKept

(* A step that writes: the file is then as its writer left it, if nothing  *)
(* disturbed it, and its creator is alone with it.                         *)
LEMMA WriteKept ==
    ASSUME FilesInvariant, NEW c \in Writers, c \in Calls, NEW p \in Paths, args[c].path = p,
           Frame(c), worker[c] = "running",
           ThreadOf(c)', status'[c] = "opened", seen' = seen,
           NEW content \in Seq(Writers \cup {"original", "hole"}),
           disk' = [disk EXCEPT ![p] = content],
           Orderly(p)' => content = Written(c)',
           args[c].act = "create" /\ NeverOverwritten(p)' => content = Written(c)',
           args[c].act = "create" /\ status[c] = "none" => disk[p] = Absent
    PROVE  FilesInvariant'
  <1> USE DEF FilesInvariant
  <1>1. /\ UNCHANGED Writers /\ Writers \subseteq Calls
        /\ \A d \in Calls \ {c} : ThreadOf(d)'
        /\ \A q \in Paths : Orderly(q)' => Orderly(q) /\ Atomic(q)
        /\ Orderly(p)' => inside = {c}
        /\ \A d \in Calls : d \in Writers /\ status[d] = "opened" /\ ~Strayed(d) => inside = {d}
    BY FrameKeeps, FilesUse DEF Writers
  <1>2. /\ UNCHANGED <<args, stage, inside>> /\ inside \subseteq Calls
        /\ \A d \in Calls \ {c} : status'[d] = status[d] /\ at'[d] = at[d]
        /\ status[c] \in {"none", "opened"}
    BY FilesUse DEF Frame
  <1>3. /\ p \in Paths /\ DOMAIN disk = Paths
        /\ disk'[p] = content /\ content # Absent
        /\ \A q \in Paths \ {p} : disk'[q] = disk[q]
    <2>1. Writers \cup {"original", "hole"} \subseteq Calls \cup {"original", "hole"}
      BY <1>1
    <2>2. content \in Seq(Calls \cup {"original", "hole"})
      BY <2>1
    <2>3. p \in Paths /\ DOMAIN disk = Paths
      BY FilesUse DEF FilesTypeOK
    <2> QED
      BY <2>2, <2>3, FilesAssumption
  <1>4. \A d \in Calls : args[d].path \in Paths
    BY FilesUse
  <1>5. args[c].act \in Writing /\ args[c].act \notin {"read", "list"}
    BY DEF Writers, Writing
  <1>6. FilesTypeOK'
    <2>1. disk' \in [Paths -> {Absent} \cup Seq(Writers \cup {"original", "hole"})]
      BY <1>3 DEF FilesTypeOK
    <2>2. seen'[c] \in IF args[c].act = "list" THEN Seq(Paths)
                       ELSE Seq(Writers \cup {"original", "hole"})
      BY DEF FilesTypeOK
    <2> QED
      BY <1>1, <2>1, <2>2, FrameKeeps
  <1>7. Creation'
    <2>1. ASSUME NEW d \in Calls, args[d].act # "list", Opened(d)'
          PROVE  disk'[args[d].path] # Absent
      <3>1. CASE d = c
        BY <1>3, <3>1
      <3>2. CASE d # c
        <4>1. disk[args[d].path] # Absent
          BY <1>2, <2>1, <3>2 DEF Creation, Opened
        <4> QED
          BY <1>3, <1>4, <4>1
      <3> QED
        BY <3>1, <3>2
    <2>2. ASSUME args[c].act = "create", NEW v \in Writers, args[v].act = "create",
                 args[v].path = p, Opened(v)'
          PROVE  v = c
      <3> SUFFICES ASSUME v # c PROVE FALSE
        OBVIOUS
      <3>1. Opened(v) /\ v \in Calls
        BY <1>1, <1>2, <2>2 DEF Opened
      <3>2. disk[p] # Absent
        BY <2>2, <3>1 DEF Creation
      <3>3. Opened(c)
        BY <1>2, <2>2, <3>2 DEF Opened
      <3> QED
        BY <2>2, <3>1, <3>3 DEF Creation
    <2>3. ASSUME NEW w \in Writers, args[w].act = "create", Opened(w)'
          PROVE  /\ \A v \in Writers : args[v].act = "create" /\ args[v].path = args[w].path
                                          /\ Opened(v)' => v = w
                 /\ NeverOverwritten(args[w].path)' => disk'[args[w].path] = Written(w)'
      <3>1. CASE w = c
        <4>1. args[w].act = "create" /\ args[w].path = p /\ args'[w].path = p
          BY <1>2, <2>3, <3>1
        <4>2. NeverOverwritten(p)' => disk'[p] = Written(w)'
          BY <1>3, <3>1, <4>1
        <4>3. NeverOverwritten(args[w].path)' <=> NeverOverwritten(p)'
          BY <1>2, <4>1 DEF NeverOverwritten
        <4> QED
          BY <2>2, <3>1, <4>1, <4>2, <4>3
      <3>2. CASE w # c
        <4>1. Opened(w) /\ Written(w)' = Written(w) /\ w \in Calls
          BY <1>1, <1>2, <2>3, <3>2 DEF Opened, Written
        <4>2. ASSUME args[w].path = p, args[c].act = "create" PROVE FALSE
          BY <2>2, <2>3, <3>2, <4>2
        <4>3. ASSUME NEW v \in Writers, args[v].act = "create", args[v].path = args[w].path,
                     Opened(v)'
              PROVE  v = w
          <5>1. CASE v = c
            BY <4>2, <4>3, <5>1
          <5>2. CASE v # c
            <6>1. Opened(v)
              BY <1>1, <1>2, <4>3, <5>2 DEF Opened
            <6> QED
              BY <2>3, <4>1, <4>3, <6>1 DEF Creation
          <5> QED
            BY <5>1, <5>2
        <4>4. ASSUME NeverOverwritten(args[w].path)'
              PROVE  disk'[args[w].path] = Written(w)'
          <5>1. args[w].path # p
            <6>1. SUFFICES ASSUME args[w].path = p PROVE args[c].act = "create"
              BY <4>2
            <6>2. args[c].act # "overwrite"
              BY <1>1, <1>2, <4>4, <6>1 DEF NeverOverwritten
            <6> QED
              BY <1>5, <6>2 DEF Writing
          <5>2. NeverOverwritten(args[w].path)
            BY <1>1, <1>2, <4>4, <5>1 DEF NeverOverwritten
          <5>3. disk[args[w].path] = Written(w)
            BY <2>3, <4>1, <5>2 DEF Creation
          <5> QED
            BY <1>3, <1>4, <4>1, <5>1, <5>3
        <4> QED
          BY <4>3, <4>4
      <3> QED
        BY <3>1, <3>2
    <2> QED
      BY <1>1, <1>2, <2>1, <2>3 DEF Creation
  <1>8. ASSUME NEW q \in Paths, Orderly(q)' PROVE Atomic(q)'
    <2>1. Orderly(q) /\ Atomic(q)
      BY <1>1, <1>8
    <2>2. CASE q # p
      <3>1. \A w \in Writers : args[w].path = q => w # c
        BY <2>2
      <3>2. \A w \in Writers : args[w].path = q /\ status'[w] = "opened" => disk'[q] = Written(w)'
        BY <1>1, <1>2, <1>3, <2>1, <2>2, <3>1 DEF Atomic, Written
      <3>3. Whole(q) => Whole(q)'
        BY <1>1, <1>2, <1>3, <2>2, <3>1 DEF Whole, Content
      <3>4. \A d \in inside : args[d].path = q /\ args[d].act = "read" => ReadSoFar(d)'
        BY <1>2, <1>3, <1>5, <2>1, <2>2 DEF Atomic, ReadSoFar
      <3> QED
        BY <1>1, <1>2, <2>1, <3>1, <3>2, <3>3, <3>4 DEF Atomic
    <2>3. CASE q = p
      <3>1. inside = {c}
        BY <1>1, <1>8, <2>3
      <3>2. ASSUME NEW w \in Writers, args[w].path = q, status'[w] = "opened"
            PROVE  disk'[q] = Written(w)'
        <4>1. w = c
          <5> SUFFICES ASSUME w # c PROVE FALSE
            OBVIOUS
          <5>1. status[w] = "opened" /\ ~Strayed(w) /\ w \in Calls
            BY <1>1, <1>2, <2>1, <3>2 DEF Orderly
          <5> QED
            BY <1>1, <3>1, <5>1
        <4> QED
          BY <1>3, <1>8, <2>3, <4>1
      <3>3. args[c].path = q /\ status'[c] = "opened"
        BY <2>3
      <3> QED
        BY <1>1, <1>2, <1>5, <3>1, <3>2, <3>3 DEF Atomic
    <2> QED
      BY <2>2, <2>3
  <1>9. RegistryInvariant'
    BY DEF Frame
  <1> QED
    BY <1>1, <1>6, <1>7, <1>8, <1>9

LEMMA OpenForWriteStep ==
    ASSUME FilesInvariant, NEW c \in Calls, OpenForWrite(c)
    PROVE  FilesInvariant'
  <1> USE DEF FilesInvariant
  <1>1. /\ worker[c] = "running" /\ status[c] = "none" /\ args[c].act \in Writing
        /\ ~args[c].escapes
        /\ UNCHANGED <<args, at, seen>>
    BY DEF OpenForWrite, Ready
  <1>2. ASSUME args[c].act = "overwrite" \/ disk[args[c].path] = Absent,
               disk' = [disk EXCEPT ![args[c].path] = <<>>], Continue(c, "opened")
        PROVE  FilesInvariant'
    <2>1. status' = [status EXCEPT ![c] = "opened"] /\ UNCHANGED <<registryVars, late>>
      BY <1>2 DEF Continue
    <2>2. Frame(c)
      BY <1>1, <2>1, ContinueFrame DEF FilesTypeOK
    <2>3. status'[c] = "opened" /\ worker'[c] = "running"
      BY <1>1, <2>1 DEF FilesTypeOK, registryVars
    <2>4. ThreadOf(c)'
      BY <1>1, <2>2, <2>3, FilesUse DEF ThreadOf, Opened, Frame
    <2>5. at'[c] = 0
      BY <1>1 DEF ThreadOf
    <2>6. Written(c)' = <<>>
      <3>1. 1..0 = {}
        OBVIOUS
      <3>2. [i \in {} |-> c] = <<>>
        OBVIOUS
      <3> QED
        BY <2>5, <3>1, <3>2 DEF Written
    <2>7. c \in Writers
      BY <1>1 DEF Writers
    <2>8. <<>> \in Seq(Writers \cup {"original", "hole"})
      OBVIOUS
    <2>9. PICK p \in Paths : args[c].path = p
      BY FilesUse
    <2>10. args[c].act = "create" => disk[p] = Absent
      BY <1>2, <2>9
    <2>11. disk' = [disk EXCEPT ![p] = <<>>]
      BY <1>2, <2>9
    <2> QED
      BY <1>1, <2>2, <2>3, <2>4, <2>6, <2>7, <2>8, <2>9, <2>10, <2>11, WriteKept
  <1>3. CASE Return(c, "failed") /\ UNCHANGED disk
    BY <1>1, <1>3, FailsStep
  <1> QED
    BY <1>2, <1>3 DEF OpenForWrite

(* A block written right behind those before it. *)
LEMMA PutNext ==
    ASSUME NEW c, NEW k \in Nat
    PROVE  Put([i \in 1..k |-> c], k + 1, c) = [i \in 1..(k + 1) |-> c]
  <1> DEFINE content == [i \in 1..k |-> c]
  <1>1. content \in Seq({c}) /\ Len(content) = k /\ \A i \in 1..k : content[i] = c
    OBVIOUS
  <1> HIDE DEF content
  <1>2. Put(content, k + 1, c) = [i \in 1..(k + 1) |-> c]
    BY <1>1 DEF Put
  <1> QED
    BY <1>2 DEF content

LEMMA WriteBlockStep ==
    ASSUME FilesInvariant, NEW c \in Calls, WriteBlock(c)
    PROVE  FilesInvariant'
  <1> USE DEF FilesInvariant
  <1>0. PICK p \in Paths : p = args[c].path
    BY FilesUse
  <1> DEFINE k == at[c]
             content == Put(disk[p], k + 1, c)
  <1>1. /\ worker[c] = "running" /\ status[c] = "opened" /\ args[c].act \in Writing
        /\ UNCHANGED <<registryVars, args, status, seen, late>>
        /\ at' = [at EXCEPT ![c] = @ + 1]
        /\ disk' = [disk EXCEPT ![p] = Put(@, at'[c], c)]
    BY <1>0 DEF WriteBlock, Transfers
  <1>2. c \in Writers /\ args[c].act \notin {"list", "read"}
    BY <1>1 DEF Writers, Writing
  <1>3. /\ k \in Nat /\ at'[c] = k + 1 /\ at' \in [Calls -> Nat]
        /\ \A d \in Calls \ {c} : at'[d] = at[d]
    BY <1>1 DEF FilesTypeOK
  <1>4. /\ p \in Paths /\ DOMAIN disk = Paths
        /\ disk[p] \in Seq(Writers \cup {"original", "hole"})
    <2>1. disk[p] # Absent
      BY <1>0, <1>1, <1>2 DEF Creation, Opened
    <2> QED
      BY <2>1, FilesUse DEF FilesTypeOK
  <1>5. disk' = [disk EXCEPT ![p] = content]
    BY <1>1, <1>3, <1>4
  <1>6. Frame(c)
    <2>1. status' = [status EXCEPT ![c] = "opened"] /\ DOMAIN seen' = Calls
      BY <1>1 DEF FilesTypeOK
    <2> QED
      BY <1>1, <1>3, <2>1, ContinueFrame
  <1>7. ThreadOf(c)'
    BY <1>1, <1>6, FilesUse DEF ThreadOf, Opened, Frame, registryVars
  <1>8. content \in Seq(Writers \cup {"original", "hole"})
    <2> DEFINE long == IF k + 1 > Len(disk[p]) THEN k + 1 ELSE Len(disk[p])
    <2>1. long \in Nat
      BY <1>3, <1>4
    <2>2. \A i \in 1..long : i <= Len(disk[p]) => disk[p][i] \in Writers \cup {"original", "hole"}
      BY <1>4, <2>1
    <2> HIDE DEF long
    <2>3. content = [i \in 1..long |-> IF i = k + 1 THEN c ELSE
                                        IF i <= Len(disk[p]) THEN disk[p][i] ELSE "hole"]
      BY DEF Put, long
    <2> HIDE DEF content
    <2>4. content \in [1..long -> Writers \cup {"original", "hole"}]
      BY <1>2, <2>2, <2>3
    <2> QED
      BY <2>1, <2>4
  <1>9. disk[p] = Written(c) => content = Written(c)'
    BY <1>3, PutNext DEF Written
  <1> HIDE DEF content
  <1>10. Orderly(p)' => content = Written(c)'
    <2>1. Orderly(p)' => Atomic(p)
      BY <1>4, <1>6, FrameKeeps
    <2> QED
      BY <1>0, <1>1, <1>2, <1>9, <2>1 DEF Atomic
  <1>11. args[c].act = "create" /\ NeverOverwritten(p)' => content = Written(c)'
    <2>1. NeverOverwritten(p)' => NeverOverwritten(p)
      BY <1>1 DEF NeverOverwritten, Writers
    <2> QED
      BY <1>0, <1>1, <1>2, <1>9, <2>1 DEF Creation, Opened
  <1>12. status'[c] = "opened" /\ status[c] # "none"
    BY <1>1
  <1> QED
    BY <1>0, <1>1, <1>2, <1>5, <1>6, <1>7, <1>8, <1>10, <1>11, <1>12, WriteKept

-----------------------------------------------------------------------------
(* The invariant *)

LEMMA FilesInitially == FilesInit => FilesInvariant
  <1> SUFFICES ASSUME FilesInit PROVE FilesInvariant
    OBVIOUS
  <1>1. RegistryInvariant
    BY RegistryInitially DEF FilesInit
  <1>2. \A c \in Calls : /\ stage[c] = "idle" /\ worker[c] = "none"
                         /\ status[c] = "none" /\ at[c] = 0 /\ seen[c] = <<>>
    BY DEF FilesInit, RegistryInit
  <1>3. Writers \subseteq Calls /\ inside = {}
    BY DEF Writers, FilesInit, RegistryInit, GateInit
  <1>4. PICK d \in Originals : disk = [p \in Paths |-> IF p \in DOMAIN d THEN d[p] ELSE Absent]
    BY DEF FilesInit
  <1>5. FilesTypeOK
    <2>1. RegistryTypeOK
      BY <1>1 DEF RegistryInvariant, CallInvariant, GateInvariant, RegistryTypeOK
    <2>2. disk \in [Paths -> {Absent} \cup Seq(Writers \cup {"original", "hole"})]
      <3>1. ASSUME NEW p \in DOMAIN d PROVE d[p] \in Seq(Writers \cup {"original", "hole"})
        <4>1. d[p] \in Seq({"original"})
          BY FilesAssumption
        <4> QED
          BY <4>1
      <3> QED
        BY <1>4, <3>1
    <2>3. <<>> \in Seq(Paths) /\ <<>> \in Seq(Writers \cup {"original", "hole"})
      OBVIOUS
    <2> QED
      BY <1>2, <2>1, <2>2, <2>3 DEF FilesInit, FilesTypeOK
  <1>6. \A c \in Calls : ThreadOf(c)
    BY <1>2 DEF ThreadOf, Opened
  <1>7. Creation
    BY <1>2, <1>3 DEF Creation, Opened
  <1>8. ASSUME NEW p \in Paths PROVE Atomic(p)
    <2>1. Whole(p)
      BY <1>4 DEF Whole
    <2> QED
      BY <1>2, <1>3, <2>1 DEF Atomic
  <1> QED
    BY <1>1, <1>5, <1>6, <1>7, <1>8 DEF FilesInvariant

LEMMA FilesInvariantInductive ==
    FilesInvariant /\ [FilesNext]_filesVars => FilesInvariant'
  <1> SUFFICES ASSUME FilesInvariant, [FilesNext]_filesVars PROVE FilesInvariant'
    OBVIOUS
  <1>0. RegistryInvariant /\ \A c \in Calls : ThreadOf(c)
    BY DEF FilesInvariant
  <1>1. CASE TaskNext /\ UNCHANGED fileVars
    BY <1>0, <1>1, TaskStep, TaskFollows, FollowingKeepsFiles
  <1>2. ASSUME NEW c \in Calls, FunctionStep(c) PROVE FilesInvariant'
    BY <1>2, WorkerStartsStep, ResolveFailsStep, OpenForWriteStep, WriteBlockStep, EndWriteStep,
       OpenForReadStep, ReadBlockStep, EndReadStep, ListFilesStep DEF FunctionStep
  <1>3. ASSUME NEW c \in Calls, FileBodyEnds(c) PROVE FilesInvariant'
    BY <1>0, <1>3, BodyStep, BodyFollows, FollowingKeepsFiles DEF FileBodyEnds
  <1>4. CASE UNCHANGED filesVars
    <2>1. UNCHANGED <<stage, worker, registryVars, fileVars>>
      BY <1>4 DEF filesVars, registryVars, callVars
    <2> QED
      BY <1>0, <2>1, RegistryStutter, StillFollows, FollowingKeepsFiles
  <1> QED
    BY <1>1, <1>2, <1>3, <1>4 DEF FilesNext

(* The invariant of the file tools holds in every reachable state. *)
THEOREM FilesInvariance == FilesSpec => []FilesInvariant
  BY FilesInitially, FilesInvariantInductive, PTL DEF FilesSpec

(* The variables of the file tools have their types. *)
THEOREM FilesTypeCorrectness == FilesSpec => []FilesTypeOK
  <1>1. FilesInvariant => FilesTypeOK
    BY DEF FilesInvariant
  <1> QED
    BY <1>1, FilesInvariance, PTL

(* The registry stays what it is when its tools are the file tools, whose  *)
(* worker threads outlive their calls.                                     *)
THEOREM FilesKeepRegistry ==
    FilesSpec => [](NoSlotLeak /\ Exclusion /\ NoLostWakeup /\ BatchBarrier)
  <1>1. FilesInvariant => NoSlotLeak /\ Exclusion /\ NoLostWakeup /\ BatchBarrier
    BY DEF FilesInvariant, RegistryInvariant, CallInvariant, GateInvariant
  <1> QED
    BY <1>1, FilesInvariance, PTL

(* The gate makes the file tools atomic, as long as no write outlives its  *)
(* call or fails half way: a safe call finds the files whole, and a read   *)
(* returns all of one write and no more than max_read_bytes.               *)
THEOREM FilesGatedAtomic == FilesSpec => []GatedFilesAreAtomic
  <1>1. ASSUME FilesInvariant PROVE GatedFilesAreAtomic
    <2> SUFFICES ASSUME NEW p \in Paths, Orderly(p), NEW c \in inside \cap SafeCalls,
                        args[c].path = p
                 PROVE  /\ Whole(p)
                        /\ args[c].act = "read" /\ status[c] = "ok" =>
                              seen[c] = disk[p] /\ Len(seen[c]) <= MaxRead
      BY DEF GatedFilesAreAtomic, Orderly
    <2>1. Atomic(p) /\ \A d \in Calls : ThreadOf(d)
      BY <1>1 DEF FilesInvariant
    <2>2. ASSUME NEW w \in Writers, args[w].path = p, status[w] = "opened" PROVE FALSE
      <3>1. w \in Calls \ SafeCalls /\ ~Strayed(w)
        BY <1>1, <2>2, FilesUse DEF Orderly
      <3>2. worker[w] = "running"
        BY <1>1, <2>1, <2>2, <3>1, FilesUse DEF FilesInvariant, FilesTypeOK, ThreadOf
      <3>3. w \in inside
        BY <1>1, <3>1, <3>2, FilesUse DEF Strayed
      <3>4. inside = {w}
        BY <1>1, <3>1, <3>3, FilesUse
      <3> QED
        BY <3>1, <3>4
    <2>3. args[c].act = "read" /\ status[c] = "ok" =>
              seen[c] = disk[p] /\ Len(seen[c]) <= MaxRead
      BY <2>1 DEF Atomic, ReadSoFar
    <2> QED
      BY <2>1, <2>2, <2>3 DEF Atomic
  <1> QED
    BY <1>1, FilesInvariance, PTL

(* What write_file created stays until a call asks to overwrite it,        *)
(* whichever calls timed out, were cancelled or still run.                 *)
THEOREM FilesCreatedStays == FilesSpec => []CreatedStays
  <1>1. ASSUME FilesInvariant PROVE CreatedStays
    <2> SUFFICES ASSUME NEW c \in Writers, args[c].act = "create", status[c] = "ok",
                        NeverOverwritten(args[c].path)
                 PROVE  disk[args[c].path] = Content(c)
      BY DEF CreatedStays, NeverOverwritten
    <2>1. ThreadOf(c) /\ Creation
      BY <1>1 DEF FilesInvariant, Writers
    <2>2. disk[args[c].path] = Written(c) /\ at[c] = args[c].blocks
      BY <2>1 DEF Creation, Opened, ThreadOf
    <2> QED
      BY <2>2 DEF Written, Content
  <1> QED
    BY <1>1, FilesInvariance, PTL

(* A function that has not started when its call ends never does. *)
THEOREM FilesNoLateStart == FilesSpec => NoLateStart
  <1> DEFINE Stays(c) == stage[c] \in {"observing", "done"} /\ worker[c] # "running"
                           => worker'[c] = worker[c] /\ status'[c] = status[c]
  <1>1. ASSUME FilesInvariant, FilesNext PROVE \A c \in Calls : Stays(c)
    <2>0. RegistryInvariant /\ \A c \in Calls : ThreadOf(c)
      BY <1>1 DEF FilesInvariant
    <2>1. ASSUME \A c \in Calls : Follows(c), UNCHANGED fileVars
          PROVE  \A c \in Calls : Stays(c)
      BY <2>0, <2>1 DEF Follows, PastBody, ThreadOf, fileVars, ioVars
    <2>2. CASE TaskNext /\ UNCHANGED fileVars
      BY <2>0, <2>1, <2>2, TaskFollows
    <2>3. ASSUME NEW d \in Calls, FileBodyEnds(d) PROVE \A c \in Calls : Stays(c)
      BY <2>0, <2>1, <2>3, BodyFollows DEF FileBodyEnds
    <2>4. ASSUME NEW d \in Calls, FunctionStep(d) PROVE \A c \in Calls : Stays(c)
      <3>1. worker[d] \in {"queued", "running"}
        BY <2>4 DEF FunctionStep, WorkerStarts, ResolveFails, OpenForWrite, WriteBlock, EndWrite,
                    OpenForRead, ReadBlock, EndRead, ListFiles, Ready, Transfers
      <3>2. /\ \E to : worker' = [worker EXCEPT ![d] = to] \/ worker' = worker
            /\ \E how : status' = [status EXCEPT ![d] = how] \/ status' = status
        BY <2>4 DEF FunctionStep, WorkerStarts, ResolveFails, OpenForWrite, WriteBlock, EndWrite,
                    OpenForRead, ReadBlock, EndRead, ListFiles, Return, Continue, WorkerStep,
                    registryVars, fileVars, ioVars
      <3>3. \A c \in Calls \ {d} : worker'[c] = worker[c] /\ status'[c] = status[c]
        BY <1>1, <3>2, FilesUse DEF FilesInvariant, FilesTypeOK
      <3> QED
        BY <2>0, <3>1, <3>3 DEF ThreadOf
    <2> QED
      BY <1>1, <2>2, <2>3, <2>4 DEF FilesNext
  <1>2. FilesInvariant /\ [FilesNext]_filesVars => [\A c \in Calls : Stays(c)]_filesVars
    BY <1>1
  <1> QED
    BY <1>2, FilesInvariance, PTL DEF FilesSpec, NoLateStart

=============================================================================
