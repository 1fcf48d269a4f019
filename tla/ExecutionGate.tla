--------------------------- MODULE ExecutionGate ---------------------------
(***************************************************************************)
(* The shared/exclusive gate of astraship.tools.registry._ExecutionGate.   *)
(* A call holds the gate while its tool body runs: in shared mode when the *)
(* tool is concurrency safe, in exclusive mode otherwise.                  *)
(*                                                                         *)
(* Everything runs on one event loop, and no critical section of the       *)
(* gate's condition suspends, so each section is one atomic step: from the *)
(* append to the queue up to the entry or to the suspension in wait(), and *)
(* from a wake-up to the entry or to the next suspension.  notify_all only *)
(* resolves futures: the waiters it wakes run later, each in a step of its *)
(* own (`notified' holds those still to run), and any other task may take  *)
(* steps before them.                                                      *)
(***************************************************************************)
EXTENDS Queues, FiniteSets

CONSTANTS
    Calls,        \* the tasks that call hold(); a task may call it again and again
    SafeCalls,    \* the calls that hold the gate in shared mode
    SharedLimit   \* the width of the shared mode (max_concurrency)

ASSUME GateAssumption ==
    /\ IsFiniteSet(Calls)
    /\ SafeCalls \subseteq Calls
    /\ SharedLimit \in Nat \ {0}

VARIABLES
    waiting,          \* the tokens in _waiting, in order of arrival
    activeShared,     \* _active_shared
    activeExclusive,  \* _active_exclusive
    notified,         \* waiters whose future is resolved and which have not run since
    cancelled,        \* waiters whose task was cancelled and which have not run since
    inside            \* the calls in the body of `async with hold()'

gateVars == <<waiting, activeShared, activeExclusive, notified, cancelled, inside>>

(* Every hold() has a fresh token, and a task that waits in hold() does    *)
(* nothing else, so the calls stand for their tokens.                      *)
Waiters == Queued(waiting)

(* The definitions marked `Fault' are mistakes that the code could make    *)
(* and does not; they are no part of the specification.                    *)
(* Fault: an exclusive call does not wait for the shared ones inside.      *)
CanEnterDuringShared(queue, c) ==
    /\ ~activeExclusive
    /\ IF c \in SafeCalls
       THEN /\ activeShared < SharedLimit
            /\ \A i \in 1..(Position(queue, c) - 1) : queue[i] \in SafeCalls
       ELSE Position(queue, c) = 1

(* Fault: a shared call does not look at the queue. *)
CanEnterBarging(queue, c) ==
    /\ ~activeExclusive
    /\ IF c \in SafeCalls
       THEN activeShared < SharedLimit
       ELSE Position(queue, c) = 1 /\ activeShared = 0

(* _can_enter, for a call at its place in the queue. *)
CanEnter(queue, c) ==
    /\ ~activeExclusive
    /\ IF c \in SafeCalls
       THEN /\ activeShared < SharedLimit
            /\ \A i \in 1..(Position(queue, c) - 1) : queue[i] \in SafeCalls
       ELSE /\ Position(queue, c) = 1
            /\ activeShared = 0

GateInit ==
    /\ waiting = <<>>
    /\ activeShared = 0
    /\ activeExclusive = FALSE
    /\ notified = {}
    /\ cancelled = {}
    /\ inside = {}

(* notify_all: every call that is still suspended in wait() is to run again. *)
NotifyAll == notified' = Queued(waiting')

(* Fault: the token stays in the queue. *)
EnterKeepsToken(queue, c) ==
    /\ CanEnter(queue, c)
    /\ waiting' = queue
    /\ IF c \in SafeCalls
       THEN activeShared' = activeShared + 1 /\ UNCHANGED activeExclusive
       ELSE activeExclusive' = TRUE /\ UNCHANGED activeShared
    /\ inside' = inside \cup {c}
    /\ NotifyAll
    /\ UNCHANGED cancelled

(* The end of _acquire when the predicate holds. *)
Enter(queue, c) ==
    /\ CanEnter(queue, c)
    /\ waiting' = Without(queue, c)
    /\ IF c \in SafeCalls
       THEN activeShared' = activeShared + 1 /\ UNCHANGED activeExclusive
       ELSE activeExclusive' = TRUE /\ UNCHANGED activeShared
    /\ inside' = inside \cup {c}
    /\ NotifyAll
    /\ UNCHANGED cancelled

(* _acquire up to its first suspension, if it suspends. *)
Arrive(c) ==
    LET queue == Append(waiting, c) IN
    /\ c \notin Waiters \cup inside
    /\ \/ Enter(queue, c)
       \/ /\ ~CanEnter(queue, c)
          /\ waiting' = queue
          /\ UNCHANGED <<activeShared, activeExclusive, notified, cancelled, inside>>

(* A woken waiter evaluates the predicate of wait_for again. *)
Recheck(c) ==
    /\ c \in notified \ cancelled
    /\ \/ Enter(waiting, c)
       \/ /\ ~CanEnter(waiting, c)
          /\ notified' = notified \ {c}
          /\ UNCHANGED <<waiting, activeShared, activeExclusive, cancelled, inside>>

(* The task of a waiter is cancelled: CancelledError is due at its await,  *)
(* whether or not its future was resolved before.                          *)
Cancel(c) ==
    /\ c \in Waiters \ cancelled
    /\ cancelled' = cancelled \cup {c}
    /\ UNCHANGED <<waiting, activeShared, activeExclusive, notified, inside>>

(* Fault: the waiter leaves and tells nobody. *)
AbandonSilently(c) ==
    /\ c \in cancelled
    /\ waiting' = Without(waiting, c)
    /\ cancelled' = cancelled \ {c}
    /\ notified' = notified \ {c}
    /\ UNCHANGED <<activeShared, activeExclusive, inside>>

(* The `except BaseException' clause of _acquire. *)
Abandon(c) ==
    /\ c \in cancelled
    /\ waiting' = Without(waiting, c)
    /\ cancelled' = cancelled \ {c}
    /\ NotifyAll
    /\ UNCHANGED <<activeShared, activeExclusive, inside>>

(* Fault: the end of a body notifies nobody. *)
ReleaseSilently(c) ==
    /\ c \in inside
    /\ inside' = inside \ {c}
    /\ IF c \in SafeCalls
       THEN activeShared' = activeShared - 1 /\ UNCHANGED activeExclusive
       ELSE activeExclusive' = FALSE /\ UNCHANGED activeShared
    /\ UNCHANGED <<waiting, cancelled, notified>>

(* The body ends, in whatever way, and the `finally' clause of hold runs. *)
Release(c) ==
    /\ c \in inside
    /\ inside' = inside \ {c}
    /\ IF c \in SafeCalls
       THEN activeShared' = activeShared - 1 /\ UNCHANGED activeExclusive
       ELSE activeExclusive' = FALSE /\ UNCHANGED activeShared
    /\ UNCHANGED <<waiting, cancelled>>
    /\ NotifyAll

GateNext ==
    \E c \in Calls :
        Arrive(c) \/ Recheck(c) \/ Cancel(c) \/ Abandon(c) \/ Release(c)

(* The event loop runs every task that is ready, and a body ends: it       *)
(* returns, raises, or is cancelled by the timeout that surrounds it.      *)
GateFairness ==
    \A c \in Calls :
        WF_gateVars(Recheck(c)) /\ WF_gateVars(Abandon(c)) /\ WF_gateVars(Release(c))

GateSpec == GateInit /\ [][GateNext]_gateVars

FairGateSpec == GateSpec /\ GateFairness

-----------------------------------------------------------------------------
(* The types of the gate's variables; wake-ups and cancellations are due   *)
(* only to calls in the queue, no call is queued twice, and no call is     *)
(* both queued and inside.                                                 *)
GateTypeOK ==
    /\ waiting \in Seq(Calls)
    /\ Distinct(waiting)
    /\ activeShared \in Nat
    /\ activeExclusive \in BOOLEAN
    /\ notified \subseteq Waiters
    /\ cancelled \subseteq Waiters
    /\ inside \subseteq Calls \ Waiters

(* An exclusive call in its body is alone, and at most SharedLimit shared  *)
(* calls are in theirs.  _can_enter only reads two counters and the queue: *)
(* the property is about the calls themselves.                             *)
Exclusion ==
    /\ \A c \in inside \ SafeCalls : inside = {c}
    /\ Cardinality(inside) <= SharedLimit

(* The counters are the calls inside: neither a cancellation nor an abort  *)
(* of _acquire leaks a slot or gives one back twice.                       *)
SlotAccounting ==
    /\ activeShared = Cardinality(inside \cap SafeCalls)
    /\ activeExclusive <=> inside \ SafeCalls # {}

(* Every waiter that could enter now has a wake-up or a cancellation due:  *)
(* no change of the gate's state forgets to notify.                        *)
NoLostWakeup ==
    \A c \in Waiters : CanEnter(waiting, c) => c \in notified \cup cancelled

(* No call enters while an exclusive call that arrived before it is still  *)
(* queued, even one that was cancelled but has not run since; an exclusive *)
(* call enters only from the head of the queue or through an empty one.    *)
NoOvertaking ==
    [][\A c \in inside' \ inside :
         LET queue == IF c \in Waiters THEN waiting ELSE Append(waiting, c)
         IN  \A i \in 1..(Position(queue, c) - 1) :
                 c \in SafeCalls /\ queue[i] \in SafeCalls]_gateVars

(* The calls that wait before each one. *)
Earlier == [c \in Calls |-> IF c \in Waiters THEN Ahead(waiting, c) ELSE {}]

Lock == INSTANCE SharedExclusiveLock
    WITH requests <- Waiters, holders <- inside, ahead <- Earlier

(* The queue, the counters and the notifications implement a lock that     *)
(* knows only who waits before whom and who is inside, and that lets an    *)
(* exclusive call in unless it gives up ("fair exclusive barriers").  The  *)
(* docstring of the gate calls it fair in both modes, but a shared call    *)
(* may be passed for ever by shared calls, which enter from any place in   *)
(* the queue.                                                              *)
ImplementsLock == Lock!FairLockSpec

=============================================================================
