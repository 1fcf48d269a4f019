------------------------------- MODULE Queues -------------------------------
(* Waiting lines in which nobody stands twice, as asyncio's locks and the  *)
(* gate's _waiting list keep them.                                         *)
EXTENDS Integers, Sequences, SequencesExt

(* Those who stand in a line. *)
Queued(queue) == {queue[i] : i \in DOMAIN queue}

Distinct(queue) == \A i, j \in DOMAIN queue : queue[i] = queue[j] => i = j

(* The place of somebody in the line. *)
Position(queue, c) == CHOOSE i \in DOMAIN queue : queue[i] = c

(* Those who stand in the line before somebody. *)
Ahead(queue, c) == {queue[i] : i \in 1..(Position(queue, c) - 1)}

(* The line after somebody left it, from wherever they stood. *)
Without(queue, c) ==
    IF c \in Queued(queue) THEN RemoveAt(queue, Position(queue, c)) ELSE queue

=============================================================================
