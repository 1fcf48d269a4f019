--------------------------- MODULE KernelSession ---------------------------
(***************************************************************************)
(* astraship.session.KernelSession over one FelixClient: create(), the     *)
(* demultiplexer that mirrors a session's events to the transcript store   *)
(* and hands them to events(), and close().  The reader of the client      *)
(* appends every notification to the queue of every subscriber.  A step is *)
(* what a task does between two suspensions: the demultiplexer handles all *)
(* lines that wait for it in one, since get() suspends only when the queue *)
(* is empty and append() never.                                            *)
(*                                                                         *)
(* The child is the environment: it may publish events of a session once   *)
(* it has answered session/new, at most MaxEvents of each, one malformed   *)
(* event at a time, and it may exit.  prompt() changes no state here.      *)
(***************************************************************************)
EXTENDS Integers, Sequences, SequencesExt

CONSTANTS
    Sessions,
    Persistent,   \* the sessions that have a store
    Size,         \* event_queue_size
    MaxEvents,    \* a bound on the events of each session
    PipeSize,     \* the lines that fit between the child and the reader
    None

ASSUME SessionAssumption ==
    /\ Persistent \subseteq Sessions
    /\ Size \in Nat \ {0}
    /\ MaxEvents \in [Sessions -> Nat]
    /\ PipeSize \in Nat \ {0}
    /\ None \notin Sessions

(* Lines of the child: the response to session/new, and notifications.     *)
Created(s) == [created |-> s]
Event(s, n) == [of |-> s, number |-> n]
Malformed == [of |-> None, number |-> 0]

EventsOf(s) == {Event(s, n) : n \in 1..MaxEvents[s]}
Events == UNION {EventsOf(s) : s \in Sessions}
Failures == [failure : {"malformed", "refused", "overflow"}]   \* exceptions in _events

VARIABLES
    alive,         \* the child runs
    stdout,        \* what the child wrote and the reader has not read
    published,     \* the number of events the child published for a session
    stage,         \* how far the life of a session is
    subscribed,    \* the sessions that have a queue in _notification_subscribers
    subscription,  \* _event_queue
    demux,         \* _demux_task
    events,        \* _events: events, or the exception the consumer is to get
    stored,        \* the transcript of a session
    delivered,     \* the events that the consumer got from events()
    consumer       \* whether the consumer waits in events(), or got an exception

childVars == <<alive, stdout, published>>
queueVars == <<subscribed, subscription, demux, events>>
sessionVars == <<childVars, stage, queueVars, stored, delivered, consumer>>

SessionInit ==
    /\ alive = TRUE
    /\ stdout = <<>>
    /\ published = [s \in Sessions |-> 0]
    /\ stage = [s \in Sessions |-> "none"]
    /\ subscribed = {}
    /\ subscription = [s \in Sessions |-> <<>>]
    /\ demux = [s \in Sessions |-> "none"]
    /\ events = [s \in Sessions |-> <<>>]
    /\ stored = [s \in Sessions |-> <<>>]
    /\ delivered = [s \in Sessions |-> <<>>]
    /\ consumer = [s \in Sessions |-> "waiting"]

-----------------------------------------------------------------------------
(* The child and the reader *)

AnswerNew(s) ==
    /\ alive
    /\ Len(stdout) < PipeSize
    /\ stage[s] = "requesting"
    /\ Created(s) \notin ToSet(stdout)
    /\ stdout' = Append(stdout, Created(s))
    /\ stage' = [stage EXCEPT ![s] = "granted"]
    /\ UNCHANGED <<alive, published, queueVars, stored, delivered, consumer>>

Publish(s) ==
    /\ alive
    /\ Len(stdout) < PipeSize
    /\ stage[s] \notin {"none", "requesting"}
    /\ published[s] < MaxEvents[s]
    /\ published' = [published EXCEPT ![s] = @ + 1]
    /\ stdout' = Append(stdout, Event(s, published'[s]))
    /\ UNCHANGED <<alive, stage, queueVars, stored, delivered, consumer>>

Garble ==
    /\ alive
    /\ Len(stdout) < PipeSize
    /\ \A s \in Sessions : Malformed \notin ToSet(stdout \o subscription[s])
    /\ stdout' = Append(stdout, Malformed)
    /\ UNCHANGED <<alive, published, stage, queueVars, stored, delivered, consumer>>

Exit ==
    /\ alive
    /\ alive' = FALSE
    /\ UNCHANGED <<stdout, published, stage, queueVars, stored, delivered, consumer>>

(* _read_stdout: a response settles the future of the request, if that     *)
(* still waits; a notification goes to every subscriber there is now.      *)
ReadLine ==
    /\ stdout # <<>>
    /\ stdout' = Tail(stdout)
    /\ \/ \E s \in Sessions :
            /\ Head(stdout) = Created(s)
            /\ stage' = [stage EXCEPT ![s] = IF @ = "granted" THEN "answered" ELSE @]
            /\ UNCHANGED subscription
       \/ /\ Head(stdout) \in Events \cup {Malformed}
          /\ subscription' = [s \in Sessions |->
                IF s \in subscribed THEN Append(subscription[s], Head(stdout))
                ELSE subscription[s]]
          /\ UNCHANGED stage
    /\ UNCHANGED <<alive, published, subscribed, demux, events, stored, delivered, consumer>>

-----------------------------------------------------------------------------
(* create() *)

Create(s) ==
    /\ stage[s] = "none"
    /\ stage' = [stage EXCEPT ![s] = "requesting"]
    /\ UNCHANGED <<childVars, queueVars, stored, delivered, consumer>>

(* The request fails, as the child is gone or late, or its result has no   *)
(* session ID.                                                             *)
CreateFails(s) ==
    /\ stage[s] \in {"requesting", "granted", "answered"}
    /\ stage' = [stage EXCEPT ![s] = "failed"]
    /\ UNCHANGED <<childVars, queueVars, stored, delivered, consumer>>

(* The task wakes up with the response, and subscribes only now. *)
CreateReturns(s) ==
    /\ stage[s] = "answered"
    /\ stage' = [stage EXCEPT ![s] = "open"]
    /\ subscribed' = subscribed \cup {s}
    /\ demux' = [demux EXCEPT ![s] = "running"]
    /\ UNCHANGED <<childVars, subscription, events, stored, delivered, consumer>>

-----------------------------------------------------------------------------
(* _demultiplex() *)

(* The lines of a set among the first n, for every n. *)
Among(lines, set) ==
    LET among[n \in 0 .. Len(lines)] ==
          IF n = 0 THEN <<>>
          ELSE IF lines[n] \in set THEN Append(among[n - 1], lines[n]) ELSE among[n - 1]
    IN  among

(* The session's own events among the first lines that wait for it. *)
Own(s, n) == Among(subscription[s], EventsOf(s))[n]

(* The first lines are handled without a failure; those of other sessions  *)
(* are skipped.                                                            *)
Passes(s, n) ==
    /\ \A i \in 1..n : subscription[s][i] # Malformed
    /\ Len(events[s]) + Len(Own(s, n)) <= Size

(* append() is called before the event is put on the queue. *)
Store(s, n) ==
    stored' = IF s \in Persistent THEN [stored EXCEPT ![s] = @ \o Own(s, n)] ELSE stored

(* Fault: the queue has no bound. *)
HandleAllUnbounded(s) ==
    /\ \A i \in DOMAIN subscription[s] : subscription[s][i] # Malformed
    /\ Store(s, Len(subscription[s]))
    /\ events' = [events EXCEPT ![s] = @ \o Own(s, Len(subscription[s]))]
    /\ subscription' = [subscription EXCEPT ![s] = <<>>]
    /\ UNCHANGED demux

(* All lines are handled, and the demultiplexer waits for more. *)
HandleAll(s) ==
    LET n == Len(subscription[s]) IN
    /\ Passes(s, n)
    /\ Store(s, n)
    /\ events' = [events EXCEPT ![s] = @ \o Own(s, n)]
    /\ subscription' = [subscription EXCEPT ![s] = <<>>]
    /\ UNCHANGED demux

(* The demultiplexer ends at a line: what the consumer has not got yet is  *)
(* discarded in favour of the exception.                                   *)
StopAt(s, n, failure) ==
    /\ events' = [events EXCEPT ![s] = <<[failure |-> failure]>>]
    /\ subscription' = [subscription EXCEPT ![s] = SubSeq(@, n + 1, Len(@))]
    /\ demux' = [demux EXCEPT ![s] = "ended"]

HandleMalformed(s) ==
    \E n \in DOMAIN subscription[s] :
        /\ Passes(s, n - 1)
        /\ subscription[s][n] = Malformed
        /\ Store(s, n - 1)
        /\ StopAt(s, n, "malformed")

(* Fault: the consumer gets the event that the store refused. *)
HandleRefusedAnyway(s) ==
    \E n \in DOMAIN subscription[s] :
        /\ Passes(s, n)
        /\ subscription[s][n] \in EventsOf(s)
        /\ s \in Persistent
        /\ Store(s, n - 1)
        /\ events' = [events EXCEPT ![s] = @ \o Own(s, n)]
        /\ subscription' = [subscription EXCEPT ![s] = SubSeq(@, n + 1, Len(@))]
        /\ UNCHANGED demux

(* The store raises. *)
HandleRefused(s) ==
    \E n \in DOMAIN subscription[s] :
        /\ Passes(s, n - 1)
        /\ subscription[s][n] \in EventsOf(s)
        /\ s \in Persistent
        /\ Store(s, n - 1)
        /\ StopAt(s, n, "refused")

(* Fault: the demultiplexer ends without an exception for the consumer. *)
HandleOverflowSilently(s) ==
    \E n \in DOMAIN subscription[s] :
        /\ Passes(s, n - 1)
        /\ subscription[s][n] # Malformed /\ ~Passes(s, n)
        /\ Store(s, n)
        /\ events' = [events EXCEPT ![s] = <<>>]
        /\ subscription' = [subscription EXCEPT ![s] = SubSeq(@, n + 1, Len(@))]
        /\ demux' = [demux EXCEPT ![s] = "ended"]

(* Fault: the event is dropped, and the demultiplexer goes on. *)
HandleOverflowDrops(s) ==
    \E n \in DOMAIN subscription[s] :
        /\ Passes(s, n - 1)
        /\ subscription[s][n] # Malformed /\ ~Passes(s, n)
        /\ Store(s, n)
        /\ events' = [events EXCEPT ![s] = @ \o Own(s, n - 1)]
        /\ subscription' = [subscription EXCEPT ![s] = SubSeq(@, n + 1, Len(@))]
        /\ UNCHANGED demux

(* The queue is full: the event is stored and not delivered. *)
HandleOverflow(s) ==
    \E n \in DOMAIN subscription[s] :
        /\ Passes(s, n - 1)
        /\ subscription[s][n] # Malformed /\ ~Passes(s, n)
        /\ Store(s, n)
        /\ StopAt(s, n, "overflow")

Demultiplex(s) ==
    /\ demux[s] = "running"
    /\ subscription[s] # <<>>
    /\ HandleAll(s) \/ HandleMalformed(s) \/ HandleRefused(s) \/ HandleOverflow(s)
    /\ UNCHANGED <<childVars, stage, subscribed, delivered, consumer>>

-----------------------------------------------------------------------------
(* events() and close() *)

(* The consumer takes an item; an exception ends its iteration.  It may go *)
(* on when the session is closed: events() asks only at its beginning.     *)
Consume(s) ==
    /\ consumer[s] = "waiting"
    /\ events[s] # <<>>
    /\ events' = [events EXCEPT ![s] = Tail(@)]
    /\ \/ /\ Head(events[s]) \in Events
          /\ delivered' = [delivered EXCEPT ![s] = Append(@, Head(events[s]))]
          /\ UNCHANGED consumer
       \/ /\ Head(events[s]) \notin Events
          /\ consumer' = [consumer EXCEPT ![s] = "raised"]
          /\ UNCHANGED delivered
    /\ UNCHANGED <<childVars, stage, subscribed, subscription, demux, stored>>

(* Fault: the demultiplexer is not cancelled. *)
CloseOnly(s) ==
    /\ stage[s] = "open"
    /\ stage' = [stage EXCEPT ![s] = "closing"]
    /\ subscribed' = subscribed \ {s}
    /\ UNCHANGED <<childVars, subscription, demux, events, stored, delivered, consumer>>

(* close() up to its first suspension: a demultiplexer that is cancelled   *)
(* takes nothing more from its queue, though it is awaited later.          *)
BeginClose(s) ==
    /\ stage[s] = "open"
    /\ stage' = [stage EXCEPT ![s] = "closing"]
    /\ subscribed' = subscribed \ {s}
    /\ demux' = [demux EXCEPT ![s] = "ended"]

Close(s) ==
    /\ BeginClose(s)
    /\ UNCHANGED <<childVars, subscription, events, stored, delivered, consumer>>

(* session/close is answered or fails, and the demultiplexer is awaited. *)
CloseReturns(s) ==
    /\ stage[s] = "closing"
    /\ stage' = [stage EXCEPT ![s] = "closed"]
    /\ UNCHANGED <<childVars, queueVars, stored, delivered, consumer>>

-----------------------------------------------------------------------------
SessionNext ==
    \/ \E s \in Sessions :
          \/ AnswerNew(s) \/ Publish(s)
          \/ Create(s) \/ CreateFails(s) \/ CreateReturns(s)
          \/ Demultiplex(s) \/ Consume(s) \/ Close(s) \/ CloseReturns(s)
    \/ Garble \/ Exit \/ ReadLine

SessionSpec == SessionInit /\ [][SessionNext]_sessionVars

-----------------------------------------------------------------------------
(* The types of the variables, with the lines there are on stdout besides  *)
(* the session's; the queue of the consumer is bounded.                    *)
SessionTypes(others) ==
    /\ alive \in BOOLEAN
    /\ stdout \in Seq(Events \cup {Malformed} \cup {Created(s) : s \in Sessions} \cup others)
    /\ published \in [Sessions -> Nat]
    /\ \A s \in Sessions : published[s] <= MaxEvents[s]
    /\ stage \in [Sessions -> {"none", "requesting", "granted", "answered", "open", "closing",
                               "closed", "failed"}]
    /\ subscribed \subseteq Sessions
    /\ subscription \in [Sessions -> Seq(Events \cup {Malformed})]
    /\ demux \in [Sessions -> {"none", "running", "ended"}]
    /\ events \in [Sessions -> Seq(Events) \cup {<<f>> : f \in Failures}]
    /\ \A s \in Sessions : Len(events[s]) <= Size
    /\ stored \in [Sessions -> Seq(Events)]
    /\ delivered \in [Sessions -> Seq(Events)]
    /\ consumer \in [Sessions -> {"waiting", "raised"}]

(* The events in the consumer's queue, if it is not to get an exception. *)
Undelivered(s) == IF ToSet(events[s]) \subseteq Events THEN events[s] ELSE <<>>

(* What the consumer got, what it will get next and what the               *)
(* demultiplexer is still to handle are the session's events one after the *)
(* other, without a gap, a repetition or an event of another session:      *)
(* nothing is dropped silently between the subscription and the consumer.  *)
NoGaps ==
    \A s \in Sessions :
        LET rest == IF demux[s] = "running" THEN Own(s, Len(subscription[s])) ELSE <<>>
            stream == delivered[s] \o Undelivered(s) \o rest
        IN  \A i \in DOMAIN stream :
                /\ stream[i].of = s
                /\ i > 1 => stream[i].number = stream[i - 1].number + 1

(* An event is in the transcript before the consumer can get it, so what   *)
(* was delivered can be replayed; and as long as the session did not fail, *)
(* the consumer gets all that is in the transcript.                        *)
DeliveredIsStored ==
    \A s \in Persistent :
        LET seen == delivered[s] \o Undelivered(s) IN
        /\ IsPrefix(seen, stored[s])
        /\ consumer[s] = "waiting" /\ ToSet(events[s]) \subseteq Events => seen = stored[s]

(* Nothing is stored or queued for a session once close() was called, and  *)
(* the consumer gets nothing after an exception.                           *)
SilentAfterEnd ==
    [][\A s \in Sessions :
         /\ stage[s] \in {"closing", "closed"} =>
              stored'[s] = stored[s] /\ Len(events'[s]) <= Len(events[s])
         /\ consumer[s] = "raised" =>
              delivered'[s] = delivered[s] /\ stored'[s] = stored[s]]_sessionVars

(* A demultiplexer that ended in an open session tells the consumer why:   *)
(* exactly one exception waits for the consumer, or it has been raised.    *)
(* So the consumer never waits for a demultiplexer that will not answer.   *)
EndIsReported ==
    \A s \in Sessions :
        stage[s] = "open" /\ demux[s] = "ended" =>
            IF consumer[s] = "waiting"
            THEN Len(events[s]) = 1 /\ events[s][1] \in Failures
            ELSE events[s] = <<>>

=============================================================================
