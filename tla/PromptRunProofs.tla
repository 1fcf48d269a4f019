---------------------------- MODULE PromptRunProofs ----------------------------
(***************************************************************************)
(* The safety properties of PromptRun, for every number of events of the   *)
(* turn and before it, every size of the queue, with a transcript or       *)
(* without.  They rest on the invariant of the session, which the steps of *)
(* the run keep beside those of the child, the reader and the              *)
(* demultiplexer, and on how far the session is at each await of the run.  *)
(***************************************************************************)
EXTENDS PromptRun, KernelSessionProofs

(* What the session may miss: the events before the turn. *)
Missed == [s \in Sessions |-> Early]

ProgramTypes ==
    /\ pc \in {"starting", "creating", "prompting", "iterating", "closing", "stopping", "exited"}
    /\ prompt \in {"none", "sent", "answered", "arrived"}
    /\ error \in {None, "kernel", "session", "state", "interrupt"}
    /\ code \in {None, "success", "failure", "interrupted"}

(* How far the session is at each await of the run. *)
Course ==
    /\ pc = "starting" => stage[Mine] = "none"
    /\ pc = "creating" => stage[Mine] \in {"requesting", "granted", "answered"}
    /\ pc \in {"prompting", "iterating"} => stage[Mine] = "open"
    /\ pc = "closing" => stage[Mine] = "closing"
    /\ pc \in {"stopping", "exited"} => stage[Mine] \in {"none", "failed", "closed"}
    /\ stage[Mine] # "open" => Mine \notin subscribed
    /\ code # None => pc = "exited"

(* No event of the turn is published before the prompt, which is sent when *)
(* the session has subscribed.                                             *)
PromptFirst ==
    /\ pc \in {"starting", "creating"} => prompt = "none"
    /\ prompt = "none" => published[Mine] <= Early

(* A run on its way out without an exception has taken the whole turn. *)
TurnTaken ==
    (pc \in {"closing", "stopping"} /\ error = None) \/ code = "success" =>
        UpTo(delivered[Mine], Mine, TurnEnd, Early)

PromptInvariant ==
    /\ SessionInvariant({Receipt}, Missed)
    /\ ProgramTypes /\ Course /\ PromptFirst /\ TurnTaken

-----------------------------------------------------------------------------
(* The only session, and the bounds of its events. *)
LEMMA OnlySession ==
    /\ Sessions = {Mine} /\ Mine \in Sessions
    /\ Missed \in [Sessions -> Nat] /\ Missed[Mine] = Early
    /\ Early \in Nat /\ TurnEnd \in Nat /\ Early < TurnEnd /\ TurnEnd = MaxEvents[Mine]
  <1>1. Sessions = {Mine} /\ Early \in 0..(TurnEnd - 1)
    BY PromptAssumption
  <1>2. TurnEnd \in Nat /\ TurnEnd = MaxEvents[Mine]
    BY <1>1, SessionAssumption DEF TurnEnd
  <1>3. Early \in Nat /\ Early < TurnEnd
    BY <1>1, <1>2
  <1> QED
    BY <1>1, <1>2, <1>3 DEF Missed

(* The response to the prompt is no line of a session. *)
LEMMA ReceiptApart ==
    /\ Receipt \notin Events \cup {Malformed} \cup {Created(s) : s \in Sessions}
    /\ \A s \in Sessions : Receipt \notin EventsOf(s)
  <1>1. DOMAIN Receipt = {"receipt"}
    BY DEF Receipt
  <1>2. \A line \in Events \cup {Malformed} : DOMAIN line = {"of", "number"}
    BY DEF Events, EventsOf, Event, Malformed
  <1>3. \A s \in Sessions : DOMAIN Created(s) = {"created"}
    BY DEF Created
  <1>4. \A s \in Sessions : EventsOf(s) \subseteq Events
    BY WhoseLine
  <1> QED
    BY <1>1, <1>2, <1>3, <1>4

(* A session that subscribes has missed no event of the turn. *)
LEMMA MissedBefore ==
    ASSUME PromptInvariant
    PROVE  \A s \in Sessions : CreateReturns(s) => published[s] <= Missed[s]
  <1> SUFFICES ASSUME CreateReturns(Mine) PROVE published[Mine] <= Missed[Mine]
    BY OnlySession
  <1>1. stage[Mine] = "answered"
    BY DEF CreateReturns
  <1>2. pc = "creating"
    BY <1>1 DEF PromptInvariant, ProgramTypes, Course
  <1> QED
    BY <1>2, OnlySession DEF PromptInvariant, PromptFirst

(* A step that is one of the session's own. *)
LEMMA OwnStep ==
    ASSUME PromptInvariant, [SessionNext]_sessionVars
    PROVE  SessionInvariant({Receipt}, Missed)'
  BY MissedBefore, OnlySession, SessionStep DEF PromptInvariant

(* The response to the prompt is written and read. *)
LEMMA ReceiptStep ==
    ASSUME PromptInvariant,
           UNCHANGED <<alive, published, stage, queueVars, stored, delivered, consumer>>,
           \/ stdout' = Append(stdout, Receipt)
           \/ stdout # <<>> /\ Head(stdout) = Receipt /\ stdout' = Tail(stdout)
    PROVE  SessionInvariant({Receipt}, Missed)'
  <1> USE DEF queueVars
  <1>1. SessionTypes({Receipt}) /\ Sound(Mine, Early) /\ stdout \in Seq(Lines({Receipt}))
    BY OnlySession DEF PromptInvariant, SessionInvariant, SessionTypes, Lines
  <1>2. published[Mine] \in Nat
    BY <1>1, OnlySession DEF SessionTypes
  <1>3. Receipt \in Lines({Receipt}) /\ Receipt \notin EventsOf(Mine)
    BY OnlySession, ReceiptApart DEF Lines
  <1>4. stdout' \in Seq(Lines({Receipt}))
    BY <1>1, <1>3
  <1>5. SessionTypes({Receipt})'
    BY <1>1, <1>4 DEF SessionTypes, Lines
  <1>6. ASSUME NEW last \in 0 .. published[Mine], ComesAfter(stdout, Mine, last, published[Mine])
        PROVE  ComesAfter(stdout', Mine, last, published[Mine])
    <2>1. last \in Nat /\ last <= published[Mine]
      BY <1>2
    <2>2. CASE stdout' = Append(stdout, Receipt)
      BY <1>1, <1>2, <1>3, <1>6, <2>1, <2>2, OnlySession, LineComes
    <2>3. CASE stdout # <<>> /\ Head(stdout) = Receipt /\ stdout' = Tail(stdout)
      BY <1>1, <1>2, <1>3, <1>6, <2>1, <2>3, OnlySession, LineRead
    <2> QED
      BY <2>2, <2>3
  <1>7. Sound(Mine, Early)'
    BY <1>1, <1>6, OnlySession, Untouched
  <1> QED
    BY <1>5, <1>7, OnlySession DEF SessionInvariant


(* A blank prompt: the session is closed as it was opened. *)
LEMMA RefuseStep ==
    ASSUME PromptInvariant, RefuseBlank
    PROVE  SessionInvariant({Receipt}, Missed)'
  <1> USE DEF childVars
  <1>1. /\ SessionTypes({Receipt}) /\ Life(Mine) /\ Recorded(Mine)
        /\ stage \in [Sessions -> {"none", "requesting", "granted", "answered", "open", "closing",
                                   "closed", "failed"}]
        /\ demux \in [Sessions -> {"none", "running", "ended"}]
    BY OnlySession DEF PromptInvariant, SessionInvariant, SessionTypes, Sound
  <1>2. /\ stage[Mine] = "answered" /\ stage' = [stage EXCEPT ![Mine] = "closing"]
        /\ demux' = [demux EXCEPT ![Mine] = "ended"]
        /\ UNCHANGED <<alive, stdout, published, subscribed, subscription, events, stored,
                       delivered, consumer>>
    BY DEF RefuseBlank
  <1>3. SessionTypes({Receipt})'
    BY <1>1, <1>2 DEF SessionTypes
  <1>4. /\ demux[Mine] = "none" /\ consumer[Mine] = "waiting"
        /\ events[Mine] = <<>> /\ delivered[Mine] = <<>>
    BY <1>1, <1>2, OnlySession DEF Life
  <1>5. stage'[Mine] = "closing" /\ demux'[Mine] = "ended"
    BY <1>1, <1>2, OnlySession
  <1>6. Life(Mine)'
    BY <1>2, <1>4, <1>5 DEF Life
  <1>7. Recorded(Mine)'
    BY <1>1, <1>2 DEF Recorded
  <1>8. (delivered[Mine] \o Undelivered(Mine))' = <<>>
    BY <1>2, <1>4 DEF Undelivered
  <1>9. UpTo(<<>>, Mine, 0, Early)
    BY OnlySession DEF UpTo
  <1>10. Gapless(Mine, Early)'
    BY <1>5, <1>8, <1>9 DEF Gapless
  <1> QED
    BY <1>3, <1>6, <1>7, <1>10, OnlySession DEF SessionInvariant, Sound

-----------------------------------------------------------------------------
(* The loop over the events *)

(* The queue of the consumer up to an item and from there. *)
LEMMA QueueDivides ==
    ASSUME NEW queue \in Seq(Events) \cup {<<f>> : f \in Failures}, NEW i \in DOMAIN queue
    PROVE  /\ SubSeq(queue, i + 1, Len(queue)) \in Seq(Events)
           /\ Len(SubSeq(queue, i + 1, Len(queue))) <= Len(queue)
           /\ queue[i] \in Events =>
                 /\ queue \in Seq(Events) /\ SubSeq(queue, 1, i) \in Seq(Events)
                 /\ Len(SubSeq(queue, 1, i)) = i /\ SubSeq(queue, 1, i)[i] = queue[i]
                 /\ SubSeq(queue, 1, i) \o SubSeq(queue, i + 1, Len(queue)) = queue
           /\ queue[i] \in Failures =>
                 queue \notin Seq(Events) /\ SubSeq(queue, i + 1, Len(queue)) = <<>>
  <1>1. Len(queue) \in Nat /\ DOMAIN queue = 1 .. Len(queue) /\ i \in 1 .. Len(queue)
    OBVIOUS
  <1>2. CASE queue \in Seq(Events)
    <2> DEFINE begin == SubSeq(queue, 1, i)
               rest == SubSeq(queue, i + 1, Len(queue))
    <2>1. \A k \in 1..i : queue[k] \in Events
      BY <1>1, <1>2
    <2>2. /\ begin \in Seq(Events) /\ Len(begin) = i
          /\ \A k \in 1 .. i : begin[k] = queue[k]
      BY <1>1, <2>1
    <2>3. rest \in Seq(Events) /\ Len(rest) <= Len(queue)
      BY <1>1, <1>2
    <2>4. begin \o rest = SubSeq(queue, 1, Len(queue))
      <3>1. /\ 1 \in 1 .. Len(queue) + 1 /\ i \in 1 - 1 .. Len(queue)
            /\ Len(queue) \in i .. Len(queue)
        BY <1>1
      <3> QED
        BY <1>2, <3>1, ConcatAdjacentSubSeq
    <2>5. SubSeq(queue, 1, Len(queue)) = queue
      BY <1>2, SubSeqFull
    <2>6. queue[i] \in Events /\ queue[i] \notin Failures
      BY <1>1, <1>2, WhoseLine
    <2>7. begin[i] = queue[i]
      BY <1>1, <2>2
    <2> HIDE DEF begin, rest
    <2> QED
      BY <1>2, <2>2, <2>3, <2>4, <2>5, <2>6, <2>7 DEF begin, rest
  <1>3. CASE \E f \in Failures : queue = <<f>>
    <2>1. PICK f \in Failures : queue = <<f>>
      BY <1>3
    <2>2. i = 1 /\ queue[i] = f /\ Len(queue) = 1
      BY <1>1, <2>1
    <2>3. SubSeq(queue, i + 1, Len(queue)) = <<>>
      BY <2>2
    <2>4. queue[i] \notin Events /\ queue \notin Seq(Events)
      BY <2>1, <2>2, FailureApart, WhoseLine
    <2> QED
      BY <2>2, <2>3, <2>4
  <1> QED
    BY <1>2, <1>3

(* The run takes all that there is, and waits for more. *)
LEMMA TakesAll ==
    ASSUME PromptInvariant, stage[Mine] = "open", Stops = {},
           delivered' = [delivered EXCEPT ![Mine] = @ \o events[Mine]],
           events' = [events EXCEPT ![Mine] = <<>>],
           UNCHANGED <<childVars, stage, subscribed, subscription, demux, stored, consumer>>
    PROVE  SessionInvariant({Receipt}, Missed)'
  <1> USE DEF childVars
  <1> DEFINE before == delivered[Mine]
             queue == events[Mine]
  <1>1. /\ SessionTypes({Receipt}) /\ Life(Mine) /\ Recorded(Mine) /\ Gapless(Mine, Early)
        /\ events \in [Sessions -> Seq(Events) \cup {<<f>> : f \in Failures}]
        /\ delivered \in [Sessions -> Seq(Events)] /\ stored[Mine] \in Seq(Events)
        /\ subscription[Mine] \in Seq(Events \cup {Malformed})
        /\ demux[Mine] \in {"none", "running", "ended"}
        /\ consumer[Mine] \in {"waiting", "raised"}
    BY OnlySession, SessionAssumption DEF PromptInvariant, SessionInvariant, SessionTypes, Sound
  <1>2. queue \in Seq(Events)
    <2>1. ASSUME NEW f \in Failures, queue = <<f>> PROVE 1 \in Stops
      BY <2>1 DEF Stops
    <2> QED
      BY <1>1, <2>1, OnlySession
  <1>3. before \o queue \in Seq(Events) /\ before \in Seq(Events)
    BY <1>1, <1>2, OnlySession
  <1>4. delivered'[Mine] = before \o queue /\ events'[Mine] = <<>>
    BY <1>1, OnlySession
  <1>5. SessionTypes({Receipt})'
    <2>1. delivered' \in [Sessions -> Seq(Events)]
      BY <1>1, <1>3
    <2>2. /\ events' \in [Sessions -> Seq(Events) \cup {<<f>> : f \in Failures}]
          /\ \A s \in Sessions : Len(events'[s]) <= Size
      <3>1. <<>> \in Seq(Events) /\ Len(<<>>) = 0 /\ Size \in Nat
        BY SessionAssumption
      <3>2. events' \in [Sessions -> Seq(Events) \cup {<<f>> : f \in Failures}]
        BY <1>1, <3>1
      <3>3. Len(events'[Mine]) <= Size
        BY <1>4, <3>1
      <3> QED
        BY <3>2, <3>3, OnlySession
    <2> QED
      BY <1>1, <2>1, <2>2 DEF SessionTypes
  <1>6. delivered'[Mine] \o events'[Mine] = before \o queue
    BY <1>3, <1>4, ConcatEmptySeq, Zenon
  <1>7. demux[Mine] \in {"running", "ended"}
    BY <1>1 DEF Life
  <1>8. Life(Mine)'
    <2>1. ~(demux[Mine] = "ended" /\ consumer[Mine] = "waiting")
      <3> SUFFICES ASSUME demux[Mine] = "ended", consumer[Mine] = "waiting" PROVE FALSE
        OBVIOUS
      <3>1. Len(queue) = 1 /\ queue[1] \in Failures
        BY <1>1 DEF Life
      <3>2. queue[1] \in Events
        BY <1>2, <3>1
      <3> QED
        BY <3>1, <3>2, WhoseLine
    <2>2. <<>> \in Seq(Events)
      OBVIOUS
    <2> QED
      BY <1>1, <1>4, <1>7, <2>1, <2>2 DEF Life
  <1>9. Recorded(Mine)'
    <2>1. CASE consumer[Mine] = "waiting"
      <3>1. Mine \in Persistent => stored[Mine] = before \o queue
        BY <1>1, <1>2, <2>1 DEF Recorded
      <3>2. IsPrefix(before \o queue, before \o queue)
        BY <1>3 DEF IsPrefix
      <3> QED
        BY <1>4, <1>6, <3>1, <3>2 DEF Recorded
    <2>2. CASE consumer[Mine] = "raised"
      <3>1. queue = <<>>
        BY <1>1, <2>2 DEF Life
      <3>2. delivered'[Mine] = before
        BY <1>3, <1>4, <3>1, ConcatEmptySeq, Zenon
      <3> QED
        BY <1>1, <2>2, <3>2 DEF Recorded
    <2> QED
      BY <1>1, <2>1, <2>2
  <1>10. Gapless(Mine, Early)'
    <2>1. CASE demux[Mine] = "running"
      <3>1. PICK last \in 0 .. published[Mine] :
               /\ ComesAfter(stdout, Mine, last, published[Mine])
               /\ UpTo(Handled(Mine), Mine, last, Early)
        BY <1>1, <2>1 DEF Gapless
      <3>2. Own(Mine, Len(subscription[Mine]))' = Own(Mine, Len(subscription[Mine]))
        BY DEF Own
      <3>3. Handled(Mine)' = Handled(Mine)
        BY <1>6, <3>2 DEF Handled
      <3> QED
        BY <2>1, <3>1, <3>3 DEF Gapless
    <2>2. CASE demux[Mine] = "ended"
      <3>1. Undelivered(Mine) = queue /\ Undelivered(Mine)' = <<>>
        BY <1>2, <1>4, FailureApart DEF Undelivered
      <3>2. (delivered[Mine] \o Undelivered(Mine))' = delivered[Mine] \o Undelivered(Mine)
        BY <1>4, <1>6, <3>1
      <3> QED
        BY <1>1, <2>2, <3>2 DEF Gapless
    <2> QED
      BY <1>7, <2>1, <2>2
  <1> QED
    BY <1>5, <1>8, <1>9, <1>10, OnlySession DEF SessionInvariant, Sound

(* The run stops at the last event of the turn: what it has not taken is *)
(* left in the queue.                                                    *)
LEMMA TakesTurn ==
    ASSUME PromptInvariant, NEW i \in Stops, events[Mine][i] \in Events,
           events' = [events EXCEPT ![Mine] = SubSeq(@, i + 1, Len(@))],
           delivered' = [delivered EXCEPT ![Mine] = @ \o SubSeq(events[Mine], 1, i)],
           BeginClose(Mine),
           UNCHANGED <<childVars, subscription, stored, consumer>>
    PROVE  /\ SessionInvariant({Receipt}, Missed)'
           /\ UpTo(delivered'[Mine], Mine, TurnEnd, Early)
  <1> USE DEF childVars
  <1> DEFINE before == delivered[Mine]
             queue == events[Mine]
             taken == SubSeq(queue, 1, i)
             rest == SubSeq(queue, i + 1, Len(queue))
  <1>1. /\ SessionTypes({Receipt}) /\ Life(Mine) /\ Recorded(Mine) /\ Gapless(Mine, Early)
        /\ queue \in Seq(Events) \cup {<<f>> : f \in Failures}
        /\ events \in [Sessions -> Seq(Events) \cup {<<f>> : f \in Failures}]
        /\ delivered \in [Sessions -> Seq(Events)] /\ before \in Seq(Events)
        /\ stored[Mine] \in Seq(Events)
        /\ stage \in [Sessions -> {"none", "requesting", "granted", "answered", "open", "closing",
                                   "closed", "failed"}]
        /\ demux \in [Sessions -> {"none", "running", "ended"}]
        /\ demux[Mine] \in {"none", "running", "ended"}
        /\ consumer[Mine] \in {"waiting", "raised"}
        /\ subscribed \subseteq Sessions
    <2>1. SessionTypes({Receipt}) /\ Sound(Mine, Early)
      BY OnlySession DEF PromptInvariant, SessionInvariant
    <2> QED
      BY <2>1, OnlySession DEF SessionTypes, Sound
  <1>2. /\ stage[Mine] = "open" /\ stage'[Mine] = "closing" /\ demux'[Mine] = "ended"
        /\ stage' = [stage EXCEPT ![Mine] = "closing"]
        /\ subscribed' = subscribed \ {Mine}
        /\ demux' = [demux EXCEPT ![Mine] = "ended"]
    BY <1>1, OnlySession DEF BeginClose
  <1>3. i \in DOMAIN queue /\ queue[i] = Event(Mine, TurnEnd)
    BY WhoseLine DEF Stops
  <1>4. /\ queue \in Seq(Events) /\ taken \in Seq(Events) /\ rest \in Seq(Events)
        /\ Len(rest) <= Len(queue) /\ Len(taken) = i /\ taken[i] = queue[i]
        /\ taken \o rest = queue
    BY <1>1, <1>3, QueueDivides
  <1>5. delivered'[Mine] = before \o taken /\ events'[Mine] = rest
    BY <1>1, OnlySession
  <1> HIDE DEF taken, rest
  <1>6. before \o taken \in Seq(Events)
    BY <1>1, <1>4
  <1>7. (before \o taken) \o rest = before \o queue
    <2>1. (before \o taken) \o rest = before \o (taken \o rest)
      BY <1>1, <1>4, EventsConcat, Zenon
    <2> QED
      BY <1>4, <2>1
  <1>8. SessionTypes({Receipt})'
    <2>1. delivered' \in [Sessions -> Seq(Events)]
      BY <1>1, <1>6 DEF taken
    <2>2. /\ events' \in [Sessions -> Seq(Events) \cup {<<f>> : f \in Failures}]
          /\ \A s \in Sessions : Len(events'[s]) <= Size
      <3>1. events' \in [Sessions -> Seq(Events) \cup {<<f>> : f \in Failures}]
        BY <1>1, <1>4 DEF rest
      <3>2. Len(rest) <= Size
        <4>1. Len(queue) <= Size
          BY <1>1, OnlySession DEF SessionTypes
        <4>2. Len(queue) \in Nat /\ Len(rest) \in Nat /\ Size \in Nat
          BY <1>4, SessionAssumption
        <4> QED
          BY <1>4, <4>1, <4>2
      <3> QED
        BY <1>5, <3>1, <3>2, OnlySession
    <2>3. /\ stage' \in [Sessions -> {"none", "requesting", "granted", "answered", "open",
                                      "closing", "closed", "failed"}]
          /\ demux' \in [Sessions -> {"none", "running", "ended"}]
          /\ subscribed' \subseteq Sessions
      BY <1>1, <1>2
    <2> QED
      BY <1>1, <2>1, <2>2, <2>3 DEF SessionTypes
  <1>9. consumer[Mine] = "waiting" /\ demux[Mine] = "running"
    <2>1. queue # <<>>
      BY <1>3
    <2>2. queue[1] \notin Failures
      <3>1. 1 \in DOMAIN queue
        BY <1>4, <2>1
      <3> QED
        BY <1>4, <3>1, WhoseLine
    <2> QED
      BY <1>1, <1>2, <2>1, <2>2 DEF Life
  <1>10. Life(Mine)'
    BY <1>2, <1>9 DEF Life
  <1>11. Recorded(Mine)'
    <2>1. Mine \in Persistent => stored[Mine] = (before \o taken) \o rest
      BY <1>1, <1>4, <1>7, <1>9 DEF Recorded
    <2>2. Mine \in Persistent => IsPrefix(before \o taken, stored[Mine])
      BY <1>4, <1>6, <2>1, PrefixOfConcat
    <2> QED
      BY <1>5, <2>1, <2>2 DEF Recorded
  <1>12. \E last \in Int : UpTo((before \o taken) \o rest, Mine, last, Early)
    <2> DEFINE own == Own(Mine, Len(subscription[Mine]))
    <2>1. own \in Seq(Events)
      <3>1. subscription[Mine] \in Seq(Events \cup {Malformed})
        BY <1>1, OnlySession DEF SessionTypes
      <3>2. Len(subscription[Mine]) \in 0 .. Len(subscription[Mine])
        BY <3>1
      <3> QED
        BY <1>1, <3>2, OnlySession, OwnType
    <2>2. PICK last \in Int : UpTo(Handled(Mine), Mine, last, Early)
      BY <1>1, <1>9 DEF Gapless
    <2>3. Handled(Mine) = (before \o queue) \o own
      BY DEF Handled
    <2> HIDE DEF own
    <2>4. before \o queue \in Seq(Events) /\ Len(own) \in Int
      BY <1>1, <1>4, <2>1
    <2> HIDE DEF before, queue
    <2>5. UpTo(before \o queue, Mine, last - Len(own), Early)
      BY <2>1, <2>2, <2>3, <2>4, UpToBegins
    <2> QED
      BY <1>7, <2>4, <2>5
  <1>13. PICK last \in Int : UpTo((before \o taken) \o rest, Mine, last, Early)
    BY <1>12
  <1>14. Gapless(Mine, Early)'
    <2>1. Undelivered(Mine)' = rest
      BY <1>4, <1>5, FailureApart DEF Undelivered
    <2>2. (delivered[Mine] \o Undelivered(Mine))' = (before \o taken) \o rest
      BY <1>5, <2>1
    <2> QED
      BY <1>2, <1>13, <2>2 DEF Gapless
  <1>15. UpTo(before \o taken, Mine, TurnEnd, Early)
    <2> DEFINE all == before \o taken
    <2>1. /\ Len(all) = Len(before) + i /\ Len(before) \in Nat /\ i \in Nat /\ i > 0
          /\ DOMAIN all = 1 .. Len(all) /\ all[Len(all)] = taken[i]
      <3>1. i \in Nat /\ i > 0
        BY <1>3, <1>4
      <3> HIDE DEF before
      <3>2. before \in Seq(Events) /\ taken \in Seq(Events) /\ Len(taken) = i
        BY <1>1, <1>4
      <3>3. Len(all) = Len(before) + i /\ Len(before) \in Nat /\ DOMAIN all = 1 .. Len(all)
        BY <3>2
      <3>4. all[Len(before) + i] = taken[i]
        BY <3>1, <3>2
      <3> QED
        BY <3>1, <3>3, <3>4
    <2> HIDE DEF all
    <2>2. UpTo(all, Mine, last - Len(rest), Early)
      BY <1>4, <1>6, <1>13, UpToBegins DEF all
    <2>3. all[Len(all)] = Event(Mine, last - Len(rest) - Len(all) + Len(all))
      <3>1. Len(all) \in DOMAIN all
        BY <2>1
      <3> QED
        BY <2>2, <3>1 DEF UpTo
    <2>4. last - Len(rest) - Len(all) + Len(all) = TurnEnd
      BY <1>3, <1>4, <2>1, <2>3 DEF Event
    <2>5. last - Len(rest) = TurnEnd
      BY <1>4, <2>1, <2>4
    <2> QED
      BY <2>2, <2>5 DEF all
  <1> QED
    BY <1>5, <1>8, <1>10, <1>11, <1>14, <1>15, OnlySession DEF SessionInvariant, Sound

(* The exception that ends the iteration is all there is in the queue. *)
LEMMA TakesFailure ==
    ASSUME PromptInvariant, NEW i \in Stops, events[Mine][i] \in Failures,
           events' = [events EXCEPT ![Mine] = SubSeq(@, i + 1, Len(@))],
           consumer' = [consumer EXCEPT ![Mine] = "raised"],
           BeginClose(Mine),
           UNCHANGED <<childVars, subscription, stored, delivered>>
    PROVE  SessionInvariant({Receipt}, Missed)'
  <1> USE DEF childVars
  <1> DEFINE queue == events[Mine]
             rest == SubSeq(queue, i + 1, Len(queue))
  <1>1. /\ SessionTypes({Receipt}) /\ Life(Mine) /\ Recorded(Mine) /\ Gapless(Mine, Early)
        /\ queue \in Seq(Events) \cup {<<f>> : f \in Failures}
        /\ events \in [Sessions -> Seq(Events) \cup {<<f>> : f \in Failures}]
        /\ stage \in [Sessions -> {"none", "requesting", "granted", "answered", "open", "closing",
                                   "closed", "failed"}]
        /\ demux \in [Sessions -> {"none", "running", "ended"}]
        /\ demux[Mine] \in {"none", "running", "ended"}
        /\ consumer \in [Sessions -> {"waiting", "raised"}]
        /\ subscribed \subseteq Sessions
    BY OnlySession DEF PromptInvariant, SessionInvariant, SessionTypes, Sound
  <1>2. /\ stage[Mine] = "open" /\ stage'[Mine] = "closing" /\ demux'[Mine] = "ended"
        /\ consumer'[Mine] = "raised"
        /\ stage' = [stage EXCEPT ![Mine] = "closing"]
        /\ subscribed' = subscribed \ {Mine}
        /\ demux' = [demux EXCEPT ![Mine] = "ended"]
    BY <1>1, OnlySession DEF BeginClose
  <1>3. i \in DOMAIN queue
    BY DEF Stops
  <1>4. queue \notin Seq(Events) /\ rest = <<>>
    BY <1>1, <1>3, QueueDivides
  <1> HIDE DEF rest
  <1>5. events'[Mine] = <<>>
    BY <1>1, <1>4, OnlySession DEF rest
  <1>6. SessionTypes({Receipt})'
    <2>1. <<>> \in Seq(Events) /\ Len(<<>>) = 0 /\ Size \in Nat
      BY SessionAssumption
    <2>2. events' \in [Sessions -> Seq(Events) \cup {<<f>> : f \in Failures}]
      BY <1>1, <1>4, <2>1 DEF rest
    <2>3. \A s \in Sessions : Len(events'[s]) <= Size
      <3>1. Len(events'[Mine]) = 0
        BY <1>5, <2>1, Zenon
      <3>2. 0 <= Size
        BY <2>1
      <3> QED
        BY <3>1, <3>2, OnlySession, Zenon
    <2>4. /\ stage' \in [Sessions -> {"none", "requesting", "granted", "answered", "open",
                                      "closing", "closed", "failed"}]
          /\ demux' \in [Sessions -> {"none", "running", "ended"}]
          /\ consumer' \in [Sessions -> {"waiting", "raised"}]
          /\ subscribed' \subseteq Sessions
      BY <1>1, <1>2
    <2> QED
      BY <1>1, <2>2, <2>3, <2>4 DEF SessionTypes
  <1>7. demux[Mine] = "ended"
    <2>1. queue # <<>>
      BY <1>3
    <2> QED
      BY <1>1, <1>4, <2>1 DEF Life
  <1>8. Life(Mine)'
    BY <1>2, <1>5 DEF Life
  <1>9. Recorded(Mine)'
    BY <1>1, <1>2 DEF Recorded
  <1>10. Undelivered(Mine) = <<>> /\ Undelivered(Mine)' = <<>>
    BY <1>1, <1>4, <1>5, FailureApart DEF Undelivered
  <1>11. Gapless(Mine, Early)'
    BY <1>1, <1>2, <1>7, <1>10 DEF Gapless
  <1> QED
    BY <1>6, <1>8, <1>9, <1>11, OnlySession DEF SessionInvariant, Sound

(* The loop, up to where it waits or begins to close the session. *)
LEMMA IterateStep ==
    ASSUME PromptInvariant, pc \in {"prompting", "iterating"}, Iterate
    PROVE  /\ SessionInvariant({Receipt}, Missed)'
           /\ \/ pc' = "iterating" /\ UNCHANGED <<stage, subscribed, error>>
              \/ /\ BeginClose(Mine) /\ pc' = "closing"
                 /\ \/ error' = "session"
                    \/ error' = error /\ UpTo(delivered'[Mine], Mine, TurnEnd, Early)
           /\ UNCHANGED <<childVars, prompt, code>>
  <1>1. UNCHANGED <<childVars, subscription, stored, prompt, code>>
    BY DEF Iterate
  <1>2. stage[Mine] = "open"
    BY DEF PromptInvariant, Course
  <1>3. CASE /\ Stops = {}
             /\ delivered' = [delivered EXCEPT ![Mine] = @ \o events[Mine]]
             /\ events' = [events EXCEPT ![Mine] = <<>>]
             /\ pc' = "iterating"
             /\ UNCHANGED <<stage, subscribed, demux, consumer, error>>
    BY <1>1, <1>2, <1>3, TakesAll
  <1>4. ASSUME NEW i \in Stops,
               events' = [events EXCEPT ![Mine] = SubSeq(@, i + 1, Len(@))],
               events[Mine][i] \in Events,
               delivered' = [delivered EXCEPT ![Mine] = @ \o SubSeq(events[Mine], 1, i)],
               Leave(error), UNCHANGED consumer
        PROVE  /\ SessionInvariant({Receipt}, Missed)'
               /\ BeginClose(Mine) /\ pc' = "closing" /\ error' = error
               /\ UpTo(delivered'[Mine], Mine, TurnEnd, Early)
    BY <1>1, <1>4, TakesTurn DEF Leave
  <1>5. ASSUME NEW i \in Stops,
               events' = [events EXCEPT ![Mine] = SubSeq(@, i + 1, Len(@))],
               events[Mine][i] \in Failures,
               consumer' = [consumer EXCEPT ![Mine] = "raised"],
               Leave("session"), UNCHANGED delivered
        PROVE  /\ SessionInvariant({Receipt}, Missed)'
               /\ BeginClose(Mine) /\ pc' = "closing" /\ error' = "session"
    BY <1>1, <1>5, TakesFailure DEF Leave
  <1> QED
    BY <1>1, <1>3, <1>4, <1>5 DEF Iterate

-----------------------------------------------------------------------------
(* The invariant from step to step *)

LEMMA EnvironmentStep ==
    ASSUME PromptInvariant, Environment
    PROVE  PromptInvariant'
  <1> USE DEF childVars, queueVars, promptVars
  <1>1. /\ SessionTypes({Receipt}) /\ ProgramTypes /\ Course /\ PromptFirst /\ TurnTaken
        /\ stage \in [Sessions -> {"none", "requesting", "granted", "answered", "open", "closing",
                                   "closed", "failed"}]
        /\ published \in [Sessions -> Nat] /\ Mine \in Sessions /\ Early \in Nat
    BY OnlySession DEF PromptInvariant, SessionInvariant, SessionTypes
  <1> SUFFICES /\ SessionInvariant({Receipt}, Missed)'
               /\ ProgramTypes' /\ Course' /\ PromptFirst' /\ TurnTaken'
    BY DEF PromptInvariant
  <1>2. ASSUME SessionNext, UNCHANGED <<promptVars, subscribed, published, delivered>>,
               \/ stage'[Mine] = stage[Mine]
               \/ /\ stage[Mine] \in {"requesting", "granted"}
                  /\ stage'[Mine] \in {"granted", "answered"}
        PROVE  /\ SessionInvariant({Receipt}, Missed)'
               /\ ProgramTypes' /\ Course' /\ PromptFirst' /\ TurnTaken'
    <2>1. SessionInvariant({Receipt}, Missed)'
      BY <1>2, OwnStep
    <2>2. ProgramTypes' /\ PromptFirst' /\ TurnTaken'
      BY <1>1, <1>2 DEF ProgramTypes, PromptFirst, TurnTaken
    <2>3. Course'
      BY <1>1, <1>2 DEF ProgramTypes, Course
    <2> QED
      BY <2>1, <2>2, <2>3
  <1>3. CASE AnswerNew(Mine) /\ UNCHANGED promptVars
    <2>1. SessionNext
      BY <1>1, <1>3 DEF SessionNext
    <2>2. /\ stage[Mine] = "requesting" /\ stage'[Mine] = "granted"
          /\ UNCHANGED <<subscribed, published, delivered>>
      BY <1>1, <1>3 DEF AnswerNew
    <2> QED
      BY <1>2, <1>3, <2>1, <2>2
  <1>4. CASE (Garble \/ Exit) /\ UNCHANGED promptVars
    <2>1. SessionNext /\ UNCHANGED <<stage, subscribed, published, delivered>>
      BY <1>4 DEF SessionNext, Garble, Exit
    <2> QED
      BY <1>2, <1>4, <2>1
  <1>5. CASE ReadLine /\ UNCHANGED promptVars
    <2>1. SessionNext /\ UNCHANGED <<subscribed, published, delivered>>
      BY <1>5 DEF SessionNext, ReadLine
    <2>2. \/ stage' = stage
          \/ stage' = [stage EXCEPT ![Mine] = IF @ = "granted" THEN "answered" ELSE @]
      BY <1>5, OnlySession DEF ReadLine
    <2>3. \/ stage'[Mine] = stage[Mine]
          \/ stage[Mine] = "granted" /\ stage'[Mine] = "answered"
      BY <1>1, <2>2
    <2> QED
      BY <1>2, <1>5, <2>1, <2>3
  <1>6. CASE Demultiplex(Mine) /\ UNCHANGED promptVars
    <2>1. SessionNext /\ UNCHANGED <<stage, subscribed, published, delivered>>
      BY <1>1, <1>6 DEF SessionNext, Demultiplex
    <2> QED
      BY <1>2, <1>6, <2>1
  <1>7. CASE PublishInTurn
    <2>1. /\ Publish(Mine) /\ UNCHANGED promptVars
          /\ published'[Mine] > Early => prompt # "none"
          /\ UNCHANGED <<stage, subscribed, delivered>>
      BY <1>7 DEF PublishInTurn, Publish
    <2>2. SessionInvariant({Receipt}, Missed)'
      BY <1>1, <2>1, OwnStep DEF SessionNext
    <2>3. published'[Mine] \in Nat
      BY <2>2, <1>1 DEF SessionInvariant, SessionTypes
    <2>4. PromptFirst'
      BY <1>1, <2>1, <2>3 DEF PromptFirst
    <2>5. ProgramTypes' /\ Course' /\ TurnTaken'
      BY <1>1, <2>1 DEF ProgramTypes, Course, TurnTaken
    <2> QED
      BY <2>2, <2>4, <2>5
  <1>8. CASE AnswerPrompt \/ ReadReceipt
    <2>1. /\ UNCHANGED <<alive, published, stage, queueVars, stored, delivered, consumer>>
          /\ UNCHANGED <<pc, error, code>>
          /\ \/ stdout' = Append(stdout, Receipt)
             \/ stdout # <<>> /\ Head(stdout) = Receipt /\ stdout' = Tail(stdout)
          /\ \/ prompt' = prompt
             \/ prompt # "none" /\ prompt' \in {"answered", "arrived"}
      BY <1>8 DEF AnswerPrompt, ReadReceipt
    <2>2. SessionInvariant({Receipt}, Missed)'
      BY <2>1, ReceiptStep
    <2>3. ProgramTypes' /\ PromptFirst'
      BY <1>1, <2>1 DEF ProgramTypes, PromptFirst
    <2>4. Course' /\ TurnTaken'
      BY <1>1, <2>1 DEF Course, TurnTaken
    <2> QED
      BY <2>2, <2>3, <2>4
  <1> QED
    BY <1>3, <1>4, <1>5, <1>6, <1>7, <1>8 DEF Environment

(* The session is closed on a way out of the run. *)
LEMMA ClosesSession ==
    ASSUME PromptInvariant, BeginClose(Mine)
    PROVE  /\ stage[Mine] = "open" /\ stage'[Mine] = "closing" /\ Mine \notin subscribed'
           /\ UNCHANGED <<childVars, subscription, events, stored, delivered, consumer>> =>
                 SessionInvariant({Receipt}, Missed)'
  <1>1. stage \in [Sessions -> {"none", "requesting", "granted", "answered", "open", "closing",
                                "closed", "failed"}]
    BY DEF PromptInvariant, SessionInvariant, SessionTypes
  <1>2. stage[Mine] = "open" /\ stage'[Mine] = "closing" /\ Mine \notin subscribed'
    BY <1>1, OnlySession DEF BeginClose
  <1>3. UNCHANGED <<childVars, subscription, events, stored, delivered, consumer>> =>
            SessionInvariant({Receipt}, Missed)'
    BY OwnStep, OnlySession DEF Close, SessionNext
  <1> QED
    BY <1>2, <1>3

(* The child is gone, or was before. *)
LEMMA ChildEnds ==
    ASSUME PromptInvariant, alive' = FALSE,
           UNCHANGED <<stdout, published, stage, queueVars, stored, delivered, consumer>>
    PROVE  SessionInvariant({Receipt}, Missed)'
  <1>1. alive \in BOOLEAN
    BY DEF PromptInvariant, SessionInvariant, SessionTypes
  <1>2. CASE alive
    BY <1>2, OwnStep DEF Exit, SessionNext
  <1>3. CASE ~alive
    BY <1>1, <1>3, OwnStep DEF sessionVars, childVars
  <1> QED
    BY <1>2, <1>3

LEMMA ProgramKeeps ==
    ASSUME PromptInvariant, ProgramStep \/ Interrupt
    PROVE  PromptInvariant'
  <1> USE DEF childVars, queueVars
  <1>1. /\ ProgramTypes /\ Course /\ PromptFirst /\ TurnTaken
        /\ stage \in [Sessions -> {"none", "requesting", "granted", "answered", "open", "closing",
                                   "closed", "failed"}]
        /\ subscribed \subseteq Sessions
        /\ Mine \in Sessions
        /\ None \notin {"kernel", "session", "state", "interrupt", "success", "failure"}
    BY OnlySession, PromptAssumption DEF PromptInvariant, SessionInvariant, SessionTypes
  <1> SUFFICES /\ SessionInvariant({Receipt}, Missed)'
               /\ ProgramTypes' /\ Course' /\ PromptFirst' /\ TurnTaken'
    BY DEF PromptInvariant
  <1>2. CASE ClientStarts
    <2>1. /\ pc = "starting" /\ stage[Mine] = "none" /\ prompt = "none" /\ code = None
          /\ Mine \notin subscribed
      BY <1>1, <1>2 DEF ClientStarts, Course, PromptFirst
    <2>2. CASE Create(Mine) /\ pc' = "creating" /\ UNCHANGED <<prompt, error, code>>
      <3>1. SessionInvariant({Receipt}, Missed)'
        BY <1>1, <2>2, OwnStep DEF SessionNext
      <3>2. stage'[Mine] = "requesting" /\ UNCHANGED <<subscribed, published, delivered>>
        BY <1>1, <2>2 DEF Create
      <3>3. ProgramTypes' /\ Course'
        BY <1>1, <2>1, <2>2, <3>2 DEF ProgramTypes, Course
      <3>4. PromptFirst' /\ TurnTaken'
        BY <1>1, <2>1, <2>2, <3>2 DEF PromptFirst, TurnTaken
      <3> QED
        BY <3>1, <3>3, <3>4
    <2>3. CASE /\ pc' = "exited" /\ code' = "failure" /\ alive' = FALSE
               /\ UNCHANGED <<stdout, published, stage, queueVars, stored, delivered, consumer>>
               /\ UNCHANGED <<prompt, error>>
      <3>1. SessionInvariant({Receipt}, Missed)'
        BY <2>3, ChildEnds
      <3>2. ProgramTypes' /\ Course'
        BY <1>1, <2>1, <2>3 DEF ProgramTypes, Course
      <3>3. PromptFirst' /\ TurnTaken'
        BY <1>1, <2>1, <2>3 DEF PromptFirst, TurnTaken
      <3> QED
        BY <3>1, <3>2, <3>3
    <2> QED
      BY <1>2, <2>2, <2>3 DEF ClientStarts
  <1>3. CASE NoSession
    <2>1. /\ pc = "creating" /\ pc' = "stopping" /\ error' = "kernel" /\ UNCHANGED <<prompt, code>>
          /\ CreateFails(Mine) /\ UNCHANGED <<subscribed, published, delivered>>
      BY <1>3 DEF NoSession, CreateFails
    <2>2. SessionInvariant({Receipt}, Missed)'
      BY <1>1, <2>1, OwnStep DEF SessionNext
    <2>3. stage[Mine] # "open" /\ stage'[Mine] = "failed"
      BY <1>1, <2>1 DEF CreateFails
    <2>4. ProgramTypes' /\ Course'
      BY <1>1, <2>1, <2>3 DEF ProgramTypes, Course
    <2>5. PromptFirst' /\ TurnTaken'
      BY <1>1, <2>1 DEF PromptFirst, TurnTaken, Course
    <2> QED
      BY <2>2, <2>4, <2>5
  <1>4. CASE SendPrompt
    <2>1. /\ pc = "creating" /\ pc' = "prompting" /\ prompt' = "sent" /\ UNCHANGED <<error, code>>
          /\ CreateReturns(Mine) /\ UNCHANGED <<published, delivered>>
      BY <1>4 DEF SendPrompt, CreateReturns
    <2>2. SessionInvariant({Receipt}, Missed)'
      BY <1>1, <2>1, OwnStep DEF SessionNext
    <2>3. stage'[Mine] = "open"
      BY <1>1, <2>1 DEF CreateReturns
    <2>4. ProgramTypes' /\ Course'
      BY <1>1, <2>1, <2>3 DEF ProgramTypes, Course
    <2>5. PromptFirst' /\ TurnTaken'
      BY <1>1, <2>1 DEF PromptFirst, TurnTaken, Course
    <2> QED
      BY <2>2, <2>4, <2>5
  <1>5. CASE RefuseBlank
    <2>1. /\ pc = "creating" /\ pc' = "closing" /\ error' = "state" /\ UNCHANGED <<prompt, code>>
          /\ stage[Mine] = "answered" /\ stage' = [stage EXCEPT ![Mine] = "closing"]
          /\ UNCHANGED <<subscribed, published, delivered>>
      BY <1>5 DEF RefuseBlank
    <2>2. SessionInvariant({Receipt}, Missed)'
      BY <1>5, RefuseStep
    <2>3. stage'[Mine] = "closing"
      BY <1>1, <2>1
    <2>4. ProgramTypes' /\ Course'
      BY <1>1, <2>1, <2>3 DEF ProgramTypes, Course
    <2>5. PromptFirst' /\ TurnTaken'
      BY <1>1, <2>1 DEF PromptFirst, TurnTaken, Course
    <2> QED
      BY <2>2, <2>4, <2>5
  <1>6. ASSUME NEW how \in {"kernel", "interrupt"}, pc \in {"prompting", "iterating"}, Leave(how),
               UNCHANGED <<childVars, subscription, events, stored, delivered, consumer>>,
               UNCHANGED <<prompt, code>>
        PROVE  /\ SessionInvariant({Receipt}, Missed)'
               /\ ProgramTypes' /\ Course' /\ PromptFirst' /\ TurnTaken'
    <2>1. BeginClose(Mine) /\ pc' = "closing" /\ error' = how
      BY <1>6 DEF Leave
    <2>2. /\ SessionInvariant({Receipt}, Missed)'
          /\ stage'[Mine] = "closing" /\ Mine \notin subscribed'
      BY <1>6, <2>1, ClosesSession
    <2>3. ProgramTypes' /\ Course'
      BY <1>1, <1>6, <2>1, <2>2 DEF ProgramTypes, Course
    <2>4. PromptFirst' /\ TurnTaken'
      BY <1>1, <1>6, <2>1 DEF PromptFirst, TurnTaken, Course
    <2> QED
      BY <2>2, <2>3, <2>4
  <1>7. CASE PromptFails
    BY <1>6, <1>7 DEF PromptFails
  <1>8. CASE PromptReturns \/ TakeEvents
    <2>1. pc \in {"prompting", "iterating"} /\ Iterate
      BY <1>8 DEF PromptReturns, TakeEvents
    <2>2. /\ SessionInvariant({Receipt}, Missed)'
          /\ \/ pc' = "iterating" /\ UNCHANGED <<stage, subscribed, error>>
             \/ /\ BeginClose(Mine) /\ pc' = "closing"
                /\ \/ error' = "session"
                   \/ error' = error /\ UpTo(delivered'[Mine], Mine, TurnEnd, Early)
          /\ UNCHANGED <<childVars, prompt, code>>
      BY <2>1, IterateStep
    <2>3. CASE pc' = "iterating" /\ UNCHANGED <<stage, subscribed, error>>
      <3>1. ProgramTypes' /\ Course'
        BY <1>1, <2>1, <2>2, <2>3 DEF ProgramTypes, Course
      <3>2. PromptFirst' /\ TurnTaken'
        BY <1>1, <2>1, <2>2, <2>3 DEF PromptFirst, TurnTaken, Course
      <3> QED
        BY <2>2, <3>1, <3>2
    <2>4. CASE /\ BeginClose(Mine) /\ pc' = "closing"
               /\ \/ error' = "session"
                  \/ error' = error /\ UpTo(delivered'[Mine], Mine, TurnEnd, Early)
      <3>1. stage'[Mine] = "closing" /\ Mine \notin subscribed'
        BY <2>4, ClosesSession
      <3>2. ProgramTypes' /\ Course'
        BY <1>1, <2>1, <2>2, <2>4, <3>1 DEF ProgramTypes, Course
      <3>3. PromptFirst' /\ TurnTaken'
        BY <1>1, <2>1, <2>2, <2>4 DEF PromptFirst, TurnTaken, Course
      <3> QED
        BY <2>2, <3>2, <3>3
    <2> QED
      BY <2>2, <2>3, <2>4
  <1>9. ASSUME pc = "closing", CloseReturns(Mine), pc' = "stopping",
               error' \in {error, "kernel", "interrupt"}, UNCHANGED <<prompt, code>>
        PROVE  /\ SessionInvariant({Receipt}, Missed)'
               /\ ProgramTypes' /\ Course' /\ PromptFirst' /\ TurnTaken'
    <2>1. SessionInvariant({Receipt}, Missed)'
      BY <1>1, <1>9, OwnStep DEF SessionNext
    <2>2. stage'[Mine] = "closed" /\ UNCHANGED <<subscribed, published, delivered>>
      BY <1>1, <1>9 DEF CloseReturns
    <2>3. ProgramTypes' /\ Course'
      BY <1>1, <1>9, <2>2 DEF ProgramTypes, Course
    <2>4. PromptFirst' /\ TurnTaken'
      BY <1>1, <1>9, <2>2 DEF PromptFirst, TurnTaken, Course
    <2> QED
      BY <2>1, <2>3, <2>4
  <1>10. CASE SessionClosed
    BY <1>9, <1>10 DEF SessionClosed
  <1>11. CASE ClientClosed
    <2>1. /\ pc = "stopping" /\ pc' = "exited" /\ alive' = FALSE /\ UNCHANGED <<prompt, error>>
          /\ UNCHANGED <<stdout, published, stage, queueVars, stored, delivered, consumer>>
          /\ code' = IF error = None THEN "success"
                     ELSE IF error = "interrupt" THEN "interrupted" ELSE "failure"
      BY <1>11 DEF ClientClosed
    <2>2. SessionInvariant({Receipt}, Missed)'
      BY <2>1, ChildEnds
    <2>3. ProgramTypes' /\ Course'
      BY <1>1, <2>1 DEF ProgramTypes, Course
    <2>4. PromptFirst' /\ TurnTaken'
      BY <1>1, <2>1 DEF PromptFirst, TurnTaken
    <2> QED
      BY <2>2, <2>3, <2>4
  <1>12. CASE Interrupt
    <2>1. CASE /\ pc \in {"prompting", "iterating"} /\ Leave("interrupt")
               /\ UNCHANGED <<childVars, subscription, events, stored, delivered, consumer>>
      BY <1>6, <1>12, <2>1 DEF Interrupt
    <2>2. CASE /\ pc = "creating" /\ stage' = [stage EXCEPT ![Mine] = "failed"]
               /\ pc' = "stopping" /\ error' = "interrupt"
               /\ UNCHANGED <<childVars, queueVars, stored, delivered, consumer>>
      <3>1. stage[Mine] \in {"requesting", "granted", "answered"} /\ UNCHANGED <<prompt, code>>
        BY <1>1, <1>12, <2>2 DEF Interrupt, Course
      <3>2. SessionInvariant({Receipt}, Missed)'
        BY <1>1, <2>2, <3>1, OwnStep DEF CreateFails, SessionNext
      <3>3. stage'[Mine] = "failed"
        BY <1>1, <2>2
      <3>4. ProgramTypes' /\ Course'
        BY <1>1, <2>2, <3>1, <3>3 DEF ProgramTypes, Course
      <3>5. PromptFirst' /\ TurnTaken'
        BY <1>1, <2>2, <3>1 DEF PromptFirst, TurnTaken, Course
      <3> QED
        BY <3>2, <3>4, <3>5
    <2>3. CASE pc = "closing" /\ CloseReturns(Mine) /\ pc' = "stopping" /\ error' = "interrupt"
      BY <1>9, <1>12, <2>3 DEF Interrupt
    <2> QED
      BY <1>12, <2>1, <2>2, <2>3 DEF Interrupt
  <1> QED
    BY <1>2, <1>3, <1>4, <1>5, <1>7, <1>8, <1>10, <1>11, <1>12 DEF ProgramStep

LEMMA PromptStart ==
    ASSUME PromptInit
    PROVE  PromptInvariant
  <1> USE DEF PromptInit
  <1>1. SessionInvariant({Receipt}, Missed)
    BY SessionStart
  <1>2. /\ stage[Mine] = "none" /\ Mine \notin subscribed
        /\ published[Mine] = 0 /\ 0 <= Early
    BY OnlySession DEF SessionInit
  <1>3. ProgramTypes /\ Course /\ PromptFirst
    BY <1>2 DEF ProgramTypes, Course, PromptFirst
  <1>4. TurnTaken
    BY PromptAssumption DEF TurnTaken
  <1> QED
    BY <1>1, <1>3, <1>4 DEF PromptInvariant

-----------------------------------------------------------------------------
(* The properties *)

(* In every reachable state of a run, the session is in order and as far   *)
(* as the program takes it to be, no event of the turn comes before the    *)
(* prompt, and a run that leaves without an exception has the whole turn.  *)
THEOREM PromptInvariance == PromptSpec => []PromptInvariant
  <1>1. PromptInit => PromptInvariant
    BY PromptStart
  <1>2. PromptInvariant /\ [PromptNext]_allVars => PromptInvariant'
    <2>1. CASE UNCHANGED allVars
      <3>1. ASSUME PromptInvariant PROVE SessionInvariant({Receipt}, Missed)'
        BY <2>1, <3>1, OwnStep DEF allVars
      <3>2. ASSUME PromptInvariant PROVE (ProgramTypes /\ Course /\ PromptFirst /\ TurnTaken)'
        BY <2>1, <3>2 DEF PromptInvariant, ProgramTypes, Course, PromptFirst, TurnTaken, UpTo,
                          allVars, sessionVars, childVars, queueVars, promptVars
      <3> QED
        BY <3>1, <3>2 DEF PromptInvariant
    <2> QED
      BY <2>1, EnvironmentStep, ProgramKeeps DEF PromptNext
  <1> QED
    BY <1>1, <1>2, PTL DEF PromptSpec

(* The variables of the program and of its session keep their types. *)
THEOREM PromptTypeCorrectness == PromptSpec => []PromptTypeOK
  <1>1. PromptInvariant => PromptTypeOK
    BY DEF PromptInvariant, SessionInvariant, ProgramTypes, PromptTypeOK
  <1> QED
    BY <1>1, PromptInvariance, PTL

(* The session works for the program as it does for any consumer: events   *)
(* come without a gap, the transcript has them first, and the end of the   *)
(* demultiplexer is reported.                                              *)
THEOREM PromptKeepsSession == PromptSpec => [](NoGaps /\ DeliveredIsStored /\ EndIsReported)
  <1>1. PromptInvariant => NoGaps /\ DeliveredIsStored /\ EndIsReported
    BY OnlySession, NoGapsFollows, DeliveredIsStoredFollows, EndIsReportedFollows
       DEF PromptInvariant
  <1> QED
    BY <1>1, PromptInvariance, PTL

(* On every way out, the session that the run created was closed: it has no *)
(* subscription and no demultiplexer when the client is closed.             *)
THEOREM PromptSessionReleased == PromptSpec => []SessionReleased
  <1>1. PromptInvariant => SessionReleased
    <2> SUFFICES ASSUME PromptInvariant, pc \in {"stopping", "exited"}
                 PROVE  /\ stage[Mine] \in {"none", "failed", "closed"}
                        /\ Mine \notin subscribed
                        /\ demux[Mine] # "running"
      BY DEF SessionReleased
    <2>1. Life(Mine)
      BY OnlySession DEF PromptInvariant, SessionInvariant, Sound
    <2> QED
      BY <2>1 DEF PromptInvariant, Course, Life
  <1> QED
    BY <1>1, PromptInvariance, PTL

(* A run that exits with 0 has taken all the events of its turn, whatever  *)
(* the child published before it and however long the turn is, and they    *)
(* are what the transcript begins with.                                    *)
THEOREM PromptTurnIsComplete == PromptSpec => []TurnIsComplete
  <1>1. PromptInvariant => TurnIsComplete
    <2> DEFINE got == delivered[Mine]
               first == TurnEnd - Len(got) + 1
    <2> SUFFICES ASSUME PromptInvariant, code = "success"
                 PROVE  /\ \E n \in 1 .. (Early + 1) :
                              Numbers(got) = [i \in 1 .. (TurnEnd + 1 - n) |-> n + i - 1]
                        /\ Mine \in Persistent => IsPrefix(got, stored[Mine])
      BY DEF TurnIsComplete
    <2>1. /\ got \in Seq(Events) /\ Recorded(Mine)
          /\ UpTo(got, Mine, TurnEnd, Early)
      BY OnlySession DEF PromptInvariant, SessionInvariant, SessionTypes, Sound, TurnTaken
    <2> HIDE DEF got
    <2>2. /\ Len(got) \in Nat /\ DOMAIN got = 1 .. Len(got)
          /\ TurnEnd \in Nat /\ Early \in Nat /\ Early < TurnEnd
          /\ TurnEnd - Len(got) <= Early
      BY <2>1, OnlySession DEF UpTo
    <2>3. \A i \in 1 .. Len(got) : got[i].number = TurnEnd - Len(got) + i
      BY <2>1, <2>2 DEF UpTo, Event
    <2>4. got[1].number >= 1
      <3>1. 1 \in 1 .. Len(got)
        BY <2>2
      <3>2. PICK s \in Sessions : got[1] \in EventsOf(s)
        BY <2>1, <3>1 DEF Events
      <3> QED
        BY <3>2, SessionAssumption DEF EventsOf, Event
    <2>5. first \in 1 .. (Early + 1) /\ TurnEnd + 1 - first = Len(got)
      BY <2>2, <2>3, <2>4
    <2>6. \A i \in 1 .. Len(got) : got[i].number = first + i - 1
      BY <2>2, <2>3
    <2>7. Numbers(got) = [i \in 1 .. (TurnEnd + 1 - first) |-> first + i - 1]
      BY <2>2, <2>5, <2>6 DEF Numbers
    <2> HIDE DEF first
    <2>8. Mine \in Persistent => IsPrefix(got, stored[Mine])
      BY <2>1 DEF Recorded, got
    <2> QED
      BY <2>5, <2>7, <2>8
  <1> QED
    BY <1>1, PromptInvariance, PTL

=============================================================================
