------------------------ MODULE KernelSessionProofs ------------------------
(***************************************************************************)
(* The safety properties of KernelSession, for every set of sessions,      *)
(* however many events they publish, whatever the size of their queues and *)
(* whichever have a transcript.  They rest on how far the demultiplexer    *)
(* and the consumer of a session are at each stage of it, and on where its *)
(* events are: those that the consumer got, those in its queue, those that *)
(* the demultiplexer is to handle and those on stdout follow each other.   *)
(***************************************************************************)
EXTENDS KernelSession, SharedLemmas

(* The lifes of the demultiplexer and of the consumer. *)
Life(s) ==
    /\ demux[s] = "none" =>
          /\ stage[s] \in {"none", "requesting", "granted", "answered", "failed"}
          /\ s \notin subscribed /\ consumer[s] = "waiting"
          /\ subscription[s] = <<>> /\ events[s] = <<>>
          /\ stored[s] = <<>> /\ delivered[s] = <<>>
    /\ demux[s] = "running" =>
          /\ stage[s] = "open" /\ s \in subscribed /\ consumer[s] = "waiting"
          /\ events[s] \in Seq(Events)
    /\ demux[s] = "ended" => stage[s] \in {"open", "closing", "closed"}
    /\ demux[s] = "ended" /\ stage[s] = "open" /\ consumer[s] = "waiting" =>
          Len(events[s]) = 1 /\ events[s][1] \in Failures
    /\ consumer[s] = "raised" => demux[s] = "ended" /\ events[s] = <<>>

(* The transcript is what the consumer got and will get, unless there was  *)
(* a failure.                                                              *)
Recorded(s) ==
    s \in Persistent =>
        /\ consumer[s] = "waiting" /\ events[s] \in Seq(Events) =>
              stored[s] = delivered[s] \o events[s]
        /\ IsPrefix(delivered[s], stored[s])

(* A sequence of the session's events, one after the other up to the last, *)
(* and how many there may be before it.                                    *)
UpTo(seq, s, last, missed) ==
    /\ last - Len(seq) <= missed
    /\ \A i \in DOMAIN seq : seq[i] = Event(s, last - Len(seq) + i)

(* Lines with the session's events after one up to another, in their order. *)
ComesAfter(lines, s, last, upto) ==
    LET own == {i \in DOMAIN lines : lines[i] \in EventsOf(s)} IN
    /\ \A i, j \in own : i < j => lines[i].number < lines[j].number
    /\ {lines[i].number : i \in own} = (last + 1) .. upto

Handled(s) == delivered[s] \o events[s] \o Own(s, Len(subscription[s]))

(* From its beginning, the demultiplexer misses no event, and it begins    *)
(* when so many were missed at most.                                       *)
Gapless(s, missed) ==
    /\ demux[s] # "ended" =>
          \E last \in 0 .. published[s] :
              /\ ComesAfter(stdout, s, last, published[s])
              /\ demux[s] = "running" => UpTo(Handled(s), s, last, missed)
    /\ demux[s] = "ended" =>
          \E last \in Int : UpTo(delivered[s] \o Undelivered(s), s, last, missed)

Sound(s, missed) == Life(s) /\ Recorded(s) /\ Gapless(s, missed)

(* The invariant of the sessions of a client whose child may write other   *)
(* lines too, where each session misses so many events at its beginning.   *)
SessionInvariant(others, missed) ==
    /\ SessionTypes(others)
    /\ \A s \in Sessions : Sound(s, missed[s])

Lines(others) == Events \cup {Malformed} \cup {Created(s) : s \in Sessions} \cup others

-----------------------------------------------------------------------------
(* The recursive definition of Among has a solution, so Among obeys it. *)
LEMMA AmongIs ==
    ASSUME NEW Line, NEW lines \in Seq(Line), NEW set
    PROVE  \A n \in 0 .. Len(lines) :
              Among(lines, set)[n] =
                 IF n = 0 THEN <<>>
                 ELSE IF lines[n] \in set THEN Append(Among(lines, set)[n - 1], lines[n])
                      ELSE Among(lines, set)[n - 1]
  <1> DEFINE Body(f, n) == IF n = 0 THEN <<>>
                           ELSE IF lines[n] \in set THEN Append(f[n - 1], lines[n]) ELSE f[n - 1]
             Solves(f, m) == f = [n \in 0..m |-> Body(f, n)]
             Solved == {m \in Nat : \E f : Solves(f, m)}
  <1>1. 0 \in Solved
    <2> DEFINE f == [n \in 0..0 |-> <<>>]
    <2>1. \A n \in 0..0 : n = 0
      OBVIOUS
    <2>2. Solves(f, 0)
      BY <2>1
    <2> QED
      BY <2>2
  <1>2. ASSUME NEW m \in Nat, m \in Solved PROVE m + 1 \in Solved
    <2>1. PICK f : Solves(f, m)
      BY <1>2
    <2> DEFINE g == [n \in 0 .. m + 1 |-> IF n = m + 1 THEN Body(f, n) ELSE f[n]]
    <2>2. ASSUME NEW n \in 0 .. m + 1 PROVE g[n] = Body(g, n)
      <3>1. n # 0 => n - 1 \in 0..m /\ n - 1 # m + 1 /\ n - 1 \in 0 .. m + 1
        OBVIOUS
      <3>2. n # 0 => g[n - 1] = f[n - 1]
        BY <3>1
      <3>3. Body(g, n) = Body(f, n)
        BY <3>2
      <3>4. n # m + 1 => f[n] = Body(f, n)
        <4> HIDE DEF Body
        <4>1. n # m + 1 => n \in 0..m
          OBVIOUS
        <4> QED
          BY <2>1, <4>1
      <3> QED
        BY <3>3, <3>4
    <2>3. Solves(g, m + 1)
      BY <2>2
    <2> HIDE DEF Solves, g
    <2> QED
      BY <2>3
  <1>3. Len(lines) \in Solved
    <2> HIDE DEF Solved
    <2> QED
      BY <1>1, <1>2, NaturalsBySteps
  <1>4. PICK f : Solves(f, Len(lines))
    BY <1>3
  <1>5. Among(lines, set) = CHOOSE g : Solves(g, Len(lines))
    BY Zenon DEF Among
  <1>6. Solves(Among(lines, set), Len(lines))
    <2> HIDE DEF Solves
    <2> QED
      BY <1>4, <1>5, Zenon
  <1> DEFINE among == Among(lines, set)
  <1> HIDE DEF among
  <1>7. among = [n \in 0 .. Len(lines) |-> Body(among, n)]
    BY <1>6 DEF among
  <1>8. \A n \in 0 .. Len(lines) : among[n] = Body(among, n)
    BY <1>7
  <1> QED
    BY <1>8 DEF among

(* What is taken from the lines are lines of the set. *)
LEMMA AmongType ==
    ASSUME NEW Line, NEW lines \in Seq(Line), NEW set
    PROVE  \A n \in 0 .. Len(lines) : Among(lines, set)[n] \in Seq(set)
  <1> DEFINE among == Among(lines, set)
             Typed == {n \in Nat : n <= Len(lines) => among[n] \in Seq(set)}
  <1>1. \A n \in 0 .. Len(lines) :
           among[n] = IF n = 0 THEN <<>>
                      ELSE IF lines[n] \in set THEN Append(among[n - 1], lines[n]) ELSE among[n - 1]
    BY AmongIs
  <1> HIDE DEF among
  <1>2. 0 \in Typed
    <2>1. 0 \in 0 .. Len(lines)
      OBVIOUS
    <2>2. among[0] = <<>> /\ <<>> \in Seq(set)
      BY <1>1, <2>1
    <2> QED
      BY <2>2
  <1>3. ASSUME NEW n \in Nat, n \in Typed PROVE n + 1 \in Typed
    <2> SUFFICES ASSUME n + 1 <= Len(lines) PROVE among[n + 1] \in Seq(set)
      OBVIOUS
    <2>1. among[n] \in Seq(set) /\ n + 1 \in 0 .. Len(lines) /\ n + 1 # 0 /\ n + 1 - 1 = n
      BY <1>3
    <2>2. among[n + 1] = IF lines[n + 1] \in set THEN Append(among[n], lines[n + 1]) ELSE among[n]
      BY <1>1, <2>1
    <2> QED
      BY <2>1, <2>2
  <1>4. Nat \subseteq Typed
    <2> HIDE DEF Typed
    <2> QED
      BY <1>2, <1>3, NaturalsBySteps
  <1> QED
    BY <1>4 DEF among

(* What is taken from the lines when one more comes. *)
LEMMA AmongAppend ==
    ASSUME NEW Line, NEW lines \in Seq(Line), NEW line \in Line, NEW set
    PROVE  LET taken == Among(lines, set)[Len(lines)] IN
           Among(Append(lines, line), set)[Len(Append(lines, line))] =
              IF line \in set THEN Append(taken, line) ELSE taken
  <1> DEFINE more == Append(lines, line)
             before == Among(lines, set)
             after == Among(more, set)
             Same == {n \in Nat : n <= Len(lines) => after[n] = before[n]}
  <1>1. /\ more \in Seq(Line) /\ Len(more) = Len(lines) + 1 /\ Len(lines) \in Nat
        /\ more[Len(lines) + 1] = line /\ \A n \in 1 .. Len(lines) : more[n] = lines[n]
    OBVIOUS
  <1>2. \A n \in 0 .. Len(lines) :
           before[n] = IF n = 0 THEN <<>>
                       ELSE IF lines[n] \in set THEN Append(before[n - 1], lines[n]) ELSE before[n - 1]
    BY AmongIs
  <1> HIDE DEF more
  <1>3. \A n \in 0 .. Len(more) :
           after[n] = IF n = 0 THEN <<>>
                      ELSE IF more[n] \in set THEN Append(after[n - 1], more[n]) ELSE after[n - 1]
    BY <1>1, AmongIs
  <1> HIDE DEF before, after
  <1>4. 0 \in Same
    BY <1>1, <1>2, <1>3
  <1>5. ASSUME NEW n \in Nat, n \in Same PROVE n + 1 \in Same
    <2> SUFFICES ASSUME n + 1 <= Len(lines) PROVE after[n + 1] = before[n + 1]
      OBVIOUS
    <2>1. /\ n + 1 \in 0 .. Len(lines) /\ n + 1 \in 0 .. Len(more) /\ n + 1 # 0 /\ n + 1 - 1 = n
          /\ after[n] = before[n] /\ more[n + 1] = lines[n + 1]
      BY <1>1, <1>5
    <2> QED
      BY <1>2, <1>3, <2>1
  <1>6. Nat \subseteq Same
    <2> HIDE DEF Same
    <2> QED
      BY <1>4, <1>5, NaturalsBySteps
  <1>7. after[Len(lines)] = before[Len(lines)]
    BY <1>1, <1>6
  <1>8. after[Len(lines) + 1] = IF line \in set THEN Append(after[Len(lines)], line)
                                ELSE after[Len(lines)]
    <2>1. Len(lines) + 1 \in 0 .. Len(more) /\ Len(lines) + 1 # 0 /\ Len(lines) + 1 - 1 = Len(lines)
      BY <1>1
    <2> QED
      BY <1>1, <1>3, <2>1
  <1>9. after[Len(more)] = IF line \in set THEN Append(before[Len(lines)], line)
                           ELSE before[Len(lines)]
    BY <1>1, <1>7, <1>8
  <1> QED
    BY <1>9 DEF more, before, after

(* Nothing is taken from no lines. *)
LEMMA AmongNone == \A set : Among(<<>>, set)[Len(<<>>)] = <<>>
  <1> TAKE set
  <1>1. <<>> \in Seq({}) /\ Len(<<>>) = 0 /\ 0 \in 0 .. Len(<<>>)
    OBVIOUS
  <1> DEFINE lines == <<>>
  <1> HIDE DEF lines
  <1>2. lines \in Seq({}) /\ 0 \in 0 .. Len(lines)
    BY <1>1 DEF lines
  <1>3. Among(lines, set)[0] = <<>>
    BY <1>2, AmongIs
  <1> QED
    BY <1>1, <1>3 DEF lines

-----------------------------------------------------------------------------
(* Whose event a line is. *)
LEMMA WhoseLine ==
    /\ \A s \in Sessions : EventsOf(s) \subseteq Events
    /\ \A s, t \in Sessions : \A line \in EventsOf(s) :
          line \in EventsOf(t) => s = t /\ line.of = s /\ line = Event(s, line.number)
    /\ \A s \in Sessions : \A n \in 1..MaxEvents[s] :
          Event(s, n) \in EventsOf(s) /\ Event(s, n).of = s /\ Event(s, n).number = n
    /\ Malformed \notin Events
    /\ \A s \in Sessions : Created(s) \notin Events \cup {Malformed}
    /\ Failures \cap Events = {}
    /\ \A s \in Sessions : \A line \in EventsOf(s) : line.number \in Nat
  <1>1. MaxEvents \in [Sessions -> Nat] /\ None \notin Sessions
    BY SessionAssumption
  <1>2. \A s \in Sessions : EventsOf(s) \subseteq Events
    BY DEF Events
  <1>3. \A s, t \in Sessions : \A line \in EventsOf(s) :
           line \in EventsOf(t) => s = t /\ line.of = s /\ line = Event(s, line.number)
    BY DEF EventsOf, Event
  <1>4. \A s \in Sessions : \A n \in 1..MaxEvents[s] :
           Event(s, n) \in EventsOf(s) /\ Event(s, n).of = s /\ Event(s, n).number = n
    BY DEF EventsOf, Event
  <1>5. Malformed \notin Events
    <2>1. \A line \in Events : line.of \in Sessions
      BY DEF Events, EventsOf, Event
    <2>2. Malformed.of = None
      BY DEF Malformed
    <2> QED
      BY <1>1, <2>1, <2>2
  <1>6. ASSUME NEW s \in Sessions PROVE Created(s) \notin Events \cup {Malformed}
    <2>1. DOMAIN Created(s) = {"created"}
      BY DEF Created
    <2>2. \A line \in Events \cup {Malformed} : DOMAIN line = {"of", "number"}
      BY DEF Events, EventsOf, Event, Malformed
    <2> QED
      BY <2>1, <2>2
  <1>7. Failures \cap Events = {}
    <2>1. \A f \in Failures : DOMAIN f = {"failure"}
      BY DEF Failures
    <2>2. \A line \in Events : DOMAIN line = {"of", "number"}
      BY DEF Events, EventsOf, Event
    <2> QED
      BY <2>1, <2>2
  <1>8. \A s \in Sessions : \A line \in EventsOf(s) : line.number \in Nat
    BY <1>1 DEF EventsOf, Event
  <1> QED
    BY <1>2, <1>3, <1>4, <1>5, <1>6, <1>7, <1>8

(* What stands on stdout, when a line comes and when one is read. *)
LEMMA LineComes ==
    ASSUME NEW Line, NEW lines \in Seq(Line), NEW s \in Sessions, NEW last \in Nat,
           NEW upto \in Nat, last <= upto, ComesAfter(lines, s, last, upto), NEW line \in Line
    PROVE  /\ line \notin EventsOf(s) => ComesAfter(Append(lines, line), s, last, upto)
           /\ line \in EventsOf(s) /\ line.number = upto + 1 =>
                 ComesAfter(Append(lines, line), s, last, upto + 1)
  <1> DEFINE more == Append(lines, line)
             own == {i \in DOMAIN lines : lines[i] \in EventsOf(s)}
             now == {i \in DOMAIN more : more[i] \in EventsOf(s)}
  <1>1. /\ Len(lines) \in Nat /\ DOMAIN lines = 1 .. Len(lines)
        /\ DOMAIN more = 1 .. Len(lines) + 1 /\ more[Len(lines) + 1] = line
        /\ \A i \in 1 .. Len(lines) : more[i] = lines[i]
    OBVIOUS
  <1>2. /\ \A i, j \in own : i < j => lines[i].number < lines[j].number
        /\ {lines[i].number : i \in own} = (last + 1) .. upto
    BY DEF ComesAfter
  <1> HIDE DEF more
  <1>3. CASE line \notin EventsOf(s)
    <2>1. now = own
      BY <1>1, <1>3
    <2>2. \A i \in own : more[i] = lines[i]
      BY <1>1
    <2>3. /\ \A i, j \in now : i < j => more[i].number < more[j].number
          /\ {more[i].number : i \in now} = (last + 1) .. upto
      BY <1>2, <2>1, <2>2
    <2> QED
      BY <1>3, <2>3 DEF ComesAfter, more
  <1>4. CASE line \in EventsOf(s) /\ line.number = upto + 1
    <2>1. now = own \cup {Len(lines) + 1} /\ \A i \in own : i < Len(lines) + 1
      BY <1>1, <1>4
    <2>2. \A i \in own : more[i] = lines[i] /\ lines[i].number < upto + 1
      BY <1>1, <1>2
    <2>3. \A i, j \in now : i < j => more[i].number < more[j].number
      BY <1>1, <1>2, <1>4, <2>1, <2>2
    <2>4. {more[i].number : i \in now} = {lines[i].number : i \in own} \cup {upto + 1}
      BY <1>1, <1>4, <2>1, <2>2
    <2>5. ((last + 1) .. upto) \cup {upto + 1} = (last + 1) .. (upto + 1)
      OBVIOUS
    <2>6. {more[i].number : i \in now} = (last + 1) .. (upto + 1)
      BY <1>2, <2>4, <2>5, Zenon
    <2> QED
      BY <1>4, <2>3, <2>6 DEF ComesAfter, more
  <1> QED
    BY <1>3, <1>4 DEF more

LEMMA LineRead ==
    ASSUME NEW Line, NEW lines \in Seq(Line), lines # <<>>, NEW s \in Sessions, NEW last \in Nat,
           NEW upto \in Nat, last <= upto, ComesAfter(lines, s, last, upto)
    PROVE  /\ Head(lines) \notin EventsOf(s) => ComesAfter(Tail(lines), s, last, upto)
           /\ Head(lines) \in EventsOf(s) =>
                 /\ last + 1 <= upto /\ Head(lines) = Event(s, last + 1)
                 /\ ComesAfter(Tail(lines), s, last + 1, upto)
  <1> DEFINE rest == Tail(lines)
             own == {i \in DOMAIN lines : lines[i] \in EventsOf(s)}
             now == {i \in DOMAIN rest : rest[i] \in EventsOf(s)}
  <1>1. /\ Len(lines) \in Nat /\ Len(lines) >= 1 /\ DOMAIN lines = 1 .. Len(lines)
        /\ DOMAIN rest = 1 .. Len(lines) - 1 /\ Head(lines) = lines[1]
        /\ \A i \in 1 .. Len(lines) - 1 : rest[i] = lines[i + 1]
    OBVIOUS
  <1>2. /\ \A i, j \in own : i < j => lines[i].number < lines[j].number
        /\ {lines[i].number : i \in own} = (last + 1) .. upto
    BY DEF ComesAfter
  <1> HIDE DEF rest
  <1>3. \A i \in now : i + 1 \in own /\ rest[i] = lines[i + 1]
    BY <1>1
  <1>4. \A i \in own : i # 1 => i - 1 \in now /\ rest[i - 1] = lines[i]
    BY <1>1
  <1>5. \A i, j \in now : i < j => rest[i].number < rest[j].number
    <2>1. ASSUME NEW i \in now, NEW j \in now, i < j PROVE i + 1 < j + 1
      BY <1>1, <2>1
    <2> HIDE DEF now, own
    <2> QED
      BY <1>2, <1>3, <2>1
  <1>6. {rest[i].number : i \in now} = {lines[i].number : i \in own \ {1}}
    <2>1. \A i \in now : rest[i].number \in {lines[j].number : j \in own \ {1}}
      <3>1. \A i \in now : i + 1 # 1
        BY <1>1
      <3> QED
        BY <1>3, <3>1
    <2>2. \A i \in own \ {1} : lines[i].number \in {rest[j].number : j \in now}
      BY <1>4
    <2> QED
      BY <2>1, <2>2
  <1>7. CASE Head(lines) \notin EventsOf(s)
    <2>1. own \ {1} = own
      BY <1>1, <1>7
    <2> QED
      BY <1>2, <1>5, <1>6, <1>7, <2>1 DEF ComesAfter, rest
  <1>8. CASE Head(lines) \in EventsOf(s)
    <2>1. 1 \in own /\ \A i \in own : i # 1 => lines[1].number < lines[i].number
      BY <1>1, <1>2, <1>8
    <2>2. lines[1].number \in (last + 1) .. upto
      BY <1>2, <2>1
    <2>3. last + 1 \in (last + 1) .. upto
      BY <2>2
    <2>4. lines[1].number = last + 1
      <3>1. PICK i \in own : lines[i].number = last + 1
        BY <1>2, <2>3
      <3> QED
        BY <2>1, <2>2, <3>1
    <2>5. {lines[i].number : i \in own \ {1}} = ((last + 1) .. upto) \ {last + 1}
      BY <1>2, <2>1, <2>4
    <2>6. {rest[i].number : i \in now} = (last + 1 + 1) .. upto
      <3>1. ((last + 1) .. upto) \ {last + 1} = (last + 1 + 1) .. upto
        OBVIOUS
      <3> QED
        BY <1>6, <2>5, <3>1, Zenon
    <2>7. Head(lines) = Event(s, last + 1)
      BY <1>1, <1>8, <2>4, WhoseLine
    <2> QED
      BY <1>5, <1>8, <2>2, <2>4, <2>6, <2>7 DEF ComesAfter, rest
  <1> QED
    BY <1>7, <1>8 DEF rest

(* What follows what. *)
LEMMA UpToNext ==
    ASSUME NEW seq \in Seq(Events), NEW s, NEW last \in Int, NEW missed,
           UpTo(seq, s, last, missed), Event(s, last + 1) \in Events
    PROVE  UpTo(Append(seq, Event(s, last + 1)), s, last + 1, missed)
  <1> DEFINE next == Event(s, last + 1)
             more == Append(seq, next)
  <1>1. /\ Len(more) = Len(seq) + 1 /\ DOMAIN more = 1 .. Len(seq) + 1 /\ Len(seq) \in Nat
        /\ DOMAIN seq = 1 .. Len(seq)
        /\ more[Len(seq) + 1] = next /\ \A i \in 1 .. Len(seq) : more[i] = seq[i]
    OBVIOUS
  <1> HIDE DEF more
  <1>2. last + 1 - Len(more) <= missed
    <2>1. last + 1 - Len(more) = last - Len(seq)
      BY <1>1
    <2> QED
      BY <2>1 DEF UpTo
  <1>3. ASSUME NEW i \in 1 .. Len(seq) + 1
        PROVE  more[i] = Event(s, last + 1 - (Len(seq) + 1) + i)
    <2>1. CASE i = Len(seq) + 1
      <3>1. last + 1 - (Len(seq) + 1) + i = last + 1
        BY <1>1, <2>1
      <3> QED
        BY <1>1, <2>1, <3>1
    <2>2. CASE i # Len(seq) + 1
      <3>1. i \in 1 .. Len(seq) /\ last + 1 - (Len(seq) + 1) + i = last - Len(seq) + i
        BY <1>1, <2>2
      <3> QED
        BY <1>1, <3>1 DEF UpTo
    <2> QED
      BY <2>1, <2>2
  <1> QED
    BY <1>1, <1>2, <1>3 DEF UpTo, more

LEMMA UpToBegins ==
    ASSUME NEW a \in Seq(Events), NEW b \in Seq(Events), NEW s, NEW last \in Int,
           NEW missed, UpTo(a \o b, s, last, missed)
    PROVE  UpTo(a, s, last - Len(b), missed)
  <1>1. /\ Len(a \o b) = Len(a) + Len(b) /\ DOMAIN (a \o b) = 1 .. Len(a) + Len(b)
        /\ DOMAIN a = 1 .. Len(a) /\ Len(a) \in Nat /\ Len(b) \in Nat
        /\ \A i \in 1 .. Len(a) : (a \o b)[i] = a[i]
    OBVIOUS
  <1> DEFINE seq == a \o b
  <1> HIDE DEF seq
  <1>2. last - Len(b) - Len(a) <= missed
    <2>1. last - Len(b) - Len(a) = last - Len(seq)
      BY <1>1 DEF seq
    <2> QED
      BY <2>1 DEF UpTo, seq
  <1>3. ASSUME NEW i \in 1 .. Len(a)
        PROVE  a[i] = Event(s, last - Len(b) - Len(a) + i)
    <2>1. i \in DOMAIN seq /\ last - Len(seq) + i = last - Len(b) - Len(a) + i
      BY <1>1 DEF seq
    <2>2. seq[i] = Event(s, last - Len(seq) + i)
      BY <2>1 DEF UpTo, seq
    <2> QED
      BY <1>1, <2>1, <2>2 DEF seq
  <1> QED
    BY <1>1, <1>2, <1>3 DEF UpTo

-----------------------------------------------------------------------------
(* The types of the variables *)

LEMMA OwnType ==
    ASSUME NEW others, SessionTypes(others), NEW s \in Sessions,
           NEW n \in 0 .. Len(subscription[s])
    PROVE  Own(s, n) \in Seq(EventsOf(s)) /\ Own(s, n) \in Seq(Events)
  <1>1. subscription[s] \in Seq(Events \cup {Malformed})
    BY DEF SessionTypes
  <1>2. Own(s, n) \in Seq(EventsOf(s))
    BY <1>1, AmongType DEF Own
  <1>3. EventsOf(s) \subseteq Events
    BY WhoseLine
  <1> QED
    BY <1>2, <1>3

LEMMA StoreType ==
    ASSUME NEW others, SessionTypes(others), NEW s \in Sessions,
           NEW n \in 0 .. Len(subscription[s]), Store(s, n)
    PROVE  stored' \in [Sessions -> Seq(Events)]
  <1>1. stored \in [Sessions -> Seq(Events)]
    BY DEF SessionTypes
  <1>2. Own(s, n) \in Seq(Events)
    BY OwnType
  <1>3. stored[s] \o Own(s, n) \in Seq(Events)
    BY <1>1, <1>2
  <1> QED
    BY <1>1, <1>3 DEF Store

(* A demultiplexer that ends. *)
LEMMA StopType ==
    ASSUME NEW others, SessionTypes(others), NEW s \in Sessions,
           NEW n \in DOMAIN subscription[s],
           NEW why \in {"malformed", "refused", "overflow"}, StopAt(s, n, why)
    PROVE  /\ events'[s] = <<[failure |-> why]>> /\ [failure |-> why] \in Failures
           /\ \A u \in Sessions : u # s => events'[u] = events[u]
           /\ subscription' \in [Sessions -> Seq(Events \cup {Malformed})]
           /\ demux' \in [Sessions -> {"none", "running", "ended"}]
           /\ events' \in [Sessions -> Seq(Events) \cup {<<f>> : f \in Failures}]
           /\ \A u \in Sessions : Len(events'[u]) <= Size
  <1> USE DEF StopAt
  <1>1. /\ subscription \in [Sessions -> Seq(Events \cup {Malformed})]
        /\ demux \in [Sessions -> {"none", "running", "ended"}]
        /\ events \in [Sessions -> Seq(Events) \cup {<<f>> : f \in Failures}]
        /\ \A u \in Sessions : Len(events[u]) <= Size
    BY DEF SessionTypes
  <1>2. [failure |-> why] \in Failures
    BY DEF Failures
  <1>3. subscription' \in [Sessions -> Seq(Events \cup {Malformed})]
    <2>1. subscription[s] \in Seq(Events \cup {Malformed})
      BY <1>1
    <2>2. SubSeq(subscription[s], n + 1, Len(subscription[s])) \in Seq(Events \cup {Malformed})
      BY <2>1
    <2> QED
      BY <1>1, <2>2
  <1>4. demux' \in [Sessions -> {"none", "running", "ended"}]
    BY <1>1
  <1> QED
    BY <1>1, <1>2, <1>3, <1>4, SessionAssumption

(* A demultiplexer runs only as long as no exception waits for the consumer. *)
LEMMA DemultiplexType ==
    ASSUME NEW others, SessionTypes(others), NEW s \in Sessions, Life(s), Demultiplex(s)
    PROVE  /\ subscription' \in [Sessions -> Seq(Events \cup {Malformed})]
           /\ demux' \in [Sessions -> {"none", "running", "ended"}]
           /\ events' \in [Sessions -> Seq(Events) \cup {<<f>> : f \in Failures}]
           /\ \A u \in Sessions : Len(events'[u]) <= Size
           /\ stored' \in [Sessions -> Seq(Events)]
  <1>1. /\ subscription \in [Sessions -> Seq(Events \cup {Malformed})]
        /\ demux \in [Sessions -> {"none", "running", "ended"}]
        /\ events \in [Sessions -> Seq(Events) \cup {<<f>> : f \in Failures}]
        /\ \A u \in Sessions : Len(events[u]) <= Size
        /\ Len(subscription[s]) \in Nat /\ DOMAIN subscription[s] = 1 .. Len(subscription[s])
    BY DEF SessionTypes
  <1>2. CASE HandleAll(s)
    <2> DEFINE n == Len(subscription[s])
               all == events[s] \o Own(s, n)
    <2>1. /\ Len(events[s]) + Len(Own(s, n)) <= Size /\ Store(s, n)
          /\ events' = [events EXCEPT ![s] = all]
          /\ subscription' = [subscription EXCEPT ![s] = <<>>] /\ demux' = demux
      BY <1>2 DEF HandleAll, Passes
    <2>2. n \in 0 .. Len(subscription[s])
      BY <1>1
    <2>3. Own(s, n) \in Seq(Events)
      BY <2>2, OwnType
    <2>4. events[s] \in Seq(Events)
      BY DEF Life, Demultiplex
    <2>5. all \in Seq(Events) /\ Len(all) = Len(events[s]) + Len(Own(s, n))
      BY <2>3, <2>4
    <2>6. stored' \in [Sessions -> Seq(Events)]
      BY <2>1, <2>2, StoreType
    <2> HIDE DEF all, n
    <2>7. subscription' \in [Sessions -> Seq(Events \cup {Malformed})]
      BY <1>1, <2>1
    <2>8. events' \in [Sessions -> Seq(Events) \cup {<<f>> : f \in Failures}]
      BY <1>1, <2>1, <2>5
    <2>9. \A u \in Sessions : Len(events'[u]) <= Size
      BY <1>1, <2>1, <2>5
    <2> QED
      BY <1>1, <2>1, <2>6, <2>7, <2>8, <2>9
  <1>3. CASE HandleMalformed(s)
    <2>1. PICK n \in DOMAIN subscription[s] : Store(s, n - 1) /\ StopAt(s, n, "malformed")
      BY <1>3 DEF HandleMalformed
    <2>2. n - 1 \in 0 .. Len(subscription[s])
      BY <1>1, <2>1
    <2> QED
      BY <2>1, <2>2, StoreType, StopType
  <1>4. CASE HandleRefused(s)
    <2>1. PICK n \in DOMAIN subscription[s] : Store(s, n - 1) /\ StopAt(s, n, "refused")
      BY <1>4 DEF HandleRefused
    <2>2. n - 1 \in 0 .. Len(subscription[s])
      BY <1>1, <2>1
    <2> QED
      BY <2>1, <2>2, StoreType, StopType
  <1>5. CASE HandleOverflow(s)
    <2>1. PICK n \in DOMAIN subscription[s] : Store(s, n) /\ StopAt(s, n, "overflow")
      BY <1>5 DEF HandleOverflow
    <2>2. n \in 0 .. Len(subscription[s])
      BY <1>1, <2>1
    <2> QED
      BY <2>1, <2>2, StoreType, StopType
  <1> QED
    BY <1>2, <1>3, <1>4, <1>5 DEF Demultiplex

LEMMA TypesStep ==
    ASSUME NEW others, NEW missed \in [Sessions -> Nat], SessionInvariant(others, missed),
           [SessionNext]_sessionVars
    PROVE  SessionTypes(others)'
  <1> DEFINE Stages == {"none", "requesting", "granted", "answered", "open", "closing",
                        "closed", "failed"}
  <1>1. /\ alive \in BOOLEAN /\ stdout \in Seq(Lines(others))
        /\ published \in [Sessions -> Nat] /\ \A s \in Sessions : published[s] <= MaxEvents[s]
        /\ stage \in [Sessions -> Stages] /\ subscribed \subseteq Sessions
        /\ subscription \in [Sessions -> Seq(Events \cup {Malformed})]
        /\ demux \in [Sessions -> {"none", "running", "ended"}]
        /\ events \in [Sessions -> Seq(Events) \cup {<<f>> : f \in Failures}]
        /\ \A s \in Sessions : Len(events[s]) <= Size
        /\ stored \in [Sessions -> Seq(Events)] /\ delivered \in [Sessions -> Seq(Events)]
        /\ consumer \in [Sessions -> {"waiting", "raised"}]
    BY DEF SessionInvariant, SessionTypes, Lines
  <1> SUFFICES
        /\ alive' \in BOOLEAN /\ stdout' \in Seq(Lines(others))
        /\ published' \in [Sessions -> Nat] /\ \A s \in Sessions : published'[s] <= MaxEvents[s]
        /\ stage' \in [Sessions -> Stages] /\ subscribed' \subseteq Sessions
        /\ subscription' \in [Sessions -> Seq(Events \cup {Malformed})]
        /\ demux' \in [Sessions -> {"none", "running", "ended"}]
        /\ events' \in [Sessions -> Seq(Events) \cup {<<f>> : f \in Failures}]
        /\ \A s \in Sessions : Len(events'[s]) <= Size
        /\ stored' \in [Sessions -> Seq(Events)] /\ delivered' \in [Sessions -> Seq(Events)]
        /\ consumer' \in [Sessions -> {"waiting", "raised"}]
    BY DEF SessionTypes, Lines
  <1> USE DEF childVars, queueVars
  <1>2. ASSUME NEW s \in Sessions, AnswerNew(s) \/ Create(s) \/ CreateFails(s) \/ CloseReturns(s)
        PROVE  /\ stdout' = stdout \/ stdout' = Append(stdout, Created(s))
               /\ stage' \in [Sessions -> Stages]
               /\ UNCHANGED <<alive, published, queueVars, stored, delivered, consumer>>
    BY <1>1, <1>2 DEF AnswerNew, Create, CreateFails, CloseReturns
  <1>3. ASSUME NEW s \in Sessions PROVE Append(stdout, Created(s)) \in Seq(Lines(others))
    BY <1>1 DEF Lines
  <1>4. ASSUME NEW s \in Sessions, Publish(s)
        PROVE  /\ stdout' \in Seq(Lines(others)) /\ published' \in [Sessions -> Nat]
               /\ \A u \in Sessions : published'[u] <= MaxEvents[u]
    <2>1. published' = [published EXCEPT ![s] = published[s] + 1] /\ published[s] < MaxEvents[s]
          /\ stdout' = Append(stdout, Event(s, published'[s]))
      BY <1>4 DEF Publish
    <2>2. published'[s] \in 1..MaxEvents[s]
      <3>1. published[s] \in Nat /\ MaxEvents[s] \in Nat /\ published'[s] = published[s] + 1
        BY <1>1, <2>1, SessionAssumption
      <3> QED
        BY <2>1, <3>1
    <2>3. Event(s, published'[s]) \in Lines(others)
      BY <2>2, WhoseLine DEF Lines
    <2>4. stdout' \in Seq(Lines(others))
      BY <1>1, <2>1, <2>3
    <2> QED
      BY <1>1, <2>1, <2>2, <2>4
  <1>5. ASSUME Garble PROVE stdout' \in Seq(Lines(others))
    <2>1. stdout' = Append(stdout, Malformed) /\ Malformed \in Lines(others)
      BY <1>5 DEF Garble, Lines
    <2> QED
      BY <1>1, <2>1
  <1>6. ASSUME ReadLine
        PROVE  /\ stdout' \in Seq(Lines(others)) /\ stage' \in [Sessions -> Stages]
               /\ subscription' \in [Sessions -> Seq(Events \cup {Malformed})]
    <2>1. stdout # <<>> /\ stdout' = Tail(stdout)
      BY <1>6 DEF ReadLine
    <2>2. stdout' \in Seq(Lines(others))
      BY <1>1, <2>1
    <2>3. CASE \E s \in Sessions :
                 stage' = [stage EXCEPT ![s] = IF @ = "granted" THEN "answered" ELSE @]
                 /\ UNCHANGED subscription
      BY <1>1, <2>2, <2>3
    <2>4. CASE /\ Head(stdout) \in Events \cup {Malformed}
               /\ subscription' = [s \in Sessions |->
                     IF s \in subscribed THEN Append(subscription[s], Head(stdout))
                     ELSE subscription[s]]
               /\ UNCHANGED stage
      <3>1. ASSUME NEW s \in Sessions
            PROVE  Append(subscription[s], Head(stdout)) \in Seq(Events \cup {Malformed})
        BY <1>1, <2>4
      <3>2. subscription' \in [Sessions -> Seq(Events \cup {Malformed})]
        BY <1>1, <2>4, <3>1
      <3> QED
        BY <1>1, <2>2, <2>4, <3>2
    <2> QED
      BY <1>6, <2>3, <2>4 DEF ReadLine
  <1>7. ASSUME NEW s \in Sessions, Consume(s)
        PROVE  /\ events' \in [Sessions -> Seq(Events) \cup {<<f>> : f \in Failures}]
               /\ \A u \in Sessions : Len(events'[u]) <= Size
               /\ delivered' \in [Sessions -> Seq(Events)]
               /\ consumer' \in [Sessions -> {"waiting", "raised"}]
    <2>1. events[s] # <<>> /\ events' = [events EXCEPT ![s] = Tail(events[s])]
      BY <1>7 DEF Consume
    <2>2. Tail(events[s]) \in Seq(Events) /\ Len(Tail(events[s])) <= Size
      <3>1. CASE events[s] \in Seq(Events)
        <4>1. Len(events[s]) <= Size /\ Len(events[s]) \in Nat /\ Size \in Nat
          BY <1>1, <3>1, SessionAssumption
        <4>2. Tail(events[s]) \in Seq(Events) /\ Len(Tail(events[s])) = Len(events[s]) - 1
          BY <2>1, <3>1
        <4> QED
          BY <4>1, <4>2
      <3>2. CASE \E f \in Failures : events[s] = <<f>>
        BY <3>2, SessionAssumption
      <3> QED
        BY <1>1, <3>1, <3>2
    <2>3. events' \in [Sessions -> Seq(Events) \cup {<<f>> : f \in Failures}]
      BY <1>1, <2>1, <2>2
    <2>4. \A u \in Sessions : Len(events'[u]) <= Size
      BY <1>1, <2>1, <2>2
    <2>5. CASE /\ Head(events[s]) \in Events
               /\ delivered' = [delivered EXCEPT ![s] = Append(delivered[s], Head(events[s]))]
               /\ UNCHANGED consumer
      <3>1. Append(delivered[s], Head(events[s])) \in Seq(Events)
        BY <1>1, <2>5
      <3>2. delivered' \in [Sessions -> Seq(Events)]
        BY <1>1, <2>5, <3>1
      <3> QED
        BY <1>1, <2>3, <2>4, <2>5, <3>2
    <2>6. CASE consumer' = [consumer EXCEPT ![s] = "raised"] /\ UNCHANGED delivered
      BY <1>1, <2>3, <2>4, <2>6
    <2> QED
      BY <1>7, <2>5, <2>6 DEF Consume
  <1>8. ASSUME NEW s \in Sessions, CreateReturns(s) \/ Close(s)
        PROVE  /\ stage' \in [Sessions -> Stages] /\ subscribed' \subseteq Sessions
               /\ demux' \in [Sessions -> {"none", "running", "ended"}]
    BY <1>1, <1>8 DEF CreateReturns, Close, BeginClose
  <1>9. CASE \E s \in Sessions :
               AnswerNew(s) \/ Create(s) \/ CreateFails(s) \/ CloseReturns(s)
    BY <1>1, <1>2, <1>3, <1>9
  <1>10. CASE \E s \in Sessions : Publish(s)
    BY <1>1, <1>4, <1>10 DEF Publish
  <1>11. CASE Garble \/ Exit
    BY <1>1, <1>5, <1>11 DEF Garble, Exit
  <1>12. CASE ReadLine
    BY <1>1, <1>6, <1>12 DEF ReadLine
  <1>13. CASE \E s \in Sessions : Consume(s)
    BY <1>1, <1>7, <1>13 DEF Consume
  <1>14. CASE \E s \in Sessions : CreateReturns(s) \/ Close(s)
    BY <1>1, <1>8, <1>14 DEF CreateReturns, Close
  <1>15. CASE \E s \in Sessions : Demultiplex(s)
    <2>1. PICK s \in Sessions : Demultiplex(s)
      BY <1>15
    <2>2. SessionTypes(others) /\ Life(s)
      BY DEF SessionInvariant, Sound
    <2> QED
      BY <1>1, <2>1, <2>2, DemultiplexType DEF Demultiplex
  <1>16. CASE UNCHANGED sessionVars
    BY <1>1, <1>16 DEF sessionVars
  <1> QED
    BY <1>9, <1>10, <1>11, <1>12, <1>13, <1>14, <1>15, <1>16 DEF SessionNext

-----------------------------------------------------------------------------
(* The invariant from step to step *)

(* A session that a step does not touch, but for what stands on stdout and *)
(* how far its request is.                                                 *)
LEMMA Untouched ==
    ASSUME NEW u \in Sessions, NEW missed, Sound(u, missed),
           subscription'[u] = subscription[u], u \in subscribed' <=> u \in subscribed,
           demux'[u] = demux[u], events'[u] = events[u], stored'[u] = stored[u],
           delivered'[u] = delivered[u], consumer'[u] = consumer[u],
           \/ stage'[u] = stage[u]
           \/ /\ demux[u] = "none"
              /\ stage'[u] \in {"none", "requesting", "granted", "answered", "failed"}
           \/ /\ demux[u] = "ended" /\ stage[u] # "open"
              /\ stage'[u] \in {"closing", "closed"},
           \A last \in 0 .. published[u] :
              ComesAfter(stdout, u, last, published[u]) =>
                 last \in 0 .. published'[u] /\ ComesAfter(stdout', u, last, published'[u])
    PROVE  Sound(u, missed)'
  <1>1. Life(u)'
    BY DEF Sound, Life
  <1>2. Recorded(u)'
    BY DEF Sound, Recorded
  <1>3. Handled(u)' = Handled(u)
    BY DEF Handled, Own
  <1>4. Undelivered(u)' = Undelivered(u)
    BY DEF Undelivered
  <1>5. Gapless(u, missed)'
    <2>1. CASE demux[u] # "ended"
      <3>1. PICK last \in 0 .. published[u] :
               /\ ComesAfter(stdout, u, last, published[u])
               /\ demux[u] = "running" => UpTo(Handled(u), u, last, missed)
        BY <2>1 DEF Sound, Gapless
      <3>2. last \in 0 .. published'[u] /\ ComesAfter(stdout', u, last, published'[u])
        BY <3>1
      <3>3. demux'[u] = "running" => UpTo(Handled(u)', u, last, missed)
        BY <1>3, <3>1
      <3> QED
        BY <2>1, <3>2, <3>3 DEF Gapless
    <2>2. CASE demux[u] = "ended"
      BY <1>4, <2>2 DEF Sound, Gapless
    <2> QED
      BY <2>1, <2>2
  <1> QED
    BY <1>1, <1>2, <1>5 DEF Sound

(* The steps that touch no session but in its request: they write no event. *)
LEMMA QuietStep ==
    ASSUME NEW others, NEW missed \in [Sessions -> Nat], SessionInvariant(others, missed),
           \/ \E s \in Sessions : AnswerNew(s) \/ Create(s) \/ CreateFails(s) \/ CloseReturns(s)
           \/ Garble \/ Exit \/ UNCHANGED sessionVars
    PROVE  \A u \in Sessions : Sound(u, missed[u])'
  <1> TAKE u \in Sessions
  <1> USE DEF childVars, queueVars
  <1>1. /\ stdout \in Seq(Lines(others)) /\ published[u] \in Nat /\ Sound(u, missed[u])
        /\ \A s \in Sessions : demux[s] \in {"none", "running", "ended"} /\ Life(s)
        /\ stage \in [Sessions -> {"none", "requesting", "granted", "answered", "open", "closing",
                                   "closed", "failed"}]
    BY DEF SessionInvariant, SessionTypes, Lines, Sound
  <1>2. /\ UNCHANGED <<published, queueVars, stored, delivered, consumer>>
        /\ \/ stdout' = stdout
           \/ \E line \in {Malformed} \cup {Created(s) : s \in Sessions} :
                 stdout' = Append(stdout, line)
    BY DEF AnswerNew, Create, CreateFails, CloseReturns, Garble, Exit, sessionVars
  <1>3. \/ stage'[u] = stage[u]
        \/ /\ demux[u] = "none"
           /\ stage'[u] \in {"none", "requesting", "granted", "answered", "failed"}
        \/ /\ demux[u] = "ended" /\ stage[u] # "open"
           /\ stage'[u] \in {"closing", "closed"}
    <2>1. CASE \E s \in Sessions : AnswerNew(s) \/ Create(s) \/ CreateFails(s)
      <3>1. PICK s \in Sessions : AnswerNew(s) \/ Create(s) \/ CreateFails(s)
        BY <2>1
      <3>2. /\ stage[s] \in {"none", "requesting", "granted", "answered"}
            /\ \E new \in {"requesting", "granted", "failed"} : stage' = [stage EXCEPT ![s] = new]
        BY <3>1 DEF AnswerNew, Create, CreateFails
      <3>3. demux[s] = "none"
        BY <1>1, <3>2 DEF Life
      <3> QED
        BY <1>1, <3>2, <3>3
    <2>2. CASE \E s \in Sessions : CloseReturns(s)
      <3>1. PICK s \in Sessions : stage[s] = "closing" /\ stage' = [stage EXCEPT ![s] = "closed"]
        BY <2>2 DEF CloseReturns
      <3>2. demux[s] = "ended"
        BY <1>1, <3>1 DEF Life
      <3> QED
        BY <1>1, <3>1, <3>2
    <2>3. CASE Garble \/ Exit \/ UNCHANGED sessionVars
      BY <2>3 DEF Garble, Exit, sessionVars
    <2> QED
      BY <2>1, <2>2, <2>3
  <1>4. ASSUME NEW last \in 0 .. published[u], ComesAfter(stdout, u, last, published[u])
        PROVE  ComesAfter(stdout', u, last, published[u])
    <2>1. CASE stdout' = stdout
      BY <1>4, <2>1
    <2>2. CASE \E line \in {Malformed} \cup {Created(s) : s \in Sessions} :
                  stdout' = Append(stdout, line)
      <3>1. PICK line \in {Malformed} \cup {Created(s) : s \in Sessions} :
                  stdout' = Append(stdout, line)
        BY <2>2
      <3>2. line \in Lines(others) /\ line \notin EventsOf(u)
        BY WhoseLine DEF Lines
      <3>3. last \in Nat /\ last <= published[u]
        BY <1>1
      <3> QED
        BY <1>1, <1>4, <3>1, <3>2, <3>3, LineComes
    <2> QED
      BY <1>2, <2>1, <2>2
  <1> QED
    BY <1>1, <1>2, <1>3, <1>4, Untouched

(* An event is numbered after the one before it. *)
LEMMA PublishStep ==
    ASSUME NEW others, NEW missed \in [Sessions -> Nat], SessionInvariant(others, missed),
           NEW s \in Sessions, Publish(s)
    PROVE  \A u \in Sessions : Sound(u, missed[u])'
  <1> TAKE u \in Sessions
  <1> DEFINE line == Event(s, published[s] + 1)
  <1>1. /\ stdout \in Seq(Lines(others)) /\ published \in [Sessions -> Nat] /\ Sound(u, missed[u])
    BY DEF SessionInvariant, SessionTypes, Lines
  <1>2. /\ published' = [published EXCEPT ![s] = published[s] + 1] /\ published[s] < MaxEvents[s]
        /\ stdout' = Append(stdout, Event(s, published'[s]))
        /\ UNCHANGED <<stage, subscribed, subscription, demux, events, stored, delivered, consumer>>
    BY DEF Publish, queueVars
  <1>3. stdout' = Append(stdout, line) /\ published[s] + 1 \in 1 .. MaxEvents[s]
    <2>1. published[s] \in Nat /\ MaxEvents[s] \in Nat /\ published'[s] = published[s] + 1
      BY <1>1, <1>2, SessionAssumption
    <2> QED
      BY <1>2, <2>1
  <1>4. line \in EventsOf(s) /\ line \in Lines(others) /\ line.number = published[s] + 1
    BY <1>3, WhoseLine DEF Lines
  <1>5. u # s => line \notin EventsOf(u)
    BY <1>4, WhoseLine
  <1> HIDE DEF line
  <1>6. ASSUME NEW last \in 0 .. published[u], ComesAfter(stdout, u, last, published[u])
        PROVE  last \in 0 .. published'[u] /\ ComesAfter(stdout', u, last, published'[u])
    <2>1. last \in Nat /\ published[u] \in Nat /\ last <= published[u]
      BY <1>1
    <2>2. CASE u = s
      <3>1. published'[u] = published[u] + 1
        BY <1>1, <1>2, <2>2
      <3> QED
        BY <1>1, <1>3, <1>4, <1>6, <2>1, <2>2, <3>1, LineComes
    <2>3. CASE u # s
      <3>1. published'[u] = published[u]
        BY <1>1, <1>2, <2>3
      <3> QED
        BY <1>1, <1>3, <1>4, <1>5, <1>6, <2>1, <2>3, <3>1, LineComes
    <2> QED
      BY <2>2, <2>3
  <1> QED
    BY <1>1, <1>2, <1>6, Untouched

(* A line that is read goes from stdout to the subscribers, or is missed. *)
LEMMA ReadStep ==
    ASSUME NEW others, NEW missed \in [Sessions -> Nat], SessionInvariant(others, missed),
           ReadLine
    PROVE  \A u \in Sessions : Sound(u, missed[u])'
  <1> TAKE u \in Sessions
  <1> DEFINE line == Head(stdout)
             own == EventsOf(u)
             taken == Own(u, Len(subscription[u]))
  <1>1. /\ stdout \in Seq(Lines(others)) /\ published \in [Sessions -> Nat] /\ Sound(u, missed[u])
        /\ \A s \in Sessions : Life(s) /\ demux[s] \in {"none", "running", "ended"}
        /\ stage \in [Sessions -> {"none", "requesting", "granted", "answered", "open", "closing",
                                   "closed", "failed"}]
        /\ subscription[u] \in Seq(Events \cup {Malformed})
        /\ delivered[u] \in Seq(Events)
        /\ events[u] \in Seq(Events) \cup {<<f>> : f \in Failures}
    BY DEF SessionInvariant, SessionTypes, Lines, Sound
  <1>2. /\ stdout # <<>> /\ stdout' = Tail(stdout)
        /\ UNCHANGED <<published, subscribed, demux, events, stored, delivered, consumer>>
    BY DEF ReadLine
  <1>3. ASSUME NEW last \in 0 .. published[u], ComesAfter(stdout, u, last, published[u])
        PROVE  /\ line \notin own => ComesAfter(stdout', u, last, published'[u])
               /\ line \in own => /\ last + 1 \in 0 .. published'[u] /\ line = Event(u, last + 1)
                                  /\ ComesAfter(stdout', u, last + 1, published'[u])
    <2>1. last \in Nat /\ published[u] \in Nat /\ last <= published[u]
      BY <1>1
    <2> QED
      BY <1>1, <1>2, <1>3, <2>1, LineRead
  <1>4. CASE \E s \in Sessions :
               /\ line = Created(s)
               /\ stage' = [stage EXCEPT ![s] = IF @ = "granted" THEN "answered" ELSE @]
               /\ UNCHANGED subscription
    <2>1. PICK s \in Sessions :
               /\ line = Created(s)
               /\ stage' = [stage EXCEPT ![s] = IF @ = "granted" THEN "answered" ELSE @]
               /\ UNCHANGED subscription
      BY <1>4
    <2>2. line \notin own
      BY <2>1, WhoseLine
    <2>3. \/ stage'[u] = stage[u]
          \/ /\ demux[u] = "none"
             /\ stage'[u] \in {"none", "requesting", "granted", "answered", "failed"}
      BY <1>1, <2>1 DEF Life
    <2> QED
      BY <1>1, <1>2, <1>3, <2>1, <2>2, <2>3, Untouched
  <1>5. CASE /\ line \in Events \cup {Malformed}
             /\ subscription' = [s \in Sessions |->
                   IF s \in subscribed THEN Append(subscription[s], line) ELSE subscription[s]]
             /\ UNCHANGED stage
    <2>1. /\ u \in subscribed => subscription'[u] = Append(subscription[u], line)
          /\ u \notin subscribed => subscription'[u] = subscription[u]
      BY <1>5
    <2>2. Life(u)'
      BY <1>1, <1>2, <1>5, <2>1 DEF Life
    <2>3. Recorded(u)'
      BY <1>1, <1>2 DEF Sound, Recorded
    <2>4. Undelivered(u)' = Undelivered(u)
      BY <1>2 DEF Undelivered
    <2>5. CASE demux[u] = "ended"
      <3>1. Gapless(u, missed[u])'
        BY <1>1, <1>2, <2>4, <2>5 DEF Sound, Gapless
      <3> QED
        BY <2>2, <2>3, <3>1 DEF Sound
    <2>6. CASE demux[u] = "none"
      <3>1. PICK last \in 0 .. published[u] : ComesAfter(stdout, u, last, published[u])
        BY <1>1, <2>6 DEF Sound, Gapless
      <3>2. \E next \in 0 .. published'[u] : ComesAfter(stdout', u, next, published'[u])
        BY <1>2, <1>3, <3>1
      <3>3. Gapless(u, missed[u])'
        BY <1>2, <2>6, <3>2 DEF Gapless
      <3> QED
        BY <2>2, <2>3, <3>3 DEF Sound
    <2>7. CASE demux[u] = "running"
      <3>1. u \in subscribed /\ events[u] \in Seq(Events)
        BY <1>1, <2>7 DEF Life
      <3>2. PICK last \in 0 .. published[u] :
               ComesAfter(stdout, u, last, published[u]) /\ UpTo(Handled(u), u, last, missed[u])
        BY <1>1, <2>7 DEF Sound, Gapless
      <3>3. Own(u, Len(subscription[u]))' =
               IF line \in own THEN Append(taken, line) ELSE taken
        <4> DEFINE lines == subscription[u]
        <4>1. lines \in Seq(Events \cup {Malformed}) /\ line \in Events \cup {Malformed}
              /\ subscription'[u] = Append(lines, line)
          BY <1>1, <1>5, <2>1, <3>1
        <4>2. taken = Among(lines, own)[Len(lines)]
          BY DEF Own
        <4>3. Own(u, Len(subscription[u]))' = Among(subscription'[u], own)[Len(subscription'[u])]
          BY DEF Own
        <4> HIDE DEF lines, line, taken, own
        <4>4. Among(Append(lines, line), own)[Len(Append(lines, line))] =
                 IF line \in own THEN Append(Among(lines, own)[Len(lines)], line)
                 ELSE Among(lines, own)[Len(lines)]
          BY <4>1, AmongAppend
        <4> QED
          BY <4>1, <4>2, <4>3, <4>4
      <3>4. taken \in Seq(Events)
        <4>1. Len(subscription[u]) \in 0 .. Len(subscription[u])
          BY <1>1
        <4> QED
          BY <4>1, OwnType DEF SessionInvariant
      <3>5. delivered[u] \o events[u] \in Seq(Events)
        BY <1>1, <3>1
      <3> DEFINE before == delivered[u] \o events[u]
      <3>6. Handled(u) = before \o taken
        BY DEF Handled
      <3>7. CASE line \notin own
        <4>1. Handled(u)' = Handled(u)
          BY <1>2, <3>3, <3>7 DEF Handled
        <4>2. Gapless(u, missed[u])'
          BY <1>2, <1>3, <2>7, <3>2, <3>7, <4>1 DEF Gapless
        <4> QED
          BY <2>2, <2>3, <4>2 DEF Sound
      <3>8. CASE line \in own
        <4> HIDE DEF before, taken, line
        <4>1. Handled(u)' = before \o Append(taken, line)
          BY <1>2, <3>3, <3>8 DEF Handled, before
        <4>2. line \in Events
          BY <3>8, WhoseLine
        <4>3. before \o Append(taken, line) = Append(before \o taken, line)
          <5>1. /\ Append(taken, line) = taken \o <<line>> /\ <<line>> \in Seq(Events)
                /\ before \o taken \in Seq(Events) /\ before \in Seq(Events)
            BY <3>4, <3>5, <4>2, AppendIsConcat DEF before
          <5>2. Append(before \o taken, line) = (before \o taken) \o <<line>>
            BY <4>2, <5>1, AppendIsConcat
          <5> QED
            BY <3>4, <5>1, <5>2, ConcatAssociative
        <4>4. line = Event(u, last + 1) /\ last \in Int /\ Handled(u) \in Seq(Events)
          BY <1>1, <1>3, <3>2, <3>4, <3>5, <3>6, <3>8 DEF before
        <4>5. UpTo(Handled(u)', u, last + 1, missed[u])
          BY <3>2, <3>6, <4>1, <4>2, <4>3, <4>4, UpToNext
        <4>6. Gapless(u, missed[u])'
          BY <1>2, <1>3, <2>7, <3>2, <3>8, <4>5 DEF Gapless
        <4> QED
          BY <2>2, <2>3, <4>6 DEF Sound
      <3> QED
        BY <3>7, <3>8
    <2> QED
      BY <1>1, <2>5, <2>6, <2>7
  <1> QED
    BY <1>4, <1>5 DEF ReadLine

(* The demultiplexer begins with nothing to handle. *)
LEMMA CreateStep ==
    ASSUME NEW others, NEW missed \in [Sessions -> Nat], SessionInvariant(others, missed),
           NEW s \in Sessions, CreateReturns(s), published[s] <= missed[s]
    PROVE  \A u \in Sessions : Sound(u, missed[u])'
  <1> TAKE u \in Sessions
  <1> USE DEF childVars
  <1>1. /\ published \in [Sessions -> Nat] /\ Sound(u, missed[u]) /\ subscribed \subseteq Sessions
        /\ stage \in [Sessions -> {"none", "requesting", "granted", "answered", "open", "closing",
                                   "closed", "failed"}]
        /\ demux \in [Sessions -> {"none", "running", "ended"}]
    BY DEF SessionInvariant, SessionTypes
  <1>2. /\ stage[s] = "answered" /\ stage' = [stage EXCEPT ![s] = "open"]
        /\ subscribed' = subscribed \cup {s} /\ demux' = [demux EXCEPT ![s] = "running"]
        /\ UNCHANGED <<stdout, published, subscription, events, stored, delivered, consumer>>
    BY DEF CreateReturns
  <1>3. CASE u # s
    <2>1. stage'[u] = stage[u] /\ demux'[u] = demux[u] /\ (u \in subscribed' <=> u \in subscribed)
      BY <1>1, <1>2, <1>3
    <2> QED
      BY <1>1, <1>2, <2>1, Untouched
  <1>4. CASE u = s
    <2>1. demux[u] = "none" /\ demux'[u] = "running" /\ stage'[u] = "open" /\ u \in subscribed'
      BY <1>1, <1>2, <1>4 DEF Sound, Life
    <2>2. /\ consumer[u] = "waiting" /\ subscription[u] = <<>> /\ events[u] = <<>>
          /\ stored[u] = <<>> /\ delivered[u] = <<>>
      BY <1>1, <2>1 DEF Sound, Life
    <2>3. Life(u)'
      BY <1>2, <2>1, <2>2 DEF Life
    <2>4. Recorded(u)'
      BY <1>1, <1>2 DEF Sound, Recorded
    <2>5. PICK last \in 0 .. published[u] : ComesAfter(stdout, u, last, published[u])
      BY <1>1, <2>1 DEF Sound, Gapless
    <2>6. Own(u, Len(subscription[u]))' = <<>>
      BY <1>2, <2>2, AmongNone DEF Own
    <2>7. Handled(u)' = <<>>
      <3>1. Handled(u)' = <<>> \o <<>> \o <<>>
        BY <1>2, <2>2, <2>6 DEF Handled
      <3> QED
        BY <3>1
    <2>8. UpTo(Handled(u)', u, last, missed[u])
      <3>1. last <= missed[u]
        <4>1. published[u] \in Nat /\ missed[u] \in Nat /\ published[u] <= missed[u]
          BY <1>1, <1>4
        <4> QED
          BY <4>1
      <3>2. last - Len(<<>>) = last
        OBVIOUS
      <3> QED
        BY <2>7, <3>1, <3>2 DEF UpTo
    <2>9. Gapless(u, missed[u])'
      BY <1>2, <2>1, <2>5, <2>8 DEF Gapless
    <2> QED
      BY <2>3, <2>4, <2>9 DEF Sound
  <1> QED
    BY <1>3, <1>4

(* Prefixes, and an element that goes from one sequence to another. *)
LEMMA PrefixOfConcat ==
    ASSUME NEW S, NEW a \in Seq(S), NEW b \in Seq(S)
    PROVE  IsPrefix(a, a \o b)
  <1> DEFINE all == a \o b
  <1>1. /\ Len(all) = Len(a) + Len(b) /\ Len(a) \in Nat /\ Len(b) \in Nat /\ all \in Seq(S)
        /\ \A i \in 1 .. Len(a) : all[i] = a[i]
    OBVIOUS
  <1> HIDE DEF all
  <1>2. SubSeq(a, 1, Len(a)) = SubSeq(all, 1, Len(a))
    BY <1>1
  <1> QED
    BY <1>1, <1>2 DEF IsPrefix, all

LEMMA PrefixGrows ==
    ASSUME NEW S, NEW a \in Seq(S), NEW b \in Seq(S), NEW c \in Seq(S), IsPrefix(a, b)
    PROVE  IsPrefix(a, b \o c)
  <1> DEFINE all == b \o c
  <1>1. /\ Len(all) = Len(b) + Len(c) /\ Len(a) \in Nat /\ Len(b) \in Nat /\ Len(c) \in Nat
        /\ all \in Seq(S) /\ \A i \in 1 .. Len(b) : all[i] = b[i]
    OBVIOUS
  <1>2. Len(a) <= Len(b) /\ SubSeq(a, 1, Len(a)) = SubSeq(b, 1, Len(a))
    BY DEF IsPrefix
  <1> HIDE DEF all
  <1>3. SubSeq(all, 1, Len(a)) = SubSeq(b, 1, Len(a))
    BY <1>1, <1>2
  <1> QED
    BY <1>1, <1>2, <1>3 DEF IsPrefix, all

LEMMA HeadGoesOver ==
    ASSUME NEW S, NEW a \in Seq(S), NEW b \in Seq(S), b # <<>>
    PROVE  Append(a, Head(b)) \o Tail(b) = a \o b
  <1>1. Head(b) \in S /\ Tail(b) \in Seq(S) /\ <<Head(b)>> \in Seq(S)
    OBVIOUS
  <1>2. Append(a, Head(b)) = a \o <<Head(b)>>
    BY <1>1, AppendIsConcat
  <1>3. b = <<Head(b)>> \o Tail(b)
    OBVIOUS
  <1> DEFINE first == <<Head(b)>>
             rest == Tail(b)
  <1>4. first \in Seq(S) /\ rest \in Seq(S)
    BY <1>1
  <1> HIDE DEF first, rest
  <1>5. (a \o first) \o rest = a \o (first \o rest)
    BY <1>4, ConcatAssociative
  <1> QED
    BY <1>2, <1>3, <1>5 DEF first, rest

LEMMA EventsConcat ==
    \A a, b, c \in Seq(Events) : (a \o b) \o c = a \o (b \o c)
  BY ConcatAssociative

(* The queue of a consumer that is to get an exception. *)
LEMMA FailureApart ==
    /\ \A f \in Failures : <<f>> \notin Seq(Events) /\ ~(ToSet(<<f>>) \subseteq Events)
    /\ \A seq \in Seq(Events) : ToSet(seq) \subseteq Events
  <1>1. ASSUME NEW f \in Failures
        PROVE  <<f>> \notin Seq(Events) /\ ~(ToSet(<<f>>) \subseteq Events)
    <2>1. f \notin Events
      BY WhoseLine
    <2>2. <<f>>[1] = f /\ 1 \in DOMAIN <<f>>
      OBVIOUS
    <2>3. f \in ToSet(<<f>>)
      BY <2>2 DEF ToSet
    <2>4. <<f>> \notin Seq(Events)
      BY <2>1, <2>2
    <2> QED
      BY <2>1, <2>3, <2>4
  <1>2. \A seq \in Seq(Events) : ToSet(seq) \subseteq Events
    BY DEF ToSet
  <1> QED
    BY <1>1, <1>2

(* What the consumer got stays a prefix of the transcript.                 *)
LEMMA StoreKeepsPrefix ==
    ASSUME NEW others, SessionTypes(others), NEW missed, NEW s \in Sessions, Sound(s, missed),
           NEW n \in 0 .. Len(subscription[s]), Store(s, n), s \in Persistent
    PROVE  stored'[s] = stored[s] \o Own(s, n) /\ IsPrefix(delivered[s], stored'[s])
  <1>1. stored \in [Sessions -> Seq(Events)] /\ delivered[s] \in Seq(Events)
    BY DEF SessionTypes
  <1>2. Own(s, n) \in Seq(Events)
    BY OwnType
  <1>3. stored'[s] = stored[s] \o Own(s, n)
    BY <1>1 DEF Store
  <1>4. IsPrefix(delivered[s], stored[s])
    BY DEF Sound, Recorded
  <1> QED
    BY <1>1, <1>2, <1>3, <1>4, PrefixGrows

(* The demultiplexer ends with an exception for the consumer. *)
LEMMA StopStep ==
    ASSUME NEW others, NEW missed \in [Sessions -> Nat], SessionInvariant(others, missed),
           NEW s \in Sessions, demux[s] = "running",
           NEW n \in DOMAIN subscription[s], NEW m \in 0 .. Len(subscription[s]),
           NEW why \in {"malformed", "refused", "overflow"}, Store(s, m), StopAt(s, n, why),
           UNCHANGED <<childVars, stage, subscribed, delivered, consumer>>
    PROVE  Sound(s, missed[s])'
  <1> USE DEF childVars
  <1>1. /\ SessionTypes(others) /\ Sound(s, missed[s]) /\ Life(s)
        /\ demux \in [Sessions -> {"none", "running", "ended"}] /\ delivered[s] \in Seq(Events)
    BY DEF SessionInvariant, SessionTypes, Sound
  <1>2. PICK f \in Failures : events'[s] = <<f>>
    BY <1>1, StopType
  <1>3. demux'[s] = "ended"
    BY <1>1 DEF StopAt
  <1>4. stage[s] = "open" /\ consumer[s] = "waiting" /\ events[s] \in Seq(Events)
    BY <1>1 DEF Life
  <1>5. Life(s)'
    <2>1. Len(events'[s]) = 1 /\ events'[s][1] \in Failures
      BY <1>2
    <2> QED
      BY <1>3, <1>4, <2>1 DEF Life
  <1>6. Recorded(s)'
    <2>1. events'[s] \notin Seq(Events)
      BY <1>2, FailureApart
    <2>2. s \in Persistent => IsPrefix(delivered[s], stored'[s])
      BY <1>1, StoreKeepsPrefix
    <2> QED
      BY <2>1, <2>2 DEF Recorded
  <1>7. Gapless(s, missed[s])'
    <2> DEFINE own == Own(s, Len(subscription[s]))
    <2>1. own \in Seq(Events)
      <3>1. Len(subscription[s]) \in 0 .. Len(subscription[s])
        BY <1>1 DEF SessionTypes
      <3> QED
        BY <1>1, <3>1, OwnType
    <2>2. PICK last \in Int : UpTo(Handled(s), s, last, missed[s])
      BY <1>1 DEF Sound, Gapless
    <2> HIDE DEF own
    <2>3. Handled(s) = (delivered[s] \o events[s]) \o own
      BY DEF Handled, own
    <2>4. (delivered[s] \o events[s]) \o own = delivered[s] \o (events[s] \o own)
      BY <1>1, <1>4, <2>1, EventsConcat, Zenon
    <2>5. events[s] \o own \in Seq(Events) /\ Len(events[s] \o own) \in Int
      BY <1>4, <2>1
    <2>6. UpTo(delivered[s], s, last - Len(events[s] \o own), missed[s])
      BY <1>1, <2>2, <2>3, <2>4, <2>5, UpToBegins
    <2>7. Undelivered(s)' = <<>>
      BY <1>2, FailureApart DEF Undelivered
    <2>8. (delivered[s] \o Undelivered(s))' = delivered[s]
      <3>1. delivered[s] \o <<>> = delivered[s]
        BY <1>1, ConcatEmptySeq, Zenon
      <3> QED
        BY <2>7, <3>1
    <2>9. last - Len(events[s] \o own) \in Int
      BY <2>5
    <2> QED
      BY <1>3, <2>6, <2>8, <2>9 DEF Gapless
  <1> QED
    BY <1>5, <1>6, <1>7 DEF Sound

(* The demultiplexer handles all lines that wait for it. *)
LEMMA HandleStep ==
    ASSUME NEW others, NEW missed \in [Sessions -> Nat], SessionInvariant(others, missed),
           NEW s \in Sessions, demux[s] = "running", HandleAll(s),
           UNCHANGED <<childVars, stage, subscribed, delivered, consumer>>
    PROVE  Sound(s, missed[s])'
  <1> USE DEF childVars
  <1> DEFINE n == Len(subscription[s])
             own == Own(s, n)
  <1>1. /\ SessionTypes(others) /\ Sound(s, missed[s]) /\ Life(s)
        /\ events \in [Sessions -> Seq(Events) \cup {<<f>> : f \in Failures}]
        /\ subscription \in [Sessions -> Seq(Events \cup {Malformed})]
        /\ delivered[s] \in Seq(Events) /\ stored[s] \in Seq(Events)
    BY DEF SessionInvariant, SessionTypes, Sound
  <1>2. /\ Store(s, n) /\ events' = [events EXCEPT ![s] = events[s] \o own]
        /\ subscription' = [subscription EXCEPT ![s] = <<>>] /\ demux' = demux
    BY DEF HandleAll
  <1>3. n \in 0 .. Len(subscription[s])
    BY <1>1
  <1>4. own \in Seq(Events)
    BY <1>1, <1>3, OwnType
  <1>5. stage[s] = "open" /\ consumer[s] = "waiting" /\ events[s] \in Seq(Events) /\ s \in subscribed
    BY <1>1 DEF Life
  <1>6. s \in Persistent => stored'[s] = stored[s] \o own /\ IsPrefix(delivered[s], stored'[s])
    BY <1>1, <1>2, <1>3, StoreKeepsPrefix
  <1>7. Handled(s) = (delivered[s] \o events[s]) \o own
    BY DEF Handled
  <1>8. /\ events'[s] = events[s] \o own /\ subscription'[s] = <<>> /\ demux'[s] = "running"
        /\ UNCHANGED <<stdout, published, stage, subscribed, delivered, consumer>>
    BY <1>1, <1>2
  <1> HIDE DEF own, n
  <1>9. events[s] \o own \in Seq(Events)
    BY <1>4, <1>5
  <1>10. (delivered[s] \o events[s]) \o own = delivered[s] \o (events[s] \o own)
    BY <1>1, <1>4, <1>5, EventsConcat, Zenon
  <1>11. Life(s)'
    BY <1>5, <1>8, <1>9 DEF Life
  <1>12. Recorded(s)'
    <2>1. s \in Persistent => stored[s] = delivered[s] \o events[s]
      BY <1>1, <1>5 DEF Sound, Recorded
    <2>2. s \in Persistent => stored'[s] = delivered'[s] \o events'[s]
      BY <1>6, <1>8, <1>10, <2>1
    <2> QED
      BY <1>6, <1>8, <2>2 DEF Recorded
  <1>13. Handled(s)' = Handled(s)
    <2>1. Own(s, Len(subscription[s]))' = <<>>
      BY <1>8, AmongNone DEF Own
    <2>2. (delivered[s] \o (events[s] \o own)) \o <<>> = delivered[s] \o (events[s] \o own)
      <3>1. delivered[s] \o (events[s] \o own) \in Seq(Events)
        BY <1>1, <1>9
      <3> QED
        BY <3>1, ConcatEmptySeq, Zenon
    <2>3. Handled(s)' = (delivered[s] \o (events[s] \o own)) \o <<>>
      BY <1>8, <2>1 DEF Handled
    <2> QED
      BY <1>7, <1>10, <2>2, <2>3
  <1>14. Gapless(s, missed[s])'
    <2>1. PICK last \in 0 .. published[s] :
             ComesAfter(stdout, s, last, published[s]) /\ UpTo(Handled(s), s, last, missed[s])
      BY <1>1 DEF Sound, Gapless
    <2>2. UpTo(Handled(s)', s, last, missed[s])
      BY <1>13, <2>1
    <2> QED
      BY <1>8, <2>1, <2>2 DEF Gapless
  <1> QED
    BY <1>11, <1>12, <1>14 DEF Sound

LEMMA DemultiplexStep ==
    ASSUME NEW others, NEW missed \in [Sessions -> Nat], SessionInvariant(others, missed),
           NEW s \in Sessions, Demultiplex(s)
    PROVE  \A u \in Sessions : Sound(u, missed[u])'
  <1> TAKE u \in Sessions
  <1>1. /\ demux[s] = "running" /\ Sound(u, missed[u])
        /\ UNCHANGED <<childVars, stage, subscribed, delivered, consumer>>
        /\ DOMAIN subscription[s] = 1 .. Len(subscription[s]) /\ Len(subscription[s]) \in Nat
        /\ events \in [Sessions -> Seq(Events) \cup {<<f>> : f \in Failures}]
        /\ subscription \in [Sessions -> Seq(Events \cup {Malformed})]
        /\ demux \in [Sessions -> {"none", "running", "ended"}]
        /\ stored \in [Sessions -> Seq(Events)] /\ published \in [Sessions -> Nat]
    <2>1. demux[s] = "running" /\ UNCHANGED <<childVars, stage, subscribed, delivered, consumer>>
      BY DEF Demultiplex
    <2>2. /\ Sound(u, missed[u])
          /\ events \in [Sessions -> Seq(Events) \cup {<<f>> : f \in Failures}]
          /\ subscription \in [Sessions -> Seq(Events \cup {Malformed})]
          /\ demux \in [Sessions -> {"none", "running", "ended"}]
          /\ stored \in [Sessions -> Seq(Events)] /\ published \in [Sessions -> Nat]
      BY DEF SessionInvariant, SessionTypes
    <2>3. subscription[s] \in Seq(Events \cup {Malformed})
      BY <2>2
    <2> QED
      BY <2>1, <2>2, <2>3
  <1>2. CASE u # s
    <2>1. /\ subscription'[u] = subscription[u] /\ demux'[u] = demux[u]
          /\ events'[u] = events[u] /\ stored'[u] = stored[u]
      BY <1>1, <1>2 DEF Demultiplex, HandleAll, HandleMalformed, HandleRefused, HandleOverflow,
                        Store, StopAt
    <2> QED
      BY <1>1, <2>1, Untouched DEF childVars
  <1>3. CASE u = s
    <2>1. CASE HandleAll(s)
      BY <1>1, <1>3, <2>1, HandleStep
    <2>2. CASE HandleMalformed(s)
      <3>1. PICK n \in DOMAIN subscription[s] : Store(s, n - 1) /\ StopAt(s, n, "malformed")
        BY <2>2 DEF HandleMalformed
      <3>2. n - 1 \in 0 .. Len(subscription[s])
        BY <1>1, <3>1
      <3> QED
        BY <1>1, <1>3, <3>1, <3>2, StopStep
    <2>3. CASE HandleRefused(s)
      <3>1. PICK n \in DOMAIN subscription[s] : Store(s, n - 1) /\ StopAt(s, n, "refused")
        BY <2>3 DEF HandleRefused
      <3>2. n - 1 \in 0 .. Len(subscription[s])
        BY <1>1, <3>1
      <3> QED
        BY <1>1, <1>3, <3>1, <3>2, StopStep
    <2>4. CASE HandleOverflow(s)
      <3>1. PICK n \in DOMAIN subscription[s] : Store(s, n) /\ StopAt(s, n, "overflow")
        BY <2>4 DEF HandleOverflow
      <3>2. n \in 0 .. Len(subscription[s])
        BY <1>1, <3>1
      <3> QED
        BY <1>1, <1>3, <3>1, <3>2, StopStep
    <2> QED
      BY <2>1, <2>2, <2>3, <2>4 DEF Demultiplex
  <1> QED
    BY <1>2, <1>3

(* The consumer takes an event, or the exception that ends its iteration. *)
LEMMA ConsumeStep ==
    ASSUME NEW others, NEW missed \in [Sessions -> Nat], SessionInvariant(others, missed),
           NEW s \in Sessions, Consume(s)
    PROVE  \A u \in Sessions : Sound(u, missed[u])'
  <1> TAKE u \in Sessions
  <1> USE DEF childVars
  <1> DEFINE head == Head(events[s])
  <1>1. /\ SessionTypes(others) /\ Sound(u, missed[u]) /\ Sound(s, missed[s])
        /\ Life(s) /\ Recorded(s) /\ Gapless(s, missed[s])
        /\ events \in [Sessions -> Seq(Events) \cup {<<f>> : f \in Failures}]
        /\ delivered \in [Sessions -> Seq(Events)] /\ stored[s] \in Seq(Events)
        /\ consumer \in [Sessions -> {"waiting", "raised"}]
        /\ demux[s] \in {"none", "running", "ended"} /\ published \in [Sessions -> Nat]
    BY DEF SessionInvariant, SessionTypes, Sound
  <1>2. /\ consumer[s] = "waiting" /\ events[s] # <<>>
        /\ events' = [events EXCEPT ![s] = Tail(events[s])]
        /\ UNCHANGED <<stdout, published, stage, subscribed, subscription, demux, stored>>
    BY DEF Consume
  <1>3. CASE u # s
    <2>1. events'[u] = events[u] /\ delivered'[u] = delivered[u] /\ consumer'[u] = consumer[u]
      BY <1>1, <1>2, <1>3 DEF Consume
    <2> QED
      BY <1>1, <1>2, <2>1, Untouched
  <1>4. ASSUME head \in Events,
               delivered' = [delivered EXCEPT ![s] = Append(delivered[s], head)],
               UNCHANGED consumer
        PROVE  Sound(s, missed[s])'
    <2>1. events[s] \in Seq(Events)
      <3>1. ASSUME NEW f \in Failures, events[s] = <<f>> PROVE FALSE
        BY <1>4, <3>1, WhoseLine
      <3> QED
        BY <1>1, <3>1
    <2>2. /\ delivered'[s] = Append(delivered[s], head) /\ events'[s] = Tail(events[s])
          /\ delivered'[s] \in Seq(Events) /\ events'[s] \in Seq(Events)
      BY <1>1, <1>2, <1>4, <2>1
    <2>3. delivered'[s] \o events'[s] = delivered[s] \o events[s]
      <3>1. delivered[s] \in Seq(Events) /\ events[s] # <<>>
        BY <1>1, <1>2
      <3>2. Append(delivered[s], head) \o Tail(events[s]) = delivered[s] \o events[s]
        BY <2>1, <3>1, HeadGoesOver
      <3> QED
        BY <2>2, <3>2
    <2>4. demux[s] # "none"
      BY <1>1, <1>2 DEF Life
    <2>5. ~(demux[s] = "ended" /\ stage[s] = "open")
      <3>1. events[s][1] = head
        BY <1>2, <2>1
      <3> QED
        BY <1>1, <1>2, <1>4, <3>1, WhoseLine DEF Life
    <2>6. Life(s)'
      BY <1>1, <1>2, <1>4, <2>2, <2>4, <2>5 DEF Life
    <2>7. Recorded(s)'
      <3>1. s \in Persistent => stored[s] = delivered'[s] \o events'[s]
        BY <1>1, <1>2, <2>1, <2>3 DEF Recorded
      <3>2. s \in Persistent => IsPrefix(delivered'[s], stored[s])
        BY <2>2, <3>1, PrefixOfConcat
      <3> QED
        BY <1>2, <3>1, <3>2 DEF Recorded
    <2>8. CASE demux[s] = "running"
      <3>1. PICK last \in 0 .. published[s] :
               ComesAfter(stdout, s, last, published[s]) /\ UpTo(Handled(s), s, last, missed[s])
        BY <1>1, <2>8 DEF Gapless
      <3>2. Handled(s)' = Handled(s)
        BY <1>2, <2>3 DEF Handled, Own
      <3>3. Gapless(s, missed[s])'
        BY <1>2, <2>8, <3>1, <3>2 DEF Gapless
      <3> QED
        BY <2>6, <2>7, <3>3 DEF Sound
    <2>9. CASE demux[s] = "ended"
      <3>1. Undelivered(s) = events[s] /\ Undelivered(s)' = events'[s]
        BY <2>1, <2>2, FailureApart DEF Undelivered
      <3>2. PICK last \in Int : UpTo(delivered[s] \o events[s], s, last, missed[s])
        BY <1>1, <2>9, <3>1 DEF Gapless
      <3>3. UpTo((delivered[s] \o Undelivered(s))', s, last, missed[s])
        BY <2>3, <3>1, <3>2
      <3>4. Gapless(s, missed[s])'
        BY <1>2, <2>9, <3>3 DEF Gapless
      <3> QED
        BY <2>6, <2>7, <3>4 DEF Sound
    <2> QED
      BY <1>1, <2>4, <2>8, <2>9
  <1>5. ASSUME head \notin Events, consumer' = [consumer EXCEPT ![s] = "raised"],
               UNCHANGED delivered
        PROVE  Sound(s, missed[s])'
    <2>1. PICK f \in Failures : events[s] = <<f>>
      <3>1. events[s] \notin Seq(Events)
        BY <1>2, <1>5
      <3> QED
        BY <1>1, <3>1
    <2>2. events'[s] = <<>> /\ consumer'[s] = "raised"
      BY <1>1, <1>2, <1>5, <2>1
    <2>3. demux[s] = "ended"
      BY <1>1, <1>2, <2>1, FailureApart DEF Life
    <2>4. Life(s)'
      BY <1>1, <1>2, <2>2, <2>3 DEF Life
    <2>5. Recorded(s)'
      BY <1>1, <1>2, <1>5, <2>2 DEF Recorded
    <2>6. Undelivered(s) = <<>> /\ Undelivered(s)' = <<>>
      <3>1. Undelivered(s) = <<>>
        BY <2>1, FailureApart DEF Undelivered
      <3>2. Undelivered(s)' = <<>>
        BY <2>2 DEF Undelivered
      <3> QED
        BY <3>1, <3>2
    <2>7. Gapless(s, missed[s])'
      BY <1>1, <1>2, <1>5, <2>3, <2>6 DEF Gapless
    <2> QED
      BY <2>4, <2>5, <2>7 DEF Sound
  <1> QED
    BY <1>1, <1>3, <1>4, <1>5 DEF Consume

(* What the demultiplexer has not handled when the session is closed is *)
(* lost, and nothing before it.                                         *)
LEMMA CloseStep ==
    ASSUME NEW others, NEW missed \in [Sessions -> Nat], SessionInvariant(others, missed),
           NEW s \in Sessions, Close(s)
    PROVE  \A u \in Sessions : Sound(u, missed[u])'
  <1> TAKE u \in Sessions
  <1> USE DEF childVars
  <1>1. /\ SessionTypes(others) /\ Sound(u, missed[u]) /\ Sound(s, missed[s])
        /\ Life(s) /\ Recorded(s) /\ Gapless(s, missed[s])
        /\ stage \in [Sessions -> {"none", "requesting", "granted", "answered", "open", "closing",
                                   "closed", "failed"}]
        /\ demux \in [Sessions -> {"none", "running", "ended"}] /\ delivered[s] \in Seq(Events)
        /\ published \in [Sessions -> Nat] /\ subscribed \subseteq Sessions
    BY DEF SessionInvariant, SessionTypes, Sound
  <1>2. /\ stage[s] = "open" /\ stage' = [stage EXCEPT ![s] = "closing"]
        /\ subscribed' = subscribed \ {s} /\ demux' = [demux EXCEPT ![s] = "ended"]
        /\ UNCHANGED <<stdout, published, subscription, events, stored, delivered, consumer>>
    BY DEF Close, BeginClose
  <1>3. CASE u # s
    <2>1. stage'[u] = stage[u] /\ demux'[u] = demux[u] /\ (u \in subscribed' <=> u \in subscribed)
      BY <1>1, <1>2, <1>3
    <2> QED
      BY <1>1, <1>2, <2>1, Untouched
  <1>4. demux'[s] = "ended" /\ stage'[s] = "closing"
    BY <1>1, <1>2
  <1>5. Life(s)'
    BY <1>1, <1>2, <1>4 DEF Life
  <1>6. Recorded(s)'
    BY <1>1, <1>2 DEF Recorded
  <1>7. Undelivered(s)' = Undelivered(s)
    BY <1>2 DEF Undelivered
  <1>8. \E last \in Int : UpTo(delivered[s] \o Undelivered(s), s, last, missed[s])
    <2>1. demux[s] \in {"running", "ended"}
      BY <1>1, <1>2 DEF Life
    <2>2. CASE demux[s] = "ended"
      BY <1>1, <2>2 DEF Gapless
    <2>3. CASE demux[s] = "running"
      <3> DEFINE own == Own(s, Len(subscription[s]))
      <3>1. own \in Seq(Events)
        <4>1. Len(subscription[s]) \in 0 .. Len(subscription[s])
          BY <1>1 DEF SessionTypes
        <4> QED
          BY <1>1, <4>1, OwnType
      <3>2. PICK last \in Int : UpTo(Handled(s), s, last, missed[s])
        BY <1>1, <2>3 DEF Gapless
      <3>3. events[s] \in Seq(Events)
        BY <1>1, <2>3 DEF Life
      <3>4. Undelivered(s) = events[s]
        BY <3>3, FailureApart DEF Undelivered
      <3> HIDE DEF own
      <3> DEFINE seen == delivered[s] \o events[s]
      <3>5. seen \in Seq(Events) /\ Len(own) \in Int
        BY <1>1, <3>1, <3>3
      <3>6. Handled(s) = seen \o own
        BY DEF Handled, own
      <3> HIDE DEF seen
      <3>7. UpTo(seen, s, last - Len(own), missed[s])
        BY <3>1, <3>2, <3>5, <3>6, UpToBegins
      <3> QED
        BY <3>4, <3>5, <3>7 DEF seen
    <2> QED
      BY <2>1, <2>2, <2>3
  <1>9. Gapless(s, missed[s])'
    BY <1>2, <1>4, <1>7, <1>8 DEF Gapless
  <1> QED
    BY <1>3, <1>5, <1>6, <1>9 DEF Sound

LEMMA SessionStart ==
    ASSUME NEW others, NEW missed, SessionInit
    PROVE  SessionInvariant(others, missed)
  <1> USE DEF SessionInit
  <1>1. SessionTypes(others)
    <2>1. /\ stdout \in Seq(Events \cup {Malformed} \cup {Created(s) : s \in Sessions} \cup others)
          /\ subscription \in [Sessions -> Seq(Events \cup {Malformed})]
          /\ events \in [Sessions -> Seq(Events) \cup {<<f>> : f \in Failures}]
          /\ stored \in [Sessions -> Seq(Events)] /\ delivered \in [Sessions -> Seq(Events)]
          /\ \A s \in Sessions : Len(events[s]) <= Size
      BY SessionAssumption
    <2>2. /\ published \in [Sessions -> Nat] /\ \A s \in Sessions : published[s] <= MaxEvents[s]
      BY SessionAssumption
    <2> QED
      BY <2>1, <2>2 DEF SessionTypes
  <1>2. ASSUME NEW s \in Sessions PROVE Sound(s, missed[s])
    <2>1. Life(s)
      BY DEF Life
    <2>2. Recorded(s)
      <3>1. <<>> \o <<>> = <<>> /\ IsPrefix(<<>>, <<>>)
        BY DEF IsPrefix
      <3> QED
        BY <3>1 DEF Recorded
    <2>3. ComesAfter(stdout, s, 0, 0)
      <3>1. DOMAIN stdout = {} /\ (0 + 1) .. 0 = {}
        OBVIOUS
      <3> QED
        BY <3>1 DEF ComesAfter
    <2>4. Gapless(s, missed[s])
      BY <2>3 DEF Gapless
    <2> QED
      BY <2>1, <2>2, <2>4 DEF Sound
  <1> QED
    BY <1>1, <1>2 DEF SessionInvariant

LEMMA SessionStep ==
    ASSUME NEW others, NEW missed \in [Sessions -> Nat], SessionInvariant(others, missed),
           [SessionNext]_sessionVars,
           \A s \in Sessions : CreateReturns(s) => published[s] <= missed[s]
    PROVE  SessionInvariant(others, missed)'
  <1>1. SessionTypes(others)'
    BY TypesStep
  <1>2. CASE \E s \in Sessions : AnswerNew(s) \/ Create(s) \/ CreateFails(s) \/ CloseReturns(s)
    BY <1>1, <1>2, QuietStep DEF SessionInvariant
  <1>3. CASE Garble \/ Exit \/ UNCHANGED sessionVars
    BY <1>1, <1>3, QuietStep DEF SessionInvariant
  <1>4. ASSUME NEW s \in Sessions, Publish(s) PROVE SessionInvariant(others, missed)'
    BY <1>1, <1>4, PublishStep DEF SessionInvariant
  <1>5. ASSUME NEW s \in Sessions, CreateReturns(s) PROVE SessionInvariant(others, missed)'
    BY <1>1, <1>5, CreateStep DEF SessionInvariant
  <1>6. ASSUME NEW s \in Sessions, Demultiplex(s) PROVE SessionInvariant(others, missed)'
    BY <1>1, <1>6, DemultiplexStep DEF SessionInvariant
  <1>7. ASSUME NEW s \in Sessions, Consume(s) PROVE SessionInvariant(others, missed)'
    BY <1>1, <1>7, ConsumeStep DEF SessionInvariant
  <1>8. ASSUME NEW s \in Sessions, Close(s) PROVE SessionInvariant(others, missed)'
    BY <1>1, <1>8, CloseStep DEF SessionInvariant
  <1>9. CASE ReadLine
    BY <1>1, <1>9, ReadStep DEF SessionInvariant
  <1> QED
    BY <1>2, <1>3, <1>4, <1>5, <1>6, <1>7, <1>8, <1>9 DEF SessionNext

-----------------------------------------------------------------------------
(* The properties *)

(* In every reachable state, the events of a session are where they should *)
(* be: got, queued, to be handled or on stdout, one after the other, and   *)
(* in the transcript as the consumer gets them.                            *)
THEOREM SessionInvariance == SessionSpec => []SessionInvariant({}, MaxEvents)
  <1>1. SessionInit => SessionInvariant({}, MaxEvents)
    BY SessionStart
  <1>2. SessionInvariant({}, MaxEvents) /\ [SessionNext]_sessionVars
        => SessionInvariant({}, MaxEvents)'
    <2> SUFFICES ASSUME SessionInvariant({}, MaxEvents), [SessionNext]_sessionVars
                 PROVE  SessionInvariant({}, MaxEvents)'
      OBVIOUS
    <2>1. MaxEvents \in [Sessions -> Nat]
      BY SessionAssumption
    <2>2. \A s \in Sessions : published[s] <= MaxEvents[s]
      BY DEF SessionInvariant, SessionTypes
    <2> QED
      BY <2>1, <2>2, SessionStep
  <1> QED
    BY <1>1, <1>2, PTL DEF SessionSpec

(* The variables keep their types, and the queue of the consumer never *)
(* holds more than event_queue_size items.                             *)
THEOREM SessionTypeCorrectness == SessionSpec => []SessionTypes({})
  BY SessionInvariance, PTL DEF SessionInvariant

(* What the properties say follows from the invariant, for whatever else   *)
(* the child writes and however many events are missed.                    *)
LEMMA NoGapsFollows ==
    ASSUME NEW others, NEW missed \in [Sessions -> Nat], SessionInvariant(others, missed)
    PROVE  NoGaps
  <1> SUFFICES ASSUME NEW s \in Sessions
               PROVE  LET rest == IF demux[s] = "running" THEN Own(s, Len(subscription[s]))
                                  ELSE <<>>
                          stream == delivered[s] \o Undelivered(s) \o rest
                      IN  \A i \in DOMAIN stream :
                             /\ stream[i].of = s
                             /\ i > 1 => stream[i].number = stream[i - 1].number + 1
    BY DEF NoGaps
  <1> DEFINE rest == IF demux[s] = "running" THEN Own(s, Len(subscription[s])) ELSE <<>>
             stream == delivered[s] \o Undelivered(s) \o rest
  <1>1. /\ Life(s) /\ Gapless(s, missed[s]) /\ delivered[s] \in Seq(Events)
        /\ demux[s] \in {"none", "running", "ended"}
        /\ events[s] \in Seq(Events) \cup {<<f>> : f \in Failures}
        /\ Len(subscription[s]) \in 0 .. Len(subscription[s])
    BY DEF SessionInvariant, SessionTypes, Sound
  <1>2. Undelivered(s) \in Seq(Events)
    <2>1. <<>> \in Seq(Events)
      OBVIOUS
    <2> QED
      BY <1>1, <2>1, FailureApart DEF Undelivered
  <1>3. rest \in Seq(Events)
    BY <1>1, OwnType DEF SessionInvariant
  <1>4. delivered[s] \o Undelivered(s) \in Seq(Events)
    BY <1>1, <1>2
  <1>5. stream \in Seq(Events)
    BY <1>3, <1>4
  <1>6. \E last \in Int : UpTo(stream, s, last, missed[s])
    <2>1. CASE demux[s] = "none"
      <3>1. delivered[s] = <<>> /\ events[s] = <<>>
        BY <1>1, <2>1 DEF Life
      <3>2. Undelivered(s) = <<>> /\ rest = <<>>
        BY <2>1, <3>1 DEF Undelivered
      <3>3. stream = <<>>
        BY <3>1, <3>2
      <3>4. UpTo(<<>>, s, 0, missed[s])
        BY DEF UpTo
      <3> HIDE DEF stream
      <3> QED
        BY <3>3, <3>4
    <2>2. CASE demux[s] = "running"
      <3>1. Undelivered(s) = events[s]
        BY <1>1, <2>2, FailureApart DEF Life, Undelivered
      <3>2. stream = Handled(s)
        BY <2>2, <3>1 DEF Handled
      <3>3. PICK last \in Int : UpTo(Handled(s), s, last, missed[s])
        BY <1>1, <2>2 DEF Gapless
      <3> QED
        BY <3>2, <3>3
    <2>3. CASE demux[s] = "ended"
      <3>1. rest = <<>>
        BY <2>3
      <3>2. stream = delivered[s] \o Undelivered(s)
        BY <1>4, <3>1, ConcatEmptySeq, Zenon
      <3> QED
        BY <1>1, <2>3, <3>2 DEF Gapless
    <2> QED
      BY <1>1, <2>1, <2>2, <2>3
  <1> HIDE DEF stream
  <1>7. PICK last \in Int : UpTo(stream, s, last, missed[s])
    BY <1>6
  <1>8. ASSUME NEW i \in DOMAIN stream
        PROVE  stream[i].of = s /\ stream[i].number = last - Len(stream) + i
    BY <1>7, <1>8 DEF UpTo, Event
  <1>9. ASSUME NEW i \in DOMAIN stream
        PROVE  stream[i].of = s /\ (i > 1 => stream[i].number = stream[i - 1].number + 1)
    <2>1. Len(stream) \in Nat /\ DOMAIN stream = 1 .. Len(stream)
      BY <1>5
    <2>2. i > 1 => i - 1 \in DOMAIN stream
      BY <2>1
    <2> QED
      BY <1>8, <2>1, <2>2
  <1> QED
    BY <1>9 DEF stream

(* What the demultiplexer passes on and the consumer gets are the session's *)
(* own events, without a gap, a repetition or one out of its turn.          *)
THEOREM SessionNoGaps == SessionSpec => []NoGaps
  <1>1. SessionInvariant({}, MaxEvents) => NoGaps
    BY SessionAssumption, NoGapsFollows
  <1> QED
    BY <1>1, SessionInvariance, PTL

LEMMA DeliveredIsStoredFollows ==
    ASSUME NEW others, NEW missed \in [Sessions -> Nat], SessionInvariant(others, missed)
    PROVE  DeliveredIsStored
  <1> SUFFICES ASSUME NEW s \in Persistent
               PROVE  LET seen == delivered[s] \o Undelivered(s) IN
                      /\ IsPrefix(seen, stored[s])
                      /\ consumer[s] = "waiting" /\ ToSet(events[s]) \subseteq Events =>
                            seen = stored[s]
    BY DEF DeliveredIsStored
  <1> DEFINE seen == delivered[s] \o Undelivered(s)
  <1>1. /\ Life(s) /\ Recorded(s) /\ delivered[s] \in Seq(Events) /\ stored[s] \in Seq(Events)
        /\ events[s] \in Seq(Events) \cup {<<f>> : f \in Failures}
        /\ consumer[s] \in {"waiting", "raised"}
    BY SessionAssumption DEF SessionInvariant, SessionTypes, Sound
  <1>2. IsPrefix(delivered[s], stored[s])
    BY <1>1 DEF Recorded
  <1>3. delivered[s] \o <<>> = delivered[s]
    BY <1>1, ConcatEmptySeq, Zenon
  <1>4. CASE events[s] \in Seq(Events)
    <2>1. Undelivered(s) = events[s]
      BY <1>4, FailureApart DEF Undelivered
    <2>2. consumer[s] = "waiting" => seen = stored[s]
      BY <1>1, <1>4, <2>1 DEF Recorded
    <2>3. IsPrefix(stored[s], stored[s])
      BY <1>1 DEF IsPrefix
    <2>4. consumer[s] = "raised" => seen = delivered[s]
      BY <1>1, <1>3, <2>1 DEF Life
    <2> QED
      BY <1>1, <1>2, <2>2, <2>3, <2>4
  <1>5. CASE events[s] \notin Seq(Events)
    <2>1. ~(ToSet(events[s]) \subseteq Events) /\ Undelivered(s) = <<>>
      BY <1>1, <1>5, FailureApart DEF Undelivered
    <2> QED
      BY <1>2, <1>3, <2>1
  <1> QED
    BY <1>4, <1>5

(* The consumer gets what is in the transcript, and all of it as long as *)
(* the session did not fail.                                             *)
THEOREM SessionDeliveredIsStored == SessionSpec => []DeliveredIsStored
  <1>1. SessionInvariant({}, MaxEvents) => DeliveredIsStored
    BY SessionAssumption, DeliveredIsStoredFollows
  <1> QED
    BY <1>1, SessionInvariance, PTL

LEMMA EndIsReportedFollows ==
    ASSUME NEW others, NEW missed \in [Sessions -> Nat], SessionInvariant(others, missed)
    PROVE  EndIsReported
  BY DEF SessionInvariant, SessionTypes, Sound, Life, EndIsReported

(* A demultiplexer that ended in an open session has told the consumer why, *)
(* or is about to: the consumer does not wait for nothing.                  *)
THEOREM SessionEndIsReported == SessionSpec => []EndIsReported
  <1>1. SessionInvariant({}, MaxEvents) => EndIsReported
    BY SessionAssumption, EndIsReportedFollows
  <1> QED
    BY <1>1, SessionInvariance, PTL

(* After close() nothing more is stored or queued, and after an exception *)
(* the consumer gets nothing.                                             *)
THEOREM SessionSilentAfterEnd == SessionSpec => SilentAfterEnd
  <1>1. ASSUME SessionInvariant({}, MaxEvents), [SessionNext]_sessionVars, NEW s \in Sessions
        PROVE  /\ stage[s] \in {"closing", "closed"} =>
                    stored'[s] = stored[s] /\ Len(events'[s]) <= Len(events[s])
               /\ consumer[s] = "raised" =>
                    delivered'[s] = delivered[s] /\ stored'[s] = stored[s]
    <2> USE DEF childVars, queueVars
    <2>1. /\ Life(s) /\ demux[s] \in {"none", "running", "ended"}
          /\ delivered \in [Sessions -> Seq(Events)] /\ stored \in [Sessions -> Seq(Events)]
          /\ events \in [Sessions -> Seq(Events) \cup {<<f>> : f \in Failures}]
          /\ subscription \in [Sessions -> Seq(Events \cup {Malformed})]
      BY <1>1 DEF SessionInvariant, SessionTypes, Sound
    <2>2. stage[s] \in {"closing", "closed"} \/ consumer[s] = "raised" => demux[s] = "ended"
      BY <2>1 DEF Life
    <2>3. Len(events[s]) <= Len(events[s])
      <3>1. Len(events[s]) \in Nat
        BY <2>1
      <3> QED
        BY <3>1
    <2>4. CASE UNCHANGED <<stored, events, delivered>>
      BY <2>3, <2>4
    <2>5. ASSUME NEW t \in Sessions, Demultiplex(t)
          PROVE  /\ delivered' = delivered
                 /\ demux[s] = "ended" => stored'[s] = stored[s] /\ events'[s] = events[s]
      <3>1. delivered' = delivered /\ demux[t] = "running"
        BY <2>5 DEF Demultiplex
      <3>2. t # s => stored'[s] = stored[s] /\ events'[s] = events[s]
        BY <2>1, <2>5 DEF Demultiplex, HandleAll, HandleMalformed, HandleRefused, HandleOverflow,
                          Store, StopAt
      <3> QED
        BY <3>1, <3>2
    <2>6. ASSUME NEW t \in Sessions, Consume(t)
          PROVE  /\ stored' = stored /\ Len(events'[s]) <= Len(events[s])
                 /\ consumer[s] = "raised" => delivered'[s] = delivered[s]
      <3>1. /\ stored' = stored /\ consumer[t] = "waiting" /\ events[t] # <<>>
            /\ events' = [events EXCEPT ![t] = Tail(events[t])]
            /\ \/ delivered' = [delivered EXCEPT ![t] = Append(delivered[t], Head(events[t]))]
               \/ delivered' = delivered
        BY <2>6 DEF Consume
      <3>2. consumer[s] = "raised" => delivered'[s] = delivered[s]
        BY <2>1, <3>1
      <3>3. CASE t = s
        <4>1. events'[s] = Tail(events[s]) /\ Len(Tail(events[s])) <= Len(events[s])
          BY <2>1, <3>1, <3>3
        <4> QED
          BY <3>1, <3>2, <4>1
      <3>4. CASE t # s
        <4>1. events'[s] = events[s]
          BY <2>1, <3>1, <3>4
        <4> QED
          BY <2>3, <3>1, <3>2, <4>1
      <3> QED
        BY <3>3, <3>4
    <2>7. \/ UNCHANGED <<stored, events, delivered>>
          \/ \E t \in Sessions : Demultiplex(t) \/ Consume(t)
      BY <1>1 DEF SessionNext, sessionVars, AnswerNew, Publish, Create, CreateFails, CreateReturns,
                  Close, CloseReturns, Garble, Exit, ReadLine
    <2> QED
      BY <2>2, <2>3, <2>4, <2>5, <2>6, <2>7
  <1>2. SessionInvariant({}, MaxEvents) /\ [SessionNext]_sessionVars =>
          [\A s \in Sessions :
             /\ stage[s] \in {"closing", "closed"} =>
                  stored'[s] = stored[s] /\ Len(events'[s]) <= Len(events[s])
             /\ consumer[s] = "raised" =>
                  delivered'[s] = delivered[s] /\ stored'[s] = stored[s]]_sessionVars
    BY <1>1
  <1> QED
    BY <1>2, SessionInvariance, PTL DEF SessionSpec, SilentAfterEnd

=============================================================================
