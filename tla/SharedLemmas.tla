---------------------------- MODULE SharedLemmas ----------------------------
(* What several proofs rest on: what the operators of Queues return, for   *)
(* lines over any set, induction over the natural numbers, and recursion   *)
(* over values of some depth.                                              *)
EXTENDS Queues, SequenceTheorems, WellFoundedInduction, TLAPS

(* The place of somebody who stands in the line. *)
LEMMA PositionOf ==
    ASSUME NEW Item, NEW queue \in Seq(Item), NEW c \in Queued(queue)
    PROVE  /\ Position(queue, c) \in DOMAIN queue
           /\ Position(queue, c) \in 1..Len(queue)
           /\ queue[Position(queue, c)] = c
  <1>1. \E i \in DOMAIN queue : queue[i] = c
    BY DEF Queued
  <1>2. Position(queue, c) \in DOMAIN queue /\ queue[Position(queue, c)] = c
    BY <1>1 DEF Position
  <1> QED
    BY <1>2

(* Somebody new joins at the end: nobody else's place changes. *)
LEMMA AppendToken ==
    ASSUME NEW Item, NEW queue \in Seq(Item), NEW c \in Item \ Queued(queue), Distinct(queue)
    PROVE  /\ Append(queue, c) \in Seq(Item)
           /\ Distinct(Append(queue, c))
           /\ Queued(Append(queue, c)) = Queued(queue) \cup {c}
           /\ Position(Append(queue, c), c) = Len(queue) + 1
           /\ \A d \in Queued(queue) : Position(Append(queue, c), d) = Position(queue, d)
  <1> DEFINE longer == Append(queue, c)
  <1>1. /\ longer \in Seq(Item)
        /\ Len(longer) = Len(queue) + 1
        /\ DOMAIN longer = 1..(Len(queue) + 1)
        /\ \A i \in 1..Len(queue) : longer[i] = queue[i]
        /\ longer[Len(queue) + 1] = c
    OBVIOUS
  <1>2. \A i \in 1..Len(queue) : queue[i] # c
    BY DEF Queued
  <1>3. Distinct(longer)
    BY <1>1, <1>2 DEF Distinct
  <1>4. Queued(longer) = Queued(queue) \cup {c}
    BY <1>1 DEF Queued
  <1>5. Position(longer, c) = Len(queue) + 1
    <2>1. Position(longer, c) \in DOMAIN longer /\ longer[Position(longer, c)] = c
      BY <1>1, <1>4, PositionOf
    <2> QED
      BY <2>1, <1>1, <1>3 DEF Distinct
  <1>6. ASSUME NEW d \in Queued(queue)
        PROVE  Position(longer, d) = Position(queue, d)
    <2>1. Position(longer, d) \in DOMAIN longer /\ longer[Position(longer, d)] = d
      BY <1>1, <1>4, PositionOf
    <2>2. Position(queue, d) \in 1..Len(queue) /\ queue[Position(queue, d)] = d
      BY PositionOf
    <2> QED
      BY <2>1, <2>2, <1>1, <1>3 DEF Distinct
  <1> QED
    BY <1>1, <1>3, <1>4, <1>5, <1>6

(* Who stands before somebody, by their places. *)
LEMMA AheadByPlace ==
    ASSUME NEW Item, NEW queue \in Seq(Item), NEW c \in Queued(queue), Distinct(queue)
    PROVE  /\ Ahead(queue, c) = {d \in Queued(queue) : Position(queue, d) < Position(queue, c)}
           /\ Position(queue, c) = 1 <=> Ahead(queue, c) = {}
  <1>1. Position(queue, c) \in 1..Len(queue) /\ queue[Position(queue, c)] = c
    BY PositionOf
  <1>2. ASSUME NEW i \in 1..(Position(queue, c) - 1)
        PROVE  /\ queue[i] \in Queued(queue)
               /\ Position(queue, queue[i]) = i
    <2>1. i \in DOMAIN queue /\ queue[i] \in Queued(queue)
      BY <1>1 DEF Queued
    <2>2. Position(queue, queue[i]) \in DOMAIN queue /\ queue[Position(queue, queue[i])] = queue[i]
      BY <2>1, PositionOf
    <2> QED
      BY <2>1, <2>2 DEF Distinct
  <1>3. ASSUME NEW d \in Queued(queue), Position(queue, d) < Position(queue, c)
        PROVE  d \in Ahead(queue, c)
    <2>1. Position(queue, d) \in 1..Len(queue) /\ queue[Position(queue, d)] = d
      BY PositionOf
    <2> QED
      BY <1>1, <1>3, <2>1 DEF Ahead
  <1>4. Ahead(queue, c) = {d \in Queued(queue) : Position(queue, d) < Position(queue, c)}
    BY <1>1, <1>2, <1>3 DEF Ahead
  <1>5. Position(queue, c) = 1 <=> Ahead(queue, c) = {}
    <2>1. ASSUME Position(queue, c) # 1 PROVE queue[1] \in Ahead(queue, c)
      <3>1. 1 \in 1..(Position(queue, c) - 1)
        BY <1>1, <2>1
      <3> QED
        BY <3>1 DEF Ahead
    <2>2. Position(queue, c) = 1 => 1..(Position(queue, c) - 1) = {}
      OBVIOUS
    <2> QED
      BY <2>1, <2>2 DEF Ahead
  <1> QED
    BY <1>4, <1>5

(* Somebody new joins behind everybody. *)
LEMMA AppendAhead ==
    ASSUME NEW Item, NEW queue \in Seq(Item), NEW c \in Item \ Queued(queue), Distinct(queue)
    PROVE  /\ Ahead(Append(queue, c), c) = Queued(queue)
           /\ \A d \in Queued(queue) : Ahead(Append(queue, c), d) = Ahead(queue, d)
  <1>1. /\ Position(Append(queue, c), c) = Len(queue) + 1
        /\ \A d \in Queued(queue) : Position(Append(queue, c), d) = Position(queue, d)
    BY AppendToken
  <1>2. /\ DOMAIN queue = 1..Len(queue)
        /\ \A i \in 1..Len(queue) : Append(queue, c)[i] = queue[i]
    OBVIOUS
  <1>3. Ahead(Append(queue, c), c) = Queued(queue)
    BY <1>1, <1>2 DEF Ahead, Queued
  <1>4. ASSUME NEW d \in Queued(queue)
        PROVE  Ahead(Append(queue, c), d) = Ahead(queue, d)
    <2>1. Position(queue, d) \in 1..Len(queue)
      BY PositionOf
    <2> QED
      BY <1>1, <1>2, <2>1 DEF Ahead
  <1> QED
    BY <1>3, <1>4

(* Somebody leaves: the others stay, each once. *)
LEMMA WithoutToken ==
    ASSUME NEW Item, NEW queue \in Seq(Item), NEW c \in Queued(queue), Distinct(queue)
    PROVE  /\ Without(queue, c) \in Seq(Item)
           /\ Distinct(Without(queue, c))
           /\ Queued(Without(queue, c)) = Queued(queue) \ {c}
           /\ \A d \in Queued(queue) \ {c} : Ahead(Without(queue, c), d) = Ahead(queue, d) \ {c}
  <1> DEFINE p == Position(queue, c)
             rest == Without(queue, c)
             left == SubSeq(queue, 1, p - 1)
             right == SubSeq(queue, p + 1, Len(queue))
  <1>0. Len(queue) \in Nat /\ DOMAIN queue = 1..Len(queue)
    OBVIOUS
  <1>1. p \in 1..Len(queue) /\ queue[p] = c
    BY PositionOf
  <1>2. rest = left \o right
    BY DEF Without, RemoveAt
  <1>3. /\ left \in Seq(Item)
        /\ Len(left) = p - 1
        /\ \A i \in 1..(p - 1) : left[i] = queue[i]
    BY <1>1
  <1>4. /\ right \in Seq(Item)
        /\ Len(right) = Len(queue) - p
        /\ \A i \in 1..(Len(queue) - p) : right[i] = queue[i + p]
    BY <1>1
  <1> HIDE DEF p, rest, left, right
  <1>5. /\ rest \in Seq(Item)
        /\ Len(rest) = Len(queue) - 1
        /\ DOMAIN rest = 1..(Len(queue) - 1)
        /\ \A i \in 1..(p - 1) : rest[i] = queue[i]
        /\ \A i \in p..(Len(queue) - 1) : rest[i] = queue[i + 1]
    <2>1. /\ Len(rest) = Len(left) + Len(right)
          /\ rest \in Seq(Item)
          /\ \A i \in 1..(Len(left) + Len(right)) :
                rest[i] = IF i <= Len(left) THEN left[i] ELSE right[i - Len(left)]
      BY <1>2, <1>3, <1>4, ConcatProperties
    <2>2. Len(rest) = Len(queue) - 1
      BY <1>1, <1>3, <1>4, <2>1
    <2>3. ASSUME NEW i \in 1..(p - 1)
          PROVE  rest[i] = queue[i]
      <3>1. i \in 1..(Len(left) + Len(right)) /\ i <= Len(left)
        BY <1>0, <1>1, <1>3, <1>4
      <3>2. rest[i] = left[i]
        BY <2>1, <3>1
      <3> QED
        BY <1>3, <3>2
    <2>4. ASSUME NEW i \in p..(Len(queue) - 1)
          PROVE  rest[i] = queue[i + 1]
      <3>1. i - (p - 1) \in 1..(Len(queue) - p) /\ i - (p - 1) + p = i + 1
        BY <1>0, <1>1
      <3>2. i \in 1..(Len(left) + Len(right)) /\ ~(i <= Len(left))
        BY <1>0, <1>1, <1>3, <1>4
      <3>3. rest[i] = right[i - Len(left)]
        BY <2>1, <3>2
      <3> QED
        BY <1>3, <1>4, <3>1, <3>3
    <2> QED
      BY <2>1, <2>2, <2>3, <2>4
  <1> DEFINE origin(i) == IF i < p THEN i ELSE i + 1
  <1>6. ASSUME NEW i \in DOMAIN rest
        PROVE  /\ origin(i) \in DOMAIN queue
               /\ origin(i) # p
               /\ rest[i] = queue[origin(i)]
    <2>1. CASE i < p
      BY <1>0, <1>1, <1>5, <2>1
    <2>2. CASE i >= p
      BY <1>0, <1>1, <1>5, <2>2
    <2> QED
      BY <1>0, <1>1, <1>5, <2>1, <2>2
  <1>7. \A i, j \in DOMAIN rest : origin(i) = origin(j) => i = j
    BY <1>0, <1>1, <1>5
  <1>8. ASSUME NEW k \in DOMAIN queue, k # p
        PROVE  \E j \in DOMAIN rest : origin(j) = k
    <2>1. CASE k < p
      BY <1>0, <1>1, <1>5, <2>1
    <2>2. CASE k > p
      <3>1. k - 1 \in DOMAIN rest /\ origin(k - 1) = k
        BY <1>0, <1>1, <1>5, <2>2
      <3> QED
        BY <3>1
    <2> QED
      BY <1>0, <1>1, <1>8, <2>1, <2>2
  <1> HIDE DEF origin
  <1>9. Distinct(rest)
    BY <1>6, <1>7 DEF Distinct
  <1>10. Queued(rest) = Queued(queue) \ {c}
    BY <1>0, <1>1, <1>6, <1>8 DEF Distinct, Queued
  <1>11. ASSUME NEW d \in Queued(queue) \ {c}
         PROVE  Ahead(rest, d) = Ahead(queue, d) \ {c}
    <2> DEFINE k == Position(rest, d)
               q == Position(queue, d)
    <2>1. k \in DOMAIN rest /\ rest[k] = d
      BY <1>5, <1>10, PositionOf
    <2>2. q \in DOMAIN queue /\ queue[q] = d /\ q # p
      BY <1>1, PositionOf
    <2>3. q = origin(k)
      BY <1>6, <2>1, <2>2 DEF Distinct
    <2> HIDE DEF k, q
    <2>4. ASSUME NEW i \in 1..(k - 1)
          PROVE  rest[i] \in {queue[j] : j \in 1..(q - 1)} /\ rest[i] # c
      <3>1. i \in DOMAIN rest
        BY <1>0, <1>5, <2>1
      <3>2. origin(i) \in 1..(q - 1)
        BY <1>0, <1>1, <1>5, <2>1, <2>3, <3>1 DEF origin
      <3> QED
        BY <1>1, <1>6, <3>1, <3>2 DEF Distinct
    <2>5. ASSUME NEW j \in 1..(q - 1), queue[j] # c
          PROVE  queue[j] \in {rest[i] : i \in 1..(k - 1)}
      <3>1. j \in DOMAIN queue /\ j # p
        BY <1>0, <1>1, <2>2, <2>5
      <3>2. PICK i \in DOMAIN rest : origin(i) = j
        BY <1>8, <3>1
      <3>3. i \in 1..(k - 1)
        BY <1>0, <1>1, <1>5, <2>1, <2>3, <3>2 DEF origin
      <3> QED
        BY <1>6, <3>2, <3>3
    <2> QED
      BY <2>4, <2>5 DEF Ahead, k, q
  <1> QED
    BY <1>5, <1>9, <1>10, <1>11 DEF rest

(* The first in line leaves, or is put back where it stood. *)
LEMMA HeadToken ==
    ASSUME NEW Item, NEW queue \in Seq(Item), queue # <<>>, Distinct(queue)
    PROVE  /\ Head(queue) \in Queued(queue)
           /\ Tail(queue) \in Seq(Item)
           /\ Distinct(Tail(queue))
           /\ Queued(Tail(queue)) = Queued(queue) \ {Head(queue)}
           /\ <<Head(queue)>> \o Tail(queue) = queue
  <1>1. /\ Len(queue) \in Nat /\ Len(queue) >= 1
        /\ DOMAIN queue = 1..Len(queue)
        /\ Head(queue) = queue[1]
        /\ Tail(queue) \in Seq(Item)
        /\ Len(Tail(queue)) = Len(queue) - 1
        /\ DOMAIN Tail(queue) = 1..(Len(queue) - 1)
        /\ \A i \in 1..(Len(queue) - 1) : Tail(queue)[i] = queue[i + 1]
    OBVIOUS
  <1>2. Head(queue) \in Queued(queue)
    BY <1>1 DEF Queued
  <1>3. Distinct(Tail(queue))
    BY <1>1 DEF Distinct
  <1>4. ASSUME NEW c \in Queued(queue), c # Head(queue)
        PROVE  c \in Queued(Tail(queue))
    <2>1. PICK i \in 1..Len(queue) : queue[i] = c
      BY <1>1 DEF Queued
    <2>2. i - 1 \in 1..(Len(queue) - 1) /\ i - 1 + 1 = i
      BY <1>1, <1>4, <2>1
    <2>3. Tail(queue)[i - 1] = c
      BY <1>1, <2>1, <2>2
    <2> QED
      BY <1>1, <2>2, <2>3 DEF Queued
  <1>5. ASSUME NEW c \in Queued(Tail(queue))
        PROVE  c \in Queued(queue) /\ c # Head(queue)
    <2>1. PICK i \in 1..(Len(queue) - 1) : Tail(queue)[i] = c
      BY <1>1 DEF Queued
    <2>2. i + 1 \in DOMAIN queue /\ queue[i + 1] = c /\ 1 \in DOMAIN queue /\ i + 1 # 1
      BY <1>1, <2>1
    <2> QED
      BY <1>1, <2>2 DEF Queued, Distinct
  <1>6. <<Head(queue)>> \o Tail(queue) = queue
    BY HeadTailProperties
  <1> QED
    BY <1>1, <1>2, <1>3, <1>4, <1>5, <1>6

(* A line of one. *)
LEMMA OnlyToken ==
    ASSUME NEW Item, NEW c \in Item
    PROVE  /\ <<c>> \o <<>> = <<c>>
           /\ <<c>> \in Seq(Item) /\ Distinct(<<c>>)
           /\ Queued(<<c>>) = {c} /\ <<c>> # <<>> /\ Head(<<c>>) = c
  <1>1. /\ <<c>> \in Seq(Item) /\ Len(<<c>>) = 1 /\ DOMAIN <<c>> = {1} /\ <<c>>[1] = c
    OBVIOUS
  <1>2. <<c>> \o <<>> = <<c>>
    <2>1. \A s \in Seq(Item) : s \o <<>> = s
      BY ConcatEmptySeq, Zenon
    <2> QED
      BY <1>1, <2>1
  <1> QED
    BY <1>1, <1>2 DEF Distinct, Queued

(* The head of the line stays when somebody else joins or leaves. *)
LEMMA HeadStays ==
    ASSUME NEW Item, NEW queue \in Seq(Item), queue # <<>>, Distinct(queue)
    PROVE  /\ \A c \in Item \ Queued(queue) :
                 Append(queue, c) # <<>> /\ Head(Append(queue, c)) = Head(queue)
           /\ \A c \in Queued(queue) \ {Head(queue)} :
                 Without(queue, c) # <<>> /\ Head(Without(queue, c)) = Head(queue)
  <1>1. ASSUME NEW c \in Queued(queue), c # Head(queue)
        PROVE  Without(queue, c) # <<>> /\ Head(Without(queue, c)) = Head(queue)
    <2> DEFINE first == Head(queue)
               rest == Without(queue, c)
    <2>1. first \in Queued(queue) /\ Position(queue, first) = 1
      <3>0. first \in Queued(queue)
        BY HeadToken
      <3>1. first \in Queued(queue) /\ 1 \in DOMAIN queue /\ queue[1] = first
        BY <3>0
      <3>2. Position(queue, first) \in DOMAIN queue /\ queue[Position(queue, first)] = first
        BY <3>1, PositionOf
      <3> QED
        BY <3>1, <3>2 DEF Distinct
    <2>2. Ahead(queue, first) = {}
      BY <2>1, AheadByPlace
    <2>3. /\ rest \in Seq(Item) /\ Distinct(rest)
          /\ Queued(rest) = Queued(queue) \ {c}
          /\ Ahead(rest, first) = Ahead(queue, first) \ {c}
      BY <1>1, <2>1, WithoutToken
    <2> HIDE DEF first, rest
    <2>4. first \in Queued(rest)
      BY <1>1, <2>1, <2>3 DEF first
    <2>5. Position(rest, first) = 1
      BY <2>2, <2>3, <2>4, AheadByPlace
    <2>6. 1 \in 1..Len(rest) /\ rest[1] = first
      BY <2>3, <2>4, <2>5, PositionOf
    <2>7. rest # <<>> /\ Head(rest) = first
      BY <2>3, <2>6
    <2> QED
      BY <2>7 DEF rest, first
  <1>2. ASSUME NEW c \in Item \ Queued(queue)
        PROVE  Append(queue, c) # <<>> /\ Head(Append(queue, c)) = Head(queue)
    OBVIOUS
  <1> QED
    BY <1>1, <1>2

-----------------------------------------------------------------------------
(* A line at a lock agrees with where its items are: those that wait for   *)
(* the lock and the one that drains stand in it, the latter first.         *)
LockLine(queue, where) ==
    /\ queue \in Seq(DOMAIN where) /\ Distinct(queue)
    /\ Queued(queue) = {c \in DOMAIN where : where[c] \in {"locking", "draining"}}
    /\ \A c \in DOMAIN where : where[c] = "draining" => queue # <<>> /\ Head(queue) = c

LEMMA NobodyInLine ==
    ASSUME NEW where, \A c \in DOMAIN where : where[c] \notin {"locking", "draining"}
    PROVE  LockLine(<<>>, where)
  BY DEF LockLine, Queued, Distinct

(* Those who are elsewhere before and after do not disturb the line. *)
LEMMA LineUndisturbed ==
    ASSUME NEW queue, NEW where, NEW later, LockLine(queue, where),
           DOMAIN later = DOMAIN where,
           \A c \in DOMAIN where : \/ later[c] = where[c]
                                   \/ /\ where[c] \notin {"locking", "draining"}
                                      /\ later[c] \notin {"locking", "draining"}
    PROVE  LockLine(queue, later)
  <1>1. {c \in DOMAIN later : later[c] \in {"locking", "draining"}}
          = {c \in DOMAIN where : where[c] \in {"locking", "draining"}}
    OBVIOUS
  <1>2. \A c \in DOMAIN later : later[c] = "draining" => where[c] = "draining"
    OBVIOUS
  <1> QED
    BY <1>1, <1>2 DEF LockLine

(* One gets the lock at once if nobody has it, and gets in line otherwise. *)
LEMMA LineEntered ==
    ASSUME NEW queue, NEW Item, NEW Place, NEW where \in [Item -> Place], LockLine(queue, where),
           NEW c \in Item, where[c] \notin {"locking", "draining"}, NEW to
    PROVE  LET later == [where EXCEPT ![c] = to] IN
           /\ queue = <<>> /\ to \notin {"locking", "draining"} => LockLine(<<>>, later)
           /\ queue = <<>> /\ to = "draining" => LockLine(<<c>> \o <<>>, later)
           /\ queue # <<>> /\ to = "locking" => LockLine(Append(queue, c), later)
  <1> DEFINE later == [where EXCEPT ![c] = to]
  <1>1. /\ queue \in Seq(Item) /\ Distinct(queue) /\ c \notin Queued(queue)
        /\ DOMAIN where = Item /\ DOMAIN later = Item
    BY DEF LockLine
  <1>2. \A d \in Item : later[d] = IF d = c THEN to ELSE where[d]
    OBVIOUS
  <1> HIDE DEF later
  <1>3. queue = <<>> => \A d \in Item : where[d] \notin {"locking", "draining"}
    <2>1. Queued(<<>>) = {}
      BY DEF Queued
    <2> QED
      BY <1>1, <2>1 DEF LockLine
  <1>4. queue = <<>> /\ to \notin {"locking", "draining"} => LockLine(<<>>, later)
    BY <1>1, <1>2, <1>3, NobodyInLine
  <1>5. queue = <<>> /\ to = "draining" => LockLine(<<c>> \o <<>>, later)
    <2>1. /\ <<c>> \o <<>> = <<c>> /\ <<c>> \in Seq(Item) /\ Distinct(<<c>>)
          /\ Queued(<<c>>) = {c} /\ <<c>> # <<>> /\ Head(<<c>>) = c
      BY OnlyToken
    <2> QED
      BY <1>1, <1>2, <1>3, <2>1 DEF LockLine
  <1>6. queue # <<>> /\ to = "locking" => LockLine(Append(queue, c), later)
    <2> SUFFICES ASSUME queue # <<>>, to = "locking" PROVE LockLine(Append(queue, c), later)
      OBVIOUS
    <2>1. /\ Append(queue, c) \in Seq(Item) /\ Distinct(Append(queue, c))
          /\ Queued(Append(queue, c)) = Queued(queue) \cup {c}
      BY <1>1, AppendToken
    <2>2. Append(queue, c) # <<>> /\ Head(Append(queue, c)) = Head(queue)
      BY <1>1, HeadStays
    <2> QED
      BY <1>1, <1>2, <2>1, <2>2 DEF LockLine
  <1> QED
    BY <1>4, <1>5, <1>6 DEF later

(* The first in line leaves, or drains where it stands. *)
LEMMA HeadServed ==
    ASSUME NEW queue, NEW Item, NEW Place, NEW where \in [Item -> Place], LockLine(queue, where),
           NEW c \in Item, where[c] \in {"locking", "draining"}, Head(queue) = c, NEW to
    PROVE  LET later == [where EXCEPT ![c] = to] IN
           /\ to \notin {"locking", "draining"} => LockLine(Tail(queue), later)
           /\ to = "draining" => LockLine(<<c>> \o Tail(queue), later)
  <1> DEFINE later == [where EXCEPT ![c] = to]
  <1>1. /\ queue \in Seq(Item) /\ Distinct(queue) /\ c \in Queued(queue)
        /\ DOMAIN where = Item /\ DOMAIN later = Item
    BY DEF LockLine
  <1>2. \A d \in Item : later[d] = IF d = c THEN to ELSE where[d]
    OBVIOUS
  <1> HIDE DEF later
  <1>3. queue # <<>>
    BY <1>1 DEF Queued
  <1>4. /\ Tail(queue) \in Seq(Item) /\ Distinct(Tail(queue))
        /\ Queued(Tail(queue)) = Queued(queue) \ {c}
        /\ <<c>> \o Tail(queue) = queue
    BY <1>1, <1>3, HeadToken
  <1>5. \A d \in Item : d # c => where[d] # "draining"
    BY <1>1 DEF LockLine
  <1>6. to \notin {"locking", "draining"} => LockLine(Tail(queue), later)
    BY <1>1, <1>2, <1>4, <1>5 DEF LockLine
  <1>7. to = "draining" => LockLine(queue, later)
    BY <1>1, <1>2, <1>3, <1>5 DEF LockLine
  <1> QED
    BY <1>4, <1>6, <1>7 DEF later

(* One gives up, wherever in the line it stands, if it stands there. *)
LEMMA LineLeft ==
    ASSUME NEW queue, NEW Item, NEW Place, NEW where \in [Item -> Place], LockLine(queue, where),
           NEW c \in Item, NEW to, to \notin {"locking", "draining"}
    PROVE  LockLine(Without(queue, c), [where EXCEPT ![c] = to])
  <1> DEFINE later == [where EXCEPT ![c] = to]
  <1>1. queue \in Seq(Item) /\ Distinct(queue) /\ DOMAIN where = Item /\ DOMAIN later = Item
    BY DEF LockLine
  <1>2. \A d \in Item : later[d] = IF d = c THEN to ELSE where[d]
    OBVIOUS
  <1> SUFFICES LockLine(Without(queue, c), later)
    OBVIOUS
  <1> HIDE DEF later
  <1>3. CASE c \notin Queued(queue)
    <2>1. Without(queue, c) = queue /\ where[c] \notin {"locking", "draining"}
      BY <1>1, <1>3 DEF Without, LockLine
    <2> QED
      BY <1>1, <1>2, <2>1, LineUndisturbed
  <1>4. CASE c \in Queued(queue)
    <2>1. /\ Without(queue, c) \in Seq(Item) /\ Distinct(Without(queue, c))
          /\ Queued(Without(queue, c)) = Queued(queue) \ {c}
      BY <1>1, <1>4, WithoutToken
    <2>2. ASSUME NEW d \in Item, later[d] = "draining"
          PROVE  Without(queue, c) # <<>> /\ Head(Without(queue, c)) = d
      <3>1. d # c /\ queue # <<>> /\ Head(queue) = d
        BY <1>1, <1>2, <2>2 DEF LockLine
      <3> QED
        BY <1>1, <1>4, <3>1, HeadStays
    <2>3. Queued(Without(queue, c)) = {d \in Item : later[d] \in {"locking", "draining"}}
      BY <1>1, <1>2, <2>1 DEF LockLine
    <2> QED
      BY <1>1, <2>1, <2>2, <2>3 DEF LockLine
  <1> QED
    BY <1>3, <1>4

-----------------------------------------------------------------------------
(* A set of numbers has a least one. *)
LEMMA LeastNatural ==
    ASSUME NEW T \in SUBSET Nat, T # {}
    PROVE  \E least \in T : \A k \in T : least <= k
  <1>1. PICK least \in T : \A k \in T : <<k, least>> \notin OpToRel(<, Nat)
    BY NatLessThanWellFounded, WFMin
  <1>2. \A k \in T : ~(k < least)
    BY <1>1, Zenon DEF OpToRel
  <1> QED
    BY <1>2

(* Induction over the natural numbers, for a set of them. *)
LEMMA NaturalsBySteps ==
    ASSUME NEW T, 0 \in T, \A n \in Nat : n \in T => n + 1 \in T
    PROVE  Nat \subseteq T
  <1> SUFFICES ASSUME Nat \ T # {} PROVE FALSE
    OBVIOUS
  <1>1. PICK x \in Nat \ T : \A y \in Nat \ T : x <= y
    BY LeastNatural
  <1>2. x # 0 /\ x - 1 \in Nat /\ x - 1 \in T
    BY <1>1
  <1> QED
    BY <1>1, <1>2

(* One pass over the members of a set is a function from what was found    *)
(* for each of them to what it finds.  It looks down if that depends, for  *)
(* a member, only on what was found for those that are less deep.          *)
LooksDown(Pass, D, R, depth) ==
    /\ Pass \in [[D -> R] -> [D -> R]]
    /\ \A h, k \in [D -> R] : \A v \in D :
          (\A w \in D : depth[w] < depth[v] => h[w] = k[w]) => Pass[h][v] = Pass[k][v]

(* Then there is a function that the pass leaves as it is. *)
LEMMA PassHasFixpoint ==
    ASSUME NEW D, NEW R, NEW start \in R, NEW depth \in [D -> Nat], NEW Pass,
           LooksDown(Pass, D, R, depth)
    PROVE  \E h \in [D -> R] : h = Pass[h]
  <1> USE DEF LooksDown
  <1> DEFINE Upto(h, n) == \A v \in D : depth[v] < n => h[v] = Pass[h][v]
             Begun == {n \in Nat : \E h \in [D -> R] : Upto(h, n)}
             Agree(h, k, n) == \A v \in D : depth[v] < n => h[v] = k[v]
             Alike == {n \in Nat : \A h, k \in [D -> R] : Upto(h, n) /\ Upto(k, n) => Agree(h, k, n)}
  <1>1. 0 \in Begun /\ 0 \in Alike
    <2>1. [v \in D |-> start] \in [D -> R]
      OBVIOUS
    <2>2. \A v \in D : ~(depth[v] < 0)
      OBVIOUS
    <2> QED
      BY <2>1, <2>2
  <1>2. ASSUME NEW n \in Nat, n \in Begun PROVE n + 1 \in Begun
    <2>1. PICK h \in [D -> R] : Upto(h, n)
      BY <1>2
    <2>2. Pass[h] \in [D -> R] /\ Pass[Pass[h]] \in [D -> R]
      OBVIOUS
    <2>3. ASSUME NEW v \in D, depth[v] < n + 1 PROVE Pass[h][v] = Pass[Pass[h]][v]
      <3>1. ASSUME NEW w \in D, depth[w] < depth[v] PROVE h[w] = Pass[h][w]
        <4>1. depth[w] < n
          BY <2>3, <3>1
        <4> QED
          BY <2>1, <4>1
      <3> QED
        BY <2>2, <3>1
    <2> QED
      BY <2>2, <2>3
  <1>3. ASSUME NEW n \in Nat, n \in Alike PROVE n + 1 \in Alike
    <2> SUFFICES ASSUME NEW h \in [D -> R], NEW k \in [D -> R], Upto(h, n + 1), Upto(k, n + 1)
                 PROVE  Agree(h, k, n + 1)
      <3> HIDE DEF Upto, Agree
      <3> QED
        OBVIOUS
    <2> SUFFICES ASSUME NEW v \in D, depth[v] < n + 1 PROVE h[v] = k[v]
      OBVIOUS
    <2>1. Upto(h, n) /\ Upto(k, n)
      OBVIOUS
    <2>2. Agree(h, k, n)
      BY <1>3, <2>1
    <2>3. \A w \in D : depth[w] < depth[v] => h[w] = k[w]
      BY <2>2
    <2>4. Pass[h][v] = Pass[k][v]
      BY <2>3
    <2> QED
      BY <2>4
  <1>4. Begun = Nat /\ Alike = Nat
    <2>1. Begun \subseteq Nat /\ Alike \subseteq Nat
      OBVIOUS
    <2> HIDE DEF Begun, Alike
    <2> QED
      BY <1>1, <1>2, <1>3, <2>1, NaturalsBySteps
  <1> DEFINE at(n) == CHOOSE h \in [D -> R] : Upto(h, n)
             whole == [v \in D |-> at(depth[v] + 1)[v]]
  <1>5. \A n \in Nat : at(n) \in [D -> R] /\ Upto(at(n), n)
    BY <1>4
  <1> HIDE DEF at
  <1>6. whole \in [D -> R]
    BY <1>5
  <1>7. ASSUME NEW v \in D PROVE whole[v] = Pass[whole][v]
    <2> DEFINE h == at(depth[v] + 1)
    <2>1. h \in [D -> R] /\ Upto(h, depth[v] + 1)
      BY <1>5
    <2>2. ASSUME NEW w \in D, depth[w] < depth[v] PROVE h[w] = whole[w]
      <3> DEFINE k == at(depth[w] + 1)
      <3>1. k \in [D -> R] /\ Upto(k, depth[w] + 1)
        BY <1>5
      <3>2. Upto(h, depth[w] + 1)
        BY <2>1, <2>2
      <3>3. Agree(h, k, depth[w] + 1)
        <4> HIDE DEF Upto, Agree
        <4>1. depth[w] + 1 \in Nat
          OBVIOUS
        <4> QED
          BY <1>4, <2>1, <3>1, <3>2, <4>1
      <3> QED
        BY <3>3
    <2> HIDE DEF h
    <2>3. Pass[h][v] = Pass[whole][v]
      BY <1>6, <2>1, <2>2
    <2>4. h[v] = Pass[h][v]
      BY <2>1
    <2> QED
      BY <2>3, <2>4 DEF h
  <1>8. Pass[whole] \in [D -> R]
    BY <1>6
  <1> HIDE DEF whole
  <1> QED
    BY <1>6, <1>7, <1>8

=============================================================================
