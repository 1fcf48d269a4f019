----------------------- MODULE TranscriptStoreProofs -----------------------
(***************************************************************************)
(* The safety properties of TranscriptStore, for any number of appends and *)
(* of readers.  They rest on the shape of the file: its records stand in   *)
(* the order of their appends, each of them whole or torn at its end, and  *)
(* the last parts are what the running append() has written; and on what   *)
(* the pages of a reader are: the first records of the file.               *)
(***************************************************************************)
EXTENDS TranscriptStore, SharedLemmas, FiniteSetTheorems

(* What the file is made of. *)
PartOfRecord == [of : 1..attempted, part : ToSet(Parts)]

(* Records come in the order of their appends, and no part is there without *)
(* the one before it.                                                       *)
Ordered ==
    \A i, j \in DOMAIN file : i < j =>
        \/ file[i].of < file[j].of
        \/ file[i].of = file[j].of /\ file[j].part # "beginning"

Chained ==
    \A i \in DOMAIN file :
        /\ file[i].part = "rest" =>
              i > 1 /\ file[i - 1] = [of |-> file[i].of, part |-> "beginning"]
        /\ file[i].part = "newline" =>
              i > 1 /\ file[i - 1] = [of |-> file[i].of, part |-> "rest"]

(* The file ends with what the running append() has written, and nothing *)
(* before it is of that event.                                           *)
EndsInAppend ==
    /\ appending = None => written = 0
    /\ appending # None =>
          /\ appending = attempted /\ written <= Len(file)
          /\ \A i \in 1 .. Len(file) - written : file[i].of < appending
          /\ \A m \in 1 .. written : file[Len(file) - written + m] = Record(appending)[m]

AckedInOrder ==
    /\ \A k, l \in DOMAIN acked : k < l => acked[k] < acked[l]
    /\ appending # None => \A k \in DOMAIN acked : acked[k] < appending

(* The pages of a reader are the first records of the file, whose parts are *)
(* all in their places.                                                     *)
PagesOfFile(r) ==
    /\ reader[r] = "reading" => result[r] # None
    /\ result[r] # None =>
        /\ Len(result[r]) > 0 => 3 * Len(result[r]) - 1 <= Len(file)
        /\ \A i \in DOMAIN result[r] :
              file[3 * i - 2] = [of |-> result[r][i], part |-> "beginning"]
        /\ \A p \in DOMAIN file :
              p <= 3 * Len(result[r]) - 2 /\ file[p].part = "beginning" =>
                 \E i \in DOMAIN result[r] : p = 3 * i - 2

PromiseKept(r) ==
    reader[r] = "done" /\ result[r] # None =>
        \A k \in 1..promised[r] : acked[k] \in ToSet(result[r])

TranscriptInvariant ==
    /\ TranscriptTypeOK
    /\ Ordered /\ Chained /\ EndsInAppend
    /\ AckedInOrder /\ AckedAreDurable
    /\ \A r \in Readers : PagesOfFile(r) /\ PromiseKept(r)

-----------------------------------------------------------------------------
(* The parts of a record *)

(* The three parts of a record, in their order. *)
LEMMA RecordParts ==
    ASSUME NEW n
    PROVE  /\ Len(Record(n)) = 3 /\ DOMAIN Record(n) = 1..3
           /\ Record(n)[1] = [of |-> n, part |-> "beginning"]
           /\ Record(n)[2] = [of |-> n, part |-> "rest"]
           /\ Record(n)[3] = [of |-> n, part |-> "newline"]
  BY DEF Record, Parts

LEMMA PartTypes ==
    /\ ToSet(Parts) = {"beginning", "rest", "newline"}
    /\ Parts[1] = "beginning" /\ Parts[2] = "rest" /\ Parts[3] = "newline"
  BY DEF Parts, ToSet

LEMMA IsSequence ==
    ASSUME NEW S, NEW n \in Nat, NEW seq \in [1..n -> S]
    PROVE  seq \in Seq(S)
  BY SeqDef, Zenon

(* What append() has written, when it writes more: the file grows at its   *)
(* end by the next parts of the record.                                    *)
LEMMA WriteGrows ==
    ASSUME TranscriptTypeOK, NEW k \in written + 1 .. Len(Record(appending)), appending # None,
           file' = file \o SubSeq(Record(appending), written + 1, k)
    PROVE  /\ file' \in Seq(PartOfRecord)
           /\ k \in 1..3 /\ Len(file') = Len(file) + (k - written)
           /\ \A i \in 1 .. Len(file) : file'[i] = file[i]
           /\ \A m \in written + 1 .. k : file'[Len(file) - written + m] = Record(appending)[m]
  <1> DEFINE more == SubSeq(Record(appending), written + 1, k)
  <1>1. /\ file \in Seq(PartOfRecord) /\ Len(file) \in Nat /\ written \in 0..3
        /\ attempted \in 0..MaxEvents /\ appending \in 1..attempted /\ MaxEvents \in Nat
    BY TranscriptAssumption DEF TranscriptTypeOK, PartOfRecord
  <1> DEFINE rec == Record(appending)
  <1>2. rec \in Seq(PartOfRecord) /\ Len(rec) = 3 /\ \A i \in 1..3 : rec[i] \in PartOfRecord
    <2>2. \A part \in {"beginning", "rest", "newline"} :
             [of |-> appending, part |-> part] \in PartOfRecord
      BY <1>1, PartTypes DEF PartOfRecord
    <2>3. rec = [i \in 1..3 |-> [of |-> appending, part |-> Parts[i]]]
      BY DEF Record
    <2>4. \A i \in 1..3 : Parts[i] \in {"beginning", "rest", "newline"}
      BY DEF Parts
    <2> HIDE DEF rec
    <2>5. rec \in [1..3 -> PartOfRecord]
      BY <2>2, <2>3, <2>4
    <2> QED
      <3>1. 3 \in Nat
        OBVIOUS
      <3>2. rec \in Seq(PartOfRecord)
        BY <2>5, <3>1, IsSequence
      <3> QED
        BY <2>5, <3>2
  <1> HIDE DEF rec
  <1>3. /\ more \in Seq(PartOfRecord) /\ Len(more) = k - written
        /\ \A j \in 1 .. k - written : more[j] = Record(appending)[written + j]
    <2>1. k \in 1..3 /\ k \in Int /\ written + 1 \in Int /\ written + 1 <= k
      BY <1>1, <1>2 DEF rec
    <2>2. \A i \in written + 1 .. k : rec[i] \in PartOfRecord
      <3>1. \A i \in written + 1 .. k : i \in 1..3
        BY <1>1, <2>1
      <3> QED
        BY <1>2, <3>1
    <2>3. /\ SubSeq(rec, written + 1, k) \in Seq(PartOfRecord)
          /\ Len(SubSeq(rec, written + 1, k)) = k - (written + 1) + 1
          /\ \A j \in 1 .. k - (written + 1) + 1 :
                SubSeq(rec, written + 1, k)[j] = rec[written + 1 + j - 1]
      <3> HIDE DEF rec
      <3> QED
        BY <2>1, <2>2, SubSeqProperties
    <2>4. more = SubSeq(rec, written + 1, k)
      BY DEF rec
    <2> HIDE DEF more
    <2>5. k - (written + 1) + 1 = k - written /\ \A j \in Nat : written + 1 + j - 1 = written + j
      BY <1>1, <2>1
    <2>6. \A j \in 1 .. k - written : more[j] = rec[written + j]
      BY <1>1, <2>1, <2>3, <2>4, <2>5
    <2> QED
      BY <2>3, <2>4, <2>5, <2>6 DEF rec
  <1> HIDE DEF more
  <1>4. /\ file' \in Seq(PartOfRecord) /\ Len(file') = Len(file) + (k - written)
        /\ \A i \in 1 .. Len(file) : file'[i] = file[i]
        /\ \A j \in 1 .. Len(more) : file'[Len(file) + j] = more[j]
    BY <1>1, <1>3 DEF more
  <1>5. ASSUME NEW m \in written + 1 .. k
        PROVE  file'[Len(file) - written + m] = Record(appending)[m]
    <2>1. m - written \in 1 .. k - written /\ Len(file) - written + m = Len(file) + (m - written)
      BY <1>1, <1>2
    <2> QED
      BY <1>1, <1>2, <1>3, <1>4, <2>1
  <1>6. k \in 1..3
    BY <1>1, <1>2 DEF rec
  <1> QED
    BY <1>4, <1>5, <1>6

(* What the types of the variables say of the file and of append(). *)
LEMMA WriterTypes ==
    ASSUME TranscriptTypeOK
    PROVE  /\ MaxEvents \in Nat /\ None \notin 1..MaxEvents
           /\ file \in Seq(PartOfRecord) /\ Len(file) \in Nat
           /\ DOMAIN file = 1 .. Len(file) /\ \A i \in 1 .. Len(file) : file[i] \in PartOfRecord
           /\ synced \in Nat /\ synced <= Len(file)
           /\ attempted \in Nat /\ attempted <= MaxEvents /\ written \in 0..3
           /\ acked \in Seq(1..attempted) /\ Len(acked) \in Nat
           /\ DOMAIN acked = 1 .. Len(acked)
           /\ \A k \in 1 .. Len(acked) : acked[k] \in 1..attempted
  <1>1. MaxEvents \in Nat /\ None \notin 1..MaxEvents
    BY TranscriptAssumption
  <1>2. file \in Seq(PartOfRecord) /\ acked \in Seq(1..attempted) /\ synced \in 0 .. Len(file)
    BY DEF TranscriptTypeOK, PartOfRecord
  <1>3. attempted \in 0..MaxEvents /\ written \in 0..3
    BY DEF TranscriptTypeOK
  <1> QED
    BY <1>1, <1>2, <1>3

LEMMA Wider ==
    ASSUME NEW S, NEW T, S \subseteq T, NEW seq \in Seq(S)
    PROVE  seq \in Seq(T)
  <1>1. Len(seq) \in Nat /\ \A i \in 1 .. Len(seq) : seq[i] \in T
    OBVIOUS
  <1>2. seq \in [1 .. Len(seq) -> T]
    BY <1>1
  <1> QED
    BY <1>1, <1>2, IsSequence

(* A record stands whole at some place of the file, in terms of its parts. *)
LEMMA WholeAt ==
    ASSUME NEW S, NEW f \in Seq(S), NEW i \in Nat, i + 3 <= Len(f), NEW n
    PROVE  SubSeq(f, i + 1, i + 3) = Record(n)
              <=> \A m \in 1..3 : f[i + m] = Record(n)[m]
  <1> DEFINE piece == SubSeq(f, i + 1, i + 3)
  <1>1. piece \in Seq(S) /\ Len(piece) = 3 /\ \A m \in 1..3 : piece[m] = f[i + m]
    <2>1. \A p \in i + 1 .. i + 3 : f[p] \in S
      <3>1. \A p \in 1 .. Len(f) : f[p] \in S
        OBVIOUS
      <3> QED
        BY <3>1
    <2>2. i + 1 \in Int /\ i + 3 \in Int /\ i + 1 <= i + 3 /\ (i + 3) - (i + 1) + 1 = 3
      OBVIOUS
    <2>3. /\ piece \in Seq(S) /\ Len(piece) = (i + 3) - (i + 1) + 1
          /\ \A m \in 1 .. (i + 3) - (i + 1) + 1 : piece[m] = f[(i + 1) + m - 1]
      BY <2>1, <2>2, SubSeqProperties
    <2>4. \A m \in 1..3 : (i + 1) + m - 1 = i + m
      OBVIOUS
    <2> HIDE DEF piece
    <2> QED
      BY <2>2, <2>3, <2>4
  <1>2. piece = [m \in 1..3 |-> piece[m]]
    BY <1>1
  <1> HIDE DEF piece
  <1>3. Record(n) = [m \in 1..3 |-> Record(n)[m]]
    BY DEF Record
  <1>4. piece = Record(n) <=> \A m \in 1..3 : piece[m] = Record(n)[m]
    BY <1>2, <1>3, Zenon
  <1> QED
    BY <1>1, <1>4 DEF piece

(* A write leaves the records in their order and in one piece: what it      *)
(* writes belongs to the running append() and follows what that has written *)
(* before.                                                                  *)
LEMMA WriteKeepsShape ==
    ASSUME TranscriptTypeOK, Ordered, Chained, EndsInAppend, Write
    PROVE  Ordered' /\ Chained' /\ EndsInAppend'
  <1> DEFINE base == Len(file) - written
  <1>1. appending # None /\ UNCHANGED <<appending, attempted>>
    BY DEF Write, readerVars
  <1>2. PICK k \in written + 1 .. Len(Record(appending)) :
           file' = file \o SubSeq(Record(appending), written + 1, k) /\ written' = k
    BY DEF Write
  <1>3. /\ file' \in Seq(PartOfRecord) /\ k \in 1..3 /\ Len(file') = Len(file) + (k - written)
        /\ \A i \in 1 .. Len(file) : file'[i] = file[i]
        /\ \A m \in written + 1 .. k : file'[base + m] = Record(appending)[m]
    BY <1>1, <1>2, WriteGrows
  <1>4. /\ base \in Nat /\ appending = attempted
        /\ \A i \in 1 .. base : file[i].of < appending
        /\ \A m \in 1 .. written : file[base + m] = Record(appending)[m]
    BY <1>1, WriterTypes DEF EndsInAppend
  <1>5. DOMAIN file' = 1 .. base + k /\ Len(file') = base + k
    <2>1. Len(file) \in Nat /\ written \in Int
      BY WriterTypes
    <2>2. Len(file') = base + k
      BY <1>3, <2>1
    <2>3. DOMAIN file' = 1 .. Len(file')
      BY <1>3
    <2> QED
      BY <2>2, <2>3
  <1>6. \A m \in 1..k : file'[base + m] = Record(appending)[m]
    <2> SUFFICES ASSUME NEW m \in 1..k PROVE file'[base + m] = Record(appending)[m]
      OBVIOUS
    <2>1. CASE m <= written
      <3>1. m \in Nat /\ m >= 1 /\ Len(file) \in Nat /\ written \in Nat
        BY <1>3, WriterTypes
      <3>2. m \in 1 .. written
        BY <2>1, <3>1
      <3>3. base + m \in 1 .. Len(file)
        BY <1>4, <2>1, <3>1
      <3> QED
        BY <1>3, <1>4, <3>2, <3>3
    <2>2. CASE m > written
      <3>1. m \in written + 1 .. k
        BY <1>3, <2>2, WriterTypes
      <3> QED
        BY <1>3, <3>1
    <2> QED
      BY <2>1, <2>2, <1>3, WriterTypes
  <1>7. \A i \in 1 .. base : i \in DOMAIN file /\ file'[i] = file[i]
    <2>1. \A i \in 1 .. base : i \in 1 .. Len(file)
      BY <1>4, WriterTypes
    <2> QED
      BY <1>3, <2>1, WriterTypes
  <1>8. appending \in Nat /\ \A i \in DOMAIN file : file[i].of \in Nat
    BY <1>4, WriterTypes DEF PartOfRecord
  <1>9. /\ Record(appending)[1] = [of |-> appending, part |-> "beginning"]
        /\ Record(appending)[2] = [of |-> appending, part |-> "rest"]
        /\ Record(appending)[3] = [of |-> appending, part |-> "newline"]
    BY RecordParts
  <1> HIDE DEF base
  <1>10. Ordered'
    <2> SUFFICES ASSUME NEW i \in DOMAIN file', NEW j \in DOMAIN file', i < j
                 PROVE  \/ file'[i].of < file'[j].of
                        \/ file'[i].of = file'[j].of /\ file'[j].part # "beginning"
      BY DEF Ordered
    <2>1. i \in 1 .. base + k /\ j \in 1 .. base + k
      BY <1>5
    <2>2. CASE j <= base
      BY <1>4, <1>7, <2>1, <2>2 DEF Ordered
    <2>3. CASE j > base
      <3>1. j - base \in 1..k /\ base + (j - base) = j
        BY <1>3, <1>4, <2>1, <2>3
      <3>2. file'[j] = Record(appending)[j - base]
        BY <1>6, <3>1
      <3>3. CASE i <= base
        <4>1. file'[i].of < appending
          BY <1>4, <1>7, <2>1, <3>3
        <4>2. file'[j].of = appending
          BY <1>3, <1>9, <3>1, <3>2
        <4> QED
          BY <4>1, <4>2
      <3>4. CASE i > base
        <4>1. i - base \in 1..k /\ base + (i - base) = i /\ j - base \in {2, 3}
          <5>1. base \in Nat /\ k \in {1, 2, 3} /\ i \in Nat /\ j \in Nat
            BY <1>3, <1>4, <2>1
          <5>2. i > base /\ i <= base + k /\ j <= base + k
            BY <2>1, <3>4, <5>1
          <5>3. j - base <= k /\ i - base >= 1 /\ j - base > i - base
            BY <5>1, <5>2
          <5> QED
            BY <5>1, <5>2, <5>3
        <4>2. file'[i] = Record(appending)[i - base] /\ i - base \in 1..3
          BY <1>3, <1>6, <4>1
        <4>3. file'[i].of = appending
          BY <1>9, <4>2
        <4>4. file'[j].of = appending /\ file'[j].part # "beginning"
          BY <1>9, <3>2, <4>1
        <4> QED
          BY <4>3, <4>4
      <3> QED
        BY <1>4, <2>1, <3>3, <3>4
    <2> QED
      BY <1>4, <2>1, <2>2, <2>3
  <1>11. Chained'
    <2> SUFFICES ASSUME NEW i \in DOMAIN file'
                 PROVE  /\ file'[i].part = "rest" =>
                              i > 1 /\ file'[i - 1] = [of |-> file'[i].of, part |-> "beginning"]
                        /\ file'[i].part = "newline" =>
                              i > 1 /\ file'[i - 1] = [of |-> file'[i].of, part |-> "rest"]
      BY DEF Chained
    <2>1. i \in 1 .. base + k
      BY <1>5
    <2>2. CASE i <= base
      <3>1. i \in DOMAIN file /\ file'[i] = file[i]
        BY <1>4, <1>7, <2>1, <2>2
      <3>2. i > 1 => file'[i - 1] = file[i - 1]
        BY <1>4, <1>7, <2>1, <2>2
      <3> QED
        BY <3>1, <3>2 DEF Chained
    <2>3. CASE i > base
      <3>1. i - base \in 1..k /\ i - base \in 1..3 /\ base + (i - base) = i
        BY <1>3, <1>4, <2>1, <2>3
      <3>2. file'[i] = Record(appending)[i - base]
        BY <1>6, <3>1
      <3>3. CASE i - base = 1
        BY <1>9, <3>2, <3>3
      <3>4. CASE i - base > 1
        <4>1. i - base - 1 \in 1..k /\ i > 1 /\ base + (i - base - 1) = i - 1
          BY <1>3, <1>4, <3>1, <3>4
        <4>2. file'[i - 1] = Record(appending)[i - base - 1]
          BY <1>6, <4>1
        <4>3. i - base = 2 => i - base - 1 = 1
          OBVIOUS
        <4>4. i - base = 3 => i - base - 1 = 2
          OBVIOUS
        <4>5. i - base \in {2, 3}
          BY <3>1, <3>4
        <4> QED
          BY <1>9, <3>2, <4>1, <4>2, <4>3, <4>4, <4>5
      <3> QED
        BY <3>1, <3>3, <3>4
    <2> QED
      BY <1>4, <2>1, <2>2, <2>3
  <1>12. EndsInAppend'
    <2>1. Len(file') - written' = base /\ written' = k
      BY <1>2, <1>3, <1>4, <1>5
    <2>2. \A i \in 1 .. base : file'[i].of < appending
      BY <1>4, <1>7
    <2>3. k <= Len(file')
      BY <1>3, <1>4, <1>5
    <2> QED
      BY <1>1, <1>4, <1>6, <2>1, <2>2, <2>3 DEF EndsInAppend
  <1> QED
    BY <1>10, <1>11, <1>12

-----------------------------------------------------------------------------
(* The steps of append() *)

LEMMA ThreeBefore ==
    ASSUME NEW i \in Nat, NEW n \in Nat, i + 3 <= n
    PROVE  i \in 0 .. n - 3
  OBVIOUS

(* What is durable stays so, when the part of the file that is synced stays *)
(* or grows.                                                                *)
LEMMA DurableStays ==
    ASSUME TranscriptTypeOK, AckedAreDurable, NEW S, file' \in Seq(S),
           synced' \in synced .. Len(file'), \A i \in 1 .. synced : file'[i] = file[i]
    PROVE  \A k \in DOMAIN acked :
              \E i \in 0 .. synced' - 3 : SubSeq(file', i + 1, i + 3) = Record(acked[k])
  <1> SUFFICES ASSUME NEW k \in DOMAIN acked
               PROVE  \E i \in 0 .. synced' - 3 : SubSeq(file', i + 1, i + 3) = Record(acked[k])
    OBVIOUS
  <1>1. PICK i \in 0 .. synced - 3 : SubSeq(file, i + 1, i + 3) = Record(acked[k])
    BY DEF AckedAreDurable
  <1>2. synced \in Nat /\ synced <= Len(file) /\ Len(file) \in Nat /\ file \in Seq(PartOfRecord)
    BY WriterTypes
  <1>3. Len(file') \in Nat /\ synced' \in Nat /\ synced <= synced' /\ synced' <= Len(file')
    BY <1>2
  <1>4. i \in Nat /\ i + 3 <= synced
    BY <1>1, <1>2
  <1>5. i + 3 <= Len(file) /\ i + 3 <= Len(file') /\ i \in 0 .. synced' - 3
    <2>1. i + 3 <= Len(file)
      BY <1>2, <1>4
    <2>2. i + 3 <= synced' /\ i + 3 <= Len(file')
      BY <1>2, <1>3, <1>4
    <2>3. i \in 0 .. synced' - 3
      BY <1>3, <1>4, <2>2, ThreeBefore
    <2> QED
      BY <2>1, <2>2, <2>3
  <1>6. \A m \in 1..3 : file[i + m] = Record(acked[k])[m]
    BY <1>1, <1>2, <1>4, <1>5, WholeAt
  <1>7. \A m \in 1..3 : file'[i + m] = file[i + m]
    <2>1. \A m \in 1..3 : i + m \in 1 .. synced
      BY <1>2, <1>4
    <2> QED
      BY <2>1
  <1>8. \A m \in 1..3 : file'[i + m] = Record(acked[k])[m]
    BY <1>6, <1>7
  <1>9. SubSeq(file', i + 1, i + 3) = Record(acked[k])
    <2>1. file' \in Seq(S) /\ i \in Nat /\ i + 3 <= Len(file')
      BY <1>4, <1>5
    <2>2. SubSeq(file', i + 1, i + 3) = Record(acked[k])
             <=> \A m \in 1..3 : file'[i + m] = Record(acked[k])[m]
      BY <2>1, WholeAt
    <2> QED
      BY <1>8, <2>2
  <1> QED
    BY <1>5, <1>9

(* The pages of a reader stay records of the file, when that grows. *)
LEMMA PagesStay ==
    ASSUME TranscriptTypeOK, NEW r \in Readers, PagesOfFile(r), UNCHANGED <<result, reader>>,
           NEW S, file' \in Seq(S), Len(file) <= Len(file'),
           \A i \in 1 .. Len(file) : file'[i] = file[i]
    PROVE  PagesOfFile(r)'
  <1>1. reader'[r] = "reading" => result'[r] # None
    BY DEF PagesOfFile
  <1> SUFFICES ASSUME result[r] # None
               PROVE  /\ Len(result[r]) > 0 => 3 * Len(result[r]) - 1 <= Len(file')
                      /\ \A i \in DOMAIN result[r] :
                            file'[3 * i - 2] = [of |-> result[r][i], part |-> "beginning"]
                      /\ \A p \in DOMAIN file' :
                            p <= 3 * Len(result[r]) - 2 /\ file'[p].part = "beginning" =>
                               \E i \in DOMAIN result[r] : p = 3 * i - 2
    BY <1>1 DEF PagesOfFile
  <1> DEFINE pages == result[r]
  <1>2. /\ DOMAIN pages = 1 .. Len(pages) /\ Len(pages) \in Nat
        /\ Len(file) \in Nat /\ DOMAIN file = 1 .. Len(file)
        /\ Len(file') \in Nat /\ DOMAIN file' = 1 .. Len(file')
    <2>1. pages \in Seq(1..attempted)
      BY DEF TranscriptTypeOK
    <2>2. Len(file) \in Nat /\ DOMAIN file = 1 .. Len(file)
      BY WriterTypes
    <2> QED
      BY <2>1, <2>2
  <1>3. /\ Len(pages) > 0 => 3 * Len(pages) - 1 <= Len(file)
        /\ \A i \in DOMAIN pages :
              file[3 * i - 2] = [of |-> pages[i], part |-> "beginning"]
        /\ \A p \in DOMAIN file :
              p <= 3 * Len(pages) - 2 /\ file[p].part = "beginning" =>
                 \E i \in DOMAIN pages : p = 3 * i - 2
    BY DEF PagesOfFile
  <1> HIDE DEF pages
  <1>4. Len(pages) > 0 => 3 * Len(pages) - 1 <= Len(file')
    BY <1>2, <1>3
  <1>5. ASSUME NEW i \in DOMAIN pages
        PROVE  file'[3 * i - 2] = [of |-> pages[i], part |-> "beginning"]
    <2>1. i \in Nat /\ i >= 1 /\ i <= Len(pages)
      BY <1>2
    <2>2. 3 * i - 2 \in 1 .. Len(file)
      BY <1>2, <1>3, <2>1
    <2> QED
      BY <1>3, <2>2
  <1>6. ASSUME NEW p \in DOMAIN file', p <= 3 * Len(pages) - 2, file'[p].part = "beginning"
        PROVE  \E i \in DOMAIN pages : p = 3 * i - 2
    <2>1. p \in Nat /\ p >= 1
      BY <1>2
    <2>2. Len(pages) > 0
      BY <1>2, <1>6, <2>1
    <2>3. p \in 1 .. Len(file)
      BY <1>2, <1>3, <1>6, <2>1, <2>2
    <2>4. p \in DOMAIN file /\ file[p].part = "beginning"
      BY <1>2, <1>6, <2>3
    <2> QED
      BY <1>3, <1>6, <2>4
  <1> QED
    BY <1>4, <1>5, <1>6 DEF pages

LEMMA WriteStep ==
    ASSUME TranscriptInvariant, Write
    PROVE  TranscriptInvariant'
  <1>1. /\ TranscriptTypeOK /\ Ordered /\ Chained /\ EndsInAppend
        /\ AckedInOrder /\ AckedAreDurable
        /\ \A r \in Readers : PagesOfFile(r) /\ PromiseKept(r)
    BY DEF TranscriptInvariant
  <1>2. /\ appending # None
        /\ UNCHANGED <<synced, attempted, appending, acked, reader, limit, got, promised, result>>
    BY DEF Write, readerVars
  <1>3. PICK k \in written + 1 .. Len(Record(appending)) :
           file' = file \o SubSeq(Record(appending), written + 1, k) /\ written' = k
    BY DEF Write
  <1>4. /\ file' \in Seq(PartOfRecord) /\ k \in 1..3 /\ Len(file') = Len(file) + (k - written)
        /\ \A i \in 1 .. Len(file) : file'[i] = file[i]
    BY <1>1, <1>2, <1>3, WriteGrows
  <1>5. /\ Len(file) \in Nat /\ Len(file') \in Nat /\ Len(file) <= Len(file')
        /\ synced \in Nat /\ synced <= Len(file)
    <2>1. Len(file) \in Nat /\ synced \in Nat /\ synced <= Len(file) /\ written \in 0..3
      BY <1>1, WriterTypes
    <2>2. k >= written + 1
      BY <1>4, <2>1, RecordParts
    <2> QED
      BY <1>4, <2>1, <2>2
  <1>6. TranscriptTypeOK'
    <2>1. file' \in Seq([of : 1..attempted', part : ToSet(Parts)])
      BY <1>2, <1>4 DEF PartOfRecord
    <2>2. synced' \in 0 .. Len(file') /\ written' \in 0..3
      BY <1>2, <1>3, <1>4, <1>5
    <2>3. ASSUME NEW r \in Readers PROVE got'[r] \in 0 .. Len(file')
      BY <1>1, <1>2, <1>5 DEF TranscriptTypeOK
    <2> QED
      BY <1>1, <1>2, <2>1, <2>2, <2>3 DEF TranscriptTypeOK
  <1>7. Ordered' /\ Chained' /\ EndsInAppend'
    BY <1>1, WriteKeepsShape
  <1>8. AckedInOrder'
    BY <1>1, <1>2 DEF AckedInOrder
  <1>9. AckedAreDurable'
    <2>1. synced' \in synced .. Len(file') /\ \A i \in 1 .. synced : file'[i] = file[i]
      BY <1>2, <1>4, <1>5
    <2>2. \A n \in DOMAIN acked :
             \E i \in 0 .. synced' - 3 : SubSeq(file', i + 1, i + 3) = Record(acked[n])
      BY <1>1, <1>4, <2>1, DurableStays
    <2> QED
      BY <1>2, <2>2 DEF AckedAreDurable
  <1>10. ASSUME NEW r \in Readers PROVE PagesOfFile(r)' /\ PromiseKept(r)'
    <2>1. PagesOfFile(r)'
      BY <1>1, <1>2, <1>4, <1>5, PagesStay
    <2>2. PromiseKept(r)'
      BY <1>1, <1>2 DEF PromiseKept
    <2> QED
      BY <2>1, <2>2
  <1> QED
    BY <1>6, <1>7, <1>8, <1>9, <1>10 DEF TranscriptInvariant

LEMMA BeginAppendStep ==
    ASSUME TranscriptInvariant, BeginAppend
    PROVE  TranscriptInvariant'
  <1>1. /\ TranscriptTypeOK /\ Ordered /\ Chained /\ EndsInAppend
        /\ AckedInOrder /\ AckedAreDurable
        /\ \A r \in Readers : PagesOfFile(r) /\ PromiseKept(r)
    BY DEF TranscriptInvariant
  <1>2. /\ appending = None /\ attempted < MaxEvents
        /\ attempted' = attempted + 1 /\ appending' = attempted'
        /\ UNCHANGED <<file, synced, written, acked, reader, limit, got, promised, result>>
    BY DEF BeginAppend, readerVars
  <1>3. /\ attempted \in Nat /\ MaxEvents \in Nat /\ written = 0
        /\ Len(file) \in Nat /\ DOMAIN file = 1 .. Len(file)
        /\ DOMAIN acked = 1 .. Len(acked)
        /\ \A i \in 1 .. Len(file) : file[i].of \in 1..attempted
        /\ \A k \in 1 .. Len(acked) : acked[k] \in 1..attempted
    BY <1>1, <1>2, WriterTypes DEF PartOfRecord, EndsInAppend
  <1>4. 1..attempted \subseteq 1..attempted' /\ appending' \in 1..attempted'
        /\ attempted' \in 0..MaxEvents
    BY <1>2, <1>3
  <1>5. TranscriptTypeOK'
    <2>1. file' \in Seq([of : 1..attempted', part : ToSet(Parts)])
      <3> DEFINE Then == [of : 1..attempted', part : ToSet(Parts)]
      <3>1. PartOfRecord \subseteq Then
        BY <1>4 DEF PartOfRecord
      <3> HIDE DEF Then
      <3>2. file \in Seq(Then)
        BY <1>1, <3>1, WriterTypes, Wider
      <3> QED
        BY <1>2, <3>2 DEF Then
    <2>2. acked' \in Seq(1..attempted')
      BY <1>1, <1>2, <1>4, Wider DEF TranscriptTypeOK
    <2>3. ASSUME NEW r \in Readers PROVE result'[r] \in {None} \cup Seq(1..attempted')
      <3>1. result[r] \in Seq(1..attempted) => result[r] \in Seq(1..attempted')
        BY <1>4, Wider
      <3> QED
        BY <1>1, <1>2, <3>1 DEF TranscriptTypeOK
    <2>4. appending' \in {None} \cup 1..attempted' /\ attempted' \in 0..MaxEvents
      BY <1>4
    <2> QED
      BY <1>1, <1>2, <2>1, <2>2, <2>3, <2>4 DEF TranscriptTypeOK
  <1>6. Ordered' /\ Chained'
    BY <1>1, <1>2 DEF Ordered, Chained
  <1>7. EndsInAppend'
    <2>1. written' = 0 /\ appending' = attempted'
      BY <1>2, <1>3
    <2>2. \A i \in 1 .. Len(file') - written' : file'[i].of < appending'
      BY <1>2, <1>3, <2>1
    <2> QED
      BY <1>2, <1>3, <2>1, <2>2 DEF EndsInAppend
  <1>8. AckedInOrder' /\ AckedAreDurable'
    <2>1. \A k \in DOMAIN acked' : acked'[k] < appending'
      BY <1>2, <1>3
    <2> QED
      BY <1>1, <1>2, <2>1 DEF AckedInOrder, AckedAreDurable
  <1>9. \A r \in Readers : PagesOfFile(r)' /\ PromiseKept(r)'
    BY <1>1, <1>2 DEF PagesOfFile, PromiseKept
  <1> QED
    BY <1>5, <1>6, <1>7, <1>8, <1>9 DEF TranscriptInvariant

LEMMA AcknowledgeStep ==
    ASSUME TranscriptInvariant, Acknowledge
    PROVE  TranscriptInvariant'
  <1>1. /\ TranscriptTypeOK /\ Ordered /\ Chained /\ EndsInAppend
        /\ AckedInOrder /\ AckedAreDurable
        /\ \A r \in Readers : PagesOfFile(r) /\ PromiseKept(r)
    BY DEF TranscriptInvariant
  <1>2. /\ appending # None /\ written = 3
        /\ synced' = Len(file) /\ acked' = Append(acked, appending)
        /\ appending' = None /\ written' = 0
        /\ UNCHANGED <<file, attempted, reader, limit, got, promised, result>>
    BY RecordParts DEF Acknowledge, EndAppend, readerVars
  <1>3. /\ Len(file) \in Nat /\ file \in Seq(PartOfRecord) /\ synced \in Nat /\ synced <= Len(file)
        /\ acked \in Seq(1..attempted) /\ Len(acked) \in Nat
    BY <1>1, WriterTypes
  <1>4. appending \in 1..attempted /\ 3 <= Len(file)
    BY <1>1, <1>2 DEF TranscriptTypeOK, EndsInAppend
  <1>5. /\ acked' \in Seq(1..attempted) /\ Len(acked') = Len(acked) + 1
        /\ DOMAIN acked' = 1 .. Len(acked) + 1
        /\ \A k \in 1 .. Len(acked) : acked'[k] = acked[k]
        /\ acked'[Len(acked) + 1] = appending
    BY <1>2, <1>3, <1>4
  <1>6. TranscriptTypeOK'
    <2>1. synced' \in 0 .. Len(file') /\ written' \in 0..3
      BY <1>2, <1>3
    <2>2. ASSUME NEW r \in Readers PROVE promised'[r] \in 0 .. Len(acked')
      <3>1. promised[r] \in 0 .. Len(acked)
        BY <1>1 DEF TranscriptTypeOK
      <3> QED
        BY <1>2, <1>3, <1>5, <3>1
    <2> QED
      BY <1>1, <1>2, <1>5, <2>1, <2>2 DEF TranscriptTypeOK
  <1>7. Ordered' /\ Chained' /\ EndsInAppend'
    BY <1>1, <1>2 DEF Ordered, Chained, EndsInAppend
  <1>8. AckedInOrder'
    <2>1. ASSUME NEW k \in 1 .. Len(acked) + 1, NEW l \in 1 .. Len(acked) + 1, k < l
          PROVE  acked'[k] < acked'[l]
      <3>1. k \in 1 .. Len(acked) /\ acked'[k] = acked[k] /\ DOMAIN acked = 1 .. Len(acked)
        BY <1>3, <1>5, <2>1
      <3>2. CASE l = Len(acked) + 1
        BY <1>1, <1>2, <1>5, <3>1, <3>2 DEF AckedInOrder
      <3>3. CASE l \in 1 .. Len(acked)
        BY <1>1, <1>5, <2>1, <3>1, <3>3 DEF AckedInOrder
      <3> QED
        BY <1>3, <3>2, <3>3
    <2> QED
      BY <1>2, <1>5, <2>1 DEF AckedInOrder
  <1>9. AckedAreDurable'
    <2> SUFFICES ASSUME NEW k \in DOMAIN acked'
                 PROVE  \E i \in 0 .. Len(file) - 3 :
                           SubSeq(file, i + 1, i + 3) = Record(acked'[k])
      BY <1>2 DEF AckedAreDurable
    <2>1. CASE k \in 1 .. Len(acked)
      <3>1. k \in DOMAIN acked /\ acked'[k] = acked[k]
        BY <1>3, <1>5, <2>1
      <3>2. PICK i \in 0 .. synced - 3 : SubSeq(file, i + 1, i + 3) = Record(acked[k])
        BY <1>1, <3>1 DEF AckedAreDurable
      <3>3. i \in 0 .. Len(file) - 3
        <4>1. i \in Nat /\ i + 3 <= Len(file)
          BY <1>3, <3>2
        <4> QED
          BY <1>3, <4>1, ThreeBefore
      <3> QED
        BY <3>1, <3>2, <3>3
    <2>2. CASE k = Len(acked) + 1
      <3> DEFINE i == Len(file) - 3
      <3>1. i \in Nat /\ i + 3 <= Len(file) /\ i \in 0 .. Len(file) - 3
        BY <1>3, <1>4
      <3>2. \A m \in 1..3 : file[i + m] = Record(appending)[m]
        BY <1>1, <1>2 DEF EndsInAppend
      <3> HIDE DEF i
      <3>3. SubSeq(file, i + 1, i + 3) = Record(appending)
        BY <1>3, <3>1, <3>2, WholeAt
      <3> QED
        BY <1>5, <2>2, <3>1, <3>3
    <2> QED
      BY <1>3, <1>5, <2>1, <2>2
  <1>10. ASSUME NEW r \in Readers PROVE PagesOfFile(r)' /\ PromiseKept(r)'
    <2>1. PagesOfFile(r)'
      BY <1>1, <1>2 DEF PagesOfFile
    <2>2. \A k \in 1..promised[r] : acked'[k] = acked[k]
      <3>1. promised[r] \in 0 .. Len(acked)
        BY <1>1 DEF TranscriptTypeOK
      <3> QED
        BY <1>3, <1>5, <3>1
    <2>3. PromiseKept(r)'
      BY <1>1, <1>2, <2>2 DEF PromiseKept
    <2> QED
      BY <2>1, <2>3
  <1> QED
    BY <1>6, <1>7, <1>8, <1>9, <1>10 DEF TranscriptInvariant

LEMMA AbandonStep ==
    ASSUME TranscriptInvariant, Abandon
    PROVE  TranscriptInvariant'
  <1>1. /\ TranscriptTypeOK /\ Ordered /\ Chained /\ EndsInAppend
        /\ AckedInOrder /\ AckedAreDurable
        /\ \A r \in Readers : PagesOfFile(r) /\ PromiseKept(r)
    BY DEF TranscriptInvariant
  <1>2. /\ appending' = None /\ written' = 0
        /\ UNCHANGED <<file, synced, acked, attempted, reader, limit, got, promised, result>>
    BY DEF Abandon, EndAppend, readerVars
  <1>3. TranscriptTypeOK'
    BY <1>1, <1>2 DEF TranscriptTypeOK
  <1>4. Ordered' /\ Chained' /\ EndsInAppend' /\ AckedInOrder'
    BY <1>1, <1>2 DEF Ordered, Chained, EndsInAppend, AckedInOrder
  <1>5. AckedAreDurable'
    BY <1>1, <1>2 DEF AckedAreDurable
  <1>6. \A r \in Readers : PagesOfFile(r)' /\ PromiseKept(r)'
    BY <1>1, <1>2 DEF PagesOfFile, PromiseKept
  <1> QED
    BY <1>3, <1>4, <1>5, <1>6 DEF TranscriptInvariant

LEMMA PowerLossStep ==
    ASSUME TranscriptInvariant, PowerLoss
    PROVE  TranscriptInvariant'
  <1>1. /\ TranscriptTypeOK /\ Ordered /\ Chained /\ EndsInAppend
        /\ AckedInOrder /\ AckedAreDurable
    BY DEF TranscriptInvariant
  <1>2. PICK n \in synced .. Len(file) : file' = SubSeq(file, 1, n) /\ synced' = n
    BY DEF PowerLoss
  <1>3. /\ appending' = None /\ written' = 0 /\ UNCHANGED <<attempted, acked>>
        /\ reader' = [r \in Readers |-> "idle"] /\ limit' = [r \in Readers |-> Unlimited]
        /\ got' = [r \in Readers |-> 0] /\ result' = [r \in Readers |-> None]
        /\ promised' = [r \in Readers |-> 0]
    BY DEF PowerLoss
  <1>4. /\ file \in Seq(PartOfRecord) /\ Len(file) \in Nat /\ DOMAIN file = 1 .. Len(file)
        /\ synced \in Nat /\ synced <= Len(file)
        /\ acked \in Seq(1..attempted) /\ Len(acked) \in Nat
    BY <1>1, WriterTypes
  <1>5. n \in Nat /\ synced <= n /\ n <= Len(file)
    BY <1>2, <1>4
  <1>6. /\ file' \in Seq(PartOfRecord) /\ Len(file') = n /\ DOMAIN file' = 1..n
        /\ \A i \in 1..n : i \in DOMAIN file /\ file'[i] = file[i]
    <2>1. \A i \in 1..n : i \in 1 .. Len(file)
      BY <1>5, <1>4
    <2>2. \A i \in 1..n : file[i] \in PartOfRecord
      BY <1>4, <2>1
    <2>3. CASE n = 0
      BY <1>2, <1>4, <2>3
    <2>4. CASE n > 0
      BY <1>2, <1>4, <1>5, <2>1, <2>2, <2>4
    <2> QED
      BY <1>5, <2>3, <2>4
  <1>7. TranscriptTypeOK'
    <2>1. file' \in Seq([of : 1..attempted', part : ToSet(Parts)])
      BY <1>3, <1>6 DEF PartOfRecord
    <2>2. synced' \in 0 .. Len(file') /\ written' \in 0..3
      BY <1>2, <1>3, <1>5, <1>6
    <2>3. ASSUME NEW r \in Readers
          PROVE  /\ limit'[r] = Unlimited /\ got'[r] \in 0 .. Len(file')
                 /\ promised'[r] \in 0 .. Len(acked') /\ result'[r] = None
      BY <1>3, <1>4, <1>5, <1>6
    <2>4. reader' \in [Readers -> {"idle", "reading", "done"}]
      BY <1>3
    <2>5. acked' \in Seq(1..attempted') /\ attempted' \in 0..MaxEvents
      BY <1>1, <1>3 DEF TranscriptTypeOK
    <2> QED
      BY <1>3, <2>1, <2>2, <2>3, <2>4, <2>5 DEF TranscriptTypeOK
  <1>8. Ordered'
    BY <1>1, <1>6 DEF Ordered
  <1>9. Chained'
    <2> SUFFICES ASSUME NEW i \in DOMAIN file'
                 PROVE  /\ file'[i].part = "rest" =>
                              i > 1 /\ file'[i - 1] = [of |-> file'[i].of, part |-> "beginning"]
                        /\ file'[i].part = "newline" =>
                              i > 1 /\ file'[i - 1] = [of |-> file'[i].of, part |-> "rest"]
      BY DEF Chained
    <2>1. i \in 1..n /\ i \in DOMAIN file /\ file'[i] = file[i]
      BY <1>6
    <2>2. i > 1 => file'[i - 1] = file[i - 1]
      BY <1>5, <1>6, <2>1
    <2> QED
      BY <1>1, <2>1, <2>2 DEF Chained
  <1>10. EndsInAppend' /\ AckedInOrder'
    BY <1>1, <1>3 DEF EndsInAppend, AckedInOrder
  <1>11. AckedAreDurable'
    <2>1. synced' \in synced .. Len(file') /\ \A i \in 1 .. synced : file'[i] = file[i]
      <3>1. \A i \in 1 .. synced : i \in 1..n
        BY <1>4, <1>5
      <3> QED
        BY <1>2, <1>5, <1>6, <3>1
    <2>2. \A k \in DOMAIN acked :
             \E i \in 0 .. synced' - 3 : SubSeq(file', i + 1, i + 3) = Record(acked[k])
      BY <1>1, <1>6, <2>1, DurableStays
    <2> QED
      BY <1>3, <2>2 DEF AckedAreDurable
  <1>12. ASSUME NEW r \in Readers PROVE PagesOfFile(r)' /\ PromiseKept(r)'
    <2>1. reader'[r] = "idle" /\ result'[r] = None
      BY <1>3
    <2> QED
      BY <2>1 DEF PagesOfFile, PromiseKept
  <1> QED
    BY <1>7, <1>8, <1>9, <1>10, <1>11, <1>12 DEF TranscriptInvariant

-----------------------------------------------------------------------------
(* The steps of a reader *)

LEMMA OpenStep ==
    ASSUME TranscriptInvariant, NEW r \in Readers, Open(r)
    PROVE  TranscriptInvariant'
  <1>1. /\ TranscriptTypeOK /\ Ordered /\ Chained /\ EndsInAppend
        /\ AckedInOrder /\ AckedAreDurable
        /\ \A q \in Readers : PagesOfFile(q) /\ PromiseKept(q)
    BY DEF TranscriptInvariant
  <1>2. /\ reader' = [reader EXCEPT ![r] = "reading"]
        /\ got' = [got EXCEPT ![r] = 0]
        /\ promised' = [promised EXCEPT ![r] = Len(acked)]
        /\ UNCHANGED <<file, synced, attempted, appending, written, acked>>
    BY DEF Open, writerVars
  <1>3. PICK l \in {1, Unlimited} : limit' = [limit EXCEPT ![r] = l]
    BY DEF Open
  <1>4. \/ result' = [result EXCEPT ![r] = <<>>]
        \/ result[r] # None /\ result' = result
    BY DEF Open
  <1>5. /\ reader \in [Readers -> {"idle", "reading", "done"}]
        /\ limit \in [Readers -> {1, Unlimited}] /\ got \in [Readers -> 0 .. Len(file)]
        /\ promised \in [Readers -> 0 .. Len(acked)]
        /\ result \in [Readers -> {None} \cup Seq(1..attempted)]
        /\ Len(file) \in Nat /\ Len(acked) \in Nat
    BY <1>1, WriterTypes DEF TranscriptTypeOK
  <1>6. <<>> \in Seq(1..attempted) /\ <<>> # None
    <2>1. <<>> \in Seq(1..MaxEvents) /\ <<>> \in Seq(1..attempted)
      OBVIOUS
    <2>2. None \notin Seq(1..MaxEvents)
      BY TranscriptAssumption
    <2> QED
      BY <2>1, <2>2, Zenon
  <1>7. TranscriptTypeOK'
    <2>1. /\ reader' \in [Readers -> {"idle", "reading", "done"}]
          /\ limit' \in [Readers -> {1, Unlimited}]
      BY <1>2, <1>3, <1>5
    <2>2. got' \in [Readers -> 0 .. Len(file)] /\ promised' \in [Readers -> 0 .. Len(acked)]
      BY <1>2, <1>5
    <2>3. result' \in [Readers -> {None} \cup Seq(1..attempted)]
      BY <1>4, <1>5, <1>6
    <2> QED
      BY <1>1, <1>2, <2>1, <2>2, <2>3 DEF TranscriptTypeOK
  <1>8. Ordered' /\ Chained' /\ EndsInAppend' /\ AckedInOrder'
    BY <1>1, <1>2 DEF Ordered, Chained, EndsInAppend, AckedInOrder
  <1>9. AckedAreDurable'
    BY <1>1, <1>2 DEF AckedAreDurable
  <1>10. ASSUME NEW q \in Readers PROVE PagesOfFile(q)' /\ PromiseKept(q)'
    <2>1. CASE q # r
      <3>1. reader'[q] = reader[q] /\ promised'[q] = promised[q] /\ result'[q] = result[q]
        BY <1>2, <1>4, <1>5, <2>1
      <3> QED
        BY <1>1, <1>2, <3>1 DEF PagesOfFile, PromiseKept
    <2>2. CASE q = r /\ result' = result
      <3>1. reader'[r] = "reading" /\ result'[r] = result[r] /\ result[r] # None
        BY <1>2, <1>4, <1>5, <1>6, <2>2
      <3> QED
        BY <1>1, <1>2, <2>2, <3>1 DEF PagesOfFile, PromiseKept
    <2>3. CASE q = r /\ result' = [result EXCEPT ![r] = <<>>]
      <3>1. reader'[r] = "reading" /\ result'[r] = <<>>
        BY <1>2, <1>5, <2>3
      <3>2. DOMAIN file' = 1 .. Len(file')
        BY <1>1, <1>2, WriterTypes
      <3>3. \A p \in 1 .. Len(file') : ~(p <= 3 * 0 - 2)
        OBVIOUS
      <3>4. Len(<<>>) = 0 /\ DOMAIN <<>> = {}
        OBVIOUS
      <3> QED
        BY <1>6, <2>3, <3>1, <3>2, <3>3, <3>4 DEF PagesOfFile, PromiseKept
    <2> QED
      BY <1>4, <2>1, <2>2, <2>3
  <1> QED
    BY <1>7, <1>8, <1>9, <1>10 DEF TranscriptInvariant

LEMMA ReadChunkStep ==
    ASSUME TranscriptInvariant, NEW r \in Readers, ReadChunk(r)
    PROVE  TranscriptInvariant'
  <1>1. /\ TranscriptTypeOK /\ Ordered /\ Chained /\ EndsInAppend
        /\ AckedInOrder /\ AckedAreDurable
        /\ \A q \in Readers : PagesOfFile(q) /\ PromiseKept(q)
    BY DEF TranscriptInvariant
  <1>2. PICK n \in got[r] + 1 .. Len(file) : got' = [got EXCEPT ![r] = n]
    BY DEF ReadChunk
  <1>3. UNCHANGED <<file, synced, attempted, appending, written, acked, reader, limit,
                    promised, result>>
    BY DEF ReadChunk, writerVars
  <1>4. got \in [Readers -> 0 .. Len(file)] /\ Len(file) \in Nat
    BY <1>1, WriterTypes DEF TranscriptTypeOK
  <1>5. TranscriptTypeOK'
    <2>1. n \in 0 .. Len(file)
      BY <1>2, <1>4
    <2>2. got' \in [Readers -> 0 .. Len(file)]
      BY <1>2, <1>4, <2>1
    <2> QED
      BY <1>1, <1>3, <2>2 DEF TranscriptTypeOK
  <1>6. Ordered' /\ Chained' /\ EndsInAppend' /\ AckedInOrder'
    BY <1>1, <1>3 DEF Ordered, Chained, EndsInAppend, AckedInOrder
  <1>7. AckedAreDurable' /\ \A q \in Readers : PagesOfFile(q)' /\ PromiseKept(q)'
    BY <1>1, <1>3 DEF AckedAreDurable, PagesOfFile, PromiseKept
  <1> QED
    BY <1>5, <1>6, <1>7 DEF TranscriptInvariant

LEMMA WholeOrClosed ==
    ASSUME NEW len \in Nat, NEW q \in Nat, 3 * q + 1 <= len, len % 3 # 1
    PROVE  q + 1 <= (len + 1) \div 3
  <1>1. (3 * q + 1) % 3 = 1
    OBVIOUS
  <1>2. len # 3 * q + 1
    BY <1>1
  <1>3. 3 * (q + 1) <= len + 1
    BY <1>2
  <1> QED
    BY <1>3

(* What read() returns of a valid file: one event for each beginning. *)
LEMMA ReplayOfValid ==
    ASSUME TranscriptTypeOK, Valid(file)
    PROVE  /\ Replay(file) \in Seq(1..attempted)
           /\ Len(Replay(file)) = (Len(file) + 1) \div 3
           /\ \A i \in 1 .. (Len(file) + 1) \div 3 :
                 /\ 3 * i - 2 \in 1 .. Len(file) /\ 3 * i - 1 <= Len(file)
                 /\ file[3 * i - 2] = [of |-> Replay(file)[i], part |-> "beginning"]
           /\ \A p \in 1 .. Len(file) : file[p].part = "beginning" =>
                 \E i \in 1 .. (Len(file) + 1) \div 3 : p = 3 * i - 2
  <1> DEFINE count == (Len(file) + 1) \div 3
             events == [i \in 1..count |-> file[3 * i - 2].of]
  <1>1. /\ Len(file) \in Nat /\ DOMAIN file = 1 .. Len(file)
        /\ \A i \in 1 .. Len(file) : file[i] \in PartOfRecord
    BY WriterTypes
  <1>2. count \in Nat /\ 3 * count <= Len(file) + 1
    BY <1>1
  <1>3. /\ Len(file) % 3 # 1
        /\ \A p \in 1 .. Len(file) : file[p].part = Parts[((p - 1) % 3) + 1]
    BY <1>1 DEF Valid
  <1>4. Replay(file) = events
    BY DEF Replay
  <1>5. ASSUME NEW i \in 1..count
        PROVE  3 * i - 2 \in 1 .. Len(file) /\ 3 * i - 1 <= Len(file)
    <2>1. i \in Nat /\ i >= 1 /\ i <= count
      BY <1>2
    <2> HIDE DEF count
    <2> QED
      BY <1>1, <1>2, <2>1
  <1>6. ASSUME NEW i \in 1..count
        PROVE  file[3 * i - 2] = [of |-> events[i], part |-> "beginning"]
    <2>1. 3 * i - 2 \in 1 .. Len(file)
      BY <1>5
    <2>2. ((3 * i - 2 - 1) % 3) + 1 = 1
      BY <1>2
    <2>3. file[3 * i - 2].part = "beginning"
      BY <1>3, <2>1, <2>2, PartTypes
    <2>4. file[3 * i - 2] \in PartOfRecord /\ events[i] = file[3 * i - 2].of
      BY <1>1, <2>1
    <2> QED
      BY <2>3, <2>4 DEF PartOfRecord
  <1>7. ASSUME NEW p \in 1 .. Len(file), file[p].part = "beginning"
        PROVE  \E i \in 1..count : p = 3 * i - 2
    <2> DEFINE rest == (p - 1) % 3
    <2>1. p \in Nat /\ p >= 1 /\ p <= Len(file)
      BY <1>1
    <2>2. rest \in {0, 1, 2}
      BY <2>1
    <2>3. rest = 0
      BY <1>3, <1>7, <2>2, PartTypes
    <2> DEFINE q == (p - 1) \div 3
    <2>4. q \in Nat /\ p = 3 * q + 1
      BY <2>1, <2>3
    <2> HIDE DEF q
    <2>5. q + 1 \in 1..count
      <3>1. 3 * q + 1 <= Len(file) /\ Len(file) % 3 # 1
        BY <1>3, <2>1, <2>4
      <3>2. q + 1 <= count
        BY <1>1, <2>4, <3>1, WholeOrClosed
      <3> HIDE DEF count
      <3> QED
        BY <1>2, <2>4, <3>2
    <2>6. p = 3 * (q + 1) - 2
      BY <2>4
    <2> QED
      BY <2>5, <2>6
  <1>8. events \in Seq(1..attempted) /\ Len(events) = count
    <2>1. \A i \in 1..count : file[3 * i - 2].of \in 1..attempted
      BY <1>1, <1>5 DEF PartOfRecord
    <2> HIDE DEF count
    <2>2. events \in [1..count -> 1..attempted]
      BY <2>1
    <2>3. events \in Seq(1..attempted)
      BY <1>2, <2>2, IsSequence
    <2> QED
      BY <1>2, <2>2, <2>3
  <1> HIDE DEF events
  <1> QED
    BY <1>4, <1>5, <1>6, <1>7, <1>8

(* The place in the file at which an acknowledged record begins. *)
LEMMA AckedBegins ==
    ASSUME TranscriptTypeOK, AckedAreDurable, NEW k \in DOMAIN acked
    PROVE  \E p \in 1 .. Len(file) : file[p] = [of |-> acked[k], part |-> "beginning"]
  <1>1. PICK i \in 0 .. synced - 3 : SubSeq(file, i + 1, i + 3) = Record(acked[k])
    BY DEF AckedAreDurable
  <1>2. /\ Len(file) \in Nat /\ file \in Seq(PartOfRecord) /\ synced \in Nat /\ synced <= Len(file)
    BY WriterTypes
  <1>3. i \in Nat /\ i + 3 <= Len(file)
    BY <1>1, <1>2
  <1>4. file[i + 1] = Record(acked[k])[1]
    <2>1. \A m \in 1..3 : file[i + m] = Record(acked[k])[m]
      BY <1>1, <1>2, <1>3, WholeAt
    <2> QED
      BY <2>1
  <1>5. i + 1 \in 1 .. Len(file)
    BY <1>2, <1>3
  <1> QED
    BY <1>4, <1>5, RecordParts

(* A sequence that is continued from another one, of which it is a prefix. *)
LEMMA Continued ==
    ASSUME NEW S, NEW had \in Seq(S), NEW all \in Seq(S), NEW upto \in Nat,
           Len(had) <= upto, upto <= Len(all), \A i \in 1 .. Len(had) : had[i] = all[i]
    PROVE  /\ had \o SubSeq(all, Len(had) + 1, upto) \in Seq(S)
           /\ Len(had \o SubSeq(all, Len(had) + 1, upto)) = upto
           /\ \A i \in 1..upto : (had \o SubSeq(all, Len(had) + 1, upto))[i] = all[i]
  <1> DEFINE n == Len(had)
             more == SubSeq(all, n + 1, upto)
             pages == had \o more
  <1>1. n \in Nat /\ Len(all) \in Nat /\ \A i \in 1 .. Len(all) : all[i] \in S
    OBVIOUS
  <1> HIDE DEF n
  <1>2. n <= upto /\ upto <= Len(all) /\ \A i \in 1..n : had[i] = all[i]
    BY DEF n
  <1>3. more \in Seq(S) /\ Len(more) = upto - n /\ \A j \in 1 .. upto - n : more[j] = all[n + j]
    <2>1. CASE upto = n
      <3>1. more = <<>>
        BY <1>1, <1>2, <2>1
      <3>2. upto - n = 0 /\ \A j \in 1..0 : FALSE
        BY <1>1, <2>1
      <3> HIDE DEF more
      <3> QED
        BY <3>1, <3>2
    <2>2. CASE upto > n
      <3>1. n + 1 \in Int /\ upto \in Int /\ n + 1 <= upto
        BY <1>1, <2>2
      <3>2. \A i \in n + 1 .. upto : all[i] \in S
        <4>1. \A i \in n + 1 .. upto : i \in 1 .. Len(all)
          BY <1>1, <1>2
        <4> QED
          BY <1>1, <4>1
      <3>3. /\ more \in Seq(S) /\ Len(more) = upto - (n + 1) + 1
            /\ \A j \in 1 .. upto - (n + 1) + 1 : more[j] = all[n + 1 + j - 1]
        BY <3>1, <3>2, SubSeqProperties
      <3> HIDE DEF more
      <3>4. upto - (n + 1) + 1 = upto - n /\ \A j \in Nat : n + 1 + j - 1 = n + j
        BY <1>1
      <3>5. \A j \in 1 .. upto - n : j \in Nat
        OBVIOUS
      <3> QED
        BY <3>3, <3>4, <3>5
    <2> QED
      BY <1>1, <1>2, <2>1, <2>2
  <1> HIDE DEF more
  <1>4. /\ pages \in Seq(S) /\ Len(pages) = n + Len(more)
        /\ \A i \in 1 .. n : pages[i] = had[i]
        /\ \A j \in 1 .. Len(more) : pages[n + j] = more[j]
    <2>1. more \in Seq(S)
      BY <1>3
    <2> QED
      BY <2>1 DEF n
  <1> HIDE DEF pages
  <1>5. Len(pages) = upto
    BY <1>1, <1>3, <1>4
  <1>6. ASSUME NEW i \in 1..upto PROVE pages[i] = all[i]
    <2>1. CASE i <= n
      <3>1. i \in 1..n
        BY <1>1, <2>1
      <3> QED
        BY <1>2, <1>4, <3>1
    <2>2. CASE i > n
      <3>1. i - n \in 1 .. upto - n /\ n + (i - n) = i
        BY <1>1, <1>2, <2>2
      <3> QED
        BY <1>3, <1>4, <3>1
    <2> QED
      BY <1>1, <2>1, <2>2
  <1>7. pages = had \o SubSeq(all, Len(had) + 1, upto)
    BY DEF pages, more, n
  <1> QED
    BY <1>4, <1>5, <1>6, <1>7, Zenon

(* What a reader has had is the first events of a valid file. *)
LEMMA PagesOfReplay ==
    ASSUME TranscriptTypeOK, NEW r \in Readers, result[r] # None, PagesOfFile(r), Valid(file)
    PROVE  /\ result[r] \in Seq(1..attempted) /\ Len(result[r]) \in Nat
           /\ Len(result[r]) <= Len(Replay(file))
           /\ \A i \in 1 .. Len(result[r]) : result[r][i] = Replay(file)[i]
  <1> DEFINE had == result[r]
             events == Replay(file)
  <1>1. /\ events \in Seq(1..attempted) /\ Len(events) = (Len(file) + 1) \div 3
        /\ \A i \in 1 .. Len(events) :
              file[3 * i - 2] = [of |-> events[i], part |-> "beginning"]
    BY ReplayOfValid
  <1>2. had \in Seq(1..attempted)
    BY DEF TranscriptTypeOK
  <1>3. Len(had) \in Nat /\ DOMAIN had = 1 .. Len(had)
    BY <1>2
  <1>4. /\ \A i \in DOMAIN had : file[3 * i - 2] = [of |-> had[i], part |-> "beginning"]
        /\ Len(had) > 0 => 3 * Len(had) - 1 <= Len(file)
    BY DEF PagesOfFile
  <1> HIDE DEF had, events
  <1>5. Len(had) <= Len(events)
    BY <1>1, <1>3, <1>4, WriterTypes
  <1>6. ASSUME NEW i \in 1 .. Len(had) PROVE had[i] = events[i]
    <2>1. i \in 1 .. Len(events) /\ i \in DOMAIN had
      <3>1. Len(events) \in Nat
        BY <1>1
      <3> QED
        BY <1>3, <1>5, <3>1
    <2>2. [of |-> had[i], part |-> "beginning"] = [of |-> events[i], part |-> "beginning"]
      BY <1>1, <1>4, <2>1, Zenon
    <2> QED
      BY <2>2
  <1> QED
    BY <1>2, <1>3, <1>5, <1>6 DEF had, events

LEMMA FinishStep ==
    ASSUME TranscriptInvariant, NEW r \in Readers, Finish(r)
    PROVE  TranscriptInvariant'
  <1> DEFINE events == Replay(file)
             offset == Len(result[r])
             upto == IF offset + limit[r] < Len(events) THEN offset + limit[r] ELSE Len(events)
             pages == result[r] \o SubSeq(events, offset + 1, upto)
  <1>1. /\ TranscriptTypeOK /\ Ordered /\ Chained /\ EndsInAppend
        /\ AckedInOrder /\ AckedAreDurable
        /\ \A q \in Readers : PagesOfFile(q) /\ PromiseKept(q)
    BY DEF TranscriptInvariant
  <1>2. /\ reader[r] = "reading" /\ reader' = [reader EXCEPT ![r] = "done"]
        /\ UNCHANGED <<file, synced, attempted, appending, written, acked, limit, got>>
    BY DEF Finish, writerVars
  <1>3. \/ result' = [result EXCEPT ![r] = None] /\ promised' = promised
        \/ /\ Valid(file) /\ result' = [result EXCEPT ![r] = pages]
           /\ promised' = [promised EXCEPT ![r] = IF upto = offset + limit[r] THEN 0 ELSE @]
    BY DEF Finish, ReadAll
  <1>4. /\ reader \in [Readers -> {"idle", "reading", "done"}]
        /\ promised \in [Readers -> 0 .. Len(acked)] /\ Len(acked) \in Nat
        /\ result \in [Readers -> {None} \cup Seq(1..attempted)]
        /\ limit[r] \in Nat
    <2>1. limit[r] \in {1, MaxEvents + 1} /\ MaxEvents \in Nat
      BY <1>1, TranscriptAssumption DEF TranscriptTypeOK, Unlimited
    <2>2. limit[r] \in Nat
      BY <2>1
    <2>3. Len(acked) \in Nat
      BY <1>1, WriterTypes
    <2> QED
      BY <1>1, <2>2, <2>3 DEF TranscriptTypeOK
  <1>5. result[r] # None
    BY <1>1, <1>2 DEF PagesOfFile
  <1>6. reader' \in [Readers -> {"idle", "reading", "done"}]
    BY <1>2, <1>4
  <1>7. Ordered' /\ Chained' /\ EndsInAppend' /\ AckedInOrder'
    BY <1>1, <1>2 DEF Ordered, Chained, EndsInAppend, AckedInOrder
  <1>8. AckedAreDurable'
    BY <1>1, <1>2 DEF AckedAreDurable
  <1>9. \A q \in Readers : q # r => /\ reader'[q] = reader[q]
                                    /\ promised'[q] = promised[q] /\ result'[q] = result[q]
    BY <1>2, <1>3, <1>4
  <1>10. ASSUME NEW q \in Readers, q # r PROVE PagesOfFile(q)' /\ PromiseKept(q)'
    <2>1. reader'[q] = reader[q] /\ promised'[q] = promised[q] /\ result'[q] = result[q]
      BY <1>9, <1>10
    <2>2. PagesOfFile(q) /\ PromiseKept(q)
      BY <1>1
    <2>3. PagesOfFile(q)'
      BY <1>2, <2>1, <2>2 DEF PagesOfFile
    <2>4. PromiseKept(q)'
      BY <1>2, <2>1, <2>2 DEF PromiseKept
    <2> QED
      BY <2>3, <2>4
  <1>11. reader'[r] = "done"
    BY <1>2, <1>4
  <1>12. CASE result' = [result EXCEPT ![r] = None] /\ promised' = promised
    <2>1. result'[r] = None /\ result' \in [Readers -> {None} \cup Seq(1..attempted)]
      BY <1>4, <1>12
    <2>2. TranscriptTypeOK'
      BY <1>1, <1>2, <1>6, <1>12, <2>1 DEF TranscriptTypeOK
    <2>3. PagesOfFile(r)' /\ PromiseKept(r)'
      BY <1>11, <2>1 DEF PagesOfFile, PromiseKept
    <2> QED
      BY <1>7, <1>8, <1>10, <2>2, <2>3 DEF TranscriptInvariant
  <1>13. CASE /\ Valid(file) /\ result' = [result EXCEPT ![r] = pages]
              /\ promised' = [promised EXCEPT ![r] = IF upto = offset + limit[r] THEN 0 ELSE @]
    <2>1. /\ events \in Seq(1..attempted) /\ Len(events) = (Len(file) + 1) \div 3
          /\ \A i \in 1 .. (Len(file) + 1) \div 3 :
                /\ 3 * i - 2 \in 1 .. Len(file) /\ 3 * i - 1 <= Len(file)
                /\ file[3 * i - 2] = [of |-> events[i], part |-> "beginning"]
          /\ \A p \in 1 .. Len(file) : file[p].part = "beginning" =>
                \E i \in 1 .. (Len(file) + 1) \div 3 : p = 3 * i - 2
      BY <1>1, <1>13, ReplayOfValid
    <2>2. /\ result[r] \in Seq(1..attempted) /\ offset \in Nat /\ offset <= Len(events)
          /\ \A i \in 1 .. offset : result[r][i] = events[i]
      BY <1>1, <1>5, <1>13, PagesOfReplay
    <2> HIDE DEF events, offset
    <2>3. upto \in Nat /\ offset <= upto /\ upto <= Len(events) /\ Len(events) \in Nat
      <3>1. Len(events) \in Nat
        BY <2>1
      <3> QED
        BY <1>4, <2>2, <3>1
    <2>4. upto # offset + limit[r] => upto = Len(events)
      OBVIOUS
    <2> HIDE DEF upto
    <2>5. /\ pages \in Seq(1..attempted) /\ Len(pages) = upto
          /\ \A i \in 1..upto : pages[i] = events[i]
      <3> DEFINE had == result[r]
                 Events == 1..attempted
      <3>1. had \in Seq(Events)
        BY <2>2
      <3>2. Len(had) <= upto /\ \A i \in 1 .. Len(had) : had[i] = events[i]
        BY <2>2, <2>3 DEF offset
      <3>3. pages = had \o SubSeq(events, Len(had) + 1, upto)
        BY DEF offset
      <3>4. events \in Seq(Events) /\ upto \in Nat /\ upto <= Len(events)
        BY <2>1, <2>3
      <3> HIDE DEF had, pages, Events
      <3>5. /\ had \o SubSeq(events, Len(had) + 1, upto) \in Seq(Events)
            /\ Len(had \o SubSeq(events, Len(had) + 1, upto)) = upto
            /\ \A i \in 1..upto :
                  (had \o SubSeq(events, Len(had) + 1, upto))[i] = events[i]
        BY <3>1, <3>2, <3>4, Continued
      <3> QED
        BY <3>3, <3>5, Zenon DEF Events
    <2> HIDE DEF pages
    <2>6. result'[r] = pages /\ result' \in [Readers -> {None} \cup Seq(1..attempted)]
      BY <1>4, <1>13, <2>5
    <2>7. promised' \in [Readers -> 0 .. Len(acked)]
      BY <1>4, <1>13
    <2>8. promised'[r] = (IF upto = offset + limit[r] THEN 0 ELSE promised[r])
      BY <1>4, <1>13
    <2>9. TranscriptTypeOK'
      BY <1>1, <1>2, <1>6, <2>6, <2>7 DEF TranscriptTypeOK
    <2>10. DOMAIN pages = 1..upto /\ DOMAIN file = 1 .. Len(file) /\ Len(file) \in Nat
      BY <1>1, <2>5, WriterTypes
    <2>11. \A i \in 1..upto : /\ 3 * i - 2 \in 1 .. Len(file) /\ 3 * i - 1 <= Len(file)
                              /\ file[3 * i - 2] = [of |-> pages[i], part |-> "beginning"]
      <3>1. \A i \in 1..upto : i \in 1 .. (Len(file) + 1) \div 3
        BY <2>1, <2>3
      <3> QED
        BY <2>1, <2>5, <3>1
    <2>12. PagesOfFile(r)'
      <3>1. Len(pages) > 0 => 3 * Len(pages) - 1 <= Len(file)
        <4>1. upto > 0 => upto \in 1..upto
          BY <2>3
        <4> QED
          BY <2>5, <2>11, <4>1
      <3>2. ASSUME NEW p \in DOMAIN file, p <= 3 * upto - 2, file[p].part = "beginning"
            PROVE  \E i \in DOMAIN pages : p = 3 * i - 2
        <4>1. PICK i \in 1 .. (Len(file) + 1) \div 3 : p = 3 * i - 2
          BY <2>1, <2>10, <3>2
        <4>2. i \in 1..upto
          BY <2>3, <2>10, <3>2, <4>1
        <4> QED
          BY <2>10, <4>1, <4>2
      <3> QED
        BY <1>2, <1>11, <2>5, <2>6, <2>10, <2>11, <3>1, <3>2 DEF PagesOfFile
    <2>13. PromiseKept(r)'
      <3> SUFFICES ASSUME NEW k \in 1 .. promised'[r]
                   PROVE  acked[k] \in ToSet(pages)
        BY <1>2, <2>6 DEF PromiseKept
      <3>1. upto = Len(events) /\ promised'[r] = promised[r]
        <4>1. \A n \in 1..0 : FALSE
          OBVIOUS
        <4> QED
          BY <2>4, <2>8, <4>1
      <3>2. k \in DOMAIN acked
        <4>1. promised[r] \in 0 .. Len(acked) /\ DOMAIN acked = 1 .. Len(acked)
          BY <1>1, <1>4, WriterTypes
        <4> QED
          BY <1>4, <3>1, <4>1
      <3>3. PICK p \in 1 .. Len(file) : file[p] = [of |-> acked[k], part |-> "beginning"]
        BY <1>1, <3>2, AckedBegins
      <3>4. PICK i \in 1..upto : p = 3 * i - 2
        BY <2>1, <3>1, <3>3
      <3>5. pages[i] = acked[k] /\ i \in DOMAIN pages
        <4>1. [of |-> acked[k], part |-> "beginning"] = [of |-> pages[i], part |-> "beginning"]
          BY <2>11, <3>3, <3>4, Zenon
        <4> QED
          BY <2>10, <4>1
      <3> QED
        BY <3>5 DEF ToSet
    <2> QED
      BY <1>7, <1>8, <1>10, <2>9, <2>12, <2>13 DEF TranscriptInvariant
  <1> QED
    BY <1>3, <1>12, <1>13

-----------------------------------------------------------------------------
(* The invariant, and what it implies *)

LEMMA TranscriptStarts == TranscriptInit => TranscriptInvariant
  <1> SUFFICES ASSUME TranscriptInit PROVE TranscriptInvariant
    OBVIOUS
  <1>1. /\ file = <<>> /\ synced = 0 /\ attempted = 0 /\ appending = None
        /\ written = 0 /\ acked = <<>>
    BY DEF TranscriptInit
  <1>2. /\ reader = [r \in Readers |-> "idle"] /\ limit = [r \in Readers |-> Unlimited]
        /\ got = [r \in Readers |-> 0] /\ promised = [r \in Readers |-> 0]
        /\ result = [r \in Readers |-> None]
    BY DEF TranscriptInit
  <1>3. Len(file) = 0 /\ Len(acked) = 0 /\ DOMAIN file = {} /\ DOMAIN acked = {}
    BY <1>1
  <1>4. TranscriptTypeOK
    <2>1. file \in Seq([of : 1..attempted, part : ToSet(Parts)]) /\ acked \in Seq(1..attempted)
      BY <1>1
    <2>2. synced \in 0 .. Len(file) /\ attempted \in 0..MaxEvents /\ written \in 0..3
      BY <1>1, <1>3, TranscriptAssumption
    <2>3. 0 \in 0 .. Len(file) /\ 0 \in 0 .. Len(acked)
      BY <1>3
    <2>4. got \in [Readers -> 0 .. Len(file)] /\ promised \in [Readers -> 0 .. Len(acked)]
      BY <1>2, <2>3
    <2> QED
      BY <1>1, <1>2, <2>1, <2>2, <2>4 DEF TranscriptTypeOK
  <1>5. Ordered /\ Chained /\ EndsInAppend /\ AckedInOrder /\ AckedAreDurable
    BY <1>1, <1>3 DEF Ordered, Chained, EndsInAppend, AckedInOrder, AckedAreDurable
  <1>6. \A r \in Readers : PagesOfFile(r) /\ PromiseKept(r)
    BY <1>2 DEF PagesOfFile, PromiseKept
  <1> QED
    BY <1>4, <1>5, <1>6 DEF TranscriptInvariant

LEMMA TranscriptSteps ==
    ASSUME TranscriptInvariant, [TranscriptNext]_transcriptVars
    PROVE  TranscriptInvariant'
  <1>1. CASE BeginAppend
    BY <1>1, BeginAppendStep
  <1>2. CASE Write
    BY <1>2, WriteStep
  <1>3. CASE Acknowledge
    BY <1>3, AcknowledgeStep
  <1>4. CASE Abandon
    BY <1>4, AbandonStep
  <1>5. CASE PowerLoss
    BY <1>5, PowerLossStep
  <1>6. CASE \E r \in Readers : Open(r) \/ ReadChunk(r) \/ Finish(r)
    BY <1>6, OpenStep, ReadChunkStep, FinishStep
  <1>7. CASE UNCHANGED transcriptVars
    <2>1. UNCHANGED <<file, synced, attempted, appending, written, acked,
                      reader, limit, got, promised, result>>
      BY <1>7 DEF transcriptVars, writerVars, readerVars
    <2>2. TranscriptTypeOK'
      BY <2>1 DEF TranscriptInvariant, TranscriptTypeOK
    <2>3. Ordered' /\ Chained' /\ EndsInAppend' /\ AckedInOrder' /\ AckedAreDurable'
      BY <2>1 DEF TranscriptInvariant, Ordered, Chained, EndsInAppend, AckedInOrder,
                  AckedAreDurable
    <2>4. \A r \in Readers : PagesOfFile(r)' /\ PromiseKept(r)'
      BY <2>1 DEF TranscriptInvariant, PagesOfFile, PromiseKept
    <2> QED
      BY <2>2, <2>3, <2>4 DEF TranscriptInvariant
  <1> QED
    BY <1>1, <1>2, <1>3, <1>4, <1>5, <1>6, <1>7 DEF TranscriptNext

(* The invariant that the properties rest on. *)
THEOREM TranscriptInvariance == TranscriptSpec => []TranscriptInvariant
  <1>1. TranscriptInvariant /\ [TranscriptNext]_transcriptVars => TranscriptInvariant'
    BY TranscriptSteps
  <1> QED
    BY <1>1, TranscriptStarts, PTL DEF TranscriptSpec

(* The variables keep their types. *)
THEOREM TranscriptTypeCorrectness == TranscriptSpec => []TranscriptTypeOK
  <1>1. TranscriptInvariant => TranscriptTypeOK
    BY DEF TranscriptInvariant
  <1> QED
    BY <1>1, TranscriptInvariance, PTL

(* append(): an event whose append() returned survives a power loss. *)
THEOREM TranscriptAckedAreDurable == TranscriptSpec => []AckedAreDurable
  <1>1. TranscriptInvariant => AckedAreDurable
    BY DEF TranscriptInvariant
  <1> QED
    BY <1>1, TranscriptInvariance, PTL

LEMMA ExactByInvariant ==
    ASSUME TranscriptInvariant
    PROVE  ReadIsExact
  <1> SUFFICES ASSUME NEW r \in Readers, reader[r] = "done", result[r] # None
               PROVE  /\ \A k \in 1..promised[r] : acked[k] \in ToSet(result[r])
                      /\ \A i, j \in DOMAIN result[r] : i < j => result[r][i] < result[r][j]
                      /\ \A k \in DOMAIN acked :
                            (\E n \in ToSet(result[r]) : acked[k] < n)
                               => acked[k] \in ToSet(result[r])
    BY DEF ReadIsExact
  <1> DEFINE pages == result[r]
  <1>1. TranscriptTypeOK /\ Ordered /\ AckedAreDurable /\ PagesOfFile(r) /\ PromiseKept(r)
    BY DEF TranscriptInvariant
  <1>2. \A k \in 1..promised[r] : acked[k] \in ToSet(result[r])
    BY <1>1 DEF PromiseKept
  <1>3. /\ Len(pages) > 0 => 3 * Len(pages) - 1 <= Len(file)
        /\ \A i \in DOMAIN pages : file[3 * i - 2] = [of |-> pages[i], part |-> "beginning"]
        /\ \A p \in DOMAIN file :
              p <= 3 * Len(pages) - 2 /\ file[p].part = "beginning" =>
                 \E i \in DOMAIN pages : p = 3 * i - 2
    BY <1>1 DEF PagesOfFile
  <1>4. /\ Len(file) \in Nat /\ DOMAIN file = 1 .. Len(file)
        /\ \A k \in DOMAIN acked : acked[k] \in Nat
    BY <1>1, WriterTypes
  <1>5. /\ Len(pages) \in Nat /\ DOMAIN pages = 1 .. Len(pages)
        /\ \A i \in DOMAIN pages : pages[i] \in Nat
    <2>1. pages \in Seq(1..attempted)
      BY <1>1 DEF TranscriptTypeOK
    <2>2. attempted \in Nat
      BY <1>1, WriterTypes
    <2> QED
      BY <2>1, <2>2
  <1> HIDE DEF pages
  <1>6. \A i \in DOMAIN pages :
           3 * i - 2 \in DOMAIN file /\ 3 * i - 2 <= 3 * Len(pages) - 2
    BY <1>3, <1>4, <1>5
  <1>7. ASSUME NEW i \in DOMAIN pages, NEW j \in DOMAIN pages, i < j
        PROVE  pages[i] < pages[j]
    <2>1. 3 * i - 2 < 3 * j - 2
      BY <1>5, <1>7
    <2>2. \/ file[3 * i - 2].of < file[3 * j - 2].of
          \/ file[3 * j - 2].part # "beginning"
      BY <1>1, <1>6, <2>1 DEF Ordered
    <2>3. /\ file[3 * i - 2] = [of |-> pages[i], part |-> "beginning"]
          /\ file[3 * j - 2] = [of |-> pages[j], part |-> "beginning"]
      BY <1>3
    <2> QED
      BY <2>2, <2>3
  <1>8. ASSUME NEW k \in DOMAIN acked, NEW n \in ToSet(pages), acked[k] < n
        PROVE  acked[k] \in ToSet(pages)
    <2>1. PICK j \in DOMAIN pages : pages[j] = n
      BY DEF ToSet
    <2>2. PICK p \in DOMAIN file : file[p] = [of |-> acked[k], part |-> "beginning"]
      BY <1>1, <1>4, AckedBegins
    <2>3. file[3 * j - 2] = [of |-> n, part |-> "beginning"] /\ 3 * j - 2 \in DOMAIN file
      BY <1>3, <1>6, <2>1
    <2>4. n \in Nat /\ acked[k] \in Nat
      BY <1>4, <1>5, <2>1
    <2>5. ~(3 * j - 2 < p)
      <3> SUFFICES ASSUME 3 * j - 2 < p PROVE FALSE
        OBVIOUS
      <3>1. n < acked[k]
        BY <1>1, <2>2, <2>3 DEF Ordered
      <3> QED
        BY <1>8, <2>4, <3>1
    <2>6. p <= 3 * j - 2 /\ 3 * j - 2 <= 3 * Len(pages) - 2 /\ p \in Nat
      BY <1>4, <1>5, <1>6, <2>5
    <2>7. p <= 3 * Len(pages) - 2
      BY <1>5, <2>6
    <2>8. PICK i \in DOMAIN pages : p = 3 * i - 2
      BY <1>3, <2>2, <2>7
    <2>9. [of |-> acked[k], part |-> "beginning"] = [of |-> pages[i], part |-> "beginning"]
      BY <1>3, <2>2, <2>8, Zenon
    <2>10. acked[k] = pages[i]
      BY <2>9
    <2> QED
      BY <2>10 DEF ToSet
  <1> QED
    BY <1>2, <1>7, <1>8 DEF pages

(* read() and query(): no partial successful result. *)
THEOREM TranscriptReadIsExact == TranscriptSpec => []ReadIsExact
  <1>1. TranscriptInvariant => ReadIsExact
    BY ExactByInvariant
  <1> QED
    BY <1>1, TranscriptInvariance, PTL

LEMMA ByThrees ==
    ASSUME NEW n \in Nat
    PROVE  n \div 3 \in Nat /\ n % 3 \in {0, 1, 2} /\ n = 3 * (n \div 3) + (n % 3)
  OBVIOUS

(* The parts of one record, if one of its beginnings is in the file, are no *)
(* more than the three places from there on; so three parts are the whole   *)
(* record.                                                                  *)
LEMMA WholeFromBeginning ==
    ASSUME TranscriptTypeOK, Ordered, Chained, NEW p \in DOMAIN file,
           file[p].part = "beginning", Present(file[p].of) = 3
    PROVE  /\ p + 2 \in DOMAIN file
           /\ file[p + 1] = [of |-> file[p].of, part |-> "rest"]
           /\ file[p + 2] = [of |-> file[p].of, part |-> "newline"]
  <1> DEFINE n == file[p].of
             places == {i \in DOMAIN file : file[i].of = n}
  <1>1. /\ Len(file) \in Nat /\ DOMAIN file = 1 .. Len(file)
        /\ \A i \in DOMAIN file :
              /\ file[i].of \in Nat /\ file[i].part \in {"beginning", "rest", "newline"}
              /\ file[i] = [of |-> file[i].of, part |-> file[i].part]
    BY WriterTypes, PartTypes DEF PartOfRecord
  <1> HIDE DEF n
  <1>2. p \in Nat /\ p \in places
    BY <1>1 DEF n
  <1>3. \A i \in places : file[i].part = "beginning" => i = p
    <2> SUFFICES ASSUME NEW i \in places, file[i].part = "beginning", i # p PROVE FALSE
      OBVIOUS
    <2>1. i < p \/ p < i
      BY <1>1, <1>2
    <2> QED
      BY <1>1, <2>1 DEF Ordered, n
  <1>4. \A i \in places : file[i].part = "rest" => i = p + 1
    <2> SUFFICES ASSUME NEW i \in places, file[i].part = "rest" PROVE i = p + 1
      OBVIOUS
    <2>1. i > 1 /\ i - 1 \in DOMAIN file /\ file[i - 1] = [of |-> n, part |-> "beginning"]
      <3>1. i \in DOMAIN file /\ file[i].of = n /\ file[i].part = "rest"
        OBVIOUS
      <3>2. i > 1 /\ file[i - 1] = [of |-> n, part |-> "beginning"]
        BY <3>1 DEF Chained
      <3> QED
        BY <1>1, <3>1, <3>2
    <2>2. i - 1 \in places /\ file[i - 1].part = "beginning"
      BY <2>1
    <2>3. i - 1 = p
      BY <1>3, <2>2
    <2> QED
      BY <1>1, <2>3
  <1>5. \A i \in places : file[i].part = "newline" => i = p + 2
    <2> SUFFICES ASSUME NEW i \in places, file[i].part = "newline" PROVE i = p + 2
      OBVIOUS
    <2>1. i > 1 /\ i - 1 \in DOMAIN file /\ file[i - 1] = [of |-> n, part |-> "rest"]
      <3>1. i \in DOMAIN file /\ file[i].of = n /\ file[i].part = "newline"
        OBVIOUS
      <3>2. i > 1 /\ file[i - 1] = [of |-> n, part |-> "rest"]
        BY <3>1 DEF Chained
      <3> QED
        BY <1>1, <3>1, <3>2
    <2>2. i - 1 \in places /\ file[i - 1].part = "rest"
      BY <2>1
    <2>3. i - 1 = p + 1
      BY <1>4, <2>2
    <2> QED
      BY <1>1, <1>2, <2>3
  <1>6. Cardinality(places) = 3
    BY DEF Present, n
  <1>7. places = p .. p + 2
    <2>1. places \subseteq p .. p + 2
      <3>1. \A i \in places : i \in {p, p + 1, p + 2}
        BY <1>1, <1>3, <1>4, <1>5
      <3>2. {p, p + 1, p + 2} \subseteq p .. p + 2
        BY <1>2
      <3> QED
        BY <3>1, <3>2
    <2>2. IsFiniteSet(p .. p + 2) /\ Cardinality(p .. p + 2) = 3
      <3>1. p \in Int /\ p + 2 \in Int /\ ~(p > p + 2) /\ (p + 2) - p + 1 = 3
        BY <1>2
      <3> QED
        BY <3>1, FS_Interval
    <2> HIDE DEF places
    <2> QED
      BY <1>6, <2>1, <2>2, FS_Subset
  <1>8. p + 1 \in places /\ p + 2 \in places /\ p + 1 # p /\ p + 2 # p /\ p + 2 # p + 1
    BY <1>2, <1>7
  <1>9. file[p + 1].part = "rest"
    BY <1>1, <1>3, <1>5, <1>8
  <1>10. file[p + 2].part = "newline"
    BY <1>1, <1>3, <1>4, <1>8
  <1> QED
    BY <1>1, <1>8, <1>9, <1>10 DEF n

(* A file of whole records is valid, and has the acknowledged ones. *)
LEMMA ReadableByInvariant ==
    ASSUME TranscriptInvariant
    PROVE  ReadableUnlessTorn
  <1> SUFFICES ASSUME \A n \in 1..attempted : Present(n) \in {0, Len(Record(n))}
               PROVE  Valid(file) /\ ToSet(acked) \subseteq ToSet(Replay(file))
    BY DEF ReadableUnlessTorn
  <1>1. TranscriptTypeOK /\ Ordered /\ Chained /\ AckedAreDurable
    BY DEF TranscriptInvariant
  <1>2. /\ Len(file) \in Nat /\ DOMAIN file = 1 .. Len(file)
        /\ \A i \in DOMAIN file :
              file[i].of \in 1..attempted /\ file[i].part \in {"beginning", "rest", "newline"}
    BY <1>1, WriterTypes, PartTypes DEF PartOfRecord
  <1> DEFINE Begins(p) == p \in DOMAIN file /\ file[p].part = "beginning"
  <1>3. ASSUME NEW p, Begins(p)
        PROVE  /\ p + 2 \in DOMAIN file
               /\ file[p + 1] = [of |-> file[p].of, part |-> "rest"]
               /\ file[p + 2] = [of |-> file[p].of, part |-> "newline"]
    <2>1. Present(file[p].of) \in {0, 3}
      BY <1>2, <1>3, RecordParts
    <2>2. Present(file[p].of) # 0
      <3> DEFINE places == {i \in DOMAIN file : file[i].of = file[p].of}
      <3>1. places \subseteq 1 .. Len(file) /\ p \in places
        BY <1>2, <1>3
      <3>2. IsFiniteSet(1 .. Len(file))
        BY <1>2, FS_Interval
      <3> HIDE DEF places
      <3>3. IsFiniteSet(places)
        BY <3>1, <3>2, FS_Subset
      <3>4. Cardinality(places) # 0
        BY <3>1, <3>3, FS_EmptySet
      <3> QED
        BY <3>4 DEF places, Present
    <2> QED
      BY <1>1, <1>3, <2>1, <2>2, WholeFromBeginning
  <1> DEFINE Misplaced == {m \in Nat : 3 * m < Len(file) /\ ~Begins(3 * m + 1)}
  <1>4. Misplaced = {}
    <2> SUFFICES ASSUME Misplaced # {} PROVE FALSE
      OBVIOUS
    <2>1. PICK m \in Misplaced : \A l \in Misplaced : m <= l
      <3>1. Misplaced \subseteq Nat
        OBVIOUS
      <3> HIDE DEF Misplaced
      <3> QED
        BY <3>1, LeastNatural
    <2>2. m \in Nat /\ 3 * m + 1 \in DOMAIN file /\ file[3 * m + 1].part # "beginning"
      BY <1>2
    <2>3. /\ 3 * m + 1 > 1 /\ 3 * m \in Nat
          /\ \/ file[3 * m] = [of |-> file[3 * m + 1].of, part |-> "beginning"]
             \/ file[3 * m] = [of |-> file[3 * m + 1].of, part |-> "rest"]
      <3>1. (3 * m + 1) - 1 = 3 * m
        BY <2>2
      <3> QED
        BY <1>1, <1>2, <2>2, <3>1 DEF Chained
    <2>4. m - 1 \in Nat /\ 3 * (m - 1) < Len(file) /\ 3 * (m - 1) + 1 + 2 = 3 * m
      BY <1>2, <2>2, <2>3
    <2>5. Begins(3 * (m - 1) + 1)
      <3>1. m - 1 < m
        BY <2>2
      <3> QED
        BY <2>1, <2>4, <3>1
    <2>6. file[3 * m].part = "newline"
      <3> DEFINE p == 3 * (m - 1) + 1
      <3>1. Begins(p)
        BY <2>5
      <3> HIDE DEF Begins, p
      <3>2. file[p + 2] = [of |-> file[p].of, part |-> "newline"]
        BY <1>3, <3>1, Zenon
      <3> QED
        BY <2>4, <3>2 DEF p
    <2> QED
      BY <2>3, <2>6
  <1>5. ASSUME NEW m \in Nat, 3 * m < Len(file)
        PROVE  /\ 3 * m + 3 <= Len(file) /\ file[3 * m + 1].part = "beginning"
               /\ file[3 * m + 2] = [of |-> file[3 * m + 1].of, part |-> "rest"]
               /\ file[3 * m + 3] = [of |-> file[3 * m + 1].of, part |-> "newline"]
    <2>1. Begins(3 * m + 1)
      BY <1>4, <1>5
    <2>2. 3 * m + 1 + 2 = 3 * m + 3 /\ 3 * m + 1 + 1 = 3 * m + 2
      OBVIOUS
    <2>3. /\ 3 * m + 1 + 2 \in DOMAIN file
          /\ file[3 * m + 1 + 1] = [of |-> file[3 * m + 1].of, part |-> "rest"]
          /\ file[3 * m + 1 + 2] = [of |-> file[3 * m + 1].of, part |-> "newline"]
      <3> HIDE DEF Begins
      <3> QED
        BY <1>3, <2>1
    <2>4. 3 * m + 3 <= Len(file)
      BY <1>2, <2>2, <2>3
    <2> QED
      BY <2>1, <2>2, <2>3, <2>4
  <1> HIDE DEF Begins, Misplaced
  <1>6. Valid(file)
    <2>1. Len(file) % 3 # 1
      <3> SUFFICES ASSUME Len(file) % 3 = 1 PROVE FALSE
        OBVIOUS
      <3> DEFINE m == Len(file) \div 3
      <3>1. m \in Nat /\ Len(file) = 3 * m + 1
        BY <1>2, ByThrees
      <3> HIDE DEF m
      <3>2. 3 * m < Len(file)
        BY <3>1
      <3>3. 3 * m + 3 <= Len(file)
        BY <1>5, <3>1, <3>2
      <3> QED
        BY <3>1, <3>3
    <2>2. ASSUME NEW i \in DOMAIN file
          PROVE  /\ file[i].of = file[3 * ((i - 1) \div 3) + 1].of
                 /\ file[i].part = Parts[((i - 1) % 3) + 1]
      <3> DEFINE m == (i - 1) \div 3
                 rest == (i - 1) % 3
      <3>1. m \in Nat /\ rest \in {0, 1, 2} /\ i = 3 * m + 1 + rest /\ 3 * m < Len(file)
        <4>1. i \in Nat /\ i - 1 \in Nat /\ i <= Len(file)
          BY <1>2
        <4>2. m \in Nat /\ rest \in {0, 1, 2} /\ i - 1 = 3 * m + rest
          BY <4>1, ByThrees
        <4> HIDE DEF m, rest
        <4> QED
          BY <1>2, <4>1, <4>2
      <3> HIDE DEF m, rest
      <3>2. /\ file[3 * m + 1].part = "beginning"
            /\ file[3 * m + 2] = [of |-> file[3 * m + 1].of, part |-> "rest"]
            /\ file[3 * m + 3] = [of |-> file[3 * m + 1].of, part |-> "newline"]
        BY <1>5, <3>1
      <3>3. file[i].of = file[3 * m + 1].of /\ file[i].part = Parts[rest + 1]
        <4>1. CASE rest = 0
          BY <3>1, <3>2, <4>1, PartTypes
        <4>2. CASE rest = 1
          <5>1. i = 3 * m + 2
            BY <3>1, <4>2
          <5> QED
            BY <3>2, <4>2, <5>1, PartTypes
        <4>3. CASE rest = 2
          <5>1. i = 3 * m + 3
            BY <3>1, <4>3
          <5> QED
            BY <3>2, <4>3, <5>1, PartTypes
        <4> QED
          BY <3>1, <4>1, <4>2, <4>3
      <3> QED
        BY <3>3 DEF m, rest
    <2> QED
      BY <2>1, <2>2 DEF Valid
  <1>7. ASSUME NEW k \in DOMAIN acked PROVE acked[k] \in ToSet(Replay(file))
    <2>1. /\ Replay(file) \in Seq(1..attempted)
          /\ Len(Replay(file)) = (Len(file) + 1) \div 3
          /\ \A i \in 1 .. (Len(file) + 1) \div 3 :
                file[3 * i - 2] = [of |-> Replay(file)[i], part |-> "beginning"]
          /\ \A p \in 1 .. Len(file) : file[p].part = "beginning" =>
                \E i \in 1 .. (Len(file) + 1) \div 3 : p = 3 * i - 2
      BY <1>1, <1>6, ReplayOfValid
    <2>2. PICK p \in 1 .. Len(file) : file[p] = [of |-> acked[k], part |-> "beginning"]
      BY <1>1, AckedBegins
    <2>3. PICK i \in 1 .. (Len(file) + 1) \div 3 : p = 3 * i - 2
      BY <2>1, <2>2
    <2>4. [of |-> acked[k], part |-> "beginning"] = [of |-> Replay(file)[i], part |-> "beginning"]
      BY <2>1, <2>2, <2>3, Zenon
    <2>5. acked[k] = Replay(file)[i] /\ i \in DOMAIN Replay(file)
      BY <2>1, <2>4
    <2> QED
      BY <2>5 DEF ToSet
  <1>8. ToSet(acked) \subseteq ToSet(Replay(file))
    BY <1>7 DEF ToSet
  <1> QED
    BY <1>6, <1>8

(* A transcript becomes unreadable by a torn record only. *)
THEOREM TranscriptReadableUnlessTorn == TranscriptSpec => []ReadableUnlessTorn
  <1>1. TranscriptInvariant => ReadableUnlessTorn
    BY ReadableByInvariant
  <1> QED
    BY <1>1, TranscriptInvariance, PTL

=============================================================================
