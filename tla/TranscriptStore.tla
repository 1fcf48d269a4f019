-------------------------- MODULE TranscriptStore --------------------------
(***************************************************************************)
(* astraship.persistence.JsonlSessionStore: one transcript, the process    *)
(* that appends to it and the processes that read it (`astraship session   *)
(* replay` while `astraship run` goes on), at once or page by page with    *)
(* query().  Nothing locks the file.                                       *)
(*                                                                         *)
(* A record is three parts: the beginning of its JSON text, the rest of    *)
(* it, and the newline.  What json.loads makes of a line depends on no     *)
(* more: exactly one text is a record; the beginning alone leaves a brace  *)
(* open, whatever is appended to it, and two texts in one line are "Extra  *)
(* data".                                                                  *)
(*                                                                         *)
(* An append may fail, its process may be killed and the machine may lose  *)
(* power between any two steps; what is not synced may then be lost.  A    *)
(* file that was synced is assumed to keep its name.                       *)
(***************************************************************************)
EXTENDS Integers, Sequences, FiniteSets, SequencesExt

CONSTANTS
    Readers,
    MaxEvents,    \* a bound on the appends
    None

ASSUME TranscriptAssumption ==
    /\ MaxEvents \in Nat
    /\ None \notin 1..MaxEvents /\ None \notin Seq(1..MaxEvents)

Unlimited == MaxEvents + 1   \* a limit of None

Parts == <<"beginning", "rest", "newline">>

(* Fault: the line is not terminated. *)
RecordUnterminated(n) == [i \in 1..2 |-> [of |-> n, part |-> Parts[i]]]

Record(n) == [i \in 1..3 |-> [of |-> n, part |-> Parts[i]]]

VARIABLES
    file,        \* the parts that a reader of the file sees
    synced,      \* the length of the prefix that survives a power loss
    attempted,   \* the number of events that append() was called with
    appending,   \* the event of the append() that runs
    written,     \* the number of its parts that are in the file
    acked,       \* the events whose append() returned
    reader,      \* whether query() runs
    limit,       \* the limit of its page
    got,         \* the number of parts that its read() read
    promised,    \* how many acknowledged events the pages are to have
    result       \* the events of the pages so far, None if query() raised

writerVars == <<attempted, appending, written, acked>>
readerVars == <<reader, limit, got, promised, result>>
transcriptVars == <<file, synced, writerVars, readerVars>>

TranscriptInit ==
    /\ file = <<>> /\ synced = 0
    /\ attempted = 0 /\ appending = None /\ written = 0
    /\ acked = <<>>
    /\ reader = [r \in Readers |-> "idle"]
    /\ limit = [r \in Readers |-> Unlimited]
    /\ got = [r \in Readers |-> 0]
    /\ promised = [r \in Readers |-> 0]
    /\ result = [r \in Readers |-> None]

-----------------------------------------------------------------------------
(* append() *)

(* Fault: the file is opened for writing, not for appending. *)
AppendTruncates ==
    /\ appending = None
    /\ attempted < MaxEvents
    /\ attempted' = attempted + 1
    /\ appending' = attempted'
    /\ file' = <<>>
    /\ UNCHANGED <<synced, written, acked, readerVars>>

(* The record is encoded and the file opened. *)
BeginAppend ==
    /\ appending = None
    /\ attempted < MaxEvents
    /\ attempted' = attempted + 1
    /\ appending' = attempted'
    /\ UNCHANGED <<file, synced, written, acked, readerVars>>

(* flush(): one system call, or several if the first takes less. *)
Write ==
    /\ appending # None
    /\ \E k \in written + 1 .. Len(Record(appending)) :
          /\ file' = file \o SubSeq(Record(appending), written + 1, k)
          /\ written' = k
    /\ UNCHANGED <<synced, attempted, appending, acked, readerVars>>

EndAppend ==
    /\ appending' = None
    /\ written' = 0
    /\ UNCHANGED <<file, attempted, readerVars>>

(* Fault: append() returns without fsync(). *)
AcknowledgeUnsynced ==
    /\ appending # None
    /\ written = Len(Record(appending))
    /\ acked' = Append(acked, appending)
    /\ UNCHANGED synced
    /\ EndAppend

(* fsync(), and the return: a crash between the two is one in which the    *)
(* power loss keeps what was written.                                      *)
Acknowledge ==
    /\ appending # None
    /\ written = Len(Record(appending))
    /\ synced' = Len(file)
    /\ acked' = Append(acked, appending)
    /\ EndAppend

(* append() raises, or the process is killed and started again: what was   *)
(* written stays in the file.                                              *)
Abandon ==
    /\ appending # None
    /\ UNCHANGED <<synced, acked>>
    /\ EndAppend

(* Every process ends; the file keeps at least what was synced. *)
PowerLoss ==
    /\ \E n \in synced .. Len(file) :
          /\ file' = SubSeq(file, 1, n)
          /\ synced' = n
    /\ appending' = None
    /\ written' = 0
    /\ reader' = [r \in Readers |-> "idle"]
    /\ limit' = [r \in Readers |-> Unlimited]
    /\ got' = [r \in Readers |-> 0]
    /\ result' = [r \in Readers |-> None]
    /\ promised' = [r \in Readers |-> 0]
    /\ UNCHANGED <<attempted, acked>>

-----------------------------------------------------------------------------
(* read() *)

(* Every line is one record; the last one may lack its newline. *)
Valid(parts) ==
    /\ Len(parts) % 3 # 1
    /\ \A i \in DOMAIN parts :
          /\ parts[i].of = parts[3 * ((i - 1) \div 3) + 1].of
          /\ parts[i].part = Parts[((i - 1) % 3) + 1]

(* The events of valid lines. *)
Replay(parts) == [i \in 1 .. (Len(parts) + 1) \div 3 |-> parts[3 * i - 2].of]

(* Fault: a transcript ends at its first bad line. *)
ReadAllLenient(parts) ==
    LET n == CHOOSE n \in 0 .. Len(parts) :
                /\ Valid(SubSeq(parts, 1, n))
                /\ \A m \in n + 1 .. Len(parts) : ~Valid(SubSeq(parts, 1, m))
    IN  Replay(SubSeq(parts, 1, n))

(* What read() returns, None if it raises. *)
ReadAll(parts) == IF Valid(parts) THEN Replay(parts) ELSE None

(* query() is called for the first page, or for the next one, with the     *)
(* number of the events so far as its offset; without a limit, and an      *)
(* offset of 0, it is read().                                              *)
Open(r) ==
    /\ reader[r] # "reading"
    /\ reader' = [reader EXCEPT ![r] = "reading"]
    /\ \E l \in {1, Unlimited} : limit' = [limit EXCEPT ![r] = l]
    /\ got' = [got EXCEPT ![r] = 0]
    /\ promised' = [promised EXCEPT ![r] = Len(acked)]
    /\ \/ result' = [result EXCEPT ![r] = <<>>]
       \/ result[r] # None /\ UNCHANGED result
    /\ UNCHANGED <<file, synced, writerVars>>

(* list(stream) gets as much as there is, or a buffer of it. *)
ReadChunk(r) ==
    /\ reader[r] = "reading"
    /\ \E n \in got[r] + 1 .. Len(file) : got' = [got EXCEPT ![r] = n]
    /\ UNCHANGED <<file, synced, writerVars, reader, limit, promised, result>>

(* At the end of the file the lines are parsed, and one that is no record  *)
(* makes query() raise.  A page that is full promises nothing of the rest. *)
Finish(r) ==
    LET offset == Len(result[r])
        events == ReadAll(file)
        upto == IF offset + limit[r] < Len(events) THEN offset + limit[r] ELSE Len(events)
    IN  /\ reader[r] = "reading"
        /\ got[r] = Len(file)
        /\ reader' = [reader EXCEPT ![r] = "done"]
        /\ \/ /\ events = None
              /\ result' = [result EXCEPT ![r] = None]
              /\ UNCHANGED promised
           \/ /\ events # None
              /\ result' = [result EXCEPT ![r] = @ \o SubSeq(events, offset + 1, upto)]
              /\ promised' = [promised EXCEPT ![r] =
                                IF upto = offset + limit[r] THEN 0 ELSE @]
        /\ UNCHANGED <<file, synced, writerVars, limit, got>>

-----------------------------------------------------------------------------
TranscriptNext ==
    \/ BeginAppend \/ Write \/ Acknowledge \/ Abandon \/ PowerLoss
    \/ \E r \in Readers : Open(r) \/ ReadChunk(r) \/ Finish(r)

TranscriptSpec == TranscriptInit /\ [][TranscriptNext]_transcriptVars

-----------------------------------------------------------------------------
(* The types of the variables; nothing but a power loss shortens the file. *)
TranscriptTypeOK ==
    /\ file \in Seq([of : 1..attempted, part : ToSet(Parts)])
    /\ synced \in 0 .. Len(file)
    /\ attempted \in 0..MaxEvents
    /\ appending \in {None} \cup 1..attempted
    /\ written \in 0..3
    /\ acked \in Seq(1..attempted)
    /\ reader \in [Readers -> {"idle", "reading", "done"}]
    /\ limit \in [Readers -> {1, Unlimited}]
    /\ got \in [Readers -> 0 .. Len(file)]
    /\ promised \in [Readers -> 0 .. Len(acked)]
    /\ result \in [Readers -> {None} \cup Seq(1..attempted)]

(* An event whose append() returned is in the part of the file that        *)
(* survives a power loss, whole and in one piece, whatever failed before   *)
(* or after it.                                                            *)
AckedAreDurable ==
    \A k \in DOMAIN acked :
        \E i \in 0 .. synced - 3 : SubSeq(file, i + 1, i + 3) = Record(acked[k])

(* "Callers never receive a partial successful result": a read() that      *)
(* returns has every event that was acknowledged when it began, has the    *)
(* events in the order of their appends and none of them twice, and leaves *)
(* out no acknowledged event before the last one it has.  So do pages that *)
(* are read one after the other while the transcript grows, the last of    *)
(* them not full.                                                          *)
ReadIsExact ==
    \A r \in Readers : reader[r] = "done" /\ result[r] # None =>
        LET seen == ToSet(result[r]) IN
        /\ \A k \in 1..promised[r] : acked[k] \in seen
        /\ \A i, j \in DOMAIN result[r] : i < j => result[r][i] < result[r][j]
        /\ \A k \in DOMAIN acked :
              (\E n \in seen : acked[k] < n) => acked[k] \in seen

(* The number of parts of a record that are in the file. *)
Present(n) == Cardinality({i \in DOMAIN file : file[i].of = n})

(* A transcript becomes unreadable by a torn record only: as long as every *)
(* append left all of its record or nothing, read() returns, with every    *)
(* acknowledged event, and an append that failed before it wrote, or after *)
(* it wrote everything, harms nothing.                                     *)
ReadableUnlessTorn ==
    (\A n \in 1..attempted : Present(n) \in {0, Len(Record(n))}) =>
        Valid(file) /\ ToSet(acked) \subseteq ToSet(Replay(file))

=============================================================================
