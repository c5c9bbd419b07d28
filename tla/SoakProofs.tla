------------------------------ MODULE SoakProofs ------------------------------
(***************************************************************************)
(* Proofs about the soak journal and the driver that runs observers on it: *)
(* the file stays a chain that can be replayed whatever fails or dies, and *)
(* the driver's checkpoint never leads the ledger.                         *)
(***************************************************************************)
EXTENDS SoakDriver, SequenceTheorems, FiniteSetTheorems, TLAPS

-----------------------------------------------------------------------------
(***************************************************************************)
(* Appending to a journal.                                                 *)
(***************************************************************************)

Kind == {"START", "SAMPLE", "ERROR", "STOP", "TORN"}
Link == {ZERO} \union (Nat \X Kind \X Nat)
Line == [sequence : Nat, previous : Link, kind : Kind, session : Nat]

LEMMA TornLine == Torn \in Line /\ Torn.kind = "TORN"
BY JournalAssumption DEF Torn, Line, Link, Kind, NoSession

LEMMA DigestLink == \A record \in Line : digest(record) \in Link
BY DEF digest, Line, Link

LEMMA SubSequence ==
    ASSUME NEW S, NEW s \in Seq(S), NEW n \in 0..Len(s)
    PROVE  /\ SubSeq(s, 1, n) \in Seq(S)
           /\ Len(SubSeq(s, 1, n)) = n
           /\ \A i \in 1..n : SubSeq(s, 1, n)[i] = s[i]
<1>1. \A i \in 1..n : s[i] \in S
  BY ElementOfSeq, LenProperties
<1>2. n \in Int /\ 1 \in Int
  BY LenProperties
<1>3. /\ SubSeq(s, 1, n) \in Seq(S)
      /\ Len(SubSeq(s, 1, n)) = IF 1 <= n THEN n - 1 + 1 ELSE 0
      /\ \A i \in 1..(n - 1 + 1) : SubSeq(s, 1, n)[i] = s[1 + i - 1]
  BY <1>1, <1>2, SubSeqProperties
<1> QED BY <1>2, <1>3

LEMMA Appended ==
    ASSUME NEW S, NEW s \in Seq(S), NEW e \in S
    PROVE  /\ Append(s, e) \in Seq(S)
           /\ Len(s) \in Nat /\ DOMAIN s = 1..Len(s)
           /\ Len(Append(s, e)) = Len(s) + 1
           /\ DOMAIN Append(s, e) = 1..(Len(s) + 1)
           /\ Append(s, e) # <<>>
           /\ Append(s, e)[Len(s) + 1] = e
           /\ \A i \in 1..Len(s) : Append(s, e)[i] = s[i]
           /\ \A n \in 0..Len(s) : SubSeq(Append(s, e), 1, n) = SubSeq(s, 1, n)
           /\ SubSeq(s, 1, Len(s)) = s
<1>1. /\ Append(s, e) \in Seq(S)
      /\ Len(s) \in Nat /\ DOMAIN s = 1..Len(s)
      /\ Len(Append(s, e)) = Len(s) + 1
      /\ DOMAIN Append(s, e) = 1..(Len(s) + 1)
      /\ Append(s, e)[Len(s) + 1] = e
      /\ \A i \in 1..Len(s) : Append(s, e)[i] = s[i]
  OBVIOUS
<1>2. Append(s, e) # <<>>
  BY <1>1, EmptySeq
<1>3. ASSUME NEW n \in 0..Len(s)
      PROVE  SubSeq(Append(s, e), 1, n) = SubSeq(s, 1, n)
  <2>1. n \in 0..Len(Append(s, e))
    BY <1>1
  <2>2. /\ SubSeq(s, 1, n) \in Seq(S) /\ Len(SubSeq(s, 1, n)) = n
        /\ \A i \in 1..n : SubSeq(s, 1, n)[i] = s[i]
    BY SubSequence
  <2>3. /\ SubSeq(Append(s, e), 1, n) \in Seq(S) /\ Len(SubSeq(Append(s, e), 1, n)) = n
        /\ \A i \in 1..n : SubSeq(Append(s, e), 1, n)[i] = Append(s, e)[i]
    BY <1>1, <2>1, SubSequence
  <2>4. \A i \in 1..n : SubSeq(Append(s, e), 1, n)[i] = SubSeq(s, 1, n)[i]
    BY <1>1, <2>2, <2>3
  <2> QED BY <2>2, <2>3, <2>4, SeqEqual
<1>4. SubSeq(s, 1, Len(s)) = s
  <2>1. /\ SubSeq(s, 1, Len(s)) \in Seq(S) /\ Len(SubSeq(s, 1, Len(s))) = Len(s)
        /\ \A i \in 1..Len(s) : SubSeq(s, 1, Len(s))[i] = s[i]
    BY <1>1, SubSequence
  <2> QED BY <2>1, SeqEqual
<1> QED BY <1>1, <1>2, <1>3, <1>4

(* Replaying one line more is replaying the lines before it and accepting  *)
(* it: Journal.accept only looks back.                                     *)
LEMMA ReplaysAppend ==
    ASSUME NEW lines \in Seq(Line), NEW record \in Line
    PROVE  replays(Append(lines, record)) <=> replays(lines) /\ accepted(lines, record)
<1> DEFINE more == Append(lines, record)
<1>1. /\ Len(lines) \in Nat /\ DOMAIN lines = 1..Len(lines)
      /\ DOMAIN more = 1..(Len(lines) + 1)
      /\ more[Len(lines) + 1] = record
      /\ \A i \in 1..Len(lines) : more[i] = lines[i]
      /\ \A n \in 0..Len(lines) : SubSeq(more, 1, n) = SubSeq(lines, 1, n)
      /\ SubSeq(lines, 1, Len(lines)) = lines
  BY Appended
<1> HIDE DEF more
<1>2. \A i \in 1..Len(lines) : SubSeq(more, 1, i - 1) = SubSeq(lines, 1, i - 1)
  BY <1>1
<1>3. SubSeq(more, 1, (Len(lines) + 1) - 1) = lines
  BY <1>1
<1>4. replays(more) <=>
        /\ \A i \in 1..Len(lines) : accepted(SubSeq(lines, 1, i - 1), lines[i])
        /\ accepted(lines, record)
  <2>1. replays(more) <=>
          /\ \A i \in 1..Len(lines) : accepted(SubSeq(more, 1, i - 1), more[i])
          /\ accepted(SubSeq(more, 1, (Len(lines) + 1) - 1), more[Len(lines) + 1])
    <3>1. DOMAIN more = 1..Len(lines) \union {Len(lines) + 1}
      BY <1>1
    <3> QED BY <3>1 DEF replays
  <2> QED BY <1>1, <1>2, <1>3, <2>1
<1> QED BY <1>1, <1>4 DEF replays, more

LEMMA StartsFinite ==
    ASSUME NEW lines \in Seq(Line)
    PROVE  /\ starts(lines) \subseteq 1..Len(lines)
           /\ IsFiniteSet(starts(lines)) /\ Cardinality(starts(lines)) \in Nat
<1>1. Len(lines) \in Nat /\ DOMAIN lines = 1..Len(lines)
  OBVIOUS
<1>2. starts(lines) \subseteq 1..Len(lines)
  BY <1>1 DEF starts
<1>3. IsFiniteSet(starts(lines))
  <2>1. IsFiniteSet(1..Len(lines))
    BY <1>1, FS_Interval
  <2> QED BY <1>2, <2>1, FS_Subset
<1> QED BY <1>2, <1>3, FS_CardinalityType

(* A START opens its session; a sample or a recorded refusal leaves the    *)
(* open session as it is.                                                  *)
LEMMA StartsAppend ==
    ASSUME NEW lines \in Seq(Line), NEW record \in Line
    PROVE  starts(Append(lines, record)) =
             IF record.kind = "START" THEN starts(lines) \union {Len(lines) + 1}
             ELSE starts(lines)
<1>1. /\ Len(lines) \in Nat /\ DOMAIN lines = 1..Len(lines)
      /\ DOMAIN Append(lines, record) = 1..Len(lines) \union {Len(lines) + 1}
      /\ Append(lines, record)[Len(lines) + 1] = record
      /\ \A i \in 1..Len(lines) : Append(lines, record)[i] = lines[i]
  BY Appended
<1> HIDE DEF Line
<1> QED BY <1>1 DEF starts

OpenStarts(lines) ==
    {i \in starts(lines) :
        \A j \in (i + 1)..Len(lines) : lines[j].kind \notin {"START", "STOP"}}

LEMMA ActiveUnfolds ==
    \A lines : active_session(lines) =
        IF OpenStarts(lines) = {} THEN NoSession
        ELSE lines[CHOOSE i \in OpenStarts(lines) : TRUE].session
BY DEF active_session, OpenStarts

LEMMA StartOpens ==
    ASSUME NEW lines \in Seq(Line), NEW record \in Line, record.kind = "START"
    PROVE  active_session(Append(lines, record)) = record.session
<1> DEFINE more == Append(lines, record)
           n == Len(lines)
<1>1. /\ n \in Nat /\ Len(more) = n + 1 /\ more[n + 1] = record
  BY Appended
<1>2. starts(more) = starts(lines) \union {n + 1} /\ starts(lines) \subseteq 1..n
  BY StartsAppend, StartsFinite
<1> HIDE DEF more, n
<1>3. \A i \in starts(lines) : i \notin OpenStarts(more)
  <2> SUFFICES ASSUME NEW i \in starts(lines), i \in OpenStarts(more) PROVE FALSE
    OBVIOUS
  <2>1. i \in 1..n /\ n + 1 \in (i + 1)..Len(more)
    BY <1>1, <1>2
  <2>2. more[n + 1].kind \notin {"START", "STOP"}
    BY <2>1 DEF OpenStarts
  <2> QED BY <1>1, <2>2
<1>4. n + 1 \in OpenStarts(more)
  <2>1. (n + 1 + 1)..Len(more) = {}
    BY <1>1
  <2> QED BY <1>2, <2>1 DEF OpenStarts
<1>5. OpenStarts(more) = {n + 1}
  BY <1>2, <1>3, <1>4 DEF OpenStarts
<1>6. active_session(more) = more[n + 1].session
  BY <1>5, ActiveUnfolds
<1> QED BY <1>1, <1>6 DEF more

LEMMA ObservationKeepsOpen ==
    ASSUME NEW lines \in Seq(Line), NEW record \in Line,
           record.kind \notin {"START", "STOP"}
    PROVE  active_session(Append(lines, record)) = active_session(lines)
<1> DEFINE more == Append(lines, record)
           n == Len(lines)
<1>1. /\ n \in Nat /\ Len(more) = n + 1 /\ more[n + 1] = record
      /\ \A i \in 1..n : more[i] = lines[i]
  BY Appended
<1>2. starts(more) = starts(lines) /\ starts(lines) \subseteq 1..n
  BY StartsAppend, StartsFinite
<1>3. n = Len(lines)
  OBVIOUS
<1> HIDE DEF more, n
<1>4. ASSUME NEW i \in 1..n
      PROVE  (\A j \in (i + 1)..Len(more) : more[j].kind \notin {"START", "STOP"})
               <=> (\A j \in (i + 1)..n : lines[j].kind \notin {"START", "STOP"})
  <2>1. (i + 1)..Len(more) = ((i + 1)..n) \union {n + 1}
    BY <1>1
  <2>2. \A j \in (i + 1)..n : more[j] = lines[j]
    BY <1>1
  <2> QED BY <1>1, <2>1, <2>2
<1>5. OpenStarts(more) = OpenStarts(lines)
  BY <1>2, <1>3, <1>4 DEF OpenStarts
<1>6. \A i \in OpenStarts(lines) : more[i] = lines[i]
  BY <1>1, <1>2 DEF OpenStarts
<1>7. active_session(more) = active_session(lines)
  <2>1. CASE OpenStarts(lines) = {}
    BY <1>5, <2>1, ActiveUnfolds
  <2>2. CASE OpenStarts(lines) # {}
    <3>1. (CHOOSE i \in OpenStarts(lines) : TRUE) \in OpenStarts(lines)
      BY <2>2
    <3> QED BY <1>5, <1>6, <2>2, <3>1, ActiveUnfolds
  <2> QED BY <2>1, <2>2
<1> QED BY <1>7 DEF more

-----------------------------------------------------------------------------
(***************************************************************************)
(* The journal.  Sessions are numbered as they start, so that a fresh one  *)
(* is fresh; and the observer that holds the lock remembers the end of the *)
(* file and the open session, until a write of its own has failed.         *)
(***************************************************************************)

Mind == [stage : {"ended", "replayed", "observing", "stopping"}, head : Link,
         count : Nat, session : Nat, broken : BOOLEAN, ok : BOOLEAN]

cut(lines) == lines # <<>> /\ lines[Len(lines)] = Torn

\* The lines that replay, once a cut one at the end has been set aside.
whole(lines) == IF cut(lines) THEN SubSeq(lines, 1, Len(lines) - 1) ELSE lines

Numbered(lines) ==
    \A i \in starts(lines) : lines[i].session <= Cardinality(starts(lines))

Current(mind, lines) ==
    /\ replays(lines) /\ Numbered(lines)
    /\ mind.head = last_head(lines)
    /\ mind.count = Len(lines)
    /\ mind.session # NoSession
    /\ mind.session = IF mind.stage = "replayed"
                      THEN Cardinality(starts(lines)) + 1
                      ELSE active_session(lines)

JInv ==
    /\ journal \in Seq(Line)
    /\ memory \in [Observer -> Mind]
    /\ replays(whole(journal))
    /\ Numbered(whole(journal))
    /\ \A o \in Observer : memory[o].stage # "ended" =>
         /\ writer = o
         /\ memory[o].broken \/ Current(memory[o], journal)

LEMMA IntactFollows == JInv => JournalIntact
BY DEF JInv, JournalIntact, whole, cut, Current

LEMMA WholeJournals ==
    ASSUME NEW lines \in Seq(Line), replays(lines)
    PROVE  whole(lines) = lines /\ whole(Append(lines, Torn)) = lines
<1>1. whole(lines) = lines
  <2> SUFFICES ASSUME lines # <<>>, lines[Len(lines)] = Torn PROVE FALSE
    BY DEF whole, cut
  <2>1. Len(lines) \in DOMAIN lines
    BY LenProperties, EmptySeq
  <2> QED BY <2>1, TornLine DEF replays, accepted
<1>2. whole(Append(lines, Torn)) = lines
  <2>1. /\ Append(lines, Torn) # <<>>
        /\ Len(Append(lines, Torn)) = Len(lines) + 1 /\ Len(lines) \in Nat
        /\ Append(lines, Torn)[Len(lines) + 1] = Torn
        /\ SubSeq(Append(lines, Torn), 1, Len(lines)) = lines
    BY TornLine, Appended
  <2>2. Len(Append(lines, Torn)) - 1 = Len(lines)
    BY <2>1
  <2> QED BY <2>1, <2>2 DEF whole, cut
<1> QED BY <1>1, <1>2

(* The record an observer writes next extends the chain, and what it then  *)
(* remembers is again the end of it.                                       *)
LEMMA RecordExtends ==
    ASSUME NEW mind \in Mind, NEW lines \in Seq(Line), Current(mind, lines),
           NEW kind \in Kind \ {"TORN"}, mind.stage = "replayed" <=> kind = "START"
    PROVE  LET record == record_of(mind, kind)
               more == Append(lines, record)
           IN /\ record \in Line
              /\ replays(more) /\ Numbered(more)
              /\ digest(record) = last_head(more)
              /\ mind.count + 1 = Len(more)
              /\ kind # "STOP" => mind.session = active_session(more)
<1> DEFINE record == record_of(mind, kind)
           more == Append(lines, record)
<1>1. /\ mind.head \in Link /\ mind.count \in Nat /\ mind.session \in Nat
      /\ mind.session # NoSession
      /\ mind.head = last_head(lines) /\ mind.count = Len(lines)
      /\ replays(lines) /\ Numbered(lines)
  BY DEF Mind, Current
<1>2. /\ record.sequence = mind.count /\ record.previous = mind.head
      /\ record.kind = kind /\ record.session = mind.session
      /\ record \in Line
  BY <1>1 DEF record_of, Line
<1>3. /\ Cardinality(starts(lines)) \in Nat /\ IsFiniteSet(starts(lines))
      /\ starts(lines) \subseteq 1..Len(lines)
  BY StartsFinite
<1>4. /\ more # <<>> /\ Len(lines) \in Nat /\ Len(more) = Len(lines) + 1
      /\ more[Len(lines) + 1] = record
      /\ \A i \in 1..Len(lines) : more[i] = lines[i]
  BY <1>2, Appended
<1>5. starts(more) = IF kind = "START" THEN starts(lines) \union {Len(lines) + 1}
                     ELSE starts(lines)
  BY <1>2, StartsAppend
<1>6. kind = "START" => active_session(more) = mind.session
  BY <1>2, StartOpens
<1>7. kind \notin {"START", "STOP"} => active_session(more) = active_session(lines)
  BY <1>2, ObservationKeepsOpen
<1>8. /\ kind = "START" => mind.session = Cardinality(starts(lines)) + 1
      /\ kind # "START" => mind.session = active_session(lines)
  BY DEF Current
<1>9. \A i \in starts(lines) : lines[i].session \in Nat
  <2> SUFFICES ASSUME NEW i \in starts(lines) PROVE lines[i].session \in Nat
    OBVIOUS
  <2>1. lines[i] \in Line
    BY <1>3, ElementOfSeq
  <2> QED BY <2>1 DEF Line
<1>10. replays(lines) /\ accepted(lines, record) => replays(more)
  BY <1>2, ReplaysAppend
<1> HIDE DEF record, more
<1>11. replays(more)
  <2>1. CASE kind = "START"
    <3>1. \A i \in starts(lines) : lines[i].session # record.session
      BY <1>1, <1>2, <1>3, <1>8, <1>9, <2>1 DEF Numbered
    <3> QED BY <1>1, <1>2, <1>10, <2>1, <3>1 DEF accepted
  <2>2. CASE kind # "START"
    BY <1>1, <1>2, <1>8, <1>10, <2>2 DEF accepted
  <2> QED BY <2>1, <2>2
<1>12. Numbered(more)
  <2>1. CASE kind = "START"
    <3>1. Cardinality(starts(more)) = Cardinality(starts(lines)) + 1
      <4>1. Len(lines) + 1 \notin starts(lines)
        BY <1>3, <1>4
      <4> QED BY <1>3, <1>5, <2>1, <4>1, FS_AddElement
    <3>2. ASSUME NEW i \in starts(lines)
          PROVE  more[i].session <= Cardinality(starts(more))
      BY <1>1, <1>3, <1>4, <1>9, <3>1 DEF Numbered
    <3>3. more[Len(lines) + 1].session <= Cardinality(starts(more))
      BY <1>1, <1>2, <1>3, <1>4, <1>8, <2>1, <3>1
    <3> QED BY <1>5, <2>1, <3>2, <3>3 DEF Numbered
  <2>2. CASE kind # "START"
    BY <1>1, <1>3, <1>4, <1>5, <2>2 DEF Numbered
  <2> QED BY <2>1, <2>2
<1>13. digest(record) = last_head(more)
  BY <1>4 DEF last_head
<1>14. kind # "STOP" => mind.session = active_session(more)
  BY <1>6, <1>7, <1>8
<1>15. mind.count + 1 = Len(more)
  BY <1>1, <1>4
<1> QED BY <1>2, <1>11, <1>12, <1>13, <1>14, <1>15 DEF more, record

(* One observer at a time holds the lock: a step of o has only to keep     *)
(* what concerns the file and o.                                           *)
LEMMA OneWrites ==
    ASSUME JInv, NEW o \in Observer, writer \in {o, Nobody},
           NEW mind \in Mind, memory' = [memory EXCEPT ![o] = mind],
           journal' \in Seq(Line),
           replays(whole(journal')), Numbered(whole(journal')),
           mind.stage # "ended" =>
             writer' = o /\ (mind.broken \/ Current(mind, journal'))
    PROVE  JInv'
<1>1. \A other \in Observer \ {o} : memory'[other] = memory[other]
                                      /\ memory[other].stage = "ended"
  BY JournalAssumption DEF JInv
<1>2. memory'[o] = mind /\ memory' \in [Observer -> Mind]
  BY DEF JInv
<1> QED BY <1>1, <1>2 DEF JInv

(* What an observer that still runs knows of the file.                     *)
LEMMA ActiveFacts ==
    ASSUME JInv, NEW o \in Observer, memory[o].stage # "ended"
    PROVE  /\ memory[o] \in Mind /\ writer = o
           /\ ~memory[o].broken =>
                /\ Current(memory[o], journal)
                /\ whole(journal) = journal /\ whole(Append(journal, Torn)) = journal
BY WholeJournals DEF JInv, Current

(* The next record a mind may write, by its stage.                         *)
Fits(mind, kind) ==
    /\ kind \in Kind \ {"TORN"}
    /\ mind.stage = "replayed" <=> kind = "START"

LEMMA WrittenKeeps ==
    ASSUME JInv, NEW o \in Observer, memory[o].stage # "ended",
           NEW kind, Fits(memory[o], kind),
           NEW stage \in {"observing", "ended"}, stage = "observing" => kind # "STOP",
           NEW ok \in BOOLEAN, Written(o, kind, stage, ok),
           stage # "ended" => writer' = writer
    PROVE  JInv'
<1> DEFINE m == memory[o]
           record == record_of(m, kind)
           mind == [m EXCEPT !.stage = stage, !.ok = ok,
                             !.head = digest(record), !.count = @ + 1]
<1>1. /\ m \in Mind /\ writer = o /\ ~m.broken /\ Current(m, journal)
      /\ journal \in Seq(Line)
  BY ActiveFacts DEF Written, may_append, JInv
<1>2. /\ record \in Line
      /\ replays(Append(journal, record)) /\ Numbered(Append(journal, record))
      /\ digest(record) = last_head(Append(journal, record))
      /\ m.count + 1 = Len(Append(journal, record))
      /\ kind # "STOP" => m.session = active_session(Append(journal, record))
  BY <1>1, RecordExtends DEF Fits
<1>3. /\ journal' = Append(journal, record)
      /\ memory' = [memory EXCEPT ![o] = mind]
  BY DEF Written
<1>4. journal' \in Seq(Line) /\ whole(journal') = journal'
  <2> HIDE DEF record, mind
  <2>1. Append(journal, record) \in Seq(Line)
    BY <1>1, <1>2
  <2> QED BY <1>2, <1>3, <2>1, WholeJournals
<1>5. /\ mind \in Mind /\ mind.stage = stage
      /\ mind.head = digest(record) /\ mind.count = m.count + 1
      /\ mind.session = m.session /\ mind.session # NoSession
  <2>1. digest(record) \in Link /\ m.count + 1 \in Nat
    BY <1>1, <1>2, DigestLink DEF Mind
  <2> HIDE DEF record
  <2> QED BY <1>1, <2>1 DEF Mind, Current
<1> HIDE DEF mind, record
<1>6. stage # "ended" => Current(mind, journal')
  BY <1>2, <1>3, <1>5 DEF Current
<1> QED BY <1>1, <1>2, <1>3, <1>4, <1>5, <1>6, OneWrites

LEMMA FailureKeeps ==
    ASSUME JInv, NEW o \in Observer, memory[o].stage # "ended",
           NEW kind, Fits(memory[o], kind),
           NEW stage \in {"stopping", "ended"}, WriteFails(o, kind, stage),
           stage # "ended" => writer' = writer
    PROVE  JInv'
<1> DEFINE m == memory[o]
           record == record_of(m, kind)
           mind == [m EXCEPT !.stage = stage, !.broken = TRUE, !.ok = FALSE]
<1>1. /\ m \in Mind /\ writer = o /\ ~m.broken /\ Current(m, journal)
      /\ journal \in Seq(Line)
      /\ whole(journal) = journal /\ whole(Append(journal, Torn)) = journal
  BY ActiveFacts DEF WriteFails, may_append, JInv
<1>2. /\ record \in Line
      /\ replays(Append(journal, record)) /\ Numbered(Append(journal, record))
  BY <1>1, RecordExtends DEF Fits
<1>3. /\ journal' \in {journal, Append(journal, Torn), Append(journal, record)}
      /\ memory' = [memory EXCEPT ![o] = mind]
  BY DEF WriteFails
<1>4. mind \in Mind /\ mind.stage = stage /\ mind.broken
  BY <1>1 DEF Mind
<1> HIDE DEF mind, record
<1>5. journal' \in Seq(Line)
  BY <1>1, <1>2, <1>3, TornLine
<1>6. replays(whole(journal')) /\ Numbered(whole(journal'))
  <2>1. replays(journal) /\ Numbered(journal)
    BY <1>1 DEF Current
  <2>2. Append(journal, record) \in Seq(Line)
    BY <1>1, <1>2
  <2>3. whole(Append(journal, record)) = Append(journal, record)
    BY <1>2, <2>2, WholeJournals
  <2> QED BY <1>1, <1>2, <1>3, <2>1, <2>3
<1> QED BY <1>1, <1>3, <1>4, <1>5, <1>6, OneWrites

(* Leaving the loop, and ending without a STOP, writes nothing.            *)
LEMMA PauseKeeps ==
    ASSUME JInv, NEW o \in Observer,
           memory[o].stage \in {"observing", "stopping"},
           NEW stage \in {"stopping", "ended"}, NEW ok \in BOOLEAN,
           memory' = [memory EXCEPT ![o].stage = stage, ![o].ok = ok],
           journal' = journal, stage # "ended" => writer' = writer
    PROVE  JInv'
<1> DEFINE m == memory[o]
           mind == [m EXCEPT !.stage = stage, !.ok = ok]
<1>1. /\ m \in Mind /\ writer = o /\ (m.broken \/ Current(m, journal))
      /\ journal \in Seq(Line)
      /\ replays(whole(journal)) /\ Numbered(whole(journal))
  BY ActiveFacts DEF JInv
<1>2. memory' = [memory EXCEPT ![o] = mind]
  OBVIOUS
<1>3. /\ mind \in Mind /\ mind.stage = stage /\ mind.broken = m.broken
      /\ mind.head = m.head /\ mind.count = m.count /\ mind.session = m.session
  BY <1>1 DEF Mind
<1> HIDE DEF mind
<1>4. stage # "ended" /\ ~m.broken => Current(mind, journal')
  BY <1>1, <1>3 DEF Current
<1> QED BY <1>1, <1>2, <1>3, <1>4, OneWrites

LEMMA OpenKeeps ==
    ASSUME JInv, NEW o \in Observer, NEW expected, Open(o, expected)
    PROVE  JInv'
<1> DEFINE mind == [stage |-> "replayed", head |-> last_head(journal),
                    count |-> Len(journal),
                    session |-> Cardinality(starts(journal)) + 1,
                    broken |-> FALSE, ok |-> TRUE]
<1>1. /\ journal \in Seq(Line) /\ replays(journal)
      /\ writer = Nobody /\ writer' = o /\ journal' = journal
      /\ memory' = [memory EXCEPT ![o] = mind]
  BY DEF JInv, Open
<1>2. whole(journal) = journal /\ replays(whole(journal)) /\ Numbered(whole(journal))
  BY <1>1, WholeJournals DEF JInv
<1>3. Cardinality(starts(journal)) \in Nat /\ Len(journal) \in Nat
  BY <1>1, StartsFinite, LenProperties
<1>4. last_head(journal) \in Link
  <2>1. CASE journal = <<>>
    BY <2>1 DEF last_head, Link
  <2>2. CASE journal # <<>>
    <3>1. Len(journal) \in 1..Len(journal)
      BY <1>1, <2>2, EmptySeq
    <3>2. journal[Len(journal)] \in Line
      BY <1>1, <3>1, ElementOfSeq
    <3> QED BY <2>2, <3>2, DigestLink DEF last_head
  <2> QED BY <2>1, <2>2
<1>5. mind \in Mind /\ Current(mind, journal)
  BY <1>1, <1>2, <1>3, <1>4 DEF Mind, Current, NoSession
<1> HIDE DEF mind
<1> QED BY <1>1, <1>2, <1>5, OneWrites

LEMMA DieKeeps ==
    ASSUME JInv, NEW o \in Observer, Die(o)
    PROVE  JInv'
<1>1. /\ memory[o].stage # "ended" /\ memory' = [memory EXCEPT ![o] = Ended]
      /\ \/ journal' = journal
         \/ ~memory[o].broken /\ journal' = Append(journal, Torn)
  BY DEF Die, may_append
<1>2. /\ journal \in Seq(Line) /\ writer = o
      /\ replays(whole(journal)) /\ Numbered(whole(journal))
  BY <1>1, ActiveFacts DEF JInv
<1>3. Ended \in Mind /\ Ended.stage = "ended"
  BY DEF Ended, Mind, Link, NoSession
<1>4. /\ journal' \in Seq(Line)
      /\ replays(whole(journal')) /\ Numbered(whole(journal'))
  <2>1. CASE journal' = journal
    BY <1>2, <2>1
  <2>2. CASE ~memory[o].broken /\ journal' = Append(journal, Torn)
    <3>1. whole(journal) = journal /\ whole(journal') = journal
      BY <1>1, <2>2, ActiveFacts
    <3> QED BY <1>2, <2>2, <3>1, TornLine
  <2> QED BY <1>1, <2>1, <2>2
<1> QED BY <1>1, <1>2, <1>3, <1>4, OneWrites

LEMMA RecordKeeps ==
    ASSUME JInv, NEW o \in Observer, Record(o)
    PROVE  JInv'
<1> DEFINE m == memory[o]
<1>1. m \in Mind
  BY DEF JInv
<1>2. CASE Start(o)
  <2>1. m.stage = "replayed" /\ Fits(m, "START")
    BY <1>2 DEF Start, Fits, Kind
  <2>2. \/ Written(o, "START", "observing", TRUE) /\ UNCHANGED writer
        \/ WriteFails(o, "START", "ended")
    BY <1>2 DEF Start
  <2> QED BY <2>1, <2>2, WrittenKeeps, FailureKeeps
<1>3. CASE Observe(o)
  <2>1. /\ m.stage = "observing" /\ m.ok \in BOOLEAN /\ UNCHANGED writer
        /\ Fits(m, "SAMPLE") /\ Fits(m, "ERROR")
    BY <1>1, <1>3 DEF Observe, Fits, Kind, Mind
  <2>2. CASE Written(o, "SAMPLE", "observing", m.ok)
    BY <2>1, <2>2, WrittenKeeps
  <2>3. CASE Written(o, "ERROR", "observing", FALSE)
    BY <2>1, <2>3, WrittenKeeps
  <2>4. CASE WriteFails(o, "SAMPLE", "stopping")
    BY <2>1, <2>4, FailureKeeps
  <2>5. CASE WriteFails(o, "ERROR", "stopping")
    BY <2>1, <2>5, FailureKeeps
  <2>6. CASE /\ memory' = [memory EXCEPT ![o].stage = "stopping", ![o].ok = FALSE]
             /\ UNCHANGED journal
    BY <2>1, <2>6, PauseKeeps
  <2> QED BY <1>3, <2>2, <2>3, <2>4, <2>5, <2>6 DEF Observe
<1>4. CASE LeaveLoop(o)
  <2>1. PICK ok \in BOOLEAN : ok = (m.ok /\ journal[Len(journal)].kind = "SAMPLE")
    OBVIOUS
  <2>2. /\ m.stage = "observing" /\ UNCHANGED <<journal, writer>>
        /\ memory' = [memory EXCEPT ![o].stage = "stopping", ![o].ok = ok]
    BY <1>4, <2>1 DEF LeaveLoop
  <2> QED BY <2>2, PauseKeeps
<1>5. CASE Stop(o)
  <2>1. m.stage = "stopping" /\ Fits(m, "STOP") /\ m.ok \in BOOLEAN
    BY <1>1, <1>5 DEF Stop, Fits, Kind, Mind
  <2>2. CASE Written(o, "STOP", "ended", m.ok)
    BY <2>1, <2>2, WrittenKeeps
  <2>3. CASE WriteFails(o, "STOP", "ended")
    BY <2>1, <2>3, FailureKeeps
  <2>4. CASE memory' = [memory EXCEPT ![o].stage = "ended"] /\ UNCHANGED journal
    <3>1. memory' = [memory EXCEPT ![o].stage = "ended", ![o].ok = m.ok]
      BY <1>1, <2>4 DEF JInv, Mind
    <3> QED BY <2>1, <2>4, <3>1, PauseKeeps
  <2> QED BY <1>5, <2>2, <2>3, <2>4 DEF Stop
<1> QED BY <1>2, <1>3, <1>4, <1>5, DieKeeps DEF Record

LEMMA JournalInit == JInit => JInv
<1> SUFFICES ASSUME JInit PROVE JInv
  OBVIOUS
<1>1. journal = <<>> /\ memory = [o \in Observer |-> Ended]
  BY DEF JInit
<1>2. whole(journal) = <<>> /\ journal \in Seq(Line)
  BY <1>1 DEF whole, cut
<1>3. DOMAIN <<>> = {} /\ starts(<<>>) = {}
  BY DEF starts
<1>4. replays(<<>>) /\ Numbered(<<>>)
  BY <1>3 DEF replays, Numbered
<1>5. Ended \in Mind /\ Ended.stage = "ended"
  BY DEF Ended, Mind, Link, NoSession
<1> QED BY <1>1, <1>2, <1>4, <1>5 DEF JInv

(* Only observers touch the journal; the driver's own starts one.          *)
LEMMA DriverSteps ==
    [Next]_vars => \/ UNCHANGED jvars
                   \/ \E o \in Observer : Record(o) \/ \E expected : Open(o, expected)
BY DriverAssumption
   DEF Next, vars, Resume, StartNode, SaveAttempt, Submit, Confirm, StageState,
       RenameState, SpawnObserver, ObserverReturns, NextRound, Finish, leave,
       Throw, Kill, Inspect, Land, Expire, Observers, RunObserver

LEMMA JournalStep == JInv /\ [Next]_vars => JInv'
<1> SUFFICES ASSUME JInv, [Next]_vars PROVE JInv'
  OBVIOUS
<1>1. CASE UNCHANGED jvars
  BY <1>1 DEF JInv, jvars, whole, cut, Numbered, Current
<1> QED BY <1>1, DriverSteps, RecordKeeps, OpenKeeps

(* soak_journal.py:271: whatever writes fail and whoever dies, in whichever *)
(* observer, the file replays up to at most a cut last line, and whoever    *)
(* may go on writing remembers its end.                                     *)
THEOREM JournalStaysIntact == Spec => []JournalIntact
BY JournalInit, JournalStep, IntactFollows, PTL DEF Spec, Init

-----------------------------------------------------------------------------
(***************************************************************************)
(* The driver.  A report sequence is signed once per round: until it is    *)
(* final the checkpoint, the copy in memory and the attempt agree; when it *)
(* is, the ledger has it before the checkpoint does.                       *)
(***************************************************************************)

Attempt(tx) == [kind |-> "attempt", label |-> tx.label, content |-> tx]

Checkpoint(s) == s = [sequence |-> s.sequence, head |-> s.head] /\ s.sequence \in Nat

Settled == {"loaded", "started", "checkpointed", "recording", "observed",
            "staged head", "round over"}
Pending == {"attempted", "sent"}
Reported == {"reported", "staged report"}

DTypeOK ==
    /\ Checkpoint(saved) /\ Checkpoint(state)
    /\ report_sequence \in Nat
    /\ \A tx \in in_flight \union landed : tx.sequence \in Nat
    /\ pc \in Settled \union Pending \union Reported \union {"down"}

AttemptsKept ==
    /\ \A tx \in in_flight \union landed : Attempt(tx) \in files
    /\ pc \in Pending => Attempt(envelope) \in files

RoundAgrees ==
    /\ pc \in Settled \union Pending => state.sequence = saved.sequence
    /\ pc \in Pending => envelope.sequence = saved.sequence + 1
    /\ pc \in Reported => /\ state.sequence = saved.sequence + 1
                          /\ report_sequence = state.sequence

LedgerClose ==
    /\ \A tx \in in_flight : tx.sequence <= saved.sequence + 1
    /\ \A tx \in landed : tx.sequence <= report_sequence
    /\ report_sequence \in {saved.sequence, saved.sequence + 1}

DInv == DTypeOK /\ AttemptsKept /\ RoundAgrees /\ LedgerClose

LEMMA TracksFollows == DInv => CheckpointTracksLedger
BY DEF DInv, AttemptsKept, LedgerClose, CheckpointTracksLedger, Attempt

LEMMA DriverInit == Init => DInv
BY DEF Init, DInv, DTypeOK, Checkpoint, AttemptsKept, RoundAgrees, LedgerClose,
       Settled, Pending, Reported

(* A file that is only created exclusively is never lost.                  *)
LEMMA SaveAdds ==
    ASSUME NEW kind, NEW content, unused(kind, label), save(kind, content)
    PROVE  files' = files \union {[kind |-> kind, label |-> label, content |-> content]}
BY DEF unused, save

(* Steps after which nothing new is in flight, landed, saved or signed.    *)
LEMMA QuietKeeps ==
    ASSUME DInv, UNCHANGED <<saved, report_sequence, landed>>,
           in_flight' \subseteq in_flight, files \subseteq files',
           \/ UNCHANGED <<pc, state, envelope>>
           \/ pc' = "down" /\ state' = state
           \/ pc' \in Settled /\ state' = saved
           \/ pc \in Settled /\ pc' \in Settled /\ Checkpoint(state')
                /\ state'.sequence = state.sequence
           \/ pc = "reported" /\ pc' = "staged report" /\ state' = state
    PROVE  DInv'
<1> USE DEF DInv, DTypeOK
<1>1. AttemptsKept' /\ LedgerClose'
  BY DEF AttemptsKept, LedgerClose, Settled, Pending
<1>2. DTypeOK' /\ RoundAgrees'
  BY DEF RoundAgrees, Settled, Pending, Reported
<1> QED BY <1>1, <1>2

LEMMA SaveAttemptKeeps == DInv /\ SaveAttempt => DInv'
<1> SUFFICES ASSUME DInv, SaveAttempt PROVE DInv'
  OBVIOUS
<1> DEFINE signed == [label |-> label, sequence |-> state.sequence + 1,
                      signature |-> signatures + 1]
<1>1. /\ pc = "started" /\ pc' = "attempted"
      /\ envelope' = signed
      /\ files' = files \union {Attempt(signed)}
      /\ UNCHANGED <<saved, state, in_flight, landed, report_sequence>>
  BY SaveAdds DEF SaveAttempt, Attempt, node_vars
<1>2. signed.sequence = state.sequence + 1
  OBVIOUS
<1> HIDE DEF signed
<1>3. AttemptsKept'
  BY <1>1 DEF DInv, AttemptsKept, Attempt
<1>4. DTypeOK' /\ LedgerClose'
  BY <1>1 DEF DInv, DTypeOK, Checkpoint, LedgerClose, Pending
<1>5. RoundAgrees'
  BY <1>1, <1>2 DEF DInv, RoundAgrees, Settled, Pending, Reported
<1> QED BY <1>3, <1>4, <1>5 DEF DInv

LEMMA SubmitKeeps == DInv /\ Submit => DInv'
<1> SUFFICES ASSUME DInv, Submit PROVE DInv'
  OBVIOUS
<1>1. /\ pc = "attempted" /\ pc' = "sent"
      /\ in_flight' = in_flight \union {envelope}
      /\ UNCHANGED <<saved, files, state, envelope, landed, report_sequence>>
  BY DEF Submit, files_vars
<1>2. /\ envelope.sequence = saved.sequence + 1 /\ Attempt(envelope) \in files
      /\ saved.sequence \in Nat
  BY <1>1 DEF DInv, DTypeOK, Checkpoint, RoundAgrees, AttemptsKept, Pending
<1>3. AttemptsKept' /\ LedgerClose'
  BY <1>1, <1>2 DEF DInv, DTypeOK, AttemptsKept, LedgerClose, Attempt
<1>4. DTypeOK' /\ RoundAgrees'
  BY <1>1, <1>2 DEF DInv, DTypeOK, Checkpoint, RoundAgrees, Settled, Pending, Reported
<1> QED BY <1>3, <1>4 DEF DInv

(* A final report is on the ledger, and nothing beyond it was ever sent.   *)
LEMMA ConfirmKeeps == DInv /\ Confirm => DInv'
<1> SUFFICES ASSUME DInv, Confirm PROVE DInv'
  OBVIOUS
<1>1. /\ pc = "sent" /\ pc' = "reported" /\ envelope \in landed
      /\ state' = [state EXCEPT !.sequence = envelope.sequence]
      /\ UNCHANGED <<saved, files, envelope, in_flight, landed, report_sequence>>
  BY DEF Confirm, is_final, files_vars, node_vars
<1>2. /\ envelope.sequence = saved.sequence + 1 /\ saved.sequence \in Nat
      /\ Checkpoint(state)
  BY <1>1 DEF DInv, DTypeOK, Checkpoint, RoundAgrees, Pending
<1>3. Checkpoint(state') /\ state'.sequence = envelope.sequence
  BY <1>1, <1>2 DEF Checkpoint
<1>4. report_sequence = saved.sequence + 1
  BY <1>1, <1>2 DEF DInv, DTypeOK, LedgerClose
<1>5. DTypeOK' /\ LedgerClose'
  BY <1>1, <1>3 DEF DInv, DTypeOK, Checkpoint, LedgerClose, Reported
<1>6. AttemptsKept' /\ RoundAgrees'
  BY <1>1, <1>2, <1>3, <1>4
     DEF DInv, AttemptsKept, RoundAgrees, Attempt, Settled, Pending, Reported
<1> QED BY <1>5, <1>6 DEF DInv

LEMMA RenameKeeps == DInv /\ RenameState => DInv'
<1> SUFFICES ASSUME DInv, RenameState PROVE DInv'
  OBVIOUS
<1>1. /\ saved' = state /\ state' = state
      /\ UNCHANGED <<files, envelope, in_flight, landed, report_sequence>>
      /\ \/ pc = "staged report" /\ pc' = "checkpointed"
         \/ pc = "staged head" /\ pc' = "round over"
  BY DEF RenameState, node_vars
<1>2. /\ saved.sequence \in Nat
      /\ state.sequence \in {saved.sequence, saved.sequence + 1}
      /\ report_sequence \in {state.sequence, state.sequence + 1}
  BY <1>1 DEF DInv, DTypeOK, Checkpoint, RoundAgrees, LedgerClose, Settled, Reported
<1>3. DTypeOK' /\ RoundAgrees'
  BY <1>1 DEF DInv, DTypeOK, Checkpoint, RoundAgrees, Settled, Pending, Reported
<1>4. AttemptsKept'
  BY <1>1 DEF DInv, AttemptsKept, Attempt, Pending
<1>5. LedgerClose'
  <2>1. \A tx \in in_flight : tx.sequence <= state.sequence + 1
    BY <1>2 DEF DInv, DTypeOK, LedgerClose
  <2> QED BY <1>1, <1>2, <2>1 DEF DInv, LedgerClose
<1> QED BY <1>3, <1>4, <1>5 DEF DInv

(* A transaction may land long after its sender was killed, on a ledger    *)
(* that has moved on: it counts only if its sequence is still new.         *)
LEMMA LandKeeps ==
    ASSUME DInv, NEW tx \in in_flight, Land(tx)
    PROVE  DInv'
<1>1. /\ in_flight' = in_flight \ {tx}
      /\ UNCHANGED <<pc, state, envelope, saved, files>>
  BY DEF Land, files_vars, run_vars
<1>2. CASE UNCHANGED <<report_sequence, landed>>
  BY <1>1, <1>2, QuietKeeps
<1>3. CASE /\ tx.sequence > report_sequence /\ report_sequence' = tx.sequence
           /\ landed' = landed \union {tx}
  <2>1. /\ tx.sequence \in Nat /\ report_sequence \in Nat /\ saved.sequence \in Nat
        /\ tx.sequence <= saved.sequence + 1
        /\ report_sequence \in {saved.sequence, saved.sequence + 1}
    BY DEF DInv, DTypeOK, Checkpoint, LedgerClose
  <2>2. report_sequence' = saved.sequence + 1 /\ report_sequence = saved.sequence
    BY <1>3, <2>1
  <2>3. LedgerClose'
    BY <1>1, <1>3, <2>1, <2>2 DEF DInv, DTypeOK, LedgerClose
  <2>4. DTypeOK' /\ AttemptsKept'
    BY <1>1, <1>3, <2>1 DEF DInv, DTypeOK, Checkpoint, AttemptsKept, Attempt
  <2>5. pc \notin Reported
    BY <2>1, <2>2 DEF DInv, RoundAgrees
  <2>6. RoundAgrees'
    BY <1>1, <2>5 DEF DInv, RoundAgrees
  <2> QED BY <2>3, <2>4, <2>6 DEF DInv
<1> QED BY <1>2, <1>3 DEF Land

LEMMA DriverStep == DInv /\ [Next]_vars => DInv'
<1> SUFFICES ASSUME DInv, [Next]_vars PROVE DInv'
  OBVIOUS
<1>1. CASE UNCHANGED <<files_vars, run_vars, node_vars>>
  BY <1>1, QuietKeeps DEF files_vars, run_vars, node_vars
<1>2. CASE Resume
  <2>1. /\ UNCHANGED <<saved, report_sequence, landed, in_flight, files>>
        /\ pc' = "loaded" /\ state' = saved
    BY <1>2 DEF Resume, node_vars
  <2> QED BY <2>1, QuietKeeps DEF Settled
<1>3. CASE StartNode
  <2>1. /\ UNCHANGED <<saved, report_sequence, landed, in_flight, state>>
        /\ pc = "loaded" /\ pc' = "started" /\ files \subseteq files'
    BY <1>3, SaveAdds DEF StartNode
  <2> QED BY <2>1, QuietKeeps DEF Settled, DInv, DTypeOK
<1>4. CASE StageState
  <2>1. /\ UNCHANGED <<saved, report_sequence, landed, in_flight, state, files>>
        /\ \/ pc = "reported" /\ pc' = "staged report"
           \/ pc = "observed" /\ pc' = "staged head"
    BY <1>4 DEF StageState, node_vars
  <2> QED BY <2>1, QuietKeeps DEF Settled, DInv, DTypeOK
<1>5. CASE SpawnObserver
  <2>1. /\ UNCHANGED <<saved, report_sequence, landed, in_flight, state, files>>
        /\ pc = "checkpointed" /\ pc' = "recording"
    BY <1>5 DEF SpawnObserver, files_vars, node_vars
  <2> QED BY <2>1, QuietKeeps DEF Settled, DInv, DTypeOK
<1>6. CASE ObserverReturns
  <2>1. /\ UNCHANGED <<saved, report_sequence, landed, in_flight, files>>
        /\ pc = "recording" /\ pc' = "observed"
        /\ state' = [state EXCEPT !.head = memory[Child].head]
    BY <1>6 DEF ObserverReturns, files_vars, node_vars
  <2>2. Checkpoint(state') /\ state'.sequence = state.sequence
    BY <2>1 DEF DInv, DTypeOK, Checkpoint
  <2> QED BY <2>1, <2>2, QuietKeeps DEF Settled
<1>7. CASE NextRound
  <2>1. /\ UNCHANGED <<saved, report_sequence, landed, files>>
        /\ in_flight' = {} /\ pc' = "loaded" /\ state' = saved
    BY <1>7 DEF NextRound, files_vars
  <2> QED BY <2>1, QuietKeeps DEF Settled
<1>8. CASE leave
  <2>1. /\ UNCHANGED <<saved, report_sequence, landed, files, state>>
        /\ in_flight' = {} /\ pc' = "down"
    BY <1>8 DEF leave
  <2> QED BY <2>1, QuietKeeps
<1>9. CASE Kill
  <2>1. /\ UNCHANGED <<saved, report_sequence, landed, files, state, in_flight>>
        /\ pc' = "down"
    BY <1>9 DEF Kill, files_vars, node_vars
  <2> QED BY <2>1, QuietKeeps
<1>10. CASE Inspect
  <2>1. /\ UNCHANGED <<saved, report_sequence, landed, files, state, pc, envelope>>
        /\ in_flight' = {}
    BY <1>10 DEF Inspect, run_vars
  <2> QED BY <2>1, QuietKeeps
<1>11. ASSUME NEW tx \in in_flight, Expire(tx) PROVE DInv'
  <2>1. /\ UNCHANGED <<saved, report_sequence, landed, files, state, pc, envelope>>
        /\ in_flight' \subseteq in_flight
    BY <1>11 DEF Expire, files_vars, run_vars
  <2> QED BY <2>1, QuietKeeps
<1>12. CASE UNCHANGED vars
  BY <1>1, <1>12 DEF vars
<1>13. CASE Observers
  BY <1>1, <1>13 DEF Observers
<1> QED
  BY <1>2, <1>3, <1>4, <1>5, <1>6, <1>7, <1>8, <1>9, <1>10, <1>11, <1>12, <1>13,
     SaveAttemptKeeps, SubmitKeeps, ConfirmKeeps, RenameKeeps, LandKeeps
  DEF Next, Finish, Throw

(* soak_persistent.mjs:101 and :286: wherever the controller is killed or  *)
(* throws, whatever lands late, and however often the run is resumed, no   *)
(* sent report lacks its attempt file, and the checkpoint is the ledger's  *)
(* sequence or one behind it.                                              *)
THEOREM CheckpointNeverLeads == Spec => []CheckpointTracksLedger
BY DriverInit, DriverStep, TracksFollows, PTL DEF Spec
===============================================================================
