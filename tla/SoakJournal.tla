----------------------------- MODULE SoakJournal -----------------------------
(***************************************************************************)
(* The observation journal of src/soak_journal.py and the `record` command *)
(* of tools/soak_observer.py: observers that replay a hash chained file    *)
(* under an exclusive lock, append to it, and may fail or die at any       *)
(* write.                                                                  *)
(*                                                                         *)
(* A digest is the record without its link to the previous one: no two     *)
(* records of a journal share sequence, kind and session.  What a sample   *)
(* contains is abstracted to whether the program accepts it (SAMPLE) or    *)
(* records its refusal (ERROR).                                            *)
(***************************************************************************)
EXTENDS Naturals, Sequences, FiniteSets

CONSTANTS
    Observer,       \* Observer processes that may be run on the directory.
    Nobody,         \* The owner of an unlocked writer.lock.
    ZERO,           \* The head of an empty journal.
    MAX_RECORDS     \* Bound on the length of the journal.

ASSUME JournalAssumption ==
    /\ MAX_RECORDS \in Nat
    /\ Nobody \notin Observer

VARIABLES
    journal,        \* journal.jsonl, line by line.
    writer,         \* The observer that holds writer.lock.
    memory          \* What each observer holds of its last or current run.

jvars == <<journal, writer, memory>>

NoSession == 0

\* A line that was cut by a crash or a failed write.
Torn == [sequence |-> MAX_RECORDS, previous |-> ZERO, kind |-> "TORN", session |-> NoSession]

digest(record) == <<record.sequence, record.kind, record.session>>

last_head(lines) == IF lines = <<>> THEN ZERO ELSE digest(lines[Len(lines)])

starts(lines) == {i \in DOMAIN lines : lines[i].kind = "START"}

\* The session whose START is not followed by a STOP or another START.
active_session(lines) ==
    LET open == {i \in starts(lines) :
                    \A j \in (i + 1)..Len(lines) : lines[j].kind \notin {"START", "STOP"}}
    IN  IF open = {} THEN NoSession ELSE lines[CHOOSE i \in open : TRUE].session

\* accept: what a record needs to extend the lines replayed so far.
accepted(lines, record) ==
    /\ record.kind # "TORN"
    /\ record.previous = last_head(lines)
    /\ record.sequence = Len(lines)
    /\ IF record.kind = "START"
       THEN \A i \in starts(lines) : lines[i].session # record.session
       ELSE record.session # NoSession /\ record.session = active_session(lines)

\* Journal.__init__ reads the file to its end without a refusal.
replays(lines) ==
    \A i \in DOMAIN lines : accepted(SubSeq(lines, 1, i - 1), lines[i])

Ended == [stage |-> "ended", head |-> ZERO, count |-> 0, session |-> NoSession,
          broken |-> FALSE, ok |-> FALSE]

JInit ==
    /\ journal = <<>>
    /\ writer = Nobody
    /\ memory = [o \in Observer |-> Ended]
-----------------------------------------------------------------------------
\* locked and Journal(directory, expected): expected is a set of allowed heads.
\* A fresh uuid4 names the session.
Open(o, expected) ==
    /\ memory[o].stage = "ended"
    /\ writer = Nobody
    /\ replays(journal)
    /\ last_head(journal) \in expected
    /\ Len(journal) + 2 < MAX_RECORDS
    /\ writer' = o
    /\ memory' = [memory EXCEPT ![o] =
        [stage |-> "replayed", head |-> last_head(journal), count |-> Len(journal),
         session |-> Cardinality(starts(journal)) + 1, broken |-> FALSE, ok |-> TRUE]]
    /\ UNCHANGED journal

\* A plausible bug: the flag that a write failed is not looked at.
may_append_after_failure(mind) == TRUE

\* append refuses once a write has failed.
may_append(mind) == ~mind.broken

record_of(mind, kind) ==
    [sequence |-> mind.count, previous |-> mind.head, kind |-> kind, session |-> mind.session]

\* The line is on disk, and only then does memory advance.
Written(o, kind, stage, ok) ==
    LET record == record_of(memory[o], kind)
    IN  /\ may_append(memory[o])
        /\ Len(journal) < MAX_RECORDS
        /\ journal' = Append(journal, record)
        /\ memory' = [memory EXCEPT ![o].stage = stage, ![o].ok = ok,
                        ![o].head = digest(record), ![o].count = @ + 1]

\* write, flush or fsync raises OSError: nothing, a part or all of the line
\* may be in the file, and memory keeps the old head.
WriteFails(o, kind, stage) ==
    /\ may_append(memory[o])
    /\ Len(journal) < MAX_RECORDS
    /\ journal' \in {journal, Append(journal, Torn), Append(journal, record_of(memory[o], kind))}
    /\ memory' = [memory EXCEPT ![o].stage = stage, ![o].broken = TRUE, ![o].ok = FALSE]

\* START precedes the try block: a failure there ends the run without STOP.
Start(o) ==
    /\ memory[o].stage = "replayed"
    /\ \/ Written(o, "START", "observing", TRUE) /\ UNCHANGED writer
       \/ WriteFails(o, "START", "ended") /\ writer' = Nobody

\* observe: a sample, a recorded refusal, or an error that leaves the loop.
\* The last record is kept free for STOP.
Observe(o) ==
    /\ memory[o].stage = "observing"
    /\ Len(journal) + 1 < MAX_RECORDS
    /\ \/ Written(o, "SAMPLE", "observing", memory[o].ok)
       \/ Written(o, "ERROR", "observing", FALSE)
       \/ WriteFails(o, "SAMPLE", "stopping")
       \/ WriteFails(o, "ERROR", "stopping")
       \/ /\ memory' = [memory EXCEPT ![o].stage = "stopping", ![o].ok = FALSE]
          /\ UNCHANGED journal
    /\ UNCHANGED writer

\* The loop is over: all samples taken, or SIGINT or SIGTERM.
LeaveLoop(o) ==
    /\ memory[o].stage = "observing"
    /\ memory' = [memory EXCEPT ![o].stage = "stopping",
                    ![o].ok = @ /\ journal[Len(journal)].kind = "SAMPLE"]
    /\ UNCHANGED <<journal, writer>>

\* finally: STOP, which is refused after a failed write, and the lock is freed.
Stop(o) ==
    /\ memory[o].stage = "stopping"
    /\ \/ Written(o, "STOP", "ended", memory[o].ok)
       \/ WriteFails(o, "STOP", "ended")
       \/ /\ ~may_append(memory[o])
          /\ memory' = [memory EXCEPT ![o].stage = "ended"]
          /\ UNCHANGED journal
    /\ writer' = Nobody

\* The process dies between two writes or in one; the kernel frees its lock.
Die(o) ==
    /\ memory[o].stage # "ended"
    /\ journal' \in {journal} \union
        (IF may_append(memory[o]) /\ Len(journal) < MAX_RECORDS
         THEN {Append(journal, Torn)} ELSE {})
    /\ memory' = [memory EXCEPT ![o] = Ended]
    /\ writer' = Nobody

Record(o) == Start(o) \/ Observe(o) \/ LeaveLoop(o) \/ Stop(o) \/ Die(o)

\* Someone runs an observer by hand, with whatever head the file has.
RunObserver(o) == Open(o, {last_head(journal)})
-----------------------------------------------------------------------------
(***************************************************************************)
(* soak_journal.py:271: whatever writes fail and whoever dies, the file is *)
(* a chain that replay accepts with at most its last line cut, and the     *)
(* head an observer may go on from is the head of the file.                *)
(***************************************************************************)
JournalIntact ==
    LET cut == journal # <<>> /\ journal[Len(journal)] = Torn
    IN  /\ replays(IF cut THEN SubSeq(journal, 1, Len(journal) - 1) ELSE journal)
        /\ \A o \in Observer :
            memory[o].stage # "ended" /\ ~memory[o].broken
                => memory[o].head = last_head(journal)
=============================================================================
