----------------------------- MODULE SoakDriver ------------------------------
(***************************************************************************)
(* tools/soak_persistent.mjs from the moment state.json exists: rounds     *)
(* that start the node, sign and send one capacity report, move the        *)
(* checkpoint, run the observer of SoakJournal and stop the node.  The     *)
(* acceptance command runs several rounds, resume runs one.  Any call may  *)
(* throw, and the process may be killed between any two.                   *)
(*                                                                         *)
(* The ledger accepts a report under the sequence rule of report_capacity. *)
(* The backup and restore between two acceptance rounds are the identity:  *)
(* soak_backup.py compares both copies with the stopped source, digest by  *)
(* digest.                                                                 *)
(***************************************************************************)
EXTENDS SoakJournal

CONSTANTS
    Child,              \* The observer process the driver spawns.
    ACCEPTANCE_ROUNDS,  \* Reports sent by the acceptance command.
    LAST_SEQUENCE,      \* Bound on the report sequence.
    LAST_SIGNATURE      \* Bound on the transactions signed.

ASSUME DriverAssumption ==
    /\ Child \in Observer
    /\ {ACCEPTANCE_ROUNDS, LAST_SEQUENCE, LAST_SIGNATURE} \subseteq Nat

VARIABLES
    saved,          \* state.json: report_sequence and journal_head.
    next_left,      \* state.json.next exists.
    driver_lock,    \* The driver-lock directory exists.
    files,          \* Files saved exclusively: argv and attempt, by label.
    pc,             \* Where the controller is.
    state,          \* Its copy of state.json.
    label,          \* The label of its round.
    envelope,       \* The transaction it has signed last.
    signatures,     \* Transactions signed so far.
    node_up,        \* The validator runs.
    in_flight,      \* Transactions sent that have neither landed nor expired.
    landed,         \* Transactions that have landed.
    report_sequence \* policy.report_sequence on the ledger.

files_vars == <<saved, next_left, driver_lock, files>>
run_vars == <<pc, state, label, envelope, signatures>>
node_vars == <<node_up, in_flight, landed, report_sequence>>
vars == <<jvars, files_vars, run_vars, node_vars>>

NoEnvelope == [label |-> <<"none", 0>>, sequence |-> 0, signature |-> 0]

\* The acceptance command has bootstrapped: the node runs, nothing is reported.
Init ==
    /\ JInit
    /\ saved = [sequence |-> 0, head |-> ZERO]
    /\ next_left = FALSE
    /\ driver_lock = TRUE
    /\ files = {}
    /\ pc = "started"
    /\ state = saved
    /\ label = <<"report", 1>>
    /\ envelope = NoEnvelope
    /\ signatures = 0
    /\ node_up = TRUE
    /\ in_flight = {}
    /\ landed = {}
    /\ report_sequence = 0
-----------------------------------------------------------------------------
\* A plausible bug: files opened with 'w', which overwrites.
unused_or_not(kind, name) == TRUE

\* open(..., 'wx'): only a name not taken yet.
unused(kind, name) == \A f \in files : <<f.kind, f.label>> # <<kind, name>>

save(kind, content) ==
    files' = {f \in files : <<f.kind, f.label>> # <<kind, label>>}
                \union {[kind |-> kind, label |-> label, content |-> content]}

\* lockRun, loadState and the label of a resume.
Resume ==
    /\ pc = "down"
    /\ ~driver_lock
    /\ saved.sequence < LAST_SEQUENCE
    /\ driver_lock' = TRUE
    /\ state' = saved
    /\ label' = <<"resume", saved.sequence + 1>>
    /\ pc' = "loaded"
    /\ UNCHANGED <<jvars, node_vars, saved, next_left, files, envelope, signatures>>

\* startNode: the port is free, and the argv file names this start only.
StartNode ==
    /\ pc = "loaded"
    /\ ~node_up
    /\ unused("argv", label)
    /\ save("argv", NoEnvelope)
    /\ node_up' = TRUE
    /\ pc' = "started"
    /\ UNCHANGED <<jvars, saved, next_left, driver_lock, state, label, envelope, signatures,
                   in_flight, landed, report_sequence>>

\* send: the exact signed attempt is saved before it is sent.
SaveAttempt ==
    LET signed == [label |-> label, sequence |-> state.sequence + 1, signature |-> signatures + 1]
    IN  /\ pc = "started"
        /\ signatures < LAST_SIGNATURE
        /\ unused("attempt", label)
        /\ save("attempt", signed)
        /\ envelope' = signed
        /\ signatures' = signatures + 1
        /\ pc' = "attempted"
        /\ UNCHANGED <<jvars, node_vars, saved, next_left, driver_lock, state, label>>

\* submitSigned: sent if the simulation on the present bank succeeds.
Submit ==
    /\ pc = "attempted"
    /\ node_up
    /\ envelope.sequence > report_sequence
    /\ in_flight' = in_flight \union {envelope}
    /\ pc' = "sent"
    /\ UNCHANGED <<jvars, files_vars, state, label, envelope, signatures,
                   node_up, landed, report_sequence>>

\* Only a finalized status lets send return; continueReport then counts it.
is_final(tx) == tx \in landed

Confirm ==
    /\ pc = "sent"
    /\ is_final(envelope)
    /\ state' = [state EXCEPT !.sequence = envelope.sequence]
    /\ pc' = "reported"
    /\ UNCHANGED <<jvars, files_vars, node_vars, label, envelope, signatures>>

\* The observer is run on the journal the retained head belongs to.
SpawnObserver ==
    /\ pc = "checkpointed"
    /\ Open(Child, IF state.head = ZERO THEN {last_head(journal)} ELSE {state.head})
    /\ pc' = "recording"
    /\ UNCHANGED <<files_vars, node_vars, state, label, envelope, signatures>>

\* It exited with status 0 and its summary names the new head.
ObserverReturns ==
    /\ pc = "recording"
    /\ memory[Child].stage = "ended"
    /\ memory[Child].ok
    /\ state' = [state EXCEPT !.head = memory[Child].head]
    /\ pc' = "observed"
    /\ UNCHANGED <<jvars, files_vars, node_vars, label, envelope, signatures>>

\* atomicState: the temporary file is created exclusively, then renamed.
StageState ==
    /\ pc \in {"reported", "observed"}
    /\ ~next_left
    /\ next_left' = TRUE
    /\ pc' = IF pc = "reported" THEN "staged report" ELSE "staged head"
    /\ UNCHANGED <<jvars, node_vars, saved, driver_lock, files, state, label, envelope, signatures>>

RenameState ==
    /\ pc \in {"staged report", "staged head"}
    /\ saved' = state
    /\ next_left' = FALSE
    /\ pc' = IF pc = "staged report" THEN "checkpointed" ELSE "round over"
    /\ UNCHANGED <<jvars, node_vars, driver_lock, files, state, label, envelope, signatures>>

last_round == label[1] = "resume" \/ label[2] >= ACCEPTANCE_ROUNDS

\* stopNode between two acceptance rounds, and loadState of what was saved.
NextRound ==
    /\ pc = "round over"
    /\ ~last_round
    /\ node_up' = FALSE
    /\ in_flight' = {}
    /\ state' = saved
    /\ label' = <<"report", label[2] + 1>>
    /\ pc' = "loaded"
    /\ UNCHANGED <<jvars, files_vars, envelope, signatures, landed, report_sequence>>

\* finally: the node is stopped and the lock removed.
leave ==
    /\ pc' = "down"
    /\ node_up' = FALSE
    /\ in_flight' = {}
    /\ driver_lock' = FALSE
    /\ UNCHANGED <<jvars, saved, next_left, files, state, label, envelope, signatures,
                   landed, report_sequence>>

Finish ==
    /\ pc = "round over"
    /\ last_round
    /\ leave

\* A call throws: a refused guard, an RPC error, a time out, an interrupt.
\* The child is awaited, so nothing throws while it runs.
Throw ==
    /\ pc # "down"
    /\ pc = "recording" => memory[Child].stage = "ended"
    /\ leave

\* The controller is killed: its lock stays, and the node may outlive it.
Kill ==
    /\ pc # "down"
    /\ pc' = "down"
    /\ UNCHANGED <<jvars, files_vars, node_vars, state, label, envelope, signatures>>

\* The owner of the run, having looked: stops a left node, clears a stale lock.
Inspect ==
    /\ pc = "down"
    /\ driver_lock
    /\ driver_lock' = FALSE
    /\ node_up' = FALSE
    /\ in_flight' = {}
    /\ UNCHANGED <<jvars, run_vars, saved, next_left, files, landed, report_sequence>>
-----------------------------------------------------------------------------
\* The validator executes a transaction: report_capacity wants a new sequence.
Land(tx) ==
    /\ node_up
    /\ in_flight' = in_flight \ {tx}
    /\ IF tx.sequence > report_sequence
       THEN report_sequence' = tx.sequence /\ landed' = landed \union {tx}
       ELSE UNCHANGED <<report_sequence, landed>>
    /\ UNCHANGED <<jvars, files_vars, run_vars, node_up>>

\* Its blockhash expires first.
Expire(tx) ==
    /\ in_flight' = in_flight \ {tx}
    /\ UNCHANGED <<jvars, files_vars, run_vars, node_up, landed, report_sequence>>

Observers ==
    /\ \E o \in Observer : Record(o) \/ (o # Child /\ RunObserver(o))
    /\ UNCHANGED <<files_vars, run_vars, node_vars>>

Next ==
    \/ Resume \/ StartNode \/ SaveAttempt \/ Submit \/ Confirm
    \/ StageState \/ RenameState \/ SpawnObserver \/ ObserverReturns
    \/ NextRound \/ Finish \/ Throw \/ Kill \/ Inspect
    \/ \E tx \in in_flight : Land(tx) \/ Expire(tx)
    \/ Observers

Spec == Init /\ [][Next]_vars
-----------------------------------------------------------------------------
(***************************************************************************)
(* soak_persistent.mjs:101 and :286: wherever the controller is killed or  *)
(* throws, every transaction that was sent is the one its attempt file     *)
(* holds, so none was signed again under a used name; and the checkpoint   *)
(* is the ledger's report sequence or one behind it, never ahead, so the   *)
(* next attempt either is new or is refused by the program.                *)
(***************************************************************************)
CheckpointTracksLedger ==
    /\ \A tx \in in_flight \union landed :
        [kind |-> "attempt", label |-> tx.label, content |-> tx] \in files
    /\ report_sequence \in {saved.sequence, saved.sequence + 1}
=============================================================================
