--------------------------- MODULE LaunchGovernance ---------------------------
(***************************************************************************)
(* Control of a launch-vault-v7 policy: replacement of the controller and  *)
(* of the capacity oracle after a 90-day notice (governance.rs), and the   *)
(* capacity reports of whoever is the oracle (report_capacity in lib.rs).  *)
(*                                                                         *)
(* A report is kept without its capacity, which LaunchCapacity holds.      *)
(***************************************************************************)
EXTENDS LaunchState, FiniteSets

CONSTANTS
    ReportSequence,          \* sequence numbers an oracle may sign
    ChangeSuccessor          \* keys willing to accept an office

VARIABLES
    oracle, oracle_epoch, oracle_activated_at,
    controller, controller_epoch,
    change_sequence, pending_change,
    changes,                 \* ChangeProposalV7 accounts, never closed
    report                   \* report_period, _at, _sequence, _epoch, _valid

governanceVars == <<oracle, oracle_epoch, oracle_activated_at, controller,
                    controller_epoch, change_sequence, pending_change, changes,
                    report>>
gvars == <<state, last_action_at, oracle, oracle_epoch, oracle_activated_at,
           controller, controller_epoch, change_sequence, pending_change,
           changes, report>>

CHANGE_ORACLE     == 0
CHANGE_CONTROLLER == 1
ChangeKind == {CHANGE_ORACLE, CHANGE_CONTROLLER}

ChangeProposal ==
    [nonce : Counter, kind : ChangeKind, recovery : BOOLEAN, successor : Key,
     controller_epoch : Counter, oracle_epoch : Counter, created_at : Instant,
     execute_after : 0..I64_MAX, status : ProposalStatus]

Report == [period : Nat, at : 0..I64_MAX, sequence : Nat, epoch : Counter,
           valid : BOOLEAN]

ASSUME GovernanceAssumption ==
    ReportSequence \subseteq Nat /\ ChangeSuccessor \subseteq Key

GInit ==
    /\ StateInit
    /\ oracle = initial_oracle
    /\ oracle_epoch = 0
    /\ oracle_activated_at = last_action_at
    /\ controller = creator
    /\ controller_epoch = 0
    /\ change_sequence = 0
    /\ pending_change = 0
    /\ changes = {}
    /\ report = [period |-> 0, at |-> 0, sequence |-> 0, epoch |-> 0,
                 valid |-> FALSE]

-----------------------------------------------------------------------------
(***************************************************************************)
(* Checks.                                                                 *)
(***************************************************************************)

recovery_quorum(signers) ==
    /\ Cardinality(signers) = 2
    /\ signers \subseteq recovery_keys

may_propose_change(recovery, signers) ==
    IF recovery THEN recovery_quorum(signers) ELSE signers = {controller}

incumbent(kind) == IF kind = CHANGE_ORACLE THEN oracle ELSE controller

notice_fits(t) == t + CHANGE_NOTICE <= I64_MAX

(* The proposal in the single slot, made under the epochs still in force.  *)
live_change(q) ==
    /\ q.status = PROPOSAL_PENDING
    /\ pending_change = q.nonce
    /\ change_sequence = q.nonce
    /\ controller_epoch = q.controller_epoch
    /\ oracle_epoch = q.oracle_epoch

\* Mutant: the notice may be cut short by one second.
notice_nearly_elapsed(q, t) == t >= q.execute_after - 1

notice_elapsed(q, t) == t >= q.execute_after

\* Mutants: a replayed sequence number; a report observed before the current
\* oracle was installed.
fresh_report_allowing_replay(t, observed_at, sequence) ==
    /\ observed_at >= oracle_activated_at /\ sequence >= report.sequence
    /\ observed_at >= report.at
    /\ observed_at >= period_start(period_at(t))
    /\ observed_at <= t /\ t - observed_at <= max_report_age
fresh_report_of_any_oracle(t, observed_at, sequence) ==
    /\ sequence > report.sequence /\ observed_at >= report.at
    /\ observed_at >= period_start(period_at(t))
    /\ observed_at <= t /\ t - observed_at <= max_report_age

fresh_report(t, observed_at, sequence) ==
    /\ observed_at >= oracle_activated_at
    /\ sequence > report.sequence
    /\ observed_at >= report.at
    /\ observed_at >= period_start(period_at(t))
    /\ observed_at <= t
    /\ t - observed_at <= max_report_age

-----------------------------------------------------------------------------
(***************************************************************************)
(* Handlers.                                                               *)
(***************************************************************************)

(* The signer is checked by has_one = oracle, the epoch by the message.    *)
AcceptReport(t, signer, observed_at, sequence, epoch) ==
    /\ tick(t)
    /\ signer = oracle
    /\ state = ACTIVE
    /\ t >= t0
    /\ epoch = oracle_epoch
    /\ fresh_report(t, observed_at, sequence)
    /\ report' = [period |-> period_at(t), at |-> observed_at,
                  sequence |-> sequence, epoch |-> epoch, valid |-> TRUE]
    /\ UNCHANGED <<state, oracle, oracle_epoch, oracle_activated_at, controller,
                   controller_epoch, change_sequence, pending_change, changes>>

ProposeChange(t, kind, recovery, successor, nonce) ==
    /\ tick(t)
    /\ state # CANCELLED
    /\ pending_change = 0
    /\ nonce = change_sequence + 1
    /\ \E signers \in Signers : may_propose_change(recovery, signers)
    /\ successor # incumbent(kind)
    /\ notice_fits(t)
    /\ ~\E q \in changes : q.nonce = nonce
    /\ changes' = changes \cup
         {[nonce |-> nonce, kind |-> kind, recovery |-> recovery,
           successor |-> successor, controller_epoch |-> controller_epoch,
           oracle_epoch |-> oracle_epoch, created_at |-> t,
           execute_after |-> t + CHANGE_NOTICE, status |-> PROPOSAL_PENDING]}
    /\ change_sequence' = nonce
    /\ pending_change' = nonce
    /\ UNCHANGED <<state, oracle, oracle_epoch, oracle_activated_at, controller,
                   controller_epoch, report>>

close_change(q, status) ==
    changes' = (changes \ {q}) \cup {[q EXCEPT !.status = status]}

may_cancel_change(q, signers) ==
    \/ recovery_quorum(signers)
    \/ signers = {q.successor}
    \/ ~q.recovery /\ signers = {controller}

\* Mutant: the slot is not freed.
CancelChangeKeepingSlot(t, q) ==
    /\ tick(t)
    /\ state # CANCELLED
    /\ live_change(q)
    /\ \E signers \in Signers : may_cancel_change(q, signers)
    /\ close_change(q, PROPOSAL_CANCELLED)
    /\ UNCHANGED <<state, oracle, oracle_epoch, oracle_activated_at, controller,
                   controller_epoch, change_sequence, pending_change, report>>

CancelChange(t, q) ==
    /\ tick(t)
    /\ state # CANCELLED
    /\ live_change(q)
    /\ \E signers \in Signers : may_cancel_change(q, signers)
    /\ close_change(q, PROPOSAL_CANCELLED)
    /\ pending_change' = 0
    /\ UNCHANGED <<state, oracle, oracle_epoch, oracle_activated_at, controller,
                   controller_epoch, change_sequence, report>>

(* The new oracle starts from its own activation; the sequence number and  *)
(* the last observation time survive the rotation.                         *)
install_oracle(q, t) ==
    /\ oracle_epoch + 1 \in Counter
    /\ oracle' = q.successor
    /\ oracle_epoch' = oracle_epoch + 1
    /\ oracle_activated_at' = t
    /\ report' = [report EXCEPT !.valid = FALSE]
    /\ UNCHANGED <<controller, controller_epoch>>

install_controller(q) ==
    /\ controller_epoch + 1 \in Counter
    /\ controller' = q.successor
    /\ controller_epoch' = controller_epoch + 1
    /\ UNCHANGED <<oracle, oracle_epoch, oracle_activated_at, report>>

(* Permissionless, and a mature change never expires.                      *)
ExecuteChange(t, q) ==
    /\ tick(t)
    /\ state # CANCELLED
    /\ live_change(q)
    /\ notice_elapsed(q, t)
    /\ \/ q.kind = CHANGE_ORACLE     /\ install_oracle(q, t)
       \/ q.kind = CHANGE_CONTROLLER /\ install_controller(q)
    /\ close_change(q, PROPOSAL_EXECUTED)
    /\ pending_change' = 0
    /\ UNCHANGED <<state, change_sequence>>

(* Every other mutating handler ticks and may move the lifecycle.          *)
OtherHandlerG(t) ==
    /\ tick(t)
    /\ LifecycleMove \/ UNCHANGED state
    /\ UNCHANGED governanceVars

GNext ==
    \E t \in Instant :
        \/ \E signer \in Key, observed_at \in Instant,
              sequence \in ReportSequence, epoch \in Counter :
              AcceptReport(t, signer, observed_at, sequence, epoch)
        \/ \E kind \in ChangeKind, recovery \in BOOLEAN,
              successor \in ChangeSuccessor, nonce \in Counter :
              ProposeChange(t, kind, recovery, successor, nonce)
        \/ \E q \in changes : CancelChange(t, q)
        \/ \E q \in changes : ExecuteChange(t, q)
        \/ OtherHandlerG(t)

GSpec == GInit /\ [][GNext]_gvars

(* execute_change needs no signature: whoever waits for it can submit it.  *)
GFairness == WF_gvars(\E t \in Instant, q \in changes : ExecuteChange(t, q))

GFairSpec == GSpec /\ GFairness

-----------------------------------------------------------------------------
(***************************************************************************)
(* Properties.                                                             *)
(***************************************************************************)

(* Fields and accounts keep the ranges of state.rs:70-108 and 180-194.     *)
GTypeOK ==
    /\ StateTypeOK
    /\ oracle \in Key /\ controller \in Key
    /\ oracle_epoch \in Counter /\ controller_epoch \in Counter
    /\ oracle_activated_at \in Instant
    /\ change_sequence \in Counter /\ pending_change \in Counter
    /\ changes \subseteq ChangeProposal
    /\ report \in Report

(* The single change slot never jams: it is free, or it holds a proposal   *)
(* that governance.rs::pending still accepts, and no other is outstanding. *)
PendingChangeIsLive ==
    LET open == {q \in changes : q.status = PROPOSAL_PENDING} IN
    IF pending_change = 0 THEN open = {}
    ELSE \E q \in open : open = {q} /\ live_change(q)

(* A report that releases may rely on was observed by the oracle that is   *)
(* in office now, after it took office and inside the period it is for.    *)
ReportFromCurrentOracle ==
    report.valid =>
        /\ report.epoch = oracle_epoch
        /\ report.sequence > 0
        /\ oracle_activated_at <= report.at
        /\ report.at <= last_action_at
        /\ report.period = period_at(report.at)

(* No sequence number is accepted twice and no observation is replaced by  *)
(* an older one, even when the oracle is replaced in between.              *)
ReportsNeverRewind ==
    [][/\ report'.sequence >= report.sequence
       /\ report'.at >= report.at
       /\ report'.valid /\ report' # report =>
             report'.sequence > report.sequence]_gvars

(* The oracle and the controller change one at a time, by a proposal that  *)
(* waited a full notice under the very authorities it found in office.     *)
ChangeNoticeHonoured ==
    [][oracle' # oracle \/ controller' # controller =>
         /\ oracle' = oracle \/ controller' = controller
         /\ \E q \in changes :
               /\ q.nonce = pending_change
               /\ q.successor = IF oracle' # oracle THEN oracle' ELSE controller'
               /\ q.created_at + CHANGE_NOTICE <= last_action_at'
               /\ q.oracle_epoch = oracle_epoch
               /\ q.controller_epoch = controller_epoch]_gvars

(* A proposed change is eventually executed or cancelled, unless the       *)
(* policy itself is cancelled: maturity has no upper bound.                *)
ChangeResolves ==
    pending_change # 0 ~> (pending_change = 0 \/ state = CANCELLED)
==============================================================================
