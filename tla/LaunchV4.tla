-------------------------------- MODULE LaunchV4 --------------------------------
(***************************************************************************)
(* launch-vault-v4: the handlers of v3 under a controller and an oracle    *)
(* that can be replaced.  Its governance.rs is the one v7 still has, so    *)
(* control is that of LaunchGovernance; its lib.rs differs from v3's in    *)
(* open_policy, and in that a report and a release name the oracle's       *)
(* epoch.  Deposits, arming and cancellation want the controller's         *)
(* signature where v3 wanted the creator's.                                *)
(***************************************************************************)
EXTENDS LaunchV3

CONSTANTS
    Key, DefaultKey,                     \* keys that may hold an office
    creator, initial_oracle, recovery_keys,
    CHANGE_NOTICE, I64_MAX, COUNTER_MAX,
    ChangeSuccessor                      \* keys willing to accept an office

VARIABLES
    oracle, oracle_epoch, oracle_activated_at,
    controller, controller_epoch,
    change_sequence, pending_change,
    changes,                             \* ChangeProposalV4 accounts
    report_epoch, report_valid

controlVars == <<oracle, oracle_epoch, oracle_activated_at, controller,
                 controller_epoch, change_sequence, pending_change, changes>>
epochVars == <<report_epoch, report_valid>>
vars4 == <<vars3, controlVars, epochVars>>

(* governance.rs and the check of a report, over the policy of v4.  They   *)
(* have no use for v7's withdrawal keys.                                   *)
Control == INSTANCE LaunchGovernance WITH
    Pda <- {}, Subject <- {}, WITHDRAWAL_EXECUTION_WINDOW <- 0,
    MAX_SUBMISSION_WINDOW <- 0,
    founder_recovery_keys <- {}, treasury_recovery_keys <- {},
    report <- [period |-> report.period, at |-> report.at,
               sequence |-> report.sequence,
               epoch |-> report_epoch, valid |-> report_valid]

open_policy_v4 ==
    /\ oracle = initial_oracle /\ controller = creator
    /\ oracle_epoch = 0 /\ controller_epoch = 0
    /\ oracle_activated_at = last_action_at
    /\ report_epoch = 0 /\ report_valid = FALSE
    /\ change_sequence = 0 /\ pending_change = 0

Init4 == Init3 /\ open_policy_v4 /\ changes = {}

-----------------------------------------------------------------------------
(***************************************************************************)
(* The handlers of v3.                                                     *)
(***************************************************************************)
uncontrolled == UNCHANGED <<controlVars, epochVars>>

deposit_v4(t, role) == deposit_v3(t, role) /\ uncontrolled
arm_v4(t) == arm_v3(t) /\ uncontrolled
activate_v4(t) == activate_v3(t) /\ uncontrolled
cancel_v4(t) == cancel_v3(t) /\ uncontrolled
expire_unarmed_v4(t) == expire_unarmed_v3(t) /\ uncontrolled
refund_v4(t, role) == refund_v3(t, role) /\ uncontrolled

approve_treasury_v4(t, p, need, recipient) ==
    approve_treasury_v3(t, p, need, recipient) /\ uncontrolled

(* Signed by the oracle in office, for the epoch it names.                 *)
report_capacity_v4(t, capacity, observed_at, sequence, epoch) ==
    /\ report_capacity_v3(t, capacity, observed_at, sequence)
    /\ report_epoch' = epoch
    /\ report_valid' = TRUE
    /\ Control!AcceptReport(t, oracle, observed_at, sequence, epoch)

report_of_incumbent == report_valid /\ report_epoch = oracle_epoch

release_v4(t, role, n, destination) ==
    /\ report_of_incumbent
    /\ release_v3(t, role, n, destination)
    /\ uncontrolled

-----------------------------------------------------------------------------
(***************************************************************************)
(* Changes of the oracle or the controller.                                *)
(***************************************************************************)
launchUnchanged == UNCHANGED <<ledgerVars, reportVars, approvals, tokenVars,
                               annualVars>>

propose_change(t, kind, recovery, successor, nonce) ==
    /\ launchUnchanged /\ UNCHANGED epochVars
    /\ Control!ProposeChange(t, kind, recovery, successor, nonce)

cancel_change(t, q) ==
    /\ launchUnchanged /\ UNCHANGED epochVars
    /\ Control!CancelChange(t, q)

(* Replacing the oracle voids its last report.                             *)
execute_change(t, q) ==
    /\ launchUnchanged /\ UNCHANGED report_epoch
    /\ report_valid' \in BOOLEAN
    /\ Control!ExecuteChange(t, q)

-----------------------------------------------------------------------------
Next4 ==
    \/ \E t \in Instant :
         \/ \E role \in Role : deposit_v4(t, role) \/ refund_v4(t, role)
         \/ arm_v4(t) \/ activate_v4(t) \/ cancel_v4(t) \/ expire_unarmed_v4(t)
         \/ \E c \in ReportedCapacity, observed_at \in Instant,
               sequence \in ReportSequence, epoch \in 0..COUNTER_MAX :
              report_capacity_v4(t, c, observed_at, sequence, epoch)
         \/ \E p \in PolicyPeriod, need \in Need, recipient \in Account \cup Role :
              approve_treasury_v4(t, p, need, recipient)
         \/ \E role \in Role, n \in ReleaseAmount, destination \in Account \cup Role :
              release_v4(t, role, n, destination)
         \/ \E kind \in Control!ChangeKind, recovery \in BOOLEAN,
               successor \in ChangeSuccessor, nonce \in 1..COUNTER_MAX :
              propose_change(t, kind, recovery, successor, nonce)
         \/ \E q \in changes : cancel_change(t, q) \/ execute_change(t, q)
    \/ TokenProgram /\ UNCHANGED annualVars /\ uncontrolled

Spec4 == Init4 /\ [][Next4]_vars4

-----------------------------------------------------------------------------
(* Each program only narrowed its predecessors: whatever v4 does, v3 and   *)
(* v2 would have done, with the same counters afterwards, though from v3   *)
(* on these are derived from per-pool counters that roll over at other     *)
(* moments.  One thing is new: a governance call, too, advances the clock  *)
(* floor, before which no other handler may then be executed.              *)
clock_advances ==
    /\ \E t \in Instant : tick(t)
    /\ UNCHANGED <<state, ledgerVars, reportVars, approvals, tokenVars, annualVars>>
NarrowsPredecessors == Init3 /\ [][(Next3 /\ Next) \/ clock_advances]_vars3

(* Each release rests on a report that its own oracle signed: observed     *)
(* since that oracle took office and inside the period of the release.     *)
(* lib.rs compares an epoch and a flag only; it is governance.rs that has  *)
(* to keep both current through every change of oracle or controller.      *)
ReleasedOnIncumbentReport ==
    [][released_total' # released_total =>
         /\ report_valid
         /\ Control!ReportFromCurrentOracle
         /\ report.period = period_at(last_action_at')]_vars4
==============================================================================
