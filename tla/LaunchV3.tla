-------------------------------- MODULE LaunchV3 --------------------------------
(***************************************************************************)
(* launch-vault-v3: the handlers of v2, with releases held to annual rules *)
(* and to reserved shares of the capacity.  Its capacity.rs is the one v7  *)
(* still has, so the budget is that of LaunchCapacity; its lib.rs differs  *)
(* from v2's in open_policy and in release.                                *)
(***************************************************************************)
EXTENDS LaunchV2

CONSTANTS
    annual_rules, RATE_DIVISOR, MAX_RELEASE_BPS, BPS

VARIABLES
    annual_index, period_used, annual_used, released_total

annualVars == <<annual_index, period_used, annual_used, released_total>>
vars3 == <<vars, annualVars>>

(* The budget of capacity.rs, over the policy and the vaults of v3.  It    *)
(* has no use for v7's keys, committees, notices and counters.             *)
Budget == INSTANCE LaunchCapacity WITH
    Key <- {}, Pda <- {}, DefaultKey <- {}, Subject <- {},
    I64_MAX <- 0, COUNTER_MAX <- 0, CHANGE_NOTICE <- 0,
    WITHDRAWAL_EXECUTION_WINDOW <- 0, MAX_SUBMISSION_WINDOW <- 0,
    creator <- {}, initial_oracle <- {}, recovery_keys <- {},
    founder_recovery_keys <- {}, treasury_recovery_keys <- {}

(* What the types of state.rs and capacity::validate_rules keep of a rule. *)
ASSUME RulesAssumption ==
    /\ annual_rules \in [Budget!RuleIndex -> Budget!AnnualRule]
    /\ BPS \in Nat \ {0} /\ RATE_DIVISOR \in Nat \ {0}

open_policy_v3 ==
    /\ open_policy
    /\ annual_index = 0
    /\ period_used = [role \in Role |-> 0]
    /\ annual_used = [role \in Role |-> 0]
    /\ released_total = [role \in Role |-> 0]

Init3 == Init /\ open_policy_v3

-----------------------------------------------------------------------------
deposit_v3(t, role) == deposit(t, role) /\ UNCHANGED annualVars
arm_v3(t) == arm(t) /\ UNCHANGED annualVars
activate_v3(t) == activate(t) /\ UNCHANGED annualVars
cancel_v3(t) == cancel(t) /\ UNCHANGED annualVars
expire_unarmed_v3(t) == expire_unarmed(t) /\ UNCHANGED annualVars
refund_v3(t, role) == refund(t, role) /\ UNCHANGED annualVars

report_capacity_v3(t, capacity, observed_at, sequence) ==
    report_capacity_v2(t, capacity, observed_at, sequence) /\ UNCHANGED annualVars

approve_treasury_v3(t, p, need, recipient) ==
    approve_treasury(t, p, need, recipient) /\ UNCHANGED annualVars

-----------------------------------------------------------------------------
(* The period's limits can be projected, and no pool is above its quota.   *)
window_limits(t) ==
    /\ Budget!window_open(t)
    /\ Budget!accounting_sound(t)
    /\ ~Budget!correction_pause(t)

\* Mutant: a pool may draw whatever is left of the capacity, as in v2.
within_capacity(t, role, n) ==
    LET p == period_at(t)
        used == Budget!used_at(p, FOUNDER) + Budget!used_at(p, TREASURY)
    IN  /\ Budget!used_at(p, role) + n <= Budget!cap_at(p, role)
        /\ used + n <= Budget!capacity_at(p)

within_limits(t, role, n) == Budget!within_budget(t, role, n)

consume(t, role, n) ==
    /\ window_limits(t)
    /\ vault[role].released_total = released_total[role]
    /\ within_limits(t, role, n)
    /\ Budget!commit(t, role, n)

release_v3(t, role, n, destination) ==
    /\ releasing(t, role, n, destination)
    /\ consume(t, role, n)

-----------------------------------------------------------------------------
Next3 ==
    \/ \E t \in Instant :
         \/ \E role \in Role : deposit_v3(t, role) \/ refund_v3(t, role)
         \/ arm_v3(t) \/ activate_v3(t) \/ cancel_v3(t) \/ expire_unarmed_v3(t)
         \/ \E c \in ReportedCapacity, observed_at \in Instant,
               sequence \in ReportSequence :
              report_capacity_v3(t, c, observed_at, sequence)
         \/ \E p \in PolicyPeriod, need \in Need, recipient \in Account \cup Role :
              approve_treasury_v3(t, p, need, recipient)
         \/ \E role \in Role, n \in ReleaseAmount, destination \in Account \cup Role :
              release_v3(t, role, n, destination)
    \/ TokenProgram /\ UNCHANGED annualVars

Spec3 == Init3 /\ [][Next3]_vars3

-----------------------------------------------------------------------------
(* The starvation v2 is documented with is gone: a release never takes     *)
(* from the other pool an amount it could have released itself, now or     *)
(* later in the period.                                                    *)
could_release(t, role, n) ==
    /\ window_limits(t)
    /\ within_limits(t, role, n)
NoStarvation ==
    [][\A role, other \in Role :
         released_total'[role] # released_total[role] /\ other # role =>
           \A t \in Instant, n \in ReleaseAmount :
             /\ t >= last_action_at' /\ period_at(t) = period'
             /\ could_release(t, other, n)
             => could_release(t, other, n)']_vars3
==============================================================================
