---------------------------- MODULE LaunchCapacity ----------------------------
(***************************************************************************)
(* The release budget of launch-vault-v7 (capacity.rs): period, annual and *)
(* lifetime accounting of the Founder and Treasury pools, the reserved     *)
(* split of the reported capacity, and the pause after a report has been   *)
(* corrected below what was already released.                              *)
(*                                                                         *)
(* Amounts are naturals: every one of them is bounded by the principals,   *)
(* whose sum bootstrap::validate keeps within the u64 supply of the mint.  *)
(***************************************************************************)
EXTENDS LaunchState

CONSTANTS
    amount,            \* config.founder_amount, config.treasury_amount
    period_cap,        \* config.founder_period_cap, treasury_period_cap
    shared_hard_cap,   \* config.shared_hard_cap
    annual_rules,      \* config.annual_rules, indexed 0 and 1
    RATE_DIVISOR, MAX_RELEASE_BPS, BPS,   \* 12, 500, 10_000
    ReportedCapacity,  \* capacities an oracle may report
    ReleaseAmount      \* amounts an authority may ask for

VARIABLES
    period, annual_index,
    period_used,       \* founder_period_used, treasury_period_used
    annual_used,       \* founder_annual_used, treasury_annual_used
    released_total,    \* founder_released_total, treasury_released_total
    shared_used,
    report_capacity,
    vault              \* accounting fields of the two LaunchVaultV7 accounts

ledgerVars == <<period, annual_index, period_used, annual_used,
                released_total, shared_used, vault>>
cvars == <<state, last_action_at, period, annual_index, period_used,
           annual_used, released_total, shared_used, report_capacity, vault>>

RuleIndex == {0, 1}

AnnualRule == [start_period : Nat, end_period : Nat, basis : [Role -> Nat],
               shared_cap : Nat, release_bps : Nat]

VaultAccount ==
    [principal : Nat, released_total : Nat, period : Nat, period_used : Nat]

(* The vault account does not exist before its deposit.                    *)
NoVault ==
    [principal |-> 0, released_total |-> 0, period |-> 0, period_used |-> 0]

least(a, b) == IF a <= b THEN a ELSE b

annual_cap(i, role) ==
    (annual_rules[i].basis[role] * annual_rules[i].release_bps) \div BPS

(***************************************************************************)
(* What bootstrap::validate and capacity::validate_rules have established. *)
(***************************************************************************)
ASSUME CapacityAssumption ==
    /\ amount \in [Role -> Nat \ {0}]
    /\ period_cap \in [Role -> Nat \ {0}]
    /\ \A role \in Role : period_cap[role] <= amount[role]
    /\ shared_hard_cap \in Nat \ {0}
    /\ RATE_DIVISOR \in Nat \ {0}
    /\ BPS \in Nat \ {0} /\ MAX_RELEASE_BPS \in 0..BPS
    /\ ReportedCapacity \subseteq Nat
    /\ ReleaseAmount \subseteq Nat

ASSUME RulesAssumption ==
    /\ annual_rules \in [RuleIndex -> AnnualRule]
    /\ annual_rules[0].start_period = 0
    /\ annual_rules[0].end_period = annual_rules[1].start_period
    /\ \A i \in RuleIndex :
          /\ annual_rules[i].start_period < annual_rules[i].end_period
          /\ annual_rules[i].release_bps <= MAX_RELEASE_BPS
          /\ \A role \in Role : annual_rules[i].basis[role] <= amount[role]
          /\ annual_rules[i].shared_cap
                <= annual_cap(i, FOUNDER) + annual_cap(i, TREASURY)

CInit ==
    /\ StateInit
    /\ period = 0 /\ annual_index = 0
    /\ period_used = [role \in Role |-> 0]
    /\ annual_used = [role \in Role |-> 0]
    /\ released_total = [role \in Role |-> 0]
    /\ shared_used = 0
    /\ report_capacity = 0
    /\ vault = [role \in Role |-> NoVault]

-----------------------------------------------------------------------------
(***************************************************************************)
(* Pure projection of the budget at instant t, from counters at the start  *)
(* of the period: releases of the current period do not move the quotas.   *)
(***************************************************************************)

\* Mutant: each pool is only held to the shared capacity.
unreserved_quotas(capacity, f, t, eligible) ==
    [role \in Role |-> IF role = TREASURY THEN least(capacity, t)
                       ELSE IF eligible THEN least(capacity, f) ELSE 0]

reserved_quotas(capacity, f, t, eligible) ==
    IF ~eligible THEN [role \in Role |->
                         IF role = FOUNDER THEN 0 ELSE least(capacity, t)]
    ELSE IF f + t = 0 THEN [role \in Role |-> 0]
    ELSE LET available == least(capacity, f + t)
             founders  == (available * f) \div (f + t)
         IN [role \in Role |->
               IF role = FOUNDER THEN founders ELSE available - founders]

covers(i, p) ==
    annual_rules[i].start_period <= p /\ p < annual_rules[i].end_period

rule_at(p) == CHOOSE i \in RuleIndex : covers(i, p)

(* Rolled-over counters are projected as zero.                             *)
used_at(p, role) == IF p = period THEN period_used[role] ELSE 0

\* Mutant: the annual counters are not reset when the next rule takes over.
annual_used_without_rollover(i, role) == annual_used[role]

annual_used_at(i, role) == IF i = annual_index THEN annual_used[role] ELSE 0

\* Mutant: releases of the current period are subtracted a second time.
prior_annual_with_current(p, role) == annual_used_at(rule_at(p), role)

prior_annual(p, role) == annual_used_at(rule_at(p), role) - used_at(p, role)

prior_lifetime(p, role) == released_total[role] - used_at(p, role)

(* The ceiling of one pool for the whole period p.                         *)
cap_at(p, role) ==
    LET annual == annual_cap(rule_at(p), role) IN
    least(least(period_cap[role], annual \div RATE_DIVISOR),
          least(annual - prior_annual(p, role),
                amount[role] - prior_lifetime(p, role)))

\* Mutant: only the Treasury's earlier releases count as shared.
shared_prior_of_treasury(p) == prior_annual(p, TREASURY)

shared_prior(p) == prior_annual(p, FOUNDER) + prior_annual(p, TREASURY)

\* Mutant: what the period has used already is taken off the capacity shared.
unused_capacity_at(p) ==
    least(report_capacity, shared_hard_cap)
        - (used_at(p, FOUNDER) + used_at(p, TREASURY))

capacity_at(p) ==
    least(least(report_capacity, shared_hard_cap),
          annual_rules[rule_at(p)].shared_cap - shared_prior(p))

cliff_passed(t) == t >= t0 + CLIFF

quotas_at(t) ==
    LET p == period_at(t) IN
    reserved_quotas(capacity_at(p), cap_at(p, FOUNDER), cap_at(p, TREASURY),
                    cliff_passed(t))

correction_pause(t) ==
    \E role \in Role : used_at(period_at(t), role) > quotas_at(t)[role]

(* The window may be projected at t: no rollback, and a rule covers it.    *)
window_open(t) ==
    LET p == period_at(t) IN
    /\ p >= period
    /\ \E i \in RuleIndex : covers(i, p)
    /\ rule_at(p) >= annual_index

(* Everything capacity.rs computes with checked_sub: when one of these     *)
(* fails the policy answers InvalidAccounting to every release.            *)
accounting_sound(t) ==
    LET p == period_at(t) IN
    /\ shared_used = period_used[FOUNDER] + period_used[TREASURY]
    /\ \A role \in Role :
          /\ prior_annual(p, role) >= 0
          /\ prior_lifetime(p, role) >= 0
          /\ prior_annual(p, role) <= annual_cap(rule_at(p), role)
          /\ prior_lifetime(p, role) <= amount[role]
    /\ shared_prior(p) <= annual_rules[rule_at(p)].shared_cap

-----------------------------------------------------------------------------
(***************************************************************************)
(* capacity::consume: all checks, then one commit to policy and vault.     *)
(***************************************************************************)

within_budget(t, role, n) ==
    LET p == period_at(t) IN
    /\ used_at(p, role) + n <= quotas_at(t)[role]
    /\ annual_used_at(rule_at(p), role) + n <= annual_cap(rule_at(p), role)
    /\ released_total[role] + n <= vault[role].principal
    /\ used_at(p, FOUNDER) + used_at(p, TREASURY) + n <= capacity_at(p)

\* Mutant: the other pool keeps its counter of an earlier period.
commit_without_rollover(t, role, n) ==
    LET p == period_at(t)
        spend(counter) == [counter EXCEPT ![role] = @ + n]
        used == [period_used EXCEPT ![role] = used_at(p, role) + n]
    IN /\ period' = p /\ annual_index' = rule_at(p)
       /\ period_used' = used
       /\ annual_used' = spend([r \in Role |-> annual_used_at(rule_at(p), r)])
       /\ shared_used' = used[FOUNDER] + used[TREASURY]
       /\ released_total' = spend(released_total)
       /\ vault' = [vault EXCEPT ![role].period = p,
                                 ![role].period_used = used[role],
                                 ![role].released_total = @ + n]

commit(t, role, n) ==
    LET p == period_at(t)
        spend(counter) == [counter EXCEPT ![role] = @ + n]
        used == spend([r \in Role |-> used_at(p, r)])
    IN /\ period' = p
       /\ annual_index' = rule_at(p)
       /\ period_used' = used
       /\ annual_used' = spend([r \in Role |-> annual_used_at(rule_at(p), r)])
       /\ shared_used' = used[FOUNDER] + used[TREASURY]
       /\ released_total' = spend(released_total)
       /\ vault' = [vault EXCEPT ![role].period = p,
                                 ![role].period_used = used[role],
                                 ![role].released_total = @ + n]

consume(t, role, n) ==
    /\ window_open(t)
    /\ accounting_sound(t)
    /\ ~correction_pause(t)
    /\ vault[role].released_total = released_total[role]
    /\ within_budget(t, role, n)
    /\ commit(t, role, n)

-----------------------------------------------------------------------------
(***************************************************************************)
(* The component's steps, as the handlers of lib.rs take them.             *)
(***************************************************************************)

(* The part of `release' that touches the budget.                          *)
Consume(t, role, n) ==
    /\ tick(t)
    /\ state = ACTIVE
    /\ t > t0
    /\ n > 0
    /\ period_at(t) >= period
    /\ period_at(t) >= vault[role].period
    /\ consume(t, role, n)
    /\ UNCHANGED <<state, report_capacity>>

(* An accepted report replaces the capacity for both pools.                *)
SetCapacity(t, c) ==
    /\ tick(t)
    /\ state = ACTIVE
    /\ t >= t0
    /\ report_capacity' = c
    /\ UNCHANGED <<state, ledgerVars>>

(* A deposit creates the vault account of its role.                        *)
OpenVault(t, role) ==
    /\ tick(t)
    /\ state = PREPARED
    /\ vault[role] = NoVault
    /\ vault' = [vault EXCEPT ![role] = [NoVault EXCEPT !.principal = amount[role]]]
    /\ UNCHANGED <<state, report_capacity, period, annual_index, period_used,
                   annual_used, released_total, shared_used>>

OtherHandlerC(t) ==
    /\ tick(t)
    /\ LifecycleMove \/ UNCHANGED state
    /\ UNCHANGED <<ledgerVars, report_capacity>>

CNext ==
    \E t \in Instant :
        \/ \E role \in Role, n \in ReleaseAmount : Consume(t, role, n)
        \/ \E c \in ReportedCapacity : SetCapacity(t, c)
        \/ \E role \in Role : OpenVault(t, role)
        \/ OtherHandlerC(t)

CSpec == CInit /\ [][CNext]_cvars

-----------------------------------------------------------------------------
(***************************************************************************)
(* Properties.                                                             *)
(***************************************************************************)

(* Counters stay naturals, indices stay inside the two annual rules.       *)
CTypeOK ==
    /\ StateTypeOK
    /\ period \in Nat /\ annual_index \in RuleIndex
    /\ period_used \in [Role -> Nat]
    /\ annual_used \in [Role -> Nat]
    /\ released_total \in [Role -> Nat]
    /\ shared_used \in Nat
    /\ report_capacity \in Nat
    /\ vault \in [Role -> VaultAccount]

(* What the release schedule promises, whatever was reported and in        *)
(* whichever order the pools were drawn on: period, annual, aggregate and  *)
(* lifetime ceilings all hold for the counters as stored.                  *)
WithinSchedule ==
    /\ \A role \in Role :
          LET annual == annual_cap(annual_index, role) IN
          /\ period_used[role] <= period_cap[role]
          /\ period_used[role] <= annual \div RATE_DIVISOR
          /\ annual_used[role] <= annual
          /\ released_total[role] <= amount[role]
    /\ annual_used[FOUNDER] + annual_used[TREASURY]
          <= annual_rules[annual_index].shared_cap
    /\ shared_used <= shared_hard_cap
    /\ last_action_at < t0 + CLIFF => released_total[FOUNDER] = 0

(* The three ledgers nest, the vaults repeat the policy's totals, and the  *)
(* stored index is the one of the stored period: no later release can hit  *)
(* InvalidAccounting, which nothing in the program could repair.           *)
LedgerConsistent ==
    /\ shared_used = period_used[FOUNDER] + period_used[TREASURY]
    /\ covers(annual_index, period)
    /\ \A role \in Role :
          /\ period_used[role] <= annual_used[role]
          /\ annual_used[role] <= released_total[role]
          /\ vault[role].released_total = released_total[role]
          /\ vault[role].period <= period
          /\ vault[role].period = period =>
                vault[role].period_used = period_used[role]

NoAccountingFault ==
    \A t \in Instant : t >= last_action_at /\ t >= t0 /\ window_open(t)
                          => accounting_sound(t)

(* What is left of a pool's reservation at instant t.                      *)
Remaining(t, role) == quotas_at(t)[role] - used_at(period_at(t), role)

(* A release never takes from the other pool's reservation, now or at any  *)
(* later instant of the same period, and costs its own pool exactly the    *)
(* amount released.                                                        *)
ReservationProtected ==
    [][\A role \in Role : released_total'[role] # released_total[role] =>
         \A t \in Instant :
            t >= last_action_at' /\ period_at(t) = period' =>
               /\ \A other \in Role \ {role} :
                     Remaining(t, other)' = Remaining(t, other)
               /\ Remaining(t, role)' = Remaining(t, role)
                     - (released_total'[role] - released_total[role])]_cvars

(* A reservation is worth its whole amount: unless a correction paused the *)
(* window, no ceiling of capacity::consume, annual, lifetime or shared,    *)
(* stands between a funded pool and the rest of its quota.                 *)
ReservationUsable ==
    \A t \in Instant, role \in Role :
       /\ t >= last_action_at /\ t > t0
       /\ vault[role] # NoVault
       /\ window_open(t) /\ ~correction_pause(t)
       => within_budget(t, role, Remaining(t, role))

(* Both pools pause only because a report was corrected downwards: neither *)
(* a release, nor the cliff, nor a period or annual boundary causes it.    *)
PauseNeedsCorrection ==
    [][\A t \in Instant :
         t >= last_action_at' /\ t >= t0 /\ (window_open(t) /\ correction_pause(t))'
         => \/ report_capacity' < report_capacity
            \/ last_action_at >= t0 /\ correction_pause(last_action_at)]_cvars
==============================================================================
