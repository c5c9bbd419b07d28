-------------------------------- MODULE LaunchV2 --------------------------------
(***************************************************************************)
(* launch-vault-v2: the first launch program.  Two pools are funded, armed *)
(* and activated at t0, or cancelled and refunded; once active, they share *)
(* the capacity an oracle reports for a period, first come, first served.  *)
(* Keys never change.  Later programs keep these handlers and narrow them. *)
(*                                                                         *)
(* As in the other modules a handler takes the instant t it reads from the *)
(* clock.  A role also names the custody token account of its pool.        *)
(***************************************************************************)
EXTENDS Integers, FiniteSets

CONSTANTS
    Instant,                             \* bound: instants a clock may show
    PERIOD, CLIFF, t0, max_report_age,
    amount, period_cap, shared_hard_cap, \* LaunchConfig, by role
    founder, treasury,                   \* keys of LaunchPolicyV2
    Owner,                               \* keys that may own an account
    Account,                             \* token accounts of the public
    ReportedCapacity, ReportSequence,    \* arguments an oracle may sign
    PolicyPeriod, Need,                  \* arguments the Treasury may sign
    ReleaseAmount,
    DUST                                 \* bound: tokens a pool holds unasked

VARIABLES
    state, last_action_at,
    period, shared_used,     \* of the policy
    report,                  \* report_sequence, report_period, report_at
    report_capacity,
    vault,                   \* accounting fields of the two LaunchVaultV2
    approvals,               \* TreasuryApprovalV2 accounts
    custody,                 \* balances of the two vault_token accounts
    owner                    \* owners of the public's token accounts

reportVars == <<report, report_capacity>>
ledgerVars == <<period, shared_used, vault>>
tokenVars == <<custody, owner>>
vars == <<state, last_action_at, period, shared_used, report, report_capacity,
          vault, approvals, custody, owner>>

PREPARED  == 0
ARMED     == 1
ACTIVE    == 2
CANCELLED == 3

FOUNDER  == 0
TREASURY == 1
Role == {FOUNDER, TREASURY}

NoVault ==
    [principal |-> 0, released_total |-> 0, period |-> 0, period_used |-> 0]

(* What open_policy requires of a configuration; the compiled cliff is a   *)
(* whole number of periods (180 days of 30).                               *)
ASSUME ConfigAssumption ==
    /\ Instant \subseteq Nat /\ t0 \in Nat /\ PERIOD \in Nat \ {0}
    /\ CLIFF \in Nat /\ \E n \in 0..CLIFF : CLIFF = n * PERIOD
    /\ ReportedCapacity \cup ReportSequence \subseteq Nat
    /\ amount \in [Role -> Nat \ {0}] /\ period_cap \in [Role -> Nat \ {0}]
    /\ \A role \in Role : period_cap[role] <= amount[role]
    /\ shared_hard_cap \in Nat \ {0}
    /\ ReleaseAmount \subseteq Nat /\ DUST \in Nat
    /\ Role \cap Account = {}

open_policy ==
    /\ last_action_at \in {t \in Instant : t < t0}
    /\ state = PREPARED
    /\ period = 0 /\ shared_used = 0
    /\ report = [sequence |-> 0, period |-> 0, at |-> 0]
    /\ report_capacity = 0

Init ==
    /\ open_policy
    /\ vault = [role \in Role |-> NoVault]
    /\ approvals = {}
    /\ custody = [role \in Role |-> 0]
    /\ owner \in [Account -> Owner]

-----------------------------------------------------------------------------
period_at(t) == (t - t0) \div PERIOD

period_start(p) == t0 + p * PERIOD

tick(t) ==
    /\ t >= last_action_at
    /\ last_action_at' = t

funded_mask == {role \in Role : vault[role] # NoVault}

owner_of(a) == IF a \in Role THEN a ELSE owner[a]

-----------------------------------------------------------------------------
(***************************************************************************)
(* Lifecycle.                                                              *)
(***************************************************************************)

(* Creates the vault and its token account; the principal is exact.        *)
deposit(t, role) ==
    /\ tick(t)
    /\ state = PREPARED
    /\ t < t0
    /\ role \notin funded_mask
    /\ custody' = [custody EXCEPT ![role] = @ + amount[role]]
    /\ vault' = [vault EXCEPT ![role] = [NoVault EXCEPT !.principal = amount[role]]]
    /\ UNCHANGED <<state, period, shared_used, reportVars, approvals, owner>>

stateChange(t, s) ==
    /\ tick(t)
    /\ state' = s
    /\ UNCHANGED <<ledgerVars, reportVars, approvals, tokenVars>>

arm(t) ==
    /\ state = PREPARED
    /\ t < t0
    /\ funded_mask = Role
    /\ stateChange(t, ARMED)

activate(t) ==
    /\ state = ARMED
    /\ t >= t0
    /\ stateChange(t, ACTIVE)

\* Mutant: the controller and the beneficiaries may cancel after t0 as well.
cancel_after_t0(t) == state # CANCELLED /\ stateChange(t, CANCELLED)

cancel(t) ==
    /\ state \in {PREPARED, ARMED}
    /\ t < t0
    /\ stateChange(t, CANCELLED)

expire_unarmed(t) ==
    /\ state = PREPARED
    /\ t >= t0
    /\ stateChange(t, CANCELLED)

(* All there is, dust included, back to the depositor.                     *)
refund(t, role) ==
    /\ tick(t)
    /\ state = CANCELLED
    /\ role \in funded_mask
    /\ vault[role].released_total = 0
    /\ custody[role] > 0
    /\ custody' = [custody EXCEPT ![role] = 0]
    /\ UNCHANGED <<state, ledgerVars, reportVars, approvals, owner>>

-----------------------------------------------------------------------------
(***************************************************************************)
(* Reports and approvals.                                                  *)
(***************************************************************************)

fresh_report(t, observed_at, sequence) ==
    /\ sequence > report.sequence
    /\ observed_at >= report.at
    /\ observed_at >= period_start(period_at(t))
    /\ observed_at <= t
    /\ t - observed_at <= max_report_age

report_capacity_v2(t, capacity, observed_at, sequence) ==
    /\ tick(t)
    /\ state = ACTIVE
    /\ fresh_report(t, observed_at, sequence)
    /\ report' = [sequence |-> sequence, period |-> period_at(t),
                  at |-> observed_at]
    /\ report_capacity' = capacity
    /\ UNCHANGED <<state, ledgerVars, approvals, tokenVars>>

approve_treasury(t, p, need, recipient) ==
    /\ tick(t)
    /\ state # CANCELLED
    /\ need > 0
    /\ recipient \in Role => recipient \in funded_mask
    /\ owner_of(recipient) # treasury
    /\ t >= t0 => p > period_at(t)
    /\ t + PERIOD < period_start(p + 1)
    /\ ~\E a \in approvals : a.period = p
    /\ approvals' = approvals \cup
         {[period |-> p, recipient |-> recipient,
           recipient_owner |-> owner_of(recipient),
           need |-> need, consumed |-> 0, created_at |-> t]}
    /\ UNCHANGED <<state, ledgerVars, reportVars, tokenVars>>

-----------------------------------------------------------------------------
(***************************************************************************)
(* Releases.                                                               *)
(***************************************************************************)

report_usable(t) ==
    /\ report.sequence > 0
    /\ report.period = period_at(t)
    /\ report.at <= t
    /\ t - report.at <= max_report_age

pays_founder(t, destination) ==
    /\ t >= t0 + CLIFF
    /\ owner_of(destination) = founder
    /\ UNCHANGED approvals

pays_approved(t, destination, n) ==
    \E a \in approvals :
        /\ a.period = period_at(t)
        /\ a.recipient = destination
        /\ a.recipient_owner = owner_of(destination)
        /\ a.recipient_owner # treasury
        /\ t >= a.created_at + PERIOD
        /\ a.consumed + n <= a.need
        /\ approvals' = (approvals \ {a}) \cup {[a EXCEPT !.consumed = @ + n]}

(* The token program moves n out of a pool, into the other one's custody   *)
(* account if that is the recipient; source and destination must differ.   *)
transfer(role, destination, n) ==
    /\ custody[role] >= n
    /\ destination # role
    /\ custody' = [r \in Role |-> custody[r] - (IF r = role THEN n ELSE 0)
                                    + (IF r = destination THEN n ELSE 0)]

(* Everything but the accounting of the capacity.                          *)
releasing(t, role, n, destination) ==
    /\ tick(t)
    /\ state = ACTIVE
    /\ t > t0
    /\ n > 0
    /\ period_at(t) >= period
    /\ period_at(t) >= vault[role].period
    /\ report_usable(t)
    /\ \/ role = FOUNDER /\ pays_founder(t, destination)
       \/ role = TREASURY /\ pays_approved(t, destination, n)
    /\ transfer(role, destination, n)
    /\ UNCHANGED <<state, reportVars, owner>>

(* Both counters restart with the first release of a later period.         *)
first_come(t, role, n) ==
    LET p == period_at(t)
        own == n + (IF p > vault[role].period THEN 0 ELSE vault[role].period_used)
        shared == n + (IF p > period THEN 0 ELSE shared_used)
    IN  /\ vault[role].released_total + n <= vault[role].principal
        /\ own <= period_cap[role]
        /\ shared <= shared_hard_cap /\ shared <= report_capacity
        /\ period' = p
        /\ shared_used' = shared
        /\ vault' = [vault EXCEPT ![role].period = p,
                                  ![role].period_used = own,
                                  ![role].released_total = @ + n]

release(t, role, n, destination) ==
    /\ releasing(t, role, n, destination)
    /\ first_come(t, role, n)

-----------------------------------------------------------------------------
(***************************************************************************)
(* Token accounts change outside the program.                              *)
(***************************************************************************)

(* Anybody can send tokens to a custody account.                           *)
Donate(role) ==
    /\ role \in funded_mask
    /\ custody[role] < DUST + (IF state = CANCELLED THEN 0
                              ELSE amount[role] - vault[role].released_total)
    /\ custody' = [custody EXCEPT ![role] = @ + 1]
    /\ UNCHANGED <<state, last_action_at, ledgerVars, reportVars, approvals, owner>>

SetAuthority(a) ==
    /\ \E k \in Owner : owner' = [owner EXCEPT ![a] = k]
    /\ UNCHANGED <<state, last_action_at, ledgerVars, reportVars, approvals, custody>>

TokenProgram ==
    \/ \E role \in Role : Donate(role)
    \/ \E a \in Account : SetAuthority(a)

Next ==
    \/ \E t \in Instant :
         \/ \E role \in Role : deposit(t, role) \/ refund(t, role)
         \/ arm(t) \/ activate(t) \/ cancel(t) \/ expire_unarmed(t)
         \/ \E c \in ReportedCapacity, observed_at \in Instant,
               sequence \in ReportSequence :
              report_capacity_v2(t, c, observed_at, sequence)
         \/ \E p \in PolicyPeriod, need \in Need, recipient \in Account \cup Role :
              approve_treasury(t, p, need, recipient)
         \/ \E role \in Role, n \in ReleaseAmount, destination \in Account \cup Role :
              release(t, role, n, destination)
    \/ TokenProgram

Spec == Init /\ [][Next]_vars

-----------------------------------------------------------------------------
(* The escrow v7 implements was kept from the first program on.            *)
Escrow == INSTANCE LaunchEscrow WITH
    Pool <- Role,
    principal <- amount,
    phase <- CASE state = PREPARED  -> "open"
               [] state = ARMED     -> "committed"
               [] state = ACTIVE    -> "paying"
               [] state = CANCELLED -> "aborted",
    funded <- funded_mask,
    held <- custody,
    paid <- [role \in Role |-> vault[role].released_total]
KeepsEscrow == Escrow!Spec
==============================================================================
