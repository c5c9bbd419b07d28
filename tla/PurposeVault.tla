------------------------------ MODULE PurposeVault ------------------------------
(***************************************************************************)
(* purpose-vault (B2): several vaults on one policy debit one shared window*)
(* per 30 days.  An oracle reports the traded volume that opens the window;*)
(* a beneficiary vault pays after its cliff, a purpose vault pays needs    *)
(* approved a notice earlier.  A silent oracle can be rotated after 90 days*)
(* or, where the policy declared one, replaced by a small fixed floor.     *)
(*                                                                         *)
(* A vault stands for its frozen authority key as well.  Token balances    *)
(* follow released_total and are left out; of report_count the code only   *)
(* asks whether it is positive, which is market.reported here.             *)
(***************************************************************************)
EXTENDS Integers, FiniteSets, FiniteSetsExt

CONSTANTS
    Vault, Purpose,          \* vaults, and those of VaultKind::Purpose
    Outsider,                \* a key that is no vault's authority
    Key, NoKey,              \* keys an oracle may have; Pubkey::default()
    Amount, Bps, Cliff,      \* deposits clients make
    Volume,                  \* volumes an oracle reports
    Rule,                    \* open_policy arguments <<ceiling, floor, grace>>
    Need, NeedPeriod,        \* approvals an approver makes
    BPS_DENOMINATOR, MONTHS_PER_YEAR, market_capacity_bps, max_age_seconds,
    MIN_CLIFF_SECONDS, PERIOD_SECONDS, MIN_NOTICE_SECONDS,
    ORACLE_ROTATION_NOTICE_SECONDS, MIN_SILENCE_GRACE_SECONDS,
    END,                     \* bound: the last instant of the clock
    ROLLBACKS,               \* bound: times the clock steps back
    LAST_OPENING,            \* bound: no policy is opened later
    LAST_DEPOSIT,            \* bound: no deposit is made later
    LAST_REPORT,             \* bound: the oracle falls silent for good
    LAST_PROPOSAL            \* bound: no rotation is proposed later

VARIABLES
    now, rollbacks,          \* the Clock sysvar, and its steps back so far
    policy,                  \* PolicyWindow, or NoPolicy
    market,                  \* MarketInput, or NoPolicy
    vault,                   \* CovenantVault of each vault, or NoVault
    approvals,               \* Approval accounts, never closed
    destination_owner,       \* owner of the payee's token account
    reporter                 \* auxiliary: who made the last report

vars == <<now, rollbacks, policy, market, vault, approvals, destination_owner,
          reporter>>

ASSUME PolicyAssumption ==
    /\ IsFiniteSet(Vault) /\ Purpose \subseteq Vault
    /\ NoKey \notin Key /\ Key # {}
    /\ Amount \cup Bps \cup Volume \cup Need \cup NeedPeriod \subseteq Nat
    /\ Cliff \subseteq Int
    /\ Rule \subseteq Nat \X Nat \X Int
    /\ {BPS_DENOMINATOR, MONTHS_PER_YEAR, PERIOD_SECONDS} \subseteq Nat \ {0}
    /\ {market_capacity_bps, max_age_seconds, MIN_CLIFF_SECONDS,
        MIN_NOTICE_SECONDS, ORACLE_ROTATION_NOTICE_SECONDS,
        MIN_SILENCE_GRACE_SECONDS, END} \subseteq Nat

NoPolicy == [genesis_ts |-> -1]
NoVault == [deposited_amount |-> 0, released_total |-> 0]

Init ==
    /\ now = 0 /\ rollbacks = 0
    /\ policy = NoPolicy /\ market = NoPolicy
    /\ vault = [v \in Vault |-> NoVault]
    /\ approvals = {}
    /\ destination_owner = Outsider
    /\ reporter = NoKey

-----------------------------------------------------------------------------
(***************************************************************************)
(* policy.rs                                                               *)
(***************************************************************************)

\* Both divisions round down, the yearly one first.
monthly_cap(deposited, bps) ==
    ((deposited * bps) \div BPS_DENOMINATOR) \div MONTHS_PER_YEAR

market_capacity(volume) == (volume * market_capacity_bps) \div BPS_DENOMINATOR

lesser(a, b) == IF a < b THEN a ELSE b
later(a, b) == IF a > b THEN a ELSE b

effective_capacity(volume) == lesser(market_capacity(volume), policy.hard_ceiling)

period_index == (now - policy.genesis_ts) \div PERIOD_SECONDS

age == now - market.updated_at
fresh == 0 <= age /\ age <= max_age_seconds

\* Mutant: the floor never engages.
window_without_floor ==
    IF market.reported /\ fresh
    THEN effective_capacity(market.eligible_volume) ELSE 0

(* Zero where the code returns an error: it refuses every amount as well.  *)
window_capacity ==
    IF ~market.reported THEN 0
    ELSE IF fresh THEN effective_capacity(market.eligible_volume)
    ELSE IF policy.silence_floor > 0 /\ age >= policy.silence_grace_seconds
         THEN lesser(policy.silence_floor, policy.hard_ceiling)
    ELSE 0

-----------------------------------------------------------------------------
(***************************************************************************)
(* Policy, deposits and approvals.                                         *)
(***************************************************************************)

valid_rule(hard_ceiling, silence_floor, silence_grace_seconds) ==
    /\ hard_ceiling > 0
    /\ IF silence_floor > 0
       THEN silence_grace_seconds >= MIN_SILENCE_GRACE_SECONDS
       ELSE silence_grace_seconds = 0

open_policy(oracle, rule) ==
    /\ policy = NoPolicy
    /\ valid_rule(rule[1], rule[2], rule[3])
    /\ policy' = [genesis_ts |-> now, current_period_index |-> 0,
                  released_this_period |-> 0, hard_ceiling |-> rule[1],
                  silence_floor |-> rule[2], silence_grace_seconds |-> rule[3],
                  vault_count |-> 0]
    /\ market' = [genesis_ts |-> now, oracle |-> oracle, eligible_volume |-> 0,
                  updated_at |-> 0, reported |-> FALSE,
                  pending_oracle |-> NoKey, pending_since |-> 0]
    /\ UNCHANGED <<now, rollbacks, vault, approvals, destination_owner, reporter>>

cliff_allowed(v, cliff_seconds) ==
    IF v \in Purpose THEN cliff_seconds = 0
    ELSE cliff_seconds >= MIN_CLIFF_SECONDS

(* The mint has no authorities left and the policy authority co-signs.     *)
deposit(v, amount, bps, cliff_seconds) ==
    /\ policy # NoPolicy
    /\ vault[v] = NoVault
    /\ amount > 0
    /\ cliff_allowed(v, cliff_seconds)
    /\ monthly_cap(amount, bps) > 0
    /\ vault' = [vault EXCEPT ![v] =
         [deposited_amount |-> amount, monthly_cap |-> monthly_cap(amount, bps),
          released_total |-> 0, released_this_period |-> 0,
          current_period_index |-> 0, cliff_end_ts |-> now + cliff_seconds]]
    /\ policy' = [policy EXCEPT !.vault_count = @ + 1]
    /\ UNCHANGED <<now, rollbacks, market, approvals, destination_owner, reporter>>

approve(v, period, need) ==
    /\ vault[v] # NoVault
    /\ v \in Purpose
    /\ need > 0
    /\ destination_owner # v
    /\ now >= policy.genesis_ts
    /\ period > period_index
    /\ ~\E a \in approvals : a.vault = v /\ a.period_index = period
    /\ approvals' = approvals \cup
         {[vault |-> v, period_index |-> period, approved_need |-> need,
           consumed |-> 0, created_at |-> now]}
    /\ UNCHANGED <<now, rollbacks, policy, market, vault, destination_owner,
                   reporter>>

-----------------------------------------------------------------------------
(***************************************************************************)
(* The market input.                                                       *)
(***************************************************************************)

report_volume(eligible_volume) ==
    /\ market # NoPolicy
    /\ market' = [market EXCEPT !.eligible_volume = eligible_volume,
                                !.updated_at = now,
                                !.reported = TRUE]
    /\ reporter' = market.oracle
    /\ UNCHANGED <<now, rollbacks, policy, vault, approvals, destination_owner>>

\* Mutant: a replacement inherits the notice of the proposal it replaces.
inherited_clock ==
    IF market.pending_oracle = NoKey THEN now ELSE market.pending_since

proposal_clock == now

propose_oracle(new_oracle) ==
    /\ market # NoPolicy
    /\ new_oracle # NoKey
    /\ market' = [market EXCEPT !.pending_oracle = new_oracle,
                                !.pending_since = proposal_clock]
    /\ UNCHANGED <<now, rollbacks, policy, vault, approvals, destination_owner,
                   reporter>>

(* Anybody may call it; the reported figure and its time stay.             *)
execute_oracle_rotation ==
    /\ market # NoPolicy
    /\ market.pending_oracle # NoKey
    /\ now - market.pending_since >= ORACLE_ROTATION_NOTICE_SECONDS
    /\ market' = [market EXCEPT !.oracle = market.pending_oracle,
                                !.pending_oracle = NoKey, !.pending_since = 0]
    /\ UNCHANGED <<now, rollbacks, policy, vault, approvals, destination_owner,
                   reporter>>

-----------------------------------------------------------------------------
(***************************************************************************)
(* Releases.                                                               *)
(***************************************************************************)

(* What a counter kept for the period index stored with it holds in the    *)
(* period of the clock: a later period starts from zero.                   *)
carried(account) ==
    IF period_index > account.current_period_index
    THEN 0 ELSE account.released_this_period

\* Mutant: the shared window restarts with the vault's own period.
window_of_vault(v) ==
    IF period_index > vault[v].current_period_index
    THEN 0 ELSE policy.released_this_period

window_used(v) == carried(policy)

apply_release(v, amount) ==
    /\ amount > 0
    /\ carried(vault[v]) + amount <= vault[v].monthly_cap
    /\ vault[v].released_total + amount <= vault[v].deposited_amount
    /\ window_used(v) + amount <= window_capacity
    /\ policy' = [policy EXCEPT
         !.current_period_index = later(@, period_index),
         !.released_this_period = window_used(v) + amount]
    /\ vault' = [vault EXCEPT
         ![v].current_period_index = later(@, period_index),
         ![v].released_this_period = carried(vault[v]) + amount,
         ![v].released_total = @ + amount]

\* Mutant: the cliff is not consulted.
cliff_ignored(v) == TRUE

cliff_over(v) == now >= vault[v].cliff_end_ts

release_beneficiary(v, amount) ==
    /\ vault[v] # NoVault
    /\ v \notin Purpose
    /\ cliff_over(v)
    /\ now >= policy.genesis_ts
    /\ apply_release(v, amount)
    /\ UNCHANGED <<now, rollbacks, market, approvals, destination_owner, reporter>>

approved_now(a) ==
    /\ a.period_index = period_index
    /\ now - a.created_at >= MIN_NOTICE_SECONDS

\* Mutant: each payment is held against the whole need.
each_within_need(a, amount) == amount <= a.approved_need

within_need(a, amount) == a.consumed + amount <= a.approved_need

release_purpose(v, a, amount) ==
    /\ a.vault = v
    /\ v \in Purpose
    /\ destination_owner # v
    /\ now >= policy.genesis_ts
    /\ approved_now(a)
    /\ within_need(a, amount)
    /\ apply_release(v, amount)
    /\ approvals' = (approvals \ {a}) \cup {[a EXCEPT !.consumed = @ + amount]}
    /\ UNCHANGED <<now, rollbacks, market, destination_owner, reporter>>

-----------------------------------------------------------------------------
(***************************************************************************)
(* Environment and specification.                                          *)
(***************************************************************************)

Elapse == now < END /\ now' = now + 1 /\ UNCHANGED rollbacks
StepBack ==
    /\ now > 0 /\ rollbacks < ROLLBACKS
    /\ now' = now - 1 /\ rollbacks' = rollbacks + 1

ClockMoves ==
    /\ Elapse \/ StepBack
    /\ UNCHANGED <<policy, market, vault, approvals, destination_owner, reporter>>

(* The payee's account may change hands, to an approver as well.           *)
ReassignDestination ==
    /\ destination_owner' \in Purpose \cup {Outsider}
    /\ UNCHANGED <<now, rollbacks, policy, market, vault, approvals, reporter>>

Reporting == now <= LAST_REPORT /\ \E x \in Volume : report_volume(x)

Releasing(v) ==
    \E amount \in 1..END :
      \/ release_beneficiary(v, amount)
      \/ \E a \in approvals : release_purpose(v, a, amount)

Next ==
    \/ ClockMoves
    \/ ReassignDestination
    \/ now <= LAST_OPENING /\ \E k \in Key, rule \in Rule : open_policy(k, rule)
    \/ /\ now <= LAST_DEPOSIT
       /\ \E v \in Vault, amount \in Amount, bps \in Bps, cliff \in Cliff :
            deposit(v, amount, bps, cliff)
    \/ \E v \in Vault, p \in NeedPeriod, need \in Need : approve(v, p, need)
    \/ Reporting
    \/ now <= LAST_PROPOSAL /\ \E k \in Key : propose_oracle(k)
    \/ execute_oracle_rotation
    \/ \E v \in Vault : Releasing(v)

Spec == Init /\ [][Next]_vars

(* Time passes, and a beneficiary claims what can be claimed.              *)
FairSpec ==
    /\ Spec
    /\ WF_vars(Elapse /\ ClockMoves)
    /\ \A v \in Vault \ Purpose :
         WF_vars(\E amount \in 1..END : release_beneficiary(v, amount))

-----------------------------------------------------------------------------
(***************************************************************************)
(* Properties.                                                             *)
(***************************************************************************)

Open == {v \in Vault : vault[v] # NoVault}

(* The shared counter never understates what the vaults released in its    *)
(* period, so the frozen ceiling bounds their sum, even though each vault  *)
(* and the policy roll over lazily, at different releases, and the clock   *)
(* may have stepped back in between.                                       *)
SharedWindowHolds ==
    policy # NoPolicy =>
      /\ SumFunctionOnSet([v \in Open |-> vault[v].released_this_period],
                          {v \in Open : vault[v].current_period_index
                                          = policy.current_period_index})
           <= policy.released_this_period
      /\ policy.released_this_period <= policy.hard_ceiling

(* Every token a purpose vault paid is accounted to an approval, each one  *)
(* within its need.                                                        *)
PurposePaidAsApproved ==
    \A v \in Open \cap Purpose :
      LET mine == {a \in approvals : a.vault = v}
      IN  /\ vault[v].released_total = SumFunction([a \in mine |-> a.consumed])
          /\ \A a \in mine : a.consumed <= a.approved_need

(* A beneficiary vault whose cliff ends on a window boundary keeps the     *)
(* schedule of the single-vault program, whatever other vaults, the oracle *)
(* and the floor do.  (Off a boundary the two windows are out of step.)    *)
aligned(v) ==
    /\ vault[v] # NoVault
    /\ (vault[v].cliff_end_ts - policy.genesis_ts) % PERIOD_SECONDS = 0

(* Windows are counted from the cliff there and from the policy here.  *)
cliff_window(v) == (vault[v].cliff_end_ts - policy.genesis_ts) \div PERIOD_SECONDS

as_single_vault(v) ==
    IF ~aligned(v) THEN NoVault
    ELSE IF vault[v].released_total = 0 THEN vault[v]
    ELSE [vault[v] EXCEPT !.current_period_index = @ - cliff_window(v)]

Single(v) == INSTANCE BeneficiaryVault WITH
    MonthlyCap <- monthly_cap, Payment <- 1..END,
    vault_state <- as_single_vault(v)

KeepsSingleVaultSchedule ==
    /\ \A v \in Vault \ Purpose : Single(v)!Init
    /\ [][\A v \in Vault \ Purpose : [Single(v)!Next]_(Single(v)!vaultVars)]_vars

(* The oracle only ever becomes a key that was announced for 90 days.      *)
Rotation == INSTANCE NoticePeriod WITH
    Value <- Key,
    NOTICE <- ORACLE_ROTATION_NOTICE_SECONDS,
    inForce <- IF market = NoPolicy THEN CHOOSE k \in Key : TRUE
               ELSE market.oracle,
    governed <- market # NoPolicy,
    announced <- IF market = NoPolicy \/ market.pending_oracle = NoKey THEN {}
                 ELSE {[value |-> market.pending_oracle,
                        since |-> market.pending_since]},
    time <- now

RotationNoticed == Rotation!Spec

(* With a declared floor, an oracle that spoke once and fell silent cannot *)
(* lock a beneficiary out.                                                 *)
SilenceCannotLock ==
    \A v \in Vault \ Purpose :
      (/\ vault[v] # NoVault
       /\ policy.silence_floor > 0
       /\ market.reported) ~> (vault[v].released_total > 0)

(* What the documents say of a rotation: no release until the new oracle   *)
(* has spoken.  The code does not keep it.                                 *)
IncomingOracleSpeaksFirst ==
    [][(\E v \in Open : vault'[v].released_total # vault[v].released_total)
         => reporter = market.oracle]_vars
==============================================================================
