----------------------------- MODULE LaunchState -----------------------------
(***************************************************************************)
(* State shared by every component of launch-vault-v7 (state.rs): the time *)
(* constants, the configuration frozen when the policy was opened, the     *)
(* lifecycle state and the clock floor every mutating handler ratchets     *)
(* (LaunchPolicyV7::tick).                                                 *)
(*                                                                         *)
(* There is no variable for wall-clock time.  A handler reads the Clock    *)
(* sysvar, which the program does not control, so each action takes the    *)
(* instant it read as a parameter and only tick() relates it to the past.  *)
(***************************************************************************)
EXTENDS Integers

CONSTANTS
    Key,                          \* public keys somebody can sign with
    Pda,                          \* program-derived addresses: nobody can
    DefaultKey,                   \* Pubkey::default()
    Subject,                      \* addresses that may get an index account
    Instant,                      \* values the Clock sysvar may return
    I64_MAX,                      \* largest representable time
    COUNTER_MAX,                  \* u64::MAX as it limits nonces and epochs
    PERIOD, CLIFF, CHANGE_NOTICE, WITHDRAWAL_EXECUTION_WINDOW,
    MAX_SUBMISSION_WINDOW,
    t0, max_report_age,           \* LaunchConfig
    creator, founder, treasury,   \* initial actors
    initial_oracle,
    recovery_keys,                \* controller/oracle committee
    founder_recovery_keys, treasury_recovery_keys

VARIABLES
    state,                        \* lifecycle state of the policy
    last_action_at                \* the clock floor

PREPARED  == 0
ARMED     == 1
ACTIVE    == 2
CANCELLED == 3
LifecycleState == {PREPARED, ARMED, ACTIVE, CANCELLED}

FOUNDER  == 0
TREASURY == 1
Role == {FOUNDER, TREASURY}

PROPOSAL_PENDING   == 0
PROPOSAL_EXECUTED  == 1
PROPOSAL_CANCELLED == 2
PROPOSAL_EXPIRED   == 3
ProposalStatus == {PROPOSAL_PENDING, PROPOSAL_EXECUTED, PROPOSAL_CANCELLED,
                   PROPOSAL_EXPIRED}

Address == Key \cup Pda

Counter == 0..COUNTER_MAX

(***************************************************************************)
(* The compiled constants: every duration is positive and the Founder      *)
(* cliff is a whole number of periods (180 days of 30-day periods).        *)
(***************************************************************************)
ASSUME TimeAssumption ==
    /\ PERIOD \in Nat \ {0} /\ CLIFF \in Nat
    /\ \E n \in 0..CLIFF : CLIFF = n * PERIOD
    /\ CHANGE_NOTICE \in Nat \ {0}
    /\ WITHDRAWAL_EXECUTION_WINDOW \in Nat \ {0}
    /\ MAX_SUBMISSION_WINDOW \in Nat
    /\ I64_MAX \in Nat
    /\ Instant \subseteq 0..I64_MAX
    /\ COUNTER_MAX \in Nat

(***************************************************************************)
(* What bootstrap::validate has established of the actors before a policy  *)
(* exists: three distinct keys per committee, no operating key in its own  *)
(* committee.  Roles may share an operator and committees may overlap.     *)
(***************************************************************************)
ASSUME ConfigAssumption ==
    /\ t0 \in Nat
    /\ max_report_age \in Nat \ {0}
    /\ {creator, founder, treasury, initial_oracle} \subseteq Key
    /\ Key \cap Pda = {} /\ DefaultKey \notin Key \cup Pda
    /\ Subject \subseteq Key \cup Pda
    /\ \A committee \in {recovery_keys, founder_recovery_keys,
                         treasury_recovery_keys} :
          /\ committee \subseteq Key
          /\ \E a, b, c \in Key : /\ committee = {a, b, c}
                                  /\ a # b /\ a # c /\ b # c
    /\ founder \notin founder_recovery_keys
    /\ treasury \notin treasury_recovery_keys

-----------------------------------------------------------------------------

(* Reading the Clock in a mutating handler: time never runs backwards.     *)
tick(t) == /\ t >= last_action_at
           /\ last_action_at' = t

(* Only meaningful from t0 on; callers carry the T0Boundary guard.         *)
period_at(t) == (t - t0) \div PERIOD

period_start(p) == t0 + p * PERIOD

owner_for(role) == IF role = FOUNDER THEN founder ELSE treasury

withdrawal_keys(role) ==
    IF role = FOUNDER THEN founder_recovery_keys ELSE treasury_recovery_keys

(* The initiator and the cosigner of a call, as the set of their keys: one *)
(* key that signs twice is a singleton.                                    *)
Signers == {{a, b} : a, b \in Key}

(* What open_prepared_policy writes: a prepared policy, before t0.         *)
StateInit ==
    /\ state = PREPARED
    /\ last_action_at \in {t \in Instant : t < t0}

StateTypeOK ==
    /\ state \in LifecycleState
    /\ last_action_at \in Instant

(* The lifecycle moves lib.rs offers, as the other components see them.    *)
LifecycleMove ==
    \/ state = PREPARED /\ state' \in {ARMED, CANCELLED}
    \/ state = ARMED    /\ state' \in {ACTIVE, CANCELLED}
==============================================================================
