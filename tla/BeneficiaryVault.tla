---------------------------- MODULE BeneficiaryVault ----------------------------
(***************************************************************************)
(* beneficiary-vault (B1): one deposit for one beneficiary, released after *)
(* a cliff in 30-day windows that start at the cliff, at most a fixed cap  *)
(* per window.  Token transfers follow the counters and are left out.      *)
(* It also states what a purpose-vault (B2) owes a beneficiary.            *)
(***************************************************************************)
EXTENDS Integers

CONSTANTS
    MonthlyCap(_, _),        \* monthly_cap of a deposit at a yearly rate
    Amount, Bps, Cliff,      \* deposits a client may make
    Payment,                 \* amounts a beneficiary may claim
    MIN_CLIFF_SECONDS, PERIOD_SECONDS

VARIABLES
    now,          \* the Clock sysvar
    vault_state   \* NoVault, or the account

vaultVars == <<now, vault_state>>

NoVault == [deposited_amount |-> 0, released_total |-> 0]

deposit(amount, annual_release_bps, cliff_seconds) ==
    /\ vault_state = NoVault
    /\ amount > 0
    /\ cliff_seconds >= MIN_CLIFF_SECONDS
    /\ MonthlyCap(amount, annual_release_bps) > 0
    /\ vault_state' =
         [deposited_amount |-> amount,
          monthly_cap |-> MonthlyCap(amount, annual_release_bps),
          released_total |-> 0, released_this_period |-> 0,
          current_period_index |-> 0, cliff_end_ts |-> now + cliff_seconds]
    /\ UNCHANGED now

period_index == (now - vault_state.cliff_end_ts) \div PERIOD_SECONDS

(* What the period released before, once a later period has begun.         *)
released_so_far ==
    IF period_index > vault_state.current_period_index
    THEN 0 ELSE vault_state.released_this_period

later(a, b) == IF a > b THEN a ELSE b

release(amount) ==
    /\ vault_state # NoVault
    /\ amount > 0
    /\ now >= vault_state.cliff_end_ts
    /\ released_so_far + amount <= vault_state.monthly_cap
    /\ vault_state.released_total + amount <= vault_state.deposited_amount
    /\ vault_state' =
         [vault_state EXCEPT
            !.current_period_index = later(@, period_index),
            !.released_this_period = released_so_far + amount,
            !.released_total = @ + amount]
    /\ UNCHANGED now

(* The clock of the chain; the program does not rely on its direction.     *)
ClockMoves == now' \in Int /\ UNCHANGED vault_state

Init == now \in Int /\ vault_state = NoVault

Next ==
    \/ \E amount \in Amount, bps \in Bps, cliff \in Cliff :
         deposit(amount, bps, cliff)
    \/ \E amount \in Payment : release(amount)
    \/ ClockMoves

Spec == Init /\ [][Next]_vaultVars
==============================================================================
