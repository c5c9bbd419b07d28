---------------------------- MODULE LaunchEscrow ----------------------------
(***************************************************************************)
(* What launch-vault-v7 promises the depositors of a launch, without       *)
(* clocks, reports, quotas, approvals or keys: every pool receives exactly *)
(* its principal; until all pools are funded and the launch is committed   *)
(* nothing leaves; from then on a pool either pays out, never more than    *)
(* its principal, or is handed back whole, and never both.                 *)
(***************************************************************************)
EXTENDS Integers

CONSTANTS Pool, principal

VARIABLES
    phase,     \* "open", "committed", "paying" or "aborted"
    funded,    \* pools that received their principal
    held,      \* tokens in custody, gifts included
    paid       \* tokens released to payees so far

escrowVars == <<phase, funded, held, paid>>

Init ==
    /\ phase = "open"
    /\ funded = {}
    /\ held = [p \in Pool |-> 0]
    /\ paid = [p \in Pool |-> 0]

Fund(p) ==
    /\ phase = "open"
    /\ p \notin funded
    /\ funded' = funded \cup {p}
    /\ held' = [held EXCEPT ![p] = @ + principal[p]]
    /\ UNCHANGED <<phase, paid>>

(* Commit once everything is funded, start, or give up before the start.   *)
Advance ==
    /\ \/ phase = "open" /\ funded = Pool /\ phase' = "committed"
       \/ phase = "committed" /\ phase' = "paying"
       \/ phase \in {"open", "committed"} /\ phase' = "aborted"
    /\ UNCHANGED <<funded, held, paid>>

(* A payee may be the custody account of another pool.                     *)
Pay(p) ==
    /\ phase = "paying"
    /\ paid'[p] > paid[p]
    /\ paid'[p] <= principal[p]
    /\ held'[p] = held[p] - (paid'[p] - paid[p])
    /\ \A q \in Pool \ {p} : held'[q] >= held[q] /\ paid'[q] = paid[q]
    /\ UNCHANGED <<phase, funded>>

GiveBack(p) ==
    /\ phase = "aborted"
    /\ held' = [held EXCEPT ![p] = 0]
    /\ UNCHANGED <<phase, funded, paid>>

(* Anybody can send tokens to an account that exists.                      *)
Gift(p) ==
    /\ p \in funded
    /\ held'[p] > held[p]
    /\ \A q \in Pool \ {p} : held'[q] = held[q]
    /\ UNCHANGED <<phase, funded, paid>>

Next ==
    \/ Advance
    \/ \E p \in Pool : Fund(p) \/ Pay(p) \/ GiveBack(p) \/ Gift(p)

Spec == Init /\ [][Next]_escrowVars
==============================================================================
