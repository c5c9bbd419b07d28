---------------------------- MODULE LaunchV4Proofs ----------------------------
(***************************************************************************)
(* Proofs about the launch vaults before v7, by way of v4, which has the   *)
(* handlers of v2 and v3: the escrow, the oracle behind every release,     *)
(* that each program only narrows its predecessors, and that from v3 on no *)
(* pool starves the other.                                                 *)
(***************************************************************************)
EXTENDS LaunchV4, AmountTheorems

-----------------------------------------------------------------------------
(***************************************************************************)
(* Steps and types.                                                        *)
(***************************************************************************)

VaultRecord ==
    [principal : Nat, released_total : Nat, period : Nat, period_used : Nat]

TypeOK ==
    /\ last_action_at \in Instant
    /\ period \in Nat /\ report_capacity \in Nat
    /\ period_used \in [Role -> Nat] /\ annual_used \in [Role -> Nat]
    /\ released_total \in [Role -> Nat]
    /\ vault \in [Role -> VaultRecord]
    /\ custody \in [Role -> Nat]
    /\ \A role \in funded_mask : vault[role].principal = amount[role]

Released(t, role, n, destination) ==
    /\ t \in Instant /\ role \in Role /\ n \in ReleaseAmount
    /\ release_v4(t, role, n, destination)

(* A governance call, which only the clock floor shows to v3.              *)
Governed(t) ==
    /\ t \in Instant /\ tick(t) /\ UNCHANGED state
    /\ launchUnchanged

LEMMA Governs ==
    ASSUME NEW t \in Instant
    PROVE  /\ \A kind, recovery, successor, nonce :
                propose_change(t, kind, recovery, successor, nonce) => Governed(t)
           /\ \A q : cancel_change(t, q) => Governed(t)
           /\ \A q : execute_change(t, q) => Governed(t)
BY DEF propose_change, cancel_change, execute_change, Governed, tick,
       Control!ProposeChange, Control!CancelChange, Control!ExecuteChange,
       Control!tick

(* Everything but deposits, refunds, releases and tokens from outside      *)
(* leaves pools, custody and counters alone.                               *)
Quiet(t) ==
    /\ t \in Instant /\ tick(t)
    /\ \/ UNCHANGED state
       \/ state = PREPARED /\ funded_mask = Role /\ state' = ARMED
       \/ state = ARMED /\ state' = ACTIVE
       \/ state \in {PREPARED, ARMED} /\ state' = CANCELLED
    /\ UNCHANGED <<ledgerVars, tokenVars, annualVars>>
    /\ report_capacity' \in {report_capacity} \cup ReportedCapacity

LEMMA StepCases ==
    ASSUME [Next4]_vars4
    PROVE  \/ UNCHANGED vars4
           \/ \E t \in Instant, role \in Role : deposit_v4(t, role)
           \/ \E t \in Instant, role \in Role : refund_v4(t, role)
           \/ \E t, role, n, destination : Released(t, role, n, destination)
           \/ TokenProgram /\ UNCHANGED annualVars /\ uncontrolled
           \/ \E t : Quiet(t)
<1>1. CASE Next4
  <2>1. ASSUME NEW t \in Instant, Governed(t) PROVE Quiet(t)
    BY <2>1 DEF Governed, Quiet, launchUnchanged, reportVars
  <2>2. ASSUME NEW t \in Instant,
               arm_v4(t) \/ activate_v4(t) \/ cancel_v4(t) \/ expire_unarmed_v4(t)
        PROVE  Quiet(t)
    BY <2>2 DEF arm_v4, activate_v4, cancel_v4, expire_unarmed_v4, arm_v3,
       activate_v3, cancel_v3, expire_unarmed_v3, arm, activate, cancel,
       expire_unarmed, stateChange, Quiet, reportVars
  <2>3. ASSUME NEW t \in Instant, NEW c \in ReportedCapacity, NEW o, NEW s, NEW e,
               report_capacity_v4(t, c, o, s, e)
        PROVE  Quiet(t)
    BY <2>3 DEF report_capacity_v4, report_capacity_v3, report_capacity_v2, Quiet
  <2>4. ASSUME NEW t \in Instant, NEW p, NEW need, NEW recipient,
               approve_treasury_v4(t, p, need, recipient)
        PROVE  Quiet(t)
    BY <2>4 DEF approve_treasury_v4, approve_treasury_v3, approve_treasury, Quiet,
       reportVars
  <2> QED BY <1>1, <2>1, <2>2, <2>3, <2>4, Governs DEF Next4, Released
<1> QED BY <1>1

(* Budget!commit, pool by pool: what was counted for an earlier period or  *)
(* rule is forgotten, and the releasing pool is charged.                   *)
Charged(p, role, n) ==
    /\ period' = p /\ annual_index' = Budget!rule_at(p)
    /\ period_used' \in [Role -> Nat] /\ annual_used' \in [Role -> Nat]
    /\ released_total' \in [Role -> Nat] /\ vault' \in [Role -> VaultRecord]
    /\ \A r \in Role :
         LET spent == IF r = role THEN n ELSE 0 IN
         /\ period_used'[r] = Budget!used_at(p, r) + spent
         /\ annual_used'[r] = Budget!annual_used_at(Budget!rule_at(p), r) + spent
         /\ released_total'[r] = released_total[r] + spent
         /\ r # role => vault'[r] = vault[r]
    /\ shared_used' = period_used'[FOUNDER] + period_used'[TREASURY]
    /\ vault' = [vault EXCEPT ![role].period = p,
                              ![role].period_used = Budget!used_at(p, role) + n,
                              ![role].released_total = @ + n]
    /\ vault'[role] = [principal |-> vault[role].principal,
                       released_total |-> vault[role].released_total + n,
                       period |-> p,
                       period_used |-> Budget!used_at(p, role) + n]

LEMMA PeriodIndex ==
    ASSUME NEW t \in Instant, t >= t0
    PROVE  period_at(t) \in Nat /\ Budget!period_at(t) = period_at(t)
<1>1. t - t0 \in Nat /\ PERIOD \in Nat \ {0}
  BY ConfigAssumption
<1> QED BY <1>1, Division DEF period_at, Budget!period_at

LEMMA Commits ==
    ASSUME TypeOK, NEW t \in Instant, t >= t0, NEW role \in Role, NEW n \in Nat,
           Budget!commit(t, role, n)
    PROVE  Charged(period_at(t), role, n)
<1> DEFINE p == period_at(t)
<1>1. p \in Nat /\ Budget!period_at(t) = p
  BY PeriodIndex
<1> HIDE DEF p
<1>2. \A r \in Role : /\ Budget!used_at(p, r) \in Nat
                      /\ Budget!annual_used_at(Budget!rule_at(p), r) \in Nat
                      /\ released_total[r] \in Nat
  BY DEF TypeOK, Budget!used_at, Budget!annual_used_at
<1>3. Budget!Role = Role /\ FOUNDER \in Role /\ TREASURY \in Role
      /\ Budget!FOUNDER = FOUNDER /\ Budget!TREASURY = TREASURY
  BY DEF Budget!Role, Role, Budget!FOUNDER, FOUNDER, Budget!TREASURY, TREASURY
<1> DEFINE used == [[r \in Role |-> Budget!used_at(p, r)] EXCEPT ![role] = @ + n]
           annual == [[r \in Role |-> Budget!annual_used_at(Budget!rule_at(p), r)]
                        EXCEPT ![role] = @ + n]
<1>4. /\ period' = p /\ annual_index' = Budget!rule_at(p)
      /\ period_used' = used /\ annual_used' = annual
      /\ released_total' = [released_total EXCEPT ![role] = @ + n]
      /\ shared_used' = used[FOUNDER] + used[TREASURY]
      /\ vault' = [vault EXCEPT ![role].period = p,
                                ![role].period_used = used[role],
                                ![role].released_total = @ + n]
  BY <1>1, <1>3 DEF Budget!commit
<1>5. /\ used \in [Role -> Nat] /\ annual \in [Role -> Nat]
      /\ released_total' \in [Role -> Nat]
  BY <1>2, <1>4 DEF TypeOK
<1>6. \A r \in Role :
         LET spent == IF r = role THEN n ELSE 0 IN
         /\ used[r] = Budget!used_at(p, r) + spent
         /\ annual[r] = Budget!annual_used_at(Budget!rule_at(p), r) + spent
         /\ released_total'[r] = released_total[r] + spent
  BY <1>2, <1>4 DEF TypeOK
<1>7. used[role] = Budget!used_at(p, role) + n
  BY <1>2
<1> HIDE DEF used, annual
<1>8. /\ vault[role] \in VaultRecord
      /\ vault'[role] = [principal |-> vault[role].principal,
                        released_total |-> vault[role].released_total + n,
                        period |-> p, period_used |-> used[role]]
      /\ \A r \in Role : r # role => vault'[r] = vault[r]
      /\ vault' = [r \in Role |-> IF r = role THEN vault'[role] ELSE vault[r]]
  BY <1>4 DEF TypeOK, VaultRecord
<1>9. vault'[role] \in VaultRecord
  BY <1>1, <1>2, <1>7, <1>8 DEF VaultRecord
<1>10. vault' \in [Role -> VaultRecord]
  BY <1>8, <1>9 DEF TypeOK
<1> QED BY <1>4, <1>5, <1>6, <1>7, <1>8, <1>10 DEF Charged, p

(* What a release of v4 establishes.                                       *)
LEMMA ReleaseEffect ==
    ASSUME TypeOK, NEW t, NEW role, NEW n, NEW destination,
           Released(t, role, n, destination)
    PROVE  /\ t \in Instant /\ t \in Nat /\ t > t0 /\ t >= last_action_at
           /\ role \in Role /\ n \in Nat \ {0}
           /\ period_at(t) \in Nat /\ period <= period_at(t)
           /\ Budget!period_at(t) = period_at(t)
           /\ Charged(period_at(t), role, n)
           /\ transfer(role, destination, n)
           /\ vault[role].released_total = released_total[role]
           /\ released_total[role] + n <= vault[role].principal
           /\ role \in funded_mask
<1>1. /\ t \in Instant /\ role \in Role /\ n \in ReleaseAmount
      /\ releasing(t, role, n, destination) /\ consume(t, role, n)
  BY DEF Released, release_v4, release_v3
<1>2. t \in Nat /\ t0 \in Nat /\ n \in Nat /\ last_action_at \in Nat
  BY <1>1, ConfigAssumption DEF TypeOK
<1>3. /\ t > t0 /\ n > 0 /\ t >= last_action_at /\ period_at(t) >= period
      /\ transfer(role, destination, n)
  BY <1>1 DEF releasing, tick
<1>4. period_at(t) \in Nat /\ Budget!period_at(t) = period_at(t)
  BY <1>1, <1>2, <1>3, PeriodIndex
<1>5. Charged(period_at(t), role, n)
  BY <1>1, <1>2, <1>3, Commits DEF consume
<1>6. /\ vault[role].released_total = released_total[role]
      /\ released_total[role] + n <= vault[role].principal
  BY <1>1 DEF consume, within_limits, Budget!within_budget
<1>7. vault[role] # NoVault
  BY <1>1, <1>2, <1>3, <1>6 DEF NoVault, TypeOK
<1> QED BY <1>1, <1>2, <1>3, <1>4, <1>5, <1>6, <1>7 DEF TypeOK, funded_mask

LEMMA TypeStep == TypeOK /\ [Next4]_vars4 => TypeOK'
<1> SUFFICES ASSUME TypeOK, [Next4]_vars4 PROVE TypeOK'
  OBVIOUS
<1>1. CASE UNCHANGED vars4
  BY <1>1 DEF vars4, vars3, vars, annualVars, TypeOK, funded_mask, tokenVars,
     ledgerVars, reportVars
<1>2. ASSUME NEW t \in Instant, NEW role \in Role, deposit_v4(t, role) PROVE TypeOK'
  <2> DEFINE fresh == [NoVault EXCEPT !.principal = amount[role]]
  <2>1. /\ fresh \in VaultRecord /\ fresh.principal = amount[role]
        /\ amount[role] \in Nat
    BY ConfigAssumption DEF NoVault, VaultRecord
  <2> HIDE DEF fresh
  <2>2. /\ last_action_at' = t /\ vault' = [vault EXCEPT ![role] = fresh]
        /\ custody' = [custody EXCEPT ![role] = @ + amount[role]]
        /\ UNCHANGED <<period, report_capacity, annualVars>>
    BY <1>2 DEF deposit_v4, deposit_v3, deposit, tick, fresh, reportVars
  <2>3. vault' \in [Role -> VaultRecord] /\ custody' \in [Role -> Nat]
    BY <2>1, <2>2 DEF TypeOK
  <2>4. \A r \in funded_mask' : vault'[r].principal = amount[r]
    BY <2>1, <2>2 DEF TypeOK, funded_mask
  <2> QED BY <2>2, <2>3, <2>4 DEF TypeOK, annualVars
<1>3. ASSUME NEW t \in Instant, NEW role \in Role, refund_v4(t, role) PROVE TypeOK'
  BY <1>3 DEF refund_v4, refund_v3, refund, tick, TypeOK, funded_mask, annualVars,
     ledgerVars, reportVars
<1>4. ASSUME NEW t, NEW role, NEW n, NEW destination,
             Released(t, role, n, destination)
      PROVE  TypeOK'
  <2> DEFINE p == period_at(t)
  <2>1. /\ t \in Instant /\ role \in Role /\ n \in Nat /\ p \in Nat
        /\ Charged(p, role, n) /\ transfer(role, destination, n)
        /\ role \in funded_mask
    BY <1>4, ReleaseEffect
  <2>2. last_action_at' = t /\ report_capacity' = report_capacity
    BY <1>4 DEF Released, release_v4, release_v3, releasing, tick, reportVars
  <2>3. custody' \in [Role -> Nat]
    BY <2>1 DEF transfer, TypeOK
  <2>4. \A r \in funded_mask' : vault'[r].principal = amount[r]
    BY <2>1 DEF Charged, TypeOK, funded_mask
  <2> QED BY <2>1, <2>2, <2>3, <2>4 DEF TypeOK, Charged
<1>5. ASSUME TokenProgram, UNCHANGED annualVars PROVE TypeOK'
  BY <1>5 DEF TokenProgram, Donate, SetAuthority, TypeOK, annualVars, ledgerVars,
     reportVars, funded_mask
<1>6. ASSUME NEW t, Quiet(t) PROVE TypeOK'
  BY <1>6, ConfigAssumption DEF Quiet, tick, TypeOK, ledgerVars, tokenVars,
     annualVars, funded_mask
<1> QED BY <1>1, <1>2, <1>3, <1>4, <1>5, <1>6, StepCases

LEMMA TypeInit == Init4 => TypeOK
BY ConfigAssumption DEF Init4, Init3, Init, open_policy, open_policy_v3, TypeOK,
   VaultRecord, NoVault, funded_mask

(* Accounts keep their layout, and a pool that exists its whole principal. *)
LEMMA TypeInvariant == Spec4 => []TypeOK
BY TypeInit, TypeStep, PTL DEF Spec4

-----------------------------------------------------------------------------
(***************************************************************************)
(* The escrow.                                                             *)
(***************************************************************************)

Phase ==
    CASE state = PREPARED  -> "open"
      [] state = ARMED     -> "committed"
      [] state = ACTIVE    -> "paying"
      [] state = CANCELLED -> "aborted"
Paid == [role \in Role |-> vault[role].released_total]

LEMMA PhaseOf ==
    /\ state = PREPARED => Phase = "open"
    /\ state = ARMED => Phase = "committed"
    /\ state = ACTIVE => Phase = "paying"
    /\ state = CANCELLED => Phase = "aborted"
BY DEF Phase, PREPARED, ARMED, ACTIVE, CANCELLED

LEMMA PhaseNext ==
    /\ state' = PREPARED => Phase' = "open"
    /\ state' = ARMED => Phase' = "committed"
    /\ state' = ACTIVE => Phase' = "paying"
    /\ state' = CANCELLED => Phase' = "aborted"
BY DEF Phase, PREPARED, ARMED, ACTIVE, CANCELLED

EscrowState == <<Phase, funded_mask, custody, Paid>>

LEMMA EscrowInit == Init4 => Escrow!Init
<1> SUFFICES ASSUME Init4 PROVE Escrow!Init
  OBVIOUS
<1>1. /\ state = PREPARED /\ vault = [role \in Role |-> NoVault]
      /\ custody = [role \in Role |-> 0]
  BY DEF Init4, Init3, Init, open_policy
<1>2. Phase = "open" /\ funded_mask = {} /\ Paid = [role \in Role |-> 0]
  BY <1>1, PhaseOf DEF funded_mask, Paid, NoVault
<1> QED BY <1>1, <1>2 DEF Escrow!Init, Phase, Paid

LEMMA EscrowStep == TypeOK /\ [Next4]_vars4 => [Escrow!Next]_(Escrow!escrowVars)
<1> SUFFICES ASSUME TypeOK, [Next4]_vars4
             PROVE  Escrow!Next \/ UNCHANGED EscrowState
  BY DEF Escrow!escrowVars, EscrowState, Phase, Paid
<1>1. ASSUME UNCHANGED <<state, vault, custody>> PROVE UNCHANGED EscrowState
  BY <1>1 DEF EscrowState, Phase, Paid, funded_mask
<1>2. CASE UNCHANGED vars4
  BY <1>1, <1>2 DEF vars4, vars3, vars
<1>3. ASSUME NEW t \in Instant, NEW role \in Role, deposit_v4(t, role)
      PROVE  Escrow!Fund(role)
  <2> DEFINE fresh == [NoVault EXCEPT !.principal = amount[role]]
  <2>1. /\ state = PREPARED /\ state' = state /\ role \notin funded_mask
        /\ vault' = [vault EXCEPT ![role] = fresh]
        /\ custody' = [custody EXCEPT ![role] = @ + amount[role]]
    BY <1>3 DEF deposit_v4, deposit_v3, deposit
  <2>2. fresh # NoVault /\ fresh.released_total = 0
    BY ConfigAssumption DEF NoVault
  <2>3. vault[role] = NoVault
    BY <2>1 DEF funded_mask
  <2> HIDE DEF fresh
  <2>4. funded_mask' = funded_mask \cup {role}
    BY <2>1, <2>2 DEF TypeOK, funded_mask
  <2>5. Paid' = Paid
    BY <2>1, <2>2, <2>3 DEF Paid, TypeOK, NoVault
  <2> QED BY <2>1, <2>4, <2>5, PhaseOf, PhaseNext DEF Escrow!Fund, Phase, Paid
<1>4. ASSUME NEW t \in Instant, NEW role \in Role, refund_v4(t, role)
      PROVE  Escrow!GiveBack(role)
  <2>1. /\ state = CANCELLED /\ state' = state /\ vault' = vault
        /\ custody' = [custody EXCEPT ![role] = 0]
    BY <1>4 DEF refund_v4, refund_v3, refund, ledgerVars
  <2>2. funded_mask' = funded_mask /\ Paid' = Paid
    BY <2>1 DEF funded_mask, Paid
  <2> QED BY <2>1, <2>2, PhaseOf, PhaseNext DEF Escrow!GiveBack, Phase, Paid
<1>5. ASSUME NEW t, NEW role, NEW n, NEW destination,
             Released(t, role, n, destination)
      PROVE  Escrow!Pay(role)
  <2> DEFINE p == period_at(t)
  <2>1. /\ role \in Role /\ n \in Nat \ {0} /\ Charged(p, role, n)
        /\ transfer(role, destination, n) /\ role \in funded_mask
        /\ vault[role].released_total + n <= vault[role].principal
    BY <1>5, ReleaseEffect
  <2>2. state = ACTIVE /\ state' = state
    BY <1>5 DEF Released, release_v4, release_v3, releasing
  <2>3. /\ vault'[role].released_total = vault[role].released_total + n
        /\ \A q \in Role \ {role} : vault'[q] = vault[q]
        /\ \A q \in Role : vault[q].released_total \in Nat
        /\ vault[role].principal = amount[role]
    BY <2>1 DEF Charged, TypeOK, VaultRecord
  <2>4. /\ custody'[role] = custody[role] - n
        /\ \A q \in Role \ {role} : custody'[q] >= custody[q]
    BY <2>1 DEF transfer, TypeOK
  <2>5. /\ Paid'[role] = Paid[role] + n /\ Paid[role] \in Nat
        /\ Paid'[role] <= amount[role]
        /\ \A q \in Role \ {role} : Paid'[q] = Paid[q]
    BY <2>1, <2>3 DEF Paid
  <2>6. funded_mask' = funded_mask
    <3>1. vault'[role] # NoVault
      BY <2>1, <2>3 DEF NoVault
    <3> QED BY <2>1, <2>3, <3>1 DEF funded_mask
  <2>7. /\ Paid'[role] > Paid[role]
        /\ custody'[role] = custody[role] - (Paid'[role] - Paid[role])
    BY <2>1, <2>4, <2>5 DEF TypeOK
  <2> QED BY <2>2, <2>4, <2>5, <2>6, <2>7, PhaseOf, PhaseNext
       DEF Escrow!Pay, Phase, Paid
<1>6. ASSUME TokenProgram
      PROVE  (\E role \in Role : Escrow!Gift(role)) \/ UNCHANGED EscrowState
  <2>1. ASSUME NEW role \in Role, Donate(role) PROVE Escrow!Gift(role)
    <3>1. /\ role \in funded_mask /\ state' = state /\ vault' = vault
          /\ custody' = [custody EXCEPT ![role] = @ + 1]
      BY <2>1 DEF Donate, ledgerVars
    <3>2. Phase' = Phase /\ funded_mask' = funded_mask /\ Paid' = Paid
      BY <3>1 DEF Phase, funded_mask, Paid
    <3>3. /\ custody'[role] > custody[role]
          /\ \A q \in Role \ {role} : custody'[q] = custody[q]
      BY <3>1 DEF TypeOK
    <3> QED BY <3>1, <3>2, <3>3 DEF Escrow!Gift, Phase, Paid
  <2>2. ASSUME NEW a, SetAuthority(a) PROVE UNCHANGED EscrowState
    BY <1>1, <2>2 DEF SetAuthority, ledgerVars
  <2> QED BY <1>6, <2>1, <2>2 DEF TokenProgram
<1>7. ASSUME NEW t, Quiet(t) PROVE Escrow!Advance \/ UNCHANGED EscrowState
  <2>1. UNCHANGED <<vault, custody>>
    BY <1>7 DEF Quiet, ledgerVars, tokenVars
  <2>2. UNCHANGED <<funded_mask, custody, Paid>>
    BY <2>1 DEF funded_mask, Paid
  <2>3. CASE UNCHANGED state
    BY <1>1, <2>1, <2>3
  <2>4. ASSUME ~UNCHANGED state
        PROVE  \/ Phase = "open" /\ funded_mask = Role /\ Phase' = "committed"
               \/ Phase = "committed" /\ Phase' = "paying"
               \/ Phase \in {"open", "committed"} /\ Phase' = "aborted"
    BY <1>7, <2>4, PhaseOf, PhaseNext DEF Quiet
  <2> QED BY <2>2, <2>3, <2>4 DEF Escrow!Advance, Phase, Paid
<1> QED BY <1>2, <1>3, <1>4, <1>5, <1>6, <1>7, StepCases DEF Escrow!Next, Released

(* v2's escrow, kept by the handlers v3 and v4 took over from it: each     *)
(* pool is funded once and whole, then pays no more than its principal or  *)
(* is handed back, never both.                                             *)
THEOREM EscrowKept == Spec4 => KeepsEscrow
BY EscrowInit, EscrowStep, TypeInvariant, PTL DEF Spec4, KeepsEscrow, Escrow!Spec

-----------------------------------------------------------------------------
(***************************************************************************)
(* The report behind a release.                                            *)
(***************************************************************************)

ReportTypeOK ==
    /\ report \in [sequence : Nat, period : Nat, at : Nat]
    /\ oracle_activated_at \in Nat
    /\ report_valid \in BOOLEAN

OracleInv == TypeOK /\ ReportTypeOK /\ Control!ReportFromCurrentOracle

officeVars == <<oracle_epoch, oracle_activated_at, report, epochVars>>

LEMMA SamePeriod ==
    ASSUME NEW t \in Instant, NEW u \in Instant, t >= t0,
           u >= Control!period_start(Control!period_at(t)), u <= t
    PROVE  Control!period_at(u) = Control!period_at(t)
<1> DEFINE x == t - t0
           y == u - t0
<1>1. t0 \in Nat /\ PERIOD \in Nat \ {0} /\ x \in Nat /\ t \in Nat /\ u \in Nat
  BY ConfigAssumption
<1>2. x \div PERIOD \in Nat /\ (x \div PERIOD) * PERIOD \in Nat
  BY <1>1, Division
<1>3. y \in Nat /\ y <= x /\ y >= (x \div PERIOD) * PERIOD
  BY <1>1, <1>2 DEF Control!period_at, Control!period_start
<1> HIDE DEF x, y
<1>4. y \div PERIOD = x \div PERIOD
  BY <1>1, <1>3, SameQuotient
<1> QED BY <1>4 DEF x, y, Control!period_at

LEMMA ReportCases ==
    ASSUME [Next4]_vars4
    PROVE  \/ UNCHANGED officeVars /\ last_action_at' = last_action_at
           \/ UNCHANGED officeVars /\ \E t \in Instant : tick(t)
           \/ \E t \in Instant, q \in changes : execute_change(t, q)
           \/ \E t \in Instant, o \in Instant, s \in ReportSequence : \E c, e :
                report_capacity_v4(t, c, o, s, e)
<1>1. CASE UNCHANGED vars4
  BY <1>1 DEF vars4, vars3, vars, controlVars, officeVars
<1>2. ASSUME NEW t \in Instant, NEW role,
             deposit_v4(t, role) \/ refund_v4(t, role)
      PROVE  UNCHANGED officeVars /\ tick(t)
  BY <1>2 DEF deposit_v4, refund_v4, deposit_v3, refund_v3, deposit, refund,
     uncontrolled, controlVars, officeVars, reportVars
<1>3. ASSUME NEW t \in Instant,
             arm_v4(t) \/ activate_v4(t) \/ cancel_v4(t) \/ expire_unarmed_v4(t)
      PROVE  UNCHANGED officeVars /\ tick(t)
  BY <1>3 DEF arm_v4, activate_v4, cancel_v4, expire_unarmed_v4, arm_v3,
     activate_v3, cancel_v3, expire_unarmed_v3, arm, activate, cancel,
     expire_unarmed, stateChange, uncontrolled, controlVars, officeVars, reportVars
<1>4. ASSUME NEW t \in Instant, NEW p, NEW need, NEW recipient,
             approve_treasury_v4(t, p, need, recipient)
      PROVE  UNCHANGED officeVars /\ tick(t)
  BY <1>4 DEF approve_treasury_v4, approve_treasury_v3, approve_treasury,
     uncontrolled, controlVars, officeVars, reportVars
<1>5. ASSUME NEW t \in Instant, NEW role, NEW n, NEW destination,
             release_v4(t, role, n, destination)
      PROVE  UNCHANGED officeVars /\ tick(t)
  BY <1>5 DEF release_v4, release_v3, releasing, uncontrolled, controlVars,
     officeVars, reportVars
<1>6. ASSUME NEW t \in Instant, NEW kind, NEW recovery, NEW successor, NEW nonce,
             propose_change(t, kind, recovery, successor, nonce)
      PROVE  UNCHANGED officeVars /\ tick(t)
  BY <1>6, Governs DEF propose_change, Governed, launchUnchanged, reportVars,
     officeVars, Control!ProposeChange
<1>7. ASSUME NEW t \in Instant, NEW q, cancel_change(t, q)
      PROVE  UNCHANGED officeVars /\ tick(t)
  BY <1>7, Governs DEF cancel_change, Governed, launchUnchanged, reportVars,
     officeVars, Control!CancelChange
<1>8. ASSUME TokenProgram, uncontrolled
      PROVE  UNCHANGED officeVars /\ last_action_at' = last_action_at
  BY <1>8 DEF TokenProgram, Donate, SetAuthority, uncontrolled, controlVars,
     officeVars, reportVars
<1>9. CASE Next4
  <2>1. CASE TokenProgram /\ UNCHANGED annualVars /\ uncontrolled
    BY <2>1, <1>8
  <2>2. ASSUME NEW t \in Instant,
               \/ \E role \in Role : deposit_v4(t, role) \/ refund_v4(t, role)
               \/ arm_v4(t) \/ activate_v4(t) \/ cancel_v4(t)
               \/ expire_unarmed_v4(t)
               \/ \E p, need, recipient : approve_treasury_v4(t, p, need, recipient)
               \/ \E role, n, destination : release_v4(t, role, n, destination)
               \/ \E kind, recovery, successor, nonce :
                    propose_change(t, kind, recovery, successor, nonce)
               \/ \E q : cancel_change(t, q)
        PROVE  UNCHANGED officeVars /\ tick(t)
    BY <2>2, <1>2, <1>3, <1>4, <1>5, <1>6, <1>7
  <2> QED BY <1>9, <2>1, <2>2 DEF Next4
<1> QED BY <1>1, <1>9

LEMMA OracleInit == Init4 => OracleInv
<1> SUFFICES ASSUME Init4 PROVE OracleInv
  OBVIOUS
<1>1. /\ report = [sequence |-> 0, period |-> 0, at |-> 0]
      /\ oracle_activated_at = last_action_at /\ last_action_at \in Instant
      /\ report_valid = FALSE
  BY DEF Init4, Init3, Init, open_policy, open_policy_v4
<1> QED BY <1>1, TypeInit, ConfigAssumption
     DEF OracleInv, ReportTypeOK, Control!ReportFromCurrentOracle

LEMMA OracleStep == OracleInv /\ [Next4]_vars4 => OracleInv'
<1> SUFFICES ASSUME OracleInv, [Next4]_vars4 PROVE OracleInv'
  OBVIOUS
<1>1. TypeOK /\ TypeOK'
  BY TypeStep DEF OracleInv
<1>2. last_action_at \in Nat /\ last_action_at' \in Nat
  BY <1>1, ConfigAssumption DEF TypeOK
<1>3. ASSUME UNCHANGED officeVars, last_action_at' >= last_action_at
      PROVE  OracleInv'
  BY <1>1, <1>2, <1>3 DEF OracleInv, ReportTypeOK, officeVars, epochVars,
     Control!ReportFromCurrentOracle, Control!period_at
<1>4. ASSUME NEW t \in Instant, NEW q \in changes, execute_change(t, q)
      PROVE  OracleInv'
  <2>1. /\ last_action_at' >= last_action_at /\ last_action_at' = t
        /\ report' = report /\ report_epoch' = report_epoch
        /\ report_valid' \in BOOLEAN
        /\ Control!install_oracle(q, t) \/ Control!install_controller(q)
    BY <1>4 DEF execute_change, launchUnchanged, reportVars,
       Control!ExecuteChange, Control!tick
  <2>2. CASE Control!install_oracle(q, t)
    <3>1. report_valid' = FALSE /\ oracle_activated_at' = t
      BY <2>1, <2>2 DEF Control!install_oracle
    <3> QED BY <1>1, <1>2, <2>1, <3>1
         DEF OracleInv, ReportTypeOK, Control!ReportFromCurrentOracle
  <2>3. CASE Control!install_controller(q)
    <3>1. /\ report_valid' = report_valid
          /\ oracle_epoch' = oracle_epoch /\ oracle_activated_at' = oracle_activated_at
      BY <2>3 DEF Control!install_controller
    <3> QED BY <1>3, <2>1, <3>1 DEF officeVars, epochVars
  <2> QED BY <2>1, <2>2, <2>3
<1>5. ASSUME NEW t \in Instant, NEW c, NEW o \in Instant, NEW s \in ReportSequence,
             NEW e, report_capacity_v4(t, c, o, s, e)
      PROVE  OracleInv'
  <2>1. /\ last_action_at' = t
        /\ report' = [sequence |-> s, period |-> period_at(t), at |-> o]
        /\ report_epoch' = e /\ report_valid' = TRUE
        /\ t >= t0 /\ e = oracle_epoch
        /\ oracle_epoch' = oracle_epoch /\ oracle_activated_at' = oracle_activated_at
        /\ Control!fresh_report(t, o, s)
    BY <1>5 DEF report_capacity_v4, report_capacity_v3, report_capacity_v2, tick,
       Control!AcceptReport
  <2>2. /\ o >= oracle_activated_at /\ s > report.sequence /\ o <= t
        /\ o >= Control!period_start(Control!period_at(t))
    BY <2>1 DEF Control!fresh_report
  <2>3. Control!period_at(o) = Control!period_at(t)
    BY <2>1, <2>2, SamePeriod
  <2>4. period_at(t) \in Nat /\ Control!period_at(t) = period_at(t)
    BY <2>1, PeriodIndex DEF period_at, Control!period_at
  <2>5. o \in Nat /\ s \in Nat /\ s > 0
    BY <2>2, ConfigAssumption DEF OracleInv, ReportTypeOK
  <2>6. ReportTypeOK'
    BY <2>1, <2>4, <2>5 DEF OracleInv, ReportTypeOK
  <2>7. Control!ReportFromCurrentOracle'
    BY <2>1, <2>2, <2>3, <2>4, <2>5 DEF Control!ReportFromCurrentOracle,
       Control!period_at
  <2> QED BY <1>1, <2>6, <2>7 DEF OracleInv
<1>6. \A t : tick(t) => last_action_at' >= last_action_at
  BY DEF tick
<1> QED BY <1>2, <1>3, <1>4, <1>5, <1>6, ReportCases

LEMMA OracleInvariant == Spec4 => []OracleInv
BY OracleInit, OracleStep, PTL DEF Spec4

(* The flag and the epoch that release compares are worth what they stand  *)
(* for: every release rests on a report that the oracle in office made, in *)
(* office and inside the period of the release.                            *)
THEOREM ReleasesOnIncumbentReport == Spec4 => ReleasedOnIncumbentReport
<1>1. ASSUME OracleInv, [Next4]_vars4
      PROVE  released_total' # released_total =>
               /\ report_valid
               /\ Control!ReportFromCurrentOracle
               /\ report.period = period_at(last_action_at')
  <2>1. ASSUME NEW t, NEW role, NEW n, NEW destination,
               Released(t, role, n, destination)
        PROVE  /\ report_valid /\ last_action_at' = t
               /\ report.period = period_at(t)
    BY <2>1 DEF Released, release_v4, release_v3, releasing, report_of_incumbent,
       report_usable, tick
  <2>2. \/ UNCHANGED released_total
        \/ \E t, role, n, destination : Released(t, role, n, destination)
    BY <1>1, StepCases DEF deposit_v4, deposit_v3, refund_v4, refund_v3, Quiet,
       annualVars, vars4, vars3
  <2> QED BY <1>1, <2>1, <2>2 DEF OracleInv
<1> QED BY <1>1, OracleInvariant, PTL DEF Spec4, ReleasedOnIncumbentReport

-----------------------------------------------------------------------------
(***************************************************************************)
(* The budget of capacity.rs, as far as a single release shows it.         *)
(***************************************************************************)

LEMMA RuleTypes ==
    ASSUME NEW i \in Budget!RuleIndex
    PROVE  /\ annual_rules[i].shared_cap \in Nat
           /\ \A role \in Role :
                /\ Budget!annual_cap(i, role) \in Nat
                /\ Budget!annual_cap(i, role) \div RATE_DIVISOR \in Nat
<1>1. annual_rules[i] \in Budget!AnnualRule
  BY RulesAssumption
<1>2. Budget!Role = Role
  BY DEF Budget!Role, Role, Budget!FOUNDER, FOUNDER, Budget!TREASURY, TREASURY
<1>3. annual_rules[i].shared_cap \in Nat
  BY <1>1 DEF Budget!AnnualRule
<1>4. ASSUME NEW role \in Role
      PROVE  /\ Budget!annual_cap(i, role) \in Nat
             /\ Budget!annual_cap(i, role) \div RATE_DIVISOR \in Nat
  <2>1. annual_rules[i].basis[role] \in Nat /\ annual_rules[i].release_bps \in Nat
    BY <1>1, <1>2 DEF Budget!AnnualRule
  <2>2. annual_rules[i].basis[role] * annual_rules[i].release_bps \in Nat
    BY <2>1
  <2> QED BY <2>2, Division, RulesAssumption DEF Budget!annual_cap
<1> QED BY <1>3, <1>4

(* While its subtractions are sound, the ceilings a quota is taken from    *)
(* are amounts, and no quota is above its own.                             *)
LEMMA Ceilings ==
    ASSUME TypeOK, NEW t \in Instant, t >= t0,
           Budget!window_open(t), Budget!accounting_sound(t)
    PROVE  LET p == period_at(t) IN
           /\ Budget!rule_at(p) \in Budget!RuleIndex
           /\ \A role \in Role : /\ Budget!used_at(p, role) \in Nat
                                 /\ Budget!cap_at(p, role) \in Nat
                                 /\ Budget!cap_at(p, role) <= period_cap[role]
           /\ Budget!capacity_at(p) \in Nat
           /\ Budget!capacity_at(p) <= report_capacity
           /\ Budget!capacity_at(p) <= shared_hard_cap
<1> DEFINE p == period_at(t)
           i == Budget!rule_at(p)
<1>1. p \in Nat /\ Budget!period_at(t) = p
  BY PeriodIndex
<1> HIDE DEF p
<1>2. i \in Budget!RuleIndex
  BY <1>1 DEF Budget!window_open, Budget!rule_at
<1>3. Budget!Role = Role /\ FOUNDER \in Role /\ TREASURY \in Role
      /\ Budget!FOUNDER = FOUNDER /\ Budget!TREASURY = TREASURY
  BY DEF Budget!Role, Role, Budget!FOUNDER, FOUNDER, Budget!TREASURY, TREASURY
<1>4. \A role \in Role : /\ Budget!used_at(p, role) \in Nat
                         /\ Budget!annual_used_at(i, role) \in Nat
                         /\ released_total[role] \in Nat
  BY DEF TypeOK, Budget!used_at, Budget!annual_used_at
<1>5. /\ \A role \in Role :
            /\ Budget!prior_annual(p, role) \in Nat
            /\ Budget!prior_lifetime(p, role) \in Nat
            /\ Budget!prior_annual(p, role) <= Budget!annual_cap(i, role)
            /\ Budget!prior_lifetime(p, role) <= amount[role]
      /\ Budget!shared_prior(p) <= annual_rules[i].shared_cap
  BY <1>1, <1>3, <1>4 DEF Budget!accounting_sound, Budget!prior_annual,
     Budget!prior_lifetime
<1>6. Budget!shared_prior(p) \in Nat
  BY <1>3, <1>5 DEF Budget!shared_prior
<1>7. ASSUME NEW role \in Role
      PROVE  /\ Budget!cap_at(p, role) \in Nat
             /\ Budget!cap_at(p, role) <= period_cap[role]
  <2>1. /\ Budget!annual_cap(i, role) \in Nat
        /\ Budget!annual_cap(i, role) \div RATE_DIVISOR \in Nat
        /\ period_cap[role] \in Nat /\ amount[role] \in Nat
    BY <1>2, RuleTypes, ConfigAssumption
  <2> HIDE DEF i
  <2> QED BY <1>5, <2>1 DEF Budget!cap_at, Budget!least, i
<1>8. /\ Budget!capacity_at(p) \in Nat
      /\ Budget!capacity_at(p) <= report_capacity
      /\ Budget!capacity_at(p) <= shared_hard_cap
  <2>1. /\ annual_rules[i].shared_cap \in Nat /\ shared_hard_cap \in Nat
        /\ report_capacity \in Nat
    BY <1>2, RuleTypes, ConfigAssumption DEF TypeOK
  <2> HIDE DEF i
  <2> QED BY <1>5, <1>6, <2>1 DEF Budget!capacity_at, Budget!least, i
<1> QED BY <1>2, <1>4, <1>7, <1>8 DEF p

LEMMA QuotasReserved ==
    ASSUME NEW capacity \in Nat, NEW f \in Nat, NEW s \in Nat,
           NEW eligible \in BOOLEAN
    PROVE  LET quotas == Budget!reserved_quotas(capacity, f, s, eligible) IN
           /\ quotas[FOUNDER] \in Nat /\ quotas[FOUNDER] <= f
           /\ quotas[TREASURY] \in Nat /\ quotas[TREASURY] <= s
           /\ quotas[FOUNDER] + quotas[TREASURY] <= capacity
<1> USE DEF Budget!Role, Budget!FOUNDER, Budget!TREASURY, FOUNDER, TREASURY
<1>1. CASE ~eligible
  BY <1>1 DEF Budget!reserved_quotas, Budget!least
<1>2. CASE eligible /\ f + s = 0
  BY <1>2 DEF Budget!reserved_quotas
<1>3. CASE eligible /\ f + s # 0
  <2> DEFINE available == Budget!least(capacity, f + s)
             founders == (available * f) \div (f + s)
             quotas == Budget!reserved_quotas(capacity, f, s, eligible)
  <2>1. available \in Nat /\ available <= f + s /\ available <= capacity
    BY DEF Budget!least
  <2>2. /\ founders \in 0..available /\ founders <= f
        /\ available - founders <= s
    BY <1>3, <2>1, ProportionalSplit
  <2>3. quotas = [role \in Budget!Role |->
                    IF role = FOUNDER THEN founders ELSE available - founders]
    BY <1>3 DEF Budget!reserved_quotas
  <2> HIDE DEF available, founders, quotas
  <2>4. quotas[FOUNDER] = founders /\ quotas[TREASURY] = available - founders
    BY <2>3
  <2> QED BY <2>1, <2>2, <2>4 DEF quotas
<1> QED BY <1>1, <1>2, <1>3

LEMMA Quotas ==
    ASSUME TypeOK, NEW t \in Instant, t >= t0,
           Budget!window_open(t), Budget!accounting_sound(t)
    PROVE  /\ \A role \in Role :
                /\ Budget!quotas_at(t)[role] \in Nat
                /\ Budget!quotas_at(t)[role] <= Budget!cap_at(period_at(t), role)
           /\ Budget!quotas_at(t)[FOUNDER] + Budget!quotas_at(t)[TREASURY]
                <= Budget!capacity_at(period_at(t))
<1> DEFINE p == period_at(t)
<1>1. Budget!period_at(t) = p
  BY PeriodIndex
<1>2. /\ \A role \in Role : Budget!cap_at(p, role) \in Nat
      /\ Budget!capacity_at(p) \in Nat
  BY Ceilings
<1> HIDE DEF p
<1>3. Budget!FOUNDER = FOUNDER /\ Budget!TREASURY = TREASURY
      /\ FOUNDER \in Role /\ TREASURY \in Role
      /\ \A role \in Role : role = FOUNDER \/ role = TREASURY
  BY DEF Role, Budget!FOUNDER, FOUNDER, Budget!TREASURY, TREASURY
<1>4. Budget!quotas_at(t) =
        Budget!reserved_quotas(Budget!capacity_at(p), Budget!cap_at(p, FOUNDER),
                               Budget!cap_at(p, TREASURY), Budget!cliff_passed(t))
  BY <1>1, <1>3 DEF Budget!quotas_at
<1>5. Budget!cliff_passed(t) \in BOOLEAN
  BY DEF Budget!cliff_passed
<1> QED BY <1>2, <1>3, <1>4, <1>5, QuotasReserved DEF p

-----------------------------------------------------------------------------
(***************************************************************************)
(* v4 narrows v3, and v3 v2.                                               *)
(***************************************************************************)

(* v2 keeps a pool's counter in its vault, v3 in the policy as well, where *)
(* any release rolls over both.                                            *)
RolledOver ==
    \A role \in Role :
        /\ vault[role].period <= period
        /\ period_used[role] =
             IF vault[role].period = period THEN vault[role].period_used ELSE 0

RInv == TypeOK /\ RolledOver

LEMMA RolledInit == Init4 => RInv
<1> SUFFICES ASSUME Init4 PROVE RInv
  OBVIOUS
<1>1. /\ period = 0 /\ period_used = [role \in Role |-> 0]
      /\ vault = [role \in Role |-> NoVault]
  BY DEF Init4, Init3, Init, open_policy, open_policy_v3
<1> QED BY <1>1, TypeInit DEF RInv, RolledOver, NoVault

LEMMA RolledStep == RInv /\ [Next4]_vars4 => RInv'
<1> SUFFICES ASSUME RInv, [Next4]_vars4 PROVE RolledOver'
  BY TypeStep DEF RInv
<1>1. TypeOK /\ RolledOver
  BY DEF RInv
<1>2. ASSUME UNCHANGED <<period, period_used>>,
             \A role \in Role : /\ vault'[role].period = vault[role].period
                               /\ vault'[role].period_used = vault[role].period_used
      PROVE  RolledOver'
  BY <1>1, <1>2 DEF RolledOver
<1>3. CASE UNCHANGED vars4
  BY <1>2, <1>3 DEF vars4, vars3, vars, annualVars
<1>4. ASSUME NEW t \in Instant, NEW role \in Role, deposit_v4(t, role)
      PROVE  RolledOver'
  <2>1. /\ UNCHANGED <<period, period_used>> /\ vault[role] = NoVault
        /\ vault' = [vault EXCEPT ![role] = [NoVault EXCEPT !.principal = amount[role]]]
    BY <1>4 DEF deposit_v4, deposit_v3, deposit, annualVars, funded_mask
  <2>2. \A r \in Role : /\ vault'[r].period = vault[r].period
                        /\ vault'[r].period_used = vault[r].period_used
    BY <1>1, <2>1 DEF TypeOK, NoVault
  <2> QED BY <1>2, <2>1, <2>2
<1>5. ASSUME NEW t \in Instant, NEW role \in Role, refund_v4(t, role)
      PROVE  RolledOver'
  BY <1>2, <1>5 DEF refund_v4, refund_v3, refund, ledgerVars, annualVars
<1>6. ASSUME NEW t, NEW role, NEW n, NEW destination,
             Released(t, role, n, destination)
      PROVE  RolledOver'
  <2> DEFINE p == period_at(t)
  <2>1. /\ role \in Role /\ n \in Nat /\ p \in Nat /\ period <= p
        /\ Charged(p, role, n)
    BY <1>1, <1>6, ReleaseEffect
  <2> HIDE DEF p
  <2>2. /\ period' = p
        /\ vault'[role].period = p
        /\ vault'[role].period_used = Budget!used_at(p, role) + n
        /\ period_used'[role] = Budget!used_at(p, role) + n
    BY <2>1 DEF Charged
  <2>3. ASSUME NEW r \in Role, r # role
        PROVE  /\ vault'[r].period <= p
               /\ period_used'[r] =
                    IF vault'[r].period = p THEN vault'[r].period_used ELSE 0
    <3>1. /\ vault'[r] = vault[r]
          /\ period_used'[r] = Budget!used_at(p, r) + 0
      BY <2>1, <2>3 DEF Charged
    <3>2. /\ vault[r].period \in Nat /\ period \in Nat /\ vault[r].period <= period
          /\ period_used[r] \in Nat
          /\ period_used[r] =
               IF vault[r].period = period THEN vault[r].period_used ELSE 0
      BY <1>1 DEF TypeOK, VaultRecord, RolledOver
    <3>3. period_used'[r] = IF p = period THEN period_used[r] ELSE 0
      BY <3>1, <3>2 DEF Budget!used_at
    <3> QED BY <2>1, <3>1, <3>2, <3>3
  <2> QED BY <2>1, <2>2, <2>3 DEF RolledOver
<1>7. ASSUME TokenProgram, UNCHANGED annualVars PROVE RolledOver'
  BY <1>2, <1>7 DEF TokenProgram, Donate, SetAuthority, ledgerVars, annualVars
<1>8. ASSUME NEW t, Quiet(t) PROVE RolledOver'
  BY <1>2, <1>8 DEF Quiet, ledgerVars, annualVars
<1> QED BY <1>3, <1>4, <1>5, <1>6, <1>7, <1>8, StepCases

(* So what v3 charges is what v2 would have charged, and v3's quotas leave *)
(* a release within every limit of v2.                                     *)
LEMMA ReleaseNarrows ==
    ASSUME RInv, NEW t \in Instant, NEW role \in Role, NEW n \in ReleaseAmount,
           NEW destination, release_v3(t, role, n, destination), t > t0
    PROVE  release(t, role, n, destination)
<1> DEFINE p == period_at(t)
           own == n + (IF p > vault[role].period THEN 0 ELSE vault[role].period_used)
           shared == n + (IF p > period THEN 0 ELSE shared_used)
<1>1. /\ TypeOK /\ RolledOver /\ n \in Nat /\ t >= t0
      /\ releasing(t, role, n, destination) /\ consume(t, role, n)
      /\ p \in Nat /\ Budget!period_at(t) = p
  BY PeriodIndex, ConfigAssumption DEF RInv, release_v3
<1>2. /\ Budget!window_open(t) /\ Budget!accounting_sound(t)
      /\ Budget!within_budget(t, role, n) /\ Charged(p, role, n)
  BY <1>1, Commits DEF consume, window_limits, within_limits
<1>3. period <= p
  BY <1>1 DEF releasing
<1>4. Budget!FOUNDER = FOUNDER /\ Budget!TREASURY = TREASURY
      /\ FOUNDER \in Role /\ TREASURY \in Role
      /\ \A r \in Role : r = FOUNDER \/ r = TREASURY
  BY DEF Role, Budget!FOUNDER, FOUNDER, Budget!TREASURY, TREASURY
<1>5. /\ \A r \in Role : /\ Budget!used_at(p, r) \in Nat
                         /\ Budget!cap_at(p, r) \in Nat
                         /\ Budget!cap_at(p, r) <= period_cap[r]
                         /\ Budget!quotas_at(t)[r] \in Nat
                         /\ Budget!quotas_at(t)[r] <= Budget!cap_at(p, r)
      /\ Budget!capacity_at(p) \in Nat
      /\ Budget!capacity_at(p) <= report_capacity
      /\ Budget!capacity_at(p) <= shared_hard_cap
  BY <1>1, <1>2, Ceilings, Quotas
<1>6. /\ Budget!used_at(p, role) + n <= Budget!quotas_at(t)[role]
      /\ released_total[role] + n <= vault[role].principal
      /\ Budget!used_at(p, FOUNDER) + Budget!used_at(p, TREASURY) + n
           <= Budget!capacity_at(p)
      /\ shared_used = period_used[FOUNDER] + period_used[TREASURY]
      /\ vault[role].released_total = released_total[role]
  BY <1>1, <1>2, <1>4 DEF Budget!within_budget, Budget!accounting_sound, consume
<1> HIDE DEF p
<1>7. /\ \A r \in Role : period_used[r] \in Nat
      /\ period \in Nat /\ vault[role].period \in Nat /\ vault[role].period <= period
      /\ vault[role].period_used \in Nat
      /\ period_used[role] =
           IF vault[role].period = period THEN vault[role].period_used ELSE 0
  BY <1>1 DEF TypeOK, VaultRecord, RolledOver
<1>8. own = Budget!used_at(p, role) + n
  BY <1>1, <1>3, <1>7 DEF Budget!used_at
<1>9. shared = Budget!used_at(p, FOUNDER) + Budget!used_at(p, TREASURY) + n
  BY <1>1, <1>3, <1>4, <1>6, <1>7 DEF Budget!used_at
<1>10. shared_used' = shared
  <2>1. /\ shared_used' = period_used'[FOUNDER] + period_used'[TREASURY]
        /\ period_used'[FOUNDER] = Budget!used_at(p, FOUNDER)
                                     + (IF FOUNDER = role THEN n ELSE 0)
        /\ period_used'[TREASURY] = Budget!used_at(p, TREASURY)
                                     + (IF TREASURY = role THEN n ELSE 0)
    BY <1>2, <1>4 DEF Charged
  <2>2. FOUNDER # TREASURY
    BY DEF FOUNDER, TREASURY
  <2> QED BY <1>1, <1>4, <1>5, <1>9, <2>1, <2>2
<1>11. own <= period_cap[role] /\ shared <= shared_hard_cap
       /\ shared <= report_capacity
  <2>1. period_cap[role] \in Nat /\ shared_hard_cap \in Nat /\ report_capacity \in Nat
    BY <1>1, ConfigAssumption DEF TypeOK
  <2> HIDE DEF own, shared
  <2> QED BY <1>1, <1>4, <1>5, <1>6, <1>8, <1>9, <2>1
<1>12. /\ period' = p
       /\ vault' = [vault EXCEPT ![role].period = p,
                                 ![role].period_used = own,
                                 ![role].released_total = @ + n]
  BY <1>2, <1>8 DEF Charged
<1>13. vault[role].released_total + n <= vault[role].principal
  BY <1>6
<1>14. first_come(t, role, n)
  BY <1>10, <1>11, <1>12, <1>13 DEF first_come, p
<1> QED BY <1>1, <1>14 DEF release

LEMMA NarrowsStep ==
    RInv /\ [Next4]_vars4 => [(Next3 /\ Next) \/ clock_advances]_vars3
<1> SUFFICES ASSUME RInv, [Next4]_vars4
             PROVE  (Next3 /\ Next) \/ clock_advances \/ UNCHANGED vars3
  OBVIOUS
<1>1. CASE UNCHANGED vars4
  BY <1>1 DEF vars4
<1>2. CASE TokenProgram /\ UNCHANGED annualVars /\ uncontrolled
  BY <1>2 DEF Next3, Next
<1>3. ASSUME NEW t \in Instant, NEW role \in Role,
             deposit_v4(t, role) \/ refund_v4(t, role)
      PROVE  Next3 /\ Next
  <2>1. deposit_v3(t, role) \/ refund_v3(t, role)
    BY <1>3 DEF deposit_v4, refund_v4
  <2>2. deposit(t, role) \/ refund(t, role)
    BY <2>1 DEF deposit_v3, refund_v3
  <2> QED BY <2>1, <2>2 DEF Next3, Next
<1>4. ASSUME NEW t \in Instant,
             arm_v4(t) \/ activate_v4(t) \/ cancel_v4(t) \/ expire_unarmed_v4(t)
      PROVE  Next3 /\ Next
  <2>1. arm_v3(t) \/ activate_v3(t) \/ cancel_v3(t) \/ expire_unarmed_v3(t)
    BY <1>4 DEF arm_v4, activate_v4, cancel_v4, expire_unarmed_v4
  <2>2. arm(t) \/ activate(t) \/ cancel(t) \/ expire_unarmed(t)
    BY <2>1 DEF arm_v3, activate_v3, cancel_v3, expire_unarmed_v3
  <2> QED BY <2>1, <2>2 DEF Next3, Next
<1>5. ASSUME NEW t \in Instant, NEW c \in ReportedCapacity, NEW o \in Instant,
             NEW s \in ReportSequence, NEW e, report_capacity_v4(t, c, o, s, e)
      PROVE  Next3 /\ Next
  <2>1. report_capacity_v3(t, c, o, s)
    BY <1>5 DEF report_capacity_v4
  <2>2. report_capacity_v2(t, c, o, s)
    BY <2>1 DEF report_capacity_v3
  <2> QED BY <2>1, <2>2 DEF Next3, Next
<1>6. ASSUME NEW t \in Instant, NEW p \in PolicyPeriod, NEW need \in Need,
             NEW recipient \in Account \cup Role,
             approve_treasury_v4(t, p, need, recipient)
      PROVE  Next3 /\ Next
  <2>1. approve_treasury_v3(t, p, need, recipient)
    BY <1>6 DEF approve_treasury_v4
  <2>2. approve_treasury(t, p, need, recipient)
    BY <2>1 DEF approve_treasury_v3
  <2> QED BY <2>1, <2>2 DEF Next3, Next
<1>7. ASSUME NEW t \in Instant, NEW role \in Role, NEW n \in ReleaseAmount,
             NEW destination \in Account \cup Role,
             release_v4(t, role, n, destination)
      PROVE  Next3 /\ Next
  <2>1. release_v3(t, role, n, destination) /\ t > t0
    BY <1>7 DEF release_v4, release_v3, releasing
  <2>2. release(t, role, n, destination)
    BY <2>1, ReleaseNarrows
  <2> QED BY <2>1, <2>2 DEF Next3, Next
<1>8. ASSUME NEW t \in Instant, Governed(t) PROVE clock_advances
  BY <1>8 DEF Governed, launchUnchanged, clock_advances
<1>9. ASSUME NEW t \in Instant,
             \/ \E kind, recovery, successor, nonce :
                  propose_change(t, kind, recovery, successor, nonce)
             \/ \E q : cancel_change(t, q) \/ execute_change(t, q)
      PROVE  clock_advances
  BY <1>8, <1>9, Governs
<1>10. CASE Next4
  <2>1. CASE TokenProgram /\ UNCHANGED annualVars /\ uncontrolled
    BY <1>2, <2>1
  <2>2. CASE ~(TokenProgram /\ UNCHANGED annualVars /\ uncontrolled)
    <3> PICK t \in Instant :
          \/ \E role \in Role : deposit_v4(t, role) \/ refund_v4(t, role)
          \/ arm_v4(t) \/ activate_v4(t) \/ cancel_v4(t) \/ expire_unarmed_v4(t)
          \/ \E c \in ReportedCapacity, o \in Instant, s \in ReportSequence,
                e \in 0..COUNTER_MAX : report_capacity_v4(t, c, o, s, e)
          \/ \E p \in PolicyPeriod, need \in Need, recipient \in Account \cup Role :
               approve_treasury_v4(t, p, need, recipient)
          \/ \E role \in Role, n \in ReleaseAmount, destination \in Account \cup Role :
               release_v4(t, role, n, destination)
          \/ \E kind, recovery, successor, nonce :
               propose_change(t, kind, recovery, successor, nonce)
          \/ \E q : cancel_change(t, q) \/ execute_change(t, q)
      BY <1>10, <2>2 DEF Next4
    <3> QED BY <1>3, <1>4, <1>5, <1>6, <1>7, <1>9
  <2> QED BY <2>1, <2>2
<1> QED BY <1>1, <1>10

(* Each launch program only narrows its predecessors: a step of v4 is one  *)
(* of v3 and of v2, or a governance call that only advances the clock.     *)
THEOREM PredecessorsNarrowed == Spec4 => NarrowsPredecessors
<1>1. Init4 => Init3
  BY DEF Init4
<1>2. Spec4 => []RInv
  BY RolledInit, RolledStep, PTL DEF Spec4
<1> QED BY <1>1, <1>2, NarrowsStep, PTL DEF Spec4, NarrowsPredecessors

-----------------------------------------------------------------------------
(***************************************************************************)
(* No starvation.                                                          *)
(***************************************************************************)

(* The cliff ends where a period begins.                                   *)
LEMMA CliffByPeriod ==
    ASSUME NEW t \in Instant, NEW u \in Instant, t >= t0, u >= t0,
           period_at(t) = period_at(u)
    PROVE  Budget!cliff_passed(t) = Budget!cliff_passed(u)
<1>1. PICK n \in Nat : CLIFF = n * PERIOD
  BY ConfigAssumption
<1>2. PERIOD \in Nat \ {0} /\ n * PERIOD \in Nat /\ t0 \in Nat /\ Instant \subseteq Nat
  BY <1>1, ConfigAssumption
<1>3. ASSUME NEW x \in Instant, x >= t0
      PROVE  Budget!cliff_passed(x) <=> period_at(x) >= n
  <2> DEFINE a == x - t0
  <2>1. a \in Nat /\ (Budget!cliff_passed(x) <=> a >= n * PERIOD)
    BY <1>1, <1>2, <1>3 DEF Budget!cliff_passed
  <2>2. a >= n * PERIOD <=> a \div PERIOD >= n
    <3> HIDE DEF a
    <3> QED BY <1>2, <2>1, DivisionThreshold
  <2> QED BY <2>1, <2>2 DEF period_at
<1>4. Budget!cliff_passed(t) \in BOOLEAN /\ Budget!cliff_passed(u) \in BOOLEAN
  BY DEF Budget!cliff_passed
<1> QED BY <1>3, <1>4

(* A release of the period moves none of what its quotas are projected     *)
(* from.                                                                   *)
LEMMA ProjectionStable ==
    ASSUME TypeOK, NEW p \in Nat, NEW role \in Role, NEW n \in Nat,
           Charged(p, role, n), UNCHANGED report_capacity
    PROVE  /\ Budget!rule_at(p)' = Budget!rule_at(p)
           /\ \A r \in Role :
                LET spent == IF r = role THEN n ELSE 0
                    i == Budget!rule_at(p) IN
                /\ Budget!used_at(p, r)' = Budget!used_at(p, r) + spent
                /\ Budget!annual_used_at(i, r)' = Budget!annual_used_at(i, r) + spent
                /\ Budget!prior_annual(p, r)' = Budget!prior_annual(p, r)
                /\ Budget!prior_lifetime(p, r)' = Budget!prior_lifetime(p, r)
                /\ Budget!cap_at(p, r)' = Budget!cap_at(p, r)
           /\ Budget!shared_prior(p)' = Budget!shared_prior(p)
           /\ Budget!capacity_at(p)' = Budget!capacity_at(p)
<1> DEFINE i == Budget!rule_at(p)
<1>1. i' = i
  BY DEF Budget!rule_at, Budget!covers
<1>2. period' = p /\ annual_index' = i
  BY DEF Charged
<1>3. ASSUME NEW r \in Role
      PROVE  /\ Budget!used_at(p, r) \in Nat /\ Budget!annual_used_at(i, r) \in Nat
             /\ released_total[r] \in Nat
  BY DEF TypeOK, Budget!used_at, Budget!annual_used_at
<1>4. ASSUME NEW r \in Role
      PROVE  LET spent == IF r = role THEN n ELSE 0 IN
             /\ period_used'[r] = Budget!used_at(p, r) + spent
             /\ annual_used'[r] = Budget!annual_used_at(i, r) + spent
             /\ released_total'[r] = released_total[r] + spent
  BY DEF Charged
<1> HIDE DEF i
<1>5. ASSUME NEW r \in Role
      PROVE  LET spent == IF r = role THEN n ELSE 0 IN
             /\ Budget!used_at(p, r)' = Budget!used_at(p, r) + spent
             /\ Budget!annual_used_at(i, r)' = Budget!annual_used_at(i, r) + spent
  BY <1>1, <1>2, <1>4 DEF Budget!used_at, Budget!annual_used_at
<1>6. ASSUME NEW r \in Role
      PROVE  /\ Budget!prior_annual(p, r)' = Budget!prior_annual(p, r)
             /\ Budget!prior_lifetime(p, r)' = Budget!prior_lifetime(p, r)
  <2>1. /\ Budget!prior_annual(p, r)' =
             Budget!annual_used_at(i, r)' - Budget!used_at(p, r)'
        /\ Budget!prior_annual(p, r) =
             Budget!annual_used_at(i, r) - Budget!used_at(p, r)
        /\ Budget!prior_lifetime(p, r)' = released_total'[r] - Budget!used_at(p, r)'
        /\ Budget!prior_lifetime(p, r) = released_total[r] - Budget!used_at(p, r)
    BY <1>1 DEF Budget!prior_annual, Budget!prior_lifetime, Budget!annual_used_at, i
  <2> QED BY <1>3, <1>4, <1>5, <2>1
<1>7. Budget!FOUNDER = FOUNDER /\ Budget!TREASURY = TREASURY
      /\ FOUNDER \in Role /\ TREASURY \in Role
  BY DEF Role, Budget!FOUNDER, FOUNDER, Budget!TREASURY, TREASURY
<1>8. ASSUME NEW r \in Role PROVE Budget!cap_at(p, r)' = Budget!cap_at(p, r)
  BY <1>1, <1>6 DEF Budget!cap_at, Budget!least, Budget!annual_cap, i
<1>9. Budget!shared_prior(p)' = Budget!shared_prior(p)
  BY <1>6, <1>7 DEF Budget!shared_prior
<1>10. Budget!capacity_at(p)' = Budget!capacity_at(p)
  BY <1>1, <1>9 DEF Budget!capacity_at, Budget!least, i
<1> QED BY <1>1, <1>5, <1>6, <1>8, <1>9, <1>10 DEF i

LEMMA NeverStarves ==
    ASSUME TypeOK, NEW u, NEW role, NEW m, NEW destination,
           Released(u, role, m, destination),
           NEW other \in Role, other # role,
           NEW t \in Instant, t >= u, period_at(t) = period_at(u),
           NEW n \in ReleaseAmount, could_release(t, other, n)
    PROVE  could_release(t, other, n)'
<1> DEFINE p == period_at(t)
           i == Budget!rule_at(p)
<1>1. /\ u \in Instant /\ u \in Nat /\ u > t0 /\ t \in Nat /\ t0 \in Nat
      /\ role \in Role /\ m \in Nat /\ n \in Nat /\ p \in Nat
      /\ Budget!period_at(t) = p /\ Budget!period_at(u) = p
      /\ Charged(p, role, m)
  BY ReleaseEffect, PeriodIndex, ConfigAssumption
<1>2. t >= t0 /\ u >= t0
  BY <1>1
<1>3. UNCHANGED report_capacity
  BY DEF Released, release_v4, release_v3, releasing, reportVars
<1>4. /\ Budget!window_open(t) /\ Budget!accounting_sound(t)
      /\ ~Budget!correction_pause(t) /\ Budget!within_budget(t, other, n)
      /\ Budget!window_open(u) /\ Budget!accounting_sound(u)
      /\ Budget!within_budget(u, role, m)
  BY DEF could_release, window_limits, within_limits, Released, release_v4,
     release_v3, consume
<1>5. Budget!FOUNDER = FOUNDER /\ Budget!TREASURY = TREASURY /\ Budget!Role = Role
      /\ FOUNDER \in Role /\ TREASURY \in Role /\ FOUNDER # TREASURY
      /\ \A r \in Role : r = FOUNDER \/ r = TREASURY
  BY DEF Role, Budget!Role, Budget!FOUNDER, FOUNDER, Budget!TREASURY, TREASURY
<1>6. Budget!quotas_at(u) = Budget!quotas_at(t)
  BY <1>1, <1>2, CliffByPeriod DEF Budget!quotas_at
<1>7. /\ \A r \in Role : /\ Budget!used_at(p, r) \in Nat
                         /\ Budget!quotas_at(t)[r] \in Nat
      /\ Budget!capacity_at(p) \in Nat
      /\ Budget!quotas_at(t)[FOUNDER] + Budget!quotas_at(t)[TREASURY]
           <= Budget!capacity_at(p)
  BY <1>2, <1>4, Ceilings, Quotas
<1>8. Budget!period_at(t)' = p
  BY <1>1 DEF Budget!period_at
<1> HIDE DEF p
<1>9. /\ i' = i
      /\ \A r \in Role :
            LET spent == IF r = role THEN m ELSE 0 IN
            /\ Budget!used_at(p, r)' = Budget!used_at(p, r) + spent
            /\ Budget!annual_used_at(i, r)' = Budget!annual_used_at(i, r) + spent
            /\ Budget!prior_annual(p, r)' = Budget!prior_annual(p, r)
            /\ Budget!prior_lifetime(p, r)' = Budget!prior_lifetime(p, r)
            /\ Budget!cap_at(p, r)' = Budget!cap_at(p, r)
      /\ Budget!shared_prior(p)' = Budget!shared_prior(p)
      /\ Budget!capacity_at(p)' = Budget!capacity_at(p)
  BY <1>1, <1>3, ProjectionStable
<1>10. Budget!quotas_at(t)' = Budget!quotas_at(t)
  <2>1. Budget!quotas_at(t) =
          Budget!reserved_quotas(Budget!capacity_at(p), Budget!cap_at(p, FOUNDER),
                                 Budget!cap_at(p, TREASURY), Budget!cliff_passed(t))
    BY <1>1, <1>5 DEF Budget!quotas_at
  <2>2. Budget!quotas_at(t)' =
          Budget!reserved_quotas(Budget!capacity_at(p)', Budget!cap_at(p, FOUNDER)',
                                 Budget!cap_at(p, TREASURY)', Budget!cliff_passed(t))
    BY <1>5, <1>8 DEF Budget!quotas_at, Budget!cliff_passed, Budget!reserved_quotas,
       Budget!least
  <2> QED BY <1>5, <1>9, <2>1, <2>2
<1>11. /\ period' = p /\ annual_index' = i
       /\ released_total'[other] = released_total[other]
       /\ vault'[other] = vault[other]
       /\ shared_used' = period_used'[FOUNDER] + period_used'[TREASURY]
  BY <1>1 DEF Charged, TypeOK
<1>12. Budget!window_open(t)'
  <2>1. /\ \E j \in Budget!RuleIndex : Budget!covers(j, p)
        /\ i \in Budget!RuleIndex
    BY <1>1, <1>4 DEF Budget!window_open, Budget!rule_at
  <2>2. \E j \in Budget!RuleIndex : Budget!covers(j, p)'
    BY <2>1 DEF Budget!covers
  <2>3. p >= period' /\ i' >= annual_index'
    BY <1>1, <1>9, <1>11, <2>1 DEF Budget!RuleIndex
  <2> QED BY <1>8, <2>2, <2>3 DEF Budget!window_open, Budget!covers, Budget!RuleIndex
<1>13. Budget!accounting_sound(t)'
  <2>1. /\ \A r \in Role :
             /\ Budget!prior_annual(p, r) >= 0
             /\ Budget!prior_lifetime(p, r) >= 0
             /\ Budget!prior_annual(p, r) <= Budget!annual_cap(i, r)
             /\ Budget!prior_lifetime(p, r) <= amount[r]
        /\ Budget!shared_prior(p) <= annual_rules[i].shared_cap
    BY <1>1, <1>4, <1>5 DEF Budget!accounting_sound
  <2>2. \A r \in Role : Budget!annual_cap(i, r)' = Budget!annual_cap(i, r)
    BY <1>9 DEF Budget!annual_cap
  <2> QED BY <1>5, <1>8, <1>9, <1>11, <2>1, <2>2
       DEF Budget!accounting_sound, Budget!annual_cap, i
<1>14. /\ Budget!used_at(p, role) + m <= Budget!quotas_at(t)[role]
       /\ Budget!used_at(p, other) + n <= Budget!quotas_at(t)[other]
       /\ Budget!used_at(p, other) <= Budget!quotas_at(t)[other]
       /\ Budget!annual_used_at(i, other) + n <= Budget!annual_cap(i, other)
       /\ released_total[other] + n <= vault[other].principal
  <2>1. Budget!used_at(p, other) + n <= Budget!quotas_at(t)[other]
    BY <1>1, <1>4 DEF Budget!within_budget
  <2> QED BY <1>1, <1>4, <1>6, <1>7, <2>1 DEF Budget!within_budget
<1>15. /\ Budget!used_at(p, role)' = Budget!used_at(p, role) + m
       /\ Budget!used_at(p, other)' = Budget!used_at(p, other)
       /\ Budget!annual_used_at(i, other)' = Budget!annual_used_at(i, other)
  <2>1. Budget!annual_used_at(i, other) \in Nat
    BY DEF Budget!annual_used_at, TypeOK
  <2> QED BY <1>1, <1>7, <1>9, <2>1
<1>16. ~Budget!correction_pause(t)'
  <2>1. \A r \in Role : ~(Budget!used_at(p, r)' > Budget!quotas_at(t)'[r])
    BY <1>1, <1>5, <1>7, <1>10, <1>14, <1>15
  <2> QED BY <1>5, <1>8, <2>1 DEF Budget!correction_pause
<1>17. Budget!within_budget(t, other, n)'
  <2>1. Budget!used_at(p, FOUNDER)' + Budget!used_at(p, TREASURY)' + n
          <= Budget!capacity_at(p)'
    BY <1>1, <1>5, <1>7, <1>9, <1>14, <1>15
  <2>2. Budget!annual_used_at(i, other)' + n <= Budget!annual_cap(i, other)'
    BY <1>9, <1>14, <1>15 DEF Budget!annual_cap
  <2> QED BY <1>5, <1>8, <1>9, <1>10, <1>11, <1>14, <1>15, <2>1, <2>2
       DEF Budget!within_budget, Budget!annual_used_at, Budget!annual_cap, i
<1> QED BY <1>12, <1>13, <1>16, <1>17 DEF could_release, window_limits, within_limits

(* v3's answer to v2: whatever a pool releases, the other can still        *)
(* release later in the period all that it could before.                   *)
THEOREM PoolsNeverStarved == Spec4 => NoStarvation
<1> DEFINE Unstarved ==
        \A role, other \in Role :
          released_total'[role] # released_total[role] /\ other # role =>
            \A t \in Instant, n \in ReleaseAmount :
              /\ t >= last_action_at' /\ period_at(t) = period'
              /\ could_release(t, other, n)
              => could_release(t, other, n)'
<1> HIDE DEF Unstarved
<1>1. ASSUME TypeOK, [Next4]_vars4 PROVE Unstarved
  <2>1. ASSUME UNCHANGED released_total PROVE Unstarved
    BY <2>1 DEF Unstarved
  <2>2. ASSUME NEW u, NEW charged, NEW m, NEW destination,
               Released(u, charged, m, destination)
        PROVE  Unstarved
    <3>1. /\ period' = period_at(u) /\ last_action_at' = u
          /\ charged \in Role /\ m \in Nat
          /\ \A r \in Role : r # charged => released_total'[r] = released_total[r]
      <4>1. Charged(period_at(u), charged, m) /\ charged \in Role /\ m \in Nat
        BY <1>1, <2>2, ReleaseEffect
      <4>2. last_action_at' = u
        BY <2>2 DEF Released, release_v4, release_v3, releasing, tick
      <4> QED BY <1>1, <4>1, <4>2 DEF Charged, TypeOK
    <3>2. SUFFICES ASSUME NEW role \in Role, NEW other \in Role,
                          released_total'[role] # released_total[role], other # role,
                          NEW t \in Instant, NEW n \in ReleaseAmount,
                          t >= last_action_at', period_at(t) = period',
                          could_release(t, other, n)
                   PROVE  could_release(t, other, n)'
      BY DEF Unstarved
    <3>3. role = charged
      BY <3>1, <3>2
    <3> QED BY <1>1, <2>2, <3>1, <3>2, <3>3, NeverStarves
  <2>3. \/ UNCHANGED released_total
        \/ \E t, role, n, destination : Released(t, role, n, destination)
    BY <1>1, StepCases DEF deposit_v4, deposit_v3, refund_v4, refund_v3, Quiet,
       annualVars, vars4, vars3
  <2> QED BY <2>1, <2>2, <2>3
<1> QED BY <1>1, TypeInvariant, PTL DEF Spec4, NoStarvation, Unstarved
==============================================================================
