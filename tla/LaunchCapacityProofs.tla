------------------------- MODULE LaunchCapacityProofs -------------------------
(***************************************************************************)
(* Proofs about the release budget.                                        *)
(***************************************************************************)
EXTENDS LaunchCapacity, AmountTheorems

(* A vault account that exists holds the whole principal of its role.      *)
PrincipalsExact ==
    \A role \in Role :
        vault[role] # NoVault => vault[role].principal = amount[role]

CInv ==
    /\ CTypeOK
    /\ PrincipalsExact
    /\ LedgerConsistent
    /\ WithinSchedule

-----------------------------------------------------------------------------
(***************************************************************************)
(* The reserved quotas.                                                    *)
(***************************************************************************)

(* No quota exceeds the ceiling of its pool, the Founder has none before   *)
(* the cliff, and together they do not exceed the capacity.                *)
LEMMA QuotasReserved ==
    ASSUME NEW capacity \in Nat, NEW f \in Nat, NEW t \in Nat,
           NEW eligible \in BOOLEAN
    PROVE  LET quotas == reserved_quotas(capacity, f, t, eligible) IN
           /\ quotas \in [Role -> Nat]
           /\ quotas[FOUNDER] <= f
           /\ quotas[TREASURY] <= t
           /\ quotas[FOUNDER] + quotas[TREASURY] <= capacity
           /\ ~eligible => quotas[FOUNDER] = 0
<1> USE DEF Role, FOUNDER, TREASURY
<1>1. CASE ~eligible
  BY <1>1 DEF reserved_quotas, least
<1>2. CASE eligible /\ f + t = 0
  BY <1>2 DEF reserved_quotas
<1>3. CASE eligible /\ f + t # 0
  <2> DEFINE available == least(capacity, f + t)
             founders == (available * f) \div (f + t)
  <2>1. available \in Nat /\ available <= f + t /\ available <= capacity
    BY DEF least
  <2>2. /\ founders \in 0..available /\ founders <= f
        /\ available - founders <= t
    BY <1>3, <2>1, ProportionalSplit
  <2>3. reserved_quotas(capacity, f, t, eligible) =
          [role \in Role |-> IF role = FOUNDER THEN founders
                             ELSE available - founders]
    BY <1>3 DEF reserved_quotas
  <2> HIDE DEF available, founders
  <2> DEFINE quotas == reserved_quotas(capacity, f, t, eligible)
  <2>4. quotas[FOUNDER] = founders /\ quotas[TREASURY] = available - founders
    BY <2>3
  <2>5. quotas \in [Role -> Nat]
    BY <2>1, <2>2, <2>3
  <2> HIDE DEF quotas
  <2>6. /\ quotas[FOUNDER] <= f /\ quotas[TREASURY] <= t
        /\ quotas[FOUNDER] + quotas[TREASURY] <= capacity
    BY <2>1, <2>2, <2>4
  <2> QED
    BY <1>3, <2>5, <2>6 DEF quotas
<1> QED
  BY <1>1, <1>2, <1>3

-----------------------------------------------------------------------------
(***************************************************************************)
(* The projection of a ledger that satisfies the invariant.                *)
(***************************************************************************)

LEMMA PeriodIndex ==
    ASSUME NEW t \in Nat, t >= t0
    PROVE  period_at(t) \in Nat
<1>1. t - t0 \in Nat /\ PERIOD \in Nat \ {0}
  BY TimeAssumption, ConfigAssumption
<1> QED
  BY <1>1, Division DEF period_at

LEMMA AnnualCap ==
    ASSUME NEW i \in RuleIndex, NEW role \in Role
    PROVE  /\ annual_cap(i, role) \in Nat
           /\ annual_cap(i, role) \div RATE_DIVISOR \in Nat
<1>1. annual_rules[i] \in AnnualRule
  BY RulesAssumption
<1>2. annual_rules[i].basis[role] \in Nat /\ annual_rules[i].release_bps \in Nat
  BY <1>1 DEF AnnualRule
<1>3. annual_rules[i].basis[role] * annual_rules[i].release_bps \in Nat
  BY <1>2
<1> QED
  BY <1>3, Division, CapacityAssumption DEF annual_cap

(* The two rules do not overlap, so at most one covers a period.           *)
LEMMA RuleOfPeriod ==
    ASSUME NEW p \in Nat, NEW i \in RuleIndex, covers(i, p)
    PROVE  rule_at(p) = i
<1>1. \A j \in RuleIndex : annual_rules[j] \in AnnualRule
  BY RulesAssumption
<1>2. \A j \in RuleIndex : covers(j, p) => j = i
  BY <1>1, RulesAssumption DEF covers, RuleIndex, AnnualRule
<1> QED
  BY <1>2 DEF rule_at

(* Counters as they count for period p: zero after a roll-over, nested,    *)
(* and within the annual ceilings of the rule that covers p.               *)
LEMMA ProjectedCounters ==
    ASSUME CInv, NEW p \in Nat, NEW i \in RuleIndex, covers(i, p)
    PROVE  /\ \A role \in Role :
                 /\ used_at(p, role) \in Nat
                 /\ annual_used_at(i, role) \in Nat
                 /\ used_at(p, role) <= annual_used_at(i, role)
                 /\ annual_used_at(i, role) <= released_total[role]
                 /\ annual_used_at(i, role) <= annual_cap(i, role)
           /\ annual_used_at(i, FOUNDER) + annual_used_at(i, TREASURY)
                 <= annual_rules[i].shared_cap
<1>1. p = period => i = annual_index
  BY RuleOfPeriod DEF CInv, CTypeOK, LedgerConsistent
<1>2. annual_rules[i].shared_cap \in Nat
  BY RulesAssumption DEF AnnualRule
<1>3. FOUNDER \in Role /\ TREASURY \in Role
  BY DEF Role
<1>4. ASSUME NEW role \in Role
      PROVE  /\ used_at(p, role) \in Nat
             /\ annual_used_at(i, role) \in Nat
             /\ used_at(p, role) <= annual_used_at(i, role)
             /\ annual_used_at(i, role) <= released_total[role]
             /\ annual_used_at(i, role) <= annual_cap(i, role)
  <2>1. /\ period_used[role] \in Nat /\ annual_used[role] \in Nat
        /\ released_total[role] \in Nat
    BY DEF CInv, CTypeOK
  <2>2. /\ period_used[role] <= annual_used[role]
        /\ annual_used[role] <= released_total[role]
        /\ annual_used[role] <= annual_cap(annual_index, role)
    BY DEF CInv, LedgerConsistent, WithinSchedule
  <2> QED
    BY <1>1, <2>1, <2>2, AnnualCap DEF used_at, annual_used_at
<1>5. annual_used_at(i, FOUNDER) + annual_used_at(i, TREASURY)
        <= annual_rules[i].shared_cap
  <2>1. annual_used[FOUNDER] + annual_used[TREASURY]
          <= annual_rules[annual_index].shared_cap
    BY DEF CInv, WithinSchedule
  <2> QED
    BY <1>2, <2>1 DEF annual_used_at
<1> QED
  BY <1>4, <1>5

(* The same before the releases of period p itself.                        *)
LEMMA PriorCounters ==
    ASSUME CInv, NEW p \in Nat, NEW i \in RuleIndex, covers(i, p)
    PROVE  /\ rule_at(p) = i
           /\ \A role \in Role :
                 /\ prior_annual(p, role) \in Nat
                 /\ prior_lifetime(p, role) \in Nat
                 /\ prior_annual(p, role) <= annual_cap(i, role)
                 /\ prior_lifetime(p, role) <= amount[role]
           /\ shared_prior(p) \in Nat
           /\ shared_prior(p) <= annual_rules[i].shared_cap
<1>1. rule_at(p) = i
  BY RuleOfPeriod
<1>2. ASSUME NEW role \in Role
      PROVE  /\ prior_annual(p, role) \in Nat
             /\ prior_lifetime(p, role) \in Nat
             /\ prior_annual(p, role) <= annual_used_at(i, role)
             /\ prior_annual(p, role) <= annual_cap(i, role)
             /\ prior_lifetime(p, role) <= amount[role]
  <2>1. released_total[role] \in Nat /\ released_total[role] <= amount[role]
    BY DEF CInv, CTypeOK, WithinSchedule
  <2>2. amount[role] \in Nat /\ annual_cap(i, role) \in Nat
    BY CapacityAssumption, AnnualCap
  <2> QED
    BY <1>1, <2>1, <2>2, ProjectedCounters DEF prior_annual, prior_lifetime
<1>3. /\ shared_prior(p) \in Nat
      /\ shared_prior(p) <= annual_rules[i].shared_cap
  <2>1. FOUNDER \in Role /\ TREASURY \in Role
    BY DEF Role
  <2>2. annual_rules[i].shared_cap \in Nat
    BY RulesAssumption DEF AnnualRule
  <2> QED
    BY <1>2, <2>1, <2>2, ProjectedCounters DEF shared_prior
<1> QED
  BY <1>1, <1>2, <1>3

(* So no checked subtraction of capacity.rs can fail.                      *)
LEMMA Sound ==
    ASSUME CInv, NEW t \in Nat, t >= t0, window_open(t)
    PROVE  accounting_sound(t)
<1> DEFINE p == period_at(t)
<1>1. p \in Nat
  BY PeriodIndex
<1>2. PICK i \in RuleIndex : covers(i, p)
  BY DEF window_open
<1> HIDE DEF p
<1>3. shared_used = period_used[FOUNDER] + period_used[TREASURY]
  BY DEF CInv, LedgerConsistent
<1> QED
  BY <1>1, <1>2, <1>3, PriorCounters DEF p, accounting_sound

(* The ceilings a quota is taken from.                                     *)
LEMMA CeilingBounds ==
    ASSUME CInv, NEW p \in Nat, NEW i \in RuleIndex, covers(i, p)
    PROVE  /\ \A role \in Role :
                 /\ cap_at(p, role) \in Nat
                 /\ cap_at(p, role) <= period_cap[role]
                 /\ cap_at(p, role) <= annual_cap(i, role) \div RATE_DIVISOR
                 /\ cap_at(p, role) <= annual_cap(i, role) - prior_annual(p, role)
                 /\ cap_at(p, role) <= amount[role] - prior_lifetime(p, role)
           /\ capacity_at(p) \in Nat
           /\ capacity_at(p) <= shared_hard_cap
           /\ capacity_at(p) <= annual_rules[i].shared_cap - shared_prior(p)
<1>1. ASSUME NEW role \in Role
      PROVE  /\ cap_at(p, role) \in Nat
             /\ cap_at(p, role) <= period_cap[role]
             /\ cap_at(p, role) <= annual_cap(i, role) \div RATE_DIVISOR
             /\ cap_at(p, role) <= annual_cap(i, role) - prior_annual(p, role)
             /\ cap_at(p, role) <= amount[role] - prior_lifetime(p, role)
  <2>1. /\ annual_cap(i, role) \in Nat
        /\ annual_cap(i, role) \div RATE_DIVISOR \in Nat
        /\ period_cap[role] \in Nat /\ amount[role] \in Nat
    BY CapacityAssumption, AnnualCap
  <2> QED
    BY <2>1, PriorCounters DEF cap_at, least
<1>2. /\ capacity_at(p) \in Nat /\ capacity_at(p) <= shared_hard_cap
      /\ capacity_at(p) <= annual_rules[i].shared_cap - shared_prior(p)
  <2>1. /\ annual_rules[i].shared_cap \in Nat /\ shared_hard_cap \in Nat
        /\ report_capacity \in Nat
    BY RulesAssumption, CapacityAssumption DEF AnnualRule, CInv, CTypeOK
  <2> QED
    BY <2>1, PriorCounters DEF capacity_at, least
<1> QED
  BY <1>1, <1>2

(* A quota respects every ceiling, and before the cliff there is none for  *)
(* the Founder.                                                            *)
LEMMA QuotaBounds ==
    ASSUME CInv, NEW t \in Nat, t >= t0,
           NEW i \in RuleIndex, covers(i, period_at(t))
    PROVE  /\ \A role \in Role :
                 /\ quotas_at(t)[role] \in Nat
                 /\ quotas_at(t)[role] <= cap_at(period_at(t), role)
           /\ quotas_at(t)[FOUNDER] + quotas_at(t)[TREASURY]
                 <= capacity_at(period_at(t))
           /\ ~cliff_passed(t) => quotas_at(t)[FOUNDER] = 0
<1> DEFINE p == period_at(t)
<1>1. p \in Nat
  BY PeriodIndex
<1>2. FOUNDER \in Role /\ TREASURY \in Role
      /\ \A role \in Role : role = FOUNDER \/ role = TREASURY
  BY DEF Role
<1>3. /\ cap_at(p, FOUNDER) \in Nat /\ cap_at(p, TREASURY) \in Nat
      /\ capacity_at(p) \in Nat /\ cliff_passed(t) \in BOOLEAN
  BY <1>1, <1>2, CeilingBounds DEF cliff_passed
<1>4. quotas_at(t) = reserved_quotas(capacity_at(p), cap_at(p, FOUNDER),
                                     cap_at(p, TREASURY), cliff_passed(t))
  BY DEF quotas_at
<1> DEFINE quotas == reserved_quotas(capacity_at(p), cap_at(p, FOUNDER),
                                     cap_at(p, TREASURY), cliff_passed(t))
<1>5. /\ quotas \in [Role -> Nat]
      /\ quotas[FOUNDER] <= cap_at(p, FOUNDER)
      /\ quotas[TREASURY] <= cap_at(p, TREASURY)
      /\ quotas[FOUNDER] + quotas[TREASURY] <= capacity_at(p)
      /\ ~cliff_passed(t) => quotas[FOUNDER] = 0
  BY <1>3, QuotasReserved
<1>6. quotas_at(t) = quotas
  BY <1>4
<1> HIDE DEF quotas
<1> QED
  BY <1>2, <1>5, <1>6

-----------------------------------------------------------------------------
(***************************************************************************)
(* The invariant is inductive.                                             *)
(***************************************************************************)

LEMMA InitialBudget == CInit => CInv
<1> SUFFICES ASSUME CInit PROVE CInv
  OBVIOUS
<1>1. CTypeOK
  BY TimeAssumption DEF CInit, StateInit, CTypeOK, StateTypeOK, LifecycleState,
                        RuleIndex, NoVault, VaultAccount
<1>2. FOUNDER \in Role /\ TREASURY \in Role /\ 0 \in RuleIndex
  BY DEF Role, RuleIndex
<1>3. LedgerConsistent
  BY <1>2, RulesAssumption DEF CInit, LedgerConsistent, covers, NoVault, AnnualRule
<1>4. WithinSchedule
  <2>1. annual_rules[0].shared_cap \in Nat
    BY <1>2, RulesAssumption DEF AnnualRule
  <2> QED
    BY <1>2, <2>1, AnnualCap, CapacityAssumption DEF CInit, WithinSchedule
<1> QED
  BY <1>1, <1>3, <1>4 DEF CInv, CInit, PrincipalsExact

(* What a release leaves behind: it is added to the projected counters of  *)
(* its pool, and the other pool keeps its projected counters.              *)
LEMMA Committed ==
    ASSUME CInv, NEW t \in Instant, NEW role \in Role, NEW n \in ReleaseAmount,
           Consume(t, role, n)
    PROVE  /\ period_at(t) \in Nat /\ period <= period_at(t)
           /\ n \in Nat /\ t \in Nat /\ t >= t0
           /\ rule_at(period_at(t)) \in RuleIndex
           /\ covers(rule_at(period_at(t)), period_at(t))
           /\ period' = period_at(t)
           /\ annual_index' = rule_at(period_at(t))
           /\ period_used' \in [Role -> Nat]
           /\ annual_used' \in [Role -> Nat]
           /\ released_total' \in [Role -> Nat]
           /\ vault' \in [Role -> VaultAccount]
           /\ shared_used' = period_used'[FOUNDER] + period_used'[TREASURY]
           /\ \A r \in Role :
                 LET spent == IF r = role THEN n ELSE 0 IN
                 /\ period_used'[r] = used_at(period_at(t), r) + spent
                 /\ annual_used'[r] =
                       annual_used_at(rule_at(period_at(t)), r) + spent
                 /\ released_total'[r] = released_total[r] + spent
           /\ vault'[role] =
                [principal |-> vault[role].principal,
                 released_total |-> vault[role].released_total + n,
                 period |-> period_at(t), period_used |-> period_used'[role]]
           /\ \A r \in Role \ {role} : vault'[r] = vault[r]
<1>1. t \in Nat /\ t >= t0 /\ n \in Nat
  BY TimeAssumption, ConfigAssumption, CapacityAssumption DEF Consume
<1>2. period_at(t) \in Nat
  BY <1>1, PeriodIndex
<1>3. /\ rule_at(period_at(t)) \in RuleIndex
      /\ covers(rule_at(period_at(t)), period_at(t))
  BY <1>2, RuleOfPeriod DEF Consume, consume, window_open
<1>4. commit(t, role, n) /\ period <= period_at(t)
  BY DEF Consume, consume, window_open
<1>5. /\ released_total \in [Role -> Nat] /\ vault \in [Role -> VaultAccount]
      /\ \A r \in Role : /\ used_at(period_at(t), r) \in Nat
                          /\ annual_used_at(rule_at(period_at(t)), r) \in Nat
  BY <1>2, <1>3, ProjectedCounters DEF CInv, CTypeOK
<1> DEFINE p == period_at(t)
           i == rule_at(p)
<1> HIDE DEF p, i
<1> DEFINE used == [r \in Role |-> used_at(p, r)]
           annual == [r \in Role |-> annual_used_at(i, r)]
<1>6. used \in [Role -> Nat] /\ annual \in [Role -> Nat]
  BY <1>5 DEF p, i
<1>7. /\ period_used' = [used EXCEPT ![role] = @ + n]
      /\ annual_used' = [annual EXCEPT ![role] = @ + n]
      /\ released_total' = [released_total EXCEPT ![role] = @ + n]
  BY <1>4 DEF commit, p, i
<1>8. /\ period_used' \in [Role -> Nat] /\ annual_used' \in [Role -> Nat]
      /\ released_total' \in [Role -> Nat]
  BY <1>1, <1>5, <1>6, <1>7
<1>9. ASSUME NEW r \in Role
      PROVE  LET spent == IF r = role THEN n ELSE 0 IN
             /\ period_used'[r] = used_at(p, r) + spent
             /\ annual_used'[r] = annual_used_at(i, r) + spent
             /\ released_total'[r] = released_total[r] + spent
  BY <1>1, <1>5, <1>6, <1>7 DEF p, i
<1>10. /\ shared_used' = period_used'[FOUNDER] + period_used'[TREASURY]
       /\ vault' = [vault EXCEPT ![role].period = p,
                                 ![role].period_used = period_used'[role],
                                 ![role].released_total = @ + n]
       /\ period' = p /\ annual_index' = i
  BY <1>4 DEF commit, p, i
<1>11. /\ vault' \in [Role -> VaultAccount]
       /\ vault'[role] =
            [principal |-> vault[role].principal,
             released_total |-> vault[role].released_total + n,
             period |-> p, period_used |-> period_used'[role]]
       /\ \A r \in Role \ {role} : vault'[r] = vault[r]
  <2>1. period_used'[role] \in Nat /\ p \in Nat
    BY <1>2, <1>8 DEF p
  <2> DEFINE account == 
         [principal |-> vault[role].principal,
          released_total |-> vault[role].released_total + n,
          period |-> p, period_used |-> period_used'[role]]
  <2>2. vault[role] \in VaultAccount
    BY <1>5
  <2>3. account \in VaultAccount
    BY <1>1, <2>1, <2>2 DEF VaultAccount
  <2>4. vault' = [vault EXCEPT ![role] = account]
    <3>1. account = [vault[role] EXCEPT !.period = p,
                        !.period_used = period_used'[role],
                        !.released_total = @ + n]
      <4> DEFINE old == vault[role]
                 a == [old EXCEPT !.period = p]
                 b == [a EXCEPT !.period_used = period_used'[role]]
      <4>1. a = [principal |-> old.principal, period |-> p,
                 released_total |-> old.released_total,
                 period_used |-> old.period_used]
        BY <2>2 DEF VaultAccount
      <4> HIDE DEF a, old
      <4>2. b = [principal |-> old.principal, period |-> p,
                 released_total |-> old.released_total,
                 period_used |-> period_used'[role]]
        BY <4>1
      <4> HIDE DEF b
      <4>3. [b EXCEPT !.released_total = b.released_total + n] =
              [principal |-> old.principal, period |-> p,
               released_total |-> old.released_total + n,
               period_used |-> period_used'[role]]
        BY <4>2
      <4> QED
        BY <4>3 DEF a, b, old
    <3> QED
      BY <1>5, <1>10, <3>1
  <2> HIDE DEF account
  <2>5. /\ vault' \in [Role -> VaultAccount] /\ vault'[role] = account
        /\ \A r \in Role \ {role} : vault'[r] = vault[r]
    BY <1>5, <2>3, <2>4
  <2> QED
    BY <2>5 DEF account
<1> QED
  BY <1>1, <1>2, <1>3, <1>4, <1>8, <1>9, <1>10, <1>11 DEF p, i

LEMMA ConsumeInv ==
    ASSUME CInv, NEW t \in Instant, NEW role \in Role, NEW n \in ReleaseAmount,
           Consume(t, role, n)
    PROVE  CInv'
<1> DEFINE p == period_at(t)
           i == rule_at(p)
           spent(r) == IF r = role THEN n ELSE 0
<1>1. /\ p \in Nat /\ period <= p /\ n \in Nat /\ t \in Nat /\ t >= t0
      /\ i \in RuleIndex /\ covers(i, p)
      /\ period' = p /\ annual_index' = i
      /\ shared_used' = period_used'[FOUNDER] + period_used'[TREASURY]
  BY Committed
<1>2. /\ period_used' \in [Role -> Nat] /\ annual_used' \in [Role -> Nat]
      /\ released_total' \in [Role -> Nat] /\ vault' \in [Role -> VaultAccount]
  BY Committed
<1>3. \A r \in Role :
        /\ period_used'[r] = used_at(p, r) + spent(r)
        /\ annual_used'[r] = annual_used_at(i, r) + spent(r)
        /\ released_total'[r] = released_total[r] + spent(r)
  BY Committed
<1>4. /\ vault'[role] = [principal |-> vault[role].principal,
                         released_total |-> vault[role].released_total + n,
                         period |-> p, period_used |-> period_used'[role]]
      /\ \A r \in Role \ {role} : vault'[r] = vault[r]
  BY Committed
<1>5. /\ state' = state /\ last_action_at' = t /\ n > 0
      /\ report_capacity' = report_capacity
      /\ vault[role].released_total = released_total[role]
  BY DEF Consume, consume, tick
<1>6. /\ used_at(p, role) + n <= quotas_at(t)[role]
      /\ annual_used_at(i, role) + n <= annual_cap(i, role)
      /\ released_total[role] + n <= vault[role].principal
      /\ used_at(p, FOUNDER) + used_at(p, TREASURY) + n <= capacity_at(p)
  BY DEF Consume, consume, within_budget
<1>7. \A r \in Role :
        /\ used_at(p, r) \in Nat /\ annual_used_at(i, r) \in Nat
        /\ used_at(p, r) <= annual_used_at(i, r)
        /\ annual_used_at(i, r) <= released_total[r]
        /\ annual_used_at(i, r) <= annual_cap(i, r)
  BY <1>1, ProjectedCounters
<1>8. /\ \A r \in Role : r = FOUNDER \/ r = TREASURY
      /\ FOUNDER \in Role /\ TREASURY \in Role /\ FOUNDER # TREASURY
  BY DEF Role, FOUNDER, TREASURY
<1>9. /\ released_total[role] \in Nat /\ amount[role] \in Nat
      /\ vault[role] \in VaultAccount
      /\ released_total \in [Role -> Nat]
  BY CapacityAssumption DEF CInv, CTypeOK
<1>10. /\ quotas_at(t)[role] \in Nat
       /\ quotas_at(t)[role] <= cap_at(p, role)
       /\ ~cliff_passed(t) => quotas_at(t)[FOUNDER] = 0
  BY <1>1, QuotaBounds
<1> HIDE DEF p, i
<1>11. CTypeOK'
  <2>1. StateTypeOK' /\ report_capacity' \in Nat
    BY <1>5 DEF CInv, CTypeOK, StateTypeOK
  <2>2. shared_used' \in Nat
    BY <1>1, <1>2, <1>8
  <2> QED
    BY <1>1, <1>2, <2>1, <2>2 DEF CTypeOK
<1>12. vault[role] # NoVault /\ vault[role].principal = amount[role]
  <2>1. vault[role].principal # 0
    BY <1>1, <1>5, <1>6, <1>9 DEF VaultAccount
  <2>2. vault[role] # NoVault
    BY <2>1 DEF NoVault
  <2> QED
    BY <2>2 DEF CInv, PrincipalsExact
<1>13. PrincipalsExact'
  BY <1>4, <1>12 DEF CInv, PrincipalsExact
<1>14. LedgerConsistent'
  <2>1. ASSUME NEW r \in Role
        PROVE  /\ period_used'[r] <= annual_used'[r]
               /\ annual_used'[r] <= released_total'[r]
    BY <1>1, <1>3, <1>7, <1>9
  <2>2. ASSUME NEW r \in Role
        PROVE  /\ vault'[r].released_total = released_total'[r]
               /\ vault'[r].period <= p
               /\ vault'[r].period = p => vault'[r].period_used = period_used'[r]
    <3>1. CASE r = role
      BY <1>1, <1>3, <1>4, <1>5, <3>1
    <3>2. CASE r # role
      <4>1. vault'[r] = vault[r] /\ released_total'[r] = released_total[r]
        BY <1>3, <1>4, <1>9, <3>2
      <4>2. /\ vault[r].released_total = released_total[r]
            /\ vault[r].period <= period
            /\ vault[r].period = period => vault[r].period_used = period_used[r]
        BY DEF CInv, LedgerConsistent
      <4>3. vault[r].period \in Nat /\ period \in Nat
        BY DEF CInv, CTypeOK, VaultAccount
      <4>4. p = period => period_used'[r] = period_used[r]
        BY <1>3, <1>7, <3>2 DEF used_at
      <4> QED
        BY <1>1, <4>1, <4>2, <4>3, <4>4
    <3> QED
      BY <3>1, <3>2
  <2> QED
    BY <1>1, <2>1, <2>2 DEF LedgerConsistent, covers
<1>15. \A r \in Role :
         /\ period_used'[r] <= period_cap[r]
         /\ period_used'[r] <= annual_cap(i, r) \div RATE_DIVISOR
         /\ annual_used'[r] <= annual_cap(i, r)
         /\ released_total'[r] <= amount[r]
  <2> SUFFICES ASSUME NEW r \in Role
               PROVE  /\ period_used'[r] <= period_cap[r]
                      /\ period_used'[r] <= annual_cap(i, r) \div RATE_DIVISOR
                      /\ annual_used'[r] <= annual_cap(i, r)
                      /\ released_total'[r] <= amount[r]
    OBVIOUS
  <2>1. /\ period_cap[r] \in Nat /\ amount[r] \in Nat
        /\ annual_cap(i, r) \in Nat /\ annual_cap(i, r) \div RATE_DIVISOR \in Nat
    BY <1>1, AnnualCap, CapacityAssumption
  <2>2. CASE r = role
    <3>1. /\ used_at(p, r) + n <= cap_at(p, r)
          /\ cap_at(p, r) \in Nat /\ cap_at(p, r) <= period_cap[r]
          /\ cap_at(p, r) <= annual_cap(i, r) \div RATE_DIVISOR
      BY <1>1, <1>6, <1>7, <1>10, <2>2, CeilingBounds
    <3> QED
      BY <1>1, <1>3, <1>6, <1>7, <1>9, <1>12, <2>1, <2>2, <3>1
  <2>3. CASE r # role
    <3>1. /\ period_used'[r] = used_at(p, r)
          /\ annual_used'[r] = annual_used_at(i, r)
          /\ released_total'[r] = released_total[r]
      BY <1>3, <1>7, <1>9, <2>3
    <3>2. p = period => i = annual_index
      BY <1>1, RuleOfPeriod DEF CInv, CTypeOK, LedgerConsistent
    <3>3. /\ used_at(p, r) <= period_cap[r]
          /\ used_at(p, r) <= annual_cap(i, r) \div RATE_DIVISOR
      BY <2>1, <3>2 DEF CInv, WithinSchedule, used_at
    <3>4. released_total[r] <= amount[r]
      BY DEF CInv, WithinSchedule
    <3> QED
      BY <1>7, <3>1, <3>3, <3>4
  <2> QED
    BY <2>2, <2>3
<1>16. /\ annual_used'[FOUNDER] + annual_used'[TREASURY]
             <= annual_rules[i].shared_cap
       /\ shared_used' <= shared_hard_cap
  <2>1. /\ capacity_at(p) \in Nat /\ capacity_at(p) <= shared_hard_cap
        /\ capacity_at(p) <= annual_rules[i].shared_cap - shared_prior(p)
        /\ shared_hard_cap \in Nat /\ annual_rules[i].shared_cap \in Nat
    BY <1>1, CeilingBounds, RulesAssumption, CapacityAssumption DEF AnnualRule
  <2>2. shared_prior(p) =
          (annual_used_at(i, FOUNDER) - used_at(p, FOUNDER))
            + (annual_used_at(i, TREASURY) - used_at(p, TREASURY))
    BY DEF shared_prior, prior_annual, i
  <2>3. /\ annual_used'[FOUNDER] + annual_used'[TREASURY] =
              annual_used_at(i, FOUNDER) + annual_used_at(i, TREASURY) + n
        /\ period_used'[FOUNDER] + period_used'[TREASURY] =
              used_at(p, FOUNDER) + used_at(p, TREASURY) + n
    BY <1>1, <1>3, <1>7, <1>8
  <2> QED
    BY <1>1, <1>6, <1>7, <1>8, <2>1, <2>2, <2>3
<1>17. last_action_at' < t0 + CLIFF => released_total'[FOUNDER] = 0
  <2> SUFFICES ASSUME t < t0 + CLIFF PROVE released_total'[FOUNDER] = 0
    BY <1>5
  <2>1. ~cliff_passed(t)
    BY <1>1, TimeAssumption, ConfigAssumption DEF cliff_passed
  <2>2. role # FOUNDER
    BY <1>1, <1>5, <1>6, <1>7, <1>10, <2>1
  <2>3. last_action_at < t0 + CLIFF
    BY <1>1, TimeAssumption, ConfigAssumption
    DEF Consume, tick, CInv, CTypeOK, StateTypeOK
  <2>4. released_total[FOUNDER] = 0
    BY <2>3 DEF CInv, WithinSchedule
  <2> QED
    BY <1>3, <1>8, <2>2, <2>4
<1>18. WithinSchedule'
  BY <1>1, <1>15, <1>16, <1>17 DEF WithinSchedule, annual_cap
<1> QED
  BY <1>11, <1>13, <1>14, <1>18 DEF CInv

(* The handlers that leave the ledger alone advance the clock at most.     *)
LEMMA UnspentInv ==
    ASSUME CInv, NEW t \in Instant, tick(t),
           state' \in LifecycleState, report_capacity' \in Nat,
           UNCHANGED ledgerVars
    PROVE  CInv'
<1>1. /\ period' = period /\ annual_index' = annual_index
      /\ period_used' = period_used /\ annual_used' = annual_used
      /\ released_total' = released_total /\ shared_used' = shared_used
      /\ vault' = vault
  BY DEF ledgerVars
<1>2. CTypeOK'
  BY <1>1 DEF tick, CInv, CTypeOK, StateTypeOK
<1>3. PrincipalsExact' /\ LedgerConsistent'
  BY <1>1 DEF CInv, PrincipalsExact, LedgerConsistent, covers
<1>4. last_action_at' < t0 + CLIFF => last_action_at < t0 + CLIFF
  BY TimeAssumption, ConfigAssumption DEF tick, CInv, CTypeOK, StateTypeOK
<1>5. WithinSchedule'
  BY <1>1, <1>4 DEF CInv, WithinSchedule, annual_cap
<1> QED
  BY <1>2, <1>3, <1>5 DEF CInv

LEMMA OpenVaultInv ==
    ASSUME CInv, NEW t \in Instant, NEW role \in Role, OpenVault(t, role)
    PROVE  CInv'
<1> DEFINE account == [NoVault EXCEPT !.principal = amount[role]]
<1>1. account = [principal |-> amount[role], released_total |-> 0,
                 period |-> 0, period_used |-> 0]
  BY DEF NoVault
<1> HIDE DEF account
<1>2. /\ tick(t) /\ state' = state /\ report_capacity' = report_capacity
      /\ period' = period /\ annual_index' = annual_index
      /\ period_used' = period_used /\ annual_used' = annual_used
      /\ released_total' = released_total /\ shared_used' = shared_used
      /\ vault[role] = NoVault /\ vault' = [vault EXCEPT ![role] = account]
  BY DEF OpenVault, account
<1>3. account \in VaultAccount
  BY <1>1, CapacityAssumption DEF VaultAccount
<1>4. CTypeOK'
  BY <1>2, <1>3 DEF tick, CInv, CTypeOK, StateTypeOK
<1>5. PrincipalsExact'
  BY <1>1, <1>2 DEF CInv, CTypeOK, PrincipalsExact
<1>6. \A r \in Role : /\ vault'[r].released_total = vault[r].released_total
                      /\ vault'[r].period = vault[r].period
                      /\ vault'[r].period_used = vault[r].period_used
  BY <1>1, <1>2 DEF CInv, CTypeOK, NoVault
<1>7. LedgerConsistent'
  BY <1>2, <1>6 DEF CInv, LedgerConsistent, covers
<1>8. last_action_at' < t0 + CLIFF => last_action_at < t0 + CLIFF
  BY <1>2, TimeAssumption, ConfigAssumption DEF tick, CInv, CTypeOK, StateTypeOK
<1>9. WithinSchedule'
  BY <1>2, <1>8 DEF CInv, WithinSchedule, annual_cap
<1> QED
  BY <1>4, <1>5, <1>7, <1>9 DEF CInv

LEMMA BudgetStep == CInv /\ [CNext]_cvars => CInv'
<1> SUFFICES ASSUME CInv, [CNext]_cvars PROVE CInv'
  OBVIOUS
<1>1. CASE UNCHANGED cvars
  BY <1>1 DEF cvars, CInv, CTypeOK, StateTypeOK, PrincipalsExact,
              LedgerConsistent, covers, WithinSchedule, annual_cap
<1>2. CASE CNext
  <2> PICK t \in Instant :
        \/ \E role \in Role, n \in ReleaseAmount : Consume(t, role, n)
        \/ \E c \in ReportedCapacity : SetCapacity(t, c)
        \/ \E role \in Role : OpenVault(t, role)
        \/ OtherHandlerC(t)
    BY <1>2 DEF CNext
  <2>1. ASSUME NEW role \in Role, NEW n \in ReleaseAmount, Consume(t, role, n)
        PROVE  CInv'
    BY <2>1, ConsumeInv
  <2>2. ASSUME NEW c \in ReportedCapacity, SetCapacity(t, c)
        PROVE  CInv'
    BY <2>2, UnspentInv, CapacityAssumption
    DEF SetCapacity, CInv, CTypeOK, StateTypeOK
  <2>3. ASSUME NEW role \in Role, OpenVault(t, role)
        PROVE  CInv'
    BY <2>3, OpenVaultInv
  <2>4. CASE OtherHandlerC(t)
    BY <2>4, UnspentInv
    DEF OtherHandlerC, LifecycleMove, LifecycleState, CInv, CTypeOK, StateTypeOK
  <2> QED
    BY <2>1, <2>2, <2>3, <2>4
<1> QED
  BY <1>1, <1>2

THEOREM BudgetInvariant == CSpec => []CInv
BY InitialBudget, BudgetStep, PTL DEF CSpec

-----------------------------------------------------------------------------
(***************************************************************************)
(* What follows from it.                                                   *)
(***************************************************************************)

(* Period, annual, aggregate and lifetime ceilings hold, and the Founder   *)
(* has nothing before the cliff, for any rules, caps and reports.          *)
THEOREM ScheduleKept == CSpec => []WithinSchedule
<1>1. CInv => WithinSchedule
  BY DEF CInv
<1> QED
  BY <1>1, BudgetInvariant, PTL

(* The ledgers of policy and vaults agree through every lazy roll-over.    *)
THEOREM LedgersAgree == CSpec => []LedgerConsistent
<1>1. CInv => LedgerConsistent
  BY DEF CInv
<1> QED
  BY <1>1, BudgetInvariant, PTL

(* No release is ever refused because a counter would have to go below     *)
(* zero: InvalidAccounting cannot lock the pools.                          *)
THEOREM AccountingNeverFaults == CSpec => []NoAccountingFault
<1>1. CInv => NoAccountingFault
  <2> SUFFICES ASSUME CInv, NEW t \in Instant, t >= t0, window_open(t)
               PROVE  accounting_sound(t)
    BY DEF NoAccountingFault
  <2>1. t \in Nat
    BY TimeAssumption
  <2> QED
    BY <2>1, Sound
<1> QED
  BY <1>1, BudgetInvariant, PTL

(* Unless a correction paused the window, a funded pool can be paid the    *)
(* whole rest of its quota, whatever the other pool did.                   *)
THEOREM ReservationsUsable == CSpec => []ReservationUsable
<1>1. CInv => ReservationUsable
  <2> SUFFICES ASSUME CInv, NEW t \in Instant, NEW role \in Role, t > t0,
                      vault[role] # NoVault, window_open(t), ~correction_pause(t)
               PROVE  within_budget(t, role, Remaining(t, role))
    BY DEF ReservationUsable
  <2> DEFINE p == period_at(t)
  <2>1. t \in Nat /\ t >= t0 /\ p \in Nat
    BY TimeAssumption, ConfigAssumption, PeriodIndex
  <2>2. PICK i \in RuleIndex : covers(i, p)
    BY DEF window_open
  <2>3. \A r \in Role : /\ quotas_at(t)[r] \in Nat
                        /\ quotas_at(t)[r] <= cap_at(p, r)
                        /\ used_at(p, r) <= quotas_at(t)[r]
    BY <2>1, <2>2, QuotaBounds, ProjectedCounters DEF correction_pause
  <2>4. quotas_at(t)[FOUNDER] + quotas_at(t)[TREASURY] <= capacity_at(p)
    BY <2>1, <2>2, QuotaBounds
  <2>5. /\ rule_at(p) = i
        /\ used_at(p, FOUNDER) \in Nat /\ used_at(p, TREASURY) \in Nat
        /\ used_at(p, role) \in Nat /\ annual_used_at(i, role) \in Nat
        /\ cap_at(p, role) \in Nat /\ capacity_at(p) \in Nat
        /\ cap_at(p, role) <= annual_cap(i, role) - prior_annual(p, role)
        /\ cap_at(p, role) <= amount[role] - prior_lifetime(p, role)
    BY <2>1, <2>2, RuleOfPeriod, ProjectedCounters, CeilingBounds DEF Role
  <2>6. /\ released_total[role] \in Nat /\ amount[role] \in Nat
        /\ annual_cap(i, role) \in Nat /\ vault[role].principal = amount[role]
    BY CapacityAssumption, AnnualCap DEF CInv, CTypeOK, PrincipalsExact
  <2>7. /\ role = FOUNDER \/ role = TREASURY
        /\ FOUNDER \in Role /\ TREASURY \in Role
    BY DEF Role
  <2> DEFINE rest == quotas_at(t)[role] - used_at(p, role)
  <2>8. /\ used_at(p, role) + rest <= quotas_at(t)[role]
        /\ annual_used_at(i, role) + rest <= annual_cap(i, role)
        /\ released_total[role] + rest <= vault[role].principal
    BY <2>3, <2>5, <2>6 DEF prior_annual, prior_lifetime
  <2>9. used_at(p, FOUNDER) + used_at(p, TREASURY) + rest <= capacity_at(p)
    BY <2>3, <2>4, <2>5, <2>7
  <2> QED
    BY <2>5, <2>8, <2>9 DEF within_budget, Remaining
<1> QED
  BY <1>1, BudgetInvariant, PTL

(* Quotas are projected from the counters at the start of the period, so a *)
(* release of that period leaves them alone.                               *)
LEMMA QuotasStable ==
    ASSUME CInv, NEW t \in Instant, NEW role \in Role, NEW n \in ReleaseAmount,
           Consume(t, role, n), NEW u \in Instant, period_at(u) = period_at(t)
    PROVE  /\ quotas_at(u)' = quotas_at(u)
           /\ \A r \in Role : used_at(period_at(u), r)' =
                 used_at(period_at(u), r) + (IF r = role THEN n ELSE 0)
<1> DEFINE p == period_at(t)
           i == rule_at(p)
<1>1. /\ p \in Nat /\ i \in RuleIndex /\ covers(i, p) /\ n \in Nat
      /\ period' = p /\ annual_index' = i
  BY Committed
<1>2. \A r \in Role :
        LET spent == IF r = role THEN n ELSE 0 IN
        /\ period_used'[r] = used_at(p, r) + spent
        /\ annual_used'[r] = annual_used_at(i, r) + spent
        /\ released_total'[r] = released_total[r] + spent
  BY Committed
<1>3. \A r \in Role : /\ used_at(p, r) \in Nat /\ annual_used_at(i, r) \in Nat
                      /\ released_total[r] \in Nat
  BY <1>1, ProjectedCounters DEF CInv, CTypeOK
<1>4. report_capacity' = report_capacity /\ rule_at(p)' = i
  BY <1>1 DEF Consume, rule_at, covers
<1> HIDE DEF p, i
<1>5. ASSUME NEW r \in Role
      PROVE  LET spent == IF r = role THEN n ELSE 0 IN
             /\ used_at(p, r)' = used_at(p, r) + spent
             /\ annual_used_at(i, r)' = annual_used_at(i, r) + spent
  BY <1>1, <1>2 DEF used_at, annual_used_at
<1>6. ASSUME NEW r \in Role
      PROVE  /\ prior_annual(p, r)' = prior_annual(p, r)
             /\ prior_lifetime(p, r)' = prior_lifetime(p, r)
  <2>1. /\ prior_annual(p, r)' = annual_used_at(i, r)' - used_at(p, r)'
        /\ prior_annual(p, r) = annual_used_at(i, r) - used_at(p, r)
        /\ prior_lifetime(p, r)' = released_total'[r] - used_at(p, r)'
        /\ prior_lifetime(p, r) = released_total[r] - used_at(p, r)
    BY <1>4 DEF prior_annual, prior_lifetime, annual_used_at, i
  <2> QED
    BY <1>1, <1>2, <1>3, <1>5, <2>1
<1>7. FOUNDER \in Role /\ TREASURY \in Role
  BY DEF Role
<1>8. ASSUME NEW r \in Role
      PROVE  cap_at(p, r)' = cap_at(p, r)
  BY <1>4, <1>6 DEF cap_at, least, annual_cap, i
<1>9. capacity_at(p)' = capacity_at(p)
  BY <1>4, <1>6, <1>7 DEF capacity_at, least, shared_prior, i
<1>10. quotas_at(u)' = quotas_at(u)
  <2>1. quotas_at(u) = reserved_quotas(capacity_at(p), cap_at(p, FOUNDER),
                                       cap_at(p, TREASURY), cliff_passed(u))
    BY DEF quotas_at, p
  <2>2. quotas_at(u)' = reserved_quotas(capacity_at(p)', cap_at(p, FOUNDER)',
                                        cap_at(p, TREASURY)', cliff_passed(u))
    BY DEF quotas_at, p, period_at, cliff_passed, reserved_quotas, least
  <2> QED
    BY <1>7, <1>8, <1>9, <2>1, <2>2
<1> QED
  BY <1>5, <1>10 DEF p

(* A release costs its own pool what it pays and the other pool nothing,   *)
(* at every later instant of the period.                                   *)
THEOREM ReservationsProtected == CSpec => ReservationProtected
<1> DEFINE Protected ==
        \A role \in Role : released_total'[role] # released_total[role] =>
          \A t \in Instant :
            t >= last_action_at' /\ period_at(t) = period' =>
               /\ \A other \in Role \ {role} :
                     Remaining(t, other)' = Remaining(t, other)
               /\ Remaining(t, role)' = Remaining(t, role)
                     - (released_total'[role] - released_total[role])
<1> HIDE DEF Protected
<1>1. Instant \subseteq Nat
  BY TimeAssumption
<1>2. ASSUME CInv, [CNext]_cvars PROVE Protected
  <2>1. CASE UNCHANGED released_total
    BY <2>1 DEF Protected
  <2>2. CASE ~UNCHANGED released_total
    <3>1. PICK t \in Instant, payer \in Role, n \in ReleaseAmount :
            Consume(t, payer, n)
      BY <1>2, <2>2 DEF CNext, cvars, ledgerVars, SetCapacity, OpenVault,
                        OtherHandlerC
    <3> SUFFICES ASSUME NEW role \in Role,
                        released_total'[role] # released_total[role],
                        NEW u \in Instant, u >= last_action_at',
                        period_at(u) = period'
                 PROVE  /\ \A other \in Role \ {role} :
                              Remaining(u, other)' = Remaining(u, other)
                        /\ Remaining(u, role)' = Remaining(u, role)
                              - (released_total'[role] - released_total[role])
      BY DEF Protected
    <3>2. /\ period_at(u) = period_at(t) /\ n \in Nat
          /\ \A r \in Role : released_total'[r] =
                released_total[r] + (IF r = payer THEN n ELSE 0)
      BY <1>2, <3>1, Committed
    <3>3. \A r \in Role : released_total[r] \in Nat
      BY <1>2 DEF CInv, CTypeOK
    <3>4. role = payer
      BY <3>2, <3>3
    <3>5. /\ quotas_at(u)' = quotas_at(u)
          /\ \A r \in Role : used_at(period_at(u), r)' =
                used_at(period_at(u), r) + (IF r = payer THEN n ELSE 0)
      BY <1>2, <3>1, <3>2, QuotasStable
    <3>6. \A r \in Role : /\ used_at(period_at(u), r) \in Nat
                          /\ quotas_at(u)[r] \in Nat
      <4>1. /\ u \in Nat /\ period_at(u) \in Nat
            /\ rule_at(period_at(u)) \in RuleIndex
            /\ covers(rule_at(period_at(u)), period_at(u))
        <5>1. u \in Nat
          BY <1>1
        <5>2. /\ period_at(t) \in Nat
              /\ rule_at(period_at(t)) \in RuleIndex
              /\ covers(rule_at(period_at(t)), period_at(t))
          BY <1>2, <3>1, Committed
        <5>3. period_at(u) = period_at(t)
          BY <3>2
        <5> QED
          BY <5>1, <5>2, <5>3
      <4>2. u >= t0
        <5>1. last_action_at' = t /\ t >= t0 /\ t \in Nat
          BY <1>2, <3>1, Committed, TimeAssumption DEF Consume, tick
        <5> QED
          BY <4>1, <5>1, ConfigAssumption
      <4> QED
        BY <1>2, <4>1, <4>2, ProjectedCounters, QuotaBounds
    <3>7. ASSUME NEW r \in Role
          PROVE  Remaining(u, r)' = quotas_at(u)'[r] - used_at(period_at(u), r)'
      BY DEF Remaining, period_at
    <3> QED
      BY <3>2, <3>3, <3>4, <3>5, <3>6, <3>7 DEF Remaining
  <2> QED
    BY <2>1, <2>2
<1> QED
  BY <1>2, BudgetInvariant, PTL DEF CSpec, ReservationProtected, Protected

-----------------------------------------------------------------------------
(***************************************************************************)
(* When both pools pause.                                                  *)
(***************************************************************************)

LEMMA PeriodMonotone ==
    ASSUME NEW t \in Nat, NEW u \in Nat, t >= t0, u >= t
    PROVE  period_at(t) <= period_at(u)
<1> DEFINE a == t - t0
           b == u - t0
           q == a \div PERIOD
<1>1. a \in Nat /\ b \in Nat /\ a <= b /\ PERIOD \in Nat \ {0}
  BY TimeAssumption, ConfigAssumption
<1> HIDE DEF a, b
<1>2. q \in Nat
  BY <1>1, Division
<1>3. a >= q * PERIOD
  BY <1>1, <1>2, DivisionThreshold
<1>4. b >= q * PERIOD
  <2>1. q * PERIOD \in Nat
    BY <1>1, <1>2
  <2> QED BY <1>1, <1>3, <2>1
<1>5. b \div PERIOD >= q
  BY <1>1, <1>2, <1>4, DivisionThreshold
<1>6. b \div PERIOD \in Nat
  BY <1>1, Division
<1>7. q <= b \div PERIOD
  BY <1>2, <1>5, <1>6
<1> QED BY <1>7 DEF a, b, period_at

(* The cliff ends where a period begins.                                   *)
LEMMA CliffByPeriod ==
    ASSUME NEW t \in Nat, NEW u \in Nat, t >= t0, u >= t0,
           period_at(t) = period_at(u)
    PROVE  cliff_passed(t) = cliff_passed(u)
<1>1. PICK n \in Nat : CLIFF = n * PERIOD
  BY TimeAssumption
<1>2. PERIOD \in Nat \ {0} /\ n * PERIOD \in Nat /\ t0 \in Nat
  BY <1>1, TimeAssumption, ConfigAssumption
<1>3. ASSUME NEW x \in Nat, x >= t0
      PROVE  cliff_passed(x) <=> period_at(x) >= n
  <2> DEFINE a == x - t0
  <2>1. a \in Nat /\ (cliff_passed(x) <=> a >= n * PERIOD)
    BY <1>1, <1>2, <1>3 DEF cliff_passed
  <2>2. a >= n * PERIOD <=> a \div PERIOD >= n
    <3> HIDE DEF a
    <3> QED BY <1>2, <2>1, DivisionThreshold
  <2> QED BY <2>1, <2>2 DEF period_at
<1>4. cliff_passed(t) \in BOOLEAN /\ cliff_passed(u) \in BOOLEAN
  BY DEF cliff_passed
<1> QED BY <1>3, <1>4

LEMMA QuotasGrow ==
    ASSUME NEW c \in Nat, NEW d \in Nat, c <= d, NEW f \in Nat, NEW t \in Nat,
           NEW eligible \in BOOLEAN, NEW role \in Role
    PROVE  reserved_quotas(c, f, t, eligible)[role]
             <= reserved_quotas(d, f, t, eligible)[role]
<1>1. CASE ~eligible
  BY <1>1 DEF reserved_quotas, least
<1>2. CASE eligible /\ f + t = 0
  BY <1>2 DEF reserved_quotas
<1>3. CASE eligible /\ f + t # 0
  <2> DEFINE a == least(c, f + t)
             b == least(d, f + t)
             s == f + t
  <2>1. a \in Nat /\ b \in Nat /\ a <= b /\ s \in Nat \ {0} /\ f <= s
    BY <1>3 DEF least
  <2>2. /\ reserved_quotas(c, f, t, eligible)[role]
             = IF role = FOUNDER THEN (a * f) \div s ELSE a - ((a * f) \div s)
        /\ reserved_quotas(d, f, t, eligible)[role]
             = IF role = FOUNDER THEN (b * f) \div s ELSE b - ((b * f) \div s)
    BY <1>3 DEF reserved_quotas
  <2> HIDE DEF a, b, s
  <2>3. /\ (a * f) \div s <= (b * f) \div s
        /\ a - (a * f) \div s <= b - (b * f) \div s
    BY <2>1, SharesGrow
  <2> QED BY <2>2, <2>3
<1> QED BY <1>1, <1>2, <1>3

-----------------------------------------------------------------------------
(* Whatever was used in the stored period, the clock floor is in it, or in *)
(* a later one.                                                            *)
PeriodSeen ==
    (\E role \in Role : period_used[role] # 0) =>
        last_action_at >= t0 /\ period <= period_at(last_action_at)

LEMMA SeenStep == CInv /\ PeriodSeen /\ [CNext]_cvars => PeriodSeen'
<1> SUFFICES ASSUME CInv, PeriodSeen, [CNext]_cvars PROVE PeriodSeen'
  OBVIOUS
<1>1. last_action_at \in Nat /\ period \in Nat /\ Instant \subseteq Nat /\ t0 \in Nat
  BY TimeAssumption, ConfigAssumption DEF CInv, CTypeOK, StateTypeOK
<1>2. CASE UNCHANGED cvars
  BY <1>2 DEF cvars, PeriodSeen, period_at
<1>3. ASSUME NEW t \in Instant, tick(t), UNCHANGED <<period, period_used>>
      PROVE  PeriodSeen'
  <2>1. t \in Nat /\ t >= last_action_at /\ last_action_at' = t
    BY <1>1, <1>3 DEF tick
  <2> SUFFICES ASSUME NEW role \in Role, period_used[role] # 0
               PROVE  t >= t0 /\ period <= period_at(t)
    BY <1>3, <2>1 DEF PeriodSeen, period_at
  <2>2. last_action_at >= t0 /\ period <= period_at(last_action_at)
    BY DEF PeriodSeen
  <2>3. t >= t0 /\ period_at(last_action_at) \in Nat /\ period_at(t) \in Nat
    BY <1>1, <2>1, <2>2, PeriodIndex
  <2>4. period_at(last_action_at) <= period_at(t)
    BY <1>1, <2>1, <2>2, PeriodMonotone
  <2> QED BY <1>1, <2>2, <2>3, <2>4
<1>4. ASSUME NEW t \in Instant, NEW role \in Role, NEW n \in ReleaseAmount,
             Consume(t, role, n)
      PROVE  PeriodSeen'
  <2>1. /\ last_action_at' = t /\ t >= t0
        /\ period' = period_at(t) /\ period_at(t) \in Nat
    BY <1>4, Committed DEF Consume, tick
  <2> QED BY <2>1 DEF PeriodSeen, period_at
<1> QED
  BY <1>2, <1>3, <1>4 DEF CNext, SetCapacity, OpenVault, OtherHandlerC, ledgerVars

LEMMA PeriodAlwaysSeen == CSpec => []PeriodSeen
<1>1. CInit => PeriodSeen
  BY DEF CInit, PeriodSeen
<1> QED BY <1>1, SeenStep, BudgetInvariant, PTL DEF CSpec

(* Quotas are amounts wherever they can be projected.                      *)
QuotasDefined ==
    \A t \in Instant : t >= t0 /\ window_open(t) =>
        \A role \in Role : quotas_at(t)[role] \in Nat

LEMMA QuotasAmounts == CInv => QuotasDefined
<1> SUFFICES ASSUME CInv, NEW t \in Instant, t >= t0, window_open(t), NEW role \in Role
             PROVE  quotas_at(t)[role] \in Nat
  BY DEF QuotasDefined
<1>1. t \in Nat
  BY TimeAssumption
<1>2. PICK i \in RuleIndex : covers(i, period_at(t))
  BY DEF window_open
<1> QED BY <1>1, <1>2, QuotaBounds

LEMMA PauseNeedsStep ==
    ASSUME CInv, QuotasDefined', PeriodSeen, [CNext]_cvars,
           NEW t \in Instant, t >= last_action_at', t >= t0,
           window_open(t)', correction_pause(t)'
    PROVE  \/ report_capacity' < report_capacity
           \/ last_action_at >= t0 /\ correction_pause(last_action_at)
<1> DEFINE p == period_at(t)
<1>1. /\ t \in Nat /\ t0 \in Nat /\ p \in Nat
      /\ last_action_at \in Nat /\ period \in Nat /\ report_capacity \in Nat
  BY TimeAssumption, ConfigAssumption, PeriodIndex DEF CInv, CTypeOK, StateTypeOK
<1>2. \A role \in Role : quotas_at(t)'[role] \in Nat
  BY DEF QuotasDefined
<1>3. PICK role \in Role : used_at(p, role)' > quotas_at(t)'[role]
  BY DEF correction_pause, period_at
<1>4. used_at(p, role)' # 0
  BY <1>2, <1>3
<1>5. p = period' /\ period_used'[role] # 0
  BY <1>4 DEF used_at
<1>6. ASSUME NEW u \in Instant, NEW payer \in Role, NEW n \in ReleaseAmount,
             Consume(u, payer, n)
      PROVE  FALSE
  <2>1. /\ period' = period_at(u) /\ u \in Nat /\ u >= t0 /\ n \in Nat
        /\ covers(rule_at(period_at(u)), period_at(u))
        /\ rule_at(period_at(u)) \in RuleIndex
    BY <1>6, Committed
  <2>2. /\ quotas_at(t)' = quotas_at(t)
        /\ used_at(p, role)' = used_at(p, role) + (IF role = payer THEN n ELSE 0)
    BY <1>5, <1>6, <2>1, QuotasStable
  <2>3. /\ \A r \in Role : ~(used_at(p, r) > quotas_at(u)[r])
        /\ used_at(p, payer) + n <= quotas_at(u)[payer]
    <3>1. ~correction_pause(u) /\ within_budget(u, payer, n)
      BY <1>6 DEF Consume, consume
    <3> QED BY <1>5, <2>1, <3>1 DEF correction_pause, within_budget
  <2>4. quotas_at(t) = quotas_at(u)
    <3>1. cliff_passed(t) = cliff_passed(u)
      BY <1>1, <1>5, <2>1, CliffByPeriod
    <3> QED BY <1>5, <2>1, <3>1 DEF quotas_at
  <2>5. used_at(p, role) \in Nat
    BY <1>1, <1>5, <2>1, ProjectedCounters
  <2> HIDE DEF p
  <2> QED BY <1>2, <1>3, <2>1, <2>2, <2>3, <2>4, <2>5
<1>7. ASSUME UNCHANGED <<period, annual_index, period_used, annual_used, released_total>>,
             last_action_at' >= last_action_at,
             report_capacity' \in Nat, report_capacity' >= report_capacity,
             last_action_at >= t0 => ~correction_pause(last_action_at)
      PROVE  FALSE
  <2> DEFINE u == last_action_at
             i == rule_at(p)
  <2>1. u >= t0 /\ p <= period_at(u)
    BY <1>5, <1>7 DEF PeriodSeen
  <2>2. u <= t
    <3>1. last_action_at' \in Int
      BY <1>1, <1>7, TimeAssumption DEF CNext, cvars, tick, Consume, SetCapacity,
         OpenVault, OtherHandlerC
    <3> QED BY <1>1, <1>7, <3>1
  <2>3. period_at(u) = p /\ p = period
    <3>1. period_at(u) <= p /\ period_at(u) \in Nat
      BY <1>1, <2>1, <2>2, PeriodMonotone, PeriodIndex
    <3> QED BY <1>1, <1>5, <1>7, <2>1, <3>1
  <2>4. cliff_passed(t) = cliff_passed(u) /\ cliff_passed(t) \in BOOLEAN
    BY <1>1, <2>1, <2>3, CliffByPeriod DEF cliff_passed
  <2>5. covers(annual_index, p) /\ annual_index \in RuleIndex /\ i = annual_index
    BY <1>1, <2>3, RuleOfPeriod DEF CInv, LedgerConsistent, CTypeOK
  <2>6. FOUNDER \in Role /\ TREASURY \in Role
    BY DEF Role
  <2>7. /\ cap_at(p, FOUNDER) \in Nat /\ cap_at(p, TREASURY) \in Nat
        /\ capacity_at(p) \in Nat
    BY <1>1, <2>5, <2>6, CeilingBounds
  <2>8. /\ used_at(p, role) \in Nat /\ used_at(p, role)' = used_at(p, role)
        /\ used_at(p, role) <= quotas_at(u)[role] /\ quotas_at(u)[role] \in Nat
    <3>1. used_at(p, role) \in Nat /\ used_at(p, role)' = used_at(p, role)
      BY <1>1, <1>7, <2>5, ProjectedCounters DEF used_at
    <3>2. quotas_at(u)[role] \in Nat
      BY <1>1, <2>1, <2>3, <2>5, QuotaBounds
    <3>3. ~(used_at(p, role) > quotas_at(u)[role])
      BY <1>7, <2>1, <2>3 DEF correction_pause
    <3> QED BY <3>1, <3>2, <3>3
  <2>9. /\ cap_at(p, FOUNDER)' = cap_at(p, FOUNDER)
        /\ cap_at(p, TREASURY)' = cap_at(p, TREASURY)
        /\ shared_prior(p)' = shared_prior(p)
    BY <1>7 DEF cap_at, shared_prior, prior_annual, prior_lifetime, used_at,
       annual_used_at, least, annual_cap, rule_at, covers
  <2>10. capacity_at(p)' \in Nat /\ capacity_at(p) <= capacity_at(p)'
    <3>1. /\ annual_rules[i].shared_cap \in Nat /\ shared_hard_cap \in Nat
          /\ shared_prior(p) \in Nat /\ shared_prior(p) <= annual_rules[i].shared_cap
      BY <1>1, <2>5, PriorCounters, RulesAssumption, CapacityAssumption DEF AnnualRule
    <3>2. /\ capacity_at(p) = least(least(report_capacity, shared_hard_cap),
                                    annual_rules[i].shared_cap - shared_prior(p))
          /\ capacity_at(p)' = least(least(report_capacity', shared_hard_cap),
                                     annual_rules[i].shared_cap - shared_prior(p))
      BY <2>9 DEF capacity_at, least, rule_at, covers
    <3> HIDE DEF i, p
    <3> QED BY <1>1, <1>7, <3>1, <3>2 DEF least
  <2>11. /\ quotas_at(u) = reserved_quotas(capacity_at(p), cap_at(p, FOUNDER),
                                           cap_at(p, TREASURY), cliff_passed(t))
         /\ quotas_at(t)' = reserved_quotas(capacity_at(p)', cap_at(p, FOUNDER),
                                            cap_at(p, TREASURY), cliff_passed(t))
    <3>1. quotas_at(t)' = reserved_quotas(capacity_at(p)', cap_at(p, FOUNDER)',
                                          cap_at(p, TREASURY)', cliff_passed(t))
      BY DEF quotas_at, period_at, cliff_passed, reserved_quotas, least
    <3> QED BY <2>3, <2>4, <2>9, <3>1 DEF quotas_at
  <2> HIDE DEF p, i, u
  <2>12. quotas_at(u)[role] <= quotas_at(t)'[role]
    BY <2>4, <2>7, <2>10, <2>11, QuotasGrow
  <2> QED BY <1>2, <1>3, <2>8, <2>12
<1>8. CASE UNCHANGED cvars
  BY <1>1, <1>7, <1>8 DEF cvars
<1>9. ASSUME NEW u \in Instant, tick(u), report_capacity' \in Nat,
             UNCHANGED <<period, annual_index, period_used, annual_used, released_total>>,
             report_capacity' >= report_capacity,
             last_action_at >= t0 => ~correction_pause(last_action_at)
      PROVE  FALSE
  BY <1>7, <1>9 DEF tick
<1> QED
  BY <1>1, <1>6, <1>8, <1>9, CapacityAssumption
     DEF CNext, SetCapacity, OpenVault, OtherHandlerC, ledgerVars

(* The pause of both pools is the doing of a report, never of a release,   *)
(* the cliff, a deposit or the passing of time (capacity.rs, consume).     *)
THEOREM PausesNeedCorrection == CSpec => PauseNeedsCorrection
<1>1. CInv /\ QuotasDefined' /\ PeriodSeen /\ [CNext]_cvars =>
        \A t \in Instant :
          t >= last_action_at' /\ t >= t0 /\ (window_open(t) /\ correction_pause(t))'
          => \/ report_capacity' < report_capacity
             \/ last_action_at >= t0 /\ correction_pause(last_action_at)
  BY PauseNeedsStep
<1> QED
  BY <1>1, QuotasAmounts, PeriodAlwaysSeen, BudgetInvariant, PTL
  DEF CSpec, PauseNeedsCorrection
==============================================================================
