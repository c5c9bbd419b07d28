--------------------------- MODULE PurposeVaultProofs ---------------------------
(***************************************************************************)
(* Proofs about PurposeVault: the shared window, the approvals, the notice *)
(* of a rotation, and that every aligned beneficiary vault runs the        *)
(* single-vault program.                                                   *)
(***************************************************************************)
EXTENDS PurposeVault, AmountTheorems

PolicyRecord ==
    [genesis_ts : Int, current_period_index : Nat, released_this_period : Nat,
     hard_ceiling : Nat, silence_floor : Nat, silence_grace_seconds : Int,
     vault_count : Nat]
MarketRecord ==
    [genesis_ts : Int, oracle : Key, eligible_volume : Nat, updated_at : Int,
     reported : BOOLEAN, pending_oracle : Key \cup {NoKey}, pending_since : Int]
VaultRecord ==
    [deposited_amount : Nat \ {0}, monthly_cap : Nat, released_total : Nat,
     released_this_period : Nat, current_period_index : Nat, cliff_end_ts : Int]
ApprovalRecord ==
    [vault : Vault, period_index : Nat, approved_need : Nat, consumed : Nat,
     created_at : Int]

PTypeOK ==
    /\ now \in Int
    /\ policy \in PolicyRecord \cup {NoPolicy}
    /\ market \in MarketRecord \cup {NoPolicy}
    /\ vault \in [Vault -> VaultRecord \cup {NoVault}]
    /\ approvals \subseteq ApprovalRecord
    /\ IsFiniteSet(approvals)

(* Everything else needs the policy first, which opens the market with it. *)
PolicyFirst ==
    /\ policy = NoPolicy <=> market = NoPolicy
    /\ policy = NoPolicy =>
      /\ \A v \in Vault : vault[v] = NoVault
      /\ approvals = {}

TInv == PTypeOK /\ PolicyFirst

LEMMA Absent ==
    /\ NoPolicy \notin PolicyRecord /\ NoPolicy \notin MarketRecord
    /\ NoVault \notin VaultRecord
    /\ NoVault.released_total = 0
BY DEF NoPolicy, NoVault, PolicyRecord, MarketRecord, VaultRecord

LEMMA ConstantTypes ==
    /\ PERIOD_SECONDS \in Nat \ {0} /\ BPS_DENOMINATOR \in Nat \ {0}
    /\ MONTHS_PER_YEAR \in Nat \ {0} /\ END \in Nat
    /\ market_capacity_bps \in Nat
BY PolicyAssumption

LEMMA MonthlyCapType ==
    ASSUME NEW n \in Nat, NEW bps \in Nat PROVE monthly_cap(n, bps) \in Nat
<1>1. n * bps \in Nat
  OBVIOUS
<1>2. (n * bps) \div BPS_DENOMINATOR \in Nat
  BY <1>1, ConstantTypes
<1> QED BY <1>2, ConstantTypes DEF monthly_cap

(* While the clock is not before the opening, its period is a natural.     *)
LEMMA PeriodType ==
    ASSUME PTypeOK, policy # NoPolicy
    PROVE  /\ period_index \in Int
           /\ now >= policy.genesis_ts => period_index \in Nat
<1>1. now - policy.genesis_ts \in Int
  BY DEF PTypeOK, PolicyRecord
<1>2. (now - policy.genesis_ts) \div PERIOD_SECONDS \in Int
  BY <1>1, ConstantTypes
<1>3. ASSUME now >= policy.genesis_ts PROVE now - policy.genesis_ts \in Nat
  BY <1>3, <1>1 DEF PTypeOK, PolicyRecord
<1>4. ASSUME NEW n \in Nat PROVE n \div PERIOD_SECONDS \in Nat
  BY ConstantTypes
<1> QED BY <1>2, <1>3, <1>4 DEF period_index

(* The window never opens wider than the ceiling.                          *)
LEMMA CapacityBounded ==
    ASSUME PTypeOK, policy # NoPolicy, market # NoPolicy
    PROVE  window_capacity \in Int /\ window_capacity <= policy.hard_ceiling
<1>1. policy \in PolicyRecord /\ market \in MarketRecord
  BY DEF PTypeOK
<1>2. market_capacity(market.eligible_volume) \in Int
  <2>1. market.eligible_volume * market_capacity_bps \in Int
    BY <1>1, ConstantTypes DEF MarketRecord
  <2> QED BY <2>1, ConstantTypes DEF market_capacity
<1> QED BY <1>1, <1>2 DEF window_capacity, effective_capacity, lesser, PolicyRecord

-----------------------------------------------------------------------------
(* What a release does to the policy and to the vault that pays.           *)
Debited(v, amount) ==
    /\ amount \in Nat \ {0}
    /\ now >= policy.genesis_ts
    /\ policy # NoPolicy /\ vault[v] # NoVault
    /\ apply_release(v, amount)
    /\ UNCHANGED <<now, market>>

LEMMA CarriedType ==
    ASSUME NEW a, a.current_period_index \in Nat, a.released_this_period \in Nat,
           period_index \in Nat
    PROVE  carried(a) \in Nat
BY DEF carried

LEMMA DebitEffect ==
    ASSUME TInv, NEW v \in Vault, NEW amount, Debited(v, amount)
    PROVE  /\ period_index \in Nat
           /\ policy \in PolicyRecord /\ policy' \in PolicyRecord
           /\ policy' = [policy EXCEPT
                !.current_period_index = policy'.current_period_index,
                !.released_this_period = policy'.released_this_period]
           /\ policy'.current_period_index
                = later(policy.current_period_index, period_index)
           /\ policy'.released_this_period = carried(policy) + amount
           /\ policy'.released_this_period <= policy'.hard_ceiling
           /\ policy'.hard_ceiling = policy.hard_ceiling
           /\ policy'.genesis_ts = policy.genesis_ts
           /\ vault[v] \in VaultRecord /\ vault'[v] \in VaultRecord
           /\ vault'[v] = [vault[v] EXCEPT
                !.current_period_index = vault'[v].current_period_index,
                !.released_this_period = vault'[v].released_this_period,
                !.released_total = vault'[v].released_total]
           /\ vault'[v].current_period_index
                = later(vault[v].current_period_index, period_index)
           /\ vault'[v].released_this_period = carried(vault[v]) + amount
           /\ vault'[v].released_total = vault[v].released_total + amount
           /\ vault' = [vault EXCEPT ![v] = vault'[v]]
           /\ vault' \in [Vault -> VaultRecord \cup {NoVault}]
<1>1. policy \in PolicyRecord /\ vault[v] \in VaultRecord /\ market # NoPolicy
      /\ vault \in [Vault -> VaultRecord \cup {NoVault}]
  <2>1. policy \in PolicyRecord /\ vault[v] \in VaultRecord
    BY DEF TInv, PTypeOK, Debited
  <2> QED BY <2>1 DEF TInv, PTypeOK, PolicyFirst, Debited
<1>2. period_index \in Nat
  BY PeriodType DEF TInv, Debited
<1>3. carried(policy) \in Nat /\ carried(vault[v]) \in Nat
  BY <1>1, <1>2, CarriedType DEF PolicyRecord, VaultRecord
<1>4. /\ later(policy.current_period_index, period_index) \in Nat
      /\ later(vault[v].current_period_index, period_index) \in Nat
  BY <1>1, <1>2 DEF later, PolicyRecord, VaultRecord
<1>5. /\ policy' = [policy EXCEPT
            !.current_period_index
               = later(policy.current_period_index, period_index),
            !.released_this_period = carried(policy) + amount]
      /\ carried(policy) + amount <= window_capacity
  BY DEF Debited, apply_release, window_used
<1>6. vault' = [vault EXCEPT ![v] = [vault[v] EXCEPT
            !.current_period_index
               = later(vault[v].current_period_index, period_index),
            !.released_this_period = carried(vault[v]) + amount,
            !.released_total = vault[v].released_total + amount]]
  BY <1>1 DEF Debited, apply_release
<1>7. carried(policy) + amount <= policy.hard_ceiling
  <2>1. market # NoPolicy /\ amount \in Nat
    BY <1>1 DEF Debited
  <2>2. window_capacity \in Int /\ window_capacity <= policy.hard_ceiling
    BY <2>1, CapacityBounded DEF TInv, Debited
  <2> QED BY <1>1, <1>3, <1>5, <2>1, <2>2 DEF PolicyRecord
<1>8. amount \in Nat
  BY DEF Debited
<1> DEFINE p == later(policy.current_period_index, period_index)
           q == later(vault[v].current_period_index, period_index)
           x == carried(policy) + amount
           y == carried(vault[v]) + amount
           z == vault[v].released_total + amount
<1>9. p \in Nat /\ q \in Nat /\ x \in Nat /\ y \in Nat /\ z \in Nat
  BY <1>1, <1>3, <1>4, <1>8 DEF VaultRecord
<1>10. /\ policy' = [policy EXCEPT !.current_period_index = p,
                                   !.released_this_period = x]
       /\ vault'[v] = [vault[v] EXCEPT !.current_period_index = q,
                                       !.released_this_period = y,
                                       !.released_total = z]
       /\ vault' = [vault EXCEPT ![v] = vault'[v]]
       /\ x <= policy.hard_ceiling
  BY <1>1, <1>5, <1>6, <1>7
<1> HIDE DEF p, q, x, y, z
<1>11. /\ policy' \in PolicyRecord
       /\ policy'.current_period_index = p
       /\ policy'.released_this_period = x
       /\ policy'.hard_ceiling = policy.hard_ceiling
       /\ policy'.genesis_ts = policy.genesis_ts
  BY <1>1, <1>9, <1>10 DEF PolicyRecord
<1>12. /\ vault'[v] \in VaultRecord
       /\ vault'[v].current_period_index = q
       /\ vault'[v].released_this_period = y
       /\ vault'[v].released_total = z
  BY <1>1, <1>9, <1>10 DEF VaultRecord
<1>13. vault' \in [Vault -> VaultRecord \cup {NoVault}]
  BY <1>1, <1>10, <1>12
<1> QED BY <1>1, <1>2, <1>10, <1>11, <1>12, <1>13 DEF p, q, x, y, z

-----------------------------------------------------------------------------
(***************************************************************************)
(* Types.                                                                  *)
(***************************************************************************)

(* A release as Next offers it, and the account it leaves.                 *)
BeneficiaryRelease(v, amount) == release_beneficiary(v, amount) /\ amount \in 1..END
PurposeRelease(v, a, amount) ==
    a \in approvals /\ release_purpose(v, a, amount) /\ amount \in 1..END

LEMMA ReleasesDebit ==
    ASSUME TInv, NEW v \in Vault, NEW amount
    PROVE  /\ BeneficiaryRelease(v, amount) => Debited(v, amount)
           /\ \A a : PurposeRelease(v, a, amount)
                /\ (\A b \in approvals : vault[b.vault] # NoVault)
                  => Debited(v, amount)
<1>1. policy # NoPolicy \/ (vault[v] = NoVault /\ approvals = {})
  BY DEF TInv, PolicyFirst
<1>2. amount \in 1..END => amount \in Nat \ {0}
  BY ConstantTypes
<1> QED BY <1>1, <1>2 DEF BeneficiaryRelease, PurposeRelease, release_beneficiary,
           release_purpose, Debited

(* An approval names an opened vault, and no other approval its period.    *)
ApprovalKeys ==
    /\ \A a \in approvals : vault[a.vault] # NoVault
    /\ \A a, b \in approvals :
         a.vault = b.vault /\ a.period_index = b.period_index => a = b

BInv == TInv /\ ApprovalKeys

LEMMA BInit == Init => BInv
BY FS_EmptySet DEF Init, BInv, TInv, PTypeOK, PolicyFirst, ApprovalKeys

LEMMA OpenPolicyTypes ==
    ASSUME BInv, NEW k \in Key, NEW rule \in Rule, open_policy(k, rule)
    PROVE  BInv'
<1>1. policy' \in PolicyRecord
  BY PolicyAssumption DEF open_policy, PolicyRecord, BInv, TInv, PTypeOK
<1>2. market' \in MarketRecord
  BY PolicyAssumption DEF open_policy, MarketRecord, BInv, TInv, PTypeOK
<1> QED BY <1>1, <1>2, Absent DEF open_policy, BInv, TInv, PTypeOK, PolicyFirst,
           ApprovalKeys

LEMMA DepositTypes ==
    ASSUME BInv, NEW v \in Vault, NEW n \in Amount, NEW bps \in Bps,
           NEW cliff \in Cliff, deposit(v, n, bps, cliff)
    PROVE  BInv' /\ vault'[v] \in VaultRecord /\ policy' \in PolicyRecord
<1>1. /\ policy \in PolicyRecord /\ now \in Int /\ cliff \in Int
      /\ n \in Nat /\ bps \in Nat
      /\ vault \in [Vault -> VaultRecord \cup {NoVault}]
  BY PolicyAssumption DEF deposit, BInv, TInv, PTypeOK
<1>2. policy' = [policy EXCEPT !.vault_count = policy.vault_count + 1]
      /\ policy' \in PolicyRecord
  BY <1>1 DEF deposit, PolicyRecord
<1>3. monthly_cap(n, bps) \in Nat
  BY <1>1, MonthlyCapType
<1>4. vault' = [vault EXCEPT ![v] = vault'[v]] /\ vault'[v] \in VaultRecord
  BY <1>1, <1>3 DEF deposit, VaultRecord
<1>5. vault' \in [Vault -> VaultRecord \cup {NoVault}]
  BY <1>1, <1>4
<1>6. \A u \in Vault : vault[u] # NoVault => vault'[u] # NoVault
  BY <1>1, <1>4 DEF deposit
<1> QED BY <1>2, <1>4, <1>5, <1>6, Absent DEF deposit, BInv, TInv, PTypeOK, PolicyFirst,
           ApprovalKeys, ApprovalRecord

LEMMA ApproveTypes ==
    ASSUME BInv, NEW v \in Vault, NEW p \in NeedPeriod, NEW need \in Need,
           approve(v, p, need)
    PROVE  BInv'
<1> DEFINE a == [vault |-> v, period_index |-> p, approved_need |-> need,
                 consumed |-> 0, created_at |-> now]
<1>1. approvals' = approvals \cup {a} /\ a \in ApprovalRecord
  BY PolicyAssumption DEF approve, ApprovalRecord, BInv, TInv, PTypeOK
<1>2. a.vault = v /\ a.period_index = p
  OBVIOUS
<1> HIDE DEF a
<1>3. IsFiniteSet(approvals')
  BY <1>1, FS_AddElement DEF BInv, TInv, PTypeOK
<1>4. \A b, c \in approvals' : b.vault = c.vault /\ b.period_index = c.period_index
        => b = c
  BY <1>1, <1>2 DEF approve, BInv, ApprovalKeys
<1>5. policy # NoPolicy
  BY DEF approve, BInv, TInv, PolicyFirst
<1> QED BY <1>1, <1>2, <1>3, <1>4, <1>5 DEF approve, BInv, TInv, PTypeOK,
           PolicyFirst, ApprovalKeys

LEMMA MarketTypes ==
    ASSUME BInv,
           \/ \E x \in Volume : report_volume(x)
           \/ \E k \in Key : propose_oracle(k)
           \/ execute_oracle_rotation
    PROVE  BInv'
<1>1. market \in MarketRecord /\ now \in Int
  BY DEF report_volume, propose_oracle, execute_oracle_rotation, BInv, TInv, PTypeOK
<1>2. market' \in MarketRecord
  <2>1. CASE \E x \in Volume : report_volume(x)
    BY <1>1, <2>1, PolicyAssumption DEF report_volume, MarketRecord
  <2>2. CASE \E k \in Key : propose_oracle(k)
    BY <1>1, <2>2 DEF propose_oracle, proposal_clock, MarketRecord
  <2>3. CASE execute_oracle_rotation
    <3>1. PICK k : k = market.pending_oracle
      OBVIOUS
    <3>2. k \in Key
      BY <1>1, <2>3, <3>1 DEF execute_oracle_rotation, MarketRecord
    <3>3. PICK m : m = [market EXCEPT !.oracle = k]
      OBVIOUS
    <3>4. m \in MarketRecord
      BY <1>1, <3>2, <3>3 DEF MarketRecord
    <3>5. market' = [m EXCEPT !.pending_oracle = NoKey, !.pending_since = 0]
      BY <2>3, <3>1, <3>3 DEF execute_oracle_rotation
    <3>6. PICK p : p = NoKey /\ p \in Key \cup {NoKey}
      OBVIOUS
    <3>7. PICK l : l = [m EXCEPT !.pending_oracle = p]
      OBVIOUS
    <3>8. l \in MarketRecord
      BY <3>4, <3>6, <3>7 DEF MarketRecord
    <3>9. market' = [l EXCEPT !.pending_since = 0]
      BY <3>5, <3>6, <3>7
    <3> QED BY <3>8, <3>9 DEF MarketRecord
  <2> QED BY <2>1, <2>2, <2>3
<1>3. market # NoPolicy /\ UNCHANGED <<now, policy, vault, approvals>>
  BY DEF report_volume, propose_oracle, execute_oracle_rotation
<1> QED BY <1>2, <1>3, Absent DEF BInv, TInv, PTypeOK, PolicyFirst, ApprovalKeys

LEMMA BeneficiaryTypes ==
    ASSUME BInv, NEW v \in Vault, NEW amount, BeneficiaryRelease(v, amount)
    PROVE  BInv'
<1>1. Debited(v, amount)
  BY ReleasesDebit DEF BInv
<1>2. policy' \in PolicyRecord /\ vault' \in [Vault -> VaultRecord \cup {NoVault}]
      /\ vault' = [vault EXCEPT ![v] = vault'[v]] /\ vault'[v] \in VaultRecord
  BY <1>1, DebitEffect DEF BInv
<1>3. \A u \in Vault : vault[u] # NoVault => vault'[u] # NoVault
  BY <1>2, Absent
<1>4. UNCHANGED <<now, market, approvals>> /\ policy # NoPolicy
  BY <1>1 DEF BeneficiaryRelease, release_beneficiary, Debited
<1> QED BY <1>2, <1>3, <1>4, Absent DEF BInv, TInv, PTypeOK, PolicyFirst, ApprovalKeys,
           ApprovalRecord

(* A payment replaces its approval by one for the same period.             *)
LEMMA PaymentReplaces ==
    ASSUME BInv, NEW v \in Vault, NEW a, NEW amount, PurposeRelease(v, a, amount)
    PROVE  \E b \in ApprovalRecord :
             /\ a \in approvals /\ a \in ApprovalRecord
             /\ approvals' = (approvals \ {a}) \cup {b}
             /\ b.vault = a.vault /\ b.vault = v /\ b.period_index = a.period_index
             /\ b.consumed = a.consumed + amount
             /\ b.approved_need = a.approved_need
             /\ b.consumed <= b.approved_need
             /\ b \notin approvals
             /\ amount \in Nat \ {0}
<1> DEFINE b == [a EXCEPT !.consumed = a.consumed + amount]
<1>1. a \in ApprovalRecord /\ amount \in Nat \ {0} /\ a \in approvals
  BY ConstantTypes DEF PurposeRelease, BInv, TInv, PTypeOK
<1>2. /\ b \in ApprovalRecord /\ b.vault = a.vault /\ b.period_index = a.period_index
      /\ b.consumed = a.consumed + amount /\ b.approved_need = a.approved_need
      /\ b # a
  BY <1>1 DEF ApprovalRecord
<1>3. approvals' = (approvals \ {a}) \cup {b} /\ a.vault = v
      /\ a.consumed + amount <= a.approved_need
  BY DEF PurposeRelease, release_purpose, within_need
<1> HIDE DEF b
<1>4. b \notin approvals
  BY <1>1, <1>2 DEF BInv, ApprovalKeys
<1> QED BY <1>1, <1>2, <1>3, <1>4

LEMMA PurposeTypes ==
    ASSUME BInv, NEW v \in Vault, NEW a, NEW amount, PurposeRelease(v, a, amount)
    PROVE  BInv' /\ Debited(v, amount)
<1>1. Debited(v, amount)
  BY ReleasesDebit DEF BInv, ApprovalKeys
<1>2. policy' \in PolicyRecord /\ vault' \in [Vault -> VaultRecord \cup {NoVault}]
      /\ vault' = [vault EXCEPT ![v] = vault'[v]] /\ vault'[v] \in VaultRecord
  BY <1>1, DebitEffect DEF BInv
<1>3. \A u \in Vault : vault[u] # NoVault => vault'[u] # NoVault
  BY <1>2, Absent
<1>4. UNCHANGED <<now, market>> /\ policy # NoPolicy
  BY <1>1 DEF PurposeRelease, release_purpose, Debited
<1>5. PICK b \in ApprovalRecord :
             /\ a \in approvals /\ a \in ApprovalRecord
             /\ approvals' = (approvals \ {a}) \cup {b}
             /\ b.vault = a.vault /\ b.vault = v /\ b.period_index = a.period_index
  BY PaymentReplaces
<1>6. IsFiniteSet(approvals') /\ approvals' \subseteq ApprovalRecord
  BY <1>5, FS_AddElement, FS_RemoveElement DEF BInv, TInv, PTypeOK
<1>7. ApprovalKeys'
  <2>1. \A c \in approvals' : vault'[c.vault] # NoVault
    <3>1. \A c \in approvals : c.vault \in Vault /\ vault'[c.vault] # NoVault
      BY <1>3 DEF BInv, TInv, PTypeOK, ApprovalRecord, ApprovalKeys
    <3>2. vault'[v] # NoVault
      BY <1>2, Absent
    <3> QED BY <1>5, <3>1, <3>2
  <2>2. \A c, d \in approvals' :
          c.vault = d.vault /\ c.period_index = d.period_index => c = d
    <3>1. \A c, d \in approvals :
            c.vault = d.vault /\ c.period_index = d.period_index => c = d
      BY DEF BInv, ApprovalKeys
    <3>2. \A c \in approvals \ {a} :
            ~(c.vault = b.vault /\ c.period_index = b.period_index)
      BY <1>5, <3>1
    <3> QED BY <1>5, <3>1, <3>2
  <2> QED BY <2>1, <2>2 DEF ApprovalKeys
<1> QED BY <1>1, <1>2, <1>3, <1>4, <1>6, <1>7, Absent DEF BInv, TInv, PTypeOK, PolicyFirst

-----------------------------------------------------------------------------
(***************************************************************************)
(* The shared window.                                                      *)
(***************************************************************************)

Released == [v \in Open |-> vault[v].released_this_period]
InPeriod == {v \in Open : vault[v].current_period_index
                            = policy.current_period_index}

(* No vault is in a later period than the policy: a release rolls both.    *)
NoVaultAhead ==
    policy # NoPolicy =>
      \A v \in Open : vault[v].current_period_index <= policy.current_period_index

WindowInv == BInv /\ NoVaultAhead /\ SharedWindowHolds

LEMMA WindowFacts ==
    ASSUME BInv
    PROVE  /\ IsFiniteSet(Open) /\ IsFiniteSet(InPeriod)
           /\ \A v \in Open : /\ vault[v] \in VaultRecord
                              /\ Released[v] \in Nat
                              /\ vault[v].current_period_index \in Nat
<1>1. IsFiniteSet(Open) /\ IsFiniteSet(InPeriod)
  BY PolicyAssumption, FS_Subset DEF Open, InPeriod
<1>2. \A v \in Open : vault[v] \in VaultRecord
  BY DEF Open, BInv, TInv, PTypeOK
<1> QED BY <1>1, <1>2 DEF Released, VaultRecord

LEMMA DebitKeepsWindow ==
    ASSUME WindowInv, NEW v \in Vault, NEW amount, Debited(v, amount), BInv'
    PROVE  NoVaultAhead' /\ SharedWindowHolds'
<1> DEFINE p == period_index
           c == policy.current_period_index
<1>1. /\ p \in Nat /\ c \in Nat /\ amount \in Nat
      /\ policy.released_this_period \in Nat
      /\ policy'.current_period_index = later(c, p)
      /\ policy'.released_this_period = carried(policy) + amount
      /\ policy'.released_this_period <= policy'.hard_ceiling
      /\ vault'[v].current_period_index
           = later(vault[v].current_period_index, p)
      /\ vault'[v].released_this_period = carried(vault[v]) + amount
      /\ vault' = [vault EXCEPT ![v] = vault'[v]]
      /\ policy # NoPolicy
      /\ vault[v] # NoVault /\ vault'[v] # NoVault
      /\ v \in Open
  BY DebitEffect, Absent DEF WindowInv, BInv, Debited, PolicyRecord, Open
<1>2. /\ Open' = Open
      /\ \A u \in Open : u # v => vault'[u] = vault[u]
  <2>1. DOMAIN vault = Vault /\ DOMAIN vault' = Vault
    BY <1>1 DEF WindowInv, BInv, TInv, PTypeOK
  <2> QED BY <1>1, <2>1 DEF Open
<1>3. /\ IsFiniteSet(Open) /\ IsFiniteSet(InPeriod)
      /\ \A u \in Open : /\ Released[u] \in Nat
                         /\ Released'[u] \in Nat
                         /\ vault[u].current_period_index \in Nat
                         /\ vault[u].current_period_index <= c
  <2>1. /\ IsFiniteSet(Open) /\ IsFiniteSet(InPeriod)
        /\ \A u \in Open : /\ Released[u] \in Nat
                           /\ vault[u].current_period_index \in Nat
    BY WindowFacts DEF WindowInv
  <2>2. \A u \in Open : Released'[u] \in Nat
    <3>1. \A u \in Open' : vault'[u] \in VaultRecord
      BY DEF BInv, TInv, PTypeOK, Open
    <3> QED BY <1>2, <3>1 DEF Released, VaultRecord
  <2>3. \A u \in Open : vault[u].current_period_index <= c
    BY <1>1 DEF WindowInv, NoVaultAhead
  <2> QED BY <2>1, <2>2, <2>3
<1>4. /\ \A u \in Open : u # v => Released'[u] = Released[u]
      /\ Released'[v] = carried(vault[v]) + amount
      /\ Released[v] = vault[v].released_this_period
  BY <1>1, <1>2 DEF Released
<1>5. SumFunctionOnSet(Released, InPeriod) <= policy.released_this_period
  BY <1>1 DEF WindowInv, SharedWindowHolds, Released, InPeriod
<1>6. NoVaultAhead'
  <2>1. vault'[v].current_period_index <= policy'.current_period_index
    BY <1>1, <1>3 DEF later
  <2>2. \A u \in Open : u # v =>
          vault'[u].current_period_index <= policy'.current_period_index
    BY <1>1, <1>2, <1>3 DEF later
  <2> QED BY <1>2, <2>1, <2>2 DEF NoVaultAhead
<1>7. \A T \in SUBSET Open : IsFiniteSet(T) /\ \A u \in T : Released'[u] \in Int
  BY <1>3, FS_Subset
<1>8. SumFunctionOnSet(Released, InPeriod) \in Int
  <2>1. \A u \in InPeriod : Released[u] \in Int
    BY <1>3 DEF InPeriod
  <2> QED BY <1>3, <2>1, SumType
<1>9. SumFunctionOnSet(Released', InPeriod') <= policy'.released_this_period
  <2>1. CASE p > c
    <3>1. InPeriod' = {} \cup {v}
      <4>1. vault'[v].current_period_index = policy'.current_period_index
        BY <1>1, <1>3, <2>1 DEF later
      <4>2. \A u \in Open : u # v =>
              vault'[u].current_period_index # policy'.current_period_index
        BY <1>1, <1>2, <1>3, <2>1 DEF later
      <4> QED BY <1>1, <1>2, <4>1, <4>2 DEF InPeriod
    <3>2. carried(vault[v]) = 0 /\ carried(policy) = 0
      BY <1>1, <1>3, <2>1 DEF carried
    <3>3. \A u \in {} \cup {v} : Released'[u] \in Int
      BY <1>1, <1>7
    <3>4. SumFunctionOnSet(Released', {} \cup {v})
            = Released'[v] + SumFunctionOnSet(Released', {})
      BY <3>3, SumAdd, FS_EmptySet
    <3> QED BY <1>1, <1>4, <3>1, <3>2, <3>4, SumOfNothing
  <2>2. CASE p <= c
    <3>1. /\ policy'.current_period_index = c
          /\ policy'.released_this_period
               = policy.released_this_period + amount
      BY <1>1, <2>2 DEF later, carried
    <3>2. SumFunctionOnSet(Released', InPeriod \ {v})
            = SumFunctionOnSet(Released, InPeriod \ {v})
      BY <1>3, <1>4, FS_RemoveElement, SumAgrees DEF InPeriod
    <3>3. CASE v \in InPeriod
      <4>1. InPeriod' = InPeriod
        <5>1. vault'[v].current_period_index = c
          BY <1>1, <2>2, <3>3 DEF later, InPeriod
        <5> QED BY <1>2, <3>1, <3>3, <5>1 DEF InPeriod
      <4>2. Released'[v] = Released[v] + amount
        <5>1. period_index <= vault[v].current_period_index
          BY <2>2, <3>3 DEF InPeriod
        <5>2. carried(vault[v]) = vault[v].released_this_period
          BY <1>1, <1>3, <5>1 DEF carried
        <5> QED BY <1>4, <5>2
      <4>3. /\ SumFunctionOnSet(Released, InPeriod)
                 = Released[v] + SumFunctionOnSet(Released, InPeriod \ {v})
            /\ SumFunctionOnSet(Released, InPeriod \ {v}) \in Int
        <5>1. \A u \in InPeriod : Released[u] \in Int
          BY <1>3 DEF InPeriod
        <5> QED BY <1>3, <3>3, <5>1, SumTakeOut
      <4>4. SumFunctionOnSet(Released', InPeriod)
              = Released'[v] + SumFunctionOnSet(Released', InPeriod \ {v})
        <5>1. \A u \in InPeriod : Released'[u] \in Int
          BY <1>3 DEF InPeriod
        <5> QED BY <1>3, <3>3, <5>1, SumTakeOut
      <4> QED BY <1>1, <1>3, <1>5, <3>1, <3>2, <4>1, <4>2, <4>3, <4>4
    <3>4. CASE v \notin InPeriod
      <4>1. vault[v].current_period_index < c
        BY <1>1, <1>3, <3>4 DEF InPeriod
      <4>2. InPeriod \ {v} = InPeriod
        BY <3>4
      <4>3. CASE p = c
        <5>1. InPeriod' = InPeriod \cup {v}
          <6>1. vault'[v].current_period_index = c
            BY <1>1, <1>3, <4>1, <4>3 DEF later
          <6> QED BY <1>1, <1>2, <3>1, <3>4, <6>1 DEF InPeriod
        <5>2. Released'[v] = amount
          BY <1>1, <1>3, <1>4, <4>1, <4>3 DEF carried
        <5>3. \A u \in InPeriod \cup {v} : Released'[u] \in Int
          BY <1>1, <1>3 DEF InPeriod
        <5>4. SumFunctionOnSet(Released', InPeriod \cup {v})
                = Released'[v] + SumFunctionOnSet(Released', InPeriod)
          BY <1>3, <3>4, <5>3, SumAdd
        <5>5. SumFunctionOnSet(Released', InPeriod')
                = amount + SumFunctionOnSet(Released, InPeriod)
          BY <3>2, <4>2, <5>1, <5>2, <5>4
        <5> QED BY <1>1, <1>5, <1>8, <3>1, <5>5
      <4>4. CASE p # c
        <5>1. InPeriod' = InPeriod
          <6>1. vault'[v].current_period_index # c
            BY <1>1, <1>3, <2>2, <4>1, <4>4 DEF later
          <6> QED BY <1>1, <1>2, <3>1, <3>4, <6>1 DEF InPeriod
        <5>2. SumFunctionOnSet(Released', InPeriod')
                = SumFunctionOnSet(Released, InPeriod)
          BY <3>2, <4>2, <5>1
        <5> QED BY <1>1, <1>5, <1>8, <3>1, <5>2
      <4> QED BY <4>3, <4>4
    <3> QED BY <3>3, <3>4
  <2> QED BY <1>1, <2>1, <2>2
<1> QED BY <1>1, <1>6, <1>9 DEF SharedWindowHolds, Released, InPeriod

(* A new vault has released nothing, in whatever period the policy is.     *)
LEMMA DepositKeepsWindow ==
    ASSUME WindowInv, NEW v \in Vault, NEW n \in Amount, NEW bps \in Bps,
           NEW cliff \in Cliff, deposit(v, n, bps, cliff)
    PROVE  NoVaultAhead' /\ SharedWindowHolds'
<1>1. BInv' /\ vault'[v] \in VaultRecord /\ policy' \in PolicyRecord
  BY DepositTypes DEF WindowInv
<1>2. /\ policy \in PolicyRecord /\ policy # NoPolicy
      /\ policy'.current_period_index = policy.current_period_index
      /\ policy'.released_this_period = policy.released_this_period
      /\ policy'.hard_ceiling = policy.hard_ceiling
  BY DEF deposit, WindowInv, BInv, TInv, PTypeOK, PolicyRecord
<1>3. /\ vault' = [vault EXCEPT ![v] = vault'[v]]
      /\ vault'[v].released_this_period = 0
      /\ vault'[v].current_period_index = 0
      /\ vault[v] = NoVault /\ vault'[v] # NoVault
  BY <1>1, Absent DEF deposit, WindowInv, BInv, TInv, PTypeOK
<1>4. /\ Open' = Open \cup {v} /\ v \notin Open
      /\ \A u \in Open : vault'[u] = vault[u]
  <2>1. DOMAIN vault = Vault /\ DOMAIN vault' = Vault
    BY <1>3 DEF WindowInv, BInv, TInv, PTypeOK
  <2> QED BY <1>3, <2>1 DEF Open
<1>5. NoVaultAhead'
  BY <1>2, <1>3, <1>4 DEF WindowInv, NoVaultAhead, PolicyRecord
<1>6. /\ Released'[v] = 0
      /\ \A u \in Open : Released'[u] = Released[u] /\ Released[u] \in Nat
      /\ IsFiniteSet(InPeriod) /\ v \notin InPeriod /\ InPeriod \subseteq Open
  BY <1>3, <1>4, WindowFacts DEF Released, WindowInv, InPeriod
<1>7. SumFunctionOnSet(Released', InPeriod) = SumFunctionOnSet(Released, InPeriod)
  BY <1>6, SumAgrees
<1>8. InPeriod' \in {InPeriod, InPeriod \cup {v}}
  BY <1>2, <1>4 DEF InPeriod
<1>9. SumFunctionOnSet(Released', InPeriod') = SumFunctionOnSet(Released, InPeriod)
  <2>1. \A u \in InPeriod \cup {v} : Released'[u] \in Int
    BY <1>6
  <2>2. /\ SumFunctionOnSet(Released', InPeriod) \in Int
        /\ SumFunctionOnSet(Released', InPeriod \cup {v})
             = Released'[v] + SumFunctionOnSet(Released', InPeriod)
    BY <1>6, <2>1, SumAdd
  <2>3. SumFunctionOnSet(Released', InPeriod \cup {v})
          = SumFunctionOnSet(Released', InPeriod)
    BY <1>6, <2>2
  <2> QED BY <1>7, <1>8, <2>3
<1> QED BY <1>2, <1>5, <1>9 DEF WindowInv, SharedWindowHolds, Released, InPeriod

LEMMA OpenKeepsWindow ==
    ASSUME WindowInv, NEW k \in Key, NEW rule \in Rule, open_policy(k, rule)
    PROVE  NoVaultAhead' /\ SharedWindowHolds'
<1>1. Open' = {}
  BY DEF WindowInv, BInv, TInv, PolicyFirst, open_policy, Open
<1>2. InPeriod' = {}
  BY <1>1 DEF InPeriod
<1>3. policy'.released_this_period = 0 /\ policy'.hard_ceiling >= 0
  BY PolicyAssumption DEF open_policy
<1> QED BY <1>1, <1>2, <1>3, SumOfNothing DEF NoVaultAhead, SharedWindowHolds, InPeriod

-----------------------------------------------------------------------------
(***************************************************************************)
(* Approvals.                                                              *)
(***************************************************************************)

Mine(v) == {a \in approvals : a.vault = v}
Consumed(v) == [a \in Mine(v) |-> a.consumed]

PaidAsApproved(v) ==
    /\ vault[v].released_total = SumFunctionOnSet(Consumed(v), Mine(v))
    /\ \A a \in Mine(v) : a.consumed <= a.approved_need

LEMMA PaidUnfolds ==
    PurposePaidAsApproved <=> \A v \in Open \cap Purpose : PaidAsApproved(v)
BY DEF PurposePaidAsApproved, PaidAsApproved, Consumed, Mine, SumFunction

LEMMA PaidUnfoldsNext ==
    (\A v \in Open' \cap Purpose : PaidAsApproved(v)') => PurposePaidAsApproved'
BY DEF PurposePaidAsApproved, PaidAsApproved, Consumed, Mine, SumFunction

LEMMA MineFinite ==
    ASSUME TInv, NEW v
    PROVE  /\ IsFiniteSet(Mine(v))
           /\ \A a \in Mine(v) : a \in ApprovalRecord /\ Consumed(v)[a] \in Int
<1>1. IsFiniteSet(Mine(v))
  BY FS_Subset DEF TInv, PTypeOK, Mine
<1>2. \A a \in Mine(v) : a \in ApprovalRecord
  BY DEF TInv, PTypeOK, Mine
<1> QED BY <1>1, <1>2 DEF Consumed, ApprovalRecord

LEMMA MineUnchanged ==
    ASSUME NEW v, Mine(v)' = Mine(v), PaidAsApproved(v),
           vault'[v].released_total = vault[v].released_total
    PROVE  PaidAsApproved(v)'
<1>1. Consumed(v)' = Consumed(v)
  BY DEF Consumed
<1> QED BY <1>1 DEF PaidAsApproved

LEMMA PaymentKeepsApprovals ==
    ASSUME BInv, PurposePaidAsApproved, NEW v \in Vault, NEW a, NEW amount,
           PurposeRelease(v, a, amount)
    PROVE  PurposePaidAsApproved'
<1>1. Debited(v, amount)
  BY PurposeTypes
<1>2. /\ vault[v] # NoVault /\ vault[v] \in VaultRecord
      /\ vault' = [vault EXCEPT ![v] = vault'[v]] /\ DOMAIN vault = Vault
      /\ vault'[v].released_total = vault[v].released_total + amount
  BY <1>1, DebitEffect DEF Debited, BInv, TInv, PTypeOK
<1>3. PICK b \in ApprovalRecord :
             /\ a \in approvals /\ a \in ApprovalRecord
             /\ approvals' = (approvals \ {a}) \cup {b}
             /\ b.vault = a.vault /\ b.vault = v
             /\ b.consumed = a.consumed + amount
             /\ b.consumed <= b.approved_need
             /\ b \notin approvals
             /\ amount \in Nat \ {0}
  BY PaymentReplaces
<1>4. Open' = Open /\ v \in Open /\ v \in Purpose
  <2>1. vault'[v] # NoVault
    BY <1>1, DebitEffect, Absent DEF BInv
  <2> QED BY <1>2, <2>1 DEF Open, PurposeRelease, release_purpose
<1>5. ASSUME NEW u \in Open \cap Purpose, u # v
      PROVE  PaidAsApproved(u)'
  <2>1. Mine(u)' = Mine(u)
    BY <1>3, <1>5 DEF Mine
  <2>2. vault'[u] = vault[u]
    BY <1>2, <1>5 DEF Open
  <2> QED BY <1>5, <2>1, <2>2, PaidUnfolds, MineUnchanged
<1>6. PaidAsApproved(v)'
  <2> DEFINE rest == Mine(v) \ {a}
  <2>1. /\ Mine(v)' = rest \cup {b} /\ b \notin rest /\ a \in Mine(v)
        /\ IsFiniteSet(Mine(v)) /\ IsFiniteSet(rest)
        /\ \A c \in Mine(v) : c \in ApprovalRecord /\ Consumed(v)[c] \in Int
    <3>1. /\ IsFiniteSet(Mine(v))
          /\ \A c \in Mine(v) : c \in ApprovalRecord /\ Consumed(v)[c] \in Int
      BY MineFinite DEF BInv
    <3>2. Mine(v)' = rest \cup {b} /\ b \notin rest /\ a \in Mine(v)
      BY <1>3 DEF Mine
    <3>3. IsFiniteSet(rest)
      BY <3>1, FS_RemoveElement
    <3> QED BY <3>1, <3>2, <3>3
  <2>2. /\ \A c \in rest : Consumed(v)'[c] = Consumed(v)[c]
        /\ Consumed(v)'[b] = Consumed(v)[a] + amount
        /\ Consumed(v)[a] \in Int /\ Consumed(v)'[b] \in Int
    BY <1>3, <2>1 DEF Consumed, ApprovalRecord
  <2>3. PaidAsApproved(v)
    BY <1>4, PaidUnfolds
  <2>4. SumFunctionOnSet(Consumed(v)', rest) = SumFunctionOnSet(Consumed(v), rest)
    BY <2>1, <2>2, SumAgrees
  <2>5. /\ SumFunctionOnSet(Consumed(v), rest) \in Int
        /\ SumFunctionOnSet(Consumed(v), Mine(v))
             = Consumed(v)[a] + SumFunctionOnSet(Consumed(v), rest)
    <3>1. IsFiniteSet(Mine(v)) /\ a \in Mine(v)
          /\ \A c \in Mine(v) : Consumed(v)[c] \in Int
      BY <2>1
    <3>2. /\ SumFunctionOnSet(Consumed(v), Mine(v) \ {a}) \in Int
          /\ SumFunctionOnSet(Consumed(v), Mine(v))
               = Consumed(v)[a] + SumFunctionOnSet(Consumed(v), Mine(v) \ {a})
      <4> DEFINE f == Consumed(v)
                 S == Mine(v)
      <4>1. IsFiniteSet(S) /\ a \in S /\ \A c \in S : f[c] \in Int
        BY <3>1
      <4> HIDE DEF rest, f, S
      <4>2. /\ SumFunctionOnSet(f, S \ {a}) \in Int
            /\ SumFunctionOnSet(f, S) = f[a] + SumFunctionOnSet(f, S \ {a})
        BY <4>1, SumTakeOut
      <4> QED BY <4>2 DEF f, S
    <3> QED BY <3>2
  <2>6. SumFunctionOnSet(Consumed(v)', rest \cup {b})
          = Consumed(v)'[b] + SumFunctionOnSet(Consumed(v)', rest)
    <3>1. \A c \in rest \cup {b} : Consumed(v)'[c] \in Int
      BY <2>1, <2>2
    <3> QED BY <2>1, <3>1, SumAdd
  <2>7. vault'[v].released_total = SumFunctionOnSet(Consumed(v)', Mine(v)')
    <3>1. vault[v].released_total
            = Consumed(v)[a] + SumFunctionOnSet(Consumed(v), rest)
      BY <2>3, <2>5 DEF PaidAsApproved
    <3>2. SumFunctionOnSet(Consumed(v)', Mine(v)')
            = (Consumed(v)[a] + amount) + SumFunctionOnSet(Consumed(v), rest)
      BY <2>1, <2>2, <2>4, <2>6
    <3> HIDE DEF rest
    <3> QED BY <1>2, <1>3, <2>2, <2>5, <3>1, <3>2
  <2>8. \A c \in Mine(v)' : c.consumed <= c.approved_need
    BY <1>3, <2>1, <2>3 DEF PaidAsApproved
  <2> QED BY <2>7, <2>8 DEF PaidAsApproved
<1>7. \A u \in Open' \cap Purpose : PaidAsApproved(u)'
  BY <1>4, <1>5, <1>6
<1> QED BY <1>7, PaidUnfoldsNext

(* A new approval has paid nothing yet.                                    *)
LEMMA ApprovalKeepsApprovals ==
    ASSUME BInv, PurposePaidAsApproved, NEW v \in Vault, NEW p \in NeedPeriod,
           NEW need \in Need, approve(v, p, need)
    PROVE  PurposePaidAsApproved'
<1> DEFINE a == [vault |-> v, period_index |-> p, approved_need |-> need,
                 consumed |-> 0, created_at |-> now]
<1>1. /\ approvals' = approvals \cup {a} /\ a.vault = v /\ a.consumed = 0
      /\ a.approved_need \in Nat /\ a.period_index = p /\ a \notin approvals
      /\ UNCHANGED vault
  BY PolicyAssumption DEF approve
<1> HIDE DEF a
<1>2. ASSUME NEW u \in Open \cap Purpose PROVE PaidAsApproved(u)'
  <2>1. CASE u # v
    BY <1>1, <1>2, <2>1, PaidUnfolds, MineUnchanged DEF Mine
  <2>2. CASE u = v
    <3>1. /\ Mine(v)' = Mine(v) \cup {a} /\ a \notin Mine(v)
          /\ IsFiniteSet(Mine(v))
          /\ \A c \in Mine(v) : Consumed(v)[c] \in Int
      BY <1>1, MineFinite DEF Mine, BInv
    <3>2. /\ \A c \in Mine(v) : Consumed(v)'[c] = Consumed(v)[c]
          /\ Consumed(v)'[a] = 0
      BY <1>1, <3>1 DEF Consumed
    <3>3. SumFunctionOnSet(Consumed(v)', Mine(v))
            = SumFunctionOnSet(Consumed(v), Mine(v))
      BY <3>1, <3>2, SumAgrees
    <3>4. /\ SumFunctionOnSet(Consumed(v)', Mine(v)) \in Int
          /\ SumFunctionOnSet(Consumed(v)', Mine(v) \cup {a})
               = Consumed(v)'[a] + SumFunctionOnSet(Consumed(v)', Mine(v))
      <4>1. \A c \in Mine(v) \cup {a} : Consumed(v)'[c] \in Int
        BY <3>1, <3>2
      <4> QED BY <3>1, <4>1, SumAdd
    <3>5. SumFunctionOnSet(Consumed(v)', Mine(v)')
            = SumFunctionOnSet(Consumed(v), Mine(v))
      BY <3>1, <3>2, <3>3, <3>4
    <3>6. PaidAsApproved(v)
      BY <1>2, <2>2, PaidUnfolds
    <3> QED BY <1>1, <2>2, <3>1, <3>5, <3>6 DEF PaidAsApproved
  <2> QED BY <2>1, <2>2
<1>3. Open' \cap Purpose = Open \cap Purpose
  BY <1>1 DEF Open
<1>4. \A u \in Open' \cap Purpose : PaidAsApproved(u)'
  BY <1>2, <1>3
<1> QED BY <1>4, PaidUnfoldsNext

(* No approval names a vault before its deposit.                           *)
LEMMA DepositKeepsApprovals ==
    ASSUME BInv, PurposePaidAsApproved, NEW v \in Vault, NEW n \in Amount,
           NEW bps \in Bps, NEW cliff \in Cliff, deposit(v, n, bps, cliff)
    PROVE  PurposePaidAsApproved'
<1>1. /\ vault[v] = NoVault /\ vault' = [vault EXCEPT ![v] = vault'[v]]
      /\ DOMAIN vault = Vault
      /\ vault'[v].released_total = 0
      /\ UNCHANGED approvals
  BY DEF deposit, BInv, TInv, PTypeOK
<1>2. Mine(v) = {}
  BY <1>1 DEF Mine, BInv, ApprovalKeys
<1>3. \A u : Mine(u)' = Mine(u)
  BY <1>1 DEF Mine
<1>4. PaidAsApproved(v)'
  BY <1>1, <1>2, <1>3, SumOfNothing DEF PaidAsApproved
<1>5. ASSUME NEW u \in Open' \cap Purpose, u # v PROVE PaidAsApproved(u)'
  <2>1. u \in Open \cap Purpose /\ vault'[u] = vault[u]
    BY <1>1, <1>5 DEF Open
  <2> QED BY <1>3, <2>1, PaidUnfolds, MineUnchanged
<1>6. \A u \in Open' \cap Purpose : PaidAsApproved(u)'
  BY <1>4, <1>5
<1> QED BY <1>6, PaidUnfoldsNext

(* A beneficiary vault pays without touching them.                         *)
LEMMA BeneficiaryKeepsApprovals ==
    ASSUME BInv, PurposePaidAsApproved, NEW v \in Vault, NEW amount,
           BeneficiaryRelease(v, amount)
    PROVE  PurposePaidAsApproved'
<1>1. /\ vault[v] # NoVault /\ v \notin Purpose
      /\ vault' = [vault EXCEPT ![v] = vault'[v]]
      /\ DOMAIN vault = Vault
      /\ UNCHANGED approvals
  BY ReleasesDebit, DebitEffect
     DEF BeneficiaryRelease, release_beneficiary, BInv, TInv, PTypeOK
<1>2. \A u : Mine(u)' = Mine(u)
  BY <1>1 DEF Mine
<1>3. ASSUME NEW u \in Open' \cap Purpose PROVE PaidAsApproved(u)'
  <2>1. u \in Open \cap Purpose /\ vault'[u] = vault[u]
    BY <1>1, <1>3 DEF Open
  <2> QED BY <1>2, <2>1, PaidUnfolds, MineUnchanged
<1> QED BY <1>3, PaidUnfoldsNext

-----------------------------------------------------------------------------
(***************************************************************************)
(* The invariant.                                                          *)
(***************************************************************************)

PInv == WindowInv /\ PurposePaidAsApproved

(* The disjuncts of Next, without the bounds of the model.                 *)
LEMMA NextCases ==
    ASSUME TInv, [Next]_vars
    PROVE  \/ /\ UNCHANGED <<policy, market, vault, approvals>>
              /\ now' \in Int
           \/ \E k \in Key, rule \in Rule : open_policy(k, rule)
           \/ \E v \in Vault, n \in Amount, bps \in Bps, cliff \in Cliff :
                deposit(v, n, bps, cliff)
           \/ \E v \in Vault, p \in NeedPeriod, need \in Need : approve(v, p, need)
           \/ \E x \in Volume : report_volume(x)
           \/ \E k \in Key : propose_oracle(k)
           \/ execute_oracle_rotation
           \/ \E v \in Vault, n \in 1..END :
                \/ BeneficiaryRelease(v, n)
                \/ \E a \in approvals : PurposeRelease(v, a, n)
<1>1. now \in Int
  BY DEF TInv, PTypeOK
<1>2. ClockMoves => now' \in Int
  BY <1>1 DEF ClockMoves, Elapse, StepBack
<1> QED BY <1>1, <1>2 DEF Next, vars, ClockMoves, ReassignDestination, Reporting,
           Releasing, BeneficiaryRelease, PurposeRelease

LEMMA PInit == Init => PInv
<1>1. ASSUME Init PROVE Open = {} /\ policy = NoPolicy
  BY <1>1 DEF Init, Open
<1> QED BY <1>1, BInit DEF PInv, WindowInv, NoVaultAhead, SharedWindowHolds,
           PurposePaidAsApproved

LEMMA PStep == PInv /\ [Next]_vars => PInv'
<1> SUFFICES ASSUME PInv, [Next]_vars PROVE PInv'
  OBVIOUS
<1>1. WindowInv /\ BInv /\ TInv /\ PurposePaidAsApproved
  BY DEF PInv, WindowInv, BInv
<1>2. CASE UNCHANGED <<policy, market, vault, approvals>> /\ now' \in Int
  <2>1. BInv'
    BY <1>1, <1>2 DEF BInv, TInv, PTypeOK, PolicyFirst, ApprovalKeys
  <2>2. NoVaultAhead' /\ SharedWindowHolds'
    BY <1>1, <1>2 DEF WindowInv, NoVaultAhead, SharedWindowHolds, Open
  <2>3. PurposePaidAsApproved'
    BY <1>1, <1>2 DEF PurposePaidAsApproved, Open
  <2> QED BY <2>1, <2>2, <2>3 DEF PInv, WindowInv
<1>3. ASSUME NEW k \in Key, NEW rule \in Rule, open_policy(k, rule) PROVE PInv'
  <2>1. PurposePaidAsApproved'
    BY <1>1, <1>3 DEF open_policy, PurposePaidAsApproved, Open
  <2> QED BY <1>1, <1>3, <2>1, OpenPolicyTypes, OpenKeepsWindow DEF PInv, WindowInv
<1>4. ASSUME NEW v \in Vault, NEW n \in Amount, NEW bps \in Bps,
             NEW cliff \in Cliff, deposit(v, n, bps, cliff)
      PROVE  PInv'
  BY <1>1, <1>4, DepositTypes, DepositKeepsWindow, DepositKeepsApprovals
     DEF PInv, WindowInv
<1>5. ASSUME NEW v \in Vault, NEW p \in NeedPeriod, NEW need \in Need,
             approve(v, p, need)
      PROVE  PInv'
  <2>1. NoVaultAhead' /\ SharedWindowHolds'
    BY <1>1, <1>5 DEF approve, WindowInv, NoVaultAhead, SharedWindowHolds, Open
  <2> QED BY <1>1, <1>5, <2>1, ApproveTypes, ApprovalKeepsApprovals DEF PInv, WindowInv
<1>6. CASE \/ \E x \in Volume : report_volume(x)
           \/ \E k \in Key : propose_oracle(k)
           \/ execute_oracle_rotation
  <2>1. UNCHANGED <<policy, vault, approvals>>
    BY <1>6 DEF report_volume, propose_oracle, execute_oracle_rotation
  <2>2. NoVaultAhead' /\ SharedWindowHolds' /\ PurposePaidAsApproved'
    BY <1>1, <2>1 DEF WindowInv, NoVaultAhead, SharedWindowHolds, Open,
       PurposePaidAsApproved
  <2> QED BY <1>1, <1>6, <2>2, MarketTypes DEF PInv, WindowInv
<1>7. ASSUME NEW v \in Vault, NEW n, BeneficiaryRelease(v, n) PROVE PInv'
  BY <1>1, <1>7, BeneficiaryTypes, ReleasesDebit, DebitKeepsWindow,
     BeneficiaryKeepsApprovals DEF PInv, WindowInv
<1>8. ASSUME NEW v \in Vault, NEW n, NEW a, PurposeRelease(v, a, n) PROVE PInv'
  BY <1>1, <1>8, PurposeTypes, DebitKeepsWindow, PaymentKeepsApprovals
     DEF PInv, WindowInv
<1> QED BY <1>1, <1>2, <1>3, <1>4, <1>5, <1>6, <1>7, <1>8, NextCases

(* The invariant behind every theorem about B2.                            *)
THEOREM PolicyInvariant == Spec => []PInv
BY PInit, PStep, PTL DEF Spec

(* However lazily the policy and the vaults roll over, and wherever the    *)
(* clock steps back, the vaults never release more in a period than the    *)
(* shared counter says, nor more than the ceiling.                         *)
THEOREM WindowShared == Spec => []SharedWindowHolds
BY PolicyInvariant, PTL DEF PInv, WindowInv

(* Every token a purpose vault pays is counted against one approval.       *)
THEOREM PaymentsApproved == Spec => []PurposePaidAsApproved
BY PolicyInvariant, PTL DEF PInv

-----------------------------------------------------------------------------
(***************************************************************************)
(* The notice of a rotation.                                               *)
(***************************************************************************)

Announced ==
    IF market = NoPolicy \/ market.pending_oracle = NoKey THEN {}
    ELSE {[value |-> market.pending_oracle, since |-> market.pending_since]}

LEMMA RotationInit == Init => Rotation!Init
<1>1. (CHOOSE k \in Key : TRUE) \in Key
  BY PolicyAssumption
<1> QED BY <1>1 DEF Init, Rotation!Init

LEMMA RotationStep == PInv /\ [Next]_vars => [Rotation!Next]_(Rotation!noticeVars)
<1> SUFFICES ASSUME PInv, [Next]_vars PROVE [Rotation!Next]_(Rotation!noticeVars)
  OBVIOUS
<1>1. TInv
  BY DEF PInv, WindowInv, BInv
<1>2. CASE UNCHANGED market
  BY <1>2 DEF Rotation!Next, Rotation!Wait
<1>3. CASE market = NoPolicy /\ \E k \in Key, rule \in Rule : open_policy(k, rule)
  <2>1. market'.pending_oracle = NoKey
    BY <1>3 DEF open_policy
  <2> QED BY <1>3, <2>1 DEF Rotation!Next, Rotation!Ungoverned
<1>4. ASSUME market # NoPolicy, market' # NoPolicy, NEW k \in Key, propose_oracle(k)
      PROVE  Rotation!Announce
  <2>1. /\ market'.pending_oracle = k /\ k # NoKey
        /\ market'.pending_since = now' /\ market'.oracle = market.oracle
    BY <1>1, <1>4, Absent DEF propose_oracle, proposal_clock, TInv, PTypeOK, MarketRecord
  <2> QED BY <1>4, <2>1 DEF Rotation!Announce
<1>5. ASSUME market # NoPolicy, market' # NoPolicy, execute_oracle_rotation
      PROVE  Rotation!TakeEffect
  <2>1. /\ market'.pending_oracle = NoKey
        /\ market'.oracle = market.pending_oracle
        /\ now' >= market.pending_since + ORACLE_ROTATION_NOTICE_SECONDS
    BY <1>1, <1>5, PolicyAssumption
       DEF execute_oracle_rotation, TInv, PTypeOK, MarketRecord
  <2> QED BY <1>5, <2>1 DEF execute_oracle_rotation, Rotation!TakeEffect
<1>6. ASSUME market # NoPolicy, market' # NoPolicy, NEW x \in Volume, report_volume(x)
      PROVE  Rotation!Wait
  <2>1. /\ market'.oracle = market.oracle
        /\ market'.pending_oracle = market.pending_oracle
        /\ market'.pending_since = market.pending_since
    BY <1>1, <1>6 DEF report_volume, TInv, PTypeOK, MarketRecord
  <2> QED BY <1>6, <2>1 DEF Rotation!Wait
<1>7. TInv'
  BY PStep DEF PInv, WindowInv, BInv
<1>8. \/ UNCHANGED market
      \/ \E k \in Key, rule \in Rule : open_policy(k, rule)
      \/ /\ policy # NoPolicy /\ UNCHANGED policy
         /\ \/ \E x \in Volume : report_volume(x)
            \/ \E k \in Key : propose_oracle(k)
            \/ execute_oracle_rotation
  BY <1>1, NextCases DEF deposit, approve, BeneficiaryRelease, release_beneficiary,
     PurposeRelease, release_purpose, report_volume, propose_oracle,
     execute_oracle_rotation, TInv, PolicyFirst
<1> QED
  BY <1>1, <1>2, <1>3, <1>4, <1>5, <1>6, <1>7, <1>8
     DEF TInv, PolicyFirst, open_policy, Rotation!Next

(* Whoever proposes and whenever, the oracle only becomes a key that was   *)
(* announced, by name, a whole notice before.                              *)
THEOREM RotationsNoticed == Spec => RotationNoticed
<1>1. PInv /\ [Next]_vars => [Rotation!Next]_(Rotation!noticeVars)
  BY RotationStep
<1> QED BY <1>1, RotationInit, PolicyInvariant, PTL DEF Spec, RotationNoticed,
           Rotation!Spec

-----------------------------------------------------------------------------
(* Dividing a difference by P when P divides what is taken off.            *)
LEMMA DivisionShift ==
    ASSUME NEW a \in Int, NEW b \in Int, NEW P \in Nat \ {0}, b % P = 0
    PROVE  /\ b \div P \in Int
           /\ (a - b) \div P = a \div P - b \div P
           /\ a >= b => a \div P >= b \div P
<1> DEFINE q == a \div P
           r == a % P
           k == b \div P
<1>1. /\ q \in Int /\ k \in Int /\ r \in Nat /\ r < P
      /\ a = P * q + r /\ b = P * k
  OBVIOUS
<1>2. a - b = P * (q - k) + r
  BY <1>1
<1>3. (a - b) \div P = q - k
  BY <1>1, <1>2
<1>4. ASSUME a >= b PROVE q >= k
  <2>1. SUFFICES ASSUME q + 1 <= k PROVE FALSE
    BY <1>1
  <2>2. P * (q + 1) <= P * k
    BY <1>1, <2>1
  <2> QED BY <1>1, <1>4, <2>2
<1> QED BY <1>1, <1>3, <1>4

-----------------------------------------------------------------------------
(***************************************************************************)
(* The schedule of one beneficiary.                                        *)
(***************************************************************************)

(* A vault that has released nothing is still in its first window.         *)
FreshVaults ==
    \A v \in Open : vault[v].released_total = 0 =>
        vault[v].released_this_period = 0 /\ vault[v].current_period_index = 0

SInv == PInv /\ FreshVaults

LEMMA FreshStep == SInv /\ [Next]_vars => SInv'
<1> SUFFICES ASSUME SInv, [Next]_vars PROVE FreshVaults'
  BY PStep DEF SInv
<1>1. BInv /\ TInv
  BY DEF SInv, PInv, WindowInv, BInv
<1>2. CASE UNCHANGED vault
  BY <1>2 DEF SInv, FreshVaults, Open
<1>3. ASSUME NEW v \in Vault, NEW n \in Amount, NEW bps \in Bps,
             NEW cliff \in Cliff, deposit(v, n, bps, cliff)
      PROVE  FreshVaults'
  <2>1. /\ vault' = [vault EXCEPT ![v] = vault'[v]]
        /\ vault'[v].released_this_period = 0
        /\ vault'[v].current_period_index = 0
    BY <1>1, <1>3 DEF deposit, TInv, PTypeOK
  <2> QED BY <1>1, <2>1 DEF SInv, FreshVaults, Open, TInv, PTypeOK
<1>4. ASSUME NEW v \in Vault, NEW n, Debited(v, n) PROVE FreshVaults'
  <2>1. /\ vault' = [vault EXCEPT ![v] = vault'[v]]
        /\ vault'[v].released_total # 0
    <3>1. /\ vault[v] \in VaultRecord /\ vault'[v] \in VaultRecord /\ n \in Nat \ {0}
          /\ vault' = [vault EXCEPT ![v] = vault'[v]]
          /\ vault'[v] = [vault[v] EXCEPT
               !.current_period_index = later(vault[v].current_period_index, period_index),
               !.released_this_period = carried(vault[v]) + n,
               !.released_total = vault[v].released_total + n]
      BY <1>1, <1>4, DebitEffect DEF Debited
    <3>2. vault'[v].released_total = vault[v].released_total + n
      BY <3>1 DEF VaultRecord
    <3>3. vault[v].released_total \in Nat
      BY <3>1 DEF VaultRecord
    <3> QED BY <3>1, <3>2, <3>3
  <2> QED BY <1>1, <2>1 DEF SInv, FreshVaults, Open, TInv, PTypeOK
<1>5. UNCHANGED vault
        \/ (\E v \in Vault, n \in Amount, bps \in Bps, cliff \in Cliff :
              deposit(v, n, bps, cliff))
        \/ \E v \in Vault, n \in 1..END : Debited(v, n)
  BY <1>1, NextCases, ReleasesDebit DEF BInv, ApprovalKeys, open_policy, approve,
     report_volume, propose_oracle, execute_oracle_rotation
<1> QED BY <1>2, <1>3, <1>4, <1>5

THEOREM ScheduleInvariant == Spec => []SInv
<1>1. Init => SInv
  BY PInit DEF Init, SInv, FreshVaults, Open
<1> QED BY <1>1, FreshStep, PTL DEF Spec

-----------------------------------------------------------------------------
LEMMA SingleInit ==
    ASSUME NEW v \in Vault, Init PROVE Single(v)!Init
BY DEF Init, Single!Init, as_single_vault, aligned, NoVault, Single!NoVault

(* Nothing that leaves a vault and the opening of its policy alone is seen. *)
LEMMA SingleUntouched ==
    ASSUME NEW v \in Vault, now' \in Int, vault'[v] = vault[v],
           vault[v] = NoVault \/ policy'.genesis_ts = policy.genesis_ts
    PROVE  [Single(v)!Next]_(Single(v)!vaultVars)
<1>1. as_single_vault(v)' = as_single_vault(v)
  BY DEF as_single_vault, aligned, cliff_window
<1> QED BY <1>1 DEF Single!Next, Single!ClockMoves

LEMMA SingleDeposit ==
    ASSUME SInv, NEW v \in Vault \ Purpose, NEW n \in Amount, NEW bps \in Bps,
           NEW cliff \in Cliff, deposit(v, n, bps, cliff)
    PROVE  [Single(v)!Next]_(Single(v)!vaultVars)
<1>1. /\ vault[v] = NoVault /\ now' = now
      /\ vault'[v] = [deposited_amount |-> n, monthly_cap |-> monthly_cap(n, bps),
                      released_total |-> 0, released_this_period |-> 0,
                      current_period_index |-> 0, cliff_end_ts |-> now + cliff]
  BY DEF deposit, SInv, PInv, WindowInv, BInv, TInv, PTypeOK
<1>2. as_single_vault(v) = NoVault
  BY <1>1 DEF as_single_vault, aligned
<1>3. as_single_vault(v)' = NoVault \/ as_single_vault(v)' = vault'[v]
  BY <1>1 DEF as_single_vault
<1>4. CASE as_single_vault(v)' = NoVault
  BY <1>1, <1>2, <1>4 DEF Single!vaultVars
<1>5. CASE as_single_vault(v)' = vault'[v]
  <2>1. Single(v)!deposit(n, bps, cliff)
    BY <1>1, <1>2, <1>5 DEF Single!deposit, Single!NoVault, NoVault, deposit,
       cliff_allowed
  <2> QED BY <2>1 DEF Single!Next
<1> QED BY <1>3, <1>4, <1>5

LEMMA SingleRelease ==
    ASSUME SInv, NEW v \in Vault, NEW n \in 1..END, BeneficiaryRelease(v, n)
    PROVE  [Single(v)!Next]_(Single(v)!vaultVars)
<1> DEFINE w == vault[v]
           k == cliff_window(v)
           p == period_index
           s == as_single_vault(v)
           i == Single(v)!period_index
<1>1. TInv /\ Debited(v, n)
  BY ReleasesDebit DEF SInv, PInv, WindowInv, BInv
<1>2. /\ policy \in PolicyRecord
      /\ policy'.genesis_ts = policy.genesis_ts
      /\ p \in Nat /\ n \in Nat \ {0}
      /\ w \in VaultRecord /\ vault'[v] \in VaultRecord
      /\ vault'[v] = [w EXCEPT
           !.current_period_index = later(w.current_period_index, p),
           !.released_this_period = carried(w) + n,
           !.released_total = w.released_total + n]
      /\ now \in Int /\ now' = now /\ now >= w.cliff_end_ts
      /\ w # NoVault /\ vault'[v] # NoVault
  BY <1>1, DebitEffect, Absent
     DEF TInv, PTypeOK, Debited, BeneficiaryRelease, release_beneficiary, cliff_over
<1>3. /\ vault'[v].cliff_end_ts = w.cliff_end_ts
      /\ vault'[v].released_total = w.released_total + n
      /\ vault'[v].released_total # 0
  BY <1>2 DEF VaultRecord
<1>4. CASE ~ aligned(v)
  <2>1. ~ aligned(v)' /\ UNCHANGED now
    BY <1>2, <1>3, <1>4 DEF aligned
  <2> QED BY <1>4, <2>1 DEF as_single_vault, Single!vaultVars
<1>5. CASE aligned(v)
  <2>1. /\ aligned(v)'
        /\ as_single_vault(v)' = [vault'[v] EXCEPT !.current_period_index = @ - k]
    BY <1>2, <1>3, <1>5 DEF aligned, as_single_vault, cliff_window
  <2>2. s = IF w.released_total = 0 THEN w
            ELSE [w EXCEPT !.current_period_index = w.current_period_index - k]
    BY <1>5 DEF as_single_vault
  <2>3. k \in Int /\ p >= k /\ i = p - k
    <3>1. /\ s.cliff_end_ts = w.cliff_end_ts
      BY <1>2, <2>2 DEF VaultRecord
    <3>2. /\ now - policy.genesis_ts \in Int
          /\ w.cliff_end_ts - policy.genesis_ts \in Int
          /\ (w.cliff_end_ts - policy.genesis_ts) % PERIOD_SECONDS = 0
          /\ now - w.cliff_end_ts
               = (now - policy.genesis_ts) - (w.cliff_end_ts - policy.genesis_ts)
          /\ now - policy.genesis_ts >= w.cliff_end_ts - policy.genesis_ts
      BY <1>2, <1>5 DEF aligned, VaultRecord, PolicyRecord
    <3>3. i = (now - w.cliff_end_ts) \div PERIOD_SECONDS
      BY <3>1 DEF Single!period_index
    <3>4. PICK a \in Int, b \in Int :
             a = now - policy.genesis_ts /\ b = w.cliff_end_ts - policy.genesis_ts
      BY <3>2
    <3>5. /\ b \div PERIOD_SECONDS \in Int
          /\ (a - b) \div PERIOD_SECONDS = a \div PERIOD_SECONDS - b \div PERIOD_SECONDS
          /\ a \div PERIOD_SECONDS >= b \div PERIOD_SECONDS
      <4> HIDE DEF w
      <4>1. b % PERIOD_SECONDS = 0 /\ a >= b /\ PERIOD_SECONDS \in Nat \ {0}
        BY <3>2, <3>4, ConstantTypes
      <4> QED BY <4>1, DivisionShift
    <3>6. /\ k = b \div PERIOD_SECONDS /\ p = a \div PERIOD_SECONDS
          /\ i = (a - b) \div PERIOD_SECONDS
      BY <3>2, <3>3, <3>4 DEF cliff_window, period_index
    <3> QED BY <3>5, <3>6
  <2>4. /\ s.released_this_period = w.released_this_period
        /\ s.released_total = w.released_total
        /\ s.deposited_amount = w.deposited_amount
        /\ s.monthly_cap = w.monthly_cap
        /\ s.cliff_end_ts = w.cliff_end_ts
        /\ s # NoVault
        /\ s.current_period_index = IF w.released_total = 0 THEN 0
                                    ELSE w.current_period_index - k
    <3>1. w.released_total = 0 => w.current_period_index = 0
      BY <1>2 DEF SInv, FreshVaults, Open
    <3> QED BY <1>2, <2>2, <2>3, <3>1 DEF VaultRecord, NoVault
  <2>5. Single(v)!released_so_far = carried(w)
    <3>1. CASE w.released_total = 0
      <4>1. w.released_this_period = 0
        BY <1>2, <3>1 DEF SInv, FreshVaults, Open
      <4> QED BY <2>4, <4>1 DEF Single!released_so_far, carried
    <3>2. CASE w.released_total # 0
      <4>1. i > s.current_period_index <=> p > w.current_period_index
        BY <1>2, <2>3, <2>4, <3>2 DEF VaultRecord
      <4> QED BY <2>4, <4>1 DEF Single!released_so_far, carried
    <3> QED BY <3>1, <3>2
  <2>6. Single(v)!later(s.current_period_index, i)
          = later(w.current_period_index, p) - k
    <3>1. w.released_total = 0 => w.current_period_index = 0
      BY <1>2 DEF SInv, FreshVaults, Open
    <3> QED BY <1>2, <2>3, <2>4, <3>1 DEF Single!later, later, VaultRecord
  <2>7. as_single_vault(v)' = [s EXCEPT
          !.current_period_index = Single(v)!later(s.current_period_index, i),
          !.released_this_period = Single(v)!released_so_far + n,
          !.released_total = s.released_total + n]
    <3>1. as_single_vault(v)' = [w EXCEPT
            !.current_period_index = later(w.current_period_index, p) - k,
            !.released_this_period = carried(w) + n,
            !.released_total = w.released_total + n]
      BY <1>2, <2>1 DEF VaultRecord
    <3>2. [s EXCEPT
            !.current_period_index = later(w.current_period_index, p) - k,
            !.released_this_period = carried(w) + n,
            !.released_total = w.released_total + n]
          = [w EXCEPT
            !.current_period_index = later(w.current_period_index, p) - k,
            !.released_this_period = carried(w) + n,
            !.released_total = w.released_total + n]
      BY <1>2, <2>2 DEF VaultRecord
    <3> QED BY <2>4, <2>5, <2>6, <3>1, <3>2
  <2>8. Single(v)!release(n)
    <3>1. /\ n > 0 /\ carried(w) + n <= w.monthly_cap
          /\ w.released_total + n <= w.deposited_amount
      BY <1>1 DEF Debited, apply_release
    <3> QED BY <1>2, <2>4, <2>5, <2>7, <3>1 DEF Single!release, Single!NoVault, NoVault
  <2> QED BY <2>8 DEF Single!Next
<1> QED BY <1>4, <1>5

LEMMA SingleStep ==
    ASSUME SInv, [Next]_vars, NEW v \in Vault \ Purpose
    PROVE  [Single(v)!Next]_(Single(v)!vaultVars)
<1>1. BInv /\ TInv /\ now \in Int
  BY DEF SInv, PInv, WindowInv, BInv, TInv, PTypeOK
<1>2. CASE UNCHANGED <<policy, vault>> /\ now' \in Int
  BY <1>2, SingleUntouched
<1>3. ASSUME NEW k \in Key, NEW rule \in Rule, open_policy(k, rule)
      PROVE  [Single(v)!Next]_(Single(v)!vaultVars)
  <2>1. vault[v] = NoVault /\ vault'[v] = vault[v] /\ now' \in Int
    BY <1>1, <1>3 DEF open_policy, TInv, PolicyFirst
  <2> QED BY <2>1, SingleUntouched
<1>4. ASSUME NEW u \in Vault, NEW n \in Amount, NEW bps \in Bps, NEW cliff \in Cliff,
             deposit(u, n, bps, cliff)
      PROVE  [Single(v)!Next]_(Single(v)!vaultVars)
  <2>1. CASE u = v
    BY <1>4, <2>1, SingleDeposit
  <2>2. CASE u # v
    <3>1. vault'[v] = vault[v] /\ now' \in Int
          /\ policy'.genesis_ts = policy.genesis_ts
      BY <1>1, <1>4, <2>2 DEF deposit, TInv, PTypeOK, PolicyRecord
    <3> QED BY <3>1, SingleUntouched
  <2> QED BY <2>1, <2>2
<1>5. ASSUME NEW u \in Vault, NEW n, Debited(u, n), u # v
      PROVE  [Single(v)!Next]_(Single(v)!vaultVars)
  <2>1. vault'[v] = vault[v] /\ now' \in Int /\ policy'.genesis_ts = policy.genesis_ts
    BY <1>1, <1>5, DebitEffect DEF Debited, TInv, PTypeOK
  <2> QED BY <2>1, SingleUntouched
<1>6. ASSUME NEW u \in Vault, NEW n \in 1..END, BeneficiaryRelease(u, n)
      PROVE  [Single(v)!Next]_(Single(v)!vaultVars)
  BY <1>1, <1>5, <1>6, ReleasesDebit, SingleRelease
<1>7. ASSUME NEW u \in Vault, NEW n \in 1..END, NEW a, PurposeRelease(u, a, n)
      PROVE  [Single(v)!Next]_(Single(v)!vaultVars)
  <2>1. Debited(u, n) /\ u # v
    BY <1>1, <1>7, PurposeTypes DEF PurposeRelease, release_purpose
  <2> QED BY <1>5, <2>1
<1>8. (\E x \in Volume : report_volume(x)) \/ (\E k \in Key : propose_oracle(k))
        \/ execute_oracle_rotation
        \/ (\E u \in Vault, p \in NeedPeriod, need \in Need : approve(u, p, need))
      => UNCHANGED <<policy, vault>> /\ now' \in Int
  BY <1>1 DEF report_volume, propose_oracle, execute_oracle_rotation, approve
<1> QED BY <1>1, <1>2, <1>3, <1>4, <1>6, <1>7, <1>8, NextCases

(* A beneficiary whose cliff ends on a window boundary runs the program of *)
(* a single vault, whatever shares its window: other vaults, purpose       *)
(* payments, the oracle, the floor and the clock only ever withhold.       *)
THEOREM SingleVaultKept == Spec => KeepsSingleVaultSchedule
<1>1. SInv /\ [Next]_vars =>
        [\A v \in Vault \ Purpose : [Single(v)!Next]_(Single(v)!vaultVars)]_vars
  BY SingleStep
<1>2. Init => \A v \in Vault \ Purpose : Single(v)!Init
  BY SingleInit
<1> QED BY <1>1, <1>2, ScheduleInvariant, PTL DEF Spec, KeepsSingleVaultSchedule
====
