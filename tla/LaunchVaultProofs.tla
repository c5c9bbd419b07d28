-------------------------- MODULE LaunchVaultProofs --------------------------
(***************************************************************************)
(* Proofs about the whole program: it implements the components it is      *)
(* composed of, so that what is proved of them holds of it; releases reach *)
(* only rightful payees and rest on the oracle in office                   *)
(* (LaunchGovernance); and the program as a whole keeps the promise of     *)
(* LaunchEscrow, with the ceiling on payments taken from LaunchCapacity    *)
(* and the custody accounts from here.                                     *)
(***************************************************************************)
EXTENDS LaunchVault, LaunchAuthorityProofs, LaunchCapacityProofs

(* Balances and owners of token accounts, and the totals released: what    *)
(* the step simulation needs to know of the state.                         *)
LedgerTypeOK ==
    /\ token \in [TokenAccount -> TokenRecord]
    /\ released_total \in [Role -> Nat]

(* The custody account of a role is a token account of the mint.           *)
LEMMA CustodyType ==
    \A role \in Role : /\ vault_token[role] \in TokenAccount
                       /\ amount[role] \in Nat
BY TokenAssumption, CapacityAssumption DEF Role, FOUNDER, TREASURY

(* Moving tokens between two accounts keeps every balance a natural.       *)
LEMMA TransferType ==
    ASSUME token \in [TokenAccount -> TokenRecord],
           NEW from \in TokenAccount, NEW to \in TokenAccount, NEW n \in Nat,
           transfer(from, to, n)
    PROVE  /\ token' \in [TokenAccount -> TokenRecord]
           /\ token'[to].amount = token[to].amount + n
<1>1. token[from] \in TokenRecord /\ token[to] \in TokenRecord
  OBVIOUS
<1>2. token' = [token EXCEPT ![from].amount = @ - n, ![to].amount = @ + n]
      /\ token[from].amount >= n /\ from # to
  BY DEF transfer
<1>3. token'[to].amount = token[to].amount + n
  BY <1>1, <1>2 DEF TokenRecord
<1>4. token' \in [TokenAccount -> TokenRecord]
  <2> SUFFICES ASSUME NEW a \in TokenAccount PROVE token'[a] \in TokenRecord
    BY <1>2
  <2>1. token[a] \in TokenRecord
    OBVIOUS
  <2>2. CASE a = from
    BY <1>1, <1>2, <2>2 DEF TokenRecord
  <2>3. CASE a = to
    BY <1>1, <1>2, <2>3 DEF TokenRecord
  <2>4. CASE a # from /\ a # to
    BY <1>2, <2>1, <2>4
  <2> QED
    BY <2>2, <2>3, <2>4
<1> QED
  BY <1>3, <1>4

(* Releases are the only steps that move released_total.                   *)
LEMMA OnlyReleaseSpends ==
    ASSUME [VNext]_vars
    PROVE  \/ UNCHANGED released_total
           \/ \E t \in Instant, role \in Role, n \in ReleaseAmount,
                 destination \in TokenAccount : Release(t, role, n, destination)
<1>1. CASE UNCHANGED vars
  BY <1>1 DEF vars
<1>2. ASSUME NEW t \in Instant, Lifecycle(t)
      PROVE  UNCHANGED released_total
  BY <1>2 DEF Lifecycle, Deposit, OpenVault, Arm, Activate, Cancel,
              ExpireUnarmed, Refund, unchanged_but_state, ledgerVars
<1>3. ASSUME NEW t \in Instant, Budget(t)
      PROVE  \/ UNCHANGED released_total
             \/ \E role \in Role, n \in ReleaseAmount,
                   destination \in TokenAccount : Release(t, role, n, destination)
  BY <1>3 DEF Budget, ReportCapacity, ApproveTreasury, ledgerVars
<1>4. ASSUME NEW t \in Instant, GovernanceHandlers(t)
      PROVE  UNCHANGED released_total
  BY <1>4 DEF GovernanceHandlers, ledgerVars
<1>5. CASE WithdrawalHandlers
  BY <1>5 DEF WithdrawalHandlers, ledgerVars
<1>6. CASE TokenProgram
  BY <1>6 DEF TokenProgram, Donate, SetAuthority, ledgerVars
<1> QED
  BY <1>1, <1>2, <1>3, <1>4, <1>5, <1>6 DEF VNext

(* A release spends exactly n of its own pool.                             *)
LEMMA ReleaseSpends ==
    ASSUME LedgerTypeOK, NEW t \in Instant, NEW role \in Role,
           NEW n \in ReleaseAmount, NEW destination \in TokenAccount,
           Release(t, role, n, destination)
    PROVE  /\ n \in Nat /\ n > 0
           /\ released_total' = [released_total EXCEPT ![role] = @ + n]
<1>1. released_total' = [released_total EXCEPT ![role] = @ + n]
  BY DEF Release, Consume, consume, commit
<1>2. n > 0 /\ n \in Nat
  BY CapacityAssumption DEF Release, Consume
<1> QED
  BY <1>1, <1>2

(* Every step keeps balances and totals in range.                          *)
LEMMA LedgerStep ==
    ASSUME LedgerTypeOK, [VNext]_vars
    PROVE  LedgerTypeOK'
<1> USE DEF LedgerTypeOK
<1>1. released_total' \in [Role -> Nat]
  BY OnlyReleaseSpends, ReleaseSpends
<1>2. ASSUME UNCHANGED token
      PROVE  token' \in [TokenAccount -> TokenRecord]
  BY <1>2
<1>3. ASSUME NEW t \in Instant, Lifecycle(t)
      PROVE  token' \in [TokenAccount -> TokenRecord]
  <2>1. ASSUME NEW role \in Role, NEW source \in Wallet, Deposit(t, role, source)
        PROVE  token' \in [TokenAccount -> TokenRecord]
    <3>1. /\ source \in TokenAccount /\ vault_token[role] \in TokenAccount
          /\ amount[role] \in Nat /\ source # vault_token[role]
      BY CustodyType DEF Wallet, CustodyAccount
    <3>2. /\ token' = [token EXCEPT ![source].amount = @ - amount[role],
                                    ![vault_token[role]].amount = @ + amount[role]]
          /\ token[source].amount >= amount[role]
      BY <2>1 DEF Deposit
    <3> SUFFICES ASSUME NEW a \in TokenAccount PROVE token'[a] \in TokenRecord
      BY <3>2
    <3>3. /\ token[a] \in TokenRecord /\ token[source] \in TokenRecord
          /\ token[vault_token[role]] \in TokenRecord
      BY <3>1
    <3>4. CASE a = source
      BY <3>1, <3>2, <3>3, <3>4 DEF TokenRecord
    <3>5. CASE a = vault_token[role]
      BY <3>1, <3>2, <3>3, <3>5 DEF TokenRecord
    <3>6. CASE a # source /\ a # vault_token[role]
      BY <3>2, <3>3, <3>6
    <3> QED
      BY <3>4, <3>5, <3>6
  <2>2. ASSUME NEW role \in Role, NEW destination \in Wallet,
               Refund(t, role, destination)
        PROVE  token' \in [TokenAccount -> TokenRecord]
    <3>1. /\ vault_token[role] \in TokenAccount /\ destination \in TokenAccount
          /\ in_custody(role) \in Nat
      BY CustodyType DEF Wallet, in_custody, TokenRecord
    <3>2. transfer(vault_token[role], destination, in_custody(role))
      BY <2>2 DEF Refund
    <3> QED
      BY <3>1, <3>2, TransferType
  <2>3. CASE Arm(t) \/ Activate(t) \/ Cancel(t) \/ ExpireUnarmed(t)
    BY <1>2, <2>3 DEF Arm, Activate, Cancel, ExpireUnarmed,
                      unchanged_but_state, vaultVars
  <2> QED
    BY <1>3, <2>1, <2>2, <2>3 DEF Lifecycle
<1>4. ASSUME NEW t \in Instant, Budget(t)
      PROVE  token' \in [TokenAccount -> TokenRecord]
  <2>1. ASSUME NEW role \in Role, NEW n \in ReleaseAmount,
               NEW destination \in TokenAccount, Release(t, role, n, destination)
        PROVE  token' \in [TokenAccount -> TokenRecord]
    <3>1. vault_token[role] \in TokenAccount /\ n \in Nat
      BY CustodyType, CapacityAssumption
    <3>2. transfer(vault_token[role], destination, n)
      BY <2>1 DEF Release
    <3> QED
      BY <3>1, <3>2, TransferType
  <2>2. CASE \A role \in Role, n \in ReleaseAmount, destination \in TokenAccount :
               ~Release(t, role, n, destination)
    BY <1>2, <1>4, <2>2 DEF Budget, ReportCapacity, ApproveTreasury, vaultVars
  <2> QED
    BY <2>1, <2>2
<1>5. ASSUME NEW t \in Instant, GovernanceHandlers(t)
      PROVE  token' \in [TokenAccount -> TokenRecord]
  BY <1>2, <1>5 DEF GovernanceHandlers, vaultVars
<1>6. ASSUME WithdrawalHandlers
      PROVE  token' \in [TokenAccount -> TokenRecord]
  <2>1. UNCHANGED token
    BY <1>6 DEF WithdrawalHandlers, vaultVars
  <2> QED
    BY <1>2, <2>1
<1>7. ASSUME TokenProgram
      PROVE  token' \in [TokenAccount -> TokenRecord]
  <2>1. ASSUME NEW from \in Wallet, NEW role \in Role, NEW n \in DustAmount,
               Donate(from, role, n)
        PROVE  token' \in [TokenAccount -> TokenRecord]
    <3>1. /\ from \in TokenAccount /\ vault_token[role] \in TokenAccount
          /\ n \in Nat
      BY CustodyType, TokenAssumption DEF Wallet
    <3>2. transfer(from, vault_token[role], n)
      BY <2>1 DEF Donate
    <3> QED
      BY <3>1, <3>2, TransferType
  <2>2. ASSUME NEW h \in HandOver, SetAuthority(h[1], h[2])
        PROVE  token' \in [TokenAccount -> TokenRecord]
    <3>1. h[1] \in TokenAccount /\ h[2] \in Address
      BY TokenAssumption DEF Address
    <3>2. token' = [token EXCEPT ![h[1]].owner = h[2]]
      BY <2>2 DEF SetAuthority
    <3> SUFFICES ASSUME NEW a \in TokenAccount PROVE token'[a] \in TokenRecord
      BY <3>2
    <3>3. token[a] \in TokenRecord
      OBVIOUS
    <3>4. token'[a] = IF a = h[1] THEN [token[a] EXCEPT !.owner = h[2]] ELSE token[a]
      BY <3>2
    <3> QED
      BY <3>1, <3>3, <3>4 DEF TokenRecord
  <2>3. CASE \E from \in Wallet, role \in Role, n \in DustAmount :
               Donate(from, role, n)
    BY <2>1, <2>3
  <2>4. CASE \E h \in HandOver : SetAuthority(h[1], h[2])
    BY <2>2, <2>4
  <2> QED
    BY <1>7, <2>3, <2>4 DEF TokenProgram
<1>8. ASSUME UNCHANGED vars
      PROVE  token' \in [TokenAccount -> TokenRecord]
  BY <1>2, <1>8 DEF vars
<1>9. token' \in [TokenAccount -> TokenRecord]
  BY <1>3, <1>4, <1>5, <1>6, <1>7, <1>8 DEF VNext
<1> QED
  BY <1>1, <1>9

LEMMA LedgerTypeCorrect == VSpec => []LedgerTypeOK
<1>1. VInit => LedgerTypeOK
  BY TokenAssumption DEF VInit, CInit, LedgerTypeOK
<1>2. LedgerTypeOK /\ [VNext]_vars => LedgerTypeOK'
  BY LedgerStep
<1> QED
  BY <1>1, <1>2, PTL DEF VSpec

-----------------------------------------------------------------------------
(***************************************************************************)
(* The program implements the components it is composed of.                *)
(***************************************************************************)

(* What funding, lifecycle and refunds look like to every component.       *)
LEMMA LifecycleSeen ==
    ASSUME NEW t \in Instant, Lifecycle(t)
    PROVE  /\ tick(t)
           /\ LifecycleMove \/ UNCHANGED state
           /\ UNCHANGED <<withdrawalVars, governanceVars>>
           /\ \/ \E role \in Role : OpenVault(t, role)
              \/ UNCHANGED <<ledgerVars, report_capacity>>
BY DEF Lifecycle, Deposit, OpenVault, Arm, Activate, Cancel, ExpireUnarmed,
       Refund, unchanged_but_state, LifecycleMove, PREPARED, ARMED, ACTIVE,
       CANCELLED

(* lib.rs treats the withdrawal component as LaunchWithdrawal assumes.     *)
LEMMA StepOfWithdrawal ==
    ASSUME LedgerTypeOK, [VNext]_vars
    PROVE  [WNext]_wvars
<1>1. CASE UNCHANGED wvars
  BY <1>1
<1>2. ASSUME NEW t \in Instant, Lifecycle(t)
      PROVE  OtherHandler(t)
  BY <1>2, LifecycleSeen DEF OtherHandler
<1>3. ASSUME NEW t \in Instant, Budget(t)
      PROVE  OtherHandler(t) \/ \E k \in Address : RecordRecipient(t, k)
  <2>1. ASSUME NEW p \in PolicyPeriod, NEW need \in Need,
               NEW recipient \in TokenAccount,
               ApproveTreasury(t, p, need, recipient)
        PROVE  \E k \in Address : RecordRecipient(t, k)
    <3>1. token[recipient].owner \in Address
      BY DEF LedgerTypeOK, TokenRecord
    <3> QED
      BY <2>1, <3>1 DEF ApproveTreasury
  <2>2. ASSUME NEW role \in Role, NEW n \in ReleaseAmount,
               NEW destination \in TokenAccount, Release(t, role, n, destination)
        PROVE  OtherHandler(t)
    BY <2>2 DEF Release, Consume, OtherHandler
  <2>3. ASSUME NEW signer \in Key, NEW c \in ReportedCapacity,
               NEW observed_at \in Instant, NEW sequence \in ReportSequence,
               NEW epoch \in Counter,
               ReportCapacity(t, signer, c, observed_at, sequence, epoch)
        PROVE  OtherHandler(t)
    BY <2>3 DEF ReportCapacity, AcceptReport, OtherHandler
  <2> QED
    BY <1>3, <2>1, <2>2, <2>3 DEF Budget
<1>4. ASSUME NEW t \in Instant, GovernanceHandlers(t)
      PROVE  OtherHandler(t)
  BY <1>4 DEF GovernanceHandlers, ProposeChange, CancelChange, ExecuteChange,
              OtherHandler
<1>5. ASSUME WithdrawalHandlers
      PROVE  WNext
  BY <1>5 DEF WithdrawalHandlers, WNext
<1>6. ASSUME TokenProgram
      PROVE  UNCHANGED wvars
  BY <1>6 DEF TokenProgram, Donate, SetAuthority
<1>7. CASE UNCHANGED vars
  BY <1>7 DEF vars, wvars
<1> QED
  BY <1>2, <1>3, <1>4, <1>5, <1>6, <1>7 DEF VNext, WNext

(* lib.rs treats governance as LaunchGovernance assumes.                   *)
LEMMA StepOfGovernance ==
    ASSUME [VNext]_vars
    PROVE  [GNext]_gvars
<1>1. ASSUME NEW t \in Instant, Lifecycle(t)
      PROVE  OtherHandlerG(t)
  BY <1>1, LifecycleSeen DEF OtherHandlerG
<1>2. ASSUME NEW t \in Instant, Budget(t)
      PROVE  \/ OtherHandlerG(t)
             \/ \E signer \in Key, observed_at \in Instant,
                   sequence \in ReportSequence, epoch \in Counter :
                   AcceptReport(t, signer, observed_at, sequence, epoch)
  <2>1. ASSUME NEW p \in PolicyPeriod, NEW need \in Need,
               NEW recipient \in TokenAccount,
               ApproveTreasury(t, p, need, recipient)
        PROVE  OtherHandlerG(t)
    BY <2>1 DEF ApproveTreasury, RecordRecipient, OtherHandlerG
  <2>2. ASSUME NEW role \in Role, NEW n \in ReleaseAmount,
               NEW destination \in TokenAccount, Release(t, role, n, destination)
        PROVE  OtherHandlerG(t)
    BY <2>2 DEF Release, Consume, OtherHandlerG
  <2> QED
    BY <1>2, <2>1, <2>2 DEF Budget, ReportCapacity
<1>3. ASSUME NEW t \in Instant, GovernanceHandlers(t)
      PROVE  GNext
  BY <1>3 DEF GovernanceHandlers, GNext
<1>4. ASSUME WithdrawalHandlers
      PROVE  GNext \/ UNCHANGED gvars
  <2>1. ASSUME NEW k, PrepareWithdrawalKey(k)
        PROVE  UNCHANGED <<state, last_action_at>>
    BY <2>1 DEF PrepareWithdrawalKey
  <2>2. ASSUME NEW t \in Instant, NEW role \in Role, NEW recovery \in BOOLEAN,
               NEW successor \in Key,
               ProposeWithdrawal(t, role, recovery, successor)
        PROVE  tick(t) /\ UNCHANGED state
    BY <2>2 DEF ProposeWithdrawal
  <2>3. ASSUME NEW t \in Instant, NEW q \in proposals,
               ExecuteWithdrawal(t, q) \/ CancelWithdrawal(t, q)
                                       \/ ExpireWithdrawal(t, q)
        PROVE  tick(t) /\ UNCHANGED state
    BY <2>3 DEF ExecuteWithdrawal, CancelWithdrawal, ExpireWithdrawal
  <2>4. UNCHANGED governanceVars
    BY <1>4 DEF WithdrawalHandlers
  <2>5. \/ UNCHANGED <<state, last_action_at>>
        \/ \E t \in Instant : tick(t) /\ UNCHANGED state
    BY <1>4, <2>1, <2>2, <2>3 DEF WithdrawalHandlers
  <2> QED
    BY <2>4, <2>5 DEF GNext, OtherHandlerG, gvars, governanceVars
<1>5. ASSUME TokenProgram
      PROVE  UNCHANGED gvars
  BY <1>5 DEF TokenProgram, Donate, SetAuthority, gvars, governanceVars, wvars
<1>6. CASE UNCHANGED vars
  BY <1>6 DEF vars, gvars
<1> QED
  BY <1>1, <1>2, <1>3, <1>4, <1>5, <1>6 DEF VNext, GNext

(* lib.rs treats the budget as LaunchCapacity assumes.                     *)
LEMMA StepOfCapacity ==
    ASSUME [VNext]_vars
    PROVE  [CNext]_cvars
<1>1. ASSUME NEW t \in Instant, Lifecycle(t)
      PROVE  OtherHandlerC(t) \/ \E role \in Role : OpenVault(t, role)
  BY <1>1, LifecycleSeen DEF OtherHandlerC
<1>2. ASSUME NEW t \in Instant, Budget(t)
      PROVE  CNext
  <2>1. ASSUME NEW p \in PolicyPeriod, NEW need \in Need,
               NEW recipient \in TokenAccount,
               ApproveTreasury(t, p, need, recipient)
        PROVE  OtherHandlerC(t)
    BY <2>1 DEF ApproveTreasury, RecordRecipient, OtherHandlerC
  <2>2. ASSUME NEW role \in Role, NEW n \in ReleaseAmount,
               NEW destination \in TokenAccount, Release(t, role, n, destination)
        PROVE  Consume(t, role, n)
    BY <2>2 DEF Release
  <2>3. ASSUME NEW signer \in Key, NEW c \in ReportedCapacity,
               NEW observed_at \in Instant, NEW sequence \in ReportSequence,
               NEW epoch \in Counter,
               ReportCapacity(t, signer, c, observed_at, sequence, epoch)
        PROVE  SetCapacity(t, c)
    BY <2>3 DEF ReportCapacity, AcceptReport, SetCapacity
  <2> QED
    BY <1>2, <2>1, <2>2, <2>3 DEF Budget, CNext
<1>3. ASSUME NEW t \in Instant, GovernanceHandlers(t)
      PROVE  OtherHandlerC(t)
  BY <1>3 DEF GovernanceHandlers, ProposeChange, CancelChange, ExecuteChange,
              OtherHandlerC
<1>4. ASSUME WithdrawalHandlers
      PROVE  CNext \/ UNCHANGED cvars
  <2>1. ASSUME NEW k, PrepareWithdrawalKey(k)
        PROVE  UNCHANGED <<state, last_action_at>>
    BY <2>1 DEF PrepareWithdrawalKey
  <2>2. ASSUME NEW t \in Instant, NEW role \in Role, NEW recovery \in BOOLEAN,
               NEW successor \in Key,
               ProposeWithdrawal(t, role, recovery, successor)
        PROVE  tick(t) /\ UNCHANGED state
    BY <2>2 DEF ProposeWithdrawal
  <2>3. ASSUME NEW t \in Instant, NEW q \in proposals,
               ExecuteWithdrawal(t, q) \/ CancelWithdrawal(t, q)
                                       \/ ExpireWithdrawal(t, q)
        PROVE  tick(t) /\ UNCHANGED state
    BY <2>3 DEF ExecuteWithdrawal, CancelWithdrawal, ExpireWithdrawal
  <2>4. UNCHANGED <<ledgerVars, report_capacity>>
    BY <1>4 DEF WithdrawalHandlers
  <2>5. \/ UNCHANGED <<state, last_action_at>>
        \/ \E t \in Instant : tick(t) /\ UNCHANGED state
    BY <1>4, <2>1, <2>2, <2>3 DEF WithdrawalHandlers
  <2> QED
    BY <2>4, <2>5 DEF CNext, OtherHandlerC, cvars, ledgerVars
<1>5. ASSUME TokenProgram
      PROVE  UNCHANGED cvars
  BY <1>5 DEF TokenProgram, Donate, SetAuthority, cvars, ledgerVars, wvars
<1>6. CASE UNCHANGED vars
  BY <1>6 DEF vars, cvars
<1> QED
  BY <1>1, <1>2, <1>3, <1>4, <1>5, <1>6 DEF VNext, CNext

(* The program is a common implementation of its three components: what    *)
(* one of them guarantees in its own environment, the program guarantees.  *)
THEOREM ComponentsImplemented == VSpec => ImplementsComponents
<1>1. VInit => WInit /\ GInit /\ CInit
  BY DEF VInit
<1>2. LedgerTypeOK /\ [VNext]_vars => [WNext]_wvars /\ [GNext]_gvars /\ [CNext]_cvars
  BY StepOfWithdrawal, StepOfGovernance, StepOfCapacity
<1> QED
  BY <1>1, <1>2, LedgerTypeCorrect, PTL
  DEF VSpec, ImplementsComponents, WSpec, GSpec, CSpec

(* The withdrawal invariant, and with it NoSelfPayment, of the program.    *)
LEMMA VaultWithdrawalInv == VSpec => []WInv
BY ComponentsImplemented, InductiveInvariant, PTL DEF ImplementsComponents

-----------------------------------------------------------------------------
(***************************************************************************)
(* Releases.                                                               *)
(***************************************************************************)

(* A key that passes eligible_recipient is no insider: the masks of its    *)
(* account stand for the whole history of proposals.                       *)
LEMMA OutsiderCheckSound ==
    ASSUME WInv, NEW k \in Address, eligible_recipient(k)
    PROVE  k \notin KnownInsiders
<1>1. k \notin ConfiguredInsiders
  BY DEF eligible_recipient
<1>2. \A role \in Role : withdrawal[role].current # k
  <2> TAKE role \in Role
  <2>1. owner_for(role) \in ConfiguredInsiders
    BY DEF owner_for, ConfiguredInsiders
  <2> QED
    BY <1>1, <2>1 DEF WInv, CurrentIndexed, eligible_recipient
<1>3. \A q \in proposals :
         q.status \in {PROPOSAL_PENDING, PROPOSAL_EXECUTED} => q.successor # k
  <2> TAKE q \in proposals
  <2>1. q.role \in Role
    BY DEF WInv, WTypeOK, WithdrawalProposal
  <2>2. q.status = PROPOSAL_PENDING => q.successor # k
    BY <2>1 DEF WInv, KeyIndexAgrees, Pending, eligible_recipient
  <2>3. q.status = PROPOSAL_EXECUTED => q.successor # k
    BY <2>1 DEF WInv, KeyIndexAgrees, Executed, eligible_recipient
  <2> QED
    BY <2>2, <2>3
<1> QED
  BY <1>1, <1>2, <1>3 DEF KnownInsiders

(* Whatever happened before, a release moves its exact amount to an        *)
(* account of the current Founder key, or to an approved outsider.         *)
THEOREM ReleasesRightful == VSpec => RightfulPayee
<1> DEFINE Rightful(role) ==
      \E a \in TokenAccount :
         /\ token'[a].amount - token[a].amount
               = released_total'[role] - released_total[role]
         /\ IF role = FOUNDER
            THEN token[a].owner = withdrawal[FOUNDER].current
            ELSE /\ token[a].owner \notin KnownInsiders
                 /\ \E b \in approvals : /\ b.recipient = a
                                         /\ b.recipient_owner = token[a].owner
<1>1. ASSUME LedgerTypeOK, WInv, NEW t \in Instant, NEW r \in Role,
             NEW n \in ReleaseAmount, NEW a \in TokenAccount,
             Release(t, r, n, a), NEW role \in Role,
             released_total'[role] # released_total[role]
      PROVE  Rightful(role)
  <2>1. /\ n \in Nat /\ released_total' = [released_total EXCEPT ![r] = @ + n]
        /\ released_total \in [Role -> Nat]
    BY <1>1, ReleaseSpends DEF LedgerTypeOK
  <2>2. role = r /\ released_total'[role] - released_total[role] = n
    BY <1>1, <2>1
  <2>3. token'[a].amount - token[a].amount = n /\ token[a].owner \in Address
    <3>1. transfer(vault_token[r], a, n) /\ vault_token[r] \in TokenAccount
      BY <1>1, CustodyType DEF Release
    <3>2. token'[a].amount = token[a].amount + n
      BY <1>1, <2>1, <3>1, TransferType DEF LedgerTypeOK
    <3> QED
      BY <1>1, <2>1, <3>2 DEF LedgerTypeOK, TokenRecord
  <2>4. CASE role = FOUNDER
    <3>1. token[a].owner = withdrawal[FOUNDER].current
      BY <1>1, <2>2, <2>4 DEF Release, pays_founder, FOUNDER, TREASURY
    <3> QED
      BY <1>1, <2>2, <2>3, <2>4, <3>1
  <2>5. CASE role # FOUNDER
    <3>1. pays_approved(t, a, n)
      BY <1>1, <2>2, <2>5 DEF Release
    <3>2. /\ token[a].owner \notin KnownInsiders
          /\ \E b \in approvals : /\ b.recipient = a
                                  /\ b.recipient_owner = token[a].owner
      BY <1>1, <2>3, <3>1, OutsiderCheckSound DEF pays_approved
    <3> QED
      BY <1>1, <2>2, <2>3, <2>5, <3>2
  <2> QED
    BY <2>4, <2>5
<1>2. LedgerTypeOK /\ WInv /\ [VNext]_vars =>
        [\A role \in Role : released_total'[role] # released_total[role]
                              => Rightful(role)]_vars
  BY <1>1, OnlyReleaseSpends
<1> QED
  BY <1>2, LedgerTypeCorrect, VaultWithdrawalInv, PTL DEF VSpec, RightfulPayee

-----------------------------------------------------------------------------
(***************************************************************************)
(* Solvency.                                                               *)
(***************************************************************************)

(* A custody account holds what its pool has not released from its deposit *)
(* on, and everything is deposited before a launch is armed.               *)
Covered(role) == in_custody(role) >= amount[role] - released_total[role]

SolvencyInv ==
    /\ LedgerTypeOK
    /\ state \in LifecycleState
    /\ funded_mask \subseteq Role
    /\ state # CANCELLED => \A role \in funded_mask : Covered(role)
    /\ state \in {ARMED, ACTIVE} => funded_mask = Role
    /\ state # ACTIVE => \A role \in Role : released_total[role] = 0

(* A transfer takes only from its source.                                  *)
LEMMA TransferTakes ==
    ASSUME LedgerTypeOK, NEW from \in TokenAccount, NEW to \in TokenAccount,
           NEW n \in Nat, transfer(from, to, n)
    PROVE  /\ token'[from].amount = token[from].amount - n
           /\ \A a \in TokenAccount :
                 a # from => token'[a].amount >= token[a].amount
<1>1. \A a \in TokenAccount : token[a] \in TokenRecord /\ token[a].amount \in Nat
  BY DEF LedgerTypeOK, TokenRecord
<1>2. /\ token' = [token EXCEPT ![from].amount = @ - n, ![to].amount = @ + n]
      /\ from # to /\ token \in [TokenAccount -> TokenRecord]
  BY DEF transfer, LedgerTypeOK
<1>3. token'[from].amount = token[from].amount - n
  BY <1>1, <1>2 DEF TokenRecord
<1>4. ASSUME NEW a \in TokenAccount, a # from
      PROVE  token'[a].amount >= token[a].amount
  <2>1. CASE a = to
    BY <1>1, <1>2, <1>4, <2>1 DEF TokenRecord
  <2>2. CASE a # to
    BY <1>1, <1>2, <1>4, <2>2
  <2> QED
    BY <2>1, <2>2
<1> QED
  BY <1>3, <1>4

(* Steps that move neither tokens nor counters nor deposits.               *)
LEMMA SolvencyKept ==
    ASSUME SolvencyInv, UNCHANGED <<token, released_total, funded_mask>>,
           \/ UNCHANGED state
           \/ state = PREPARED /\ state' = ARMED /\ funded_mask = Role
           \/ state = ARMED /\ state' = ACTIVE
           \/ state \in {PREPARED, ARMED} /\ state' = CANCELLED
    PROVE  SolvencyInv'
<1>1. LedgerTypeOK' /\ \A role \in Role : Covered(role)' = Covered(role)
  BY DEF SolvencyInv, LedgerTypeOK, Covered, in_custody
<1>2. state' \in LifecycleState
  BY DEF SolvencyInv, LifecycleState
<1> QED
  BY <1>1, <1>2 DEF SolvencyInv, PREPARED, ARMED, ACTIVE, CANCELLED

(* Steps that only add tokens to custody accounts.                         *)
LEMMA CustodyGrows ==
    ASSUME SolvencyInv, LedgerTypeOK',
           UNCHANGED <<state, released_total, funded_mask>>,
           \A role \in Role : in_custody(role)' >= in_custody(role)
    PROVE  SolvencyInv'
<1>1. ASSUME NEW role \in Role, Covered(role)
      PROVE  Covered(role)'
  <2>1. /\ in_custody(role) \in Nat /\ in_custody(role)' \in Nat
        /\ amount[role] \in Nat /\ released_total[role] \in Nat
    BY CustodyType DEF SolvencyInv, LedgerTypeOK, TokenRecord, in_custody
  <2> QED
    BY <1>1, <2>1 DEF Covered
<1> QED
  BY <1>1 DEF SolvencyInv

LEMMA DepositSolvent ==
    ASSUME SolvencyInv, LedgerTypeOK', NEW t \in Instant, NEW r \in Role,
           NEW source \in Wallet, Deposit(t, r, source)
    PROVE  SolvencyInv'
<1>1. /\ state = PREPARED /\ UNCHANGED <<state, released_total>>
      /\ funded_mask' = funded_mask \cup {r}
      /\ token' = [token EXCEPT ![source].amount = @ - amount[r],
                                ![vault_token[r]].amount = @ + amount[r]]
  BY DEF Deposit, OpenVault
<1>2. \A role \in Role : /\ vault_token[role] \in TokenAccount
                         /\ source # vault_token[role] /\ amount[role] \in Nat
                         /\ token[vault_token[role]] \in TokenRecord
                         /\ token[vault_token[role]].amount \in Nat
                         /\ released_total[role] = 0
  BY <1>1, CustodyType
  DEF Wallet, CustodyAccount, SolvencyInv, LedgerTypeOK, TokenRecord,
      PREPARED, ACTIVE
<1>3. token \in [TokenAccount -> TokenRecord] /\ source \in TokenAccount
  BY DEF SolvencyInv, LedgerTypeOK, Wallet
<1>4. token'[vault_token[r]].amount = token[vault_token[r]].amount + amount[r]
  BY <1>1, <1>2, <1>3 DEF TokenRecord
<1>5. Covered(r)'
  BY <1>1, <1>2, <1>4 DEF Covered, in_custody
<1>6. ASSUME NEW role \in Role, role # r PROVE Covered(role)' = Covered(role)
  <2>1. vault_token[role] # vault_token[r]
    BY <1>6, TokenAssumption DEF Role
  <2>2. token'[vault_token[role]] = token[vault_token[role]]
    BY <1>1, <1>2, <1>3, <2>1
  <2> QED
    BY <1>1, <2>2 DEF Covered, in_custody
<1> QED
  BY <1>1, <1>5, <1>6 DEF SolvencyInv, PREPARED, ARMED, ACTIVE, CANCELLED

LEMMA RefundSolvent ==
    ASSUME SolvencyInv, LedgerTypeOK', NEW t \in Instant, NEW r \in Role,
           NEW destination \in Wallet, Refund(t, r, destination)
    PROVE  SolvencyInv'
<1>1. state = CANCELLED /\ UNCHANGED <<state, released_total, funded_mask>>
  BY DEF Refund, ledgerVars
<1> QED
  BY <1>1 DEF SolvencyInv, ARMED, ACTIVE, CANCELLED

LEMMA DonateSolvent ==
    ASSUME SolvencyInv, LedgerTypeOK', NEW from \in Wallet, NEW r \in Role,
           NEW n \in DustAmount, Donate(from, r, n)
    PROVE  SolvencyInv'
<1>1. /\ from \in TokenAccount /\ n \in Nat /\ LedgerTypeOK
      /\ \A role \in Role : /\ vault_token[role] \in TokenAccount
                            /\ from # vault_token[role]
  BY CustodyType, TokenAssumption DEF Wallet, CustodyAccount, SolvencyInv
<1>2. transfer(from, vault_token[r], n)
  BY DEF Donate
<1>3. \A role \in Role : in_custody(role)' >= in_custody(role)
  BY <1>1, <1>2, TransferTakes DEF in_custody
<1>4. UNCHANGED <<state, released_total, funded_mask>>
  BY DEF Donate, wvars, ledgerVars
<1> QED
  BY <1>3, <1>4, CustodyGrows

LEMMA HandOverSolvent ==
    ASSUME SolvencyInv, LedgerTypeOK', NEW a \in Wallet, NEW k,
           SetAuthority(a, k)
    PROVE  SolvencyInv'
<1>1. /\ token' = [token EXCEPT ![a].owner = k]
      /\ UNCHANGED <<state, released_total, funded_mask>>
  BY DEF SetAuthority, wvars, ledgerVars
<1>2. token \in [TokenAccount -> TokenRecord]
  BY DEF SolvencyInv, LedgerTypeOK
<1>3. ASSUME NEW role \in Role
      PROVE  in_custody(role)' >= in_custody(role)
  <2>1. vault_token[role] \in TokenAccount /\ vault_token[role] # a
    BY CustodyType DEF Wallet, CustodyAccount
  <2>2. token'[vault_token[role]] = token[vault_token[role]]
    BY <1>1, <1>2, <2>1
  <2>3. in_custody(role) \in Nat
    BY <1>2, <2>1 DEF in_custody, TokenRecord
  <2> QED
    BY <2>2, <2>3 DEF in_custody
<1> QED
  BY <1>1, <1>3, CustodyGrows

(* A release moves the same amount out of custody and into the total; an   *)
(* account of the other pool can only receive.                             *)
LEMMA ReleaseSolvent ==
    ASSUME SolvencyInv, LedgerTypeOK', NEW t \in Instant, NEW r \in Role,
           NEW n \in ReleaseAmount, NEW destination \in TokenAccount,
           Release(t, r, n, destination)
    PROVE  SolvencyInv'
<1>1. /\ state = ACTIVE /\ UNCHANGED <<state, funded_mask>>
      /\ transfer(vault_token[r], destination, n)
  BY DEF Release, Consume
<1>2. /\ n \in Nat /\ LedgerTypeOK
      /\ released_total' = [released_total EXCEPT ![r] = @ + n]
  BY ReleaseSpends DEF SolvencyInv
<1>3. \A role \in Role : /\ vault_token[role] \in TokenAccount
                         /\ amount[role] \in Nat
                         /\ in_custody(role) \in Nat
                         /\ in_custody(role)' \in Nat
                         /\ released_total[role] \in Nat
  BY CustodyType DEF LedgerTypeOK, TokenRecord, in_custody, SolvencyInv
<1>4. \A role \in Role : Covered(role)
  BY <1>1 DEF SolvencyInv, ACTIVE, CANCELLED
<1>5. ASSUME NEW role \in Role PROVE Covered(role)'
  <2>1. CASE role = r
    <3>1. token'[vault_token[r]].amount = token[vault_token[r]].amount - n
      BY <1>1, <1>2, <1>3, TransferTakes
    <3>2. released_total'[r] = released_total[r] + n
      BY <1>2 DEF LedgerTypeOK
    <3> QED
      BY <1>2, <1>3, <1>4, <2>1, <3>1, <3>2 DEF Covered, in_custody
  <2>2. CASE role # r
    <3>1. vault_token[role] # vault_token[r]
      BY <2>2, TokenAssumption DEF Role
    <3>2. token'[vault_token[role]].amount >= token[vault_token[role]].amount
      BY <1>1, <1>2, <1>3, <3>1, TransferTakes
    <3>3. released_total'[role] = released_total[role]
      BY <1>2, <2>2 DEF LedgerTypeOK
    <3> QED
      BY <1>3, <1>4, <3>2, <3>3 DEF Covered, in_custody
  <2> QED
    BY <2>1, <2>2
<1> QED
  BY <1>1, <1>5 DEF SolvencyInv

LEMMA SolvencyStep ==
    ASSUME SolvencyInv, [VNext]_vars
    PROVE  SolvencyInv'
<1>1. LedgerTypeOK'
  BY LedgerStep DEF SolvencyInv
<1>2. CASE UNCHANGED vars
  BY <1>2, SolvencyKept DEF vars
<1>3. ASSUME NEW t \in Instant, Lifecycle(t)
      PROVE  SolvencyInv'
  <2>1. CASE Arm(t) \/ Activate(t) \/ Cancel(t) \/ ExpireUnarmed(t)
    BY <2>1, SolvencyKept
    DEF Arm, Activate, Cancel, ExpireUnarmed, unchanged_but_state, ledgerVars,
        vaultVars
  <2> QED
    BY <1>1, <1>3, <2>1, DepositSolvent, RefundSolvent DEF Lifecycle
<1>4. ASSUME NEW t \in Instant, Budget(t)
      PROVE  SolvencyInv'
  <2>1. CASE \E role \in Role, n \in ReleaseAmount, destination \in TokenAccount :
               Release(t, role, n, destination)
    BY <1>1, <2>1, ReleaseSolvent
  <2>2. CASE ~ \E role \in Role, n \in ReleaseAmount, destination \in TokenAccount :
               Release(t, role, n, destination)
    <3>1. UNCHANGED <<state, token, released_total, funded_mask>>
      BY <1>4, <2>2 DEF Budget, ReportCapacity, AcceptReport, ApproveTreasury,
                        RecordRecipient, ledgerVars, vaultVars
    <3> QED
      BY <3>1, SolvencyKept
  <2> QED
    BY <2>1, <2>2
<1>5. ASSUME NEW t \in Instant, GovernanceHandlers(t)
      PROVE  SolvencyInv'
  <2>1. UNCHANGED <<state, token, released_total, funded_mask>>
    BY <1>5 DEF GovernanceHandlers, ProposeChange, CancelChange, ExecuteChange,
                ledgerVars, vaultVars
  <2> QED
    BY <2>1, SolvencyKept
<1>6. CASE WithdrawalHandlers
  <2>1. UNCHANGED <<token, released_total, funded_mask>>
    BY <1>6 DEF WithdrawalHandlers, ledgerVars, vaultVars
  <2>2. UNCHANGED state
    <3>1. ASSUME NEW k, PrepareWithdrawalKey(k)
          PROVE  UNCHANGED state
      BY <3>1 DEF PrepareWithdrawalKey
    <3>2. ASSUME NEW t \in Instant, NEW role \in Role, NEW recovery \in BOOLEAN,
                 NEW successor \in Key,
                 ProposeWithdrawal(t, role, recovery, successor)
          PROVE  UNCHANGED state
      BY <3>2 DEF ProposeWithdrawal
    <3>3. ASSUME NEW t \in Instant, NEW q \in proposals,
                 ExecuteWithdrawal(t, q) \/ CancelWithdrawal(t, q)
                                         \/ ExpireWithdrawal(t, q)
          PROVE  UNCHANGED state
      BY <3>3 DEF ExecuteWithdrawal, CancelWithdrawal, ExpireWithdrawal
    <3> QED
      BY <1>6, <3>1, <3>2, <3>3 DEF WithdrawalHandlers
  <2> QED
    BY <2>1, <2>2, SolvencyKept
<1>7. CASE TokenProgram
  <2>1. ASSUME NEW h \in HandOver, SetAuthority(h[1], h[2])
        PROVE  SolvencyInv'
    <3>1. h[1] \in Wallet
      BY <2>1 DEF SetAuthority
    <3> QED
      BY <1>1, <2>1, <3>1, HandOverSolvent
  <2> QED
    BY <1>1, <1>7, <2>1, DonateSolvent DEF TokenProgram
<1> QED
  BY <1>2, <1>3, <1>4, <1>5, <1>6, <1>7 DEF VNext

(* No order of deposits, gifts, releases and lifecycle moves leaves an     *)
(* armed launch without the tokens it has promised.                        *)
THEOREM AlwaysSolvent == VSpec => []Solvent
<1>1. VInit => SolvencyInv
  <2>1. VInit => LedgerTypeOK
    BY TokenAssumption DEF VInit, CInit, LedgerTypeOK
  <2> QED
    BY <2>1 DEF VInit, CInit, StateInit, SolvencyInv, LifecycleState, PREPARED,
                ARMED, ACTIVE
<1>2. SolvencyInv /\ [VNext]_vars => SolvencyInv'
  BY SolvencyStep
<1>3. SolvencyInv => Solvent
  BY DEF SolvencyInv, Solvent, Covered, ARMED, ACTIVE, CANCELLED
<1> QED
  BY <1>1, <1>2, <1>3, PTL DEF VSpec

-----------------------------------------------------------------------------
(***************************************************************************)
(* The epoch of the oracle counts the oracle changes that were executed.   *)
(***************************************************************************)

ExecutedOracle ==
    {q \in changes : q.kind = CHANGE_ORACLE /\ q.status = PROPOSAL_EXECUTED}

OfficeInv ==
    /\ \A p, q \in changes : p.nonce = q.nonce => p = q
    /\ IsFiniteSet(ExecutedOracle)
    /\ oracle_epoch = Cardinality(ExecutedOracle)

(* Closing a change counts exactly when it installs an oracle.             *)
LEMMA CloseCounts ==
    ASSUME GInv, OfficeInv, NEW q \in changes, NEW status \in ProposalStatus,
           live_change(q), close_change(q, status)
    PROVE  /\ \A p, r \in changes' : p.nonce = r.nonce => p = r
           /\ IsFiniteSet(ExecutedOracle')
           /\ Cardinality(ExecutedOracle') =
                IF q.kind = CHANGE_ORACLE /\ status = PROPOSAL_EXECUTED
                THEN oracle_epoch + 1 ELSE oracle_epoch
<1> DEFINE c == [q EXCEPT !.status = status]
<1>1. /\ c.nonce = q.nonce /\ c.kind = q.kind /\ c.status = status
      /\ q.status = PROPOSAL_PENDING
  BY DEF GInv, GTypeOK, ChangeProposal, live_change
<1>2. changes' = (changes \ {q}) \cup {c}
  BY DEF close_change
<1> HIDE DEF c
<1>3. \A p, r \in changes' : p.nonce = r.nonce => p = r
  BY <1>1, <1>2 DEF OfficeInv
<1>4. c \notin ExecutedOracle
  BY <1>1 DEF ExecutedOracle, OfficeInv, PROPOSAL_PENDING, PROPOSAL_EXECUTED
<1>5. CASE q.kind = CHANGE_ORACLE /\ status = PROPOSAL_EXECUTED
  <2>1. ExecutedOracle' = ExecutedOracle \cup {c}
    BY <1>1, <1>2, <1>5 DEF ExecutedOracle, PROPOSAL_PENDING, PROPOSAL_EXECUTED
  <2> QED
    BY <1>3, <1>4, <1>5, <2>1, FS_AddElement DEF OfficeInv
<1>6. CASE ~(q.kind = CHANGE_ORACLE /\ status = PROPOSAL_EXECUTED)
  <2>1. ExecutedOracle' = ExecutedOracle
    BY <1>1, <1>2, <1>6 DEF ExecutedOracle, PROPOSAL_PENDING, PROPOSAL_EXECUTED
  <2> QED
    BY <1>3, <1>6, <2>1 DEF OfficeInv
<1> QED
  BY <1>5, <1>6

LEMMA OfficeStep ==
    ASSUME GInv, OfficeInv, [GNext]_gvars
    PROVE  OfficeInv'
<1>1. CASE UNCHANGED <<changes, oracle_epoch>>
  BY <1>1 DEF OfficeInv, ExecutedOracle
<1>2. ASSUME NEW t \in Instant, NEW kind \in ChangeKind,
             NEW recovery \in BOOLEAN, NEW successor \in ChangeSuccessor,
             NEW nonce \in Counter,
             ProposeChange(t, kind, recovery, successor, nonce)
      PROVE  OfficeInv'
  <2>1. PICK n : /\ changes' = changes \cup {n} /\ n.nonce = nonce
                 /\ n.status = PROPOSAL_PENDING
    <3> WITNESS [nonce |-> nonce, kind |-> kind, recovery |-> recovery,
                 successor |-> successor, controller_epoch |-> controller_epoch,
                 oracle_epoch |-> oracle_epoch, created_at |-> t,
                 execute_after |-> t + CHANGE_NOTICE,
                 status |-> PROPOSAL_PENDING]
    <3> QED
      BY <1>2 DEF ProposeChange
  <2>2. /\ \A q \in changes : q.nonce # nonce
        /\ UNCHANGED oracle_epoch
    BY <1>2 DEF ProposeChange
  <2>3. ExecutedOracle' = ExecutedOracle
    BY <2>1 DEF ExecutedOracle, PROPOSAL_PENDING, PROPOSAL_EXECUTED
  <2> QED
    BY <2>1, <2>2, <2>3 DEF OfficeInv
<1>3. ASSUME NEW t \in Instant, NEW q \in changes, CancelChange(t, q)
      PROVE  OfficeInv'
  <2>1. /\ live_change(q) /\ close_change(q, PROPOSAL_CANCELLED)
        /\ UNCHANGED oracle_epoch
    BY <1>3 DEF CancelChange
  <2>2. /\ PROPOSAL_CANCELLED \in ProposalStatus
        /\ PROPOSAL_CANCELLED # PROPOSAL_EXECUTED
    BY DEF ProposalStatus, PROPOSAL_CANCELLED, PROPOSAL_EXECUTED
  <2> QED
    BY <2>1, <2>2, CloseCounts DEF OfficeInv
<1>4. ASSUME NEW t \in Instant, NEW q \in changes, ExecuteChange(t, q)
      PROVE  OfficeInv'
  <2>1. /\ live_change(q) /\ close_change(q, PROPOSAL_EXECUTED)
        /\ oracle_epoch' = IF q.kind = CHANGE_ORACLE THEN oracle_epoch + 1
                           ELSE oracle_epoch
    BY <1>4 DEF ExecuteChange, install_oracle, install_controller,
                CHANGE_ORACLE, CHANGE_CONTROLLER
  <2>2. PROPOSAL_EXECUTED \in ProposalStatus
    BY DEF ProposalStatus
  <2> QED
    BY <2>1, <2>2, CloseCounts DEF OfficeInv
<1> QED
  BY <1>1, <1>2, <1>3, <1>4
  DEF GNext, gvars, AcceptReport, OtherHandlerG, governanceVars

LEMMA OfficeCounted == GSpec => []OfficeInv
<1>1. GInit => OfficeInv
  BY FS_EmptySet DEF GInit, OfficeInv, ExecutedOracle
<1>2. GInv /\ OfficeInv /\ [GNext]_gvars => OfficeInv'
  BY OfficeStep
<1> QED
  BY <1>1, <1>2, GovernanceInvariant, PTL DEF GSpec

(* Neither a rotation nor a period boundary lets a release rest on         *)
(* anything but a recent observation of the oracle in office.              *)
THEOREM ReleasesBacked == VSpec => ReleaseBackedByOracle
<1> DEFINE Backed ==
      released_total' # released_total =>
         /\ report.epoch = Cardinality({q \in changes :
               q.kind = CHANGE_ORACLE /\ q.status = PROPOSAL_EXECUTED})
         /\ report.at >= oracle_activated_at
         /\ period_at(report.at) = period_at(last_action_at')
         /\ last_action_at' - report.at <= max_report_age
<1>1. ASSUME GInv, OfficeInv, NEW t \in Instant, NEW role \in Role,
             NEW n \in ReleaseAmount, NEW destination \in TokenAccount,
             Release(t, role, n, destination)
      PROVE  Backed
  <2>1. last_action_at' = t /\ report_usable(t)
    BY <1>1 DEF Release, Consume, tick
  <2>2. /\ report.valid /\ report.epoch = oracle_epoch
        /\ report.period = period_at(t)
        /\ t - report.at <= max_report_age
    BY <2>1 DEF report_usable
  <2>3. /\ oracle_activated_at <= report.at
        /\ report.period = period_at(report.at)
        /\ oracle_activated_at \in Nat /\ report.at \in Nat
    BY <1>1, <2>2, TimeAssumption
    DEF GInv, GTypeOK, ReportFromCurrentOracle, Report
  <2>4. oracle_epoch = Cardinality({q \in changes :
               q.kind = CHANGE_ORACLE /\ q.status = PROPOSAL_EXECUTED})
    BY <1>1 DEF OfficeInv, ExecutedOracle
  <2> QED
    BY <2>1, <2>2, <2>3, <2>4
<1>2. GInv /\ OfficeInv /\ [VNext]_vars => [Backed]_vars
  <2> SUFFICES ASSUME GInv, OfficeInv, [VNext]_vars PROVE Backed
    OBVIOUS
  <2> HIDE DEF Backed
  <2>1. CASE UNCHANGED released_total
    BY <2>1 DEF Backed
  <2> QED
    BY <1>1, <2>1, OnlyReleaseSpends
<1> QED
  BY <1>2, ComponentsImplemented, GovernanceInvariant, OfficeCounted, PTL
  DEF VSpec, ImplementsComponents, ReleaseBackedByOracle

-----------------------------------------------------------------------------
(***************************************************************************)
(* The escrow.  Each handler is mapped to the step it is of LaunchEscrow.  *)
(***************************************************************************)

(* The tokens in custody are the held of the escrow.                       *)
Custody == [role \in Role |-> in_custody(role)]

LEMMA CustodyAmounts ==
    ASSUME LedgerTypeOK
    PROVE  \A role \in Role : /\ vault_token[role] \in TokenAccount
                              /\ token[vault_token[role]] \in TokenRecord
                              /\ in_custody(role) \in Nat
                              /\ amount[role] \in Nat
BY CustodyType DEF LedgerTypeOK, TokenRecord, in_custody

(* Custody accounts are distinct from each other and from all wallets.     *)
LEMMA CustodyApart ==
    ASSUME NEW r \in Role
    PROVE  /\ \A role \in Role \ {r} : vault_token[role] # vault_token[r]
           /\ \A a \in Wallet : a # vault_token[r] /\ a \in TokenAccount
BY TokenAssumption DEF Role, Wallet, CustodyAccount

LEMMA DepositFunds ==
    ASSUME LedgerTypeOK, NEW t \in Instant, NEW r \in Role,
           NEW source \in Wallet, Deposit(t, r, source)
    PROVE  Escrow!Fund(r)
<1>1. /\ state = PREPARED /\ UNCHANGED <<state, released_total>>
      /\ r \notin funded_mask /\ funded_mask' = funded_mask \cup {r}
      /\ token' = [token EXCEPT ![source].amount = @ - amount[r],
                                ![vault_token[r]].amount = @ + amount[r]]
  BY DEF Deposit, OpenVault
<1>2. token \in [TokenAccount -> TokenRecord]
  BY DEF LedgerTypeOK
<1>3. in_custody(r)' = in_custody(r) + amount[r]
  BY <1>1, <1>2, CustodyAmounts, CustodyApart DEF in_custody, TokenRecord
<1>4. ASSUME NEW role \in Role \ {r}
      PROVE  in_custody(role)' = in_custody(role)
  <2>1. token'[vault_token[role]] = token[vault_token[role]]
    BY <1>1, <1>2, CustodyAmounts, CustodyApart
  <2> QED
    BY <2>1 DEF in_custody
<1>5. Custody' = [Custody EXCEPT ![r] = @ + amount[r]]
  BY <1>3, <1>4 DEF Custody
<1> QED
  BY <1>1, <1>5
  DEF Escrow!Fund, Custody, PREPARED, ARMED, ACTIVE, CANCELLED

LEMMA RefundGivesBack ==
    ASSUME LedgerTypeOK, NEW t \in Instant, NEW r \in Role,
           NEW destination \in Wallet, Refund(t, r, destination)
    PROVE  Escrow!GiveBack(r)
<1>1. /\ state = CANCELLED /\ UNCHANGED <<state, released_total, funded_mask>>
      /\ token' = [token EXCEPT ![vault_token[r]].amount = @ - in_custody(r),
                                ![destination].amount = @ + in_custody(r)]
  BY DEF Refund, transfer, ledgerVars
<1>2. token \in [TokenAccount -> TokenRecord]
  BY DEF LedgerTypeOK
<1>3. in_custody(r)' = 0
  BY <1>1, <1>2, CustodyAmounts, CustodyApart DEF in_custody, TokenRecord
<1>4. ASSUME NEW role \in Role \ {r}
      PROVE  in_custody(role)' = in_custody(role)
  <2>1. token'[vault_token[role]] = token[vault_token[role]]
    BY <1>1, <1>2, CustodyAmounts, CustodyApart
  <2> QED
    BY <2>1 DEF in_custody
<1>5. Custody' = [Custody EXCEPT ![r] = 0]
  BY <1>3, <1>4 DEF Custody
<1> QED
  BY <1>1, <1>5
  DEF Escrow!GiveBack, Custody, PREPARED, ARMED, ACTIVE, CANCELLED

LEMMA DonateGifts ==
    ASSUME LedgerTypeOK, NEW from \in Wallet, NEW r \in Role,
           NEW n \in DustAmount, Donate(from, r, n)
    PROVE  Escrow!Gift(r)
<1>1. /\ UNCHANGED <<state, released_total, funded_mask>> /\ r \in funded_mask
      /\ token' = [token EXCEPT ![from].amount = @ - n,
                                ![vault_token[r]].amount = @ + n]
      /\ n \in Nat /\ n > 0
  BY TokenAssumption DEF Donate, transfer, wvars, ledgerVars
<1>2. token \in [TokenAccount -> TokenRecord]
  BY DEF LedgerTypeOK
<1>3. in_custody(r)' > in_custody(r)
  BY <1>1, <1>2, CustodyAmounts, CustodyApart DEF in_custody, TokenRecord
<1>4. ASSUME NEW role \in Role \ {r}
      PROVE  in_custody(role)' = in_custody(role)
  <2>1. token'[vault_token[role]] = token[vault_token[role]]
    BY <1>1, <1>2, CustodyAmounts, CustodyApart
  <2> QED
    BY <2>1 DEF in_custody
<1> QED
  BY <1>1, <1>3, <1>4 DEF Escrow!Gift

(* A release pays its own pool; the other pool may be the payee.           *)
LEMMA ReleasePays ==
    ASSUME LedgerTypeOK, WithinSchedule', NEW t \in Instant, NEW r \in Role,
           NEW n \in ReleaseAmount, NEW destination \in TokenAccount,
           Release(t, r, n, destination)
    PROVE  Escrow!Pay(r)
<1>1. /\ state = ACTIVE /\ UNCHANGED <<state, funded_mask>>
      /\ transfer(vault_token[r], destination, n)
  BY DEF Release, Consume
<1>2. /\ n \in Nat /\ n > 0
      /\ released_total' = [released_total EXCEPT ![r] = @ + n]
      /\ released_total \in [Role -> Nat]
  BY ReleaseSpends DEF LedgerTypeOK
<1>3. /\ released_total'[r] - released_total[r] = n
      /\ released_total'[r] > released_total[r]
      /\ \A role \in Role \ {r} : released_total'[role] = released_total[role]
  BY <1>2
<1>4. released_total'[r] <= amount[r]
  BY DEF WithinSchedule
<1>5. /\ token'[vault_token[r]].amount = token[vault_token[r]].amount - n
      /\ \A a \in TokenAccount :
            a # vault_token[r] => token'[a].amount >= token[a].amount
  BY <1>1, <1>2, CustodyAmounts, TransferTakes
<1>6. /\ in_custody(r)' = in_custody(r) - n
      /\ \A role \in Role \ {r} : in_custody(role)' >= in_custody(role)
  BY <1>5, CustodyAmounts, CustodyApart DEF in_custody
<1> QED
  BY <1>1, <1>3, <1>4, <1>6
  DEF Escrow!Pay, PREPARED, ARMED, ACTIVE, CANCELLED

(* Moves of the lifecycle commit, start or give up.                        *)
LEMMA LifecycleAdvances ==
    ASSUME SolvencyInv, NEW t \in Instant,
           Arm(t) \/ Activate(t) \/ Cancel(t) \/ ExpireUnarmed(t)
    PROVE  Escrow!Advance
<1>1. UNCHANGED <<funded_mask, released_total, token>>
  BY DEF Arm, Activate, Cancel, ExpireUnarmed, unchanged_but_state, vaultVars,
         ledgerVars
<1>2. \/ state = PREPARED /\ funded_mask = Role /\ state' = ARMED
      \/ state = ARMED /\ state' = ACTIVE
      \/ state \in {PREPARED, ARMED} /\ state' = CANCELLED
  BY DEF Arm, Activate, Cancel, ExpireUnarmed
<1>3. Custody' = Custody
  BY <1>1 DEF Custody, in_custody
<1> QED
  BY <1>1, <1>2, <1>3
  DEF Escrow!Advance, Custody, PREPARED, ARMED, ACTIVE, CANCELLED

(* Everything else is invisible to the depositors.                         *)
LEMMA EscrowUntouched ==
    ASSUME UNCHANGED <<state, funded_mask, released_total>>,
           \A role \in Role : in_custody(role)' = in_custody(role)
    PROVE  UNCHANGED Escrow!escrowVars
<1>1. Custody' = Custody
  BY DEF Custody
<1> QED
  BY <1>1 DEF Escrow!escrowVars, Custody

LEMMA EscrowStep ==
    ASSUME SolvencyInv, WithinSchedule', [VNext]_vars
    PROVE  [Escrow!Next]_(Escrow!escrowVars)
<1>1. LedgerTypeOK
  BY DEF SolvencyInv
<1>2. ASSUME UNCHANGED <<state, funded_mask, released_total, token>>
      PROVE  UNCHANGED Escrow!escrowVars
  BY <1>2, EscrowUntouched DEF in_custody
<1>3. CASE UNCHANGED vars
  BY <1>2, <1>3 DEF vars
<1>4. ASSUME NEW t \in Instant, Lifecycle(t)
      PROVE  Escrow!Next
  <2>1. ASSUME NEW r \in Role, NEW source \in Wallet, Deposit(t, r, source)
        PROVE  Escrow!Next
    BY <1>1, <2>1, DepositFunds DEF Escrow!Next
  <2>2. ASSUME NEW r \in Role, NEW a \in Wallet, Refund(t, r, a)
        PROVE  Escrow!Next
    BY <1>1, <2>2, RefundGivesBack DEF Escrow!Next
  <2>3. CASE Arm(t) \/ Activate(t) \/ Cancel(t) \/ ExpireUnarmed(t)
    BY <2>3, LifecycleAdvances DEF Escrow!Next
  <2> QED
    BY <1>4, <2>1, <2>2, <2>3 DEF Lifecycle
<1>5. ASSUME NEW t \in Instant, Budget(t)
      PROVE  [Escrow!Next]_(Escrow!escrowVars)
  <2>1. ASSUME NEW r \in Role, NEW n \in ReleaseAmount, NEW a \in TokenAccount,
               Release(t, r, n, a)
        PROVE  Escrow!Next
    BY <1>1, <2>1, ReleasePays DEF Escrow!Next
  <2>2. CASE \A r \in Role, n \in ReleaseAmount, a \in TokenAccount :
               ~Release(t, r, n, a)
    <3>1. UNCHANGED <<state, funded_mask, released_total, token>>
      BY <1>5, <2>2 DEF Budget, ReportCapacity, AcceptReport, ApproveTreasury,
                        RecordRecipient, ledgerVars, vaultVars
    <3> QED
      BY <1>2, <3>1
  <2> QED
    BY <2>1, <2>2
<1>6. ASSUME NEW t \in Instant, GovernanceHandlers(t)
      PROVE  UNCHANGED Escrow!escrowVars
  <2>1. UNCHANGED <<state, funded_mask, released_total, token>>
    BY <1>6 DEF GovernanceHandlers, ProposeChange, CancelChange, ExecuteChange,
                ledgerVars, vaultVars
  <2> QED
    BY <1>2, <2>1
<1>7. CASE WithdrawalHandlers
  <2>1. UNCHANGED <<funded_mask, released_total, token>>
    BY <1>7 DEF WithdrawalHandlers, ledgerVars, vaultVars
  <2>2. UNCHANGED state
    <3>1. ASSUME NEW k, PrepareWithdrawalKey(k)
          PROVE  UNCHANGED state
      BY <3>1 DEF PrepareWithdrawalKey
    <3>2. ASSUME NEW t \in Instant, NEW role \in Role, NEW recovery \in BOOLEAN,
                 NEW successor \in Key,
                 ProposeWithdrawal(t, role, recovery, successor)
          PROVE  UNCHANGED state
      BY <3>2 DEF ProposeWithdrawal
    <3>3. ASSUME NEW t \in Instant, NEW q \in proposals,
                 ExecuteWithdrawal(t, q) \/ CancelWithdrawal(t, q)
                                         \/ ExpireWithdrawal(t, q)
          PROVE  UNCHANGED state
      BY <3>3 DEF ExecuteWithdrawal, CancelWithdrawal, ExpireWithdrawal
    <3> QED
      BY <1>7, <3>1, <3>2, <3>3 DEF WithdrawalHandlers
  <2> QED
    BY <1>2, <2>1, <2>2
<1>8. CASE TokenProgram
  <2>1. ASSUME NEW from \in Wallet, NEW r \in Role, NEW n \in DustAmount,
               Donate(from, r, n)
        PROVE  Escrow!Next
    BY <1>1, <2>1, DonateGifts DEF Escrow!Next
  <2>2. ASSUME NEW h \in HandOver, SetAuthority(h[1], h[2])
        PROVE  UNCHANGED Escrow!escrowVars
    <3>1. /\ h[1] \in Wallet /\ token' = [token EXCEPT ![h[1]].owner = h[2]]
          /\ UNCHANGED <<state, funded_mask, released_total>>
      BY <2>2 DEF SetAuthority, wvars, ledgerVars
    <3>2. ASSUME NEW role \in Role
          PROVE  in_custody(role)' = in_custody(role)
      <4>1. token'[vault_token[role]] = token[vault_token[role]]
        BY <1>1, <3>1, CustodyAmounts, CustodyApart DEF LedgerTypeOK
      <4> QED
        BY <4>1 DEF in_custody
    <3> QED
      BY <3>1, <3>2, EscrowUntouched
  <2> QED
    BY <1>8, <2>1, <2>2 DEF TokenProgram
<1> QED
  BY <1>3, <1>4, <1>5, <1>6, <1>7, <1>8 DEF VNext

(* All or nothing funding, then either payments within the principal or    *)
(* refunds: every behaviour of the program is one of the abstract escrow.  *)
THEOREM EscrowImplemented == VSpec => ImplementsEscrow
<1>1. VInit => Escrow!Init
  <2> SUFFICES ASSUME VInit PROVE Escrow!Init
    OBVIOUS
  <2>1. token = initial_token /\ funded_mask = {} /\ state = PREPARED
        /\ released_total = [role \in Role |-> 0]
    BY DEF VInit, CInit, StateInit
  <2>2. \A role \in Role : in_custody(role) = 0
    <3>1. \A role \in Role : initial_token[vault_token[role]]
                                = [owner |-> vault_key[role], amount |-> 0]
      BY TokenAssumption
    <3>2. \A role \in Role : initial_token[vault_token[role]].amount = 0
      <4> TAKE role \in Role
      <4>1. initial_token[vault_token[role]]
              = [owner |-> vault_key[role], amount |-> 0]
        BY <3>1
      <4>2. [owner |-> vault_key[role], amount |-> 0].amount = 0
        OBVIOUS
      <4> QED
        BY <4>1, <4>2
    <3> QED
      BY <2>1, <3>2 DEF in_custody
  <2> QED
    BY <2>1, <2>2 DEF Escrow!Init, PREPARED, ARMED, ACTIVE, CANCELLED
<1>2. VInit => SolvencyInv
  <2>1. VInit => LedgerTypeOK
    BY TokenAssumption DEF VInit, CInit, LedgerTypeOK
  <2> QED
    BY <2>1 DEF VInit, CInit, StateInit, SolvencyInv, LifecycleState, PREPARED,
                ARMED, ACTIVE
<1>3. SolvencyInv /\ [VNext]_vars => SolvencyInv'
  BY SolvencyStep
<1>4. SolvencyInv /\ WithinSchedule' /\ [VNext]_vars
        => [Escrow!Next]_(Escrow!escrowVars)
  BY EscrowStep
<1> QED
  BY <1>1, <1>2, <1>3, <1>4, ComponentsImplemented, ScheduleKept, PTL
  DEF VSpec, ImplementsComponents, ImplementsEscrow, Escrow!Spec

-----------------------------------------------------------------------------
(***************************************************************************)
(* The approvals and the budget.  Two facts carry the equality of sums     *)
(* across a change of period: there is at most one approval for a period,  *)
(* and none for a period still to come has been drawn on.                  *)
(***************************************************************************)

Consumed(A) == [a \in A |-> a.consumed]
ForPeriod(p) == {a \in approvals : a.period = p}

ApprovalRecords ==
    /\ approvals \subseteq TreasuryApproval
    /\ IsFiniteSet(approvals)
    /\ \A x, y \in approvals : x.period = y.period => x = y

ApprovalsAgree ==
    /\ SumFunctionOnSet(Consumed(approvals), approvals) = released_total[TREASURY]
    /\ SumFunctionOnSet(Consumed(ForPeriod(period)), ForPeriod(period))
         = period_used[TREASURY]
    /\ \A a \in approvals : a.consumed <= a.need
    /\ \A a \in approvals : a.period > period => a.consumed = 0

AInv == LedgerTypeOK /\ CInv /\ ApprovalRecords /\ ApprovalsAgree

LEMMA MatchUnfolds == ApprovalsAgree => ApprovalsMatchBudget
BY DEF ApprovalsAgree, ApprovalsMatchBudget, Consumed, ForPeriod, SumFunction

(* The sum over approvals after one of them has been drawn on.             *)
LEMMA ConsumedExchange ==
    ASSUME NEW A, IsFiniteSet(A), A \subseteq TreasuryApproval, NEW a \in A,
           NEW n \in Nat, NEW b, b = [a EXCEPT !.consumed = @ + n], b \notin A \ {a}
    PROVE  SumFunctionOnSet(Consumed((A \ {a}) \cup {b}), (A \ {a}) \cup {b})
             = SumFunctionOnSet(Consumed(A), A) + n
<1> DEFINE f == Consumed(A)
           g == Consumed((A \ {a}) \cup {b})
<1>1. f[a] = a.consumed /\ a.consumed \in Nat /\ g[b] = a.consumed + n
  BY DEF TreasuryApproval, Consumed
<1>2. (\A x \in A : f[x] \in Int) /\ (\A x \in A \ {a} : g[x] = f[x])
  BY DEF TreasuryApproval, Consumed
<1> HIDE DEF f, g
<1>3. SumFunctionOnSet(g, (A \ {a}) \cup {b}) = SumFunctionOnSet(f, A) - f[a] + g[b]
  BY <1>1, <1>2, SumExchange
<1>4. SumFunctionOnSet(f, A) \in Int
  BY <1>2, SumType
<1>5. SumFunctionOnSet(g, (A \ {a}) \cup {b}) = SumFunctionOnSet(f, A) + n
  BY <1>1, <1>3, <1>4
<1> QED BY <1>5 DEF f, g

(* A new approval adds nothing.                                            *)
LEMMA ConsumedAdd ==
    ASSUME NEW A, IsFiniteSet(A), A \subseteq TreasuryApproval,
           NEW b, b.consumed = 0, b \notin A
    PROVE  SumFunctionOnSet(Consumed(A \cup {b}), A \cup {b})
             = SumFunctionOnSet(Consumed(A), A)
<1> DEFINE f == Consumed(A)
           g == Consumed(A \cup {b})
<1>1. /\ \A x \in A : f[x] = g[x]
      /\ \A x \in A : f[x] \in Int
      /\ \A x \in A \cup {b} : g[x] \in Int
      /\ g[b] = 0
  BY DEF TreasuryApproval, Consumed
<1> HIDE DEF f, g
<1>2. SumFunctionOnSet(f, A) = SumFunctionOnSet(g, A)
  BY <1>1, SumAgrees
<1>3. SumFunctionOnSet(g, A \cup {b}) = g[b] + SumFunctionOnSet(g, A)
  BY <1>1, SumAdd
<1>4. SumFunctionOnSet(f, A) \in Int
  BY <1>1, SumType
<1>5. SumFunctionOnSet(g, A \cup {b}) = SumFunctionOnSet(f, A)
  BY <1>1, <1>2, <1>3, <1>4
<1> QED BY <1>5 DEF f, g

LEMMA ApprovalsUntouched ==
    ASSUME AInv, UNCHANGED <<approvals, period, period_used, released_total>>
    PROVE  (ApprovalRecords /\ ApprovalsAgree)'
BY DEF AInv, ApprovalRecords, ApprovalsAgree, ForPeriod, Consumed

(* An approval is for a period that has none yet.                          *)
LEMMA ApproveKeepsMatch ==
    ASSUME AInv, NEW t \in Instant, NEW p \in PolicyPeriod, NEW need \in Need,
           NEW recipient \in TokenAccount, ApproveTreasury(t, p, need, recipient)
    PROVE  (ApprovalRecords /\ ApprovalsAgree)'
<1> DEFINE b == approval(t, p, need, recipient)
<1>1. /\ approvals' = approvals \cup {b}
      /\ UNCHANGED <<period, period_used, released_total>>
      /\ \A a \in approvals : a.period # p
      /\ need > 0
  BY DEF ApproveTreasury, valid_notice, ledgerVars
<1>2. b \in TreasuryApproval /\ b.period = p /\ b.consumed = 0 /\ b.need > 0
  <2>1. token[recipient].owner \in Address /\ p \in Nat /\ need \in Nat
    BY TokenAssumption DEF AInv, LedgerTypeOK, TokenRecord
  <2> QED BY <1>1, <2>1 DEF approval, TreasuryApproval
<1> HIDE DEF b
<1>3. b \notin approvals
  BY <1>1, <1>2
<1>4. ApprovalRecords'
  BY <1>1, <1>2, FS_AddElement DEF AInv, ApprovalRecords
<1>5. SumFunctionOnSet(Consumed(approvals'), approvals')
        = SumFunctionOnSet(Consumed(approvals), approvals)
  BY <1>1, <1>2, <1>3, ConsumedAdd DEF AInv, ApprovalRecords
<1>6. SumFunctionOnSet(Consumed(ForPeriod(period)'), ForPeriod(period)')
        = SumFunctionOnSet(Consumed(ForPeriod(period)), ForPeriod(period))
  <2>1. CASE p = period
    <3> DEFINE A == ForPeriod(period)
    <3>1. ForPeriod(period)' = A \cup {b}
      BY <1>1, <1>2, <2>1 DEF ForPeriod
    <3>2. IsFiniteSet(A) /\ A \subseteq TreasuryApproval /\ b \notin A
      BY <1>3, FS_Subset DEF AInv, ApprovalRecords, ForPeriod
    <3> HIDE DEF A
    <3>3. SumFunctionOnSet(Consumed(A \cup {b}), A \cup {b})
            = SumFunctionOnSet(Consumed(A), A)
      BY <1>2, <3>2, ConsumedAdd
    <3> QED BY <3>1, <3>3 DEF A
  <2>2. CASE p # period
    <3>1. ForPeriod(period)' = ForPeriod(period)
      BY <1>1, <1>2, <2>2 DEF ForPeriod
    <3> QED BY <3>1
  <2> QED BY <2>1, <2>2
<1>7. /\ \A a \in approvals' : a.consumed <= a.need
      /\ \A a \in approvals' : a.period > period' => a.consumed = 0
  BY <1>1, <1>2 DEF AInv, ApprovalsAgree, TreasuryApproval
<1>8. /\ SumFunctionOnSet(Consumed(approvals'), approvals') = released_total[TREASURY]
      /\ SumFunctionOnSet(Consumed(ForPeriod(period)'), ForPeriod(period)')
           = period_used[TREASURY]
  BY <1>5, <1>6 DEF AInv, ApprovalsAgree
<1>9. ApprovalsAgree'
  <2>1. Consumed(approvals)' = Consumed(approvals')
        /\ Consumed(ForPeriod(period))' = Consumed(ForPeriod(period)')
    BY DEF Consumed
  <2> QED BY <1>1, <1>7, <1>8, <2>1 DEF ApprovalsAgree
<1> QED BY <1>4, <1>9

(* What a release finds in the approvals for its period, before it pays.   *)
LEMMA CurrentConsumed ==
    ASSUME AInv, NEW p \in Nat, period <= p
    PROVE  SumFunctionOnSet(Consumed(ForPeriod(p)), ForPeriod(p))
             = used_at(p, TREASURY)
<1>1. CASE p = period
  BY <1>1 DEF AInv, ApprovalsAgree, used_at
<1>2. CASE p # period
  <2> DEFINE A == ForPeriod(p)
             f == Consumed(A)
  <2>1. period \in Nat
    BY DEF AInv, CInv, CTypeOK
  <2>2. \A a \in A : f[a] = 0
    BY <1>2, <2>1 DEF AInv, ApprovalsAgree, ForPeriod, Consumed
  <2>3. IsFiniteSet(A)
    BY FS_Subset DEF AInv, ApprovalRecords, ForPeriod
  <2> HIDE DEF A, f
  <2>4. SumFunctionOnSet(f, A) = 0
    BY <2>2, <2>3, SumOfZeros
  <2> QED BY <1>2, <2>4 DEF used_at, f, A
<1> QED BY <1>1, <1>2

LEMMA ReleaseKeepsMatch ==
    ASSUME AInv, NEW t \in Instant, NEW role \in Role, NEW n \in ReleaseAmount,
           NEW destination \in TokenAccount, Release(t, role, n, destination)
    PROVE  (ApprovalRecords /\ ApprovalsAgree)'
<1> DEFINE p == period_at(t)
<1>1. Consume(t, role, n)
  BY DEF Release
<1>2. /\ p \in Nat /\ period <= p /\ period' = p /\ n \in Nat
      /\ \A r \in Role :
            LET spent == IF r = role THEN n ELSE 0 IN
            /\ period_used'[r] = used_at(p, r) + spent
            /\ released_total'[r] = released_total[r] + spent
  BY <1>1, Committed DEF AInv
<1>3. n > 0 /\ TREASURY \in Role /\ FOUNDER # TREASURY
  BY <1>1 DEF Consume, Role, FOUNDER, TREASURY
<1>4. /\ period \in Nat /\ released_total[TREASURY] \in Nat
      /\ period_used[TREASURY] \in Nat /\ used_at(p, TREASURY) \in Nat
  BY <1>3 DEF AInv, CInv, CTypeOK, used_at
<1> HIDE DEF p
<1>5. SumFunctionOnSet(Consumed(ForPeriod(p)), ForPeriod(p)) = used_at(p, TREASURY)
  BY <1>2, CurrentConsumed
<1>6. CASE role # TREASURY
  <2>1. approvals' = approvals
    BY <1>6 DEF Release, pays_founder
  <2>2. /\ released_total'[TREASURY] = released_total[TREASURY]
        /\ period_used'[TREASURY] = used_at(p, TREASURY)
    BY <1>2, <1>3, <1>4, <1>6
  <2>3. ForPeriod(period)' = ForPeriod(p)
    BY <1>2, <2>1 DEF ForPeriod
  <2>4. \A a \in approvals : a.period > p => a.consumed = 0
    BY <1>2, <1>4 DEF AInv, ApprovalsAgree, ApprovalRecords, TreasuryApproval
  <2>5. ApprovalRecords'
    BY <2>1 DEF AInv, ApprovalRecords
  <2>6. /\ Consumed(approvals)' = Consumed(approvals)
        /\ Consumed(ForPeriod(period))' = Consumed(ForPeriod(p))
    BY <2>1, <2>3 DEF Consumed
  <2> QED BY <1>2, <1>5, <2>1, <2>2, <2>3, <2>4, <2>5, <2>6 DEF AInv, ApprovalsAgree
<1>7. CASE role = TREASURY
  <2>1. pays_approved(t, destination, n)
    BY <1>3, <1>7 DEF Release
  <2>2. PICK a \in approvals :
          /\ a.period = p
          /\ a.consumed + n <= a.need
          /\ approvals' = (approvals \ {a}) \cup {[a EXCEPT !.consumed = @ + n]}
    BY <2>1 DEF pays_approved, p
  <2>3. PICK b : b = [a EXCEPT !.consumed = @ + n]
    OBVIOUS
  <2>4. a \in TreasuryApproval
    BY DEF AInv, ApprovalRecords
  <2>5. /\ b \in TreasuryApproval /\ b.period = p /\ b.need = a.need
        /\ b.consumed = a.consumed + n
    BY <1>2, <2>2, <2>3, <2>4 DEF TreasuryApproval
  <2>6. /\ b # a
        /\ \A x \in approvals : x.period = p => x = a
        /\ b \notin approvals
    <3>1. b # a
      BY <1>2, <1>3, <2>4, <2>5 DEF TreasuryApproval
    <3>2. \A x \in approvals : x.period = p => x = a
      BY <2>2 DEF AInv, ApprovalRecords
    <3> QED BY <2>5, <3>1, <3>2
  <2>7. approvals' = (approvals \ {a}) \cup {b}
    BY <2>2, <2>3
  <2>8. ApprovalRecords'
    <3>1. IsFiniteSet(approvals')
      <4>1. IsFiniteSet(approvals \ {a})
        BY FS_Subset DEF AInv, ApprovalRecords
      <4> QED BY <2>7, <4>1, FS_AddElement
    <3>2. \A x \in approvals' : x = b \/ (x \in approvals /\ x.period # p)
      <4> SUFFICES ASSUME NEW x \in approvals', x # b
                   PROVE  x \in approvals /\ x.period # p
        OBVIOUS
      <4>1. x \in approvals /\ x # a
        BY <2>7
      <4> QED BY <2>6, <4>1
    <3>3. \A x, y \in approvals' : x.period = y.period => x = y
      BY <2>5, <3>2 DEF AInv, ApprovalRecords
    <3>4. approvals' \subseteq TreasuryApproval
      BY <2>5, <2>7 DEF AInv, ApprovalRecords
    <3> QED BY <3>1, <3>3, <3>4 DEF ApprovalRecords
  <2>9. SumFunctionOnSet(Consumed(approvals'), approvals')
          = SumFunctionOnSet(Consumed(approvals), approvals) + n
    BY <1>2, <2>3, <2>6, <2>7, ConsumedExchange DEF AInv, ApprovalRecords
  <2>10. SumFunctionOnSet(Consumed(ForPeriod(period)'), ForPeriod(period)')
           = used_at(p, TREASURY) + n
    <3> DEFINE A == ForPeriod(p)
    <3>1. ForPeriod(period)' = (A \ {a}) \cup {b} /\ a \in A
      BY <1>2, <2>2, <2>5, <2>7 DEF ForPeriod
    <3>2. IsFiniteSet(A) /\ A \subseteq TreasuryApproval /\ b \notin A \ {a}
      BY <2>6, FS_Subset DEF AInv, ApprovalRecords, ForPeriod
    <3> HIDE DEF A
    <3>3. SumFunctionOnSet(Consumed((A \ {a}) \cup {b}), (A \ {a}) \cup {b})
            = SumFunctionOnSet(Consumed(A), A) + n
      BY <1>2, <2>3, <3>1, <3>2, ConsumedExchange
    <3> QED BY <1>5, <3>1, <3>3 DEF A
  <2>11. /\ released_total'[TREASURY] = released_total[TREASURY] + n
         /\ period_used'[TREASURY] = used_at(p, TREASURY) + n
    BY <1>2, <1>3, <1>7
  <2>12. /\ \A x \in approvals' : x.consumed <= x.need
         /\ \A x \in approvals' : x.period > period' => x.consumed = 0
    <3>1. \A x \in approvals : x.period \in Nat
      BY DEF AInv, ApprovalRecords, TreasuryApproval
    <3> QED BY <1>2, <1>4, <2>2, <2>5, <2>7, <3>1 DEF AInv, ApprovalsAgree
  <2>13. /\ Consumed(approvals)' = Consumed(approvals')
         /\ Consumed(ForPeriod(period))' = Consumed(ForPeriod(period)')
    BY DEF Consumed
  <2>14. SumFunctionOnSet(Consumed(approvals), approvals) = released_total[TREASURY]
    BY DEF AInv, ApprovalsAgree
  <2>15. ApprovalsAgree'
    BY <2>9, <2>10, <2>11, <2>12, <2>13, <2>14 DEF ApprovalsAgree
  <2> QED BY <2>8, <2>15
<1> QED BY <1>6, <1>7

(* Approving and releasing are the only steps that move either ledger.     *)
LEMMA OnlyTwoMoveApprovals ==
    ASSUME [VNext]_vars
    PROVE  \/ UNCHANGED <<approvals, period, period_used, released_total>>
           \/ \E t \in Instant, p \in PolicyPeriod, need \in Need,
                 recipient \in TokenAccount : ApproveTreasury(t, p, need, recipient)
           \/ \E t \in Instant, role \in Role, n \in ReleaseAmount,
                 destination \in TokenAccount : Release(t, role, n, destination)
<1> DEFINE still == UNCHANGED <<approvals, period, period_used, released_total>>
<1>1. CASE UNCHANGED vars
  BY <1>1 DEF vars
<1>2. ASSUME NEW t \in Instant, Lifecycle(t) PROVE still
  BY <1>2 DEF Lifecycle, Deposit, OpenVault, Arm, Activate, Cancel,
              ExpireUnarmed, Refund, unchanged_but_state, ledgerVars, vaultVars
<1>3. ASSUME NEW t \in Instant, Budget(t)
      PROVE  \/ still
             \/ \E p \in PolicyPeriod, need \in Need,
                   recipient \in TokenAccount : ApproveTreasury(t, p, need, recipient)
             \/ \E role \in Role, n \in ReleaseAmount,
                   destination \in TokenAccount : Release(t, role, n, destination)
  BY <1>3 DEF Budget, ReportCapacity, ledgerVars, vaultVars
<1>4. ASSUME NEW t \in Instant, GovernanceHandlers(t) PROVE still
  BY <1>4 DEF GovernanceHandlers, ledgerVars, vaultVars
<1>5. CASE WithdrawalHandlers
  BY <1>5 DEF WithdrawalHandlers, ledgerVars, vaultVars
<1>6. CASE TokenProgram
  BY <1>6 DEF TokenProgram, Donate, SetAuthority, ledgerVars
<1> QED
  BY <1>1, <1>2, <1>3, <1>4, <1>5, <1>6 DEF VNext

LEMMA ApprovalsInit == VInit => ApprovalRecords /\ ApprovalsAgree
<1> SUFFICES ASSUME VInit PROVE ApprovalRecords /\ ApprovalsAgree
  OBVIOUS
<1>1. /\ approvals = {} /\ ForPeriod(period) = {}
      /\ released_total[TREASURY] = 0 /\ period_used[TREASURY] = 0
  BY DEF VInit, CInit, ForPeriod, Role, TREASURY
<1>2. /\ SumFunctionOnSet(Consumed({}), {}) = 0
  BY SumOfNothing
<1> QED BY <1>1, <1>2, FS_EmptySet DEF ApprovalRecords, ApprovalsAgree

(* However releases of both pools, approvals and period boundaries follow  *)
(* one another, what the approvals say was spent is what the budget says   *)
(* was spent (lib.rs, approve_treasury_v7 and release_v7; capacity.rs).    *)
THEOREM ApprovalsMatch == VSpec => []ApprovalsMatchBudget
<1>1. VInit => ApprovalRecords /\ ApprovalsAgree
  BY ApprovalsInit
<1>2. LedgerTypeOK /\ CInv /\ ApprovalRecords /\ ApprovalsAgree /\ [VNext]_vars
        => (ApprovalRecords /\ ApprovalsAgree)'
  BY OnlyTwoMoveApprovals, ApprovalsUntouched, ApproveKeepsMatch,
     ReleaseKeepsMatch DEF AInv
<1>3. VSpec => [](LedgerTypeOK /\ CInv)
  BY ComponentsImplemented, BudgetInvariant, LedgerTypeCorrect, PTL
  DEF ImplementsComponents
<1> QED BY <1>1, <1>2, <1>3, MatchUnfolds, PTL DEF VSpec
==============================================================================
