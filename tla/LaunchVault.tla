----------------------------- MODULE LaunchVault -----------------------------
(***************************************************************************)
(* The whole launch-vault-v7 program on one policy (lib.rs, contexts.rs):  *)
(* deposits, lifecycle, refunds, Treasury approvals and releases, composed *)
(* with withdrawal authority, governance and the release budget.  A        *)
(* transaction is atomic, so every handler is one step; what interleaves   *)
(* is the order of transactions of mutually distrusting signers.           *)
(*                                                                         *)
(* SPL token accounts are external.  Anchor rejects an instruction whose   *)
(* two mutable token accounts are the same one.                            *)
(***************************************************************************)
EXTENDS LaunchWithdrawal, LaunchGovernance, LaunchCapacity, FiniteSetsExt

CONSTANTS
    TokenAccount,     \* token accounts of the launch mint
    vault_token,      \* the custody account of each role
    vault_key,        \* the vault PDA that owns it
    initial_token,    \* what the accounts hold before the policy is opened
    PolicyPeriod,     \* periods a Treasury approval may name
    Need,             \* amounts it may name
    DustAmount,       \* amounts strangers may send to a custody account
    HandOver          \* <<account, new owner>>: accounts that may change hands

VARIABLES
    funded_mask,      \* roles whose exact principal was deposited
    depositor,        \* LaunchVaultV7.depositor
    approvals,        \* TreasuryApprovalV7 accounts, never closed
    token             \* SPL token accounts: owner and amount

vaultVars == <<funded_mask, depositor, approvals, token>>
vars == <<state, last_action_at, withdrawal, key_record, proposals, oracle,
          oracle_epoch, oracle_activated_at, controller, controller_epoch,
          change_sequence, pending_change, changes, report, period,
          annual_index, period_used, annual_used, released_total, shared_used,
          report_capacity, vault, funded_mask, depositor, approvals, token>>

TokenRecord == [owner : Address, amount : Nat]

TreasuryApproval ==
    [period : Nat, recipient : TokenAccount, recipient_owner : Address,
     need : Nat \ {0}, consumed : Nat, created_at : Instant]

ASSUME TokenAssumption ==
    /\ vault_token \in [Role -> TokenAccount]
    /\ vault_key \in [Role -> Pda]
    /\ vault_token[FOUNDER] # vault_token[TREASURY]
    /\ vault_key[FOUNDER] # vault_key[TREASURY]
    /\ initial_token \in [TokenAccount -> TokenRecord]
    /\ \A role \in Role : initial_token[vault_token[role]]
                            = [owner |-> vault_key[role], amount |-> 0]
    /\ PolicyPeriod \subseteq Nat
    /\ Need \subseteq Nat
    /\ DustAmount \subseteq Nat \ {0}
    /\ HandOver \subseteq (TokenAccount \X Key)

VInit ==
    /\ WInit /\ GInit /\ CInit
    /\ funded_mask = {}
    /\ depositor = [role \in Role |-> DefaultKey]
    /\ approvals = {}
    /\ token = initial_token

-----------------------------------------------------------------------------
(***************************************************************************)
(* Token program: external.                                                *)
(***************************************************************************)

CustodyAccount == {vault_token[role] : role \in Role}
Wallet == TokenAccount \ CustodyAccount

(* A custody account exists from the deposit of its role on.               *)
exists(a) == \A role \in Role : a = vault_token[role] => role \in funded_mask

transfer(from, to, n) ==
    /\ exists(to)
    /\ from # to
    /\ token[from].amount >= n
    /\ token' = [token EXCEPT ![from].amount = @ - n, ![to].amount = @ + n]

in_custody(role) == token[vault_token[role]].amount

(* Strangers may send tokens to a custody account, at any time.            *)
Donate(from, role, n) ==
    /\ from \in Wallet
    /\ role \in funded_mask
    /\ transfer(from, vault_token[role], n)
    /\ UNCHANGED <<wvars, governanceVars, ledgerVars, report_capacity,
                   funded_mask, depositor, approvals>>

(* The owner of a wallet may hand it over with SetAuthority.               *)
SetAuthority(a, k) ==
    /\ a \in Wallet
    /\ token[a].owner \in Key
    /\ token' = [token EXCEPT ![a].owner = k]
    /\ UNCHANGED <<wvars, governanceVars, ledgerVars, report_capacity,
                   funded_mask, depositor, approvals>>

-----------------------------------------------------------------------------
(***************************************************************************)
(* Funding and lifecycle.                                                  *)
(***************************************************************************)

(* Signed by the controller, the depositor and the current authority of    *)
(* the role; the vault account of a role can be created only once.         *)
Deposit(t, role, source) ==
    /\ OpenVault(t, role)
    /\ t < t0
    /\ \E authority \in Key :
          authenticate_withdrawal(role, authority, withdrawal[role].epoch)
    /\ role \notin funded_mask
    /\ source \in Wallet /\ token[source].owner \in Key
    /\ token[source].amount >= amount[role]
    /\ token' = [token EXCEPT ![source].amount = @ - amount[role],
                              ![vault_token[role]].amount = @ + amount[role]]
    /\ depositor' = [depositor EXCEPT ![role] = token[source].owner]
    /\ funded_mask' = funded_mask \cup {role}
    /\ UNCHANGED <<withdrawalVars, governanceVars, approvals>>

unchanged_but_state ==
    UNCHANGED <<withdrawalVars, governanceVars, ledgerVars, report_capacity,
                vaultVars>>

\* Mutant: one funded pool is enough.
ArmPartlyFunded(t) ==
    /\ tick(t) /\ state = PREPARED /\ t < t0
    /\ funded_mask # {}
    /\ state' = ARMED
    /\ unchanged_but_state

Arm(t) ==
    /\ tick(t)
    /\ state = PREPARED
    /\ t < t0
    /\ funded_mask = Role
    /\ state' = ARMED
    /\ unchanged_but_state

(* Permissionless from t0 on.                                              *)
Activate(t) ==
    /\ tick(t)
    /\ state = ARMED
    /\ t >= t0
    /\ state' = ACTIVE
    /\ unchanged_but_state

\* Mutant: a launch that has started can still be cancelled.
CancelStarted(t) ==
    /\ tick(t)
    /\ state # CANCELLED
    /\ state' = CANCELLED
    /\ unchanged_but_state

(* Needs the controller and both current beneficiaries; a paused role does *)
(* not prevent it, since contexts.rs only compares the current keys.       *)
Cancel(t) ==
    /\ tick(t)
    /\ state \in {PREPARED, ARMED}
    /\ t < t0
    /\ state' = CANCELLED
    /\ unchanged_but_state

\* Mutant: an armed launch is left to the controller once t0 has passed.
ExpireUnarmedNever(t) ==
    /\ tick(t)
    /\ state = PREPARED /\ t >= t0 /\ funded_mask = Role
    /\ state' = CANCELLED
    /\ unchanged_but_state

(* Permissionless from t0 on.                                              *)
ExpireUnarmed(t) ==
    /\ tick(t)
    /\ state = PREPARED
    /\ t >= t0
    /\ state' = CANCELLED
    /\ unchanged_but_state

\* Mutant: only the principal is refunded, once.
RefundPrincipal(t, role, destination) ==
    /\ tick(t)
    /\ state = CANCELLED /\ role \in funded_mask
    /\ destination \in Wallet /\ token[destination].owner = depositor[role]
    /\ in_custody(role) >= vault[role].principal
    /\ transfer(vault_token[role], destination, vault[role].principal)
    /\ UNCHANGED <<state, withdrawalVars, governanceVars, ledgerVars,
                   report_capacity, funded_mask, depositor, approvals>>

(* The whole balance goes back to the recorded depositor, dust included    *)
(* and as often as dust arrives.                                           *)
Refund(t, role, destination) ==
    /\ tick(t)
    /\ state = CANCELLED
    /\ role \in funded_mask
    /\ vault[role].released_total = 0
    /\ in_custody(role) > 0
    /\ destination \in Wallet
    /\ token[destination].owner = depositor[role]
    /\ transfer(vault_token[role], destination, in_custody(role))
    /\ UNCHANGED <<state, withdrawalVars, governanceVars, ledgerVars,
                   report_capacity, funded_mask, depositor, approvals>>

-----------------------------------------------------------------------------
(***************************************************************************)
(* Reports, approvals and releases.                                        *)
(***************************************************************************)

ReportCapacity(t, signer, c, observed_at, sequence, epoch) ==
    /\ AcceptReport(t, signer, observed_at, sequence, epoch)
    /\ report_capacity' = c
    /\ UNCHANGED <<withdrawalVars, ledgerVars, vaultVars>>

(* Before t0 period 0 may be named, afterwards only a future period, and a *)
(* full period must pass before the end of the one it is for.              *)
valid_notice(t, p, need) ==
    /\ need > 0
    /\ t >= t0 => p > period_at(t)
    /\ period_start(p + 1) <= I64_MAX
    /\ t + PERIOD < period_start(p + 1)

approval(t, p, need, recipient) ==
    [period |-> p, recipient |-> recipient,
     recipient_owner |-> token[recipient].owner,
     need |-> need, consumed |-> 0, created_at |-> t]

\* Mutant: the payee is recorded without being checked.
ApproveTreasuryUnvetted(t, p, need, recipient) ==
    /\ tick(t) /\ state # CANCELLED /\ withdrawal[TREASURY].pending = 0
    /\ key_record[token[recipient].owner].exists
    /\ valid_notice(t, p, need) /\ ~\E a \in approvals : a.period = p
    /\ key_record' = [key_record EXCEPT ![token[recipient].owner].recipient = TRUE]
    /\ approvals' = approvals \cup {approval(t, p, need, recipient)}
    /\ UNCHANGED <<state, withdrawal, proposals, governanceVars, ledgerVars,
                   report_capacity, funded_mask, depositor, token>>

(* At most one approval per period: its address is derived from it.        *)
ApproveTreasury(t, p, need, recipient) ==
    /\ RecordRecipient(t, token[recipient].owner)
    /\ \E signer \in Key, epoch \in Counter :
          authenticate_withdrawal(TREASURY, signer, epoch)
    /\ exists(recipient)
    /\ valid_notice(t, p, need)
    /\ ~\E a \in approvals : a.period = p
    /\ approvals' = approvals \cup {approval(t, p, need, recipient)}
    /\ UNCHANGED <<governanceVars, ledgerVars, report_capacity, funded_mask,
                   depositor, token>>

\* Mutant: neither the oracle's epoch nor validity is checked.
report_usable_of_any_oracle(t) ==
    /\ report.sequence > 0 /\ report.period = period_at(t)
    /\ report.at <= t /\ t - report.at <= max_report_age

(* The last accepted report is about this period, from the oracle now in   *)
(* office, and still fresh.                                                *)
report_usable(t) ==
    /\ report.valid
    /\ report.epoch = oracle_epoch
    /\ report.sequence > 0
    /\ report.period = period_at(t)
    /\ report.at <= t
    /\ t - report.at <= max_report_age

\* Mutants: the recipient's record is trusted as it was when it was approved;
\* the approval is checked against each amount but not counted down.
pays_approved_owner(t, destination, n) ==
    \E a \in approvals :
        /\ a.period = period_at(t) /\ a.recipient = destination
        /\ t >= a.created_at + PERIOD /\ a.consumed + n <= a.need
        /\ approvals' = (approvals \ {a})
                           \cup {[a EXCEPT !.consumed = @ + n]}
pays_approved_each(t, destination, n) ==
    /\ key_record[token[destination].owner].recipient
    /\ eligible_recipient(token[destination].owner)
    /\ \E a \in approvals :
        /\ a.period = period_at(t) /\ a.recipient = destination
        /\ a.recipient_owner = token[destination].owner
        /\ t >= a.created_at + PERIOD /\ n <= a.need
        /\ approvals' = (approvals \ {a}) \cup {[a EXCEPT !.consumed = n]}

(* The Treasury pays the account approved for this period a full period    *)
(* earlier, if it has not changed hands, up to the approved need.          *)
pays_approved(t, destination, n) ==
    LET owner == token[destination].owner IN
    /\ key_record[owner].recipient
    /\ eligible_recipient(owner)
    /\ \E a \in approvals :
          /\ a.period = period_at(t)
          /\ a.recipient = destination
          /\ a.recipient_owner = owner
          /\ t >= a.created_at + PERIOD
          /\ a.consumed + n <= a.need
          /\ approvals' = (approvals \ {a})
                             \cup {[a EXCEPT !.consumed = @ + n]}

(* The Founder is paid after the cliff, to an account of the current key.  *)
pays_founder(t, destination) ==
    /\ cliff_passed(t)
    /\ token[destination].owner = withdrawal[FOUNDER].current
    /\ UNCHANGED approvals

Release(t, role, n, destination) ==
    /\ Consume(t, role, n)
    /\ \E signer \in Key, epoch \in Counter :
          authenticate_withdrawal(role, signer, epoch)
    /\ report_usable(t)
    /\ \/ role = FOUNDER  /\ pays_founder(t, destination)
       \/ role = TREASURY /\ pays_approved(t, destination, n)
    /\ transfer(vault_token[role], destination, n)
    /\ UNCHANGED <<withdrawalVars, governanceVars, funded_mask, depositor>>

-----------------------------------------------------------------------------
(***************************************************************************)
(* The program: every handler, and the token program's own instructions.   *)
(***************************************************************************)

Lifecycle(t) ==
    \/ \E role \in Role, source \in Wallet : Deposit(t, role, source)
    \/ Arm(t) \/ Activate(t) \/ Cancel(t) \/ ExpireUnarmed(t)
    \/ \E role \in Role, destination \in Wallet : Refund(t, role, destination)

Budget(t) ==
    \/ \E signer \in Key, c \in ReportedCapacity, observed_at \in Instant,
          sequence \in ReportSequence, epoch \in Counter :
          ReportCapacity(t, signer, c, observed_at, sequence, epoch)
    \/ \E p \in PolicyPeriod, need \in Need, recipient \in TokenAccount :
          ApproveTreasury(t, p, need, recipient)
    \/ \E role \in Role, n \in ReleaseAmount, destination \in TokenAccount :
          Release(t, role, n, destination)

WithdrawalHandlers ==
    /\ \/ \E k \in Subject \cup {DefaultKey} : PrepareWithdrawalKey(k)
       \/ \E t \in Instant :
             \/ \E role \in Role, recovery \in BOOLEAN, successor \in Key :
                   ProposeWithdrawal(t, role, recovery, successor)
             \/ \E q \in proposals : \/ ExecuteWithdrawal(t, q)
                                     \/ CancelWithdrawal(t, q)
                                     \/ ExpireWithdrawal(t, q)
    /\ UNCHANGED <<governanceVars, ledgerVars, report_capacity, vaultVars>>

GovernanceHandlers(t) ==
    /\ \/ \E kind \in ChangeKind, recovery \in BOOLEAN,
             successor \in ChangeSuccessor, nonce \in Counter :
             ProposeChange(t, kind, recovery, successor, nonce)
       \/ \E q \in changes : CancelChange(t, q) \/ ExecuteChange(t, q)
    /\ UNCHANGED <<withdrawalVars, ledgerVars, report_capacity, vaultVars>>

TokenProgram ==
    \/ \E from \in Wallet, role \in Role, n \in DustAmount :
          Donate(from, role, n)
    \/ \E h \in HandOver : SetAuthority(h[1], h[2])

VNext ==
    \/ \E t \in Instant : Lifecycle(t) \/ Budget(t) \/ GovernanceHandlers(t)
    \/ WithdrawalHandlers
    \/ TokenProgram

VSpec == VInit /\ [][VNext]_vars

(* Activation and expiry need no signature, and a depositor who can take   *)
(* the money back is assumed to do so.                                     *)
VFairness ==
    /\ WF_vars(\E t \in Instant : Activate(t))
    /\ WF_vars(\E t \in Instant : ExpireUnarmed(t))
    /\ \A role \in Role :
          WF_vars(\E t \in Instant, destination \in Wallet :
                     Refund(t, role, destination))

VFairSpec == VSpec /\ VFairness

-----------------------------------------------------------------------------
(***************************************************************************)
(* Properties.                                                             *)
(***************************************************************************)

(* Layout and range of the accounts of state.rs:151-178 and of contexts.rs *)
VTypeOK ==
    /\ WTypeOK /\ GTypeOK /\ CTypeOK
    /\ funded_mask \subseteq Role
    /\ depositor \in [Role -> Key \cup {DefaultKey}]
    /\ approvals \subseteq TreasuryApproval
    /\ token \in [TokenAccount -> TokenRecord]

(* The promise to depositors, as an abstract escrow (lib.rs:127-253 and    *)
(* 333-459): all or nothing funding, then either payments or refunds.      *)
Escrow == INSTANCE LaunchEscrow WITH
    Pool <- Role,
    principal <- amount,
    phase <- CASE state = PREPARED  -> "open"
               [] state = ARMED     -> "committed"
               [] state = ACTIVE    -> "paying"
               [] state = CANCELLED -> "aborted",
    funded <- funded_mask,
    held <- [role \in Role |-> in_custody(role)],
    paid <- released_total

ImplementsEscrow == Escrow!Spec

(* The three components were specified against environments of their own   *)
(* (OtherHandler*, RecordRecipient, SetCapacity): the handlers of lib.rs   *)
(* do to each of them only what that environment may do, so whatever holds *)
(* of a component holds of the program.                                    *)
ImplementsComponents == WSpec /\ GSpec /\ CSpec

(* From arming on a pool always holds what it has not yet released,        *)
(* however dust, releases into the other pool's custody account and        *)
(* lifecycle moves interleave; before activation nothing has been released *)
(* (lib.rs:183 argues this from the order of the handlers).                *)
Solvent ==
    /\ state \in {ARMED, ACTIVE} =>
          \A role \in Role :
             in_custody(role) >= amount[role] - released_total[role]
    /\ state # ACTIVE => \A role \in Role : released_total[role] = 0

(* The approvals and the budget are two ledgers of the same Treasury       *)
(* spending: in total, and for the period the budget is in.                *)
ApprovalsMatchBudget ==
    LET consumed(A) == SumFunction([a \in A |-> a.consumed])
        current == {a \in approvals : a.period = period}
    IN /\ consumed(approvals) = released_total[TREASURY]
       /\ consumed(current) = period_used[TREASURY]
       /\ \A a \in approvals : a.consumed <= a.need

(* Every key the program knows to be a beneficiary, past, present or       *)
(* prospective, or a guardian of one.                                      *)
KnownInsiders ==
    ConfiguredInsiders
    \cup {withdrawal[role].current : role \in Role}
    \cup {q.successor : q \in {p \in proposals :
             p.status \in {PROPOSAL_PENDING, PROPOSAL_EXECUTED}}}

(* No release leaves a pool for the wrong hands, whatever rotations,       *)
(* recoveries or hand-overs of the receiving account came in between: the  *)
(* Treasury pays only outsiders, the Founder pool only the current key.    *)
RightfulPayee ==
    [][\A role \in Role : released_total'[role] # released_total[role] =>
         \E a \in TokenAccount :
            /\ token'[a].amount - token[a].amount
                  = released_total'[role] - released_total[role]
            /\ IF role = FOUNDER
               THEN token[a].owner = withdrawal[FOUNDER].current
               ELSE /\ token[a].owner \notin KnownInsiders
                    /\ \E b \in approvals : /\ b.recipient = a
                                            /\ b.recipient_owner = token[a].owner]_vars

(* A release is backed by an observation of the oracle who is in office    *)
(* when it lands, made in office, in the same period and recently: neither *)
(* a rotation nor a period boundary lets an older report through.          *)
ReleaseBackedByOracle ==
    [][released_total' # released_total =>
         /\ report.epoch = Cardinality({q \in changes :
               q.kind = CHANGE_ORACLE /\ q.status = PROPOSAL_EXECUTED})
         /\ report.at >= oracle_activated_at
         /\ period_at(report.at) = period_at(last_action_at')
         /\ last_action_at' - report.at <= max_report_age]_vars

(* A launch never stays undecided: whoever disappears, it starts or is     *)
(* cancelled (activate and expire_unarmed need nobody's consent).          *)
LaunchSettles ==
    state \in {PREPARED, ARMED} ~> state \in {ACTIVE, CANCELLED}

(* After a cancellation every pool is emptied back to its depositor.       *)
RefundsComplete ==
    \A role \in Role : state = CANCELLED ~> in_custody(role) = 0
==============================================================================
