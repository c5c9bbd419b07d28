--------------------------- MODULE LaunchWithdrawal ---------------------------
(***************************************************************************)
(* Beneficiary withdrawal keys of launch-vault-v7 (withdrawal.rs): normal  *)
(* rotation and two-of-three recovery of the Founder and Treasury signing  *)
(* keys, with a 90-day pause, a 30-day execution window and a permanent    *)
(* index of the keys that were ever an authority or a payment recipient.   *)
(*                                                                         *)
(* Accounts the program creates once and never closes are kept in          *)
(* `proposals' (a set of records) and in `key_record' (whose `exists' flag *)
(* says that prepare_withdrawal_key created the account).                  *)
(***************************************************************************)
EXTENDS LaunchState, FiniteSets

VARIABLES
    withdrawal,    \* policy.withdrawal: current key, epoch, nonces per role
    key_record,    \* WithdrawalKeyV7 accounts, by subject
    proposals      \* WithdrawalProposalV7 accounts

withdrawalVars == <<withdrawal, key_record, proposals>>
wvars == <<state, last_action_at, withdrawal, key_record, proposals>>

WithdrawalRole ==
    [current : Key, epoch : Counter, sequence : Counter, pending : Counter]

KeyRecord ==
    [exists : BOOLEAN, history : SUBSET Role, pending : SUBSET Role,
     recipient : BOOLEAN]

WithdrawalProposal ==
    [role : Role, nonce : Counter, epoch : Counter, predecessor : Key,
     successor : Key, recovery : BOOLEAN, created_at : Instant,
     execute_after : 0..I64_MAX, expires_at : 0..I64_MAX,
     status : ProposalStatus, finished_at : 0..I64_MAX]

NoKeyRecord ==
    [exists |-> FALSE, history |-> {}, pending |-> {}, recipient |-> FALSE]

WInit ==
    /\ StateInit
    /\ withdrawal = [role \in Role |->
                       [current |-> owner_for(role), epoch |-> 0,
                        sequence |-> 0, pending |-> 0]]
    /\ key_record = [k \in Address |-> NoKeyRecord]
    /\ proposals = {}

-----------------------------------------------------------------------------
(***************************************************************************)
(* Checks shared by the handlers.                                          *)
(***************************************************************************)

(* A paused role authenticates nobody; otherwise only the current key, and *)
(* only if the message names the current epoch.                            *)
authenticate_withdrawal(role, signer, epoch) ==
    /\ withdrawal[role].pending = 0
    /\ withdrawal[role].current = signer
    /\ withdrawal[role].epoch = epoch

withdrawal_quorum(role, signers) ==
    /\ Cardinality(signers) = 2
    /\ signers \subseteq withdrawal_keys(role)

(* Keys that the frozen configuration alone bars from Treasury payments.   *)
ConfiguredInsiders ==
    {founder, treasury} \cup founder_recovery_keys \cup treasury_recovery_keys

\* Mutants: a payee check that forgets one of the two key masks.
eligible_recipient_ignoring_pending(k) ==
    key_record[k].exists /\ k \notin ConfiguredInsiders
                         /\ key_record[k].history = {}
eligible_recipient_ignoring_history(k) ==
    key_record[k].exists /\ k \notin ConfiguredInsiders
                         /\ key_record[k].pending = {}

eligible_recipient(k) ==
    /\ key_record[k].exists
    /\ k \notin ConfiguredInsiders
    /\ key_record[k].history = {}
    /\ key_record[k].pending = {}

\* Mutant: a retired key may be proposed again.
eligible_successor_ignoring_history(role, k) ==
    key_record[k].exists /\ k # owner_for(role) /\ ~key_record[k].recipient
                         /\ k \notin withdrawal_keys(role)

eligible_successor(role, k) ==
    /\ key_record[k].exists
    /\ k # owner_for(role)
    /\ role \notin key_record[k].history
    /\ ~key_record[k].recipient
    /\ k \notin withdrawal_keys(role)

\* Mutant: no check that the notice still fits in an i64.
validate_admission_without_horizon(valid_from, valid_until, t) ==
    /\ valid_from <= t /\ t <= valid_until
    /\ valid_until - valid_from <= MAX_SUBMISSION_WINDOW

(* The signed submission interval contains now, is short, and leaves room  *)
(* for the whole notice and execution window even if landed at its end.    *)
validate_admission(valid_from, valid_until, t) ==
    /\ valid_from <= t
    /\ t <= valid_until
    /\ valid_until - valid_from <= MAX_SUBMISSION_WINDOW
    /\ valid_until + CHANGE_NOTICE + WITHDRAWAL_EXECUTION_WINDOW <= I64_MAX

(* The live proposal of its role, as withdrawal.rs::pending demands.       *)
pending_withdrawal(q) ==
    LET r == withdrawal[q.role] IN
    /\ q.status = PROPOSAL_PENDING
    /\ q.nonce = r.sequence
    /\ q.nonce = r.pending
    /\ q.epoch = r.epoch
    /\ q.predecessor = r.current
    /\ q.finished_at = 0
    /\ q.role \in key_record[q.successor].pending

finished(q, status, t) == [q EXCEPT !.status = status, !.finished_at = t]

\* Mutants: the key index is not updated; the tombstone is closed.
finish_keeping_mask(q, status, t) ==
    /\ withdrawal' = [withdrawal EXCEPT ![q.role].pending = 0]
    /\ proposals' = (proposals \ {q}) \cup {finished(q, status, t)}
    /\ UNCHANGED key_record

(* withdrawal.rs::finish, for the two outcomes that leave the key alone.   *)
finish(q, status, t) ==
    /\ withdrawal' = [withdrawal EXCEPT ![q.role].pending = 0]
    /\ key_record' = [key_record EXCEPT ![q.successor].pending = @ \ {q.role}]
    /\ proposals' = (proposals \ {q}) \cup {finished(q, status, t)}

-----------------------------------------------------------------------------
(***************************************************************************)
(* Handlers.                                                               *)
(***************************************************************************)

(* Anyone may pay for the index account of any subject, without a tick.    *)
PrepareWithdrawalKey(k) ==
    /\ k # DefaultKey
    /\ state # CANCELLED
    /\ ~key_record[k].exists
    /\ key_record' = [key_record EXCEPT ![k].exists = TRUE]
    /\ UNCHANGED <<state, last_action_at, withdrawal, proposals>>

(* Who has to sign a proposal, beside the accepting successor.             *)
may_propose(role, recovery, signers) ==
    IF recovery THEN withdrawal_quorum(role, signers)
                ELSE signers = {withdrawal[role].current}

(* nonce, epoch and predecessor are bound by the signed message, which may *)
(* have been prepared against an older state.                              *)
ProposeWithdrawal(t, role, recovery, successor) ==
    /\ tick(t)
    /\ state # CANCELLED
    /\ \E from, until \in Instant : validate_admission(from, until, t)
    /\ withdrawal[role].pending = 0
    /\ \E signers \in Signers : may_propose(role, recovery, signers)
    /\ eligible_successor(role, successor)
    /\ withdrawal[role].epoch + 1 \in Counter
    /\ \E nonce, epoch \in Counter, predecessor \in Key :
          /\ nonce = withdrawal[role].sequence + 1
          /\ epoch = withdrawal[role].epoch
          /\ predecessor = withdrawal[role].current
          /\ ~\E q \in proposals : q.role = role /\ q.nonce = nonce
          /\ proposals' = proposals \cup
               {[role |-> role, nonce |-> nonce, epoch |-> epoch,
                 predecessor |-> withdrawal[role].current,
                 successor |-> successor, recovery |-> recovery,
                 created_at |-> t, execute_after |-> t + CHANGE_NOTICE,
                 expires_at |-> t + CHANGE_NOTICE + WITHDRAWAL_EXECUTION_WINDOW,
                 status |-> PROPOSAL_PENDING, finished_at |-> 0]}
          /\ withdrawal' = [withdrawal EXCEPT ![role].pending = nonce,
                                              ![role].sequence = nonce]
    /\ key_record' =
         [key_record EXCEPT ![successor].pending = @ \cup {role}]
    /\ UNCHANGED state

\* Mutant: the closing boundary is one second late.
in_closed_execution_window(q, t) == q.execute_after <= t /\ t <= q.expires_at

in_execution_window(q, t) == q.execute_after <= t /\ t < q.expires_at

(* Permissionless once the notice has run, until the window closes.        *)
ExecuteWithdrawal(t, q) ==
    /\ tick(t)
    /\ state # CANCELLED
    /\ pending_withdrawal(q)
    /\ in_execution_window(q, t)
    /\ eligible_successor(q.role, q.successor)
    /\ withdrawal[q.role].epoch + 1 \in Counter
    /\ withdrawal' = [withdrawal EXCEPT ![q.role].current = q.successor,
                                        ![q.role].epoch = @ + 1,
                                        ![q.role].pending = 0]
    /\ key_record' =
         [key_record EXCEPT ![q.successor].history = @ \cup {q.role},
                            ![q.successor].pending = @ \ {q.role}]
    /\ proposals' = (proposals \ {q}) \cup {finished(q, PROPOSAL_EXECUTED, t)}
    /\ UNCHANGED state

(* The committee, the successor, or the current key of a normal rotation.  *)
may_cancel(q, signers) ==
    \/ withdrawal_quorum(q.role, signers)
    \/ signers = {q.successor}
    \/ ~q.recovery /\ signers = {withdrawal[q.role].current}

(* Allowed in every lifecycle state, CANCELLED included.                   *)
CancelWithdrawal(t, q) ==
    /\ tick(t)
    /\ pending_withdrawal(q)
    /\ \E signers \in Signers : may_cancel(q, signers)
    /\ finish(q, PROPOSAL_CANCELLED, t)
    /\ UNCHANGED state

\* Mutant: expiry refuses a cancelled policy, as execution does.
ExpireUnlessCancelled(t, q) ==
    /\ tick(t) /\ state # CANCELLED /\ pending_withdrawal(q)
    /\ t >= q.expires_at
    /\ finish(q, PROPOSAL_EXPIRED, t)
    /\ UNCHANGED state

(* Permissionless, in every lifecycle state, from the end of the window.   *)
ExpireWithdrawal(t, q) ==
    /\ tick(t)
    /\ pending_withdrawal(q)
    /\ t >= q.expires_at
    /\ finish(q, PROPOSAL_EXPIRED, t)
    /\ UNCHANGED state

-----------------------------------------------------------------------------
(***************************************************************************)
(* What the other handlers of the program do to this component's state.    *)
(***************************************************************************)

(* approve_treasury: the payee of an approval is remembered for good.      *)
RecordRecipient(t, k) ==
    /\ tick(t)
    /\ state # CANCELLED
    /\ withdrawal[TREASURY].pending = 0
    /\ eligible_recipient(k)
    /\ key_record' = [key_record EXCEPT ![k].recipient = TRUE]
    /\ UNCHANGED <<state, withdrawal, proposals>>

(* Every other mutating handler ticks and may move the lifecycle.          *)
OtherHandler(t) ==
    /\ tick(t)
    /\ LifecycleMove \/ UNCHANGED state
    /\ UNCHANGED withdrawalVars

WNext ==
    \/ \E k \in Subject \cup {DefaultKey} : PrepareWithdrawalKey(k)
    \/ \E t \in Instant :
          \/ \E role \in Role, recovery \in BOOLEAN, successor \in Key :
                ProposeWithdrawal(t, role, recovery, successor)
          \/ \E q \in proposals : ExecuteWithdrawal(t, q)
          \/ \E q \in proposals : CancelWithdrawal(t, q)
          \/ \E q \in proposals : ExpireWithdrawal(t, q)
          \/ \E k \in Address : RecordRecipient(t, k)
          \/ OtherHandler(t)

WSpec == WInit /\ [][WNext]_wvars

(* Anyone may submit expire_withdrawal, so a role that stays paused has    *)
(* somebody with an interest in doing so.                                  *)
WFairness ==
    \A role \in Role :
        WF_wvars(\E t \in Instant, q \in proposals :
                    q.role = role /\ ExpireWithdrawal(t, q))

WFairSpec == WSpec /\ WFairness
-----------------------------------------------------------------------------
(***************************************************************************)
(* Properties.                                                             *)
(***************************************************************************)

(* Every account keeps the layout and range of state.rs:110-149.           *)
WTypeOK ==
    /\ StateTypeOK
    /\ withdrawal \in [Role -> WithdrawalRole]
    /\ key_record \in [Address -> KeyRecord]
    /\ proposals \subseteq WithdrawalProposal

Executed(role) ==
    {q \in proposals : q.role = role /\ q.status = PROPOSAL_EXECUTED}

Pending(role) ==
    {q \in proposals : q.role = role /\ q.status = PROPOSAL_PENDING}

(* A role is paused by exactly one proposal, and that proposal still       *)
(* passes withdrawal.rs::pending and eligible_successor, whatever was      *)
(* approved, rotated or indexed since: a pause can always be ended.        *)
PauseIsResolvable ==
    \A role \in Role :
        IF withdrawal[role].pending = 0
        THEN Pending(role) = {}
        ELSE \E q \in Pending(role) :
                /\ Pending(role) = {q}
                /\ pending_withdrawal(q)
                /\ eligible_successor(role, q.successor)

(* The per-key masks of WithdrawalKeyV7 are an index of the proposal       *)
(* accounts: they never lag behind propose, execute, cancel or expire.     *)
KeyIndexAgrees ==
    \A k \in Address, role \in Role :
        /\ role \in key_record[k].pending
              <=> \E q \in Pending(role) : q.successor = k
        /\ role \in key_record[k].history
              <=> \E q \in Executed(role) : q.successor = k

(* No key is both a recorded Treasury payee and a past, present or         *)
(* prospective beneficiary key or guardian, in whichever order approvals   *)
(* and rotations were interleaved (KnownSelfPayment, IneligibleSuccessor). *)
NoSelfPayment ==
    \A k \in Address : key_record[k].recipient =>
        /\ k \notin ConfiguredInsiders
        /\ \A role \in Role :
              /\ withdrawal[role].current # k
              /\ \A q \in Pending(role) \cup Executed(role) : q.successor # k

(* The key that held a role in a given epoch, read off the proposals.      *)
Holder(role, epoch) ==
    IF epoch = 0 THEN owner_for(role)
    ELSE (CHOOSE q \in Executed(role) : q.epoch = epoch - 1).successor

(* The executed proposals of a role form one chain from the initial owner  *)
(* to the current key, one link per epoch, and no key ever comes back.     *)
AuthorityHistory ==
    \A role \in Role :
        LET last == withdrawal[role].epoch IN
        /\ Cardinality(Executed(role)) = last
        /\ \A e \in 0..(last - 1) : \E q \in Executed(role) :
              q.epoch = e /\ q.predecessor = Holder(role, e)
        /\ withdrawal[role].current = Holder(role, last)
        /\ \A d, e \in 0..last : Holder(role, d) = Holder(role, e) => d = e

(* A key change took effect only inside its window, a full notice after it *)
(* was proposed, and no two proposals of a role ever overlapped in time.   *)
NoticeHonoured ==
    \A q \in proposals :
        /\ q.status = PROPOSAL_EXECUTED =>
              /\ q.created_at + CHANGE_NOTICE <= q.finished_at
              /\ q.finished_at < q.created_at + CHANGE_NOTICE
                                   + WITHDRAWAL_EXECUTION_WINDOW
        /\ \A p \in proposals :
              p.role = q.role /\ p.nonce < q.nonce =>
                  /\ p.status # PROPOSAL_PENDING
                  /\ p.finished_at <= q.created_at

(* A pause always ends, even if the successor, the committee and the       *)
(* current key are all lost: expiry needs no signature.                    *)
PauseEnds ==
    \A role \in Role :
        withdrawal[role].pending # 0 ~> withdrawal[role].pending = 0
==============================================================================
