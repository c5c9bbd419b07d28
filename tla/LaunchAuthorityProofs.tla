------------------------- MODULE LaunchAuthorityProofs -------------------------
(***************************************************************************)
(* Proofs about who may act: the withdrawal authority (LaunchWithdrawal)   *)
(* and the control of a policy (LaunchGovernance).                         *)
(*                                                                         *)
(* WInv is the inductive invariant of the first: the checked invariants    *)
(* PauseIsResolvable, KeyIndexAgrees and NoSelfPayment support each other, *)
(* and CurrentIndexed is what they lack.  On it rest the theorems about    *)
(* the past: the notice of every change that took effect, and the chain of *)
(* keys that held a role; WInv makes the pending proposal of a role the    *)
(* only one.  GInv is that of the second.                                  *)
(***************************************************************************)
EXTENDS LaunchWithdrawal, LaunchGovernance, AmountTheorems

(* A key in office is the configured owner or is in the permanent index,   *)
(* so that approve_treasury can tell it from an outsider.                  *)
CurrentIndexed ==
    \A role \in Role :
        \/ withdrawal[role].current = owner_for(role)
        \/ role \in key_record[withdrawal[role].current].history

WInv ==
    /\ WTypeOK
    /\ PauseIsResolvable
    /\ KeyIndexAgrees
    /\ NoSelfPayment
    /\ CurrentIndexed

-----------------------------------------------------------------------------

(* The configured owners are keys, as the Config accounts say.             *)
LEMMA OwnerType == \A role \in Role : owner_for(role) \in Key
BY ConfigAssumption DEF owner_for, Role, FOUNDER, TREASURY

LEMMA ConstantFacts ==
    /\ 0 \in Counter
    /\ Key \subseteq Address
    /\ Instant \subseteq 0..I64_MAX
    /\ 0 \in 0..I64_MAX
BY TimeAssumption DEF Counter, Address

(* The initial state has no proposal and no index account.                 *)
LEMMA InitInv == WInit => WInv
<1> SUFFICES ASSUME WInit PROVE WInv
  OBVIOUS
<1> USE DEF WInit
<1>1. WTypeOK
  BY OwnerType, ConstantFacts
  DEF WTypeOK, StateTypeOK, StateInit, LifecycleState, PREPARED, WithdrawalRole,
      KeyRecord, NoKeyRecord
<1>2. Pending(FOUNDER) = {} /\ Pending(TREASURY) = {}
      /\ Executed(FOUNDER) = {} /\ Executed(TREASURY) = {}
  BY DEF Pending, Executed
<1>3. PauseIsResolvable
  BY <1>2 DEF PauseIsResolvable, Role
<1>4. KeyIndexAgrees
  BY <1>2 DEF KeyIndexAgrees, Role, NoKeyRecord
<1>5. NoSelfPayment
  BY DEF NoSelfPayment, NoKeyRecord
<1>6. CurrentIndexed
  BY DEF CurrentIndexed
<1> QED
  BY <1>1, <1>3, <1>4, <1>5, <1>6 DEF WInv

-----------------------------------------------------------------------------
(***************************************************************************)
(* Type correctness.                                                       *)
(***************************************************************************)

(* Moves of the lifecycle and of the clock stay in range.                  *)
LEMMA LifecycleType ==
    ASSUME StateTypeOK, NEW t \in Instant, tick(t),
           LifecycleMove \/ UNCHANGED state
    PROVE  StateTypeOK'
BY DEF StateTypeOK, tick, LifecycleMove, LifecycleState, PREPARED, ARMED,
       ACTIVE, CANCELLED

(* A terminal status stamped with the current instant fits the account.    *)
LEMMA FinishedType ==
    ASSUME NEW q \in WithdrawalProposal, NEW t \in Instant,
           NEW status \in ProposalStatus
    PROVE  finished(q, status, t) \in WithdrawalProposal
BY ConstantFacts DEF finished, WithdrawalProposal

(* finish writes well-formed accounts.                                     *)
LEMMA FinishType ==
    ASSUME WTypeOK, NEW q \in proposals, NEW t \in Instant,
           NEW status \in ProposalStatus, finish(q, status, t)
    PROVE  /\ withdrawal' \in [Role -> WithdrawalRole]
           /\ key_record' \in [Address -> KeyRecord]
           /\ proposals' \subseteq WithdrawalProposal
<1> USE DEF WTypeOK, finish
<1>1. q \in WithdrawalProposal /\ q.role \in Role /\ q.successor \in Address
  BY ConstantFacts DEF WithdrawalProposal
<1>2. withdrawal' \in [Role -> WithdrawalRole]
  BY <1>1, ConstantFacts DEF WithdrawalRole
<1>3. key_record' \in [Address -> KeyRecord]
  BY <1>1 DEF KeyRecord
<1>4. proposals' \subseteq WithdrawalProposal
  BY <1>1, FinishedType
<1> QED
  BY <1>2, <1>3, <1>4

(* The notice and the execution window of a new proposal fit in an i64,    *)
(* because they fit after the end of the signed submission interval.       *)
LEMMA ProposalType ==
    ASSUME WTypeOK, NEW t \in Instant, NEW role \in Role,
           NEW recovery \in BOOLEAN, NEW successor \in Key,
           ProposeWithdrawal(t, role, recovery, successor)
    PROVE  WTypeOK'
<1>1. PICK nonce \in Counter :
        /\ proposals' = proposals \cup
             {[role |-> role, nonce |-> nonce, epoch |-> withdrawal[role].epoch,
               predecessor |-> withdrawal[role].current,
               successor |-> successor, recovery |-> recovery,
               created_at |-> t, execute_after |-> t + CHANGE_NOTICE,
               expires_at |-> t + CHANGE_NOTICE + WITHDRAWAL_EXECUTION_WINDOW,
               status |-> PROPOSAL_PENDING, finished_at |-> 0]}
        /\ withdrawal' = [withdrawal EXCEPT ![role].pending = nonce,
                                            ![role].sequence = nonce]
  BY DEF ProposeWithdrawal
<1>2. t + CHANGE_NOTICE \in 0..I64_MAX
      /\ t + CHANGE_NOTICE + WITHDRAWAL_EXECUTION_WINDOW \in 0..I64_MAX
  <2>1. PICK until \in Instant :
          t <= until /\ until + CHANGE_NOTICE + WITHDRAWAL_EXECUTION_WINDOW <= I64_MAX
    BY DEF ProposeWithdrawal, validate_admission
  <2> QED
    BY <2>1, ConstantFacts, TimeAssumption
<1>3. withdrawal[role].epoch \in Counter /\ withdrawal[role].current \in Key
  BY DEF WTypeOK, WithdrawalRole
<1>4. proposals' \subseteq WithdrawalProposal
  BY <1>1, <1>2, <1>3, ConstantFacts
  DEF WTypeOK, WithdrawalProposal, ProposalStatus, PROPOSAL_PENDING
<1>5. withdrawal' \in [Role -> WithdrawalRole]
  BY <1>1 DEF WTypeOK, WithdrawalRole
<1>6. key_record' \in [Address -> KeyRecord]
  BY ConstantFacts DEF ProposeWithdrawal, WTypeOK, KeyRecord
<1>7. StateTypeOK'
  BY LifecycleType DEF ProposeWithdrawal, WTypeOK
<1> QED
  BY <1>4, <1>5, <1>6, <1>7 DEF WTypeOK

(* Execution installs the successor and leaves well-formed accounts.       *)
LEMMA ExecuteType ==
    ASSUME WTypeOK, NEW t \in Instant, NEW q \in proposals,
           ExecuteWithdrawal(t, q)
    PROVE  WTypeOK'
<1> USE DEF WTypeOK, ExecuteWithdrawal
<1>1. q \in WithdrawalProposal /\ q.role \in Role /\ q.successor \in Key
      /\ q.successor \in Address
  BY ConstantFacts DEF WithdrawalProposal
<1>2. withdrawal' \in [Role -> WithdrawalRole]
  BY <1>1, ConstantFacts DEF WithdrawalRole
<1>3. key_record' \in [Address -> KeyRecord]
  BY <1>1 DEF KeyRecord
<1>4. proposals' \subseteq WithdrawalProposal
  BY <1>1, FinishedType DEF ProposalStatus
<1>5. StateTypeOK'
  BY LifecycleType
<1> QED
  BY <1>2, <1>3, <1>4, <1>5

(* Every step of the component keeps its accounts well-formed.             *)
LEMMA TypeStep ==
    ASSUME WTypeOK, [WNext]_wvars
    PROVE  WTypeOK'
<1>1. CASE UNCHANGED wvars
  BY <1>1 DEF WTypeOK, StateTypeOK, wvars
<1>2. ASSUME NEW k \in Subject \cup {DefaultKey}, PrepareWithdrawalKey(k)
      PROVE  WTypeOK'
  <2>1. key_record' \in [Address -> KeyRecord]
    BY <1>2 DEF WTypeOK, PrepareWithdrawalKey, KeyRecord
  <2> QED
    BY <1>2, <2>1 DEF WTypeOK, StateTypeOK, PrepareWithdrawalKey
<1>3. ASSUME NEW t \in Instant, NEW role \in Role, NEW recovery \in BOOLEAN,
             NEW successor \in Key,
             ProposeWithdrawal(t, role, recovery, successor)
      PROVE  WTypeOK'
  BY <1>3, ProposalType
<1>4. ASSUME NEW t \in Instant, NEW q \in proposals, ExecuteWithdrawal(t, q)
      PROVE  WTypeOK'
  BY <1>4, ExecuteType
<1>5. ASSUME NEW t \in Instant, NEW q \in proposals,
             CancelWithdrawal(t, q) \/ ExpireWithdrawal(t, q)
      PROVE  WTypeOK'
  <2>1. PICK status \in ProposalStatus : finish(q, status, t)
    BY <1>5 DEF CancelWithdrawal, ExpireWithdrawal, ProposalStatus
  <2>2. StateTypeOK'
    BY <1>5, LifecycleType DEF CancelWithdrawal, ExpireWithdrawal, WTypeOK
  <2> QED
    BY <2>1, <2>2, FinishType DEF WTypeOK
<1>6. ASSUME NEW t \in Instant, NEW k \in Address, RecordRecipient(t, k)
      PROVE  WTypeOK'
  <2>1. StateTypeOK'
    BY <1>6, LifecycleType DEF RecordRecipient, WTypeOK
  <2>2. key_record' \in [Address -> KeyRecord]
    BY <1>6 DEF RecordRecipient, WTypeOK, KeyRecord
  <2> QED
    BY <1>6, <2>1, <2>2 DEF RecordRecipient, WTypeOK
<1>7. ASSUME NEW t \in Instant, OtherHandler(t)
      PROVE  WTypeOK'
  BY <1>7, LifecycleType DEF OtherHandler, WTypeOK, withdrawalVars
<1> QED
  BY <1>1, <1>2, <1>3, <1>4, <1>5, <1>6, <1>7 DEF WNext

(* Accounts always have the layout and range of state.rs:110-149; in       *)
(* particular no nonce, epoch or time ever leaves its integer type.        *)
THEOREM TypeCorrect == WSpec => []WTypeOK
<1>1. WInit => WTypeOK
  BY InitInv DEF WInv
<1>2. WTypeOK /\ [WNext]_wvars => WTypeOK'
  BY TypeStep
<1> QED
  BY <1>1, <1>2, PTL DEF WSpec

-----------------------------------------------------------------------------
(***************************************************************************)
(* The inductive invariant, one action at a time.                          *)
(***************************************************************************)

(* The proposal a handler accepts as live is the only pending one.         *)
LEMMA LiveIsOnly ==
    ASSUME WInv, NEW q \in proposals, pending_withdrawal(q)
    PROVE  /\ q.role \in Role /\ q.successor \in Key
           /\ q \in WithdrawalProposal
           /\ Pending(q.role) = {q}
           /\ eligible_successor(q.role, q.successor)
<1>1. q \in WithdrawalProposal /\ q.role \in Role /\ q.successor \in Key
  BY DEF WInv, WTypeOK, WithdrawalProposal
<1>2. q \in Pending(q.role)
  BY DEF Pending, pending_withdrawal
<1> QED
  BY <1>1, <1>2 DEF WInv, PauseIsResolvable

(* What closing a live proposal does to the sets of proposals.             *)
LEMMA CloseSets ==
    ASSUME NEW q \in proposals, NEW t, NEW status \in ProposalStatus,
           q \in WithdrawalProposal, Pending(q.role) = {q},
           q.status = PROPOSAL_PENDING, status # PROPOSAL_PENDING,
           proposals' = (proposals \ {q}) \cup {finished(q, status, t)}
    PROVE  /\ Pending(q.role)' = {}
           /\ \A r \in Role \ {q.role} : /\ Pending(r)' = Pending(r)
                                         /\ Executed(r)' = Executed(r)
           /\ status # PROPOSAL_EXECUTED =>
                 Executed(q.role)' = Executed(q.role)
           /\ status = PROPOSAL_EXECUTED =>
                 Executed(q.role)' = Executed(q.role) \cup {finished(q, status, t)}
           /\ finished(q, status, t).successor = q.successor
<1> DEFINE c == finished(q, status, t)
<1>1. c.role = q.role /\ c.status = status /\ c.successor = q.successor
  BY DEF finished, WithdrawalProposal
<1>2. proposals' = (proposals \ {q}) \cup {c}
  OBVIOUS
<1> HIDE DEF c
<1>3. Pending(q.role)' = {}
  BY <1>1, <1>2 DEF Pending
<1>4. \A r \in Role \ {q.role} : Pending(r)' = Pending(r) /\ Executed(r)' = Executed(r)
  BY <1>1, <1>2 DEF Pending, Executed
<1>5. status # PROPOSAL_EXECUTED => Executed(q.role)' = Executed(q.role)
  BY <1>1, <1>2 DEF Executed, PROPOSAL_EXECUTED, PROPOSAL_PENDING
<1>6. status = PROPOSAL_EXECUTED => Executed(q.role)' = Executed(q.role) \cup {c}
  BY <1>1, <1>2 DEF Executed, PROPOSAL_EXECUTED, PROPOSAL_PENDING
<1> QED
  BY <1>1, <1>3, <1>4, <1>5, <1>6 DEF c

(* propose_withdrawal opens the only pause of its role.                    *)
LEMMA ProposeInv ==
    ASSUME WInv, WTypeOK', NEW t \in Instant, NEW role \in Role,
           NEW recovery \in BOOLEAN, NEW successor \in Key,
           ProposeWithdrawal(t, role, recovery, successor)
    PROVE  WInv'
<1>1. PICK r : /\ proposals' = proposals \cup {r}
               /\ r.role = role /\ r.successor = successor
               /\ r.status = PROPOSAL_PENDING /\ r.finished_at = 0
               /\ r.nonce = withdrawal[role].sequence + 1
               /\ r.epoch = withdrawal[role].epoch
               /\ r.predecessor = withdrawal[role].current
               /\ withdrawal' = [withdrawal EXCEPT ![role].pending = r.nonce,
                                                   ![role].sequence = r.nonce]
  <2>1. PICK nonce \in Counter :
          /\ nonce = withdrawal[role].sequence + 1
          /\ proposals' = proposals \cup
               {[role |-> role, nonce |-> nonce, epoch |-> withdrawal[role].epoch,
                 predecessor |-> withdrawal[role].current,
                 successor |-> successor, recovery |-> recovery,
                 created_at |-> t, execute_after |-> t + CHANGE_NOTICE,
                 expires_at |-> t + CHANGE_NOTICE + WITHDRAWAL_EXECUTION_WINDOW,
                 status |-> PROPOSAL_PENDING, finished_at |-> 0]}
          /\ withdrawal' = [withdrawal EXCEPT ![role].pending = nonce,
                                              ![role].sequence = nonce]
    BY DEF ProposeWithdrawal
  <2> DEFINE r == [role |-> role, nonce |-> nonce, epoch |-> withdrawal[role].epoch,
                   predecessor |-> withdrawal[role].current,
                   successor |-> successor, recovery |-> recovery,
                   created_at |-> t, execute_after |-> t + CHANGE_NOTICE,
                   expires_at |-> t + CHANGE_NOTICE + WITHDRAWAL_EXECUTION_WINDOW,
                   status |-> PROPOSAL_PENDING, finished_at |-> 0]
  <2> WITNESS r
  <2> QED
    BY <2>1
<1>2. /\ withdrawal \in [Role -> WithdrawalRole]
      /\ key_record \in [Address -> KeyRecord]
      /\ successor \in Address
  BY ConstantFacts DEF WInv, WTypeOK
<1>3. /\ withdrawal'[role].pending = r.nonce /\ withdrawal'[role].sequence = r.nonce
      /\ withdrawal'[role].epoch = r.epoch /\ withdrawal'[role].current = r.predecessor
      /\ \A o \in Role \ {role} : withdrawal'[o] = withdrawal[o]
      /\ \A o \in Role : withdrawal'[o].current = withdrawal[o].current
  BY <1>1, <1>2 DEF WithdrawalRole
<1>4. r.nonce # 0
  BY <1>1, <1>2, TimeAssumption DEF WithdrawalRole, Counter
<1>5. \A k \in Address : /\ key_record'[k].history = key_record[k].history
                         /\ key_record'[k].exists = key_record[k].exists
                         /\ key_record'[k].recipient = key_record[k].recipient
                         /\ key_record'[k].pending = IF k = successor
                               THEN key_record[k].pending \cup {role}
                               ELSE key_record[k].pending
  <2>1. key_record' = [key_record EXCEPT ![successor].pending = @ \cup {role}]
    BY DEF ProposeWithdrawal
  <2> TAKE k \in Address
  <2>2. key_record[k] \in KeyRecord
    BY <1>2
  <2>3. key_record'[k] = IF k = successor
          THEN [key_record[k] EXCEPT !.pending = @ \cup {role}] ELSE key_record[k]
    BY <1>2, <2>1
  <2> QED
    BY <2>2, <2>3 DEF KeyRecord
<1>6. Pending(role) = {}
  BY DEF ProposeWithdrawal, WInv, PauseIsResolvable
<1>7. /\ Pending(role)' = {r}
      /\ \A o \in Role \ {role} : Pending(o)' = Pending(o)
      /\ \A o \in Role : Executed(o)' = Executed(o)
  BY <1>1, <1>6 DEF Pending, Executed, PROPOSAL_PENDING, PROPOSAL_EXECUTED
<1>8. eligible_successor(role, successor)
  BY DEF ProposeWithdrawal
<1>9. PauseIsResolvable'
  <2> SUFFICES ASSUME NEW o \in Role
               PROVE  (IF withdrawal[o].pending = 0 THEN Pending(o) = {}
                       ELSE \E q \in Pending(o) :
                              /\ Pending(o) = {q} /\ pending_withdrawal(q)
                              /\ eligible_successor(o, q.successor))'
    BY DEF PauseIsResolvable
  <2>1. CASE o = role
    <3>1. pending_withdrawal(r)'
      <4>1. role \in key_record'[r.successor].pending
        BY <1>1, <1>2, <1>5
      <4>2. r.nonce = withdrawal'[role].sequence /\ r.nonce = withdrawal'[role].pending
            /\ r.epoch = withdrawal'[role].epoch
            /\ r.predecessor = withdrawal'[role].current
        BY <1>3
      <4> QED
        BY <1>1, <4>1, <4>2 DEF pending_withdrawal
    <3>2. eligible_successor(role, successor)'
      BY <1>2, <1>5, <1>8 DEF eligible_successor
    <3> QED
      BY <1>1, <1>3, <1>4, <1>7, <2>1, <3>1, <3>2
  <2>2. CASE o # role
    <3>1. CASE withdrawal[o].pending = 0
      BY <1>3, <1>7, <2>2, <3>1 DEF WInv, PauseIsResolvable
    <3>2. CASE withdrawal[o].pending # 0
      <4>1. PICK q \in Pending(o) : /\ Pending(o) = {q} /\ pending_withdrawal(q)
                                    /\ eligible_successor(o, q.successor)
        BY <3>2 DEF WInv, PauseIsResolvable
      <4>2. q \in WithdrawalProposal /\ q.role = o /\ q.successor \in Address
        BY ConstantFacts DEF Pending, WInv, WTypeOK, WithdrawalProposal
      <4>3. pending_withdrawal(q)'
        BY <1>3, <1>5, <2>2, <4>1, <4>2 DEF pending_withdrawal
      <4>4. eligible_successor(o, q.successor)'
        BY <1>5, <4>1, <4>2 DEF eligible_successor
      <4> QED
        BY <1>3, <1>7, <2>2, <3>2, <4>1, <4>3, <4>4
    <3> QED
      BY <3>1, <3>2
  <2> QED
    BY <2>1, <2>2
<1>10. KeyIndexAgrees'
  <2> SUFFICES ASSUME NEW k \in Address, NEW o \in Role
      PROVE  (/\ o \in key_record[k].pending
                    <=> \E q \in Pending(o) : q.successor = k
              /\ o \in key_record[k].history
                    <=> \E q \in Executed(o) : q.successor = k)'
    BY DEF KeyIndexAgrees
  <2>1. /\ o \in key_record[k].pending <=> \E q \in Pending(o) : q.successor = k
        /\ o \in key_record[k].history <=> \E q \in Executed(o) : q.successor = k
    BY DEF WInv, KeyIndexAgrees
  <2> QED
    <3>1. o \in key_record'[k].history <=> \E q \in Executed(o)' : q.successor = k
      BY <1>5, <1>7, <2>1
    <3>2. CASE o = role
      BY <1>1, <1>5, <1>6, <1>7, <2>1, <3>1, <3>2
    <3>3. CASE o # role
      <4>1. o \in key_record'[k].pending <=> o \in key_record[k].pending
        BY <1>5, <3>3
      <4>2. Pending(o)' = Pending(o)
        BY <1>7, <3>3
      <4> QED
        BY <2>1, <3>1, <4>1, <4>2
    <3> QED
      BY <3>2, <3>3
<1>11. NoSelfPayment'
  <2> SUFFICES ASSUME NEW k \in Address, key_record'[k].recipient, NEW o \in Role
      PROVE  /\ k \notin ConfiguredInsiders
             /\ withdrawal'[o].current # k
             /\ \A q \in Pending(o)' \cup Executed(o)' : q.successor # k
    BY DEF NoSelfPayment, ConfiguredInsiders
  <2>1. /\ k \notin ConfiguredInsiders
        /\ withdrawal[o].current # k
        /\ \A q \in Pending(o) \cup Executed(o) : q.successor # k
    BY <1>5 DEF WInv, NoSelfPayment
  <2>2. k # successor
    BY <1>5, <1>8 DEF eligible_successor
  <2> QED
    BY <1>1, <1>3, <1>7, <2>1, <2>2
<1>12. CurrentIndexed'
  <2> SUFFICES ASSUME NEW o \in Role
      PROVE  \/ withdrawal'[o].current = owner_for(o)
             \/ o \in key_record'[withdrawal'[o].current].history
    BY DEF CurrentIndexed, owner_for
  <2>1. withdrawal[o].current \in Address
    BY <1>2, ConstantFacts DEF WithdrawalRole
  <2> QED
    BY <1>3, <1>5, <2>1 DEF WInv, CurrentIndexed
<1> QED
  BY <1>9, <1>10, <1>11, <1>12 DEF WInv

(* What a handler that closes q has to leave behind, whether or not it     *)
(* also installs q.successor.                                              *)
Closes(q, status, t) ==
    /\ status \in ProposalStatus \ {PROPOSAL_PENDING}
    /\ proposals' = (proposals \ {q}) \cup {finished(q, status, t)}
    /\ withdrawal'[q.role].pending = 0
    /\ withdrawal'[q.role].current =
          IF status = PROPOSAL_EXECUTED THEN q.successor
                                        ELSE withdrawal[q.role].current
    /\ \A r \in Role \ {q.role} : withdrawal'[r] = withdrawal[r]
    /\ \A k \in Address :
          /\ key_record'[k].exists = key_record[k].exists
          /\ key_record'[k].recipient = key_record[k].recipient
          /\ key_record'[k].pending =
                IF k = q.successor THEN key_record[k].pending \ {q.role}
                                   ELSE key_record[k].pending
          /\ key_record'[k].history =
                IF k = q.successor /\ status = PROPOSAL_EXECUTED
                THEN key_record[k].history \cup {q.role}
                ELSE key_record[k].history

(* finish (withdrawal.rs:152-163) closes without installing anybody.       *)
LEMMA FinishCloses ==
    ASSUME WTypeOK, NEW q \in proposals, NEW t \in Instant,
           NEW status \in {PROPOSAL_CANCELLED, PROPOSAL_EXPIRED},
           finish(q, status, t)
    PROVE  Closes(q, status, t)
<1>1. q.role \in Role /\ q.successor \in Address
  BY ConstantFacts DEF WTypeOK, WithdrawalProposal
<1>2. /\ withdrawal \in [Role -> WithdrawalRole]
      /\ key_record \in [Address -> KeyRecord]
  BY DEF WTypeOK
<1>3. status \in ProposalStatus \ {PROPOSAL_PENDING} /\ status # PROPOSAL_EXECUTED
  BY DEF ProposalStatus, PROPOSAL_PENDING, PROPOSAL_EXECUTED,
         PROPOSAL_CANCELLED, PROPOSAL_EXPIRED
<1>4. /\ withdrawal'[q.role].pending = 0
      /\ withdrawal'[q.role].current = withdrawal[q.role].current
      /\ \A r \in Role \ {q.role} : withdrawal'[r] = withdrawal[r]
  BY <1>1, <1>2 DEF finish, WithdrawalRole
<1>5. ASSUME NEW k \in Address
      PROVE  /\ key_record'[k].exists = key_record[k].exists
             /\ key_record'[k].recipient = key_record[k].recipient
             /\ key_record'[k].history = key_record[k].history
             /\ key_record'[k].pending =
                  IF k = q.successor THEN key_record[k].pending \ {q.role}
                                     ELSE key_record[k].pending
  <2>1. key_record[k] \in KeyRecord
    BY <1>2
  <2>2. key_record'[k] = IF k = q.successor
          THEN [key_record[k] EXCEPT !.pending = @ \ {q.role}] ELSE key_record[k]
    BY <1>2 DEF finish
  <2> QED
    BY <2>1, <2>2 DEF KeyRecord
<1> QED
  BY <1>3, <1>4, <1>5 DEF Closes, finish

(* execute_withdrawal (withdrawal.rs:165-183) installs the successor.      *)
LEMMA ExecuteCloses ==
    ASSUME WTypeOK, NEW q \in proposals, NEW t \in Instant,
           ExecuteWithdrawal(t, q)
    PROVE  Closes(q, PROPOSAL_EXECUTED, t)
<1>1. q.role \in Role /\ q.successor \in Address
  BY ConstantFacts DEF WTypeOK, WithdrawalProposal
<1>2. /\ withdrawal \in [Role -> WithdrawalRole]
      /\ key_record \in [Address -> KeyRecord]
  BY DEF WTypeOK
<1>3. PROPOSAL_EXECUTED \in ProposalStatus \ {PROPOSAL_PENDING}
  BY DEF ProposalStatus, PROPOSAL_PENDING, PROPOSAL_EXECUTED
<1>4. /\ withdrawal'[q.role].pending = 0
      /\ withdrawal'[q.role].current = q.successor
      /\ \A r \in Role \ {q.role} : withdrawal'[r] = withdrawal[r]
  BY <1>1, <1>2 DEF ExecuteWithdrawal, WithdrawalRole
<1>5. ASSUME NEW k \in Address
      PROVE  /\ key_record'[k].exists = key_record[k].exists
             /\ key_record'[k].recipient = key_record[k].recipient
             /\ key_record'[k].history =
                  IF k = q.successor THEN key_record[k].history \cup {q.role}
                                     ELSE key_record[k].history
             /\ key_record'[k].pending =
                  IF k = q.successor THEN key_record[k].pending \ {q.role}
                                     ELSE key_record[k].pending
  <2>1. key_record[k] \in KeyRecord
    BY <1>2
  <2>2. key_record'[k] = IF k = q.successor
          THEN [key_record[k] EXCEPT !.history = @ \cup {q.role},
                                     !.pending = @ \ {q.role}]
          ELSE key_record[k]
    BY <1>2 DEF ExecuteWithdrawal
  <2> QED
    BY <2>1, <2>2 DEF KeyRecord
<1> QED
  BY <1>3, <1>4, <1>5 DEF Closes, ExecuteWithdrawal

(* Closing a live proposal ends the pause of its role and leaves the other *)
(* role, the index and the payees consistent.                              *)
LEMMA CloseInv ==
    ASSUME WInv, WTypeOK', NEW q \in proposals, NEW t \in Instant, NEW status,
           pending_withdrawal(q), Closes(q, status, t)
    PROVE  WInv'
<1>1. /\ q.role \in Role /\ q.successor \in Key /\ q \in WithdrawalProposal
      /\ Pending(q.role) = {q} /\ eligible_successor(q.role, q.successor)
  BY LiveIsOnly
<1>2. /\ Pending(q.role)' = {}
      /\ \A r \in Role \ {q.role} : Pending(r)' = Pending(r) /\ Executed(r)' = Executed(r)
      /\ status # PROPOSAL_EXECUTED => Executed(q.role)' = Executed(q.role)
      /\ status = PROPOSAL_EXECUTED =>
            Executed(q.role)' = Executed(q.role) \cup {finished(q, status, t)}
      /\ finished(q, status, t).successor = q.successor
  BY <1>1, CloseSets DEF Closes, pending_withdrawal
<1>3. q.successor \in Address /\ \A r \in Role : withdrawal[r].current \in Address
  BY <1>1, ConstantFacts DEF WInv, WTypeOK, WithdrawalRole
<1>4. PauseIsResolvable'
  <2> SUFFICES ASSUME NEW o \in Role
               PROVE  (IF withdrawal[o].pending = 0 THEN Pending(o) = {}
                       ELSE \E p \in Pending(o) :
                              /\ Pending(o) = {p} /\ pending_withdrawal(p)
                              /\ eligible_successor(o, p.successor))'
    BY DEF PauseIsResolvable
  <2>1. CASE o = q.role
    BY <1>2, <2>1 DEF Closes
  <2>2. CASE o # q.role
    <3>1. withdrawal'[o] = withdrawal[o] /\ Pending(o)' = Pending(o)
      BY <1>2, <2>2 DEF Closes
    <3>2. CASE withdrawal[o].pending = 0
      BY <3>1, <3>2 DEF WInv, PauseIsResolvable
    <3>3. CASE withdrawal[o].pending # 0
      <4>1. PICK p \in Pending(o) : /\ Pending(o) = {p} /\ pending_withdrawal(p)
                                    /\ eligible_successor(o, p.successor)
        BY <3>3 DEF WInv, PauseIsResolvable
      <4>2. p.role = o /\ p.successor \in Address
        BY ConstantFacts DEF Pending, WInv, WTypeOK, WithdrawalProposal
      <4>3. pending_withdrawal(p)'
        BY <2>2, <3>1, <4>1, <4>2 DEF pending_withdrawal, Closes
      <4>4. eligible_successor(o, p.successor)'
        BY <2>2, <4>1, <4>2 DEF eligible_successor, Closes
      <4> QED
        BY <3>1, <3>3, <4>1, <4>3, <4>4
    <3> QED
      BY <3>2, <3>3
  <2> QED
    BY <2>1, <2>2
<1>5. KeyIndexAgrees'
  <2> SUFFICES ASSUME NEW k \in Address, NEW o \in Role
      PROVE  /\ o \in key_record'[k].pending
                    <=> \E p \in Pending(o)' : p.successor = k
             /\ o \in key_record'[k].history
                    <=> \E p \in Executed(o)' : p.successor = k
    BY DEF KeyIndexAgrees
  <2>1. /\ o \in key_record[k].pending <=> \E p \in Pending(o) : p.successor = k
        /\ o \in key_record[k].history <=> \E p \in Executed(o) : p.successor = k
    BY DEF WInv, KeyIndexAgrees
  <2>2. CASE o # q.role
    <3>1. Pending(o)' = Pending(o) /\ Executed(o)' = Executed(o)
      BY <1>2, <2>2
    <3>2. /\ o \in key_record'[k].pending <=> o \in key_record[k].pending
          /\ o \in key_record'[k].history <=> o \in key_record[k].history
      <4>1. \/ key_record'[k].pending = key_record[k].pending
            \/ key_record'[k].pending = key_record[k].pending \ {q.role}
        BY DEF Closes
      <4>2. \/ key_record'[k].history = key_record[k].history
            \/ key_record'[k].history = key_record[k].history \cup {q.role}
        BY DEF Closes
      <4> QED
        BY <2>2, <4>1, <4>2
    <3> QED
      BY <2>1, <3>1, <3>2
  <2>3. CASE o = q.role
    <3>1. o \notin key_record'[k].pending
      BY <1>1, <2>1, <2>3 DEF Closes
    <3>2. CASE status = PROPOSAL_EXECUTED
      <4>1. Executed(o)' = Executed(o) \cup {finished(q, status, t)}
        BY <1>2, <2>3, <3>2
      <4>2. o \in key_record'[k].history
               <=> o \in key_record[k].history \/ k = q.successor
        BY <2>3, <3>2 DEF Closes
      <4> QED
        BY <1>2, <2>1, <2>3, <3>1, <4>1, <4>2
    <3>3. CASE status # PROPOSAL_EXECUTED
      <4>1. Executed(o)' = Executed(o)
        BY <1>2, <2>3, <3>3
      <4>2. o \in key_record'[k].history <=> o \in key_record[k].history
        BY <3>3 DEF Closes
      <4> QED
        BY <1>2, <2>1, <2>3, <3>1, <4>1, <4>2
    <3> QED
      BY <3>2, <3>3
  <2> QED
    BY <2>2, <2>3
<1>6. NoSelfPayment'
  <2>1. ASSUME NEW k \in Address, key_record'[k].recipient
        PROVE  /\ k \notin ConfiguredInsiders
               /\ k # q.successor
               /\ \A o \in Role :
                     /\ withdrawal[o].current # k
                     /\ \A p \in Pending(o) \cup Executed(o) : p.successor # k
    <3>1. key_record[k].recipient
      BY <2>1 DEF Closes
    <3> QED
      BY <1>1, <3>1 DEF WInv, NoSelfPayment, eligible_successor
  <2>2. ASSUME NEW k \in Address, key_record'[k].recipient, NEW o \in Role
        PROVE  /\ withdrawal'[o].current # k
               /\ \A p \in Pending(o)' \cup Executed(o)' : p.successor # k
    <3>1. withdrawal'[o].current \in {withdrawal[o].current, q.successor}
      BY <2>2 DEF Closes
    <3>2. \A p \in Pending(o)' \cup Executed(o)' :
             p \in Pending(o) \cup Executed(o) \/ p.successor = q.successor
      BY <1>2, <2>2
    <3> QED
      BY <2>1, <2>2, <3>1, <3>2
  <2>3. \A k \in Address : key_record'[k].recipient =>
           /\ k \notin ConfiguredInsiders
           /\ \A o \in Role :
                 /\ withdrawal'[o].current # k
                 /\ \A p \in Pending(o)' \cup Executed(o)' : p.successor # k
    BY <2>1, <2>2
  <2> QED
    BY <2>3 DEF NoSelfPayment, ConfiguredInsiders
<1>7. CurrentIndexed'
  <2> SUFFICES ASSUME NEW o \in Role
      PROVE  \/ withdrawal'[o].current = owner_for(o)
             \/ o \in key_record'[withdrawal'[o].current].history
    BY DEF CurrentIndexed, owner_for
  <2>1. CASE o = q.role /\ status = PROPOSAL_EXECUTED
    BY <1>3, <2>1 DEF Closes
  <2>2. CASE ~(o = q.role /\ status = PROPOSAL_EXECUTED)
    <3>1. withdrawal'[o].current = withdrawal[o].current
      BY <2>2 DEF Closes
    <3>2. \A k \in Address : key_record[k].history \subseteq key_record'[k].history
      BY DEF Closes
    <3> QED
      BY <1>3, <3>1, <3>2 DEF WInv, CurrentIndexed
  <2> QED
    BY <2>1, <2>2
<1> QED
  BY <1>4, <1>5, <1>6, <1>7 DEF WInv

(* A step that leaves authorities and proposals alone, and of the index    *)
(* changes at most the `exists' and `recipient' flags.                     *)
LEMMA IndexFlagInv ==
    ASSUME WInv, WTypeOK', UNCHANGED <<withdrawal, proposals>>,
           \A k \in Address :
              /\ key_record'[k].pending = key_record[k].pending
              /\ key_record'[k].history = key_record[k].history
              /\ key_record[k].exists => key_record'[k].exists
              /\ key_record'[k].recipient =>
                    key_record[k].recipient \/ eligible_recipient(k)
    PROVE  WInv'
<1>1. \A o \in Role : Pending(o)' = Pending(o) /\ Executed(o)' = Executed(o)
  BY DEF Pending, Executed
<1>2. ASSUME NEW k \in Address, key_record[k].pending # {}
      PROVE  key_record'[k].recipient => key_record[k].recipient
  BY <1>2 DEF eligible_recipient
<1>3. PauseIsResolvable'
  <2> SUFFICES ASSUME NEW o \in Role
               PROVE  (IF withdrawal[o].pending = 0 THEN Pending(o) = {}
                       ELSE \E q \in Pending(o) :
                              /\ Pending(o) = {q} /\ pending_withdrawal(q)
                              /\ eligible_successor(o, q.successor))'
    BY DEF PauseIsResolvable
  <2>1. CASE withdrawal[o].pending = 0
    BY <1>1, <2>1 DEF WInv, PauseIsResolvable
  <2>2. CASE withdrawal[o].pending # 0
    <3>1. PICK q \in Pending(o) : /\ Pending(o) = {q} /\ pending_withdrawal(q)
                                  /\ eligible_successor(o, q.successor)
      BY <2>2 DEF WInv, PauseIsResolvable
    <3>2. q.successor \in Address
      BY ConstantFacts DEF Pending, WInv, WTypeOK, WithdrawalProposal
    <3>3. pending_withdrawal(q)'
      BY <3>1, <3>2 DEF pending_withdrawal
    <3>4. ~key_record'[q.successor].recipient
      BY <1>2, <3>1, <3>2 DEF pending_withdrawal, eligible_successor
    <3>5. eligible_successor(o, q.successor)'
      BY <3>1, <3>2, <3>4 DEF eligible_successor
    <3> QED
      BY <1>1, <2>2, <3>1, <3>3, <3>5
  <2> QED
    BY <2>1, <2>2
<1>4. KeyIndexAgrees'
  BY <1>1 DEF WInv, KeyIndexAgrees
<1>5. NoSelfPayment'
  <2>1. ASSUME NEW k \in Address, key_record'[k].recipient, NEW o \in Role
        PROVE  /\ k \notin ConfiguredInsiders
               /\ withdrawal[o].current # k
               /\ \A p \in Pending(o) \cup Executed(o) : p.successor # k
    <3>1. CASE key_record[k].recipient
      BY <3>1 DEF WInv, NoSelfPayment
    <3>2. CASE eligible_recipient(k)
      <4>1. k \notin ConfiguredInsiders /\ owner_for(o) \in ConfiguredInsiders
        BY <3>2 DEF eligible_recipient, ConfiguredInsiders, owner_for
      <4>2. withdrawal[o].current # k
        BY <3>2, <4>1 DEF WInv, CurrentIndexed, eligible_recipient
      <4>3. \A p \in Pending(o) \cup Executed(o) : p.successor # k
        BY <3>2 DEF WInv, KeyIndexAgrees, eligible_recipient
      <4> QED
        BY <4>1, <4>2, <4>3
    <3> QED
      BY <2>1, <3>1, <3>2
  <2>2. \A k \in Address : key_record'[k].recipient =>
           /\ k \notin ConfiguredInsiders
           /\ \A o \in Role :
                 /\ withdrawal'[o].current # k
                 /\ \A p \in Pending(o)' \cup Executed(o)' : p.successor # k
    <3> SUFFICES ASSUME NEW k \in Address, key_record'[k].recipient
                 PROVE  /\ k \notin ConfiguredInsiders
                        /\ \A o \in Role :
                              /\ withdrawal'[o].current # k
                              /\ \A p \in Pending(o)' \cup Executed(o)' :
                                    p.successor # k
      OBVIOUS
    <3>1. k \notin ConfiguredInsiders
      BY <2>1 DEF Role
    <3> QED
      BY <1>1, <2>1, <3>1
  <2> QED
    BY <2>2 DEF NoSelfPayment, ConfiguredInsiders
<1>6. CurrentIndexed'
  <2>1. \A o \in Role : withdrawal[o].current \in Address
    BY ConstantFacts DEF WInv, WTypeOK, WithdrawalRole
  <2> QED
    BY <2>1 DEF WInv, CurrentIndexed, owner_for
<1> QED
  BY <1>3, <1>4, <1>5, <1>6 DEF WInv

(* WInv is inductive.                                                      *)
LEMMA InvStep ==
    ASSUME WInv, [WNext]_wvars
    PROVE  WInv'
<1>1. WTypeOK' /\ key_record \in [Address -> KeyRecord]
  BY TypeStep DEF WInv, WTypeOK
<1>2. CASE UNCHANGED <<withdrawal, key_record, proposals>>
  BY <1>1, <1>2, IndexFlagInv
<1>3. ASSUME NEW k \in Subject \cup {DefaultKey}, PrepareWithdrawalKey(k)
      PROVE  WInv'
  <2>1. ASSUME NEW c \in Address
        PROVE  /\ key_record'[c].pending = key_record[c].pending
               /\ key_record'[c].history = key_record[c].history
               /\ key_record[c].exists => key_record'[c].exists
               /\ key_record'[c].recipient = key_record[c].recipient
    <3>1. key_record[c] \in KeyRecord
      BY <1>1
    <3>2. key_record'[c] = IF c = k THEN [key_record[c] EXCEPT !.exists = TRUE]
                                    ELSE key_record[c]
      BY <1>1, <1>3 DEF PrepareWithdrawalKey
    <3> QED
      BY <3>1, <3>2 DEF KeyRecord
  <2> QED
    BY <1>1, <1>3, <2>1, IndexFlagInv DEF PrepareWithdrawalKey
<1>4. ASSUME NEW t \in Instant, NEW k \in Address, RecordRecipient(t, k)
      PROVE  WInv'
  <2>1. ASSUME NEW c \in Address
        PROVE  /\ key_record'[c].pending = key_record[c].pending
               /\ key_record'[c].history = key_record[c].history
               /\ key_record[c].exists => key_record'[c].exists
               /\ key_record'[c].recipient => key_record[c].recipient \/ c = k
    <3>1. key_record[c] \in KeyRecord
      BY <1>1
    <3>2. key_record'[c] = IF c = k THEN [key_record[c] EXCEPT !.recipient = TRUE]
                                    ELSE key_record[c]
      BY <1>1, <1>4 DEF RecordRecipient
    <3> QED
      BY <3>1, <3>2 DEF KeyRecord
  <2> QED
    BY <1>1, <1>4, <2>1, IndexFlagInv DEF RecordRecipient
<1>5. ASSUME NEW t \in Instant, NEW role \in Role, NEW recovery \in BOOLEAN,
             NEW successor \in Key,
             ProposeWithdrawal(t, role, recovery, successor)
      PROVE  WInv'
  BY <1>1, <1>5, ProposeInv
<1>6. ASSUME NEW t \in Instant, NEW q \in proposals, ExecuteWithdrawal(t, q)
      PROVE  WInv'
  <2>1. Closes(q, PROPOSAL_EXECUTED, t)
    BY <1>6, ExecuteCloses DEF WInv
  <2> QED
    BY <1>1, <1>6, <2>1, CloseInv DEF ExecuteWithdrawal
<1>7. ASSUME NEW t \in Instant, NEW q \in proposals,
             CancelWithdrawal(t, q) \/ ExpireWithdrawal(t, q)
      PROVE  WInv'
  <2>1. PICK status \in {PROPOSAL_CANCELLED, PROPOSAL_EXPIRED} :
          finish(q, status, t)
    BY <1>7 DEF CancelWithdrawal, ExpireWithdrawal
  <2>2. Closes(q, status, t)
    BY <2>1, FinishCloses DEF WInv
  <2> QED
    BY <1>1, <1>7, <2>2, CloseInv DEF CancelWithdrawal, ExpireWithdrawal
<1> QED
  BY <1>2, <1>3, <1>4, <1>5, <1>6, <1>7
  DEF WNext, wvars, OtherHandler, withdrawalVars

(* WInv holds in every reachable state.                                    *)
THEOREM InductiveInvariant == WSpec => []WInv
<1>1. WInit => WInv
  BY InitInv
<1>2. WInv /\ [WNext]_wvars => WInv'
  BY InvStep
<1> QED
  BY <1>1, <1>2, PTL DEF WSpec

(* No sequence of approvals, rotations and recoveries makes a recorded     *)
(* Treasury payee a beneficiary key or a guardian, or the reverse.         *)
THEOREM SelfPaymentExcluded == WSpec => []NoSelfPayment
BY InductiveInvariant, PTL DEF WInv

(* A paused role always has exactly one proposal that can still be         *)
(* executed, cancelled or expired.                                         *)
THEOREM PausesResolvable == WSpec => []PauseIsResolvable
BY InductiveInvariant, PTL DEF WInv

(* The masks of the key accounts are an exact index of the proposals.      *)
THEOREM IndexIsExact == WSpec => []KeyIndexAgrees
BY InductiveInvariant, PTL DEF WInv

-----------------------------------------------------------------------------
(***************************************************************************)
(* The past of a role: notices and succession.                             *)
(***************************************************************************)

(* What the dates and nonces of the proposal accounts say besides          *)
(* NoticeHonoured: execute_withdrawal reads the recorded maturity, and the *)
(* notices of a role cannot overlap because nonces follow the clock.       *)
Dated(q) ==
    /\ q.execute_after = q.created_at + CHANGE_NOTICE
    /\ q.expires_at = q.execute_after + WITHDRAWAL_EXECUTION_WINDOW
    /\ q.nonce <= withdrawal[q.role].sequence
    /\ q.created_at <= last_action_at
    /\ q.status # PROPOSAL_PENDING => q.finished_at <= last_action_at

Taken(q) ==
    q.status = PROPOSAL_EXECUTED =>
        /\ q.created_at + CHANGE_NOTICE <= q.finished_at
        /\ q.finished_at < q.created_at + CHANGE_NOTICE
                             + WITHDRAWAL_EXECUTION_WINDOW

Before(p, q) ==
    p.role = q.role /\ p.nonce < q.nonce =>
        /\ p.status # PROPOSAL_PENDING
        /\ p.finished_at <= q.created_at

NoticeInv ==
    /\ \A q \in proposals : Dated(q) /\ Taken(q)
    /\ \A p, q \in proposals : Before(p, q)

LEMMA NoticeOfInv == NoticeInv => NoticeHonoured
BY DEF NoticeInv, NoticeHonoured, Taken, Before

LEMMA ClockFacts ==
    /\ Instant \subseteq Nat /\ 0..I64_MAX \subseteq Nat /\ Counter \subseteq Nat
    /\ CHANGE_NOTICE \in Nat /\ WITHDRAWAL_EXECUTION_WINDOW \in Nat
BY TimeAssumption DEF Counter

LEMMA ProposalFields ==
    ASSUME NEW q \in WithdrawalProposal
    PROVE  /\ q.role \in Role /\ q.nonce \in Nat
           /\ q.created_at \in Nat /\ q.finished_at \in Nat
<1>1. /\ q.role \in Role /\ q.nonce \in Counter
      /\ q.created_at \in Instant /\ q.finished_at \in 0..I64_MAX
  BY DEF WithdrawalProposal
<1> QED
  BY <1>1, ClockFacts

(* A step that touches neither the proposals nor the nonces.               *)
LEMMA NoticeKept ==
    ASSUME WTypeOK, NoticeInv, UNCHANGED proposals,
           \A r \in Role : withdrawal'[r].sequence = withdrawal[r].sequence,
           last_action_at' \in Nat, last_action_at <= last_action_at'
    PROVE  NoticeInv'
<1>1. ASSUME NEW q \in proposals
      PROVE  Dated(q)' /\ Taken(q)'
  <2>1. /\ q.created_at \in Nat /\ q.finished_at \in Nat
        /\ q.role \in Role /\ last_action_at \in Nat
    BY ProposalFields, ClockFacts DEF WTypeOK, StateTypeOK
  <2>2. Dated(q) /\ Taken(q)
    BY DEF NoticeInv
  <2> QED
    BY <2>1, <2>2 DEF Dated, Taken
<1> QED
  BY <1>1 DEF NoticeInv, Before

(* propose_withdrawal writes the dates, under a nonce above all others of  *)
(* its role, none of which is still pending.                               *)
LEMMA NoticeOpened ==
    ASSUME WInv, NoticeInv, NEW t \in Instant, NEW role \in Role,
           NEW recovery \in BOOLEAN, NEW successor \in Key,
           ProposeWithdrawal(t, role, recovery, successor)
    PROVE  NoticeInv'
<1>1. PICK n :
        /\ n.role = role /\ n.nonce = withdrawal[role].sequence + 1
        /\ n.created_at = t /\ n.execute_after = t + CHANGE_NOTICE
        /\ n.expires_at = t + CHANGE_NOTICE + WITHDRAWAL_EXECUTION_WINDOW
        /\ n.status = PROPOSAL_PENDING
        /\ proposals' = proposals \cup {n}
        /\ withdrawal' = [withdrawal EXCEPT ![role].pending = n.nonce,
                                            ![role].sequence = n.nonce]
  <2> DEFINE new(nonce) ==
        [role |-> role, nonce |-> nonce, epoch |-> withdrawal[role].epoch,
         predecessor |-> withdrawal[role].current,
         successor |-> successor, recovery |-> recovery,
         created_at |-> t, execute_after |-> t + CHANGE_NOTICE,
         expires_at |-> t + CHANGE_NOTICE + WITHDRAWAL_EXECUTION_WINDOW,
         status |-> PROPOSAL_PENDING, finished_at |-> 0]
  <2>1. PICK nonce \in Counter :
          /\ nonce = withdrawal[role].sequence + 1
          /\ proposals' = proposals \cup {new(nonce)}
          /\ withdrawal' = [withdrawal EXCEPT ![role].pending = nonce,
                                              ![role].sequence = nonce]
    BY DEF ProposeWithdrawal
  <2> WITNESS new(nonce)
  <2> QED
    BY <2>1
<1>2. /\ withdrawal \in [Role -> WithdrawalRole]
      /\ proposals \subseteq WithdrawalProposal
      /\ t \in Nat /\ last_action_at \in Nat
      /\ last_action_at <= t /\ last_action_at' = t
      /\ CHANGE_NOTICE \in Nat /\ WITHDRAWAL_EXECUTION_WINDOW \in Nat
  BY TimeAssumption, ConstantFacts
  DEF WInv, WTypeOK, StateTypeOK, ProposeWithdrawal, tick
<1>3. /\ withdrawal'[role].sequence = n.nonce
      /\ \A r \in Role \ {role} : withdrawal'[r].sequence = withdrawal[r].sequence
      /\ \A r \in Role : withdrawal[r].sequence \in Nat
  BY <1>1, <1>2 DEF WithdrawalRole, Counter
<1>4. ASSUME NEW q \in proposals
      PROVE  /\ q.role \in Role /\ q.nonce \in Nat
             /\ q.created_at \in Nat /\ q.finished_at \in Nat
             /\ Dated(q) /\ Taken(q)
             /\ q.role = role => q.status # PROPOSAL_PENDING
  <2>1. q \in WithdrawalProposal
    BY <1>2
  <2>2. q.role = role => q.status # PROPOSAL_PENDING
    BY DEF ProposeWithdrawal, WInv, PauseIsResolvable, Pending
  <2> QED
    BY <2>1, <2>2, ProposalFields DEF NoticeInv
<1>5. ASSUME NEW q \in proposals PROVE Dated(q)' /\ Taken(q)'
  BY <1>1, <1>2, <1>3, <1>4 DEF Dated, Taken
<1>6. Dated(n)' /\ Taken(n)'
  BY <1>1, <1>2, <1>3
  DEF Dated, Taken, PROPOSAL_PENDING, PROPOSAL_EXECUTED
<1>7. ASSUME NEW q \in proposals PROVE Before(q, n)' /\ Before(n, q)'
  BY <1>1, <1>2, <1>3, <1>4 DEF Before, Dated
<1>8. Before(n, n)'
  BY <1>1, <1>3 DEF Before
<1>9. \A p, q \in proposals : Before(p, q)'
  BY DEF NoticeInv, Before
<1> QED
  BY <1>1, <1>5, <1>6, <1>7, <1>8, <1>9 DEF NoticeInv

(* However a proposal ends, it ends at the present instant and was the     *)
(* latest of its role.                                                     *)
LEMMA NoticeClosed ==
    ASSUME WInv, NoticeInv, NEW t \in Instant, NEW q \in proposals,
           NEW status \in ProposalStatus, tick(t), pending_withdrawal(q),
           status = PROPOSAL_EXECUTED => in_execution_window(q, t),
           proposals' = (proposals \ {q}) \cup {finished(q, status, t)},
           \A r \in Role : withdrawal'[r].sequence = withdrawal[r].sequence
    PROVE  NoticeInv'
<1> DEFINE c == finished(q, status, t)
<1>1. /\ q \in WithdrawalProposal /\ q.role \in Role
      /\ withdrawal[q.role].sequence \in Nat
      /\ t \in Nat /\ last_action_at \in Nat
      /\ last_action_at <= t /\ last_action_at' = t
      /\ CHANGE_NOTICE \in Nat /\ WITHDRAWAL_EXECUTION_WINDOW \in Nat
  BY LiveIsOnly, TimeAssumption, ConstantFacts
  DEF WInv, WTypeOK, StateTypeOK, WithdrawalRole, tick, Counter
<1>2. /\ c.role = q.role /\ c.nonce = q.nonce
      /\ c.created_at = q.created_at /\ c.execute_after = q.execute_after
      /\ c.expires_at = q.expires_at
      /\ c.status = status /\ c.finished_at = t
  BY <1>1 DEF finished, WithdrawalProposal
<1>3. /\ Dated(q) /\ q.nonce = withdrawal[q.role].sequence
      /\ q.created_at \in Nat /\ q.nonce \in Nat
  BY <1>1, ProposalFields DEF NoticeInv, pending_withdrawal
<1>4. proposals' = (proposals \ {q}) \cup {c}
  OBVIOUS
<1> HIDE DEF c
<1>5. ASSUME NEW p \in proposals \ {q}
      PROVE  /\ Dated(p)' /\ Taken(p)'
             /\ Before(p, c)' /\ Before(c, p)'
  <2>1. /\ p.role \in Role /\ p.nonce \in Nat
        /\ p.created_at \in Nat /\ p.finished_at \in Nat
    BY ProposalFields DEF WInv, WTypeOK
  <2>2. /\ Dated(p) /\ Taken(p)
        /\ Before(p, q)
    BY DEF NoticeInv
  <2>3. p.role = q.role => p.nonce <= q.nonce
    BY <1>3, <2>2 DEF Dated
  <2> QED
    BY <1>1, <1>2, <1>3, <2>1, <2>2, <2>3 DEF Dated, Taken, Before
<1>6. Dated(c)' /\ Taken(c)'
  BY <1>1, <1>2, <1>3 DEF Dated, Taken, in_execution_window
<1>7. Before(c, c)'
  BY <1>2, <1>3 DEF Before
<1>8. \A p, r \in proposals : Before(p, r)'
  BY DEF NoticeInv, Before
<1> QED
  BY <1>4, <1>5, <1>6, <1>7, <1>8 DEF NoticeInv

(* Which transactions do which of the three.                               *)
LEMMA NoticeStep ==
    ASSUME WInv, NoticeInv, [WNext]_wvars
    PROVE  NoticeInv'
<1>1. /\ WTypeOK /\ withdrawal \in [Role -> WithdrawalRole]
      /\ last_action_at \in Nat
      /\ \A t \in Instant : tick(t) => /\ last_action_at' \in Nat
                                       /\ last_action_at <= last_action_at'
  BY TimeAssumption, ConstantFacts DEF WInv, WTypeOK, StateTypeOK, tick
<1>2. CASE UNCHANGED wvars
  BY <1>1, <1>2, NoticeKept DEF wvars
<1>3. ASSUME NEW k \in Subject \cup {DefaultKey}, PrepareWithdrawalKey(k)
      PROVE  NoticeInv'
  BY <1>1, <1>3, NoticeKept DEF PrepareWithdrawalKey
<1>4. ASSUME NEW t \in Instant, NEW k \in Address,
             RecordRecipient(t, k) \/ OtherHandler(t)
      PROVE  NoticeInv'
  BY <1>1, <1>4, NoticeKept DEF RecordRecipient, OtherHandler, withdrawalVars
<1>5. ASSUME NEW t \in Instant, NEW q \in proposals,
             \/ ExecuteWithdrawal(t, q)
             \/ CancelWithdrawal(t, q)
             \/ ExpireWithdrawal(t, q)
      PROVE  NoticeInv'
  <2>1. q.role \in Role
    BY DEF WInv, WTypeOK, WithdrawalProposal
  <2>2. \A r \in Role : withdrawal'[r].sequence = withdrawal[r].sequence
    BY <1>1, <1>5, <2>1
    DEF ExecuteWithdrawal, CancelWithdrawal, ExpireWithdrawal, finish,
        WithdrawalRole
  <2>3. PICK status \in ProposalStatus :
          /\ proposals' = (proposals \ {q}) \cup {finished(q, status, t)}
          /\ status = PROPOSAL_EXECUTED => in_execution_window(q, t)
    BY <1>5
    DEF ExecuteWithdrawal, CancelWithdrawal, ExpireWithdrawal, finish,
        ProposalStatus, PROPOSAL_EXECUTED, PROPOSAL_CANCELLED, PROPOSAL_EXPIRED
  <2>4. tick(t) /\ pending_withdrawal(q)
    BY <1>5 DEF ExecuteWithdrawal, CancelWithdrawal, ExpireWithdrawal
  <2> QED
    BY <2>2, <2>3, <2>4, NoticeClosed
<1>6. \E k : k \in Address
  BY OwnerType, ConstantFacts DEF Role
<1> QED
  BY <1>2, <1>3, <1>4, <1>5, <1>6, NoticeOpened DEF WNext

(* A key change takes effect only inside its window, a full notice after   *)
(* it was proposed, and no two proposals of a role overlap in time.        *)
THEOREM KeyNoticeHonoured == WSpec => []NoticeHonoured
<1>1. WInit => NoticeInv
  BY DEF WInit, NoticeInv
<1>2. WInv /\ NoticeInv /\ [WNext]_wvars => NoticeInv'
  BY NoticeStep
<1> QED
  BY <1>1, <1>2, InductiveInvariant, NoticeOfInv, PTL DEF WSpec

-----------------------------------------------------------------------------
(***************************************************************************)
(* The chain of keys of a role.  S stands for its executed proposals.      *)
(***************************************************************************)

HolderIn(S, owner, epoch) ==
    IF epoch = 0 THEN owner
    ELSE (CHOOSE q \in S : q.epoch = epoch - 1).successor

(* What AuthorityHistory says of one role, and that each epoch has a       *)
(* single executed proposal.                                               *)
Line(S, owner, current, last) ==
    /\ IsFiniteSet(S) /\ Cardinality(S) = last
    /\ \A q \in S : q.epoch \in 0..(last - 1)
    /\ \A p, q \in S : p.epoch = q.epoch => p = q
    /\ \A e \in 0..(last - 1) : \E q \in S :
          q.epoch = e /\ q.predecessor = HolderIn(S, owner, e)
    /\ current = HolderIn(S, owner, last)
    /\ \A d, e \in 0..last :
          HolderIn(S, owner, d) = HolderIn(S, owner, e) => d = e

(* The holder of an epoch is whom its one proposal installed.              *)
LEMMA HolderOfEpoch ==
    ASSUME NEW S, NEW owner, NEW q \in S, NEW e, e # 0, q.epoch = e - 1,
           \A p \in S : p.epoch = e - 1 => p = q
    PROVE  HolderIn(S, owner, e) = q.successor
<1>1. (CHOOSE p \in S : p.epoch = e - 1) = q
  OBVIOUS
<1> QED
  BY <1>1 DEF HolderIn

LEMMA LineGrows ==
    ASSUME NEW S, NEW owner, NEW current, NEW last \in Nat, NEW c,
           Line(S, owner, current, last),
           c.epoch = last, c.predecessor = current, c.successor # owner,
           \A q \in S : q.successor # c.successor
    PROVE  Line(S \cup {c}, owner, c.successor, last + 1)
<1> DEFINE T == S \cup {c}
           H(e) == HolderIn(S, owner, e)
           G(e) == HolderIn(T, owner, e)
<1>1. /\ \A q \in S : q.epoch \in 0..(last - 1)
      /\ \A p, q \in S : p.epoch = q.epoch => p = q
      /\ \A e \in 0..(last - 1) : \E q \in S :
            q.epoch = e /\ q.predecessor = H(e)
      /\ current = H(last)
      /\ \A d, e \in 0..last : H(d) = H(e) => d = e
  BY DEF Line
<1>2. c \notin S
  BY <1>1
<1>3. IsFiniteSet(T) /\ Cardinality(T) = last + 1
  BY <1>2, FS_AddElement DEF Line
<1>4. \A q \in T : q.epoch \in 0..last
  BY <1>1
<1>5. \A p, q \in T : p.epoch = q.epoch => p = q
  BY <1>1
<1>6. ASSUME NEW e \in 0..last
      PROVE  G(e) = H(e) /\ G(e) # c.successor
  <2>1. CASE e = 0
    BY <2>1 DEF HolderIn
  <2>2. CASE e # 0
    <3>1. e - 1 \in 0..(last - 1)
      BY <2>2
    <3>2. PICK q \in S : q.epoch = e - 1
      BY <1>1, <3>1
    <3>3. H(e) = q.successor
      BY <1>1, <2>2, <3>2, HolderOfEpoch
    <3>4. G(e) = q.successor
      BY <1>5, <2>2, <3>2, HolderOfEpoch
    <3> QED
      BY <3>2, <3>3, <3>4
  <2> QED
    BY <2>1, <2>2
<1>7. G(last + 1) = c.successor
  <2>1. c \in T /\ c.epoch = (last + 1) - 1 /\ last + 1 # 0
    OBVIOUS
  <2> QED
    BY <1>5, <2>1, HolderOfEpoch
<1> HIDE DEF H, G, T
<1>8. \A e \in 0..last : \E q \in T : q.epoch = e /\ q.predecessor = G(e)
  <2> SUFFICES ASSUME NEW e \in 0..last
               PROVE  \E q \in T : q.epoch = e /\ q.predecessor = G(e)
    OBVIOUS
  <2>1. CASE e = last
    BY <1>1, <1>6, <2>1 DEF T
  <2>2. CASE e # last
    <3>1. PICK q \in S : q.epoch = e /\ q.predecessor = H(e)
      BY <1>1, <2>2
    <3> QED
      BY <1>6, <3>1 DEF T
  <2> QED
    BY <2>1, <2>2
<1>9. ASSUME NEW d \in 0..(last + 1), NEW e \in 0..(last + 1), G(d) = G(e)
      PROVE  d = e
  <2>1. CASE d = last + 1 \/ e = last + 1
    BY <1>6, <1>7, <1>9, <2>1
  <2>2. CASE d # last + 1 /\ e # last + 1
    <3>1. d \in 0..last /\ e \in 0..last
      BY <2>2
    <3>2. H(d) = H(e)
      BY <1>6, <1>9, <3>1
    <3> QED
      BY <1>1, <3>1, <3>2
  <2> QED
    BY <2>1, <2>2
<1>10. 0..((last + 1) - 1) = 0..last
  OBVIOUS
<1> QED
  BY <1>3, <1>4, <1>5, <1>7, <1>8, <1>9, <1>10 DEF Line, T, G

HistoryInv ==
    \A role \in Role :
        Line(Executed(role), owner_for(role),
             withdrawal[role].current, withdrawal[role].epoch)

LEMMA HistoryOfInv == HistoryInv => AuthorityHistory
<1> SUFFICES ASSUME HistoryInv, NEW role \in Role
             PROVE  LET last == withdrawal[role].epoch IN
                    /\ Cardinality(Executed(role)) = last
                    /\ \A e \in 0..(last - 1) : \E q \in Executed(role) :
                          q.epoch = e /\ q.predecessor = Holder(role, e)
                    /\ withdrawal[role].current = Holder(role, last)
                    /\ \A d, e \in 0..last :
                          Holder(role, d) = Holder(role, e) => d = e
  BY DEF AuthorityHistory
<1>1. \A e : Holder(role, e) = HolderIn(Executed(role), owner_for(role), e)
  BY DEF Holder, HolderIn
<1>2. Line(Executed(role), owner_for(role),
           withdrawal[role].current, withdrawal[role].epoch)
  BY DEF HistoryInv
<1> HIDE DEF HistoryInv
<1> QED
  BY <1>1, <1>2 DEF Line

(* Only an execution extends the chain of a role, and it leaves the other. *)
LEMMA HistoryStep ==
    ASSUME WInv, HistoryInv, [WNext]_wvars
    PROVE  HistoryInv'
<1> SUFFICES ASSUME NEW role \in Role
             PROVE  Line(Executed(role)', owner_for(role),
                         withdrawal'[role].current, withdrawal'[role].epoch)
  BY DEF HistoryInv, owner_for
<1>1. /\ Line(Executed(role), owner_for(role),
              withdrawal[role].current, withdrawal[role].epoch)
      /\ withdrawal \in [Role -> WithdrawalRole]
      /\ withdrawal[role].epoch \in Nat
  BY ClockFacts DEF HistoryInv, WInv, WTypeOK, WithdrawalRole
<1>2. CASE /\ Executed(role)' = Executed(role)
           /\ withdrawal'[role].current = withdrawal[role].current
           /\ withdrawal'[role].epoch = withdrawal[role].epoch
  BY <1>1, <1>2
<1>3. CASE UNCHANGED <<withdrawal, proposals>>
  BY <1>2, <1>3 DEF Executed
<1>4. ASSUME NEW t \in Instant, NEW r \in Role, NEW recovery \in BOOLEAN,
             NEW successor \in Key,
             ProposeWithdrawal(t, r, recovery, successor)
      PROVE  /\ Executed(role)' = Executed(role)
             /\ withdrawal'[role].current = withdrawal[role].current
             /\ withdrawal'[role].epoch = withdrawal[role].epoch
  <2>1. PICK n : n.status = PROPOSAL_PENDING /\ proposals' = proposals \cup {n}
    BY <1>4 DEF ProposeWithdrawal
  <2>2. Executed(role)' = Executed(role)
    BY <2>1 DEF Executed, PROPOSAL_PENDING, PROPOSAL_EXECUTED
  <2>3. \E nonce : withdrawal' = [withdrawal EXCEPT ![r].pending = nonce,
                                                    ![r].sequence = nonce]
    BY <1>4 DEF ProposeWithdrawal
  <2> QED
    BY <1>1, <2>2, <2>3 DEF WithdrawalRole
<1>5. ASSUME NEW t \in Instant, NEW q \in proposals,
             CancelWithdrawal(t, q) \/ ExpireWithdrawal(t, q)
      PROVE  /\ Executed(role)' = Executed(role)
             /\ withdrawal'[role].current = withdrawal[role].current
             /\ withdrawal'[role].epoch = withdrawal[role].epoch
  <2>1. PICK status \in {PROPOSAL_CANCELLED, PROPOSAL_EXPIRED} :
          finish(q, status, t)
    BY <1>5 DEF CancelWithdrawal, ExpireWithdrawal
  <2>2. /\ q.status = PROPOSAL_PENDING /\ q \in WithdrawalProposal
        /\ q.role \in Role
    BY <1>5, LiveIsOnly
    DEF CancelWithdrawal, ExpireWithdrawal, pending_withdrawal
  <2>3. finished(q, status, t).status = status
    BY <2>2 DEF finished, WithdrawalProposal
  <2>4. Executed(role)' = Executed(role)
    BY <2>1, <2>2, <2>3
    DEF finish, Executed, PROPOSAL_PENDING, PROPOSAL_EXECUTED,
        PROPOSAL_CANCELLED, PROPOSAL_EXPIRED
  <2> QED
    BY <1>1, <2>1, <2>2, <2>4 DEF finish, WithdrawalRole
<1>6. ASSUME NEW t \in Instant, NEW q \in proposals, ExecuteWithdrawal(t, q)
      PROVE  Line(Executed(role)', owner_for(role),
                  withdrawal'[role].current, withdrawal'[role].epoch)
  <2> DEFINE c == finished(q, PROPOSAL_EXECUTED, t)
  <2>1. /\ q \in WithdrawalProposal /\ q.role \in Role /\ q.successor \in Key
        /\ Pending(q.role) = {q} /\ eligible_successor(q.role, q.successor)
        /\ q.status = PROPOSAL_PENDING
        /\ q.epoch = withdrawal[q.role].epoch
        /\ q.predecessor = withdrawal[q.role].current
    BY <1>6, LiveIsOnly DEF ExecuteWithdrawal, pending_withdrawal
  <2>2. /\ \A r \in Role \ {q.role} : Executed(r)' = Executed(r)
        /\ Executed(q.role)' = Executed(q.role) \cup {c}
    BY <1>6, <2>1, CloseSets
    DEF ExecuteWithdrawal, ProposalStatus, PROPOSAL_EXECUTED, PROPOSAL_PENDING
  <2>3. /\ withdrawal'[q.role].current = q.successor
        /\ withdrawal'[q.role].epoch = withdrawal[q.role].epoch + 1
        /\ \A r \in Role \ {q.role} : withdrawal'[r] = withdrawal[r]
    BY <1>1, <1>6, <2>1 DEF ExecuteWithdrawal, WithdrawalRole
  <2>4. /\ c.epoch = q.epoch /\ c.predecessor = q.predecessor
        /\ c.successor = q.successor
    BY <2>1 DEF finished, WithdrawalProposal
  <2>5. CASE role # q.role
    BY <1>2, <2>2, <2>3, <2>5
  <2>6. CASE role = q.role
    <3>1. \A p \in Executed(role) : p.successor # q.successor
      <4>1. q.successor \in Address
        BY <2>1, ConstantFacts
      <4> QED
        BY <2>1, <2>6, <4>1
        DEF WInv, KeyIndexAgrees, eligible_successor
    <3>2. q.successor # owner_for(role)
      BY <2>1, <2>6 DEF eligible_successor
    <3> HIDE DEF c
    <3>3. Line(Executed(role) \cup {c}, owner_for(role), c.successor,
               withdrawal[role].epoch + 1)
      BY <1>1, <2>1, <2>4, <2>6, <3>1, <3>2, LineGrows
    <3> QED
      BY <2>2, <2>3, <2>4, <2>6, <3>3
  <2> QED
    BY <2>5, <2>6
<1> QED
  BY <1>2, <1>3, <1>4, <1>5, <1>6
  DEF WNext, wvars, PrepareWithdrawalKey, RecordRecipient, OtherHandler,
      withdrawalVars

(* The executed proposals of a role are one chain from the configured      *)
(* owner to the key in office, one per epoch, and no key ever comes back.  *)
THEOREM AuthorityChain == WSpec => []AuthorityHistory
<1>1. WInit => HistoryInv
  <2> SUFFICES ASSUME WInit, NEW role \in Role
               PROVE  Line(Executed(role), owner_for(role),
                           withdrawal[role].current, withdrawal[role].epoch)
    BY DEF HistoryInv
  <2>1. /\ Executed(role) = {}
        /\ withdrawal[role].current = owner_for(role)
        /\ withdrawal[role].epoch = 0
    BY DEF WInit, Executed
  <2>2. \A d \in 0..0 : d = 0
    OBVIOUS
  <2> QED
    BY <2>1, <2>2, FS_EmptySet DEF Line, HolderIn
<1>2. WInv /\ HistoryInv /\ [WNext]_wvars => HistoryInv'
  BY HistoryStep
<1> QED
  BY <1>1, <1>2, InductiveInvariant, HistoryOfInv, PTL DEF WSpec

-----------------------------------------------------------------------------
(***************************************************************************)
(* The change slot and the capacity reports.                               *)
(***************************************************************************)

(* The maturity time recorded with a proposal is a full notice after it.   *)
FullNotice ==
    \A q \in changes : q.execute_after = q.created_at + CHANGE_NOTICE

GInv ==
    /\ GTypeOK
    /\ FullNotice
    /\ PendingChangeIsLive
    /\ ReportFromCurrentOracle

-----------------------------------------------------------------------------
(***************************************************************************)
(* Periods.                                                                *)
(***************************************************************************)

(* Two instants of which the later one started no new period are in the    *)
(* same period.                                                            *)
LEMMA SamePeriod ==
    ASSUME NEW t \in Nat, NEW u \in Nat, t >= t0,
           u >= period_start(period_at(t)), u <= t
    PROVE  period_at(u) = period_at(t)
<1> DEFINE x == t - t0
           y == u - t0
<1>1. t0 \in Nat /\ PERIOD \in Nat \ {0} /\ x \in Nat
  BY TimeAssumption, ConfigAssumption
<1>2. x \div PERIOD \in Nat /\ (x \div PERIOD) * PERIOD \in Nat
  BY <1>1, Division
<1>3. y \in Nat /\ y <= x /\ y >= (x \div PERIOD) * PERIOD
  BY <1>1, <1>2 DEF period_at, period_start
<1> HIDE DEF x, y
<1>4. y \div PERIOD = x \div PERIOD
  BY <1>1, <1>3, SameQuotient
<1> QED
  BY <1>4 DEF x, y, period_at

-----------------------------------------------------------------------------
(***************************************************************************)
(* The invariant is inductive.                                             *)
(***************************************************************************)

LEMMA InitialGovernance == GInit => GInv
<1> SUFFICES ASSUME GInit PROVE GInv
  OBVIOUS
<1>1. GTypeOK
  BY TimeAssumption, ConfigAssumption
  DEF GInit, StateInit, GTypeOK, StateTypeOK, Report, Counter, LifecycleState,
      PREPARED
<1> QED
  BY <1>1 DEF GInit, GInv, FullNotice, PendingChangeIsLive,
              ReportFromCurrentOracle

(* Reading the clock.                                                      *)
LEMMA ClockStep ==
    ASSUME GInv, NEW t \in Instant, tick(t)
    PROVE  /\ last_action_at' = t /\ t \in Nat /\ t <= I64_MAX
           /\ last_action_at \in Nat /\ last_action_at <= t
BY TimeAssumption DEF GInv, GTypeOK, StateTypeOK, tick

(* What a live proposal is to the slot.                                    *)
LEMMA LiveChangeFillsSlot ==
    ASSUME GInv, NEW q \in changes, live_change(q)
    PROVE  {p \in changes : p.status = PROPOSAL_PENDING} = {q}
BY DEF GInv, PendingChangeIsLive, live_change

(* Closing the pending proposal frees the slot and keeps the others.       *)
LEMMA CloseChange ==
    ASSUME GInv, NEW q \in changes, live_change(q),
           NEW status \in ProposalStatus, status # PROPOSAL_PENDING,
           close_change(q, status), pending_change' = 0
    PROVE  changes' \subseteq ChangeProposal /\ FullNotice' /\ PendingChangeIsLive'
<1> DEFINE closed == [q EXCEPT !.status = status]
<1>1. changes' = (changes \ {q}) \cup {closed}
  BY DEF close_change
<1>2. q \in ChangeProposal
  BY DEF GInv, GTypeOK
<1>3. /\ closed \in ChangeProposal /\ closed.status = status
      /\ closed.execute_after = q.execute_after
      /\ closed.created_at = q.created_at
  BY <1>2 DEF ChangeProposal
<1>4. {p \in changes' : p.status = PROPOSAL_PENDING} = {}
  BY <1>1, <1>3, LiveChangeFillsSlot
<1> HIDE DEF closed
<1>5. changes' \subseteq ChangeProposal
  BY <1>1, <1>3 DEF GInv, GTypeOK
<1>6. FullNotice'
  BY <1>1, <1>3 DEF GInv, FullNotice
<1> QED
  BY <1>4, <1>5, <1>6 DEF PendingChangeIsLive

LEMMA AcceptReportStep ==
    ASSUME GInv, NEW t \in Instant, NEW signer \in Key,
           NEW observed_at \in Instant, NEW sequence \in ReportSequence,
           NEW epoch \in Counter,
           AcceptReport(t, signer, observed_at, sequence, epoch)
    PROVE  GInv'
<1>1. /\ last_action_at' = t /\ t \in Nat /\ observed_at \in 0..I64_MAX
      /\ sequence \in Nat
  BY ClockStep, TimeAssumption, GovernanceAssumption DEF AcceptReport
<1>2. t >= t0 /\ fresh_report(t, observed_at, sequence) /\ epoch = oracle_epoch
  BY DEF AcceptReport
<1>3. report' = [period |-> period_at(t), at |-> observed_at,
                 sequence |-> sequence, epoch |-> epoch, valid |-> TRUE]
  BY DEF AcceptReport
<1>4. UNCHANGED <<state, oracle, oracle_epoch, oracle_activated_at, controller,
                  controller_epoch, change_sequence, pending_change, changes>>
  BY DEF AcceptReport
<1>5. period_at(t) \in Nat
  BY <1>1, <1>2, TimeAssumption, ConfigAssumption DEF period_at
<1>6. period_at(observed_at) = period_at(t)
  BY <1>1, <1>2, SamePeriod DEF fresh_report
<1>7. GTypeOK'
  BY <1>1, <1>3, <1>4, <1>5 DEF GInv, GTypeOK, StateTypeOK, Report
<1>8. PendingChangeIsLive' /\ FullNotice'
  BY <1>4 DEF GInv, PendingChangeIsLive, FullNotice, live_change
<1>9. ReportFromCurrentOracle'
  <2>1. report.sequence \in Nat
    BY DEF GInv, GTypeOK, Report
  <2>2. report'.sequence > 0 /\ oracle_activated_at' <= report'.at
        /\ report'.at <= last_action_at' /\ report'.epoch = oracle_epoch'
    BY <1>1, <1>2, <1>3, <1>4, <2>1 DEF fresh_report
  <2>3. report'.period = period_at(report'.at)
    BY <1>3, <1>6
  <2> QED
    BY <2>2, <2>3 DEF ReportFromCurrentOracle, period_at
<1> QED
  BY <1>7, <1>8, <1>9 DEF GInv

(* Steps that leave reports and authorities alone.                         *)
LEMMA ReportKept ==
    ASSUME GInv, NEW t \in Instant, tick(t),
           UNCHANGED <<oracle_epoch, oracle_activated_at, report>>
    PROVE  ReportFromCurrentOracle'
<1>1. /\ last_action_at' = t /\ last_action_at <= t
      /\ last_action_at \in Nat /\ t \in Nat /\ report \in Report
  BY ClockStep DEF GInv, GTypeOK
<1> QED
  BY <1>1 DEF GInv, ReportFromCurrentOracle, Report, period_at

LEMMA ProposeChangeStep ==
    ASSUME GInv, NEW t \in Instant, NEW kind \in ChangeKind,
           NEW recovery \in BOOLEAN, NEW successor \in ChangeSuccessor,
           NEW nonce \in Counter,
           ProposeChange(t, kind, recovery, successor, nonce)
    PROVE  GInv'
<1> DEFINE new ==
      [nonce |-> nonce, kind |-> kind, recovery |-> recovery,
       successor |-> successor, controller_epoch |-> controller_epoch,
       oracle_epoch |-> oracle_epoch, created_at |-> t,
       execute_after |-> t + CHANGE_NOTICE, status |-> PROPOSAL_PENDING]
<1>1. /\ tick(t) /\ pending_change = 0 /\ nonce = change_sequence + 1
      /\ notice_fits(t) /\ changes' = changes \cup {new}
      /\ change_sequence' = nonce /\ pending_change' = nonce
      /\ UNCHANGED <<state, oracle, oracle_epoch, oracle_activated_at,
                     controller, controller_epoch, report>>
  BY DEF ProposeChange
<1>2. last_action_at' = t /\ t \in Nat /\ t \in Instant
  BY <1>1, ClockStep
<1>3. new \in ChangeProposal
  <2>1. t + CHANGE_NOTICE \in 0..I64_MAX
    BY <1>1, <1>2, TimeAssumption DEF notice_fits
  <2>2. successor \in Key
    BY GovernanceAssumption
  <2> QED
    BY <2>1, <2>2 DEF ChangeProposal, GInv, GTypeOK, ProposalStatus
<1>4. /\ new.status = PROPOSAL_PENDING /\ new.nonce = nonce
      /\ new.controller_epoch = controller_epoch
      /\ new.oracle_epoch = oracle_epoch
      /\ new.execute_after = new.created_at + CHANGE_NOTICE
  OBVIOUS
<1> HIDE DEF new
<1>5. GTypeOK'
  BY <1>1, <1>2, <1>3 DEF GInv, GTypeOK, StateTypeOK
<1>6. FullNotice'
  BY <1>1, <1>4 DEF GInv, FullNotice
<1>7. PendingChangeIsLive'
  <2>1. {q \in changes' : q.status = PROPOSAL_PENDING} = {new}
    BY <1>1, <1>4 DEF GInv, PendingChangeIsLive
  <2>2. /\ pending_change' = new.nonce /\ change_sequence' = new.nonce
        /\ controller_epoch' = new.controller_epoch
        /\ oracle_epoch' = new.oracle_epoch
    BY <1>1, <1>4
  <2>3. pending_change' # 0
    BY <1>1 DEF GInv, GTypeOK, Counter
  <2> QED
    BY <1>4, <2>1, <2>2, <2>3 DEF PendingChangeIsLive, live_change
<1>8. ReportFromCurrentOracle'
  BY <1>1, ReportKept
<1> QED
  BY <1>5, <1>6, <1>7, <1>8 DEF GInv

LEMMA CancelChangeStep ==
    ASSUME GInv, NEW t \in Instant, NEW q \in changes, CancelChange(t, q)
    PROVE  GInv'
<1>1. /\ tick(t) /\ live_change(q) /\ close_change(q, PROPOSAL_CANCELLED)
      /\ pending_change' = 0
      /\ UNCHANGED <<state, oracle, oracle_epoch, oracle_activated_at,
                     controller, controller_epoch, change_sequence, report>>
  BY DEF CancelChange
<1>2. changes' \subseteq ChangeProposal /\ FullNotice' /\ PendingChangeIsLive'
  BY <1>1, CloseChange
  DEF ProposalStatus, PROPOSAL_PENDING, PROPOSAL_CANCELLED
<1>3. ReportFromCurrentOracle'
  BY <1>1, ReportKept
<1>4. GTypeOK'
  BY <1>1, <1>2, ClockStep, TimeAssumption
  DEF GInv, GTypeOK, StateTypeOK, Counter
<1> QED
  BY <1>2, <1>3, <1>4 DEF GInv

LEMMA ExecuteChangeStep ==
    ASSUME GInv, NEW t \in Instant, NEW q \in changes, ExecuteChange(t, q)
    PROVE  GInv'
<1>1. /\ tick(t) /\ live_change(q) /\ close_change(q, PROPOSAL_EXECUTED)
      /\ pending_change' = 0 /\ UNCHANGED <<state, change_sequence>>
  BY DEF ExecuteChange
<1>2. changes' \subseteq ChangeProposal /\ FullNotice' /\ PendingChangeIsLive'
  BY <1>1, CloseChange
  DEF ProposalStatus, PROPOSAL_PENDING, PROPOSAL_EXECUTED
<1>3. last_action_at' = t
  BY <1>1, ClockStep
<1>4. q.successor \in Key
  BY DEF GInv, GTypeOK, ChangeProposal
<1>5. CASE install_oracle(q, t)
  <2>1. report' = [report EXCEPT !.valid = FALSE] /\ report \in Report
    BY <1>5 DEF install_oracle, GInv, GTypeOK
  <2>2. report' \in Report /\ ~report'.valid
    BY <2>1 DEF Report
  <2>3. GTypeOK'
    BY <1>1, <1>2, <1>3, <1>4, <1>5, <2>2, TimeAssumption
    DEF GInv, GTypeOK, StateTypeOK, Counter, install_oracle
  <2> QED
    BY <1>2, <2>2, <2>3 DEF GInv, ReportFromCurrentOracle
<1>6. CASE install_controller(q)
  <2>1. ReportFromCurrentOracle'
    BY <1>1, <1>6, ReportKept DEF install_controller
  <2>2. GTypeOK'
    BY <1>1, <1>2, <1>3, <1>4, <1>6, TimeAssumption
    DEF GInv, GTypeOK, StateTypeOK, Counter, install_controller
  <2> QED
    BY <1>2, <2>1, <2>2 DEF GInv
<1> QED
  BY <1>5, <1>6 DEF ExecuteChange

LEMMA OtherHandlerGStep ==
    ASSUME GInv, NEW t \in Instant, OtherHandlerG(t)
    PROVE  GInv'
<1>1. tick(t) /\ UNCHANGED governanceVars /\ state' \in LifecycleState
  BY DEF OtherHandlerG, LifecycleMove, LifecycleState, GInv, GTypeOK, StateTypeOK
<1>2. ReportFromCurrentOracle'
  BY <1>1, ReportKept DEF governanceVars
<1>3. last_action_at' = t
  BY <1>1, ClockStep
<1>4. GTypeOK'
  BY <1>1, <1>3 DEF GInv, GTypeOK, StateTypeOK, governanceVars
<1>5. FullNotice' /\ PendingChangeIsLive'
  BY <1>1 DEF GInv, FullNotice, PendingChangeIsLive, live_change, governanceVars
<1> QED
  BY <1>2, <1>4, <1>5 DEF GInv

LEMMA GovernanceStep ==
    ASSUME GInv, [GNext]_gvars
    PROVE  GInv'
<1>1. CASE GNext
  BY <1>1, AcceptReportStep, ProposeChangeStep, CancelChangeStep,
     ExecuteChangeStep, OtherHandlerGStep DEF GNext
<1>2. CASE UNCHANGED gvars
  BY <1>2 DEF gvars, GInv, GTypeOK, StateTypeOK, FullNotice, PendingChangeIsLive,
              live_change, ReportFromCurrentOracle, period_at
<1> QED
  BY <1>1, <1>2

(* The slot, the notices and the reports of every reachable state.         *)
LEMMA GovernanceInvariant == GSpec => []GInv
<1>1. GInit => GInv
  BY InitialGovernance
<1>2. GInv /\ [GNext]_gvars => GInv'
  BY GovernanceStep
<1> QED
  BY <1>1, <1>2, PTL DEF GSpec

-----------------------------------------------------------------------------
(***************************************************************************)
(* What follows from it.                                                   *)
(***************************************************************************)

(* The accounts of governance keep their ranges: an epoch or a nonce at    *)
(* u64::MAX is refused, never wrapped.                                     *)
THEOREM GovernanceTypeCorrect == GSpec => []GTypeOK
<1>1. GInv => GTypeOK
  BY DEF GInv
<1> QED
  BY <1>1, GovernanceInvariant, PTL

(* Whatever is in the change slot can be executed or cancelled.            *)
THEOREM ChangeSlotNeverJams == GSpec => []PendingChangeIsLive
<1>1. GInv => PendingChangeIsLive
  BY DEF GInv
<1> QED
  BY <1>1, GovernanceInvariant, PTL

(* A valid report is an observation of the present oracle, in its period.  *)
THEOREM ReportsOfTheIncumbent == GSpec => []ReportFromCurrentOracle
<1>1. GInv => ReportFromCurrentOracle
  BY DEF GInv
<1> QED
  BY <1>1, GovernanceInvariant, PTL

(* Nobody takes office, by rotation or recovery, without a full notice     *)
(* under the authorities that were in office all along.                    *)
THEOREM NoticeOfEveryChange == GSpec => ChangeNoticeHonoured
<1> DEFINE Honoured ==
      oracle' # oracle \/ controller' # controller =>
         /\ oracle' = oracle \/ controller' = controller
         /\ \E q \in changes :
               /\ q.nonce = pending_change
               /\ q.successor = IF oracle' # oracle THEN oracle' ELSE controller'
               /\ q.created_at + CHANGE_NOTICE <= last_action_at'
               /\ q.oracle_epoch = oracle_epoch
               /\ q.controller_epoch = controller_epoch
<1>1. ASSUME GInv, NEW t \in Instant, NEW q \in changes, ExecuteChange(t, q)
      PROVE  Honoured
  <2>1. /\ tick(t) /\ live_change(q) /\ notice_elapsed(q, t)
        /\ install_oracle(q, t) \/ install_controller(q)
    BY <1>1 DEF ExecuteChange
  <2>2. q.created_at + CHANGE_NOTICE <= last_action_at'
    BY <1>1, <2>1 DEF GInv, FullNotice, notice_elapsed, tick
  <2>3. /\ q.nonce = pending_change /\ q.oracle_epoch = oracle_epoch
        /\ q.controller_epoch = controller_epoch
    BY <2>1 DEF live_change
  <2>4. CASE install_oracle(q, t)
    BY <1>1, <2>2, <2>3, <2>4 DEF install_oracle
  <2>5. CASE install_controller(q)
    BY <1>1, <2>2, <2>3, <2>5 DEF install_controller
  <2> QED
    BY <2>1, <2>4, <2>5
<1>2. ASSUME GInv, [GNext]_gvars PROVE [Honoured]_gvars
  <2>1. CASE \E t \in Instant, q \in changes : ExecuteChange(t, q)
    BY <1>1, <1>2, <2>1
  <2>2. CASE ~ \E t \in Instant, q \in changes : ExecuteChange(t, q)
    <3>1. UNCHANGED <<oracle, controller>>
      BY <1>2, <2>2 DEF GNext, AcceptReport, ProposeChange, CancelChange,
                        OtherHandlerG, governanceVars, gvars
    <3> QED
      BY <3>1
  <2> QED
    BY <2>1, <2>2
<1> QED
  BY <1>2, GovernanceInvariant, PTL DEF GSpec, ChangeNoticeHonoured

(* Replay protection survives the replacement of the oracle.               *)
THEOREM NoReportReplayed == GSpec => ReportsNeverRewind
<1> DEFINE Forward ==
      /\ report'.sequence >= report.sequence
      /\ report'.at >= report.at
      /\ report'.valid /\ report' # report => report'.sequence > report.sequence
<1>1. ASSUME GInv, [GNext]_gvars PROVE [Forward]_gvars
  <2>1. report.sequence \in Nat /\ report.at \in 0..I64_MAX /\ report \in Report
    BY <1>1 DEF GInv, GTypeOK, Report
  <2>2. ASSUME NEW t \in Instant, NEW signer \in Key, NEW observed_at \in Instant,
               NEW sequence \in ReportSequence, NEW epoch \in Counter,
               AcceptReport(t, signer, observed_at, sequence, epoch)
        PROVE  Forward
    <3>1. /\ report'.sequence = sequence /\ sequence > report.sequence
          /\ report'.at = observed_at /\ observed_at >= report.at
          /\ sequence \in Nat
      BY <2>2, GovernanceAssumption DEF AcceptReport, fresh_report
    <3> QED
      BY <2>1, <3>1
  <2>3. ASSUME report' = [report EXCEPT !.valid = FALSE] PROVE Forward
    BY <2>1, <2>3 DEF Report
  <2>4. ASSUME UNCHANGED report PROVE Forward
    BY <2>1, <2>4
  <2>5. \/ UNCHANGED report \/ report' = [report EXCEPT !.valid = FALSE]
        \/ \E t \in Instant, signer \in Key, observed_at \in Instant,
              sequence \in ReportSequence, epoch \in Counter :
              AcceptReport(t, signer, observed_at, sequence, epoch)
    BY <1>1 DEF GNext, ProposeChange, CancelChange, ExecuteChange,
                install_oracle, install_controller, OtherHandlerG,
                governanceVars, gvars
  <2> QED
    BY <2>2, <2>3, <2>4, <2>5
<1> QED
  BY <1>1, GovernanceInvariant, PTL DEF GSpec, ReportsNeverRewind
==============================================================================
