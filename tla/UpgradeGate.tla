------------------------------ MODULE UpgradeGate ------------------------------
(***************************************************************************)
(* upgrade-gate-v1: a program that holds the upgrade authority of another  *)
(* program and passes an upgrade only after two of three committee keys    *)
(* queued it 90 days earlier.  The upgradeable loader it drives is modelled*)
(* as far as the gate relies on it: buffers with an authority, which alone *)
(* may write, close or hand them over, and the target's code and authority.*)
(*                                                                         *)
(* Code stands for the bytes of a buffer: the hash and the length the gate *)
(* stores both follow from them.  A handler takes the clock t it reads.    *)
(***************************************************************************)
EXTENDS Integers, FiniteSets

CONSTANTS
    Key,           \* ordinary keys: committee members and uploaders
    Gate,          \* the program address of the gate, which no key can sign for
    NoKey,         \* authority of an account that is not a buffer
    members,       \* the three committee keys
    Buffer,        \* addresses of buffer accounts
    NoBuffer,      \* Pubkey::default() in gate.buffer
    Code,          \* contents of a buffer or of the program
    Deployable,    \* contents the loader accepts as a program
    Instant,       \* bound: instants a clock may show
    I64_MAX,       \* bound: no instant is later
    NONCE_MAX,     \* bound: proposals made
    NOTICE

VARIABLES
    buffers,             \* loader: what is at each buffer address
    code, authority,     \* loader: the target program
    gate_sealed,         \* loader: the gate itself has no authority
    initialized,
    nonce, status, buffer, code_hash, return_authority,
    created_at, execute_after, last_action_at

loaderVars == <<buffers, code, authority, gate_sealed>>
proposalVars == <<nonce, status, buffer, code_hash, return_authority,
                  created_at, execute_after>>
vars == <<buffers, code, authority, gate_sealed, initialized, nonce, status,
          buffer, code_hash, return_authority, created_at, execute_after,
          last_action_at>>

ASSUME GateAssumption ==
    /\ Gate \notin Key /\ NoKey \notin Key /\ Gate # NoKey
    /\ members \subseteq Key /\ Cardinality(members) = 3
    /\ NoBuffer \notin Buffer
    /\ Deployable \subseteq Code
    /\ I64_MAX \in Nat /\ Instant \subseteq 0..I64_MAX
    /\ NOTICE \in Nat /\ NONCE_MAX \in Nat

EMPTY     == 0
PENDING   == 1
EXECUTED  == 2
CANCELLED == 3

Missing == [authority |-> NoKey, code |-> {}]

(* A key owns the program and its buffers; nobody has set up the gate.     *)
Init ==
    /\ buffers = [b \in Buffer |-> Missing]
    /\ code \in Deployable
    /\ authority \in Key
    /\ gate_sealed = FALSE
    /\ initialized = FALSE
    /\ nonce = 0
    /\ status = EMPTY
    /\ buffer = NoBuffer
    /\ code_hash = {}
    /\ return_authority = NoKey
    /\ created_at = 0
    /\ execute_after = 0
    /\ last_action_at = 0

-----------------------------------------------------------------------------
(***************************************************************************)
(* The loader, used directly by whoever holds an authority.                *)
(***************************************************************************)

SealGate ==
    /\ gate_sealed' = TRUE
    /\ UNCHANGED <<buffers, code, authority, initialized, proposalVars,
                   last_action_at>>

Put(b, k, c) == buffers' = [buffers EXCEPT ![b] = [authority |-> k, code |-> c]]
Remove(b) == buffers' = [buffers EXCEPT ![b] = Missing]

(* Creation, a write, a change of authority (to the gate as well) and the  *)
(* closing of a buffer; the authority signs all but the first.             *)
UseBuffer(b) ==
    /\ buffers[b].authority \in Key \cup {NoKey}
    /\ \/ \E k \in Key, c \in Code : Put(b, k, c)
       \/ buffers[b].authority \in Key /\ Put(b, Gate, buffers[b].code)
       \/ Remove(b)
    /\ UNCHANGED <<code, authority, gate_sealed, initialized, proposalVars,
                   last_action_at>>

(* Before the gate: the key that is the target's authority replaces the    *)
(* program from a buffer of its own, or hands the authority over.          *)
UseTarget ==
    /\ authority \in Key
    /\ \/ \E b \in Buffer :
            /\ buffers[b].authority = authority
            /\ buffers[b].code \in Deployable
            /\ code' = buffers[b].code
            /\ Remove(b)
            /\ UNCHANGED authority
       \/ authority' \in Key \cup {Gate} /\ UNCHANGED <<code, buffers>>
    /\ UNCHANGED <<gate_sealed, initialized, proposalVars, last_action_at>>

-----------------------------------------------------------------------------
(***************************************************************************)
(* Checks.                                                                 *)
(***************************************************************************)

tick(t) ==
    /\ initialized
    /\ t >= last_action_at
    /\ last_action_at' = t

quorum == \E a, b \in members : a # b

target_state(k) == authority = k

\* Mutant: the buffer may be proposed while its uploader still owns it.
buffer_of_anybody(b) == buffers[b].authority # NoKey

buffer_hash(b) == buffers[b].authority = Gate

\* Mutant: the notice counts from the last action instead of the proposal.
notice_from_last_action(t) == t >= last_action_at

notice_over(t) == t >= execute_after

notice_fits(t) == t + NOTICE <= I64_MAX

\* Mutant: any gate-owned buffer may be returned, the queued one as well.
any_buffer(b) == TRUE

unqueued(b) == status # PENDING \/ buffer # b

-----------------------------------------------------------------------------
(***************************************************************************)
(* Handlers.                                                               *)
(***************************************************************************)

initialize_gate(t) ==
    /\ ~initialized
    /\ gate_sealed
    /\ \E k \in Key : target_state(k)
    /\ initialized' = TRUE
    /\ last_action_at' = t
    /\ authority' = Gate
    /\ UNCHANGED <<buffers, code, gate_sealed, proposalVars>>

propose_upgrade(t, b, recipient) ==
    /\ tick(t)
    /\ quorum
    /\ status # PENDING
    /\ nonce < NONCE_MAX
    /\ buffer_hash(b)
    /\ notice_fits(t)
    /\ nonce' = nonce + 1
    /\ status' = PENDING
    /\ buffer' = b
    /\ code_hash' = buffers[b].code
    /\ return_authority' = recipient
    /\ created_at' = t
    /\ execute_after' = t + NOTICE
    /\ UNCHANGED <<loaderVars, initialized>>

(* Anybody may call it.  The loader consumes the buffer; if it refuses the *)
(* code, the whole transaction is undone.                                  *)
execute_upgrade(t, b, n) ==
    /\ tick(t)
    /\ status = PENDING /\ nonce = n
    /\ notice_over(t)
    /\ buffer = b
    /\ target_state(Gate)
    /\ buffer_hash(b)
    /\ buffers[b].code = code_hash
    /\ status' = EXECUTED
    /\ buffers[b].code \in Deployable
    /\ code' = buffers[b].code
    /\ Remove(b)
    /\ UNCHANGED <<authority, gate_sealed, initialized, nonce, buffer,
                   code_hash, return_authority, created_at, execute_after>>

return_buffer(b, recipient) == Put(b, recipient, buffers[b].code)

cancel_upgrade(t, b, n, recipient) ==
    /\ tick(t)
    /\ quorum
    /\ status = PENDING /\ nonce = n
    /\ buffer = b
    /\ return_authority = recipient
    /\ buffer_hash(b)
    /\ status' = CANCELLED
    /\ return_buffer(b, recipient)
    /\ UNCHANGED <<code, authority, gate_sealed, initialized, nonce, buffer,
                   code_hash, return_authority, created_at, execute_after>>

return_unqueued_buffer(t, b, recipient) ==
    /\ tick(t)
    /\ quorum
    /\ unqueued(b)
    /\ buffer_hash(b)
    /\ return_buffer(b, recipient)
    /\ UNCHANGED <<code, authority, gate_sealed, initialized, proposalVars>>

-----------------------------------------------------------------------------
Loader == SealGate \/ UseTarget \/ \E b \in Buffer : UseBuffer(b)

Handlers(t) ==
    \/ initialize_gate(t)
    \/ \E b \in Buffer, k \in Key :
         \/ propose_upgrade(t, b, k)
         \/ cancel_upgrade(t, b, nonce, k)
         \/ return_unqueued_buffer(t, b, k)
    \/ \E b \in Buffer : execute_upgrade(t, b, nonce)

Next == Loader \/ \E t \in Instant : Handlers(t)

Spec == Init /\ [][Next]_vars

(* Execution needs no particular signer, so somebody will call it.         *)
SomebodyExecutes == \E t \in Instant, b \in Buffer : execute_upgrade(t, b, nonce)
FairSpec == Spec /\ WF_vars(SomebodyExecutes)

-----------------------------------------------------------------------------
(***************************************************************************)
(* Properties.                                                             *)
(***************************************************************************)

TypeOK ==
    /\ buffers \in [Buffer -> [authority : Key \cup {Gate}, code : Code]
                               \cup {Missing}]
    /\ code \in Deployable
    /\ authority \in Key \cup {Gate}
    /\ gate_sealed \in BOOLEAN /\ initialized \in BOOLEAN
    /\ nonce \in 0..NONCE_MAX
    /\ status \in EMPTY..CANCELLED
    /\ buffer \in Buffer \cup {NoBuffer}
    /\ code_hash \in Code \cup {{}}
    /\ return_authority \in Key \cup {NoKey}
    /\ created_at \in 0..I64_MAX /\ execute_after \in 0..I64_MAX
    /\ last_action_at \in 0..I64_MAX

(* While a proposal is queued its buffer stays locked with the bytes that  *)
(* were hashed and the target stays the gate's, so that everything         *)
(* execute_upgrade reads a second time can only agree with the first: no   *)
(* sequence of loader calls, returns of other buffers or earlier proposals *)
(* of the same buffer changes either.                                      *)
QueuedBufferLocked ==
    status = PENDING =>
        /\ buffer \in Buffer
        /\ buffers[buffer] = [authority |-> Gate, code |-> code_hash]
        /\ authority = Gate
        /\ code_hash \in Code
        /\ execute_after = created_at + NOTICE
        /\ created_at <= last_action_at

(* A target that came under the gate never escapes it, the gate's own code *)
(* can no longer change, and there is no proposal before initialize_gate.  *)
ControlKept ==
    IF initialized THEN authority = Gate /\ gate_sealed ELSE status = EMPTY

(* The gate implements the promise of NoticePeriod about the target's code, *)
(* whatever the keys, the committee and the users of the loader do.        *)
Notice == INSTANCE NoticePeriod WITH
    Value <- Code,
    inForce <- code,
    governed <- initialized,
    announced <- IF status = PENDING
                 THEN {[value |-> code_hash, since |-> created_at]} ELSE {},
    time <- last_action_at
ImplementsNotice == Notice!Spec

(* A queued upgrade the loader accepts is eventually installed or          *)
(* cancelled: nothing a member or an uploader does can strand it.          *)
QueuedUpgradeResolves ==
    (status = PENDING /\ code_hash \in Deployable) ~> status # PENDING
==============================================================================
