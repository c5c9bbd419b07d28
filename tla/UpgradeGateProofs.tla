--------------------------- MODULE UpgradeGateProofs ---------------------------
(***************************************************************************)
(* The upgrade gate keeps its queued buffer locked and implements the      *)
(* promise of NoticePeriod, for any number of keys, buffers and contents  *)
(* and any notice.                                                         *)
(***************************************************************************)
EXTENDS UpgradeGate, TLAPS

(* The inductive invariant.                                                *)
GateInv == TypeOK /\ ControlKept /\ QueuedBufferLocked

LEMMA StatusValues ==
    /\ EMPTY = 0 /\ PENDING = 1 /\ EXECUTED = 2 /\ CANCELLED = 3
BY DEF EMPTY, PENDING, EXECUTED, CANCELLED

(* Putting a typed record at a buffer address, or removing the buffer.     *)
LEMMA BufferType ==
    ASSUME TypeOK, NEW b \in Buffer,
           Remove(b) \/ \E k \in Key \cup {Gate}, c \in Code : Put(b, k, c)
    PROVE  /\ buffers' \in [Buffer -> [authority : Key \cup {Gate}, code : Code]
                                       \cup {Missing}]
           /\ \A x \in Buffer \ {b} : buffers'[x] = buffers[x]
BY DEF TypeOK, Remove, Put

(* A buffer the gate owns holds some code.                                 *)
LEMMA GateBufferHasCode ==
    ASSUME TypeOK, NEW b \in Buffer, buffers[b].authority # NoKey
    PROVE  buffers[b].code \in Code /\ buffers[b].authority \in Key \cup {Gate}
BY GateAssumption DEF TypeOK, Missing

(* Loader calls of ordinary keys.                                          *)
LEMMA LoaderKeepsInv ==
    ASSUME GateInv, Loader
    PROVE  GateInv'
<1>1. CASE SealGate
  BY <1>1 DEF GateInv, TypeOK, ControlKept, QueuedBufferLocked, SealGate,
              proposalVars
<1>2. CASE UseTarget
  <2>1. authority # Gate /\ ~initialized /\ status = EMPTY
    BY <1>2, GateAssumption DEF GateInv, ControlKept, UseTarget
  <2>2. TypeOK'
    <3>1. CASE \E b \in Buffer :
                 /\ buffers[b].code \in Deployable
                 /\ code' = buffers[b].code
                 /\ Remove(b)
                 /\ UNCHANGED authority
      BY <1>2, <3>1, BufferType DEF GateInv, TypeOK, UseTarget, proposalVars
    <3>2. CASE authority' \in Key \cup {Gate} /\ UNCHANGED <<code, buffers>>
      BY <1>2, <3>2 DEF GateInv, TypeOK, UseTarget, proposalVars
    <3> QED
      BY <1>2, <3>1, <3>2 DEF UseTarget
  <2> QED
    BY <1>2, <2>1, <2>2, StatusValues
    DEF GateInv, ControlKept, QueuedBufferLocked, UseTarget, proposalVars
<1>3. ASSUME NEW b \in Buffer, UseBuffer(b) PROVE GateInv'
  <2>1. Remove(b) \/ \E k \in Key \cup {Gate}, c \in Code : Put(b, k, c)
    <3>1. buffers[b].authority \in Key => buffers[b].code \in Code
      BY GateBufferHasCode, GateAssumption DEF GateInv
    <3> QED
      BY <1>3, <3>1 DEF UseBuffer
  <2>2. TypeOK'
    BY <1>3, <2>1, BufferType DEF GateInv, TypeOK, UseBuffer, proposalVars
  <2>3. status = PENDING => buffer \in Buffer \ {b}
    <3>1. buffers[b].authority # Gate
      BY <1>3, GateAssumption DEF UseBuffer
    <3>2. status = PENDING => buffers[buffer].authority = Gate
      BY DEF GateInv, QueuedBufferLocked
    <3>3. status = PENDING => buffer \in Buffer
      BY DEF GateInv, QueuedBufferLocked
    <3> QED
      BY <3>1, <3>2, <3>3
  <2>4. QueuedBufferLocked'
    BY <1>3, <2>1, <2>3, BufferType
    DEF GateInv, QueuedBufferLocked, UseBuffer, proposalVars
  <2> QED
    BY <1>3, <2>2, <2>4 DEF GateInv, ControlKept, UseBuffer, proposalVars
<1> QED
  BY <1>1, <1>2, <1>3 DEF Loader

(* Handlers of the gate.                                                   *)
LEMMA HandlersKeepInv ==
    ASSUME GateInv, NEW t \in Instant, Handlers(t)
    PROVE  GateInv'
<1> t \in 0..I64_MAX /\ I64_MAX \in Nat /\ NOTICE \in Nat /\ NONCE_MAX \in Nat
  BY GateAssumption
<1>1. CASE initialize_gate(t)
  BY <1>1, StatusValues
  DEF GateInv, TypeOK, ControlKept, QueuedBufferLocked, initialize_gate,
      proposalVars
<1>2. ASSUME NEW b \in Buffer, NEW k \in Key, propose_upgrade(t, b, k)
      PROVE  GateInv'
  <2>1. buffers[b] = [authority |-> Gate, code |-> buffers[b].code]
        /\ buffers[b].code \in Code
    BY <1>2, GateAssumption DEF GateInv, TypeOK, Missing, propose_upgrade,
                                buffer_hash
  <2>2. initialized /\ authority = Gate /\ gate_sealed
    BY <1>2 DEF GateInv, ControlKept, propose_upgrade, tick
  <2>3. TypeOK'
    BY <1>2, <2>1, StatusValues
    DEF GateInv, TypeOK, propose_upgrade, loaderVars, tick, notice_fits
  <2> QED
    BY <1>2, <2>1, <2>2, <2>3, StatusValues
    DEF GateInv, ControlKept, QueuedBufferLocked, propose_upgrade, loaderVars,
        tick, notice_fits
<1>3. ASSUME NEW b \in Buffer, NEW k \in Key, cancel_upgrade(t, b, nonce, k)
      PROVE  GateInv'
  <2>1. buffers[b].code \in Code
    BY <1>3, GateBufferHasCode, GateAssumption
    DEF GateInv, cancel_upgrade, buffer_hash
  <2>2. TypeOK'
    BY <1>3, <2>1, BufferType, StatusValues
    DEF GateInv, TypeOK, cancel_upgrade, return_buffer, tick
  <2> QED
    BY <1>3, <2>2, StatusValues
    DEF GateInv, ControlKept, QueuedBufferLocked, cancel_upgrade, tick
<1>4. ASSUME NEW b \in Buffer, NEW k \in Key, return_unqueued_buffer(t, b, k)
      PROVE  GateInv'
  <2>1. buffers[b].code \in Code
    BY <1>4, GateBufferHasCode, GateAssumption
    DEF GateInv, return_unqueued_buffer, buffer_hash
  <2>2. TypeOK' /\ \A x \in Buffer \ {b} : buffers'[x] = buffers[x]
    BY <1>4, <2>1, BufferType
    DEF GateInv, TypeOK, return_unqueued_buffer, return_buffer, tick,
        proposalVars
  <2>3. status = PENDING => buffer \in Buffer \ {b}
    BY <1>4 DEF GateInv, QueuedBufferLocked, return_unqueued_buffer, unqueued
  <2>4. last_action_at' >= last_action_at /\ last_action_at' \in 0..I64_MAX
    BY <1>4 DEF return_unqueued_buffer, tick
  <2> QED
    BY <1>4, <2>2, <2>3, <2>4
    DEF GateInv, TypeOK, ControlKept, QueuedBufferLocked,
        return_unqueued_buffer, proposalVars
<1>5. ASSUME NEW b \in Buffer, execute_upgrade(t, b, nonce) PROVE GateInv'
  <2>1. TypeOK'
    BY <1>5, BufferType, StatusValues DEF GateInv, TypeOK, execute_upgrade, tick
  <2> QED
    BY <1>5, <2>1, StatusValues
    DEF GateInv, ControlKept, QueuedBufferLocked, execute_upgrade, tick
<1> QED
  BY <1>1, <1>2, <1>3, <1>4, <1>5 DEF Handlers

LEMMA GateInvInductive ==
    /\ Init => GateInv
    /\ GateInv /\ [Next]_vars => GateInv'
<1>1. Init => GateInv
  <2>1. Init => TypeOK
    <3> SUFFICES ASSUME Init PROVE TypeOK
      OBVIOUS
    <3>1. buffers \in [Buffer -> [authority : Key \cup {Gate}, code : Code]
                                 \cup {Missing}]
      BY DEF Init
    <3>2. 0 \in 0..I64_MAX /\ 0 \in 0..NONCE_MAX /\ EMPTY \in EMPTY..CANCELLED
      BY GateAssumption, StatusValues
    <3>3. code_hash \in Code \cup {{}}
      BY DEF Init
    <3> QED
      BY <3>1, <3>2, <3>3 DEF Init, TypeOK
  <2>2. Init => ControlKept /\ QueuedBufferLocked
    BY StatusValues DEF Init, ControlKept, QueuedBufferLocked
  <2> QED
    BY <2>1, <2>2 DEF GateInv
<1>2. GateInv /\ Next => GateInv'
  BY LoaderKeepsInv, HandlersKeepInv DEF Next
<1>3. GateInv /\ UNCHANGED vars => GateInv'
  BY DEF GateInv, TypeOK, ControlKept, QueuedBufferLocked, vars
<1> QED
  BY <1>1, <1>2, <1>3

LEMMA GateInvAlways == Spec => []GateInv
BY GateInvInductive, PTL DEF Spec

(* While a proposal is queued, what execute_upgrade will read again is     *)
(* what propose_upgrade read.                                              *)
THEOREM QueueLocked == Spec => []QueuedBufferLocked
<1>1. GateInv => QueuedBufferLocked
  BY DEF GateInv
<1> QED
  BY <1>1, GateInvAlways, PTL

(* Governed code only changes to what was announced a full notice before.  *)
THEOREM GateImplementsNotice == Spec => ImplementsNotice
<1> DEFINE announcement ==
      IF status = PENDING THEN {[value |-> code_hash, since |-> created_at]}
      ELSE {}
<1>1. Init => Notice!Init
  BY GateAssumption, StatusValues DEF Init, Notice!Init
<1>2. GateInv /\ Loader => [Notice!Next]_(Notice!noticeVars)
  <2> SUFFICES ASSUME GateInv, Loader PROVE [Notice!Next]_(Notice!noticeVars)
    OBVIOUS
  <2>1. CASE SealGate \/ \E b \in Buffer : UseBuffer(b)
    BY <2>1 DEF SealGate, UseBuffer, proposalVars, Notice!noticeVars
  <2>2. CASE UseTarget
    <3>1. ~initialized /\ status = EMPTY
      BY <2>2, GateAssumption DEF GateInv, ControlKept, UseTarget
    <3> QED
      BY <2>2, <3>1, StatusValues DEF UseTarget, proposalVars, Notice!Next, Notice!Ungoverned
  <2> QED
    BY <2>1, <2>2 DEF Loader
<1>3. ASSUME GateInv, NEW t \in Instant, Handlers(t) PROVE Notice!Next
  <2>1. CASE initialize_gate(t)
    BY <1>3, <2>1, StatusValues
    DEF GateInv, ControlKept, initialize_gate, proposalVars, Notice!Next,
        Notice!Ungoverned
  <2>2. ASSUME NEW b \in Buffer, NEW k \in Key, propose_upgrade(t, b, k)
        PROVE  Notice!Next
    <3>1. buffers[b].code \in Code
      BY <1>3, <2>2, GateBufferHasCode, GateAssumption
      DEF GateInv, propose_upgrade, buffer_hash
    <3>2. announcement = {}
          /\ announcement' = {[value |-> buffers[b].code, since |-> last_action_at']}
      BY <2>2 DEF propose_upgrade, tick
    <3> QED
      BY <2>2, <3>1, <3>2
      DEF propose_upgrade, tick, loaderVars, Notice!Next, Notice!Announce
  <2>3. ASSUME NEW b \in Buffer, NEW k \in Key, cancel_upgrade(t, b, nonce, k)
        PROVE  Notice!Next
    BY <2>3, StatusValues
    DEF cancel_upgrade, tick, Notice!Next, Notice!Withdraw
  <2>4. ASSUME NEW b \in Buffer, NEW k \in Key, return_unqueued_buffer(t, b, k)
        PROVE  Notice!Next
    BY <2>4 DEF return_unqueued_buffer, tick, proposalVars, Notice!Next,
                Notice!Wait
  <2>5. ASSUME NEW b \in Buffer, execute_upgrade(t, b, nonce) PROVE Notice!Next
    <3>1. announcement = {[value |-> code_hash, since |-> created_at]}
          /\ announcement' = {}
      BY <2>5, StatusValues DEF execute_upgrade
    <3>2. last_action_at' >= created_at + NOTICE /\ code' = code_hash
      BY <1>3, <2>5
      DEF GateInv, QueuedBufferLocked, execute_upgrade, tick, notice_over
    <3> QED
      BY <2>5, <3>1, <3>2 DEF execute_upgrade, Notice!Next, Notice!TakeEffect
  <2> QED
    BY <1>3, <2>1, <2>2, <2>3, <2>4, <2>5 DEF Handlers
<1>4. UNCHANGED vars => UNCHANGED Notice!noticeVars
  BY DEF vars, Notice!noticeVars
<1>5. GateInv /\ [Next]_vars => [Notice!Next]_(Notice!noticeVars)
  BY <1>2, <1>3, <1>4 DEF Next
<1> QED
  BY <1>1, <1>5, GateInvAlways, PTL DEF Spec, ImplementsNotice, Notice!Spec
==============================================================================
