------------------------------ MODULE NoticePeriod ------------------------------
(***************************************************************************)
(* What the programs promise about a change they announce: once governed,  *)
(* a value changes only to one that was announced, by name, a full notice  *)
(* earlier; a replaced announcement starts its notice again, and a         *)
(* withdrawn one counts for nothing.  The code behind upgrade-gate-v1 and  *)
(* the oracle of a purpose-vault policy both keep it.                      *)
(***************************************************************************)
EXTENDS Integers

CONSTANTS Value, NOTICE

VARIABLES
    inForce,      \* the value users live under
    governed,     \* whether the promise has started
    announced,    \* {} or the one announcement in force
    time

noticeVars == <<inForce, governed, announced, time>>

Init ==
    /\ inForce \in Value
    /\ governed = FALSE
    /\ announced = {}
    /\ time \in Int

Ungoverned == ~governed /\ announced' = {}

Announce ==
    /\ governed
    /\ \E v \in Value : announced' = {[value |-> v, since |-> time']}
    /\ UNCHANGED <<inForce, governed>>

Withdraw == announced' = {} /\ UNCHANGED <<inForce, governed>>

TakeEffect ==
    /\ \E a \in announced :
         /\ time' >= a.since + NOTICE
         /\ inForce' = a.value
    /\ announced' = {}
    /\ UNCHANGED governed

Wait == UNCHANGED <<inForce, governed, announced>>

Next == Ungoverned \/ Announce \/ Withdraw \/ TakeEffect \/ Wait

Spec == Init /\ [][Next]_noticeVars
==============================================================================
