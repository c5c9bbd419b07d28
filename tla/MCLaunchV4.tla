------------------------------- MODULE MCLaunchV4 -------------------------------
(***************************************************************************)
(* A small launch for LaunchV4: the cliff after the first period, another  *)
(* annual rule from the third period on, capacities too small for both.    *)
(***************************************************************************)
EXTENDS LaunchV4

PerRole(f, t) == [role \in Role |-> IF role = FOUNDER THEN f ELSE t]

MCAmount == PerRole(2, 3)
MCPeriodCap == PerRole(1, 2)

MCRules ==
    [i \in {0, 1} |->
       [start_period |-> 2 * i, end_period |-> i + 2,
        basis |-> PerRole(2, 3), shared_cap |-> 4 - i, release_bps |-> 1]]
==============================================================================
