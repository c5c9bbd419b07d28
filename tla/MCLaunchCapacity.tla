--------------------------- MODULE MCLaunchCapacity ---------------------------
(***************************************************************************)
(* Small budgets for LaunchCapacity.  Two-tick periods, the cliff after    *)
(* the first period, an annual boundary after the third and the end of the *)
(* rules after the fifth; the shares of odd capacities have to be rounded  *)
(* and every ceiling (period, annual, aggregate, lifetime) can bind.       *)
(***************************************************************************)
EXTENDS LaunchCapacity

PerRole(f, t) == [role \in Role |-> IF role = FOUNDER THEN f ELSE t]

MCAmount == PerRole(7, 9)
MCPeriodCap == PerRole(4, 4)

MCRules ==
    [i \in RuleIndex |->
       IF i = 0
       THEN [start_period |-> 0, end_period |-> 3, basis |-> PerRole(6, 9),
             shared_cap |-> 9, release_bps |-> 100]
       ELSE [start_period |-> 3, end_period |-> 5, basis |-> PerRole(4, 5),
             shared_cap |-> 5, release_bps |-> 100]]
==============================================================================
