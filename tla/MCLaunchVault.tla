---------------------------- MODULE MCLaunchVault ----------------------------
(***************************************************************************)
(* A launch of two units per pool.  The Founder f funds both pools from    *)
(* one wallet; account a belongs to the fresh key n, which may become a    *)
(* Treasury payee or a beneficiary, whichever comes first.                 *)
(***************************************************************************)
EXTENDS LaunchVault

CONSTANTS vtf, vts, vkf, vks, w, a, f, n

ASSUME FixtureAssumption ==
    {vtf, vts, w, a} \subseteq TokenAccount /\ {vkf, vks} \subseteq Pda

PerRole(x, y) == [role \in Role |-> IF role = FOUNDER THEN x ELSE y]

MCVaultToken == PerRole(vtf, vts)
MCVaultKey == PerRole(vkf, vks)

MCInitialToken ==
    [c \in TokenAccount |->
       CASE c = vtf -> [owner |-> vkf, amount |-> 0]
         [] c = vts -> [owner |-> vks, amount |-> 0]
         [] c = w   -> [owner |-> f, amount |-> 5]
         [] c = a   -> [owner |-> n, amount |-> 0]]

MCHandOver == {<<a, f>>}

MCAmount == PerRole(2, 2)
MCPeriodCap == PerRole(2, 2)

MCRules ==
    [i \in RuleIndex |->
       [start_period |-> 2 * i, end_period |-> 2 * i + 2,
        basis |-> PerRole(2, 2), shared_cap |-> 4, release_bps |-> 1]]
==============================================================================
