----------------------------- MODULE CampaignRules -----------------------------
(***************************************************************************)
(* The pure rules of packages/rules/src: the tier and the price of a       *)
(* campaign value, the effect resolution table (ERT) and the two-to-one    *)
(* cancellation of influence cubes.                                        *)
(***************************************************************************)
EXTENDS Integers

Types == {"MALIGN", "RESILIENCY"}

Opposite(t) == IF t = "MALIGN" THEN "RESILIENCY" ELSE "MALIGN"

Tiers == {"LOW", "MEDIUM", "HIGH"}

\* tierForCampaignValue
Tier(cv) == CASE cv <= 6 -> "LOW" [] cv \in 7 .. 11 -> "MEDIUM" [] OTHER -> "HIGH"

\* costForBaseCampaignValue
BaseCost(cv) == [LOW |-> 1, MEDIUM |-> 2, HIGH |-> 3][Tier(cv)]

\* ERT_TABLE, one row of ten cells for each alignment and tier.
ErtTable ==
  [MALIGN |->
     [LOW    |-> <<-2, -1, -1, 0, 0, 1, 1, 1, 2, 2>>,
      MEDIUM |-> <<-2, -1, -1, 0, 1, 1, 2, 2, 3, 3>>,
      HIGH   |-> <<-2, -1,  0, 1, 1, 2, 3, 3, 4, 4>>],
   RESILIENCY |->
     [LOW    |-> <<-1, -1, 0, 0, 0, 1, 1, 1, 2, 2>>,
      MEDIUM |-> <<-1,  0, 0, 0, 1, 1, 2, 2, 3, 3>>,
      HIGH   |-> <<-1,  0, 0, 1, 1, 2, 3, 3, 4, 4>>]]

\* normalizeErtRoll: modifiers may push a ten-sided die beyond the table.
ErtRoll(modified) ==
  IF modified > 10 THEN 10 ELSE IF modified < 1 THEN 1 ELSE modified

\* lookupErt
Ert(tier, alignment, modified) == ErtTable[alignment][tier][ErtRoll(modified)]

\* resolveTwoToOne: two generated cubes cancel one opposite cube.
Removed(generated, opposite) ==
  IF generated \div 2 < opposite THEN generated \div 2 ELSE opposite

Placed(generated, opposite) == generated - 2 * Removed(generated, opposite)
===============================================================================
