\* Cards, reactions, the veto and core operations, in any order.
SPECIFICATION FairSpec
CONSTANTS
  Starters = {"budget", "policyShift", "priority", "veto"}
  Order <- MCOrder
  Tables <- MCTables
INVARIANTS
  TypeOK
  PlansDoNotInterleave
PROPERTIES
  AnswersAreCurrent
  OnlyRetrievalMisplaces
  VetoSettled
  ReactionsEnd
CHECK_DEADLOCK FALSE
