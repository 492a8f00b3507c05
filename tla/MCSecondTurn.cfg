\* A documented promise the code breaks: a turn that is not the last is followed
\* by another one.
SPECIFICATION Spec
CONSTANTS
  Players = {"p1", "p2"}
  Starters = {"starter"}
  Home <- MCHome
  Index <- MCIndex
  StartMoney <- MCMoney
  Income <- MCIncome
  PDOrder <- MCPDOrder
  HostOf <- MCHostOf
  Near <- MCNear
  Objective <- MCObjective
  Tables <- QuietTables
INVARIANTS
  NextTurnCanStart
CHECK_DEADLOCK FALSE
