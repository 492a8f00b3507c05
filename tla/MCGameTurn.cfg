\* A turn from the creation of the game to the initiative stage that follows it.
SPECIFICATION FairSpec
CONSTANTS
  Players = {"p1", "p2"}
  Starters = {"starter"}
  Home <- MCHome
  Index <- MCIndex
  StartMoney <- MCMoney
  Income <- MCIncome
  PDOrder <- MCPDOrder
  HostOf <- MCHostOf
  Near <- MCNear
  Objective <- MCObjective
  Tables <- MCTables
INVARIANTS
  TypeOK
  CardsAccounted
  MoneyConserved
  QuestionStands
PROPERTIES
  TurnEnds
CHECK_DEADLOCK FALSE
