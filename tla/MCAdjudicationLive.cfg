\* Sound plans, with FLUMA first so that the others' spends trigger its regime.
SPECIFICATION FairSpec
CONSTANTS
  Players = {"arden", "dinesia", "fluma"}
  PDs = {"coast", "delta", "shore"}
  Kits = {"cheap", "costly"}
  Rolls = {1, 10}
  Meddling = {"PAUSE"}
  MaxMeddling = 1
  Order <- FlumaOrder
  Regime <- MCRegime
  HomeOf <- MCHomeOf
  KitOf <- MCKitOf
  Plans <- SoundPlans
  Openings <- FreshOpenings
PROPERTIES
  ScheduleEnds
CHECK_DEADLOCK FALSE
