\* The resolution stage with up to one interruption of each kind at any point.
SPECIFICATION Spec
CONSTANTS
  Players = {"arden", "dinesia", "fluma"}
  PDs = {"coast", "delta", "shore"}
  Kits = {"cheap", "costly"}
  Rolls = {1, 10}
  Meddling = {"SANCTIONS", "STEAL_BLIND_CARD", "DISCARD_CAMPAIGN", "VETO",
              "ESTABLISH_LEGITIMACY", "APPLY_BACKLASH", "PAUSE"}
  MaxMeddling = 1
  Order <- MCOrder
  Regime <- MCRegime
  HomeOf <- MCHomeOf
  KitOf <- MCKitOf
  Plans <- AllPlans
  Openings <- MCOpenings
INVARIANTS
  TypeOK
  SlotsInOrder
  SuspensionOwnsSlot
  PaidOnce
  CardsFollowTheSlots
PROPERTIES
  FlumaBeforeNextSlot
CHECK_DEADLOCK FALSE
