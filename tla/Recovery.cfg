\* Crashes, restarts, failures and a user who changes the fleet and the plan.
SPECIFICATION Spec
CONSTANTS
  Accounts = {a1}
  Pids = {1, 2, 3, 4}
  Knobs <- MCKnobs
  PlanModes = {"snapshot_then_script"}
INVARIANTS RestartsWithinBudget
PROPERTIES SavedIsCurrent RestartsAreWanted Supervised
CHECK_DEADLOCK FALSE
