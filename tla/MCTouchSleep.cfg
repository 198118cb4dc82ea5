SPECIFICATION BoardFairSpec
CONSTANTS
  Tasks = {ui, network}
  MaxNesting = 2
  Budgets <- RunBudgets
  FieldBudgets <- RunFieldBudgets
INVARIANTS TrialExcludesOta ControllerNormalWhenReleased NominalIsOwned
PROPERTIES TrialEnds
