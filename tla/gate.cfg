SPECIFICATION Spec
CONSTANTS
  worker1 = worker1
  worker2 = worker2
  key = key
  oldKey = oldKey
  token = token
  badToken = badToken
  budget = budget
  Missing = Missing
  Budgets = {budget}
  Workers <- MCWorkers
  BudgetOf <- MCBudgetOf
  Limit = 2
  Minute = 3
  Attempts = 4
  BaseDelay = 1
  MaxDelay = 3
  Environments <- MCEnvironments
  Credentials <- MCCredentials
INVARIANTS
  BurstIsBounded
  RefusalsCostNothing
  GivingUpIsOutnumbered
