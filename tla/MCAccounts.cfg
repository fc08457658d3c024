SPECIFICATION Spec
CONSTANTS
  seed = seed
  n1 = n1
  n2 = n2
  t1 = t1
  t2 = t2
  Nobody = Nobody
  Names <- MCNames
  SeedName = seed
  Tasks <- MCTasks
  MaxAccounts = 3
SYMMETRY MCSymmetry
INVARIANTS
  AdministratorRemains
CHECK_DEADLOCK FALSE
