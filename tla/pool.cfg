SPECIFICATION Spec
CONSTANTS
  t1 = t1
  t2 = t2
  t3 = t3
  Tasks = {t1, t2, t3}
  EnvOf <- TwoEnvs
  None = None
  MaxWorkers = 2
  MinWorkers = 1
  Options <- SomePools
SYMMETRY TwoEnvsSymmetry
INVARIANTS
  WorkersAreAccountedFor
  NobodyIsStranded
PROPERTIES
  DrainCollects
