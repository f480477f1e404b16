SPECIFICATION Spec
CONSTANTS
  c1 = c1
  c2 = c2
  Calls = {c1, c2}
  Targets = {t1, t2}
  NoTarget = NoTarget
  Plain = Plain
  MaxUnions = 2
  Settings <- UnmergedOnly
INVARIANT PublishedMeansUnion
