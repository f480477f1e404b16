SPECIFICATION FairSpec
CONSTANTS
  c1 = c1
  c2 = c2
  Calls = {c1, c2}
  Nodes = {n1, n2}
  NoNode = NoNode
  NoPod = NoPod
  MaxPolls = 2
  Settings <- LiveSettings
PROPERTIES CallsAnswered DetachCompletes
