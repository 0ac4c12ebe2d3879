SPECIFICATION CatalogSpec
CONSTANTS
  Calls = {c1, c2, c3}
  Tables = {"users", "scripts", "envs", "envcaps", "envcapmaps"}
  Groups = {{"users"}, {"scripts"}, {"envs", "envcaps", "envcapmaps"}}
  Names = {n1, n2}
  Bodies = {b1, b2}
  MaxId = 4
  RefIds = {1, 2}
  None = None
SYMMETRY MCSymmetry
INVARIANTS DuplicatesExplained TypesExplained RefsWereReal 
PROPERTIES DeletedStays FreshSavesKeep
CHECK_DEADLOCK FALSE
