\* Two servers that import the same export.
SPECIFICATION FairSpec
CONSTANTS
  Exports = {1}
  Imports = {i1, i2}
  NoOne = NoOne
  MaxWrites = 1
  MaxLinks = 2
  Environments = {{"restart", "loss"}, {"loss", "expire"}}
INVARIANTS TypeOK GivenIsKept
PROPERTIES IsHandover WorkSettles
CHECK_DEADLOCK FALSE
