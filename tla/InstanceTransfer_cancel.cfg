\* Nothing goes wrong on either server.
SPECIFICATION FairSpec
CONSTANTS
  Exports = {1}
  Imports = {i1}
  NoOne = NoOne
  MaxWrites = 0
  MaxLinks = 1
  Environments = {{}}
PROPERTY ReservedIsNotTakenBack
CHECK_DEADLOCK FALSE
