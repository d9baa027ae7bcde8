\* An export after another of the same instance.
SPECIFICATION Spec
CONSTANTS
  Exports = {1, 2}
  Imports = {i1}
  NoOne = NoOne
  MaxWrites = 2
  MaxLinks = 1
  Environments = {{"restart", "loss", "expire"}, {"drain", "files"}}
INVARIANTS SourceStaysOff ArchiveIsLatest
CHECK_DEADLOCK FALSE
