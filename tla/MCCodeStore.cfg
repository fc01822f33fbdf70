SPECIFICATION Spec
CONSTANTS
  Names = {a, b, x}
  ValidNames = {a, b}
  CliNames = {b}
  Versions = {v1, v2}
  Mishaps = {"crash", "ioError"}
  Cleaning = TRUE
  None = None
SYMMETRY Symmetry
INVARIANTS TypeOK AcknowledgedIsKept ReadsWhole
