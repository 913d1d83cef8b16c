SPECIFICATION RekeySpec
CONSTANTS
  r1 = r1
  r2 = r2
  r3 = r3
  r4 = r4
  Rows <- MCRows
  Target <- MCTarget
  LastTarget = 2
  BatchSize = 2
  Runs = {first, second}
  Absent = Absent
  MaxWrites = 2
SYMMETRY Symmetry
INVARIANTS RekeyTypeOK AllNew
PROPERTIES RefusedWhole StoreSpec
CHECK_DEADLOCK FALSE
