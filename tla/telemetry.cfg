\* Two import processes and a health page beside them.
CONSTANTS
  core = core  endpoint = endpoint  linux1 = linux1  linux2 = linux2  eve = eve
  None = None
  Fixtures = {linux1, linux2, eve}
  SourceOf <- MCSourceOf
  Lines <- MCLines
  Assets = {core, endpoint}
  i1 = i1  i2 = i2
  Importers = {i1, i2}
  StaleAfter = 2
  Nows = {6}
  MaxStamps = 3
SYMMETRY Interchangeable
SPECIFICATION Spec
INVARIANTS TypeOK CountsAddUp ObservedIsNewest PageTellsLastImport PageCoversImports
PROPERTY ImplementsIntake
CHECK_DEADLOCK FALSE
