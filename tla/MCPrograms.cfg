\* The programs of ProgramFamilies, NumberFamilies and TextFamilies.
SPECIFICATION ProgramsSpec
CONSTANTS
  Chunks <- ThePrograms
  Outcomes <- TheOutcomes
INVARIANTS
  RunsAsWritten
  RegistersApart
  OpenCellsActive
PROPERTIES
  Ends
