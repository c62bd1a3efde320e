CONSTANTS
  MaxSections = 5
  Segments <- MCSegments
  Layouts <- MCLayouts
  Dynsym <- MCDynsym
  Symtab <- MCSymtab
  Names <- MCNames
  LoadBiases = {16}
  PageSize = 4
SPECIFICATION Spec
INVARIANTS
  FileIsReleased
  HandleIsUsable
  FreedOnce
  OnlyKnownDefects
  LookupFindsDefinition
CHECK_DEADLOCK FALSE
