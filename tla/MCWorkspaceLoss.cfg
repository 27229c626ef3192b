\* The listing that promotion works from may fail.
CONSTANTS
  Files = {f, g}
  Turns = {t}
  MaxVersion = 4
  MaxDocs = 4
  Overlap = FALSE
  ListFails = TRUE
SPECIFICATION SyncSpec
PROPERTIES
  NoSilentLoss
