\* A link that drops, ends or goes dead at every step, and late snapshots.
SPECIFICATION FairSpec
CONSTANTS
  SILENCE = 2
  PROV_MAX = 3
  MAX_WIRE = 3
INVARIANTS
  TypeOK
  ServedIsRecent
  NoOldWord
PROPERTIES
  BecomesKnown
