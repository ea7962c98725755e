CONSTANTS
  kavita = kavita
  bookorbit = bookorbit
  Instances = {kavita, bookorbit}
  Deltable = {bookorbit}
  Never = never
  Due = 1
  MaxDisturbances = 2
SPECIFICATION LifecycleSpec
INVARIANTS
  ClaimPerRun
PROPERTIES
  StampsForward
  KeptFresh
  FirstImport
