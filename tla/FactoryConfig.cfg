SPECIFICATION Spec
CONSTANTS
  Values <- MCValues
  Devices <- MCDevices
  Absent = Absent
  Null = Null
  Object = Object
INVARIANTS
  TypeOK
  ConfigAsAsked
  ConfiguredNeverThrows
  UnderstoodAsAnnounced
  CommandsObeyed
