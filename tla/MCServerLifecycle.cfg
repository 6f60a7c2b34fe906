\* get_subnet_slot may raise; Server.shutdown as written; other servers store well-formed records.
CONSTANTS
  SlotMayFail = TRUE
  None = None
  ForeignValues <- MCForeignValues
  NotATuple = NotATuple
SPECIFICATION Spec
INVARIANTS TypeOK HeartbeatFresh HeartbeatOutlivesForeignRecords
PROPERTIES OnlineEventuallyPublished
