\* Other peers may store any of the values of MCForeignValues.
CONSTANTS
  ForeignValues <- MCForeignValues
  NotATuple = NotATuple
SPECIFICATION Spec
INVARIANT HeartbeatOutlivesForeignRecords
