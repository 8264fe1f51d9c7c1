SPECIFICATION Spec
CONSTANTS
  Job = job
  Before = before
  Other = {o1, o2}
  OtherOps = {"append", "overwrite", "create", "drop"}
  MaxVersion = 2
INVARIANTS
  TypeOK
  SuccessKeepsInput
  OneVersion
  QuietOverwriteEmpties
PROPERTIES
  OldRowsSurvive
