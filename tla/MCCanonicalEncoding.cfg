CONSTANTS
  Byte = {0, 1}
  LabelMax = 1
  LabelWidth = 1
  LabelLength <- MCLabelLength
  ValueMax = 3
  ValueWidth = 2
  ValueLength <- MCValueLength
  Statements <- MCStatements
SPECIFICATION Spec
INVARIANTS TypeOK OneReading
CHECK_DEADLOCK FALSE
