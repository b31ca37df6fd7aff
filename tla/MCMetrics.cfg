SPECIFICATION Spec
CONSTANTS
  Precision = 21
  Scale = 26
  Unit = 20
  Numbers <- MCNumbers
  MaxItems = 5
  MaxNumbers = 3
  Atoi <- MCAtoi
  JSON <- Values
  JSONDepth <- MCJSONDepth
  MaxDigits = 9
  Shapes <- MCSchemas
  ShapeDepth <- MCShapeDepth
  Arguments <- MCArguments
  OptionLists <- MCOptionLists
  Subjects <- MCSubjects
INVARIANTS
  SchemaIsParsed
  VerdictMatchesScore
  MoreEvidenceNeverLowers
  SchemaMeansSchema
  ExpectedFieldsMatched
CHECK_DEADLOCK FALSE
