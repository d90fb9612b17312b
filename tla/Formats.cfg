SPECIFICATION FormatsSpec
CONSTANTS
  PageLen = 32
  Header = 8
  Wide = 32
  FragMax = 4
  Cell = {"a", "b", "c", "d", "e"}
  CellLen <- MCCellLen
  Tables = {"t", "u"}
  IndexOf <- MCIndexOf
  Auto = {"t"}
  Vals <- MCVals
  MaxRowid = 2
  MaxStatements = 5
  CookieWrap = 4
  NPages = 2
  MaxTx = 2
  MaxFaults = 1
  UnderPager = FALSE
  OtherReader = TRUE
  VarintWords <- MCWords
  Heads <- MCHeads
  RecordRows <- MCRecordRows
  TableDefs <- MCTableDefs
  IndexDefs <- MCIndexDefs
  PageSizes <- MCSizes
  FieldBytes <- MCFieldBytes
  ShownRows <- MCShown
  ThriftStructs <- MCThrift
  LevelRuns <- MCLevels
  DeltaRuns <- MCDeltas
  Texts <- MCTexts
  Decimals <- MCDecimals
  NotUtf8 <- MCNotUtf8
  FlatColumns <- MCFlat
  NestedFiles <- MCNested
INVARIANTS
  PageSound CatalogSound CommittedKept PagerReadsCommitted ModeIsOnPage1
PROPERTIES
  CheckTellsTruth CountersTell RecordsReadBack SchemaReadsBack RowsPrinted ParquetReadsBack
CHECK_DEADLOCK FALSE
