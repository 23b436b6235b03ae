SPECIFICATION Spec
CONSTANTS
    Int32 = 1
    Safe = 3
    Int64 = 4
    Int128 = 12
    Micros = 4
    Millis = 2
    Minute = 3
    MaxTypeNesting = 2
    MaxTypeStringLength = 54
    Rows <- MCRows
    Types <- MCTypes
    TypeTexts <- MCTypeTexts
    ByteStrings <- MCByteStrings
INVARIANTS
    TypeOK
    RecordsDescribeTheResult
    ValuesReadBack
    ValuesTellApart
    TypeStringsMeanWhatTheySay
    StringsReadBack
CHECK_DEADLOCK FALSE
