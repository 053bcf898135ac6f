CONSTANT ParamName <- Names
CONSTANT Opening = {"{x}", "{y}", "{}", "{a"}
CONSTANT Closing = {"{x}", "{y}", "{}", "b}"}
CONSTANT AnyMethod = "*"
CONSTANT Folded <- Fold
CONSTANT Case <- Cases
CONSTANT Result <- Results
CONSTANT MaxInt = 3
CONSTANT Overrun = 1
CONSTANT NoId = "none"
SPECIFICATION ExchangeSpec
INVARIANT RouteIsTheDocumentedOne
INVARIANT ParamsExplainThePath
INVARIANT BodyIsWholeOrRefused
INVARIANT HeadersHavePrecedence
INVARIANT CompressedIsDescribed
INVARIANT EnoughTimeMeansAnAnswer
PROPERTY ExchangeEnds
CHECK_DEADLOCK FALSE
