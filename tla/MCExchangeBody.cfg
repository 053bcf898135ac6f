CONSTANT ParamName <- Names
CONSTANT Opening = {"{x}", "{y}", "{}", "{a"}
CONSTANT Closing = {"{x}", "{y}", "{}", "b}"}
CONSTANT AnyMethod = "*"
CONSTANT Folded <- Fold
CONSTANT Case <- LongCase
CONSTANT Result <- Upstream
CONSTANT MaxInt = 3
CONSTANT Overrun = 1
CONSTANT NoId = "none"
SPECIFICATION ExchangeSpec
INVARIANT BodyIsDelivered
CHECK_DEADLOCK FALSE
