CONSTANT a = a
CONSTANT b = b
CONSTANT x = x
CONSTANT v = v
CONSTANT w = w
CONSTANT Request = {r1}
CONSTANT Addr = {a, b}
CONSTANT Limits = {x}
CONSTANT Content = {v, w}
CONSTANT Broken = Broken
CONSTANT Unloadable = {Broken}
CONSTANT EditedTo <- Edited
CONSTANT NoFlag = NoFlag
CONSTANT FirstFile <- First
CONSTANT AddrOverride = b
CONSTANT MaxEdits = 1
CONSTANT MaxHangups = 1
SPECIFICATION ServerSpec
PROPERTY RejectedForAReason
CHECK_DEADLOCK FALSE
