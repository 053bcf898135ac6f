CONSTANT a = a
CONSTANT b = b
CONSTANT x = x
CONSTANT v = v
CONSTANT w = w
CONSTANT empty = empty
CONSTANT Torn = Torn
CONSTANT unforced = unforced
CONSTANT forced = forced
CONSTANT Request = {r1}
CONSTANT Addr = {a, b}
CONSTANT Limits = {x}
CONSTANT Content = {v, w, empty}
CONSTANT Absent = Absent
CONSTANT Unloadable = {Absent, Torn}
CONSTANT EditedTo <- Edited
CONSTANT NoFlag = NoFlag
CONSTANT FirstFile <- First
CONSTANT AddrOverride = NoFlag
CONSTANT MaxEdits = 2
CONSTANT MaxHangups = 2
CONSTANT Writer = {unforced, forced}
CONSTANT Forced = {forced}
CONSTANT Fresh <- InitFile
CONSTANT Cut <- Beginnings
CONSTANT Nobody = Nobody
SPECIFICATION DeploymentSpec
INVARIANT ServerTypeOK
INVARIANT OneConfiguration
INVARIANT CleanExit
INVARIANT HalfAConfigIsUnforced
PROPERTY RejectedForAReason
PROPERTY WholeStaysWhole
PROPERTY TermEnds
PROPERTY HangupIsHonoured
CHECK_DEADLOCK FALSE
