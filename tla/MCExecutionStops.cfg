CONSTANT Request = {r1}
CONSTANT left = left
CONSTANT right = right
CONSTANT memo = memo
CONSTANT job = job
CONSTANT api = api
CONSTANT Filter = {left, job}
CONSTANT Id <- UsedIds
CONSTANT Kind <- JobKind
CONSTANT Wraps <- JobWraps
CONSTANT DependsOn <- JobDependsOn
CONSTANT Refs <- NoRefs
CONSTANT Routes = {left}
CONSTANT RenderedKey <- OneKey
CONSTANT TTL = {1}
CONSTANT MaxEntries = 2
CONSTANT MaxTime = 0
CONSTANT MaxReloads = 0
SPECIFICATION Spec
PROPERTY StopsAfterTimeout
CHECK_DEADLOCK FALSE
