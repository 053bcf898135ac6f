CONSTANT Request = {r1, r2}
CONSTANT left = left
CONSTANT right = right
CONSTANT memo = memo
CONSTANT job = job
CONSTANT api = api
CONSTANT Filter = {left, right, api, job}
CONSTANT Id <- KeysIds
CONSTANT Kind <- KeysKind
CONSTANT Wraps <- KeysWraps
CONSTANT DependsOn <- NoDependsOn
CONSTANT Refs <- NoRefs
CONSTANT Routes = {left, right}
CONSTANT RenderedKey <- TwoKeys
CONSTANT TTL = {1}
CONSTANT MaxEntries = 2
CONSTANT MaxTime = 0
CONSTANT MaxReloads = 0
SPECIFICATION Spec
INVARIANT AnswersAreTheirFilters
CHECK_DEADLOCK FALSE
