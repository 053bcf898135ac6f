CONSTANT Request = {r1, r2}
CONSTANT left = left
CONSTANT right = right
CONSTANT memo = memo
CONSTANT job = job
CONSTANT api = api
CONSTANT Filter = {left, right, memo, job, api}
CONSTANT Id <- UsedIds
CONSTANT Kind <- MixedKind
CONSTANT Wraps <- MixedWraps
CONSTANT DependsOn <- NoDependsOn
CONSTANT Refs <- MixedRefs
CONSTANT Routes = {left, right}
CONSTANT RenderedKey <- OneKey
CONSTANT TTL = {0}
CONSTANT MaxEntries = 1
CONSTANT MaxTime = 1
CONSTANT MaxReloads = 1
SPECIFICATION FairSpec
INVARIANT TypeOK
INVARIANT ReferencesAreExecuted
INVARIANT ResultsAreTheRightOnes
INVARIANT ExecutionsDoNotOverlap
INVARIANT ContextFailuresAreShared
INVARIANT NobodyWaitsInVain
INVARIANT NoWaitCycle
PROPERTY EveryRequestEnds
CHECK_DEADLOCK FALSE
