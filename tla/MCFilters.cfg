CONSTANT Request = {r1, r2}
CONSTANT FilterConfig <- Configs
CONSTANT FilterIds <- Ids
SPECIFICATION FiltersSpec
INVARIANT LeftToRequestTime
INVARIANT OneProgramPerSource
CHECK_DEADLOCK FALSE
