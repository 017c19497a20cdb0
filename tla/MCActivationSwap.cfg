SPECIFICATION Spec

CONSTANTS
    s1 = s1
    s2 = s2
    good1 = good1
    good2 = good2
    bad = bad
    Missing = missing
    Down = down
    Free = free
    Script <- MCScript
    Content <- MCContent
    Working <- MCWorking

INVARIANTS
    FailedRollbackKeepsPrevious
