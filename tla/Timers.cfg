CONSTANTS
    Timers = {t1}
    Workers = {w1, w2}
    Periods = {1, 2}
    MaxTime = 2
    MaxBack = 1
    Gap = 1
    MaxTimeout = 2
SPECIFICATION MCSpec
INVARIANTS NoOversleep CancelOrFire RolloverMeansSetBack
PROPERTIES NeverEarly DueIsCollected
CHECK_DEADLOCK FALSE
