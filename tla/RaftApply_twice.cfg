SPECIFICATION Spec
CONSTANTS
    Writer = {w1}
    Driver = driver
    w1 = w1
    driver = driver
INVARIANT AppliedOnce
