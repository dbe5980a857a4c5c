SPECIFICATION Spec
CONSTANTS
    Caller = {c1, c2}
    Send = {s1, s2}
    Worker = {w1}
    NumPlugins = 2
    MaxConcurrentSends = 2
    BusKinds = {"caller", "noop"}
    MaxCalls = 3
INVARIANT CallersBusLeftOpen
