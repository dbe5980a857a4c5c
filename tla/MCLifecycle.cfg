SPECIFICATION Spec
CONSTANTS
    Caller = {c1, c2}
    Send = {s1, s2}
    Worker = {w1}
    NumPlugins = 2
    MaxConcurrentSends = 2
    BusKinds = {"transport"}
    MaxCalls = 3
INVARIANTS TypeOK ConnectedMeansReady PluginsPaired BackgroundHasStore OnlyLateSendsLost
PROPERTY CallsReturn
