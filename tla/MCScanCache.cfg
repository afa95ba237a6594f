CONSTANTS
    p1 = p1
    p2 = p2
    time = time
    lat = lat
    w1 = w1
    w2 = w2
    None = None
    Partitions = {p1, p2}
    Coords = {time, lat}
    Outer = time
    WindowOf <- MCWindowOf
SPECIFICATION Spec
INVARIANT TypeOK
INVARIANT OneReader
INVARIANT ReadOnce
INVARIANT Agreement
INVARIANT RightWindow
INVARIANT LoadedIsComplete
PROPERTY EveryPartitionEnds
