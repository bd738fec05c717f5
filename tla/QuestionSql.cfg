SPECIFICATION Spec
SYMMETRY Symmetry
CONSTANTS
    t1 = t1 t2 = t2 e1 = e1 e2 = e2
    Tasks = {t1, t2}
    Pairs = {e1, e2}
    PairOf <- SamePair
    Production = {t1}
    Threads = {w1, w2}
    NoTask = notask
    NoPair = nopair
    NoThread = nothread
    Faults = TRUE
INVARIANT OnlyVettedIsRetrieved
PROPERTY PublishesTheRegistry
