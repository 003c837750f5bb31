\* Three threads, each reading or writing again and again.
SPECIFICATION FairSpec
CONSTANT Threads = {t1, t2, t3}
INVARIANTS TypeOK WordCountsHolders Exclusion
PROPERTY ImplementsRWLock SomeoneGetsIt
