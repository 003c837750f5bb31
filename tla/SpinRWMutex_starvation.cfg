\* Two readers that overlap for ever keep a writer out.
SPECIFICATION FairSpec
CONSTANT Threads = {t1, t2, t3}
PROPERTY WriterGetsIn
