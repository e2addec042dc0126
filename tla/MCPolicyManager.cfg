SPECIFICATION FairSpec
CONSTANTS
    t1 = t1
    t2 = t2
    t3 = t3
    server = server
    cli = cli
    Threads = {t1, t2, t3}
    Home <- ServerAndCliHome
    Calls <- ServerAndCliCalls
    Pollers = {t1}
    Docs = {d0, d1}
    Seed = d0
    NoDoc = NoDoc
    NoThread = NoThread
    MaxPublish = 2
    MaxFaults = 1
INVARIANTS CacheCoherent
PROPERTIES ReloadIsCurrent NoLostUpdate StaleCacheHeals CallsReturn
