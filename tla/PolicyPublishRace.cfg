SPECIFICATION Spec
CONSTANTS
    t1 = t1
    t2 = t2
    t3 = t3
    server = server
    cli = cli
    Threads = {t1, t2}
    Home <- ServerHome
    Calls <- ServerCalls
    Pollers = {t2}
    Docs = {d0, d1}
    Seed = d0
    NoDoc = NoDoc
    NoThread = NoThread
    MaxPublish = 3
    MaxFaults = 0
INVARIANT PublishedIsServed
