SPECIFICATION FairSpec
CONSTANTS
    a = a
    b = b
    c = c
    d = d
    e = e
    h1 = h1
    h2 = h2
    Urls <- FiveUrls
    Hosts <- TwoHosts
    HostOf <- Servers
    Links <- Site
    Decoded <- Unescaped
    Whitelist = {a, b, c, d}
    Disallowed = {d}
    Seed = a
    Workers = {w1, w2}
    MaxFailures = 1
    MaxLost = 1
    MaxCrashes = 1
CHECK_DEADLOCK FALSE
INVARIANTS
    CrawlIsComplete
    ListIsTrue
PROPERTIES
    CrawlEnds
