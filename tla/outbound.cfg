SPECIFICATION MCSpec
CONSTANTS
    s1 = s1
    s2 = s2
    s3 = s3
    s4 = s4
    Checks = {1, 2}
    Links = {"a1", "b1", "c1"}
    Domains = {"a", "b", "c"}
    DomainOf <- MCDomainOf
    InternalLinks = {"c1"}
    Targets <- MCTargets
    MaxRequests = 3
    States <- MCStates
    NoState = NoState
    Burst = 1
    Concurrency = 1
    RegistryCap = 2
    Ttl = 0
    Fetches = {1, 2}
    Messages = {"m", "n"}
    Urls = {"css", "png", "font"}
    Linked <- MCLinked
    Styles <- MCStyles
    Barred = {"png"}
    NoMessage = "none"
    NoUrl = "none"
    Found <- MCFound
    MaxLinks = 2
    Requests = {1, 2, 3}
    KeptFor = 3
    MaxBackoff = 3
    Minute = 3
    Width = 6
SYMMETRY Symmetry
INVARIANTS
    DomainsAreSpared
    AnswersAreFresh
    AssetsAreExact
    LookupsAreApart
