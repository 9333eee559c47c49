CONSTANTS
    NoUrl = NoUrl
    Labels <- HostLabels
    Ports <- KnownPorts
    Segments <- PathSegments
    Slashed <- Slashes
    Queries <- KnownQueries
    Pages <- SomePages
    Hrefs <- SomeHrefs
    MaxAnchors = 2
    SeedLists <- PairsOfSeeds
    SuffixList <- PublicSuffixes
SPECIFICATION Spec
INVARIANTS
    OneLinkPerResource
    SeedsMeetLinks
    WithinScope
    AcceptsItself
    ApprovalCovers
