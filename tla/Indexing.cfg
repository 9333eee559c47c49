CONSTANTS
    a = a   b = b   x1 = x1   x2 = x2
    NoUrl = NoUrl   NoText = NoText   NoRank = NoRank
    Urls = {a, b}
    Texts = {x1, x2}
    LinksOf <- TextLinks
    Stores = {k1}
    Rankings = {r1, r2}
    Reindexes = {i1}
SPECIFICATION LiveSpec
INVARIANTS
    TablesAgree
    NoEdgeLost
PROPERTIES
    ImplementsCorpus
    TransactionsEnd
