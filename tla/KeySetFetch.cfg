SPECIFICATION FairSpec
CONSTANTS
    l1 = l1
    l2 = l2
    k1 = k1
    k2 = k2
    Lookup = {l1, l2}
    Kid = {k1, k2}
    Ttl = 2
    AskedInterval = {1, 3}
INVARIANTS
    TypeOK
PROPERTIES
    FetchesSpaced
    AnswerReflectsSet
    LookupsAnswered
