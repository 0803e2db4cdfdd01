CONSTANTS
    blank = blank
    page = page
    tA = tA
    tB = tB
    g1 = g1
    NoteIds = {n1, n2}
    Titles = {tA, tB}
    Untitled = tA
    Tags = {g1}
    Contents = {blank, page}
    Empty = blank
    TagsOf <- MCTagsOf
    LinksOf <- MCLinksOf
    Files <- MCFiles
    Requests = {r1, r2}
    MayCrash = TRUE
    MaxChanges = 4
SYMMETRY Symmetry
SPECIFICATION Spec
INVARIANTS
    TypeOK
    HistoryAgrees
    DerivedUnlessSkipped
    BacklinksHonest
PROPERTY OldTitlesResolve
