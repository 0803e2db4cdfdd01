CONSTANTS
    blank = blank
    page = page
    tA = tA
    tB = tB
    g1 = g1
    NoteIds = {n1}
    Titles = {tA, tB}
    Untitled = tA
    Tags = {g1}
    Contents = {blank, page}
    Empty = blank
    TagsOf <- MCTagsOf
    LinksOf <- MCLinksOf
    Files <- MCFiles
    Requests = {r1}
    MayCrash = FALSE
    MaxChanges = 1
SPECIFICATION Spec
INVARIANT PurgeTakesDocument
