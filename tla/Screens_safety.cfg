CONSTANTS
    None = None
    n1 = n1  n2 = n2  m1 = m1  r1 = r1
    Queries = {q1, q2}
    MaxRequests = 3
    Notes = {n1}
    MaxPolls = 2
    MaxVersion = 2
    Comments = {m1, r1}
    Parent <- MCParent
    Old = {}
    MaxInFlight = 2
    Snaps = {s1, s2, s3, s4}
    First = {s1, s2}
    MaxPreviews = 2
    Width = 2
    Bounded = FALSE
    Chars = {"word", "trigger"}
    MaxLength = 3
    MaxPosts = 2
    NoteIds = {n1}
    Titles = {t1, t2}
    Untitled = t1
    Tags = {g1}
    Handlers = {h1}
    MaxOthers = 1
    UserActs = {{"trash", "discard", "inbox"}, {"title"}, {"tags", "new"}}
SPECIFICATION ScreensSpec
INVARIANTS TypesOK LocalEditsAgree UndoOffered HitsMatchQuery QuoteAnchored PagesAgree
    RenamesAsTyped
PROPERTIES ListSettles ListNeverGoesBack PickTakesTheQuery
CHECK_DEADLOCK FALSE
