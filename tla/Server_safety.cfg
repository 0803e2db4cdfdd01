CONSTANTS
    n1 = n1
    k1 = k1
    alice = alice
    bob = bob
    carol = carol
    mA = mA
    mA2 = mA2
    mB = mB
    mO = mO
    kA = kA
    kB = kB
    Mentions = {mA, mA2, mB, mO, kA}
    Users = {alice, bob, carol}
    Notes = {n1}
    Comments = {k1}
    ToUser <- MCToUser
    NoteOf <- MCNoteOf
    SourceOf <- MCSourceOf
    Owner <- MCOwner
    AuthorOf <- MCAuthorOf
    Window = 2
    Retries = 1
    CommentedNotes = {p1}
    CommentIds = {c1, c2, c3}
    Anchors = {a1}
    Requests = {r1, r2}
    None = None
    MaxChanges = 3
SYMMETRY Symmetry
SPECIFICATION ServerSpec
INVARIANTS
    TypeOK
    OneHolder
    SentIsTrue
    UnsentAccounted
    OneBodyRow
    CommentsTypeOK
    ThreadsHonest
    OrphansFollow
PROPERTIES
    WindowSlides
