CONSTANTS
    n1 = n1
    k1 = k1
    alice = alice
    bob = bob
    carol = carol
    mA = mA
    mA2 = mA2
    mB = mB
    mO = mO
    kA = kA
    kB = kB
    Mentions = {mA, mB, kA}
    Users = {alice, bob, carol}
    Notes = {n1}
    Comments = {k1}
    ToUser <- MCToUser
    NoteOf <- MCNoteOf
    SourceOf <- MCSourceOf
    Owner <- MCOwner
    AuthorOf <- MCAuthorOf
    Window = 1
    Retries = 1
SPECIFICATION Spec
PROPERTY ExitDropsNothing
