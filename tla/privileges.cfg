SPECIFICATION Spec
CONSTANTS
    None = None
    Same = same
    r1 = r1
    r2 = r2
    r3 = r3
    e1 = e1
    e2 = e2
    p1 = p1
    p2 = p2
    p3 = p3
    p4 = p4
    p5 = p5
    q1 = q1
    q2 = q2
    g1 = g1
    g2 = g2
    t1 = t1
    owner = owner
    clerk = clerk
    manage = manage
    admin = admin
    condition = condition
    new = new
    book = book
    Book = Book
    Author = Author
    Request = {r1, r2, r3}
    Entry = {e1, e2, p1, p2, p3, p4, p5, q1, q2, g1, g2, t1}
    Module = {book, Book, Author}
    Word = {owner, clerk, manage, admin, condition, new}
    Owner = owner
    Undeletable = "AUTHOR"
    KindOf <- MCKindOf
    Link <- MCLink
    Operations <- MCOperations
    Catalogue <- MCCatalogue
    PlatformCodes <- MCPlatformCodes
    PlatformSets <- MCPlatformSets
    Vocabulary <- MCVocabulary
    Upper <- MCUpper
    Starts <- MCStarts
    Asked <- MCAsked
INVARIANTS NoHalfModule TokensAreBacked
PROPERTIES InstalledAsPromised ModuleGone
CHECK_DEADLOCK FALSE
