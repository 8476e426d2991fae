SPECIFICATION Spec
CONSTANTS
    None = None
    r1 = r1
    r2 = r2
    r3 = r3
    Request = {r1, r2, r3}
    b1 = b1
    b2 = b2
    Book = {b1, b2}
    a1 = a1
    a2 = a2
    Author = {a1, a2}
    g1 = g1
    g2 = g2
    Genre = {g1, g2}
    c1 = c1
    Reader = {c1}
    n1 = n1
    n2 = n2
    Name = {n1, n2}
    jpg = jpg
    png = png
    Ext = {jpg, png}
    upJpg = upJpg
    upPng = upPng
    Upload = {upJpg, upPng}
    ExtOf <- MCExtOf
    Link = link
    Plain = {}
    Covered = {b1}
    FirstExt = jpg
    Known = {a1, a2, g1}
    NameOf <- MCNameOf
    Linked <- MCLinked
    Same = same
    Asked <- MCAsked
INVARIANTS CommittedImageExists CoversHaveBooks
PROPERTIES LinksAsAsked
CHECK_DEADLOCK FALSE
