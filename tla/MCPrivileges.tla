----------------------------- MODULE MCPrivileges -----------------------------
(* A small instance of Privileges for TLC: a resource with two operations, *)
(* one without DELETE, a platform set, a variant type.                     *)
EXTENDS Privileges, TLC

CONSTANTS r1, r2, r3, e1, e2, p1, p2, p3, p4, p5, q1, q2, g1, g2, t1, owner, clerk, manage,
          admin, condition, new, book, Book, Author

MCKindOf ==
    [e \in {e1, e2} |-> "role"] @@ [e \in {p1, p2, p3, p4, p5} |-> "privilege"]
    @@ [e \in {q1, q2} |-> "platformPrivilege"] @@ [e \in {g1, g2} |-> "set"] @@ (t1 :> "type")

MCOperations == <<"READ", "DELETE">>
MCUpper == (book :> "BOOK") @@ (Book :> "BOOK") @@ (Author :> "AUTHOR")

MCCatalogue ==
    <<[resource |-> "BOOK", module |-> Book, update |-> TRUE, delete |-> TRUE],
      [resource |-> "AUTHOR", module |-> Author, update |-> TRUE, delete |-> FALSE]>>

MCPlatformCodes == <<manage>>
MCPlatformSets == <<[name |-> admin, members |-> <<manage>>]>>
MCVocabulary == <<[name |-> condition, members |-> <<new>>]>>

ReadBook == <<"READ", "BOOK">>
DeleteBook == <<"DELETE", "BOOK">>
ReadAuthor == <<"READ", "AUTHOR">>

MCLink ==
    ({e1, e2} \X {ReadBook, DeleteBook, ReadAuthor}) \cup ({g1, g2} \X {manage, new})
      \cup {<<t1, new>>}

At0(name, group) == [state |-> "live", name |-> name, group |-> group]

Half == [entries |-> (e2 :> At0(clerk, None)) @@ (p1 :> At0(ReadBook, Author))
                     @@ (g1 :> At0(admin, None)) @@ (q1 :> At0(new, None)),
         links |-> {<<e2, ReadBook>>, <<g1, new>>}]

Full == [entries |-> (e1 :> At0(owner, None)) @@ (e2 :> At0(clerk, None))
                     @@ (p1 :> At0(ReadBook, Book)) @@ (p2 :> At0(DeleteBook, Book))
                     @@ (p3 :> At0(ReadAuthor, Author))
                     @@ (q1 :> At0(manage, None)) @@ (g1 :> At0(admin, None)),
         links |-> {<<e1, ReadBook>>, <<e1, DeleteBook>>, <<e1, ReadAuthor>>, <<e2, ReadBook>>,
                    <<g1, manage>>}]

Nothing == [entries |-> <<>>, links |-> {}]

MCStarts == {Nothing, Half, Full}

Install0(op, m) == [op |-> op, module |-> m]
Move(e, n, m) == [op |-> "rename", row |-> e, name |-> n, group |-> m]

MCAsked ==
    (r1 :> {[op |-> "seed"], Install0("createModule", book), Install0("createModule", Author),
            Install0("updateModule", Book), Install0("deleteModule", Book)})
    @@ (r2 :> {[op |-> "seed"], Install0("createModule", Book),
               Install0("updateModule", Author), Install0("deleteModule", Book),
               Install0("deleteModule", book),
               [op |-> "createRole", name |-> owner, codes |-> <<ReadBook, ReadBook>>],
               [op |-> "createPrivilege", name |-> DeleteBook, group |-> Book],
               [op |-> "createPlatform", name |-> manage], [op |-> "createSet", name |-> admin],
               Move(p1, DeleteBook, Same), Move(p1, Same, Author), Move(q1, manage, Same),
               Move(e2, Same, Same),
               [op |-> "drop", row |-> e1], [op |-> "drop", row |-> p1], [op |-> "drop", row |-> g1],
               [op |-> "grant", holder |-> e2, codes |-> <<ReadBook, DeleteBook>>],
               [op |-> "grant", holder |-> g1, codes |-> <<manage>>],
               [op |-> "ungrant", link |-> <<e2, ReadBook>>],
               [op |-> "touchLink", link |-> <<g1, manage>>, by |-> None],
               [op |-> "dropLink", link |-> <<g1, manage>>, by |-> None]})
    @@ (r3 :> {[op |-> "switch", role |-> e2],
               [op |-> "ungrant", link |-> <<e2, ReadBook>>]})
=============================================================================
