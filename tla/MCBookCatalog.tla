---------------------------- MODULE MCBookCatalog ----------------------------
(* A small instance of BookCatalog for TLC.                                *)
EXTENDS BookCatalog, TLC

CONSTANTS r1, r2, r3, b1, b2, a1, a2, g1, g2, n1, n2, c1, jpg, png, upJpg, upPng

MCExtOf == (upJpg :> jpg) @@ (upPng :> png)

MCNameOf == (a1 :> n1) @@ (a2 :> n2) @@ (g1 :> n1)

MCLinked == {<<b1, a1>>, <<b1, g1>>}

Creations(images, Gs, vs) ==
    {[op |-> "create", image |-> i, authors |-> {a1, a2}, genres |-> G, valid |-> v] :
       i \in images, G \in Gs, v \in vs}

Updates(b, images, As, Gs, vs) ==
    {[op |-> "update", book |-> b, image |-> i, authors |-> A, genres |-> G, valid |-> v] :
       i \in images, A \in As, G \in Gs, v \in vs}

Small ==
    {[op |-> "delete", book |-> b1], [op |-> "link", book |-> b1, part |-> a2],
     [op |-> "link", book |-> b2, part |-> g2], [op |-> "unlink", book |-> b1, part |-> a1],
     [op |-> "move", book |-> b1, part |-> a1, to |-> a2],
     [op |-> "rate", book |-> b1, reader |-> c1], [op |-> "newAuthor", name |-> n1],
     [op |-> "newGenre", name |-> n1], [op |-> "newGenre", name |-> n2],
     [op |-> "rename", part |-> g1, name |-> n2], [op |-> "rename", part |-> a1, name |-> n2],
     [op |-> "dropPart", part |-> a1], [op |-> "dropPart", part |-> g1]}

MCAsked ==
    (r1 :> Updates(b1, {upJpg, upPng, Same}, {{a2}, Same}, {{g1}, Same}, {TRUE})
             \cup Updates(b1, {<<b1, png>>, <<b2, png>>}, {Same}, {Same}, {TRUE})
             \cup Small)
    @@ (r2 :> Creations({upPng, Link}, {{}, {g2}}, BOOLEAN)
             \cup Creations({<<b1, jpg>>, None}, {{}}, {TRUE})
             \cup {[op |-> "dropPart", part |-> g1], [op |-> "link", book |-> b1, part |-> a2]}
             \cup Updates(b1, {upPng, Link}, {{a1, a2}, Same}, {{}, Same}, {TRUE})
             \cup Updates(b1, {<<b1, jpg>>, None}, {Same}, {Same}, {TRUE})
             \cup Updates(b1, {upPng}, {{}}, {{g1}}, BOOLEAN))
    @@ (r3 :> {[op |-> "unlink", book |-> b1, part |-> a1], [op |-> "delete", book |-> b1],
               [op |-> "newGenre", name |-> n2]})
=============================================================================
