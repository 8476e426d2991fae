---------------------------- MODULE PlatformProofs ----------------------------
(***************************************************************************)
(* Proofs about the three components of the platform's own users, for      *)
(* every set of requests, users, invites, addresses, accounts and          *)
(* privilege sets: the three properties the run of PlatformInvites checks, *)
(* and the two each that the runs of SuperAdmin and Passwords check.       *)
(*                                                                         *)
(* Each inductive invariant says what the database holds and, of each      *)
(* request apart, what it is working on, which rows it has written and not *)
(* yet committed, and what it has found out that is still so.  A step of   *)
(* one request preserves what is said of another because the rows that the *)
(* other has written are locked; an invite never goes away, and time and   *)
(* the mail server only ever add tokens to late and mailed.  The role of   *)
(* the super admin goes to the account a transfer names and leaves the one *)
(* it was called from, and no other endpoint writes it where its guard has *)
(* not looked.  A password rests on what a request may go by after it has  *)
(* read it: the session it was called with and the token it was given stay *)
(* what they are, and only a change or an administrator takes a user out   *)
(* of the status NEW.                                                      *)
(***************************************************************************)
EXTENDS PlatformInvites, SuperAdmin, Passwords, FiniteSetTheorems, TLAPS

-----------------------------------------------------------------------------
(* Invites.                                                                *)

Rows == Invite \cup Email
Job == {NoJob} \cup CreateJob \cup ResendJob \cup RevokeJob \cup TokenJob
         \cup SignupJob \cup DeleteUserJob

(* The endpoints whose handlers pass a statement.                          *)
OpsAt(label) ==
    CASE label \in {"sweep", "expire"} ->
             {"create", "resend", "revoke", "validate", "accept", "reject"}
      [] label \in {"access", "pending", "insert", "revokeUnsent"} -> {"create"}
      [] label = "require" -> {"resend", "revoke"}
      [] label = "refresh" -> {"resend"}
      [] label \in {"mail", "raise"} -> {"create", "resend"}
      [] label = "validate" -> {"validate", "accept", "reject"}
      [] label \in {"user", "signup"} -> {"accept", "signup"}
      [] label = "account" -> {"accept"}
      [] label = "settle" -> {"revoke", "accept", "reject"}
      [] label = "delete" -> {"deleteUser"}
      [] OTHER -> {"create", "resend", "revoke", "accept", "reject", "signup", "deleteUser"}

Seen == {None} \cup Invite \cup [todo : SUBSET Invite] \cup [invite : Invite, row : InviteRow]

(* The committed rows: of the right table, with the two claims about them. *)
Committed ==
    /\ DOMAIN db = Rows
    /\ \A i \in Invite : db[i] \in InviteRow \cup {NoInvite}
    /\ \A e \in Email : db[e] \in UserRow
    /\ PendingInvitesWereMailed
    /\ ExpiredMeansLate

(* What a request has found and still goes by: an invite that exists.      *)
Found(r) ==
    /\ seen[r] \in [invite : Invite, row : InviteRow]
    /\ View(r, seen[r].invite) \in InviteRow

(* What a request works on.                                                *)
Working(r) ==
    /\ pc[r] \in Label
    /\ job[r] \in Job
    /\ Running(r) => job[r].op \in OpsAt(pc[r])
    /\ job[r].op \in {"validate", "accept", "reject"} => job[r].token \in mailed
    /\ pc[r] = "expire" => seen[r] \in [todo : SUBSET Invite]
    /\ pc[r] \in {"mail", "revokeUnsent"} /\ job[r].op = "create" =>
         seen[r] \in Invite /\ Holds(r, seen[r])
    /\ pc[r] \in {"refresh", "settle", "account"} => Found(r)
    /\ pc[r] \in {"user", "signup", "commit"} /\ job[r].op = "accept" => Found(r)

(* What a request has written and not yet committed.  A pending invite     *)
(* carries the token that the request has generated; nothing commits it    *)
(* before that token is mailed.                                            *)
Written(r) ==
    /\ DOMAIN pend[r] = Rows
    /\ \A i \in Invite :
         Holds(r, i) =>
           /\ pend[r][i] \in InviteRow
           /\ pend[r][i].status = "EXPIRED" => pend[r][i].token \in late
           /\ Pending(pend[r][i]) =>
                /\ pend[r][i].token = r
                /\ pc[r] \in {"mail", "revokeUnsent", "raise"} \/ (pc[r] = "commit" /\ r \in mailed)
    /\ \A e \in Email :
         Holds(r, e) =>
           /\ pend[r][e] \in UserRow
           /\ pend[r][e].set # None => /\ job[r].op = "accept" /\ pc[r] \in {"settle", "commit"}
                                       /\ seen[r].row.email = e

(* An acceptance that has signed its user up keeps the address to itself.  *)
SignedUp(r) ==
    job[r].op = "accept" /\ pc[r] \in {"account", "settle", "commit"} =>
      LET e == seen[r].row.email
          i == seen[r].invite
      IN  /\ Holds(r, e) /\ ~db[e].exists
          /\ pc[r] \in {"settle", "commit"} => pend[r][e].set # None
          /\ pc[r] = "commit" => Holds(r, i) /\ pend[r][i].status = "ACCEPTED"

InviteInv ==
    /\ TypeOK
    /\ Committed
    /\ RowLocksExclusive
    /\ \A r \in Request : Working(r) /\ Written(r) /\ SignedUp(r)

(* All that the invariant says of one request.                             *)
Mine(r) ==
    /\ pend[r] \in [Rows -> InviteRow \cup UserRow \cup {None}]
    /\ seen[r] \in Seen
    /\ Working(r) /\ Written(r) /\ SignedUp(r)

(* Only r has moved, and no token was taken back from late or mailed.      *)
OnlyMoves(r) ==
    /\ pc' = [pc EXCEPT ![r] = pc'[r]]
    /\ job' = [job EXCEPT ![r] = job'[r]]
    /\ seen' = [seen EXCEPT ![r] = seen'[r]]
    /\ late \subseteq late' /\ late' \subseteq Token
    /\ mailed \subseteq mailed' /\ mailed' \subseteq Token

-----------------------------------------------------------------------------
(* Rows.                                                                   *)

LEMMA RowFacts ==
    /\ \A i \in Invite : i \in Rows /\ i \notin Email
    /\ \A e \in Email : e \in Rows /\ e \notin Invite
    /\ None \notin InviteRow /\ None \notin UserRow /\ None \notin Set /\ NoInvite # None
    /\ NoInvite \notin InviteRow
<1>1. NoInvite \notin InviteRow
  BY DEF NoInvite, InviteRow, InviteStatus
<1> QED
  BY <1>1, InviteAssumption DEF Rows

LEMMA Typed ==
    TypeOK <=> /\ db \in [Rows -> InviteRow \cup {NoInvite} \cup UserRow]
               /\ pend \in [Request -> [Rows -> InviteRow \cup UserRow \cup {None}]]
               /\ pc \in [Request -> Label] /\ job \in [Request -> Job]
               /\ seen \in [Request -> Seen]
               /\ late \subseteq Token /\ mailed \subseteq Token
BY DEF TypeOK, Rows, Job, Seen

LEMMA ViewTypes ==
    ASSUME InviteInv, NEW r \in Request
    PROVE  /\ \A i \in Invite : View(r, i) \in InviteRow \cup {NoInvite}
           /\ \A e \in Email : View(r, e) \in UserRow
BY DEF InviteInv, Committed, Written, Holds, View

LEMMA NotHeldByOther ==
    ASSUME InviteInv, NEW r \in Request, NEW s \in Request \ {r}, NEW k \in Rows, Holds(r, k)
    PROVE  ~Holds(s, k)
BY DEF InviteInv, Committed, RowLocksExclusive, Row

(* What is said of a request stays true while another request moves,       *)
(* writing rows that it has locked for itself or committing them.          *)
LEMMA OthersKeep ==
    ASSUME InviteInv, NEW r \in Request, OnlyMoves(r), NEW s \in Request \ {r},
           pend'[s] = pend[s],
           \A i \in Invite : db[i] \in InviteRow => db'[i] \in InviteRow,
           \A e \in Email : Holds(s, e) => db'[e] = db[e]
    PROVE  Mine(s)'
<1>1. Working(s) /\ Written(s) /\ SignedUp(s)
  BY DEF InviteInv
<1>2. pc'[s] = pc[s] /\ job'[s] = job[s] /\ seen'[s] = seen[s]
  BY Typed DEF OnlyMoves, InviteInv
<1>3. \A k : Holds(s, k)' <=> Holds(s, k)
  BY DEF Holds
<1>4. Found(s) => Found(s)'
  <2> SUFFICES ASSUME Found(s) PROVE Found(s)'
    OBVIOUS
  <2>1. seen[s].invite \in Invite
    BY DEF Found
  <2>2. View(s, seen[s].invite)' \in InviteRow
    BY <1>2, <2>1 DEF Found, View
  <2> QED
    BY <1>2, <2>2 DEF Found
<1>5. Working(s)'
  BY <1>1, <1>2, <1>3, <1>4 DEF Working, OnlyMoves, Running
<1>6. Written(s)'
  BY <1>1, <1>2, <1>3 DEF Written, OnlyMoves
<1>7. SignedUp(s)'
  <2> SUFFICES ASSUME job[s].op = "accept", pc[s] \in {"account", "settle", "commit"}
               PROVE  /\ Holds(s, seen[s].row.email) /\ ~db'[seen[s].row.email].exists
                      /\ pc[s] \in {"settle", "commit"} => pend[s][seen[s].row.email].set # None
                      /\ pc[s] = "commit" => /\ Holds(s, seen[s].invite)
                                             /\ pend[s][seen[s].invite].status = "ACCEPTED"
    BY <1>2, <1>3 DEF SignedUp
  <2>1. seen[s].row.email \in Email
    BY <1>1 DEF Working, Found, InviteRow
  <2> QED
    BY <1>1, <2>1 DEF SignedUp
<1> QED
  BY <1>2, <1>5, <1>6, <1>7, Typed DEF Mine, InviteInv

LEMMA CommittedKeeps ==
    ASSUME Committed, db' = db, late \subseteq late', mailed \subseteq mailed'
    PROVE  Committed'
BY DEF Committed, PendingInvitesWereMailed, ExpiredMeansLate

(* What r shows, together with what the others keep, is the invariant.     *)
LEMMA Together ==
    ASSUME InviteInv, NEW r \in Request, OnlyMoves(r), Committed', RowLocksExclusive',
           db' \in [Rows -> InviteRow \cup {NoInvite} \cup UserRow],
           pend' = [pend EXCEPT ![r] = pend'[r]],
           \A s \in Request : Mine(s)'
    PROVE  InviteInv'
<1>1. pend' \in [Request -> [Rows -> InviteRow \cup UserRow \cup {None}]]
  BY Typed DEF Mine, InviteInv
<1>2. pc' \in [Request -> Label] /\ job' \in [Request -> Job] /\ seen' \in [Request -> Seen]
  BY Typed DEF Mine, InviteInv, Working, OnlyMoves
<1>3. TypeOK'
  BY <1>1, <1>2, Typed DEF OnlyMoves, TypeOK, Rows, Job, Seen
<1> QED
  BY <1>3, Typed DEF InviteInv, Mine

(* A statement that writes nothing.                                        *)
LEMMA ReadStep ==
    ASSUME InviteInv, NEW r \in Request, OnlyMoves(r), UNCHANGED <<db, pend>>, Mine(r)'
    PROVE  InviteInv'
<1>1. \A s \in Request \ {r} : Mine(s)'
  <2> TAKE s \in Request \ {r}
  <2>1. \A i \in Invite : db[i] \in InviteRow => db'[i] \in InviteRow
    OBVIOUS
  <2> QED
    BY <2>1, OthersKeep
<1>2. Committed'
  BY CommittedKeeps, Typed DEF InviteInv, OnlyMoves
<1>3. RowLocksExclusive'
  BY Typed DEF InviteInv, RowLocksExclusive, Holds, Row
<1>4. pend' = [pend EXCEPT ![r] = pend'[r]]
  BY Typed DEF InviteInv
<1>5. db' \in [Rows -> InviteRow \cup {NoInvite} \cup UserRow]
  BY Typed DEF InviteInv, WriteRow
<1> QED
  BY <1>1, <1>2, <1>3, <1>4, <1>5, Together

(* A statement that locks and writes one row.                              *)
LEMMA WriteStep ==
    ASSUME InviteInv, NEW r \in Request, OnlyMoves(r), NEW k \in Rows,
           NEW x \in InviteRow \cup UserRow, WriteRow(r, k, x), Mine(r)'
    PROVE  InviteInv'
<1>0. db' = db /\ pend' = [pend EXCEPT ![r][k] = x]
  BY DEF WriteRow
<1>1. \A s \in Request \ {r} : Mine(s)'
  <2> TAKE s \in Request \ {r}
  <2>1. \A i \in Invite : db[i] \in InviteRow => db'[i] \in InviteRow
    BY <1>0
  <2>2. pend'[s] = pend[s]
    BY <1>0, Typed DEF InviteInv
  <2> QED
    BY <1>0, <2>1, <2>2, OthersKeep
<1>2. Committed'
  BY <1>0, CommittedKeeps, Typed DEF InviteInv, OnlyMoves
<1>3. RowLocksExclusive'
  <2> SUFFICES ASSUME NEW p \in Request, NEW q \in Request, NEW j \in Rows,
                      Holds(p, j)', Holds(q, j)'
               PROVE  p = q
    BY <1>0, Typed DEF RowLocksExclusive, Row, InviteInv, Committed
  <2>1. \A s \in Request, i \in Rows : s # r \/ i # k => (Holds(s, i)' <=> Holds(s, i))
    BY <1>0, Typed DEF Holds, InviteInv
  <2>2. \A s \in Request \ {r} : ~Holds(s, k)
    BY DEF WriteRow, HeldByOther
  <2>3. RowLocksExclusive /\ Row = Rows
    BY Typed DEF InviteInv, Committed, Row
  <2> QED
    BY <2>1, <2>2, <2>3 DEF RowLocksExclusive
<1>4. pend' = [pend EXCEPT ![r] = pend'[r]]
  BY <1>0, Typed DEF InviteInv
<1>5. db' \in [Rows -> InviteRow \cup {NoInvite} \cup UserRow]
  BY Typed DEF InviteInv, WriteRow
<1> QED
  BY <1>1, <1>2, <1>3, <1>4, <1>5, Together

-----------------------------------------------------------------------------
(* The end of a request.                                                   *)

LEMMA EndedIsMine ==
    ASSUME InviteInv, NEW r \in Request, NEW outcome \in {"done", "failed"}, End(r, outcome),
           pend' = [pend EXCEPT ![r] = NoWrites]
    PROVE  Mine(r)'
<1>1. pc'[r] = outcome /\ job'[r] = NoJob /\ \A k \in Rows : pend'[r][k] = None
  BY Typed DEF InviteInv, End, Goto, NoWrites, Row, Committed
<1>2. pend'[r] \in [Rows -> InviteRow \cup UserRow \cup {None}]
  BY Typed DEF InviteInv, NoWrites, Row, Committed
<1>3. Working(r)'
  BY <1>1 DEF Working, Running, NoJob, Job, Label
<1>4. Written(r)'
  BY <1>1, <1>2, RowFacts DEF Written, Holds
<1>5. SignedUp(r)'
  BY <1>1 DEF SignedUp
<1>6. seen'[r] \in Seen
  BY Typed DEF InviteInv, End, Seen
<1> QED
  BY <1>2, <1>3, <1>4, <1>5, <1>6 DEF Mine

LEMMA RejectedStep ==
    ASSUME InviteInv, NEW r \in Request, Rejected(r)
    PROVE  InviteInv'
<1>1. db' = db /\ pend' = [pend EXCEPT ![r] = NoWrites] /\ End(r, "failed")
  BY DEF Rejected, Fail, DiscardWrites
<1>2. OnlyMoves(r)
  BY <1>1, Typed DEF Rejected, outside, OnlyMoves, End, Goto, InviteInv
<1>3. \A s \in Request \ {r} : pend'[s] = pend[s]
  BY <1>1, Typed DEF InviteInv
<1>4. \A s \in Request \ {r} : Mine(s)'
  <2> TAKE s \in Request \ {r}
  <2>1. \A i \in Invite : db[i] \in InviteRow => db'[i] \in InviteRow
    BY <1>1
  <2> QED
    BY <1>1, <1>2, <1>3, <2>1, OthersKeep
<1>5. Mine(r)'
  BY <1>1, EndedIsMine
<1>6. Committed'
  BY <1>1, <1>2, CommittedKeeps, Typed DEF InviteInv, OnlyMoves
<1>7. \A k \in Rows : ~Holds(r, k)'
  BY <1>1, Typed DEF InviteInv, Committed, Row, NoWrites, Holds
<1>8. RowLocksExclusive'
  BY <1>1, <1>3, <1>7, Typed DEF InviteInv, Committed, RowLocksExclusive, Holds, Row
<1>9. pend' = [pend EXCEPT ![r] = pend'[r]]
  BY <1>1, Typed DEF InviteInv
<1>10. db' \in [Rows -> InviteRow \cup {NoInvite} \cup UserRow]
  BY <1>1, Typed DEF InviteInv
<1> QED
  BY <1>2, <1>4, <1>5, <1>6, <1>8, <1>9, <1>10, Together

(* A commit: the pending invites it makes were mailed, since Written says  *)
(* so of a request that has come to its commit.                            *)
LEMMA CommitStep ==
    ASSUME InviteInv, NEW r \in Request, Commit(r)
    PROVE  InviteInv'
<1>1. /\ pc[r] = "commit" /\ End(r, "done") /\ UNCHANGED outside
      /\ pend' = [pend EXCEPT ![r] = NoWrites]
      /\ db' = [k \in Row |-> View(r, k)]
  BY DEF Commit, Finish, CommitWrites
<1>2. OnlyMoves(r)
  BY <1>1, Typed DEF outside, OnlyMoves, End, Goto, InviteInv
<1>3. DOMAIN db' = Rows /\ \A k \in Rows : db'[k] = View(r, k)
  BY <1>1, Typed DEF InviteInv, Committed, Row
<1>4. \A s \in Request \ {r} : pend'[s] = pend[s]
  BY <1>1, Typed DEF InviteInv
<1>5. \A s \in Request \ {r} : Mine(s)'
  <2> TAKE s \in Request \ {r}
  <2>1. \A i \in Invite : db[i] \in InviteRow => db'[i] \in InviteRow
    BY <1>3, RowFacts, Typed DEF InviteInv, Written, Holds, View
  <2>2. \A e \in Email : Holds(s, e) => db'[e] = db[e]
    BY <1>3, NotHeldByOther, RowFacts DEF View, Holds
  <2> QED
    BY <1>2, <1>4, <2>1, <2>2, OthersKeep
<1>6. Mine(r)'
  BY <1>1, EndedIsMine
<1>7. Committed'
  <2>1. \A i \in Invite : db'[i] \in InviteRow \cup {NoInvite}
    BY <1>3, ViewTypes, RowFacts
  <2>2. \A e \in Email : db'[e] \in UserRow
    BY <1>3, ViewTypes, RowFacts
  <2>3. PendingInvitesWereMailed'
    <3>1. \A i \in Invite : Pending(View(r, i)) => View(r, i).token \in mailed
      BY <1>1, Typed DEF InviteInv, Committed, Written, PendingInvitesWereMailed, View, Holds
    <3> QED
      BY <1>1, <1>3, <3>1, RowFacts DEF PendingInvitesWereMailed, outside
  <2>4. ExpiredMeansLate'
    <3>1. \A i \in Invite : View(r, i).status = "EXPIRED" => View(r, i).token \in late
      BY Typed DEF InviteInv, Committed, Written, ExpiredMeansLate, View, Holds
    <3> QED
      BY <1>1, <1>3, <3>1, RowFacts DEF ExpiredMeansLate, outside
  <2> QED
    BY <1>3, <2>1, <2>2, <2>3, <2>4 DEF Committed
<1>8. \A k \in Rows : ~Holds(r, k)'
  BY <1>1, Typed DEF InviteInv, Committed, Row, NoWrites, Holds
<1>9. RowLocksExclusive'
  BY <1>3, <1>4, <1>8, Typed DEF InviteInv, Committed, RowLocksExclusive, Holds, Row
<1>10. pend' = [pend EXCEPT ![r] = pend'[r]]
  BY <1>1, Typed DEF InviteInv
<1>11. db' \in [Rows -> InviteRow \cup {NoInvite} \cup UserRow]
  <2>1. Row = Rows
    BY DEF InviteInv, Committed, Row
  <2>2. \A k \in Rows : View(r, k) \in InviteRow \cup {NoInvite} \cup UserRow
    BY ViewTypes DEF Rows
  <2> QED
    BY <1>1, <2>1, <2>2
<1> QED
  BY <1>2, <1>5, <1>6, <1>7, <1>9, <1>10, <1>11, Together

-----------------------------------------------------------------------------
(* The statements, one lemma each.                                         *)

LEMMA InviteInit == Init => InviteInv
<1> SUFFICES ASSUME Init PROVE InviteInv
  OBVIOUS
<1>1. DOMAIN db = Rows
  BY DEF Init, Rows
<1>2. \A i \in Invite : \/ db[i] = NoInvite
                        \/ db[i] = [status |-> "PENDING", email |-> Invitee, set |-> FirstSet,
                                    token |-> FirstToken]
  BY RowFacts DEF Init
<1>3. \A e \in Email : db[e] = [exists |-> FALSE, set |-> None]
  BY DEF Init
<1>4. Committed
  <2>1. [status |-> "PENDING", email |-> Invitee, set |-> FirstSet, token |-> FirstToken] \in InviteRow
    BY InviteAssumption DEF InviteRow, InviteStatus, Set, Token
  <2>2. [exists |-> FALSE, set |-> None] \in UserRow
    BY DEF UserRow
  <2>3. PendingInvitesWereMailed
    BY <1>2 DEF PendingInvitesWereMailed, Pending, Init, NoInvite
  <2>4. ExpiredMeansLate
    BY <1>2 DEF ExpiredMeansLate, NoInvite
  <2> QED
    BY <1>1, <1>2, <1>3, <2>1, <2>2, <2>3, <2>4 DEF Committed
<1>5. \A r \in Request, k \in Rows : pend[r][k] = None
  BY <1>1 DEF Init, HandlersInit, NoWrites, Row
<1>6. RowLocksExclusive
  BY <1>1, <1>5 DEF RowLocksExclusive, Holds, Row
<1>7. /\ pend \in [Request -> [Rows -> InviteRow \cup UserRow \cup {None}]]
      /\ pc \in [Request -> Label] /\ job \in [Request -> Job] /\ seen \in [Request -> Seen]
  BY <1>1 DEF Init, HandlersInit, NoWrites, Row, Label, Job, Seen
<1>8. ASSUME NEW r \in Request PROVE Working(r) /\ Written(r) /\ SignedUp(r)
  <2>1. pc[r] = "new" /\ job[r] = NoJob
    BY DEF Init, HandlersInit
  <2>2. Working(r)
    BY <1>7, <2>1 DEF Working, Running, NoJob
  <2>3. Written(r)
    BY <1>5, <1>7, RowFacts DEF Written, Holds
  <2>4. SignedUp(r)
    BY <2>1 DEF SignedUp
  <2> QED
    BY <2>2, <2>3, <2>4
<1>9. db \in [Rows -> InviteRow \cup {NoInvite} \cup UserRow] /\ late \subseteq Token
      /\ mailed \subseteq Token
  BY <1>4 DEF Committed, Init, Rows, Token
<1>10. TypeOK
  BY <1>7, <1>9, Typed
<1> QED
  BY <1>4, <1>6, <1>8, <1>10 DEF InviteInv

(* Which fields a call has.                                                *)
LEMMA JobFields ==
    ASSUME NEW j \in Job
    PROVE  /\ j.op = "create" => j \in CreateJob /\ j.email \in Email /\ j.set \in Set
           /\ j.op = "resend" => j \in ResendJob /\ j.invite \in Invite /\ j.set \in Set \cup {None}
           /\ j.op = "revoke" => j \in RevokeJob /\ j.invite \in Invite
           /\ j.op \in {"validate", "accept", "reject"} => j \in TokenJob /\ j.token \in Token
           /\ j.op = "signup" => j \in SignupJob /\ j.email \in Email
           /\ j.op = "deleteUser" => j \in DeleteUserJob /\ j.email \in Email
BY DEF Job, NoJob, CreateJob, ResendJob, RevokeJob, TokenJob, SignupJob, DeleteUserJob

LEMMA ArriveStep ==
    ASSUME InviteInv, NEW r \in Request, Arrive(r)
    PROVE  InviteInv'
<1>1. PICK j \in Job, l \in {"sweep", "user", "delete"} :
        /\ job' = [job EXCEPT ![r] = j] /\ Goto(r, l)
        /\ j.op \in OpsAt(l)
        /\ l = "user" => j.op = "signup"
        /\ Known(j)
  BY DEF Arrive, Begin, Job, OpsAt, CreateJob, ResendJob, RevokeJob, TokenJob, SignupJob,
         DeleteUserJob
<1>2. pc[r] = "new" /\ UNCHANGED <<db, pend, seen, outside>>
  BY DEF Arrive, Begin
<1>3. pc'[r] = l /\ job'[r] = j
  BY <1>1, Typed DEF Goto, InviteInv
<1>4. OnlyMoves(r)
  BY <1>1, <1>2, <1>3, Typed DEF OnlyMoves, Goto, InviteInv, outside
<1>5. Working(r)'
  BY <1>1, <1>2, <1>3 DEF Working, Label, Known, outside
<1>6. Written(r)'
  BY <1>2, <1>3, Typed DEF InviteInv, Written, Holds, outside
<1>7. SignedUp(r)'
  BY <1>3 DEF SignedUp
<1>8. Mine(r)'
  BY <1>2, <1>5, <1>6, <1>7, Typed DEF Mine, InviteInv
<1> QED
  BY <1>2, <1>4, <1>8, ReadStep

LEMMA ElapseStep ==
    ASSUME InviteInv, NEW t \in Token, Elapse(t)
    PROVE  InviteInv'
<1>1. late \subseteq late' /\ UNCHANGED <<db, pend, handler, mailed>>
  BY DEF Elapse
<1>2. Committed'
  BY <1>1, CommittedKeeps, Typed DEF InviteInv
<1>3. RowLocksExclusive'
  BY <1>1, Typed DEF InviteInv, RowLocksExclusive, Holds, Row
<1>4. ASSUME NEW r \in Request PROVE Working(r)' /\ Written(r)' /\ SignedUp(r)'
  <2>1. Working(r) /\ Written(r) /\ SignedUp(r)
    BY Typed DEF InviteInv
  <2>2. Working(r)'
    BY <1>1, <2>1 DEF Working, Running, Found, View, Holds, handler
  <2>3. Written(r)'
    BY <1>1, <2>1 DEF Written, Holds, handler
  <2>4. SignedUp(r)'
    BY <1>1, <2>1 DEF SignedUp, Holds, handler
  <2> QED
    BY <2>2, <2>3, <2>4
<1>5. TypeOK'
  <2>1. late' \subseteq Token
    BY Typed DEF Elapse, InviteInv
  <2> QED
    BY <1>1, <2>1 DEF TypeOK, InviteInv, handler
<1> QED
  BY <1>2, <1>3, <1>4, <1>5 DEF InviteInv

(* A statement leaves r at label, with what it has read in seen.           *)
LEMMA GotoMoves ==
    ASSUME InviteInv, NEW r \in Request, NEW label, Goto(r, label), job' = job,
           seen' = seen \/ seen' = [seen EXCEPT ![r] = seen'[r]], late' = late,
           mailed' = mailed \/ mailed' = mailed \cup {r}
    PROVE  OnlyMoves(r) /\ pc'[r] = label /\ job'[r] = job[r]
BY Typed DEF OnlyMoves, Goto, InviteInv, Token

LEMMA SweepStep ==
    ASSUME InviteInv, NEW r \in Request, Sweep(r)
    PROVE  InviteInv'
<1> DEFINE label == IF Overdue(r) = {} THEN AfterSweep(r) ELSE "expire"
<1>1. /\ pc[r] = "sweep" /\ UNCHANGED <<db, pend, job, outside>>
      /\ Goto(r, label) /\ seen' = [seen EXCEPT ![r] = [todo |-> Overdue(r)]]
  BY DEF Sweep, Read, Keep
<1>2. job[r].op \in OpsAt("sweep")
  BY <1>1 DEF InviteInv, Working, Running
<1>3. label \in {"access", "require", "validate", "expire"} /\ job[r].op \in OpsAt(label)
  BY <1>2 DEF OpsAt, AfterSweep
<1> HIDE DEF label
<1>4. seen'[r] \in [todo : SUBSET Invite] /\ seen' = [seen EXCEPT ![r] = seen'[r]]
  BY <1>1, Typed DEF InviteInv, Overdue
<1>5. OnlyMoves(r) /\ pc'[r] = label /\ job'[r] = job[r]
  BY <1>1, <1>4, GotoMoves DEF outside
<1>6. Working(r)'
  BY <1>1, <1>3, <1>4, <1>5 DEF InviteInv, Working, Label, outside
<1>7. Written(r)'
  BY <1>1, <1>3, <1>5 DEF InviteInv, Written, Holds, outside
<1>8. SignedUp(r)'
  BY <1>3, <1>5 DEF SignedUp
<1>9. Mine(r)'
  BY <1>1, <1>4, <1>6, <1>7, <1>8, Typed DEF Mine, InviteInv, Seen
<1> QED
  BY <1>1, <1>5, <1>9, ReadStep

LEMMA ExpireStep ==
    ASSUME InviteInv, NEW r \in Request, NEW i \in Invite, Expire(r, i)
    PROVE  InviteInv'
<1> DEFINE label == IF seen[r].todo = {i} THEN AfterSweep(r) ELSE "expire"
<1>1. /\ pc[r] = "expire" /\ UNCHANGED <<job, outside>>
      /\ Goto(r, label) /\ seen' = [seen EXCEPT ![r] = [todo |-> seen[r].todo \ {i}]]
  BY DEF Expire, NextSwept, Keep
<1>2. job[r].op \in OpsAt("expire") /\ seen[r] \in [todo : SUBSET Invite]
  BY <1>1 DEF InviteInv, Working, Running
<1>3. label \in {"access", "require", "validate", "expire"} /\ job[r].op \in OpsAt(label)
  BY <1>2 DEF OpsAt, AfterSweep
<1> HIDE DEF label
<1>4. seen'[r] \in [todo : SUBSET Invite] /\ seen' = [seen EXCEPT ![r] = seen'[r]]
  BY <1>1, <1>2, Typed DEF InviteInv
<1>5. OnlyMoves(r) /\ pc'[r] = label /\ job'[r] = job[r]
  BY <1>1, <1>4, GotoMoves DEF outside
<1>6. Working(r)'
  BY <1>1, <1>3, <1>4, <1>5 DEF InviteInv, Working, Label, outside
<1>7. SignedUp(r)'
  BY <1>3, <1>5 DEF SignedUp
<1>8. CASE UNCHANGED <<db, pend>>
  <2>1. Written(r)'
    BY <1>1, <1>3, <1>5, <1>8 DEF InviteInv, Written, Holds, outside
  <2>2. Mine(r)'
    BY <1>4, <1>6, <1>7, <1>8, <2>1, Typed DEF Mine, InviteInv, Seen
  <2> QED
    BY <1>5, <1>8, <2>2, ReadStep
<1>9. CASE i \in Overdue(r) /\ WriteRow(r, i, [View(r, i) EXCEPT !.status = "EXPIRED"])
  <2> DEFINE x == [View(r, i) EXCEPT !.status = "EXPIRED"]
  <2>1. View(r, i) \in InviteRow /\ View(r, i).token \in late
    BY <1>9, ViewTypes DEF Overdue, Pending, NoInvite
  <2>2. x \in InviteRow /\ x.status = "EXPIRED" /\ x.token \in late /\ ~Pending(x)
    BY <2>1 DEF InviteRow, InviteStatus, Pending
  <2> HIDE DEF x
  <2>3. pend' = [pend EXCEPT ![r][i] = x] /\ i \in Rows /\ WriteRow(r, i, x)
    BY <1>9, RowFacts DEF WriteRow, x
  <2>4. pend'[r] \in [Rows -> InviteRow \cup UserRow \cup {None}]
    BY <2>2, <2>3, Typed DEF InviteInv
  <2>5. pend'[r] = [pend[r] EXCEPT ![i] = x] /\ DOMAIN pend[r] = Rows
    BY <2>3, Typed DEF InviteInv
  <2>6. Written(r)'
    <3>1. ASSUME NEW k \in Invite, Holds(r, k)'
          PROVE  /\ pend'[r][k] \in InviteRow
                 /\ pend'[r][k].status = "EXPIRED" => pend'[r][k].token \in late'
                 /\ ~Pending(pend'[r][k])
      BY <1>1, <2>2, <2>5, <3>1, RowFacts DEF InviteInv, Written, Holds, outside
    <3>2. ASSUME NEW e \in Email, Holds(r, e)'
          PROVE  pend'[r][e] \in UserRow /\ pend'[r][e].set = None
      BY <1>1, <2>5, <3>2, RowFacts DEF InviteInv, Written, Holds
    <3> QED
      BY <2>4, <3>1, <3>2 DEF Written
  <2>7. Mine(r)'
    BY <1>4, <1>6, <1>7, <2>4, <2>6, Typed DEF Mine, InviteInv, Seen
  <2> QED
    BY <1>5, <2>2, <2>3, <2>7, WriteStep
<1> QED
  BY <1>8, <1>9 DEF Expire

(* What Written and SignedUp ask of the rows of r that a write of another  *)
(* row leaves as they are.                                                 *)
StaysWritten(r, k) ==
    Holds(r, k) =>
      /\ k \in Invite /\ Pending(pend[r][k]) =>
           pc'[r] \in {"mail", "revokeUnsent", "raise"} \/ (pc'[r] = "commit" /\ r \in mailed')
      /\ k \in Email /\ pend[r][k].set # None =>
           pc'[r] \in {"settle", "commit"} /\ seen'[r].row.email = k

LEMMA InviteWritten ==
    ASSUME InviteInv, NEW r \in Request, NEW i \in Invite, NEW x \in InviteRow,
           WriteRow(r, i, x), OnlyMoves(r), job'[r] = job[r], seen'[r] \in Seen,
           x.status # "EXPIRED", Pending(x) => x.token = r /\ pc'[r] = "mail",
           \A k \in Rows \ {i} : StaysWritten(r, k),
           Working(r)', SignedUp(r)'
    PROVE  InviteInv'
<1>1. pend' = [pend EXCEPT ![r][i] = x] /\ i \in Rows
  BY RowFacts DEF WriteRow
<1>2. pend'[r] \in [Rows -> InviteRow \cup UserRow \cup {None}]
  BY <1>1, Typed DEF InviteInv
<1>3. pend'[r] = [pend[r] EXCEPT ![i] = x] /\ DOMAIN pend[r] = Rows
  BY <1>1, Typed DEF InviteInv
<1>4. ASSUME NEW k \in Invite, Holds(r, k)'
      PROVE  /\ pend'[r][k] \in InviteRow
             /\ pend'[r][k].status = "EXPIRED" => pend'[r][k].token \in late'
             /\ Pending(pend'[r][k]) =>
                  /\ pend'[r][k].token = r
                  /\ \/ pc'[r] \in {"mail", "revokeUnsent", "raise"}
                     \/ pc'[r] = "commit" /\ r \in mailed'
  <2>1. CASE k = i
    BY <1>3, <2>1, RowFacts
  <2>2. CASE k # i
    <3>1. pend'[r][k] = pend[r][k] /\ Holds(r, k) /\ StaysWritten(r, k)
      BY <1>3, <1>4, <2>2, RowFacts DEF Holds
    <3> QED
      BY <3>1 DEF InviteInv, Written, OnlyMoves, StaysWritten
  <2> QED
    BY <2>1, <2>2
<1>5. ASSUME NEW e \in Email, Holds(r, e)'
      PROVE  /\ pend'[r][e] \in UserRow
             /\ pend'[r][e].set # None => /\ job'[r].op = "accept" /\ pc'[r] \in {"settle", "commit"}
                                          /\ seen'[r].row.email = e
  <2>1. pend'[r][e] = pend[r][e] /\ Holds(r, e) /\ StaysWritten(r, e)
    BY <1>3, <1>5, RowFacts DEF Holds
  <2> QED
    BY <2>1 DEF InviteInv, Written, StaysWritten
<1>6. Written(r)'
  BY <1>2, <1>4, <1>5 DEF Written
<1>7. Mine(r)'
  BY <1>2, <1>6 DEF Mine
<1> QED
  BY <1>1, <1>7, WriteStep

LEMMA UserWritten ==
    ASSUME InviteInv, NEW r \in Request, NEW e \in Email, NEW x \in UserRow,
           WriteRow(r, e, x), OnlyMoves(r), job'[r] = job[r], seen'[r] \in Seen,
           x.set # None => /\ job[r].op = "accept" /\ pc'[r] \in {"settle", "commit"}
                           /\ seen'[r].row.email = e,
           \A k \in Rows \ {e} : StaysWritten(r, k),
           Working(r)', SignedUp(r)'
    PROVE  InviteInv'
<1>1. pend' = [pend EXCEPT ![r][e] = x] /\ e \in Rows
  BY RowFacts DEF WriteRow
<1>2. pend'[r] \in [Rows -> InviteRow \cup UserRow \cup {None}]
  BY <1>1, Typed DEF InviteInv
<1>3. pend'[r] = [pend[r] EXCEPT ![e] = x] /\ DOMAIN pend[r] = Rows
  BY <1>1, Typed DEF InviteInv
<1>4. ASSUME NEW k \in Invite, Holds(r, k)'
      PROVE  /\ pend'[r][k] \in InviteRow
             /\ pend'[r][k].status = "EXPIRED" => pend'[r][k].token \in late'
             /\ Pending(pend'[r][k]) =>
                  /\ pend'[r][k].token = r
                  /\ \/ pc'[r] \in {"mail", "revokeUnsent", "raise"}
                     \/ pc'[r] = "commit" /\ r \in mailed'
  <2>1. pend'[r][k] = pend[r][k] /\ Holds(r, k) /\ StaysWritten(r, k)
    BY <1>3, <1>4, RowFacts DEF Holds
  <2> QED
    BY <2>1 DEF InviteInv, Written, OnlyMoves, StaysWritten
<1>5. ASSUME NEW k \in Email, Holds(r, k)'
      PROVE  /\ pend'[r][k] \in UserRow
             /\ pend'[r][k].set # None => /\ job'[r].op = "accept" /\ pc'[r] \in {"settle", "commit"}
                                          /\ seen'[r].row.email = k
  <2>1. CASE k = e
    BY <1>3, <2>1, RowFacts
  <2>2. CASE k # e
    <3>1. pend'[r][k] = pend[r][k] /\ Holds(r, k) /\ StaysWritten(r, k)
      BY <1>3, <1>5, <2>2, RowFacts DEF Holds
    <3> QED
      BY <3>1 DEF InviteInv, Written, StaysWritten
  <2> QED
    BY <2>1, <2>2
<1>6. Written(r)'
  BY <1>2, <1>4, <1>5 DEF Written
<1>7. Mine(r)'
  BY <1>2, <1>6 DEF Mine
<1> QED
  BY <1>1, <1>7, WriteStep

(* As both, for a statement that writes nothing.                           *)
LEMMA NothingWritten ==
    ASSUME InviteInv, NEW r \in Request, UNCHANGED <<db, pend>>, OnlyMoves(r), job'[r] = job[r],
           seen'[r] \in Seen, \A k \in Rows : StaysWritten(r, k),
           Working(r)', SignedUp(r)'
    PROVE  InviteInv'
<1>1. Written(r)'
  BY RowFacts DEF InviteInv, Written, OnlyMoves, StaysWritten, Holds
<1>2. Mine(r)'
  BY <1>1, Typed DEF Mine, InviteInv
<1> QED
  BY <1>2, ReadStep

LEMMA CheckAccessStep ==
    ASSUME InviteInv, NEW r \in Request, CheckAccess(r)
    PROVE  InviteInv'
<1>1. CASE Rejected(r)
  BY <1>1, RejectedStep
<1>2. CASE pc[r] = "access" /\ Continue(r, "pending") /\ UNCHANGED outside
  <2>1. UNCHANGED <<db, pend, job, seen, outside>> /\ Goto(r, "pending")
    BY <1>2 DEF Continue
  <2>2. OnlyMoves(r) /\ pc'[r] = "pending" /\ job'[r] = job[r]
    BY <2>1, GotoMoves DEF outside
  <2>3. Working(r) /\ Written(r) /\ seen[r] \in Seen
    BY Typed DEF InviteInv
  <2>4. Working(r)' /\ SignedUp(r)'
    BY <1>2, <2>1, <2>2, <2>3 DEF Working, SignedUp, Running, Label, OpsAt, outside
  <2>5. \A k \in Rows : StaysWritten(r, k)
    BY <1>2, <2>3 DEF StaysWritten, Written
  <2> QED
    BY <2>1, <2>2, <2>3, <2>4, <2>5, NothingWritten
<1> QED
  BY <1>1, <1>2 DEF CheckAccess

LEMMA CheckPendingStep ==
    ASSUME InviteInv, NEW r \in Request, CheckPending(r)
    PROVE  InviteInv'
<1>1. CASE Rejected(r)
  BY <1>1, RejectedStep
<1>2. CASE pc[r] = "pending" /\ Continue(r, "insert") /\ UNCHANGED outside
  <2>1. UNCHANGED <<db, pend, job, seen, outside>> /\ Goto(r, "insert")
    BY <1>2 DEF Continue
  <2>2. OnlyMoves(r) /\ pc'[r] = "insert" /\ job'[r] = job[r]
    BY <2>1, GotoMoves DEF outside
  <2>3. Working(r) /\ Written(r) /\ seen[r] \in Seen
    BY Typed DEF InviteInv
  <2>4. Working(r)' /\ SignedUp(r)'
    BY <1>2, <2>1, <2>2, <2>3 DEF Working, SignedUp, Running, Label, OpsAt, outside
  <2>5. \A k \in Rows : StaysWritten(r, k)
    BY <1>2, <2>3 DEF StaysWritten, Written
  <2> QED
    BY <2>1, <2>2, <2>3, <2>4, <2>5, NothingWritten
<1> QED
  BY <1>1, <1>2 DEF CheckPending

LEMMA InsertInviteStep ==
    ASSUME InviteInv, NEW r \in Request, InsertInvite(r)
    PROVE  InviteInv'
<1> DEFINE x == [status |-> "PENDING", email |-> job[r].email, set |-> job[r].set, token |-> r]
<1>1. PICK i \in Invite : WriteRow(r, i, x) /\ Keep(r, i)
  BY DEF InsertInvite
<1>2. pc[r] = "insert" /\ Goto(r, "mail") /\ UNCHANGED <<job, outside>>
  BY DEF InsertInvite
<1>3. Working(r) /\ Written(r) /\ job[r].op = "create"
  BY <1>2 DEF InviteInv, Working, Running, OpsAt
<1>4. x \in InviteRow /\ x.status = "PENDING" /\ x.token = r
  BY <1>3, JobFields DEF Working, InviteRow, InviteStatus, Token
<1> HIDE DEF x
<1>5. seen' = [seen EXCEPT ![r] = seen'[r]] /\ seen'[r] = i
  BY <1>1, Typed DEF Keep, InviteInv
<1>6. OnlyMoves(r) /\ pc'[r] = "mail" /\ job'[r] = job[r]
  BY <1>2, <1>5, GotoMoves DEF outside
<1>7. Holds(r, i)'
  BY <1>1, <1>4, RowFacts, Typed DEF WriteRow, Holds, InviteInv
<1>8. Working(r)' /\ SignedUp(r)'
  BY <1>2, <1>3, <1>5, <1>6, <1>7 DEF Working, SignedUp, Running, Label, OpsAt, outside
<1>9. \A k \in Rows \ {i} : StaysWritten(r, k)
  BY <1>2, <1>3 DEF StaysWritten, Written
<1> QED
  BY <1>1, <1>4, <1>5, <1>6, <1>8, <1>9, InviteWritten DEF Seen, Pending

LEMMA MailSentStep ==
    ASSUME InviteInv, NEW r \in Request, MailSent(r)
    PROVE  InviteInv'
<1>1. /\ pc[r] = "mail" /\ mailed' = mailed \cup {r} /\ late' = late
      /\ UNCHANGED <<db, pend, job, seen>> /\ Goto(r, "commit")
  BY DEF MailSent, Continue
<1>2. OnlyMoves(r) /\ pc'[r] = "commit" /\ job'[r] = job[r]
  BY <1>1, GotoMoves
<1>3. Working(r) /\ Written(r) /\ seen[r] \in Seen
  BY Typed DEF InviteInv
<1>4. job[r].op \in {"create", "resend"}
  BY <1>1, <1>3 DEF Working, Running, OpsAt
<1>5. Working(r)' /\ SignedUp(r)'
  BY <1>1, <1>2, <1>3, <1>4 DEF Working, SignedUp, Running, Label, OpsAt
<1>6. \A k \in Rows : StaysWritten(r, k)
  BY <1>1, <1>2, <1>3 DEF StaysWritten, Written
<1> QED
  BY <1>1, <1>2, <1>3, <1>5, <1>6, NothingWritten

LEMMA MailFailsStep ==
    ASSUME InviteInv, NEW r \in Request, MailFails(r)
    PROVE  InviteInv'
<1> DEFINE label == IF job[r].op = "create" THEN "revokeUnsent" ELSE "raise"
<1>1. /\ pc[r] = "mail" /\ UNCHANGED outside
      /\ UNCHANGED <<db, pend, job, seen>> /\ Goto(r, label)
  BY DEF MailFails, Continue
<1>2. Working(r) /\ Written(r) /\ seen[r] \in Seen
  BY Typed DEF InviteInv
<1>3. job[r].op \in {"create", "resend"}
  BY <1>1, <1>2 DEF Working, Running, OpsAt
<1>4. label \in {"revokeUnsent", "raise"} /\ job[r].op \in OpsAt(label)
      /\ (label = "revokeUnsent" => job[r].op = "create")
  BY <1>3 DEF OpsAt
<1> HIDE DEF label
<1>5. OnlyMoves(r) /\ pc'[r] = label /\ job'[r] = job[r]
  BY <1>1, GotoMoves DEF outside
<1>6. Working(r)' /\ SignedUp(r)'
  BY <1>1, <1>2, <1>3, <1>4, <1>5 DEF Working, SignedUp, Running, Label, outside, Holds
<1>7. \A k \in Rows : StaysWritten(r, k)
  BY <1>1, <1>2, <1>4, <1>5 DEF StaysWritten, Written
<1> QED
  BY <1>1, <1>2, <1>5, <1>6, <1>7, NothingWritten

LEMMA RevokeUnsentStep ==
    ASSUME InviteInv, NEW r \in Request, RevokeUnsent(r)
    PROVE  InviteInv'
<1> DEFINE i == seen[r]
           x == [View(r, i) EXCEPT !.status = "REVOKED"]
<1>1. pc[r] = "revokeUnsent" /\ Goto(r, "raise") /\ WriteRow(r, i, x)
      /\ UNCHANGED <<job, seen, outside>>
  BY DEF RevokeUnsent, Write
<1>2. Working(r) /\ Written(r) /\ i \in Seen /\ job[r].op = "create"
  BY <1>1, Typed DEF InviteInv, Working, Running, OpsAt
<1>3. i \in Invite /\ View(r, i) \in InviteRow
  BY <1>1, <1>2 DEF Working, Written, View, Holds
<1>4. x \in InviteRow /\ x.status = "REVOKED"
  BY <1>3 DEF InviteRow, InviteStatus
<1> HIDE DEF x
<1>5. OnlyMoves(r) /\ pc'[r] = "raise" /\ job'[r] = job[r]
  BY <1>1, GotoMoves DEF outside
<1>6. Working(r)' /\ SignedUp(r)'
  BY <1>1, <1>2, <1>5 DEF Working, SignedUp, Running, Label, OpsAt, outside
<1>7. \A k \in Rows \ {i} : StaysWritten(r, k)
  BY <1>1, <1>2, <1>5 DEF StaysWritten, Written
<1>8. seen'[r] \in Seen
  BY <1>1, <1>2
<1> QED
  BY <1>1, <1>3, <1>4, <1>5, <1>6, <1>7, <1>8, InviteWritten DEF Pending

LEMMA RequirePendingStep ==
    ASSUME InviteInv, NEW r \in Request, RequirePending(r)
    PROVE  InviteInv'
<1>1. CASE Rejected(r)
  BY <1>1, RejectedStep
<1>2. CASE ~Rejected(r)
  <2> DEFINE label == IF job[r].op = "resend" THEN "refresh" ELSE "settle"
             i == job[r].invite
  <2>1. /\ pc[r] = "require" /\ UNCHANGED <<db, pend, job, outside>> /\ Goto(r, label)
        /\ Pending(View(r, i))
        /\ seen' = [seen EXCEPT ![r] = [invite |-> i, row |-> View(r, i)]]
    BY <1>2 DEF RequirePending, Read, Keep
  <2>2. Working(r) /\ Written(r) /\ job[r].op \in {"resend", "revoke"}
    BY <2>1 DEF InviteInv, Working, Running, OpsAt
  <2>3. i \in Invite /\ View(r, i) \in InviteRow
    BY <2>1, <2>2, JobFields, ViewTypes DEF Working, Pending, NoInvite
  <2>4. label \in {"refresh", "settle"} /\ job[r].op \in OpsAt(label)
    BY <2>2 DEF OpsAt
  <2> HIDE DEF label
  <2>5. seen' = [seen EXCEPT ![r] = seen'[r]] /\ seen'[r] = [invite |-> i, row |-> View(r, i)]
    BY <2>1, Typed DEF InviteInv
  <2>6. OnlyMoves(r) /\ pc'[r] = label /\ job'[r] = job[r]
    BY <2>1, <2>5, GotoMoves DEF outside
  <2>7. Found(r)'
    <3>1. seen'[r].invite = i /\ seen'[r].row = View(r, i)
      BY <2>5
    <3>2. View(r, seen[r].invite)' = View(r, i)
      BY <2>1, <3>1 DEF View
    <3> QED
      BY <2>3, <2>5, <3>1, <3>2 DEF Found
  <2>8. Working(r)' /\ SignedUp(r)'
    BY <2>1, <2>2, <2>4, <2>6, <2>7 DEF Working, SignedUp, Running, Label, outside
  <2>9. \A k \in Rows : StaysWritten(r, k)
    BY <2>1, <2>2 DEF StaysWritten, Written
  <2>10. seen'[r] \in Seen
    BY <2>3, <2>5 DEF Seen
  <2> QED
    BY <2>1, <2>6, <2>8, <2>9, <2>10, NothingWritten
<1> QED
  BY <1>1, <1>2

LEMMA RefreshStep ==
    ASSUME InviteInv, NEW r \in Request, Refresh(r)
    PROVE  InviteInv'
<1>1. CASE Rejected(r)
  BY <1>1, RejectedStep
<1>2. CASE ~Rejected(r)
  <2> DEFINE i == job[r].invite
             set == IF job[r].set = None THEN seen[r].row.set ELSE job[r].set
             x == [View(r, i) EXCEPT !.token = r, !.set = set]
  <2>1. /\ pc[r] = "refresh" /\ UNCHANGED <<job, seen, outside>> /\ Goto(r, "mail")
        /\ Pending(View(r, i)) /\ WriteRow(r, i, x)
    BY <1>2 DEF Refresh, Write
  <2>2. Working(r) /\ Written(r) /\ job[r].op = "resend" /\ seen[r] \in Seen
    BY <2>1, Typed DEF InviteInv, Working, Running, OpsAt
  <2>3. i \in Invite /\ View(r, i) \in InviteRow
    BY <2>1, <2>2, JobFields, ViewTypes DEF Working, Pending, NoInvite
  <2>4. set \in Set
    BY <2>1, <2>2, JobFields DEF Working, Found, InviteRow
  <2>5. x \in InviteRow /\ x.status = "PENDING" /\ x.token = r
    BY <2>1, <2>3, <2>4 DEF InviteRow, Token, Pending
  <2> HIDE DEF x
  <2>6. OnlyMoves(r) /\ pc'[r] = "mail" /\ job'[r] = job[r]
    BY <2>1, GotoMoves DEF outside
  <2>7. Working(r)' /\ SignedUp(r)'
    BY <2>1, <2>2, <2>6 DEF Working, SignedUp, Running, Label, OpsAt, outside
  <2>8. \A k \in Rows \ {i} : StaysWritten(r, k)
    BY <2>1, <2>2 DEF StaysWritten, Written
  <2>9. seen'[r] \in Seen
    BY <2>1, <2>2
  <2> QED
    BY <2>1, <2>3, <2>5, <2>6, <2>7, <2>8, <2>9, InviteWritten
<1> QED
  BY <1>1, <1>2

LEMMA ValidateStep ==
    ASSUME InviteInv, NEW r \in Request, Validate(r)
    PROVE  InviteInv'
<1>1. CASE Rejected(r)
  BY <1>1, RejectedStep
<1>2. CASE ~Rejected(r)
  <2> DEFINE label == IF job[r].op = "accept" THEN "user" ELSE "settle"
  <2>1. PICK i \in Invite :
          /\ Pending(View(r, i)) /\ job[r].op # "validate"
          /\ Read(r, [invite |-> i, row |-> View(r, i)], label) /\ UNCHANGED outside
    BY <1>2 DEF Validate
  <2>2. /\ pc[r] = "validate" /\ UNCHANGED <<db, pend, job, outside>> /\ Goto(r, label)
        /\ seen' = [seen EXCEPT ![r] = [invite |-> i, row |-> View(r, i)]]
    BY <2>1 DEF Validate, Read, Keep
  <2>3. Working(r) /\ Written(r) /\ job[r].op \in {"accept", "reject"}
    BY <2>1, <2>2 DEF InviteInv, Working, Running, OpsAt
  <2>4. View(r, i) \in InviteRow
    BY <2>1, ViewTypes DEF Pending, NoInvite
  <2>5. /\ label \in {"user", "settle"} /\ job[r].op \in OpsAt(label)
        /\ label = "settle" => job[r].op # "accept"
    BY <2>3 DEF OpsAt
  <2> HIDE DEF label
  <2>6. seen' = [seen EXCEPT ![r] = seen'[r]] /\ seen'[r] = [invite |-> i, row |-> View(r, i)]
    BY <2>2, Typed DEF InviteInv
  <2>7. OnlyMoves(r) /\ pc'[r] = label /\ job'[r] = job[r]
    BY <2>2, <2>6, GotoMoves DEF outside
  <2>8. Found(r)'
    <3>1. seen'[r].invite = i /\ seen'[r].row = View(r, i)
      BY <2>6
    <3>2. View(r, seen[r].invite)' = View(r, i)
      BY <2>2, <3>1 DEF View
    <3> QED
      BY <2>4, <2>6, <3>1, <3>2 DEF Found
  <2>9. Working(r)' /\ SignedUp(r)'
    BY <2>2, <2>3, <2>5, <2>7, <2>8 DEF Working, SignedUp, Running, Label, outside
  <2>10. \A k \in Rows : StaysWritten(r, k)
    BY <2>2, <2>3 DEF StaysWritten, Written
  <2>11. seen'[r] \in Seen
    BY <2>4, <2>6 DEF Seen
  <2> QED
    BY <2>2, <2>7, <2>9, <2>10, <2>11, NothingWritten
<1> QED
  BY <1>1, <1>2

(* The address that a signup of either kind is about.                      *)
LEMMA AddressType ==
    ASSUME InviteInv, NEW r \in Request, pc[r] \in {"user", "signup", "account"}
    PROVE  Address(r) \in Email
<1>1. job[r] \in Job /\ job[r].op \in {"accept", "signup"} /\ (job[r].op = "accept" => Found(r))
  BY DEF InviteInv, Working, Running, OpsAt
<1> QED
  BY <1>1, JobFields DEF Address, Found, InviteRow

LEMMA FindUserStep ==
    ASSUME InviteInv, NEW r \in Request, FindUser(r)
    PROVE  InviteInv'
<1>1. CASE Rejected(r)
  BY <1>1, RejectedStep
<1>2. CASE ~Rejected(r)
  <2>1. pc[r] = "user" /\ UNCHANGED <<db, pend, job, seen, outside>> /\ Goto(r, "signup")
    BY <1>2 DEF FindUser, Continue
  <2>2. OnlyMoves(r) /\ pc'[r] = "signup" /\ job'[r] = job[r]
    BY <2>1, GotoMoves DEF outside
  <2>3. Working(r) /\ Written(r) /\ seen[r] \in Seen
    BY Typed DEF InviteInv
  <2>4. Found(r) => Found(r)'
    BY <2>1 DEF Found, View
  <2>5. Working(r)' /\ SignedUp(r)'
    BY <2>1, <2>2, <2>3, <2>4 DEF Working, SignedUp, Running, Label, OpsAt, outside
  <2>6. \A k \in Rows : StaysWritten(r, k)
    BY <2>1, <2>3 DEF StaysWritten, Written
  <2> QED
    BY <2>1, <2>2, <2>3, <2>5, <2>6, NothingWritten
<1> QED
  BY <1>1, <1>2

(* A write of a user leaves the invite that was found as it is.            *)
LEMMA FoundStays ==
    ASSUME InviteInv, NEW r \in Request, NEW e \in Email, NEW x, WriteRow(r, e, x), Found(r),
           seen'[r] = seen[r]
    PROVE  Found(r)'
<1>1. seen[r].invite \in Invite /\ seen[r].invite # e
  BY RowFacts DEF Found
<1>2. View(r, seen[r].invite)' = View(r, seen[r].invite)
  BY <1>1, Typed DEF WriteRow, View, InviteInv
<1> QED
  BY <1>2 DEF Found

LEMMA SignUpStep ==
    ASSUME InviteInv, NEW r \in Request, SignUp(r)
    PROVE  InviteInv'
<1>1. CASE Rejected(r)
  BY <1>1, RejectedStep
<1>2. CASE ~Rejected(r)
  <2> DEFINE e == Address(r)
             x == [exists |-> TRUE, set |-> None]
             label == AfterSignup(r)
  <2>1. /\ pc[r] = "signup" /\ UNCHANGED <<job, seen, outside>> /\ Goto(r, label)
        /\ WriteRow(r, e, x) /\ ~db[e].exists
    BY <1>2 DEF SignUp, Write
  <2>2. Working(r) /\ Written(r) /\ job[r].op \in {"accept", "signup"} /\ seen[r] \in Seen
    BY <2>1, Typed DEF InviteInv, Working, Running, OpsAt
  <2>3. e \in Email
    BY <2>1, AddressType
  <2>4. x \in UserRow
    BY DEF UserRow
  <2>5. x.set = None /\ x # None
    BY <2>4, RowFacts
  <2> HIDE DEF x
  <2>6. /\ label \in {"account", "commit"} /\ job[r].op \in OpsAt(label)
        /\ job[r].op = "accept" <=> label = "account"
    BY <2>2 DEF OpsAt, AfterSignup
  <2> HIDE DEF label
  <2>7. OnlyMoves(r) /\ pc'[r] = label /\ job'[r] = job[r] /\ seen'[r] = seen[r]
    BY <2>1, GotoMoves DEF outside
  <2>8. job[r].op = "accept" => Found(r) /\ e = seen[r].row.email
    BY <2>1, <2>2 DEF Working, Address
  <2>9. job[r].op = "accept" => Found(r)'
    BY <2>1, <2>3, <2>7, <2>8, FoundStays
  <2>10. Working(r)'
    BY <2>1, <2>2, <2>6, <2>7, <2>9 DEF Working, Running, Label, outside
  <2>11. pend'[r][e] = x /\ db' = db
    BY <2>1, <2>3, RowFacts, Typed DEF WriteRow, InviteInv
  <2>12. SignedUp(r)'
    <3>1. CASE job[r].op = "accept"
      <4>1. pc'[r] = "account" /\ job'[r].op = "accept" /\ seen'[r].row.email = e
        BY <2>6, <2>7, <2>8, <3>1
      <4>2. Holds(r, seen[r].row.email)' /\ ~db'[seen'[r].row.email].exists
        BY <2>1, <2>5, <2>11, <4>1 DEF Holds
      <4> QED
        BY <4>1, <4>2 DEF SignedUp
    <3>2. CASE job[r].op # "accept"
      BY <2>7, <3>2 DEF SignedUp
    <3> QED
      BY <3>1, <3>2
  <2>13. \A k \in Rows \ {e} : StaysWritten(r, k)
    BY <2>1, <2>2 DEF StaysWritten, Written
  <2>14. seen'[r] \in Seen
    BY <2>2, <2>7
  <2> HIDE DEF e
  <2> QED
    BY <2>1, <2>3, <2>4, <2>5, <2>7, <2>10, <2>12, <2>13, <2>14, UserWritten
<1> QED
  BY <1>1, <1>2

LEMMA CreateAccountStep ==
    ASSUME InviteInv, NEW r \in Request, CreateAccount(r)
    PROVE  InviteInv'
<1>1. CASE Rejected(r)
  BY <1>1, RejectedStep
<1>2. CASE ~Rejected(r)
  <2> DEFINE e == Address(r)
             x == [exists |-> TRUE, set |-> seen[r].row.set]
  <2>1. /\ pc[r] = "account" /\ UNCHANGED <<job, seen, outside>> /\ Goto(r, "settle")
        /\ WriteRow(r, e, x)
    BY <1>2 DEF CreateAccount, Write
  <2>2. Working(r) /\ Written(r) /\ SignedUp(r) /\ job[r].op = "accept" /\ seen[r] \in Seen
    BY <2>1, Typed DEF InviteInv, Working, Running, OpsAt
  <2>3. e \in Email
    BY <2>1, AddressType
  <2>4. Found(r) /\ e = seen[r].row.email /\ seen[r].row.set \in Set
    BY <2>1, <2>2 DEF Working, Address, Found, InviteRow
  <2>5. x \in UserRow /\ x.set # None
    BY <2>4, RowFacts DEF UserRow
  <2>6. x # None
    BY <2>5, RowFacts
  <2> HIDE DEF x
  <2>7. OnlyMoves(r) /\ pc'[r] = "settle" /\ job'[r] = job[r] /\ seen'[r] = seen[r]
    BY <2>1, GotoMoves DEF outside
  <2>8. Found(r)'
    BY <2>1, <2>3, <2>4, <2>7, FoundStays
  <2>9. Working(r)'
    BY <2>1, <2>2, <2>7, <2>8 DEF Working, Running, Label, OpsAt, outside
  <2>10. pend'[r][e] = x /\ db' = db
    BY <2>1, <2>3, RowFacts, Typed DEF WriteRow, InviteInv
  <2>11. SignedUp(r)'
    BY <2>1, <2>2, <2>4, <2>5, <2>6, <2>7, <2>10 DEF SignedUp, Holds
  <2>12. \A k \in Rows \ {e} : StaysWritten(r, k)
    BY <2>1, <2>2 DEF StaysWritten, Written
  <2>13. seen'[r] \in Seen
    BY <2>2, <2>7
  <2> HIDE DEF e
  <2> QED
    BY <2>1, <2>2, <2>3, <2>4, <2>5, <2>7, <2>9, <2>11, <2>12, <2>13, UserWritten
<1> QED
  BY <1>1, <1>2

LEMMA SettleStep ==
    ASSUME InviteInv, NEW r \in Request, Settle(r)
    PROVE  InviteInv'
<1> DEFINE i == seen[r].invite
           x == [View(r, i) EXCEPT !.status = Outcome(job[r].op)]
<1>1. pc[r] = "settle" /\ Goto(r, "commit") /\ WriteRow(r, i, x) /\ UNCHANGED <<job, seen, outside>>
  BY DEF Settle, Write
<1>2. /\ Working(r) /\ Written(r) /\ SignedUp(r) /\ seen[r] \in Seen /\ Found(r)
      /\ job[r].op \in {"revoke", "accept", "reject"}
  BY <1>1, Typed DEF InviteInv, Working, Running, OpsAt
<1>3. i \in Invite /\ View(r, i) \in InviteRow
  BY <1>2 DEF Found
<1>4. /\ x \in InviteRow /\ x.status \in {"ACCEPTED", "REJECTED", "REVOKED"}
      /\ job[r].op = "accept" => x.status = "ACCEPTED"
  BY <1>2, <1>3 DEF InviteRow, InviteStatus, Outcome
<1>5. x # None
  BY <1>4, RowFacts
<1> HIDE DEF x
<1>6. OnlyMoves(r) /\ pc'[r] = "commit" /\ job'[r] = job[r] /\ seen'[r] = seen[r]
  BY <1>1, GotoMoves DEF outside
<1>7. /\ pend'[r][i] = x /\ db' = db
      /\ \A k \in Rows \ {i} : pend'[r][k] = pend[r][k]
  BY <1>1, <1>3, RowFacts, Typed DEF WriteRow, InviteInv
<1>8. Found(r)'
  <2>1. View(r, seen[r].invite)' = x
    BY <1>5, <1>6, <1>7 DEF View
  <2> QED
    BY <1>2, <1>4, <1>6, <2>1 DEF Found
<1>9. Working(r)'
  BY <1>1, <1>2, <1>6, <1>8 DEF Working, Running, Label, OpsAt, outside
<1>10. SignedUp(r)'
  <2>1. CASE job[r].op = "accept"
    <3>1. seen[r].row.email \in Email
      BY <1>2 DEF Found, InviteRow
    <3>2. seen[r].row.email \in Rows \ {i}
      BY <1>3, <3>1, RowFacts
    <3> QED
      BY <1>1, <1>2, <1>4, <1>5, <1>6, <1>7, <2>1, <3>1, <3>2 DEF SignedUp, Holds
  <2>2. CASE job[r].op # "accept"
    BY <1>6, <2>2 DEF SignedUp
  <2> QED
    BY <2>1, <2>2
<1>11. \A k \in Rows \ {i} : StaysWritten(r, k)
  BY <1>1, <1>2, <1>6 DEF StaysWritten, Written
<1>12. seen'[r] \in Seen
  BY <1>2, <1>6
<1> HIDE DEF i
<1> QED
  BY <1>1, <1>3, <1>4, <1>6, <1>9, <1>10, <1>11, <1>12, InviteWritten DEF Pending

LEMMA DeleteUserStep ==
    ASSUME InviteInv, NEW r \in Request, DeleteUser(r)
    PROVE  InviteInv'
<1>1. CASE Rejected(r)
  BY <1>1, RejectedStep
<1>2. CASE ~Rejected(r)
  <2> DEFINE x == [exists |-> FALSE, set |-> None]
  <2>1. /\ pc[r] = "delete" /\ UNCHANGED <<job, seen, outside>> /\ Goto(r, "commit")
        /\ WriteRow(r, job[r].email, x)
    BY <1>2 DEF DeleteUser, Write
  <2>2. Working(r) /\ Written(r) /\ job[r].op = "deleteUser" /\ seen[r] \in Seen
    BY <2>1, Typed DEF InviteInv, Working, Running, OpsAt
  <2>3. job[r].email \in Email
    BY <2>2, JobFields DEF Working
  <2>4. x \in UserRow /\ x.set = None
    BY DEF UserRow
  <2> HIDE DEF x
  <2>5. OnlyMoves(r) /\ pc'[r] = "commit" /\ job'[r] = job[r] /\ seen'[r] = seen[r]
    BY <2>1, GotoMoves DEF outside
  <2>6. Working(r)' /\ SignedUp(r)'
    BY <2>1, <2>2, <2>5 DEF Working, SignedUp, Running, Label, OpsAt, outside
  <2>7. \A k \in Rows \ {job[r].email} : StaysWritten(r, k)
    BY <2>1, <2>2 DEF StaysWritten, Written
  <2> QED
    BY <2>1, <2>2, <2>3, <2>4, <2>5, <2>6, <2>7, UserWritten
<1> QED
  BY <1>1, <1>2

-----------------------------------------------------------------------------
(* Theorems.                                                               *)

LEMMA InviteStep ==
    ASSUME InviteInv, [Next]_vars
    PROVE  InviteInv'
<1>1. ASSUME NEW t \in Token, Elapse(t) PROVE InviteInv'
  BY <1>1, ElapseStep
<1>2. ASSUME NEW r \in Request,
             \/ Arrive(r) \/ Sweep(r) \/ \E i \in Invite : Expire(r, i)
             \/ CheckAccess(r) \/ CheckPending(r) \/ InsertInvite(r)
             \/ MailSent(r) \/ MailFails(r) \/ RevokeUnsent(r)
      PROVE  InviteInv'
  BY <1>2, ArriveStep, SweepStep, ExpireStep, CheckAccessStep, CheckPendingStep,
     InsertInviteStep, MailSentStep, MailFailsStep, RevokeUnsentStep
<1>3. ASSUME NEW r \in Request,
             \/ RequirePending(r) \/ Refresh(r) \/ Validate(r) \/ FindUser(r) \/ SignUp(r)
             \/ CreateAccount(r) \/ Settle(r) \/ DeleteUser(r) \/ Commit(r)
      PROVE  InviteInv'
  BY <1>3, RequirePendingStep, RefreshStep, ValidateStep, FindUserStep, SignUpStep,
     CreateAccountStep, SettleStep, DeleteUserStep, CommitStep
<1>4. ASSUME NEW r \in Request, Undelivered(r) \/ ConnectionLost(r)
      PROVE  InviteInv'
  BY <1>4, RejectedStep DEF Undelivered, ConnectionLost
<1>5. ASSUME UNCHANGED vars PROVE InviteInv'
  BY <1>5 DEF vars, handler, outside, InviteInv, TypeOK, Committed, PendingInvitesWereMailed,
     ExpiredMeansLate, RowLocksExclusive, Row, Working, Written, SignedUp, Found, View, Holds,
     Running
<1> QED
  BY <1>1, <1>2, <1>3, <1>4, <1>5 DEF Next

(* Whatever the requests, the mail server and the clock do, every row and  *)
(* every variable keeps its type, no row is written by two transactions,   *)
(* and each handler holds what its remaining statements rely on.           *)
THEOREM HandlersKeepTheirGround == Spec => []InviteInv
BY InviteInit, InviteStep, PTL DEF Spec

(* A committed invite that is pending can be answered: the token in it has *)
(* been mailed, although create and resend write it before they mail it,   *)
(* because a mail that fails takes the whole transaction back.             *)
THEOREM InvitesCanBeAnswered == Spec => []PendingInvitesWereMailed
<1>1. InviteInv => PendingInvitesWereMailed
  BY DEF InviteInv, Committed
<1> QED
  BY <1>1, HandlersKeepTheirGround, PTL

(* mark_expired_invites expires no invite in time, however many sweeps and *)
(* resends overlap.                                                        *)
THEOREM OnlyOverdueInvitesExpire == Spec => []ExpiredMeansLate
<1>1. InviteInv => ExpiredMeansLate
  BY DEF InviteInv, Committed
<1> QED
  BY <1>1, HandlersKeepTheirGround, PTL

(* Nothing but a commit reaches the database.                              *)
LEMMA OnlyCommitsCommit ==
    ASSUME InviteInv, [Next]_vars
    PROVE  \/ \E r \in Request : Commit(r)
           \/ db' = db /\ \A r \in Request : pc[r] = "commit" => pc'[r] # "done"
<1> DEFINE Quiet == db' = db /\ \A r \in Request : pc[r] = "commit" => pc'[r] # "done"
<1>1. ASSUME NEW r \in Request, Rejected(r) PROVE Quiet
  BY <1>1, Typed DEF Rejected, Fail, DiscardWrites, End, Goto, InviteInv
<1>2. ASSUME NEW r \in Request, NEW label, pc[r] # "commit", Goto(r, label), db' = db
      PROVE  Quiet
  BY <1>2, Typed DEF Goto, InviteInv
<1>3. ASSUME NEW t \in Token, Elapse(t) PROVE Quiet
  BY <1>3 DEF Elapse, handler
<1>4. ASSUME UNCHANGED vars PROVE Quiet
  BY <1>4 DEF vars, handler
<1> HIDE DEF Quiet
<1>5. ASSUME NEW r \in Request, Arrive(r) \/ Sweep(r) \/ \E i \in Invite : Expire(r, i) PROVE Quiet
  BY <1>2, <1>5 DEF Arrive, Begin, Sweep, Read, Expire, NextSwept, WriteRow
<1>6. ASSUME NEW r \in Request, CheckAccess(r) \/ CheckPending(r) \/ InsertInvite(r) PROVE Quiet
  BY <1>1, <1>2, <1>6 DEF CheckAccess, CheckPending, Continue, InsertInvite, WriteRow
<1>7. ASSUME NEW r \in Request, MailSent(r) \/ MailFails(r) \/ RevokeUnsent(r) PROVE Quiet
  BY <1>2, <1>7 DEF MailSent, MailFails, Continue, RevokeUnsent, Write, WriteRow
<1>8. ASSUME NEW r \in Request, RequirePending(r) \/ Refresh(r) \/ Validate(r) \/ FindUser(r)
      PROVE  Quiet
  BY <1>1, <1>2, <1>8 DEF RequirePending, Refresh, Validate, FindUser, Read, Continue, Write,
     WriteRow
<1>9. ASSUME NEW r \in Request, SignUp(r) \/ CreateAccount(r) \/ Settle(r) \/ DeleteUser(r)
      PROVE  Quiet
  BY <1>1, <1>2, <1>9 DEF SignUp, CreateAccount, Settle, DeleteUser, Write, WriteRow
<1>10. ASSUME NEW r \in Request, Undelivered(r) \/ ConnectionLost(r) PROVE Quiet
  BY <1>1, <1>10 DEF Undelivered, ConnectionLost
<1> QED
  BY <1>3, <1>4, <1>5, <1>6, <1>7, <1>8, <1>9, <1>10 DEF Next, Quiet

(* An acceptance is one commit of all that it does: the platform account,  *)
(* its user and the invite's status appear together, for a token that was  *)
(* mailed, and never for a user that somebody else has created.            *)
THEOREM AcceptancesAreWhole == Spec => AcceptanceIsWhole
<1> DEFINE Whole ==
      /\ \A e \in Email : db[e].set = None /\ db'[e].set # None =>
           \E r \in Request : /\ Accepting(r) /\ seen[r].row.email = e
                              /\ db'[seen[r].invite].status = "ACCEPTED"
      /\ \A r \in Request : Accepting(r) =>
           /\ ~db[seen[r].row.email].exists /\ db'[seen[r].row.email].set # None
           /\ job[r].token \in mailed
<1>1. ASSUME InviteInv, [Next]_vars PROVE Whole
  <2>1. CASE db' = db /\ \A r \in Request : pc[r] = "commit" => pc'[r] # "done"
    BY <2>1 DEF Accepting, At
  <2>2. ASSUME NEW q \in Request, Commit(q) PROVE Whole
    <3>1. /\ pc[q] = "commit" /\ pc' = [pc EXCEPT ![q] = "done"]
          /\ db' = [k \in Row |-> View(q, k)]
      BY <2>2 DEF Commit, Finish, CommitWrites, End, Goto
    <3>2. \A k \in Rows : db'[k] = View(q, k)
      BY <1>1, <3>1 DEF InviteInv, Committed, Row
    <3>3. pc'[q] = "done" /\ \A r \in Request \ {q} : pc'[r] = pc[r]
      BY <1>1, <3>1, Typed DEF InviteInv
    <3>4. Working(q) /\ Written(q) /\ SignedUp(q)
      BY <1>1 DEF InviteInv
    <3>5. ASSUME job[q].op = "accept"
          PROVE  /\ Accepting(q)
                 /\ ~db[seen[q].row.email].exists /\ db'[seen[q].row.email].set # None
                 /\ job[q].token \in mailed
                 /\ db'[seen[q].invite].status = "ACCEPTED"
      <4>1. Found(q)
        BY <3>1, <3>4, <3>5 DEF Working
      <4>2. seen[q].row.email \in Rows /\ seen[q].invite \in Rows
        BY <4>1, RowFacts DEF Found, InviteRow
      <4> QED
        BY <3>1, <3>2, <3>3, <3>4, <3>5, <4>2 DEF Accepting, At, Working, SignedUp, View, Holds
    <3>6. ASSUME NEW e \in Email, db[e].set = None, db'[e].set # None
          PROVE  job[q].op = "accept" /\ seen[q].row.email = e
      <4>1. Holds(q, e) /\ db'[e] = pend[q][e]
        BY <3>2, <3>6, RowFacts DEF View, Holds
      <4> QED
        BY <3>4, <3>6, <4>1 DEF Written
    <3>7. \A r \in Request : Accepting(r) => r = q /\ job[q].op = "accept"
      BY <3>3 DEF Accepting, At
    <3> QED
      BY <3>5, <3>6, <3>7
  <2> QED
    BY <1>1, <2>1, <2>2, OnlyCommitsCommit
<1>2. InviteInv /\ [Next]_vars => [Whole]_vars
  BY <1>1
<1>3. Spec => []InviteInv /\ [][Next]_vars
  BY HandlersKeepTheirGround, PTL DEF Spec
<1> QED
  BY <1>2, <1>3, PTL DEF AcceptanceIsWhole

-----------------------------------------------------------------------------
(* Accounts and the role of the super admin.                               *)

Types ==
    /\ AccountTypeOK
    /\ pend \in [Request -> [Account -> AccountRow \cup {None}]]

(* The endpoints whose handlers pass a statement.                          *)
AccountOpsAt(label) ==
    CASE label \in {"caller", "target", "loadCaller", "demote", "loadTarget", "promote"} -> {"transfer"}
      [] label \in {"reload", "flush"} -> {"update"}
      [] label = "read" -> {"update", "delete"}
      [] label = "remove" -> {"delete"}
      [] label \in {"exists", "insert"} -> {"create"}
      [] OTHER -> {"transfer", "update", "delete", "create"}

(* What a request has read and decided on.                                 *)
AccountWorking(r) ==
    /\ Running(r) => job[r].op \in AccountOpsAt(pc[r])
    /\ job[r].op = "transfer" /\ pc[r] # "caller" =>
         seen[r] \in Account /\ seen[r] # job[r].account /\ UserOf[seen[r]] = job[r].caller
    /\ job[r].op = "update" /\ pc[r] # "read" =>
         /\ seen[r] \in AccountRow /\ seen[r].live
         /\ job[r].role # None => RoleMayBeSet(seen[r].role, job[r].role)
    /\ job[r].op = "create" /\ pc[r] \in {"insert", "commit"} => job[r].role # "Super Admin"

(* What it has written, by endpoint.                                       *)
WrittenByTransfer(r, a) ==
    \/ /\ a = seen[r] /\ pc[r] \in {"loadTarget", "promote", "commit"}
       /\ pend[r][a].role = "Admin"
    \/ /\ a = job[r].account /\ pc[r] = "commit"
       /\ pend[r][a].live = db[a].live

WrittenByUpdate(r, a) ==
    /\ a = job[r].account /\ pc[r] = "commit"
    /\ pend[r][a].live = db[a].live
    /\ pend[r][a].role = IF "role" \in Changed(r) THEN job[r].role ELSE db[a].role

WrittenByOthers(r, a) ==
    /\ a = job[r].account /\ pc[r] = "commit"
    /\ ~IsSuperAdmin(pend[r][a])
    /\ job[r].op = "create" => ~IsSuperAdmin(db[a])

AccountWritten(r) ==
    /\ \A a \in Account :
         Holds(r, a) =>
           \/ job[r].op = "transfer" /\ WrittenByTransfer(r, a)
           \/ job[r].op = "update" /\ WrittenByUpdate(r, a)
           \/ job[r].op \in {"delete", "create"} /\ WrittenByOthers(r, a)
    /\ job[r].op = "transfer" /\ pc[r] = "commit" =>
         Holds(r, job[r].account) /\ pend[r][job[r].account].role = "Super Admin"

OneUnlessOvertaken == ~overtaken => \E a \in Account : SuperAdmins = {a}

AccountInv ==
    /\ Types
    /\ RowLocksExclusive
    /\ \A r \in Request : AccountWorking(r) /\ AccountWritten(r)
    /\ OneUnlessOvertaken

AccountJob == {NoJob} \cup TransferJob \cup UpdateJob \cup DeleteJob \cup CreateAccountJob
AccountSeen == {None} \cup Account \cup AccountRow

(* All that the invariant says of one request.                             *)
AccountMine(r) ==
    /\ pc[r] \in AccountLabel /\ job[r] \in AccountJob /\ seen[r] \in AccountSeen
    /\ pend[r] \in [Account -> AccountRow \cup {None}]
    /\ AccountWorking(r) /\ AccountWritten(r)

(* Only r has moved.                                                       *)
AccountOnlyMoves(r) ==
    /\ pc' = [pc EXCEPT ![r] = pc'[r]]
    /\ job' = [job EXCEPT ![r] = job'[r]]
    /\ seen' = [seen EXCEPT ![r] = seen'[r]]
    /\ overtaken' \in BOOLEAN

-----------------------------------------------------------------------------
(* Rows and jobs.                                                          *)

LEMMA RowIs == AccountInv => Row = Account
BY DEF AccountInv, Types, AccountTypeOK, Row

LEMMA AccountViewTypes ==
    ASSUME AccountInv, NEW r \in Request, NEW a \in Account
    PROVE  View(r, a) \in AccountRow /\ db[a] \in AccountRow
BY DEF AccountInv, Types, AccountTypeOK, View

LEMMA AccountNotHeldByOther ==
    ASSUME AccountInv, NEW r \in Request, NEW s \in Request \ {r}, NEW a \in Account, Holds(r, a)
    PROVE  ~Holds(s, a)
BY RowIs DEF AccountInv, RowLocksExclusive

LEMMA AccountJobFields ==
    ASSUME NEW j \in AccountJob, j.op \in {"transfer", "update", "delete", "create"}
    PROVE  /\ j.account \in Account
           /\ j.op = "update" => j.role \in Role \cup {None}
           /\ j.op = "update" => j.status \in {"ACTIVE", "SUSPENDED", None}
           /\ j.op = "create" => j.role \in Role
BY DEF AccountJob, NoJob, TransferJob, UpdateJob, DeleteJob, CreateAccountJob

LEMMA RequestTypes ==
    ASSUME AccountInv, NEW r \in Request
    PROVE  /\ pc[r] \in AccountLabel /\ job[r] \in AccountJob /\ seen[r] \in AccountSeen
           /\ pend[r] \in [Account -> AccountRow \cup {None}] /\ AccountWorking(r) /\ AccountWritten(r)
BY DEF AccountInv, Types, AccountTypeOK, AccountJob, AccountSeen

-----------------------------------------------------------------------------
(* The steps of others.                                                    *)

LEMMA AccountOthersKeep ==
    ASSUME AccountInv, NEW r \in Request, AccountOnlyMoves(r), NEW s \in Request \ {r},
           pend'[s] = pend[s],
           \A a \in Account : Holds(s, a) => db'[a] = db[a]
    PROVE  AccountMine(s)'
<1>1. AccountMine(s)
  BY RequestTypes DEF AccountMine
<1>2. pc'[s] = pc[s] /\ job'[s] = job[s] /\ seen'[s] = seen[s]
  BY DEF AccountOnlyMoves, AccountInv, Types, AccountTypeOK
<1>3. \A a : Holds(s, a)' <=> Holds(s, a)
  BY DEF Holds
<1>4. AccountWorking(s)'
  BY <1>1, <1>2 DEF AccountMine, AccountWorking, Running
<1>5. Changed(s)' = Changed(s)
  BY <1>2 DEF Changed
<1>6. AccountWritten(s)'
  <2>1. ASSUME NEW a \in Account, Holds(s, a)
        PROVE  \/ job[s].op = "transfer" /\ WrittenByTransfer(s, a)'
               \/ job[s].op = "update" /\ WrittenByUpdate(s, a)'
               \/ job[s].op \in {"delete", "create"} /\ WrittenByOthers(s, a)'
    BY <1>1, <1>2, <1>5, <2>1
       DEF AccountMine, AccountWritten, WrittenByTransfer, WrittenByUpdate, WrittenByOthers,
           IsSuperAdmin
  <2> QED
    BY <1>1, <1>2, <1>3, <2>1 DEF AccountMine, AccountWritten
<1> QED
  BY <1>1, <1>2, <1>4, <1>6 DEF AccountMine

-----------------------------------------------------------------------------
(* The steps of r.                                                         *)

LEMMA AccountTogether ==
    ASSUME AccountInv, NEW r \in Request, AccountOnlyMoves(r),
           db' \in [Account -> AccountRow], pend' = [pend EXCEPT ![r] = pend'[r]],
           RowLocksExclusive', OneUnlessOvertaken', \A s \in Request : AccountMine(s)'
    PROVE  AccountInv'
<1>1. pend' \in [Request -> [Account -> AccountRow \cup {None}]]
  BY DEF AccountMine, AccountInv, Types
<1>2. pc' \in [Request -> AccountLabel] /\ job' \in [Request -> AccountJob]
      /\ seen' \in [Request -> AccountSeen]
  BY DEF AccountMine, AccountOnlyMoves, AccountInv, Types, AccountTypeOK, AccountJob, AccountSeen
<1>3. Types'
  BY <1>1, <1>2 DEF Types, AccountTypeOK, AccountOnlyMoves, AccountJob, AccountSeen
<1> QED
  BY <1>3 DEF AccountInv, AccountMine

LEMMA QuietDb ==
    ASSUME AccountInv, UNCHANGED <<db, overtaken>>
    PROVE  OneUnlessOvertaken' /\ db' \in [Account -> AccountRow]
BY DEF AccountInv, Types, AccountTypeOK, OneUnlessOvertaken, SuperAdmins, IsSuperAdmin

LEMMA AccountReadStep ==
    ASSUME AccountInv, NEW r \in Request, AccountOnlyMoves(r), UNCHANGED <<db, pend, overtaken>>,
           AccountMine(r)'
    PROVE  AccountInv'
<1>1. \A s \in Request \ {r} : AccountMine(s)'
  BY AccountOthersKeep
<1>2. RowLocksExclusive'
  BY DEF AccountInv, RowLocksExclusive, Holds, Row
<1>3. pend' = [pend EXCEPT ![r] = pend'[r]]
  BY DEF AccountInv, Types
<1> QED
  BY <1>1, <1>2, <1>3, QuietDb, AccountTogether

LEMMA AccountWriteStep ==
    ASSUME AccountInv, NEW r \in Request, AccountOnlyMoves(r), NEW a \in Account,
           NEW x \in AccountRow,
           WriteRow(r, a, x), overtaken' = overtaken, AccountMine(r)'
    PROVE  AccountInv'
<1>1. db' = db /\ pend' = [pend EXCEPT ![r][a] = x]
  BY DEF WriteRow
<1>2. \A s \in Request \ {r} : pend'[s] = pend[s]
  BY <1>1 DEF AccountInv, Types
<1>3. \A s \in Request \ {r} : AccountMine(s)'
  BY <1>1, <1>2, AccountOthersKeep
<1>5. RowLocksExclusive'
  <2>1. \A s \in Request, b \in Account : s # r \/ b # a => pend'[s][b] = pend[s][b]
    BY <1>1 DEF AccountInv, Types
  <2>2. \A s \in Request \ {r} : ~Holds(s, a)
    BY DEF WriteRow, HeldByOther
  <2> QED
    BY <1>1, <2>1, <2>2, RowIs DEF RowLocksExclusive, AccountInv, Row, Holds
<1>6. pend' = [pend EXCEPT ![r] = pend'[r]]
  BY <1>1 DEF AccountInv, Types
<1> QED
  BY <1>1, <1>3, <1>5, <1>6, QuietDb, AccountTogether

LEMMA AccountEndedIsMine ==
    ASSUME AccountInv, NEW r \in Request, NEW outcome \in {"done", "failed"}, End(r, outcome),
           pend' = [pend EXCEPT ![r] = NoWrites]
    PROVE  AccountMine(r)' /\ \A a \in Account : ~Holds(r, a)'
<1>1. /\ pc'[r] = outcome /\ job'[r] = NoJob /\ seen'[r] = None
      /\ pend'[r] = [a \in Account |-> None]
  BY RowIs DEF AccountInv, Types, AccountTypeOK, End, Goto, NoWrites
<1>2. \A a \in Account : ~Holds(r, a)'
  BY <1>1 DEF Holds
<1>3. AccountWorking(r)' /\ AccountWritten(r)'
  BY <1>1, <1>2 DEF AccountWorking, AccountWritten, Running, NoJob
<1> QED
  BY <1>1, <1>2, <1>3 DEF AccountMine, AccountLabel, AccountJob, AccountSeen

LEMMA RejectStep ==
    ASSUME AccountInv, NEW r \in Request, Refused(r)
    PROVE  AccountInv'
<1>1. /\ db' = db /\ pend' = [pend EXCEPT ![r] = NoWrites] /\ End(r, "failed")
      /\ overtaken' = overtaken
  BY DEF Refused, Fail, DiscardWrites
<1>2. AccountOnlyMoves(r)
  BY <1>1 DEF AccountOnlyMoves, End, Goto, AccountInv, Types, AccountTypeOK
<1>3. \A s \in Request \ {r} : pend'[s] = pend[s]
  BY <1>1 DEF AccountInv, Types
<1>4. \A s \in Request \ {r} : AccountMine(s)'
  BY <1>1, <1>2, <1>3, AccountOthersKeep
<1>5. AccountMine(r)' /\ \A a \in Account : ~Holds(r, a)'
  BY <1>1, AccountEndedIsMine
<1>6. RowLocksExclusive'
  BY <1>1, <1>3, <1>5, RowIs DEF AccountInv, RowLocksExclusive, Holds, Row
<1>7. pend' = [pend EXCEPT ![r] = pend'[r]]
  BY <1>1 DEF AccountInv, Types
<1> QED
  BY <1>1, <1>2, <1>4, <1>5, <1>6, <1>7, QuietDb, AccountTogether

-----------------------------------------------------------------------------
(* Commits.                                                                *)

(* What a transfer commits; whoever held the role was the caller's account *)
(* unless the transfer was overtaken.                                      *)
LEMMA TransferWrites ==
    ASSUME AccountInv, NEW r \in Request, At(r, "transfer", "commit")
    PROVE  /\ seen[r] \in Account /\ job[r].account \in Account /\ seen[r] # job[r].account
           /\ UserOf[seen[r]] = job[r].caller
           /\ \A a \in Account \ {seen[r], job[r].account} : View(r, a) = db[a]
           /\ View(r, job[r].account).role = "Super Admin"
           /\ View(r, job[r].account).live = db[job[r].account].live
           /\ Holds(r, seen[r]) => View(r, seen[r]).role = "Admin"
<1>1. job[r] \in AccountJob /\ AccountWorking(r) /\ AccountWritten(r) /\ pc[r] = "commit"
      /\ job[r].op = "transfer"
  BY RequestTypes DEF At
<1>2. seen[r] \in Account /\ job[r].account \in Account /\ seen[r] # job[r].account
      /\ UserOf[seen[r]] = job[r].caller
  BY <1>1, AccountJobFields DEF AccountWorking
<1>3. \A a \in Account : Holds(r, a) => WrittenByTransfer(r, a)
  BY <1>1 DEF AccountWritten
<1> QED
  BY <1>1, <1>2, <1>3 DEF AccountWritten, WrittenByTransfer, View, Holds

(* The other endpoints take the role from nobody and give it to nobody,    *)
(* unless they were overtaken; overtaken or not, they give it to nobody.   *)
LEMMA OthersKeepTheRole ==
    ASSUME AccountInv, NEW r \in Request, pc[r] = "commit", job[r].op # "transfer",
           NEW a \in Account
    PROVE  /\ IsSuperAdmin(View(r, a)) => IsSuperAdmin(db[a])
           /\ ~Overtaken(r) /\ IsSuperAdmin(db[a]) => IsSuperAdmin(View(r, a))
<1>1. job[r] \in AccountJob /\ AccountWorking(r) /\ AccountWritten(r)
  BY RequestTypes
<1>2. CASE ~Holds(r, a)
  BY <1>2 DEF View, Holds
<1>3. CASE Holds(r, a)
  <2>1. View(r, a) = pend[r][a]
    BY <1>3 DEF View, Holds
  <2>2. CASE job[r].op = "update"
    <3>1. WrittenByUpdate(r, a)
      BY <1>1, <1>3, <2>2 DEF AccountWritten
    <3>2. CASE "role" \in Changed(r)
      <4>1. job[r].role # None /\ job[r].role # seen[r].role
        BY <3>2 DEF Changed
      <4>2. job[r].role # "Super Admin" /\ seen[r].role # "Super Admin"
        BY <1>1, <2>2, <4>1 DEF AccountWorking, RoleMayBeSet
      <4>3. Overtaken(r) <=> IsSuperAdmin(db[a]) # IsSuperAdmin(seen[r])
        BY <2>2, <3>1, <3>2 DEF Overtaken, WrittenByUpdate
      <4> QED
        BY <2>1, <3>1, <3>2, <4>2, <4>3 DEF WrittenByUpdate, IsSuperAdmin
    <3>3. CASE "role" \notin Changed(r)
      BY <2>1, <3>1, <3>3 DEF WrittenByUpdate, IsSuperAdmin
    <3> QED
      BY <3>2, <3>3
  <2>3. CASE job[r].op \in {"delete", "create"}
    <3>1. WrittenByOthers(r, a)
      BY <1>1, <1>3, <2>3 DEF AccountWritten
    <3>2. job[r].op = "delete" => (Overtaken(r) <=> IsSuperAdmin(db[a]))
      BY <3>1 DEF Overtaken, WrittenByOthers
    <3> QED
      BY <2>1, <2>3, <3>1, <3>2 DEF WrittenByOthers
  <2> QED
    BY <1>1, <1>3, <2>2, <2>3 DEF AccountWritten
<1> QED
  BY <1>2, <1>3

LEMMA AccountCommitStep ==
    ASSUME AccountInv, NEW r \in Request, CommitAccounts(r)
    PROVE  AccountInv'
<1>1. /\ db' = [a \in Row |-> View(r, a)] /\ pend' = [pend EXCEPT ![r] = NoWrites]
      /\ End(r, "done") /\ overtaken' = (overtaken \/ Overtaken(r)) /\ pc[r] = "commit"
  BY DEF CommitAccounts, Finish, CommitWrites
<1>2. \A a \in Account : db'[a] = View(r, a)
  BY <1>1, RowIs
<1>3. AccountOnlyMoves(r)
  BY <1>1 DEF AccountOnlyMoves, End, Goto, AccountInv, Types, AccountTypeOK
<1>4. \A s \in Request \ {r} : pend'[s] = pend[s]
  BY <1>1 DEF AccountInv, Types
<1>5. \A s \in Request \ {r} : AccountMine(s)'
  <2> TAKE s \in Request \ {r}
  <2>1. \A a \in Account : Holds(s, a) => db'[a] = db[a]
    BY <1>2, AccountNotHeldByOther DEF View, Holds
  <2> QED
    BY <1>3, <1>4, <2>1, AccountOthersKeep
<1>6. AccountMine(r)' /\ \A a \in Account : ~Holds(r, a)'
  BY <1>1, AccountEndedIsMine
<1>7. RowLocksExclusive'
  <2>1. Row' = Account
    BY <1>1, RowIs DEF Row
  <2> QED
    BY <1>4, <1>6, <2>1, RowIs DEF AccountInv, RowLocksExclusive, Holds
<1>8. db' \in [Account -> AccountRow] /\ pend' = [pend EXCEPT ![r] = pend'[r]]
  BY <1>1, RowIs, AccountViewTypes DEF AccountInv, Types
<1>9. OneUnlessOvertaken'
  <2> SUFFICES ASSUME ~overtaken, ~Overtaken(r) PROVE \E a \in Account : SuperAdmins' = {a}
    BY <1>1 DEF OneUnlessOvertaken
  <2>1. PICK c \in Account : SuperAdmins = {c}
    BY DEF AccountInv, OneUnlessOvertaken
  <2>2. \A a \in Account : a \in SuperAdmins' <=> IsSuperAdmin(View(r, a))
    BY <1>2 DEF SuperAdmins, IsSuperAdmin
  <2>3. SuperAdmins' \subseteq Account
    BY DEF SuperAdmins
  <2>4. CASE job[r].op # "transfer"
    <3>1. \A a \in Account : IsSuperAdmin(View(r, a)) <=> a \in SuperAdmins
      BY <1>1, <2>4, OthersKeepTheRole DEF SuperAdmins
    <3> QED
      BY <2>1, <2>2, <2>3, <3>1
  <2>5. CASE job[r].op = "transfer"
    <3>1. /\ Holds(r, seen[r]) /\ IsSuperAdmin(db[seen[r]])
          /\ db[job[r].account].live /\ ~IsSuperAdmin(db[job[r].account])
      BY <2>5 DEF Overtaken
    <3>2. PICK s \in Account, t \in Account : s = seen[r] /\ t = job[r].account /\ s # t
      BY <1>1, <2>5, TransferWrites DEF At
    <3>3. /\ \A a \in Account \ {s, t} : View(r, a) = db[a]
          /\ IsSuperAdmin(View(r, t)) /\ ~IsSuperAdmin(View(r, s))
      BY <1>1, <2>5, <3>1, <3>2, TransferWrites DEF At, IsSuperAdmin
    <3>4. c = s
      BY <2>1, <3>1, <3>2 DEF SuperAdmins
    <3>5. \A a \in Account : IsSuperAdmin(View(r, a)) <=> a = t
      BY <2>1, <3>2, <3>3, <3>4 DEF SuperAdmins
    <3> QED
      BY <2>2, <2>3, <3>5
  <2> QED
    BY <2>4, <2>5
<1> QED
  BY <1>3, <1>5, <1>6, <1>7, <1>8, <1>9, AccountTogether

-----------------------------------------------------------------------------
(* Statements.                                                             *)

LEMMA AccountGotoMoves ==
    ASSUME AccountInv, NEW r \in Request, NEW label, Goto(r, label), job' = job,
           seen' = seen \/ seen' = [seen EXCEPT ![r] = seen'[r]], UNCHANGED overtaken
    PROVE  AccountOnlyMoves(r) /\ pc'[r] = label /\ job'[r] = job[r]
BY DEF AccountOnlyMoves, Goto, AccountInv, Types, AccountTypeOK

(* Before its first write a request holds nothing.                         *)
LEMMA HoldsNothing ==
    ASSUME AccountInv, NEW r \in Request, pc[r] \notin {"loadTarget", "promote", "commit"}
    PROVE  \A a \in Account : ~Holds(r, a)
BY RequestTypes DEF AccountWritten, WrittenByTransfer, WrittenByUpdate, WrittenByOthers

LEMMA ReadFirst ==
    ASSUME AccountInv, NEW r \in Request, pc[r] \notin {"loadTarget", "promote", "commit"},
           UNCHANGED <<db, pend, overtaken>>, AccountOnlyMoves(r),
           pc'[r] \in AccountLabel, job'[r] \in AccountJob, seen'[r] \in AccountSeen, AccountWorking(r)',
           pc'[r] = "commit" => job'[r].op # "transfer"
    PROVE  AccountInv'
<1>1. \A a \in Account : ~Holds(r, a)'
  BY HoldsNothing DEF Holds
<1>2. AccountWritten(r)'
  BY <1>1 DEF AccountWritten
<1>3. AccountMine(r)'
  BY <1>2, RequestTypes DEF AccountMine
<1> QED
  BY <1>3, AccountReadStep

LEMMA BeginStep ==
    ASSUME AccountInv, NEW r \in Request,
           BeginTransfer(r) \/ BeginUpdate(r) \/ BeginDelete(r) \/ BeginCreate(r)
    PROVE  AccountInv'
<1>1. PICK j \in AccountJob, l \in {"caller", "read", "exists"} :
        /\ job' = [job EXCEPT ![r] = j] /\ Goto(r, l) /\ j.op \in AccountOpsAt(l)
  <2>1. ASSUME NEW l, NEW Jobs, Begin(r, Jobs, l)
        PROVE  \E j \in Jobs : job' = [job EXCEPT ![r] = j] /\ Goto(r, l)
    BY <2>1 DEF Begin
  <2>2. CASE BeginTransfer(r)
    <3>1. \A j \in Called(TransferJob) : j \in AccountJob /\ j.op = "transfer"
      BY DEF Called, TransferJob, AccountJob
    <3> QED
      BY <2>1, <2>2, <3>1 DEF BeginTransfer, AccountOpsAt
  <2>3. CASE BeginUpdate(r)
    <3>1. \A j \in Called(UpdateJob) : j \in AccountJob /\ j.op = "update"
      BY DEF Called, UpdateJob, AccountJob
    <3> QED
      BY <2>1, <2>3, <3>1 DEF BeginUpdate, AccountOpsAt
  <2>4. CASE BeginDelete(r)
    <3>1. \A j \in Called(DeleteJob) : j \in AccountJob /\ j.op = "delete"
      BY DEF Called, DeleteJob, AccountJob
    <3> QED
      BY <2>1, <2>4, <3>1 DEF BeginDelete, AccountOpsAt
  <2>5. CASE BeginCreate(r)
    <3>1. \A j \in Called(CreateAccountJob) : j \in AccountJob /\ j.op = "create"
      BY DEF Called, CreateAccountJob, AccountJob
    <3> QED
      BY <2>1, <2>5, <3>1 DEF BeginCreate, AccountOpsAt
  <2> QED
    BY <2>2, <2>3, <2>4, <2>5
<1>2. pc[r] = "new" /\ UNCHANGED <<db, pend, seen, overtaken>>
  BY DEF BeginTransfer, BeginUpdate, BeginDelete, BeginCreate, Begin
<1>3. pc'[r] = l /\ job'[r] = j /\ seen'[r] = seen[r]
  BY <1>1, <1>2 DEF Goto, AccountInv, Types, AccountTypeOK
<1>4. AccountOnlyMoves(r)
  BY <1>1, <1>2 DEF AccountOnlyMoves, Goto, AccountInv, Types, AccountTypeOK
<1>5. AccountWorking(r)'
  BY <1>1, <1>3 DEF AccountWorking, Running, AccountOpsAt
<1> QED
  BY <1>1, <1>2, <1>3, <1>4, <1>5, ReadFirst, RequestTypes DEF AccountLabel

(* A statement that only reads, and keeps what was decided on.             *)
LEMMA ContinueStep ==
    ASSUME AccountInv, NEW r \in Request, NEW l \in AccountLabel, Continue(r, l),
           UNCHANGED overtaken,
           pc'[r] = l /\ job'[r] = job[r] /\ seen'[r] = seen[r]
             => AccountWorking(r)' /\ AccountWritten(r)'
    PROVE  AccountInv'
<1>1. UNCHANGED <<db, pend, job, seen>>
  BY DEF Continue
<1>2. AccountOnlyMoves(r) /\ pc'[r] = l /\ job'[r] = job[r] /\ seen'[r] = seen[r]
  BY AccountGotoMoves DEF Continue
<1>3. AccountMine(r)'
  BY <1>1, <1>2, RequestTypes DEF AccountMine
<1> QED
  BY <1>1, <1>2, <1>3, AccountReadStep

LEMMA CheckCallerStep ==
    ASSUME AccountInv, NEW r \in Request, CheckCaller(r)
    PROVE  AccountInv'
<1>1. CASE Refused(r)
  BY <1>1, RejectStep
<1>2. CASE ~Refused(r)
  <2>1. PICK s \in Account : /\ UserOf[s] = job[r].caller /\ s # job[r].account
                             /\ Read(r, s, "target") /\ UNCHANGED overtaken
    BY <1>2 DEF CheckCaller, MayTransfer
  <2>2. pc[r] = "caller" /\ job[r].op = "transfer"
    BY DEF CheckCaller, At
  <2>3. UNCHANGED <<db, pend>> /\ AccountOnlyMoves(r) /\ pc'[r] = "target" /\ job'[r] = job[r]
    BY <2>1, AccountGotoMoves DEF Read, Keep, AccountInv, Types, AccountTypeOK
  <2>4. seen'[r] = s
    BY <2>1 DEF Read, Keep, AccountInv, Types, AccountTypeOK
  <2>5. AccountWorking(r)'
    BY <2>1, <2>2, <2>3, <2>4 DEF AccountWorking, Running, AccountOpsAt
  <2> QED
    BY <2>1, <2>2, <2>3, <2>4, <2>5, ReadFirst, RequestTypes DEF AccountLabel, AccountSeen
<1> QED
  BY <1>1, <1>2

LEMMA CheckTargetStep ==
    ASSUME AccountInv, NEW r \in Request, CheckTarget(r)
    PROVE  AccountInv'
<1>1. CASE Refused(r)
  BY <1>1, RejectStep
<1>2. CASE ~Refused(r)
  <2>1. Continue(r, "loadCaller") /\ UNCHANGED overtaken /\ pc[r] = "target"
        /\ job[r].op = "transfer"
    BY <1>2 DEF CheckTarget, At
  <2>2. AccountWorking(r) /\ AccountWritten(r) /\ \A a \in Account : ~Holds(r, a)
    BY <2>1, RequestTypes, HoldsNothing
  <2> QED
    BY <2>1, <2>2, ContinueStep DEF Continue, AccountWorking, AccountWritten, Running,
       AccountOpsAt, Holds, AccountLabel
<1> QED
  BY <1>1, <1>2

LEMMA LoadCallerStep ==
    ASSUME AccountInv, NEW r \in Request, LoadCaller(r)
    PROVE  AccountInv'
<1>1. CASE Refused(r)
  BY <1>1, RejectStep
<1>2. CASE ~Refused(r)
  <2>1. PICK l \in {"loadTarget", "demote"} :
          Continue(r, l) /\ UNCHANGED overtaken /\ pc[r] = "loadCaller" /\ job[r].op = "transfer"
    BY <1>2 DEF LoadCaller, At
  <2>2. AccountWorking(r) /\ AccountWritten(r) /\ \A a \in Account : ~Holds(r, a)
    BY <2>1, RequestTypes, HoldsNothing
  <2> QED
    BY <2>1, <2>2, ContinueStep DEF Continue, AccountWorking, AccountWritten, Running,
       AccountOpsAt, Holds, AccountLabel
<1> QED
  BY <1>1, <1>2

LEMMA LoadTargetStep ==
    ASSUME AccountInv, NEW r \in Request, LoadTarget(r)
    PROVE  AccountInv'
<1>1. CASE Refused(r)
  BY <1>1, RejectStep
<1>2. CASE ~Refused(r)
  <2>1. Continue(r, "promote") /\ UNCHANGED overtaken /\ pc[r] = "loadTarget"
        /\ job[r].op = "transfer"
    BY <1>2 DEF LoadTarget, At
  <2>2. AccountWorking(r) /\ AccountWritten(r)
    BY RequestTypes
  <2>3. ASSUME pc'[r] = "promote", job'[r] = job[r], seen'[r] = seen[r]
        PROVE  AccountWorking(r)' /\ AccountWritten(r)'
    <3>1. AccountWorking(r)'
      BY <2>1, <2>2, <2>3 DEF AccountWorking, Running, AccountOpsAt
    <3>2. AccountWritten(r)'
      BY <2>1, <2>2, <2>3 DEF Continue, AccountWritten, WrittenByTransfer, Holds
    <3> QED
      BY <3>1, <3>2
  <2> QED
    BY <2>1, <2>3, ContinueStep DEF AccountLabel
<1> QED
  BY <1>1, <1>2

-----------------------------------------------------------------------------
(* Statements that write.                                                  *)

LEMMA WriteTo ==
    ASSUME AccountInv, NEW r \in Request, NEW a \in Account, NEW x \in AccountRow,
           NEW l \in AccountLabel,
           Write(r, a, x, l), UNCHANGED overtaken,
           /\ db' = db /\ pc'[r] = l /\ job'[r] = job[r] /\ seen'[r] = seen[r]
           /\ pend'[r][a] = x /\ Holds(r, a)'
           /\ \A b \in Account \ {a} : pend'[r][b] = pend[r][b] /\ (Holds(r, b)' <=> Holds(r, b))
           => AccountWorking(r)' /\ AccountWritten(r)'
    PROVE  AccountInv'
<1>1. WriteRow(r, a, x) /\ Goto(r, l) /\ UNCHANGED <<job, seen>>
  BY DEF Write
<1>2. db' = db /\ pend' = [pend EXCEPT ![r][a] = x]
  BY <1>1 DEF WriteRow
<1>3. pend'[r] = [pend[r] EXCEPT ![a] = x] /\ pend'[r] \in [Account -> AccountRow \cup {None}]
  BY <1>2, RequestTypes DEF AccountInv, Types
<1>4. /\ pend'[r][a] = x /\ Holds(r, a)'
      /\ \A b \in Account \ {a} : pend'[r][b] = pend[r][b] /\ (Holds(r, b)' <=> Holds(r, b))
  BY <1>3, RequestTypes, AccountAssumption DEF Holds
<1>5. AccountOnlyMoves(r) /\ pc'[r] = l /\ job'[r] = job[r] /\ seen'[r] = seen[r]
  BY <1>1, AccountGotoMoves
<1>6. AccountMine(r)'
  BY <1>2, <1>3, <1>4, <1>5, RequestTypes DEF AccountMine
<1> QED
  BY <1>1, <1>5, <1>6, AccountWriteStep

(* The first write of a request is its last.                               *)
LEMMA WriteOnce ==
    ASSUME AccountInv, NEW r \in Request, pc[r] \in {"flush", "remove", "insert"},
           NEW x \in AccountRow, Write(r, job[r].account, x, "commit"), UNCHANGED overtaken,
           job[r].op = "update" =>
             /\ x.live = db[job[r].account].live
             /\ x.role = IF "role" \in Changed(r) THEN job[r].role ELSE db[job[r].account].role,
           job[r].op # "update" => ~IsSuperAdmin(x),
           job[r].op = "create" => ~IsSuperAdmin(db[job[r].account]) /\ job[r].role # "Super Admin"
    PROVE  AccountInv'
<1>1. AccountWorking(r) /\ \A b \in Account : ~Holds(r, b)
  BY RequestTypes, HoldsNothing
<1>2. job[r].op \in {"update", "delete", "create"}
  BY <1>1 DEF AccountWorking, Running, AccountOpsAt
<1>3. PICK a \in Account : a = job[r].account
  BY <1>2, RequestTypes, AccountJobFields
<1>4. ASSUME db' = db, pc'[r] = "commit", job'[r] = job[r], seen'[r] = seen[r],
             pend'[r][a] = x, Holds(r, a)',
             \A b \in Account \ {a} : pend'[r][b] = pend[r][b] /\ (Holds(r, b)' <=> Holds(r, b))
      PROVE  AccountWorking(r)' /\ AccountWritten(r)'
  <2>1. AccountWorking(r)'
    BY <1>1, <1>2, <1>4 DEF AccountWorking, Running, AccountOpsAt
  <2>2. \A b \in Account : Holds(r, b)' => b = a
    BY <1>1, <1>4
  <2>3. Changed(r)' = Changed(r)
    BY <1>4 DEF Changed
  <2>4. job[r].op = "update" => WrittenByUpdate(r, a)'
    BY <1>3, <1>4, <2>3 DEF WrittenByUpdate
  <2>5. job[r].op # "update" => WrittenByOthers(r, a)'
    BY <1>3, <1>4 DEF WrittenByOthers, IsSuperAdmin
  <2>6. AccountWritten(r)'
    BY <1>2, <1>4, <2>2, <2>4, <2>5 DEF AccountWritten
  <2> QED
    BY <2>1, <2>6
<1> QED
  BY <1>3, <1>4, WriteTo DEF AccountLabel

LEMMA DemoteStep ==
    ASSUME AccountInv, NEW r \in Request, Demote(r)
    PROVE  AccountInv'
<1>1. pc[r] = "demote" /\ job[r].op = "transfer" /\ UNCHANGED overtaken
  BY DEF Demote, At
<1>2. AccountWorking(r) /\ \A b \in Account : ~Holds(r, b)
  BY <1>1, RequestTypes, HoldsNothing
<1>3. PICK s \in Account : s = seen[r] /\ s # job[r].account
  BY <1>1, <1>2 DEF AccountWorking
<1>4. PICK x \in AccountRow : x = [View(r, s) EXCEPT !.role = "Admin"] /\ x.role = "Admin"
  <2> DEFINE x == [View(r, s) EXCEPT !.role = "Admin"]
  <2>1. View(r, s) \in AccountRow
    BY AccountViewTypes
  <2>2. x \in AccountRow /\ x.role = "Admin"
    BY <2>1 DEF AccountRow, Role
  <2> QED
    BY <2>2
<1>5. Write(r, s, x, "loadTarget")
  BY <1>3, <1>4 DEF Demote
<1>6. ASSUME db' = db, pc'[r] = "loadTarget", job'[r] = job[r], seen'[r] = seen[r],
             pend'[r][s] = x, Holds(r, s)',
             \A b \in Account \ {s} : pend'[r][b] = pend[r][b] /\ (Holds(r, b)' <=> Holds(r, b))
      PROVE  AccountWorking(r)' /\ AccountWritten(r)'
  <2>1. AccountWorking(r)'
    BY <1>1, <1>2, <1>6 DEF AccountWorking, Running, AccountOpsAt
  <2>2. \A b \in Account : Holds(r, b)' => b = s
    BY <1>2, <1>6
  <2>3. WrittenByTransfer(r, s)'
    BY <1>3, <1>4, <1>6 DEF WrittenByTransfer
  <2> QED
    BY <1>1, <1>6, <2>1, <2>2, <2>3 DEF AccountWritten
<1> QED
  BY <1>1, <1>5, <1>6, WriteTo DEF AccountLabel

LEMMA PromoteStep ==
    ASSUME AccountInv, NEW r \in Request, Promote(r)
    PROVE  AccountInv'
<1>1. pc[r] = "promote" /\ job[r].op = "transfer" /\ UNCHANGED overtaken /\ AccountWorking(r)
      /\ AccountWritten(r)
  BY RequestTypes DEF Promote, At
<1>2. PICK a \in Account : a = job[r].account
  BY <1>1, RequestTypes, AccountJobFields
<1>3. seen[r] \in Account /\ seen[r] # a
  BY <1>1, <1>2 DEF AccountWorking
<1>4. \A b \in Account : Holds(r, b) => b = seen[r] /\ pend[r][b].role = "Admin"
  BY <1>1 DEF AccountWritten, WrittenByTransfer
<1>5. PICK x \in AccountRow :
        x = [View(r, a) EXCEPT !.role = "Super Admin"] /\ x.role = "Super Admin" /\ x.live = db[a].live
  <2>1. View(r, a) = db[a] /\ db[a] \in AccountRow
    BY <1>3, <1>4, AccountViewTypes DEF View, Holds
  <2> DEFINE x == [db[a] EXCEPT !.role = "Super Admin"]
  <2>2. x \in AccountRow /\ x.role = "Super Admin" /\ x.live = db[a].live
    BY <2>1 DEF AccountRow, Role
  <2> QED
    BY <2>1, <2>2
<1>6. Write(r, a, x, "commit")
  BY <1>2, <1>5 DEF Promote
<1>7. ASSUME db' = db, pc'[r] = "commit", job'[r] = job[r], seen'[r] = seen[r],
             pend'[r][a] = x, Holds(r, a)',
             \A b \in Account \ {a} : pend'[r][b] = pend[r][b] /\ (Holds(r, b)' <=> Holds(r, b))
      PROVE  AccountWorking(r)' /\ AccountWritten(r)'
  <2>1. AccountWorking(r)'
    BY <1>1, <1>7 DEF AccountWorking, Running, AccountOpsAt
  <2>2. WrittenByTransfer(r, a)'
    BY <1>2, <1>5, <1>7 DEF WrittenByTransfer
  <2>3. ASSUME NEW b \in Account \ {a}, Holds(r, b)' PROVE WrittenByTransfer(r, b)'
    BY <1>4, <1>7, <2>3 DEF WrittenByTransfer
  <2>4. \A b \in Account : Holds(r, b)' => WrittenByTransfer(r, b)'
    BY <2>2, <2>3
  <2>5. Holds(r, job[r].account)' /\ pend'[r][job'[r].account].role = "Super Admin"
    BY <1>2, <1>5, <1>7 DEF Holds
  <2> QED
    BY <1>1, <1>7, <2>1, <2>4, <2>5 DEF AccountWritten
<1> QED
  BY <1>1, <1>6, <1>7, WriteTo DEF AccountLabel

LEMMA ReadForUpdateStep ==
    ASSUME AccountInv, NEW r \in Request, ReadForUpdate(r)
    PROVE  AccountInv'
<1>1. CASE Refused(r)
  BY <1>1, RejectStep
<1>2. CASE ~Refused(r)
  <2>1. pc[r] = "read" /\ job[r].op = "update"
    BY DEF ReadForUpdate, At
  <2>2. PICK x \in AccountRow :
          /\ x.live /\ (job[r].role # None => RoleMayBeSet(x.role, job[r].role))
          /\ Read(r, x, "reload") /\ UNCHANGED overtaken
    <3>1. View(r, job[r].account) \in AccountRow
      BY <2>1, AccountViewTypes, RequestTypes, AccountJobFields
    <3> QED
      BY <1>2, <3>1 DEF ReadForUpdate
  <2>3. UNCHANGED <<db, pend>> /\ AccountOnlyMoves(r) /\ pc'[r] = "reload" /\ job'[r] = job[r]
    BY <2>2, AccountGotoMoves DEF Read, Keep, AccountInv, Types, AccountTypeOK
  <2>4. seen'[r] = x
    BY <2>2 DEF Read, Keep, AccountInv, Types, AccountTypeOK
  <2>5. AccountWorking(r)'
    BY <2>1, <2>2, <2>3, <2>4 DEF AccountWorking, Running, AccountOpsAt
  <2> QED
    BY <2>1, <2>2, <2>3, <2>4, <2>5, ReadFirst, RequestTypes DEF AccountLabel, AccountSeen
<1> QED
  BY <1>1, <1>2

LEMMA ReloadStep ==
    ASSUME AccountInv, NEW r \in Request, Reload(r)
    PROVE  AccountInv'
<1>1. CASE Refused(r)
  BY <1>1, RejectStep
<1>2. CASE ~Refused(r)
  <2>1. PICK l \in {"commit", "flush"} :
          Continue(r, l) /\ UNCHANGED overtaken /\ pc[r] = "reload" /\ job[r].op = "update"
    BY <1>2 DEF Reload, At
  <2>2. AccountWorking(r) /\ AccountWritten(r) /\ \A a \in Account : ~Holds(r, a)
    BY <2>1, RequestTypes, HoldsNothing
  <2> QED
    BY <2>1, <2>2, ContinueStep DEF Continue, AccountWorking, AccountWritten, Running,
       AccountOpsAt, Holds, AccountLabel
<1> QED
  BY <1>1, <1>2

LEMMA FlushStep ==
    ASSUME AccountInv, NEW r \in Request, Flush(r)
    PROVE  AccountInv'
<1>1. pc[r] = "flush" /\ job[r].op = "update" /\ UNCHANGED overtaken
  BY DEF Flush, At
<1>2. \A b \in Account : ~Holds(r, b)
  BY <1>1, HoldsNothing
<1>3. PICK a \in Account : a = job[r].account
  BY <1>1, RequestTypes, AccountJobFields
<1>4. View(r, a) = db[a] /\ db[a] \in AccountRow
  BY <1>2, AccountViewTypes DEF View, Holds
<1> DEFINE x == [f \in DOMAIN db[a] |-> IF f \in Changed(r) THEN job[r][f] ELSE db[a][f]]
<1>5. Write(r, a, x, "commit")
  BY <1>3, <1>4 DEF Flush
<1>6. DOMAIN db[a] = {"role", "status", "live"}
  BY <1>4 DEF AccountRow
<1>7. /\ "role" \in Changed(r) => job[r]["role"] \in Role
      /\ "status" \in Changed(r) => job[r]["status"] \in Status
      /\ "live" \notin Changed(r)
  BY <1>1, RequestTypes, AccountJobFields DEF Changed, Status
<1>8. x.live = db[a].live /\ x.role = IF "role" \in Changed(r) THEN job[r].role ELSE db[a].role
  BY <1>6, <1>7
<1>9. x \in AccountRow
  <2>1. x = [role |-> x["role"], status |-> x["status"], live |-> x["live"]]
    BY <1>6
  <2>2. x["role"] \in Role /\ x["status"] \in Status /\ x["live"] \in BOOLEAN
    BY <1>4, <1>6, <1>7 DEF AccountRow
  <2> HIDE DEF x
  <2> QED
    BY <2>1, <2>2 DEF AccountRow
<1> HIDE DEF x
<1> QED
  BY <1>1, <1>3, <1>5, <1>8, <1>9, WriteOnce

LEMMA ReadForDeleteStep ==
    ASSUME AccountInv, NEW r \in Request, ReadForDelete(r)
    PROVE  AccountInv'
<1>1. CASE Refused(r)
  BY <1>1, RejectStep
<1>2. CASE ~Refused(r)
  <2>1. Continue(r, "remove") /\ UNCHANGED overtaken /\ pc[r] = "read" /\ job[r].op = "delete"
    BY <1>2 DEF ReadForDelete, At
  <2>2. AccountWorking(r) /\ AccountWritten(r) /\ \A a \in Account : ~Holds(r, a)
    BY <2>1, RequestTypes, HoldsNothing
  <2> QED
    BY <2>1, <2>2, ContinueStep DEF Continue, AccountWorking, AccountWritten, Running,
       AccountOpsAt, Holds, AccountLabel
<1> QED
  BY <1>1, <1>2

LEMMA RemoveStep ==
    ASSUME AccountInv, NEW r \in Request, Remove(r)
    PROVE  AccountInv'
<1>1. CASE Refused(r)
  BY <1>1, RejectStep
<1>2. CASE ~Refused(r)
  <2>1. pc[r] = "remove" /\ job[r].op = "delete" /\ UNCHANGED overtaken
    BY <1>2 DEF Remove, At
  <2>2. PICK a \in Account : a = job[r].account
    BY <2>1, RequestTypes, AccountJobFields
  <2>3. PICK x \in AccountRow : ~IsSuperAdmin(x) /\ Write(r, a, x, "commit")
    <3> DEFINE x == [View(r, a) EXCEPT !.live = FALSE, !.status = "DELETED"]
    <3>1. Write(r, a, x, "commit")
      BY <1>2, <2>2 DEF Remove
    <3>2. x \in AccountRow /\ ~x.live
      <4>1. View(r, a) \in AccountRow
        BY AccountViewTypes
      <4> QED
        BY <4>1 DEF AccountRow, Status
    <3> HIDE DEF x
    <3> QED
      BY <3>1, <3>2 DEF IsSuperAdmin
  <2> QED
    BY <2>1, <2>2, <2>3, WriteOnce
<1> QED
  BY <1>1, <1>2

LEMMA CheckNewStep ==
    ASSUME AccountInv, NEW r \in Request, CheckNew(r)
    PROVE  AccountInv'
<1>1. CASE Refused(r)
  BY <1>1, RejectStep
<1>2. CASE ~Refused(r)
  <2>1. /\ Continue(r, "insert") /\ UNCHANGED overtaken /\ pc[r] = "exists" /\ job[r].op = "create"
        /\ job[r].role # "Super Admin"
    BY <1>2 DEF CheckNew, At
  <2>2. AccountWorking(r) /\ AccountWritten(r) /\ \A a \in Account : ~Holds(r, a)
    BY <2>1, RequestTypes, HoldsNothing
  <2> QED
    BY <2>1, <2>2, ContinueStep DEF Continue, AccountWorking, AccountWritten, Running,
       AccountOpsAt, Holds, AccountLabel
<1> QED
  BY <1>1, <1>2

LEMMA InsertStep ==
    ASSUME AccountInv, NEW r \in Request, Insert(r)
    PROVE  AccountInv'
<1>1. CASE Refused(r)
  BY <1>1, RejectStep
<1>2. CASE ~Refused(r)
  <2>1. /\ pc[r] = "insert" /\ job[r].op = "create" /\ UNCHANGED overtaken /\ ~db[job[r].account].live
        /\ Write(r, job[r].account, [role |-> job[r].role, status |-> "ACTIVE", live |-> TRUE], "commit")
    BY <1>2 DEF Insert, At, Fresh
  <2>2. job[r].role # "Super Admin" /\ job[r].role \in Role
    BY <2>1, RequestTypes, AccountJobFields DEF AccountWorking
  <2>3. PICK x \in AccountRow : /\ x = [role |-> job[r].role, status |-> "ACTIVE", live |-> TRUE]
                                /\ x.role = job[r].role
    <3> DEFINE x == [role |-> job[r].role, status |-> "ACTIVE", live |-> TRUE]
    <3>1. x \in AccountRow /\ x.role = job[r].role
      BY <2>2 DEF AccountRow, Status
    <3> QED
      BY <3>1
  <2> QED
    BY <2>1, <2>2, <2>3, WriteOnce DEF IsSuperAdmin
<1> QED
  BY <1>1, <1>2

-----------------------------------------------------------------------------
(* The invariant, and what follows from it.                                *)

LEMMA InitInv == AccountInit => AccountInv
<1> SUFFICES ASSUME AccountInit PROVE AccountInv
  OBVIOUS
<1>1. /\ db = [a \in Account |-> [role |-> IF a = Founder THEN "Super Admin" ELSE "Admin",
                                  status |-> "ACTIVE", live |-> a \in Member \cup {Founder}]]
      /\ pend = [r \in Request |-> [a \in Account |-> None]]
      /\ pc = [r \in Request |-> "new"] /\ job = [r \in Request |-> NoJob]
      /\ seen = [r \in Request |-> None] /\ overtaken = FALSE
  BY DEF AccountInit, HandlersInit, NoWrites, Row
<1>2. \A a \in Account : db[a] \in AccountRow /\ (IsSuperAdmin(db[a]) <=> a = Founder)
  <2> TAKE a \in Account
  <2>1. PICK live \in BOOLEAN : live = (a \in Member \cup {Founder})
    <3>1. (a \in Member \cup {Founder}) \in BOOLEAN
      OBVIOUS
    <3> QED
      BY <3>1, Zenon
  <2>2. PICK role \in Role : role = IF a = Founder THEN "Super Admin" ELSE "Admin"
    BY DEF Role
  <2>3. db[a] = [role |-> role, status |-> "ACTIVE", live |-> live]
    BY <1>1, <2>1, <2>2
  <2>4. db[a].role = role /\ db[a].live = live /\ db[a] \in AccountRow
    BY <2>3 DEF AccountRow, Status
  <2> QED
    BY <2>1, <2>2, <2>4 DEF IsSuperAdmin
<1>3. Types
  BY <1>1, <1>2 DEF Types, AccountTypeOK, AccountLabel
<1>4. \A r \in Request : ~Running(r) /\ \A a \in Account : ~Holds(r, a)
  BY <1>1 DEF Running, Holds
<1>5. RowLocksExclusive /\ \A r \in Request : AccountWorking(r) /\ AccountWritten(r)
  BY <1>1, <1>4 DEF RowLocksExclusive, Row, AccountWorking, AccountWritten, NoJob
<1>6. OneUnlessOvertaken
  <2>1. Founder \in Account /\ SuperAdmins = {Founder}
    BY <1>2, AccountAssumption DEF SuperAdmins
  <2> QED
    BY <2>1 DEF OneUnlessOvertaken
<1> QED
  BY <1>3, <1>5, <1>6 DEF AccountInv

LEMMA StepInv == AccountInv /\ [AccountNext]_accountVars => AccountInv'
<1> SUFFICES ASSUME AccountInv, [AccountNext]_accountVars PROVE AccountInv'
  OBVIOUS
<1>1. CASE UNCHANGED accountVars
  <2>1. UNCHANGED <<db, pend, pc, job, seen, overtaken>>
    BY <1>1 DEF accountVars
  <2>2. Types' /\ RowLocksExclusive' /\ OneUnlessOvertaken'
    BY <2>1, QuietDb DEF AccountInv, Types, AccountTypeOK, RowLocksExclusive, Holds, Row
  <2>3. ASSUME NEW r \in Request PROVE AccountWorking(r)' /\ AccountWritten(r)'
    <3>1. AccountWorking(r)'
      BY <2>1 DEF AccountInv, AccountWorking, Running
    <3>2. Changed(r)' = Changed(r) /\ \A a \in Account : Holds(r, a)' <=> Holds(r, a)
      BY <2>1 DEF Changed, Holds
    <3>3. AccountWritten(r)'
      BY <2>1, <3>2 DEF AccountInv, AccountWritten, WrittenByTransfer, WrittenByUpdate,
         WrittenByOthers, IsSuperAdmin, Holds
    <3> QED
      BY <3>1, <3>3
  <2> QED
    BY <2>2, <2>3 DEF AccountInv
<1>2. ASSUME NEW r \in Request, Disconnected(r) PROVE AccountInv'
  BY <1>2, RejectStep DEF Disconnected
<1> QED
  BY <1>1, <1>2, BeginStep, CheckCallerStep, CheckTargetStep, LoadCallerStep, DemoteStep,
     LoadTargetStep, PromoteStep, ReadForUpdateStep, ReloadStep, FlushStep, ReadForDeleteStep,
     RemoveStep, CheckNewStep, InsertStep, AccountCommitStep DEF AccountNext

(* What every endpoint has written is locked and is what its guards        *)
(* allowed: only a transfer writes the role, to the account it names.      *)
THEOREM EndpointsWriteWhatTheyMay == AccountSpec => []AccountInv
BY InitInv, StepInv, PTL DEF AccountSpec

(* There is exactly one super admin as long as no request commits what it  *)
(* decided on a role that had changed meanwhile.                           *)
THEOREM OneSuperAdmin == AccountSpec => []OneSuperAdminUnlessOvertaken
<1>1. AccountInv => OneSuperAdminUnlessOvertaken
  BY FS_Singleton DEF AccountInv, OneUnlessOvertaken, OneSuperAdminUnlessOvertaken
<1> QED
  BY <1>1, EndpointsWriteWhatTheyMay, PTL

(* Only a commit changes an account.                                       *)
LEMMA DbByCommit ==
    ASSUME [AccountNext]_accountVars, db' # db
    PROVE  \E r \in Request : CommitAccounts(r)
<1>1. ~UNCHANGED accountVars
  BY DEF accountVars
<1>2. ASSUME NEW r \in Request,
             \/ BeginTransfer(r) \/ CheckCaller(r) \/ CheckTarget(r) \/ LoadCaller(r) \/ LoadTarget(r)
             \/ BeginUpdate(r) \/ ReadForUpdate(r) \/ Reload(r)
             \/ BeginDelete(r) \/ ReadForDelete(r) \/ BeginCreate(r) \/ CheckNew(r) \/ Disconnected(r)
      PROVE  FALSE
  BY <1>2 DEF BeginTransfer, CheckCaller, CheckTarget, LoadCaller, LoadTarget, BeginUpdate,
     ReadForUpdate, Reload, BeginDelete, ReadForDelete, BeginCreate, CheckNew, Disconnected,
     Begin, Read, Continue, Refused, Fail, DiscardWrites
<1>3. ASSUME NEW r \in Request, Demote(r) \/ Promote(r) \/ Flush(r) \/ Remove(r) \/ Insert(r)
      PROVE  FALSE
  BY <1>3 DEF Demote, Promote, Flush, Remove, Insert, Write, WriteRow, Refused, Fail, DiscardWrites
<1> QED
  BY <1>1, <1>2, <1>3 DEF AccountNext

(* An account gains the role only by the commit of a transfer called from  *)
(* the account that loses it, unless that transfer was overtaken.          *)
THEOREM TheRoleMoves == AccountSpec => RoleMovesByTransfer
<1> DEFINE Moves(a) == ~IsSuperAdmin(db[a]) /\ IsSuperAdmin(db'[a]) =>
             \E r \in Request :
               /\ At(r, "transfer", "commit") /\ job[r].account = a
               /\ UserOf[seen[r]] = job[r].caller
               /\ overtaken' \/ (IsSuperAdmin(db[seen[r]]) /\ ~IsSuperAdmin(db'[seen[r]]))
<1>1. ASSUME AccountInv, [AccountNext]_accountVars, NEW a \in Account, ~IsSuperAdmin(db[a]),
             IsSuperAdmin(db'[a])
      PROVE  \E r \in Request :
               /\ At(r, "transfer", "commit") /\ job[r].account = a
               /\ UserOf[seen[r]] = job[r].caller
               /\ overtaken' \/ (IsSuperAdmin(db[seen[r]]) /\ ~IsSuperAdmin(db'[seen[r]]))
  <2>1. PICK r \in Request : CommitAccounts(r)
    BY <1>1, DbByCommit
  <2>2. /\ pc[r] = "commit" /\ overtaken' = (overtaken \/ Overtaken(r))
        /\ \A b \in Account : db'[b] = View(r, b)
    BY <1>1, <2>1, RowIs DEF CommitAccounts, Finish, CommitWrites
  <2>3. job[r].op = "transfer"
    BY <1>1, <2>2, OthersKeepTheRole
  <2>4. /\ seen[r] \in Account /\ UserOf[seen[r]] = job[r].caller
        /\ \A b \in Account \ {seen[r], job[r].account} : View(r, b) = db[b]
        /\ Holds(r, seen[r]) => View(r, seen[r]).role = "Admin"
    BY <1>1, <2>2, <2>3, TransferWrites DEF At
  <2>5. job[r].account = a
    <3>1. a # seen[r]
      BY <1>1, <2>2, <2>4 DEF IsSuperAdmin, View, Holds
    <3> QED
      BY <1>1, <2>2, <2>4, <3>1
  <2>6. ~Overtaken(r) => IsSuperAdmin(db[seen[r]]) /\ ~IsSuperAdmin(db'[seen[r]])
    BY <2>2, <2>3, <2>4 DEF Overtaken, IsSuperAdmin
  <2> QED
    BY <2>2, <2>3, <2>4, <2>5, <2>6 DEF At
<1>2. AccountInv /\ [AccountNext]_accountVars => [\A a \in Account : Moves(a)]_accountVars
  BY <1>1
<1>3. AccountSpec => []AccountInv /\ [][AccountNext]_accountVars
  BY EndpointsWriteWhatTheyMay, PTL DEF AccountSpec
<1> QED
  BY <1>2, <1>3, PTL DEF RoleMovesByTransfer

-----------------------------------------------------------------------------
(* Passwords.                                                              *)

PasswordRows == PlatformUser \cup Request
Session == [user : PlatformUser, pwd_chg : BOOLEAN]

(* The endpoints whose handlers pass a statement.                          *)
PasswordOpsAt(label) ==
    CASE label \in {"credentials", "login"} -> {"login"}
      [] label = "verify" -> {"change"}
      [] label = "load" -> {"change", "complete", "password", "suspend"}
      [] label = "write" -> {"change", "complete", "password"}
      [] label = "status" -> {"change", "suspend"}
      [] label = "insert" -> {"request"}
      [] label \in {"validate", "mark"} -> {"complete"}
      [] label = "remove" -> {"delete"}
      [] OTHER -> {"change", "complete", "password", "suspend", "request", "delete"}

(* What a session that needs no change vouches for.                        *)
Settled(u) == u \in changed \cup overridden

PasswordTypes ==
    /\ PasswordTypeOK
    /\ pend \in [Request -> [PasswordRows -> CredentialRow \cup TokenRow \cup {None}]]
    /\ seen \in [Request -> Session \cup [was_new : BOOLEAN] \cup {None}]

(* A user leaves the status NEW with a change or by an administrator;      *)
(* tokens and sessions are those of requests that are over.                *)
PasswordCommitted ==
    /\ \A u \in PlatformUser : db[u].status # "NEW" => Settled(u)
    /\ \A t \in Request : db[t] # NoToken => pc[t] = "done"
    /\ \A n \in Request : session[n] # None => pc[n] = "done"
    /\ ChangeComesFirst

(* What a request works on.                                                *)
PasswordWorking(r) ==
    /\ Running(r) => job[r].op \in PasswordOpsAt(pc[r])
    /\ job[r].op = "change" => session[job[r].by] # None
    /\ job[r].op = "complete" => db[job[r].token] # NoToken
    /\ pc[r] = "login" => seen[r] \in Session /\ (~seen[r].pwd_chg => Settled(seen[r].user))
    /\ pc[r] \in {"load", "write"} /\ job[r].op = "change" => seen[r] \in [was_new : BOOLEAN]

(* The one user and the one token it may have written, and how.            *)
PasswordWritten(r) ==
    /\ \A u \in PlatformUser :
         Holds(r, u) =>
           /\ u = Subject(r)
           /\ job[r].op \in {"change", "complete", "password", "suspend", "delete"}
           /\ pc[r] \in {"status", "mark", "commit"}
           /\ pend[r][u].status # "NEW" => Settled(u) \/ job[r].op \in {"change", "suspend"}
    /\ \A t \in Request :
         Holds(r, t) =>
           /\ pc[r] = "commit"
           /\ \/ job[r].op = "request" /\ t = r
              \/ /\ job[r].op = "complete" /\ t = job[r].token
                 /\ ~db[t].used /\ pend[r][t].used /\ pend[r][t].user = db[t].user

(* What it has written for sure.                                           *)
Secured(r) ==
    /\ \/ job[r].op = "change" /\ pc[r] \in {"status", "commit"}
       \/ job[r].op = "complete" /\ pc[r] \in {"mark", "commit"}
       => Holds(r, Subject(r)) /\ pend[r][Subject(r)].password = job[r].new
    /\ job[r].op = "complete" /\ pc[r] = "commit" => Holds(r, job[r].token)

PasswordInv ==
    /\ PasswordTypes
    /\ PasswordCommitted
    /\ RowLocksExclusive
    /\ \A r \in Request : PasswordWorking(r) /\ PasswordWritten(r) /\ Secured(r)

PasswordSeen == Session \cup [was_new : BOOLEAN] \cup {None}

PasswordRowsTyped(r) ==
    /\ pend[r] \in [PasswordRows -> CredentialRow \cup TokenRow \cup {None}]
    /\ \A u \in PlatformUser : pend[r][u] \in CredentialRow \cup {None}
    /\ \A t \in Request : pend[r][t] \in TokenRow \cup {None}

(* All that the invariant says of one request.                             *)
PasswordMine(r) ==
    /\ pc[r] \in PasswordLabel /\ job[r] \in PasswordJob /\ seen[r] \in PasswordSeen
    /\ PasswordRowsTyped(r) /\ PasswordWorking(r) /\ PasswordWritten(r) /\ Secured(r)

(* Only r, which is not over, has moved; sessions are issued, changes made *)
(* and statuses overridden once and for all.                               *)
PasswordOnlyMoves(r) ==
    /\ pc[r] # "done"
    /\ pc' = [pc EXCEPT ![r] = pc'[r]]
    /\ job' = [job EXCEPT ![r] = job'[r]]
    /\ seen' = [seen EXCEPT ![r] = seen'[r]]
    /\ lapsed' \subseteq Request
    /\ changed \subseteq changed' /\ changed' \subseteq PlatformUser
    /\ overridden \subseteq overridden' /\ overridden' \subseteq PlatformUser
    /\ session' \in [Request -> Session \cup {None}]
    /\ \A n \in Request : session[n] # None => session'[n] = session[n]

-----------------------------------------------------------------------------
(* Rows.                                                                   *)

LEMMA PasswordRowFacts ==
    /\ \A u \in PlatformUser : u \in PasswordRows /\ u \notin Request
    /\ \A t \in Request : t \in PasswordRows /\ t \notin PlatformUser
    /\ None \notin CredentialRow /\ None \notin TokenRow /\ None # NoToken /\ NoToken \notin TokenRow
BY PasswordAssumption DEF PasswordRows, NoToken, TokenRow

LEMMA PasswordViewTypes ==
    ASSUME PasswordInv, NEW r \in Request
    PROVE  /\ \A u \in PlatformUser : View(r, u) \in CredentialRow
           /\ \A t \in Request : View(r, t) \in TokenRow \cup {NoToken}
BY DEF PasswordInv, PasswordTypes, PasswordTypeOK, View

LEMMA PasswordRowIs == PasswordInv => Row = PasswordRows
BY DEF PasswordInv, PasswordTypes, PasswordTypeOK, PasswordRows, Row

LEMMA PasswordNotHeldByOther ==
    ASSUME PasswordInv, NEW r \in Request, NEW s \in Request \ {r}, NEW k \in PasswordRows, Holds(r, k)
    PROVE  ~Holds(s, k)
BY PasswordRowIs DEF PasswordInv, RowLocksExclusive

LEMMA PasswordJobFields ==
    ASSUME NEW j \in PasswordJob
    PROVE  /\ j.op = "login" => j.user \in PlatformUser
           /\ j.op = "change" => j.by \in Request /\ j.new \in Secret
           /\ j.op = "request" => j.user \in PlatformUser
           /\ j.op = "complete" => j.token \in Request /\ j.new \in Secret
           /\ j.op \in {"password", "suspend"} => j.user \in PlatformUser
           /\ j.op = "delete" => j.user \in PlatformUser
BY DEF PasswordJob, NoJob, LoginJob, ChangeJob, RequestJob, CompleteJob, PutJob, RemoveJob

LEMMA SubjectType ==
    ASSUME PasswordInv, NEW r \in Request, Running(r)
    PROVE  Subject(r) \in PlatformUser
<1>1. job[r] \in PasswordJob /\ PasswordWorking(r) /\ pc[r] \in PasswordLabel
  BY DEF PasswordInv, PasswordTypes, PasswordTypeOK
<1>2. CASE job[r].op = "change"
  BY <1>1, <1>2, PasswordJobFields DEF PasswordWorking, Subject, PasswordInv, PasswordTypes, PasswordTypeOK
<1>3. CASE job[r].op = "complete"
  BY <1>1, <1>3, PasswordJobFields
     DEF PasswordWorking, Subject, PasswordInv, PasswordTypes, PasswordTypeOK, TokenRow
<1>4. job[r].op \in {"login", "change", "complete", "password", "suspend", "request", "delete"}
  BY <1>1 DEF PasswordWorking, PasswordOpsAt, Running, PasswordLabel
<1> QED
  BY <1>1, <1>2, <1>3, <1>4, PasswordJobFields DEF Subject

-----------------------------------------------------------------------------
(* The steps of others.                                                    *)

LEMMA PasswordOthersKeep ==
    ASSUME PasswordInv, NEW r \in Request, PasswordOnlyMoves(r), NEW s \in Request \ {r},
           pend'[s] = pend[s],
           \A t \in Request : db[t] # NoToken => db'[t] # NoToken /\ db'[t].user = db[t].user,
           \A k \in PasswordRows : Holds(s, k) => db'[k] = db[k]
    PROVE  PasswordMine(s)'
<1>1. pc[s] \in PasswordLabel /\ job[s] \in PasswordJob /\ seen[s] \in PasswordSeen /\ PasswordRowsTyped(s)
  BY DEF PasswordInv, PasswordTypes, PasswordTypeOK, PasswordSeen, PasswordRowsTyped
<1>2. PasswordWorking(s) /\ PasswordWritten(s) /\ Secured(s)
  BY DEF PasswordInv
<1>3. pc'[s] = pc[s] /\ job'[s] = job[s] /\ seen'[s] = seen[s]
  BY DEF PasswordOnlyMoves, PasswordInv, PasswordTypes, PasswordTypeOK
<1>4. \A k : Holds(s, k)' <=> Holds(s, k)
  BY DEF Holds
<1>5. job[s].op = "change" => session'[job[s].by] = session[job[s].by]
  BY <1>1, <1>2, PasswordJobFields DEF PasswordWorking, PasswordOnlyMoves
<1>6. job[s].op = "complete" => /\ db'[job[s].token] # NoToken
                                /\ db'[job[s].token].user = db[job[s].token].user
  BY <1>1, <1>2, PasswordJobFields DEF PasswordWorking
<1>7. Subject(s)' = Subject(s)
  BY <1>3, <1>5, <1>6 DEF Subject
<1>8. PasswordWorking(s)'
  <2>1. pc[s] = "login" /\ ~seen[s].pwd_chg => Settled(seen[s].user)'
    <3> SUFFICES ASSUME pc[s] = "login", ~seen[s].pwd_chg PROVE Settled(seen[s].user)'
      OBVIOUS
    <3>1. Settled(seen[s].user)
      BY <1>2 DEF PasswordWorking
    <3> QED
      BY <1>3, <3>1 DEF Settled, PasswordOnlyMoves
  <2> QED
    BY <1>2, <1>3, <1>5, <1>6, <2>1 DEF PasswordWorking, Running
<1>9. PasswordWritten(s)'
  <2>1. ASSUME NEW u \in PlatformUser, Holds(s, u)
        PROVE  /\ u = Subject(s)'
               /\ job[s].op \in {"change", "complete", "password", "suspend", "delete"}
               /\ pc[s] \in {"status", "mark", "commit"}
               /\ pend[s][u].status # "NEW" => Settled(u)' \/ job[s].op \in {"change", "suspend"}
    BY <1>2, <1>7, <2>1, PasswordRowFacts DEF PasswordWritten, PasswordOnlyMoves, Settled
  <2>2. ASSUME NEW t \in Request, Holds(s, t)
        PROVE  /\ pc[s] = "commit"
               /\ \/ job[s].op = "request" /\ t = s
                  \/ /\ job[s].op = "complete" /\ t = job[s].token
                     /\ ~db'[t].used /\ pend[s][t].used /\ pend[s][t].user = db'[t].user
    BY <1>2, <2>2, PasswordRowFacts DEF PasswordWritten
  <2> QED
    BY <1>3, <1>4, <2>1, <2>2 DEF PasswordWritten
<1>10. Secured(s)'
  BY <1>2, <1>3, <1>4, <1>7 DEF Secured
<1>11. PasswordRowsTyped(s)'
  BY <1>1 DEF PasswordRowsTyped
<1> QED
  BY <1>1, <1>3, <1>8, <1>9, <1>10, <1>11 DEF PasswordMine

-----------------------------------------------------------------------------
(* The steps of r.                                                         *)

LEMMA PasswordTogether ==
    ASSUME PasswordInv, NEW r \in Request, PasswordOnlyMoves(r), PasswordCommitted', RowLocksExclusive',
           db' \in [PasswordRows -> CredentialRow \cup TokenRow \cup {NoToken}],
           \A u \in PlatformUser : db'[u] \in CredentialRow,
           \A t \in Request : db'[t] \in TokenRow \cup {NoToken},
           pend' = [pend EXCEPT ![r] = pend'[r]],
           \A s \in Request : PasswordMine(s)'
    PROVE  PasswordInv'
<1>1. pend' \in [Request -> [PasswordRows -> CredentialRow \cup TokenRow \cup {None}]]
  BY DEF PasswordMine, PasswordRowsTyped, PasswordInv, PasswordTypes
<1>2. pc' \in [Request -> PasswordLabel] /\ job' \in [Request -> PasswordJob]
      /\ seen' \in [Request -> PasswordSeen]
  BY DEF PasswordMine, PasswordOnlyMoves, PasswordInv, PasswordTypes, PasswordTypeOK, PasswordSeen
<1>3. PasswordTypeOK'
  BY <1>2 DEF PasswordTypeOK, PasswordOnlyMoves, PasswordMine, PasswordRowsTyped, PasswordRows, Session
<1> QED
  BY <1>1, <1>2, <1>3 DEF PasswordInv, PasswordTypes, PasswordMine, PasswordSeen

(* Between commits nothing that is committed changes.                      *)
LEMMA QuietCommitted ==
    ASSUME PasswordInv, NEW r \in Request, PasswordOnlyMoves(r),
           UNCHANGED <<db, session, changed, overridden>>
    PROVE  PasswordCommitted'
<1>1. \A n \in Request : pc[n] = "done" => pc'[n] = "done"
  BY DEF PasswordOnlyMoves, PasswordInv, PasswordTypes, PasswordTypeOK
<1> QED
  BY <1>1 DEF PasswordInv, PasswordCommitted, Settled, ChangeComesFirst, Unrestricted, Issued

LEMMA PasswordReadStep ==
    ASSUME PasswordInv, NEW r \in Request, PasswordOnlyMoves(r),
           UNCHANGED <<db, pend, session, changed, overridden>>, PasswordMine(r)'
    PROVE  PasswordInv'
<1>1. \A s \in Request \ {r} : PasswordMine(s)'
  BY PasswordOthersKeep
<1>2. PasswordCommitted'
  BY QuietCommitted
<1>3. RowLocksExclusive'
  BY DEF PasswordInv, RowLocksExclusive, Holds, Row
<1>4. pend' = [pend EXCEPT ![r] = pend'[r]]
  BY DEF PasswordInv, PasswordTypes
<1>5. /\ db' \in [PasswordRows -> CredentialRow \cup TokenRow \cup {NoToken}]
      /\ \A u \in PlatformUser : db'[u] \in CredentialRow
      /\ \A t \in Request : db'[t] \in TokenRow \cup {NoToken}
  BY DEF PasswordInv, PasswordTypes, PasswordTypeOK, PasswordRows
<1> QED
  BY <1>1, <1>2, <1>3, <1>4, <1>5, PasswordTogether

LEMMA PasswordWriteStep ==
    ASSUME PasswordInv, NEW r \in Request, PasswordOnlyMoves(r), NEW k \in PasswordRows, NEW x,
           WriteRow(r, k, x), UNCHANGED <<session, changed, overridden>>, PasswordMine(r)'
    PROVE  PasswordInv'
<1>0. db' = db /\ pend' = [pend EXCEPT ![r][k] = x]
  BY DEF WriteRow
<1>1. \A s \in Request \ {r} : PasswordMine(s)'
  <2> TAKE s \in Request \ {r}
  <2>1. pend'[s] = pend[s]
    BY <1>0 DEF PasswordInv, PasswordTypes
  <2> QED
    BY <1>0, <2>1, PasswordOthersKeep
<1>2. PasswordCommitted'
  BY <1>0, QuietCommitted
<1>3. RowLocksExclusive'
  <2> SUFFICES ASSUME NEW p \in Request, NEW q \in Request, NEW j \in PasswordRows,
                      Holds(p, j)', Holds(q, j)'
               PROVE  p = q
    BY <1>0, PasswordRowIs DEF RowLocksExclusive, Row
  <2>1. \A s \in Request, i \in PasswordRows : s # r \/ i # k => (Holds(s, i)' <=> Holds(s, i))
    BY <1>0 DEF Holds, PasswordInv, PasswordTypes
  <2>2. \A s \in Request \ {r} : ~Holds(s, k)
    BY DEF WriteRow, HeldByOther
  <2> QED
    BY <2>1, <2>2, PasswordRowIs DEF RowLocksExclusive, PasswordInv
<1>4. pend' = [pend EXCEPT ![r] = pend'[r]]
  BY <1>0 DEF PasswordInv, PasswordTypes
<1>5. /\ db' \in [PasswordRows -> CredentialRow \cup TokenRow \cup {NoToken}]
      /\ \A u \in PlatformUser : db'[u] \in CredentialRow
      /\ \A t \in Request : db'[t] \in TokenRow \cup {NoToken}
  BY <1>0 DEF PasswordInv, PasswordTypes, PasswordTypeOK, PasswordRows
<1> QED
  BY <1>1, <1>2, <1>3, <1>4, <1>5, PasswordTogether

-----------------------------------------------------------------------------
(* The end of a request.                                                   *)

LEMMA PasswordEndedIsMine ==
    ASSUME PasswordInv, NEW r \in Request, NEW outcome \in {"done", "failed"}, End(r, outcome),
           pend' = [pend EXCEPT ![r] = NoWrites]
    PROVE  PasswordMine(r)' /\ \A k \in PasswordRows : ~Holds(r, k)'
<1>1. /\ pc'[r] = outcome /\ job'[r] = NoJob /\ seen'[r] = None
      /\ \A k \in PasswordRows : pend'[r][k] = None
  BY PasswordRowIs DEF PasswordInv, PasswordTypes, PasswordTypeOK, End, Goto, NoWrites
<1>2. PasswordRowsTyped(r)'
  BY <1>1, PasswordRowIs, PasswordRowFacts DEF PasswordInv, PasswordTypes, NoWrites, PasswordRowsTyped
<1>3. pc'[r] \in PasswordLabel /\ job'[r] \in PasswordJob /\ seen'[r] \in PasswordSeen
  BY <1>1 DEF PasswordLabel, PasswordJob, PasswordSeen
<1>4. PasswordWorking(r)' /\ Secured(r)'
  BY <1>1 DEF PasswordWorking, Secured, Running, NoJob
<1>5. PasswordWritten(r)'
  BY <1>1, PasswordRowFacts DEF PasswordWritten, Holds
<1> QED
  BY <1>1, <1>2, <1>3, <1>4, <1>5 DEF PasswordMine, Holds

LEMMA PasswordRejectedStep ==
    ASSUME PasswordInv, NEW r \in Request, pc[r] # "done", TurnedDown(r)
    PROVE  PasswordInv'
<1>1. /\ db' = db /\ pend' = [pend EXCEPT ![r] = NoWrites] /\ End(r, "failed")
      /\ UNCHANGED <<lapsed, session, changed, overridden>>
  BY DEF TurnedDown, Fail, DiscardWrites, around
<1>2. PasswordOnlyMoves(r)
  BY <1>1 DEF PasswordOnlyMoves, End, Goto, PasswordInv, PasswordTypes, PasswordTypeOK, Session
<1>3. \A s \in Request \ {r} : pend'[s] = pend[s]
  BY <1>1 DEF PasswordInv, PasswordTypes
<1>4. \A s \in Request \ {r} : PasswordMine(s)'
  BY <1>1, <1>2, <1>3, PasswordOthersKeep
<1>5. PasswordMine(r)' /\ \A k \in PasswordRows : ~Holds(r, k)'
  BY <1>1, PasswordEndedIsMine
<1>6. PasswordCommitted'
  BY <1>1, <1>2, QuietCommitted
<1>7. RowLocksExclusive'
  BY <1>1, <1>3, <1>5, PasswordRowIs DEF PasswordInv, RowLocksExclusive, Holds, Row
<1>8. pend' = [pend EXCEPT ![r] = pend'[r]]
  BY <1>1 DEF PasswordInv, PasswordTypes
<1>9. /\ db' \in [PasswordRows -> CredentialRow \cup TokenRow \cup {NoToken}]
      /\ \A u \in PlatformUser : db'[u] \in CredentialRow
      /\ \A t \in Request : db'[t] \in TokenRow \cup {NoToken}
  BY <1>1 DEF PasswordInv, PasswordTypes, PasswordTypeOK, PasswordRows
<1> QED
  BY <1>2, <1>4, <1>5, <1>6, <1>7, <1>8, <1>9, PasswordTogether

(* What r sees is what will be committed: a user past NEW only where it is *)
(* settled or r settles it, tokens only of requests that are over or of r. *)
LEMMA ViewClaims ==
    ASSUME PasswordInv, NEW r \in Request, Running(r)
    PROVE  /\ \A u \in PlatformUser :
                View(r, u).status # "NEW" =>
                  Settled(u) \/ (job[r].op \in {"change", "suspend"} /\ u = Subject(r))
           /\ \A t \in Request :
                /\ View(r, t) # NoToken => t = r \/ pc[t] = "done"
                /\ db[t] # NoToken => View(r, t) # NoToken /\ View(r, t).user = db[t].user
<1>1. PasswordWritten(r) /\ PasswordWorking(r) /\ PasswordCommitted
  BY DEF PasswordInv
<1>2. ASSUME NEW u \in PlatformUser
      PROVE  View(r, u).status # "NEW" =>
               Settled(u) \/ (job[r].op \in {"change", "suspend"} /\ u = Subject(r))
  <2>1. CASE Holds(r, u)
    <3>1. View(r, u) = pend[r][u]
      BY <2>1 DEF View, Holds
    <3> QED
      BY <1>1, <2>1, <3>1 DEF PasswordWritten
  <2>2. CASE ~Holds(r, u)
    <3>1. View(r, u) = db[u]
      BY <2>2 DEF View, Holds
    <3> QED
      BY <1>1, <3>1 DEF PasswordCommitted
  <2> QED
    BY <2>1, <2>2
<1>3. ASSUME NEW t \in Request
      PROVE  /\ View(r, t) # NoToken => t = r \/ pc[t] = "done"
             /\ db[t] # NoToken => View(r, t) # NoToken /\ View(r, t).user = db[t].user
  <2>1. CASE Holds(r, t)
    <3>1. View(r, t) = pend[r][t] /\ pend[r][t] \in TokenRow
      BY <2>1 DEF View, Holds, PasswordInv, PasswordTypes, PasswordTypeOK
    <3>2. job[r].op = "complete" => db[job[r].token] # NoToken
      BY <1>1 DEF PasswordWorking
    <3>3. db[r] = NoToken
      BY <1>1 DEF PasswordCommitted, Running
    <3> QED
      BY <1>1, <2>1, <3>1, <3>2, <3>3, PasswordRowFacts DEF PasswordWritten, PasswordCommitted
  <2>2. CASE ~Holds(r, t)
    <3>1. View(r, t) = db[t]
      BY <2>2 DEF View, Holds
    <3> QED
      BY <1>1, <3>1 DEF PasswordCommitted
  <2> QED
    BY <2>1, <2>2
<1> QED
  BY <1>2, <1>3

LEMMA FinishStep ==
    ASSUME PasswordInv, NEW r \in Request, Running(r), Finish(r), lapsed' = lapsed,
           changed' = changed \cup (IF job[r].op = "change" THEN {Subject(r)} ELSE {}),
           overridden' = overridden \cup (IF job[r].op = "suspend" THEN {job[r].user} ELSE {}),
           NEW x \in Session, ~x.pwd_chg => Settled(x.user)',
           session' = session \/ session' = [session EXCEPT ![r] = x]
    PROVE  PasswordInv'
<1>1. /\ db' = [k \in Row |-> View(r, k)] /\ pend' = [pend EXCEPT ![r] = NoWrites]
      /\ End(r, "done")
  BY DEF Finish, CommitWrites
<1>2. \A k \in PasswordRows : db'[k] = View(r, k)
  BY <1>1, PasswordRowIs
<1>3. PasswordCommitted /\ PasswordWorking(r) /\ job[r] \in PasswordJob
  BY DEF PasswordInv, PasswordTypes, PasswordTypeOK
<1>4. PasswordOnlyMoves(r)
  <2>1. session[r] = None
    BY <1>3 DEF PasswordCommitted, Running
  <2>2. job[r].op = "suspend" => job[r].user \in PlatformUser
    BY <1>3, PasswordJobFields
  <2>3. changed' \subseteq PlatformUser /\ overridden' \subseteq PlatformUser
    BY <2>2, SubjectType DEF PasswordInv, PasswordTypes, PasswordTypeOK
  <2>4. session' \in [Request -> Session \cup {None}]
    BY DEF PasswordInv, PasswordTypes, PasswordTypeOK, Session
  <2>5. /\ pc' = [pc EXCEPT ![r] = pc'[r]] /\ job' = [job EXCEPT ![r] = job'[r]]
        /\ seen' = [seen EXCEPT ![r] = seen'[r]] /\ lapsed' \subseteq Request
    BY <1>1 DEF End, Goto, PasswordInv, PasswordTypes, PasswordTypeOK
  <2>6. \A n \in Request : session[n] # None => session'[n] = session[n]
    BY <2>1 DEF PasswordInv, PasswordTypes, PasswordTypeOK
  <2> QED
    BY <2>3, <2>4, <2>5, <2>6 DEF PasswordOnlyMoves, Running
<1>5. \A t \in Request : db[t] # NoToken => db'[t] # NoToken /\ db'[t].user = db[t].user
  BY <1>2, ViewClaims, PasswordRowFacts
<1>6. \A s \in Request \ {r} : pend'[s] = pend[s]
  BY <1>1 DEF PasswordInv, PasswordTypes
<1>7. \A s \in Request \ {r} : PasswordMine(s)'
  <2> TAKE s \in Request \ {r}
  <2>1. \A k \in PasswordRows : Holds(s, k) => db'[k] = db[k]
    BY <1>2, PasswordNotHeldByOther DEF View, Holds
  <2> QED
    BY <1>4, <1>5, <1>6, <2>1, PasswordOthersKeep
<1>8. PasswordMine(r)' /\ \A k \in PasswordRows : ~Holds(r, k)'
  BY <1>1, PasswordEndedIsMine
<1>9. pc'[r] = "done" /\ \A n \in Request : pc[n] = "done" => pc'[n] = "done"
  BY <1>1 DEF End, Goto, PasswordInv, PasswordTypes, PasswordTypeOK
<1>10. PasswordCommitted'
  <2>1. ASSUME NEW u \in PlatformUser, db'[u].status # "NEW" PROVE Settled(u)'
    <3>1. Settled(u) \/ (job[r].op \in {"change", "suspend"} /\ u = Subject(r))
      BY <1>2, <2>1, ViewClaims, PasswordRowFacts
    <3>2. job[r].op = "suspend" => Subject(r) = job[r].user
      BY DEF Subject
    <3> QED
      BY <3>1, <3>2 DEF Settled
  <2>2. ASSUME NEW t \in Request, db'[t] # NoToken PROVE pc'[t] = "done"
    BY <1>2, <1>9, <2>2, ViewClaims, PasswordRowFacts
  <2>3. ASSUME NEW n \in Request, session'[n] # None PROVE pc'[n] = "done"
    BY <1>3, <1>9, <2>3 DEF PasswordCommitted, PasswordInv, PasswordTypes, PasswordTypeOK
  <2>4. ASSUME NEW n \in Request, session'[n] # None, ~session'[n].pwd_chg
        PROVE  session'[n].user \in changed' \cup overridden'
    <3>1. CASE session'[n] = x
      BY <2>4, <3>1 DEF Settled
    <3>2. CASE session'[n] # x
      <4>1. session'[n] = session[n]
        BY <2>4, <3>2 DEF PasswordInv, PasswordTypes, PasswordTypeOK
      <4>2. Settled(session[n].user)
        BY <1>3, <2>4, <4>1 DEF PasswordCommitted, ChangeComesFirst, Unrestricted, Issued, Settled
      <4> QED
        BY <4>1, <4>2 DEF Settled
    <3> QED
      BY <3>1, <3>2
  <2>5. ChangeComesFirst'
    BY <2>4 DEF ChangeComesFirst, Unrestricted, Issued, Settled
  <2> QED
    BY <2>1, <2>2, <2>3, <2>5 DEF PasswordCommitted
<1>11. RowLocksExclusive'
  <2>1. Row' = PasswordRows
    BY <1>1, PasswordRowIs DEF Row
  <2> QED
    BY <1>6, <1>8, <2>1, PasswordRowIs DEF PasswordInv, RowLocksExclusive, Holds
<1>12. pend' = [pend EXCEPT ![r] = pend'[r]]
  BY <1>1 DEF PasswordInv, PasswordTypes
<1>13. /\ db' \in [PasswordRows -> CredentialRow \cup TokenRow \cup {NoToken}]
       /\ \A u \in PlatformUser : db'[u] \in CredentialRow
       /\ \A t \in Request : db'[t] \in TokenRow \cup {NoToken}
  <2>1. \A k \in PasswordRows : View(r, k) \in CredentialRow \cup TokenRow \cup {NoToken}
    BY PasswordViewTypes DEF PasswordRows
  <2> QED
    BY <1>1, <1>2, <2>1, PasswordRowIs, PasswordRowFacts, PasswordViewTypes
<1> QED
  BY <1>4, <1>7, <1>8, <1>10, <1>11, <1>12, <1>13, PasswordTogether

-----------------------------------------------------------------------------
(* Statements.                                                             *)

LEMMA PasswordGotoMoves ==
    ASSUME PasswordInv, NEW r \in Request, pc[r] # "done", NEW label, Goto(r, label),
           job' = job, seen' = seen \/ seen' = [seen EXCEPT ![r] = seen'[r]],
           UNCHANGED around
    PROVE  /\ PasswordOnlyMoves(r) /\ pc'[r] = label /\ job'[r] = job[r]
           /\ db' = db => Subject(r)' = Subject(r)
<1>1. lapsed' = lapsed /\ session' = session /\ changed' = changed /\ overridden' = overridden
  BY DEF around
<1>2. PasswordOnlyMoves(r) /\ pc'[r] = label /\ job'[r] = job[r]
  BY <1>1 DEF PasswordOnlyMoves, Goto, PasswordInv, PasswordTypes, PasswordTypeOK, Session
<1> QED
  BY <1>1, <1>2 DEF Subject

(* Before its first write a request holds nothing.                         *)
LEMMA PasswordHoldsNothing ==
    ASSUME PasswordInv, NEW r \in Request, pc[r] \notin {"status", "mark", "commit"}
    PROVE  \A k \in PasswordRows : ~Holds(r, k)
BY DEF PasswordInv, PasswordWritten, PasswordRows

LEMMA PasswordReadFirst ==
    ASSUME PasswordInv, NEW r \in Request, pc[r] \notin {"status", "mark", "commit"},
           UNCHANGED <<db, pend, session, changed, overridden>>, PasswordOnlyMoves(r),
           pc'[r] \in PasswordLabel, job'[r] \in PasswordJob, seen'[r] \in PasswordSeen, PasswordWorking(r)',
           pc'[r] \in {"status", "mark", "commit"} => job'[r].op \notin {"change", "complete"}
    PROVE  PasswordInv'
<1>1. \A k \in PasswordRows : ~Holds(r, k)'
  BY PasswordHoldsNothing DEF Holds
<1>2. PasswordWritten(r)' /\ Secured(r)'
  BY <1>1, PasswordRowFacts DEF PasswordWritten, Secured
<1>3. PasswordRowsTyped(r)'
  BY DEF PasswordRowsTyped, PasswordInv, PasswordTypes, PasswordTypeOK
<1>4. PasswordMine(r)'
  BY <1>2, <1>3 DEF PasswordMine
<1> QED
  BY <1>4, PasswordReadStep

LEMMA PasswordArriveStep ==
    ASSUME PasswordInv, NEW r \in Request, CallPasswords(r)
    PROVE  PasswordInv'
<1>1. PICK j \in PasswordJob, l \in {"credentials", "verify", "insert", "validate", "load", "remove"} :
        /\ job' = [job EXCEPT ![r] = j] /\ Goto(r, l)
        /\ j.op \in PasswordOpsAt(l)
        /\ l = "load" => j.op # "change"
        /\ j.op = "change" => session[j.by] # None
        /\ j.op = "complete" => db[j.token] # NoToken
  <2>1. ASSUME NEW l, NEW Jobs, Begin(r, Jobs, l)
        PROVE  \E j \in Jobs : job' = [job EXCEPT ![r] = j] /\ Goto(r, l)
    BY <2>1 DEF Begin
  <2>2. \A j \in LoginJob : j \in PasswordJob /\ j.op = "login"
    BY DEF LoginJob, PasswordJob
  <2>3. \A j \in ChangeJob : j \in PasswordJob /\ j.op = "change"
    BY DEF ChangeJob, PasswordJob
  <2>4. \A j \in RequestJob : j \in PasswordJob /\ j.op = "request"
    BY DEF RequestJob, PasswordJob
  <2>5. \A j \in CompleteJob : j \in PasswordJob /\ j.op = "complete"
    BY DEF CompleteJob, PasswordJob
  <2>6. \A j \in PutJob : j \in PasswordJob /\ j.op \in {"password", "suspend"}
    BY DEF PutJob, PasswordJob
  <2>7. \A j \in RemoveJob : j \in PasswordJob /\ j.op = "delete"
    BY DEF RemoveJob, PasswordJob
  <2>8. CASE Begin(r, Offered(LoginJob), "credentials")
    BY <2>1, <2>2, <2>8 DEF Offered, PasswordOpsAt
  <2>9. CASE Begin(r, {j \in Offered(ChangeJob) : Issued(j.by)}, "verify")
    BY <2>1, <2>3, <2>9 DEF Offered, PasswordOpsAt, Issued
  <2>10. CASE Begin(r, Offered(RequestJob), "insert")
    BY <2>1, <2>4, <2>10 DEF Offered, PasswordOpsAt
  <2>11. CASE Begin(r, {j \in Offered(CompleteJob) : db[j.token] # NoToken}, "validate")
    BY <2>1, <2>5, <2>11 DEF Offered, PasswordOpsAt
  <2>12. CASE Begin(r, Offered(PutJob), "load")
    BY <2>1, <2>6, <2>12 DEF Offered, PasswordOpsAt
  <2>13. CASE Begin(r, Offered(RemoveJob), "remove")
    BY <2>1, <2>7, <2>13 DEF Offered, PasswordOpsAt
  <2> QED
    BY <2>8, <2>9, <2>10, <2>11, <2>12, <2>13 DEF CallPasswords
<1>2. pc[r] = "new" /\ UNCHANGED <<db, pend, seen, lapsed, session, changed, overridden>>
  BY DEF CallPasswords, Begin, around
<1>3. pc'[r] = l /\ job'[r] = j /\ seen'[r] \in PasswordSeen
  BY <1>1, <1>2 DEF Goto, PasswordInv, PasswordTypes, PasswordTypeOK, PasswordSeen
<1>4. PasswordOnlyMoves(r)
  BY <1>1, <1>2, <1>3 DEF PasswordOnlyMoves, Goto, PasswordInv, PasswordTypes, PasswordTypeOK, Session
<1>5. PasswordWorking(r)'
  BY <1>1, <1>2, <1>3 DEF PasswordWorking
<1>6. l \in PasswordLabel
  BY DEF PasswordLabel
<1> QED
  BY <1>2, <1>3, <1>4, <1>5, <1>6, PasswordReadFirst

LEMMA PasswordElapseStep ==
    ASSUME PasswordInv, NEW t \in Request, Lapse(t)
    PROVE  PasswordInv'
<1>1. UNCHANGED <<db, pend, pc, job, seen, session, changed, overridden>> /\ lapsed' \subseteq Request
  BY DEF Lapse, PasswordInv, PasswordTypes, PasswordTypeOK
<1>2. PasswordTypes'
  BY <1>1 DEF PasswordInv, PasswordTypes, PasswordTypeOK
<1>3. PasswordCommitted' /\ RowLocksExclusive'
  BY <1>1 DEF PasswordInv, PasswordCommitted, Settled, ChangeComesFirst, Unrestricted, Issued,
     RowLocksExclusive, Row, Holds
<1>4. ASSUME NEW r \in Request PROVE PasswordWorking(r)' /\ PasswordWritten(r)' /\ Secured(r)'
  <2>1. PasswordWorking(r) /\ PasswordWritten(r) /\ Secured(r)
    BY DEF PasswordInv
  <2>2. Subject(r)' = Subject(r)
    BY <1>1 DEF Subject
  <2> QED
    BY <1>1, <2>1, <2>2 DEF PasswordWorking, Running, Settled, PasswordWritten, Secured, Holds
<1> QED
  BY <1>2, <1>3, <1>4 DEF PasswordInv

LEMMA AuthenticateStep ==
    ASSUME PasswordInv, NEW r \in Request, Authenticate(r)
    PROVE  PasswordInv'
<1>0. pc[r] = "credentials"
  BY DEF Authenticate
<1>1. CASE TurnedDown(r)
  BY <1>0, <1>1, PasswordRejectedStep
<1>2. CASE ~TurnedDown(r)
  <2> DEFINE x == [user |-> Subject(r), pwd_chg |-> ChangeRequired(r)]
  <2>1. Read(r, x, "login") /\ UNCHANGED around
    BY <1>2 DEF Authenticate
  <2>2. /\ UNCHANGED <<db, pend, job, session, changed, overridden>>
        /\ Goto(r, "login") /\ seen' = [seen EXCEPT ![r] = x]
    BY <2>1 DEF Read, Keep, around
  <2>3. PICK u \in PlatformUser : u = Subject(r)
    BY <1>0, SubjectType DEF Running
  <2>4. job[r] \in PasswordJob /\ PasswordWorking(r) /\ job[r].op = "login"
    BY <1>0 DEF PasswordInv, PasswordTypes, PasswordTypeOK, PasswordWorking, Running, PasswordOpsAt
  <2>5. ChangeRequired(r) \in BOOLEAN
    BY DEF ChangeRequired
  <2>6. x \in Session /\ x.user = u /\ (~x.pwd_chg => View(r, u).status # "NEW")
    BY <2>3, <2>5 DEF Session, ChangeRequired
  <2>7. ~x.pwd_chg => Settled(u)
    <3>1. View(r, u) = db[u]
      BY <1>0, PasswordHoldsNothing, PasswordRowFacts DEF View, Holds
    <3> QED
      BY <2>6, <3>1 DEF PasswordInv, PasswordCommitted
  <2> HIDE DEF x
  <2>8. seen'[r] = x /\ seen' = [seen EXCEPT ![r] = seen'[r]]
    BY <2>2 DEF PasswordInv, PasswordTypes
  <2>9. PasswordOnlyMoves(r) /\ pc'[r] = "login" /\ job'[r] = job[r]
    BY <1>0, <2>1, <2>2, <2>8, PasswordGotoMoves
  <2>10. PasswordWorking(r)'
    BY <2>2, <2>4, <2>6, <2>7, <2>8, <2>9 DEF PasswordWorking, PasswordOpsAt, Settled
  <2>11. seen'[r] \in PasswordSeen /\ "login" \in PasswordLabel
    BY <2>6, <2>8 DEF PasswordSeen, PasswordLabel
  <2> QED
    BY <1>0, <2>2, <2>4, <2>9, <2>10, <2>11, PasswordReadFirst
<1> QED
  BY <1>1, <1>2

LEMMA IssueTokenStep ==
    ASSUME PasswordInv, NEW r \in Request, IssueToken(r)
    PROVE  PasswordInv'
<1>1. /\ pc[r] = "login" /\ Finish(r)
      /\ lapsed' = lapsed /\ changed' = changed /\ overridden' = overridden
      /\ session' = [session EXCEPT ![r] = seen[r]]
  BY DEF IssueToken
<1>2. /\ job[r].op = "login" /\ seen[r] \in Session
      /\ ~seen[r].pwd_chg => Settled(seen[r].user)
  BY <1>1 DEF PasswordInv, PasswordWorking, Running, PasswordOpsAt
<1>3. PICK x \in Session : x = seen[r]
  BY <1>2
<1>4. ~x.pwd_chg => Settled(x.user)'
  BY <1>1, <1>2, <1>3 DEF Settled
<1> QED
  BY <1>1, <1>2, <1>3, <1>4, FinishStep DEF Running

LEMMA VerifyCurrentStep ==
    ASSUME PasswordInv, NEW r \in Request, VerifyCurrent(r)
    PROVE  PasswordInv'
<1>0. pc[r] = "verify"
  BY DEF VerifyCurrent
<1>1. CASE TurnedDown(r)
  BY <1>0, <1>1, PasswordRejectedStep
<1>2. CASE ~TurnedDown(r)
  <2> DEFINE x == [was_new |-> View(r, Subject(r)).status = "NEW"]
  <2>1. Read(r, x, "load") /\ UNCHANGED around
    BY <1>2 DEF VerifyCurrent
  <2>2. /\ UNCHANGED <<db, pend, job, session, changed, overridden>>
        /\ Goto(r, "load") /\ seen' = [seen EXCEPT ![r] = x]
    BY <2>1 DEF Read, Keep, around
  <2>3. job[r] \in PasswordJob /\ PasswordWorking(r) /\ job[r].op = "change"
    BY <1>0 DEF PasswordInv, PasswordTypes, PasswordTypeOK, PasswordWorking, Running, PasswordOpsAt
  <2>4. x \in [was_new : BOOLEAN]
    OBVIOUS
  <2> HIDE DEF x
  <2>5. seen'[r] = x /\ seen' = [seen EXCEPT ![r] = seen'[r]]
    BY <2>2 DEF PasswordInv, PasswordTypes
  <2>6. PasswordOnlyMoves(r) /\ pc'[r] = "load" /\ job'[r] = job[r]
    BY <1>0, <2>1, <2>2, <2>5, PasswordGotoMoves
  <2>7. PasswordWorking(r)'
    BY <2>2, <2>3, <2>4, <2>5, <2>6 DEF PasswordWorking, PasswordOpsAt
  <2>8. seen'[r] \in PasswordSeen /\ "load" \in PasswordLabel
    BY <2>4, <2>5 DEF PasswordSeen, PasswordLabel
  <2> QED
    BY <1>0, <2>2, <2>3, <2>6, <2>7, <2>8, PasswordReadFirst
<1> QED
  BY <1>1, <1>2

(* A statement that reads on, or finds nothing to write.                   *)
LEMMA PasswordContinueStep ==
    ASSUME PasswordInv, NEW r \in Request, pc[r] \notin {"status", "mark", "commit", "done"},
           Running(r), NEW label \in PasswordLabel, Continue(r, label), UNCHANGED around,
           job[r].op \in PasswordOpsAt(label), label # "login",
           label \in {"load", "write"} => pc[r] \in {"load", "write"} \/ job[r].op = "complete",
           label \in {"status", "mark", "commit"} => job[r].op \notin {"change", "complete"}
    PROVE  PasswordInv'
<1>1. UNCHANGED <<db, pend, job, seen, session, changed, overridden>> /\ Goto(r, label)
  BY DEF Continue, around
<1>2. PasswordOnlyMoves(r) /\ pc'[r] = label /\ job'[r] = job[r]
  BY <1>1, PasswordGotoMoves
<1>3. job[r] \in PasswordJob /\ seen[r] \in PasswordSeen /\ PasswordWorking(r)
  BY DEF PasswordInv, PasswordTypes, PasswordTypeOK, PasswordSeen
<1>4. PasswordWorking(r)'
  BY <1>1, <1>2, <1>3 DEF PasswordWorking
<1> QED
  BY <1>1, <1>2, <1>3, <1>4, PasswordReadFirst

LEMMA LoadUserStep ==
    ASSUME PasswordInv, NEW r \in Request, LoadUser(r)
    PROVE  PasswordInv'
<1>0. pc[r] = "load" /\ job[r].op \in {"change", "complete", "password", "suspend"}
  BY DEF LoadUser, PasswordInv, PasswordWorking, Running, PasswordOpsAt
<1>1. CASE TurnedDown(r)
  BY <1>0, <1>1, PasswordRejectedStep
<1>2. CASE ~TurnedDown(r)
  <2> DEFINE label == AfterLoad(r)
  <2>1. Continue(r, label) /\ UNCHANGED around
    BY <1>2 DEF LoadUser
  <2>2. /\ label \in {"write", "commit", "status"} /\ job[r].op \in PasswordOpsAt(label)
        /\ label \in {"commit", "status"} => job[r].op = "suspend"
    BY <1>0 DEF AfterLoad, PasswordOpsAt
  <2> HIDE DEF label
  <2>3. label \in PasswordLabel
    BY <2>2 DEF PasswordLabel
  <2> QED
    BY <1>0, <2>1, <2>2, <2>3, PasswordContinueStep DEF Running
<1> QED
  BY <1>1, <1>2

LEMMA PasswordValidateStep ==
    ASSUME PasswordInv, NEW r \in Request, ValidateToken(r)
    PROVE  PasswordInv'
<1>0. pc[r] = "validate" /\ job[r].op = "complete"
  BY DEF ValidateToken, PasswordInv, PasswordWorking, Running, PasswordOpsAt
<1>1. CASE TurnedDown(r)
  BY <1>0, <1>1, PasswordRejectedStep
<1>2. CASE ~TurnedDown(r)
  <2>1. Continue(r, "load") /\ UNCHANGED around
    BY <1>2 DEF ValidateToken
  <2>2. "load" \in PasswordLabel /\ job[r].op \in PasswordOpsAt("load")
    BY <1>0 DEF PasswordOpsAt, PasswordLabel
  <2> QED
    BY <1>0, <2>1, <2>2, PasswordContinueStep DEF Running
<1> QED
  BY <1>1, <1>2

(* A statement that writes the row of the user it is about.                *)
LEMMA PasswordUserWritten ==
    ASSUME PasswordInv, NEW r \in Request, Running(r), NEW u \in PlatformUser, u = Subject(r),
           NEW x \in CredentialRow, NEW label \in {"status", "mark", "commit"}, Write(r, u, x, label),
           UNCHANGED around, pc[r] \notin {"mark", "commit"},
           job[r].op \in PasswordOpsAt(label), job[r].op # "request",
           job[r].op \in {"change", "complete"} => x.password = job[r].new,
           job[r].op = "complete" => label = "mark",
           x.status # "NEW" => Settled(u) \/ job[r].op \in {"change", "suspend"}
    PROVE  PasswordInv'
<1>1. /\ db' = db /\ pend' = [pend EXCEPT ![r][u] = x]
      /\ UNCHANGED <<job, seen, session, changed, overridden>>
      /\ WriteRow(r, u, x) /\ Goto(r, label)
  BY DEF Write, WriteRow, around
<1>2. job[r] \in PasswordJob /\ seen[r] \in PasswordSeen /\ PasswordWorking(r) /\ PasswordWritten(r)
  BY DEF PasswordInv, PasswordTypes, PasswordTypeOK, PasswordSeen
<1>3. PasswordOnlyMoves(r) /\ pc'[r] = label /\ job'[r] = job[r] /\ Subject(r)' = u
  BY <1>1, PasswordGotoMoves DEF Running
<1>4. u \in PasswordRows /\ x # None
  BY PasswordRowFacts
<1>5. /\ pend'[r] \in [PasswordRows -> CredentialRow \cup TokenRow \cup {None}]
      /\ pend'[r][u] = x /\ \A k \in PasswordRows \ {u} : pend'[r][k] = pend[r][k]
  BY <1>1, <1>4 DEF PasswordInv, PasswordTypes
<1>6. PasswordRowsTyped(r)'
  BY <1>5, PasswordRowFacts DEF PasswordRowsTyped, PasswordInv, PasswordTypes, PasswordTypeOK
<1>7. PasswordWorking(r)'
  BY <1>1, <1>2, <1>3 DEF PasswordWorking
<1>8. PasswordWritten(r)'
  <2>1. ASSUME NEW v \in PlatformUser, pend'[r][v] # None PROVE v = u
    BY <1>2, <1>5, <2>1, PasswordRowFacts DEF PasswordWritten, Holds
  <2>2. ASSUME NEW t \in Request PROVE pend'[r][t] = None
    BY <1>2, <1>5, PasswordRowFacts DEF PasswordWritten, Holds
  <2>3. job[r].op \in {"change", "complete", "password", "suspend", "delete"}
    BY DEF PasswordOpsAt
  <2> QED
    BY <1>1, <1>3, <1>5, <2>1, <2>2, <2>3 DEF PasswordWritten, Holds, Settled, around
<1>9. Secured(r)'
  BY <1>3, <1>4, <1>5 DEF Secured, Holds
<1>10. label \in PasswordLabel
  BY DEF PasswordLabel
<1>11. PasswordMine(r)'
  BY <1>1, <1>2, <1>3, <1>6, <1>7, <1>8, <1>9, <1>10 DEF PasswordMine
<1> QED
  BY <1>1, <1>3, <1>4, <1>11, PasswordWriteStep

LEMMA WritePasswordStep ==
    ASSUME PasswordInv, NEW r \in Request, WritePassword(r)
    PROVE  PasswordInv'
<1> DEFINE label == AfterWrite(r)
<1>1. pc[r] = "write" /\ job[r].op \in {"change", "complete", "password"} /\ Running(r)
  BY DEF WritePassword, PasswordInv, PasswordWorking, Running, PasswordOpsAt
<1>2. PICK u \in PlatformUser : u = Subject(r)
  BY <1>1, SubjectType
<1> DEFINE x == [View(r, u) EXCEPT !.password = NewPassword(r)]
<1>3. Write(r, u, x, label) /\ UNCHANGED around
  BY <1>2 DEF WritePassword
<1>4. /\ NewPassword(r) \in Password
      /\ job[r].op \in {"change", "complete"} => NewPassword(r) = job[r].new
  <2>1. job[r].op \in {"change", "complete"} => job[r].new \in Secret
    BY PasswordJobFields DEF PasswordInv, PasswordTypes, PasswordTypeOK
  <2> QED
    BY <1>1, <2>1 DEF NewPassword, Password
<1>5. x \in CredentialRow /\ x.password = NewPassword(r) /\ x.status = View(r, u).status
  BY <1>4, PasswordViewTypes DEF CredentialRow
<1>6. job[r].op = "change" => seen[r].was_new \in BOOLEAN
  BY <1>1 DEF PasswordInv, PasswordWorking
<1>7. /\ label \in {"status", "mark", "commit"} /\ job[r].op \in PasswordOpsAt(label)
      /\ job[r].op = "complete" => label = "mark"
  BY <1>1, <1>6 DEF AfterWrite, PasswordOpsAt
<1>8. x.status # "NEW" => Settled(u) \/ job[r].op = "change"
  BY <1>1, <1>5, ViewClaims
<1> HIDE DEF label, x
<1> QED
  BY <1>1, <1>2, <1>3, <1>4, <1>5, <1>7, <1>8, PasswordUserWritten

LEMMA WriteStatusStep ==
    ASSUME PasswordInv, NEW r \in Request, WriteStatus(r)
    PROVE  PasswordInv'
<1>0. pc[r] = "status" /\ Running(r) /\ job[r].op \in {"change", "suspend"}
  BY DEF WriteStatus, PasswordInv, PasswordWorking, Running, PasswordOpsAt
<1>1. CASE TurnedDown(r)
  BY <1>0, <1>1, PasswordRejectedStep DEF Running
<1>2. CASE ~TurnedDown(r)
  <2> DEFINE status == IF job[r].op = "suspend" THEN "SUSPENDED" ELSE "ACTIVE"
  <2>1. PICK u \in PlatformUser : u = Subject(r)
    BY <1>0, SubjectType
  <2> DEFINE x == [View(r, u) EXCEPT !.status = status]
  <2>2. Write(r, u, x, "commit") /\ UNCHANGED around
    BY <1>2, <2>1 DEF WriteStatus
  <2>3. View(r, u) \in CredentialRow
    BY PasswordViewTypes
  <2>4. x \in CredentialRow /\ x.password = View(r, u).password
    BY <2>3 DEF CredentialRow
  <2>5. job[r].op = "change" => x.password = job[r].new
    BY <1>0, <2>1, <2>4 DEF PasswordInv, Secured, View, Holds
  <2> HIDE DEF x
  <2>6. job[r].op \in PasswordOpsAt("commit")
    BY <1>0 DEF PasswordOpsAt
  <2> QED
    BY <1>0, <2>1, <2>2, <2>4, <2>5, <2>6, PasswordUserWritten
<1> QED
  BY <1>1, <1>2

LEMMA RemoveUserStep ==
    ASSUME PasswordInv, NEW r \in Request, RemoveUser(r)
    PROVE  PasswordInv'
<1>0. pc[r] = "remove" /\ Running(r) /\ job[r].op = "delete"
  BY DEF RemoveUser, PasswordInv, PasswordWorking, Running, PasswordOpsAt
<1>1. CASE TurnedDown(r)
  BY <1>0, <1>1, PasswordRejectedStep DEF Running
<1>2. CASE ~TurnedDown(r)
  <2>1. PICK u \in PlatformUser : u = Subject(r) /\ u = job[r].user
    BY <1>0, SubjectType DEF Subject
  <2> DEFINE x == [View(r, u) EXCEPT !.live = FALSE]
  <2>2. Write(r, u, x, "commit") /\ UNCHANGED around
    BY <1>2, <2>1 DEF RemoveUser
  <2>3. View(r, u) \in CredentialRow /\ View(r, u) = db[u]
    BY <1>0, PasswordViewTypes, PasswordHoldsNothing, PasswordRowFacts DEF View, Holds
  <2>4. x \in CredentialRow /\ x.status = db[u].status
    BY <2>3 DEF CredentialRow
  <2>5. x.status # "NEW" => Settled(u)
    BY <2>4 DEF PasswordInv, PasswordCommitted
  <2> HIDE DEF x
  <2>6. job[r].op \in PasswordOpsAt("commit")
    BY <1>0 DEF PasswordOpsAt
  <2> QED
    BY <1>0, <2>1, <2>2, <2>4, <2>5, <2>6, PasswordUserWritten
<1> QED
  BY <1>1, <1>2

(* A statement that writes a reset token: its own, or the one it was given.*)
LEMMA TokenWritten ==
    ASSUME PasswordInv, NEW r \in Request, NEW t \in Request, NEW x \in TokenRow,
           Write(r, t, x, "commit"), UNCHANGED around,
           \/ pc[r] = "insert" /\ job[r].op = "request" /\ t = r
           \/ /\ pc[r] = "mark" /\ job[r].op = "complete" /\ t = job[r].token
              /\ ~db[t].used /\ x.used /\ x.user = db[t].user
    PROVE  PasswordInv'
<1>1. /\ db' = db /\ pend' = [pend EXCEPT ![r][t] = x]
      /\ UNCHANGED <<job, seen, session, changed, overridden>>
      /\ WriteRow(r, t, x) /\ Goto(r, "commit")
  BY DEF Write, WriteRow, around
<1>2. /\ job[r] \in PasswordJob /\ seen[r] \in PasswordSeen
      /\ PasswordWorking(r) /\ PasswordWritten(r) /\ Secured(r)
  BY DEF PasswordInv, PasswordTypes, PasswordTypeOK, PasswordSeen
<1>3. PasswordOnlyMoves(r) /\ pc'[r] = "commit" /\ job'[r] = job[r] /\ Subject(r)' = Subject(r)
  BY <1>1, PasswordGotoMoves
<1>4. t \in PasswordRows /\ x # None
  BY PasswordRowFacts
<1>5. /\ pend'[r] \in [PasswordRows -> CredentialRow \cup TokenRow \cup {None}]
      /\ pend'[r][t] = x /\ \A k \in PasswordRows \ {t} : pend'[r][k] = pend[r][k]
  BY <1>1, <1>4 DEF PasswordInv, PasswordTypes
<1>6. PasswordRowsTyped(r)'
  BY <1>5, PasswordRowFacts DEF PasswordRowsTyped, PasswordInv, PasswordTypes, PasswordTypeOK
<1>7. PasswordWorking(r)'
  BY <1>1, <1>2, <1>3 DEF PasswordWorking, PasswordOpsAt
<1>8. PasswordWritten(r)'
  <2>1. ASSUME NEW u \in PlatformUser PROVE pend'[r][u] = pend[r][u]
    BY <1>5, PasswordRowFacts
  <2>2. ASSUME NEW k \in Request, pend'[r][k] # None PROVE k = t
    BY <1>2, <1>5, <2>2, PasswordRowFacts DEF PasswordWritten, Holds
  <2> QED
    BY <1>1, <1>2, <1>3, <1>5, <2>1, <2>2 DEF PasswordWritten, Holds, Settled
<1>9. Secured(r)'
  <2>1. CASE job[r].op = "complete"
    <3>1. Holds(r, Subject(r)) /\ pend[r][Subject(r)].password = job[r].new /\ Subject(r) \in PlatformUser
      BY <1>2, <2>1, SubjectType DEF Secured, Running
    <3>2. pend'[r][Subject(r)] = pend[r][Subject(r)]
      BY <1>5, <3>1, PasswordRowFacts
    <3> QED
      BY <1>1, <1>3, <1>4, <1>5, <2>1, <3>1, <3>2 DEF Secured, Holds
  <2>2. CASE job[r].op = "request"
    BY <1>3, <2>2 DEF Secured
  <2> QED
    BY <2>1, <2>2
<1>10. PasswordMine(r)'
  BY <1>1, <1>2, <1>3, <1>6, <1>7, <1>8, <1>9 DEF PasswordMine, PasswordLabel
<1> QED
  BY <1>1, <1>3, <1>4, <1>10, PasswordWriteStep

LEMMA InsertTokenStep ==
    ASSUME PasswordInv, NEW r \in Request, InsertToken(r)
    PROVE  PasswordInv'
<1>1. pc[r] = "insert" /\ Running(r) /\ job[r].op = "request"
  BY DEF InsertToken, PasswordInv, PasswordWorking, Running, PasswordOpsAt
<1>2. CASE Continue(r, "commit") /\ UNCHANGED around
  <2>1. "commit" \in PasswordLabel /\ job[r].op \in PasswordOpsAt("commit")
    BY <1>1 DEF PasswordOpsAt, PasswordLabel
  <2> QED
    BY <1>1, <1>2, <2>1, PasswordContinueStep
<1>3. CASE Write(r, r, [user |-> Subject(r), used |-> FALSE], "commit") /\ UNCHANGED around
  <2> DEFINE x == [user |-> Subject(r), used |-> FALSE]
  <2>1. x \in TokenRow
    BY <1>1, SubjectType DEF TokenRow
  <2> HIDE DEF x
  <2>2. Write(r, r, x, "commit") /\ UNCHANGED around
    BY <1>3 DEF x
  <2> QED
    BY <1>1, <2>1, <2>2, TokenWritten
<1> QED
  BY <1>2, <1>3 DEF InsertToken

LEMMA MarkUsedStep ==
    ASSUME PasswordInv, NEW r \in Request, MarkUsed(r)
    PROVE  PasswordInv'
<1>0. pc[r] = "mark" /\ Running(r) /\ job[r].op = "complete"
  BY DEF MarkUsed, PasswordInv, PasswordWorking, Running, PasswordOpsAt
<1>1. CASE TurnedDown(r)
  BY <1>0, <1>1, PasswordRejectedStep DEF Running
<1>2. CASE ~TurnedDown(r)
  <2>1. PICK t \in Request : t = job[r].token
    BY <1>0, PasswordJobFields DEF PasswordInv, PasswordTypes, PasswordTypeOK
  <2> DEFINE x == [View(r, t) EXCEPT !.used = TRUE]
  <2>2. Write(r, t, x, "commit") /\ UNCHANGED around /\ ~View(r, t).used
    BY <1>2, <2>1 DEF MarkUsed, Markable
  <2>3. View(r, t) = db[t] /\ db[t] \in TokenRow
    <3>1. ~Holds(r, t) /\ db[t] # NoToken
      BY <1>0, <2>1 DEF PasswordInv, PasswordWritten, PasswordWorking
    <3> QED
      BY <3>1 DEF View, Holds, PasswordInv, PasswordTypes, PasswordTypeOK
  <2>4. x \in TokenRow /\ x.used /\ x.user = db[t].user
    BY <2>3 DEF TokenRow
  <2> HIDE DEF x
  <2> QED
    BY <1>0, <2>1, <2>2, <2>3, <2>4, TokenWritten
<1> QED
  BY <1>1, <1>2

LEMMA PasswordCommitStep ==
    ASSUME PasswordInv, NEW r \in Request, CommitPasswords(r)
    PROVE  PasswordInv'
<1>1. /\ pc[r] = "commit" /\ Running(r) /\ Finish(r) /\ lapsed' = lapsed
      /\ changed' = changed \cup (IF job[r].op = "change" THEN {Subject(r)} ELSE {})
      /\ overridden' = overridden \cup (IF job[r].op = "suspend" THEN {job[r].user} ELSE {})
      /\ session' = IF job[r].op = "change" /\ Live(r)
                    THEN [session EXCEPT ![r] = [user |-> Subject(r), pwd_chg |-> FALSE]]
                    ELSE session
  BY DEF CommitPasswords, Running
<1>2. PICK u \in PlatformUser : u = Subject(r)
  BY <1>1, SubjectType
<1>3. CASE job[r].op = "change" /\ Live(r)
  <2> DEFINE x == [user |-> u, pwd_chg |-> FALSE]
  <2>1. x \in Session /\ x.user = u
    BY DEF Session
  <2>2. session' = [session EXCEPT ![r] = x]
    BY <1>1, <1>2, <1>3
  <2>3. Settled(x.user)'
    BY <1>1, <1>2, <1>3, <2>1 DEF Settled
  <2> HIDE DEF x
  <2> QED
    BY <1>1, <2>1, <2>2, <2>3, FinishStep
<1>4. CASE ~(job[r].op = "change" /\ Live(r))
  <2> DEFINE x == [user |-> u, pwd_chg |-> TRUE]
  <2>1. x \in Session /\ x.pwd_chg
    BY DEF Session
  <2>2. session' = session
    BY <1>1, <1>4
  <2> HIDE DEF x
  <2> QED
    BY <1>1, <2>1, <2>2, FinishStep
<1> QED
  BY <1>3, <1>4

-----------------------------------------------------------------------------
(* Theorems.                                                               *)

LEMMA PasswordsStart == PasswordInit => PasswordInv
<1> SUFFICES ASSUME PasswordInit PROVE PasswordInv
  OBVIOUS
<1>1. /\ DOMAIN db = PasswordRows /\ db = [k \in PasswordRows |-> db[k]]
      /\ \A u \in PlatformUser : db[u] \in CredentialRow /\ db[u].status = "NEW"
      /\ \A t \in Request : db[t] = NoToken
  <2>1. PICK first \in [PlatformUser -> Secret] :
          db = [k \in PlatformUser \cup Request |->
                  IF k \in PlatformUser THEN [live |-> TRUE, status |-> "NEW", password |-> first[k]]
                  ELSE NoToken]
    BY DEF PasswordInit
  <2>2. \A u \in PlatformUser : db[u] = [live |-> TRUE, status |-> "NEW", password |-> first[u]]
    BY <2>1
  <2>3. ASSUME NEW u \in PlatformUser PROVE db[u] \in CredentialRow
    <3>1. first[u] \in Password
      BY DEF Password
    <3>2. \A p \in Password : [live |-> TRUE, status |-> "NEW", password |-> p] \in CredentialRow
      BY DEF CredentialRow
    <3> QED
      BY <2>2, <3>1, <3>2
  <2> QED
    BY <2>1, <2>2, <2>3, PasswordRowFacts DEF PasswordRows
<1>2. \A r \in Request, k \in PasswordRows : pend[r][k] = None
  BY <1>1 DEF PasswordInit, HandlersInit, NoWrites, Row
<1>3. PasswordTypeOK
  <2>1. db \in [PlatformUser \cup Request -> CredentialRow \cup TokenRow \cup {NoToken}]
    BY <1>1, PasswordRowFacts DEF PasswordRows
  <2>2. pc \in [Request -> PasswordLabel] /\ job \in [Request -> PasswordJob]
    BY DEF PasswordInit, HandlersInit, PasswordLabel, PasswordJob
  <2> QED
    BY <1>1, <1>2, <2>1, <2>2, PasswordRowFacts DEF PasswordTypeOK, PasswordInit
<1>4. PasswordTypes
  BY <1>1, <1>3 DEF PasswordTypes, PasswordInit, HandlersInit, NoWrites, Row, Session
<1>5. RowLocksExclusive
  BY <1>1, <1>2 DEF RowLocksExclusive, Holds, Row
<1>6. PasswordCommitted
  BY <1>1 DEF PasswordCommitted, PasswordInit, ChangeComesFirst, Unrestricted, Issued
<1>7. ASSUME NEW r \in Request PROVE PasswordWorking(r) /\ PasswordWritten(r) /\ Secured(r)
  <2>1. pc[r] = "new" /\ job[r].op = "none"
    BY DEF PasswordInit, HandlersInit, NoJob
  <2> QED
    BY <1>2, <2>1, PasswordRowFacts DEF PasswordWorking, Running, PasswordWritten, Secured, Holds
<1> QED
  BY <1>4, <1>5, <1>6, <1>7 DEF PasswordInv

LEMMA PasswordsKept ==
    ASSUME PasswordInv, [PasswordNext]_passwordVars
    PROVE  PasswordInv'
<1>1. ASSUME NEW t \in Request, Lapse(t) PROVE PasswordInv'
  BY <1>1, PasswordElapseStep
<1>2. ASSUME NEW r \in Request,
             \/ CallPasswords(r) \/ Authenticate(r) \/ IssueToken(r) \/ VerifyCurrent(r) \/ LoadUser(r)
             \/ WritePassword(r) \/ WriteStatus(r)
      PROVE  PasswordInv'
  BY <1>2, PasswordArriveStep, AuthenticateStep, IssueTokenStep, VerifyCurrentStep, LoadUserStep,
     WritePasswordStep, WriteStatusStep
<1>3. ASSUME NEW r \in Request,
             InsertToken(r) \/ ValidateToken(r) \/ MarkUsed(r) \/ RemoveUser(r) \/ CommitPasswords(r)
      PROVE  PasswordInv'
  BY <1>3, InsertTokenStep, PasswordValidateStep, MarkUsedStep, RemoveUserStep, PasswordCommitStep
<1>4. ASSUME NEW r \in Request, PasswordsCutOff(r) PROVE PasswordInv'
  BY <1>4, PasswordRejectedStep DEF PasswordsCutOff, Running
<1>5. ASSUME UNCHANGED passwordVars PROVE PasswordInv'
  <2>1. /\ db' = db /\ pend' = pend /\ pc' = pc /\ job' = job /\ seen' = seen
        /\ lapsed' = lapsed /\ session' = session /\ changed' = changed /\ overridden' = overridden
    BY <1>5 DEF passwordVars, around
  <2>2. \A r \in Request : Subject(r)' = Subject(r)
    BY <2>1 DEF Subject
  <2>3. PasswordTypes' /\ PasswordCommitted' /\ RowLocksExclusive'
    BY <2>1
    DEF PasswordInv, PasswordTypes, PasswordTypeOK, PasswordCommitted, Settled, ChangeComesFirst,
        Unrestricted, Issued, RowLocksExclusive, Row, Holds
  <2>4. \A r \in Request : PasswordWorking(r)' /\ PasswordWritten(r)' /\ Secured(r)'
    BY <2>1, <2>2 DEF PasswordInv, PasswordWorking, Running, Settled, PasswordWritten, Secured, Holds
  <2> QED
    BY <2>3, <2>4 DEF PasswordInv
<1> QED
  BY <1>1, <1>2, <1>3, <1>4, <1>5 DEF PasswordNext

(* Every request goes by what is still so: its session, its token and the  *)
(* rows it has written, and every variable keeps its type.                 *)
THEOREM PasswordsStayInOrder == PasswordSpec => []PasswordInv
BY PasswordsStart, PasswordsKept, PTL DEF PasswordSpec

(* The gate of the first login holds however logins, changes, resets and   *)
(* administrators overlap and fail: an unrestricted session belongs to a   *)
(* user for whom a change, which asks for the password in force, has been  *)
(* committed, or whose status an administrator has set.  That the password *)
(* changed to is another one is not claimed: the code does not ask for it. *)
THEOREM NobodySkipsTheChange == PasswordSpec => []ChangeComesFirst
<1>1. PasswordInv => ChangeComesFirst
  BY DEF PasswordInv, PasswordCommitted
<1> QED
  BY <1>1, PasswordsStayInOrder, PTL

(* A request that is about to commit is over after the step of Commit and  *)
(* no other.                                                               *)
LEMMA DoneByCommit ==
    ASSUME PasswordInv, [PasswordNext]_passwordVars, NEW r \in Request, pc[r] = "commit", pc'[r] = "done"
    PROVE  CommitPasswords(r)
<1>1. ASSUME NEW s \in Request, NEW label, Goto(s, label), label # "done" \/ pc[s] # "commit"
      PROVE  FALSE
  BY <1>1 DEF Goto, PasswordInv, PasswordTypes, PasswordTypeOK
<1>2. ASSUME NEW s \in Request, TurnedDown(s) PROVE FALSE
  BY <1>1, <1>2 DEF TurnedDown, Fail, End
<1>3. ASSUME NEW s \in Request,
             \/ CallPasswords(s) \/ Authenticate(s) \/ IssueToken(s) \/ VerifyCurrent(s)
             \/ LoadUser(s) \/ ValidateToken(s)
      PROVE  FALSE
  BY <1>1, <1>2, <1>3 DEF CallPasswords, Begin, Authenticate, Read, IssueToken, Finish, End,
     VerifyCurrent, LoadUser, ValidateToken, Continue
<1>4. ASSUME NEW s \in Request,
             \/ WritePassword(s) \/ WriteStatus(s) \/ InsertToken(s) \/ MarkUsed(s) \/ RemoveUser(s)
             \/ PasswordsCutOff(s)
      PROVE  FALSE
  BY <1>1, <1>2, <1>4 DEF WritePassword, WriteStatus, InsertToken, Continue, MarkUsed, RemoveUser,
     Write, PasswordsCutOff
<1>5. ASSUME NEW s \in Request, CommitPasswords(s) PROVE s = r
  BY <1>5 DEF CommitPasswords, Finish, End, Goto, PasswordInv, PasswordTypes, PasswordTypeOK
<1>6. ASSUME NEW t \in Request, Lapse(t) PROVE FALSE
  BY <1>6 DEF Lapse
<1>7. ~UNCHANGED passwordVars
  BY DEF passwordVars
<1> QED
  BY <1>3, <1>4, <1>5, <1>6, <1>7 DEF PasswordNext

(* A completed reset spends its token in the commit that sets the          *)
(* password, and finds it unspent: the row of the token is locked from the *)
(* UPDATE that looks at used_at to the commit, so one of two resets with   *)
(* one token succeeds.                                                     *)
THEOREM TokensAreSpentOnce == PasswordSpec => ResetSpendsToken
<1> DEFINE Spent(r) ==
      pc[r] = "commit" /\ pc'[r] = "done" /\ job[r].op = "complete" =>
        LET t == job[r].token IN
        ~db[t].used /\ db'[t].used /\ db'[db[t].user].password = job[r].new
<1>1. ASSUME PasswordInv, [PasswordNext]_passwordVars, NEW r \in Request,
             pc[r] = "commit", pc'[r] = "done", job[r].op = "complete"
      PROVE  LET t == job[r].token IN
             ~db[t].used /\ db'[t].used /\ db'[db[t].user].password = job[r].new
  <2>1. \A k \in PasswordRows : db'[k] = View(r, k)
    BY <1>1, DoneByCommit, PasswordRowIs DEF CommitPasswords, Finish, CommitWrites
  <2>2. PICK t \in Request : t = job[r].token
    BY <1>1, PasswordJobFields DEF PasswordInv, PasswordTypes, PasswordTypeOK
  <2>3. PICK u \in PlatformUser : u = Subject(r) /\ u = db[t].user
    BY <1>1, <2>2, SubjectType DEF Subject, Running
  <2>4. Secured(r) /\ PasswordWritten(r)
    BY <1>1 DEF PasswordInv
  <2>5. Holds(r, t) /\ Holds(r, Subject(r)) /\ pend[r][Subject(r)].password = job[r].new
    BY <1>1, <2>2, <2>4 DEF Secured
  <2>6. ~db[t].used /\ pend[r][t].used
    BY <1>1, <2>2, <2>4, <2>5 DEF PasswordWritten
  <2>7. /\ Holds(r, t) /\ Holds(r, u) /\ pend[r][u].password = job[r].new
        /\ ~db[t].used /\ pend[r][t].used
    BY <2>3, <2>5, <2>6
  <2>8. db'[t] = pend[r][t] /\ db'[u] = pend[r][u]
    BY <2>1, <2>7, PasswordRowFacts DEF View, Holds
  <2> QED
    BY <2>2, <2>3, <2>7, <2>8
<1>2. PasswordInv /\ [PasswordNext]_passwordVars => [\A r \in Request : Spent(r)]_passwordVars
  BY <1>1
<1>3. PasswordSpec => []PasswordInv /\ [][PasswordNext]_passwordVars
  BY PasswordsStayInOrder, PTL DEF PasswordSpec
<1> QED
  BY <1>2, <1>3, PTL DEF ResetSpendsToken
=============================================================================
