---------------------------- MODULE ReadCommitted ----------------------------
(***************************************************************************)
(* The database as the services see it: PostgreSQL at its default          *)
(* isolation level, READ COMMITTED, behind the request-scoped session of   *)
(* app/utility/postgres.py.  One mutating request is one transaction:      *)
(* get_db commits when the handler returns and rolls back when it raises.  *)
(*                                                                         *)
(* db holds the committed version of every row.  pend[r] holds the row     *)
(* versions request r has written and not yet committed; a written row is  *)
(* locked for every other writer until r commits or rolls back.  Readers   *)
(* never wait: a statement sees the request's own writes over the newest   *)
(* committed versions.                                                     *)
(***************************************************************************)
CONSTANTS
    Request,    \* the HTTP requests that run a transaction
    None        \* "no version written", and absence in general

VARIABLES
    db,         \* row -> committed version
    pend        \* request -> row -> version written, or None

Row == DOMAIN db

NoWrites == [k \in Row |-> None]

(* The row as a statement of request r reads it.                           *)
View(r, k) == IF pend[r][k] # None THEN pend[r][k] ELSE db[k]

Holds(r, k) == pend[r][k] # None

HeldByOther(r, k) == \E s \in Request \ {r} : Holds(s, k)

(* An UPDATE or INSERT takes the row lock and writes; it cannot run while  *)
(* another transaction holds the row.                                      *)
WriteRow(r, k, x) ==
    /\ ~HeldByOther(r, k)
    /\ pend' = [pend EXCEPT ![r][k] = x]
    /\ UNCHANGED db

(* As WriteRow, for a statement sequence that writes two rows of which     *)
(* the second is new, so that nobody can hold it.                          *)
WriteRows2(r, k, x, new, y) ==
    /\ ~HeldByOther(r, k)
    /\ pend' = [pend EXCEPT ![r] = [@ EXCEPT ![k] = x, ![new] = y]]
    /\ UNCHANGED db

(* get_db after the handler returned: session.commit().                    *)
CommitWrites(r) ==
    /\ db' = [k \in Row |-> View(r, k)]
    /\ pend' = [pend EXCEPT ![r] = NoWrites]

(* get_db after the handler raised: session.rollback().                    *)
DiscardWrites(r) ==
    /\ pend' = [pend EXCEPT ![r] = NoWrites]
    /\ UNCHANGED db

(* No row is being written by two transactions.                            *)
RowLocksExclusive ==
    \A r, s \in Request : \A k \in Row : Holds(r, k) /\ Holds(s, k) => r = s
=============================================================================
