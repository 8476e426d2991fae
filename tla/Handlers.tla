------------------------------ MODULE Handlers -------------------------------
(***************************************************************************)
(* The life of a mutating HTTP request, shared by the components whose     *)
(* handlers run straight through: it is begun once with the arguments of   *)
(* its call (job), executes SQL statements one at a time (pc names the     *)
(* next), keeps what it has read (seen), and ends when get_db commits or   *)
(* rolls back.                                                             *)
(***************************************************************************)
EXTENDS Integers, FiniteSets, ReadCommitted

VARIABLES
    pc,     \* request -> the statement it is about to execute
    job,    \* request -> its endpoint and arguments
    seen    \* request -> what it has read and decides on

NoJob == [op |-> "none"]

HandlersInit ==
    /\ pend = [r \in Request |-> NoWrites]
    /\ pc = [r \in Request |-> "new"]
    /\ job = [r \in Request |-> NoJob]
    /\ seen = [r \in Request |-> None]

Running(r) == pc[r] \notin {"new", "done", "failed"}

At(r, op, label) == job[r].op = op /\ pc[r] = label

Goto(r, label) == pc' = [pc EXCEPT ![r] = label]

Keep(r, x) == seen' = [seen EXCEPT ![r] = x]

Begin(r, Jobs, label) ==
    /\ pc[r] = "new"
    /\ \E j \in Jobs : job' = [job EXCEPT ![r] = j]
    /\ Goto(r, label)
    /\ UNCHANGED <<db, pend, seen>>

(* A SELECT: the handler goes on with what it has read.                    *)
Read(r, x, label) ==
    /\ Keep(r, x)
    /\ Goto(r, label)
    /\ UNCHANGED <<db, pend, job>>

Continue(r, label) == Goto(r, label) /\ UNCHANGED <<db, pend, job, seen>>

Write(r, k, x, label) ==
    /\ WriteRow(r, k, x)
    /\ Goto(r, label)
    /\ UNCHANGED <<job, seen>>

End(r, outcome) ==
    /\ Goto(r, outcome)
    /\ job' = [job EXCEPT ![r] = NoJob]
    /\ seen' = [seen EXCEPT ![r] = None]

(* The handler raises and get_db rolls back.                               *)
Fail(r) == DiscardWrites(r) /\ End(r, "failed")

(* The handler returns and get_db commits.                                 *)
Finish(r) == CommitWrites(r) /\ End(r, "done")

(* A mutant's rollback that commits what was written.                      *)
FailKeepingWrites(r) == CommitWrites(r) /\ End(r, "failed")
=============================================================================
