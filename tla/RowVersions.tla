---------------------------- MODULE RowVersions ----------------------------
(***************************************************************************)
(* A PostgreSQL table as the program uses it.  Every request runs in one   *)
(* READ COMMITTED transaction (models/transaction.go:56-68 takes pgx's     *)
(* default), so                                                            *)
(*   - a statement sees the committed rows and the transaction's own       *)
(*     writes, and looks anew at every statement;                          *)
(*   - a row that one transaction has written stays locked against the     *)
(*     writes of others until that transaction ends;                       *)
(*   - COMMIT makes all the writes of a transaction visible, ROLLBACK      *)
(*     drops them.                                                         *)
(* A row is kept as its versions: the committed value, the transaction     *)
(* that holds an uncommitted one, and that one.  The module stands for the *)
(* database server: it is not code of src/.                                *)
(***************************************************************************)

CONSTANTS
    Requests,   \* the transactions (one for each request)
    NULL,       \* no transaction (and, in other modules, SQL NULL)
    Absent,     \* a row that was never inserted: its id is free
    Gone        \* a row that was deleted: its id is never given out again

Live(x) == x \notin {Absent, Gone}

(* The versions of a row whose values, when it exists, are in S. *)
Versions(S) ==
    [val : S \cup {Absent, Gone},
     by  : Requests \cup {NULL},
     new : S \cup {Absent, Gone}]

(* A row nobody has an uncommitted version of. *)
Settled(x) == [val |-> x, by |-> NULL, new |-> Absent]

EmptyTable(ids) == [k \in ids |-> Settled(Absent)]

(* The rows as a statement of transaction r finds them. *)
Sees(table, r) ==
    [k \in DOMAIN table |-> IF table[k].by = r THEN table[k].new ELSE table[k].val]

(* Transaction s has locked the visible row k against other writers. *)
Holds(table, s, k) ==
    k \in DOMAIN table /\ table[k].by = s /\ Live(table[k].val)

(* Ids an INSERT may draw.  A sequence never gives an id twice; an id that *)
(* was drawn by a rolled back INSERT is free again here, since nobody but  *)
(* the transaction that failed has ever seen it.                           *)
FreshIds(table) == {k \in DOMAIN table : table[k] = Settled(Absent)}

(* Transaction r writes x (a row, or Gone for a DELETE) into row k. *)
Put(table, r, k, x) ==
    [table EXCEPT ![k] = [val |-> @.val, by |-> r, new |-> x]]

(* The table after the end of transaction r. *)
Ended(table, r, commit) ==
    [k \in DOMAIN table |->
        IF table[k].by # r THEN table[k]
        ELSE Settled(IF commit THEN table[k].new ELSE table[k].val)]

(* What anybody who starts now can read. *)
Committed(table) == [k \in DOMAIN table |-> table[k].val]

=============================================================================
