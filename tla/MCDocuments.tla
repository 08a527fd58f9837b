---------------------------- MODULE MCDocuments ----------------------------
(***************************************************************************)
(* Rows and numbers for the checks of Documents.tla: one row of each kind  *)
(* that the amounts and the files tell apart.  Prices and counts are such  *)
(* that shares, VAT and kronor do not come out even.                       *)
(***************************************************************************)
EXTENDS DocumentsProperties

Goods(cost, count, vat) ==
    [cost |-> cost, count |-> count, vat |-> vat, is_rot_rut |-> FALSE,
     service |-> NULL, unit |-> 1, hours |-> NULL]

Work(cost, count, vat, service, unit) ==
    [cost |-> cost, count |-> count, vat |-> vat, is_rot_rut |-> TRUE,
     service |-> service, unit |-> unit, hours |-> NULL]

MCRows ==
    { Goods(1005, 150, 0),          \* sold by the piece, 25 %
      Goods(-217, 100, 3),          \* a reduction, 0 %
      Work(1800, 100, 0, 7, 1),     \* RUT at a fixed price, 25 %
      Work(999, 200, 0, 0, 2),      \* ROT by the hour, 25 %
      Work(240, 250, 1, 18, 2),     \* RUT of a kind that has no export, 12 %
      Work(333, 100, 0, NULL, 1) }  \* ticked as work, of no kind

Short == [prefix |-> FALSE, century |-> NULL, year |-> 80, dash |-> TRUE]
Long == [prefix |-> FALSE, century |-> 19, year |-> 80, dash |-> TRUE]
Prefixed == [prefix |-> TRUE, century |-> NULL, year |-> 80, dash |-> TRUE]

MCNumbers == { NULL, Short, Prefixed }
AllNumbers == { NULL, Short, Long, Prefixed }

SixPercent == { Goods(1005, 150, 2) }
OneWork == { Work(333, 250, 1, 7, 2) }
=============================================================================
