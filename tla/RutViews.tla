------------------------------ MODULE RutViews ------------------------------
(***************************************************************************)
(* What the handlers of views/rut do with the ROT/RUT request and with the *)
(* rows of its invoice, between the statements that read them and those    *)
(* that save them.                                                         *)
(***************************************************************************)
EXTENDS InvoiceViews

(* Mutant: a flag moves the request to its next status. *)
RutAdvanced(f, rut) == [rut EXCEPT !.status = @ + 1]

(* Flag.HandlePost: any status can follow any other. *)
RUTStatusOf == [sent |-> RUTSent, paid |-> RUTPaid, rejected |-> RUTRejected]

RutFlagged(f, rut) ==
    [rut EXCEPT !.status    = RUTStatusOf[f.flag],
                !.date_sent = @ \/ f.flag = "sent",
                !.date_paid = @ \/ f.flag # "sent",
                !.received  = IF f.flag = "paid" THEN f.amount ELSE @]

(* View.HandlePost: the sum to ask for, and the hours of some rows. *)
RutPosted(f, rut) == [rut EXCEPT !.requested = f.sum]

HoursPosted(f, rows) ==
    [k \in Rows |-> IF k \in f.hours /\ rows[k] # Absent
                    THEN [rows[k] EXCEPT !.hours = f.worked]
                    ELSE rows[k]]

(* RUTSave also writes back every row that has hours, as it is in hand. *)
RutSaveScripts(f, rows) ==
    { << Do("RUTSave", f.rut) >>
      \o [n \in 1..Len(worked) |->
             Do("RowUpdate", [row |-> worked[n], data |-> Content(rows[worked[n]])])] :
      worked \in SetToSeqs({k \in Present(rows) : rows[k].hours # NULL}) }

(* Mutant: changes until the request is paid. *)
RutPostScriptsUntilPaid(f, rut, rows) ==
    IF rut.status # RUTPaid THEN RutSaveScripts(f, rows) ELSE { << >> }

(* Only allow changes if RUT request is not already sent. *)
RutPostScripts(f, rut, rows) ==
    IF rut.status = RUTPending THEN RutSaveScripts(f, rows) ELSE { << >> }

=============================================================================
