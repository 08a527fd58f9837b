-------------------------- MODULE ServerProperties --------------------------
(***************************************************************************)
(* What the process around the handlers promises.                          *)
(***************************************************************************)
EXTENDS Server

Stages == {"none", "waiting", "handling", "ending", "answering", "done"}
Codes == {StatusOK, StatusFound, StatusInternalServerError}

TypeOK ==
    /\ main \in {"starting", "serving", "closing", "closed", "no pool", "exited"}
    /\ interrupted \in BOOLEAN
    /\ listening \in BOOLEAN
    /\ pc \in [Requests -> Stages]
    /\ conn \in [Requests -> Connections \cup {NULL}]
    /\ tx \in [Requests -> {"none", "open", "committed", "rolled back"}]
    /\ sent \in [Requests -> Codes \cup {NULL}]
    /\ statusCode \in [Requests -> Codes]
    /\ failed \in [Requests -> BOOLEAN]
    /\ gone \in [Requests -> BOOLEAN]
    /\ stalled \in [Requests -> BOOLEAN]

(* A request that failed leaves nothing behind (transaction.go:189-193):   *)
(* if its handler returned an error or panicked, at whatever point of its  *)
(* answer, or if its client was told 500, nothing of it is committed.      *)
FailedLeavesNothing ==
    \A r \in Requests :
        failed[r] \/ sent[r] = StatusInternalServerError => tx[r] # "committed"

(* Ending the program cuts nobody off in a transaction: models.Shutdown    *)
(* (models.go:45) waits for the connections of the requests that have one. *)
NobodyCutOff ==
    main \in {"closed", "no pool", "exited"} => \A r \in Requests : tx[r] # "open"

(* A connection serves one transaction at a time, and is given back as     *)
(* soon as that is committed or rolled back, in whatever way it ends.      *)
ConnectionsOfTransactions ==
    /\ \A r \in Requests : conn[r] # NULL <=> tx[r] = "open"
    /\ \A r, s \in Requests : conn[r] = conn[s] /\ r # s => conn[r] = NULL

(* Every request that arrives is answered, however few connections there   *)
(* are and however the others end, unless the program ends first or        *)
(* clients stall (main.go:138-142 sets no timeouts): who waits for a       *)
(* connection forever does so behind stalled clients that have all of      *)
(* them, and who has begun waits for no client but its own.                *)
AllHeldUp ==
    \A c \in Connections : \E r \in Requests : conn[r] = c /\ stalled[r]

EveryRequestAnswered ==
    \A r \in Requests :
        /\ pc[r] = "waiting" ~> pc[r] # "waiting" \/ main = "exited" \/ AllHeldUp
        /\ pc[r] \in {"handling", "ending", "answering"}
               ~> pc[r] = "done" \/ main = "exited" \/ stalled[r]

(* Ctrl+C ends the program (main.go:28-40), whatever requests are under    *)
(* way or keep arriving, unless a client stalls while its request has a    *)
(* connection, for which Close waits (models.go:45).                       *)
InterruptEnds ==
    interrupted ~> main = "exited" \/ \E r \in Requests : conn[r] # NULL /\ stalled[r]
=============================================================================
