------------------------------- MODULE Server -------------------------------
(***************************************************************************)
(* The process around the handlers: main, which starts the server and ends *)
(* it on Ctrl+C, the pool of database connections, and the way a request   *)
(* takes from the middleware through the view to its answer.  What the     *)
(* handlers write is the matter of Faktura; here one is a step that ends   *)
(* well or not.                                                            *)
(***************************************************************************)
EXTENDS Naturals

CONSTANTS
    Requests,       (* the requests that may arrive                          *)
    Connections,    (* what the pool holds at most                           *)
    Faults,         (* TRUE: clients, network and database may fail          *)
    NULL

ASSUME ServerAssumption ==
    /\ NULL \notin Connections
    /\ NULL \notin Nat
    /\ Faults \in BOOLEAN

VARIABLES
    main,           (* where main is                                         *)
    interrupted,    (* whether Ctrl+C has cancelled its context              *)
    listening,      (* whether connections are accepted                      *)
    pc,             (* where the serving of a request is                     *)
    conn,           (* the pooled connection that a request has              *)
    tx,             (* what has become of its transaction                    *)
    sent,           (* the status that was written to its client first       *)
    statusCode,     (* statusResponseWriter.statusCode: the one written last *)
    failed,         (* whether its handler returned an error or panicked     *)
    gone,           (* whether its client went away: r.Context() is done     *)
    stalled         (* whether its client is there, but neither sends the    *)
                    (* rest of its form nor takes what is written to it      *)

process == << main, interrupted, listening >>
answer  == << sent, statusCode, failed >>
client  == << gone, stalled >>
vars    == << process, pc, conn, tx, answer, client >>

StatusOK == 200
StatusFound == 302
StatusInternalServerError == 500

-----------------------------------------------------------------------------
Running == main # "exited"

Idle == Connections \ { conn[r] : r \in Requests }

(* The pool hands out connections until Close is called. *)
PoolOpen == main = "serving"

First(r, code) == sent' = [sent EXCEPT ![r] = IF @ = NULL THEN code ELSE @]

(* statusResponseWriter.WriteHeader passes each code on and keeps the last. *)
KeepFirst(r, code) ==
    /\ First(r, code)
    /\ statusCode' = [statusCode EXCEPT ![r] = IF sent[r] = NULL THEN code ELSE @]

WriteHeader(r, code) ==
    /\ First(r, code)
    /\ statusCode' = [statusCode EXCEPT ![r] = code]

-----------------------------------------------------------------------------
Init ==
    /\ main = "starting"
    /\ interrupted = FALSE
    /\ listening = FALSE
    /\ pc = [r \in Requests |-> "none"]
    /\ conn = [r \in Requests |-> NULL]
    /\ tx = [r \in Requests |-> "none"]
    /\ sent = [r \in Requests |-> NULL]
    /\ statusCode = [r \in Requests |-> StatusOK]
    /\ failed = [r \in Requests |-> FALSE]
    /\ gone = [r \in Requests |-> FALSE]
    /\ stalled = [r \in Requests |-> FALSE]

(* main: the configuration is read, models.Setup migrates and connects,    *)
(* the views are registered and the listener is started.  Whatever fails   *)
(* before that ends the process.                                           *)
Setup ==
    /\ main = "starting"
    /\ main' = "serving" /\ listening' = TRUE
    /\ UNCHANGED << interrupted, pc, conn, tx, answer, client >>

SetupFails ==
    /\ main = "starting"
    /\ Faults \/ interrupted
    /\ main' = "exited"
    /\ UNCHANGED << interrupted, listening, pc, conn, tx, answer, client >>

(* Ctrl+C cancels the context of main.  Nobody waits for a second one.     *)
Interrupt ==
    /\ Running /\ ~interrupted
    /\ interrupted' = TRUE
    /\ UNCHANGED << main, listening, pc, conn, tx, answer, client >>

(* main returns, and models.Shutdown calls Close of the pool, which        *)
(* refuses connections from now on.  The listener is left as it is.        *)
Return ==
    /\ main = "serving" /\ interrupted
    /\ main' = "closing"
    /\ UNCHANGED << interrupted, listening, pc, conn, tx, answer, client >>

ListenAndServeFails ==
    /\ Faults
    /\ main = "serving" /\ listening
    /\ main' = "closing" /\ listening' = FALSE
    /\ UNCHANGED << interrupted, pc, conn, tx, answer, client >>

(* Close of the pool waits for every connection that is out. *)
CloseAtOnce ==
    /\ main = "closing"
    /\ main' = "closed"

Close ==
    /\ main = "closing"
    /\ Idle = Connections
    /\ main' = "closed"

PoolCloses == Close /\ UNCHANGED << interrupted, listening, pc, conn, tx, answer, client >>

(* dbpool = nil *)
ForgetPool ==
    /\ main = "closed"
    /\ main' = "no pool"
    /\ UNCHANGED << interrupted, listening, pc, conn, tx, answer, client >>

(* The end of main is the end of every request. *)
Exit ==
    /\ main = "no pool"
    /\ main' = "exited"
    /\ UNCHANGED << interrupted, listening, pc, conn, tx, answer, client >>

-----------------------------------------------------------------------------
Arrive(r) ==
    /\ Running /\ listening
    /\ pc[r] = "none"
    /\ pc' = [pc EXCEPT ![r] = "waiting"]
    /\ UNCHANGED << process, conn, tx, answer, client >>

Disconnect(r) ==
    /\ Faults
    /\ Running
    /\ pc[r] \notin {"none", "done"} /\ ~gone[r]
    /\ gone' = [gone EXCEPT ![r] = TRUE]
    /\ stalled' = [stalled EXCEPT ![r] = FALSE]
    /\ UNCHANGED << process, pc, conn, tx, answer >>

(* The server has no timeouts: while a handler reads the form, and while   *)
(* it or net/http writes the answer, it waits for its client for as long   *)
(* as that stays connected.                                                *)
Stall(r) ==
    /\ Faults
    /\ Running
    /\ pc[r] \in {"handling", "answering"} /\ ~gone[r] /\ ~stalled[r]
    /\ stalled' = [stalled EXCEPT ![r] = TRUE]
    /\ UNCHANGED << process, pc, conn, tx, answer, gone >>

Resume(r) ==
    /\ Running
    /\ stalled[r]
    /\ stalled' = [stalled EXCEPT ![r] = FALSE]
    /\ UNCHANGED << process, pc, conn, tx, answer, gone >>

(* Begin takes a connection of the pool for the whole request. *)
Begin(r, c) ==
    /\ PoolOpen
    /\ pc[r] = "waiting"
    /\ c \in Idle
    /\ pc' = [pc EXCEPT ![r] = "handling"]
    /\ conn' = [conn EXCEPT ![r] = c]
    /\ tx' = [tx EXCEPT ![r] = "open"]
    /\ UNCHANGED << process, answer, client >>

(* Where Begin returns an error the middleware returns, without a word to  *)
(* the client: net/http answers 200.                                       *)
BeginError(r) ==
    /\ Running /\ main # "no pool"
    /\ pc[r] = "waiting"
    /\ pc' = [pc EXCEPT ![r] = "answering"]
    /\ UNCHANGED << process, conn, tx, answer, client >>

BeginRefused(r) == (~PoolOpen \/ gone[r]) /\ BeginError(r)

BeginFails(r) == Faults /\ BeginError(r)

(* Begin with no pool panics; chi's Recoverer answers. *)
BeginPanics(r) ==
    /\ main = "no pool"
    /\ pc[r] = "waiting"
    /\ pc' = [pc EXCEPT ![r] = "answering"]
    /\ First(r, StatusInternalServerError)
    /\ UNCHANGED << process, conn, tx, statusCode, failed, client >>

-----------------------------------------------------------------------------
(* The handler, as ViewBuilder.Wrap runs it. *)
HandlerEnds(r) ==
    /\ Running
    /\ pc[r] = "handling" /\ ~stalled[r]
    /\ pc' = [pc EXCEPT ![r] = "ending"]
    /\ UNCHANGED << process, conn, tx, client >>

(* RenderBytes, of a handler that writes more than once. *)
RenderBytes(r) ==
    /\ Running
    /\ pc[r] = "handling" /\ ~stalled[r] /\ sent[r] = NULL
    /\ First(r, StatusOK)
    /\ UNCHANGED << process, pc, conn, tx, statusCode, failed, client >>

Render(r) ==
    /\ HandlerEnds(r)
    /\ First(r, StatusOK)
    /\ UNCHANGED << statusCode, failed >>

Redirect(r) ==
    /\ HandlerEnds(r)
    /\ sent[r] = NULL
    /\ WriteHeader(r, StatusFound)
    /\ UNCHANGED failed

(* An error or a panic, of the handler or before it: HandleError.  A panic *)
(* of HandleError itself is recovered by CommitOrRollback, to the same end.*)
HandleError(r) ==
    /\ HandlerEnds(r)
    /\ WriteHeader(r, StatusInternalServerError)
    /\ failed' = [failed EXCEPT ![r] = TRUE]

-----------------------------------------------------------------------------
(* CommitOrRollback.  With a context that is done, or a connection that is *)
(* lost, COMMIT is an error that is logged, and the database rolls back.   *)
MustRollBack(r) == statusCode[r] > 400

OutcomesOfLost(r) == IF gone[r] THEN {NULL} ELSE {"committed", "rolled back"}

Outcomes(r) ==
    IF MustRollBack(r) THEN {"rolled back"}
    ELSE (IF gone[r] THEN {} ELSE {"committed"})
         \cup (IF gone[r] \/ Faults THEN {"rolled back"} ELSE {})

ReleaseCommitted(r) == conn' = [conn EXCEPT ![r] = IF MustRollBack(r) THEN @ ELSE NULL]

Release(r) == conn' = [conn EXCEPT ![r] = NULL]

CommitOrRollback(r) ==
    /\ Running
    /\ pc[r] = "ending"
    /\ pc' = [pc EXCEPT ![r] = "answering"]
    /\ \E outcome \in Outcomes(r) : tx' = [tx EXCEPT ![r] = outcome]
    /\ Release(r)
    /\ UNCHANGED << process, answer, client >>

(* net/http sends what was written, or 200 when nothing was. *)
Answer(r) ==
    /\ Running
    /\ pc[r] = "answering" /\ ~stalled[r]
    /\ pc' = [pc EXCEPT ![r] = "done"]
    /\ First(r, StatusOK)
    /\ UNCHANGED << process, conn, tx, statusCode, failed, client >>

-----------------------------------------------------------------------------
Main == Setup \/ SetupFails \/ Return \/ PoolCloses \/ ForgetPool \/ Exit

BeginEnds(r) == (\E c \in Connections : Begin(r, c)) \/ BeginRefused(r) \/ BeginPanics(r)

Handle(r) == Render(r) \/ Redirect(r) \/ HandleError(r)

Serve(r) ==
    \/ Arrive(r) \/ Disconnect(r) \/ Stall(r) \/ Resume(r)
    \/ BeginEnds(r) \/ BeginFails(r)
    \/ RenderBytes(r) \/ Handle(r)
    \/ CommitOrRollback(r)
    \/ Answer(r)

Next == Main \/ Interrupt \/ ListenAndServeFails \/ \E r \in Requests : Serve(r)

(* Goroutines run, and the database answers: nothing that can be done is   *)
(* put off forever, and no failure is counted on.  A handler whose client  *)
(* keeps it waiting cannot end, and nothing makes a client resume or leave.*)
(* Each request is served once, so that none is overtaken without end      *)
(* while it waits.                                                         *)
Fairness ==
    /\ WF_vars(Main)
    /\ \A r \in Requests :
          /\ WF_vars(BeginEnds(r))
          /\ WF_vars(Handle(r))
          /\ WF_vars(CommitOrRollback(r))
          /\ WF_vars(Answer(r))

Spec == Init /\ [][Next]_vars /\ Fairness
=============================================================================
