---------------------------- MODULE ServerProofs ----------------------------
(***************************************************************************)
(* Proofs of the invariants of Server.tla, for any number of requests and  *)
(* connections and any faults.                                             *)
(***************************************************************************)
EXTENDS ServerProperties, TLAPS

(* What a request has, by where its serving is: until it begins it has     *)
(* done nothing, and while it is handled it was told nothing but 200.      *)
NothingYet(r) ==
    pc[r] \in {"none", "waiting"} =>
        tx[r] = "none" /\ sent[r] = NULL /\ ~failed[r] /\ conn[r] = NULL /\ ~stalled[r]

UnderWay(r) ==
    pc[r] = "handling" => tx[r] = "open" /\ sent[r] \in {NULL, StatusOK} /\ ~failed[r]

Ending(r) ==
    pc[r] = "ending" =>
        /\ tx[r] = "open"
        /\ failed[r] \/ sent[r] = StatusInternalServerError
               => statusCode[r] = StatusInternalServerError

Ended(r) == pc[r] \in {"answering", "done"} => tx[r] # "open"

(* Nothing arrives before main listens.                                    *)
Quiet == main = "starting" => ~listening /\ \A r \in Requests : pc[r] = "none"

(* The inductive invariant. *)
IInv ==
    /\ TypeOK
    /\ \A r \in Requests : NothingYet(r) /\ UnderWay(r) /\ Ending(r) /\ Ended(r)
    /\ Quiet
    /\ FailedLeavesNothing
    /\ NobodyCutOff
    /\ ConnectionsOfTransactions

-----------------------------------------------------------------------------
(* The variables have the values that the code gives them.                 *)
LEMMA CodesKnown ==
    StatusOK \in Codes /\ StatusFound \in Codes /\ StatusInternalServerError \in Codes
  BY DEF Codes

LEMMA TypeOfSent ==
    ASSUME NEW r \in Requests, NEW code \in Codes,
           sent \in [Requests -> Codes \cup {NULL}], First(r, code)
    PROVE  sent' \in [Requests -> Codes \cup {NULL}]
  BY DEF First

LEMMA TypeOfOutcome ==
    ASSUME NEW r \in Requests
    PROVE  Outcomes(r) \subseteq {"committed", "rolled back"}
  BY DEF Outcomes

LEMMA TypeInit == Init => TypeOK
<1> SUFFICES ASSUME Init PROVE TypeOK
    OBVIOUS
<1>1. main = "starting" /\ interrupted \in BOOLEAN /\ listening \in BOOLEAN
    BY DEF Init
<1>2. pc \in [Requests -> Stages]
    BY DEF Init, Stages
<1>3. conn \in [Requests -> Connections \cup {NULL}] /\ sent \in [Requests -> Codes \cup {NULL}]
    BY DEF Init
<1>4. tx \in [Requests -> {"none", "open", "committed", "rolled back"}]
    BY DEF Init
<1>5. statusCode \in [Requests -> Codes]
    BY DEF Init, Codes
<1>6. failed \in [Requests -> BOOLEAN] /\ gone \in [Requests -> BOOLEAN]
      /\ stalled \in [Requests -> BOOLEAN]
    BY DEF Init
<1> QED BY <1>1, <1>2, <1>3, <1>4, <1>5, <1>6 DEF TypeOK

LEMMA TypeStep == TypeOK /\ [Next]_vars => TypeOK'
<1> SUFFICES ASSUME TypeOK, [Next]_vars
             PROVE  TypeOK'
  OBVIOUS
<1> USE DEF TypeOK, Stages
<1>1. CASE Main
  <2>1. UNCHANGED << interrupted, pc, conn, tx, answer, client >>
    BY <1>1 DEF Main, Setup, SetupFails, Return, PoolCloses, ForgetPool, Exit
  <2>2. /\ main' \in {"starting", "serving", "closing", "closed", "no pool", "exited"}
        /\ listening' \in BOOLEAN
    BY <1>1 DEF Main, Setup, SetupFails, Return, PoolCloses, Close, ForgetPool, Exit
  <2> QED
    BY <2>1, <2>2 DEF answer, client
<1>2. CASE Interrupt
  BY <1>2 DEF Interrupt, answer, client
<1>3. CASE ListenAndServeFails
  BY <1>3 DEF ListenAndServeFails, answer, client
<1>4. ASSUME NEW r \in Requests, Serve(r)
      PROVE  TypeOK'
  <2>1. UNCHANGED process
    BY <1>4 DEF Serve, Arrive, Disconnect, Stall, Resume, BeginEnds, Begin, BeginRefused, BeginFails,
                BeginError, BeginPanics, RenderBytes, Handle, Render, Redirect,
                HandleError, HandlerEnds, CommitOrRollback, Answer
  <2>2. CASE Arrive(r)
    BY <2>1, <2>2 DEF Arrive, process, answer, client
  <2>3. CASE Disconnect(r) \/ Stall(r) \/ Resume(r)
    BY <2>1, <2>3 DEF Disconnect, Stall, Resume, process, answer, client
  <2>4. ASSUME NEW c \in Connections, Begin(r, c)
        PROVE  TypeOK'
    BY <2>1, <2>4 DEF Begin, process, answer, client
  <2>5. CASE BeginError(r)
    BY <2>1, <2>5 DEF BeginError, process, answer, client
  <2>6. CASE BeginPanics(r)
    BY <2>1, <2>6, TypeOfSent, CodesKnown DEF BeginPanics, process, client
  <2>7. CASE RenderBytes(r)
    BY <2>1, <2>7, TypeOfSent, CodesKnown DEF RenderBytes, process, client
  <2>8. CASE Render(r)
    BY <2>1, <2>8, TypeOfSent, CodesKnown DEF Render, HandlerEnds, process, client
  <2>9. CASE Redirect(r)
    BY <2>1, <2>9, TypeOfSent, CodesKnown DEF Redirect, HandlerEnds, WriteHeader, process, client
  <2>10. CASE HandleError(r)
    BY <2>1, <2>10, TypeOfSent, CodesKnown DEF HandleError, HandlerEnds, WriteHeader, process, client
  <2>11. CASE CommitOrRollback(r)
    BY <2>1, <2>11, TypeOfOutcome DEF CommitOrRollback, Release, process, answer, client
  <2>12. CASE Answer(r)
    BY <2>1, <2>12, TypeOfSent, CodesKnown DEF Answer, process, client
  <2> QED
    BY <1>4, <2>2, <2>3, <2>4, <2>5, <2>6, <2>7, <2>8, <2>9, <2>10, <2>11, <2>12
       DEF Serve, BeginEnds, BeginRefused, BeginFails, Handle
<1>5. CASE UNCHANGED vars
  BY <1>5 DEF vars, process, answer, client
<1> QED
  BY <1>1, <1>2, <1>3, <1>4, <1>5 DEF Next

(* main, the pool, the requests and what their clients were told have      *)
(* their types in every state.                                             *)
THEOREM TypeCorrect == Spec => []TypeOK
<1>1. Init => TypeOK
  BY TypeInit
<1>2. TypeOK /\ [Next]_vars => TypeOK'
  BY TypeStep
<1> QED
  BY <1>1, <1>2, PTL DEF Spec

-----------------------------------------------------------------------------
(* A step of main leaves the requests alone, and closes the pool only when *)
(* no connection is out.                                                   *)
LEMMA MainStep == IInv /\ (Main \/ Interrupt \/ ListenAndServeFails) => IInv'
<1> SUFFICES ASSUME IInv, Main \/ Interrupt \/ ListenAndServeFails
             PROVE  IInv'
  OBVIOUS
<1>1. TypeOK'
  BY TypeStep DEF IInv, Next
<1>2. UNCHANGED << pc, conn, tx, answer, client >>
  BY DEF Main, Setup, SetupFails, Return, PoolCloses, ForgetPool, Exit, Interrupt,
         ListenAndServeFails
<1>3. /\ \A r \in Requests : NothingYet(r)' /\ UnderWay(r)' /\ Ending(r)' /\ Ended(r)'
      /\ FailedLeavesNothing'
      /\ ConnectionsOfTransactions'
  BY <1>2 DEF IInv, NothingYet, UnderWay, Ending, Ended, FailedLeavesNothing,
              ConnectionsOfTransactions, answer, client
<1>4. Quiet'
  BY <1>2 DEF IInv, Quiet, Main, Setup, SetupFails, Return, PoolCloses, Close, ForgetPool,
              Exit, Interrupt, ListenAndServeFails
<1>5. NobodyCutOff'
  <2>1. CASE PoolCloses
    <3>1. \A r \in Requests : conn[r] = NULL
      BY <2>1, ServerAssumption DEF PoolCloses, Close, Idle, IInv, TypeOK
    <3> QED
      BY <1>2, <3>1 DEF IInv, ConnectionsOfTransactions, NobodyCutOff
  <2>2. CASE SetupFails
    BY <1>2, <2>2 DEF SetupFails, IInv, Quiet, NothingYet, NobodyCutOff
  <2>3. CASE ~PoolCloses /\ ~SetupFails
    BY <1>2, <2>3 DEF IInv, NobodyCutOff, Main, Setup, Return, ForgetPool, Exit, Interrupt,
                      ListenAndServeFails
  <2> QED
    BY <2>1, <2>2, <2>3
<1> QED
  BY <1>1, <1>3, <1>4, <1>5 DEF IInv

(* What a step of the serving of r must keep true of r; the rest of the    *)
(* invariant follows, for it leaves main and the other requests alone.     *)
Kept(r) ==
    /\ NothingYet(r)' /\ UnderWay(r)' /\ Ending(r)' /\ Ended(r)'
    /\ failed'[r] \/ sent'[r] = StatusInternalServerError => tx'[r] # "committed"
    /\ tx'[r] = "open" => main \notin {"closed", "no pool", "exited"}
    /\ conn'[r] # NULL <=> tx'[r] = "open"
    /\ \A s \in Requests \ {r} : conn[s] = conn'[r] => conn'[r] = NULL

OthersAlone(r) ==
    \A s \in Requests \ {r} :
        /\ pc'[s] = pc[s] /\ conn'[s] = conn[s] /\ tx'[s] = tx[s] /\ sent'[s] = sent[s]
        /\ statusCode'[s] = statusCode[s] /\ failed'[s] = failed[s]
        /\ stalled'[s] = stalled[s]

LEMMA ServeAlone ==
    ASSUME TypeOK, NEW r \in Requests, Serve(r)
    PROVE  UNCHANGED process /\ OthersAlone(r)
<1> USE DEF TypeOK, OthersAlone, answer, client
<1>1. CASE Arrive(r) \/ Disconnect(r) \/ Stall(r) \/ Resume(r) \/ BeginError(r)
  BY <1>1 DEF Arrive, Disconnect, Stall, Resume, BeginError
<1>2. ASSUME NEW c \in Connections, Begin(r, c)
      PROVE  UNCHANGED process /\ OthersAlone(r)
  BY <1>2 DEF Begin
<1>3. CASE BeginPanics(r) \/ RenderBytes(r) \/ Answer(r)
  BY <1>3 DEF BeginPanics, RenderBytes, Answer, First
<1>4. CASE Handle(r)
  BY <1>4 DEF Handle, Render, Redirect, HandleError, HandlerEnds, WriteHeader, First
<1>5. CASE CommitOrRollback(r)
  BY <1>5 DEF CommitOrRollback, Release
<1> QED
  BY <1>1, <1>2, <1>3, <1>4, <1>5 DEF Serve, BeginEnds, BeginRefused, BeginFails

LEMMA NotStarting ==
    ASSUME Quiet, NEW r \in Requests, NothingYet(r), Serve(r)
    PROVE  main # "starting"
<1>1. pc[r] # "none" \/ listening
  <2>1. CASE Arrive(r) \/ Disconnect(r) \/ Stall(r) \/ Resume(r) \/ BeginError(r) \/ BeginPanics(r)
    BY <2>1 DEF Arrive, Disconnect, Stall, Resume, BeginError, BeginPanics, NothingYet
  <2>2. ASSUME NEW c \in Connections, Begin(r, c)
        PROVE  pc[r] # "none"
    BY <2>2 DEF Begin
  <2>3. CASE RenderBytes(r) \/ HandlerEnds(r) \/ CommitOrRollback(r) \/ Answer(r)
    BY <2>3 DEF RenderBytes, HandlerEnds, CommitOrRollback, Answer
  <2> QED
    BY <2>1, <2>2, <2>3
       DEF Serve, BeginEnds, BeginRefused, BeginFails, Handle, Render, Redirect, HandleError
<1> QED
  BY <1>1 DEF Quiet

LEMMA KeptSuffices ==
    ASSUME IInv, NEW r \in Requests, Serve(r), Kept(r)
    PROVE  IInv'
<1>1. TypeOK'
  BY TypeStep DEF IInv, Next
<1>2. UNCHANGED process /\ OthersAlone(r)
  BY ServeAlone DEF IInv
<1>3. ASSUME NEW s \in Requests
      PROVE  NothingYet(s)' /\ UnderWay(s)' /\ Ending(s)' /\ Ended(s)'
  <2>1. CASE s = r
    BY <2>1 DEF Kept
  <2>2. CASE s # r
    BY <1>2, <2>2 DEF IInv, OthersAlone, NothingYet, UnderWay, Ending, Ended
  <2> QED
    BY <2>1, <2>2
<1>4. FailedLeavesNothing'
  BY <1>2 DEF IInv, Kept, OthersAlone, FailedLeavesNothing
<1>5. NobodyCutOff'
  BY <1>2 DEF IInv, Kept, OthersAlone, NobodyCutOff, process
<1>6. ConnectionsOfTransactions'
  <2>1. ASSUME NEW s \in Requests
        PROVE  conn'[s] # NULL <=> tx'[s] = "open"
    BY <1>2 DEF IInv, Kept, OthersAlone, ConnectionsOfTransactions
  <2>2. ASSUME NEW s \in Requests, NEW t \in Requests, s # t, conn'[s] = conn'[t]
        PROVE  conn'[s] = NULL
    <3>1. CASE s = r \/ t = r
      BY <1>2, <2>2, <3>1 DEF Kept, OthersAlone
    <3>2. CASE s # r /\ t # r
      BY <1>2, <2>2, <3>2 DEF IInv, OthersAlone, ConnectionsOfTransactions
    <3> QED
      BY <3>1, <3>2
  <2> QED
    BY <2>1, <2>2 DEF ConnectionsOfTransactions
<1>7. Quiet'
  <2>1. main # "starting"
    BY NotStarting DEF IInv
  <2> QED
    BY <1>2, <2>1 DEF Quiet, process
<1> QED
  BY <1>1, <1>3, <1>4, <1>5, <1>6, <1>7 DEF IInv

LEMMA CodesDiffer ==
    /\ StatusOK # StatusInternalServerError
    /\ StatusFound # StatusInternalServerError
    /\ NULL # StatusInternalServerError
  BY ServerAssumption DEF StatusOK, StatusFound, StatusInternalServerError

LEMMA ErrorRollsBack ==
    ASSUME NEW r \in Requests, statusCode[r] = StatusInternalServerError
    PROVE  Outcomes(r) = {"rolled back"}
<1>1. MustRollBack(r)
  BY DEF MustRollBack, StatusInternalServerError
<1> QED
  BY <1>1 DEF Outcomes

LEMMA ServeStep ==
    ASSUME IInv, NEW r \in Requests, Serve(r)
    PROVE  IInv'
<1> SUFFICES Kept(r)
  BY KeptSuffices
<1> USE DEF IInv, TypeOK, Stages, Kept, NothingYet, UnderWay, Ending, Ended,
            FailedLeavesNothing, NobodyCutOff, ConnectionsOfTransactions, answer, client
<1>1. CASE Arrive(r) \/ Disconnect(r) \/ Stall(r) \/ Resume(r) \/ BeginError(r)
  BY <1>1 DEF Arrive, Disconnect, Stall, Resume, BeginError
<1>2. ASSUME NEW c \in Connections, Begin(r, c)
      PROVE  Kept(r)
  BY <1>2, ServerAssumption DEF Begin, PoolOpen, Idle
<1>3. CASE BeginPanics(r)
  BY <1>3 DEF BeginPanics, First
<1>4. CASE RenderBytes(r)
  BY <1>4, CodesDiffer DEF RenderBytes, First
<1>5. CASE Answer(r)
  BY <1>5, CodesDiffer DEF Answer, First
<1>6. CASE Handle(r)
  <2>1. CASE Render(r)
    BY <2>1, CodesDiffer DEF Render, HandlerEnds, First
  <2>2. CASE Redirect(r)
    BY <2>2, CodesDiffer DEF Redirect, HandlerEnds, WriteHeader, First
  <2>3. CASE HandleError(r)
    BY <2>3 DEF HandleError, HandlerEnds, WriteHeader, First
  <2> QED
    BY <1>6, <2>1, <2>2, <2>3 DEF Handle
<1>7. CASE CommitOrRollback(r)
  <2>1. tx'[r] \in Outcomes(r)
    BY <1>7 DEF CommitOrRollback
  <2>2. failed[r] \/ sent[r] = StatusInternalServerError => tx'[r] # "committed"
    BY <1>7, <2>1, ErrorRollsBack DEF CommitOrRollback
  <2> QED
    BY <1>7, <2>1, <2>2, TypeOfOutcome DEF CommitOrRollback, Release
<1> QED
  BY <1>1, <1>2, <1>3, <1>4, <1>5, <1>6, <1>7 DEF Serve, BeginEnds, BeginRefused, BeginFails

LEMMA Inductive == IInv /\ [Next]_vars => IInv'
<1> SUFFICES ASSUME IInv, [Next]_vars
             PROVE  IInv'
  OBVIOUS
<1>1. CASE Main \/ Interrupt \/ ListenAndServeFails
  BY <1>1, MainStep
<1>2. ASSUME NEW r \in Requests, Serve(r)
      PROVE  IInv'
  BY <1>2, ServeStep
<1>3. CASE UNCHANGED vars
  BY <1>3 DEF vars, process, answer, client, IInv, TypeOK, Quiet, NothingYet, UnderWay, Ending, Ended,
              FailedLeavesNothing, NobodyCutOff, ConnectionsOfTransactions
<1> QED
  BY <1>1, <1>2, <1>3 DEF Next

LEMMA Initial == Init => IInv
  BY TypeInit, ServerAssumption
     DEF Init, IInv, Quiet, NothingYet, UnderWay, Ending, Ended, FailedLeavesNothing,
         NobodyCutOff, ConnectionsOfTransactions, StatusInternalServerError

-----------------------------------------------------------------------------
(* A request that failed, or whose client was told so, leaves nothing.     *)
THEOREM FailedRequestsLeaveNothing == Spec => []FailedLeavesNothing
<1>1. IInv => FailedLeavesNothing
  BY DEF IInv
<1> QED
  BY <1>1, Initial, Inductive, PTL DEF Spec

(* Ending the program cuts nobody off in a transaction.                    *)
THEOREM EndCutsNobodyOff == Spec => []NobodyCutOff
<1>1. IInv => NobodyCutOff
  BY DEF IInv
<1> QED
  BY <1>1, Initial, Inductive, PTL DEF Spec

(* Connections and open transactions belong together, one to one.          *)
THEOREM ConnectionsBelong == Spec => []ConnectionsOfTransactions
<1>1. IInv => ConnectionsOfTransactions
  BY DEF IInv
<1> QED
  BY <1>1, Initial, Inductive, PTL DEF Spec
=============================================================================
