------------------------ MODULE CircuitBreakerProofs ------------------------
(***************************************************************************)
(* The circuit breaker, for any number of request processes, any           *)
(* thresholds and any number of owner restarts: at most one recovery       *)
(* attempt runs (OneProbeAtATime), the owner knows the lease row it turns  *)
(* others away for (NoForgottenLease), its state is well typed             *)
(* (TypeCorrect), its count is what is in flight (CountIsReal) and its     *)
(* phases follow the order of a recovery (RecoveryKeepsOrder).             *)
(*                                                                         *)
(* Inv serves the first: the row of a running attempt is claimed, and      *)
(* nothing its process has sent is left for the owner to act on.  Books    *)
(* serves the last three: what the owner remembers, the row, the receipts  *)
(* and the mailbox say of each other.                                      *)
(***************************************************************************)
EXTENDS CircuitBreaker, TLAPS, FiniteSetTheorems, SequenceTheorems, WellFoundedInduction

Shape ==
  /\ pc \in [Callers -> Places]
  /\ queue \in [Callers -> Seq(Messages)]

(* An attempt that runs holds the row.                                     *)
ProbeHoldsTheRow == \A c \in Callers : pc[c] = "probing" => Holds(c)

(* The owner has nothing to handle from a process that has not asked, runs *)
(* an attempt or has just been granted one, and only the request of a      *)
(* process that waits.                                                     *)
NothingUnderWay ==
  \A c \in Callers :
    /\ pc[c] \in {"idle", "granted", "probing", "serving"} => queue[c] = << >>
    /\ pc[c] = "asking" => queue[c] = << >> \/ queue[c] = <<"admit">>

Inv == Shape /\ ProbeHoldsTheRow /\ NothingUnderWay

-----------------------------------------------------------------------------
(* What takes an attempt off the books leaves the row of another alone.    *)
LEMMA ReleaseKeepsOthers ==
  ASSUME NEW c \in Callers, ProbeHoldsTheRow, pc[c] # "probing", ReleaseAttempt(c), pc' = pc
  PROVE  ProbeHoldsTheRow'
BY DEF ReleaseAttempt, TakeAttempt, ProbeHoldsTheRow, Holds, NoLease

(* A process whose message the owner takes does not run an attempt, and    *)
(* what it sent besides is for another than a waiting process.             *)
LEMMA TakenIsNotProbing ==
  ASSUME NEW c \in Callers, NEW messages, Inv, Takes(c, messages)
  PROVE  /\ pc[c] \notin {"idle", "granted", "probing", "serving"}
         /\ queue' \in [Callers -> Seq(Messages)]
         /\ \A d \in Callers \ {c} : queue'[d] = queue[d]
         /\ pc[c] = "asking" => queue'[c] = << >> /\ "admit" \in messages
  <1>1. queue[c] \in Seq(Messages) /\ queue[c] # << >>
    BY DEF Inv, Shape, Takes
  <1>2. Tail(queue[c]) \in Seq(Messages)
    BY <1>1
  <1>3. queue' = [queue EXCEPT ![c] = Tail(@)] /\ Head(queue[c]) \in messages
    BY DEF Takes
  <1>4. pc[c] = "asking" => queue[c] = <<"admit">>
    BY <1>1 DEF Inv, NothingUnderWay
  <1>5. Tail(<<"admit">>) = << >> /\ Head(<<"admit">>) = "admit"
    OBVIOUS
  <1> QED
    BY <1>1, <1>2, <1>3, <1>4, <1>5 DEF Inv, Shape, NothingUnderWay

(* The handlers that take a message and answer nobody.                     *)
LEMMA HandlerStep ==
  ASSUME NEW c \in Callers, NEW messages, Inv, Takes(c, messages), "admit" \notin messages,
         pc' = pc, ReleaseAttempt(c) \/ TakeAttempt(c) \/ lease' = lease
  PROVE  Inv'
  <1>1. pc[c] # "probing" /\ pc[c] # "asking"
    BY TakenIsNotProbing
  <1>2. ProbeHoldsTheRow'
    BY <1>1 DEF ReleaseAttempt, TakeAttempt, Inv, ProbeHoldsTheRow, Holds, NoLease
  <1>3. Shape' /\ NothingUnderWay'
    BY TakenIsNotProbing, <1>1 DEF Inv, Shape, NothingUnderWay
  <1> QED
    BY <1>2, <1>3 DEF Inv

(* The answers to a request for admission.                                 *)
LEMMA AnswerStep ==
  ASSUME NEW c \in Callers, NEW place \in {"done", "granted"}, Inv,
         Takes(c, {"admit"}), Replies(c, place), lease' = lease \/ ~lease.held
  PROVE  Inv'
  <1>1. /\ pc[c] \notin {"idle", "granted", "probing", "serving"}
        /\ queue' \in [Callers -> Seq(Messages)]
        /\ \A d \in Callers \ {c} : queue'[d] = queue[d]
        /\ pc[c] = "asking" => queue'[c] = << >>
    BY TakenIsNotProbing
  <1>2. /\ pc' \in [Callers -> Places]
        /\ \A d \in Callers \ {c} : pc'[d] = pc[d]
        /\ pc'[c] = IF pc[c] = "asking" THEN place ELSE pc[c]
    BY DEF Replies, Inv, Shape, Places
  <1>3. ProbeHoldsTheRow'
    BY <1>1, <1>2 DEF Inv, ProbeHoldsTheRow, Holds
  <1>4. NothingUnderWay'
    BY <1>1, <1>2 DEF Inv, NothingUnderWay
  <1> QED
    BY <1>1, <1>2, <1>3, <1>4 DEF Inv, Shape

-----------------------------------------------------------------------------
(* A step that changes no process, message or row.                         *)
LEMMA ElsewhereStep ==
  ASSUME Inv, UNCHANGED <<pc, queue, lease>>
  PROVE  Inv'
BY DEF Inv, Shape, ProbeHoldsTheRow, NothingUnderWay, Holds

(* A step of one process: where it goes, what it sends and what the row    *)
(* becomes.                                                                *)
LEMMA MoveStep ==
  ASSUME NEW c \in Callers, NEW place \in Places, Inv, Moves(c, place),
         queue' \in [Callers -> Seq(Messages)],
         \A d \in Callers \ {c} : queue'[d] = queue[d],
         place \in {"idle", "granted", "probing", "serving"} => queue'[c] = << >>,
         place = "asking" => queue'[c] = << >> \/ queue'[c] = <<"admit">>,
         \/ lease' = lease
         \/ lease'.held /\ lease.held /\ lease'.token = lease.token
         \/ Holds(c) /\ pc[c] # "probing",
         place = "probing" => lease'.held /\ lease'.token = c
  PROVE  Inv'
  <1>1. pc' \in [Callers -> Places] /\ pc'[c] = place
        /\ \A d \in Callers \ {c} : pc'[d] = pc[d]
    BY DEF Moves, Inv, Shape
  <1>2. ProbeHoldsTheRow'
    BY <1>1 DEF Inv, ProbeHoldsTheRow, Holds
  <1>3. NothingUnderWay'
    BY <1>1 DEF Inv, NothingUnderWay
  <1> QED
    BY <1>1, <1>2, <1>3 DEF Inv, Shape

LEMMA Sending ==
  ASSUME NEW c \in Callers, NEW message \in Messages, Inv, Sends(c, message)
  PROVE  /\ queue' \in [Callers -> Seq(Messages)]
         /\ \A d \in Callers \ {c} : queue'[d] = queue[d]
         /\ queue[c] = << >> => queue'[c] = << >> \/ queue'[c] = <<message>>
  <1>1. queue[c] \in Seq(Messages)
    BY DEF Inv, Shape
  <1>2. Append(queue[c], message) \in Seq(Messages)
    BY <1>1
  <1>3. queue[c] = << >> => Append(queue[c], message) = <<message>>
    OBVIOUS
  <1> QED
    BY <1>1, <1>2, <1>3 DEF Sends, Inv, Shape

LEMMA CallerStepInv ==
  ASSUME NEW c \in Callers, Inv, CallerStep(c)
  PROVE  Inv'
  <1>0. queue \in [Callers -> Seq(Messages)] /\ "admit" \in Messages
        /\ "release_token" \in Messages /\ "abandon" \in Messages
    BY DEF Inv, Shape, Messages
  <1>1. CASE Admit(c)
    <2>1. queue[c] = << >>
      BY <1>1 DEF Admit, Inv, NothingUnderWay
    <2>2. CASE Moves(c, "serving") /\ UNCHANGED queue
      BY <1>0, <1>1, <2>1, <2>2, MoveStep DEF Admit, Places
    <2>3. CASE Moves(c, "asking") /\ Sends(c, "admit")
      BY <1>0, <1>1, <2>1, <2>3, MoveStep, Sending DEF Admit, Places
    <2> QED
      BY <1>1, <2>2, <2>3 DEF Admit
  <1>2. CASE AdmissionTimeout(c)
    BY <1>0, <1>2, MoveStep, Sending DEF AdmissionTimeout, Places
  <1>3. CASE AdmissionFails(c)
    BY <1>0, <1>3, MoveStep DEF AdmissionFails, Places
  <1>4. CASE Activate(c)
    <2>1. queue[c] = << >> /\ lease.held /\ lease.token = c
      BY <1>4 DEF Activate, Inv, NothingUnderWay, Unclaimed, Holds
    <2>2. lease'.held /\ lease'.token = c
      BY <1>4, <2>1 DEF Activate
    <2> QED
      BY <1>0, <1>4, <2>1, <2>2, MoveStep DEF Activate, Places
  <1>5. CASE AbandonUnclaimed(c)
    <2>1. lease' = lease \/ (Holds(c) /\ pc[c] # "probing")
      BY <1>5 DEF AbandonUnclaimed, Unclaimed
    <2> QED
      BY <1>0, <1>5, <2>1, MoveStep, Sending DEF AbandonUnclaimed, Places
  <1>6. CASE FinishProbe(c)
    <2>1. PICK message \in Messages : Sends(c, message)
      BY <1>6 DEF FinishProbe, Messages
    <2> QED
      BY <1>0, <1>6, <2>1, MoveStep, Sending DEF FinishProbe, Places
  <1>7. CASE \E outcome \in Signals \cup {"neutral"} : FinishServing(c, outcome)
    BY <1>0, <1>7, MoveStep DEF FinishServing, Places
  <1>8. CASE Exit(c)
    BY <1>0, <1>8, MoveStep DEF Exit, Places
  <1>9. CASE Fresh(c)
    BY <1>0, <1>9, MoveStep DEF Fresh, Places
  <1> QED
    BY <1>1, <1>2, <1>3, <1>4, <1>5, <1>6, <1>7, <1>8, <1>9 DEF CallerStep

LEMMA HandleMessageInv ==
  ASSUME NEW c \in Callers, Inv, HandleMessage(c)
  PROVE  Inv'
  <1>1. CASE RefuseAdmission(c)
    BY <1>1, AnswerStep DEF RefuseAdmission
  <1>2. CASE GrantAdmission(c)
    BY <1>2, AnswerStep DEF GrantAdmission, LeaseRowFree
  <1>3. CASE LeaseBusy(c)
    BY <1>3, AnswerStep DEF LeaseBusy
  <1>4. CASE HandleReport(c)
    <2>1. ReleaseAttempt(c) \/ TakeAttempt(c) \/ lease' = lease
      BY <1>4 DEF HandleReport
    <2>2. pc' = pc
      BY <1>4 DEF HandleReport, CallerVars
    <2> QED
      BY <1>4, <2>1, <2>2, HandlerStep DEF HandleReport
  <1>5. CASE HandleRelease(c)
    <2>1. ReleaseAttempt(c) \/ lease' = lease
      BY <1>5 DEF HandleRelease
    <2>2. pc' = pc
      BY <1>5 DEF HandleRelease, CallerVars
    <2> QED
      BY <1>5, <2>1, <2>2, HandlerStep DEF HandleRelease
  <1> QED
    BY <1>1, <1>2, <1>3, <1>4, <1>5 DEF HandleMessage

(* A release outside the messages: the monitor, and the owner's start.     *)
LEMMA ReleaseStep ==
  ASSUME NEW c, Inv, ReleaseAttempt(c), UNCHANGED <<pc, queue>>,
         ~Holds(c) \/ (c \in Callers /\ pc[c] # "probing")
  PROVE  Inv'
BY DEF ReleaseAttempt, TakeAttempt, Inv, Shape, ProbeHoldsTheRow, NothingUnderWay, Holds, NoLease

LEMMA OwnerStepInv ==
  ASSUME Inv, OwnerStep
  PROVE  Inv'
  <1>1. ASSUME NEW c \in Callers, HandleMessage(c) PROVE Inv'
    BY <1>1, HandleMessageInv
  <1>2. ASSUME NEW c \in Callers, Down(c) PROVE Inv'
    BY <1>2, ReleaseStep DEF Down, Alive, CallerVars
  <1>3. CASE ControlReady
    BY <1>3, ElsewhereStep DEF ControlReady, CallerVars
  <1>4. CASE ControlAudit
    BY <1>4, ElsewhereStep DEF ControlAudit, CallerVars
  <1>5. CASE ProactiveRecovery
    BY <1>5, ElsewhereStep DEF ProactiveRecovery, CallerVars
  <1>6. CASE Restart
    <2>1. lease' = InheritedLease /\ UNCHANGED <<pc, queue>>
      BY <1>6 DEF Restart, CallerVars
    <2>2. \A c \in Callers : pc[c] = "probing" => Inherited
      BY DEF Inv, ProbeHoldsTheRow, Holds, Inherited, Alive
    <2> QED
      BY <2>1, <2>2 DEF Inv, Shape, ProbeHoldsTheRow, NothingUnderWay, Holds, InheritedLease
  <1>7. CASE Reconcile
    <2>1. CASE \E c \in DOMAIN attempts : ~Holds(c) /\ ReleaseAttempt(c)
      BY <1>7, <2>1, ReleaseStep DEF Reconcile, CallerVars
    <2>2. CASE UNCHANGED lease
      BY <1>7, <2>2, ElsewhereStep DEF Reconcile, CallerVars
    <2> QED
      BY <1>7, <2>1, <2>2 DEF Reconcile
  <1> QED
    BY <1>1, <1>2, <1>3, <1>4, <1>5, <1>6, <1>7 DEF OwnerStep

LEMMA FaultInv ==
  ASSUME Inv, Fault
  PROVE  Inv'
  <1>1. queue' = [c \in Callers |-> << >>] /\ pc' = pc
    BY DEF Fault, Crash, CrashGranting, OwnerDies, CallerVars
  <1>2. lease' = lease \/ ~lease.held
    BY DEF Fault, Crash, CrashGranting, LeaseRowFree
  <1>3. << >> \in Seq(Messages)
    OBVIOUS
  <1> QED
    BY <1>1, <1>2, <1>3 DEF Inv, Shape, ProbeHoldsTheRow, NothingUnderWay, Holds

LEMMA InvariantStep ==
  ASSUME Inv, [Next]_vars
  PROVE  Inv'
  <1>1. ASSUME NEW c \in Callers, CallerStep(c) PROVE Inv'
    BY <1>1, CallerStepInv
  <1>2. CASE OwnerStep
    BY <1>2, OwnerStepInv
  <1>3. CASE Time
    BY <1>3, ElsewhereStep DEF Time, DeadlinePasses, TimerFires, CallerVars
  <1>4. CASE Fault
    BY <1>4, FaultInv
  <1>5. CASE ReportExternalBounded
    BY <1>5, ElsewhereStep DEF ReportExternalBounded
  <1>6. CASE RecordFailure
    BY <1>6, ElsewhereStep DEF RecordFailure, CallerVars
  <1>7. CASE ManualOpen \/ ManualClose
    BY <1>7, ElsewhereStep DEF ManualOpen, ManualClose, CallerVars
  <1>8. CASE UNCHANGED vars
    BY <1>8, ElsewhereStep DEF vars
  <1> QED
    BY <1>1, <1>2, <1>3, <1>4, <1>5, <1>6, <1>7, <1>8 DEF Next

LEMMA InvariantInit == Init => Inv
  <1>1. << >> \in Seq(Messages)
    OBVIOUS
  <1> QED
    BY <1>1 DEF Init, Inv, Shape, Places, ProbeHoldsTheRow, NothingUnderWay

(* Of the recovery attempts the breaker grants (GenServer call             *)
(* :admit_exceptional, activate_attempt), at most one runs at any time,    *)
(* whatever the order of reports, releases, deaths and restarts.           *)
THEOREM OneProbeAtATime == Spec => []AtMostOneProbe
  <1>1. Inv => AtMostOneProbe
    BY DEF Inv, ProbeHoldsTheRow, Holds, AtMostOneProbe
  <1> QED
    BY <1>1, InvariantInit, InvariantStep, PTL DEF Spec

-----------------------------------------------------------------------------
(* From the moment an owner has read the row until it dies, it remembers   *)
(* the attempt the row names.                                              *)
RowIsRemembered == process # "down" /\ lease.held => lease.token \in DOMAIN attempts

LEMMA TakingForgetsTheRow ==
  ASSUME NEW c, RowIsRemembered, process' = process \/ process = "starting",
         ReleaseAttempt(c) \/ TakeAttempt(c) \/ UNCHANGED <<attempts, lease>>
  PROVE  RowIsRemembered'
BY DEF RowIsRemembered, ReleaseAttempt, TakeAttempt, Without, Holds, NoLease

LEMMA RememberedByCallers ==
  ASSUME NEW c \in Callers, RowIsRemembered, CallerStep(c)
  PROVE  RowIsRemembered'
  <1>1. process' = process /\ attempts' = attempts
    BY DEF CallerStep, Admit, AdmissionTimeout, AdmissionFails, Activate, AbandonUnclaimed,
           FinishProbe, FinishServing, Exit, Fresh, OwnerVars
  <1>2. \/ lease' = lease \/ ~lease'.held
        \/ lease.held /\ lease'.held /\ lease'.token = lease.token
    <2>1. CASE Activate(c)
      BY <2>1 DEF Activate, Unclaimed, Holds
    <2>2. CASE AbandonUnclaimed(c)
      BY <2>2 DEF AbandonUnclaimed, NoLease
    <2>3. CASE lease' = lease
      BY <2>3
    <2> QED
      BY <2>1, <2>2, <2>3
      DEF CallerStep, Admit, AdmissionTimeout, AdmissionFails, FinishProbe, FinishServing,
          Exit, Fresh
  <1> QED
    BY <1>1, <1>2 DEF RowIsRemembered

LEMMA RememberedByHandlers ==
  ASSUME NEW c \in Callers, RowIsRemembered, HandleMessage(c)
  PROVE  RowIsRemembered'
  <1>1. CASE GrantAdmission(c)
    <2>1. lease' = LeaseOf(c, Prepared.generation, breaker.epoch)
          /\ DOMAIN attempts' = DOMAIN attempts \cup {c}
      BY <1>1 DEF GrantAdmission
    <2> QED
      BY <2>1 DEF RowIsRemembered, LeaseOf
  <1>2. CASE RefuseAdmission(c) \/ LeaseBusy(c)
    BY <1>2 DEF RefuseAdmission, LeaseBusy, RowIsRemembered, OwnerVars
  <1>3. CASE HandleReport(c)
    <2>1. ReleaseAttempt(c) \/ TakeAttempt(c) \/ UNCHANGED <<attempts, lease>>
      BY <1>3 DEF HandleReport
    <2>2. process' = process
      BY <1>3 DEF HandleReport
    <2> QED
      BY <2>1, <2>2, TakingForgetsTheRow
  <1>4. CASE HandleRelease(c)
    <2>1. ReleaseAttempt(c) \/ UNCHANGED <<attempts, lease>>
      BY <1>4 DEF HandleRelease
    <2>2. process' = process
      BY <1>4 DEF HandleRelease
    <2> QED
      BY <2>1, <2>2, TakingForgetsTheRow
  <1> QED
    BY <1>1, <1>2, <1>3, <1>4 DEF HandleMessage

LEMMA RememberedByOwner ==
  ASSUME RowIsRemembered, OwnerStep
  PROVE  RowIsRemembered'
  <1>1. ASSUME NEW c \in Callers, HandleMessage(c) PROVE RowIsRemembered'
    BY <1>1, RememberedByHandlers
  <1>2. ASSUME NEW c \in Callers, Down(c) PROVE RowIsRemembered'
    BY <1>2, TakingForgetsTheRow DEF Down
  <1>3. CASE ControlReady \/ ControlAudit \/ ProactiveRecovery
    <2>1. UNCHANGED <<process, attempts, lease>>
      BY <1>3 DEF ControlReady, ControlAudit, ProactiveRecovery
    <2> QED
      BY <2>1 DEF RowIsRemembered
  <1>4. CASE Restart
    <2>1. lease' = InheritedLease
          /\ DOMAIN attempts' = IF Inherited THEN {lease.token} ELSE {}
      BY <1>4 DEF Restart
    <2> QED
      BY <2>1 DEF RowIsRemembered, InheritedLease, NoLease
  <1>5. CASE Reconcile
    <2>1. process = "starting"
      BY <1>5 DEF Reconcile
    <2>2. CASE \E c \in DOMAIN attempts : ReleaseAttempt(c)
      BY <2>1, <2>2, TakingForgetsTheRow
    <2>3. CASE UNCHANGED <<attempts, lease>>
      BY <2>1, <2>3, TakingForgetsTheRow
    <2> QED
      BY <1>5, <2>2, <2>3 DEF Reconcile
  <1> QED
    BY <1>1, <1>2, <1>3, <1>4, <1>5 DEF OwnerStep

LEMMA RememberedStep == RowIsRemembered /\ [Next]_vars => RowIsRemembered'
  <1> SUFFICES ASSUME RowIsRemembered, [Next]_vars PROVE RowIsRemembered'
    OBVIOUS
  <1>1. ASSUME NEW c \in Callers, CallerStep(c) PROVE RowIsRemembered'
    BY <1>1, RememberedByCallers
  <1>2. CASE OwnerStep
    BY <1>2, RememberedByOwner
  <1>3. CASE Fault
    <2>1. process' = "down"
      BY <1>3 DEF Fault, Crash, CrashGranting, OwnerDies
    <2> QED
      BY <2>1 DEF RowIsRemembered
  <1>4. CASE \/ Time \/ ReportExternalBounded \/ RecordFailure \/ ManualOpen \/ ManualClose
             \/ UNCHANGED vars
    <2>1. UNCHANGED <<process, attempts, lease>>
      BY <1>4 DEF Time, DeadlinePasses, TimerFires, ReportExternalBounded, RecordFailure,
                  ManualOpen, ManualClose, vars
    <2> QED
      BY <2>1 DEF RowIsRemembered
  <1> QED
    BY <1>1, <1>2, <1>3, <1>4 DEF Next

(* A serving owner never forgets the attempt whose row turns others away   *)
(* (recover_persisted_lease, take_attempt): it will see it end.            *)
THEOREM NoForgottenLease == Spec => []LeaseIsTracked
  <1>1. Init => RowIsRemembered
    BY DEF Init, RowIsRemembered, NoLease
  <1>2. RowIsRemembered => LeaseIsTracked
    BY DEF RowIsRemembered, LeaseIsTracked
  <1> QED
    BY <1>1, <1>2, RememberedStep, PTL DEF Spec
-----------------------------------------------------------------------------
(* The transitions of the owner's struct.  None of them counts an attempt: *)
(* the count survives with the generation, or starts again at zero.        *)
Struct ==
  [phase : Phases, failures : 0..FailureThreshold, successes : Nat, generation : Nat,
   epoch : Nat, health : {"healthy", "degraded"}, inflight : Nat, deadline : Deadlines,
   timer : Timers]

(* A recovery timer that fired in this opening did so after its deadline.  *)
Due(b) == b.timer = "fired" /\ b.phase = "open" => b.deadline # "future"

Rises(b, t) ==
  /\ t.epoch = b.epoch
  /\ \/ t.generation = b.generation /\ t.phase = b.phase
     \/ t.generation > b.generation

Advances(b, t) ==
  /\ t \in Struct /\ Due(t)
  /\ Rises(b, t)
  /\ IF t.generation = b.generation THEN t.inflight = b.inflight ELSE t.inflight = 0

LEMMA StructFields ==
  ASSUME NEW b \in Struct
  PROVE  /\ b.phase \in Phases /\ b.failures \in 0..FailureThreshold /\ b.successes \in Nat
         /\ b.generation \in Nat /\ b.epoch \in Nat /\ b.health \in {"healthy", "degraded"}
         /\ b.inflight \in Nat /\ b.deadline \in Deadlines /\ b.timer \in Timers
BY DEF Struct

LEMMA SameAdvances ==
  ASSUME NEW b \in Struct, Due(b)
  PROVE  Advances(b, b)
BY DEF Advances, Rises

LEMMA OpenedAdvances ==
  ASSUME NEW b \in Struct
  PROVE  Advances(b, Opened(b)) /\ Opened(b).phase = "open"
  <1>0. b.generation + 1 \in Nat
    BY StructFields
  <1>1. Opened(b) \in Struct
    BY <1>0 DEF Opened, Struct, Phases, Deadlines, Timers
  <1>2. /\ Opened(b).phase = "open" /\ Opened(b).inflight = 0 /\ Opened(b).timer = "armed"
        /\ Opened(b).generation = b.generation + 1 /\ Opened(b).epoch = b.epoch
    BY DEF Opened, Struct
  <1> QED
    BY <1>1, <1>2, StructFields DEF Advances, Rises, Due

LEMMA HalfOpenedAdvances ==
  ASSUME NEW b \in Struct
  PROVE  /\ Advances(b, HalfOpened(b)) /\ HalfOpened(b).phase = "half_open"
         /\ HalfOpened(b).generation = b.generation + 1 /\ HalfOpened(b).inflight = 0
         /\ HalfOpened(b).epoch = b.epoch
  <1>0. b.generation + 1 \in Nat
    BY StructFields
  <1>1. HalfOpened(b) \in Struct
    BY <1>0 DEF HalfOpened, Struct, Phases
  <1>2. /\ HalfOpened(b).phase = "half_open" /\ HalfOpened(b).inflight = 0
        /\ HalfOpened(b).generation = b.generation + 1 /\ HalfOpened(b).epoch = b.epoch
    BY DEF HalfOpened, Struct
  <1> QED
    BY <1>1, <1>2, StructFields DEF Advances, Rises, Due

LEMMA ClosedAdvances ==
  ASSUME NEW b \in Struct
  PROVE  Advances(b, Closed(b)) /\ Closed(b).phase = "closed"
  <1>0. b.generation + 1 \in Nat /\ 0 \in 0..FailureThreshold
    BY StructFields, ConstantsAssumption
  <1>1. Closed(b) \in Struct
    BY <1>0 DEF Closed, Struct, Phases, Deadlines
  <1>2. /\ Closed(b).phase = "closed" /\ Closed(b).inflight = 0
        /\ Closed(b).generation = b.generation + 1 /\ Closed(b).epoch = b.epoch
    BY DEF Closed, Struct
  <1> QED
    BY <1>1, <1>2, StructFields DEF Advances, Rises, Due

(* Cancelling or clearing the timer, and the fields nothing depends on.    *)
LEMMA TimerSet ==
  ASSUME NEW b \in Struct, NEW timer \in {"none", b.timer}
  PROVE  LET t == [b EXCEPT !.timer = timer]
         IN /\ t \in Struct /\ t.phase = b.phase /\ t.generation = b.generation
            /\ t.epoch = b.epoch /\ t.inflight = b.inflight /\ t.timer = timer
            /\ t.deadline = b.deadline
BY DEF Struct, Timers

LEMMA Cancels ==
  ASSUME NEW b \in Struct
  PROVE  Cancelled(b.timer) \in {"none", b.timer}
BY DEF Cancelled

LEMMA ProbationAdvances ==
  ASSUME NEW b \in Struct
  PROVE  /\ Advances(b, Probation(b)) /\ Probation(b).phase = "half_open"
         /\ Probation(b).generation = b.generation + 1 /\ Probation(b).inflight = 0
  <1> DEFINE h == HalfOpened(b)
  <1>1. /\ h \in Struct /\ h.phase = "half_open" /\ h.inflight = 0
        /\ h.generation = b.generation + 1 /\ h.epoch = b.epoch
    BY HalfOpenedAdvances DEF Advances
  <1>2. Probation(b) = [h EXCEPT !.timer = "none", !.health = "healthy"]
    BY DEF Probation
  <1> HIDE DEF h
  <1>3. /\ Probation(b) \in Struct /\ Probation(b).phase = "half_open"
        /\ Probation(b).inflight = 0 /\ Probation(b).generation = b.generation + 1
        /\ Probation(b).epoch = b.epoch
    BY <1>1, <1>2 DEF Struct, Timers
  <1> QED
    BY <1>3, StructFields DEF Advances, Rises, Due

LEMMA HandleSuccessAdvances ==
  ASSUME NEW b \in Struct, Due(b)
  PROVE  Advances(b, HandleSuccess(b))
  <1>1. CASE b.phase = "closed"
    <2>1. HandleSuccess(b) = [b EXCEPT !.failures = 0]
      BY <1>1 DEF HandleSuccess
    <2> QED
      BY <1>1, <2>1, ConstantsAssumption DEF Struct, Advances, Rises, Due
  <1>2. CASE b.phase = "half_open" /\ b.successes + 1 >= SuccessThreshold
    <2>1. HandleSuccess(b) = Closed(b)
      BY <1>2 DEF HandleSuccess
    <2> QED
      BY <2>1, ClosedAdvances
  <1>3. CASE b.phase = "half_open" /\ ~ (b.successes + 1 >= SuccessThreshold)
    <2>1. HandleSuccess(b) = [b EXCEPT !.successes = @ + 1]
      BY <1>3 DEF HandleSuccess
    <2> QED
      BY <1>3, <2>1 DEF Struct, Advances, Rises, Due
  <1>4. CASE b.phase = "open" /\ SuccessThreshold = 1
    <2> DEFINE t == [b EXCEPT !.timer = Cancelled(@)]
    <2>1. HandleSuccess(b) = Closed(t)
      BY <1>4 DEF HandleSuccess
    <2>2. t \in Struct /\ t.generation = b.generation /\ t.epoch = b.epoch
      BY Cancels, TimerSet
    <2> HIDE DEF t
    <2>3. Advances(t, Closed(t)) /\ Closed(t).generation = t.generation + 1
      BY <2>2, ClosedAdvances DEF Closed, Struct
    <2> QED
      BY <2>1, <2>2, <2>3, StructFields DEF Advances, Rises
  <1>5. CASE b.phase = "open" /\ SuccessThreshold # 1
    <2> DEFINE h == HalfOpened(b)
    <2>1. HandleSuccess(b) =
            [h EXCEPT !.successes = 1, !.failures = 0, !.timer = Cancelled(@)]
      BY <1>5 DEF HandleSuccess
    <2>2. /\ h \in Struct /\ h.phase = "half_open" /\ h.inflight = 0
          /\ h.generation = b.generation + 1 /\ h.epoch = b.epoch
      BY HalfOpenedAdvances DEF Advances
    <2> HIDE DEF h
    <2>3. Cancelled(h.timer) \in Timers /\ 1 \in Nat /\ 0 \in 0..FailureThreshold
      BY <2>2, Cancels, StructFields, ConstantsAssumption DEF Timers
    <2>4. /\ HandleSuccess(b) \in Struct /\ HandleSuccess(b).phase = "half_open"
          /\ HandleSuccess(b).inflight = 0 /\ HandleSuccess(b).epoch = b.epoch
          /\ HandleSuccess(b).generation = b.generation + 1
      BY <2>1, <2>2, <2>3 DEF Struct
    <2> QED
      BY <2>4, StructFields DEF Advances, Rises, Due
  <1> QED
    BY <1>1, <1>2, <1>3, <1>4, <1>5, StructFields DEF Phases

LEMMA HandleFailureAdvances ==
  ASSUME NEW b \in Struct, Due(b)
  PROVE  /\ Advances(b, HandleFailure(b))
         /\ b.phase # "closed" => HandleFailure(b).phase = "open"
  <1> DEFINE t == [b EXCEPT !.failures = OneMore(@)]
  <1>1. /\ t \in Struct /\ t.phase = b.phase /\ t.generation = b.generation
        /\ t.epoch = b.epoch /\ t.inflight = b.inflight /\ t.timer = b.timer
        /\ t.deadline = b.deadline
    <2>1. OneMore(b.failures) \in 0..FailureThreshold
      BY StructFields, ConstantsAssumption DEF OneMore
    <2> QED
      BY <2>1 DEF Struct
  <1>2. HandleFailure(b) =
          CASE b.phase = "closed" -> IF b.failures + 1 >= FailureThreshold THEN Opened(t) ELSE t
            [] b.phase = "half_open" -> [Opened(t) EXCEPT !.successes = 0]
            [] b.phase = "open" -> t
    BY DEF HandleFailure
  <1> HIDE DEF t
  <1>3. Advances(t, Opened(t)) /\ Opened(t).phase = "open" /\ Opened(t) \in Struct
    BY <1>1, OpenedAdvances DEF Advances
  <1>4. Advances(b, t)
    BY <1>1 DEF Advances, Rises, Due
  <1>5. Advances(b, Opened(t))
    BY <1>1, <1>3 DEF Advances, Rises
  <1>6. CASE b.phase = "closed"
    BY <1>2, <1>4, <1>5, <1>6
  <1>7. CASE b.phase = "half_open"
    <2> DEFINE o == Opened(t)
               p == [o EXCEPT !.successes = 0]
    <2>1. HandleFailure(b) = p
      BY <1>2, <1>7
    <2>2. o \in Struct /\ Advances(b, o) /\ o.phase = "open"
      BY <1>3, <1>5
    <2> HIDE DEF o
    <2>3. /\ p \in Struct /\ p.phase = o.phase /\ p.generation = o.generation
          /\ p.epoch = o.epoch /\ p.inflight = o.inflight /\ p.timer = o.timer
          /\ p.deadline = o.deadline
      BY <2>2 DEF Struct
    <2> QED
      BY <2>1, <2>2, <2>3 DEF Advances, Rises, Due
  <1>8. CASE b.phase = "open"
    BY <1>1, <1>2, <1>4, <1>8
  <1> QED
    BY <1>6, <1>7, <1>8, StructFields DEF Phases

(* One signal: a failure never recovers the breaker.                       *)
LEMMA HandledAdvances ==
  ASSUME NEW b \in Struct, Due(b), NEW signal
  PROVE  /\ Advances(b, Handled(b, signal))
         /\ signal # "success" /\ b.phase # "closed" => Handled(b, signal).phase = "open"
  BY HandleSuccessAdvances, HandleFailureAdvances DEF Handled

-----------------------------------------------------------------------------
(* The signals of a drain.  Drained is a recursive function; what it is at *)
(* an index follows from the least index where it would be otherwise.      *)
LEMMA LeastNumber ==
  ASSUME NEW T \in SUBSET Nat, T # {}
  PROVE  \E x \in T : \A y \in T : x <= y
  <1>1. IsWellFoundedOn(OpToRel(<, Nat), Nat)
    BY NatLessThanWellFounded
  <1>2. PICK x \in T : \A y \in T : ~ (<<y, x>> \in OpToRel(<, Nat))
    BY <1>1, WFMin
  <1>3. \A y \in T : ~ (y < x)
    BY <1>2 DEF OpToRel
  <1> QED
    BY <1>3

(* f follows the signals up to the n-th.                                   *)
Applies(signals, n, f) ==
  f = [i \in 0..n |-> IF i = 0 THEN breaker
                      ELSE IF f[i - 1].generation # breaker.generation THEN f[i - 1]
                      ELSE Handled(f[i - 1], signals[i])]

LEMMA DrainExists ==
  ASSUME NEW signals, NEW n \in Nat
  PROVE  \E f : Applies(signals, n, f)
  <1> DEFINE T == {k \in Nat : ~ \E f : Applies(signals, k, f)}
  <1> SUFFICES ASSUME T # {} PROVE FALSE
    OBVIOUS
  <1>1. PICK k \in T : \A y \in T : k <= y
    BY LeastNumber
  <1>2. k # 0
    <2> DEFINE f == [i \in 0..0 |-> breaker]
    <2>1. Applies(signals, 0, f)
      BY DEF Applies
    <2> QED
      BY <1>1, <2>1
  <1>3. k - 1 \in Nat /\ k - 1 \notin T /\ k \in Nat
    BY <1>1, <1>2
  <1>4. PICK f : Applies(signals, k - 1, f)
    BY <1>3
  <1> DEFINE next == IF f[k - 1].generation # breaker.generation THEN f[k - 1]
                     ELSE Handled(f[k - 1], signals[k])
             g == [i \in 0..k |-> IF i = k THEN next ELSE f[i]]
             step(h, i) == IF i = 0 THEN breaker
                           ELSE IF h[i - 1].generation # breaker.generation THEN h[i - 1]
                           ELSE Handled(h[i - 1], signals[i])
  <1>5. \A i \in 0..(k - 1) : f[i] = step(f, i)
    BY <1>3, <1>4 DEF Applies
  <1>6. /\ \A i \in 0..(k - 1) : g[i] = f[i]
        /\ g[k] = next
    BY <1>3
  <1>7. ASSUME NEW i \in 0..k PROVE g[i] = step(g, i)
    <2>1. CASE i = k
      <3>1. g[k - 1] = f[k - 1] /\ k # 0
        BY <1>2, <1>3, <1>6
      <3> QED
        BY <1>6, <2>1, <3>1
    <2>2. CASE i \in 0..(k - 1)
      <3>1. i # 0 => i - 1 \in 0..(k - 1)
        BY <1>3, <2>2
      <3> QED
        BY <1>5, <1>6, <2>2, <3>1
    <2> QED
      BY <1>3, <2>1, <2>2
  <1>8. Applies(signals, k, g)
    <2>1. [i \in 0..k |-> step(g, i)] = g
      BY <1>7
    <2> QED
      BY <2>1 DEF Applies
  <1> QED
    BY <1>1, <1>8

(* While no success is in the ring, a drain opens or does nothing.         *)
Drains(signals, b) ==
  /\ Advances(breaker, b)
  /\ breaker.phase # "closed" /\ (\A i \in 1..Len(signals) : signals[i] # "success") =>
       b.phase \in {breaker.phase, "open"}

LEMMA DrainSteps ==
  ASSUME breaker \in Struct, Due(breaker), NEW signals \in Seq(Signals), NEW f,
         Applies(signals, Len(signals), f), NEW i \in 0..Len(signals)
  PROVE  Drains(signals, f[i])
  <1> DEFINE T == {k \in Nat : k <= Len(signals) /\ ~ Drains(signals, f[k])}
  <1>0. Len(signals) \in Nat
    OBVIOUS
  <1> SUFFICES ASSUME T # {} PROVE FALSE
    BY <1>0
  <1>1. PICK k \in T : \A y \in T : k <= y
    BY LeastNumber
  <1>2. \A j \in 0..Len(signals) :
          f[j] = IF j = 0 THEN breaker
                 ELSE IF f[j - 1].generation # breaker.generation THEN f[j - 1]
                 ELSE Handled(f[j - 1], signals[j])
    BY <1>0 DEF Applies
  <1>3. k # 0
    <2>1. f[0] = breaker
      BY <1>0, <1>2
    <2> QED
      BY <1>1, <2>1, SameAdvances DEF Drains
  <1>4. k - 1 \in Nat /\ k - 1 <= Len(signals) /\ k \in 1..Len(signals) /\ k \in 0..Len(signals)
    BY <1>0, <1>1, <1>3
  <1>5. Drains(signals, f[k - 1])
    BY <1>1, <1>4
  <1> DEFINE b == f[k - 1]
  <1>6. b \in Struct /\ Due(b) /\ Rises(breaker, b)
    BY <1>5 DEF Drains, Advances
  <1>7. CASE b.generation # breaker.generation
    <2>1. f[k] = b
      BY <1>2, <1>3, <1>4, <1>7
    <2> QED
      BY <1>1, <1>5, <2>1
  <1>8. CASE b.generation = breaker.generation
    <2>1. f[k] = Handled(b, signals[k])
      BY <1>2, <1>3, <1>4, <1>8
    <2> DEFINE t == Handled(b, signals[k])
    <2>2. Advances(b, t) /\ (signals[k] # "success" /\ b.phase # "closed" => t.phase = "open")
      BY <1>6, HandledAdvances
    <2> HIDE DEF t
    <2>3. b.phase = breaker.phase /\ b.epoch = breaker.epoch /\ b.inflight = breaker.inflight
      <3>1. breaker.generation \in Nat
        BY StructFields
      <3> QED
        BY <1>5, <1>8, <3>1 DEF Drains, Advances, Rises
    <2>4. Advances(breaker, t)
      BY <1>8, <2>2, <2>3 DEF Advances, Rises
    <2>5. Drains(signals, t)
      BY <1>4, <2>2, <2>3, <2>4 DEF Drains
    <2> QED
      BY <1>1, <2>1, <2>5 DEF t
  <1> QED
    BY <1>7, <1>8

LEMMA DrainedAdvances ==
  ASSUME breaker \in Struct, Due(breaker), NEW signals \in Seq(Signals)
  PROVE  Drains(signals, Drained(signals))
  <1> DEFINE f == CHOOSE f : Applies(signals, Len(signals), f)
  <1>1. Len(signals) \in Nat /\ Len(signals) \in 0..Len(signals)
    OBVIOUS
  <1>2. Applies(signals, Len(signals), f)
    BY <1>1, DrainExists
  <1>3. Drained(signals) = f[Len(signals)]
    BY DEF Drained, Applies
  <1> HIDE DEF f
  <1> QED
    BY <1>1, <1>2, <1>3, DrainSteps

-----------------------------------------------------------------------------
(* The books of the breaker: the inductive invariant behind its count, its *)
(* lease row and its recovery.                                             *)
Ring == [signals : Seq(Signals), woken : BOOLEAN, needs : BOOLEAN, pending : BOOLEAN]
Attempt == [generation : Nat, counted : Nat, epoch : Nat, claimed : BOOLEAN]
LeaseRow ==
  [held : {TRUE}, token : Callers, generation : Nat, epoch : Nat, claimed : BOOLEAN]

(* Only a closed breaker has a success in its ring.                        *)
Marked(r) == \E i \in 1..Len(r.signals) : r.signals[i] = "success"
RowsInv ==
  /\ Due(breaker)
  /\ Marked(ring) => breaker.phase = "closed"

(* A receipt is not from the future, and one that was classified closed is *)
(* current in a closed generation only.                                    *)
ReceiptAt(c) ==
  /\ receipt[c].generation <= breaker.generation
  /\ pc[c] = "serving" /\ receipt[c].generation = breaker.generation =>
       breaker.phase = "closed"

(* What c may have sent, and that a request whose admission is still to be *)
(* handled has no attempt yet.                                             *)
Backlogs == {<< >>, <<"admit">>, <<"admit", "release_token">>}
              \cup {<<message>> : message \in Messages \ {"admit"}}
BacklogAt(c) ==
  /\ queue[c] \in Backlogs
  /\ pc[c] \in {"idle", "granted", "probing", "serving"} => queue[c] = << >>
  /\ pc[c] = "asking" => queue[c] \in {<< >>, <<"admit">>}
  /\ pc[c] = "done" => queue[c] # <<"admit">>
  /\ pc[c] \in {"idle", "serving"} => c \notin DOMAIN attempts /\ ~Holds(c)
  /\ queue[c] \in {<<"admit">>, <<"admit", "release_token">>} => c \notin DOMAIN attempts
  /\ process = "down" => queue[c] = << >> /\ c \notin DOMAIN attempts

(* What the owner remembers of c is its lease row; one that gave the row   *)
(* up has told the owner.                                                  *)
AttemptAt(c) ==
  c \in DOMAIN attempts =>
    /\ attempts[c].generation <= breaker.generation
    /\ attempts[c].counted <= breaker.generation
    /\ attempts[c].generation = breaker.generation => breaker.phase = "half_open"
    /\ Holds(c) =>
         /\ attempts[c].generation = lease.generation
         /\ attempts[c].epoch = lease.epoch
         /\ ~lease.claimed => ~attempts[c].claimed
    /\ ~Holds(c) => queue[c] = <<"abandon">> /\ Matches(c) /\ ~attempts[c].claimed

(* A row of the present owner: its request runs on it, or has sent what    *)
(* frees it.                                                               *)
OfLease(c) == receipt[c] = [generation |-> lease.generation, epoch |-> lease.epoch]
WayBackAt(c) ==
  process # "down" /\ Holds(c) /\ lease.epoch = breaker.epoch =>
    /\ pc[c] # "asking"
    /\ pc[c] = "granted" => ~lease.claimed
    /\ pc[c] \in {"granted", "probing"} => OfLease(c)
    /\ pc[c] = "done" /\ c \notin Adapters =>
         \/ queue[c] = <<"release_token">>
         \/ /\ queue[c] \in {<<"release">>, <<"signal_success">>, <<"signal_failure">>}
            /\ OfLease(c)

At(c) == ReceiptAt(c) /\ BacklogAt(c) /\ AttemptAt(c) /\ WayBackAt(c)

LeaseInv ==
  lease.held =>
    /\ lease.epoch <= breaker.epoch
    /\ process = "starting" => lease.epoch < breaker.epoch
    /\ process = "down" => lease.generation <= breaker.generation + 1
    /\ process # "down" => lease.token \in DOMAIN attempts

Counted == {c \in DOMAIN attempts : attempts[c].counted = breaker.generation}
CountInv ==
  /\ IsFiniteSet(DOMAIN attempts)
  /\ process # "down" => breaker.inflight = Cardinality(Counted)

Books == TypeOK /\ RowsInv /\ LeaseInv /\ CountInv /\ \A c \in Callers : At(c)

LEMMA Types ==
  ASSUME TypeOK
  PROVE  /\ process \in {"down", "starting", "up"} /\ breaker \in Struct
         /\ \A c \in DOMAIN attempts : c \in Callers /\ attempts[c] \in Attempt
         /\ lease = NoLease \/ lease \in LeaseRow
         /\ lease.held \in BOOLEAN /\ (lease.held => lease \in LeaseRow)
         /\ ring \in Ring /\ health \in {"healthy", "degraded"}
         /\ ready \subseteq {"current", "stale"}
         /\ pc \in [Callers -> Places]
         /\ receipt \in [Callers -> [generation : Nat, epoch : Nat]]
         /\ queue \in [Callers -> Seq(Messages)]
         /\ breaker.generation \in Nat /\ breaker.epoch \in Nat
  <1>1. /\ breaker \in Struct
        /\ \A c \in DOMAIN attempts : c \in Callers /\ attempts[c] \in Attempt
        /\ lease = NoLease \/ lease \in LeaseRow
        /\ ring \in Ring
    BY DEF TypeOK, Struct, Attempt, LeaseRow, Ring
  <1>2. lease.held \in BOOLEAN /\ (lease.held => lease \in LeaseRow)
    <2>1. CASE lease = NoLease
      <3>1. lease.held = FALSE
        BY <2>1 DEF NoLease
      <3> QED
        BY <3>1
    <2>2. CASE lease \in LeaseRow
      BY <2>2 DEF LeaseRow
    <2> QED
      BY <1>1, <2>1, <2>2
  <1> QED
    BY <1>1, <1>2, StructFields DEF TypeOK

(* The rows the owner writes.                                              *)
LEMMA RowsWritten ==
  ASSUME NEW b, NEW r \in Ring, NEW inbox \in SUBSET {"current", "stale"},
         TypeOK, b \in Struct, Marked(r) => b.phase = "closed",
         WriteRowsLeaving(b, r, inbox)
  PROVE  /\ breaker' = b /\ ring' \in Ring /\ health' \in {"healthy", "degraded"}
         /\ ready' \subseteq {"current", "stale"}
         /\ Marked(ring') => b.phase = "closed"
  <1> DEFINE q == IF b.generation = breaker.generation THEN r ELSE EmptyRing(r.pending)
  <1>1. b \in Struct /\ b.failures \in Nat
    BY StructFields, ConstantsAssumption
  <1>2. q \in Ring /\ (Marked(q) => b.phase = "closed")
    <2>1. EmptyRing(r.pending) \in Ring
      BY DEF EmptyRing, Ring
    <2>2. ~ Marked(EmptyRing(r.pending))
      BY DEF EmptyRing, Marked
    <2> QED
      BY <2>1, <2>2
  <1>3. ring' = [q EXCEPT !.needs = b.failures > 0]
    BY DEF WriteRowsLeaving
  <1> HIDE DEF q
  <1>4. ring' \in Ring /\ ring'.signals = q.signals
    <2> DEFINE needs == b.failures > 0
    <2>1. needs \in BOOLEAN
      BY <1>1
    <2> HIDE DEF needs
    <2> QED
      BY <1>2, <1>3, <2>1 DEF Ring, needs
  <1>5. Marked(ring') => b.phase = "closed"
    BY <1>2, <1>4 DEF Marked
  <1>6. health' \in {"healthy", "degraded"}
    BY <1>1, StructFields DEF WriteRowsLeaving
  <1> QED
    BY <1>4, <1>5, <1>6 DEF WriteRowsLeaving

LEMMA RingChanges ==
  ASSUME NEW r \in Ring
  PROVE  /\ Acknowledged(r) \in Ring /\ Acknowledged(r).signals = r.signals
         /\ r.pending \in BOOLEAN /\ r.signals \in Seq(Signals)
BY DEF Acknowledged, Ring

(* A request that a step does not concern.                                 *)
LEMMA BystanderStep ==
  ASSUME TypeOK, NEW d \in Callers, At(d), Rises(breaker, breaker'),
         breaker'.generation \in Nat,
         process' = process \/ (process = "starting" /\ process' = "up"),
         pc'[d] = pc[d], receipt'[d] = receipt[d], queue'[d] = queue[d],
         d \in DOMAIN attempts' <=> d \in DOMAIN attempts,
         d \in DOMAIN attempts => attempts'[d] = attempts[d],
         Holds(d)' <=> Holds(d), Holds(d) => lease' = lease
  PROVE  At(d)'
  <1>1. /\ breaker.generation \in Nat /\ breaker'.generation \in Nat
        /\ receipt[d].generation \in Nat
        /\ d \in DOMAIN attempts => attempts[d].generation \in Nat /\ attempts[d].counted \in Nat
        /\ process' = "down" <=> process = "down"
    BY Types DEF Attempt
  <1>2. /\ breaker.generation <= breaker'.generation /\ breaker'.epoch = breaker.epoch
        /\ breaker'.generation = breaker.generation => breaker'.phase = breaker.phase
    BY <1>1 DEF Rises
  <1>3. ReceiptAt(d)'
    BY <1>1, <1>2 DEF At, ReceiptAt
  <1>4. BacklogAt(d)'
    BY <1>1 DEF At, BacklogAt
  <1>5. AttemptAt(d)'
    <2>1. d \in DOMAIN attempts =>
            /\ attempts[d].generation <= breaker'.generation
            /\ attempts[d].counted <= breaker'.generation
            /\ attempts[d].generation = breaker'.generation => breaker'.phase = "half_open"
      BY <1>1, <1>2 DEF At, AttemptAt
    <2>2. d \in DOMAIN attempts => (Matches(d) <=> Matches(d)')
      BY DEF Matches, Remembered
    <2> QED
      BY <2>1, <2>2 DEF At, AttemptAt
  <1>6. WayBackAt(d)'
    BY <1>1, <1>2 DEF At, WayBackAt, OfLease
  <1> QED
    BY <1>3, <1>4, <1>5, <1>6 DEF At

(* The count, and the row's place in the books, while the attempts last.   *)
LEMMA CountsKeep ==
  ASSUME Books, Advances(breaker, breaker'), UNCHANGED <<process, attempts, lease>>
  PROVE  LeaseInv' /\ CountInv'
  <1>1. TypeOK /\ breaker'.generation \in Nat /\ Rises(breaker, breaker')
    BY StructFields DEF Books, Advances
  <1>2. breaker.generation <= breaker'.generation /\ breaker'.epoch = breaker.epoch
    BY <1>1, Types DEF Rises
  <1>3. LeaseInv'
    BY <1>1, <1>2, Types DEF Books, LeaseInv, LeaseRow
  <1>4. CASE breaker'.generation = breaker.generation
    BY <1>3, <1>4 DEF Books, CountInv, Counted, Advances
  <1>5. CASE breaker'.generation # breaker.generation
    <2>1. breaker.generation < breaker'.generation /\ breaker'.inflight = 0
      BY <1>1, <1>5 DEF Advances, Rises
    <2>2. Counted' = {}
      <3>1. \A c \in DOMAIN attempts :
              attempts[c].counted \in Nat /\ attempts[c].counted <= breaker.generation
        BY <1>1, Types DEF Books, At, AttemptAt, Attempt
      <3> QED
        BY <1>1, <2>1, <3>1, Types DEF Counted
    <2> QED
      BY <1>3, <2>1, <2>2, FS_EmptySet DEF Books, CountInv
  <1> QED
    BY <1>4, <1>5

(* A step of the breaker and its rows alone.                               *)
LEMMA BreakerStep ==
  ASSUME Books, Advances(breaker, breaker'), ring' \in Ring,
         Marked(ring') => breaker'.phase = "closed",
         health' \in {"healthy", "degraded"}, ready' \subseteq {"current", "stale"},
         UNCHANGED <<process, attempts, lease, pc, receipt, queue>>
  PROVE  Books'
  <1>1. TypeOK /\ breaker' \in Struct /\ breaker'.generation \in Nat /\ Rises(breaker, breaker')
    BY StructFields DEF Books, Advances
  <1>2. TypeOK'
    BY <1>1 DEF TypeOK, Struct, Ring
  <1>3. RowsInv'
    BY DEF RowsInv, Advances
  <1>4. \A c \in Callers : At(c)'
    <2>1. \A c \in Callers : Holds(c)' <=> Holds(c)
      BY DEF Holds
    <2> QED
      BY <1>1, <2>1, BystanderStep DEF Books
  <1> QED
    BY <1>2, <1>3, <1>4, CountsKeep DEF Books

LEMMA WritesKeep ==
  ASSUME Books, NEW b, NEW r \in Ring, NEW inbox \in SUBSET {"current", "stale"},
         Advances(breaker, b), Marked(r) => b.phase = "closed",
         WriteRowsLeaving(b, r, inbox),
         UNCHANGED <<process, attempts, lease, pc, receipt, queue>>
  PROVE  Books'
  <1>1. /\ breaker' = b /\ ring' \in Ring /\ health' \in {"healthy", "degraded"}
        /\ ready' \subseteq {"current", "stale"} /\ (Marked(ring') => b.phase = "closed")
    BY RowsWritten DEF Books, Advances
  <1>2. Advances(breaker, breaker')
    BY <1>1
  <1> HIDE DEF Books, Advances
  <1> QED
    BY <1>1, <1>2, BreakerStep

(* Where the generation changes the ring is new; where it does not, the    *)
(* ring of a closed breaker may be marked.                                 *)
LEMMA MarkedStays ==
  ASSUME NEW b, NEW r, RowsInv, Rises(breaker, b), breaker.generation \in Nat,
         r.signals = ring.signals, b.generation = breaker.generation
  PROVE  Marked(r) => b.phase = "closed"
BY DEF RowsInv, Rises, Marked

(* A new generation's ring does not depend on what the old one held.       *)
LEMMA RingEmptied ==
  ASSUME NEW r \in Ring
  PROVE  LET q == [r EXCEPT !.signals = << >>]
         IN q \in Ring /\ ~ Marked(q) /\ q.pending = r.pending
  <1> DEFINE q == [r EXCEPT !.signals = << >>]
  <1>1. << >> \in Seq(Signals) /\ Len(<< >>) = 0
    OBVIOUS
  <1>2. q \in Ring /\ q.signals = << >> /\ q.pending = r.pending
    BY <1>1 DEF Ring
  <1> HIDE DEF q
  <1>3. ~ Marked(q)
    BY <1>1, <1>2 DEF Marked
  <1> QED
    BY <1>2, <1>3 DEF q

LEMMA NewRingWritten ==
  ASSUME NEW b, NEW r, NEW q, NEW inbox, b.generation # breaker.generation,
         q.pending = r.pending, WriteRowsLeaving(b, r, inbox)
  PROVE  WriteRowsLeaving(b, q, inbox)
BY DEF WriteRowsLeaving

(* RowsWritten again, for a ring that the new generation throws away.      *)
LEMMA RowsRenewed ==
  ASSUME NEW b, NEW r \in Ring, NEW inbox \in SUBSET {"current", "stale"},
         TypeOK, RowsInv, b \in Struct, Rises(breaker, b), r.signals = ring.signals,
         WriteRowsLeaving(b, r, inbox)
  PROVE  /\ breaker' = b /\ ring' \in Ring /\ health' \in {"healthy", "degraded"}
         /\ ready' \subseteq {"current", "stale"}
         /\ Marked(ring') => b.phase = "closed"
  <1>1. CASE b.generation = breaker.generation
    <2>1. Marked(r) => b.phase = "closed"
      BY <1>1, MarkedStays, Types
    <2> QED
      BY <2>1, RowsWritten
  <1>2. CASE b.generation # breaker.generation
    <2> DEFINE q == [r EXCEPT !.signals = << >>]
    <2>1. q \in Ring /\ ~ Marked(q) /\ q.pending = r.pending
      BY RingEmptied
    <2> HIDE DEF q
    <2>2. WriteRowsLeaving(b, q, inbox)
      BY <1>2, <2>1, NewRingWritten
    <2> QED
      BY <2>1, <2>2, RowsWritten
  <1> QED
    BY <1>1, <1>2

LEMMA RenewalKeeps ==
  ASSUME Books, NEW b, NEW r \in Ring, NEW inbox \in SUBSET {"current", "stale"},
         Advances(breaker, b), r.signals = ring.signals,
         WriteRowsLeaving(b, r, inbox),
         UNCHANGED <<process, attempts, lease, pc, receipt, queue>>
  PROVE  Books'
  <1>1. /\ breaker' = b /\ ring' \in Ring /\ health' \in {"healthy", "degraded"}
        /\ ready' \subseteq {"current", "stale"} /\ (Marked(ring') => b.phase = "closed")
    BY RowsRenewed DEF Books, Advances
  <1> QED
    BY <1>1, BreakerStep

LEMMA DrainKeeps ==
  ASSUME Books, NEW inbox \in SUBSET {"current", "stale"}, DrainLeaving(inbox),
         UNCHANGED <<process, attempts, lease, pc, receipt, queue>>
  PROVE  Books'
  <1>1. /\ breaker \in Struct /\ ring \in Ring /\ Due(breaker)
        /\ ring.signals \in Seq(Signals) /\ Len(ring.signals) \in Nat
        /\ Acknowledged(ring) \in Ring /\ Acknowledged(ring).signals = ring.signals
    BY Types, RingChanges DEF Books, RowsInv
  <1>2. CASE health = "degraded"
    <2> DEFINE h == HalfOpened(breaker)
               b == [h EXCEPT !.health = "healthy"]
    <2>1. h \in Struct /\ Advances(breaker, h) /\ h.phase = "half_open"
      BY <1>1, HalfOpenedAdvances DEF Advances
    <2>2. WriteRowsLeaving(b, Acknowledged(ring), inbox)
      BY <1>2 DEF DrainLeaving
    <2> HIDE DEF h
    <2>3. /\ b \in Struct /\ b.phase = h.phase /\ b.generation = h.generation
          /\ b.epoch = h.epoch /\ b.inflight = h.inflight
      BY <2>1 DEF Struct
    <2>4. Advances(breaker, b)
      BY <2>1, <2>3 DEF Advances, Rises, Due
    <2> QED
      BY <1>1, <2>2, <2>4, RenewalKeeps
  <1>3. CASE health # "degraded"
    <2> DEFINE occupied == Len(ring.signals)
               taken == IF occupied > RingCapacity THEN RingCapacity ELSE occupied
               rest  == SubSeq(ring.signals, taken + 1, occupied)
               first == SubSeq(ring.signals, 1, taken)
               b     == Drained(first)
               r     == [ring EXCEPT !.signals = rest, !.woken = rest # << >>]
               left  == IF rest = << >> THEN inbox ELSE inbox \cup {"current"}
    <2>1. WriteRowsLeaving(b, AfterHandling(b, r), left)
      BY <1>3 DEF DrainLeaving
    <2>2. taken \in Nat /\ taken <= occupied
      BY <1>1, ConstantsAssumption
    <2>3. /\ first \in Seq(Signals) /\ rest \in Seq(Signals)
          /\ Len(first) = taken /\ \A i \in 1..taken : first[i] = ring.signals[i]
          /\ Len(rest) = occupied - taken
          /\ \A i \in 1..(occupied - taken) : rest[i] = ring.signals[taken + i]
      <3> HIDE DEF taken
      <3>1. /\ first \in Seq(Signals)
            /\ Len(first) = taken /\ \A i \in 1..taken : first[i] = ring.signals[i]
        BY <1>1, <2>2
      <3>2. /\ rest \in Seq(Signals) /\ Len(rest) = occupied - taken
            /\ \A i \in 1..(occupied - taken) : rest[i] = ring.signals[taken + i]
        BY <1>1, <2>2
      <3> QED
        BY <3>1, <3>2
    <2>4. Drains(first, b)
      BY <1>1, <2>3, DrainedAdvances
    <2>5. r \in Ring /\ r.signals = rest
      <3> DEFINE woken == rest # << >>
      <3>1. woken \in BOOLEAN /\ rest \in Seq(Signals)
        BY <2>3
      <3> HIDE DEF woken, rest
      <3>2. /\ [ring EXCEPT !.signals = rest, !.woken = woken] \in Ring
            /\ [ring EXCEPT !.signals = rest, !.woken = woken].signals = rest
        BY <1>1, <3>1 DEF Ring
      <3> QED
        BY <3>2 DEF woken
    <2>6. AfterHandling(b, r) \in Ring /\ AfterHandling(b, r).signals = rest
      BY <2>5, RingChanges DEF AfterHandling
    <2>7. left \in SUBSET {"current", "stale"}
      OBVIOUS
    <2>8. Marked(ring) => breaker.phase = "closed"
      BY DEF Books, RowsInv
    <2>9. CASE b.generation = breaker.generation
      <3>1. b.phase = breaker.phase
        BY <1>1, <2>4, <2>9, StructFields DEF Drains, Advances, Rises
      <3>2. Marked(AfterHandling(b, r)) => Marked(ring)
        <4>1. ASSUME NEW i \in 1..(occupied - taken) PROVE taken + i \in 1..occupied
          BY <1>1, <2>2
        <4> QED
          BY <2>3, <2>6, <4>1 DEF Marked
      <3> QED
        BY <2>1, <2>4, <2>6, <2>7, <2>8, <3>1, <3>2, WritesKeep DEF Drains
    <2>10. CASE b.generation # breaker.generation
      <3> DEFINE p == AfterHandling(b, r)
                 q == [p EXCEPT !.signals = << >>]
      <3>0. p \in Ring /\ WriteRowsLeaving(b, p, left)
        BY <2>1, <2>6
      <3> HIDE DEF p, b, left
      <3>1. q \in Ring /\ ~ Marked(q) /\ q.pending = p.pending
        BY <3>0, RingEmptied
      <3> HIDE DEF q
      <3>2. WriteRowsLeaving(b, q, left)
        BY <2>10, <3>0, <3>1, NewRingWritten
      <3> QED
        BY <2>4, <2>7, <3>1, <3>2, WritesKeep DEF Drains
    <2> QED
      BY <2>9, <2>10
  <1> QED
    BY <1>2, <1>3

LEMMA UnmarkedType ==
  ASSUME NEW signals \in Seq(Signals)
  PROVE  Unmarked(signals) \in Seq(Signals)
  <1> DEFINE marks == Entries(signals, "success")
             i == CHOOSE j \in marks : TRUE
  <1>1. CASE marks = {}
    BY <1>1 DEF Unmarked
  <1>2. CASE marks # {}
    <2>1. i \in 1..Len(signals)
      BY <1>2 DEF Entries
    <2>2. Unmarked(signals) = SubSeq(signals, 1, i - 1) \o SubSeq(signals, i + 1, Len(signals))
      BY <1>2 DEF Unmarked
    <2> HIDE DEF i
    <2>3. SubSeq(signals, 1, i - 1) \in Seq(Signals)
      BY <2>1
    <2>4. SubSeq(signals, i + 1, Len(signals)) \in Seq(Signals)
      BY <2>1
    <2> QED
      BY <2>2, <2>3, <2>4
  <1> QED
    BY <1>1, <1>2

LEMMA EnqueuedRing ==
  ASSUME TypeOK, RowsInv, NEW signal \in Signals, Enqueued(signal),
         signal = "success" => breaker.phase = "closed"
  PROVE  /\ ring' \in Ring /\ health' \in {"healthy", "degraded"}
         /\ ready' \subseteq {"current", "stale"}
         /\ Marked(ring') => breaker.phase = "closed"
  <1> DEFINE full == signal = "failure"
                       /\ Cardinality(Entries(ring.signals, "failure")) = RingCapacity
             kept == IF signal = "success" THEN Unmarked(ring.signals) ELSE ring.signals
             s == IF full THEN ring.signals ELSE Append(kept, signal)
  <1>1. ring \in Ring /\ ring.signals \in Seq(Signals) /\ ring.pending \in BOOLEAN
    BY Types, RingChanges
  <1>2. kept \in Seq(Signals)
    BY <1>1, UnmarkedType
  <1>3. s \in Seq(Signals)
    BY <1>1, <1>2
  <1>4. /\ ring' = [ring EXCEPT !.signals = s, !.woken = TRUE, !.pending = @ \/ full]
        /\ health' = IF full THEN "degraded" ELSE health
        /\ ready' = IF ring.woken \/ process = "down" THEN ready ELSE ready \cup {"current"}
    BY DEF Enqueued
  <1>6. ASSUME NEW i \in 1..Len(s), s[i] = "success" PROVE breaker.phase = "closed"
    <2>1. CASE signal = "success"
      BY <2>1
    <2>2. CASE signal # "success"
      <3>1. kept = ring.signals
        BY <2>2
      <3>2. i \in 1..Len(ring.signals) /\ ring.signals[i] = "success"
        BY <1>1, <1>6, <2>2, <3>1
      <3> QED
        BY <3>2 DEF RowsInv, Marked
    <2> QED
      BY <2>1, <2>2
  <1> HIDE DEF s, kept
  <1>7. ring' \in Ring /\ ring'.signals = s
    <2> DEFINE p == ring.pending \/ full
    <2>1. p \in BOOLEAN
      OBVIOUS
    <2>2. ring' = [ring EXCEPT !.signals = s, !.woken = TRUE, !.pending = p]
      BY <1>1, <1>4
    <2> HIDE DEF p
    <2> QED
      BY <1>1, <1>3, <2>1, <2>2 DEF Ring
  <1>8. Marked(ring') => breaker.phase = "closed"
    BY <1>6, <1>7 DEF Marked
  <1>9. health' \in {"healthy", "degraded"} /\ ready' \subseteq {"current", "stale"}
    BY <1>4, Types
  <1> QED
    BY <1>7, <1>8, <1>9

LEMMA ControlKeeps ==
  ASSUME Books, \/ ControlReady \/ ControlAudit \/ ProactiveRecovery
  PROVE  Books'
  <1>1. /\ breaker \in Struct /\ ring \in Ring /\ Due(breaker) /\ Advances(breaker, breaker)
        /\ ready \in SUBSET {"current", "stale"} /\ (Marked(ring) => breaker.phase = "closed")
        /\ health \in {"healthy", "degraded"}
    BY Types, SameAdvances DEF Books, RowsInv
  <1>2. CASE ControlReady
    <2>1. UNCHANGED <<process, attempts, lease, pc, receipt, queue>>
      BY <1>2 DEF ControlReady, CallerVars
    <2>2. CASE DrainLeaving(ready \ {"current"})
      BY <1>1, <2>1, <2>2, DrainKeeps
    <2>3. CASE WriteRowsLeaving(breaker, ring, ready \ {"stale"})
      BY <1>1, <2>1, <2>3, WritesKeep
    <2> QED
      BY <1>2, <2>2, <2>3 DEF ControlReady
  <1>3. CASE ControlAudit
    BY <1>1, <1>3, DrainKeeps DEF ControlAudit, CallerVars
  <1>4. CASE ProactiveRecovery
    <2>1. UNCHANGED <<process, attempts, lease, pc, receipt, queue>>
      BY <1>4 DEF ProactiveRecovery, CallerVars
    <2>2. CASE breaker.phase = "open"
      <3> DEFINE h == HalfOpened(breaker)
                 b == [h EXCEPT !.timer = "none"]
      <3>1. h \in Struct /\ Advances(breaker, h)
        BY <1>1, HalfOpenedAdvances DEF Advances
      <3>2. WriteRowsLeaving(b, ring, ready)
        BY <1>4, <2>2 DEF ProactiveRecovery, WriteRows
      <3> HIDE DEF h
      <3>3. /\ b \in Struct /\ b.phase = h.phase /\ b.generation = h.generation
            /\ b.epoch = h.epoch /\ b.inflight = h.inflight /\ b.timer = "none"
        BY <3>1, TimerSet
      <3> HIDE DEF b
      <3>4. Advances(breaker, b)
        BY <3>1, <3>3 DEF Advances, Rises, Due
      <3> QED
        BY <1>1, <2>1, <3>2, <3>4, RenewalKeeps
    <2>3. CASE breaker.phase # "open"
      <3>1. breaker' = [breaker EXCEPT !.timer = "none"] /\ UNCHANGED <<ring, health, ready>>
        BY <1>4, <2>3 DEF ProactiveRecovery
      <3>2. /\ breaker' \in Struct /\ breaker'.phase = breaker.phase
            /\ breaker'.generation = breaker.generation /\ breaker'.epoch = breaker.epoch
            /\ breaker'.inflight = breaker.inflight /\ breaker'.timer = "none"
        BY <1>1, <3>1, TimerSet
      <3>3. Advances(breaker, breaker')
        BY <3>2 DEF Advances, Rises, Due
      <3> QED
        BY <1>1, <2>1, <3>1, <3>2, <3>3, BreakerStep
    <2> QED
      BY <2>2, <2>3
  <1> QED
    BY <1>2, <1>3, <1>4

LEMMA TimeKeeps ==
  ASSUME Books, Time
  PROVE  Books'
  <1>1. /\ breaker \in Struct /\ ring \in Ring /\ Due(breaker)
        /\ ready \in SUBSET {"current", "stale"} /\ (Marked(ring) => breaker.phase = "closed")
        /\ health \in {"healthy", "degraded"}
    BY Types DEF Books, RowsInv
  <1>2. UNCHANGED <<process, attempts, lease, pc, receipt, queue, ring, health, ready>>
    BY DEF Time, DeadlinePasses, TimerFires, CallerVars
  <1>3. /\ breaker' \in Struct /\ Due(breaker') /\ breaker'.phase = breaker.phase
        /\ breaker'.generation = breaker.generation /\ breaker'.epoch = breaker.epoch
        /\ breaker'.inflight = breaker.inflight
    <2>1. CASE DeadlinePasses
      BY <1>1, <2>1 DEF DeadlinePasses, Struct, Deadlines, Due
    <2>2. CASE TimerFires
      BY <1>1, <2>2 DEF TimerFires, Struct, Timers, Due
    <2> QED
      BY <2>1, <2>2 DEF Time
  <1>4. Advances(breaker, breaker')
    BY <1>3 DEF Advances, Rises
  <1> QED
    BY <1>1, <1>2, <1>3, <1>4, BreakerStep

LEMMA ReportsKeep ==
  ASSUME Books, \/ RecordFailure \/ ManualOpen \/ ManualClose \/ ReportExternalBounded
  PROVE  Books'
  <1>1. /\ breaker \in Struct /\ ring \in Ring /\ Due(breaker) /\ Advances(breaker, breaker)
        /\ ready \in SUBSET {"current", "stale"} /\ (Marked(ring) => breaker.phase = "closed")
        /\ health \in {"healthy", "degraded"} /\ TypeOK /\ RowsInv
        /\ Acknowledged(ring) \in Ring /\ Acknowledged(ring).signals = ring.signals
    BY Types, SameAdvances, RingChanges DEF Books, RowsInv
  <1>2. CASE RecordFailure
    <2> DEFINE b == HandleFailure(breaker)
    <2>1. Advances(breaker, b)
      BY <1>1, HandleFailureAdvances
    <2>2. UNCHANGED <<process, attempts, lease, pc, receipt, queue>>
      BY <1>2 DEF RecordFailure, CallerVars
    <2>3. IF b.generation = breaker.generation
          THEN breaker' = b /\ UNCHANGED <<ring, health, ready>>
          ELSE WriteRowsLeaving(b, ring, ready)
      BY <1>2 DEF RecordFailure, WriteRows
    <2> HIDE DEF b
    <2>4. CASE b.generation = breaker.generation
      <3>1. b.phase = breaker.phase
        BY <1>1, <2>1, <2>4, StructFields DEF Advances, Rises
      <3> QED
        BY <1>1, <2>1, <2>2, <2>3, <2>4, <3>1, BreakerStep
    <2>5. CASE b.generation # breaker.generation
      BY <1>1, <2>1, <2>2, <2>3, <2>5, RenewalKeeps
    <2> QED
      BY <2>4, <2>5
  <1>3. CASE ManualOpen
    BY <1>1, <1>3, OpenedAdvances, RenewalKeeps DEF ManualOpen, WriteRows, CallerVars
  <1>4. CASE ManualClose
    <2> DEFINE t == [breaker EXCEPT !.timer = Cancelled(@)]
    <2>1. /\ WriteRowsLeaving(Closed(t), Acknowledged(ring), ready)
          /\ UNCHANGED <<process, attempts, lease, pc, receipt, queue>>
      BY <1>4 DEF ManualClose, WriteRows, CallerVars
    <2>2. t \in Struct /\ t.generation = breaker.generation /\ t.epoch = breaker.epoch
      <3>1. Cancelled(breaker.timer) \in {"none", breaker.timer}
        BY <1>1, Cancels
      <3> DEFINE timer == Cancelled(breaker.timer)
      <3>2. t = [breaker EXCEPT !.timer = timer]
        OBVIOUS
      <3>3. timer \in Timers
        BY <1>1, <3>1, StructFields DEF Timers
      <3> HIDE DEF t, timer
      <3> QED
        BY <1>1, <3>2, <3>3 DEF Struct
    <2> HIDE DEF t
    <2>3. Advances(t, Closed(t)) /\ Closed(t).generation = t.generation + 1
      BY <2>2, ClosedAdvances DEF Closed, Struct
    <2>4. Advances(breaker, Closed(t))
      BY <2>2, <2>3, StructFields DEF Advances, Rises
    <2> QED
      BY <1>1, <2>1, <2>4, RenewalKeeps
  <1>5. CASE ReportExternalBounded
    <2>1. UNCHANGED <<process, breaker, attempts, lease, pc, receipt, queue>>
      BY <1>5 DEF ReportExternalBounded
    <2>2. Enqueued("failure") /\ "failure" \in Signals
      BY <1>5 DEF ReportExternalBounded, Signals
    <2> QED
      BY <1>1, <2>1, <2>2, EnqueuedRing, BreakerStep
  <1> QED
    BY <1>2, <1>3, <1>4, <1>5

-----------------------------------------------------------------------------
(* Messages the owner takes.                                               *)
LEMMA Taking ==
  ASSUME TypeOK, NEW c \in Callers, BacklogAt(c), NEW messages, Takes(c, messages)
  PROVE  /\ process = "up"
         /\ queue' \in [Callers -> Seq(Messages)]
         /\ \A d \in Callers \ {c} : queue'[d] = queue[d]
         /\ queue[c] # << >>
         /\ pc[c] \notin {"idle", "granted", "probing", "serving"}
         /\ Head(queue[c]) # "admit" =>
              /\ queue[c] = <<Head(queue[c])>> /\ queue'[c] = << >>
              /\ pc[c] # "asking"
         /\ Head(queue[c]) = "admit" =>
              /\ c \notin DOMAIN attempts
              /\ queue'[c] \in {<< >>, <<"release_token">>}
              /\ pc[c] = "asking" => queue'[c] = << >>
              /\ pc[c] = "done" => queue'[c] = <<"release_token">>
  <1>1. /\ process = "up" /\ queue[c] # << >>
        /\ queue' = [queue EXCEPT ![c] = Tail(@)]
        /\ queue \in [Callers -> Seq(Messages)] /\ queue[c] \in Seq(Messages)
    BY Types DEF Takes
  <1>2. Tail(queue[c]) \in Seq(Messages)
    BY <1>1
  <1>3. /\ queue' \in [Callers -> Seq(Messages)]
        /\ \A d \in Callers \ {c} : queue'[d] = queue[d]
        /\ queue'[c] = Tail(queue[c])
    BY <1>1, <1>2
  <1>4. pc[c] \notin {"idle", "granted", "probing", "serving"}
    BY <1>1 DEF BacklogAt
  <1>5. CASE queue[c] = <<"admit">>
    <2>1. Head(queue[c]) = "admit" /\ Tail(queue[c]) = << >>
      BY <1>5
    <2> QED
      BY <1>1, <1>3, <1>4, <1>5, <2>1 DEF BacklogAt
  <1>6. CASE queue[c] = <<"admit", "release_token">>
    <2>1. Head(queue[c]) = "admit" /\ Tail(queue[c]) = <<"release_token">>
      BY <1>6
    <2>2. <<"admit", "release_token">> # <<"admit">> /\ <<"admit", "release_token">> # << >>
      OBVIOUS
    <2>3. c \notin DOMAIN attempts /\ pc[c] # "asking"
      BY <1>6, <2>2 DEF BacklogAt
    <2> QED
      BY <1>1, <1>3, <1>4, <2>1, <2>3
  <1>7. CASE queue[c] \in {<<message>> : message \in Messages \ {"admit"}}
    <2>1. PICK message \in Messages \ {"admit"} : queue[c] = <<message>>
      BY <1>7
    <2>2. Head(queue[c]) = message /\ Tail(queue[c]) = << >>
      BY <2>1
    <2>3. <<message>> # <<"admit">> /\ <<message>> # << >>
      BY <2>1
    <2>4. pc[c] # "asking"
      BY <2>1, <2>3 DEF BacklogAt
    <2> QED
      BY <1>1, <1>3, <1>4, <2>1, <2>2, <2>4
  <1> QED
    BY <1>1, <1>5, <1>6, <1>7 DEF BacklogAt, Backlogs

LEMMA UncountedFacts ==
  ASSUME NEW b \in Struct, Due(b), NEW a
  PROVE  LET t == Uncounted(b, a)
         IN /\ t \in Struct /\ Due(t) /\ t.phase = b.phase
            /\ t.generation = b.generation /\ t.epoch = b.epoch
            /\ t.inflight = IF a.counted = b.generation /\ b.inflight > 0
                            THEN b.inflight - 1 ELSE b.inflight
  <1>1. CASE a.counted = b.generation /\ b.inflight > 0
    <2> DEFINE less == b.inflight - 1
    <2>1. less \in Nat
      BY <1>1, StructFields
    <2>2. Uncounted(b, a) = [b EXCEPT !.inflight = less]
      BY <1>1 DEF Uncounted
    <2> HIDE DEF less
    <2>3. /\ Uncounted(b, a) \in Struct /\ Uncounted(b, a).phase = b.phase
          /\ Uncounted(b, a).generation = b.generation /\ Uncounted(b, a).epoch = b.epoch
          /\ Uncounted(b, a).inflight = less /\ Uncounted(b, a).timer = b.timer
          /\ Uncounted(b, a).deadline = b.deadline
      BY <2>1, <2>2 DEF Struct
    <2> QED
      BY <1>1, <2>3 DEF Due, less
  <1>2. CASE ~ (a.counted = b.generation /\ b.inflight > 0)
    BY <1>2 DEF Uncounted
  <1> QED
    BY <1>1, <1>2

(* An attempt is taken off the books, perhaps with a transition before.    *)
LEMMA LettingGo ==
  ASSUME Books, NEW c \in DOMAIN attempts, NEW b, Advances(breaker, b),
         TakeAttempt(c), breaker' = Uncounted(b, attempts[c]),
         ring' \in Ring, Marked(ring') => breaker'.phase = "closed",
         health' \in {"healthy", "degraded"}, ready' \subseteq {"current", "stale"},
         process # "down", process' = "up", UNCHANGED <<pc, receipt>>,
         queue' \in [Callers -> Seq(Messages)],
         \A d \in Callers \ {c} : queue'[d] = queue[d],
         queue'[c] \in {queue[c], << >>}, queue'[c] = << >> \/ pc[c] # "asking"
  PROVE  Books'
  <1>1. TypeOK /\ c \in Callers /\ attempts[c] \in Attempt /\ b \in Struct /\ Due(b)
        /\ Rises(breaker, b) /\ breaker.generation \in Nat
    BY Types DEF Books, Advances
  <1>2. /\ breaker' \in Struct /\ Due(breaker') /\ breaker'.phase = b.phase
        /\ breaker'.generation = b.generation /\ breaker'.epoch = b.epoch
        /\ breaker'.inflight = IF attempts[c].counted = b.generation /\ b.inflight > 0
                               THEN b.inflight - 1 ELSE b.inflight
    BY <1>1, UncountedFacts
  <1>3. Rises(breaker, breaker') /\ breaker'.generation \in Nat
    BY <1>1, <1>2, StructFields DEF Rises
  <1>4. /\ DOMAIN attempts' = DOMAIN attempts \ {c}
        /\ \A d \in DOMAIN attempts' : attempts'[d] = attempts[d]
        /\ lease' = IF Holds(c) THEN NoLease ELSE lease
    BY DEF TakeAttempt, Without
  <1>5. ~Holds(c)' /\ \A d \in Callers \ {c} : Holds(d)' <=> Holds(d)
    BY <1>4 DEF Holds, NoLease
  <1>6. TypeOK'
    <2>1. lease' = NoLease \/ lease' \in LeaseRow
      BY <1>1, <1>4, Types
    <2>2. \A d \in DOMAIN attempts' : d \in Callers /\ attempts'[d] \in Attempt
      BY <1>1, <1>4, Types
    <2> QED
      BY <1>1, <1>2, <2>1, <2>2 DEF TypeOK, Struct, Ring, LeaseRow, Attempt
  <1>7. RowsInv'
    BY <1>2 DEF RowsInv
  <1>8. LeaseInv'
    <2>1. lease'.held => lease' = lease /\ lease.token # c
      BY <1>4 DEF NoLease, Holds
    <2>2. lease'.held => lease.token \in DOMAIN attempts'
      BY <1>4, <2>1 DEF Books, LeaseInv
    <2> QED
      BY <1>1, <1>2, <2>1, <2>2 DEF Books, LeaseInv, Rises
  <1>9. CountInv'
    <2>1. IsFiniteSet(DOMAIN attempts) /\ IsFiniteSet(DOMAIN attempts')
      BY <1>4, FS_Subset DEF Books, CountInv
    <2>2. breaker.inflight = Cardinality(Counted) /\ Counted \subseteq DOMAIN attempts
      BY DEF Books, CountInv, Counted
    <2>3. IsFiniteSet(Counted)
      BY <2>1, <2>2, FS_Subset
    <2>4. CASE b.generation = breaker.generation
      <3>1. b.inflight = breaker.inflight
        BY <2>4 DEF Advances
      <3>2. Counted' = Counted \ {c}
        BY <1>2, <1>4, <2>4 DEF Counted
      <3>3. CASE attempts[c].counted = breaker.generation
        <4>1. c \in Counted
          BY <3>3 DEF Counted
        <4>2. Cardinality(Counted) \in Nat /\ Cardinality(Counted) > 0
          BY <2>3, <4>1, FS_CardinalityType, FS_EmptySet
        <4>3. Cardinality(Counted \ {c}) = Cardinality(Counted) - 1
          BY <2>3, <4>1, FS_RemoveElement
        <4> QED
          BY <1>2, <2>1, <2>2, <2>4, <3>1, <3>2, <3>3, <4>2, <4>3 DEF CountInv
      <3>4. CASE attempts[c].counted # breaker.generation
        <4>1. Counted \ {c} = Counted
          BY <3>4 DEF Counted
        <4> QED
          BY <1>2, <2>1, <2>2, <2>4, <3>1, <3>2, <3>4, <4>1 DEF CountInv
      <3> QED
        BY <3>3, <3>4
    <2>5. CASE b.generation # breaker.generation
      <3>1. b.inflight = 0 /\ breaker.generation < b.generation /\ b.generation \in Nat
        BY <1>1, <2>5, StructFields DEF Advances, Rises
      <3>2. \A d \in DOMAIN attempts :
              attempts[d].counted \in Nat /\ attempts[d].counted <= breaker.generation
        BY <1>1, Types DEF Books, At, AttemptAt, Attempt
      <3>3. Counted' = {}
        BY <1>1, <1>2, <1>4, <3>1, <3>2 DEF Counted
      <3>4. breaker'.inflight = 0
        BY <1>2, <3>1
      <3> QED
        BY <2>1, <3>3, <3>4, FS_EmptySet DEF CountInv
    <2> QED
      BY <2>4, <2>5
  <1>10. ASSUME NEW d \in Callers \ {c} PROVE At(d)'
    <2>1. /\ d \in DOMAIN attempts' <=> d \in DOMAIN attempts
          /\ d \in DOMAIN attempts => attempts'[d] = attempts[d]
          /\ Holds(d)' <=> Holds(d)
          /\ Holds(d) => lease' = lease
      BY <1>4, <1>5 DEF Holds
    <2>2. process' = process \/ (process = "starting" /\ process' = "up")
      BY <1>1, Types
    <2> QED
      BY <1>1, <1>3, <2>1, <2>2, BystanderStep DEF Books
  <1>11. At(c)'
    <2>1. ReceiptAt(c)'
      BY <1>1, <1>3, Types DEF Books, At, ReceiptAt, Rises
    <2>2. BacklogAt(c)'
      BY <1>1, <1>4, <1>5 DEF Books, At, BacklogAt, Backlogs
    <2>3. AttemptAt(c)'
      BY <1>4 DEF AttemptAt
    <2>4. WayBackAt(c)'
      BY <1>5 DEF WayBackAt
    <2> QED
      BY <2>1, <2>2, <2>3, <2>4 DEF At
  <1> QED
    BY <1>6, <1>7, <1>8, <1>9, <1>10, <1>11 DEF Books

(* The row of c is remembered with what it grants, once the owner is up.   *)
LEMMA HeldIsRemembered ==
  ASSUME Books, NEW c \in Callers, process # "down", Holds(c)
  PROVE  /\ c \in DOMAIN attempts
         /\ OfLease(c) => Matches(c)
BY DEF Books, LeaseInv, Holds, At, AttemptAt, OfLease, Matches, Remembered

LEMMA ReleaseKeeps ==
  ASSUME Books, NEW c \in DOMAIN attempts, ReleaseAttempt(c),
         process # "down", process' = "up", UNCHANGED <<pc, receipt>>,
         queue' \in [Callers -> Seq(Messages)],
         \A d \in Callers \ {c} : queue'[d] = queue[d],
         queue'[c] \in {queue[c], << >>}, queue'[c] = << >> \/ pc[c] # "asking"
  PROVE  Books'
  <1> DEFINE b == Uncounted(breaker, attempts[c])
  <1>1. /\ TypeOK /\ breaker \in Struct /\ Due(breaker) /\ ring \in Ring
        /\ ready \in SUBSET {"current", "stale"} /\ (Marked(ring) => breaker.phase = "closed")
    BY Types DEF Books, RowsInv
  <1>2. TakeAttempt(c) /\ WriteRowsLeaving(b, ring, ready)
    BY DEF ReleaseAttempt, WriteRows
  <1>3. b \in Struct /\ b.phase = breaker.phase
    BY <1>1, UncountedFacts
  <1>4. /\ breaker' = b /\ ring' \in Ring /\ health' \in {"healthy", "degraded"}
        /\ ready' \subseteq {"current", "stale"} /\ (Marked(ring') => b.phase = "closed")
    <2> HIDE DEF b
    <2> QED
      BY <1>1, <1>2, <1>3, RowsWritten
  <1>5. Advances(breaker, breaker)
    BY <1>1, SameAdvances
  <1> QED
    BY <1>2, <1>4, <1>5, LettingGo

(* A message that takes nothing off the books.                             *)
LEMMA PassingOver ==
  ASSUME Books, NEW c \in Callers, NEW messages, Takes(c, messages),
         Head(queue[c]) # "admit", WriteRows(breaker, ring),
         UNCHANGED <<process, attempts, lease, pc, receipt>>,
         c \in DOMAIN attempts => Holds(c),
         Holds(c) /\ lease.epoch = breaker.epoch => c \in Adapters \/ pc[c] # "done"
  PROVE  Books'
  <1>1. /\ TypeOK /\ breaker \in Struct /\ Due(breaker) /\ ring \in Ring /\ At(c)
        /\ ready \in SUBSET {"current", "stale"} /\ (Marked(ring) => breaker.phase = "closed")
        /\ breaker.generation \in Nat
    BY Types DEF Books, RowsInv
  <1>2. /\ process = "up" /\ queue' \in [Callers -> Seq(Messages)]
        /\ \A d \in Callers \ {c} : queue'[d] = queue[d]
        /\ queue'[c] = << >> /\ pc[c] # "asking"
        /\ pc[c] \notin {"idle", "granted", "probing", "serving"}
    BY <1>1, Taking DEF At
  <1>3. /\ breaker' = breaker /\ ring' \in Ring /\ health' \in {"healthy", "degraded"}
        /\ ready' \subseteq {"current", "stale"} /\ (Marked(ring') => breaker.phase = "closed")
    BY <1>1, RowsWritten DEF WriteRows
  <1>4. Advances(breaker, breaker') /\ Rises(breaker, breaker')
    BY <1>1, <1>3, SameAdvances DEF Advances
  <1>5. TypeOK'
    BY <1>1, <1>2, <1>3 DEF TypeOK, Struct, Ring
  <1>6. LeaseInv' /\ CountInv'
    BY <1>4, CountsKeep
  <1>7. \A d \in Callers : Holds(d)' <=> Holds(d)
    BY DEF Holds
  <1>8. \A d \in Callers \ {c} : At(d)'
    BY <1>1, <1>2, <1>3, <1>4, <1>7, BystanderStep DEF Books
  <1>9. At(c)'
    <2>1. ReceiptAt(c)'
      BY <1>1, <1>3 DEF At, ReceiptAt
    <2>2. BacklogAt(c)'
      BY <1>1, <1>2, <1>7 DEF At, BacklogAt, Backlogs
    <2>3. AttemptAt(c)'
      BY <1>1, <1>3, <1>7 DEF At, AttemptAt
    <2>4. WayBackAt(c)'
      BY <1>1, <1>2, <1>3, <1>7 DEF At, WayBackAt
    <2> QED
      BY <2>1, <2>2, <2>3, <2>4 DEF At
  <1>10. RowsInv'
    BY <1>1, <1>3 DEF RowsInv
  <1> QED
    BY <1>5, <1>6, <1>8, <1>9, <1>10 DEF Books

LEMMA HandleReleaseKeeps ==
  ASSUME Books, NEW c \in Callers, HandleRelease(c)
  PROVE  Books'
  <1> DEFINE message == Head(queue[c])
             lets == \/ message = "release_token"
                     \/ message = "release" /\ (Fenced(c) \/ Matches(c))
                     \/ message = "abandon" /\ Matches(c) /\ ~attempts[c].claimed
  <1>1. /\ Takes(c, {"release_token", "release", "abandon"})
        /\ message \in {"release_token", "release", "abandon"}
        /\ UNCHANGED <<process, pc, receipt>>
    BY DEF HandleRelease, Takes, CallerVars
  <1>2. TypeOK /\ At(c) /\ BacklogAt(c)
    BY DEF Books, At
  <1>3. /\ process = "up" /\ queue' \in [Callers -> Seq(Messages)]
        /\ \A d \in Callers \ {c} : queue'[d] = queue[d]
        /\ queue[c] = <<message>> /\ queue'[c] = << >>
    <2> HIDE DEF message
    <2>1. message # "admit"
      BY <1>1
    <2> QED
      BY <1>1, <1>2, <2>1, Taking DEF message
  <1>4. CASE lets /\ c \in DOMAIN attempts
    <2>1. ReleaseAttempt(c)
      BY <1>4 DEF HandleRelease
    <2> QED
      BY <1>1, <1>3, <1>4, <2>1, ReleaseKeeps
  <1>5. CASE ~ lets \/ c \notin DOMAIN attempts
    <2>1. UNCHANGED <<attempts, lease>> /\ WriteRows(breaker, ring)
      BY <1>5 DEF HandleRelease, ReleaseAttempt
    <2>2. c \in DOMAIN attempts => Holds(c)
      <3>1. CASE ~ lets /\ c \in DOMAIN attempts /\ ~Holds(c)
        <4>1. queue[c] = <<"abandon">> /\ Matches(c) /\ ~attempts[c].claimed
          BY <1>2, <3>1 DEF At, AttemptAt
        <4>2. message = "abandon"
          BY <4>1
        <4> QED
          BY <3>1, <4>1, <4>2
      <3> QED
        BY <1>5, <3>1
    <2>3. Holds(c) /\ lease.epoch = breaker.epoch => c \in Adapters \/ pc[c] # "done"
      <3> SUFFICES ASSUME Holds(c), lease.epoch = breaker.epoch, c \notin Adapters,
                          pc[c] = "done"
                   PROVE  FALSE
        OBVIOUS
      <3>1. c \in DOMAIN attempts /\ (OfLease(c) => Matches(c))
        BY <1>3, HeldIsRemembered
      <3>2. \/ queue[c] = <<"release_token">>
            \/ /\ queue[c] \in {<<"release">>, <<"signal_success">>, <<"signal_failure">>}
               /\ OfLease(c)
        BY <1>2, <1>3 DEF At, WayBackAt
      <3>3. message = "release_token" \/ (message = "release" /\ Matches(c))
        BY <1>1, <3>1, <3>2
      <3> QED
        BY <1>5, <3>1, <3>3
    <2>4. Head(queue[c]) # "admit"
      BY <1>1
    <2> QED
      BY <1>1, <2>1, <2>2, <2>3, <2>4, PassingOver
  <1> QED
    BY <1>4, <1>5

LEMMA HandleReportKeeps ==
  ASSUME Books, NEW c \in Callers, HandleReport(c)
  PROVE  Books'
  <1> DEFINE message == Head(queue[c])
             signal == IF message \in {"signal_success", "report_success"}
                       THEN "success" ELSE "failure"
             reports == {"signal_success", "signal_failure", "report_success", "report_failure"}
  <1>1. /\ Takes(c, reports) /\ message \in reports /\ UNCHANGED <<process, pc, receipt>>
    BY DEF HandleReport, Takes, CallerVars
  <1>2. /\ TypeOK /\ At(c) /\ BacklogAt(c) /\ breaker \in Struct /\ Due(breaker) /\ ring \in Ring
        /\ ready \in SUBSET {"current", "stale"} /\ RowsInv
    BY Types DEF Books, At, RowsInv
  <1>3. /\ process = "up" /\ queue' \in [Callers -> Seq(Messages)]
        /\ \A d \in Callers \ {c} : queue'[d] = queue[d]
        /\ queue[c] = <<message>> /\ queue'[c] = << >>
    <2> HIDE DEF message
    <2>1. message # "admit"
      BY <1>1
    <2> QED
      BY <1>1, <1>2, <2>1, Taking DEF message
  <1>4. CASE Decides(c)
    <2> DEFINE a == attempts[c]
               b == IF Matches(c) THEN Handled(breaker, signal) ELSE breaker
               t == Uncounted(b, a)
    <2>1. TakeAttempt(c) /\ WriteRowsLeaving(t, AfterHandling(b, ring), ready)
      BY <1>4 DEF HandleReport, WriteRows
    <2>2. Advances(breaker, b)
      BY <1>2, HandledAdvances, SameAdvances
    <2>3. AfterHandling(b, ring) \in Ring /\ AfterHandling(b, ring).signals = ring.signals
      BY <1>2, RingChanges DEF AfterHandling
    <2>4. c \in DOMAIN attempts
      BY <1>4 DEF Decides, Remembered
    <2> HIDE DEF b
    <2>5. t \in Struct /\ Rises(breaker, t)
      BY <2>2, UncountedFacts DEF Advances, Rises
    <2> HIDE DEF t
    <2>6. /\ breaker' = t /\ ring' \in Ring /\ health' \in {"healthy", "degraded"}
          /\ ready' \subseteq {"current", "stale"} /\ (Marked(ring') => t.phase = "closed")
      BY <1>2, <2>1, <2>3, <2>5, RowsRenewed
    <2> QED
      BY <1>1, <1>3, <2>1, <2>2, <2>4, <2>6, LettingGo DEF t
  <1>5. CASE ~Decides(c) /\ message \in {"signal_success", "signal_failure"} /\ Matches(c)
    <2>1. ReleaseAttempt(c) /\ c \in DOMAIN attempts
      BY <1>5 DEF HandleReport, Matches, Remembered
    <2> QED
      BY <1>1, <1>3, <2>1, ReleaseKeeps
  <1>6. CASE ~Decides(c) /\ ~ (message \in {"signal_success", "signal_failure"} /\ Matches(c))
    <2>1. UNCHANGED <<attempts, lease>> /\ WriteRows(breaker, ring)
      BY <1>6 DEF HandleReport
    <2>2. c \in DOMAIN attempts => Holds(c)
      <3>1. queue[c] # <<"abandon">>
        BY <1>1, <1>3
      <3> QED
        BY <1>2, <3>1 DEF At, AttemptAt
    <2>3. Holds(c) /\ lease.epoch = breaker.epoch => c \in Adapters \/ pc[c] # "done"
      <3> SUFFICES ASSUME Holds(c), lease.epoch = breaker.epoch, c \notin Adapters,
                          pc[c] = "done"
                   PROVE  FALSE
        OBVIOUS
      <3>1. OfLease(c) => Matches(c)
        BY <1>3, HeldIsRemembered
      <3>2. \/ queue[c] = <<"release_token">>
            \/ /\ queue[c] \in {<<"release">>, <<"signal_success">>, <<"signal_failure">>}
               /\ OfLease(c)
        BY <1>2, <1>3 DEF At, WayBackAt
      <3>3. message \in {"signal_success", "signal_failure"} /\ Matches(c)
        BY <1>1, <3>1, <3>2
      <3> QED
        BY <1>6, <3>3
    <2>4. Head(queue[c]) # "admit"
      BY <1>1
    <2> QED
      BY <1>1, <2>1, <2>2, <2>3, <2>4, PassingOver
  <1> QED
    BY <1>4, <1>5, <1>6

LEMMA Answering ==
  ASSUME TypeOK, NEW c \in Callers, NEW place \in Places, Replies(c, place)
  PROVE  /\ pc' \in [Callers -> Places]
         /\ \A d \in Callers \ {c} : pc'[d] = pc[d]
         /\ pc'[c] = IF pc[c] = "asking" THEN place ELSE pc[c]
         /\ pc[c] \in Places
BY Types DEF Replies

(* A request for admission that is answered without a lease.               *)
LEMMA TurningAway ==
  ASSUME Books, NEW c \in Callers, Takes(c, {"admit"}), Replies(c, "done"),
         UNCHANGED <<process, attempts, lease, receipt>>,
         Advances(breaker, breaker'), breaker'.generation = breaker.generation,
         ring' \in Ring, Marked(ring') => breaker'.phase = "closed",
         health' \in {"healthy", "degraded"}, ready' \subseteq {"current", "stale"}
  PROVE  Books'
  <1>1. /\ TypeOK /\ At(c) /\ BacklogAt(c) /\ Head(queue[c]) = "admit"
        /\ breaker' \in Struct /\ Rises(breaker, breaker') /\ breaker'.generation \in Nat
        /\ breaker.generation \in Nat
    BY Types, StructFields DEF Books, At, Takes, Advances
  <1>2. /\ process = "up" /\ queue' \in [Callers -> Seq(Messages)]
        /\ \A d \in Callers \ {c} : queue'[d] = queue[d]
        /\ c \notin DOMAIN attempts
        /\ queue'[c] \in {<< >>, <<"release_token">>}
        /\ pc[c] = "asking" => queue'[c] = << >>
        /\ pc[c] = "done" => queue'[c] = <<"release_token">>
        /\ pc[c] \notin {"idle", "granted", "probing", "serving"}
    BY <1>1, Taking
  <1>3. /\ pc' \in [Callers -> Places] /\ \A d \in Callers \ {c} : pc'[d] = pc[d]
        /\ pc'[c] \in {"done", "dead"} /\ (pc'[c] = "done" => pc[c] \in {"asking", "done"})
    BY <1>1, <1>2, Answering DEF Places
  <1>4. ~Holds(c)
    BY <1>2, HeldIsRemembered
  <1>5. \A d \in Callers : Holds(d)' <=> Holds(d)
    BY DEF Holds
  <1>6. TypeOK'
    BY <1>1, <1>2, <1>3 DEF TypeOK, Struct, Ring
  <1>7. LeaseInv' /\ CountInv'
    BY CountsKeep
  <1>8. \A d \in Callers \ {c} : At(d)'
    BY <1>1, <1>2, <1>3, <1>5, BystanderStep DEF Books
  <1>9. At(c)'
    <2>1. ReceiptAt(c)'
      BY <1>1, <1>3 DEF At, ReceiptAt
    <2>2. BacklogAt(c)'
      <3>1. queue'[c] \in Backlogs /\ queue'[c] # <<"admit">>
            /\ queue'[c] # <<"admit", "release_token">>
        <4>1. "release_token" \in Messages \ {"admit"}
          BY DEF Messages
        <4>2. /\ <<"release_token">> # <<"admit">> /\ << >> # <<"admit">>
              /\ <<"release_token">> # <<"admit", "release_token">>
              /\ << >> # <<"admit", "release_token">>
          OBVIOUS
        <4> QED
          BY <1>2, <4>1, <4>2 DEF Backlogs
      <3> QED
        BY <1>2, <1>3, <3>1 DEF BacklogAt
    <2>3. AttemptAt(c)' /\ WayBackAt(c)'
      BY <1>2, <1>4, <1>5 DEF AttemptAt, WayBackAt
    <2> QED
      BY <2>1, <2>2, <2>3 DEF At
  <1>10. RowsInv'
    BY DEF RowsInv, Advances
  <1> QED
    BY <1>6, <1>7, <1>8, <1>9, <1>10 DEF Books

(* What a grant prepares: a half-open generation with nothing in flight.   *)
LEMMA PreparedFacts ==
  ASSUME Books, NEW c \in Callers, Admissible(c)
  PROVE  /\ Advances(breaker, Prepared) /\ Prepared \in Struct
         /\ Prepared.phase = "half_open" /\ Prepared.inflight = 0
         /\ PreparedRing \in Ring /\ PreparedRing.signals = ring.signals
  <1>1. breaker \in Struct /\ Due(breaker) /\ ring \in Ring
    BY Types DEF Books, RowsInv
  <1>2. CASE breaker.phase = "half_open"
    BY <1>1, <1>2, SameAdvances DEF Prepared, PreparedRing, Admissible
  <1>3. CASE breaker.phase # "half_open"
    BY <1>1, <1>3, ProbationAdvances, RingChanges DEF Prepared, PreparedRing, Advances
  <1> QED
    BY <1>2, <1>3

LEMMA RefusalsKeep ==
  ASSUME Books, NEW c \in Callers, RefuseAdmission(c) \/ LeaseBusy(c)
  PROVE  Books'
  <1>1. /\ TypeOK /\ breaker \in Struct /\ Due(breaker) /\ ring \in Ring
        /\ ready \in SUBSET {"current", "stale"} /\ (Marked(ring) => breaker.phase = "closed")
        /\ health \in {"healthy", "degraded"}
    BY Types DEF Books, RowsInv
  <1>2. CASE RefuseAdmission(c)
    BY <1>1, <1>2, SameAdvances, TurningAway DEF RefuseAdmission, OwnerVars
  <1>3. CASE LeaseBusy(c)
    <2> DEFINE timer == IF breaker.phase = "half_open" THEN breaker.timer
                        ELSE Cancelled(breaker.timer)
    <2>1. timer \in {"none", breaker.timer} /\ timer \in Timers
      BY <1>1, Cancels, StructFields DEF Timers
    <2>2. breaker' = [breaker EXCEPT !.timer = timer]
      <3>1. CASE breaker.phase = "half_open"
        BY <1>1, <1>3, <3>1 DEF LeaseBusy, Struct
      <3>2. CASE breaker.phase # "half_open"
        BY <1>3, <3>2 DEF LeaseBusy
      <3> QED
        BY <3>1, <3>2
    <2> HIDE DEF timer
    <2>3. /\ breaker' \in Struct /\ breaker'.phase = breaker.phase
          /\ breaker'.generation = breaker.generation /\ breaker'.epoch = breaker.epoch
          /\ breaker'.inflight = breaker.inflight /\ breaker'.timer = timer
          /\ breaker'.deadline = breaker.deadline
      BY <1>1, <2>1, <2>2 DEF Struct
    <2>4. Advances(breaker, breaker')
      BY <1>1, <2>1, <2>3 DEF Advances, Rises, Due
    <2>5. ring' \in Ring /\ ring'.signals = ring.signals
      BY <1>3, PreparedFacts DEF LeaseBusy
    <2>6. Marked(ring') => breaker'.phase = "closed"
      BY <1>1, <2>3, <2>5 DEF Marked
    <2>7. /\ Takes(c, {"admit"}) /\ Replies(c, "done")
          /\ UNCHANGED <<process, attempts, lease, health, ready, receipt>>
      BY <1>3 DEF LeaseBusy
    <2> QED
      BY <1>1, <2>3, <2>4, <2>5, <2>6, <2>7, TurningAway
  <1> QED
    BY <1>2, <1>3

LEMMA GrantKeeps ==
  ASSUME Books, NEW c \in Callers, GrantAdmission(c)
  PROVE  Books'
  <1> DEFINE p == Prepared
             t == [p EXCEPT !.inflight = @ + 1]
             a == [generation |-> p.generation, counted |-> p.generation,
                   epoch |-> breaker.epoch, claimed |-> FALSE]
  <1>1. /\ Takes(c, {"admit"}) /\ Admissible(c) /\ ~lease.held
        /\ lease' = LeaseOf(c, p.generation, breaker.epoch)
        /\ attempts' = [d \in DOMAIN attempts \cup {c} |-> IF d = c THEN a ELSE attempts[d]]
        /\ WriteRowsLeaving(t, PreparedRing, ready)
        /\ receipt' = IF pc[c] = "asking"
                      THEN [receipt EXCEPT ![c] = [generation |-> p.generation,
                                                   epoch |-> breaker.epoch]]
                      ELSE receipt
        /\ Replies(c, "granted") /\ process' = process
    BY DEF GrantAdmission, LeaseRowFree, WriteRows
  <1>2. /\ TypeOK /\ At(c) /\ BacklogAt(c) /\ Head(queue[c]) = "admit" /\ RowsInv
        /\ breaker \in Struct /\ breaker.generation \in Nat /\ breaker.epoch \in Nat
        /\ ready \in SUBSET {"current", "stale"}
    BY <1>1, Types DEF Books, At, Takes
  <1>3. /\ p \in Struct /\ p.phase = "half_open" /\ p.inflight = 0 /\ Advances(breaker, p)
        /\ PreparedRing \in Ring /\ PreparedRing.signals = ring.signals
    BY <1>1, PreparedFacts
  <1> HIDE DEF p
  <1>4. /\ t \in Struct /\ Due(t) /\ t.phase = "half_open" /\ t.inflight = 1
        /\ t.generation = p.generation /\ t.epoch = p.epoch /\ p.epoch = breaker.epoch
        /\ t.generation \in Nat
    BY <1>3, StructFields DEF Struct, Due, Advances, Rises
  <1>5. Rises(breaker, t)
    BY <1>3, <1>4 DEF Advances, Rises
  <1> HIDE DEF t
  <1>6. /\ breaker' = t /\ ring' \in Ring /\ health' \in {"healthy", "degraded"}
        /\ ready' \subseteq {"current", "stale"} /\ (Marked(ring') => t.phase = "closed")
    BY <1>1, <1>2, <1>3, <1>4, <1>5, RowsRenewed
  <1>7. /\ process = "up" /\ queue' \in [Callers -> Seq(Messages)]
        /\ \A d \in Callers \ {c} : queue'[d] = queue[d]
        /\ c \notin DOMAIN attempts
        /\ queue'[c] \in {<< >>, <<"release_token">>}
        /\ pc[c] = "asking" => queue'[c] = << >>
        /\ pc[c] = "done" => queue'[c] = <<"release_token">>
        /\ pc[c] \notin {"idle", "granted", "probing", "serving"}
    BY <1>1, <1>2, Taking
  <1>8. /\ pc' \in [Callers -> Places] /\ \A d \in Callers \ {c} : pc'[d] = pc[d]
        /\ pc'[c] = IF pc[c] = "asking" THEN "granted" ELSE pc[c]
        /\ pc'[c] \in {"granted", "done", "dead"}
    BY <1>1, <1>2, <1>7, Answering DEF Places
  <1>9. /\ lease'.held /\ lease'.token = c /\ lease'.generation = p.generation
        /\ lease'.epoch = breaker.epoch /\ lease'.claimed = FALSE /\ lease' \in LeaseRow
    BY <1>1, <1>2, <1>3, StructFields DEF LeaseOf, LeaseRow
  <1>10. /\ receipt' \in [Callers -> [generation : Nat, epoch : Nat]]
         /\ \A d \in Callers \ {c} : receipt'[d] = receipt[d]
         /\ pc[c] = "asking" =>
              receipt'[c] = [generation |-> p.generation, epoch |-> breaker.epoch]
         /\ pc[c] # "asking" => receipt'[c] = receipt[c]
    <2>1. [generation |-> p.generation, epoch |-> breaker.epoch]
            \in [generation : Nat, epoch : Nat]
      BY <1>2, <1>3, StructFields
    <2> QED
      BY <1>1, <1>2, <2>1, Types
  <1>11. /\ DOMAIN attempts' = DOMAIN attempts \cup {c}
         /\ \A d \in DOMAIN attempts : attempts'[d] = attempts[d]
         /\ attempts'[c] = a /\ a \in Attempt
    BY <1>1, <1>2, <1>3, <1>7, StructFields DEF Attempt
  <1>12. TypeOK'
    <2>1. \A d \in DOMAIN attempts' : d \in Callers /\ attempts'[d] \in Attempt
      BY <1>2, <1>11, Types
    <2> QED
      BY <1>2, <1>4, <1>6, <1>7, <1>8, <1>9, <1>10, <1>1, <2>1
      DEF TypeOK, Struct, Ring, LeaseRow, Attempt
  <1>13. RowsInv'
    BY <1>4, <1>6 DEF RowsInv
  <1>14. LeaseInv'
    BY <1>1, <1>2, <1>4, <1>6, <1>7, <1>9, <1>11 DEF LeaseInv
  <1>15. CountInv'
    <2>1. \A d \in DOMAIN attempts : attempts[d].counted # t.generation
      <3>1. CASE t.generation = breaker.generation
        <4>1. breaker.inflight = 0
          BY <1>3, <1>4, <3>1 DEF Advances
        <4>2. IsFiniteSet(Counted) /\ Cardinality(Counted) = 0
          BY <1>7, <4>1, FS_Subset DEF Books, CountInv, Counted
        <4>3. Counted = {}
          BY <4>2, FS_EmptySet
        <4> QED
          BY <3>1, <4>3 DEF Counted
      <3>2. CASE t.generation # breaker.generation
        <4>1. t.generation > breaker.generation
          BY <1>5, <3>2 DEF Rises
        <4>2. \A d \in DOMAIN attempts :
                attempts[d].counted \in Nat /\ attempts[d].counted <= breaker.generation
          BY <1>2, Types DEF Books, At, AttemptAt, Attempt
        <4> QED
          BY <1>2, <1>4, <4>1, <4>2
      <3> QED
        BY <3>1, <3>2
    <2>2. Counted' = {c}
      BY <1>4, <1>6, <1>11, <2>1 DEF Counted
    <2>3. IsFiniteSet(DOMAIN attempts')
      BY <1>11, FS_AddElement DEF Books, CountInv
    <2> QED
      BY <1>4, <1>6, <2>2, <2>3, FS_Singleton DEF CountInv
  <1>16. ASSUME NEW d \in Callers \ {c} PROVE At(d)'
    <2>1. ~Holds(d) /\ ~Holds(d)'
      BY <1>1, <1>9 DEF Holds
    <2>2. d \in DOMAIN attempts' <=> d \in DOMAIN attempts
      BY <1>11
    <2> QED
      BY <1>1, <1>2, <1>4, <1>5, <1>6, <1>7, <1>8, <1>10, <1>11, <2>1, <2>2, BystanderStep
      DEF Books
  <1>17. At(c)'
    <2>1. ReceiptAt(c)'
      <3>1. receipt'[c].generation <= breaker'.generation
        <4>1. CASE pc[c] = "asking"
          BY <1>4, <1>6, <1>10, <4>1
        <4>2. CASE pc[c] # "asking"
          BY <1>2, <1>4, <1>5, <1>6, <1>10, <4>2, Types DEF At, ReceiptAt, Rises
        <4> QED
          BY <4>1, <4>2
      <3> QED
        BY <1>8, <3>1 DEF ReceiptAt
    <2>2. BacklogAt(c)'
      <3>1. queue'[c] \in Backlogs /\ queue'[c] # <<"admit">>
            /\ queue'[c] # <<"admit", "release_token">>
        <4>1. "release_token" \in Messages \ {"admit"}
          BY DEF Messages
        <4>2. /\ <<"release_token">> # <<"admit">> /\ << >> # <<"admit">>
              /\ <<"release_token">> # <<"admit", "release_token">>
              /\ << >> # <<"admit", "release_token">>
          OBVIOUS
        <4> QED
          BY <1>7, <4>1, <4>2 DEF Backlogs
      <3> QED
        BY <1>1, <1>7, <1>8, <3>1 DEF BacklogAt
    <2>3. AttemptAt(c)'
      BY <1>4, <1>6, <1>9, <1>11 DEF AttemptAt, Holds
    <2>4. WayBackAt(c)'
      BY <1>7, <1>8, <1>9, <1>10 DEF WayBackAt, OfLease
    <2> QED
      BY <2>1, <2>2, <2>3, <2>4 DEF At
  <1> QED
    BY <1>12, <1>13, <1>14, <1>15, <1>16, <1>17 DEF Books

LEMMA HandleMessageKeeps ==
  ASSUME Books, NEW c \in Callers, HandleMessage(c)
  PROVE  Books'
BY RefusalsKeep, GrantKeeps, HandleReportKeeps, HandleReleaseKeeps DEF HandleMessage

LEMMA DownKeeps ==
  ASSUME Books, NEW c \in Callers, Down(c)
  PROVE  Books'
  <1>1. /\ process = "up" /\ process' = process /\ UNCHANGED <<pc, receipt, queue>>
        /\ c \in DOMAIN attempts /\ queue[c] = << >> /\ ReleaseAttempt(c)
    BY DEF Down, CallerVars
  <1>2. queue \in [Callers -> Seq(Messages)]
    BY Types DEF Books
  <1> QED
    BY <1>1, <1>2, ReleaseKeeps

LEMMA ReconcileKeeps ==
  ASSUME Books, Reconcile
  PROVE  Books'
  <1>1. /\ process = "starting" /\ process' = "up" /\ UNCHANGED <<pc, receipt, queue>>
    BY DEF Reconcile, CallerVars
  <1>2. /\ TypeOK /\ breaker \in Struct /\ Due(breaker) /\ ring \in Ring
        /\ ready \in SUBSET {"current", "stale"} /\ (Marked(ring) => breaker.phase = "closed")
        /\ queue \in [Callers -> Seq(Messages)] /\ breaker.generation \in Nat
    BY Types DEF Books, RowsInv
  <1>3. ASSUME NEW c \in DOMAIN attempts, ~Holds(c), ReleaseAttempt(c)
        PROVE  Books'
    <2>1. c \in Callers
      BY <1>2, Types
    <2>2. queue[c] = <<"abandon">> /\ <<"abandon">> # << >> /\ <<"abandon">> # <<"admit">>
      BY <1>3, <2>1 DEF Books, At, AttemptAt
    <2>3. pc[c] # "asking"
      BY <2>1, <2>2 DEF Books, At, BacklogAt
    <2> QED
      BY <1>1, <1>2, <1>3, <2>1, <2>3, ReleaseKeeps
  <1>4. CASE UNCHANGED <<attempts, lease>> /\ WriteRows(breaker, ring)
    <2>1. /\ breaker' = breaker /\ ring' \in Ring /\ health' \in {"healthy", "degraded"}
          /\ ready' \subseteq {"current", "stale"} /\ (Marked(ring') => breaker.phase = "closed")
      BY <1>2, <1>4, RowsWritten DEF WriteRows
    <2>2. TypeOK'
      BY <1>1, <1>2, <1>4, <2>1 DEF TypeOK, Ring
    <2>3. Rises(breaker, breaker')
      BY <2>1 DEF Rises
    <2>4. \A d \in Callers : Holds(d)' <=> Holds(d)
      BY <1>4 DEF Holds
    <2>5. \A d \in Callers : At(d)'
      BY <1>1, <1>2, <1>4, <2>1, <2>3, <2>4, BystanderStep DEF Books
    <2>6. LeaseInv' /\ CountInv' /\ RowsInv'
      BY <1>1, <1>2, <1>4, <2>1 DEF Books, LeaseInv, CountInv, Counted, RowsInv
    <2> QED
      BY <2>2, <2>5, <2>6 DEF Books
  <1> QED
    BY <1>3, <1>4 DEF Reconcile

LEMMA RestartKeeps ==
  ASSUME Books, Restart
  PROVE  Books'
  <1> DEFINE stillOpen == breaker.phase = "open" /\ breaker.deadline = "future"
             g == breaker.generation + 1
  <1>1. /\ process = "down" /\ process' = "starting" /\ UNCHANGED <<pc, receipt, queue, ready>>
        /\ breaker' = [phase |-> IF stillOpen /\ ~Inherited THEN "open" ELSE "half_open",
                       failures |-> 0, successes |-> 0,
                       generation |-> g, epoch |-> breaker.epoch + 1,
                       health |-> "degraded",
                       inflight |-> IF Inherited THEN 1 ELSE 0,
                       deadline |-> IF stillOpen THEN "future" ELSE "none",
                       timer |-> IF stillOpen /\ ~Inherited THEN "armed" ELSE "none"]
        /\ lease' = InheritedLease
        /\ attempts' = [c \in IF Inherited THEN {lease.token} ELSE {} |->
                          [generation |-> lease.generation, counted |-> g,
                           epoch |-> lease.epoch, claimed |-> lease.claimed]]
        /\ ring' = EmptyRing(ring.pending) /\ health' = "degraded"
    BY DEF Restart, CallerVars
  <1>2. /\ TypeOK /\ breaker.generation \in Nat /\ breaker.epoch \in Nat /\ g \in Nat
        /\ g > breaker.generation /\ breaker.epoch + 1 \in Nat
        /\ 0 \in 0..FailureThreshold /\ ring.pending \in BOOLEAN
    BY Types, RingChanges, ConstantsAssumption DEF Books
  <1> HIDE DEF g
  <1>3. /\ breaker' \in Struct /\ Due(breaker') /\ breaker'.generation = g
        /\ breaker'.epoch = breaker.epoch + 1 /\ (Inherited => breaker'.phase = "half_open")
        /\ breaker'.inflight = IF Inherited THEN 1 ELSE 0
    BY <1>1, <1>2 DEF Struct, Phases, Deadlines, Timers, Due
  <1>4. ring' \in Ring /\ ~ Marked(ring')
    BY <1>1, <1>2 DEF EmptyRing, Ring, Marked
  <1>5. Inherited => /\ lease.held /\ lease \in LeaseRow /\ lease' = lease
                     /\ lease.token \in Callers /\ lease.generation \in Nat /\ lease.epoch \in Nat
                     /\ lease.claimed \in BOOLEAN
                     /\ lease.epoch <= breaker.epoch /\ lease.generation <= g
    BY <1>1, <1>2, Types DEF Inherited, InheritedLease, Books, LeaseInv, LeaseRow, g
  <1>6. ~Inherited => ~lease'.held /\ lease' = NoLease
    BY <1>1 DEF InheritedLease, NoLease
  <1>7. /\ DOMAIN attempts' = IF Inherited THEN {lease.token} ELSE {}
        /\ Inherited => /\ attempts'[lease.token].generation = lease.generation
                        /\ attempts'[lease.token].counted = g
                        /\ attempts'[lease.token].epoch = lease.epoch
                        /\ attempts'[lease.token].claimed = lease.claimed
                        /\ attempts'[lease.token] \in Attempt
    BY <1>1, <1>2, <1>5 DEF Attempt
  <1>8. TypeOK'
    <2>1. \A c \in DOMAIN attempts' : c \in Callers /\ attempts'[c] \in Attempt
      BY <1>5, <1>7
    <2>2. lease' = NoLease \/ lease' \in LeaseRow
      BY <1>5, <1>6
    <2> QED
      BY <1>1, <1>2, <1>3, <1>4, <2>1, <2>2 DEF TypeOK, Struct, Ring, Attempt, LeaseRow
  <1>9. RowsInv'
    BY <1>3, <1>4 DEF RowsInv
  <1>10. LeaseInv'
    BY <1>1, <1>2, <1>3, <1>5, <1>6, <1>7 DEF LeaseInv
  <1>11. CountInv'
    <2>1. CASE Inherited
      <3>1. Counted' = {lease.token}
        BY <1>3, <1>7, <2>1 DEF Counted
      <3> QED
        BY <1>3, <1>7, <2>1, <3>1, FS_Singleton DEF CountInv
    <2>2. CASE ~Inherited
      <3>1. Counted' = {}
        BY <1>7, <2>2 DEF Counted
      <3> QED
        BY <1>3, <1>7, <2>2, <3>1, FS_EmptySet DEF CountInv
    <2> QED
      BY <2>1, <2>2
  <1>12. ASSUME NEW c \in Callers PROVE At(c)'
    <2>1. At(c) /\ queue'[c] = << >> /\ receipt[c].generation \in Nat
      BY <1>1, <1>2, Types DEF Books, At, BacklogAt
    <2>2. Holds(c)' => Holds(c) /\ Inherited
      BY <1>5, <1>6 DEF Holds
    <2>3. c \in DOMAIN attempts' => Inherited /\ c = lease.token /\ Holds(c) /\ Holds(c)'
      BY <1>5, <1>7 DEF Holds
    <2>4. ReceiptAt(c)'
      BY <1>1, <1>2, <1>3, <2>1 DEF At, ReceiptAt
    <2>5. BacklogAt(c)'
      <3>1. << >> # <<"admit">> /\ << >> # <<"admit", "release_token">>
        OBVIOUS
      <3> QED
        BY <1>1, <2>1, <2>2, <2>3, <3>1 DEF At, BacklogAt, Backlogs
    <2>6. AttemptAt(c)'
      <3>1. c \in DOMAIN attempts' =>
              /\ attempts'[c].generation <= breaker'.generation
              /\ attempts'[c].counted <= breaker'.generation
              /\ breaker'.phase = "half_open"
        BY <1>2, <1>3, <1>5, <1>7, <2>3
      <3>2. c \in DOMAIN attempts' =>
              /\ attempts'[c].generation = lease'.generation
              /\ attempts'[c].epoch = lease'.epoch
              /\ attempts'[c].claimed = lease'.claimed
        BY <1>5, <1>7, <2>3
      <3> QED
        BY <2>3, <3>1, <3>2 DEF AttemptAt
    <2>7. WayBackAt(c)'
      BY <1>2, <1>3, <1>5, <2>2 DEF WayBackAt
    <2> QED
      BY <2>4, <2>5, <2>6, <2>7 DEF At
  <1> QED
    BY <1>8, <1>9, <1>10, <1>11, <1>12 DEF Books

LEMMA Dying ==
  ASSUME Books, OwnerDies, breaker' = [breaker EXCEPT !.timer = "none"],
         ring' \in Ring, ring'.signals = ring.signals, UNCHANGED <<health, pc, receipt>>,
         lease' = NoLease \/ lease' \in LeaseRow,
         lease'.held => /\ lease'.epoch <= breaker.epoch
                        /\ lease'.generation <= breaker.generation + 1
                        /\ pc[lease'.token] \notin {"idle", "serving"}
  PROVE  Books'
  <1>1. /\ TypeOK /\ breaker \in Struct /\ breaker.generation \in Nat /\ breaker.epoch \in Nat
    BY Types DEF Books
  <1>2. /\ breaker' \in Struct /\ breaker'.phase = breaker.phase
        /\ breaker'.generation = breaker.generation /\ breaker'.epoch = breaker.epoch
        /\ breaker'.timer = "none"
    BY <1>1, TimerSet
  <1>3. /\ process' = "down" /\ DOMAIN attempts' = {} /\ ready' = {}
        /\ queue' = [c \in Callers |-> << >>]
    BY DEF OwnerDies
  <1>4. TypeOK'
    <2>1. << >> \in Seq(Messages)
      OBVIOUS
    <2>2. breaker' \in Struct /\ ring' \in Ring /\ (lease' = NoLease \/ lease' \in LeaseRow)
      BY <1>2
    <2> QED
      BY <1>1, <1>3, <2>1, <2>2 DEF TypeOK, Struct, Ring, LeaseRow
  <1>5. RowsInv'
    BY <1>2 DEF Books, RowsInv, Due, Marked
  <1>6. LeaseInv'
    BY <1>2, <1>3 DEF LeaseInv
  <1>7. CountInv'
    BY <1>3, FS_EmptySet DEF CountInv
  <1>8. ASSUME NEW c \in Callers PROVE At(c)'
    <2>1. << >> # <<"admit">> /\ << >> # <<"admit", "release_token">>
      OBVIOUS
    <2>2. ReceiptAt(c)'
      BY <1>2 DEF Books, At, ReceiptAt
    <2>3. BacklogAt(c)'
      BY <1>3, <2>1 DEF BacklogAt, Backlogs, Holds
    <2>4. AttemptAt(c)' /\ WayBackAt(c)'
      BY <1>3 DEF AttemptAt, WayBackAt
    <2> QED
      BY <2>2, <2>3, <2>4 DEF At
  <1> QED
    BY <1>4, <1>5, <1>6, <1>7, <1>8 DEF Books

LEMMA FaultsKeep ==
  ASSUME Books, Fault
  PROVE  Books'
  <1>1. /\ TypeOK /\ ring \in Ring /\ (lease = NoLease \/ lease \in LeaseRow)
        /\ breaker \in Struct /\ breaker.generation \in Nat /\ breaker.epoch \in Nat
        /\ lease.held => lease \in LeaseRow
    BY Types DEF Books
  <1>2. CASE Crash
    <2>1. lease.held => /\ lease.epoch <= breaker.epoch
                        /\ lease.generation <= breaker.generation + 1
                        /\ pc[lease.token] \notin {"idle", "serving"}
      <3> SUFFICES ASSUME lease.held
                   PROVE  /\ lease.epoch <= breaker.epoch
                          /\ lease.generation <= breaker.generation + 1
                          /\ pc[lease.token] \notin {"idle", "serving"}
        OBVIOUS
      <3>1. lease.token \in Callers /\ Holds(lease.token) /\ lease.generation \in Nat
        BY <1>1 DEF LeaseRow, Holds
      <3>2. process # "down"
        BY <1>2 DEF Crash, OwnerDies
      <3>3. lease.token \in DOMAIN attempts
        BY <3>1, <3>2, HeldIsRemembered
      <3>4. lease.generation <= breaker.generation
        BY <3>1, <3>3 DEF Books, At, AttemptAt
      <3>5. pc[lease.token] \notin {"idle", "serving"}
        BY <3>1 DEF Books, At, BacklogAt
      <3> QED
        BY <1>1, <3>1, <3>4, <3>5 DEF Books, LeaseInv
    <2> QED
      BY <1>1, <1>2, <2>1, Dying DEF Crash, CallerVars
  <1>3. ASSUME NEW c \in Callers, CrashGranting(c) PROVE Books'
    <2>1. /\ Advances(breaker, Prepared) /\ Prepared \in Struct
          /\ PreparedRing \in Ring /\ PreparedRing.signals = ring.signals
      BY <1>3, PreparedFacts DEF CrashGranting
    <2>2. Prepared.generation \in Nat /\ Prepared.generation <= breaker.generation + 1
      BY <1>1, <2>1, ProbationAdvances, StructFields DEF Prepared
    <2>3. /\ lease' = LeaseOf(c, Prepared.generation, breaker.epoch)
          /\ OwnerDies /\ breaker' = [breaker EXCEPT !.timer = "none"] /\ ring' = PreparedRing
          /\ UNCHANGED <<health, pc, receipt>> /\ queue[c] # << >>
      BY <1>3 DEF CrashGranting, CallerVars
    <2>4. /\ lease' \in LeaseRow /\ lease'.token = c /\ lease'.epoch = breaker.epoch
          /\ lease'.generation = Prepared.generation
      BY <1>1, <2>2, <2>3 DEF LeaseOf, LeaseRow
    <2>5. pc[c] \notin {"idle", "serving"}
      BY <2>3 DEF Books, At, BacklogAt
    <2> QED
      BY <1>1, <2>1, <2>2, <2>3, <2>4, <2>5, Dying
  <1> QED
    BY <1>2, <1>3 DEF Fault

-----------------------------------------------------------------------------
(* The steps of a request process.                                         *)
LEMMA CallerMoves ==
  ASSUME Books, NEW c \in Callers, NEW place \in Places, Moves(c, place), At(c)',
         UNCHANGED <<process, breaker, attempts>>,
         ring' \in Ring, Marked(ring') => breaker.phase = "closed",
         health' \in {"healthy", "degraded"}, ready' \subseteq {"current", "stale"},
         receipt' \in [Callers -> [generation : Nat, epoch : Nat]],
         queue' \in [Callers -> Seq(Messages)],
         \A d \in Callers \ {c} : receipt'[d] = receipt[d] /\ queue'[d] = queue[d],
         \/ lease' = lease
         \/ Holds(c) /\ lease' \in {NoLease, [lease EXCEPT !.claimed = TRUE]}
  PROVE  Books'
  <1>1. /\ TypeOK /\ breaker.generation \in Nat
        /\ lease = NoLease \/ lease \in LeaseRow
        /\ lease.held => lease \in LeaseRow
    BY Types DEF Books
  <1>2. /\ lease' = NoLease \/ lease' \in LeaseRow
        /\ lease'.held => /\ lease.held /\ lease'.token = lease.token
                          /\ lease'.generation = lease.generation
                          /\ lease'.epoch = lease.epoch
    <2>1. CASE lease' = lease
      BY <1>1, <2>1
    <2>2. CASE lease' = NoLease
      BY <2>2 DEF NoLease
    <2>3. CASE Holds(c) /\ lease' = [lease EXCEPT !.claimed = TRUE]
      <3>1. lease.held /\ lease \in LeaseRow
        BY <1>1, <2>3 DEF Holds
      <3> QED
        BY <2>3, <3>1 DEF LeaseRow
    <2> QED
      BY <2>1, <2>2, <2>3
  <1>3. /\ pc' \in [Callers -> Places] /\ \A d \in Callers \ {c} : pc'[d] = pc[d]
    BY <1>1, Types DEF Moves
  <1>4. TypeOK'
    BY <1>1, <1>2, <1>3 DEF TypeOK, Ring, LeaseRow
  <1>5. RowsInv'
    BY DEF Books, RowsInv
  <1>6. LeaseInv'
    BY <1>2 DEF Books, LeaseInv
  <1>7. CountInv'
    BY DEF Books, CountInv, Counted
  <1>8. ASSUME NEW d \in Callers \ {c} PROVE At(d)'
    <2>1. (Holds(d)' <=> Holds(d)) /\ (Holds(d) => lease' = lease)
      <3>1. CASE lease' = lease
        BY <3>1 DEF Holds
      <3>2. CASE lease' # lease
        <4>1. Holds(c) /\ (lease'.held => lease'.token = c)
          BY <1>2, <3>2 DEF Holds
        <4> QED
          BY <4>1 DEF Holds
      <3> QED
        BY <3>1, <3>2
    <2>2. Rises(breaker, breaker') /\ breaker'.generation \in Nat
      BY <1>1 DEF Rises
    <2> QED
      BY <1>1, <1>3, <2>1, <2>2, BystanderStep DEF Books
  <1> QED
    BY <1>4, <1>5, <1>6, <1>7, <1>8 DEF Books

LEMMA AppendToAdmit ==
  ASSUME NEW message \in Messages
  PROVE  Append(<<"admit">>, message) = <<"admit", message>>
  <1> DEFINE appended == Append(<<"admit">>, message)
             backlog  == <<"admit", message>>
  <1>1. <<"admit">> \in Seq(Messages) /\ backlog \in Seq(Messages)
    BY DEF Messages
  <1>2. appended \in Seq(Messages)
    BY <1>1
  <1>3. Len(appended) = 2 /\ appended[1] = "admit" /\ appended[2] = message
    BY <1>1
  <1>4. Len(appended) = Len(backlog) /\ \A i \in 1..Len(appended) : appended[i] = backlog[i]
    BY <1>3
  <1> HIDE DEF appended, backlog
  <1>5. appended = backlog
    BY <1>1, <1>2, <1>4, SeqEqual
  <1> QED
    BY <1>5 DEF appended, backlog

LEMMA Sent ==
  ASSUME TypeOK, NEW c \in Callers, NEW message \in Messages, Sends(c, message)
  PROVE  /\ queue' \in [Callers -> Seq(Messages)]
         /\ \A d \in Callers \ {c} : queue'[d] = queue[d]
         /\ process = "down" => queue'[c] = queue[c]
         /\ process # "down" /\ queue[c] = << >> => queue'[c] = <<message>>
         /\ process # "down" /\ queue[c] = <<"admit">> => queue'[c] = <<"admit", message>>
  <1>1. queue \in [Callers -> Seq(Messages)] /\ queue[c] \in Seq(Messages)
    BY Types
  <1>2. Append(queue[c], message) \in Seq(Messages)
    BY <1>1
  <1>3. queue[c] = << >> => Append(queue[c], message) = <<message>>
    OBVIOUS
  <1>4. queue[c] = <<"admit">> => Append(queue[c], message) = <<"admit", message>>
    BY AppendToAdmit
  <1> QED
    BY <1>1, <1>2, <1>3, <1>4 DEF Sends

LEMMA BacklogsDiffer ==
  /\ << >> # <<"admit">> /\ << >> # <<"admit", "release_token">>
  /\ <<"admit">> # <<"admit", "release_token">>
  /\ \A message \in Messages \ {"admit"} :
       /\ <<message>> # <<"admit">> /\ <<message>> # <<"admit", "release_token">>
       /\ <<message>> # << >> /\ <<message>> \in Backlogs
  /\ \A p, q \in Messages : <<p>> = <<q>> => p = q
BY DEF Backlogs

(* A process that ends its attempt, or its wait, with a message.           *)
LEMMA Leaving ==
  ASSUME Books, NEW c \in Callers, pc[c] \in {"granted", "probing"},
         NEW message \in Messages \ {"admit"}, Sends(c, message), Moves(c, "done"),
         UNCHANGED <<process, breaker, attempts, ring, health, ready, receipt>>,
         \/ lease' = lease
         \/ Holds(c) /\ lease' = NoLease /\ message = "abandon"
            /\ (process # "down" => Matches(c) /\ ~attempts[c].claimed),
         Holds(c)' /\ process # "down" /\ lease.epoch = breaker.epoch /\ c \notin Adapters =>
           message \in {"release_token", "release", "signal_success", "signal_failure"}
  PROVE  Books'
  <1>1. /\ TypeOK /\ At(c) /\ ring \in Ring /\ (Marked(ring) => breaker.phase = "closed")
        /\ health \in {"healthy", "degraded"} /\ ready \subseteq {"current", "stale"}
        /\ receipt \in [Callers -> [generation : Nat, epoch : Nat]]
        /\ pc \in [Callers -> Places]
    BY Types DEF Books, RowsInv
  <1>2. queue[c] = << >>
    BY <1>1 DEF At, BacklogAt
  <1>3. /\ queue' \in [Callers -> Seq(Messages)]
        /\ \A d \in Callers \ {c} : queue'[d] = queue[d]
        /\ process = "down" => queue'[c] = << >>
        /\ process # "down" => queue'[c] = <<message>>
    BY <1>1, <1>2, Sent
  <1>4. pc'[c] = "done" /\ "done" \in Places
    BY <1>1 DEF Moves, Places
  <1>5. ReceiptAt(c)'
    BY <1>1, <1>4 DEF At, ReceiptAt
  <1>6. BacklogAt(c)'
    <2>1. << >> \in Backlogs
      BY DEF Backlogs
    <2> QED
      BY <1>1, <1>3, <1>4, <2>1, BacklogsDiffer DEF At, BacklogAt
  <1>7. AttemptAt(c)'
    <2>1. CASE lease' = lease
      <3>1. (Holds(c)' <=> Holds(c)) /\ (c \in DOMAIN attempts => Holds(c))
        <4>1. << >> # <<"abandon">>
          OBVIOUS
        <4> QED
          BY <1>1, <1>2, <2>1, <4>1 DEF Holds, At, AttemptAt
      <3> QED
        BY <1>1, <2>1, <3>1 DEF At, AttemptAt
    <2>2. CASE Holds(c) /\ lease' = NoLease /\ message = "abandon"
               /\ (process # "down" => Matches(c) /\ ~attempts[c].claimed)
      <3>1. c \in DOMAIN attempts => process # "down" /\ queue'[c] = <<"abandon">>
        BY <1>1, <1>3, <2>2 DEF At, BacklogAt
      <3>2. (Matches(c) <=> Matches(c)') /\ ~Holds(c)'
        BY <2>2 DEF Matches, Remembered, Holds, NoLease
      <3> QED
        BY <1>1, <2>2, <3>1, <3>2 DEF At, AttemptAt
    <2> QED
      BY <2>1, <2>2
  <1>8. WayBackAt(c)'
    <2> SUFFICES ASSUME process # "down", Holds(c)', lease'.epoch = breaker.epoch,
                        c \notin Adapters
                 PROVE  \/ queue'[c] = <<"release_token">>
                        \/ /\ queue'[c] \in {<<"release">>, <<"signal_success">>,
                                             <<"signal_failure">>}
                           /\ OfLease(c)'
      BY <1>4 DEF WayBackAt
    <2>1. lease' = lease /\ Holds(c)
      BY DEF Holds, NoLease
    <2>2. OfLease(c)'
      BY <1>1, <2>1 DEF At, WayBackAt, OfLease
    <2>3. message \in {"release_token", "release", "signal_success", "signal_failure"}
      BY <2>1
    <2> QED
      BY <1>3, <2>2, <2>3
  <1>9. At(c)'
    BY <1>5, <1>6, <1>7, <1>8 DEF At
  <1> QED
    BY <1>1, <1>3, <1>4, <1>9, CallerMoves

LEMMA CallersKeep ==
  ASSUME Books, NEW c \in Callers, CallerStep(c)
  PROVE  Books'
  <1>1. /\ TypeOK /\ RowsInv /\ At(c) /\ ring \in Ring /\ (Marked(ring) => breaker.phase = "closed")
        /\ health \in {"healthy", "degraded"} /\ ready \subseteq {"current", "stale"}
        /\ receipt \in [Callers -> [generation : Nat, epoch : Nat]]
        /\ pc \in [Callers -> Places] /\ queue \in [Callers -> Seq(Messages)]
        /\ breaker.generation \in Nat /\ breaker.epoch \in Nat
    BY Types DEF Books, RowsInv
  <1>2. \A place : Moves(c, place) => pc'[c] = place
    BY <1>1 DEF Moves
  <1>3. ASSUME Admit(c) PROVE Books'
    <2>1. /\ pc[c] = "idle" /\ process # "down" /\ queue[c] = << >>
          /\ c \notin DOMAIN attempts /\ ~Holds(c)
          /\ UNCHANGED <<process, breaker, attempts, ready, lease, ring, health>>
      BY <1>1, <1>3 DEF Admit, OwnerVars, At, BacklogAt
    <2>2. ~Holds(c)'
      BY <2>1 DEF Holds
    <2>3. /\ receipt' \in [Callers -> [generation : Nat, epoch : Nat]]
          /\ receipt'[c].generation = breaker.generation
          /\ \A d \in Callers \ {c} : receipt'[d] = receipt[d]
      <3>1. CurrentReceipt \in [generation : Nat, epoch : Nat]
            /\ CurrentReceipt.generation = breaker.generation
        BY <1>1 DEF CurrentReceipt
      <3> QED
        BY <1>1, <1>3, <3>1 DEF Admit
    <2>4. CASE breaker.phase = "closed" /\ Moves(c, "serving") /\ UNCHANGED queue
      <3>1. At(c)'
        BY <1>1, <1>2, <2>1, <2>2, <2>3, <2>4, BacklogsDiffer
        DEF At, ReceiptAt, BacklogAt, AttemptAt, WayBackAt
      <3> QED
        BY <1>1, <2>1, <2>3, <2>4, <3>1, CallerMoves DEF Places
    <2>5. CASE Moves(c, "asking") /\ Sends(c, "admit")
      <3>1. /\ queue' \in [Callers -> Seq(Messages)] /\ queue'[c] = <<"admit">>
            /\ \A d \in Callers \ {c} : queue'[d] = queue[d]
        BY <1>1, <2>1, <2>5, Sent DEF Messages
      <3>2. ReceiptAt(c)' /\ AttemptAt(c)' /\ WayBackAt(c)'
        BY <1>1, <1>2, <2>1, <2>2, <2>3, <2>5 DEF ReceiptAt, AttemptAt, WayBackAt
      <3>3. BacklogAt(c)'
        BY <1>2, <2>1, <2>5, <3>1 DEF BacklogAt, Backlogs
      <3>4. At(c)'
        BY <3>2, <3>3 DEF At
      <3> QED
        BY <1>1, <2>1, <2>3, <2>5, <3>1, <3>4, CallerMoves DEF Places
    <2> QED
      BY <1>3, <2>4, <2>5 DEF Admit
  <1>4. ASSUME AdmissionTimeout(c) PROVE Books'
    <2>1. /\ Sends(c, "release_token") /\ Moves(c, "done")
          /\ UNCHANGED <<process, breaker, attempts, ready, lease, ring, health, receipt>>
          /\ "release_token" \in Messages \ {"admit"}
      BY <1>4 DEF AdmissionTimeout, OwnerVars, Messages
    <2>2. CASE pc[c] = "granted"
      BY <2>1, <2>2, Leaving
    <2>3. CASE pc[c] = "asking" /\ queue[c] # << >>
      <3>1. queue[c] = <<"admit">> /\ process # "down" /\ c \notin DOMAIN attempts
        BY <1>1, <2>3 DEF At, BacklogAt
      <3>2. ~Holds(c) /\ ~Holds(c)'
        BY <2>1, <3>1, HeldIsRemembered DEF Holds
      <3>3. /\ queue' \in [Callers -> Seq(Messages)]
            /\ queue'[c] = <<"admit", "release_token">>
            /\ \A d \in Callers \ {c} : queue'[d] = queue[d]
        BY <1>1, <2>1, <3>1, Sent
      <3>4. ReceiptAt(c)' /\ AttemptAt(c)' /\ WayBackAt(c)'
        BY <1>1, <1>2, <2>1, <3>1, <3>2 DEF At, ReceiptAt, AttemptAt, WayBackAt
      <3>5. BacklogAt(c)'
        BY <1>2, <2>1, <3>1, <3>3, BacklogsDiffer DEF BacklogAt, Backlogs
      <3>6. At(c)'
        BY <3>4, <3>5 DEF At
      <3> QED
        BY <1>1, <2>1, <3>3, <3>6, CallerMoves DEF Places
    <2> QED
      BY <1>4, <2>2, <2>3 DEF AdmissionTimeout
  <1>5. ASSUME AdmissionFails(c) PROVE Books'
    <2>1. /\ pc[c] = "asking" /\ queue[c] = << >> /\ Moves(c, "done")
          /\ UNCHANGED <<process, breaker, attempts, ready, lease, ring, health, receipt, queue>>
      BY <1>5 DEF AdmissionFails, OwnerVars
    <2>2. Holds(c)' <=> Holds(c)
      BY <2>1 DEF Holds
    <2>3. ReceiptAt(c)' /\ BacklogAt(c)'
      BY <1>1, <1>2, <2>1, <2>2, BacklogsDiffer DEF At, ReceiptAt, BacklogAt
    <2>4. AttemptAt(c)' /\ WayBackAt(c)'
      BY <1>1, <1>2, <2>1, <2>2 DEF At, AttemptAt, WayBackAt, Matches, Remembered
    <2>5. At(c)'
      BY <2>3, <2>4 DEF At
    <2> QED
      BY <1>1, <2>1, <2>5, CallerMoves DEF Places
  <1>6. ASSUME Activate(c) PROVE Books'
    <2>1. /\ pc[c] = "granted" /\ Unclaimed(c) /\ lease' = [lease EXCEPT !.claimed = TRUE]
          /\ Moves(c, "probing") /\ queue[c] = << >>
          /\ UNCHANGED <<process, breaker, attempts, ready, ring, health, receipt, queue>>
      BY <1>1, <1>6 DEF Activate, OwnerVars, At, BacklogAt
    <2>2. /\ Holds(c) /\ Holds(c)' /\ OfLease(c) /\ lease'.generation = lease.generation
          /\ lease'.epoch = lease.epoch /\ lease'.claimed = TRUE
      <3>1. lease \in LeaseRow
        BY <1>1, <2>1, Types DEF Unclaimed, Holds
      <3> QED
        BY <2>1, <3>1 DEF Unclaimed, Holds, OfLease, LeaseRow
    <2>3. ReceiptAt(c)' /\ BacklogAt(c)'
      BY <1>1, <1>2, <2>1, <2>2, BacklogsDiffer DEF At, ReceiptAt, BacklogAt
    <2>4. AttemptAt(c)' /\ WayBackAt(c)'
      BY <1>1, <1>2, <2>1, <2>2 DEF At, AttemptAt, WayBackAt, OfLease
    <2>5. At(c)'
      BY <2>3, <2>4 DEF At
    <2> QED
      BY <1>1, <2>1, <2>2, <2>5, CallerMoves DEF Places
  <1>7. ASSUME AbandonUnclaimed(c) PROVE Books'
    <2>1. /\ pc[c] = "granted" /\ Sends(c, "abandon") /\ Moves(c, "done")
          /\ lease' = IF Unclaimed(c) THEN NoLease ELSE lease
          /\ UNCHANGED <<process, breaker, attempts, ready, ring, health, receipt>>
          /\ "abandon" \in Messages \ {"admit"}
      BY <1>7 DEF AbandonUnclaimed, OwnerVars, Messages
    <2>2. CASE Unclaimed(c)
      <3>1. Holds(c) /\ ~lease.claimed /\ OfLease(c) /\ ~Holds(c)'
        BY <2>1, <2>2 DEF Unclaimed, Holds, OfLease, NoLease
      <3>2. process # "down" => Matches(c) /\ ~attempts[c].claimed
        BY <1>1, <3>1, HeldIsRemembered DEF At, AttemptAt
      <3> QED
        BY <2>1, <2>2, <3>1, <3>2, Leaving
    <2>3. CASE ~Unclaimed(c)
      <3>1. Holds(c) /\ process # "down" => lease.epoch # breaker.epoch
        BY <1>1, <2>1, <2>3 DEF At, WayBackAt, Unclaimed, OfLease
      <3>2. Holds(c)' <=> Holds(c)
        BY <2>1, <2>3 DEF Holds
      <3> QED
        BY <2>1, <2>3, <3>1, <3>2, Leaving
    <2> QED
      BY <2>2, <2>3
  <1>8. ASSUME FinishProbe(c) PROVE Books'
    <2>1. /\ pc[c] = "probing" /\ Moves(c, "done")
          /\ UNCHANGED <<process, breaker, attempts, ready, lease, ring, health, receipt>>
      BY <1>8 DEF FinishProbe, OwnerVars
    <2>2. PICK message \in {"release"} \cup IF c \in Adapters
                                            THEN {"report_success", "report_failure"}
                                            ELSE {"signal_success", "signal_failure"} :
            Sends(c, message)
      BY <1>8 DEF FinishProbe
    <2>3. message \in Messages \ {"admit"}
      BY DEF Messages
    <2>4. c \notin Adapters => message \in {"release", "signal_success", "signal_failure"}
      OBVIOUS
    <2> QED
      BY <2>1, <2>2, <2>3, <2>4, Leaving
  <1>9. ASSUME NEW outcome \in Signals \cup {"neutral"}, FinishServing(c, outcome) PROVE Books'
    <2>1. /\ pc[c] = "serving" /\ Moves(c, "done") /\ queue[c] = << >>
          /\ c \notin DOMAIN attempts /\ ~Holds(c)
          /\ UNCHANGED <<process, breaker, attempts, lease, receipt, queue>>
      BY <1>1, <1>9 DEF FinishServing, At, BacklogAt
    <2>2. ~Holds(c)'
      BY <2>1 DEF Holds
    <2>3. /\ ring' \in Ring /\ health' \in {"healthy", "degraded"}
          /\ ready' \subseteq {"current", "stale"} /\ (Marked(ring') => breaker.phase = "closed")
      <3>1. CASE UNCHANGED <<ring, health, ready>>
        BY <1>1, <3>1 DEF Marked
      <3>2. CASE Fenced(c) /\ outcome \in Signals /\ Enqueued(outcome)
        <4>1. breaker.phase = "closed"
          BY <1>1, <2>1, <3>2 DEF Fenced, CurrentReceipt, At, ReceiptAt
        <4> QED
          BY <1>1, <3>2, <4>1, EnqueuedRing
      <3> QED
        BY <1>9, <3>1, <3>2 DEF FinishServing, Signals
    <2>4. At(c)'
      BY <1>1, <1>2, <2>1, <2>2, BacklogsDiffer
      DEF At, ReceiptAt, BacklogAt, AttemptAt, WayBackAt
    <2> QED
      BY <1>1, <2>1, <2>3, <2>4, CallerMoves DEF Places
  <1>10. ASSUME Exit(c) PROVE Books'
    <2>1. /\ pc[c] # "idle" /\ Moves(c, "dead")
          /\ UNCHANGED <<process, breaker, attempts, ready, lease, ring, health, receipt, queue>>
      BY <1>10 DEF Exit, OwnerVars
    <2>2. Holds(c)' <=> Holds(c)
      BY <2>1 DEF Holds
    <2>3. ReceiptAt(c)' /\ BacklogAt(c)'
      BY <1>1, <1>2, <2>1, <2>2 DEF At, ReceiptAt, BacklogAt
    <2>4. AttemptAt(c)' /\ WayBackAt(c)'
      BY <1>1, <1>2, <2>1, <2>2 DEF At, AttemptAt, WayBackAt, Matches, Remembered
    <2>5. At(c)'
      BY <2>3, <2>4 DEF At
    <2> QED
      BY <1>1, <2>1, <2>5, CallerMoves DEF Places
  <1>11. ASSUME Fresh(c) PROVE Books'
    <2>1. /\ queue[c] = << >> /\ c \notin DOMAIN attempts /\ ~Holds(c) /\ Moves(c, "idle")
          /\ receipt' = [receipt EXCEPT ![c] = [generation |-> 0, epoch |-> 0]]
          /\ UNCHANGED <<process, breaker, attempts, ready, lease, ring, health, queue>>
      BY <1>11 DEF Fresh, OwnerVars
    <2>2. /\ receipt' \in [Callers -> [generation : Nat, epoch : Nat]]
          /\ receipt'[c].generation = 0
          /\ \A d \in Callers \ {c} : receipt'[d] = receipt[d]
      BY <1>1, <2>1
    <2>3. ~Holds(c)'
      BY <2>1 DEF Holds
    <2>4. At(c)'
      BY <1>1, <1>2, <2>1, <2>2, <2>3, BacklogsDiffer
      DEF At, ReceiptAt, BacklogAt, AttemptAt, WayBackAt
    <2> QED
      BY <1>1, <2>1, <2>2, <2>4, CallerMoves DEF Places
  <1> QED
    BY <1>3, <1>4, <1>5, <1>6, <1>7, <1>8, <1>9, <1>10, <1>11 DEF CallerStep

LEMMA BooksInit == Init => Books
  <1> SUFFICES ASSUME Init PROVE Books
    OBVIOUS
  <1>1. /\ process = "up" /\ lease = NoLease /\ ring = EmptyRing(FALSE) /\ health = "healthy"
        /\ ready = {} /\ DOMAIN attempts = {} /\ ~lease.held
        /\ pc = [c \in Callers |-> "idle"]
        /\ receipt = [c \in Callers |-> [generation |-> 0, epoch |-> 0]]
        /\ queue = [c \in Callers |-> << >>]
    BY DEF Init, NoLease
  <1>2. /\ breaker \in Struct /\ Due(breaker) /\ breaker.generation = 1 /\ breaker.inflight = 0
    BY ConstantsAssumption DEF Init, Struct, Phases, Deadlines, Timers, Due
  <1>3. << >> \in Seq(Signals) /\ << >> \in Seq(Messages) /\ Len(<< >>) = 0
    OBVIOUS
  <1>4. ring \in Ring /\ ~ Marked(ring)
    BY <1>1, <1>3 DEF EmptyRing, Ring, Marked
  <1>5. TypeOK
    BY <1>1, <1>2, <1>3, <1>4 DEF TypeOK, Struct, Ring, Places
  <1>6. RowsInv /\ LeaseInv
    BY <1>1, <1>2, <1>4 DEF RowsInv, LeaseInv
  <1>7. CountInv
    <2>1. Counted = {}
      BY <1>1 DEF Counted
    <2> QED
      BY <1>1, <1>2, <2>1, FS_EmptySet DEF CountInv
  <1>8. \A c \in Callers : At(c)
    BY <1>1, <1>2, BacklogsDiffer
    DEF At, ReceiptAt, BacklogAt, AttemptAt, WayBackAt, Holds, Backlogs
  <1> QED
    BY <1>5, <1>6, <1>7, <1>8 DEF Books

LEMMA BooksStep == Books /\ [Next]_vars => Books'
  <1> SUFFICES ASSUME Books, [Next]_vars PROVE Books'
    OBVIOUS
  <1>1. ASSUME NEW c \in Callers, CallerStep(c) PROVE Books'
    BY <1>1, CallersKeep
  <1>2. CASE OwnerStep
    BY <1>2, HandleMessageKeeps, DownKeeps, ControlKeeps, RestartKeeps, ReconcileKeeps
    DEF OwnerStep
  <1>3. CASE Time
    BY <1>3, TimeKeeps
  <1>4. CASE Fault
    BY <1>4, FaultsKeep
  <1>5. CASE ReportExternalBounded \/ RecordFailure \/ ManualOpen \/ ManualClose
    BY <1>5, ReportsKeep
  <1>6. CASE UNCHANGED vars
    <2>1. /\ breaker \in Struct /\ Due(breaker) /\ ring \in Ring
          /\ (Marked(ring) => breaker.phase = "closed")
          /\ health \in {"healthy", "degraded"} /\ ready \subseteq {"current", "stale"}
      BY Types DEF Books, RowsInv
    <2>2. UNCHANGED <<process, breaker, attempts, lease, ring, health, ready, pc, receipt, queue>>
      BY <1>6 DEF vars
    <2>3. Advances(breaker, breaker')
      BY <2>1, <2>2, SameAdvances
    <2>4. Marked(ring') => breaker'.phase = "closed"
      BY <2>1, <2>2 DEF Marked
    <2> QED
      BY <2>1, <2>2, <2>3, <2>4, BreakerStep
  <1> QED
    BY <1>1, <1>2, <1>3, <1>4, <1>5, <1>6 DEF Next

LEMMA BooksCorrect == Spec => []Books
  BY BooksInit, BooksStep, PTL DEF Spec

(* Every field of the owner's struct, its attempts, the rows it shares and *)
(* the messages to it have the values circuit_breaker.ex gives them, the   *)
(* ring's signals and the counts of all drains included.                   *)
THEOREM TypeCorrect == Spec => []TypeOK
  <1>1. Books => TypeOK
    BY DEF Books
  <1> QED
    BY <1>1, BooksCorrect, PTL

(* inflight_attempts, half_open_inflight and the lease row agree: the      *)
(* count is that of the attempts of this generation, one that is counted   *)
(* has its row or an unread message that gave it up, and a request of the  *)
(* pipeline that is over leaves no row of the present owner behind.        *)
THEOREM CountIsReal == Spec => []InflightIsReal
  <1>1. Books => InflightIsReal
    <2> SUFFICES ASSUME Books PROVE InflightIsReal
      OBVIOUS
    <2>1. /\ breaker.inflight \in Nat /\ \A c \in DOMAIN attempts : c \in Callers
          /\ IsFiniteSet(DOMAIN attempts)
      BY Types, StructFields DEF Books, CountInv
    <2>2. process = "up" => breaker.inflight = Cardinality(Counted)
      BY DEF Books, CountInv
    <2>3. ASSUME process = "up", breaker.inflight > 0
          PROVE  lease.held \/ \E c \in DOMAIN attempts : queue[c] # << >>
      <3>1. Counted # {}
        BY <2>1, <2>2, <2>3, FS_EmptySet
      <3>2. PICK c \in DOMAIN attempts : attempts[c].counted = breaker.generation
        BY <3>1 DEF Counted
      <3>3. Holds(c) \/ queue[c] = <<"abandon">>
        BY <2>1, <3>2 DEF Books, At, AttemptAt
      <3>4. <<"abandon">> # << >>
        OBVIOUS
      <3> QED
        BY <3>2, <3>3, <3>4 DEF Holds
    <2>4. ASSUME NEW c \in Callers \ Adapters PROVE OwnsNothing(c)
      <3>1. \A message \in Messages : <<message>> # << >>
        OBVIOUS
      <3>2. {"release_token", "release", "signal_success", "signal_failure"} \subseteq Messages
        BY DEF Messages
      <3> QED
        BY <3>1, <3>2 DEF OwnsNothing, Books, At, WayBackAt
    <2> QED
      BY <2>2, <2>3, <2>4 DEF InflightIsReal, Counted
  <1> QED
    BY <1>1, BooksCorrect, PTL

-----------------------------------------------------------------------------
(* What a step may do to the phase.                                        *)
OpensInTime ==
  process = "up" /\ breaker.phase = "open" /\ breaker'.phase = "half_open" =>
    breaker.deadline # "future" \/ health = "degraded"
ClosesOnSuccess ==
  breaker.phase = "half_open" /\ breaker'.phase = "closed" =>
    \/ \E c \in Callers :
         /\ Fenced(c) /\ queue'[c] # queue[c]
         /\ Head(queue[c]) \in {"signal_success", "report_success"}
    \/ ManualClose
InOrder == OpensInTime /\ ClosesOnSuccess

LEMMA SamePhase ==
  ASSUME breaker'.phase = breaker.phase
  PROVE  InOrder
BY DEF InOrder, OpensInTime, ClosesOnSuccess

LEMMA BreakerUntouched ==
  ASSUME breaker' = breaker
  PROVE  InOrder
BY SamePhase

LEMMA ReleaseInOrder ==
  ASSUME Books, NEW c, ReleaseAttempt(c)
  PROVE  InOrder
  <1>1. breaker \in Struct /\ Due(breaker)
    BY Types DEF Books, RowsInv
  <1>2. CASE c \in DOMAIN attempts
    <2>1. breaker' = Uncounted(breaker, attempts[c])
      BY <1>2 DEF ReleaseAttempt, WriteRows, WriteRowsLeaving
    <2> QED
      BY <1>1, <2>1, UncountedFacts, SamePhase
  <1>3. CASE c \notin DOMAIN attempts
    BY <1>3, BreakerUntouched DEF ReleaseAttempt, WriteRows, WriteRowsLeaving
  <1> QED
    BY <1>2, <1>3

(* A drain: probation of a degraded snapshot, or signals among which there *)
(* is no success unless the breaker is closed.                             *)
LEMMA DrainInOrder ==
  ASSUME Books, NEW inbox, DrainLeaving(inbox)
  PROVE  InOrder
  <1>1. /\ breaker \in Struct /\ ring \in Ring /\ Due(breaker)
        /\ ring.signals \in Seq(Signals) /\ Len(ring.signals) \in Nat
    BY Types, RingChanges DEF Books, RowsInv
  <1>2. CASE health = "degraded"
    <2> DEFINE h == HalfOpened(breaker)
               b == [h EXCEPT !.health = "healthy"]
    <2>1. h \in Struct /\ h.phase = "half_open"
      BY <1>1, HalfOpenedAdvances DEF Advances
    <2>2. breaker' = b
      BY <1>2 DEF DrainLeaving, WriteRowsLeaving
    <2> HIDE DEF h
    <2>3. breaker'.phase = "half_open"
      BY <2>1, <2>2 DEF Struct
    <2> QED
      BY <1>2, <2>3 DEF InOrder, OpensInTime, ClosesOnSuccess
  <1>3. CASE health # "degraded"
    <2> DEFINE occupied == Len(ring.signals)
               taken == IF occupied > RingCapacity THEN RingCapacity ELSE occupied
               first == SubSeq(ring.signals, 1, taken)
    <2>1. breaker' = Drained(first)
      BY <1>3 DEF DrainLeaving, WriteRowsLeaving
    <2>2. taken \in Nat /\ taken <= occupied
      BY <1>1, ConstantsAssumption
    <2> HIDE DEF taken
    <2>3. /\ first \in Seq(Signals) /\ Len(first) = taken
          /\ \A i \in 1..taken : first[i] = ring.signals[i]
      BY <1>1, <2>2
    <2> HIDE DEF first
    <2>4. Drains(first, breaker')
      BY <1>1, <2>1, <2>3, DrainedAdvances
    <2>5. breaker.phase # "closed" => \A i \in 1..Len(first) : first[i] # "success"
      <3>1. \A i \in 1..taken : i \in 1..Len(ring.signals)
        BY <1>1, <2>2
      <3> QED
        BY <2>3, <3>1 DEF Books, RowsInv, Marked
    <2>6. breaker.phase # "closed" => breaker'.phase \in {breaker.phase, "open"}
      BY <2>4, <2>5 DEF Drains
    <2> QED
      BY <2>6 DEF InOrder, OpensInTime, ClosesOnSuccess
  <1> QED
    BY <1>2, <1>3

LEMMA ControlInOrder ==
  ASSUME Books, ControlReady \/ ControlAudit \/ ProactiveRecovery
  PROVE  InOrder
  <1>1. CASE ControlReady
    BY <1>1, DrainInOrder, BreakerUntouched DEF ControlReady, WriteRowsLeaving
  <1>2. CASE ControlAudit
    BY <1>2, DrainInOrder DEF ControlAudit
  <1>3. CASE ProactiveRecovery
    <2>1. breaker \in Struct /\ Due(breaker)
      BY Types DEF Books, RowsInv
    <2>2. CASE breaker.phase = "open"
      <3>1. breaker.deadline # "future"
        BY <1>3, <2>1, <2>2 DEF ProactiveRecovery, Due
      <3> QED
        BY <2>2, <3>1 DEF InOrder, OpensInTime, ClosesOnSuccess
    <2>3. CASE breaker.phase # "open"
      <3>1. breaker'.phase = breaker.phase
        BY <1>3, <2>1, <2>3 DEF ProactiveRecovery, Struct
      <3> QED
        BY <3>1, SamePhase
    <2> QED
      BY <2>2, <2>3
  <1> QED
    BY <1>1, <1>2, <1>3

(* A report that decides is fenced, and its attempt of this generation     *)
(* says that the breaker is recovering.                                    *)
LEMMA ReportInOrder ==
  ASSUME Books, NEW c \in Callers, HandleReport(c)
  PROVE  InOrder
  <1> DEFINE message == Head(queue[c])
             signal == IF message \in {"signal_success", "report_success"}
                       THEN "success" ELSE "failure"
  <1>1. /\ breaker \in Struct /\ Due(breaker) /\ At(c) /\ queue[c] \in Seq(Messages)
        /\ queue \in [Callers -> Seq(Messages)]
    BY Types DEF Books, RowsInv
  <1>2. CASE Decides(c) /\ Matches(c)
    <2> DEFINE b == Handled(breaker, signal)
    <2>1. breaker' = Uncounted(b, attempts[c])
      BY <1>2 DEF HandleReport, WriteRows, WriteRowsLeaving
    <2>2. breaker.phase = "half_open"
      BY <1>1, <1>2 DEF Decides, Fenced, CurrentReceipt, Matches, Remembered, At, AttemptAt
    <2>3. Advances(breaker, b) /\ (signal # "success" => b.phase = "open")
      BY <1>1, <2>2, HandledAdvances
    <2> HIDE DEF b
    <2>4. breaker'.phase = b.phase
      BY <2>1, <2>3, UncountedFacts DEF Advances
    <2>5. breaker'.phase = "closed" => message \in {"signal_success", "report_success"}
      BY <2>3, <2>4
    <2>6. queue'[c] # queue[c]
      <3>1. queue' = [queue EXCEPT ![c] = Tail(@)] /\ queue[c] # << >>
        BY DEF HandleReport, Takes
      <3>2. Len(Tail(queue[c])) # Len(queue[c])
        BY <1>1, <3>1
      <3> QED
        BY <1>1, <3>1, <3>2
    <2> QED
      BY <1>2, <2>2, <2>5, <2>6 DEF Decides, InOrder, OpensInTime, ClosesOnSuccess
  <1>3. CASE Decides(c) /\ ~Matches(c)
    <2>1. breaker' = Uncounted(breaker, attempts[c])
      BY <1>3 DEF HandleReport, WriteRows, WriteRowsLeaving
    <2> QED
      BY <1>1, <2>1, UncountedFacts, SamePhase
  <1>4. CASE ~Decides(c)
    <2>1. ReleaseAttempt(c) \/ WriteRows(breaker, ring)
      BY <1>4 DEF HandleReport
    <2> QED
      BY <2>1, ReleaseInOrder, BreakerUntouched DEF WriteRows, WriteRowsLeaving
  <1> QED
    BY <1>2, <1>3, <1>4

LEMMA MessageInOrder ==
  ASSUME Books, NEW c \in Callers, HandleMessage(c)
  PROVE  InOrder
  <1>1. breaker \in Struct
    BY Types DEF Books
  <1>2. CASE RefuseAdmission(c)
    BY <1>2, BreakerUntouched DEF RefuseAdmission, OwnerVars
  <1>3. CASE GrantAdmission(c)
    <2>1. Prepared \in Struct /\ Prepared.phase = "half_open" /\ Admissible(c)
      BY <1>3, PreparedFacts DEF GrantAdmission
    <2>2. breaker' = [Prepared EXCEPT !.inflight = @ + 1]
      BY <1>3 DEF GrantAdmission, WriteRows, WriteRowsLeaving
    <2>3. breaker'.phase = "half_open"
      BY <2>1, <2>2 DEF Struct
    <2> QED
      BY <2>1, <2>3 DEF Admissible, InOrder, OpensInTime, ClosesOnSuccess
  <1>4. CASE LeaseBusy(c)
    <2>1. breaker'.phase = breaker.phase
      BY <1>1, <1>4 DEF LeaseBusy, Struct
    <2> QED
      BY <2>1, SamePhase
  <1>5. CASE HandleReport(c)
    BY <1>5, ReportInOrder
  <1>6. CASE HandleRelease(c)
    <2>1. ReleaseAttempt(c) \/ WriteRows(breaker, ring)
      BY <1>6 DEF HandleRelease
    <2> QED
      BY <2>1, ReleaseInOrder, BreakerUntouched DEF WriteRows, WriteRowsLeaving
  <1> QED
    BY <1>2, <1>3, <1>4, <1>5, <1>6 DEF HandleMessage

LEMMA StepInOrder ==
  ASSUME Books, [Next]_vars
  PROVE  InOrder
  <1>1. breaker \in Struct /\ Due(breaker)
    BY Types DEF Books, RowsInv
  <1>2. ASSUME NEW c \in Callers, CallerStep(c) PROVE InOrder
    <2>1. breaker' = breaker
      BY <1>2 DEF CallerStep, Admit, AdmissionTimeout, AdmissionFails, Activate,
                  AbandonUnclaimed, FinishProbe, FinishServing, Exit, Fresh, OwnerVars
    <2> QED
      BY <2>1, BreakerUntouched
  <1>3. CASE OwnerStep
    <2>1. ASSUME NEW c \in Callers, Down(c) PROVE InOrder
      BY <2>1, ReleaseInOrder DEF Down
    <2>2. CASE Restart
      <3>1. process = "down" /\ breaker'.phase \in {"open", "half_open"}
        BY <2>2 DEF Restart
      <3> QED
        BY <3>1 DEF InOrder, OpensInTime, ClosesOnSuccess
    <2>3. CASE Reconcile
      BY <2>3, ReleaseInOrder, BreakerUntouched DEF Reconcile, WriteRows, WriteRowsLeaving
    <2> QED
      BY <1>3, <2>1, <2>2, <2>3, MessageInOrder, ControlInOrder DEF OwnerStep
  <1>4. CASE Time
    <2>1. breaker'.phase = breaker.phase
      BY <1>1, <1>4 DEF Time, DeadlinePasses, TimerFires, Struct
    <2> QED
      BY <2>1, SamePhase
  <1>5. CASE Fault
    <2>1. breaker'.phase = breaker.phase
      BY <1>1, <1>5 DEF Fault, Crash, CrashGranting, Struct
    <2> QED
      BY <2>1, SamePhase
  <1>6. CASE ReportExternalBounded
    BY <1>6, BreakerUntouched DEF ReportExternalBounded
  <1>7. CASE RecordFailure
    <2> DEFINE b == HandleFailure(breaker)
    <2>1. breaker' = b
      BY <1>7 DEF RecordFailure, WriteRows, WriteRowsLeaving
    <2>2. breaker.phase # "closed" => b.phase = "open"
      BY <1>1, HandleFailureAdvances
    <2> QED
      BY <2>1, <2>2 DEF InOrder, OpensInTime, ClosesOnSuccess
  <1>8. CASE ManualOpen
    <2>1. breaker'.phase = "open"
      BY <1>1, <1>8, OpenedAdvances DEF ManualOpen, WriteRows, WriteRowsLeaving
    <2> QED
      BY <2>1 DEF InOrder, OpensInTime, ClosesOnSuccess
  <1>9. CASE ManualClose
    <2> DEFINE b == [breaker EXCEPT !.timer = Cancelled(@)]
    <2>1. breaker' = Closed(b)
      BY <1>9 DEF ManualClose, WriteRows, WriteRowsLeaving
    <2>2. b \in Struct
      BY <1>1, Cancels, TimerSet
    <2> HIDE DEF b
    <2>3. breaker'.phase = "closed"
      BY <2>1, <2>2, ClosedAdvances
    <2> QED
      BY <1>9, <2>3 DEF InOrder, OpensInTime, ClosesOnSuccess
  <1>10. CASE UNCHANGED vars
    BY <1>10, BreakerUntouched DEF vars
  <1> QED
    BY <1>2, <1>3, <1>4, <1>5, <1>6, <1>7, <1>8, <1>9, <1>10 DEF Next

(* The phases of a breaker follow each other in the order of a recovery:   *)
(* an open one is left after its deadline or for a degraded snapshot, and  *)
(* a recovering one is closed by the success of an attempt of this very    *)
(* generation (fenced report_signal, {:report, ..}) or by hand, whatever   *)
(* drains, timers, failures and restarts happen meanwhile.                 *)
THEOREM RecoveryKeepsOrder == Spec => RecoveryInOrder
  <1>1. Books /\ [Next]_vars => [InOrder]_vars
    BY StepInOrder
  <1>2. Spec => [][InOrder]_vars
    BY <1>1, BooksCorrect, PTL DEF Spec
  <1> QED
    BY <1>2, PTL DEF RecoveryInOrder, InOrder, OpensInTime, ClosesOnSuccess
=============================================================================
