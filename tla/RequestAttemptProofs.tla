------------------------- MODULE RequestAttemptProofs -------------------------
(***************************************************************************)
(* Proofs about RequestAttempt for any number of requests, tries and       *)
(* leases: a committed outcome is final, and what an outcome claims of its *)
(* dispatch is true.                                                       *)
(*                                                                         *)
(* Finality: a commit shuts the dispatch gate, so that whoever still works *)
(* for the attempt cannot change what it proved, and a request commits an  *)
(* attempt in the phases that precede the commit only, while its later     *)
(* attempts are untouched.                                                 *)
(*                                                                         *)
(* Truth: what the gate, the session of the tracker and the verdict of the *)
(* task say of an attempt follows from what its socket has done, and stays *)
(* so when handlers die, checkouts are killed and tasks time out. A        *)
(* request counts such facts when it turns to another upstream.            *)
(***************************************************************************)
EXTENDS RequestAttempt, FiniteSetTheorems, TLAPS

Gates == [open : BOOLEAN, seen : Evidence]

(* Phases of a request whose present attempt has no outcome yet.           *)
Undecided == {"ready", "waiting", "draining"}

Shape ==
  /\ phase \in [Requests -> Phases]
  /\ try \in [Requests -> 1 .. Tries]
  /\ DOMAIN outcome = Attempts
  /\ gate \in [Attempts -> Gates]

CommittedIsShut == \A a \in Attempts : Committed(a) => ~gate[a].open

UndecidedIsUncommitted == \A r \in Requests : phase[r] \in Undecided => ~Committed(Now(r))

LaterIsUncommitted ==
  \A r \in Requests : \A i \in 1 .. Tries : i > try[r] => ~Committed(<<r, i>>)

Inv == Shape /\ CommittedIsShut /\ UndecidedIsUncommitted /\ LaterIsUncommitted

(* What a step does to the committed attempts: nothing.                    *)
Kept == \A a \in Attempts : Committed(a) => outcome'[a] = outcome[a] /\ gate'[a] = gate[a]

-----------------------------------------------------------------------------
(* The operations of the gate (AttemptProtocol): all of them leave a gate, *)
(* and none changes a shut one.                                            *)
LEMMA GateOperations ==
  ASSUME NEW g \in Gates
  PROVE  /\ Shut(g) \in Gates /\ ~Shut(g).open /\ (~g.open => Shut(g) = g)
         /\ Started(g) \in Gates /\ (~g.open => Started(g) = g)
         /\ Confirmed(g) \in Gates /\ (~g.open => Confirmed(g) = g)
         /\ ProvedUnsent(g) \in Gates /\ (~g.open => ProvedUnsent(g) = g)
  <1>1. Shut(g) \in Gates /\ ~Shut(g).open /\ (~g.open => Shut(g) = g)
    BY DEF Shut, Gates
  <1>2. Started(g) \in Gates /\ (~g.open => Started(g) = g)
    BY DEF Started, Gates, Evidence
  <1>3. Confirmed(g) \in Gates /\ (~g.open => Confirmed(g) = g)
    BY DEF Confirmed, Gates, Evidence
  <1>4. ProvedUnsent(g) \in Gates /\ (~g.open => ProvedUnsent(g) = g)
    BY DEF ProvedUnsent, Gates, Evidence
  <1> QED
    BY <1>1, <1>2, <1>3, <1>4

LEMMA PresentAttempt ==
  ASSUME Inv, NEW r \in Requests
  PROVE  Now(r) \in Attempts
BY DEF Inv, Shape, Now, Attempts

-----------------------------------------------------------------------------
(* One lemma for each kind of step.  A request moves on, and no attempt    *)
(* gets an outcome.                                                        *)
LEMMA MoveStep ==
  ASSUME Inv, UNCHANGED <<outcome, gate, try>>, phase' \in [Requests -> Phases],
         \A r \in Requests : phase'[r] \in Undecided => phase[r] \in Undecided
  PROVE  Inv' /\ Kept
BY DEF Inv, Shape, CommittedIsShut, UndecidedIsUncommitted, LaterIsUncommitted, Committed, Now,
       Kept

(* The gate of an attempt learns something, or is shut.                    *)
LEMMA GateStep ==
  ASSUME Inv, NEW a \in Attempts, NEW new \in Gates, gate' = [gate EXCEPT ![a] = new],
         ~gate[a].open => new = gate[a],
         UNCHANGED <<outcome, try>>, phase' \in [Requests -> Phases],
         \A r \in Requests : phase'[r] \in Undecided => phase[r] \in Undecided
  PROVE  Inv' /\ Kept
  <1>1. Kept
    BY DEF Inv, Shape, CommittedIsShut, Kept
  <1>2. Shape'
    BY DEF Inv, Shape
  <1>3. CommittedIsShut'
    BY <1>1 DEF Inv, CommittedIsShut, Committed, Kept
  <1>4. UndecidedIsUncommitted' /\ LaterIsUncommitted'
    BY DEF Inv, UndecidedIsUncommitted, LaterIsUncommitted, Committed, Now
  <1> QED
    BY <1>1, <1>2, <1>3, <1>4 DEF Inv

(* A request commits the outcome of its present attempt.                   *)
LEMMA ConcludeStep ==
  ASSUME Inv, NEW r \in Requests, NEW fact, NEW p \in Phases \ Undecided,
         phase[r] \in Undecided, Conclude(Now(r), fact), Goto(r, p), try' = try
  PROVE  Inv' /\ Kept
  <1> DEFINE a == Now(r)
  <1>1. a \in Attempts /\ ~Committed(a) /\ gate[a] \in Gates
    BY PresentAttempt DEF Inv, Shape, UndecidedIsUncommitted
  <1>2. /\ DOMAIN outcome' = Attempts /\ gate' \in [Attempts -> Gates]
        /\ \A b \in Attempts \ {a} : outcome'[b] = outcome[b] /\ gate'[b] = gate[b]
        /\ ~gate'[a].open
    BY <1>1, GateOperations DEF Conclude, Inv, Shape
  <1>3. /\ phase' \in [Requests -> Phases] /\ phase'[r] = p
        /\ \A s \in Requests \ {r} : phase'[s] = phase[s]
    BY DEF Goto, Inv, Shape
  <1>4. Kept
    BY <1>1, <1>2 DEF Kept
  <1>5. CommittedIsShut'
    BY <1>2 DEF Inv, CommittedIsShut, Committed
  <1>6. UndecidedIsUncommitted'
    <2>1. ASSUME NEW s \in Requests, phase'[s] \in Undecided PROVE ~Committed(Now(s))'
      <3>1. s # r /\ phase[s] \in Undecided
        BY <1>3, <2>1
      <3>2. Now(s) \in Attempts \ {a} /\ Now(s)' = Now(s)
        BY <3>1, PresentAttempt DEF Now
      <3> QED
        BY <1>2, <3>1, <3>2 DEF Inv, UndecidedIsUncommitted, Committed
    <2> QED
      BY <2>1 DEF UndecidedIsUncommitted
  <1>7. LaterIsUncommitted'
    <2>1. ASSUME NEW s \in Requests, NEW i \in 1 .. Tries, i > try[s]
          PROVE  ~Committed(<<s, i>>)'
      <3>1. try[s] \in 1 .. Tries
        BY DEF Inv, Shape
      <3>2. <<s, i>> \in Attempts \ {a}
        BY <2>1, <3>1 DEF Attempts, Now
      <3> QED
        BY <1>2, <2>1, <3>2 DEF Inv, LaterIsUncommitted, Committed
    <2> QED
      BY <2>1 DEF LaterIsUncommitted
  <1> QED
    BY <1>2, <1>3, <1>4, <1>5, <1>6, <1>7 DEF Inv, Shape

(* A request turns to its next attempt.                                    *)
LEMMA NextTryStep ==
  ASSUME Inv, NEW r \in Requests, try[r] < Tries, try' = [try EXCEPT ![r] = @ + 1],
         Goto(r, "ready"), UNCHANGED <<outcome, gate>>
  PROVE  Inv' /\ Kept
  <1>0. Tries \in Nat
    BY BoundsAssumption
  <1>1. /\ try' \in [Requests -> 1 .. Tries] /\ try'[r] = try[r] + 1 /\ try[r] \in 1 .. Tries
        /\ \A s \in Requests \ {r} : try'[s] = try[s]
    BY <1>0 DEF Inv, Shape
  <1>2. /\ phase' \in [Requests -> Phases]
        /\ \A s \in Requests \ {r} : phase'[s] = phase[s]
    BY DEF Goto, Inv, Shape, Phases
  <1>3. ~Committed(<<r, try[r] + 1>>)
    BY <1>0, <1>1 DEF Inv, LaterIsUncommitted
  <1>4. UndecidedIsUncommitted'
    BY <1>1, <1>2, <1>3 DEF Inv, UndecidedIsUncommitted, Committed, Now
  <1>5. LaterIsUncommitted'
    BY <1>0, <1>1 DEF Inv, LaterIsUncommitted, Committed
  <1>6. CommittedIsShut' /\ Kept
    BY DEF Inv, CommittedIsShut, Committed, Kept
  <1> QED
    BY <1>1, <1>2, <1>4, <1>5, <1>6 DEF Inv, Shape

(* A step of a request, or of its surroundings, that touches no attempt.   *)
LEMMA GotoStep ==
  ASSUME Inv, NEW r \in Requests, NEW p \in Phases, Goto(r, p),
         p \in Undecided => phase[r] \in Undecided, UNCHANGED <<outcome, gate, try>>
  PROVE  Inv' /\ Kept
  <1>1. /\ phase' \in [Requests -> Phases]
        /\ \A s \in Requests : phase'[s] \in Undecided => phase[s] \in Undecided
    BY DEF Goto, Inv, Shape
  <1> QED
    BY <1>1, MoveStep

LEMMA ElsewhereStep ==
  ASSUME Inv, UNCHANGED <<outcome, gate, try, phase>>
  PROVE  Inv' /\ Kept
  <1>1. phase' \in [Requests -> Phases]
    BY DEF Inv, Shape
  <1> QED
    BY <1>1, MoveStep

LEMMA GateOnlyStep ==
  ASSUME Inv, NEW a \in Attempts, NEW new \in Gates, gate' = [gate EXCEPT ![a] = new],
         ~gate[a].open => new = gate[a], UNCHANGED <<outcome, try, phase>>
  PROVE  Inv' /\ Kept
  <1>1. phase' \in [Requests -> Phases]
    BY DEF Inv, Shape
  <1> QED
    BY <1>1, GateStep

-----------------------------------------------------------------------------
LEMMA TakeConcludes ==
  ASSUME NEW a, TakeCompletion(a) \/ TakeExit(a)
  PROVE  \E fact : Conclude(a, fact)
BY DEF TakeCompletion, TakeExit

LEMMA StartAttemptKeeps ==
  ASSUME Inv, NEW r \in Requests, StartAttempt(r)
  PROVE  Inv' /\ Kept
  <1>0. phase[r] \in Undecided /\ try' = try /\ {"deciding", "waiting"} \subseteq Phases
    BY DEF StartAttempt, Undecided, Phases
  <1>1. CASE \E fact : Conclude(Now(r), fact) /\ Goto(r, "deciding")
    BY <1>0, <1>1, ConcludeStep DEF Undecided
  <1>2. CASE Goto(r, "waiting") /\ UNCHANGED <<outcome, gate>>
    BY <1>0, <1>2, GotoStep
  <1> QED
    BY <1>1, <1>2 DEF StartAttempt

LEMMA ReceiveKeeps ==
  ASSUME Inv, NEW r \in Requests, Receive(r)
  PROVE  Inv' /\ Kept
  <1>0. phase[r] \in Undecided /\ try' = try /\ {"finishing", "draining"} \subseteq Phases
    BY DEF Receive, Undecided, Phases
  <1>1. CASE \E fact : Conclude(Now(r), fact) /\ Goto(r, "finishing")
    BY <1>0, <1>1, ConcludeStep DEF Undecided
  <1>2. CASE /\ gate' = [gate EXCEPT ![Now(r)] = Shut(@)] /\ Goto(r, "draining")
             /\ UNCHANGED outcome
    <2>1. Now(r) \in Attempts /\ gate[Now(r)] \in Gates
      BY PresentAttempt DEF Inv, Shape
    <2>2. /\ phase' \in [Requests -> Phases]
          /\ \A s \in Requests : phase'[s] \in Undecided => phase[s] \in Undecided
      BY <1>0, <1>2 DEF Goto, Inv, Shape
    <2> QED
      BY <1>0, <1>2, <2>1, <2>2, GateOperations, GateStep
  <1>3. \/ \E fact : Conclude(Now(r), fact) /\ Goto(r, "finishing")
        \/ /\ gate' = [gate EXCEPT ![Now(r)] = Shut(@)] /\ Goto(r, "draining")
           /\ UNCHANGED outcome
    BY TakeConcludes DEF Receive
  <1> QED
    BY <1>1, <1>2, <1>3

LEMMA DrainKeeps ==
  ASSUME Inv, NEW r \in Requests, Drain(r)
  PROVE  Inv' /\ Kept
  <1>0. phase[r] \in Undecided /\ try' = try /\ {"settling", "finishing"} \subseteq Phases
    BY DEF Drain, Undecided, Phases
  <1>1. ASSUME NEW fact, NEW p \in {"settling", "finishing"}, Conclude(Now(r), fact), Goto(r, p)
        PROVE  Inv' /\ Kept
    BY <1>0, <1>1, ConcludeStep DEF Undecided
  <1>2. CASE UNCHANGED <<outcome, gate, phase>>
    BY <1>0, <1>2, ElsewhereStep
  <1>3. CASE (TakeCompletion(Now(r)) \/ TakeExit(Now(r))) /\ Goto(r, "settling")
    <2>1. PICK fact : Conclude(Now(r), fact)
      BY <1>3, TakeConcludes
    <2> QED
      BY <1>1, <1>3, <2>1
  <1>4. CASE Conclude(Now(r), CancelledFact(Now(r))) /\ Goto(r, "finishing")
    BY <1>1, <1>4
  <1> QED
    BY <1>2, <1>3, <1>4 DEF Drain

(* A decision goes on to the next attempt, or ends the request; and it     *)
(* keeps the error of the attempt decided about, of an earlier one or none.*)
LEMMA DecideTurns ==
  ASSUME NEW r \in Requests, Decide(r)
  PROVE  \/ CanRetry(r) /\ try' = [try EXCEPT ![r] = @ + 1] /\ Goto(r, "ready")
         \/ Goto(r, "done") /\ UNCHANGED try
BY DEF Decide, Retry, EndRequest

LEMMA DecideKeeps ==
  ASSUME NEW r \in Requests, Decide(r)
  PROVE  kept' = kept \/ \E i \in {0, try[r]} : kept' = [kept EXCEPT ![r] = i]
BY DEF Decide, Retry, EndRequest

LEMMA RequestKeeps ==
  ASSUME Inv, NEW r \in Requests,
         RequestStep(r) \/ Accept(r) \/ DeadlinePasses(r) \/ CutoffFires(r)
           \/ KillOwner(r) \/ CallerDies(r) \/ ParentStops(r)
  PROVE  Inv' /\ Kept
  <1>0. /\ {"finishing", "gone", "deciding", "done", "delivering", "ready"} \subseteq Phases
        /\ \A p \in {"finishing", "gone", "deciding", "done", "delivering"} : p \notin Undecided
    BY DEF Phases, Undecided
  <1>1. CASE StartAttempt(r) \/ Receive(r) \/ Drain(r)
    BY <1>1, StartAttemptKeeps, ReceiveKeeps, DrainKeeps
  <1>2. CASE Settle(r)
    BY <1>0, <1>2, GotoStep, ElsewhereStep DEF Settle, attemptVars
  <1>3. CASE Finish(r)
    <2>1. PICK p \in {"gone", "deciding"} : Goto(r, p)
      BY <1>3 DEF Finish
    <2> QED
      BY <1>0, <1>3, <2>1, GotoStep DEF Finish, attemptVars
  <1>4. CASE Decide(r)
    <2>1. CASE try[r] < Tries /\ try' = [try EXCEPT ![r] = @ + 1] /\ Goto(r, "ready")
      BY <1>4, <2>1, NextTryStep DEF Decide, attemptVars
    <2>2. CASE Goto(r, "done") /\ UNCHANGED try
      BY <1>0, <1>4, <2>2, GotoStep DEF Decide, attemptVars
    <2> QED
      BY <1>4, <2>1, <2>2, DecideTurns DEF CanRetry
  <1>5. CASE Answer(r) \/ Undeliverable(r) \/ Accept(r) \/ KillOwner(r)
    <2>1. UNCHANGED <<outcome, gate, try>> /\ \E p \in {"gone", "delivering"} : Goto(r, p)
      BY <1>5 DEF Answer, Undeliverable, Accept, KillOwner, attemptVars
    <2> QED
      BY <1>0, <2>1, GotoStep
  <1>6. CASE DeadlinePasses(r) \/ CutoffFires(r) \/ CallerDies(r)
    BY <1>6, ElsewhereStep
    DEF DeadlinePasses, CutoffFires, CallerDies, requestVars, attemptVars
  <1>7. CASE ParentStops(r)
    BY <1>0, <1>7, GotoStep, ElsewhereStep DEF ParentStops, attemptVars
  <1> QED
    BY <1>1, <1>2, <1>3, <1>4, <1>5, <1>6, <1>7 DEF RequestStep

LEMMA TaskKeeps ==
  ASSUME Inv, NEW a \in Attempts, TaskStep(a) \/ TaskDies(a)
  PROVE  Inv' /\ Kept
  <1>0. gate[a] \in Gates
    BY DEF Inv, Shape
  <1>1. CASE OpenSend(a)
    <2>1. UNCHANGED <<outcome, try, phase>>
      BY <1>1 DEF OpenSend, Detached, requestVars
    <2>2. CASE gate' = [gate EXCEPT ![a] = Started(@)]
      BY <1>0, <2>1, <2>2, GateOperations, GateOnlyStep
    <2>3. CASE UNCHANGED gate
      BY <2>1, <2>3, ElsewhereStep
    <2> QED
      BY <1>1, <2>2, <2>3 DEF OpenSend
  <1>2. CASE RecordVerdict(a)
    <2>1. UNCHANGED <<outcome, try, phase>>
      BY <1>2 DEF RecordVerdict, Detached, requestVars
    <2>2. PICK new \in {gate[a], ProvedUnsent(gate[a]), Confirmed(gate[a]), Started(gate[a])} :
            gate' = [gate EXCEPT ![a] = new]
      BY <1>2 DEF RecordVerdict
    <2> QED
      BY <1>0, <2>1, <2>2, GateOperations, GateOnlyStep
  <1>3. CASE TaskCrashes(a) \/ Complete(a)
    BY <1>3, ElsewhereStep DEF TaskCrashes, Complete, attemptVars
  <1>4. CASE \/ ReadToken(a) \/ AcquireTimesOut(a) \/ StartCheckout(a) \/ Collect(a)
             \/ StopCheckout(a) \/ CheckoutStopped(a) \/ Validate(a) \/ TransferTimesOut(a)
             \/ TaskDies(a)
    <2>1. UNCHANGED gate /\ Detached
      BY <1>4 DEF ReadToken, AcquireTimesOut, StartCheckout, Collect, StopCheckout,
                  CheckoutStopped, Validate, TransferTimesOut, TaskDies
    <2> QED
      BY <2>1, ElsewhereStep DEF Detached, requestVars
  <1> QED
    BY <1>1, <1>2, <1>3, <1>4 DEF TaskStep

LEMMA SocketKeeps ==
  ASSUME Inv, NEW a \in Attempts, SocketStep(a) \/ CheckoutDies(a)
  PROVE  Inv' /\ Kept
  <1>1. CASE SendStop(a)
    <2>1. UNCHANGED <<outcome, try, phase>>
      BY <1>1 DEF SendStop, requestVars
    <2>2. PICK new \in {gate[a], Confirmed(gate[a])} : gate' = [gate EXCEPT ![a] = new]
      BY <1>1 DEF SendStop
    <2>3. gate[a] \in Gates
      BY DEF Inv, Shape
    <2> QED
      BY <2>1, <2>2, <2>3, GateOperations, GateOnlyStep
  <1>2. CASE NoConnection(a) \/ SendStart(a) \/ Write(a) \/ Respond(a) \/ CheckoutDies(a)
    BY <1>2, ElsewhereStep
    DEF NoConnection, SendStart, Write, Respond, CheckoutDies, requestVars, attemptVars
  <1> QED
    BY <1>1, <1>2 DEF SocketStep

LEMMA NextKeeps ==
  ASSUME Inv, [Next]_vars
  PROVE  Inv' /\ Kept
  <1>1. ASSUME NEW r \in Requests,
               RequestStep(r) \/ Accept(r) \/ DeadlinePasses(r) \/ CutoffFires(r)
                 \/ KillOwner(r) \/ CallerDies(r) \/ ParentStops(r)
        PROVE  Inv' /\ Kept
    BY <1>1, RequestKeeps
  <1>2. ASSUME NEW a \in Attempts, TaskStep(a) \/ TaskDies(a) PROVE Inv' /\ Kept
    BY <1>2, TaskKeeps
  <1>3. ASSUME NEW a \in Attempts, SocketStep(a) \/ CheckoutDies(a) PROVE Inv' /\ Kept
    BY <1>3, SocketKeeps
  <1>4. CASE Serve \/ HandlerStep
    BY <1>4, ElsewhereStep
    DEF Serve, HandlerStep, HandlerLost, RepairBegins, RepairEnds, requestVars, attemptVars
  <1>5. CASE UNCHANGED vars
    BY <1>5, ElsewhereStep DEF vars, requestVars, attemptVars
  <1> QED
    BY <1>1, <1>2, <1>3, <1>4, <1>5 DEF Next, Undisturbed, Disturbed

LEMMA InvariantInit == Init => Inv
  <1> SUFFICES ASSUME Init PROVE Inv
    OBVIOUS
  <1>1. 1 \in 1 .. Tries
    BY BoundsAssumption
  <1>2. Shape
    BY <1>1 DEF Init, InitFrom, Shape, Phases, NewGate, Gates, Evidence
  <1>3. \A a \in Attempts : ~Committed(a)
    BY DEF Init, InitFrom, Committed
  <1>4. \A r \in Requests : Now(r) \in Attempts
    BY <1>2 DEF Shape, Now, Attempts
  <1>5. \A r \in Requests, i \in 1 .. Tries : <<r, i>> \in Attempts
    BY DEF Attempts
  <1> QED
    BY <1>2, <1>3, <1>4, <1>5
    DEF Inv, CommittedIsShut, UndecidedIsUncommitted, LaterIsUncommitted

(* The terminal fact of an attempt (AttemptProtocol, commit) is written    *)
(* once, and the shut gate keeps what it proved, whatever completions,     *)
(* exits, cutoffs and telemetry arrive afterwards.                         *)
THEOREM CommitsAreFinal == Spec => OutcomeIsFinal
  <1>1. Inv /\ [Next]_vars => Inv'
    BY NextKeeps
  <1>2. Inv /\ [Next]_vars =>
          [\A a \in Attempts : Committed(a) => outcome'[a] = outcome[a] /\ gate'[a] = gate[a]]_vars
    BY NextKeeps DEF Kept
  <1> QED
    BY <1>1, <1>2, InvariantInit, PTL DEF Spec, OutcomeIsFinal
-----------------------------------------------------------------------------
(* Which tasks have started.                                               *)

(* What a task does before it asks for capacity.                           *)
Unasked == {"none", "tracking"}

(* A task starts once: none has started for what a request has yet to try. *)
NotStarted ==
  /\ DOMAIN task = Attempts
  /\ \A r \in Requests :
       /\ phase[r] = "ready" => task[Now(r)] = "none"
       /\ \A i \in 1 .. Tries : i > try[r] => task[<<r, i>>] = "none"

LEMMA StartedStep ==
  ASSUME NotStarted, DOMAIN task' = Attempts, UNCHANGED try,
         \A a \in Attempts : task[a] = "none" => task'[a] = "none",
         \A r \in Requests : phase'[r] = "ready" => phase[r] = "ready",
         Inv
  PROVE  NotStarted'
  <1>1. \A r \in Requests : Now(r) \in Attempts /\ Now(r)' = Now(r)
    BY PresentAttempt DEF Now
  <1>2. \A r \in Requests, i \in 1 .. Tries : <<r, i>> \in Attempts
    BY DEF Attempts
  <1> QED
    BY <1>1, <1>2 DEF NotStarted

LEMMA RequestStarts ==
  ASSUME NotStarted, Inv, NEW r \in Requests,
         RequestStep(r) \/ Accept(r) \/ DeadlinePasses(r) \/ CutoffFires(r)
           \/ KillOwner(r) \/ CallerDies(r) \/ ParentStops(r)
  PROVE  NotStarted' /\ \A a \in Attempts : task'[a] \in Unasked => task[a] \in Unasked
  <1>0. phase \in [Requests -> Phases] /\ try \in [Requests -> 1 .. Tries]
    BY DEF Inv, Shape
  <1>1. CASE StartAttempt(r)
    <2>1. CASE UNCHANGED task /\ Goto(r, "deciding")
      BY <1>0, <1>1, <2>1, StartedStep DEF StartAttempt, Goto, NotStarted
    <2>2. CASE task' = [task EXCEPT ![Now(r)] = "tracking"] /\ Goto(r, "waiting")
      <3>1. phase[r] = "ready" /\ task[Now(r)] = "none" /\ UNCHANGED try
            /\ DOMAIN task = Attempts
        BY <1>1 DEF StartAttempt, NotStarted
      <3>2. \A s \in Requests : phase'[s] = "ready" => s # r /\ phase[s] = "ready"
        BY <1>0, <2>2 DEF Goto
      <3>3. \A s \in Requests : Now(s)' = Now(s) /\ Now(s) \in Attempts
        BY <3>1, PresentAttempt DEF Now
      <3>4. \A s \in Requests : s # r => Now(s) # Now(r)
        BY DEF Now
      <3>5. \A s \in Requests, i \in 1 .. Tries :
              i > try[s] => <<s, i>> # Now(r) /\ <<s, i>> \in Attempts
        BY <1>0 DEF Now, Attempts
      <3> QED
        BY <2>2, <3>1, <3>2, <3>3, <3>4, <3>5 DEF NotStarted, Unasked
    <2> QED
      BY <1>1, <2>1, <2>2 DEF StartAttempt
  <1>2. CASE Decide(r)
    <2>1. CASE UNCHANGED try /\ Goto(r, "done")
      BY <1>0, <1>2, <2>1, StartedStep DEF Decide, Goto, NotStarted, taskVars
    <2>2. CASE try[r] < Tries /\ try' = [try EXCEPT ![r] = @ + 1] /\ Goto(r, "ready")
      <3>1. task' = task /\ Tries \in Nat /\ try[r] \in 1 .. Tries
        BY <1>0, <1>2, BoundsAssumption DEF Decide, taskVars
      <3>2. /\ try'[r] = try[r] + 1 /\ try[r] + 1 \in 1 .. Tries
            /\ \A s \in Requests \ {r} : try'[s] = try[s] /\ phase'[s] = phase[s]
        BY <1>0, <2>2, <3>1 DEF Goto
      <3>3. /\ task[<<r, try[r] + 1>>] = "none"
            /\ \A i \in 1 .. Tries : i > try[r] + 1 => task[<<r, i>>] = "none"
        BY <3>1, <3>2 DEF NotStarted
      <3>4. Now(r)' = <<r, try[r] + 1>> /\ \A s \in Requests \ {r} : Now(s)' = Now(s)
        BY <3>2 DEF Now
      <3>5. ASSUME NEW s \in Requests
            PROVE  /\ phase'[s] = "ready" => task[Now(s)'] = "none"
                   /\ \A i \in 1 .. Tries : i > try'[s] => task[<<s, i>>] = "none"
        <4>1. CASE s = r
          BY <3>2, <3>3, <3>4, <4>1
        <4>2. CASE s # r
          BY <3>2, <3>4, <4>2 DEF NotStarted
        <4> QED
          BY <4>1, <4>2
      <3> QED
        BY <3>1, <3>5 DEF NotStarted
    <2> QED
      BY <1>2, <2>1, <2>2, DecideTurns DEF CanRetry
  <1>3. CASE \/ Receive(r) \/ Drain(r) \/ Settle(r) \/ Finish(r) \/ Answer(r) \/ Undeliverable(r)
             \/ Accept(r) \/ DeadlinePasses(r) \/ CutoffFires(r)
             \/ KillOwner(r) \/ CallerDies(r) \/ ParentStops(r)
    <2>1. UNCHANGED <<task, try>>
      BY <1>3 DEF Receive, Drain, Settle, Finish, Answer, Undeliverable, Accept,
                  DeadlinePasses, CutoffFires, KillOwner, CallerDies, ParentStops,
                  requestVars, taskVars
    <2>2. UNCHANGED phase \/ \E p : p # "ready" /\ Goto(r, p)
      BY <1>3 DEF Receive, Drain, Settle, Finish, Answer, Undeliverable, Accept,
                  DeadlinePasses, CutoffFires, KillOwner, CallerDies, ParentStops, requestVars
    <2>3. \A s \in Requests : phase'[s] = "ready" => phase[s] = "ready"
      BY <1>0, <2>2 DEF Goto
    <2> QED
      BY <2>1, <2>3, StartedStep DEF NotStarted
  <1> QED
    BY <1>1, <1>2, <1>3 DEF RequestStep

LEMMA AttemptStarts ==
  ASSUME NotStarted, Inv, NEW a \in Attempts,
         TaskStep(a) \/ TaskDies(a) \/ SocketStep(a) \/ CheckoutDies(a)
  PROVE  NotStarted' /\ \A b \in Attempts : task'[b] \in Unasked => task[b] \in Unasked
  <1>1. UNCHANGED <<phase, try>>
    BY DEF TaskStep, ReadToken, AcquireTimesOut, OpenSend, StartCheckout, Collect, StopCheckout,
           CheckoutStopped, Validate, TransferTimesOut, TaskCrashes, RecordVerdict, Complete,
           TaskDies, SocketStep, NoConnection, SendStart, Write, SendStop, Respond,
           CheckoutDies, Detached, requestVars
  <1>2. \/ UNCHANGED task
        \/ \E to : task[a] # "none" /\ to \notin Unasked /\ task' = [task EXCEPT ![a] = to]
    <2>1. CASE TaskStep(a)
      BY <2>1 DEF TaskStep, ReadToken, AcquireTimesOut, OpenSend, StartCheckout, Collect,
                  StopCheckout, CheckoutStopped, Validate, TransferTimesOut, TaskCrashes,
                  RecordVerdict, Complete, Step, Unasked
    <2>2. CASE TaskDies(a)
      BY <2>2 DEF TaskDies, RunsTask, Unasked
    <2>3. CASE SocketStep(a) \/ CheckoutDies(a)
      BY <2>3 DEF SocketStep, NoConnection, SendStart, Write, SendStop, Respond, CheckoutDies,
                  taskVars
    <2> QED
      BY <2>1, <2>2, <2>3
  <1>3. /\ DOMAIN task' = Attempts
        /\ \A b \in Attempts : task[b] = "none" => task'[b] = "none"
        /\ \A b \in Attempts : task'[b] \in Unasked => task[b] \in Unasked
    BY <1>2 DEF NotStarted
  <1> QED
    BY <1>1, <1>3, StartedStep

-----------------------------------------------------------------------------
(* What the variables of requests and attempts hold, by their types.       *)
Facts == [kind : TaskKinds \cup {"none", "deadline", "cancelled"}, certainty : Certainties,
          leased : BOOLEAN]
Verdicts == [kind : TaskKinds \cup {"none"}, certainty : Certainties, late : BOOLEAN,
             overdue : BOOLEAN, leased : BOOLEAN]

RequestTypes ==
  /\ safety \in [Requests -> Safeties] /\ kept \in [Requests -> 0 .. Tries]
  /\ guarded \in [Requests -> BOOLEAN] /\ caller \in [Requests -> {"alive", "gone"}]
  /\ phase \in [Requests -> Phases] /\ try \in [Requests -> 1 .. Tries]
  /\ mail \in [Requests -> Seq(Messages)]
  /\ stopped \in [Requests -> BOOLEAN] /\ inbox \in [Requests -> {"empty", "full", "read"}]

AttemptTypes ==
  /\ outcome \in [Attempts -> Facts] /\ gate \in [Attempts -> Gates]
  /\ deadline \in [Attempts -> {"ahead", "passed", "signalled"}]
  /\ task \in [Attempts -> TaskSteps] /\ killed \in [Attempts -> BOOLEAN]
  /\ token \in [Attempts -> 0 .. MaxRepairs] /\ held \in [Attempts -> BOOLEAN]
  /\ verdict \in [Attempts -> Verdicts]
  /\ checkout \in [Attempts -> CheckoutSteps]
  /\ session \in [Attempts -> Evidence] /\ written \in [Attempts -> BOOLEAN]
  /\ tracker \in [attached : BOOLEAN, ready : BOOLEAN, token : 0 .. MaxRepairs]

Types == RequestTypes /\ AttemptTypes

LEMMA Certain ==
  ASSUME NEW c \in Certainties, NEW d \in Certainties, NEW seen \in Evidence
  PROVE  /\ Stronger(c, d) \in {c, d} /\ CertaintyOf(seen) \in Certainties
         /\ CertaintyOf(seen) = "not_dispatched" <=> seen = "not_started"
         /\ CertaintyOf(seen) = "dispatched" <=> seen = "confirmed"
         /\ Stronger(c, d) = "not_dispatched" <=> c = "not_dispatched" /\ d = "not_dispatched"
         /\ Stronger(c, d) = "dispatched" <=> c = "dispatched" \/ d = "dispatched"
  <1>1. /\ Rank["not_dispatched"] = 0 /\ Rank["indeterminate"] = 1 /\ Rank["dispatched"] = 2
    BY DEF Rank
  <1>2. /\ CertaintyOf(seen) \in Certainties
        /\ CertaintyOf(seen) = "not_dispatched" <=> seen = "not_started"
        /\ CertaintyOf(seen) = "dispatched" <=> seen = "confirmed"
    BY DEF CertaintyOf, Evidence, Certainties
  <1> QED
    BY <1>1, <1>2 DEF Stronger, Certainties

(* What a task may judge.                                                  *)
LEMMA Judgements ==
  ASSUME NEW a \in Attempts, NEW certainty \in Certainties, NEW kind \in TaskKinds
  PROVE  /\ Predispatch(a) \in Verdicts /\ Responded(a, kind) \in Verdicts
         /\ Failure(a, certainty) \in Verdicts
         /\ Predispatch(a).kind = "predispatch" /\ Predispatch(a).certainty = "not_dispatched"
         /\ ~Predispatch(a).leased
         /\ Responded(a, kind).kind = kind /\ Responded(a, kind).certainty = "dispatched"
         /\ ~Responded(a, kind).leased /\ ~Failure(a, certainty).leased
         /\ Failure(a, certainty).certainty = certainty
         /\ Failure(a, certainty).kind = IF certainty = "not_dispatched" THEN "predispatch"
                                         ELSE "transport"
  <1>1. Passed(a) \in BOOLEAN
    BY DEF Passed
  <1> QED
    BY <1>1 DEF Predispatch, Responded, Failure, Verdict, Verdicts, TaskKinds, Certainties

LEMMA SnapshotType ==
  ASSUME AttemptTypes, NEW a \in Attempts
  PROVE  /\ gate[a] \in Gates /\ gate[a].seen \in Evidence /\ gate[a].open \in BOOLEAN
         /\ verdict[a] \in Verdicts /\ verdict[a].certainty \in Certainties
         /\ verdict[a].kind \in TaskKinds \cup {"none"} /\ verdict[a].leased \in BOOLEAN
         /\ Snapshot(a) \in Certainties
         /\ Snapshot(a) = "not_dispatched" <=> gate[a].seen = "not_started"
         /\ Snapshot(a) = "dispatched" <=> gate[a].seen = "confirmed"
  <1>1. /\ gate[a] \in Gates /\ gate[a].seen \in Evidence /\ gate[a].open \in BOOLEAN
        /\ verdict[a] \in Verdicts
    BY DEF AttemptTypes, Gates
  <1>2. /\ verdict[a].certainty \in Certainties
        /\ verdict[a].kind \in TaskKinds \cup {"none"} /\ verdict[a].leased \in BOOLEAN
    BY <1>1 DEF Verdicts
  <1>3. "not_dispatched" \in Certainties
    BY DEF Certainties
  <1> QED
    BY <1>1, <1>2, <1>3, Certain DEF Snapshot

(* What a request may conclude, and when it says what of the dispatch.     *)
LEMMA Conclusions ==
  ASSUME AttemptTypes, NEW a \in Attempts
  PROVE  /\ \A fact \in {DeadlineFact(a), LateFact(a), ExitFact(a), CancelledFact(a), TimelyFact(a)} :
              fact \in Facts
         /\ \A fact \in {DeadlineFact(a), ExitFact(a), CancelledFact(a),
                         Fact("cancelled", Snapshot(a), FALSE)} :
              /\ fact \in Facts /\ fact.kind \notin {"none", "predispatch"} /\ ~fact.leased
              /\ fact.certainty = "not_dispatched" => gate[a].seen = "not_started"
              /\ fact.certainty = "dispatched" => gate[a].seen = "confirmed"
         /\ LateFact(a).kind = "deadline" /\ ~LateFact(a).leased
         /\ LateFact(a).certainty = Stronger(Snapshot(a), verdict[a].certainty)
         /\ TimelyFact(a).leased => verdict[a].leased
  <1> DEFINE s == Snapshot(a)
  <1>1. /\ s \in Certainties /\ verdict[a] \in Verdicts /\ verdict[a].certainty \in Certainties
        /\ verdict[a].kind \in TaskKinds \cup {"none"} /\ verdict[a].leased \in BOOLEAN
        /\ s = "not_dispatched" <=> gate[a].seen = "not_started"
        /\ s = "dispatched" <=> gate[a].seen = "confirmed"
        /\ {"indeterminate", "dispatched"} \subseteq Certainties
    BY SnapshotType DEF Certainties
  <1>2. /\ Stronger(s, verdict[a].certainty) \in Certainties
        /\ Stronger("indeterminate", s) \in Certainties
        /\ Stronger("indeterminate", s) # "not_dispatched"
        /\ Stronger("indeterminate", s) = "dispatched" <=> s = "dispatched"
    BY <1>1, Certain DEF Evidence
  <1> HIDE DEF s
  <1>3. ASSUME NEW kind \in TaskKinds \cup {"none", "deadline", "cancelled"},
               NEW certainty \in Certainties
        PROVE  /\ Fact(kind, certainty, FALSE) \in Facts
               /\ Fact(kind, certainty, FALSE).kind = kind
               /\ Fact(kind, certainty, FALSE).certainty = certainty
               /\ ~Fact(kind, certainty, FALSE).leased
    BY DEF Fact, Facts
  <1>4. {"transport", "predispatch"} \subseteq TaskKinds
    BY DEF TaskKinds
  <1>5. /\ DeadlineFact(a) \in Facts /\ DeadlineFact(a).kind = "deadline"
        /\ DeadlineFact(a).certainty = s /\ ~DeadlineFact(a).leased
    BY <1>1, <1>3 DEF DeadlineFact, s
  <1>6. /\ LateFact(a) \in Facts /\ LateFact(a).kind = "deadline" /\ ~LateFact(a).leased
        /\ LateFact(a).certainty = Stronger(s, verdict[a].certainty)
    BY <1>1, <1>2, <1>3 DEF LateFact, s
  <1>7. /\ ExitFact(a) \in Facts /\ ExitFact(a).kind \in {"deadline", "transport"}
        /\ ~ExitFact(a).leased
        /\ ExitFact(a).certainty \in {s, Stronger("indeterminate", s)}
    BY <1>1, <1>2, <1>3, <1>4, <1>5 DEF ExitFact, s
  <1>8. /\ Fact("cancelled", s, FALSE) \in Facts /\ Fact("cancelled", s, FALSE).kind = "cancelled"
        /\ Fact("cancelled", s, FALSE).certainty = s /\ ~Fact("cancelled", s, FALSE).leased
    BY <1>1, <1>3
  <1>9. CancelledFact(a) \in {DeadlineFact(a), Fact("cancelled", s, FALSE)}
    BY DEF CancelledFact, s
  <1>10. TimelyFact(a) \in Facts /\ (TimelyFact(a).leased => verdict[a].leased)
    <2> DEFINE v == verdict[a]
               answer == Fact(v.kind, "dispatched", v.leased)
    <2>1. CASE v.kind = "predispatch"
      <3> DEFINE name == IF s = "not_dispatched" THEN "predispatch" ELSE "transport"
      <3>1. TimelyFact(a) = Fact(name, s, FALSE) /\ name \in TaskKinds
        BY <1>4, <2>1 DEF TimelyFact, s
      <3>2. name \in TaskKinds \cup {"none", "deadline", "cancelled"}
        BY <3>1
      <3> HIDE DEF name
      <3>3. Fact(name, s, FALSE) \in Facts /\ ~Fact(name, s, FALSE).leased
        BY <1>1, <1>3, <3>2
      <3> QED
        BY <3>1, <3>3
    <2>2. CASE v.kind = "transport"
      <3> DEFINE c == IF s = "dispatched" THEN "dispatched" ELSE v.certainty
      <3>1. TimelyFact(a) = Fact("transport", c, FALSE)
        BY <2>2 DEF TimelyFact, s
      <3>2. c \in Certainties
        BY <1>1
      <3> HIDE DEF c
      <3>3. Fact("transport", c, FALSE) \in Facts /\ ~Fact("transport", c, FALSE).leased
        BY <1>3, <1>4, <3>2
      <3> QED
        BY <3>1, <3>3
    <2>3. CASE v.kind \notin {"predispatch", "transport"}
      <3>1. TimelyFact(a) = answer
        BY <2>3 DEF TimelyFact
      <3>2. answer \in Facts /\ answer.leased = v.leased
        BY <1>1 DEF Fact, Facts
      <3> QED
        BY <3>1, <3>2
    <2> QED
      BY <2>1, <2>2, <2>3
  <1>11. /\ DeadlineFact(a).certainty = s /\ CancelledFact(a).certainty = s
         /\ CancelledFact(a).kind \in {"deadline", "cancelled"} /\ ~CancelledFact(a).leased
         /\ CancelledFact(a) \in Facts
    BY <1>5, <1>8, <1>9
  <1>12. ASSUME NEW fact \in Facts, fact.kind \in {"deadline", "cancelled", "transport"},
                fact.certainty \in {s, Stronger("indeterminate", s)}
         PROVE  /\ fact.kind \notin {"none", "predispatch"}
                /\ fact.certainty = "not_dispatched" => gate[a].seen = "not_started"
                /\ fact.certainty = "dispatched" => gate[a].seen = "confirmed"
    BY <1>1, <1>2, <1>12
  <1>13. ASSUME NEW fact \in {DeadlineFact(a), ExitFact(a), CancelledFact(a),
                              Fact("cancelled", s, FALSE)}
         PROVE  /\ fact \in Facts /\ fact.kind \in {"deadline", "cancelled", "transport"}
                /\ ~fact.leased /\ fact.certainty \in {s, Stronger("indeterminate", s)}
    BY <1>5, <1>7, <1>8, <1>11
  <1> QED
    BY <1>5, <1>6, <1>7, <1>10, <1>11, <1>12, <1>13 DEF s

-----------------------------------------------------------------------------
(* What the task, the gate and the checkout of an attempt know of its      *)
(* socket.  An attempt is unsent when nothing was written and no checkout  *)
(* is left that could write.                                               *)
Unsent(a) == ~written[a] /\ checkout[a] \in {"none", "failed", "dead"}

Early   == {"none", "tracking", "acquiring", "admitted", "opened"}
Sending == {"opened", "yielding", "stopping", "validating", "retaining"}
Over    == {"judged", "completing", "ended"}

(* A handler attached with the token the task read was never lost, so a    *)
(* session it has not touched saw no write begin.                          *)
SocketInv(a) ==
  /\ task[a] \in Early => checkout[a] = "none"
  /\ checkout[a] \in {"none", "connecting", "sending"} => ~written[a]
  /\ checkout[a] \in {"sent", "receiving", "limited", "answered"} => written[a]
  /\ session[a] = "confirmed" => written[a]
  /\ token[a] <= tracker.token /\ (token[a] = tracker.token => tracker.ready)
  /\ Healthy(a) /\ session[a] = "not_started" =>
       ~written[a] /\ checkout[a] \in {"none", "connecting", "failed", "dead"}

GateInv(a) ==
  /\ task[a] \in Sending => gate[a].seen # "not_started"
  /\ gate[a].seen = "not_started" => Unsent(a)
  /\ gate[a].seen = "confirmed" => written[a]

VerdictInv(a) ==
  /\ task[a] \in {"validating", "retaining"} => written[a]
  /\ task[a] = "retaining" => verdict[a].kind \in ResponseKinds
  /\ task[a] \in {"judged", "completing"} => verdict[a].kind # "none"
  /\ verdict[a].kind = "predispatch" => Unsent(a) /\ task[a] \in Over
  /\ verdict[a].kind = "transport" => verdict[a].certainty # "not_dispatched"
  /\ verdict[a].kind \notin {"none", "predispatch", "transport"} =>
       verdict[a].certainty = "dispatched"
  /\ verdict[a].certainty = "dispatched" => written[a]

Known(a) == SocketInv(a) /\ GateInv(a) /\ VerdictInv(a)

(* What a step leaves alone of every other attempt, and of this one.       *)
Same(b) ==
  /\ gate'[b] = gate[b] /\ task'[b] = task[b] /\ token'[b] = token[b]
  /\ verdict'[b] = verdict[b] /\ checkout'[b] = checkout[b] /\ session'[b] = session[b]
  /\ written'[b] = written[b]
Local(a) == \A b \in Attempts \ {a} : Same(b)
(* Bytes that left stay so, and a verdict stays one.                       *)
Grows(a) ==
  /\ written[a] => written'[a]
  /\ verdict[a].kind # "none" => verdict'[a].kind # "none"

LEMMA Values ==
  ASSUME AttemptTypes, NEW a \in Attempts
  PROVE  /\ gate[a] \in Gates /\ task[a] \in TaskSteps /\ verdict[a] \in Verdicts
         /\ token[a] \in 0 .. MaxRepairs /\ checkout[a] \in CheckoutSteps
         /\ session[a] \in Evidence /\ written[a] \in BOOLEAN
         /\ tracker.token \in 0 .. MaxRepairs /\ MaxRepairs \in Nat
         /\ tracker.attached \in BOOLEAN /\ tracker.ready \in BOOLEAN
BY BoundsAssumption DEF AttemptTypes

LEMMA KnownStays ==
  ASSUME NEW b, Known(b), Same(b), tracker' = tracker
  PROVE  Known(b)'
BY DEF Known, SocketInv, GateInv, VerdictInv, Same, Healthy, Unsent

(* The operations of the gate and what they let it say it has seen.        *)
LEMMA GateSees ==
  ASSUME NEW g \in Gates
  PROVE  /\ Shut(g).seen = g.seen
         /\ Started(g).seen \in {g.seen, "started"}
         /\ g.open => Started(g).seen # "not_started"
         /\ Confirmed(g).seen \in {g.seen, "confirmed"}
         /\ ProvedUnsent(g).seen \in {g.seen, "not_started"}
         /\ g.seen # "started" => ProvedUnsent(g).seen = g.seen
BY DEF Shut, Started, Confirmed, ProvedUnsent, Gates, Evidence

(* A task that judges an attempt.                                          *)
LEMMA JudgeStep ==
  ASSUME AttemptTypes, NEW a \in Attempts, Known(a),
         NEW from \in TaskSteps \ {"none", "ended"}, NEW v \in Verdicts, Step(a, from, "judged"),
         Judge(a, v), UNCHANGED <<outcome, gate, deadline, killed, token, held, checkout, written, tracker>>,
         \/ session' = session
         \/ session' = [session EXCEPT ![a] = gate[a].seen] /\ from = "stopping",
         v.kind # "none",
         v.kind = "predispatch" => Unsent(a),
         v.kind = "transport" => v.certainty # "not_dispatched",
         v.kind \notin {"predispatch", "transport"} => v.certainty = "dispatched",
         v.certainty = "dispatched" => written[a]
  PROVE  AttemptTypes' /\ Local(a) /\ Grows(a) /\ Known(a)'
  <1>1. /\ task' = [task EXCEPT ![a] = "judged"] /\ verdict' = [verdict EXCEPT ![a] = v]
        /\ task[a] = from
    BY DEF Step, Judge
  <1>2. gate[a].seen \in Evidence /\ "judged" \in TaskSteps
    BY SnapshotType DEF TaskSteps
  <1>3. AttemptTypes' /\ Local(a)
    BY <1>1, <1>2 DEF AttemptTypes, Local, Same
  <1>4. task'[a] = "judged" /\ verdict'[a] = v /\ session'[a] \in {session[a], gate[a].seen}
        /\ (session'[a] # session[a] => from = "stopping")
    BY <1>1 DEF AttemptTypes
  <1>5. Grows(a)
    BY <1>4 DEF Grows
  <1>6. SocketInv(a)'
    BY <1>1, <1>4 DEF Known, SocketInv, GateInv, Healthy, Early, Sending
  <1>7. GateInv(a)' /\ VerdictInv(a)'
    BY <1>4 DEF Known, GateInv, VerdictInv, Unsent, Sending, Over
  <1> QED
    BY <1>3, <1>5, <1>6, <1>7 DEF Known

LEMMA ReadTokenKnown ==
  ASSUME AttemptTypes, NEW a \in Attempts, Known(a), ReadToken(a)
  PROVE  AttemptTypes' /\ Local(a) /\ Grows(a) /\ Known(a)'
  <1>1. UNCHANGED <<outcome, gate, deadline, killed, held, session, written, tracker, checkout>>
    BY DEF ReadToken, Detached, checkoutVars
  <1>2. CASE Step(a, "tracking", "acquiring") /\ tracker.ready
    <2>1. token' = [token EXCEPT ![a] = tracker.token] /\ verdict' = verdict
      BY <1>2 DEF ReadToken, Step
    <2>2. /\ AttemptTypes' /\ Local(a)
          /\ task[a] = "tracking" /\ task'[a] = "acquiring" /\ gate'[a] = gate[a]
          /\ verdict'[a] = verdict[a] /\ token'[a] = tracker.token /\ checkout'[a] = checkout[a]
          /\ session'[a] = session[a] /\ written'[a] = written[a]
      BY <1>1, <1>2, <2>1, Values DEF Step, TaskSteps, AttemptTypes, Local, Same
    <2>3. checkout[a] = "none" /\ ~written[a]
      BY <2>2 DEF Known, SocketInv, Early
    <2> QED
      BY <1>1, <1>2, <2>2, <2>3, Values
      DEF Known, SocketInv, GateInv, VerdictInv, Grows, Unsent, Early, Sending, Over, Healthy
  <1>3. CASE Step(a, "tracking", "judged") /\ Judge(a, Predispatch(a)) /\ token' = token
    <2>1. Unsent(a)
      BY <1>3 DEF Known, SocketInv, Early, Step, Unsent
    <2> QED
      BY <1>1, <1>3, <2>1, JudgeStep, Judgements DEF TaskSteps, TaskKinds, Certainties
  <1> QED
    BY <1>2, <1>3 DEF ReadToken

LEMMA AcquireTimesOutKnown ==
  ASSUME AttemptTypes, NEW a \in Attempts, Known(a), AcquireTimesOut(a)
  PROVE  AttemptTypes' /\ Local(a) /\ Grows(a) /\ Known(a)'
  <1>1. UNCHANGED <<outcome, gate, deadline, killed, token, held, session, checkout, written, tracker>>
        /\ Step(a, "acquiring", "judged") /\ Judge(a, Predispatch(a))
    BY DEF AcquireTimesOut, Detached, checkoutVars
  <1>2. Unsent(a)
    BY <1>1 DEF Known, SocketInv, Early, Step, Unsent
  <1> QED
    BY <1>1, <1>2, JudgeStep, Judgements DEF TaskSteps, TaskKinds, Certainties

LEMMA OpenSendKnown ==
  ASSUME AttemptTypes, NEW a \in Attempts, Known(a), OpenSend(a)
  PROVE  AttemptTypes' /\ Local(a) /\ Grows(a) /\ Known(a)'
  <1>1. UNCHANGED <<outcome, deadline, killed, token, held, session, checkout, written, tracker>>
    BY DEF OpenSend, Detached, checkoutVars
  <1>2. CASE /\ gate[a].open /\ Step(a, "admitted", "opened")
             /\ gate' = [gate EXCEPT ![a] = Started(@)] /\ verdict' = verdict
    <2>1. /\ Started(gate[a]) \in Gates /\ Started(gate[a]).seen \in {gate[a].seen, "started"}
          /\ Started(gate[a]).seen # "not_started"
      BY <1>2, Values, GateOperations, GateSees
    <2>2. gate' = [gate EXCEPT ![a] = Started(gate[a])]
      BY <1>2 DEF AttemptTypes
    <2>3. /\ AttemptTypes' /\ Local(a)
          /\ task[a] = "admitted" /\ task'[a] = "opened" /\ gate'[a] = Started(gate[a])
          /\ verdict'[a] = verdict[a] /\ token'[a] = token[a] /\ checkout'[a] = checkout[a]
          /\ session'[a] = session[a] /\ written'[a] = written[a]
      BY <1>1, <1>2, <2>1, <2>2, Values DEF Step, TaskSteps, AttemptTypes, Local, Same
    <2> HIDE DEF Started
    <2> QED
      BY <1>1, <2>1, <2>3
      DEF Known, SocketInv, GateInv, VerdictInv, Grows, Unsent, Early, Sending, Over, Healthy
  <1>3. CASE Step(a, "admitted", "judged") /\ Judge(a, Predispatch(a)) /\ gate' = gate
    <2>1. Unsent(a)
      BY <1>3 DEF Known, SocketInv, Early, Step, Unsent
    <2> QED
      BY <1>1, <1>3, <2>1, JudgeStep, Judgements DEF TaskSteps, TaskKinds, Certainties
  <1> QED
    BY <1>2, <1>3 DEF OpenSend

LEMMA StartCheckoutKnown ==
  ASSUME AttemptTypes, NEW a \in Attempts, Known(a), StartCheckout(a)
  PROVE  AttemptTypes' /\ Local(a) /\ Grows(a) /\ Known(a)'
  <1>1. UNCHANGED <<outcome, gate, deadline, killed, token, held, session, written, tracker>>
    BY DEF StartCheckout, Detached
  <1>2. CASE /\ Step(a, "opened", "yielding") /\ verdict' = verdict
             /\ checkout' = [checkout EXCEPT ![a] = "connecting"]
    <2>1. /\ AttemptTypes' /\ Local(a)
          /\ task[a] = "opened" /\ task'[a] = "yielding" /\ gate'[a] = gate[a]
          /\ verdict'[a] = verdict[a] /\ token'[a] = token[a] /\ checkout'[a] = "connecting"
          /\ session'[a] = session[a] /\ written'[a] = written[a]
      BY <1>1, <1>2, Values DEF Step, TaskSteps, CheckoutSteps, AttemptTypes, Local, Same
    <2> QED
      BY <1>1, <2>1
      DEF Known, SocketInv, GateInv, VerdictInv, Grows, Unsent, Early, Sending, Over, Healthy
  <1>3. CASE Step(a, "opened", "judged") /\ Judge(a, Predispatch(a)) /\ checkout' = checkout
    <2>1. Unsent(a)
      BY <1>3 DEF Known, SocketInv, Early, Step, Unsent
    <2> QED
      BY <1>1, <1>3, <2>1, JudgeStep, Judgements DEF TaskSteps, TaskKinds, Certainties
  <1> QED
    BY <1>2, <1>3 DEF StartCheckout

LEMMA CollectKnown ==
  ASSUME AttemptTypes, NEW a \in Attempts, Known(a), Collect(a)
  PROVE  AttemptTypes' /\ Local(a) /\ Grows(a) /\ Known(a)'
  <1>1. UNCHANGED <<outcome, gate, deadline, killed, token, held, session, checkout, written, tracker>>
    BY DEF Collect, Detached, checkoutVars
  <1>2. /\ {"dispatched", "indeterminate"} \subseteq Certainties
        /\ ResponseKinds \subseteq TaskKinds /\ {"refused", "error"} \subseteq ResponseKinds
        /\ "yielding" \in TaskSteps \ {"none", "ended"}
    BY DEF Certainties, TaskKinds, ResponseKinds, TaskSteps
  <1>3. CASE /\ checkout[a] = "failed" /\ Step(a, "yielding", "judged")
             /\ Judge(a, Failure(a, SessionCertainty(a)))
    <2>1. /\ SessionCertainty(a) \in Certainties
          /\ SessionCertainty(a) = "not_dispatched" => session[a] = "not_started" /\ Healthy(a)
          /\ SessionCertainty(a) = "dispatched" => session[a] = "confirmed"
      BY Values, Certain, <1>2 DEF SessionCertainty
    <2>2. SessionCertainty(a) = "not_dispatched" => Unsent(a)
      BY <1>3, <2>1 DEF Known, SocketInv, Unsent
    <2>3. SessionCertainty(a) = "dispatched" => written[a]
      BY <2>1 DEF Known, SocketInv
    <2> HIDE DEF SessionCertainty
    <2>4. /\ Failure(a, SessionCertainty(a)) \in Verdicts
          /\ Failure(a, SessionCertainty(a)).certainty = SessionCertainty(a)
          /\ Failure(a, SessionCertainty(a)).kind =
               IF SessionCertainty(a) = "not_dispatched" THEN "predispatch" ELSE "transport"
      BY <2>1, Judgements DEF TaskKinds
    <2> QED
      BY <1>1, <1>2, <1>3, <2>2, <2>3, <2>4, JudgeStep
  <1>4. CASE /\ checkout[a] = "limited" /\ Step(a, "yielding", "judged")
             /\ Judge(a, Responded(a, "error"))
    <2>1. written[a]
      BY <1>4 DEF Known, SocketInv
    <2> QED
      BY <1>1, <1>2, <1>4, <2>1, JudgeStep, Judgements
  <1>5. CASE checkout[a] = "answered" /\ Step(a, "yielding", "judged")
             /\ (Judge(a, Failure(a, "dispatched")) \/ Judge(a, Responded(a, "refused")))
    <2>1. written[a]
      BY <1>5 DEF Known, SocketInv
    <2> QED
      BY <1>1, <1>2, <1>5, <2>1, JudgeStep, Judgements
  <1>6. CASE checkout[a] = "answered" /\ Step(a, "yielding", "validating") /\ verdict' = verdict
    <2>1. /\ AttemptTypes' /\ Local(a)
          /\ task[a] = "yielding" /\ task'[a] = "validating" /\ gate'[a] = gate[a]
          /\ verdict'[a] = verdict[a] /\ token'[a] = token[a] /\ checkout'[a] = checkout[a]
          /\ session'[a] = session[a] /\ written'[a] = written[a]
      BY <1>1, <1>6, Values DEF Step, TaskSteps, AttemptTypes, Local, Same
    <2> QED
      BY <1>1, <1>6, <2>1
      DEF Known, SocketInv, GateInv, VerdictInv, Grows, Unsent, Early, Sending, Over, Healthy
  <1> QED
    BY <1>3, <1>4, <1>5, <1>6 DEF Collect

LEMMA StopCheckoutKnown ==
  ASSUME AttemptTypes, NEW a \in Attempts, Known(a), StopCheckout(a)
  PROVE  AttemptTypes' /\ Local(a) /\ Grows(a) /\ Known(a)'
  <1>1. UNCHANGED <<outcome, gate, deadline, killed, token, held, verdict, checkout, session,
                    written, tracker>>
        /\ Step(a, "yielding", "stopping")
    BY DEF StopCheckout, Detached, checkoutVars
  <1>2. /\ AttemptTypes' /\ Local(a) /\ task[a] = "yielding" /\ task'[a] = "stopping"
    BY <1>1 DEF Step, TaskSteps, AttemptTypes, Local, Same
  <1> QED
    BY <1>1, <1>2
    DEF Known, SocketInv, GateInv, VerdictInv, Grows, Unsent, Early, Sending, Over, Healthy

(* Once the checkout is dead the gate, opened by the task, has the last    *)
(* word.                                                                   *)
LEMMA CheckoutStoppedKnown ==
  ASSUME AttemptTypes, NEW a \in Attempts, Known(a), CheckoutStopped(a)
  PROVE  AttemptTypes' /\ Local(a) /\ Grows(a) /\ Known(a)'
  <1>1. /\ UNCHANGED <<outcome, gate, deadline, killed, token, held, checkout, written, tracker>>
        /\ session' = [session EXCEPT ![a] = gate[a].seen]
        /\ Step(a, "stopping", "judged")
    BY DEF CheckoutStopped, Detached
  <1>2. gate[a].seen # "not_started" /\ (gate[a].seen = "confirmed" => written[a])
    BY <1>1 DEF Step, Known, GateInv, Sending
  <1>3. /\ Snapshot(a) \in Certainties /\ Snapshot(a) # "not_dispatched"
        /\ Snapshot(a) = "dispatched" => written[a]
    BY <1>2, SnapshotType
  <1>4. Judge(a, Failure(a, Snapshot(a)))
    BY <1>2 DEF CheckoutStopped
  <1>5. /\ Failure(a, Snapshot(a)) \in Verdicts
        /\ Failure(a, Snapshot(a)).certainty = Snapshot(a)
        /\ Failure(a, Snapshot(a)).kind = "transport"
    BY <1>3, Judgements DEF TaskKinds
  <1>6. "stopping" \in TaskSteps \ {"none", "ended"}
    BY DEF TaskSteps
  <1> QED
    BY <1>1, <1>3, <1>4, <1>5, <1>6, JudgeStep

LEMMA ValidateKnown ==
  ASSUME AttemptTypes, NEW a \in Attempts, Known(a), Validate(a)
  PROVE  AttemptTypes' /\ Local(a) /\ Grows(a) /\ Known(a)'
  <1>1. UNCHANGED <<outcome, gate, deadline, killed, token, held, session, checkout, written, tracker>>
        /\ task[a] = "validating"
    BY DEF Validate, Detached, checkoutVars, Step
  <1>2. written[a]
    BY <1>1 DEF Known, VerdictInv
  <1>3. /\ "dispatched" \in Certainties /\ ResponseKinds \subseteq TaskKinds
        /\ "invalid" \in TaskKinds /\ "error" \in TaskKinds /\ "retaining" \in TaskSteps
        /\ \A kind \in ResponseKinds \cup {"invalid"} : kind \notin {"none", "predispatch", "transport"}
        /\ "validating" \in TaskSteps \ {"none", "ended"}
    BY DEF Certainties, ResponseKinds, TaskKinds, TaskSteps
  <1>4. CASE Step(a, "validating", "judged") /\ Judge(a, Failure(a, "dispatched"))
    BY <1>1, <1>2, <1>3, <1>4, JudgeStep, Judgements
  <1>5. CASE Step(a, "validating", "judged") /\ \E kind \in {"invalid", "error"} : Judge(a, Responded(a, kind))
    BY <1>1, <1>2, <1>3, <1>5, JudgeStep, Judgements DEF ResponseKinds
  <1>6. CASE Step(a, "validating", "retaining") /\ \E kind \in ResponseKinds : Judge(a, Responded(a, kind))
    <2>1. PICK kind \in ResponseKinds : Judge(a, Responded(a, kind))
      BY <1>6
    <2>2. /\ Responded(a, kind) \in Verdicts /\ Responded(a, kind).kind = kind
          /\ Responded(a, kind).certainty = "dispatched"
      BY <1>3, Judgements
    <2> HIDE DEF Responded
    <2>3. /\ AttemptTypes' /\ Local(a) /\ task'[a] = "retaining"
          /\ verdict'[a] = Responded(a, kind)
      BY <1>1, <1>3, <1>6, <2>1, <2>2 DEF Step, Judge, AttemptTypes, Local, Same
    <2> QED
      BY <1>1, <1>2, <1>3, <2>2, <2>3
      DEF Known, SocketInv, GateInv, VerdictInv, Grows, Unsent, Early, Sending, Over, Healthy
  <1> QED
    BY <1>4, <1>5, <1>6 DEF Validate

LEMMA TransferTimesOutKnown ==
  ASSUME AttemptTypes, NEW a \in Attempts, Known(a), TransferTimesOut(a)
  PROVE  AttemptTypes' /\ Local(a) /\ Grows(a) /\ Known(a)'
  <1> DEFINE v == [verdict[a] EXCEPT !.kind = "error"]
  <1>1. UNCHANGED <<outcome, gate, deadline, killed, token, held, session, checkout, written, tracker>>
        /\ Step(a, "retaining", "judged") /\ Judge(a, v)
    BY DEF TransferTimesOut, Detached, checkoutVars
  <1>2. written[a] /\ verdict[a].kind \in ResponseKinds
    BY <1>1 DEF Known, VerdictInv, Step
  <1>3. verdict[a].certainty = "dispatched"
    BY <1>2 DEF Known, VerdictInv, ResponseKinds
  <1>4. v \in Verdicts /\ v.kind = "error" /\ v.certainty = "dispatched"
    BY <1>3, Values DEF Verdicts, TaskKinds, ResponseKinds
  <1>5. "retaining" \in TaskSteps \ {"none", "ended"}
    BY DEF TaskSteps
  <1> HIDE DEF v
  <1> QED
    BY <1>1, <1>2, <1>4, <1>5, JudgeStep

(* A task that ends, of itself or killed, leaves what is known.            *)
LEMMA TaskEndsKnown ==
  ASSUME AttemptTypes, NEW a \in Attempts, Known(a), TaskCrashes(a) \/ TaskDies(a)
  PROVE  AttemptTypes' /\ Local(a) /\ Grows(a) /\ Known(a)'
  <1>1. UNCHANGED <<outcome, gate, deadline, killed, token, held, verdict, checkout, session,
                    written, tracker>>
        /\ task' = [task EXCEPT ![a] = "ended"]
    BY DEF TaskCrashes, TaskDies, Step, Detached, checkoutVars, attemptVars
  <1>2. AttemptTypes' /\ Local(a) /\ task'[a] = "ended"
    BY <1>1 DEF TaskSteps, AttemptTypes, Local, Same
  <1> QED
    BY <1>1, <1>2
    DEF Known, SocketInv, GateInv, VerdictInv, Grows, Unsent, Early, Sending, Over, Healthy

(* What the gate learns of a verdict is true: it goes back to unsent only  *)
(* for an attempt that is, and is confirmed only for bytes that left.      *)
LEMMA RecordVerdictKnown ==
  ASSUME AttemptTypes, NEW a \in Attempts, Known(a), RecordVerdict(a)
  PROVE  AttemptTypes' /\ Local(a) /\ Grows(a) /\ Known(a)'
  <1>1. UNCHANGED <<outcome, deadline, killed, token, held, verdict, checkout, session, written,
                    tracker>>
        /\ Step(a, "judged", "completing")
    BY DEF RecordVerdict, Detached, checkoutVars
  <1>2. PICK g \in Gates :
          /\ gate' = [gate EXCEPT ![a] = g]
          /\ g.seen = "not_started" => Unsent(a)
          /\ g.seen = "confirmed" => written[a]
    <2> DEFINE kind == verdict[a].kind
               g == IF verdict[a].late \/ Passed(a) THEN gate[a]
                    ELSE IF kind = "predispatch" THEN ProvedUnsent(gate[a])
                    ELSE IF verdict[a].certainty = "dispatched" THEN Confirmed(gate[a])
                    ELSE Started(gate[a])
    <2>1. gate' = [gate EXCEPT ![a] = g]
      BY DEF RecordVerdict
    <2>2. gate[a] \in Gates /\ (gate[a].seen = "not_started" => Unsent(a))
          /\ (gate[a].seen = "confirmed" => written[a])
      BY Values DEF Known, GateInv
    <2>3. ProvedUnsent(gate[a]) \in Gates /\ Confirmed(gate[a]) \in Gates /\ Started(gate[a]) \in Gates
      BY <2>2, GateOperations
    <2>4. CASE verdict[a].late \/ Passed(a)
      BY <2>1, <2>2, <2>4
    <2>5. CASE ~(verdict[a].late \/ Passed(a)) /\ kind = "predispatch"
      <3>1. g = ProvedUnsent(gate[a]) /\ Unsent(a)
        BY <2>5 DEF Known, VerdictInv
      <3>2. ProvedUnsent(gate[a]).seen \in {gate[a].seen, "not_started"}
        BY <2>2, GateSees
      <3> HIDE DEF g
      <3> QED
        BY <2>1, <2>2, <2>3, <3>1, <3>2
    <2>6. CASE ~(verdict[a].late \/ Passed(a)) /\ kind # "predispatch"
               /\ verdict[a].certainty = "dispatched"
      <3>1. g = Confirmed(gate[a]) /\ written[a]
        BY <2>6 DEF Known, VerdictInv
      <3>2. Confirmed(gate[a]).seen \in {gate[a].seen, "confirmed"}
        BY <2>2, GateSees
      <3> HIDE DEF g
      <3> QED
        BY <2>1, <2>2, <2>3, <3>1, <3>2
    <2>7. CASE ~(verdict[a].late \/ Passed(a)) /\ kind # "predispatch"
               /\ verdict[a].certainty # "dispatched"
      <3>1. g = Started(gate[a])
        BY <2>7
      <3>2. Started(gate[a]).seen \in {gate[a].seen, "started"}
        BY <2>2, GateSees
      <3> HIDE DEF g
      <3> QED
        BY <2>1, <2>2, <2>3, <3>1, <3>2
    <2> QED
      BY <2>4, <2>5, <2>6, <2>7
  <1>3. /\ AttemptTypes' /\ Local(a) /\ task[a] = "judged" /\ task'[a] = "completing"
        /\ gate'[a] = g
    BY <1>1, <1>2 DEF Step, TaskSteps, AttemptTypes, Local, Same
  <1> QED
    BY <1>1, <1>2, <1>3
    DEF Known, SocketInv, GateInv, VerdictInv, Grows, Unsent, Early, Sending, Over, Healthy

LEMMA CompleteKnown ==
  ASSUME AttemptTypes, NEW a \in Attempts, Known(a), Complete(a)
  PROVE  AttemptTypes' /\ Local(a) /\ Grows(a) /\ Known(a)' /\ verdict'[a].kind # "none"
  <1> DEFINE v == [verdict[a] EXCEPT !.overdue = Passed(a)]
  <1>1. UNCHANGED <<outcome, gate, deadline, killed, token, held, session, checkout, written,
                    tracker>>
        /\ Step(a, "completing", "ended") /\ Judge(a, v)
    BY DEF Complete, checkoutVars, attemptVars
  <1>2. v \in Verdicts /\ v.kind = verdict[a].kind /\ v.certainty = verdict[a].certainty
    BY Values DEF Verdicts, Passed
  <1> HIDE DEF v
  <1>3. /\ AttemptTypes' /\ Local(a) /\ task[a] = "completing" /\ task'[a] = "ended"
        /\ verdict'[a] = v
    BY <1>1, <1>2 DEF Step, Judge, TaskSteps, AttemptTypes, Local, Same
  <1> QED
    BY <1>1, <1>2, <1>3
    DEF Known, SocketInv, GateInv, VerdictInv, Grows, Unsent, Early, Sending, Over, Healthy

LEMMA TaskKnown ==
  ASSUME AttemptTypes, NEW a \in Attempts, Known(a), TaskStep(a) \/ TaskDies(a)
  PROVE  AttemptTypes' /\ Local(a) /\ Grows(a) /\ Known(a)'
BY ReadTokenKnown, AcquireTimesOutKnown, OpenSendKnown, StartCheckoutKnown, CollectKnown,
   StopCheckoutKnown, CheckoutStoppedKnown, ValidateKnown, TransferTimesOutKnown, TaskEndsKnown,
   RecordVerdictKnown, CompleteKnown
DEF TaskStep

-----------------------------------------------------------------------------
(* The checkout task.                                                      *)
LEMMA SocketKnown ==
  ASSUME AttemptTypes, NEW a \in Attempts, Known(a), SocketStep(a) \/ CheckoutDies(a)
  PROVE  AttemptTypes' /\ Local(a) /\ Grows(a) /\ Known(a)'
  <1>0. /\ UNCHANGED <<outcome, deadline, killed, token, held, task, verdict, tracker>>
    BY DEF SocketStep, NoConnection, SendStart, Write, SendStop, Respond, CheckoutDies,
           requestVars, attemptVars, taskVars
  <1>1. CASE NoConnection(a)
    <2>1. /\ AttemptTypes' /\ Local(a) /\ checkout[a] = "connecting" /\ checkout'[a] = "failed"
          /\ UNCHANGED <<gate, session, written>>
      BY <1>0, <1>1
      DEF NoConnection, CheckoutStep, CheckoutSteps, Results, attemptVars, AttemptTypes, Local, Same
    <2> QED
      BY <1>0, <2>1
      DEF Known, SocketInv, GateInv, VerdictInv, Grows, Unsent, Early, Sending, Over, Healthy
  <1>2. CASE SendStart(a)
    <2>1. /\ AttemptTypes' /\ Local(a) /\ checkout[a] = "connecting" /\ checkout'[a] = "sending"
          /\ session'[a] = IF tracker.attached THEN "started" ELSE session[a]
          /\ UNCHANGED <<gate, written>>
      BY <1>0, <1>2
      DEF SendStart, CheckoutStep, Seen, CheckoutSteps, Evidence, attemptVars, AttemptTypes, Local,
          Same
    <2> QED
      BY <1>0, <2>1
      DEF Known, SocketInv, GateInv, VerdictInv, Grows, Unsent, Early, Sending, Over, Healthy
  <1>3. CASE Write(a)
    <2>1. PICK to \in {"sent", "failed"}, any \in BOOLEAN :
            /\ CheckoutStep(a, "sending", to) /\ written' = [written EXCEPT ![a] = any]
            /\ to = "sent" => any
      BY <1>3 DEF Write
    <2>2. UNCHANGED <<gate, session>>
      BY <1>3 DEF Write, attemptVars
    <2>3. /\ AttemptTypes' /\ Local(a) /\ checkout[a] = "sending" /\ checkout'[a] = to
          /\ written'[a] = any
      BY <1>0, <2>1, <2>2 DEF CheckoutStep, CheckoutSteps, Results, AttemptTypes, Local, Same
    <2> QED
      BY <1>0, <2>1, <2>2, <2>3
      DEF Known, SocketInv, GateInv, VerdictInv, Grows, Unsent, Early, Sending, Over, Healthy
  <1>4. CASE SendStop(a)
    <2>1. PICK g \in {gate[a], Confirmed(gate[a])} : gate' = [gate EXCEPT ![a] = g]
      BY <1>4 DEF SendStop
    <2>2. g \in Gates /\ g.seen \in {gate[a].seen, "confirmed"}
      <3>1. gate[a] \in Gates
        BY Values
      <3>2. Confirmed(gate[a]) \in Gates /\ Confirmed(gate[a]).seen \in {gate[a].seen, "confirmed"}
        BY <3>1, GateOperations, GateSees
      <3> HIDE DEF Confirmed
      <3> QED
        BY <2>1, <3>1, <3>2
    <2>3. /\ AttemptTypes' /\ Local(a) /\ checkout[a] = "sent" /\ checkout'[a] = "receiving"
          /\ session'[a] = IF tracker.attached THEN "confirmed" ELSE session[a]
          /\ gate'[a] = g /\ written' = written
      BY <1>0, <1>4, <2>1, <2>2
      DEF SendStop, CheckoutStep, Seen, CheckoutSteps, Evidence, AttemptTypes, Local, Same
    <2> QED
      BY <1>0, <2>2, <2>3
      DEF Known, SocketInv, GateInv, VerdictInv, Grows, Unsent, Early, Sending, Over, Healthy
  <1>5. CASE Respond(a)
    <2>1. PICK result \in Results : CheckoutStep(a, "receiving", result)
      BY <1>5 DEF Respond
    <2>2. /\ AttemptTypes' /\ Local(a) /\ checkout[a] = "receiving" /\ checkout'[a] = result
          /\ UNCHANGED <<gate, session, written>>
      BY <1>0, <1>5, <2>1 DEF Respond, CheckoutStep, CheckoutSteps, attemptVars, AttemptTypes, Local,
                              Same
    <2> QED
      BY <1>0, <2>1, <2>2
      DEF Known, SocketInv, GateInv, VerdictInv, Grows, Unsent, Early, Sending, Over, Healthy,
          Results
  <1>6. CASE CheckoutDies(a)
    <2>1. /\ AttemptTypes' /\ Local(a) /\ RunsCheckout(a) /\ checkout'[a] = "dead"
          /\ task[a] \in {"stopping", "ended"} /\ UNCHANGED <<gate, session, written>>
      BY <1>0, <1>6 DEF CheckoutDies, CheckoutSteps, attemptVars, AttemptTypes, Local, Same
    <2> QED
      BY <1>0, <2>1
      DEF Known, SocketInv, GateInv, VerdictInv, Grows, Unsent, Early, Sending, Over, Healthy,
          RunsCheckout
  <1> QED
    BY <1>1, <1>2, <1>3, <1>4, <1>5, <1>6 DEF SocketStep

(* The telemetry handler: whoever read its token before it was lost does   *)
(* not find that token again.                                              *)
TrackerInv == ~tracker.attached /\ tracker.ready => tracker.token < MaxRepairs

LEMMA HandlerKnown ==
  ASSUME AttemptTypes, TrackerInv, \A a \in Attempts : Known(a), HandlerStep
  PROVE  AttemptTypes' /\ TrackerInv' /\ \A a \in Attempts : Grows(a) /\ Known(a)'
  <1>1. UNCHANGED <<outcome, gate, deadline, killed, token, held, task, verdict, checkout, session,
                    written>>
    BY DEF HandlerStep, HandlerLost, RepairBegins, RepairEnds, requestVars, attemptVars, taskVars,
           checkoutVars
  <1>2. /\ tracker \in [attached : BOOLEAN, ready : BOOLEAN, token : 0 .. MaxRepairs]
        /\ MaxRepairs \in Nat
    BY BoundsAssumption DEF AttemptTypes
  <1>3. /\ tracker' \in [attached : BOOLEAN, ready : BOOLEAN, token : 0 .. MaxRepairs]
        /\ TrackerInv'
        /\ tracker.token <= tracker'.token
        /\ tracker'.token = tracker.token =>
             \/ tracker'.ready /\ ~tracker.ready
             \/ ~tracker'.attached /\ tracker'.ready = tracker.ready
    <2>1. CASE HandlerLost
      <3>1. tracker' = [tracker EXCEPT !.attached = FALSE] /\ tracker.token < MaxRepairs
        BY <2>1 DEF HandlerLost
      <3>2. ~tracker'.attached /\ tracker'.ready = tracker.ready /\ tracker'.token = tracker.token
        BY <1>2, <3>1
      <3>3. tracker' \in [attached : BOOLEAN, ready : BOOLEAN, token : 0 .. MaxRepairs]
        BY <1>2, <3>1
      <3>4. tracker.token \in 0 .. MaxRepairs
        BY <1>2
      <3> QED
        BY <1>2, <3>1, <3>2, <3>3, <3>4 DEF TrackerInv
    <2>2. CASE RepairBegins
      <3>1. tracker' = [tracker EXCEPT !.ready = FALSE, !.token = @ + 1]
            /\ ~tracker.attached /\ tracker.ready
        BY <2>2 DEF RepairBegins
      <3>2. tracker.token < MaxRepairs
        BY <3>1 DEF TrackerInv
      <3>3. tracker.token \in Nat /\ tracker.token + 1 \in 0 .. MaxRepairs
        BY <1>2, <3>2
      <3>4. ~tracker'.attached /\ ~tracker'.ready /\ tracker'.token = tracker.token + 1
        BY <1>2, <3>1
      <3>5. tracker' \in [attached : BOOLEAN, ready : BOOLEAN, token : 0 .. MaxRepairs]
        BY <1>2, <3>1, <3>3
      <3>6. tracker.token <= tracker'.token /\ tracker'.token # tracker.token
        BY <3>3, <3>4
      <3> QED
        BY <3>4, <3>5, <3>6 DEF TrackerInv
    <2>3. CASE RepairEnds
      <3>1. tracker' = [tracker EXCEPT !.attached = TRUE, !.ready = TRUE] /\ ~tracker.ready
        BY <2>3 DEF RepairEnds
      <3>2. tracker'.attached /\ tracker'.ready /\ tracker'.token = tracker.token
        BY <1>2, <3>1
      <3>3. tracker' \in [attached : BOOLEAN, ready : BOOLEAN, token : 0 .. MaxRepairs]
        BY <1>2, <3>1
      <3>4. tracker.token \in 0 .. MaxRepairs
        BY <1>2
      <3> QED
        BY <1>2, <3>1, <3>2, <3>3, <3>4 DEF TrackerInv
    <2> QED
      BY <2>1, <2>2, <2>3 DEF HandlerStep
  <1>4. AttemptTypes'
    BY <1>1, <1>3 DEF AttemptTypes
  <1>5. ASSUME NEW a \in Attempts PROVE SocketInv(a)'
    <2>1. token[a] \in 0 .. MaxRepairs /\ SocketInv(a)
      BY DEF AttemptTypes, Known
    <2>2. token[a] <= tracker'.token /\ (token[a] = tracker'.token => tracker'.ready /\ ~tracker'.attached)
      BY <1>2, <1>3, <2>1 DEF SocketInv
    <2> QED
      BY <1>1, <2>1, <2>2 DEF SocketInv, Healthy
  <1>6. \A a \in Attempts : Grows(a) /\ GateInv(a)' /\ VerdictInv(a)'
    BY <1>1 DEF Grows, Known, GateInv, VerdictInv, Unsent
  <1> QED
    BY <1>3, <1>4, <1>5, <1>6 DEF Known

(* The admission worker answers a task that waits for capacity, or for the *)
(* transfer of its lease.                                                  *)
LEMMA ServeKnown ==
  ASSUME AttemptTypes, \A a \in Attempts : Known(a), Serve
  PROVE  AttemptTypes' /\ \A a \in Attempts : Grows(a) /\ Known(a)'
  <1>1. UNCHANGED <<outcome, gate, deadline, killed, token, checkout, session, written, tracker>>
    BY DEF Serve, attemptVars, checkoutVars
  <1>2. CASE UNCHANGED <<task, held, verdict>>
    BY <1>1, <1>2, KnownStays DEF AttemptTypes, Same, Grows
  <1>3. ASSUME NEW x, task[x] = "acquiring", task' = [task EXCEPT ![x] = "admitted"],
               held' = [held EXCEPT ![x] = TRUE], verdict' = verdict
        PROVE  AttemptTypes' /\ \A a \in Attempts : Grows(a) /\ Known(a)'
    <2>1. AttemptTypes' /\ \A b \in Attempts : b # x => Same(b)
      BY <1>1, <1>3 DEF AttemptTypes, TaskSteps, Same
    <2>2. ASSUME x \in Attempts PROVE Known(x)'
      <3>1. task'[x] = "admitted"
        BY <1>3, <2>2 DEF AttemptTypes
      <3> QED
        BY <1>1, <1>3, <2>2, <3>1
        DEF Known, SocketInv, GateInv, VerdictInv, Unsent, Early, Sending, Over, Healthy
    <2> QED
      BY <1>1, <1>3, <2>1, <2>2, KnownStays DEF Grows
  <1>4. ASSUME NEW x, NEW from \in {"acquiring", "retaining"}, NEW v, Step(x, from, "judged"),
               Judge(x, v), held' = held,
               \/ from = "acquiring" /\ v = Predispatch(x)
               \/ from = "retaining" /\ v = [verdict[x] EXCEPT !.leased = TRUE]
        PROVE  AttemptTypes' /\ \A a \in Attempts : Grows(a) /\ Known(a)'
    <2>1. CASE x \notin Attempts
      <3>1. task' = task /\ verdict' = verdict
        BY <1>4, <2>1 DEF Step, Judge, AttemptTypes
      <3> QED
        BY <1>2, <1>4, <3>1
    <2>2. CASE x \in Attempts
      <3>1. /\ v \in Verdicts /\ v.kind # "none"
            /\ v.kind = "predispatch" => Unsent(x)
            /\ v.kind = "transport" => v.certainty # "not_dispatched"
            /\ v.kind \notin {"predispatch", "transport"} => v.certainty = "dispatched"
            /\ v.certainty = "dispatched" => written[x]
        <4>0. Known(x) /\ task[x] = from
          BY <1>4, <2>2 DEF Step
        <4>1. CASE from = "acquiring"
          <5>1. Unsent(x)
            BY <4>0, <4>1 DEF Known, SocketInv, Early, Unsent
          <5>2. v \in Verdicts /\ v.kind = "predispatch" /\ v.certainty = "not_dispatched"
            BY <1>4, <2>2, <4>1, Judgements DEF TaskKinds, Certainties
          <5> QED
            BY <5>1, <5>2
        <4>2. CASE from = "retaining"
          <5>1. written[x] /\ verdict[x].kind \in ResponseKinds
                /\ verdict[x].certainty = "dispatched"
            BY <4>0, <4>2 DEF Known, VerdictInv, ResponseKinds
          <5>2. v \in Verdicts /\ v.kind = verdict[x].kind /\ v.certainty = verdict[x].certainty
            BY <1>4, <2>2, <4>2, Values DEF Verdicts
          <5> QED
            BY <5>1, <5>2 DEF ResponseKinds
        <4> QED
          BY <4>1, <4>2
      <3>2. from \in TaskSteps \ {"none", "ended"}
        BY DEF TaskSteps
      <3>3. AttemptTypes' /\ Local(x) /\ Grows(x) /\ Known(x)'
        BY <1>1, <1>4, <2>2, <3>1, <3>2, JudgeStep
      <3>4. \A b \in Attempts \ {x} : Grows(b) /\ Known(b)'
        BY <1>1, <3>3, KnownStays DEF Local, Same, Grows
      <3> QED
        BY <3>3, <3>4
    <2> QED
      BY <2>1, <2>2
  <1>5. ASSUME NEW x, NEW p, Grant(x, p) PROVE AttemptTypes' /\ \A a \in Attempts : Grows(a) /\ Known(a)'
    BY <1>2, <1>3, <1>5 DEF Grant
  <1>6. ASSUME NEW x, Refuse(x) PROVE AttemptTypes' /\ \A a \in Attempts : Grows(a) /\ Known(a)'
    <2>1. CASE task[x] = "acquiring"
      BY <1>4, <1>6, <2>1 DEF Refuse, Step
    <2>2. CASE task[x] # "acquiring"
      BY <1>2, <1>6, <2>2 DEF Refuse
    <2> QED
      BY <2>1, <2>2
  <1>7. ASSUME NEW x, NEW p, Retain(x, p) PROVE AttemptTypes' /\ \A a \in Attempts : Grows(a) /\ Known(a)'
    <2>1. CASE task[x] = "retaining" /\ p = OwnerOf(RequestOf(x))
      BY <1>4, <1>7, <2>1 DEF Retain, Step
    <2>2. CASE ~(task[x] = "retaining" /\ p = OwnerOf(RequestOf(x)))
      BY <1>2, <1>7, <2>2 DEF Retain
    <2> QED
      BY <2>1, <2>2
  <1>8. ASSUME NEW freed, FreeLeases(freed) PROVE AttemptTypes' /\ \A a \in Attempts : Grows(a) /\ Known(a)'
    BY <1>2, <1>8 DEF FreeLeases
  <1> QED
    BY <1>5, <1>6, <1>7, <1>8 DEF Serve

-----------------------------------------------------------------------------
(* What a request process keeps.  Mail of a completion is about a task     *)
(* that has judged, and a request that starts or decides has none left.    *)
Completed(s) == \E i \in DOMAIN s : s[i] = "completion"

MailInv(r) ==
  /\ phase[r] \in {"ready", "deciding"} => mail[r] = <<>>
  /\ Completed(mail[r]) => verdict[Now(r)].kind # "none"

(* A request concludes an attempt before it settles, and turns from one    *)
(* to the next only when the last was no answer, and as long as the earlier *)
(* ones left it a dispatch.                                                *)
DecidedInv(r) == phase[r] \in {"settling", "finishing", "deciding"} => Committed(Now(r))

Before(r) == {i \in 1 .. (try[r] - 1) : Dispatched(<<r, i>>)}

RetryInv(r) ==
  /\ \A i \in 1 .. Tries : i < try[r] =>
       Committed(<<r, i>>) /\ outcome[<<r, i>>].kind \notin FinalKinds(r)
  /\ Cardinality(Before(r)) < DispatchLimit(r)

(* A fact claims of the dispatch what the gate proves and the socket saw.  *)
True(a, fact) ==
  /\ fact # NoFact /\ fact.certainty = "not_dispatched" => gate[a].seen = "not_started"
  /\ fact.certainty = "dispatched" => written[a]
  /\ fact.kind = "predispatch" => fact.certainty = "not_dispatched"

OutcomeInv(a) == True(a, outcome[a])

AttemptsInv == AttemptTypes /\ TrackerInv /\ \A a \in Attempts : Known(a)
RequestsInv == RequestTypes /\ \A r \in Requests : MailInv(r) /\ DecidedInv(r) /\ RetryInv(r)
OutcomesInv == \A a \in Attempts : OutcomeInv(a)

LEMMA MailAppend ==
  ASSUME NEW s \in Seq(Messages), NEW message \in Messages
  PROVE  /\ Append(s, message) \in Seq(Messages)
         /\ message # "completion" /\ Completed(Append(s, message)) => Completed(s)
  <1>1. Append(s, message) \in Seq(Messages) /\ Len(Append(s, message)) = Len(s) + 1
        /\ \A i \in 1 .. Len(s) : Append(s, message)[i] = s[i]
        /\ Append(s, message)[Len(s) + 1] = message
        /\ Len(s) \in Nat
    OBVIOUS
  <1>2. DOMAIN s = 1 .. Len(s) /\ DOMAIN Append(s, message) = 1 .. Len(s) + 1
    BY <1>1
  <1> QED
    BY <1>1, <1>2 DEF Completed

LEMMA MailTail ==
  ASSUME NEW s \in Seq(Messages), s # <<>>
  PROVE  /\ Tail(s) \in Seq(Messages) /\ Head(s) \in Messages
         /\ Completed(Tail(s)) => Completed(s)
         /\ Head(s) = "completion" => Completed(s)
  <1>1. /\ Tail(s) \in Seq(Messages) /\ Len(Tail(s)) = Len(s) - 1 /\ Len(s) \in Nat /\ Len(s) > 0
        /\ \A i \in 1 .. Len(s) - 1 : Tail(s)[i] = s[i + 1]
        /\ Head(s) = s[1] /\ DOMAIN s = 1 .. Len(s)
        /\ Head(s) \in Messages
    OBVIOUS
  <1>2. DOMAIN Tail(s) = 1 .. Len(s) - 1
    BY <1>1
  <1> QED
    BY <1>1, <1>2 DEF Completed

(* What a request concludes is true.                                       *)
LEMMA ConclusionsAreTrue ==
  ASSUME AttemptTypes, NEW a \in Attempts, Known(a), NEW fact,
         \/ fact \in {DeadlineFact(a), ExitFact(a), CancelledFact(a),
                      Fact("cancelled", Snapshot(a), FALSE)}
         \/ fact \in {LateFact(a), TimelyFact(a)} /\ verdict[a].kind # "none"
  PROVE  fact \in Facts /\ fact.kind # "none" /\ True(a, fact)
  <1>0. gate[a].seen = "confirmed" => written[a]
    BY DEF Known, GateInv
  <1>1. CASE fact \in {DeadlineFact(a), ExitFact(a), CancelledFact(a),
                       Fact("cancelled", Snapshot(a), FALSE)}
    BY <1>0, <1>1, Conclusions DEF True
  <1>2. CASE fact = LateFact(a)
    <2>1. /\ fact \in Facts /\ fact.kind = "deadline"
          /\ fact.certainty = Stronger(Snapshot(a), verdict[a].certainty)
      BY <1>2, Conclusions
    <2>2. /\ Snapshot(a) \in Certainties /\ verdict[a].certainty \in Certainties
          /\ Snapshot(a) = "not_dispatched" => gate[a].seen = "not_started"
          /\ Snapshot(a) = "dispatched" => written[a]
          /\ verdict[a].certainty = "dispatched" => written[a]
      BY <1>0, SnapshotType DEF Known, VerdictInv
    <2>3. /\ fact.certainty = "not_dispatched" => Snapshot(a) = "not_dispatched"
          /\ fact.certainty = "dispatched" =>
               Snapshot(a) = "dispatched" \/ verdict[a].certainty = "dispatched"
      BY <2>1, <2>2, Certain DEF Evidence
    <2> QED
      BY <2>1, <2>2, <2>3 DEF True
  <1>3. CASE fact = TimelyFact(a) /\ verdict[a].kind # "none"
    <2> DEFINE v == verdict[a]
               s == Snapshot(a)
    <2>1. /\ s \in Certainties /\ v.certainty \in Certainties /\ v.kind \in TaskKinds
          /\ s = "not_dispatched" => gate[a].seen = "not_started"
          /\ s = "dispatched" => written[a]
          /\ v.certainty = "dispatched" => written[a]
          /\ v.kind = "transport" => v.certainty # "not_dispatched"
          /\ v.kind \notin {"predispatch", "transport"} => v.certainty = "dispatched"
      BY <1>0, <1>3, SnapshotType DEF Known, VerdictInv
    <2>2. fact \in Facts
      BY <1>3, Conclusions
    <2>3. CASE v.kind = "predispatch"
      <3>1. fact = Fact(IF s = "not_dispatched" THEN "predispatch" ELSE "transport", s, FALSE)
        BY <1>3, <2>3 DEF TimelyFact
      <3>2. fact.certainty = s
            /\ fact.kind = IF s = "not_dispatched" THEN "predispatch" ELSE "transport"
        BY <3>1 DEF Fact
      <3> HIDE DEF s
      <3> QED
        BY <2>1, <2>2, <3>2 DEF True
    <2>4. CASE v.kind = "transport"
      <3>1. fact = Fact("transport", IF s = "dispatched" THEN "dispatched" ELSE v.certainty, FALSE)
        BY <1>3, <2>4 DEF TimelyFact
      <3>2. fact.kind = "transport"
            /\ fact.certainty = IF s = "dispatched" THEN "dispatched" ELSE v.certainty
        BY <3>1 DEF Fact
      <3> HIDE DEF s, v
      <3> QED
        BY <2>1, <2>2, <2>4, <3>2 DEF True
    <2>5. CASE v.kind \notin {"predispatch", "transport"}
      <3>1. fact.kind = v.kind /\ fact.certainty = "dispatched"
        BY <1>3, <2>5 DEF TimelyFact, Fact
      <3> QED
        BY <2>1, <2>2, <2>5, <3>1 DEF True, TaskKinds, ResponseKinds
    <2> QED
      BY <2>3, <2>4, <2>5
  <1> QED
    BY <1>1, <1>2, <1>3

(* A completion, when it is taken, is that of the present attempt.         *)
LEMMA CompletionIsTrue ==
  ASSUME AttemptTypes, NEW a \in Attempts, Known(a), verdict[a].kind # "none", TakeCompletion(a)
  PROVE  \E fact \in Facts : Conclude(a, fact) /\ fact.kind # "none" /\ True(a, fact)
  <1>1. PICK fact \in {LateFact(a), DeadlineFact(a), TimelyFact(a)} : Conclude(a, fact)
    BY DEF TakeCompletion
  <1> QED
    BY <1>1, ConclusionsAreTrue

-----------------------------------------------------------------------------
(* Steps of a request and of its surroundings, as far as its attempts see  *)
(* them: a task may start, a gate may be shut, clocks and kills run.       *)
Starts ==
  /\ task' \in [Attempts -> TaskSteps]
  /\ \A a \in Attempts : task'[a] # task[a] => task[a] = "none" /\ task'[a] = "tracking"

RequestOnly ==
  /\ UNCHANGED <<token, held, verdict, checkoutVars, tracker>> /\ Starts
  /\ deadline' \in [Attempts -> {"ahead", "passed", "signalled"}]
  /\ killed' \in [Attempts -> BOOLEAN]

LEMMA RequestOnlyStep ==
  ASSUME AttemptsInv, RequestOnly, outcome' \in [Attempts -> Facts],
         gate' \in [Attempts -> Gates], \A a \in Attempts : gate'[a].seen = gate[a].seen
  PROVE  AttemptsInv' /\ \A a \in Attempts : Grows(a)
  <1>1. AttemptTypes' /\ TrackerInv'
    BY DEF AttemptsInv, AttemptTypes, TrackerInv, RequestOnly, Starts, checkoutVars
  <1>2. ASSUME NEW a \in Attempts PROVE Grows(a) /\ Known(a)'
    <2>1. Known(a) /\ UNCHANGED <<token, held, verdict, checkout, session, written, tracker>>
          /\ gate'[a].seen = gate[a].seen
          /\ (task'[a] # task[a] => task[a] = "none" /\ task'[a] = "tracking")
      BY DEF AttemptsInv, RequestOnly, Starts, checkoutVars
    <2> QED
      BY <2>1 DEF Known, SocketInv, GateInv, VerdictInv, Grows, Unsent, Early, Sending, Over,
                  Healthy
  <1> QED
    BY <1>1, <1>2 DEF AttemptsInv

(* Outcomes stay true.                                                     *)
LEMMA OutcomesStay ==
  ASSUME OutcomesInv, Kept, outcome' = outcome, \A a \in Attempts : Grows(a)
  PROVE  OutcomesInv'
  <1>1. ASSUME NEW a \in Attempts PROVE OutcomeInv(a)'
    <2>1. OutcomeInv(a) /\ Grows(a) /\ outcome'[a] = outcome[a]
      BY DEF OutcomesInv
    <2>2. CASE Committed(a)
      BY <2>1, <2>2 DEF OutcomeInv, True, Grows, Kept, Committed
    <2>3. CASE outcome[a] = NoFact
      <3>1. NoFact.kind = "none" /\ NoFact.certainty = "not_dispatched"
        BY DEF NoFact, Fact
      <3> QED
        BY <2>1, <2>3, <3>1 DEF OutcomeInv, True
    <2> QED
      BY <2>2, <2>3 DEF Committed
  <1> QED
    BY <1>1 DEF OutcomesInv

(* A request that commits a true fact.                                     *)
LEMMA ConcludesTruly ==
  ASSUME AttemptsInv, OutcomesInv, RequestOnly, NEW a \in Attempts, NEW fact \in Facts,
         fact.kind # "none", True(a, fact), Conclude(a, fact)
  PROVE  AttemptsInv' /\ OutcomesInv' /\ Committed(a)'
  <1>1. /\ gate[a] \in Gates /\ Shut(gate[a]) \in Gates /\ Shut(gate[a]).seen = gate[a].seen
        /\ outcome \in [Attempts -> Facts] /\ gate \in [Attempts -> Gates]
    <2>1. gate[a] \in Gates /\ outcome \in [Attempts -> Facts] /\ gate \in [Attempts -> Gates]
      BY DEF AttemptsInv, AttemptTypes
    <2> QED
      BY <2>1, GateOperations, GateSees
  <1>2. gate' = [gate EXCEPT ![a] = Shut(gate[a])] /\ outcome' = [outcome EXCEPT ![a] = fact]
    BY DEF Conclude
  <1> HIDE DEF Shut
  <1>3. /\ outcome' \in [Attempts -> Facts] /\ gate' \in [Attempts -> Gates]
        /\ \A b \in Attempts : gate'[b].seen = gate[b].seen
        /\ outcome'[a] = fact
        /\ \A b \in Attempts \ {a} : outcome'[b] = outcome[b]
    BY <1>1, <1>2
  <1>4. AttemptsInv' /\ UNCHANGED written
    BY <1>3, RequestOnlyStep DEF RequestOnly, checkoutVars
  <1>5. NoFact.kind = "none"
    BY DEF NoFact, Fact
  <1>6. OutcomesInv'
    BY <1>3, <1>4 DEF OutcomesInv, OutcomeInv, True
  <1> QED
    BY <1>3, <1>4, <1>5, <1>6 DEF Committed

(* A step that concludes nothing.                                          *)
LEMMA ConcludesNothing ==
  ASSUME AttemptsInv, OutcomesInv, Kept, RequestOnly, UNCHANGED outcome,
         gate' = gate \/ \E a \in Attempts : gate' = [gate EXCEPT ![a] = Shut(@)]
  PROVE  AttemptsInv' /\ OutcomesInv'
  <1>1. gate \in [Attempts -> Gates] /\ outcome' \in [Attempts -> Facts]
    BY DEF AttemptsInv, AttemptTypes
  <1>2. gate' \in [Attempts -> Gates] /\ \A b \in Attempts : gate'[b].seen = gate[b].seen
    <2>1. CASE gate' = gate
      BY <1>1, <2>1
    <2>2. ASSUME NEW a \in Attempts, gate' = [gate EXCEPT ![a] = Shut(gate[a])]
          PROVE  gate' \in [Attempts -> Gates] /\ \A b \in Attempts : gate'[b].seen = gate[b].seen
      <3>1. Shut(gate[a]) \in Gates /\ Shut(gate[a]).seen = gate[a].seen
        BY <1>1, GateOperations, GateSees
      <3> HIDE DEF Shut
      <3> QED
        BY <1>1, <2>2, <3>1
    <2> QED
      BY <2>1, <2>2
  <1> QED
    BY <1>1, <1>2, RequestOnlyStep, OutcomesStay

LEMMA StartAttemptTrue ==
  ASSUME Inv, Kept, NotStarted, AttemptsInv, OutcomesInv, NEW r \in Requests, StartAttempt(r)
  PROVE  AttemptsInv' /\ OutcomesInv' /\ (phase'[r] = "deciding" => Committed(Now(r))')
  <1> DEFINE a == Now(r)
  <1>0. /\ a \in Attempts /\ Now(r)' = a /\ task \in [Attempts -> TaskSteps] /\ task[a] = "none"
        /\ AttemptTypes /\ Known(a) /\ phase \in [Requests -> Phases]
    BY PresentAttempt DEF AttemptsInv, AttemptTypes, StartAttempt, NotStarted, Now, Inv, Shape
  <1>1. CASE UNCHANGED task /\ \E fact \in {DeadlineFact(a), Fact("cancelled", Snapshot(a), FALSE)} : Conclude(a, fact)
    <2>1. PICK fact \in {DeadlineFact(a), Fact("cancelled", Snapshot(a), FALSE)} : Conclude(a, fact)
      BY <1>1
    <2>2. fact \in Facts /\ fact.kind # "none" /\ True(a, fact)
      BY <1>0, <2>1, ConclusionsAreTrue
    <2>3. RequestOnly
      BY <1>0, <1>1 DEF RequestOnly, Starts, StartAttempt, AttemptTypes, checkoutVars
    <2> HIDE DEF a
    <2> QED
      BY <1>0, <2>1, <2>2, <2>3, ConcludesTruly
  <1>2. CASE task' = [task EXCEPT ![a] = "tracking"] /\ UNCHANGED <<outcome, gate>> /\ Goto(r, "waiting")
    <2>1. RequestOnly
      <3>1. task' \in [Attempts -> TaskSteps] /\ Starts
        BY <1>0, <1>2 DEF Starts, TaskSteps
      <3> QED
        BY <1>0, <3>1 DEF RequestOnly, StartAttempt, AttemptTypes
    <2>2. phase'[r] = "waiting"
      BY <1>0, <1>2 DEF Goto
    <2> QED
      BY <1>2, <2>1, <2>2, ConcludesNothing
  <1> QED
    BY <1>1, <1>2 DEF StartAttempt

LEMMA ReceiveTrue ==
  ASSUME Inv, Kept, AttemptsInv, OutcomesInv, RequestTypes, NEW r \in Requests, MailInv(r),
         Receive(r)
  PROVE  AttemptsInv' /\ OutcomesInv' /\ (phase'[r] = "finishing" => Committed(Now(r))')
  <1> DEFINE a == Now(r)
  <1>0. /\ a \in Attempts /\ Now(r)' = a /\ AttemptTypes /\ Known(a)
        /\ phase \in [Requests -> Phases]
    BY PresentAttempt DEF AttemptsInv, Receive, Now, Inv, Shape
  <1>1. RequestOnly
    BY <1>0 DEF RequestOnly, Starts, Receive, AttemptTypes, taskVars
  <1>2. CASE Goto(r, "draining")
    <2>1. /\ gate' = [gate EXCEPT ![a] = Shut(@)] /\ UNCHANGED outcome
          /\ phase'[r] = "draining"
      BY <1>0, <1>2 DEF Receive, Goto
    <2> QED
      BY <1>0, <1>1, <2>1, ConcludesNothing
  <1>3. CASE ~Goto(r, "draining")
    <2>1. \E fact \in Facts : Conclude(a, fact) /\ fact.kind # "none" /\ True(a, fact)
      <3>1. CASE Head(mail[r]) = "completion" /\ TakeCompletion(a)
        <4>1. mail[r] \in Seq(Messages) /\ mail[r] # <<>>
          BY DEF RequestTypes, Receive
        <4>2. verdict[a].kind # "none"
          BY <3>1, <4>1, MailTail DEF MailInv
        <4> QED
          BY <1>0, <3>1, <4>2, CompletionIsTrue
      <3>2. CASE TakeExit(a)
        BY <1>0, <3>2, ConclusionsAreTrue DEF TakeExit
      <3>3. CASE Conclude(a, DeadlineFact(a))
        BY <1>0, <3>3, ConclusionsAreTrue
      <3> QED
        BY <1>3, <3>1, <3>2, <3>3 DEF Receive
    <2> HIDE DEF a
    <2> QED
      BY <1>0, <1>1, <2>1, ConcludesTruly
  <1> QED
    BY <1>2, <1>3

LEMMA DrainTrue ==
  ASSUME Inv, Kept, AttemptsInv, OutcomesInv, RequestTypes, NEW r \in Requests, MailInv(r),
         Drain(r)
  PROVE  AttemptsInv' /\ OutcomesInv'
         /\ (phase'[r] \in {"settling", "finishing"} => Committed(Now(r))')
  <1> DEFINE a == Now(r)
  <1>0. /\ a \in Attempts /\ Now(r)' = a /\ AttemptTypes /\ Known(a)
        /\ phase \in [Requests -> Phases] /\ phase[r] = "draining"
    BY PresentAttempt DEF AttemptsInv, Drain, Now, Inv, Shape
  <1>1. RequestOnly
    BY <1>0 DEF RequestOnly, Starts, Drain, AttemptTypes, taskVars
  <1>2. CASE UNCHANGED <<outcome, gate, phase>>
    BY <1>0, <1>1, <1>2, ConcludesNothing
  <1>3. CASE ~UNCHANGED <<outcome, gate, phase>>
    <2>1. \E fact \in Facts : Conclude(a, fact) /\ fact.kind # "none" /\ True(a, fact)
      <3>1. CASE Head(mail[r]) = "completion" /\ TakeCompletion(a)
        <4>1. mail[r] \in Seq(Messages) /\ mail[r] # <<>>
          BY DEF RequestTypes, Drain
        <4>2. verdict[a].kind # "none"
          BY <3>1, <4>1, MailTail DEF MailInv
        <4> QED
          BY <1>0, <3>1, <4>2, CompletionIsTrue
      <3>2. CASE TakeExit(a)
        BY <1>0, <3>2, ConclusionsAreTrue DEF TakeExit
      <3>3. CASE Conclude(a, CancelledFact(a))
        BY <1>0, <3>3, ConclusionsAreTrue
      <3> QED
        BY <1>3, <3>1, <3>2, <3>3 DEF Drain
    <2> HIDE DEF a
    <2> QED
      BY <1>0, <1>1, <2>1, ConcludesTruly
  <1> QED
    BY <1>2, <1>3

LEMMA RequestTrue ==
  ASSUME Inv, Kept, NotStarted, AttemptsInv, OutcomesInv, RequestTypes, NEW r \in Requests,
         MailInv(r),
         RequestStep(r) \/ Accept(r) \/ DeadlinePasses(r) \/ CutoffFires(r)
           \/ KillOwner(r) \/ CallerDies(r) \/ ParentStops(r)
  PROVE  AttemptsInv' /\ OutcomesInv'
  <1>1. CASE StartAttempt(r) \/ Receive(r) \/ Drain(r)
    BY <1>1, StartAttemptTrue, ReceiveTrue, DrainTrue
  <1>2. CASE \/ Settle(r) \/ Finish(r) \/ Decide(r) \/ Answer(r) \/ Undeliverable(r) \/ Accept(r)
             \/ DeadlinePasses(r) \/ CutoffFires(r) \/ KillOwner(r) \/ CallerDies(r)
             \/ ParentStops(r)
    <2>1. UNCHANGED <<outcome, gate, task, token, held, verdict, checkoutVars, tracker>>
      BY <1>2 DEF Settle, Finish, Decide, Answer, Undeliverable, Accept, DeadlinePasses,
                  CutoffFires, KillOwner, CallerDies, ParentStops, attemptVars, taskVars
    <2>2. task \in [Attempts -> TaskSteps] /\ killed \in [Attempts -> BOOLEAN]
          /\ deadline \in [Attempts -> {"ahead", "passed", "signalled"}]
      BY DEF AttemptsInv, AttemptTypes
    <2>3. deadline' \in [Attempts -> {"ahead", "passed", "signalled"}]
      <3>1. \/ UNCHANGED deadline
            \/ \E d \in {"passed", "signalled"} : deadline' = [deadline EXCEPT ![Now(r)] = d]
        BY <1>2 DEF Settle, Finish, Decide, Answer, Undeliverable, Accept, DeadlinePasses,
                    CutoffFires, KillOwner, CallerDies, ParentStops, attemptVars
      <3> QED
        BY <2>2, <3>1
    <2>4. killed' \in [Attempts -> BOOLEAN]
      <3>1. \/ UNCHANGED killed
            \/ killed' = [killed EXCEPT ![Now(r)] = RunsTask(Now(r))]
        BY <1>2 DEF Settle, Finish, Decide, Answer, Undeliverable, Accept, DeadlinePasses,
                    CutoffFires, KillOwner, CallerDies, ParentStops, taskVars
      <3>2. RunsTask(Now(r)) \in BOOLEAN
        BY DEF RunsTask
      <3> QED
        BY <2>2, <3>1, <3>2
    <2>5. RequestOnly
      BY <2>1, <2>2, <2>3, <2>4 DEF RequestOnly, Starts
    <2> QED
      BY <2>1, <2>5, ConcludesNothing
  <1> QED
    BY <1>1, <1>2 DEF RequestStep

-----------------------------------------------------------------------------
(* How a request moves: its phase and its mailbox.                         *)
Moves(r, p, m) ==
  /\ phase' = [phase EXCEPT ![r] = p] /\ mail' = [mail EXCEPT ![r] = m]
  /\ p \in {"ready", "deciding"} => m = <<>>
  /\ Completed(m) => Completed(mail[r])

LEMMA RequestMoves ==
  ASSUME RequestTypes, NEW r \in Requests, MailInv(r),
         RequestStep(r) \/ Accept(r) \/ DeadlinePasses(r) \/ CutoffFires(r)
           \/ KillOwner(r) \/ CallerDies(r) \/ ParentStops(r)
  PROVE  \E p \in Phases, m \in Seq(Messages) : Moves(r, p, m)
  <1> DEFINE s == mail[r]
  <1>1. /\ s \in Seq(Messages) /\ phase[r] \in Phases
        /\ phase = [phase EXCEPT ![r] = phase[r]] /\ mail = [mail EXCEPT ![r] = s]
        /\ phase[r] \in {"ready", "deciding"} => s = <<>>
    BY DEF RequestTypes, MailInv
  <1>2. s # <<>> => /\ Tail(s) \in Seq(Messages) /\ (Completed(Tail(s)) => Completed(s))
                    /\ Append(Tail(s), "marker") \in Seq(Messages)
                    /\ Completed(Append(Tail(s), "marker")) => Completed(s)
    BY <1>1, MailTail, MailAppend DEF Messages
  <1>3. \A message \in {"cutoff", "caller_down", "shutdown"} :
          /\ Append(s, message) \in Seq(Messages)
          /\ Completed(Append(s, message)) => Completed(s)
    BY <1>1, MailAppend DEF Messages
  <1>4. <<>> \in Seq(Messages) /\ ~Completed(<<>>)
    BY DEF Completed
  <1>5. \A p \in {"waiting", "draining", "settling", "finishing", "deciding", "done",
                  "delivering", "gone", "ready"} : p \in Phases
    BY DEF Phases
  <1> HIDE DEF s
  <1>6. CASE StartAttempt(r)
    <2>1. PICK p \in {"deciding", "waiting"} : phase' = [phase EXCEPT ![r] = p]
      BY <1>6 DEF StartAttempt, Goto
    <2>2. Moves(r, p, s)
      BY <1>1, <1>6, <2>1 DEF StartAttempt, Moves, s
    <2> QED
      BY <1>1, <1>5, <2>2
  <1>7. CASE Receive(r)
    <2>1. PICK p \in {"finishing", "draining"}, m \in {Tail(s), Append(Tail(s), "marker")} :
            phase' = [phase EXCEPT ![r] = p] /\ mail' = [mail EXCEPT ![r] = m] /\ s # <<>>
      BY <1>7 DEF Receive, Goto, s
    <2>2. Moves(r, p, m) /\ m \in Seq(Messages)
      BY <1>2, <2>1 DEF Moves, s
    <2> QED
      BY <1>5, <2>2
  <1>8. CASE Drain(r) \/ Settle(r)
    <2>1. PICK p \in {"settling", "finishing", phase[r]} :
            phase' = [phase EXCEPT ![r] = p] /\ mail' = [mail EXCEPT ![r] = Tail(s)] /\ s # <<>>
      BY <1>1, <1>8 DEF Drain, Settle, Goto, s
    <2>2. phase[r] \notin {"ready", "deciding"}
      BY <1>8 DEF Drain, Settle
    <2>3. Moves(r, p, Tail(s)) /\ Tail(s) \in Seq(Messages)
      BY <1>2, <2>1, <2>2 DEF Moves, s
    <2> QED
      BY <1>1, <1>5, <2>1, <2>3
  <1>9. CASE Finish(r)
    <2>1. PICK p \in {"gone", "deciding"} : phase' = [phase EXCEPT ![r] = p]
      BY <1>9 DEF Finish, Goto
    <2>2. Moves(r, p, <<>>)
      BY <1>4, <1>9, <2>1 DEF Finish, Moves
    <2> QED
      BY <1>4, <1>5, <2>2
  <1>10. CASE Decide(r)
    <2>1. PICK p \in {"ready", "done"} : phase' = [phase EXCEPT ![r] = p]
      BY <1>10, DecideTurns DEF Goto
    <2>2. Moves(r, p, s)
      BY <1>1, <1>10, <2>1 DEF Decide, Moves, s
    <2> QED
      BY <1>1, <1>5, <2>2
  <1>11. CASE Answer(r) \/ Undeliverable(r) \/ Accept(r) \/ KillOwner(r)
    <2>1. PICK p \in {"gone", "delivering"} : phase' = [phase EXCEPT ![r] = p]
      BY <1>11 DEF Answer, Undeliverable, Accept, KillOwner, Goto
    <2>2. Moves(r, p, s)
      BY <1>1, <1>11, <2>1 DEF Answer, Undeliverable, Accept, KillOwner, Moves, s
    <2> QED
      BY <1>1, <1>5, <2>2
  <1>12. CASE DeadlinePasses(r)
    <2>1. Moves(r, phase[r], s)
      BY <1>1, <1>12 DEF DeadlinePasses, requestVars, Moves, s
    <2> QED
      BY <1>1, <2>1
  <1>13. CASE CutoffFires(r) \/ CallerDies(r)
    <2>1. PICK m \in {s, Append(s, "cutoff"), Append(s, "caller_down")} :
            mail' = [mail EXCEPT ![r] = m] /\ (m = s \/ phase[r] \in Working)
      BY <1>1, <1>13 DEF CutoffFires, CallerDies, Post, s
    <2>2. phase' = phase
      BY <1>13 DEF CutoffFires, CallerDies
    <2>3. Moves(r, phase[r], m) /\ m \in Seq(Messages)
      BY <1>1, <1>3, <2>1, <2>2 DEF Moves, Working, s
    <2> QED
      BY <1>1, <2>3
  <1>14. CASE ParentStops(r)
    <2>1. CASE /\ mail' = [mail EXCEPT ![r] = Append(s, "shutdown")] /\ phase' = phase
               /\ phase[r] \in Working \cup {"finishing"}
      <3>1. Moves(r, phase[r], Append(s, "shutdown"))
        BY <1>1, <1>3, <2>1 DEF Moves, Working, s
      <3> QED
        BY <1>1, <1>3, <3>1
    <2>2. CASE mail' = mail /\ phase' = [phase EXCEPT ![r] = "gone"]
      <3>1. Moves(r, "gone", s)
        BY <1>1, <2>2 DEF Moves, s
      <3> QED
        BY <1>1, <1>5, <3>1
    <2> QED
      BY <1>14, <2>1, <2>2 DEF ParentStops, Post, Goto, s
  <1> QED
    BY <1>6, <1>7, <1>8, <1>9, <1>10, <1>11, <1>12, <1>13, <1>14 DEF RequestStep

(* What else it may do: turn to its next attempt, when the last one allows.*)
LEMMA RequestTypesStay ==
  ASSUME RequestTypes, NEW r \in Requests, NEW p \in Phases, NEW m \in Seq(Messages),
         Moves(r, p, m),
         RequestStep(r) \/ Accept(r) \/ DeadlinePasses(r) \/ CutoffFires(r)
           \/ KillOwner(r) \/ CallerDies(r) \/ ParentStops(r)
  PROVE  RequestTypes' /\ safety' = safety
  <1>1. /\ phase' \in [Requests -> Phases] /\ mail' \in [Requests -> Seq(Messages)]
    BY DEF Moves, RequestTypes
  <1>2. safety' = safety /\ guarded' = guarded
    BY DEF RequestStep, StartAttempt, Receive, Drain, Settle, Finish, Decide, Answer, Undeliverable,
           Accept, DeadlinePasses, CutoffFires, KillOwner, CallerDies, ParentStops, requestVars
  <1>3. caller' = caller \/ caller' = [caller EXCEPT ![r] = "gone"]
    BY DEF RequestStep, StartAttempt, Receive, Drain, Settle, Finish, Decide, Answer, Undeliverable,
           Accept, DeadlinePasses, CutoffFires, KillOwner, CallerDies, ParentStops, requestVars
  <1>4. inbox' = inbox \/ \E box \in {"full", "read"} : inbox' = [inbox EXCEPT ![r] = box]
    BY DEF RequestStep, StartAttempt, Receive, Drain, Settle, Finish, Decide, Answer, Undeliverable,
           Accept, DeadlinePasses, CutoffFires, KillOwner, CallerDies, ParentStops, requestVars
  <1>5. stopped' = stopped \/ stopped' = [stopped EXCEPT ![r] = @ \/ Head(mail[r]) = "shutdown"]
    BY DEF RequestStep, StartAttempt, Receive, Drain, Settle, Finish, Decide, Answer, Undeliverable,
           Accept, DeadlinePasses, CutoffFires, KillOwner, CallerDies, ParentStops, requestVars
  <1>6. try' = try \/ (Decide(r) /\ try[r] < Tries /\ try' = [try EXCEPT ![r] = @ + 1])
    BY DecideTurns DEF CanRetry, RequestStep, StartAttempt, Receive, Drain, Settle, Finish, Decide, Answer, Undeliverable,
           Accept, DeadlinePasses, CutoffFires, KillOwner, CallerDies, ParentStops, requestVars
  <1>7. try' \in [Requests -> 1 .. Tries]
    <2>1. Tries \in Nat /\ try \in [Requests -> 1 .. Tries]
      BY BoundsAssumption DEF RequestTypes
    <2> QED
      BY <1>6, <2>1
  <1>8. stopped' \in [Requests -> BOOLEAN] /\ inbox' \in [Requests -> {"empty", "full", "read"}]
        /\ caller' \in [Requests -> {"alive", "gone"}]
    BY <1>3, <1>4, <1>5 DEF RequestTypes
  <1>9. kept' = kept \/ \E i \in {0, try[r]} : kept' = [kept EXCEPT ![r] = i]
    BY DecideKeeps DEF RequestStep, StartAttempt, Receive, Drain, Settle, Finish, Answer,
           Undeliverable, Accept, DeadlinePasses, CutoffFires, KillOwner, CallerDies, ParentStops,
           requestVars
  <1>10. kept' \in [Requests -> 0 .. Tries]
    <2>1. Tries \in Nat /\ try[r] \in 0 .. Tries /\ 0 \in 0 .. Tries
          /\ kept \in [Requests -> 0 .. Tries]
      BY BoundsAssumption DEF RequestTypes
    <2> QED
      BY <1>9, <2>1
  <1> QED
    BY <1>1, <1>2, <1>7, <1>8, <1>10 DEF RequestTypes

(* Requests that do not turn to another attempt keep what they retried.    *)
LEMMA RetriesStay ==
  ASSUME Inv, Kept, NEW r \in Requests, RetryInv(r), safety'[r] = safety[r], try'[r] = try[r]
  PROVE  RetryInv(r)'
  <1>1. \A i \in 1 .. Tries : <<r, i>> \in Attempts
    BY DEF Attempts
  <1>2. \A i \in 1 .. Tries : i < try[r] =>
          Committed(<<r, i>>) /\ outcome'[<<r, i>>] = outcome[<<r, i>>]
    BY <1>1 DEF RetryInv, Kept
  <1>3. Before(r)' = Before(r)
    <2>1. \A i \in 1 .. (try[r] - 1) : i \in 1 .. Tries /\ i < try[r]
      BY BoundsAssumption DEF Inv, Shape
    <2> QED
      BY <1>2, <2>1 DEF Before, Dispatched
  <1> QED
    BY <1>2, <1>3 DEF RetryInv, Committed, FinalKinds, DispatchLimit

LEMMA DecidedStays ==
  ASSUME Inv, Kept, NEW r \in Requests, DecidedInv(r), try'[r] = try[r],
         phase'[r] \in {"settling", "finishing", "deciding"} =>
           phase[r] \in {"settling", "finishing", "deciding"}
  PROVE  DecidedInv(r)'
  <1>1. Now(r) \in Attempts /\ Now(r)' = Now(r)
    BY PresentAttempt DEF Now
  <1> QED
    BY <1>1 DEF DecidedInv, Kept, Committed

(* Turning to the next attempt: the last one was no answer, and counted.   *)
LEMMA DecideRetries ==
  ASSUME Inv, Kept, RequestTypes, NEW r \in Requests, RetryInv(r), DecidedInv(r),
         Decide(r), try' = [try EXCEPT ![r] = @ + 1], CanRetry(r)
  PROVE  RetryInv(r)'
  <1> DEFINE a == Now(r)
  <1>1. Tries \in Nat /\ try[r] \in 1 .. Tries /\ try'[r] = try[r] + 1 /\ a \in Attempts
        /\ UNCHANGED <<outcome, safety>>
    BY BoundsAssumption, PresentAttempt DEF RequestTypes, Decide, attemptVars
  <1>2. Committed(a)
    BY DEF DecidedInv, Decide
  <1>3. outcome[a].kind \notin FinalKinds(r)
    BY DEF CanRetry, Eligible, Projected, MayHaveRun, FinalKinds
  <1>4. ASSUME NEW i \in 1 .. Tries, i < try[r] + 1
        PROVE  Committed(<<r, i>>) /\ outcome[<<r, i>>].kind \notin FinalKinds(r)
    <2>1. CASE i = try[r]
      BY <1>2, <1>3, <2>1 DEF Now
    <2>2. CASE i < try[r]
      BY <2>2 DEF RetryInv
    <2> QED
      BY <1>1, <1>4, <2>1, <2>2
  <1>5. Before(r)' = {i \in 1 .. try[r] : Dispatched(<<r, i>>)}
    <2>1. try'[r] - 1 = try[r]
      BY <1>1
    <2> QED
      BY <1>1, <2>1 DEF Before, Dispatched
  <1>6. Cardinality(Before(r)') < DispatchLimit(r)
    BY <1>5 DEF CanRetry, Spent
  <1> QED
    BY <1>1, <1>4, <1>6 DEF RetryInv, Committed, FinalKinds, DispatchLimit

LEMMA RequestKeepsRequests ==
  ASSUME Inv, Kept, NotStarted, AttemptsInv, OutcomesInv, RequestsInv, NEW r \in Requests,
         RequestStep(r) \/ Accept(r) \/ DeadlinePasses(r) \/ CutoffFires(r)
           \/ KillOwner(r) \/ CallerDies(r) \/ ParentStops(r)
  PROVE  RequestsInv'
  <1>0. RequestTypes /\ MailInv(r) /\ DecidedInv(r) /\ RetryInv(r)
    BY DEF RequestsInv
  <1>1. PICK p \in Phases, m \in Seq(Messages) : Moves(r, p, m)
    BY <1>0, RequestMoves
  <1>2. RequestTypes' /\ safety' = safety
    BY <1>0, <1>1, RequestTypesStay
  <1>3. /\ phase'[r] = p /\ mail'[r] = m
        /\ \A s \in Requests \ {r} : phase'[s] = phase[s] /\ mail'[s] = mail[s]
    BY <1>0, <1>1 DEF Moves, RequestTypes
  <1>4. UNCHANGED verdict
    BY DEF RequestStep, StartAttempt, Receive, Drain, Settle, Finish, Decide, Answer, Undeliverable,
           Accept, DeadlinePasses, CutoffFires, KillOwner, CallerDies, ParentStops, taskVars
  <1>5. \/ try' = try
        \/ Decide(r) /\ try' = [try EXCEPT ![r] = @ + 1] /\ CanRetry(r)
    BY DecideTurns DEF RequestStep, StartAttempt, Receive, Drain, Settle, Finish, Decide, Answer, Undeliverable,
           Accept, DeadlinePasses, CutoffFires, KillOwner, CallerDies, ParentStops, requestVars
  <1>6. \A s \in Requests \ {r} : try'[s] = try[s]
    BY <1>0, <1>5 DEF RequestTypes
  <1>7. ASSUME NEW s \in Requests PROVE MailInv(s)'
    <2>1. CASE s = r
      <3>1. p \in {"ready", "deciding"} => m = <<>>
        BY <1>1 DEF Moves
      <3>2. Completed(m) => verdict[Now(r)'].kind # "none"
        <4>1. CASE try' = try
          BY <1>0, <1>1, <4>1 DEF Moves, MailInv, Now
        <4>2. CASE Decide(r)
          <5>1. mail[r] = <<>>
            BY <1>0, <4>2 DEF MailInv, Decide
          <5> QED
            BY <1>1, <5>1 DEF Moves, Completed
        <4> QED
          BY <1>5, <4>1, <4>2
      <3> QED
        BY <1>3, <1>4, <2>1, <3>1, <3>2 DEF MailInv, Now
    <2>2. CASE s # r
      BY <1>3, <1>4, <1>6, <2>2 DEF MailInv, RequestsInv, Now
    <2> QED
      BY <2>1, <2>2
  <1>8. ASSUME NEW s \in Requests PROVE RetryInv(s)'
    <2>1. CASE s # r \/ try' = try
      BY <1>2, <1>6, <2>1, RetriesStay DEF RequestsInv
    <2>2. CASE s = r /\ try' # try
      BY <1>0, <1>5, <2>2, DecideRetries
    <2> QED
      BY <2>1, <2>2
  <1>9. ASSUME NEW s \in Requests PROVE DecidedInv(s)'
    <2>1. CASE s # r
      BY <1>3, <1>6, <2>1, DecidedStays DEF RequestsInv
    <2>2. CASE s = r
      <3>0. phase \in [Requests -> Phases] /\ (try' = try \/ Decide(r))
        BY <1>0, <1>5 DEF RequestTypes
      <3>1. CASE StartAttempt(r)
        <4>1. phase'[r] \in {"deciding", "waiting"}
          BY <1>0, <3>1 DEF StartAttempt, Goto, RequestTypes
        <4> QED
          BY <1>0, <2>2, <3>1, <4>1, StartAttemptTrue DEF DecidedInv
      <3>2. CASE Receive(r)
        <4>1. phase'[r] \in {"finishing", "draining"}
          BY <1>0, <3>2 DEF Receive, Goto, RequestTypes
        <4> QED
          BY <1>0, <2>2, <3>2, <4>1, ReceiveTrue DEF DecidedInv
      <3>3. CASE Drain(r)
        <4>1. phase'[r] \in {"settling", "finishing", "draining"}
          BY <1>0, <3>3 DEF Drain, Goto, RequestTypes
        <4> QED
          BY <1>0, <2>2, <3>3, <4>1, DrainTrue DEF DecidedInv
      <3>4. CASE Settle(r) \/ Finish(r)
        <4>1. phase[r] \in {"settling", "finishing"} /\ try' = try
          BY <3>4 DEF Settle, Finish
        <4> QED
          BY <1>0, <2>2, <4>1, DecidedStays
      <3>5. CASE Decide(r) \/ Answer(r) \/ Undeliverable(r) \/ Accept(r) \/ KillOwner(r)
        <4>1. \E q \in {"ready", "done", "gone", "delivering"} : Goto(r, q)
          BY <3>5, DecideTurns DEF Answer, Undeliverable, Accept, KillOwner
        <4>2. phase'[r] \in {"ready", "done", "gone", "delivering"}
          BY <1>0, <4>1 DEF Goto, RequestTypes
        <4> QED
          BY <2>2, <4>2 DEF DecidedInv
      <3>6. CASE DeadlinePasses(r) \/ CutoffFires(r) \/ CallerDies(r) \/ ParentStops(r)
        <4>1. try' = try /\ (phase' = phase \/ Goto(r, "gone"))
          BY <3>6 DEF DeadlinePasses, CutoffFires, CallerDies, ParentStops, requestVars
        <4>2. phase'[r] \in {phase[r], "gone"}
          BY <1>0, <4>1 DEF Goto, RequestTypes
        <4> QED
          BY <1>0, <2>2, <4>1, <4>2, DecidedStays
      <3> QED
        BY <3>1, <3>2, <3>3, <3>4, <3>5, <3>6 DEF RequestStep
    <2> QED
      BY <2>1, <2>2
  <1> QED
    BY <1>2, <1>7, <1>8, <1>9 DEF RequestsInv

(* Steps of tasks, sockets, handler and worker: the mail of a request at   *)
(* most grows by an exit, or by the completion of its present attempt.     *)
LEMMA AttemptsKeepRequests ==
  ASSUME Inv, Kept, RequestsInv, \A a \in Attempts : Grows(a),
         UNCHANGED <<safety, guarded, caller, phase, try, kept, stopped, inbox>>,
         \/ UNCHANGED mail
         \/ \E a \in Attempts, message \in {"exit", "completion"} :
              /\ Awaits(a) /\ Post(RequestOf(a), message)
              /\ message = "completion" => verdict'[a].kind # "none"
  PROVE  RequestsInv'
  <1>1. \A s \in Requests : Now(s) \in Attempts /\ Now(s)' = Now(s)
    BY PresentAttempt DEF Now
  <1>2. \A s \in Requests : RetryInv(s)' /\ DecidedInv(s)'
    BY RetriesStay, DecidedStays DEF RequestsInv
  <1>3. CASE UNCHANGED mail
    <2>1. ASSUME NEW s \in Requests PROVE MailInv(s)'
      BY <1>1, <1>3 DEF RequestsInv, MailInv, Grows
    <2> QED
      BY <1>2, <1>3, <2>1 DEF RequestsInv, RequestTypes
  <1>4. ASSUME NEW a \in Attempts, NEW message \in {"exit", "completion"},
               Awaits(a), Post(RequestOf(a), message),
               message = "completion" => verdict'[a].kind # "none"
        PROVE  RequestsInv'
    <2> DEFINE r == RequestOf(a)
    <2>1. r \in Requests /\ a = Now(r) /\ phase[r] \in Working /\ mail[r] \in Seq(Messages)
          /\ message \in Messages /\ mail \in [Requests -> Seq(Messages)]
      BY <1>4 DEF RequestOf, Attempts, Awaits, RequestsInv, RequestTypes, Messages
    <2>2. /\ Append(mail[r], message) \in Seq(Messages)
          /\ message # "completion" /\ Completed(Append(mail[r], message)) => Completed(mail[r])
      BY <2>1, MailAppend
    <2>3. mail' = [mail EXCEPT ![r] = Append(mail[r], message)]
      BY <1>4 DEF Post
    <2> HIDE DEF r
    <2>4. ASSUME NEW s \in Requests PROVE MailInv(s)'
      <3>1. CASE s = r
        <4>1. mail'[s] = Append(mail[r], message)
          BY <2>1, <2>3, <3>1
        <4>2. Completed(mail'[s]) => verdict'[Now(s)].kind # "none"
          BY <1>1, <1>4, <2>1, <2>2, <3>1, <4>1 DEF RequestsInv, MailInv, Grows
        <4> QED
          BY <1>1, <2>1, <3>1, <4>2 DEF MailInv, Working
      <3>2. CASE s # r
        BY <1>1, <2>1, <2>3, <3>2 DEF RequestsInv, MailInv, Grows
      <3> QED
        BY <3>1, <3>2
    <2>5. RequestTypes'
      BY <2>1, <2>2, <2>3 DEF RequestsInv, RequestTypes
    <2> QED
      BY <1>2, <2>4, <2>5 DEF RequestsInv
  <1> QED
    BY <1>3, <1>4

-----------------------------------------------------------------------------
DispatchInv == Inv /\ NotStarted /\ AttemptsInv /\ RequestsInv /\ OutcomesInv

LEMMA DispatchInit == Init => DispatchInv
  <1> SUFFICES ASSUME Init PROVE DispatchInv
    OBVIOUS
  <1>0. 1 \in 1 .. Tries /\ 0 \in 0 .. Tries /\ MaxRepairs \in Nat
    BY BoundsAssumption
  <1>1. Inv
    BY InvariantInit
  <1>2. \A r \in Requests : Now(r) \in Attempts /\ try[r] = 1
    BY <1>1, PresentAttempt DEF Init, InitFrom
  <1>3. \A r \in Requests, i \in 1 .. Tries : <<r, i>> \in Attempts
    BY DEF Attempts
  <1>4. NotStarted
    BY <1>2, <1>3 DEF Init, InitFrom, NotStarted
  <1>5. NoFact \in Facts /\ NoVerdict \in Verdicts /\ NewGate \in Gates
    BY DEF NoFact, Fact, Facts, NoVerdict, Verdict, Verdicts, NewGate, Gates, Evidence, Certainties
  <1>6. NoFact.kind = "none" /\ NoFact.certainty = "not_dispatched" /\ NoVerdict.kind = "none"
        /\ NoVerdict.certainty = "not_dispatched" /\ NewGate.seen = "not_started"
    BY DEF NoFact, Fact, NoVerdict, Verdict, NewGate
  <1>7. AttemptTypes /\ TrackerInv
    BY <1>0, <1>5 DEF Init, InitFrom, AttemptTypes, TrackerInv, TaskSteps, CheckoutSteps, Evidence
  <1>8. ASSUME NEW a \in Attempts PROVE Known(a) /\ OutcomeInv(a)
    <2>1. /\ task[a] = "none" /\ checkout[a] = "none" /\ ~written[a] /\ session[a] = "not_started"
          /\ token[a] = 0 /\ tracker.token = 0 /\ tracker.ready
          /\ gate[a] = NewGate /\ verdict[a] = NoVerdict /\ outcome[a] = NoFact
      BY <1>8 DEF Init, InitFrom
    <2> QED
      BY <1>6, <2>1 DEF Known, SocketInv, GateInv, VerdictInv, OutcomeInv, True, Unsent, Early,
                        Sending, Over
  <1>9. RequestTypes
    BY <1>0 DEF Init, InitFrom, RequestTypes, Phases
  <1>10. ASSUME NEW r \in Requests PROVE MailInv(r) /\ DecidedInv(r) /\ RetryInv(r)
    <2>1. mail[r] = <<>> /\ phase[r] = "ready" /\ try[r] = 1
      BY DEF Init, InitFrom
    <2>2. Before(r) = {} /\ DispatchLimit(r) \in Nat \ {0}
      BY <2>1, BoundsAssumption DEF Before, DispatchLimit
    <2>3. Cardinality(Before(r)) < DispatchLimit(r)
      BY <2>2, FS_EmptySet
    <2> QED
      BY <2>1, <2>3 DEF MailInv, DecidedInv, RetryInv, Completed
  <1> QED
    BY <1>1, <1>4, <1>7, <1>8, <1>9, <1>10 DEF DispatchInv, AttemptsInv, RequestsInv, OutcomesInv

LEMMA TaskPosts ==
  ASSUME AttemptTypes, NEW a \in Attempts, Known(a),
         TaskStep(a) \/ TaskDies(a) \/ SocketStep(a) \/ CheckoutDies(a)
  PROVE  /\ UNCHANGED <<safety, guarded, caller, phase, try, kept, stopped, inbox, outcome>>
         /\ \/ UNCHANGED mail
            \/ \E message \in {"exit", "completion"} :
                 /\ Awaits(a) /\ Post(RequestOf(a), message)
                 /\ message = "completion" => verdict'[a].kind # "none"
  <1>1. UNCHANGED <<safety, guarded, caller, phase, try, kept, stopped, inbox, outcome>>
    BY DEF TaskStep, ReadToken, AcquireTimesOut, OpenSend, StartCheckout, Collect, StopCheckout,
           CheckoutStopped, Validate, TransferTimesOut, TaskCrashes, RecordVerdict, Complete,
           TaskDies, SocketStep, NoConnection, SendStart, Write, SendStop, Respond,
           CheckoutDies, Detached, requestVars, attemptVars
  <1>2. CASE TaskCrashes(a)
    BY <1>1, <1>2 DEF TaskCrashes
  <1>3. CASE Complete(a)
    BY <1>1, <1>3, CompleteKnown DEF Complete
  <1>4. CASE ~TaskCrashes(a) /\ ~Complete(a)
    BY <1>1, <1>4 DEF TaskStep, ReadToken, AcquireTimesOut, OpenSend, StartCheckout, Collect,
           StopCheckout, CheckoutStopped, Validate, TransferTimesOut, RecordVerdict,
           TaskDies, SocketStep, NoConnection, SendStart, Write, SendStop, Respond,
           CheckoutDies, Detached, requestVars
  <1> QED
    BY <1>2, <1>3, <1>4

LEMMA DispatchNext == DispatchInv /\ [Next]_vars => DispatchInv'
  <1> SUFFICES ASSUME DispatchInv, [Next]_vars PROVE DispatchInv'
    OBVIOUS
  <1>0. /\ Inv /\ Inv' /\ Kept /\ NotStarted /\ AttemptsInv /\ RequestsInv /\ OutcomesInv
    BY NextKeeps DEF DispatchInv
  <1>1. ASSUME NEW r \in Requests,
               RequestStep(r) \/ Accept(r) \/ DeadlinePasses(r) \/ CutoffFires(r)
                 \/ KillOwner(r) \/ CallerDies(r) \/ ParentStops(r)
        PROVE  DispatchInv'
    <2>1. RequestTypes /\ MailInv(r)
      BY <1>0 DEF RequestsInv
    <2>2. NotStarted' /\ AttemptsInv' /\ OutcomesInv' /\ RequestsInv'
      BY <1>0, <1>1, <2>1, RequestStarts, RequestTrue, RequestKeepsRequests
    <2> QED
      BY <1>0, <2>2 DEF DispatchInv
  <1>2. ASSUME NEW a \in Attempts, TaskStep(a) \/ TaskDies(a) \/ SocketStep(a) \/ CheckoutDies(a)
        PROVE  DispatchInv'
    <2>1. AttemptTypes /\ TrackerInv /\ Known(a) /\ \A b \in Attempts : Known(b)
      BY <1>0 DEF AttemptsInv
    <2>2. AttemptTypes' /\ Local(a) /\ Grows(a) /\ Known(a)'
      BY <1>2, <2>1, TaskKnown, SocketKnown
    <2>3. tracker' = tracker
      BY <1>2 DEF TaskStep, ReadToken, AcquireTimesOut, OpenSend, StartCheckout, Collect,
           StopCheckout, CheckoutStopped, Validate, TransferTimesOut, TaskCrashes, RecordVerdict,
           Complete, TaskDies, SocketStep, NoConnection, SendStart, Write, SendStop, Respond,
           CheckoutDies
    <2>4. \A b \in Attempts : Known(b)' /\ Grows(b)
      BY <2>1, <2>2, <2>3, KnownStays DEF Local, Same, Grows
    <2>5. AttemptsInv'
      BY <2>1, <2>2, <2>3, <2>4 DEF AttemptsInv, TrackerInv
    <2>6. NotStarted'
      BY <1>0, <1>2, AttemptStarts
    <2>7. RequestsInv' /\ OutcomesInv'
      BY <1>0, <1>2, <2>1, <2>4, TaskPosts, AttemptsKeepRequests, OutcomesStay
    <2> QED
      BY <1>0, <2>5, <2>6, <2>7 DEF DispatchInv
  <1>3. CASE Serve \/ HandlerStep \/ UNCHANGED vars
    <2>1. AttemptTypes /\ TrackerInv /\ \A b \in Attempts : Known(b)
      BY <1>0 DEF AttemptsInv
    <2>2. UNCHANGED <<requestVars, outcome>>
      BY <1>3 DEF Serve, HandlerStep, HandlerLost, RepairBegins, RepairEnds, vars, attemptVars
    <2>3. AttemptTypes' /\ TrackerInv' /\ \A b \in Attempts : Grows(b) /\ Known(b)'
      <3>1. CASE Serve
        BY <2>1, <3>1, ServeKnown DEF Serve, TrackerInv
      <3>2. CASE HandlerStep
        BY <2>1, <3>2, HandlerKnown
      <3>3. CASE UNCHANGED vars
        BY <2>1, <3>3, KnownStays
        DEF vars, attemptVars, taskVars, checkoutVars, AttemptTypes, TrackerInv, Grows, Same
      <3> QED
        BY <1>3, <3>1, <3>2, <3>3
    <2>4. RequestsInv' /\ OutcomesInv'
      BY <1>0, <2>2, <2>3, AttemptsKeepRequests, OutcomesStay DEF requestVars
    <2>5. NotStarted'
      <3>1. DOMAIN task' = Attempts /\ \A a \in Attempts : task[a] = "none" => task'[a] = "none"
        <4>1. CASE Serve
          <5>1. ASSUME NEW x, NEW from \in {"acquiring", "retaining"}, NEW to, task[x] = from,
                       task' = [task EXCEPT ![x] = to]
                PROVE  DOMAIN task' = Attempts /\ \A a \in Attempts : task[a] = "none" => task'[a] = "none"
            BY <1>0, <5>1 DEF NotStarted
          <5>2. CASE UNCHANGED task
            BY <1>0, <5>2 DEF NotStarted
          <5>3. ASSUME NEW x, NEW p, Grant(x, p) \/ Refuse(x) \/ Retain(x, p)
                PROVE  \/ UNCHANGED task
                       \/ task[x] = "acquiring" /\ task' = [task EXCEPT ![x] = "admitted"]
                       \/ task[x] = "acquiring" /\ task' = [task EXCEPT ![x] = "judged"]
                       \/ task[x] = "retaining" /\ task' = [task EXCEPT ![x] = "judged"]
            BY <5>3 DEF Grant, Refuse, Retain
          <5>4. ASSUME NEW x, NEW p, Grant(x, p) \/ Refuse(x) \/ Retain(x, p)
                PROVE  DOMAIN task' = Attempts /\ \A a \in Attempts : task[a] = "none" => task'[a] = "none"
            BY <5>1, <5>2, <5>3, <5>4
          <5>5. ASSUME NEW freed, FreeLeases(freed) PROVE UNCHANGED task
            BY <5>5 DEF FreeLeases
          <5> QED
            BY <4>1, <5>2, <5>4, <5>5 DEF Serve
        <4>2. CASE HandlerStep \/ UNCHANGED vars
          BY <1>0, <4>2 DEF HandlerStep, HandlerLost, RepairBegins, RepairEnds, vars, taskVars,
                            NotStarted
        <4> QED
          BY <1>3, <4>1, <4>2
      <3> QED
        BY <1>0, <2>2, <3>1, StartedStep DEF requestVars
    <2> QED
      BY <1>0, <2>3, <2>4, <2>5 DEF DispatchInv, AttemptsInv
  <1> QED
    BY <1>1, <1>2, <1>3 DEF Next, Undisturbed, Disturbed

LEMMA DispatchInvImplies == DispatchInv => DispatchIsTruthful
  <1> SUFFICES ASSUME DispatchInv PROVE DispatchIsTruthful
    OBVIOUS
  <1>1. ASSUME NEW a \in Attempts
        PROVE  /\ Committed(a) /\ outcome[a].certainty = "not_dispatched" => ~written[a]
               /\ outcome[a].certainty = "dispatched" => written[a]
    <2>1. OutcomeInv(a) /\ GateInv(a)
      BY DEF DispatchInv, OutcomesInv, AttemptsInv, Known
    <2> QED
      BY <2>1 DEF OutcomeInv, True, GateInv, Unsent, Committed
  <1>2. ASSUME NEW r \in Requests
        PROVE  /\ Cardinality(Reached(r)) <= DispatchLimit(r)
               /\ \A i, j \in Reached(r) : i < j => outcome[<<r, i>>].kind \notin FinalKinds(r)
    <2>1. \A i \in 1 .. Tries : <<r, i>> \in Attempts
      BY DEF Attempts
    <2>2. try[r] \in 1 .. Tries /\ Tries \in Nat
      BY BoundsAssumption DEF DispatchInv, RequestsInv, RequestTypes
    <2>3. RetryInv(r)
      BY DEF DispatchInv, RequestsInv
    <2>4. ASSUME NEW i \in Reached(r) PROVE i <= try[r]
      <3>1. CASE i > try[r]
        <4>1. i \in 1 .. Tries /\ written[<<r, i>>] /\ task[<<r, i>>] = "none"
          BY <3>1 DEF DispatchInv, NotStarted, Reached
        <4>2. SocketInv(<<r, i>>)
          BY <2>1, <4>1 DEF DispatchInv, AttemptsInv, Known
        <4> QED
          BY <4>1, <4>2 DEF SocketInv, Early
      <3> QED
        BY <2>2, <3>1 DEF Reached
    <2>5. Reached(r) \subseteq Before(r) \cup {try[r]}
      <3>1. ASSUME NEW i \in Reached(r), i # try[r] PROVE i \in Before(r)
        <4>1. i \in 1 .. Tries /\ i < try[r] /\ written[<<r, i>>]
          BY <2>2, <2>4, <3>1 DEF Reached
        <4>2. Committed(<<r, i>>) /\ <<r, i>> \in Attempts
          BY <2>1, <2>3, <4>1 DEF RetryInv
        <4> QED
          BY <1>1, <2>2, <4>1, <4>2 DEF Before, Dispatched
      <3> QED
        BY <3>1
    <2>6. Cardinality(Reached(r)) <= DispatchLimit(r)
      <3>1. IsFiniteSet(Before(r))
        <4>1. IsFiniteSet(1 .. (try[r] - 1)) /\ Before(r) \subseteq 1 .. (try[r] - 1)
          BY <2>2, FS_Interval DEF Before
        <4> QED
          BY <4>1, FS_Subset
      <3>2. /\ IsFiniteSet(Before(r) \cup {try[r]}) /\ Cardinality(Before(r)) \in Nat
            /\ Cardinality(Before(r) \cup {try[r]}) <= Cardinality(Before(r)) + 1
        <4>1. try[r] \notin Before(r)
          BY <2>2 DEF Before
        <4>2. Cardinality(Before(r)) \in Nat
          BY <3>1, FS_CardinalityType
        <4>3. /\ IsFiniteSet(Before(r) \cup {try[r]})
              /\ Cardinality(Before(r) \cup {try[r]}) = Cardinality(Before(r)) + 1
          BY <3>1, <4>1, FS_AddElement
        <4> QED
          BY <4>2, <4>3
      <3>3. /\ Cardinality(Reached(r)) <= Cardinality(Before(r) \cup {try[r]})
            /\ Cardinality(Reached(r)) \in Nat
            /\ Cardinality(Before(r) \cup {try[r]}) \in Nat
        BY <2>5, <3>2, FS_Subset, FS_CardinalityType
      <3>4. Cardinality(Before(r)) < DispatchLimit(r) /\ DispatchLimit(r) \in Nat
        BY <2>3, BoundsAssumption DEF RetryInv, DispatchLimit
      <3> QED
        BY <3>2, <3>3, <3>4
    <2>7. ASSUME NEW i \in Reached(r), NEW j \in Reached(r), i < j
          PROVE  outcome[<<r, i>>].kind \notin FinalKinds(r)
      <3>1. i \in 1 .. Tries /\ i < try[r]
        BY <2>2, <2>4, <2>7 DEF Reached
      <3> QED
        BY <2>3, <3>1 DEF RetryInv
    <2> QED
      BY <2>6, <2>7
  <1> QED
    BY <1>1, <1>2 DEF DispatchIsTruthful

(* What an outcome says of its dispatch is what the socket saw, in every   *)
(* state and for any number of requests and tries: an attempt concluded    *)
(* as not dispatched has written nothing and has no checkout left that     *)
(* could (GateInv and Unsent), and one concluded as dispatched has. A      *)
(* request goes on to the next upstream as long as its dispatches last     *)
(* (RetryInv): a raw transaction without a policy reaches one at most, any *)
(* other request MaxDispatches, and none after an answer.                  *)
THEOREM DispatchClaimsAreTrue == Spec => []DispatchIsTruthful
  <1>1. Spec => []DispatchInv
    BY DispatchInit, DispatchNext, PTL DEF Spec
  <1> QED
    BY <1>1, DispatchInvImplies, PTL
=============================================================================
