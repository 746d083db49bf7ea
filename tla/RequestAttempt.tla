---------------------------- MODULE RequestAttempt ----------------------------
(* The attempts of a request over HTTP: the process that owns the request      *)
(* (request_owner.ex), the transport task it starts for each attempt           *)
(* (transports/http.ex, finch.ex), the checkout task that writes to the socket *)
(* (finch.ex), the dispatch gate they share (attempt_protocol.ex), the         *)
(* telemetry handler that observes the write (dispatch_tracker.ex) and the     *)
(* worker that leases upstream capacity (upstream_admission.ex).               *)
(* Processes take steps in any order, a killed process may take more steps     *)
(* before it dies, a deadline may pass between any two of them.                *)
EXTENDS Naturals, FiniteSets, Sequences

CONSTANTS Requests,    \* request processes
          Tries,       \* attempts a request may make
          MaxDispatches, \* of them, the ones that may reach an upstream
          NodeLimit,   \* leases the node grants at a time
          MaxRepairs   \* bound: times the telemetry handler is lost

ASSUME BoundsAssumption == /\ Tries \in Nat \ {0}
                           /\ MaxDispatches \in Nat \ {0}
                           /\ NodeLimit \in Nat
                           /\ MaxRepairs \in Nat

VARIABLES
  safety,     \* whether the call of a request may run twice: a read may, a raw
              \* transaction may not, but a policy_send, one that its method
              \* names on a chain with a transaction policy, may be sent again
  guarded,    \* whether a request works for another process, its caller
  caller,     \* the caller, or the parent a request without one is linked to
  phase,      \* where the request process is
  try,        \* number of its present attempt
  kept,       \* earlier attempt whose leased error a policy send still holds, or 0
  mail,       \* its mailbox: completion, cutoff, exit, caller_down, shutdown, marker
  stopped,    \* its parent asked it to stop
  inbox,      \* mailbox of the caller, for the result: empty, full, then read
  outcome,    \* committed fact of an attempt
  gate,       \* dispatch gate of an attempt
  deadline,   \* of an attempt: ahead, passed, or signalled to the request
  task,       \* where the transport task is
  killed,     \* a kill is under way to the task
  token,      \* tracker incarnation the task read
  held,       \* the task knows the token of its lease
  verdict,    \* terminal candidate of the task
  checkout,   \* where the checkout task is
  session,    \* dispatch evidence the checkout task observed
  written,    \* bytes of the attempt reached the socket
  tracker,    \* telemetry handler
  lease,      \* capacity lease of an attempt
  calls,      \* mailbox of the admission worker
  inflight    \* node-wide counter of leases in use

requestVars   == <<safety, guarded, caller, phase, try, kept, mail, stopped, inbox>>
attemptVars   == <<outcome, gate, deadline>>
taskVars      == <<task, killed, token, held, verdict>>
checkoutVars  == <<checkout, session, written>>
admissionVars == <<lease, calls, inflight>>
vars == <<requestVars, attemptVars, taskVars, checkoutVars, tracker, admissionVars>>

-------------------------------------------------------------------------------
(* Attempts, dispatch certainty, the gate.                                     *)

Safeties == {"replay_safe", "raw_transaction", "policy_send"}
Attempts == Requests \X (1 .. Tries)
Now(r) == <<r, try[r]>>
RequestOf(a) == a[1]

Certainties == {"not_dispatched", "indeterminate", "dispatched"}
Rank == [not_dispatched |-> 0, indeterminate |-> 1, dispatched |-> 2]
Stronger(c, d) == IF Rank[c] >= Rank[d] THEN c ELSE d

\* What the sending side has seen of an attempt: dispatch_state.
Evidence == {"not_started", "started", "confirmed"}
CertaintyOf(seen) == CASE seen = "not_started" -> "not_dispatched"
                       [] seen = "started"     -> "indeterminate"
                       [] seen = "confirmed"   -> "dispatched"

NewGate == [open |-> TRUE, seen |-> "not_started"]
Shut(g) == [g EXCEPT !.open = FALSE]
Started(g) == IF g.open /\ g.seen = "not_started" THEN [g EXCEPT !.seen = "started"] ELSE g
Confirmed(g) == IF g.open THEN [g EXCEPT !.seen = "confirmed"] ELSE g
ProvedUnsent(g) == IF g.open /\ g.seen = "started" THEN [g EXCEPT !.seen = "not_started"] ELSE g

\* The certainty a gate proves once it is shut.
Snapshot(a) == CertaintyOf(gate[a].seen)

Passed(a) == deadline[a] # "ahead"

\* What a response says: a result; a refusal by quota or capability; a failure
\* of the provider; an ambiguous error; any other error of the application.
ResponseKinds == {"success", "refused", "faulty", "ambiguous", "error"}
TaskKinds == ResponseKinds \cup {"predispatch", "invalid", "transport"}

\* Terminal candidate of the task: late when stamped at or after the deadline,
\* overdue when the completion is, leased when it carries a capacity lease.
Verdict(kind, certainty, late, leased) ==
  [kind |-> kind, certainty |-> certainty, late |-> late, overdue |-> FALSE, leased |-> leased]
NoVerdict == Verdict("none", "not_dispatched", FALSE, FALSE)
Predispatch(a) == Verdict("predispatch", "not_dispatched", Passed(a), FALSE)
Responded(a, kind) == Verdict(kind, "dispatched", Passed(a), FALSE)
Failure(a, certainty) == IF certainty = "not_dispatched" THEN Predispatch(a)
                         ELSE Verdict("transport", certainty, Passed(a), FALSE)

\* Committed terminal fact of an attempt.
Fact(kind, certainty, leased) == [kind |-> kind, certainty |-> certainty, leased |-> leased]
NoFact == Fact("none", "not_dispatched", FALSE)
Committed(a) == outcome[a] # NoFact

-------------------------------------------------------------------------------
(* Processes, and the calls they make to the admission worker.                 *)

TaskOf(a)   == <<"task", a>>
OwnerOf(r)  == <<"owner", r>>
CallerOf(r) == <<"caller", r>>

RunsTask(a) == task[a] \notin {"none", "ended"}
Results == {"failed", "limited", "answered"}
RunsCheckout(a) == checkout[a] \in {"connecting", "sending", "sent", "receiving"}
Lives(p) == CASE p[1] = "task"   -> RunsTask(p[2])
              [] p[1] = "owner"  -> phase[p[2]] # "gone"
              [] p[1] = "caller" -> caller[p[2]] = "alive"

Acquire(a)     == <<[call |-> "acquire", attempt |-> a, by |-> TaskOf(a)]>>
Transfer(a, p) == <<[call |-> "transfer", attempt |-> a, by |-> p]>>
Release(a)     == <<[call |-> "release", attempt |-> a, by |-> TaskOf(a)]>>
Down(p)        == <<[call |-> "down", attempt |-> <<>>, by |-> p]>>
Call(messages) == calls' = calls \o messages

NoLease == [holder |-> <<"none">>, active |-> FALSE]
Leased(a) == lease[a] # NoLease
InUse == {a \in Attempts : lease[a].active}

\* The worker monitors the holder of a lease, and hears of its death.
Death(p) == IF \E a \in Attempts : lease[a].holder = p THEN Down(p) ELSE <<>>

-------------------------------------------------------------------------------
(* The request process.                                                        *)

Working == {"waiting", "draining", "settling"}
Awaits(a) == phase[RequestOf(a)] \in Working /\ a = Now(RequestOf(a))

Post(r, message) == mail' = [mail EXCEPT ![r] = Append(@, message)]
Goto(r, p) == phase' = [phase EXCEPT ![r] = p]
Abandoned(r) == stopped[r] \/ (guarded[r] /\ caller[r] = "gone")

\* Closes the gate and commits the fact of an attempt.
Conclude(a, fact) == /\ outcome' = [outcome EXCEPT ![a] = fact]
                     /\ gate' = [gate EXCEPT ![a] = Shut(@)]

DeadlineFact(a) == Fact("deadline", Snapshot(a), FALSE)
LateFact(a) == Fact("deadline", Stronger(Snapshot(a), verdict[a].certainty), FALSE)
ExitFact(a) == IF Passed(a) THEN DeadlineFact(a)
               ELSE Fact("transport", Stronger("indeterminate", Snapshot(a)), FALSE)
CancelledFact(a) == IF Passed(a) THEN DeadlineFact(a)
                    ELSE Fact("cancelled", Snapshot(a), FALSE)

\* The fact of a completion that came in time.
TimelyFact(a) ==
  LET v == verdict[a] IN
  CASE v.kind = "predispatch" ->
         Fact(IF Snapshot(a) = "not_dispatched" THEN "predispatch" ELSE "transport",
              Snapshot(a), FALSE)
    [] v.kind = "transport" ->
         Fact("transport",
              IF Snapshot(a) = "dispatched" THEN "dispatched" ELSE v.certainty, FALSE)
    [] OTHER -> Fact(v.kind, "dispatched", v.leased)

\* handle_completion: a late completion gives its lease back.
TakeCompletion(a) ==
  /\ Conclude(a, IF verdict[a].late THEN LateFact(a)
                 ELSE IF verdict[a].overdue THEN DeadlineFact(a) ELSE TimelyFact(a))
  /\ Call(IF verdict[a].leased /\ (verdict[a].late \/ verdict[a].overdue)
          THEN Release(a) ELSE <<>>)

TakeExit(a) == Conclude(a, ExitFact(a)) /\ UNCHANGED calls

\* execute: a deadline that passed, an abandoned request, or a transport task.
StartAttempt(r) ==
  LET a == Now(r) IN
  /\ phase[r] = "ready"
  /\ \/ /\ Passed(a)
        /\ Conclude(a, DeadlineFact(a))
        /\ Goto(r, "deciding")
        /\ UNCHANGED task
     \/ /\ ~Passed(a) /\ Abandoned(r)
        /\ Conclude(a, Fact("cancelled", Snapshot(a), FALSE))
        /\ Goto(r, "deciding")
        /\ UNCHANGED task
     \/ /\ ~Passed(a) /\ ~Abandoned(r)
        /\ task' = [task EXCEPT ![a] = "tracking"]
        /\ Goto(r, "waiting")
        /\ UNCHANGED <<outcome, gate>>
  /\ UNCHANGED <<safety, guarded, inbox, caller, try, kept, mail, stopped, deadline, killed,
                 token, held, verdict, checkoutVars, tracker, admissionVars>>

\* await_terminal: the first message of the attempt decides; cancellation shuts
\* the gate, then settles whatever had arrived before its marker.
Receive(r) ==
  LET a == Now(r) IN
  /\ phase[r] = "waiting" /\ mail[r] # <<>>
  /\ \/ /\ Head(mail[r]) \in {"completion", "cutoff", "exit"}
        /\ mail' = [mail EXCEPT ![r] = Tail(@)]
        /\ Goto(r, "finishing")
        /\ \/ Head(mail[r]) = "completion" /\ TakeCompletion(a)
           \/ Head(mail[r]) = "exit" /\ TakeExit(a)
           \/ Head(mail[r]) = "cutoff" /\ Conclude(a, DeadlineFact(a)) /\ UNCHANGED calls
        /\ UNCHANGED stopped
     \/ /\ Head(mail[r]) \in {"caller_down", "shutdown"}
        /\ mail' = [mail EXCEPT ![r] = Append(Tail(@), "marker")]
        /\ stopped' = [stopped EXCEPT ![r] = @ \/ Head(mail[r]) = "shutdown"]
        /\ gate' = [gate EXCEPT ![a] = Shut(@)]
        /\ Goto(r, "draining")
        /\ UNCHANGED <<outcome, calls>>
  /\ UNCHANGED <<safety, guarded, inbox, caller, try, kept, deadline, taskVars, checkoutVars,
                 tracker, lease, inflight>>

\* drain_until_marker: a completion or an exit that was there first still wins.
Drain(r) ==
  LET a == Now(r) IN
  /\ phase[r] = "draining" /\ mail[r] # <<>>
  /\ mail' = [mail EXCEPT ![r] = Tail(@)]
  /\ \/ Head(mail[r]) = "completion" /\ TakeCompletion(a) /\ Goto(r, "settling")
     \/ Head(mail[r]) = "exit" /\ TakeExit(a) /\ Goto(r, "settling")
     \/ /\ Head(mail[r]) = "marker"
        /\ Conclude(a, CancelledFact(a)) /\ Goto(r, "finishing")
        /\ UNCHANGED calls
     \/ /\ Head(mail[r]) \in {"cutoff", "caller_down"}
        /\ UNCHANGED <<outcome, gate, phase, calls>>
  /\ UNCHANGED <<safety, guarded, inbox, caller, try, kept, stopped, deadline, taskVars,
                 checkoutVars, tracker, lease, inflight>>

\* Variant: the cancellation is settled once more when its marker is read.
SettleTwice(r) ==
  /\ phase[r] = "settling" /\ mail[r] # <<>>
  /\ mail' = [mail EXCEPT ![r] = Tail(@)]
  /\ IF Head(mail[r]) = "marker"
     THEN Goto(r, "finishing") /\ Conclude(Now(r), CancelledFact(Now(r)))
     ELSE UNCHANGED <<phase, outcome, gate>>
  /\ UNCHANGED <<safety, guarded, inbox, caller, try, kept, stopped, deadline, taskVars,
                 checkoutVars, tracker, admissionVars>>

\* drain_committed_until_marker: what comes after the commit changes nothing.
Settle(r) ==
  /\ phase[r] = "settling" /\ mail[r] # <<>>
  /\ mail' = [mail EXCEPT ![r] = Tail(@)]
  /\ IF Head(mail[r]) = "marker" THEN Goto(r, "finishing") ELSE UNCHANGED phase
  /\ UNCHANGED <<safety, guarded, inbox, caller, try, kept, stopped, attemptVars, taskVars,
                 checkoutVars, tracker, admissionVars>>

\* finish: kill the task, drop what it sent, hand the lease to the caller; then
\* the exit of a parent that is still unread ends the process.
Finish(r) ==
  LET a == Now(r)
      Mailed(message) == \E i \in DOMAIN mail[r] : mail[r][i] = message
      unread == IF Mailed("completion") /\ verdict[a].leased THEN Release(a) ELSE <<>>
      handoff == IF guarded[r] /\ outcome[a].leased THEN Transfer(a, CallerOf(r)) ELSE <<>>
      exits == Mailed("shutdown")
  IN
  /\ phase[r] = "finishing"
  /\ mail' = [mail EXCEPT ![r] = <<>>]
  /\ killed' = [killed EXCEPT ![a] = RunsTask(a)]
  /\ Call(unread \o handoff \o (IF exits THEN Death(OwnerOf(r)) ELSE <<>>))
  /\ Goto(r, IF exits THEN "gone" ELSE "deciding")
  /\ UNCHANGED <<safety, guarded, inbox, caller, try, kept, stopped, attemptVars, task, token,
                 held, verdict, checkoutVars, tracker, lease, inflight>>

\* project: what may have run goes to the next candidate only if it may run twice.
MayHaveRun(fact) == /\ fact.kind \in {"transport", "deadline", "invalid", "faulty"}
                    /\ fact.certainty # "not_dispatched"
Projected(r, fact) ==
  \/ fact.kind \in {"predispatch", "refused"}
  \/ /\ fact.kind \in {"transport", "deadline", "invalid", "faulty"}
     /\ fact.certainty = "not_dispatched" \/ safety[r] = "replay_safe"
  \/ fact.kind = "ambiguous" /\ safety[r] = "replay_safe"

\* Variant: an error that may hide a success is no reason to stop either.
EligibleIfFailed(r, fact) == fact.kind \notin {"success", "error", "cancelled", "none"}

\* policy_send_outcome: signed bytes can be sent again under a policy.
Eligible(r, fact) == Projected(r, fact) \/ (safety[r] = "policy_send" /\ MayHaveRun(fact))

Dispatched(a) == outcome[a].certainty # "not_dispatched"
DispatchLimit(r) == IF safety[r] = "raw_transaction" THEN 1 ELSE MaxDispatches

\* Variant: an upstream that refused the call gives its dispatch back too.
SpentUnrefused(r) ==
  Cardinality({i \in 1 .. try[r] : Dispatched(<<r, i>>) /\ outcome[<<r, i>>].kind # "refused"})

\* dispatch_count: what was not dispatched is given back.
Spent(r) == Cardinality({i \in 1 .. try[r] : Dispatched(<<r, i>>)})

CanRetry(r) == /\ Eligible(r, outcome[Now(r)]) /\ ~Abandoned(r)
               /\ try[r] < Tries /\ Spent(r) < DispatchLimit(r)

\* A synchronous send is not repeated once it may have run out of time upstream.
TimedOut(r) == /\ safety[r] = "policy_send" /\ Dispatched(Now(r))
               /\ outcome[Now(r)].kind \in {"transport", "deadline"}

\* The attempt whose answer the request has.
Reply(r) == IF kept[r] = 0 THEN Now(r) ELSE <<r, kept[r]>>
Discard(r, a) == IF outcome[a].leased THEN Release(a) ELSE <<>>
Older(r) == IF kept[r] = 0 THEN <<>> ELSE Discard(r, <<r, kept[r]>>)

\* The next candidate. Its start gives the lease of the last error back; a policy
\* send keeps that error until a later attempt was dispatched.
Retry(r) ==
  /\ CanRetry(r)
  /\ try' = [try EXCEPT ![r] = @ + 1]
  /\ Goto(r, "ready")
  /\ \/ /\ safety[r] # "policy_send"
        /\ Call(Discard(r, Now(r)))
        /\ UNCHANGED kept
     \/ /\ safety[r] = "policy_send" /\ Dispatched(Now(r))
        /\ kept' = [kept EXCEPT ![r] = IF outcome[Now(r)].leased THEN try[r] ELSE 0]
        /\ Call(Older(r))
     \/ /\ safety[r] = "policy_send" /\ ~Dispatched(Now(r))
        /\ UNCHANGED <<kept, calls>>

\* The end of the request. The error it kept is the answer when no candidate is
\* left for an attempt that was not dispatched; any other answer retires it.
EndRequest(r) ==
  /\ ~CanRetry(r) \/ TimedOut(r)
  /\ Goto(r, "done")
  /\ \/ /\ ~Dispatched(Now(r)) /\ outcome[Now(r)].kind # "cancelled"
        /\ UNCHANGED <<kept, calls>>
     \/ kept' = [kept EXCEPT ![r] = 0] /\ Call(Older(r))
  /\ UNCHANGED try

Decide(r) ==
  /\ phase[r] = "deciding"
  /\ Retry(r) \/ EndRequest(r)
  /\ UNCHANGED <<safety, guarded, inbox, caller, mail, stopped, attemptVars, taskVars, checkoutVars,
                 tracker, lease, inflight>>

\* A process without caller writes the answer, releases its lease and ends; for a
\* caller the result goes to its mailbox.
Answer(r) ==
  LET a == Reply(r) IN
  /\ phase[r] = "done"
  /\ \/ /\ ~guarded[r]
        /\ Goto(r, "gone")
        /\ Call(Discard(r, a) \o Death(OwnerOf(r)))
        /\ UNCHANGED inbox
     \/ /\ guarded[r]
        /\ Goto(r, "delivering")
        /\ inbox' = [inbox EXCEPT ![r] = "full"]
        /\ UNCHANGED calls
  /\ UNCHANGED <<safety, guarded, caller, try, kept, mail, stopped, attemptVars, taskVars,
                 checkoutVars, tracker, lease, inflight>>

\* Variant: the caller adopts the lease and never gives it back.
AdoptOnly(r, a) == Transfer(a, CallerOf(r))

\* The caller adopts the lease, and releases it once the answer is written.
Adopt(r, a) == Transfer(a, CallerOf(r)) \o Release(a)

\* The caller takes the result and acknowledges; an item that it retired in the
\* meantime it rejects, and gives the lease back all the same.
Accept(r) ==
  LET a == Reply(r) IN
  /\ inbox[r] = "full" /\ caller[r] = "alive"
  /\ inbox' = [inbox EXCEPT ![r] = "read"]
  /\ Goto(r, "gone")
  /\ Call((IF outcome[a].leased THEN Adopt(r, a) ELSE <<>>)
          \o (IF phase[r] = "gone" THEN <<>> ELSE Death(OwnerOf(r))))
  /\ UNCHANGED <<safety, guarded, caller, try, kept, mail, stopped, attemptVars, taskVars,
                 checkoutVars, tracker, lease, inflight>>

\* Variant: a process that delivers does not hear that its caller died.
Unmonitored(r) == FALSE

\* The caller is gone: delivery ends.
Undeliverable(r) ==
  /\ phase[r] = "delivering" /\ caller[r] = "gone"
  /\ Goto(r, "gone")
  /\ Call(Death(OwnerOf(r)))
  /\ UNCHANGED <<safety, guarded, caller, try, kept, mail, stopped, inbox, attemptVars, taskVars,
                 checkoutVars, tracker, lease, inflight>>

\* The process is killed (expire_remaining), or a crash ends it; the task of an
\* attempt under way is linked to it.
KillOwner(r) ==
  /\ phase[r] # "gone"
  /\ Goto(r, "gone")
  /\ killed' = [killed EXCEPT ![Now(r)] = RunsTask(Now(r))]
  /\ Call(Death(OwnerOf(r)))
  /\ UNCHANGED <<safety, guarded, caller, try, kept, mail, stopped, inbox, attemptVars, task,
                 token, held, verdict, checkoutVars, tracker, lease, inflight>>

\* The guarded caller dies: a monitor tells the request.
CallerDies(r) ==
  /\ guarded[r] /\ caller[r] = "alive"
  /\ caller' = [caller EXCEPT ![r] = "gone"]
  /\ IF phase[r] \in Working THEN Post(r, "caller_down") ELSE UNCHANGED mail
  /\ Call(Death(CallerOf(r)))
  /\ UNCHANGED <<safety, guarded, inbox, phase, try, kept, stopped, attemptVars, taskVars,
                 checkoutVars, tracker, lease, inflight>>

\* The parent asks a request without caller to shut down: a message while an
\* attempt runs, the end of the process otherwise.
ParentStops(r) ==
  /\ ~guarded[r] /\ caller[r] = "alive" /\ phase[r] # "gone"
  /\ caller' = [caller EXCEPT ![r] = "gone"]
  /\ IF phase[r] \in Working \cup {"finishing"}
     THEN Post(r, "shutdown") /\ UNCHANGED <<phase, calls>>
     ELSE Goto(r, "gone") /\ Call(Death(OwnerOf(r))) /\ UNCHANGED mail
  /\ UNCHANGED <<safety, guarded, inbox, try, kept, stopped, attemptVars, taskVars, checkoutVars,
                 tracker, lease, inflight>>

-------------------------------------------------------------------------------
(* Deadlines. A deadline passes; the cutoff timer then tells the request.      *)

DeadlinePasses(r) ==
  /\ phase[r] \notin {"deciding", "done", "gone"} /\ deadline[Now(r)] = "ahead"
  /\ deadline' = [deadline EXCEPT ![Now(r)] = "passed"]
  /\ UNCHANGED <<requestVars, outcome, gate, taskVars, checkoutVars, tracker, admissionVars>>

CutoffFires(r) ==
  /\ phase[r] \in Working /\ deadline[Now(r)] = "passed"
  /\ deadline' = [deadline EXCEPT ![Now(r)] = "signalled"]
  /\ Post(r, "cutoff")
  /\ UNCHANGED <<safety, guarded, inbox, caller, phase, try, kept, stopped, outcome, gate,
                 taskVars, checkoutVars, tracker, admissionVars>>

-------------------------------------------------------------------------------
(* The transport task.                                                         *)

Step(a, from, to) == task[a] = from /\ task' = [task EXCEPT ![a] = to]
Judge(a, v) == verdict' = [verdict EXCEPT ![a] = v]
Detached == UNCHANGED <<requestVars, outcome, deadline>>  \* the request sees nothing yet

\* tracker_token, then the call to acquire.
ReadToken(a) ==
  /\ \/ /\ tracker.ready
        /\ Step(a, "tracking", "acquiring")
        /\ token' = [token EXCEPT ![a] = tracker.token]
        /\ Call(Acquire(a))
        /\ UNCHANGED verdict
     \/ /\ ~tracker.ready
        /\ Step(a, "tracking", "judged")
        /\ Judge(a, Predispatch(a))
        /\ UNCHANGED <<token, calls>>
  /\ UNCHANGED <<killed, held, gate, checkoutVars, tracker, lease, inflight>>
  /\ Detached

\* The call times out; a lease granted later stays with the task.
AcquireTimesOut(a) ==
  /\ Step(a, "acquiring", "judged")
  /\ Judge(a, Predispatch(a))
  /\ UNCHANGED <<killed, token, held, gate, checkoutVars, tracker, admissionVars>>
  /\ Detached

\* request_options refuses a deadline less than a millisecond away; send_started
\* needs a living owner, time left and an open gate.
OpenSend(a) ==
  LET authorized == Lives(OwnerOf(RequestOf(a))) /\ ~Passed(a) /\ gate[a].open IN
  /\ \/ /\ authorized
        /\ Step(a, "admitted", "opened")
        /\ gate' = [gate EXCEPT ![a] = Started(@)]
        /\ UNCHANGED verdict
     \/ /\ Step(a, "admitted", "judged")
        /\ Judge(a, Predispatch(a))
        /\ UNCHANGED gate
  /\ UNCHANGED <<killed, token, held, checkoutVars, tracker, admissionVars>>
  /\ Detached

\* final_deadline_gate, then the checkout task starts.
StartCheckout(a) ==
  /\ \/ /\ ~Passed(a)
        /\ Step(a, "opened", "yielding")
        /\ checkout' = [checkout EXCEPT ![a] = "connecting"]
        /\ UNCHANGED verdict
     \/ /\ Passed(a)
        /\ Step(a, "opened", "judged")
        /\ Judge(a, Predispatch(a))
        /\ UNCHANGED checkout
  /\ UNCHANGED <<killed, token, held, gate, session, written, tracker, admissionVars>>
  /\ Detached

\* session_healthy?
Healthy(a) == tracker.attached /\ tracker.token = token[a]

\* Variant: what the task observed is taken without asking if the handler was there.
TrustSession(a) == CertaintyOf(session[a])

\* dispatch_certainty
SessionCertainty(a) == IF session[a] = "not_started" /\ ~Healthy(a) THEN "indeterminate"
                       ELSE CertaintyOf(session[a])

\* The checkout task returned in time: handle_request_outcome.
Collect(a) ==
  /\ checkout[a] \in Results
  /\ \/ /\ checkout[a] = "failed"
        /\ Step(a, "yielding", "judged")
        /\ Judge(a, Failure(a, SessionCertainty(a)))
     \/ /\ checkout[a] = "limited"
        /\ Step(a, "yielding", "judged")
        /\ Judge(a, Responded(a, "error"))
     \/ /\ checkout[a] = "answered"
        /\ \/ /\ Step(a, "yielding", "judged")
              /\ \/ Judge(a, Failure(a, "dispatched"))     \* an HTTP error status
                 \/ Judge(a, Responded(a, "refused"))      \* status 429
           \/ Step(a, "yielding", "validating") /\ UNCHANGED verdict
  /\ UNCHANGED <<killed, token, held, gate, checkoutVars, tracker, admissionVars>>
  /\ Detached

\* Task.yield ran out: the checkout is killed, and once it is dead the evidence
\* is what the gate has.
StopCheckout(a) ==
  /\ Step(a, "yielding", "stopping")
  /\ UNCHANGED <<killed, token, held, verdict, gate, checkoutVars, tracker, admissionVars>>
  /\ Detached

CheckoutStopped(a) ==
  /\ ~RunsCheckout(a)
  /\ Step(a, "stopping", "judged")
  /\ session' = [session EXCEPT ![a] = gate[a].seen]
  /\ Judge(a, Failure(a, IF gate[a].seen = "not_started" /\ ~Healthy(a) THEN "indeterminate"
                         ELSE Snapshot(a)))
  /\ UNCHANGED <<killed, token, held, gate, checkout, written, tracker, admissionVars>>
  /\ Detached

\* settle_raw_response: a response validated in time takes its lease to the
\* owner; a refused retention makes it a local rejection.
Validate(a) ==
  /\ \/ /\ Passed(a)
        /\ Step(a, "validating", "judged")
        /\ Judge(a, Failure(a, "dispatched"))
        /\ UNCHANGED calls
     \/ /\ ~Passed(a)
        /\ \/ /\ Step(a, "validating", "judged")
              /\ \/ Judge(a, Responded(a, "invalid"))
                 \/ Judge(a, Responded(a, "error"))        \* reserve_retention refused
              /\ UNCHANGED calls
           \/ /\ Step(a, "validating", "retaining")
              /\ \E kind \in ResponseKinds : Judge(a, Responded(a, kind))
              /\ Call(Transfer(a, OwnerOf(RequestOf(a))))
  /\ UNCHANGED <<killed, token, held, gate, checkoutVars, tracker, lease, inflight>>
  /\ Detached

\* The call to transfer times out.
TransferTimesOut(a) ==
  /\ Step(a, "retaining", "judged")
  /\ Judge(a, [verdict[a] EXCEPT !.kind = "error"])
  /\ UNCHANGED <<killed, token, held, gate, checkoutVars, tracker, admissionVars>>
  /\ Detached

\* The task raises while it works on a response.
TaskCrashes(a) ==
  /\ Step(a, "validating", "ended")
  /\ IF Awaits(a) THEN Post(RequestOf(a), "exit") ELSE UNCHANGED mail
  /\ Call(Death(TaskOf(a)))
  /\ UNCHANGED <<safety, guarded, inbox, caller, phase, try, kept, stopped, attemptVars, killed,
                 token, held, verdict, checkoutVars, tracker, lease, inflight>>

\* observe_at: the gate learns the verdict, before the deadline only.
RecordVerdict(a) ==
  LET kind == verdict[a].kind IN
  /\ Step(a, "judged", "completing")
  /\ gate' = [gate EXCEPT ![a] =
       IF verdict[a].late \/ Passed(a) THEN @
       ELSE IF kind = "predispatch" THEN ProvedUnsent(@)
       ELSE IF verdict[a].certainty = "dispatched" THEN Confirmed(@) ELSE Started(@)]
  /\ UNCHANGED <<killed, token, held, verdict, checkoutVars, tracker, admissionVars>>
  /\ Detached

\* Variant: every lease the task holds is released, the one of its answer too.
AllHeld(a) == IF held[a] THEN Release(a) ELSE <<>>

\* A lease that no answer carries is released.
Unretained(a) == IF held[a] /\ ~verdict[a].leased THEN Release(a) ELSE <<>>

\* The task returns.
Complete(a) ==
  /\ Step(a, "completing", "ended")
  /\ Judge(a, [verdict[a] EXCEPT !.overdue = Passed(a)])
  /\ Call(Unretained(a) \o Death(TaskOf(a)))
  /\ IF Awaits(a) THEN Post(RequestOf(a), "completion") ELSE UNCHANGED mail
  /\ UNCHANGED <<safety, guarded, inbox, caller, phase, try, kept, stopped, attemptVars, killed,
                 token, held, checkoutVars, tracker, lease, inflight>>

\* The kill of a task arrives.
TaskDies(a) ==
  /\ killed[a] /\ RunsTask(a)
  /\ task' = [task EXCEPT ![a] = "ended"]
  /\ Call(Death(TaskOf(a)))
  /\ UNCHANGED <<killed, token, held, verdict, gate, checkoutVars, tracker, lease, inflight>>
  /\ Detached

-------------------------------------------------------------------------------
(* The checkout task: it writes to the socket, and the telemetry handler runs  *)
(* in it before and after the write.                                           *)

CheckoutStep(a, from, to) == checkout[a] = from /\ checkout' = [checkout EXCEPT ![a] = to]
Seen(a, seen) == session' = [session EXCEPT ![a] = IF tracker.attached THEN seen ELSE @]

NoConnection(a) ==
  /\ CheckoutStep(a, "connecting", "failed")
  /\ UNCHANGED <<requestVars, attemptVars, taskVars, session, written, tracker, admissionVars>>

\* Variant: the start of the write already counts as a dispatch.
ConfirmedAtStart(a) ==
  /\ CheckoutStep(a, "connecting", "sending")
  /\ Seen(a, "confirmed")
  /\ UNCHANGED <<requestVars, attemptVars, taskVars, written, tracker, admissionVars>>

\* [:finch, :send, :start]
SendStart(a) ==
  /\ CheckoutStep(a, "connecting", "sending")
  /\ Seen(a, "started")
  /\ UNCHANGED <<requestVars, attemptVars, taskVars, written, tracker, admissionVars>>

\* A write may fail after some bytes, or before any.
Write(a) ==
  /\ \/ /\ CheckoutStep(a, "sending", "sent")
        /\ written' = [written EXCEPT ![a] = TRUE]
     \/ /\ CheckoutStep(a, "sending", "failed")
        /\ \E any \in BOOLEAN : written' = [written EXCEPT ![a] = any]
  /\ UNCHANGED <<requestVars, attemptVars, taskVars, session, tracker, admissionVars>>

\* [:finch, :send, :stop]
SendStop(a) ==
  /\ CheckoutStep(a, "sent", "receiving")
  /\ Seen(a, "confirmed")
  /\ gate' = [gate EXCEPT ![a] = IF tracker.attached /\ ~Passed(a) THEN Confirmed(@) ELSE @]
  /\ UNCHANGED <<requestVars, outcome, deadline, taskVars, written, tracker, admissionVars>>

Respond(a) ==
  /\ \E result \in Results : CheckoutStep(a, "receiving", result)
  /\ UNCHANGED <<requestVars, attemptVars, taskVars, session, written, tracker, admissionVars>>

\* Killed by the task, or by its link to a task that is dead.
CheckoutDies(a) ==
  /\ RunsCheckout(a) /\ task[a] \in {"stopping", "ended"}
  /\ checkout' = [checkout EXCEPT ![a] = "dead"]
  /\ UNCHANGED <<requestVars, attemptVars, taskVars, session, written, tracker, admissionVars>>

-------------------------------------------------------------------------------
(* The telemetry handler: lost, noticed by the audit, attached anew.           *)

HandlerLost ==
  /\ tracker.attached /\ tracker.token < MaxRepairs
  /\ tracker' = [tracker EXCEPT !.attached = FALSE]
  /\ UNCHANGED <<requestVars, attemptVars, taskVars, checkoutVars, admissionVars>>

RepairBegins ==
  /\ ~tracker.attached /\ tracker.ready
  /\ tracker' = [tracker EXCEPT !.ready = FALSE, !.token = @ + 1]
  /\ UNCHANGED <<requestVars, attemptVars, taskVars, checkoutVars, admissionVars>>

RepairEnds ==
  /\ ~tracker.ready
  /\ tracker' = [tracker EXCEPT !.attached = TRUE, !.ready = TRUE]
  /\ UNCHANGED <<requestVars, attemptVars, taskVars, checkoutVars, admissionVars>>

-------------------------------------------------------------------------------
(* The admission worker serves its mailbox in order.                           *)

\* Variant: the holder is taken to be alive when the monitor is set.
AssumeAlive(p) == <<>>

\* Monitoring a dead process sends its down message at once.
Monitor(p) == IF Lives(p) THEN <<>> ELSE Down(p)

\* Variant: a lease that was transferred is uncounted once more.
UncountAll(freed) == inflight' = inflight - Cardinality(freed \cap {a \in Attempts : Leased(a)})
\* Variant: nothing is taken off the counter.
UncountNone(freed) == UNCHANGED inflight

\* release_request_count: only a lease still in use counts.
Uncount(freed) == inflight' = inflight - Cardinality({a \in freed : lease[a].active})

\* release_token, for every lease of a set.
FreeLeases(freed) ==
  /\ lease' = [a \in Attempts |-> IF a \in freed THEN NoLease ELSE lease[a]]
  /\ Uncount(freed)
  /\ calls' = Tail(calls)
  /\ UNCHANGED <<task, held, verdict>>

Grant(a, p) ==
  /\ inflight < NodeLimit
  /\ lease' = [lease EXCEPT ![a] = [holder |-> p, active |-> TRUE]]
  /\ inflight' = inflight + 1
  /\ calls' = Tail(calls) \o Monitor(p)
  /\ IF task[a] = "acquiring"
     THEN /\ task' = [task EXCEPT ![a] = "admitted"]
          /\ held' = [held EXCEPT ![a] = TRUE]
     ELSE UNCHANGED <<task, held>>
  /\ UNCHANGED verdict

Refuse(a) ==
  /\ inflight >= NodeLimit
  /\ calls' = Tail(calls)
  /\ IF task[a] = "acquiring"
     THEN task' = [task EXCEPT ![a] = "judged"] /\ Judge(a, Predispatch(a))
     ELSE UNCHANGED <<task, verdict>>
  /\ UNCHANGED <<lease, inflight, held>>

\* A transfer stops counting the lease against the node. The lease is known: its
\* holder waits for the reply.
Retain(a, p) ==
  /\ Leased(a)
  /\ lease' = [lease EXCEPT ![a] = [holder |-> p, active |-> FALSE]]
  /\ Uncount({a})
  /\ calls' = Tail(calls) \o Monitor(p)
  /\ IF task[a] = "retaining" /\ p = OwnerOf(RequestOf(a))
     THEN /\ task' = [task EXCEPT ![a] = "judged"]
          /\ Judge(a, [verdict[a] EXCEPT !.leased = TRUE])
     ELSE UNCHANGED <<task, verdict>>
  /\ UNCHANGED held

Serve ==
  LET m == Head(calls) IN
  /\ calls # <<>>
  /\ \/ m.call = "acquire"  /\ Grant(m.attempt, m.by)
     \/ m.call = "acquire"  /\ Refuse(m.attempt)
     \/ m.call = "transfer" /\ Retain(m.attempt, m.by)
     \/ m.call = "release"  /\ FreeLeases({m.attempt})
     \/ m.call = "down"     /\ FreeLeases({a \in Attempts : lease[a].holder = m.by})
  /\ UNCHANGED <<requestVars, attemptVars, killed, token, checkoutVars, tracker>>

-------------------------------------------------------------------------------
InitFrom(first) ==
  /\ caller = [r \in Requests |-> "alive"]
  /\ phase = [r \in Requests |-> "ready"]
  /\ try = [r \in Requests |-> first]
  /\ kept = [r \in Requests |-> 0]
  /\ mail = [r \in Requests |-> <<>>]
  /\ stopped = [r \in Requests |-> FALSE]
  /\ inbox = [r \in Requests |-> "empty"]
  /\ outcome = [a \in Attempts |-> NoFact]
  /\ gate = [a \in Attempts |-> NewGate]
  /\ deadline = [a \in Attempts |-> "ahead"]
  /\ task = [a \in Attempts |-> "none"]
  /\ killed = [a \in Attempts |-> FALSE]
  /\ token = [a \in Attempts |-> 0]
  /\ held = [a \in Attempts |-> FALSE]
  /\ verdict = [a \in Attempts |-> NoVerdict]
  /\ checkout = [a \in Attempts |-> "none"]
  /\ session = [a \in Attempts |-> "not_started"]
  /\ written = [a \in Attempts |-> FALSE]
  /\ tracker = [attached |-> TRUE, ready |-> TRUE, token |-> 0]
  /\ lease = [a \in Attempts |-> NoLease]
  /\ calls = <<>>
  /\ inflight = 0

Init ==
  /\ safety \in [Requests -> Safeties]
  /\ guarded \in [Requests -> BOOLEAN]
  /\ InitFrom(1)

RequestStep(r) ==
  \/ StartAttempt(r) \/ Receive(r) \/ Drain(r) \/ Settle(r) \/ Finish(r) \/ Decide(r)
  \/ Answer(r) \/ Undeliverable(r)

TaskStep(a) ==
  \/ ReadToken(a) \/ AcquireTimesOut(a) \/ OpenSend(a) \/ StartCheckout(a) \/ Collect(a)
  \/ StopCheckout(a) \/ CheckoutStopped(a) \/ Validate(a) \/ TransferTimesOut(a)
  \/ TaskCrashes(a) \/ RecordVerdict(a) \/ Complete(a)

SocketStep(a) ==
  NoConnection(a) \/ SendStart(a) \/ Write(a) \/ SendStop(a) \/ Respond(a)

Undisturbed ==
  \/ \E r \in Requests :
       RequestStep(r) \/ Accept(r) \/ DeadlinePasses(r) \/ CutoffFires(r)
  \/ \E a \in Attempts : TaskStep(a) \/ TaskDies(a) \/ SocketStep(a) \/ CheckoutDies(a)
  \/ Serve

Disturbed == \E r \in Requests : KillOwner(r) \/ CallerDies(r) \/ ParentStops(r)

HandlerStep == HandlerLost \/ RepairBegins \/ RepairEnds

Next == Undisturbed \/ Disturbed \/ HandlerStep

\* Processes that can run do, timers fire, signals arrive, a caller reads its
\* mailbox. Nobody has to die, to answer from the network, or to lose a handler.
Fairness ==
  /\ \A r \in Requests :
       /\ WF_vars(RequestStep(r)) /\ WF_vars(Accept(r))
       /\ WF_vars(DeadlinePasses(r)) /\ WF_vars(CutoffFires(r))
  /\ \A a \in Attempts :
       WF_vars(TaskStep(a)) /\ WF_vars(TaskDies(a)) /\ WF_vars(CheckoutDies(a))
  /\ WF_vars(Serve)

Spec == Init /\ [][Next]_vars
FairSpec == Spec /\ Fairness

-------------------------------------------------------------------------------
(* Properties.                                                                 *)

Phases == {"ready", "waiting", "draining", "settling", "finishing", "deciding", "done",
           "delivering", "gone"}
TaskSteps == {"none", "tracking", "acquiring", "admitted", "opened", "yielding", "stopping",
              "validating", "retaining", "judged", "completing", "ended"}
CheckoutSteps == {"none", "connecting", "sending", "sent", "receiving", "dead"} \cup Results
Messages == {"completion", "cutoff", "exit", "caller_down", "shutdown", "marker"}
Holders == {<<"none">>} \cup {TaskOf(a) : a \in Attempts}
             \cup {OwnerOf(r) : r \in Requests} \cup {CallerOf(r) : r \in Requests}

\* Type correctness.
TypeOK ==
  /\ safety \in [Requests -> Safeties]
  /\ guarded \in [Requests -> BOOLEAN] /\ caller \in [Requests -> {"alive", "gone"}]
  /\ phase \in [Requests -> Phases] /\ try \in [Requests -> 1 .. Tries]
  /\ kept \in [Requests -> 0 .. Tries]
  /\ mail \in [Requests -> Seq(Messages)]
  /\ stopped \in [Requests -> BOOLEAN] /\ inbox \in [Requests -> {"empty", "full", "read"}]
  /\ outcome \in [Attempts -> [kind : TaskKinds \cup {"none", "deadline", "cancelled"},
                               certainty : Certainties, leased : BOOLEAN]]
  /\ gate \in [Attempts -> [open : BOOLEAN, seen : Evidence]]
  /\ deadline \in [Attempts -> {"ahead", "passed", "signalled"}]
  /\ task \in [Attempts -> TaskSteps] /\ killed \in [Attempts -> BOOLEAN]
  /\ token \in [Attempts -> 0 .. MaxRepairs] /\ held \in [Attempts -> BOOLEAN]
  /\ verdict \in [Attempts -> [kind : TaskKinds \cup {"none"}, certainty : Certainties,
                               late : BOOLEAN, overdue : BOOLEAN, leased : BOOLEAN]]
  /\ checkout \in [Attempts -> CheckoutSteps]
  /\ session \in [Attempts -> Evidence] /\ written \in [Attempts -> BOOLEAN]
  /\ tracker \in [attached : BOOLEAN, ready : BOOLEAN, token : 0 .. MaxRepairs]
  /\ lease \in [Attempts -> [holder : Holders, active : BOOLEAN]]
  /\ inflight \in Nat

\* What an outcome claims of its dispatch is what the socket saw: an attempt that
\* was not dispatched has put nothing on its socket and never will, also after the
\* kill of its task and checkout; dispatch is claimed only for bytes that left. A
\* request writes to no more upstreams than it may, a raw transaction without a
\* policy to a single one, and to none after one whose outcome was the answer.
FinalKinds(r) == {"success", "error", "cancelled"}
              \cup (IF safety[r] = "replay_safe" THEN {} ELSE {"ambiguous"})
Reached(r) == {i \in 1 .. Tries : written[<<r, i>>]}
DispatchIsTruthful ==
  /\ \A a \in Attempts :
       /\ Committed(a) /\ outcome[a].certainty = "not_dispatched" => ~written[a]
       /\ outcome[a].certainty = "dispatched" => written[a]
  /\ \A r \in Requests :
       /\ Cardinality(Reached(r)) <= DispatchLimit(r)
       /\ \A i, j \in Reached(r) : i < j => outcome[<<r, i>>].kind \notin FinalKinds(r)

\* The node-wide counter is the number of leases in use, within its limit.
InflightIsExact == inflight = Cardinality(InUse) /\ inflight <= NodeLimit

\* Bytes are charged to somebody who is there: a lease has a living holder, or its
\* holder's down message is on its way, and while a request works on the answer of
\* an attempt, its last one or one it kept, that answer stays charged to who reads
\* it.
ReleasesOf(a) == {i \in DOMAIN calls : calls[i].call = "release" /\ calls[i].attempt = a}
InHand(r, a) ==
  \/ a = Now(r) /\ phase[r] \in {"finishing", "deciding", "done"} /\ outcome[a].leased
  \/ a = <<r, kept[r]>> /\ phase[r] \notin {"delivering", "gone"}
ChargeHasReader ==
  /\ \A a \in Attempts : Leased(a) =>
       \/ Lives(lease[a].holder)
       \/ \E i \in DOMAIN calls : calls[i].call = "down" /\ calls[i].by = lease[a].holder
  /\ \A r \in Requests, a \in Attempts :
       InHand(r, a) /\ (guarded[r] => caller[r] = "alive") =>
         /\ lease[a].holder \in {OwnerOf(r), CallerOf(r)}
         /\ ReleasesOf(a) = {}

\* A committed outcome is final, and its gate stays shut with what it proved.
OutcomeIsFinal ==
  [][\A a \in Attempts : Committed(a) => outcome'[a] = outcome[a] /\ gate'[a] = gate[a]]_vars

\* Every request ends, whatever its tasks and sockets do, since its deadline does;
\* and a lease comes back, but for the one a killed request left with its caller.
Stranded(a) == /\ lease[a].holder = CallerOf(RequestOf(a))
               /\ phase[RequestOf(a)] = "gone" /\ inbox[RequestOf(a)] = "empty"
RequestsEnd ==
  /\ \A r \in Requests : <>(phase[r] = "gone")
  /\ \A a \in Attempts : Leased(a) ~> (~Leased(a) \/ Stranded(a))
===============================================================================
