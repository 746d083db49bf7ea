---------------------------- MODULE AdmissionProofs ----------------------------
(***************************************************************************)
(* Proofs about the leases of RequestAttempt, which one worker grants from *)
(* its mailbox: the node-wide counter is exact and within its limit, every *)
(* variable keeps its type, and what is charged has a reader.              *)
(*                                                                         *)
(* The worker counts a lease when it serves the call that acquires it, so  *)
(* the first invariant says that an attempt asks once: its call is in the  *)
(* mailbox at most once, and not while a lease of it is in use. The last   *)
(* one says of every message to the worker why it was sent, and of the     *)
(* answer a request works on that nobody has asked to release it.          *)
(***************************************************************************)
EXTENDS RequestAttemptProofs

(* What the worker can find in its mailbox; Quiet messages ask for nothing. *)
Posted == [call : {"acquire", "transfer", "release"}, attempt : Attempts, by : Holders]
            \cup [call : {"down"}, attempt : {<<>>}, by : Holders]
Quiet == {m \in Posted : m.call # "acquire"}

Acquires(m, a) == m.call = "acquire" /\ m.attempt = a

Mailbox == calls \in Seq(Posted)

AcquiredOnce ==
  \A a \in Attempts : \A i, j \in 1 .. Len(calls) :
    Acquires(calls[i], a) /\ Acquires(calls[j], a) => i = j

AcquiredBeforeUse ==
  \A a \in Attempts : \A i \in 1 .. Len(calls) : Acquires(calls[i], a) => ~lease[a].active

UnaskedIsUnused ==
  \A a \in Attempts : task[a] \in Unasked =>
    /\ ~lease[a].active
    /\ \A i \in 1 .. Len(calls) : ~Acquires(calls[i], a)

Leases == DOMAIN lease = Attempts /\ \A a \in Attempts : lease[a].active \in BOOLEAN

Asking == Mailbox /\ AcquiredOnce /\ AcquiredBeforeUse /\ UnaskedIsUnused

Exact == IsFiniteSet(InUse) /\ InflightIsExact

Accounts == Leases /\ Asking /\ Exact /\ NotStarted

-----------------------------------------------------------------------------
(* The messages processes send, and what sending them leaves true.         *)
LEMMA Senders ==
  /\ \A a \in Attempts : TaskOf(a) \in Holders /\ RequestOf(a) \in Requests
  /\ \A r \in Requests : OwnerOf(r) \in Holders /\ CallerOf(r) \in Holders
BY DEF Holders, Attempts, RequestOf

LEMMA QuietMessages ==
  ASSUME NEW p \in Holders
  PROVE  /\ Down(p) \in Seq(Quiet) /\ Death(p) \in Seq(Quiet) /\ Monitor(p) \in Seq(Quiet)
         /\ <<>> \in Seq(Quiet)
         /\ \A a \in Attempts : Release(a) \in Seq(Quiet) /\ Transfer(a, p) \in Seq(Quiet)
  <1>1. Down(p) \in Seq(Quiet) /\ <<>> \in Seq(Quiet)
    BY DEF Down, Quiet, Posted
  <1>2. ASSUME NEW a \in Attempts PROVE Release(a) \in Seq(Quiet) /\ Transfer(a, p) \in Seq(Quiet)
    BY Senders DEF Release, Transfer, Quiet, Posted
  <1> QED
    BY <1>1, <1>2 DEF Death, Monitor

LEMMA QuietConcatenation ==
  ASSUME NEW s \in Seq(Quiet), NEW t \in Seq(Quiet)
  PROVE  s \o t \in Seq(Quiet)
OBVIOUS

LEMMA PostStep ==
  ASSUME Asking, NEW ms \in Seq(Quiet), Call(ms), lease' = lease,
         \A a \in Attempts : task'[a] \in Unasked => task[a] \in Unasked
  PROVE  Asking'
  <1>1. calls \in Seq(Posted) /\ ms \in Seq(Posted)
    BY DEF Asking, Mailbox, Quiet
  <1>2. calls' = calls \o ms
    BY DEF Call
  <1>3. calls' \in Seq(Posted) /\ Len(calls') = Len(calls) + Len(ms)
        /\ Len(calls) \in Nat /\ Len(ms) \in Nat
        /\ \A i \in 1 .. Len(calls') :
             calls'[i] = IF i <= Len(calls) THEN calls[i] ELSE ms[i - Len(calls)]
    BY <1>1, <1>2
  <1>4. \A i \in 1 .. Len(ms) : ms[i].call # "acquire"
    BY DEF Quiet
  <1>5. ASSUME NEW a \in Attempts, NEW i \in 1 .. Len(calls'), Acquires(calls'[i], a)
        PROVE  i \in 1 .. Len(calls) /\ Acquires(calls[i], a)
    <2>1. CASE i <= Len(calls)
      BY <1>3, <1>5, <2>1
    <2>2. CASE i > Len(calls)
      <3>1. i - Len(calls) \in 1 .. Len(ms)
        BY <1>3, <2>2
      <3> QED
        BY <1>3, <1>4, <1>5, <2>2, <3>1 DEF Acquires
    <2> QED
      BY <1>3, <2>1, <2>2
  <1> QED
    BY <1>3, <1>5 DEF Asking, Mailbox, AcquiredOnce, AcquiredBeforeUse, UnaskedIsUnused

(* A task asks: it had not, so its call is the only one of its attempt.    *)
LEMMA AskStep ==
  ASSUME Asking, NEW a \in Attempts, task[a] = "tracking", Call(Acquire(a)), lease' = lease,
         DOMAIN task = Attempts, task' = [task EXCEPT ![a] = "acquiring"]
  PROVE  Asking'
  <1> DEFINE m == [call |-> "acquire", attempt |-> a, by |-> TaskOf(a)]
  <1>1. calls \in Seq(Posted) /\ m \in Posted
    BY Senders DEF Asking, Mailbox, Posted
  <1>2. calls' = calls \o <<m>>
    BY DEF Call, Acquire
  <1>3. calls' \in Seq(Posted) /\ Len(calls') = Len(calls) + 1 /\ Len(calls) \in Nat
        /\ calls'[Len(calls) + 1] = m
        /\ \A i \in 1 .. Len(calls) : calls'[i] = calls[i]
    BY <1>1, <1>2
  <1>4. ASSUME NEW b \in Attempts, NEW i \in 1 .. Len(calls'), Acquires(calls'[i], b)
        PROVE  IF b = a THEN i = Len(calls) + 1
                        ELSE i \in 1 .. Len(calls) /\ Acquires(calls[i], b)
    <2>1. CASE i = Len(calls) + 1
      BY <1>3, <1>4, <2>1 DEF Acquires
    <2>2. CASE i \in 1 .. Len(calls)
      BY <1>3, <1>4, <2>2 DEF Asking, UnaskedIsUnused, Unasked
    <2> QED
      BY <1>3, <2>1, <2>2
  <1>5. ~lease[a].active
    BY DEF Asking, UnaskedIsUnused, Unasked
  <1>6. \A b \in Attempts : task'[b] \in Unasked => b # a /\ task[b] \in Unasked
    BY DEF Unasked
  <1> QED
    BY <1>3, <1>4, <1>5, <1>6
    DEF Asking, Mailbox, AcquiredOnce, AcquiredBeforeUse, UnaskedIsUnused

-----------------------------------------------------------------------------
(* The worker takes the first message and may post a quiet one.            *)
LEMMA TakeStep ==
  ASSUME Asking, calls # <<>>, NEW ms \in Seq(Quiet), calls' = Tail(calls) \o ms,
         \A a \in Attempts : lease'[a].active => lease[a].active \/ Acquires(Head(calls), a),
         \A a \in Attempts : task'[a] \in Unasked => task[a] \in Unasked
  PROVE  Asking'
  <1>1. /\ calls \in Seq(Posted) /\ ms \in Seq(Posted) /\ Len(calls) \in Nat \ {0}
        /\ Head(calls) = calls[1]
    BY DEF Asking, Mailbox, Quiet
  <1>2. /\ Tail(calls) \in Seq(Posted) /\ Len(Tail(calls)) = Len(calls) - 1
        /\ \A i \in 1 .. Len(calls) - 1 : Tail(calls)[i] = calls[i + 1]
    BY <1>1
  <1>3. /\ calls' \in Seq(Posted) /\ Len(calls') = Len(calls) - 1 + Len(ms)
        /\ Len(ms) \in Nat
        /\ \A i \in 1 .. Len(calls') :
             calls'[i] = IF i <= Len(calls) - 1 THEN calls[i + 1]
                         ELSE ms[i - (Len(calls) - 1)]
    BY <1>1, <1>2
  <1>4. \A i \in 1 .. Len(ms) : ms[i].call # "acquire"
    BY DEF Quiet
  <1>5. ASSUME NEW a \in Attempts, NEW i \in 1 .. Len(calls'), Acquires(calls'[i], a)
        PROVE  i + 1 \in 1 .. Len(calls) /\ Acquires(calls[i + 1], a)
    <2>1. CASE i <= Len(calls) - 1
      BY <1>1, <1>3, <1>5, <2>1
    <2>2. CASE i > Len(calls) - 1
      <3>1. i - (Len(calls) - 1) \in 1 .. Len(ms)
        BY <1>1, <1>3, <2>2
      <3> QED
        BY <1>3, <1>4, <1>5, <2>2, <3>1 DEF Acquires
    <2> QED
      BY <1>1, <1>3, <2>1, <2>2
  <1>6. AcquiredOnce'
    <2>1. ASSUME NEW a \in Attempts, NEW i \in 1 .. Len(calls'), NEW j \in 1 .. Len(calls'),
                 Acquires(calls'[i], a), Acquires(calls'[j], a)
          PROVE  i = j
      <3>1. i + 1 = j + 1
        BY <1>5, <2>1 DEF Asking, AcquiredOnce
      <3> QED
        BY <1>3, <3>1
    <2> QED
      BY <2>1 DEF AcquiredOnce
  <1>7. ASSUME NEW a \in Attempts, Acquires(Head(calls), a)
        PROVE  /\ \A i \in 1 .. Len(calls') : ~Acquires(calls'[i], a)
               /\ task[a] \notin Unasked
    <2>1. 1 \in 1 .. Len(calls) /\ Acquires(calls[1], a)
      BY <1>1, <1>7
    <2>2. ASSUME NEW i \in 1 .. Len(calls'), Acquires(calls'[i], a) PROVE FALSE
      <3>1. i + 1 = 1
        BY <1>5, <2>1, <2>2 DEF Asking, AcquiredOnce
      <3> QED
        BY <1>3, <3>1
    <2> QED
      BY <2>1, <2>2 DEF Asking, UnaskedIsUnused
  <1>8. AcquiredBeforeUse'
    BY <1>5, <1>7 DEF Asking, AcquiredBeforeUse
  <1>9. UnaskedIsUnused'
    BY <1>5, <1>7 DEF Asking, UnaskedIsUnused
  <1> QED
    BY <1>3, <1>6, <1>8, <1>9 DEF Asking, Mailbox

-----------------------------------------------------------------------------
(* The steps outside the worker send quiet messages and touch no lease.    *)
Sends == UNCHANGED <<lease, inflight>> /\ \E ms \in Seq(Quiet) : Call(ms)

LEMMA Silence ==
  ASSUME Mailbox, UNCHANGED <<lease, inflight, calls>>
  PROVE  Sends
  <1>1. <<>> \in Seq(Quiet) /\ calls \o <<>> = calls
    BY DEF Mailbox
  <1> QED
    BY <1>1 DEF Sends, Call

LEMMA TakeSends ==
  ASSUME Mailbox, NEW a \in Attempts, TakeCompletion(a) \/ TakeExit(a), UNCHANGED <<lease, inflight>>
  PROVE  Sends
  <1>1. Release(a) \in Seq(Quiet) /\ <<>> \in Seq(Quiet)
    BY Senders, QuietMessages
  <1>2. CASE TakeCompletion(a)
    BY <1>1, <1>2 DEF TakeCompletion, Sends
  <1>3. CASE TakeExit(a)
    BY <1>3, Silence DEF TakeExit
  <1> QED
    BY <1>2, <1>3

LEMMA RequestSends ==
  ASSUME Mailbox, Inv, RequestTypes, NEW r \in Requests,
         RequestStep(r) \/ Accept(r) \/ DeadlinePasses(r) \/ CutoffFires(r)
           \/ KillOwner(r) \/ CallerDies(r) \/ ParentStops(r)
  PROVE  Sends
  <1>0. /\ Now(r) \in Attempts /\ OwnerOf(r) \in Holders /\ CallerOf(r) \in Holders
        /\ <<>> \in Seq(Quiet)
        /\ Death(OwnerOf(r)) \in Seq(Quiet) /\ Death(CallerOf(r)) \in Seq(Quiet)
        /\ Release(Now(r)) \in Seq(Quiet) /\ Transfer(Now(r), CallerOf(r)) \in Seq(Quiet)
    BY PresentAttempt, Senders, QuietMessages
  <1>a. /\ Older(r) \in Seq(Quiet)
        /\ \A a \in {Now(r), Reply(r)} :
             /\ Release(a) \in Seq(Quiet) /\ Transfer(a, CallerOf(r)) \in Seq(Quiet)
             /\ Discard(r, a) \in Seq(Quiet)
    <2>1. kept[r] = 0 \/ <<r, kept[r]>> \in Attempts
      BY BoundsAssumption DEF RequestTypes, Attempts
    <2>2. Reply(r) \in Attempts
      BY <1>0, <2>1 DEF Reply
    <2> QED
      BY <1>0, <2>1, <2>2, Senders, QuietMessages DEF Older, Discard
  <1>1. CASE StartAttempt(r) \/ Settle(r) \/ DeadlinePasses(r) \/ CutoffFires(r)
    BY <1>1, Silence DEF StartAttempt, Settle, DeadlinePasses, CutoffFires, admissionVars
  <1>2. CASE Receive(r) \/ Drain(r)
    <2>1. UNCHANGED <<lease, inflight>>
          /\ (TakeCompletion(Now(r)) \/ TakeExit(Now(r)) \/ UNCHANGED calls)
      BY <1>2 DEF Receive, Drain
    <2> QED
      BY <1>0, <2>1, TakeSends, Silence
  <1>3. CASE Finish(r)
    <2>1. PICK s \in {<<>>, Release(Now(r))}, t \in {<<>>, Transfer(Now(r), CallerOf(r))},
               u \in {<<>>, Death(OwnerOf(r))} : Call(s \o t \o u)
      BY <1>3 DEF Finish
    <2>2. s \o t \in Seq(Quiet)
      BY <1>0, QuietConcatenation
    <2>3. s \o t \o u \in Seq(Quiet)
      BY <1>0, <2>2, QuietConcatenation
    <2> QED
      BY <1>3, <2>1, <2>3 DEF Finish, Sends
  <1>4. CASE Decide(r)
    <2>1. UNCHANGED <<lease, inflight>>
      BY <1>4 DEF Decide
    <2>2. Call(Discard(r, Now(r))) \/ Call(Older(r)) \/ UNCHANGED calls
      BY <1>4 DEF Decide, Retry, EndRequest
    <2> QED
      BY <1>a, <2>1, <2>2, Silence DEF Sends
  <1>5. CASE Answer(r)
    <2>1. CASE UNCHANGED calls
      BY <1>5, <2>1, Silence DEF Answer
    <2>2. CASE Call(Discard(r, Reply(r)) \o Death(OwnerOf(r)))
      <3>1. Discard(r, Reply(r)) \o Death(OwnerOf(r)) \in Seq(Quiet)
        BY <1>0, <1>a, QuietConcatenation
      <3> QED
        BY <1>5, <2>2, <3>1 DEF Answer, Sends
    <2> QED
      BY <1>5, <2>1, <2>2 DEF Answer
  <1>6. CASE Accept(r)
    <2>1. Adopt(r, Reply(r)) \in Seq(Quiet)
      BY <1>a, QuietConcatenation DEF Adopt
    <2>2. PICK s \in {<<>>, Adopt(r, Reply(r))}, t \in {<<>>, Death(OwnerOf(r))} : Call(s \o t)
      BY <1>6 DEF Accept
    <2>3. s \o t \in Seq(Quiet)
      BY <1>0, <2>1, QuietConcatenation
    <2> QED
      BY <1>6, <2>2, <2>3 DEF Accept, Sends
  <1>7. CASE Undeliverable(r) \/ KillOwner(r) \/ CallerDies(r)
    BY <1>0, <1>7 DEF Undeliverable, KillOwner, CallerDies, Sends
  <1>8. CASE ParentStops(r)
    BY <1>0, <1>8, Silence DEF ParentStops, Sends
  <1> QED
    BY <1>1, <1>2, <1>3, <1>4, <1>5, <1>6, <1>7, <1>8 DEF RequestStep

LEMMA AttemptSends ==
  ASSUME Mailbox, NEW a \in Attempts,
         TaskStep(a) \/ TaskDies(a) \/ SocketStep(a) \/ CheckoutDies(a)
  PROVE  Sends \/ (/\ Step(a, "tracking", "acquiring") /\ Call(Acquire(a))
                   /\ UNCHANGED <<lease, inflight>>)
  <1>0. /\ <<>> \in Seq(Quiet) /\ Death(TaskOf(a)) \in Seq(Quiet) /\ Release(a) \in Seq(Quiet)
        /\ Transfer(a, OwnerOf(RequestOf(a))) \in Seq(Quiet)
    BY Senders, QuietMessages
  <1>1. CASE ReadToken(a)
    BY <1>1, Silence DEF ReadToken
  <1>2. CASE Validate(a)
    BY <1>0, <1>2, Silence DEF Validate, Sends
  <1>3. CASE TaskCrashes(a) \/ TaskDies(a)
    BY <1>0, <1>3 DEF TaskCrashes, TaskDies, Sends
  <1>4. CASE Complete(a)
    <2>1. Unretained(a) \in Seq(Quiet)
      BY <1>0 DEF Unretained
    <2>2. Unretained(a) \o Death(TaskOf(a)) \in Seq(Quiet)
      BY <1>0, <2>1, QuietConcatenation
    <2> QED
      BY <1>4, <2>2 DEF Complete, Sends
  <1>5. CASE \/ AcquireTimesOut(a) \/ OpenSend(a) \/ StartCheckout(a) \/ Collect(a)
             \/ StopCheckout(a) \/ CheckoutStopped(a) \/ TransferTimesOut(a) \/ RecordVerdict(a)
    <2>1. UNCHANGED admissionVars
      BY <1>5 DEF AcquireTimesOut, OpenSend, StartCheckout, Collect, StopCheckout,
                  CheckoutStopped, TransferTimesOut, RecordVerdict
    <2> QED
      BY <2>1, Silence DEF admissionVars
  <1>6. CASE SocketStep(a) \/ CheckoutDies(a)
    <2>1. UNCHANGED admissionVars
      BY <1>6 DEF SocketStep, NoConnection, SendStart, Write, SendStop, Respond, CheckoutDies
    <2> QED
      BY <2>1, Silence DEF admissionVars
  <1> QED
    BY <1>1, <1>2, <1>3, <1>4, <1>5, <1>6 DEF TaskStep

-----------------------------------------------------------------------------
(* The worker serves one message.                                          *)
LEMMA FirstMessage ==
  ASSUME Mailbox, calls # <<>>
  PROVE  /\ Head(calls) \in Posted
         /\ Head(calls).by \in Holders
         /\ Head(calls).call \in {"acquire", "transfer", "release"} => Head(calls).attempt \in Attempts
         /\ Len(calls) \in Nat \ {0} /\ calls[1] = Head(calls)
         /\ Tail(calls) \in Seq(Posted) /\ Tail(calls) \o <<>> = Tail(calls)
  <1>1. Head(calls) \in Posted /\ Tail(calls) \in Seq(Posted) /\ Tail(calls) \o <<>> = Tail(calls)
        /\ Len(calls) \in Nat \ {0} /\ calls[1] = Head(calls)
    BY DEF Mailbox
  <1>2. <<"none">> \in Holders
    BY DEF Holders
  <1> QED
    BY <1>1, <1>2 DEF Posted

(* Leases given back are those taken off the counter.                      *)
LEMMA FreeCounts ==
  ASSUME Leases, Exact, NEW freed \in SUBSET Attempts, FreeLeases(freed)
  PROVE  /\ Leases' /\ Exact'
         /\ \A a \in Attempts : lease'[a].active => lease[a].active
  <1>1. /\ DOMAIN lease' = Attempts
        /\ \A a \in freed : lease'[a] = NoLease
        /\ \A a \in Attempts \ freed : lease'[a] = lease[a]
    BY DEF FreeLeases
  <1>2. NoLease.active = FALSE
    BY DEF NoLease
  <1>3. InUse' = InUse \ freed
    BY <1>1, <1>2 DEF InUse
  <1>4. {a \in freed : lease[a].active} = InUse \cap freed
    BY DEF InUse
  <1>5. inflight' = inflight - Cardinality(InUse \cap freed)
    BY <1>4 DEF FreeLeases, Uncount
  <1>6. /\ IsFiniteSet(InUse \ freed) /\ IsFiniteSet(InUse \cap freed)
        /\ Cardinality(InUse \ freed) = Cardinality(InUse) - Cardinality(InUse \cap freed)
    BY FS_Difference, FS_Subset DEF Exact
  <1>7. Cardinality(InUse \cap freed) \in Nat /\ Cardinality(InUse) \in Nat
    BY <1>6, FS_CardinalityType DEF Exact
  <1>8. Exact'
    BY <1>3, <1>5, <1>6, <1>7, BoundsAssumption DEF Exact, InflightIsExact
  <1>9. Leases'
    BY <1>1, <1>2 DEF Leases
  <1> QED
    BY <1>1, <1>2, <1>8, <1>9

LEMMA GrantCounts ==
  ASSUME Leases, Exact, NEW a \in Attempts, NEW p, ~lease[a].active, Grant(a, p)
  PROVE  /\ Leases' /\ Exact'
         /\ \A b \in Attempts \ {a} : lease'[b] = lease[b]
  <1>1. /\ DOMAIN lease' = Attempts /\ lease'[a].active = TRUE
        /\ \A b \in Attempts \ {a} : lease'[b] = lease[b]
    BY DEF Grant, Leases
  <1>2. InUse' = InUse \cup {a} /\ a \notin InUse
    BY <1>1 DEF InUse
  <1>3. /\ IsFiniteSet(InUse \cup {a}) /\ Cardinality(InUse \cup {a}) = Cardinality(InUse) + 1
        /\ Cardinality(InUse) \in Nat
    BY <1>2, FS_AddElement, FS_CardinalityType DEF Exact
  <1>4. inflight' = inflight + 1 /\ inflight < NodeLimit
    BY DEF Grant
  <1>5. Exact'
    BY <1>2, <1>3, <1>4, BoundsAssumption DEF Exact, InflightIsExact
  <1>6. Leases'
    BY <1>1 DEF Leases
  <1> QED
    BY <1>1, <1>5, <1>6

LEMMA RetainCounts ==
  ASSUME Leases, Exact, NEW a \in Attempts, NEW p, Retain(a, p)
  PROVE  /\ Leases' /\ Exact'
         /\ \A b \in Attempts : lease'[b].active => lease[b].active
  <1>1. /\ DOMAIN lease' = Attempts /\ lease'[a].active = FALSE
        /\ \A b \in Attempts \ {a} : lease'[b] = lease[b]
    BY DEF Retain, Leases
  <1>2. InUse' = InUse \ {a}
    BY <1>1 DEF InUse
  <1>3. {b \in {a} : lease[b].active} = InUse \cap {a}
    BY DEF InUse
  <1>4. inflight' = inflight - Cardinality(InUse \cap {a})
    BY <1>3 DEF Retain, Uncount
  <1>5. /\ IsFiniteSet(InUse \ {a}) /\ IsFiniteSet(InUse \cap {a})
        /\ Cardinality(InUse \ {a}) = Cardinality(InUse) - Cardinality(InUse \cap {a})
    BY FS_Difference, FS_Subset DEF Exact
  <1>6. Cardinality(InUse \cap {a}) \in Nat /\ Cardinality(InUse) \in Nat
    BY <1>5, FS_CardinalityType DEF Exact
  <1>7. Exact'
    BY <1>2, <1>4, <1>5, <1>6, BoundsAssumption DEF Exact, InflightIsExact
  <1>8. Leases'
    BY <1>1 DEF Leases
  <1> QED
    BY <1>1, <1>7, <1>8

(* How a message is served.                                                *)
Granted(a, p) == Acquires(Head(calls), a) /\ Grant(a, p)
Served == \/ \E a \in Attempts, p \in Holders : Granted(a, p) \/ Refuse(a) \/ Retain(a, p)
          \/ \E freed \in SUBSET Attempts : FreeLeases(freed)

LEMMA ServeIsServed ==
  ASSUME Mailbox, Serve
  PROVE  Served
  <1>1. PICK m \in Posted : m = Head(calls)
    BY FirstMessage DEF Serve
  <1>2. m.by \in Holders
    BY <1>1, FirstMessage DEF Serve
  <1>3. CASE m.call = "down"
    BY <1>1, <1>3 DEF Serve, Served
  <1>4. CASE m.call # "down"
    <2>1. m.attempt \in Attempts
      BY <1>4 DEF Posted
    <2> QED
      BY <1>1, <1>2, <1>4, <2>1 DEF Serve, Served, Granted, Acquires
  <1> QED
    BY <1>3, <1>4

LEMMA ServeTasks ==
  ASSUME NotStarted, Served
  PROVE  /\ DOMAIN task' = Attempts
         /\ \A b \in Attempts : task[b] = "none" => task'[b] = "none"
         /\ \A b \in Attempts : task'[b] \in Unasked => task[b] \in Unasked
  <1>1. \/ UNCHANGED task
        \/ \E a \in Attempts, to \in {"admitted", "judged"} :
             /\ task[a] \in {"acquiring", "retaining"}
             /\ task' = [task EXCEPT ![a] = to]
    BY DEF Served, Granted, Grant, Refuse, Retain, FreeLeases
  <1> QED
    BY <1>1 DEF NotStarted, Unasked

LEMMA ServeMailbox ==
  ASSUME Mailbox, calls # <<>>, Served
  PROVE  \E ms \in Seq(Quiet) : calls' = Tail(calls) \o ms
  <1>1. \/ calls' = Tail(calls)
        \/ \E p \in Holders : calls' = Tail(calls) \o Monitor(p)
    BY DEF Served, Granted, Grant, Refuse, Retain, FreeLeases
  <1>2. <<>> \in Seq(Quiet) /\ Tail(calls) \o <<>> = Tail(calls)
    BY FirstMessage
  <1> QED
    BY <1>1, <1>2, QuietMessages

LEMMA ServeLeases ==
  ASSUME Leases, Exact, Asking, calls # <<>>, Served
  PROVE  /\ Leases' /\ Exact'
         /\ \A b \in Attempts : lease'[b].active => lease[b].active \/ Acquires(Head(calls), b)
  <1>1. ASSUME NEW a \in Attempts, NEW p \in Holders, Granted(a, p)
        PROVE  /\ Leases' /\ Exact'
               /\ \A b \in Attempts : lease'[b].active =>
                    lease[b].active \/ Acquires(Head(calls), b)
    <2>1. 1 \in 1 .. Len(calls) /\ calls[1] = Head(calls)
      BY FirstMessage DEF Asking
    <2>2. ~lease[a].active
      BY <1>1, <2>1 DEF Asking, AcquiredBeforeUse, Granted
    <2>3. /\ Leases' /\ Exact'
          /\ \A b \in Attempts \ {a} : lease'[b] = lease[b]
      BY <1>1, <2>2, GrantCounts DEF Granted
    <2> QED
      BY <1>1, <2>3 DEF Granted
  <1>2. ASSUME NEW a \in Attempts, Refuse(a)
        PROVE  Leases' /\ Exact' /\ lease' = lease
    <2>1. UNCHANGED <<lease, inflight>>
      BY <1>2 DEF Refuse
    <2> QED
      BY <2>1 DEF Leases, Exact, InflightIsExact, InUse
  <1> QED
    BY <1>1, <1>2, RetainCounts, FreeCounts DEF Served

LEMMA ServeAccounts ==
  ASSUME Accounts, Inv, Serve
  PROVE  Accounts'
  <1>1. /\ Leases /\ Asking /\ Exact /\ NotStarted /\ Mailbox /\ calls # <<>>
        /\ UNCHANGED <<phase, try>>
    BY DEF Accounts, Asking, Serve, requestVars
  <1>2. Served
    BY <1>1, ServeIsServed
  <1>3. NotStarted' /\ \A b \in Attempts : task'[b] \in Unasked => task[b] \in Unasked
    BY <1>1, <1>2, ServeTasks, StartedStep
  <1>4. /\ Leases' /\ Exact'
        /\ \A b \in Attempts : lease'[b].active => lease[b].active \/ Acquires(Head(calls), b)
    BY <1>1, <1>2, ServeLeases
  <1>5. PICK ms \in Seq(Quiet) : calls' = Tail(calls) \o ms
    BY <1>1, <1>2, ServeMailbox
  <1>6. Asking'
    BY <1>1, <1>3, <1>4, <1>5, TakeStep
  <1> QED
    BY <1>3, <1>4, <1>6 DEF Accounts

LEMMA SameLeases ==
  ASSUME Leases, Exact, UNCHANGED <<lease, inflight>>
  PROVE  Leases' /\ Exact'
BY DEF Leases, Exact, InflightIsExact, InUse

LEMMA SendAccounts ==
  ASSUME Accounts, Sends, NotStarted', \A a \in Attempts : task'[a] \in Unasked => task[a] \in Unasked
  PROVE  Accounts'
  <1>1. PICK ms \in Seq(Quiet) : Call(ms) /\ UNCHANGED <<lease, inflight>>
    BY DEF Sends
  <1>2. Asking'
    BY <1>1, PostStep DEF Accounts
  <1> QED
    BY <1>1, <1>2, SameLeases DEF Accounts

LEMMA AccountsStep ==
  ASSUME Accounts, DispatchInv, [Next]_vars
  PROVE  Accounts'
  <1>0. Mailbox /\ NotStarted /\ Inv /\ RequestTypes
    BY DEF Accounts, Asking, DispatchInv, RequestsInv
  <1>1. ASSUME NEW r \in Requests,
               RequestStep(r) \/ Accept(r) \/ DeadlinePasses(r) \/ CutoffFires(r)
                 \/ KillOwner(r) \/ CallerDies(r) \/ ParentStops(r)
        PROVE  Accounts'
    BY <1>0, <1>1, RequestSends, RequestStarts, SendAccounts
  <1>2. ASSUME NEW a \in Attempts,
               TaskStep(a) \/ TaskDies(a) \/ SocketStep(a) \/ CheckoutDies(a)
        PROVE  Accounts'
    <2>1. NotStarted' /\ \A b \in Attempts : task'[b] \in Unasked => task[b] \in Unasked
      BY <1>0, <1>2, AttemptStarts
    <2>2. CASE Sends
      BY <2>1, <2>2, SendAccounts
    <2>3. CASE /\ Step(a, "tracking", "acquiring") /\ Call(Acquire(a))
               /\ UNCHANGED <<lease, inflight>>
      <3>1. Asking'
        BY <1>0, <2>3, AskStep DEF Accounts, Step, NotStarted
      <3> QED
        BY <2>1, <2>3, <3>1, SameLeases DEF Accounts
    <2> QED
      BY <1>0, <1>2, <2>2, <2>3, AttemptSends
  <1>3. CASE Serve
    BY <1>0, <1>3, ServeAccounts
  <1>4. CASE HandlerStep \/ UNCHANGED vars
    <2>1. UNCHANGED <<phase, try, task, lease, calls, inflight>>
      BY <1>4 DEF HandlerStep, HandlerLost, RepairBegins, RepairEnds, vars, requestVars, taskVars,
                  admissionVars
    <2>2. Sends
      BY <1>0, <2>1, Silence
    <2>3. NotStarted'
      BY <1>0, <2>1, StartedStep DEF NotStarted
    <2> QED
      BY <2>1, <2>2, <2>3, SendAccounts
  <1> QED
    BY <1>1, <1>2, <1>3, <1>4 DEF Next, Undisturbed, Disturbed

LEMMA AccountsInit == Init => Accounts
  <1> SUFFICES ASSUME Init PROVE Accounts
    OBVIOUS
  <1>1. lease = [a \in Attempts |-> NoLease] /\ NoLease.active = FALSE /\ inflight = 0
        /\ calls = <<>> /\ task = [a \in Attempts |-> "none"]
    BY DEF Init, InitFrom, NoLease
  <1>2. InUse = {}
    BY <1>1 DEF InUse
  <1>3. Exact
    BY <1>1, <1>2, FS_EmptySet, BoundsAssumption DEF Exact, InflightIsExact
  <1>4. Leases /\ Asking
    <2>1. calls \in Seq(Posted) /\ Len(calls) = 0
      BY <1>1
    <2>2. \A a \in Attempts : lease[a].active = FALSE
      BY <1>1
    <2>3. Leases
      BY <1>1, <2>2 DEF Leases
    <2>4. \A i \in 1 .. Len(calls) : FALSE
      BY <2>1
    <2>5. AcquiredOnce /\ AcquiredBeforeUse /\ UnaskedIsUnused
      BY <2>2, <2>4 DEF AcquiredOnce, AcquiredBeforeUse, UnaskedIsUnused
    <2> QED
      BY <2>1, <2>3, <2>5 DEF Asking, Mailbox
  <1>5. NotStarted
    <2>1. \A r \in Requests : Now(r) \in Attempts
      BY InvariantInit, PresentAttempt
    <2>2. \A r \in Requests, i \in 1 .. Tries : <<r, i>> \in Attempts
      BY DEF Attempts
    <2> QED
      BY <1>1, <2>1, <2>2 DEF NotStarted
  <1> QED
    BY <1>3, <1>4, <1>5 DEF Accounts

(* The counter of the node (upstream_admission.ex, reserve and             *)
(* release_request_count) is the number of leases in use and never exceeds *)
(* its limit, across time-outs, kills, transfers and late grants.          *)
THEOREM CounterIsExact == Spec => []InflightIsExact
  <1>1. Accounts /\ DispatchInv /\ [Next]_vars => Accounts'
    BY AccountsStep
  <1>2. Accounts => InflightIsExact
    BY DEF Accounts, Exact
  <1> QED
    BY <1>1, <1>2, DispatchInit, DispatchNext, AccountsInit, PTL DEF Spec

-----------------------------------------------------------------------------
(* A lease is held by a task, by the owner of a request or by its caller.  *)
Lease == [holder : Holders, active : BOOLEAN]
LeaseTypes == lease \in [Attempts -> Lease]

LEMMA LeaseValues ==
  ASSUME NEW p \in Holders, NEW active \in BOOLEAN
  PROVE  [holder |-> p, active |-> active] \in Lease /\ NoLease \in Lease
BY DEF Lease, NoLease, Holders

LEMMA OnlyTheWorkerLeases ==
  ASSUME Accounts, DispatchInv, [Next]_vars
  PROVE  lease' = lease \/ Serve
  <1>1. Mailbox /\ Inv /\ RequestTypes
    BY DEF Accounts, Asking, DispatchInv, RequestsInv
  <1> QED
    BY <1>1, RequestSends, AttemptSends
    DEF Next, Undisturbed, Disturbed, HandlerStep, HandlerLost, RepairBegins, RepairEnds, Sends,
        vars, admissionVars

LEMMA LeaseTypesStep ==
  ASSUME Accounts, DispatchInv, LeaseTypes, [Next]_vars
  PROVE  LeaseTypes'
  <1>1. CASE lease' = lease
    BY <1>1 DEF LeaseTypes
  <1>2. CASE Serve
    <2>1. Served
      BY <1>2, ServeIsServed DEF Accounts, Asking
    <2>2. ASSUME NEW a \in Attempts, NEW p \in Holders, Grant(a, p) \/ Retain(a, p)
          PROVE  LeaseTypes'
      <3>1. PICK active \in BOOLEAN : lease' = [lease EXCEPT ![a] = [holder |-> p, active |-> active]]
        BY <2>2 DEF Grant, Retain
      <3> QED
        BY <3>1, LeaseValues DEF LeaseTypes
    <2>3. ASSUME NEW a \in Attempts, Refuse(a) PROVE LeaseTypes'
      BY <2>3 DEF Refuse, LeaseTypes
    <2>4. ASSUME NEW freed \in SUBSET Attempts, FreeLeases(freed) PROVE LeaseTypes'
      <3>1. NoLease \in Lease
        BY DEF Lease, NoLease, Holders
      <3> QED
        BY <2>4, <3>1 DEF FreeLeases, LeaseTypes
    <2> QED
      BY <2>1, <2>2, <2>3, <2>4 DEF Served, Granted
  <1> QED
    BY <1>1, <1>2, OnlyTheWorkerLeases

(* Type correctness: what the worker leases, to whom, and what requests,   *)
(* tasks, sockets and the telemetry handler keep, in every state.          *)
THEOREM TypeCorrect == Spec => []TypeOK
  <1>1. Init => LeaseTypes
    BY DEF Init, InitFrom, LeaseTypes, Lease, NoLease, Holders
  <1>2. Accounts /\ DispatchInv /\ LeaseTypes /\ [Next]_vars => Accounts' /\ LeaseTypes'
    BY AccountsStep, LeaseTypesStep
  <1>3. DispatchInv /\ Accounts /\ LeaseTypes => TypeOK
    <2> SUFFICES ASSUME DispatchInv, Accounts, LeaseTypes PROVE TypeOK
      OBVIOUS
    <2>1. RequestTypes /\ AttemptTypes
      BY DEF DispatchInv, RequestsInv, AttemptsInv
    <2>2. inflight \in Nat
      BY FS_CardinalityType DEF Accounts, Exact, InflightIsExact
    <2> QED
      BY <2>1, <2>2 DEF TypeOK, RequestTypes, AttemptTypes, LeaseTypes, Lease, Facts, Verdicts, Gates
  <1> QED
    BY <1>1, <1>2, <1>3, DispatchInit, DispatchNext, AccountsInit, PTL DEF Spec

-----------------------------------------------------------------------------
(* Who reads what is charged.  The messages under way to the worker, as a  *)
(* set: what is pending, and what a step adds to it.                       *)
Msgs(s) == {s[i] : i \in 1 .. Len(s)}
Pending == Msgs(calls)

ReleaseMsg(a) == [call |-> "release", attempt |-> a, by |-> TaskOf(a)]
TransferMsg(a, p) == [call |-> "transfer", attempt |-> a, by |-> p]
DownMsg(p) == [call |-> "down", attempt |-> <<>>, by |-> p]
DeathMsgs(p) == IF \E a \in Attempts : lease[a].holder = p THEN {DownMsg(p)} ELSE {}

LEMMA MsgsOf ==
  /\ Msgs(<<>>) = {} /\ \A m : Msgs(<<m>>) = {m}
  /\ \A a : Msgs(Release(a)) = {ReleaseMsg(a)}
  /\ \A a, p : Msgs(Transfer(a, p)) = {TransferMsg(a, p)}
  /\ \A p : Msgs(Down(p)) = {DownMsg(p)} /\ Msgs(Death(p)) = DeathMsgs(p)
  <1>1. Msgs(<<>>) = {} /\ \A m : Msgs(<<m>>) = {m}
    <2>1. \A i : i \in 1 .. Len(<<>>) => FALSE
      OBVIOUS
    <2>2. ASSUME NEW m PROVE Len(<<m>>) = 1 /\ <<m>>[1] = m
      OBVIOUS
    <2> QED
      BY <2>1, <2>2 DEF Msgs
  <1> QED
    BY <1>1 DEF Release, ReleaseMsg, Transfer, TransferMsg, Down, DownMsg, Death, DeathMsgs

LEMMA MsgsConcat ==
  ASSUME NEW S, NEW s \in Seq(S), NEW t \in Seq(S)
  PROVE  Msgs(s \o t) = Msgs(s) \cup Msgs(t)
  <1>1. /\ Len(s) \in Nat /\ Len(t) \in Nat /\ Len(s \o t) = Len(s) + Len(t)
        /\ \A i \in 1 .. Len(s) + Len(t) :
             (s \o t)[i] = IF i <= Len(s) THEN s[i] ELSE t[i - Len(s)]
    OBVIOUS
  <1>2. ASSUME NEW i \in 1 .. Len(s \o t)
        PROVE  \/ i \in 1 .. Len(s) /\ (s \o t)[i] = s[i]
               \/ i - Len(s) \in 1 .. Len(t) /\ (s \o t)[i] = t[i - Len(s)]
    BY <1>1
  <1>3. ASSUME NEW i \in 1 .. Len(s) PROVE i \in 1 .. Len(s \o t) /\ (s \o t)[i] = s[i]
    BY <1>1
  <1>4. ASSUME NEW i \in 1 .. Len(t)
        PROVE  i + Len(s) \in 1 .. Len(s \o t) /\ (s \o t)[i + Len(s)] = t[i]
    BY <1>1
  <1>5. Msgs(s \o t) \subseteq Msgs(s) \cup Msgs(t)
    BY <1>2 DEF Msgs
  <1>6. Msgs(s) \subseteq Msgs(s \o t)
    BY <1>3 DEF Msgs
  <1>7. Msgs(t) \subseteq Msgs(s \o t)
    BY <1>4 DEF Msgs
  <1> QED
    BY <1>5, <1>6, <1>7

LEMMA MsgsTail ==
  ASSUME NEW S, NEW s \in Seq(S), s # <<>>
  PROVE  Msgs(s) = {Head(s)} \cup Msgs(Tail(s))
  <1>1. /\ Len(s) \in Nat \ {0} /\ Len(Tail(s)) = Len(s) - 1 /\ Head(s) = s[1]
        /\ \A i \in 1 .. Len(s) - 1 : Tail(s)[i] = s[i + 1]
    OBVIOUS
  <1>2. ASSUME NEW i \in 1 .. Len(s)
        PROVE  i = 1 \/ (i - 1 \in 1 .. Len(Tail(s)) /\ Tail(s)[i - 1] = s[i])
    BY <1>1
  <1>3. ASSUME NEW i \in 1 .. Len(Tail(s)) PROVE i + 1 \in 1 .. Len(s) /\ Tail(s)[i] = s[i + 1]
    BY <1>1
  <1>4. 1 \in 1 .. Len(s)
    BY <1>1
  <1>5. Msgs(s) \subseteq {Head(s)} \cup Msgs(Tail(s))
    BY <1>1, <1>2 DEF Msgs
  <1>6. Msgs(Tail(s)) \subseteq Msgs(s) /\ Head(s) \in Msgs(s)
    BY <1>1, <1>3, <1>4 DEF Msgs
  <1> QED
    BY <1>5, <1>6

(* A process that is dead stays dead: its task has ended, its owner or its *)
(* caller is gone.                                                         *)
Dead(p) ==
  \/ \E a \in Attempts : p = TaskOf(a) /\ task[a] = "ended"
  \/ \E r \in Requests : p = OwnerOf(r) /\ phase[r] = "gone"
  \/ \E r \in Requests : p = CallerOf(r) /\ caller[r] = "gone"

LEMMA ProcessesDiffer ==
  /\ \A a, b : TaskOf(a) = TaskOf(b) => a = b
  /\ \A r, s : (OwnerOf(r) = OwnerOf(s) => r = s) /\ (CallerOf(r) = CallerOf(s) => r = s)
  /\ \A a, r, s : TaskOf(a) # OwnerOf(r) /\ TaskOf(a) # CallerOf(s) /\ OwnerOf(r) # CallerOf(s)
  /\ \A a, r : TaskOf(a) # <<"none">> /\ OwnerOf(r) # <<"none">> /\ CallerOf(r) # <<"none">>
BY DEF TaskOf, OwnerOf, CallerOf

LEMMA WhoLives ==
  /\ \A a : Lives(TaskOf(a)) <=> task[a] \notin {"none", "ended"}
  /\ \A a : Lives(TaskOf(a))' <=> task'[a] \notin {"none", "ended"}
  /\ \A r : Lives(OwnerOf(r)) <=> phase[r] # "gone"
  /\ \A r : Lives(OwnerOf(r))' <=> phase'[r] # "gone"
  /\ \A r : Lives(CallerOf(r)) <=> caller[r] = "alive"
  /\ \A r : Lives(CallerOf(r))' <=> caller'[r] = "alive"
BY DEF Lives, TaskOf, OwnerOf, CallerOf, RunsTask

(* The invariant.  Messages under way: what is asked in whose name.        *)
Proper(m) ==
  /\ m.call = "acquire" => m.by = TaskOf(m.attempt)
  /\ m.call = "transfer" =>
       \/ m.by = OwnerOf(RequestOf(m.attempt))
       \/ m.by = CallerOf(RequestOf(m.attempt)) /\ guarded[RequestOf(m.attempt)]
  /\ m.call = "release" => task[m.attempt] = "ended"
  /\ m.call = "down" => Dead(m.by)

ProperInv == \A m \in Pending : Proper(m)

(* A task that holds a lease asks for no other, its answer carries the     *)
(* lease from its verdict on, and the fact of the answer after that.       *)
HeldInv(a) ==
  /\ held[a] => task[a] \notin Unasked
  /\ task[a] \in {"admitted", "opened", "yielding", "stopping", "validating", "retaining"} => held[a]
  /\ verdict[a].leased => held[a] /\ task[a] \in Over
  /\ outcome[a].leased => verdict[a].leased /\ task[a] = "ended"

HeldAsksNot == \A a \in Attempts : held[a] => \A m \in Pending : ~Acquires(m, a)

(* A lease has a holder that lives, or whose death the worker will hear of.*)
Downs(p) == \E m \in Pending : m.call = "down" /\ m.by = p
HolderOk(a) ==
  \/ lease[a].holder \in {TaskOf(a), OwnerOf(RequestOf(a))}
  \/ lease[a].holder = CallerOf(RequestOf(a)) /\ guarded[RequestOf(a)]
HolderInv == \A a \in Attempts : Leased(a) =>
  HolderOk(a) /\ (Lives(lease[a].holder) \/ Downs(lease[a].holder))

(* A completion is mailed once.                                            *)
Once(s) == \A i, j \in DOMAIN s : s[i] = "completion" /\ s[j] = "completion" => i = j
MailOnce(r) ==
  /\ Once(mail[r])
  /\ Completed(mail[r]) => task[Now(r)] = "ended" /\ ~outcome[Now(r)].leased
  /\ inbox[r] # "empty" => guarded[r]

(* The attempt whose answer a request keeps is an earlier one.             *)
KeptInv(r) == kept[r] # 0 => kept[r] < try[r] /\ outcome[<<r, kept[r]>>].leased

(* While a request works on an answer whose reader is there, its last one  *)
(* or one it kept, its lease is the reader's, and nobody has asked to      *)
(* release it.                                                             *)
Alive(r) == phase[r] # "gone" /\ (guarded[r] => caller[r] = "alive")
Answering(r, a) ==
  /\ Alive(r) /\ verdict[a].leased
  /\ \/ /\ a = Now(r)
        /\ \/ task[a] # "ended"
           \/ Completed(mail[r])
           \/ outcome[a].leased /\ phase[r] \in {"settling", "finishing", "deciding", "done"}
     \/ a = <<r, kept[r]>> /\ phase[r] # "delivering"
ChargedInv == \A r \in Requests, a \in Attempts : Answering(r, a) =>
  /\ lease[a].holder \in {OwnerOf(r), CallerOf(r)}
  /\ \A m \in Pending : ~(m.call = "release" /\ m.attempt = a)

ChargeInv ==
  /\ ProperInv /\ HeldAsksNot /\ HolderInv /\ ChargedInv
  /\ \A a \in Attempts : HeldInv(a)
  /\ \A r \in Requests : MailOnce(r) /\ KeptInv(r)
-----------------------------------------------------------------------------
(* What the step of a task does to the answer it may hold.                 *)
TaskEffect(a) ==
  /\ UNCHANGED <<held, outcome>>
  /\ \A b \in Attempts \ {a} : task'[b] = task[b] /\ verdict'[b] = verdict[b]
  /\ task[a] = "ended" => task'[a] = "ended" /\ verdict'[a] = verdict[a]
  /\ verdict'[a].leased => verdict[a].leased
  /\ HeldInv(a)'

LEMMA JudgedEffect ==
  ASSUME AttemptTypes, NEW a \in Attempts, HeldInv(a), NEW from \in TaskSteps \ {"none", "ended"},
         NEW to \in {"judged", "retaining"}, to = "retaining" => held[a],
         Step(a, from, to), NEW v, Judge(a, v), ~v.leased, UNCHANGED <<held, outcome>>
  PROVE  TaskEffect(a)
  <1>1. /\ task[a] = from /\ task'[a] = to /\ verdict'[a] = v
        /\ \A b \in Attempts \ {a} : task'[b] = task[b] /\ verdict'[b] = verdict[b]
    BY DEF AttemptTypes, Step, Judge
  <1> QED
    BY <1>1 DEF TaskEffect, HeldInv, Unasked, Over

LEMMA QuietEffect ==
  ASSUME AttemptTypes, NEW a \in Attempts, HeldInv(a), NEW from \in TaskSteps \ {"none", "ended"},
         NEW to \in TaskSteps \ {"none", "tracking"}, Step(a, from, to),
         UNCHANGED <<held, outcome, verdict>>,
         from \in Over => to \in Over,
         to \notin {"acquiring", "judged", "completing", "ended"} => held[a]
  PROVE  TaskEffect(a)
  <1>1. /\ task[a] = from /\ task'[a] = to
        /\ \A b \in Attempts \ {a} : task'[b] = task[b]
    BY DEF AttemptTypes, Step
  <1> QED
    BY <1>1 DEF TaskEffect, HeldInv, Unasked, Over

LEMMA TaskEffects ==
  ASSUME AttemptTypes, NEW a \in Attempts, HeldInv(a),
         TaskStep(a) \/ TaskDies(a) \/ SocketStep(a) \/ CheckoutDies(a)
  PROVE  TaskEffect(a)
  <1>0. UNCHANGED <<held, outcome>>
    BY DEF TaskStep, ReadToken, AcquireTimesOut, OpenSend, StartCheckout, Collect, StopCheckout,
           CheckoutStopped, Validate, TransferTimesOut, TaskCrashes, RecordVerdict, Complete,
           TaskDies, SocketStep, NoConnection, SendStart, Write, SendStop, Respond,
           CheckoutDies, Detached, requestVars, attemptVars, taskVars
  <1>1. /\ \A c \in Certainties : ~Failure(a, c).leased
        /\ \A kind \in TaskKinds : ~Responded(a, kind).leased
        /\ ~Predispatch(a).leased /\ "dispatched" \in Certainties
        /\ ResponseKinds \subseteq TaskKinds /\ {"error", "refused", "invalid"} \subseteq TaskKinds
    <2>1. /\ \A c : ~Failure(a, c).leased
          /\ \A kind : ~Responded(a, kind).leased
          /\ ~Predispatch(a).leased
      BY DEF Failure, Predispatch, Responded, Verdict
    <2> QED
      BY <2>1 DEF Certainties, ResponseKinds, TaskKinds
  <1>2. /\ SessionCertainty(a) \in Certainties
        /\ (IF gate[a].seen = "not_started" /\ ~Healthy(a) THEN "indeterminate" ELSE Snapshot(a))
              \in Certainties
    <2>1. "indeterminate" \in Certainties
      BY DEF Certainties
    <2>2. CertaintyOf(session[a]) \in Certainties
      BY <1>1, Values, Certain
    <2>3. Snapshot(a) \in Certainties
      BY SnapshotType
    <2> QED
      BY <2>1, <2>2, <2>3 DEF SessionCertainty
  <1>3. TaskSteps = {"none", "tracking", "acquiring", "admitted", "opened", "yielding", "stopping",
              "validating", "retaining", "judged", "completing", "ended"}
    BY DEF TaskSteps
  <1>4. CASE ReadToken(a)
    <2>1. CASE Step(a, "tracking", "acquiring") /\ verdict' = verdict
      BY <1>0, <1>3, <2>1, QuietEffect DEF Over
    <2>2. CASE Step(a, "tracking", "judged") /\ Judge(a, Predispatch(a))
      BY <1>0, <1>1, <1>3, <2>2, JudgedEffect
    <2> QED
      BY <1>4, <2>1, <2>2 DEF ReadToken
  <1>5. CASE AcquireTimesOut(a)
    BY <1>0, <1>1, <1>3, <1>5, JudgedEffect DEF AcquireTimesOut
  <1>6. CASE OpenSend(a)
    <2>1. CASE Step(a, "admitted", "opened") /\ verdict' = verdict
      <3>1. held[a]
        BY <2>1 DEF Step, HeldInv
      <3> QED
        BY <1>0, <1>3, <2>1, <3>1, QuietEffect DEF Over
    <2>2. CASE Step(a, "admitted", "judged") /\ Judge(a, Predispatch(a))
      BY <1>0, <1>1, <1>3, <2>2, JudgedEffect
    <2> QED
      BY <1>6, <2>1, <2>2 DEF OpenSend
  <1>7. CASE StartCheckout(a)
    <2>1. CASE Step(a, "opened", "yielding") /\ verdict' = verdict
      <3>1. held[a]
        BY <2>1 DEF Step, HeldInv
      <3> QED
        BY <1>0, <1>3, <2>1, <3>1, QuietEffect DEF Over
    <2>2. CASE Step(a, "opened", "judged") /\ Judge(a, Predispatch(a))
      BY <1>0, <1>1, <1>3, <2>2, JudgedEffect
    <2> QED
      BY <1>7, <2>1, <2>2 DEF StartCheckout
  <1>8. CASE Collect(a)
    <2>1. ASSUME NEW v, ~v.leased, Step(a, "yielding", "judged"), Judge(a, v)
          PROVE  TaskEffect(a)
      BY <1>0, <1>3, <2>1, JudgedEffect
    <2>2. CASE Step(a, "yielding", "validating") /\ verdict' = verdict
      <3>1. held[a]
        BY <2>2 DEF Step, HeldInv
      <3> QED
        BY <1>0, <1>3, <2>2, <3>1, QuietEffect DEF Over
    <2> QED
      BY <1>1, <1>2, <1>8, <2>1, <2>2 DEF Collect
  <1>9. CASE StopCheckout(a)
    <2>1. held[a] /\ Step(a, "yielding", "stopping") /\ verdict' = verdict
      BY <1>9 DEF Step, HeldInv, StopCheckout
    <2> QED
      BY <1>0, <1>3, <2>1, QuietEffect DEF Over
  <1>10. CASE CheckoutStopped(a)
    <2>1. PICK c \in Certainties : Step(a, "stopping", "judged") /\ Judge(a, Failure(a, c))
      BY <1>2, <1>10 DEF CheckoutStopped
    <2> QED
      BY <1>0, <1>1, <1>3, <2>1, JudgedEffect
  <1>11. CASE Validate(a)
    <2>1. held[a] /\ task[a] = "validating"
      BY <1>11 DEF Validate, Step, HeldInv
    <2>2. ASSUME NEW v, ~v.leased, NEW to \in {"judged", "retaining"}, Step(a, "validating", to),
                 Judge(a, v)
          PROVE  TaskEffect(a)
      BY <1>0, <1>3, <2>1, <2>2, JudgedEffect
    <2> QED
      BY <1>1, <1>11, <2>2 DEF Validate
  <1>12. CASE TransferTimesOut(a)
    <2> DEFINE v == [verdict[a] EXCEPT !.kind = "error"]
    <2>1. Step(a, "retaining", "judged") /\ Judge(a, v)
      BY <1>12 DEF TransferTimesOut
    <2>2. ~verdict[a].leased
      BY <2>1 DEF Step, HeldInv, Over
    <2>3. ~v.leased
      BY <2>2, Values DEF Verdicts
    <2> HIDE DEF v
    <2> QED
      BY <1>0, <1>3, <2>1, <2>3, JudgedEffect
  <1>13. CASE TaskCrashes(a)
    BY <1>0, <1>3, <1>13, QuietEffect DEF TaskCrashes, Over
  <1>14. CASE RecordVerdict(a)
    BY <1>0, <1>3, <1>14, QuietEffect DEF RecordVerdict, Over
  <1>15. CASE Complete(a)
    <2> DEFINE v == [verdict[a] EXCEPT !.overdue = Passed(a)]
    <2>1. Step(a, "completing", "ended") /\ Judge(a, v)
      BY <1>15 DEF Complete
    <2>2. v.leased = verdict[a].leased
      BY Values DEF Verdicts
    <2> HIDE DEF v
    <2>3. /\ task[a] = "completing" /\ task'[a] = "ended" /\ verdict'[a] = v
          /\ \A b \in Attempts \ {a} : task'[b] = task[b] /\ verdict'[b] = verdict[b]
      BY <2>1 DEF AttemptTypes, Step, Judge
    <2> QED
      BY <1>0, <2>2, <2>3 DEF TaskEffect, HeldInv, Unasked, Over
  <1>16. CASE TaskDies(a)
    <2>1. /\ task[a] \notin {"none", "ended"} /\ task'[a] = "ended" /\ verdict' = verdict
          /\ \A b \in Attempts \ {a} : task'[b] = task[b]
      BY <1>16 DEF TaskDies, RunsTask, AttemptTypes
    <2> QED
      BY <1>0, <2>1 DEF TaskEffect, HeldInv, Unasked, Over
  <1>17. CASE SocketStep(a) \/ CheckoutDies(a)
    <2>1. UNCHANGED <<task, verdict>>
      BY <1>17 DEF SocketStep, NoConnection, SendStart, Write, SendStop, Respond, CheckoutDies,
                   taskVars
    <2> QED
      BY <1>0, <2>1 DEF TaskEffect, HeldInv
  <1> QED
    BY <1>4, <1>5, <1>6, <1>7, <1>8, <1>9, <1>10, <1>11, <1>12, <1>13, <1>14, <1>15, <1>16, <1>17
    DEF TaskStep
-----------------------------------------------------------------------------
(* What is over stays over.                                                *)
Forward ==
  /\ guarded' = guarded
  /\ \A a \in Attempts : task[a] = "ended" => task'[a] = "ended"
  /\ \A r \in Requests : /\ phase[r] = "gone" => phase'[r] = "gone"
                         /\ caller[r] = "gone" => caller'[r] = "gone"

LEMMA ProperStays ==
  ASSUME Forward, NEW m \in Posted, Proper(m)
  PROVE  Proper(m)'
  <1>1. m.call = "down" => Dead(m.by)'
    BY DEF Proper, Dead, Forward
  <1>2. m.call = "release" => task'[m.attempt] = "ended"
    BY DEF Proper, Forward, Posted
  <1> QED
    BY <1>1, <1>2 DEF Proper, Forward

(* A step that sends messages to the worker: who dies in it and holds a    *)
(* lease is announced, and an answer worked on is not given back.          *)
LEMMA SendStep ==
  ASSUME Mailbox, Forward, ProperInv, HeldAsksNot, HolderInv, ChargedInv,
         RequestTypes, AttemptTypes,
         UNCHANGED <<held, lease>>, NEW New, Pending' = Pending \cup New,
         \A m \in New : Proper(m)' /\ \A a \in Attempts : held[a] => ~Acquires(m, a),
         \A a \in Attempts : task[a] \notin {"none", "ended"} /\ task'[a] \in {"none", "ended"} =>
           DeathMsgs(TaskOf(a)) \subseteq New,
         \A r \in Requests : /\ phase[r] # "gone" /\ phase'[r] = "gone" =>
                                  DeathMsgs(OwnerOf(r)) \subseteq New
                             /\ guarded[r] /\ caller[r] = "alive" /\ caller'[r] # "alive" =>
                                  DeathMsgs(CallerOf(r)) \subseteq New,
         \A r \in Requests, a \in Attempts : Answering(r, a)' =>
           /\ Answering(r, a)
           /\ \A m \in New : ~(m.call = "release" /\ m.attempt = a)
  PROVE  ProperInv' /\ HeldAsksNot' /\ HolderInv' /\ ChargedInv'
  <1>0. Pending \subseteq Posted
    BY DEF Mailbox, Pending, Msgs
  <1>1. ProperInv'
    BY <1>0, ProperStays DEF ProperInv
  <1>2. HeldAsksNot'
    BY DEF HeldAsksNot
  <1>3. ASSUME NEW a \in Attempts, Leased(a)
        PROVE  HolderOk(a)' /\ (Lives(lease[a].holder)' \/ Downs(lease[a].holder)')
    <2> DEFINE p == lease[a].holder
               r == RequestOf(a)
    <2>1. HolderOk(a) /\ (Lives(p) \/ Downs(p)) /\ r \in Requests
      BY <1>3, Senders DEF HolderInv
    <2>2. HolderOk(a)'
      BY <2>1 DEF HolderOk, Forward
    <2>3. Downs(p) => Downs(p)'
      BY DEF Downs
    <2>4. DeathMsgs(p) \subseteq New => Downs(p)'
      <3>1. DeathMsgs(p) = {DownMsg(p)}
        BY DEF DeathMsgs
      <3>2. DownMsg(p).call = "down" /\ DownMsg(p).by = p
        BY DEF DownMsg
      <3> QED
        BY <3>1, <3>2 DEF Downs
    <2>5. CASE p = TaskOf(a) /\ Lives(p)
      <3>1. task[a] \notin {"none", "ended"}
        BY <2>5, WhoLives
      <3>2. Lives(TaskOf(a))' \/ task'[a] \in {"none", "ended"}
        BY WhoLives
      <3>3. Lives(TaskOf(a))' \/ Downs(TaskOf(a))'
        BY <2>4, <2>5, <3>1, <3>2
      <3> QED
        BY <2>2, <2>5, <3>3
    <2>6. CASE p = OwnerOf(r) /\ Lives(p)
      <3>1. phase[r] # "gone"
        BY <2>6, WhoLives
      <3>2. Lives(OwnerOf(r))' \/ phase'[r] = "gone"
        BY WhoLives
      <3>3. Lives(OwnerOf(r))' \/ Downs(OwnerOf(r))'
        BY <2>1, <2>4, <2>6, <3>1, <3>2
      <3> QED
        BY <2>2, <2>6, <3>3
    <2>7. CASE p = CallerOf(r) /\ guarded[r] /\ Lives(p)
      <3>1. caller[r] = "alive"
        BY <2>7, WhoLives
      <3>2. Lives(CallerOf(r))' \/ caller'[r] # "alive"
        BY WhoLives
      <3>3. Lives(CallerOf(r))' \/ Downs(CallerOf(r))'
        BY <2>1, <2>4, <2>7, <3>1, <3>2
      <3> QED
        BY <2>2, <2>7, <3>3
    <2> QED
      BY <2>1, <2>2, <2>3, <2>5, <2>6, <2>7 DEF HolderOk
  <1>4. HolderInv'
    <2>1. ASSUME NEW a \in Attempts, Leased(a)'
          PROVE  HolderOk(a)' /\ (Lives(lease[a].holder)' \/ Downs(lease[a].holder)')
      BY <1>3, <2>1 DEF Leased
    <2>2. \A a \in Attempts : lease'[a].holder = lease[a].holder
      OBVIOUS
    <2> QED
      BY <2>1, <2>2 DEF HolderInv
  <1>5. ChargedInv'
    <2>1. ASSUME NEW r \in Requests, NEW a \in Attempts, Answering(r, a)'
          PROVE  /\ lease'[a].holder \in {OwnerOf(r), CallerOf(r)}
                 /\ \A m \in Pending' : ~(m.call = "release" /\ m.attempt = a)
      <3>1. /\ Answering(r, a)
            /\ \A m \in New : ~(m.call = "release" /\ m.attempt = a)
        BY <2>1
      <3> QED
        BY <3>1 DEF ChargedInv
    <2> QED
      BY <2>1 DEF ChargedInv
  <1> QED
    BY <1>1, <1>2, <1>4, <1>5
-----------------------------------------------------------------------------
(* A step of a request or of its surroundings: what it leaves alone, what  *)
(* it may send, and what becomes of the answer the request works on.       *)
RequestFrame(r) ==
  /\ UNCHANGED <<held, lease, verdict, guarded>>
  /\ \A s \in Requests \ {r} : /\ phase'[s] = phase[s] /\ try'[s] = try[s]
                               /\ mail'[s] = mail[s] /\ caller'[s] = caller[s]
                               /\ inbox'[s] = inbox[s] /\ kept'[s] = kept[s]
  /\ \A a \in Attempts : task'[a] # task[a] => task[a] = "none" /\ task'[a] = "tracking"
  /\ \A a \in Attempts \ {Now(r)} : outcome'[a] = outcome[a]
  /\ outcome'[Now(r)].leased => verdict[Now(r)].leased /\ task[Now(r)] = "ended"
  /\ phase[r] = "gone" => phase'[r] = "gone"
  /\ caller[r] = "gone" => caller'[r] = "gone"
  /\ inbox'[r] # "empty" => guarded[r]
  /\ Once(mail'[r])

Sent(r, a, New) ==
  /\ Pending' = Pending \cup New
  /\ New \subseteq {ReleaseMsg(a), TransferMsg(a, CallerOf(r)),
                    DownMsg(OwnerOf(r)), DownMsg(CallerOf(r))}
  /\ ReleaseMsg(a) \in New => task[a] = "ended"
  /\ TransferMsg(a, CallerOf(r)) \in New => guarded[r]
  /\ DownMsg(OwnerOf(r)) \in New => phase'[r] = "gone"
  /\ DownMsg(CallerOf(r)) \in New => caller'[r] = "gone"
  /\ phase[r] # "gone" /\ phase'[r] = "gone" => DeathMsgs(OwnerOf(r)) \subseteq New
  /\ guarded[r] /\ caller[r] = "alive" /\ caller'[r] # "alive" =>
       DeathMsgs(CallerOf(r)) \subseteq New

Answers(r, New) ==
  /\ \A a \in Attempts : Answering(r, a)' => Answering(r, a) /\ ReleaseMsg(a) \notin New
  /\ KeptInv(r)'
  /\ Completed(mail'[r]) => task'[Now(r)'] = "ended" /\ ~outcome'[Now(r)'].leased

LEMMA MessageFields ==
  ASSUME NEW a, NEW p
  PROVE  /\ ReleaseMsg(a).call = "release" /\ ReleaseMsg(a).attempt = a
         /\ TransferMsg(a, p).call = "transfer" /\ TransferMsg(a, p).attempt = a
         /\ TransferMsg(a, p).by = p
         /\ DownMsg(p).call = "down" /\ DownMsg(p).by = p
BY DEF ReleaseMsg, TransferMsg, DownMsg

LEMMA MessagesDiffer ==
  /\ \A a, b, p : ReleaseMsg(a) # TransferMsg(b, p)
  /\ \A a, p : ReleaseMsg(a) # DownMsg(p) /\ ReleaseMsg(a) \notin DeathMsgs(p)
  /\ \A a, p, q : TransferMsg(a, p) # DownMsg(q) /\ TransferMsg(a, p) \notin DeathMsgs(q)
  /\ \A p, q : DownMsg(p) = DownMsg(q) => p = q
  /\ \A p, q : DownMsg(p) \in DeathMsgs(q) => p = q
  /\ \A p : DeathMsgs(p) \subseteq {DownMsg(p)}
  <1>1. /\ \A a, b, p : ReleaseMsg(a) # TransferMsg(b, p)
        /\ \A a, p : ReleaseMsg(a) # DownMsg(p)
        /\ \A a, p, q : TransferMsg(a, p) # DownMsg(q)
        /\ \A p, q : DownMsg(p) = DownMsg(q) => p = q
    BY MessageFields
  <1>2. \A p : DeathMsgs(p) \subseteq {DownMsg(p)}
    BY DEF DeathMsgs
  <1> QED
    BY <1>1, <1>2

LEMMA CallAdds ==
  ASSUME Mailbox, NEW ms \in Seq(Quiet), Call(ms)
  PROVE  Pending' = Pending \cup Msgs(ms)
  <1>1. calls \in Seq(Posted) /\ ms \in Seq(Posted) /\ calls' = calls \o ms
    BY DEF Mailbox, Quiet, Call
  <1>2. Msgs(calls \o ms) = Msgs(calls) \cup Msgs(ms)
    BY <1>1, MsgsConcat
  <1> QED
    BY <1>1, <1>2 DEF Pending

LEMMA RequestEffect ==
  ASSUME DispatchInv, ChargeInv, Mailbox, NEW r \in Requests, NEW New,
         NEW b \in Attempts, RequestOf(b) = r,
         RequestFrame(r), Sent(r, b, New), Answers(r, New)
  PROVE  ChargeInv'
  <1>0. /\ RequestTypes /\ AttemptTypes /\ Inv /\ Now(r) \in Attempts
        /\ ProperInv /\ HeldAsksNot /\ HolderInv /\ ChargedInv
    BY PresentAttempt DEF DispatchInv, RequestsInv, AttemptsInv, ChargeInv
  <1>1. Forward
    BY DEF Forward, RequestFrame
  <1>2. ASSUME NEW m \in New
        PROVE  Proper(m)' /\ \A a \in Attempts : held[a] => ~Acquires(m, a)
    <2>2. CASE m = ReleaseMsg(b)
      <3>1. task'[b] = "ended"
        BY <1>0, <1>1, <2>2 DEF Sent, Forward
      <3> QED
        BY <2>2, <3>1, MessageFields DEF Proper, Acquires
    <2>3. CASE m = TransferMsg(b, CallerOf(r))
      <3>1. guarded'[r]
        BY <1>1, <2>3 DEF Sent, Forward
      <3> QED
        BY <2>3, <3>1, MessageFields DEF Proper, Acquires
    <2>4. CASE m = DownMsg(OwnerOf(r))
      <3>1. Dead(OwnerOf(r))'
        BY <2>4 DEF Sent, Dead
      <3> QED
        BY <2>4, <3>1, MessageFields DEF Proper, Acquires
    <2>5. CASE m = DownMsg(CallerOf(r))
      <3>1. Dead(CallerOf(r))'
        BY <2>5 DEF Sent, Dead
      <3> QED
        BY <2>5, <3>1, MessageFields DEF Proper, Acquires
    <2> QED
      BY <2>2, <2>3, <2>4, <2>5 DEF Sent
  <1>3. \A a \in Attempts : ~(task[a] \notin {"none", "ended"} /\ task'[a] \in {"none", "ended"})
    BY DEF RequestFrame
  <1>4. ASSUME NEW s \in Requests, s # r
        PROVE  /\ Now(s)' = Now(s) /\ Now(s) \in Attempts \ {Now(r)}
               /\ kept'[s] = kept[s] /\ try'[s] = try[s] /\ Alive(s)' = Alive(s)
               /\ \A i : <<s, i>> # Now(r)
               /\ phase'[s] = phase[s] /\ mail'[s] = mail[s] /\ caller'[s] = caller[s]
               /\ guarded'[s] = guarded[s] /\ inbox'[s] = inbox[s]
               /\ verdict' = verdict /\ outcome'[Now(s)] = outcome[Now(s)]
               /\ task'[Now(s)] = "ended" <=> task[Now(s)] = "ended"
    <2>1. Now(s)' = Now(s) /\ Now(s) \in Attempts /\ Now(s) # Now(r)
      BY <1>0, <1>4, PresentAttempt DEF RequestFrame, Now
    <2>2. \A i : <<s, i>> # Now(r)
      BY <1>4 DEF Now
    <2>3. Alive(s)' = Alive(s)
      BY <1>4 DEF RequestFrame, Alive
    <2> QED
      BY <1>4, <2>1, <2>2, <2>3 DEF RequestFrame
  <1>5. ASSUME NEW s \in Requests
        PROVE  /\ phase[s] # "gone" /\ phase'[s] = "gone" => DeathMsgs(OwnerOf(s)) \subseteq New
               /\ guarded[s] /\ caller[s] = "alive" /\ caller'[s] # "alive" =>
                    DeathMsgs(CallerOf(s)) \subseteq New
    BY <1>4 DEF Sent
  <1>6. ASSUME NEW s \in Requests, NEW a \in Attempts, Answering(s, a)'
        PROVE  /\ Answering(s, a)
               /\ \A m \in New : ~(m.call = "release" /\ m.attempt = a)
    <2>1. \A m \in New : m.call = "release" => m = ReleaseMsg(b)
      BY MessageFields DEF Sent
    <2>2. CASE s = r
      <3>1. Answering(r, a) /\ ReleaseMsg(a) \notin New
        BY <1>6, <2>2 DEF Answers
      <3> QED
        BY <2>1, <2>2, <3>1, MessageFields
    <2>3. CASE s # r
      <3>1. Answering(s, a)
        BY <1>4, <1>6, <2>3 DEF Answering
      <3>2. RequestOf(a) = s
        BY <3>1 DEF Answering, Now, RequestOf
      <3> QED
        BY <2>1, <2>3, <3>1, <3>2, MessageFields
    <2> QED
      BY <2>2, <2>3
  <1>7. ProperInv' /\ HeldAsksNot' /\ HolderInv' /\ ChargedInv'
    <2>1. UNCHANGED <<held, lease>> /\ Pending' = Pending \cup New
      BY DEF RequestFrame, Sent
    <2> QED
      BY <1>0, <1>1, <1>2, <1>3, <1>5, <1>6, <2>1, SendStep
  <1>8. ASSUME NEW a \in Attempts PROVE HeldInv(a)'
    <2>1. HeldInv(a) /\ held' = held /\ verdict' = verdict
      BY DEF ChargeInv, RequestFrame
    <2>2. task'[a] # task[a] => task[a] = "none" /\ task'[a] = "tracking"
      BY DEF RequestFrame
    <2>3. outcome'[a].leased => verdict[a].leased /\ task[a] = "ended"
      <3>1. CASE a = Now(r)
        BY <3>1 DEF RequestFrame
      <3>2. CASE a # Now(r)
        BY <2>1, <3>2 DEF RequestFrame, HeldInv
      <3> QED
        BY <3>1, <3>2
    <2> QED
      BY <2>1, <2>2, <2>3 DEF HeldInv, Unasked, Over
  <1>9. ASSUME NEW s \in Requests PROVE MailOnce(s)'
    <2>1. CASE s = r
      BY <2>1 DEF MailOnce, Answers, RequestFrame
    <2>2. CASE s # r
      BY <1>4, <2>2 DEF MailOnce, ChargeInv
    <2> QED
      BY <2>1, <2>2
  <1>10. ASSUME NEW s \in Requests PROVE KeptInv(s)'
    <2>1. CASE s = r
      BY <2>1 DEF Answers
    <2>2. CASE s # r
      <3>1. kept[s] # 0 => <<s, kept[s]>> \in Attempts \ {Now(r)}
        BY <1>0, <1>4, <2>2, BoundsAssumption DEF RequestTypes, Attempts
      <3>2. kept[s] # 0 => outcome'[<<s, kept[s]>>] = outcome[<<s, kept[s]>>]
        BY <3>1 DEF RequestFrame
      <3> QED
        BY <1>4, <2>2, <3>2 DEF KeptInv, ChargeInv
    <2> QED
      BY <2>1, <2>2
  <1> QED
    BY <1>7, <1>8, <1>9, <1>10 DEF ChargeInv
-----------------------------------------------------------------------------
(* The steps of a request, one by one.                                     *)
LEMMA NoMail == Once(<<>>) /\ ~Completed(<<>>)
BY DEF Once, Completed

LEMMA OnceTail ==
  ASSUME NEW s \in Seq(Messages), s # <<>>, Once(s)
  PROVE  Once(Tail(s)) /\ (Head(s) = "completion" => ~Completed(Tail(s)))
  <1>1. /\ Len(Tail(s)) = Len(s) - 1 /\ Len(s) \in Nat /\ Len(s) > 0
        /\ \A i \in 1 .. Len(s) - 1 : Tail(s)[i] = s[i + 1]
        /\ Head(s) = s[1] /\ DOMAIN s = 1 .. Len(s) /\ DOMAIN Tail(s) = 1 .. Len(s) - 1
    OBVIOUS
  <1>2. \A i \in DOMAIN Tail(s) : i + 1 \in DOMAIN s /\ i + 1 # 1 /\ Tail(s)[i] = s[i + 1]
    BY <1>1
  <1>3. 1 \in DOMAIN s /\ \A i, j \in DOMAIN Tail(s) : i + 1 = j + 1 => i = j
    BY <1>1
  <1>4. ASSUME NEW i \in DOMAIN Tail(s), NEW j \in DOMAIN Tail(s), Tail(s)[i] = "completion",
               Tail(s)[j] = "completion"
        PROVE  i = j
    <2>1. i + 1 = j + 1
      BY <1>2, <1>4 DEF Once
    <2> QED
      BY <1>3, <2>1
  <1>5. ASSUME Head(s) = "completion", NEW i \in DOMAIN Tail(s), Tail(s)[i] = "completion"
        PROVE  FALSE
    BY <1>1, <1>2, <1>3, <1>5 DEF Once
  <1> QED
    BY <1>4, <1>5 DEF Once, Completed

LEMMA OnceAppend ==
  ASSUME NEW s \in Seq(Messages), NEW message \in Messages, Once(s),
         message = "completion" => ~Completed(s)
  PROVE  Once(Append(s, message))
  <1>1. /\ \A i \in 1 .. Len(s) : Append(s, message)[i] = s[i]
        /\ Append(s, message)[Len(s) + 1] = message
        /\ Len(s) \in Nat /\ DOMAIN s = 1 .. Len(s)
        /\ DOMAIN Append(s, message) = 1 .. Len(s) + 1
    OBVIOUS
  <1>2. \A i \in DOMAIN Append(s, message) :
          \/ i \in DOMAIN s /\ Append(s, message)[i] = s[i]
          \/ i = Len(s) + 1 /\ Append(s, message)[i] = message
    BY <1>1
  <1> QED
    BY <1>2 DEF Once, Completed

LEMMA FactsUnleased ==
  ASSUME NEW a \in Attempts
  PROVE  /\ \A kind, certainty : ~Fact(kind, certainty, FALSE).leased
         /\ ~DeadlineFact(a).leased /\ ~LateFact(a).leased /\ ~ExitFact(a).leased
         /\ ~CancelledFact(a).leased
         /\ TimelyFact(a).leased => verdict[a].leased
  <1>1. \A kind, certainty, x : Fact(kind, certainty, x).leased = x
    BY DEF Fact
  <1>2. /\ ~DeadlineFact(a).leased /\ ~LateFact(a).leased /\ ~ExitFact(a).leased
        /\ ~CancelledFact(a).leased
    BY DEF DeadlineFact, LateFact, ExitFact, CancelledFact, Fact
  <1>3. TimelyFact(a).leased => verdict[a].leased
    BY DEF TimelyFact, Fact
  <1> QED
    BY <1>1, <1>2, <1>3

LEMMA RequestContext ==
  ASSUME DispatchInv, ChargeInv, NEW r \in Requests
  PROVE  /\ RequestTypes /\ AttemptTypes /\ NotStarted /\ Inv
         /\ Now(r) \in Attempts /\ mail[r] \in Seq(Messages)
         /\ MailOnce(r) /\ MailInv(r) /\ HeldInv(Now(r)) /\ Once(mail[r])
         /\ inbox[r] # "empty" => guarded[r]
         /\ outcome[Now(r)].leased => verdict[Now(r)].leased /\ task[Now(r)] = "ended"
         /\ RequestOf(Now(r)) = r /\ RequestOf(Reply(r)) = r
         /\ KeptInv(r) /\ Reply(r) \in Attempts
         /\ kept[r] # 0 => <<r, kept[r]>> \in Attempts \ {Now(r)}
         /\ <<r, kept[r]>> # Now(r)
         /\ \A a \in Attempts : outcome[a].leased => verdict[a].leased /\ task[a] = "ended"
  <1>1. RequestTypes /\ AttemptTypes /\ NotStarted /\ Inv /\ Now(r) \in Attempts
    BY PresentAttempt DEF DispatchInv, RequestsInv, AttemptsInv
  <1>2. /\ MailOnce(r) /\ MailInv(r) /\ HeldInv(Now(r)) /\ Once(mail[r]) /\ KeptInv(r)
        /\ inbox[r] # "empty" => guarded[r]
    BY <1>1 DEF DispatchInv, RequestsInv, ChargeInv, MailOnce
  <1>3. mail[r] \in Seq(Messages) /\ kept[r] \in 0 .. Tries /\ try[r] \in 1 .. Tries
    BY <1>1 DEF RequestTypes
  <1>4. kept[r] # 0 => <<r, kept[r]>> \in Attempts \ {Now(r)}
    BY <1>2, <1>3, BoundsAssumption DEF Attempts, Now, KeptInv
  <1>5. Reply(r) \in Attempts /\ RequestOf(Now(r)) = r /\ RequestOf(Reply(r)) = r
    BY <1>1, <1>4 DEF Reply, RequestOf, Now
  <1>6. \A a \in Attempts : outcome[a].leased => verdict[a].leased /\ task[a] = "ended"
    BY DEF ChargeInv, HeldInv
  <1>7. <<r, kept[r]>> # Now(r)
    BY <1>2, <1>3, BoundsAssumption DEF Now, KeptInv
  <1> QED
    BY <1>1, <1>2, <1>3, <1>4, <1>5, <1>6, <1>7

\* A step that keeps what the request kept.
LEMMA KeptStays ==
  ASSUME DispatchInv, ChargeInv, NEW r \in Requests, RequestFrame(r), UNCHANGED <<kept, try>>
  PROVE  KeptInv(r)'
  <1>1. KeptInv(r) /\ (kept[r] # 0 => <<r, kept[r]>> \in Attempts \ {Now(r)})
    BY RequestContext
  <1>2. kept[r] # 0 => outcome'[<<r, kept[r]>>] = outcome[<<r, kept[r]>>]
    BY <1>1 DEF RequestFrame
  <1> QED
    BY <1>1, <1>2 DEF KeptInv

\* A step that sends nothing.
LEMMA SendsNothing ==
  ASSUME NEW r, NEW a, UNCHANGED calls, phase'[r] = "gone" => phase[r] = "gone",
         guarded[r] /\ caller'[r] # "alive" => caller[r] # "alive"
  PROVE  Sent(r, a, {})
BY DEF Sent, Pending

LEMMA StartAttemptCharges ==
  ASSUME DispatchInv, ChargeInv, Mailbox, NEW r \in Requests, StartAttempt(r)
  PROVE  ChargeInv'
  <1> DEFINE a == Now(r)
  <1>0. /\ RequestTypes /\ AttemptTypes /\ NotStarted /\ a \in Attempts /\ HeldInv(a)
        /\ MailInv(r) /\ Once(mail[r]) /\ (inbox[r] # "empty" => guarded[r])
        /\ outcome[Now(r)].leased => verdict[Now(r)].leased /\ task[Now(r)] = "ended"
        /\ RequestOf(a) = r
    BY RequestContext
  <1>1. phase[r] = "ready" /\ mail[r] = <<>> /\ task[a] = "none" /\ ~verdict[a].leased
    BY <1>0 DEF StartAttempt, MailInv, NotStarted, HeldInv, Over
  <1>2. UNCHANGED <<held, lease, verdict, guarded, try, kept, mail, caller, inbox, calls>>
    BY DEF StartAttempt, admissionVars
  <1>3. \/ outcome' = outcome
        \/ \E fact : ~fact.leased /\ outcome' = [outcome EXCEPT ![a] = fact]
    BY <1>0, FactsUnleased DEF StartAttempt, Conclude
  <1>4. PICK p \in {"deciding", "waiting"} : phase' = [phase EXCEPT ![r] = p]
    BY DEF StartAttempt, Goto
  <1>5. task' = task \/ task' = [task EXCEPT ![a] = "tracking"]
    BY DEF StartAttempt
  <1> HIDE DEF a
  <1>6. /\ \A b \in Attempts \ {a} : outcome'[b] = outcome[b]
        /\ outcome'[a].leased => outcome[a].leased
    BY <1>0, <1>3 DEF AttemptTypes
  <1>7. \A b \in Attempts : task'[b] # task[b] => task[b] = "none" /\ task'[b] = "tracking"
    BY <1>0, <1>1, <1>5 DEF AttemptTypes
  <1>8. phase'[r] = p /\ \A s \in Requests \ {r} : phase'[s] = phase[s]
    BY <1>0, <1>4 DEF RequestTypes
  <1>9. RequestFrame(r)
    BY <1>0, <1>1, <1>2, <1>6, <1>7, <1>8 DEF RequestFrame, a
  <1>10. Sent(r, a, {})
    BY <1>2, <1>8, SendsNothing
  <1>11. ASSUME NEW b \in Attempts, Answering(r, b)' PROVE Answering(r, b)
    <2>1. b # Now(r) /\ b = <<r, kept[r]>>
      BY <1>1, <1>2, <1>11 DEF Answering, Now, a
    <2> QED
      BY <1>1, <1>2, <1>11, <2>1 DEF Answering, Alive
  <1>12. Answers(r, {})
    BY <1>1, <1>2, <1>9, <1>11, NoMail, KeptStays DEF Answers
  <1> QED
    BY <1>0, <1>9, <1>10, <1>12, RequestEffect

\* A request takes a message from its mailbox: the completion of its attempt,
\* one that ends the attempt without an answer, or one that changes nothing.
LEMMA ReadMailCharges ==
  ASSUME DispatchInv, ChargeInv, Mailbox, NEW r \in Requests, NEW p \in Phases \ {"gone", "ready"},
         phase[r] \in Working, mail[r] # <<>>, phase' = [phase EXCEPT ![r] = p],
         UNCHANGED <<held, lease, verdict, guarded, task, try, kept, caller, inbox>>,
         NEW m, mail' = [mail EXCEPT ![r] = m],
         \/ m = Tail(mail[r])
         \/ m = Append(Tail(mail[r]), "marker"),
         \/ Head(mail[r]) = "completion" /\ m = Tail(mail[r]) /\ TakeCompletion(Now(r))
              /\ p \in {"settling", "finishing"}
         \/ /\ UNCHANGED calls
            /\ \E fact : ~fact.leased /\ outcome' = [outcome EXCEPT ![Now(r)] = fact]
         \/ /\ UNCHANGED <<outcome, calls>>
            /\ p \in {"settling", "finishing"} => phase[r] = "settling"
            /\ p \notin {"deciding", "done"}
  PROVE  ChargeInv'
  <1> DEFINE a == Now(r)
             v == verdict[a]
  <1>0. /\ RequestTypes /\ AttemptTypes /\ a \in Attempts /\ HeldInv(a) /\ MailOnce(r)
        /\ Once(mail[r]) /\ (inbox[r] # "empty" => guarded[r]) /\ mail[r] \in Seq(Messages)
        /\ outcome[a].leased => v.leased /\ task[a] = "ended"
        /\ RequestOf(a) = r /\ <<r, kept[r]>> # a
    BY RequestContext
  <1>1. /\ Tail(mail[r]) \in Seq(Messages) /\ (Completed(Tail(mail[r])) => Completed(mail[r]))
        /\ (Head(mail[r]) = "completion" => Completed(mail[r]))
        /\ Once(Tail(mail[r]))
        /\ (Head(mail[r]) = "completion" => ~Completed(Tail(mail[r])))
    BY <1>0, MailTail, OnceTail
  <1>2. /\ Once(m) /\ (Completed(m) => Completed(mail[r]))
        /\ Head(mail[r]) = "completion" /\ m = Tail(mail[r]) => ~Completed(m)
    <2>1. "marker" \in Messages
      BY DEF Messages
    <2>2. Once(Append(Tail(mail[r]), "marker"))
          /\ (Completed(Append(Tail(mail[r]), "marker")) => Completed(Tail(mail[r])))
      BY <1>1, <2>1, MailAppend, OnceAppend
    <2> QED
      BY <1>1, <2>2
  <1>3. /\ phase'[r] = p /\ mail'[r] = m /\ Now(r)' = a
        /\ \A s \in Requests \ {r} : phase'[s] = phase[s] /\ mail'[s] = mail[s]
    BY <1>0 DEF RequestTypes, Now
  <1>4. Completed(mail[r]) => task[a] = "ended" /\ ~outcome[a].leased
    BY <1>0 DEF MailOnce
  <1>5. phase[r] # "gone" /\ phase[r] # "delivering"
    BY DEF Working
  <1> HIDE DEF a, v
  <1>6. ASSUME NEW fact, outcome' = [outcome EXCEPT ![a] = fact]
        PROVE  outcome'[a] = fact /\ \A b \in Attempts \ {a} : outcome'[b] = outcome[b]
    BY <1>0, <1>6 DEF AttemptTypes
  <1>7. CASE Head(mail[r]) = "completion" /\ m = Tail(mail[r]) /\ TakeCompletion(a)
             /\ p \in {"settling", "finishing"}
    <2> DEFINE late == v.leased /\ (v.late \/ v.overdue)
               New == IF late THEN {ReleaseMsg(a)} ELSE {}
               fact == IF v.late THEN LateFact(a) ELSE IF v.overdue THEN DeadlineFact(a)
                       ELSE TimelyFact(a)
    <2>1. Pending' = Pending \cup New
      <3>1. CASE late
        <4>1. Call(Release(a)) /\ Release(a) \in Seq(Quiet)
          BY <1>0, <1>7, <3>1, Senders, QuietMessages DEF TakeCompletion, v
        <4> QED
          BY <3>1, <4>1, CallAdds, MsgsOf
      <3>2. CASE ~late
        <4>1. Call(<<>>) /\ <<>> \in Seq(Quiet)
          BY <1>7, <3>2 DEF TakeCompletion, v
        <4> QED
          BY <3>2, <4>1, CallAdds, MsgsOf
      <3> QED
        BY <3>1, <3>2
    <2>2. outcome' = [outcome EXCEPT ![a] = fact]
      BY <1>7 DEF TakeCompletion, Conclude, v
    <2>3. fact.leased => v.leased /\ ~late
      BY <1>0, FactsUnleased DEF v
    <2> HIDE DEF fact, late
    <2>4. /\ outcome'[a] = fact /\ \A b \in Attempts \ {a} : outcome'[b] = outcome[b]
      BY <1>6, <2>2
    <2>5. task[a] = "ended" /\ Completed(mail[r]) /\ ~Completed(m)
      BY <1>1, <1>2, <1>4, <1>7
    <2>6. RequestFrame(r)
      BY <1>0, <1>2, <1>3, <1>5, <2>3, <2>4, <2>5 DEF RequestFrame, a, v
    <2>7. Sent(r, a, New)
      <3>1. New \subseteq {ReleaseMsg(a)}
        OBVIOUS
      <3>2. TransferMsg(a, CallerOf(r)) \notin New /\ DownMsg(OwnerOf(r)) \notin New
            /\ DownMsg(CallerOf(r)) \notin New
        BY <3>1, MessagesDiffer
      <3>3. phase'[r] # "gone" /\ caller' = caller
        BY <1>3
      <3> HIDE DEF New
      <3> QED
        BY <2>1, <2>5, <3>1, <3>2, <3>3 DEF Sent, a
    <2>8. ASSUME NEW b \in Attempts, Answering(r, b)'
          PROVE  Answering(r, b) /\ ReleaseMsg(b) \notin New
      <3>1. Now(r)' = a /\ outcome'[a] = fact /\ task'[a] = "ended" /\ ~Completed(mail'[r])
        BY <1>3, <2>4, <2>5
      <3>2. Alive(r)
        BY <1>5, <2>8 DEF Answering, Alive
      <3>3. CASE b = a
        <4>1. fact.leased
          BY <1>0, <2>8, <3>1, <3>3 DEF Answering
        <4> QED
          BY <2>3, <2>5, <3>2, <3>3, <4>1 DEF Answering, a, v
      <3>4. CASE b # a
        <4>1. Answering(r, b)
          BY <1>5, <2>8, <3>1, <3>2, <3>4 DEF Answering
        <4>2. ReleaseMsg(b).attempt = b /\ ReleaseMsg(a).attempt = a
          BY MessageFields
        <4> QED
          BY <3>4, <4>1, <4>2
      <3> QED
        BY <3>3, <3>4
    <2>9. Answers(r, New)
      BY <1>3, <2>5, <2>6, <2>8, KeptStays DEF Answers
    <2> QED
      BY <1>0, <2>6, <2>7, <2>9, RequestEffect
  <1>8. CASE /\ UNCHANGED calls
             /\ \/ outcome' = outcome /\ (p \in {"settling", "finishing"} => phase[r] = "settling")
                   /\ p \notin {"deciding", "done"}
                \/ \E fact : ~fact.leased /\ outcome' = [outcome EXCEPT ![a] = fact]
    <2>1. /\ \A b \in Attempts \ {a} : outcome'[b] = outcome[b]
          /\ outcome'[a].leased => outcome[a].leased /\ outcome' = outcome
      BY <1>6, <1>8
    <2>2. RequestFrame(r)
      BY <1>0, <1>2, <1>3, <1>5, <2>1 DEF RequestFrame, a, v
    <2>3. Sent(r, a, {})
      BY <1>3, <1>8, SendsNothing
    <2>4. outcome'[a].leased /\ p \in {"settling", "finishing", "deciding", "done"} =>
            outcome[a].leased /\ phase[r] = "settling"
      BY <1>6, <1>8
    <2>5. ASSUME NEW b \in Attempts, Answering(r, b)' PROVE Answering(r, b)
      <3>1. Alive(r)
        BY <1>5, <2>5 DEF Answering, Alive
      <3>2. CASE b = a
        BY <1>0, <1>2, <1>3, <2>4, <2>5, <3>1, <3>2 DEF Answering, a
      <3>3. CASE b # a
        BY <1>3, <1>5, <2>5, <3>1, <3>3 DEF Answering
      <3> QED
        BY <3>2, <3>3
    <2>6. Answers(r, {})
      BY <1>2, <1>3, <1>4, <2>1, <2>2, <2>5, KeptStays DEF Answers
    <2> QED
      BY <1>0, <2>2, <2>3, <2>6, RequestEffect
  <1> QED
    BY <1>7, <1>8 DEF a

LEMMA ReadingCharges ==
  ASSUME DispatchInv, ChargeInv, Mailbox, NEW r \in Requests,
         Receive(r) \/ Drain(r) \/ Settle(r)
  PROVE  ChargeInv'
  <1> DEFINE a == Now(r)
             m == Tail(mail[r])
             Ends == UNCHANGED calls /\ \E fact : ~fact.leased /\ outcome' = [outcome EXCEPT ![a] = fact]
  <1>0. a \in Attempts /\ mail[r] \in Seq(Messages) /\ RequestTypes
    BY RequestContext
  <1>1. \A fact : Conclude(a, fact) => outcome' = [outcome EXCEPT ![a] = fact]
    BY DEF Conclude
  <1>2. /\ Conclude(a, DeadlineFact(a)) /\ UNCHANGED calls => Ends
        /\ Conclude(a, CancelledFact(a)) /\ UNCHANGED calls => Ends
        /\ TakeExit(a) => Ends
    BY <1>0, <1>1, FactsUnleased DEF TakeExit
  <1>3. "settling" \in Phases \ {"gone", "ready"} /\ "finishing" \in Phases \ {"gone", "ready"}
        /\ "draining" \in Phases \ {"gone", "ready"}
    BY DEF Phases
  <1> HIDE DEF a, m, Ends
  <1>4. CASE Receive(r)
    <2>0. /\ phase[r] = "waiting" /\ phase[r] \in Working /\ mail[r] # <<>>
          /\ UNCHANGED <<held, lease, verdict, guarded, task, try, kept, caller, inbox>>
      BY <1>4 DEF Receive, Working, taskVars
    <2>1. CASE mail' = [mail EXCEPT ![r] = m] /\ phase' = [phase EXCEPT ![r] = "finishing"]
               /\ (Ends \/ (Head(mail[r]) = "completion" /\ TakeCompletion(a)))
      BY <1>3, <2>0, <2>1, ReadMailCharges DEF a, m, Ends
    <2>2. CASE /\ mail' = [mail EXCEPT ![r] = Append(m, "marker")]
               /\ phase' = [phase EXCEPT ![r] = "draining"]
               /\ UNCHANGED <<outcome, calls>>
      BY <1>3, <2>0, <2>2, ReadMailCharges DEF m
    <2> QED
      BY <1>2, <1>4, <2>1, <2>2 DEF Receive, Goto, a, m
  <1>5. CASE Drain(r)
    <2>0. /\ phase[r] = "draining" /\ phase[r] \in Working /\ mail[r] # <<>>
          /\ UNCHANGED <<held, lease, verdict, guarded, task, try, kept, caller, inbox>>
          /\ mail' = [mail EXCEPT ![r] = m]
      BY <1>5 DEF Drain, Working, taskVars, m
    <2>1. CASE /\ phase' = [phase EXCEPT ![r] = "settling"]
               /\ Ends \/ (Head(mail[r]) = "completion" /\ TakeCompletion(a))
      BY <1>3, <2>0, <2>1, ReadMailCharges DEF a, m, Ends
    <2>2. CASE phase' = [phase EXCEPT ![r] = "finishing"] /\ Ends
      BY <1>3, <2>0, <2>2, ReadMailCharges DEF a, m, Ends
    <2>3. CASE UNCHANGED <<outcome, phase, calls>>
      <3>1. phase' = [phase EXCEPT ![r] = "draining"]
        BY <1>0, <2>0, <2>3 DEF RequestTypes
      <3> QED
        BY <1>3, <2>0, <2>3, <3>1, ReadMailCharges DEF m
    <2> QED
      BY <1>2, <1>5, <2>1, <2>2, <2>3 DEF Drain, Goto, a
  <1>6. CASE Settle(r)
    <2>1. /\ phase[r] = "settling" /\ phase[r] \in Working /\ mail[r] # <<>>
          /\ UNCHANGED <<held, lease, verdict, guarded, task, try, kept, caller, inbox, outcome, calls>>
          /\ mail' = [mail EXCEPT ![r] = m]
      BY <1>6 DEF Settle, Working, taskVars, attemptVars, admissionVars, m
    <2>2. PICK p \in {"settling", "finishing"} : phase' = [phase EXCEPT ![r] = p]
      BY <1>0, <1>6 DEF Settle, Goto, RequestTypes
    <2> QED
      BY <1>3, <2>1, <2>2, ReadMailCharges DEF m
  <1> QED
    BY <1>4, <1>5, <1>6

LEMMA CallsAdd ==
  ASSUME Mailbox, NEW s \in Seq(Quiet), NEW t \in Seq(Quiet), NEW u \in Seq(Quiet)
  PROVE  /\ Call(s \o t) => Pending' = Pending \cup (Msgs(s) \cup Msgs(t))
         /\ Call(s \o t \o u) => Pending' = Pending \cup (Msgs(s) \cup Msgs(t) \cup Msgs(u))
  <1>1. s \o t \in Seq(Quiet) /\ s \o t \o u \in Seq(Quiet)
    BY QuietConcatenation
  <1>2. Msgs(s \o t) = Msgs(s) \cup Msgs(t)
    BY MsgsConcat
  <1>3. Msgs(s \o t \o u) = Msgs(s \o t) \cup Msgs(u)
    BY <1>1, MsgsConcat
  <1> QED
    BY <1>1, <1>2, <1>3, CallAdds

\* What a request gives away, with the death of its process when it ends.
LEMMA GivesAway ==
  ASSUME NEW r, NEW a, NEW Gifts \in SUBSET {ReleaseMsg(a), TransferMsg(a, CallerOf(r))},
         ReleaseMsg(a) \in Gifts => task[a] = "ended",
         TransferMsg(a, CallerOf(r)) \in Gifts => guarded[r],
         NEW D, Pending' = Pending \cup (Gifts \cup D),
         \/ phase'[r] = "gone" /\ D = DeathMsgs(OwnerOf(r))
         \/ (phase'[r] = "gone" => phase[r] = "gone") /\ D = {},
         guarded[r] => caller'[r] = caller[r]
  PROVE  /\ Sent(r, a, Gifts \cup D)
         /\ \A b : ReleaseMsg(b) \in Gifts \cup D => b = a /\ ReleaseMsg(a) \in Gifts
  <1>1. D \subseteq {DownMsg(OwnerOf(r))} /\ (D = {} \/ phase'[r] = "gone")
    BY MessagesDiffer
  <1>2. (\A b : ReleaseMsg(b) \notin D) /\ TransferMsg(a, CallerOf(r)) \notin D
        /\ DownMsg(CallerOf(r)) \notin D
    BY <1>1, MessagesDiffer, ProcessesDiffer
  <1>3. DownMsg(OwnerOf(r)) \notin Gifts /\ DownMsg(CallerOf(r)) \notin Gifts
    BY MessagesDiffer
  <1>4. phase[r] # "gone" /\ phase'[r] = "gone" => DeathMsgs(OwnerOf(r)) \subseteq D
    OBVIOUS
  <1>5. \A b : ReleaseMsg(b) \in Gifts => b = a
    BY MessageFields, MessagesDiffer
  <1> QED
    BY <1>1, <1>2, <1>3, <1>4, <1>5 DEF Sent

\* A step that concludes no attempt and starts no task.
LEMMA FramesRequest ==
  ASSUME RequestTypes, NEW r \in Requests, HeldInv(Now(r)),
         UNCHANGED <<held, lease, verdict, guarded, task, outcome>>,
         NEW p, phase' = [phase EXCEPT ![r] = p], phase[r] = "gone" => p = "gone",
         NEW m, mail' = [mail EXCEPT ![r] = m], Once(m),
         caller' = caller \/ caller' = [caller EXCEPT ![r] = "gone"],
         inbox' = inbox \/ \E box : inbox' = [inbox EXCEPT ![r] = box],
         inbox'[r] # "empty" => guarded[r],
         try' = try \/ \E i : try' = [try EXCEPT ![r] = i],
         kept' = kept \/ \E i : kept' = [kept EXCEPT ![r] = i]
  PROVE  RequestFrame(r) /\ phase'[r] = p /\ mail'[r] = m
  <1>1. /\ phase'[r] = p /\ mail'[r] = m
        /\ \A s \in Requests \ {r} : /\ phase'[s] = phase[s] /\ try'[s] = try[s]
                                     /\ mail'[s] = mail[s] /\ caller'[s] = caller[s]
                                     /\ inbox'[s] = inbox[s] /\ kept'[s] = kept[s]
    BY DEF RequestTypes
  <1>2. caller[r] = "gone" => caller'[r] = "gone"
    BY DEF RequestTypes
  <1>3. outcome'[Now(r)].leased => verdict[Now(r)].leased /\ task[Now(r)] = "ended"
    BY DEF HeldInv
  <1> QED
    BY <1>1, <1>2, <1>3 DEF RequestFrame

LEMMA FinishCharges ==
  ASSUME DispatchInv, ChargeInv, Mailbox, NEW r \in Requests, Finish(r)
  PROVE  ChargeInv'
  <1> DEFINE a == Now(r)
             exits == \E i \in DOMAIN mail[r] : mail[r][i] = "shutdown"
             unread == Completed(mail[r]) /\ verdict[a].leased
             handoff == guarded[r] /\ outcome[a].leased
             Gifts == {m \in {ReleaseMsg(a), TransferMsg(a, CallerOf(r))} :
                         \/ m = ReleaseMsg(a) /\ unread
                         \/ m = TransferMsg(a, CallerOf(r)) /\ handoff}
             D == IF exits THEN DeathMsgs(OwnerOf(r)) ELSE {}
             p == IF exits THEN "gone" ELSE "deciding"
  <1>0. /\ RequestTypes /\ AttemptTypes /\ a \in Attempts /\ HeldInv(a) /\ MailOnce(r)
        /\ (inbox[r] # "empty" => guarded[r]) /\ RequestOf(a) = r /\ <<r, kept[r]>> # a
    BY RequestContext
  <1>1. unread => task[a] = "ended" /\ ~outcome[a].leased
    BY <1>0 DEF MailOnce
  <1>2. /\ ReleaseMsg(a) \in Gifts <=> unread
        /\ TransferMsg(a, CallerOf(r)) \in Gifts <=> handoff
    BY MessagesDiffer
  <1>3. Pending' = Pending \cup (Gifts \cup D)
    <2> DEFINE s == IF unread THEN Release(a) ELSE <<>>
               t == IF handoff THEN Transfer(a, CallerOf(r)) ELSE <<>>
               u == IF exits THEN Death(OwnerOf(r)) ELSE <<>>
    <2>1. s \in Seq(Quiet) /\ t \in Seq(Quiet) /\ u \in Seq(Quiet)
      BY <1>0, Senders, QuietMessages
    <2>2. Call(s \o t \o u)
      BY DEF Finish, Completed
    <2>3. /\ Msgs(s) = IF unread THEN {ReleaseMsg(a)} ELSE {}
          /\ Msgs(t) = IF handoff THEN {TransferMsg(a, CallerOf(r))} ELSE {}
          /\ Msgs(u) = D
      BY MsgsOf
    <2> HIDE DEF s, t, u, D, unread, handoff
    <2>4. Pending' = Pending \cup (Msgs(s) \cup Msgs(t) \cup Msgs(u))
      BY <2>1, <2>2, CallsAdd
    <2>5. Msgs(s) \cup Msgs(t) = Gifts
      BY <2>3, MessagesDiffer
    <2> QED
      BY <2>3, <2>4, <2>5
  <1>4. /\ phase[r] = "finishing" /\ phase' = [phase EXCEPT ![r] = p]
        /\ mail' = [mail EXCEPT ![r] = <<>>]
        /\ UNCHANGED <<held, lease, verdict, guarded, task, outcome, caller, inbox, try, kept>>
    BY DEF Finish, Goto, attemptVars
  <1> HIDE DEF a, unread, handoff, exits, Gifts
  <1>5. RequestFrame(r) /\ phase'[r] = p /\ mail'[r] = <<>>
    BY <1>0, <1>4, NoMail, FramesRequest DEF a
  <1>6. /\ Sent(r, a, Gifts \cup D)
        /\ \A b : ReleaseMsg(b) \in Gifts \cup D => b = a /\ unread
    <2>1. /\ Gifts \in SUBSET {ReleaseMsg(a), TransferMsg(a, CallerOf(r))}
          /\ ReleaseMsg(a) \in Gifts => task[a] = "ended"
          /\ TransferMsg(a, CallerOf(r)) \in Gifts => guarded[r]
      BY <1>1, <1>2 DEF Gifts, handoff
    <2>2. \/ phase'[r] = "gone" /\ D = DeathMsgs(OwnerOf(r))
          \/ (phase'[r] = "gone" => phase[r] = "gone") /\ D = {}
      BY <1>5
    <2>3. guarded[r] => caller'[r] = caller[r]
      BY <1>4
    <2> HIDE DEF D
    <2>4. /\ Sent(r, a, Gifts \cup D)
          /\ \A b : ReleaseMsg(b) \in Gifts \cup D => b = a /\ ReleaseMsg(a) \in Gifts
      BY <1>3, <2>1, <2>2, <2>3, GivesAway
    <2> QED
      BY <1>2, <2>4
  <1>7. Answers(r, Gifts \cup D)
    <2>1. Now(r)' = a
      BY <1>4 DEF Now, a
    <2>2. ASSUME NEW b \in Attempts, Answering(r, b)'
          PROVE  Answering(r, b) /\ (b = a => task[a] # "ended" \/ outcome[a].leased)
      BY <1>0, <1>4, <1>5, <2>1, <2>2, NoMail DEF Answering, Alive, a
    <2>3. \A b \in Attempts : Answering(r, b)' =>
            Answering(r, b) /\ ReleaseMsg(b) \notin Gifts \cup D
      BY <1>1, <1>6, <2>2
    <2> QED
      BY <1>4, <1>5, <2>3, NoMail, KeptStays DEF Answers
  <1> QED
    BY <1>0, <1>5, <1>6, <1>7, RequestEffect

\* A request that goes on gives the lease of at most one answer back.
LEMMA Discards ==
  ASSUME DispatchInv, ChargeInv, Mailbox, NEW r \in Requests, NEW a \in Attempts,
         Call(Discard(r, a)), phase'[r] # "gone", caller' = caller
  PROVE  \E New : Sent(r, a, New) /\ \A x : ReleaseMsg(x) \in New => x = a
  <1> DEFINE Gifts == IF outcome[a].leased THEN {ReleaseMsg(a)} ELSE {}
  <1>1. outcome[a].leased => task[a] = "ended"
    BY RequestContext
  <1>2. Pending' = Pending \cup (Gifts \cup {})
    <2>1. Release(a) \in Seq(Quiet) /\ <<>> \in Seq(Quiet)
      BY Senders, QuietMessages
    <2> QED
      BY <2>1, CallAdds, MsgsOf DEF Discard
  <1>3. /\ Gifts \in SUBSET {ReleaseMsg(a), TransferMsg(a, CallerOf(r))}
        /\ ReleaseMsg(a) \in Gifts => task[a] = "ended"
        /\ TransferMsg(a, CallerOf(r)) \notin Gifts
    BY <1>1, MessagesDiffer
  <1> HIDE DEF Gifts
  <1>4. Sent(r, a, Gifts \cup {}) /\ \A x : ReleaseMsg(x) \in Gifts \cup {} => x = a
    BY <1>2, <1>3, GivesAway
  <1> QED
    BY <1>4

\* It decides: what it then keeps is what it kept, or its last answer, or nothing.
LEMMA DecidesOn ==
  ASSUME RequestTypes, NEW r \in Requests, Decide(r)
  PROVE  /\ phase[r] = "deciding"
         /\ UNCHANGED <<held, lease, verdict, guarded, task, outcome, caller, inbox, mail>>
         /\ \/ /\ try' = [try EXCEPT ![r] = @ + 1] /\ try[r] < Tries
               /\ phase' = [phase EXCEPT ![r] = "ready"]
               /\ \/ kept' = kept /\ (Call(Discard(r, Now(r))) \/ UNCHANGED calls)
                  \/ /\ kept' = [kept EXCEPT ![r] = IF outcome[Now(r)].leased THEN try[r] ELSE 0]
                     /\ Call(Older(r))
            \/ /\ try' = try /\ phase' = [phase EXCEPT ![r] = "done"]
               /\ \/ kept' = kept /\ UNCHANGED calls
                  \/ kept' = [kept EXCEPT ![r] = 0] /\ Call(Older(r))
BY DEF Decide, Retry, EndRequest, CanRetry, Goto, attemptVars, taskVars

LEMMA DecideCharges ==
  ASSUME DispatchInv, ChargeInv, Mailbox, NEW r \in Requests, Decide(r)
  PROVE  ChargeInv'
  <1>0. /\ RequestTypes /\ AttemptTypes /\ Now(r) \in Attempts /\ HeldInv(Now(r)) /\ MailInv(r)
        /\ (inbox[r] # "empty" => guarded[r]) /\ Inv /\ NotStarted /\ Inv'
        /\ KeptInv(r) /\ (kept[r] # 0 => <<r, kept[r]>> \in Attempts \ {Now(r)})
        /\ RequestOf(Now(r)) = r
    BY RequestContext, NextKeeps DEF Next, Undisturbed, RequestStep
  <1>1. /\ phase[r] = "deciding" /\ mail[r] = <<>>
        /\ UNCHANGED <<held, lease, verdict, guarded, task, outcome, caller, inbox, mail>>
        /\ mail' = [mail EXCEPT ![r] = mail[r]]
    BY <1>0, DecidesOn DEF MailInv, RequestTypes
  <1>2. /\ kept[r] \in 0 .. Tries /\ try[r] \in 1 .. Tries
        /\ \/ /\ try'[r] = try[r] + 1 /\ try[r] < Tries /\ phase'[r] = "ready"
              /\ \/ kept' = kept
                 \/ kept'[r] = IF outcome[Now(r)].leased THEN try[r] ELSE 0
           \/ /\ try' = try /\ phase'[r] = "done"
              /\ kept' = kept \/ kept'[r] = 0
    BY <1>0, DecidesOn DEF RequestTypes
  <1>3. RequestFrame(r) /\ mail'[r] = <<>>
    <2>1. PICK p \in {"ready", "done"} : phase' = [phase EXCEPT ![r] = p]
      BY <1>0, DecidesOn
    <2>2. try' = try \/ \E i : try' = [try EXCEPT ![r] = i]
      BY <1>0, DecidesOn
    <2>3. kept' = kept \/ \E i : kept' = [kept EXCEPT ![r] = i]
      BY <1>0, DecidesOn
    <2> QED
      BY <1>0, <1>1, <2>1, <2>2, <2>3, NoMail, FramesRequest
  <1>4. PICK b, New :
          /\ b \in Attempts /\ RequestOf(b) = r /\ Sent(r, b, New)
          /\ \A x : ReleaseMsg(x) \in New => x = b
          /\ New = {} \/ (b # <<r, kept'[r]>> /\ (phase'[r] = "done" => b # Now(r)))
    <2>1. CASE UNCHANGED calls
      <3>1. Sent(r, Now(r), {})
        BY <1>1, <1>2, <2>1, SendsNothing
      <3> QED
        BY <1>0, <3>1
    <2>2. CASE Call(Discard(r, Now(r))) /\ kept' = kept /\ phase'[r] = "ready"
      <3>1. Now(r) # <<r, kept'[r]>>
        BY <1>0, <1>2, <2>2 DEF Now
      <3>2. \E New : Sent(r, Now(r), New) /\ \A x : ReleaseMsg(x) \in New => x = Now(r)
        BY <1>0, <1>1, <2>2, Discards
      <3> QED
        BY <1>0, <2>2, <3>1, <3>2
    <2>3. CASE Call(Older(r)) /\ kept'[r] \in {0, try[r]} /\ kept[r] # 0
      <3>1. /\ <<r, kept[r]>> \in Attempts /\ <<r, kept[r]>> # Now(r)
            /\ <<r, kept[r]>> # <<r, kept'[r]>> /\ RequestOf(<<r, kept[r]>>) = r
        BY <1>0, <1>2, <2>3 DEF Now, RequestOf, KeptInv
      <3>2. \E New : Sent(r, <<r, kept[r]>>, New)
                       /\ \A x : ReleaseMsg(x) \in New => x = <<r, kept[r]>>
        <4>1. Call(Discard(r, <<r, kept[r]>>))
          BY <2>3 DEF Older
        <4> QED
          BY <1>1, <1>2, <3>1, <4>1, Discards
      <3> QED
        BY <3>1, <3>2
    <2>4. CASE Call(Older(r)) /\ kept[r] = 0
      <3>1. UNCHANGED calls
        BY <2>4 DEF Older, Call, Mailbox
      <3> QED
        BY <2>1, <3>1
    <2> QED
      BY <1>0, <1>2, <2>1, <2>2, <2>3, <2>4, DecidesOn DEF RequestTypes
  <1>5. KeptInv(r)'
    <2>1. outcome' = outcome
      BY <1>1
    <2> QED
      BY <1>0, <1>2, <2>1 DEF KeptInv, Now
  <1>6. ASSUME phase'[r] = "ready" PROVE Now(r)' \in Attempts /\ ~verdict'[Now(r)'].leased
    <2>1. try'[r] = try[r] + 1 /\ try'[r] \in 1 .. Tries
      BY <1>2, <1>6, BoundsAssumption
    <2>2. Now(r)' = <<r, try[r] + 1>> /\ Now(r)' \in Attempts
      BY <2>1 DEF Now, Attempts
    <2>3. task[<<r, try[r] + 1>>] = "none"
      BY <1>0, <1>2, <2>1 DEF NotStarted
    <2>4. ~verdict[<<r, try[r] + 1>>].leased
      BY <2>2, <2>3 DEF ChargeInv, HeldInv, Over
    <2> QED
      BY <1>1, <2>2, <2>4
  <1>7. ASSUME NEW x \in Attempts, Answering(r, x)'
        PROVE  Answering(r, x) /\ ReleaseMsg(x) \notin New
    <2>1. Alive(r) /\ verdict[x].leased
      BY <1>1, <1>7 DEF Answering, Alive
    <2>2. CASE x = Now(r)'
      <3>1. phase'[r] = "done" /\ x = Now(r)
        BY <1>2, <1>6, <1>7, <2>2 DEF Answering, Now
      <3>2. outcome[x].leased \/ task[x] # "ended" \/ x = <<r, kept'[r]>>
        BY <1>1, <1>3, <1>7, NoMail DEF Answering
      <3>3. x # <<r, kept'[r]>>
        BY <1>0, <1>2, <3>1 DEF Now, KeptInv
      <3>4. Answering(r, x)
        BY <1>1, <2>1, <3>1, <3>2, <3>3 DEF Answering
      <3> QED
        BY <1>4, <3>1, <3>4
    <2>3. CASE x # Now(r)'
      <3>1. x = <<r, kept'[r]>> /\ kept'[r] # 0
        BY <1>7, <2>3 DEF Answering, Attempts
      <3>2. kept' = kept \/ (x = Now(r) /\ outcome[Now(r)].leased)
        BY <1>2, <3>1 DEF Now
      <3>3. Answering(r, x)
        BY <1>1, <2>1, <3>1, <3>2 DEF Answering
      <3> QED
        BY <1>4, <3>1, <3>3
    <2> QED
      BY <2>2, <2>3
  <1>8. Answers(r, New)
    BY <1>3, <1>5, <1>7, NoMail DEF Answers
  <1> QED
    BY <1>3, <1>4, <1>8, RequestEffect

\* A step that leaves the attempts alone, with the messages it sends.
LEMMA ElsewhereCharges ==
  ASSUME DispatchInv, ChargeInv, Mailbox, NEW r \in Requests,
         UNCHANGED <<held, lease, verdict, guarded, task, outcome, try, kept>>,
         NEW p, phase' = [phase EXCEPT ![r] = p], phase[r] = "gone" => p = "gone",
         NEW m, mail' = [mail EXCEPT ![r] = m],
         m = mail[r] \/ \E message \in {"cutoff", "caller_down", "shutdown"} :
                          m = Append(mail[r], message),
         caller' = caller \/ caller' = [caller EXCEPT ![r] = "gone"],
         inbox' = inbox \/ \E box : inbox' = [inbox EXCEPT ![r] = box],
         inbox'[r] # "empty" => guarded[r],
         p \in {"gone", "delivering", phase[r]},
         NEW New, NEW b \in Attempts, RequestOf(b) = r, Sent(r, b, New),
         (\A x : ReleaseMsg(x) \notin New) \/ p = "gone"
  PROVE  ChargeInv'
  <1> DEFINE a == Now(r)
  <1>0. /\ RequestTypes /\ AttemptTypes /\ a \in Attempts /\ HeldInv(a) /\ MailOnce(r)
        /\ Once(mail[r]) /\ mail[r] \in Seq(Messages)
    BY RequestContext
  <1>1. Once(m) /\ (Completed(m) => Completed(mail[r]))
    <2>1. CASE m = mail[r]
      BY <1>0, <2>1
    <2>2. ASSUME NEW message \in {"cutoff", "caller_down", "shutdown"}
          PROVE  /\ Once(Append(mail[r], message))
                 /\ Completed(Append(mail[r], message)) => Completed(mail[r])
      <3>1. message \in Messages /\ message # "completion"
        BY DEF Messages
      <3> QED
        BY <1>0, <3>1, MailAppend, OnceAppend
    <2> QED
      BY <2>1, <2>2
  <1>2. RequestFrame(r) /\ phase'[r] = p /\ mail'[r] = m
    BY <1>0, <1>1, FramesRequest
  <1>3. Now(r)' = Now(r)
    BY DEF Now
  <1>4. Alive(r)' => Alive(r) /\ p # "gone"
    BY <1>0, <1>2 DEF Alive, RequestTypes, RequestFrame
  <1>5. ASSUME NEW x \in Attempts, Answering(r, x)' PROVE Answering(r, x) /\ p # "gone"
    BY <1>1, <1>2, <1>3, <1>4, <1>5 DEF Answering
  <1>6. Answers(r, New)
    BY <1>0, <1>1, <1>2, <1>3, <1>5, KeptStays DEF Answers, MailOnce
  <1> QED
    BY <1>2, <1>6, RequestEffect

LEMMA AnswerCharges ==
  ASSUME DispatchInv, ChargeInv, Mailbox, NEW r \in Requests, Answer(r)
  PROVE  ChargeInv'
  <1> DEFINE a == Reply(r)
             Gifts == IF outcome[a].leased THEN {ReleaseMsg(a)} ELSE {}
  <1>0. /\ RequestTypes /\ a \in Attempts /\ (inbox[r] # "empty" => guarded[r])
        /\ outcome[a].leased => verdict[a].leased /\ task[a] = "ended"
        /\ RequestOf(a) = r
    BY RequestContext
  <1>1. /\ phase[r] = "done" /\ mail' = [mail EXCEPT ![r] = mail[r]]
        /\ UNCHANGED <<held, lease, verdict, guarded, task, outcome, caller, mail, try, kept>>
    BY <1>0 DEF Answer, RequestTypes, attemptVars, taskVars
  <1>2. CASE /\ phase' = [phase EXCEPT ![r] = "gone"]
             /\ Call(Discard(r, a) \o Death(OwnerOf(r)))
             /\ UNCHANGED inbox
    <2>1. Pending' = Pending \cup (Gifts \cup DeathMsgs(OwnerOf(r)))
      <3>1. Release(a) \in Seq(Quiet) /\ <<>> \in Seq(Quiet) /\ Death(OwnerOf(r)) \in Seq(Quiet)
        BY <1>0, Senders, QuietMessages
      <3>2. CASE outcome[a].leased
        <4>1. Call(Release(a) \o Death(OwnerOf(r)))
          BY <1>2, <3>2 DEF Discard
        <4>2. Pending' = Pending \cup (Msgs(Release(a)) \cup Msgs(Death(OwnerOf(r))))
          BY <3>1, <4>1, CallsAdd
        <4> QED
          BY <3>2, <4>2, MsgsOf
      <3>3. CASE ~outcome[a].leased
        <4>1. Call(<<>> \o Death(OwnerOf(r)))
          BY <1>2, <3>3 DEF Discard
        <4>2. Pending' = Pending \cup (Msgs(<<>>) \cup Msgs(Death(OwnerOf(r))))
          BY <3>1, <4>1, CallsAdd
        <4> QED
          BY <3>3, <4>2, MsgsOf
      <3> QED
        BY <3>2, <3>3
    <2>2. phase'[r] = "gone"
      BY <1>0, <1>2 DEF RequestTypes
    <2>3. /\ Gifts \in SUBSET {ReleaseMsg(a), TransferMsg(a, CallerOf(r))}
          /\ ReleaseMsg(a) \in Gifts => task[a] = "ended"
          /\ TransferMsg(a, CallerOf(r)) \notin Gifts
      BY <1>0, MessagesDiffer
    <2> HIDE DEF Gifts, a
    <2>4. Sent(r, a, Gifts \cup DeathMsgs(OwnerOf(r)))
      BY <1>1, <2>1, <2>2, <2>3, GivesAway
    <2> QED
      BY <1>0, <1>1, <1>2, <2>4, ElsewhereCharges
  <1>3. CASE /\ guarded[r] /\ phase' = [phase EXCEPT ![r] = "delivering"]
             /\ inbox' = [inbox EXCEPT ![r] = "full"]
             /\ UNCHANGED calls
    <2>1. phase'[r] = "delivering"
      BY <1>0, <1>3 DEF RequestTypes
    <2>2. Sent(r, a, {})
      BY <1>1, <1>3, <2>1, SendsNothing
    <2>3. caller' = caller /\ inbox'[r] # "empty" => guarded[r]
      BY <1>3
    <2>4. phase[r] = "gone" => "delivering" = "gone"
      BY <1>1
    <2> DEFINE New == {}
    <2>5. Sent(r, a, New) /\ \A x : ReleaseMsg(x) \notin New
      BY <2>2
    <2> HIDE DEF New, a
    <2> QED
      BY <1>0, <1>1, <1>3, <2>3, <2>4, <2>5, ElsewhereCharges
  <1> QED
    BY <1>2, <1>3 DEF Answer, Goto

LEMMA AcceptCharges ==
  ASSUME DispatchInv, ChargeInv, Mailbox, NEW r \in Requests, Accept(r)
  PROVE  ChargeInv'
  <1> DEFINE a == Reply(r)
             Gifts == IF outcome[a].leased THEN {ReleaseMsg(a), TransferMsg(a, CallerOf(r))} ELSE {}
             D == IF phase[r] = "gone" THEN {} ELSE DeathMsgs(OwnerOf(r))
             u == IF phase[r] = "gone" THEN <<>> ELSE Death(OwnerOf(r))
  <1>0. /\ RequestTypes /\ a \in Attempts /\ (inbox[r] # "empty" => guarded[r])
        /\ outcome[a].leased => verdict[a].leased /\ task[a] = "ended"
        /\ RequestOf(a) = r
    BY RequestContext
  <1>1. /\ guarded[r] /\ mail' = [mail EXCEPT ![r] = mail[r]]
        /\ phase' = [phase EXCEPT ![r] = "gone"] /\ inbox' = [inbox EXCEPT ![r] = "read"]
        /\ UNCHANGED <<held, lease, verdict, guarded, task, outcome, caller, mail, try, kept>>
    BY <1>0 DEF Accept, Goto, RequestTypes, attemptVars, taskVars
  <1>2. Pending' = Pending \cup (Gifts \cup D)
    <2>1. /\ Release(a) \in Seq(Quiet) /\ <<>> \in Seq(Quiet) /\ u \in Seq(Quiet)
          /\ Transfer(a, CallerOf(r)) \in Seq(Quiet)
      BY <1>0, Senders, QuietMessages
    <2>2. Msgs(u) = D
      BY MsgsOf
    <2> HIDE DEF u, D
    <2>3. CASE outcome[a].leased
      <3>1. Call(Transfer(a, CallerOf(r)) \o Release(a) \o u)
        BY <2>3 DEF Accept, Adopt, u
      <3> QED
        BY <2>1, <2>2, <2>3, <3>1, CallsAdd, MsgsOf
    <2>4. CASE ~outcome[a].leased
      <3>1. Call(<<>> \o u)
        BY <2>4 DEF Accept, u
      <3> QED
        BY <2>1, <2>2, <2>4, <3>1, CallsAdd, MsgsOf
    <2> QED
      BY <2>3, <2>4
  <1>3. phase'[r] = "gone"
    BY <1>0, <1>1 DEF RequestTypes
  <1>4. /\ Gifts \in SUBSET {ReleaseMsg(a), TransferMsg(a, CallerOf(r))}
        /\ ReleaseMsg(a) \in Gifts => task[a] = "ended"
    BY <1>0, MessagesDiffer
  <1>5. \/ phase'[r] = "gone" /\ D = DeathMsgs(OwnerOf(r))
        \/ (phase'[r] = "gone" => phase[r] = "gone") /\ D = {}
    BY <1>3
  <1> HIDE DEF Gifts, D, a
  <1>6. Sent(r, a, Gifts \cup D)
    BY <1>1, <1>2, <1>4, <1>5, GivesAway
  <1> QED
    BY <1>0, <1>1, <1>6, ElsewhereCharges

\* A process that ends, by itself or by others, with the lease it may have.
LEMMA EndsCharges ==
  ASSUME DispatchInv, ChargeInv, Mailbox, NEW r \in Requests, Goto(r, "gone"),
         Call(Death(OwnerOf(r))),
         UNCHANGED <<held, lease, verdict, guarded, task, outcome, try, kept, mail, inbox>>,
         caller' = caller \/ (~guarded[r] /\ caller' = [caller EXCEPT ![r] = "gone"])
  PROVE  ChargeInv'
  <1>0. RequestTypes /\ (inbox[r] # "empty" => guarded[r]) /\ Now(r) \in Attempts
        /\ RequestOf(Now(r)) = r
    BY RequestContext
  <1>1. /\ phase' = [phase EXCEPT ![r] = "gone"] /\ phase'[r] = "gone"
        /\ mail' = [mail EXCEPT ![r] = mail[r]]
    BY <1>0 DEF Goto, RequestTypes
  <1>2. Pending' = Pending \cup ({} \cup DeathMsgs(OwnerOf(r)))
    <2>1. Death(OwnerOf(r)) \in Seq(Quiet)
      BY Senders, QuietMessages
    <2> QED
      BY <2>1, CallAdds, MsgsOf
  <1>3. Sent(r, Now(r), {} \cup DeathMsgs(OwnerOf(r)))
    <2> DEFINE Gifts == {}
    <2>1. /\ Gifts \in SUBSET {ReleaseMsg(Now(r)), TransferMsg(Now(r), CallerOf(r))}
          /\ ReleaseMsg(Now(r)) \notin Gifts /\ TransferMsg(Now(r), CallerOf(r)) \notin Gifts
          /\ Pending' = Pending \cup (Gifts \cup DeathMsgs(OwnerOf(r)))
      BY <1>2
    <2>2. guarded[r] => caller'[r] = caller[r]
      BY DEF RequestTypes
    <2> HIDE DEF Gifts
    <2>3. Sent(r, Now(r), Gifts \cup DeathMsgs(OwnerOf(r)))
      BY <1>1, <2>1, <2>2, GivesAway
    <2> QED
      BY <2>3 DEF Gifts
  <1> QED
    BY <1>0, <1>1, <1>3, ElsewhereCharges

LEMMA CallerDiesCharges ==
  ASSUME DispatchInv, ChargeInv, Mailbox, NEW r \in Requests, CallerDies(r)
  PROVE  ChargeInv'
  <1>0. RequestTypes /\ (inbox[r] # "empty" => guarded[r]) /\ Now(r) \in Attempts
        /\ RequestOf(Now(r)) = r
    BY RequestContext
  <1>1. /\ caller' = [caller EXCEPT ![r] = "gone"] /\ phase' = [phase EXCEPT ![r] = phase[r]]
        /\ caller'[r] = "gone" /\ phase' = phase
        /\ UNCHANGED <<held, lease, verdict, guarded, task, outcome, try, kept, inbox>>
    BY <1>0 DEF CallerDies, RequestTypes, attemptVars, taskVars
  <1>2. PICK m : /\ mail' = [mail EXCEPT ![r] = m]
                 /\ m \in {mail[r], Append(mail[r], "caller_down")}
    BY <1>0 DEF CallerDies, Post, RequestTypes
  <1>3. Pending' = Pending \cup DeathMsgs(CallerOf(r))
    <2>1. Death(CallerOf(r)) \in Seq(Quiet)
      BY Senders, QuietMessages
    <2> QED
      BY <2>1, CallAdds, MsgsOf DEF CallerDies
  <1>4. /\ Sent(r, Now(r), DeathMsgs(CallerOf(r)))
        /\ \A x : ReleaseMsg(x) \notin DeathMsgs(CallerOf(r))
    <2>1. /\ DeathMsgs(CallerOf(r)) \subseteq {DownMsg(CallerOf(r))}
          /\ \A x : ReleaseMsg(x) \notin DeathMsgs(CallerOf(r))
          /\ TransferMsg(Now(r), CallerOf(r)) \notin DeathMsgs(CallerOf(r))
          /\ DownMsg(OwnerOf(r)) \notin DeathMsgs(CallerOf(r))
      BY MessagesDiffer, ProcessesDiffer
    <2> QED
      BY <1>1, <1>3, <2>1 DEF Sent
  <1> QED
    BY <1>0, <1>1, <1>2, <1>4, ElsewhereCharges

LEMMA QuietRequestCharges ==
  ASSUME DispatchInv, ChargeInv, Mailbox, NEW r \in Requests,
         UNCHANGED <<held, lease, verdict, guarded, task, outcome, try, kept, phase, inbox, calls>>,
         mail' = mail \/ \E message \in {"cutoff", "shutdown"} : Post(r, message),
         caller' = caller \/ (~guarded[r] /\ caller' = [caller EXCEPT ![r] = "gone"])
  PROVE  ChargeInv'
  <1>0. RequestTypes /\ (inbox[r] # "empty" => guarded[r]) /\ Now(r) \in Attempts
        /\ RequestOf(Now(r)) = r
    BY RequestContext
  <1>1. phase' = [phase EXCEPT ![r] = phase[r]]
    BY <1>0 DEF RequestTypes
  <1>2. PICK m : /\ mail' = [mail EXCEPT ![r] = m]
                 /\ m \in {mail[r], Append(mail[r], "cutoff"), Append(mail[r], "shutdown")}
    BY <1>0 DEF Post, RequestTypes
  <1> DEFINE New == {}
  <1>3. Sent(r, Now(r), New) /\ \A x : ReleaseMsg(x) \notin New
    BY SendsNothing
  <1>4. m = mail[r] \/ \E message \in {"cutoff", "caller_down", "shutdown"} :
                          m = Append(mail[r], message)
    BY <1>2
  <1> HIDE DEF New
  <1> QED
    BY <1>0, <1>1, <1>2, <1>3, <1>4, ElsewhereCharges

LEMMA RequestCharges ==
  ASSUME DispatchInv, ChargeInv, Mailbox, NEW r \in Requests,
         RequestStep(r) \/ Accept(r) \/ DeadlinePasses(r) \/ CutoffFires(r)
           \/ KillOwner(r) \/ CallerDies(r) \/ ParentStops(r)
  PROVE  ChargeInv'
  <1>1. CASE Undeliverable(r) \/ KillOwner(r)
    BY <1>1, EndsCharges DEF Undeliverable, KillOwner, attemptVars, taskVars
  <1>2. CASE ParentStops(r)
    <2>1. UNCHANGED <<held, lease, verdict, guarded, task, outcome, try, kept, inbox>>
          /\ ~guarded[r] /\ caller' = [caller EXCEPT ![r] = "gone"]
      BY <1>2 DEF ParentStops, attemptVars, taskVars
    <2>2. CASE Post(r, "shutdown") /\ UNCHANGED <<phase, calls>>
      BY <2>1, <2>2, QuietRequestCharges
    <2>3. CASE Goto(r, "gone") /\ Call(Death(OwnerOf(r))) /\ UNCHANGED mail
      BY <2>1, <2>3, EndsCharges
    <2> QED
      BY <1>2, <2>2, <2>3 DEF ParentStops
  <1>3. CASE DeadlinePasses(r) \/ CutoffFires(r)
    BY <1>3, QuietRequestCharges
    DEF DeadlinePasses, CutoffFires, requestVars, taskVars, admissionVars
  <1> QED
    BY <1>1, <1>2, <1>3, StartAttemptCharges, ReadingCharges, FinishCharges, DecideCharges,
       AnswerCharges, AcceptCharges, CallerDiesCharges
    DEF RequestStep
-----------------------------------------------------------------------------
(* The steps of a task and its socket.                                     *)
LEMMA AttemptEffect ==
  ASSUME DispatchInv, ChargeInv, Mailbox, NEW a \in Attempts, TaskEffect(a),
         UNCHANGED <<phase, try, kept, guarded, caller, inbox, lease>>,
         \/ UNCHANGED mail
         \/ /\ Awaits(a) /\ task[a] # "ended" /\ task'[a] = "ended"
            /\ \E message \in {"exit", "completion"} : Post(RequestOf(a), message),
         NEW New, Pending' = Pending \cup New,
         \A m \in New : /\ Proper(m)' /\ \A b \in Attempts : held[b] => ~Acquires(m, b)
                        /\ m.call = "release" => m.attempt = a /\ ~verdict'[a].leased,
         task[a] \notin {"none", "ended"} /\ task'[a] \in {"none", "ended"} =>
           DeathMsgs(TaskOf(a)) \subseteq New
  PROVE  ChargeInv'
  <1>0. /\ RequestTypes /\ AttemptTypes /\ Inv /\ HeldInv(a)
        /\ ProperInv /\ HeldAsksNot /\ HolderInv /\ ChargedInv
    BY DEF DispatchInv, RequestsInv, AttemptsInv, ChargeInv
  <1>1. Forward
    BY DEF Forward, TaskEffect
  <1>2. ASSUME NEW s \in Requests
        PROVE  /\ Now(s)' = Now(s) /\ Now(s) \in Attempts /\ mail[s] \in Seq(Messages)
               /\ Now(s) # a \/ s = RequestOf(a)
               /\ \/ mail'[s] = mail[s]
                  \/ /\ Now(s) = a /\ task[a] # "ended" /\ task'[a] = "ended"
                     /\ \E message \in {"exit", "completion"} : mail'[s] = Append(mail[s], message)
    <2>1. Now(s)' = Now(s) /\ Now(s) \in Attempts /\ mail[s] \in Seq(Messages)
      BY <1>0, PresentAttempt DEF Now, RequestTypes
    <2>2. Now(s) # a \/ s = RequestOf(a)
      BY DEF Now, RequestOf
    <2>3. ASSUME NEW message, Awaits(a), Post(RequestOf(a), message), s = RequestOf(a)
          PROVE  mail'[s] = Append(mail[s], message) /\ Now(s) = a
      BY <1>0, <2>3 DEF Awaits, Post, RequestTypes
    <2>4. ASSUME NEW message, Post(RequestOf(a), message), s # RequestOf(a)
          PROVE  mail'[s] = mail[s]
      BY <1>0, <2>4 DEF Post, RequestTypes
    <2> QED
      BY <2>1, <2>2, <2>3, <2>4
  <1>3. ASSUME NEW s \in Requests, NEW b \in Attempts, Answering(s, b)'
        PROVE  /\ Answering(s, b)
               /\ \A m \in New : ~(m.call = "release" /\ m.attempt = b)
    <2>1. /\ Now(s)' = Now(s) /\ phase' = phase /\ caller' = caller /\ kept' = kept
          /\ guarded' = guarded /\ outcome' = outcome
      BY <1>2 DEF TaskEffect
    <2>2. verdict'[b].leased /\ verdict[b].leased
      BY <1>3 DEF Answering, TaskEffect
    <2>3. task'[b] # "ended" => task[b] # "ended"
      BY <1>1 DEF Forward
    <2>4. b = Now(s) /\ Completed(mail'[s]) => Completed(mail[s]) \/ task[b] # "ended"
      BY <1>2
    <2>5. Answering(s, b)
      BY <1>3, <2>1, <2>2, <2>3, <2>4 DEF Answering, Alive
    <2> QED
      BY <2>1, <2>2, <2>5
  <1>4. ProperInv' /\ HeldAsksNot' /\ HolderInv' /\ ChargedInv'
    <2>1. UNCHANGED <<held, lease>>
      BY DEF TaskEffect
    <2>2. \A b \in Attempts : task[b] \notin {"none", "ended"} /\ task'[b] \in {"none", "ended"} =>
            DeathMsgs(TaskOf(b)) \subseteq New
      BY DEF TaskEffect
    <2> QED
      BY <1>0, <1>1, <1>3, <2>1, <2>2, SendStep
  <1>5. ASSUME NEW b \in Attempts PROVE HeldInv(b)'
    <2>1. CASE b = a
      BY <2>1 DEF TaskEffect
    <2>2. CASE b # a
      BY <2>2 DEF TaskEffect, HeldInv, ChargeInv
    <2> QED
      BY <2>1, <2>2
  <1>6. ASSUME NEW s \in Requests PROVE MailOnce(s)'
    <2>0. MailOnce(s)
      BY DEF ChargeInv
    <2>1. /\ Now(s)' = Now(s) /\ Now(s) \in Attempts /\ inbox' = inbox /\ guarded' = guarded
          /\ outcome' = outcome
          /\ task[Now(s)] = "ended" => task'[Now(s)] = "ended"
      BY <1>1, <1>2 DEF TaskEffect, Forward
    <2>2. CASE mail'[s] = mail[s]
      BY <2>0, <2>1, <2>2 DEF MailOnce
    <2>3. ASSUME NEW message \in {"exit", "completion"}, mail'[s] = Append(mail[s], message),
                 Now(s) = a, task[a] # "ended", task'[a] = "ended"
          PROVE  MailOnce(s)'
      <3>1. message \in Messages
        BY DEF Messages
      <3>2. ~Completed(mail[s]) /\ ~outcome[a].leased
        BY <1>0, <2>0, <2>3 DEF MailOnce, HeldInv
      <3>3. Once(mail'[s])
        BY <1>2, <2>0, <2>3, <3>1, <3>2, OnceAppend DEF MailOnce
      <3> QED
        BY <2>0, <2>1, <2>3, <3>2, <3>3 DEF MailOnce
    <2> QED
      BY <1>2, <2>2, <2>3
  <1>7. ASSUME NEW s \in Requests PROVE KeptInv(s)'
    BY DEF ChargeInv, KeptInv, TaskEffect
  <1> QED
    BY <1>4, <1>5, <1>6, <1>7 DEF ChargeInv

LEMMA AcquiresOnce ==
  ASSUME Mailbox, NEW a \in Attempts, Call(Acquire(a))
  PROVE  \E m : /\ Pending' = Pending \cup {m}
                /\ m.call = "acquire" /\ m.attempt = a /\ m.by = TaskOf(a)
  <1> DEFINE m == [call |-> "acquire", attempt |-> a, by |-> TaskOf(a)]
  <1>1. m.call = "acquire" /\ m.attempt = a /\ m.by = TaskOf(a)
    OBVIOUS
  <1>2. <<m>> \in Seq(Posted) /\ Acquire(a) = <<m>>
    <2>1. m \in Posted
      BY Senders DEF Posted
    <2> HIDE DEF m
    <2>2. <<m>> \in Seq(Posted)
      BY <2>1
    <2>3. Acquire(a) = <<m>>
      BY DEF Acquire, m
    <2> QED
      BY <2>2, <2>3
  <1> HIDE DEF m
  <1>3. Pending' = Pending \cup Msgs(<<m>>)
    BY <1>2, MsgsConcat DEF Mailbox, Call, Pending
  <1> QED
    BY <1>1, <1>3, MsgsOf

LEMMA TaskCharges ==
  ASSUME DispatchInv, ChargeInv, Mailbox, NEW a \in Attempts,
         TaskStep(a) \/ TaskDies(a) \/ SocketStep(a) \/ CheckoutDies(a)
  PROVE  ChargeInv'
  <1>0. AttemptTypes /\ HeldInv(a) /\ task \in [Attempts -> TaskSteps]
    BY DEF DispatchInv, AttemptsInv, ChargeInv, AttemptTypes
  <1>1. TaskEffect(a)
    BY <1>0, TaskEffects
  <1>2. UNCHANGED <<phase, try, kept, guarded, caller, inbox, lease>>
    BY DEF TaskStep, ReadToken, AcquireTimesOut, OpenSend, StartCheckout, Collect, StopCheckout,
           CheckoutStopped, Validate, TransferTimesOut, TaskCrashes, RecordVerdict, Complete,
           TaskDies, SocketStep, NoConnection, SendStart, Write, SendStop, Respond,
           CheckoutDies, Detached, requestVars, admissionVars
  <1>3. Death(TaskOf(a)) \in Seq(Quiet) /\ Release(a) \in Seq(Quiet) /\ <<>> \in Seq(Quiet)
        /\ Transfer(a, OwnerOf(RequestOf(a))) \in Seq(Quiet)
    BY Senders, QuietMessages
  <1>4. ASSUME NEW to, Step(a, task[a], to) PROVE task'[a] = to
    BY <1>0, <1>4 DEF Step
  <1>5. ASSUME task'[a] = "ended", NEW m \in DeathMsgs(TaskOf(a))
        PROVE  /\ Proper(m)' /\ \A b \in Attempts : ~Acquires(m, b)
               /\ m.call # "release"
    <2>1. m = DownMsg(TaskOf(a)) /\ Dead(TaskOf(a))'
      BY <1>5, MessagesDiffer DEF Dead
    <2> QED
      BY <2>1, MessageFields DEF Proper, Acquires
  <1>6. CASE ReadToken(a) /\ ~UNCHANGED calls
    <2>1. /\ task[a] = "tracking" /\ Call(Acquire(a)) /\ UNCHANGED mail
          /\ Step(a, task[a], "acquiring")
      BY <1>6 DEF ReadToken, Step, Detached, requestVars
    <2>2. PICK m : /\ Pending' = Pending \cup {m}
                   /\ m.call = "acquire" /\ m.attempt = a /\ m.by = TaskOf(a)
      BY <2>1, AcquiresOnce
    <2>3. Proper(m)' /\ \A b \in Attempts : held[b] => ~Acquires(m, b)
      BY <1>0, <2>1, <2>2 DEF Proper, Acquires, HeldInv, Unasked
    <2>4. task'[a] = "acquiring"
      BY <1>4, <2>1
    <2> DEFINE New == {m}
    <2>5. /\ Pending' = Pending \cup New
          /\ \A n \in New : /\ Proper(n)' /\ \A b \in Attempts : held[b] => ~Acquires(n, b)
                            /\ n.call = "release" => n.attempt = a /\ ~verdict'[a].leased
      BY <2>2, <2>3
    <2> HIDE DEF New
    <2> QED
      BY <1>1, <1>2, <2>1, <2>4, <2>5, AttemptEffect
  <1>7. CASE Validate(a) /\ ~UNCHANGED calls
    <2>1. /\ task[a] = "validating" /\ Call(Transfer(a, OwnerOf(RequestOf(a)))) /\ UNCHANGED mail
          /\ Step(a, task[a], "retaining")
      BY <1>7 DEF Validate, Step, Detached, requestVars
    <2> DEFINE m == TransferMsg(a, OwnerOf(RequestOf(a)))
    <2>2. Pending' = Pending \cup {m}
      BY <1>3, <2>1, CallAdds, MsgsOf
    <2>3. Proper(m)' /\ (\A b \in Attempts : ~Acquires(m, b)) /\ m.call # "release"
      BY MessageFields DEF Proper, Acquires
    <2>4. task'[a] = "retaining"
      BY <1>4, <2>1
    <2> HIDE DEF m
    <2> DEFINE New == {m}
    <2>5. /\ Pending' = Pending \cup New
          /\ \A n \in New : /\ Proper(n)' /\ \A b \in Attempts : held[b] => ~Acquires(n, b)
                            /\ n.call = "release" => n.attempt = a /\ ~verdict'[a].leased
      BY <2>2, <2>3
    <2> HIDE DEF New
    <2> QED
      BY <1>1, <1>2, <2>1, <2>4, <2>5, AttemptEffect
  <1>8. CASE TaskCrashes(a) \/ TaskDies(a)
    <2>1. /\ Call(Death(TaskOf(a))) /\ task[a] # "ended"
          /\ task' = [task EXCEPT ![a] = "ended"]
          /\ UNCHANGED mail \/ (Awaits(a) /\ Post(RequestOf(a), "exit"))
      BY <1>8 DEF TaskCrashes, TaskDies, RunsTask, Step, Detached, requestVars
    <2>2. Pending' = Pending \cup DeathMsgs(TaskOf(a))
      BY <1>3, <2>1, CallAdds, MsgsOf
    <2>3. task'[a] = "ended"
      BY <1>0, <2>1
    <2> DEFINE New == DeathMsgs(TaskOf(a))
    <2>4. \A m \in New : /\ Proper(m)' /\ \A b \in Attempts : held[b] => ~Acquires(m, b)
                         /\ m.call = "release" => m.attempt = a /\ ~verdict'[a].leased
      BY <1>5, <2>3
    <2>5. Pending' = Pending \cup New /\ DeathMsgs(TaskOf(a)) \subseteq New
      BY <2>2
    <2> HIDE DEF New
    <2> QED
      BY <1>1, <1>2, <2>1, <2>3, <2>4, <2>5, AttemptEffect
  <1>9. CASE Complete(a)
    <2> DEFINE returns == held[a] /\ ~verdict[a].leased
               Gifts == IF returns THEN {ReleaseMsg(a)} ELSE {}
    <2>1. /\ Call(Unretained(a) \o Death(TaskOf(a))) /\ task[a] # "ended"
          /\ task' = [task EXCEPT ![a] = "ended"]
          /\ UNCHANGED mail \/ (Awaits(a) /\ Post(RequestOf(a), "completion"))
      BY <1>9 DEF Complete, Step
    <2>2. task'[a] = "ended" /\ (verdict'[a].leased => verdict[a].leased)
      BY <1>0, <1>1, <2>1 DEF TaskEffect
    <2>3. Pending' = Pending \cup (Gifts \cup DeathMsgs(TaskOf(a)))
      <3>1. CASE returns
        <4>1. Call(Release(a) \o Death(TaskOf(a)))
          BY <2>1, <3>1 DEF Unretained
        <4>2. Pending' = Pending \cup (Msgs(Release(a)) \cup Msgs(Death(TaskOf(a))))
          BY <1>3, <4>1, CallsAdd
        <4> QED
          BY <3>1, <4>2, MsgsOf
      <3>2. CASE ~returns
        <4>1. Call(<<>> \o Death(TaskOf(a)))
          BY <2>1, <3>2 DEF Unretained
        <4>2. Pending' = Pending \cup (Msgs(<<>>) \cup Msgs(Death(TaskOf(a))))
          BY <1>3, <4>1, CallsAdd
        <4> QED
          BY <3>2, <4>2, MsgsOf
      <3> QED
        BY <3>1, <3>2
    <2>4. ASSUME NEW m \in Gifts
          PROVE  /\ Proper(m)' /\ \A b \in Attempts : ~Acquires(m, b)
                 /\ m.attempt = a /\ ~verdict'[a].leased
      <3>1. m = ReleaseMsg(a) /\ ~verdict[a].leased
        BY <2>4
      <3> QED
        BY <2>2, <3>1, MessageFields DEF Proper, Acquires
    <2> HIDE DEF Gifts
    <2> DEFINE New == Gifts \cup DeathMsgs(TaskOf(a))
    <2>5. \A m \in New : /\ Proper(m)' /\ \A b \in Attempts : held[b] => ~Acquires(m, b)
                         /\ m.call = "release" => m.attempt = a /\ ~verdict'[a].leased
      BY <1>5, <2>2, <2>4
    <2>6. Pending' = Pending \cup New /\ DeathMsgs(TaskOf(a)) \subseteq New
      BY <2>3
    <2> HIDE DEF New
    <2> QED
      BY <1>1, <1>2, <2>1, <2>2, <2>5, <2>6, AttemptEffect
  <1>10. CASE /\ ~(\/ ReadToken(a) /\ ~UNCHANGED calls
                   \/ Validate(a) /\ ~UNCHANGED calls
                   \/ TaskCrashes(a) \/ TaskDies(a) \/ Complete(a))
    <2>1. UNCHANGED <<mail, calls>>
      BY <1>10 DEF TaskStep, ReadToken, AcquireTimesOut, OpenSend, StartCheckout, Collect,
           StopCheckout, CheckoutStopped, Validate, TransferTimesOut, RecordVerdict,
           SocketStep, NoConnection, SendStart, Write, SendStop, Respond,
           CheckoutDies, Detached, requestVars, admissionVars
    <2>2. \/ task' = task
          \/ \E to \in TaskSteps \ {"none", "ended"} : task' = [task EXCEPT ![a] = to]
      BY <1>10 DEF TaskStep, ReadToken, AcquireTimesOut, OpenSend, StartCheckout, Collect,
           StopCheckout, CheckoutStopped, Validate, TransferTimesOut, RecordVerdict,
           SocketStep, NoConnection, SendStart, Write, SendStop, Respond,
           CheckoutDies, Step, TaskSteps, taskVars
    <2>3. ~(task[a] \notin {"none", "ended"} /\ task'[a] \in {"none", "ended"})
      BY <1>0, <2>2
    <2> DEFINE New == {}
    <2>4. Pending' = Pending \cup New /\ \A m \in New : FALSE
      BY <2>1 DEF Pending
    <2> HIDE DEF New
    <2> QED
      BY <1>1, <1>2, <2>1, <2>3, <2>4, AttemptEffect
  <1> QED
    BY <1>6, <1>7, <1>8, <1>9, <1>10
-----------------------------------------------------------------------------
(* The worker serves its mailbox.                                          *)
Rest == Msgs(Tail(calls))

LEMMA RestOfPending ==
  ASSUME Asking, calls # <<>>
  PROVE  /\ Pending = {Head(calls)} \cup Rest
         /\ \A a \in Attempts : Acquires(Head(calls), a) => \A m \in Rest : ~Acquires(m, a)
  <1>1. calls \in Seq(Posted)
    BY DEF Asking, Mailbox
  <1>2. Pending = {Head(calls)} \cup Rest
    BY <1>1, MsgsTail DEF Pending, Rest
  <1>3. /\ Len(calls) \in Nat \ {0} /\ Len(Tail(calls)) = Len(calls) - 1 /\ Head(calls) = calls[1]
        /\ \A i \in 1 .. Len(calls) - 1 : Tail(calls)[i] = calls[i + 1]
    BY <1>1
  <1>4. ASSUME NEW a \in Attempts, Acquires(Head(calls), a), NEW m \in Rest, Acquires(m, a)
        PROVE  FALSE
    <2>1. PICK i \in 1 .. Len(Tail(calls)) : m = Tail(calls)[i]
      BY <1>4 DEF Rest, Msgs
    <2>2. i + 1 \in 1 .. Len(calls) /\ 1 \in 1 .. Len(calls) /\ m = calls[i + 1] /\ i + 1 # 1
      BY <1>3, <2>1
    <2> QED
      BY <1>3, <1>4, <2>2 DEF Asking, AcquiredOnce
  <1> QED
    BY <1>2, <1>4

\* What serving a message may do to leases, tasks and answers.
ServeFrame == /\ UNCHANGED <<phase, try, kept, mail, caller, guarded, inbox, outcome>>
              /\ \A a \in Attempts : /\ task[a] = "ended" <=> task'[a] = "ended"
                                     /\ task[a] \notin {"none", "ended"} =>
                                          task'[a] \notin {"none", "ended"}
                                     /\ held'[a] => held[a] \/ Acquires(Head(calls), a)
                                     /\ HeldInv(a)'

LEMMA ServeEffect ==
  ASSUME DispatchInv, ChargeInv, Asking, calls # <<>>, ServeFrame,
         NEW New, Pending' = Rest \cup New, \A m \in New : m.call = "down" /\ Dead(m.by),
         \A a \in Attempts :
           \/ ~Leased(a)'
           \/ /\ lease'[a] = lease[a]
              /\ ~(Head(calls).call = "down" /\ Head(calls).by = lease[a].holder)
           \/ /\ HolderOk(a)'
              /\ Lives(lease'[a].holder) \/ \E m \in New : m.by = lease'[a].holder,
         \A r \in Requests, a \in Attempts : Answering(r, a)' =>
           /\ lease'[a].holder \in {OwnerOf(r), CallerOf(r)}
           /\ \A m \in Rest : ~(m.call = "release" /\ m.attempt = a)
  PROVE  ChargeInv'
  <1>0. /\ RequestTypes /\ AttemptTypes /\ Inv /\ Pending \subseteq Posted
        /\ ProperInv /\ HeldAsksNot /\ HolderInv /\ ChargedInv
    BY DEF DispatchInv, RequestsInv, AttemptsInv, ChargeInv, Asking, Mailbox, Pending, Msgs
  <1>1. Pending = {Head(calls)} \cup Rest
        /\ \A a \in Attempts : Acquires(Head(calls), a) => \A m \in Rest : ~Acquires(m, a)
    BY RestOfPending
  <1>2. Forward
    BY DEF Forward, ServeFrame
  <1>3. ProperInv'
    <2>1. ASSUME NEW m \in Rest PROVE Proper(m)'
      <3>1. m \in Posted /\ Proper(m)
        BY <1>0, <1>1 DEF ProperInv
      <3> QED
        BY <1>2, <3>1, ProperStays
    <2>2. ASSUME NEW m \in New PROVE Proper(m)'
      <3>1. Dead(m.by)'
        BY <1>2 DEF Dead, Forward
      <3> QED
        BY <3>1 DEF Proper
    <2> QED
      BY <2>1, <2>2 DEF ProperInv
  <1>4. HeldAsksNot'
    <2>1. ASSUME NEW a \in Attempts, held'[a], NEW m \in Rest PROVE ~Acquires(m, a)
      BY <1>0, <1>1, <2>1 DEF HeldAsksNot, ServeFrame
    <2>2. \A a \in Attempts, m \in New : ~Acquires(m, a)
      BY DEF Acquires
    <2> QED
      BY <2>1, <2>2 DEF HeldAsksNot
  <1>5. ASSUME NEW a \in Attempts, NEW p, Lives(p),
               p \in {TaskOf(a), OwnerOf(RequestOf(a)), CallerOf(RequestOf(a))}
        PROVE  Lives(p)'
    <2>0. RequestOf(a) \in Requests
      BY Senders
    <2>1. CASE p = TaskOf(a)
      BY <1>5, <2>1 DEF Lives, TaskOf, RunsTask, ServeFrame
    <2>2. CASE p = OwnerOf(RequestOf(a))
      BY <1>5, <2>0, <2>2 DEF Lives, OwnerOf, ServeFrame
    <2>3. CASE p = CallerOf(RequestOf(a))
      BY <1>5, <2>0, <2>3 DEF Lives, CallerOf, ServeFrame
    <2> QED
      BY <1>5, <2>1, <2>2, <2>3
  <1>6. ASSUME NEW a \in Attempts, Leased(a)', NEW p, p = lease'[a].holder
        PROVE  HolderOk(a)' /\ (Lives(p)' \/ Downs(p)')
    <2>1. CASE /\ lease'[a] = lease[a]
               /\ ~(Head(calls).call = "down" /\ Head(calls).by = lease[a].holder)
      <3>1. Leased(a) /\ HolderOk(a) /\ (Lives(p) \/ Downs(p)) /\ p = lease[a].holder
        BY <1>0, <1>6, <2>1 DEF HolderInv, Leased
      <3>2. HolderOk(a)'
        BY <2>1, <3>1 DEF HolderOk, ServeFrame
      <3>3. Downs(p) => Downs(p)'
        BY <1>1, <2>1, <3>1 DEF Downs
      <3>4. Lives(p) => Lives(p)'
        BY <1>5, <3>1 DEF HolderOk
      <3> QED
        BY <3>1, <3>2, <3>3, <3>4
    <2>2. CASE HolderOk(a)' /\ (Lives(p) \/ \E m \in New : m.by = p)
      <3>1. p \in {TaskOf(a), OwnerOf(RequestOf(a)), CallerOf(RequestOf(a))}
        BY <1>6, <2>2 DEF HolderOk
      <3>2. (\E m \in New : m.by = p) => Downs(p)'
        BY DEF Downs
      <3>3. Lives(p) => Lives(p)'
        BY <1>5, <3>1
      <3> QED
        BY <2>2, <3>2, <3>3
    <2> QED
      BY <1>6, <2>1, <2>2
  <1>7. HolderInv'
    <2>1. ASSUME NEW a \in Attempts, Leased(a)'
          PROVE  HolderOk(a)' /\ (Lives(lease[a].holder)' \/ Downs(lease[a].holder)')
      <3>1. PICK p : p = lease'[a].holder
        OBVIOUS
      <3>2. HolderOk(a)' /\ (Lives(p)' \/ Downs(p)')
        BY <1>6, <2>1, <3>1
      <3>3. Lives(p)' => Lives(lease[a].holder)'
        BY <3>1
      <3>4. Downs(p)' => Downs(lease[a].holder)'
        BY <3>1
      <3> QED
        BY <3>2, <3>3, <3>4
    <2> QED
      BY <2>1 DEF HolderInv
  <1>8. ChargedInv'
    <2>1. ASSUME NEW r \in Requests, NEW a \in Attempts, Answering(r, a)'
          PROVE  /\ lease'[a].holder \in {OwnerOf(r), CallerOf(r)}
                 /\ \A m \in Pending' : ~(m.call = "release" /\ m.attempt = a)
      BY <2>1
    <2> QED
      BY <2>1 DEF ChargedInv
  <1>9. ASSUME NEW r \in Requests PROVE MailOnce(r)'
    <2>1. MailOnce(r) /\ Now(r)' = Now(r) /\ Now(r) \in Attempts
      BY <1>0, PresentAttempt DEF Now, ServeFrame, ChargeInv
    <2> QED
      BY <2>1 DEF MailOnce, ServeFrame
  <1>10. ASSUME NEW r \in Requests PROVE KeptInv(r)'
    BY DEF ChargeInv, KeptInv, ServeFrame
  <1> QED
    BY <1>3, <1>4, <1>7, <1>8, <1>9, <1>10 DEF ChargeInv, ServeFrame

\* An answer whose verdict stays is the one worked on before.
LEMMA ServedAnswers ==
  ASSUME DispatchInv, ChargeInv, Asking, calls # <<>>, ServeFrame, NEW r \in Requests,
         NEW a \in Attempts, Answering(r, a)', verdict[a].leased
  PROVE  /\ Answering(r, a) /\ lease[a].holder \in {OwnerOf(r), CallerOf(r)}
         /\ held[a] /\ Leased(a) /\ HolderOk(a) /\ RequestOf(a) = r
         /\ \A m \in Pending : ~(m.call = "release" /\ m.attempt = a) /\ ~Acquires(m, a)
  <1>1. Now(r)' = Now(r)
    BY DEF Now, ServeFrame
  <1>2. Answering(r, a) /\ RequestOf(a) = r
    BY <1>1 DEF Answering, Alive, ServeFrame, Now, RequestOf
  <1>3. held[a]
    BY DEF ChargeInv, HeldInv
  <1>4. lease[a].holder \in {OwnerOf(r), CallerOf(r)}
        /\ \A m \in Pending : ~(m.call = "release" /\ m.attempt = a)
    BY <1>2 DEF ChargeInv, ChargedInv
  <1>5. Leased(a)
    BY <1>4, ProcessesDiffer DEF Leased, NoLease
  <1> QED
    BY <1>2, <1>3, <1>4, <1>5 DEF ChargeInv, HeldAsksNot, HolderInv

LEMMA MonitorAdds ==
  ASSUME Asking, calls # <<>>, NEW p \in Holders
  PROVE  /\ calls' = Tail(calls) => Pending' = Rest \cup {}
         /\ calls' = Tail(calls) \o Monitor(p) =>
              Pending' = Rest \cup (IF Lives(p) THEN {} ELSE {DownMsg(p)})
  <1>1. calls' = Tail(calls) => Pending' = Rest \cup {}
    BY DEF Pending, Rest
  <1>2. /\ Tail(calls) \in Seq(Posted) /\ Monitor(p) \in Seq(Posted)
    <2>1. Tail(calls) \in Seq(Posted)
      BY DEF Asking, Mailbox
    <2>2. Monitor(p) \in Seq(Quiet)
      BY QuietMessages
    <2> QED
      BY <2>1, <2>2 DEF Quiet
  <1>3. Msgs(Tail(calls) \o Monitor(p)) = Rest \cup Msgs(Monitor(p))
    BY <1>2, MsgsConcat DEF Rest
  <1>4. Msgs(Monitor(p)) = IF Lives(p) THEN {} ELSE {DownMsg(p)}
    BY MsgsOf DEF Monitor
  <1> QED
    BY <1>1, <1>3, <1>4 DEF Pending

LEMMA ServeContext ==
  ASSUME DispatchInv, ChargeInv, Accounts, calls # <<>>
  PROVE  /\ Asking /\ Head(calls) \in Pending /\ Head(calls) \in Posted /\ Proper(Head(calls))
         /\ AttemptTypes /\ RequestTypes /\ \A a \in Attempts : HeldInv(a)
         /\ \A a \in Attempts : Acquires(Head(calls), a) => task[a] \notin Unasked
  <1>1. Asking /\ AttemptTypes /\ RequestTypes /\ \A a \in Attempts : HeldInv(a)
    BY DEF Accounts, DispatchInv, RequestsInv, AttemptsInv, ChargeInv
  <1>2. Head(calls) \in Pending
    BY <1>1, RestOfPending
  <1>3. calls[1] = Head(calls) /\ 1 \in 1 .. Len(calls) /\ Head(calls) \in Posted
    BY <1>1, FirstMessage DEF Asking
  <1>4. Proper(Head(calls))
    BY <1>2 DEF ChargeInv, ProperInv
  <1>5. \A a \in Attempts : Acquires(Head(calls), a) => task[a] \notin Unasked
    BY <1>1, <1>3 DEF Asking, UnaskedIsUnused
  <1> QED
    BY <1>1, <1>2, <1>3, <1>4, <1>5

LEMMA GrantCharges ==
  ASSUME DispatchInv, ChargeInv, Accounts, LeaseTypes, calls # <<>>,
         UNCHANGED <<phase, try, kept, mail, caller, guarded, inbox, outcome>>,
         NEW a \in Attempts, NEW p \in Holders, Acquires(Head(calls), a), Head(calls).by = p,
         Grant(a, p)
  PROVE  ChargeInv'
  <1>0. /\ Asking /\ Proper(Head(calls)) /\ AttemptTypes /\ task[a] \notin Unasked
        /\ \A b \in Attempts : HeldInv(b)
    BY ServeContext
  <1>1. p = TaskOf(a)
    BY <1>0 DEF Proper, Acquires
  <1> DEFINE New == IF Lives(p) THEN {} ELSE {DownMsg(p)}
  <1>2. Pending' = Rest \cup New
    BY <1>0, MonitorAdds DEF Grant
  <1>3. \A m \in New : m.call = "down" /\ Dead(m.by)
    <2>1. ~Lives(p) => task[a] = "ended"
      BY <1>0, <1>1, WhoLives DEF Unasked
    <2> QED
      BY <1>1, <2>1, MessageFields DEF Dead
  <1>4. /\ \A b \in Attempts \ {a} : task'[b] = task[b] /\ held'[b] = held[b]
        /\ verdict' = verdict
        /\ \/ task'[a] = task[a] /\ held'[a] = held[a]
           \/ task[a] = "acquiring" /\ task'[a] = "admitted" /\ held'[a]
    BY <1>0 DEF Grant, AttemptTypes
  <1>5. ServeFrame
    <2>1. \A b \in Attempts : /\ task[b] = "ended" <=> task'[b] = "ended"
                              /\ task[b] \notin {"none", "ended"} => task'[b] \notin {"none", "ended"}
                              /\ held'[b] => held[b] \/ Acquires(Head(calls), b)
      BY <1>4
    <2>2. ASSUME NEW b \in Attempts PROVE HeldInv(b)'
      BY <1>0, <1>4 DEF HeldInv, Unasked, Over
    <2> QED
      BY <2>1, <2>2 DEF ServeFrame
  <1>6. /\ \A b \in Attempts \ {a} : lease'[b] = lease[b]
        /\ lease'[a].holder = p
    BY DEF Grant, LeaseTypes
  <1>7. ASSUME NEW b \in Attempts
        PROVE  \/ /\ lease'[b] = lease[b]
                  /\ ~(Head(calls).call = "down" /\ Head(calls).by = lease[b].holder)
               \/ /\ HolderOk(b)'
                  /\ Lives(lease'[b].holder) \/ \E m \in New : m.by = lease'[b].holder
    <2>1. CASE b = a
      <3>1. HolderOk(b)'
        BY <1>1, <1>6, <2>1 DEF HolderOk
      <3>2. Lives(p) \/ \E m \in New : m.by = p
        BY MessageFields
      <3>3. Lives(p) => Lives(lease'[b].holder)
        BY <1>6, <2>1
      <3> HIDE DEF New
      <3> QED
        BY <1>6, <2>1, <3>1, <3>2, <3>3
    <2>2. CASE b # a
      BY <1>6, <2>2 DEF Acquires
    <2> QED
      BY <2>1, <2>2
  <1>8. ASSUME NEW r \in Requests, NEW b \in Attempts, Answering(r, b)'
        PROVE  /\ lease'[b].holder \in {OwnerOf(r), CallerOf(r)}
               /\ \A m \in Rest : ~(m.call = "release" /\ m.attempt = b)
    <2>2. verdict[b].leased
      BY <1>4, <1>8 DEF Answering
    <2>3. /\ lease[b].holder \in {OwnerOf(r), CallerOf(r)}
          /\ \A m \in Pending : ~(m.call = "release" /\ m.attempt = b) /\ ~Acquires(m, b)
      BY <1>0, <1>5, <1>8, <2>2, ServedAnswers
    <2>4. Head(calls) \in Pending /\ Rest \subseteq Pending
      BY <1>0, RestOfPending
    <2>5. b # a
      BY <2>3, <2>4
    <2> QED
      BY <1>6, <2>3, <2>4, <2>5
  <1> HIDE DEF New
  <1> QED
    BY <1>0, <1>2, <1>3, <1>5, <1>7, <1>8, ServeEffect

LEMMA RefuseCharges ==
  ASSUME DispatchInv, ChargeInv, Accounts, LeaseTypes, calls # <<>>,
         UNCHANGED <<phase, try, kept, mail, caller, guarded, inbox, outcome>>,
         NEW a \in Attempts, Acquires(Head(calls), a), Refuse(a)
  PROVE  ChargeInv'
  <1>0. Asking /\ AttemptTypes /\ \A b \in Attempts : HeldInv(b)
    BY ServeContext
  <1> DEFINE New == {}
  <1>1. Pending' = Rest \cup New /\ \A m \in New : FALSE
    BY <1>0, MonitorAdds DEF Refuse, Pending, Rest
  <1>2. ~Predispatch(a).leased
    BY DEF Predispatch, Verdict
  <1>3. /\ UNCHANGED <<held, lease>>
        /\ \A b \in Attempts \ {a} : task'[b] = task[b] /\ verdict'[b] = verdict[b]
        /\ \/ task'[a] = task[a] /\ verdict'[a] = verdict[a]
           \/ task[a] = "acquiring" /\ task'[a] = "judged" /\ ~verdict'[a].leased
    BY <1>0, <1>2 DEF Refuse, Judge, AttemptTypes
  <1>4. ServeFrame
    <2>1. \A b \in Attempts : /\ task[b] = "ended" <=> task'[b] = "ended"
                              /\ task[b] \notin {"none", "ended"} => task'[b] \notin {"none", "ended"}
      BY <1>3
    <2>2. ASSUME NEW b \in Attempts PROVE HeldInv(b)'
      BY <1>0, <1>3 DEF HeldInv, Unasked, Over
    <2> QED
      BY <1>3, <2>1, <2>2 DEF ServeFrame
  <1>5. ASSUME NEW r \in Requests, NEW b \in Attempts, Answering(r, b)'
        PROVE  /\ lease'[b].holder \in {OwnerOf(r), CallerOf(r)}
               /\ \A m \in Rest : ~(m.call = "release" /\ m.attempt = b)
    <2>2. verdict[b].leased
      BY <1>3, <1>5 DEF Answering
    <2>3. /\ lease[b].holder \in {OwnerOf(r), CallerOf(r)}
          /\ \A m \in Pending : ~(m.call = "release" /\ m.attempt = b)
      BY <1>0, <1>4, <1>5, <2>2, ServedAnswers
    <2> QED
      BY <1>0, <1>3, <2>3, RestOfPending
  <1>6. \A b \in Attempts : /\ lease'[b] = lease[b]
                            /\ ~(Head(calls).call = "down" /\ Head(calls).by = lease[b].holder)
    BY <1>3 DEF Acquires
  <1> HIDE DEF New
  <1> QED
    BY <1>0, <1>1, <1>4, <1>5, <1>6, ServeEffect

LEMMA RetainCharges ==
  ASSUME DispatchInv, ChargeInv, Accounts, LeaseTypes, calls # <<>>,
         UNCHANGED <<phase, try, kept, mail, caller, guarded, inbox, outcome>>,
         NEW a \in Attempts, NEW p \in Holders, Head(calls).call = "transfer",
         Head(calls).attempt = a, Head(calls).by = p, Retain(a, p)
  PROVE  ChargeInv'
  <1> DEFINE r == RequestOf(a)
             New == IF Lives(p) THEN {} ELSE {DownMsg(p)}
  <1>0. /\ Asking /\ Proper(Head(calls)) /\ AttemptTypes /\ RequestTypes /\ r \in Requests
        /\ \A b \in Attempts : HeldInv(b)
    BY ServeContext, Senders
  <1>1. p = OwnerOf(r) \/ (p = CallerOf(r) /\ guarded[r])
    BY <1>0 DEF Proper
  <1>2. Pending' = Rest \cup New
    BY <1>0, MonitorAdds DEF Retain
  <1>3. \A m \in New : m.call = "down" /\ Dead(m.by)
    <2>1. ~Lives(p) => Dead(p)
      BY <1>0, <1>1, WhoLives DEF Dead, RequestTypes
    <2> QED
      BY <2>1, MessageFields
  <1>4. /\ UNCHANGED held
        /\ \A b \in Attempts \ {a} : task'[b] = task[b] /\ verdict'[b] = verdict[b]
        /\ \/ task'[a] = task[a] /\ verdict'[a] = verdict[a]
           \/ task[a] = "retaining" /\ task'[a] = "judged" /\ p = OwnerOf(r)
    BY <1>0 DEF Retain, Judge, AttemptTypes
  <1>5. ServeFrame
    <2>1. \A b \in Attempts : /\ task[b] = "ended" <=> task'[b] = "ended"
                              /\ task[b] \notin {"none", "ended"} => task'[b] \notin {"none", "ended"}
      BY <1>4
    <2>2. ASSUME NEW b \in Attempts PROVE HeldInv(b)'
      BY <1>0, <1>4 DEF HeldInv, Unasked, Over
    <2> QED
      BY <1>4, <2>1, <2>2 DEF ServeFrame
  <1>6. /\ \A b \in Attempts \ {a} : lease'[b] = lease[b]
        /\ lease'[a].holder = p
    BY DEF Retain, LeaseTypes
  <1>7. ASSUME NEW b \in Attempts
        PROVE  \/ /\ lease'[b] = lease[b]
                  /\ ~(Head(calls).call = "down" /\ Head(calls).by = lease[b].holder)
               \/ /\ HolderOk(b)'
                  /\ Lives(lease'[b].holder) \/ \E m \in New : m.by = lease'[b].holder
    <2>1. CASE b = a
      <3>1. HolderOk(b)'
        BY <1>1, <1>6, <2>1 DEF HolderOk
      <3>2. Lives(p) \/ \E m \in New : m.by = p
        BY MessageFields
      <3>3. Lives(p) => Lives(lease'[b].holder)
        BY <1>6, <2>1
      <3> HIDE DEF New
      <3> QED
        BY <1>6, <2>1, <3>1, <3>2, <3>3
    <2>2. CASE b # a
      BY <1>6, <2>2
    <2> QED
      BY <2>1, <2>2
  <1> HIDE DEF r, New
  <1>8. ASSUME NEW s \in Requests, NEW b \in Attempts, Answering(s, b)'
        PROVE  /\ lease'[b].holder \in {OwnerOf(s), CallerOf(s)}
               /\ \A m \in Rest : ~(m.call = "release" /\ m.attempt = b)
    <2>1. Rest \subseteq Pending /\ (b = a => s = r)
      BY <1>0, <1>8, RestOfPending DEF Answering, Now, RequestOf, r
    <2>2. CASE verdict[b].leased
      <3>1. /\ lease[b].holder \in {OwnerOf(s), CallerOf(s)}
            /\ \A m \in Pending : ~(m.call = "release" /\ m.attempt = b)
        BY <1>0, <1>5, <1>8, <2>2, ServedAnswers
      <3> QED
        BY <1>1, <1>6, <2>1, <3>1
    <2>3. CASE ~verdict[b].leased
      <3>1. b = a /\ task[a] = "retaining" /\ p = OwnerOf(s)
        BY <1>4, <1>8, <2>1, <2>3 DEF Answering
      <3>2. ASSUME NEW m \in Rest, m.call = "release", m.attempt = a PROVE FALSE
        BY <2>1, <3>1, <3>2 DEF ChargeInv, ProperInv, Proper
      <3> QED
        BY <1>6, <3>1, <3>2
    <2> QED
      BY <2>2, <2>3
  <1> QED
    BY <1>0, <1>2, <1>3, <1>5, <1>7, <1>8, ServeEffect

LEMMA FreeCharges ==
  ASSUME DispatchInv, ChargeInv, Accounts, LeaseTypes, calls # <<>>,
         UNCHANGED <<phase, try, kept, mail, caller, guarded, inbox, outcome>>,
         NEW freed \in SUBSET Attempts, FreeLeases(freed),
         \/ Head(calls).call = "release" /\ freed = {Head(calls).attempt}
         \/ /\ Head(calls).call = "down"
            /\ freed = {a \in Attempts : lease[a].holder = Head(calls).by}
  PROVE  ChargeInv'
  <1>0. /\ Asking /\ Proper(Head(calls)) /\ Head(calls) \in Pending /\ RequestTypes
        /\ \A b \in Attempts : HeldInv(b)
    BY ServeContext
  <1> DEFINE New == {}
  <1>1. Pending' = Rest \cup New /\ \A m \in New : FALSE
    BY DEF FreeLeases, Pending, Rest
  <1>2. /\ UNCHANGED <<task, held, verdict>>
        /\ \A b \in Attempts : lease'[b] = IF b \in freed THEN NoLease ELSE lease[b]
    BY DEF FreeLeases
  <1>3. ServeFrame
    BY <1>0, <1>2 DEF ServeFrame, HeldInv
  <1>4. ASSUME NEW b \in Attempts
        PROVE  \/ ~Leased(b)'
               \/ /\ lease'[b] = lease[b]
                  /\ ~(Head(calls).call = "down" /\ Head(calls).by = lease[b].holder)
    <2>1. b \in freed => ~Leased(b)'
      BY <1>2 DEF Leased
    <2> QED
      BY <1>2, <2>1
  <1>5. ASSUME NEW r \in Requests, NEW b \in Attempts, Answering(r, b)'
        PROVE  /\ lease'[b].holder \in {OwnerOf(r), CallerOf(r)}
               /\ \A m \in Rest : ~(m.call = "release" /\ m.attempt = b)
    <2>2. verdict[b].leased
      BY <1>2, <1>5 DEF Answering
    <2>3. /\ Answering(r, b) /\ lease[b].holder \in {OwnerOf(r), CallerOf(r)}
          /\ HolderOk(b) /\ RequestOf(b) = r
          /\ \A m \in Pending : ~(m.call = "release" /\ m.attempt = b)
      BY <1>0, <1>3, <1>5, <2>2, ServedAnswers
    <2>4. Alive(r) /\ RequestOf(b) = r
      BY <2>3 DEF Answering
    <2>5. ~Dead(lease[b].holder)
      <3>1. lease[b].holder = OwnerOf(r) => ~Dead(lease[b].holder)
        BY <2>4, ProcessesDiffer DEF Dead, Alive
      <3>2. lease[b].holder = CallerOf(r) => guarded[r]
        BY <2>3, <2>4, ProcessesDiffer DEF HolderOk
      <3>3. lease[b].holder = CallerOf(r) => ~Dead(lease[b].holder)
        BY <2>4, <3>2, ProcessesDiffer DEF Dead, Alive
      <3> QED
        BY <2>3, <3>1, <3>3
    <2>6. b \notin freed
      BY <1>0, <2>3, <2>5 DEF Proper
    <2> QED
      BY <1>0, <1>2, <2>3, <2>6, RestOfPending
  <1> HIDE DEF New
  <1> QED
    BY <1>0, <1>1, <1>3, <1>4, <1>5, ServeEffect

LEMMA ServeCharges ==
  ASSUME DispatchInv, ChargeInv, Accounts, LeaseTypes, Serve
  PROVE  ChargeInv'
  <1>0. calls # <<>> /\ UNCHANGED <<phase, try, kept, mail, caller, guarded, inbox, outcome>>
    BY DEF Serve, requestVars, attemptVars
  <1>1. PICK m \in Posted : m = Head(calls)
    BY <1>0, FirstMessage DEF Accounts, Asking
  <1>2. /\ m.by \in Holders
        /\ m.call \in {"acquire", "transfer", "release"} => m.attempt \in Attempts
    BY <1>0, <1>1, FirstMessage DEF Accounts, Asking
  <1>3. CASE m.call = "acquire" /\ Grant(m.attempt, m.by)
    BY <1>0, <1>1, <1>2, <1>3, GrantCharges DEF Acquires
  <1>4. CASE m.call = "acquire" /\ Refuse(m.attempt)
    BY <1>0, <1>1, <1>2, <1>4, RefuseCharges DEF Acquires
  <1>5. CASE m.call = "transfer" /\ Retain(m.attempt, m.by)
    BY <1>0, <1>1, <1>2, <1>5, RetainCharges
  <1>6. CASE m.call = "release" /\ FreeLeases({m.attempt})
    <2>1. {m.attempt} \in SUBSET Attempts
      BY <1>2, <1>6
    <2> QED
      BY <1>0, <1>1, <1>6, <2>1, FreeCharges
  <1>7. CASE m.call = "down" /\ FreeLeases({a \in Attempts : lease[a].holder = m.by})
    <2> DEFINE freed == {a \in Attempts : lease[a].holder = m.by}
    <2>1. freed \in SUBSET Attempts /\ freed = {a \in Attempts : lease[a].holder = Head(calls).by}
      BY <1>1
    <2>2. FreeLeases(freed) /\ Head(calls).call = "down"
      BY <1>1, <1>7
    <2> HIDE DEF freed
    <2> QED
      BY <1>0, <2>1, <2>2, FreeCharges
  <1> QED
    BY <1>1, <1>3, <1>4, <1>5, <1>6, <1>7 DEF Serve

LEMMA IdleCharges ==
  ASSUME ChargeInv,
         UNCHANGED <<requestVars, outcome, task, held, verdict, lease, calls>>
  PROVE  ChargeInv'
  <1>1. ProperInv'
    BY DEF ChargeInv, ProperInv, Pending, Proper, Dead, requestVars
  <1>2. HeldAsksNot' /\ HolderInv'
    BY DEF ChargeInv, HeldAsksNot, HolderInv, Pending, Downs, HolderOk, Leased, Lives, RunsTask,
           requestVars
  <1>3. ChargedInv'
    BY DEF ChargeInv, ChargedInv, Answering, Alive, Now, Pending, requestVars
  <1>4. \A a \in Attempts : HeldInv(a)'
    BY DEF ChargeInv, HeldInv
  <1>5. \A r \in Requests : MailOnce(r)'
    BY DEF ChargeInv, MailOnce, Now, requestVars
  <1>6. \A r \in Requests : KeptInv(r)'
    BY DEF ChargeInv, KeptInv, requestVars
  <1> QED
    BY <1>1, <1>2, <1>3, <1>4, <1>5, <1>6 DEF ChargeInv

LEMMA ChargeInit == Init => ChargeInv
  <1> SUFFICES ASSUME Init PROVE ChargeInv
    OBVIOUS
  <1>1. Pending = {}
    BY MsgsOf DEF Init, InitFrom, Pending
  <1>2. /\ ~NoVerdict.leased /\ ~NoFact.leased
    BY DEF NoVerdict, Verdict, NoFact, Fact
  <1>3. \A a \in Attempts : /\ task[a] = "none" /\ ~held[a] /\ verdict[a] = NoVerdict
                            /\ outcome[a] = NoFact /\ lease[a] = NoLease
    BY DEF Init, InitFrom
  <1>4. \A r \in Requests : Now(r) \in Attempts /\ mail[r] = <<>> /\ inbox[r] = "empty"
    BY InvariantInit, PresentAttempt DEF Init, InitFrom
  <1>5. ProperInv /\ HeldAsksNot
    BY <1>1 DEF ProperInv, HeldAsksNot
  <1>6. HolderInv
    BY <1>3 DEF HolderInv, Leased
  <1>7. ChargedInv
    BY <1>2, <1>3, <1>4 DEF ChargedInv, Answering
  <1>8. \A a \in Attempts : HeldInv(a)
    BY <1>2, <1>3 DEF HeldInv, Unasked
  <1>9. \A r \in Requests : MailOnce(r) /\ KeptInv(r)
    BY <1>4, NoMail DEF MailOnce, KeptInv, Init, InitFrom
  <1> QED
    BY <1>5, <1>6, <1>7, <1>8, <1>9 DEF ChargeInv

LEMMA ChargeNext ==
  ASSUME DispatchInv, Accounts, LeaseTypes, ChargeInv, [Next]_vars
  PROVE  ChargeInv'
  <1>1. Mailbox
    BY DEF Accounts, Asking
  <1>2. CASE HandlerStep \/ UNCHANGED vars
    BY <1>2, IdleCharges
    DEF HandlerStep, HandlerLost, RepairBegins, RepairEnds, vars, attemptVars, taskVars,
        admissionVars
  <1> QED
    BY <1>1, <1>2, RequestCharges, TaskCharges, ServeCharges DEF Next, Undisturbed, Disturbed

LEMMA ChargeInvImplies == DispatchInv /\ Accounts /\ ChargeInv => ChargeHasReader
  <1> SUFFICES ASSUME DispatchInv, Accounts, ChargeInv PROVE ChargeHasReader
    OBVIOUS
  <1>1. DOMAIN calls = 1 .. Len(calls)
    BY DEF Accounts, Asking, Mailbox
  <1>2. ASSUME NEW a \in Attempts, Leased(a)
        PROVE  \/ Lives(lease[a].holder)
               \/ \E i \in DOMAIN calls : calls[i].call = "down" /\ calls[i].by = lease[a].holder
    BY <1>1, <1>2 DEF ChargeInv, HolderInv, Downs, Pending, Msgs
  <1>3. ASSUME NEW r \in Requests, NEW a \in Attempts, InHand(r, a),
               guarded[r] => caller[r] = "alive"
        PROVE  lease[a].holder \in {OwnerOf(r), CallerOf(r)} /\ ReleasesOf(a) = {}
    <2>1. phase[r] \notin {"delivering", "gone"} /\ Alive(r)
      BY <1>3 DEF InHand, Alive
    <2>2. outcome[a].leased
      <3>1. a = <<r, kept[r]>> => kept[r] # 0
        BY DEF Attempts
      <3> QED
        BY <1>3, <3>1 DEF InHand, ChargeInv, KeptInv
    <2>3. Answering(r, a)
      BY <1>3, <2>1, <2>2 DEF Answering, InHand, ChargeInv, HeldInv
    <2>4. /\ lease[a].holder \in {OwnerOf(r), CallerOf(r)}
          /\ \A m \in Pending : ~(m.call = "release" /\ m.attempt = a)
      BY <2>3 DEF ChargeInv, ChargedInv
    <2> QED
      BY <1>1, <2>4 DEF ReleasesOf, Pending, Msgs
  <1> QED
    BY <1>2, <1>3 DEF ChargeHasReader

(* Bytes are charged to somebody who is there, whoever dies and whatever   *)
(* order the worker hears of it in: a lease has a living holder or its     *)
(* holder's death is on its way, and while a request works on an answer    *)
(* whose reader is there, its last one or an earlier one it kept, the      *)
(* lease of that answer is the reader's and nobody has asked to give it    *)
(* back.                                                                   *)
THEOREM ChargesHaveReaders == Spec => []ChargeHasReader
  <1>1. Init => LeaseTypes
    BY DEF Init, InitFrom, LeaseTypes, Lease, NoLease, Holders
  <1>2. Accounts /\ DispatchInv /\ LeaseTypes /\ [Next]_vars => Accounts' /\ LeaseTypes'
    BY AccountsStep, LeaseTypesStep
  <1>3. DispatchInv /\ Accounts /\ LeaseTypes /\ ChargeInv /\ [Next]_vars => ChargeInv'
    BY ChargeNext
  <1> QED
    BY <1>1, <1>2, <1>3, DispatchInit, DispatchNext, AccountsInit, ChargeInit,
       ChargeInvImplies, PTL DEF Spec
===============================================================================
