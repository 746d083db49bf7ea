--------------------------- MODULE CircuitBreaker ---------------------------
(***************************************************************************)
(* The circuit breaker of one provider instance and transport              *)
(* (lib/lasso/core/support/circuit_breaker.ex): the owner GenServer, the   *)
(* ETS rows it shares with request processes (snapshot, half-open lease,   *)
(* control ring) and the request processes that ask for admission, run an  *)
(* attempt and report it.                                                  *)
(*                                                                         *)
(* A request process asks at most once per life; its pid stands for the    *)
(* token of its request too, and Fresh gives the name to a new process     *)
(* once nothing of the old one is left.  Time is three-valued: a recovery  *)
(* deadline is absent, in the future or past.  Category thresholds and     *)
(* back-off lengths are one threshold and "some delay".                    *)
(***************************************************************************)
EXTENDS Naturals, Sequences, FiniteSets

CONSTANTS
  Callers,           \* request processes
  Adapters,          \* those that use call/3, which reports with {:report, ..}
  FailureThreshold,  \* failure_threshold
  SuccessThreshold,  \* success_threshold
  RingCapacity,      \* control_ring_capacity
  MaxGeneration,     \* bound on transition_generation
  MaxEpoch           \* bound on process_epoch: number of owner incarnations

ASSUME ConstantsAssumption ==
  /\ Adapters \subseteq Callers
  /\ FailureThreshold \in Nat \ {0}
  /\ SuccessThreshold \in Nat \ {0}
  /\ RingCapacity \in Nat \ {0}
  /\ MaxGeneration \in Nat \ {0}
  /\ MaxEpoch \in Nat \ {0}

VARIABLES
  process,   \* the owner GenServer: "down", "starting" (init has run), "up"
  breaker,   \* its struct; phase, generation, epoch and deadline are also the
             \* snapshot row, which every change of theirs rewrites at once
  attempts,  \* its inflight_attempts: token -> what it remembers of the lease
  lease,     \* the lease row, or NoLease
  ring,      \* the control ring of the current generation and its diagnostics
  health,    \* control_health as the snapshot row shows it
  ready,     \* :breaker_control_ready messages in the owner's mailbox
  pc,        \* what each request process is doing
  receipt,   \* generation and epoch its admission was classified or granted at
  queue      \* messages from it to the owner, in the order sent

vars == <<process, breaker, attempts, lease, ring, health, ready, pc, receipt, queue>>

Phases    == {"closed", "open", "half_open"}
Deadlines == {"none", "future", "past"}
Timers    == {"none", "armed", "fired"}   \* the timer of recovery_timer_gen
Signals   == {"success", "failure"}
Places    == {"idle", "asking", "granted", "probing", "serving", "done", "dead"}
Messages  == {"admit", "release_token", "release", "signal_success", "signal_failure",
              "report_success", "report_failure", "abandon"}

NoLease == [held |-> FALSE]
LeaseOf(c, g, e) ==
  [held |-> TRUE, token |-> c, generation |-> g, epoch |-> e, claimed |-> FALSE]
Holds(c) == lease.held /\ lease.token = c
Alive(c) == pc[c] # "dead"

TypeOK ==
  /\ process \in {"down", "starting", "up"}
  /\ breaker \in [phase : Phases, failures : 0..FailureThreshold, successes : Nat,
                  generation : Nat, epoch : Nat, health : {"healthy", "degraded"},
                  inflight : Nat, deadline : Deadlines, timer : Timers]
  /\ DOMAIN attempts \subseteq Callers
  /\ \A c \in DOMAIN attempts :
       attempts[c] \in [generation : Nat, counted : Nat, epoch : Nat, claimed : BOOLEAN]
  /\ \/ lease = NoLease
     \/ lease \in [held : {TRUE}, token : Callers, generation : Nat, epoch : Nat,
                   claimed : BOOLEAN]
  /\ ring \in [signals : Seq(Signals), woken : BOOLEAN, needs : BOOLEAN, pending : BOOLEAN]
  /\ health \in {"healthy", "degraded"}
  /\ ready \subseteq {"current", "stale"}
  /\ pc \in [Callers -> Places]
  /\ receipt \in [Callers -> [generation : Nat, epoch : Nat]]
  /\ queue \in [Callers -> Seq(Messages)]

-----------------------------------------------------------------------------
(* The owner's transitions of its own struct.                              *)

Cancelled(timer) == IF timer = "armed" THEN "none" ELSE timer

(* Only closed compares the count with the threshold, and closed starts at *)
(* zero, so the count may stop at the threshold.                           *)
OneMore(failures) == IF failures < FailureThreshold THEN failures + 1 ELSE failures

(* Variants of the code: an opening that keeps the count of attempts, the  *)
(* recovery timer's generation, or starts no timer.                        *)
OpenedKeepingCount(b) ==
  [b EXCEPT !.phase = "open", !.generation = @ + 1, !.deadline = "future", !.timer = "armed"]
OpenedKeepingTimer(b) ==
  [b EXCEPT !.phase = "open", !.inflight = 0, !.generation = @ + 1, !.deadline = "future",
            !.timer = IF @ = "fired" THEN "fired" ELSE "armed"]
OpenedWithoutTimer(b) ==
  [b EXCEPT !.phase = "open", !.inflight = 0, !.generation = @ + 1, !.deadline = "future",
            !.timer = "none"]

Opened(b) ==
  [b EXCEPT !.phase = "open", !.inflight = 0, !.generation = @ + 1,
            !.deadline = "future", !.timer = "armed"]

HalfOpened(b) ==
  [b EXCEPT !.phase = "half_open", !.successes = 0, !.inflight = 0, !.generation = @ + 1]

(* prepare_probation: traffic-triggered recovery.                          *)
Probation(b) ==
  [HalfOpened(b) EXCEPT !.timer = "none", !.health = "healthy"]

(* reset_to_closed, and the handler of :close.                             *)
Closed(b) ==
  [b EXCEPT !.phase = "closed", !.failures = 0, !.successes = 0, !.inflight = 0,
            !.deadline = "none", !.generation = @ + 1, !.health = "healthy"]

HandleSuccess(b) ==
  CASE b.phase = "closed" -> [b EXCEPT !.failures = 0]
    [] b.phase = "half_open" ->
         IF b.successes + 1 >= SuccessThreshold
         THEN Closed(b)
         ELSE [b EXCEPT !.successes = @ + 1]
    [] b.phase = "open" ->
         IF SuccessThreshold = 1
         THEN Closed([b EXCEPT !.timer = Cancelled(@)])
         ELSE [HalfOpened(b) EXCEPT !.successes = 1, !.failures = 0, !.timer = Cancelled(@)]

HandleFailure(b) ==
  LET counted == [b EXCEPT !.failures = OneMore(@)]
  IN CASE b.phase = "closed" ->
            IF b.failures + 1 >= FailureThreshold THEN Opened(counted) ELSE counted
       [] b.phase = "half_open" -> [Opened(counted) EXCEPT !.successes = 0]
       [] b.phase = "open" -> counted

Handled(b, signal) == IF signal = "success" THEN HandleSuccess(b) ELSE HandleFailure(b)

(* Variant: every attempt that ends is taken off the count.                *)
UncountedAlways(b, a) == IF a.epoch > 0 THEN [b EXCEPT !.inflight = @ - 1] ELSE b

(* release_half_open_attempt: only an attempt counted in this generation   *)
(* is taken off the count.                                                 *)
Uncounted(b, a) ==
  IF a.counted = b.generation /\ b.inflight > 0 THEN [b EXCEPT !.inflight = @ - 1] ELSE b

-----------------------------------------------------------------------------
(* The owner's writes of the shared rows.                                  *)

EmptyRing(pending) == [signals |-> << >>, woken |-> FALSE, needs |-> FALSE, pending |-> pending]

(* write_ets_state: a new generation gets a new ring, which inherits the   *)
(* drop counters; the snapshot is degraded while a drop is unacknowledged; *)
(* the ring learns whether successes are wanted.  The wakeups left in the  *)
(* mailbox are for the old ring then.                                      *)
WriteRowsLeaving(b, r, inbox) ==
  LET same == b.generation = breaker.generation
  IN /\ b.generation <= MaxGeneration
     /\ breaker' = b
     /\ ring' = [(IF same THEN r ELSE EmptyRing(r.pending)) EXCEPT !.needs = b.failures > 0]
     /\ health' = IF r.pending THEN "degraded" ELSE b.health
     /\ ready' = IF same \/ inbox = {} THEN inbox ELSE {"stale"}

WriteRows(b, r) == WriteRowsLeaving(b, r, ready)

(* acknowledge_control_degradation, on the transitions that perform it.    *)
Acknowledged(r) == [r EXCEPT !.pending = FALSE]
AfterHandling(b, r) ==
  IF b.phase = "closed" /\ breaker.phase # "closed" THEN Acknowledged(r) ELSE r

(* take_attempt: forgets the attempt and deletes its lease row.            *)
Without(c) == [d \in DOMAIN attempts \ {c} |-> attempts[d]]
(* Variant: the lease row is left behind.                                  *)
TakeAttemptKeepingRow(c) == attempts' = [d \in DOMAIN attempts \ {c} |-> attempts[d]] /\ UNCHANGED lease

TakeAttempt(c) ==
  /\ attempts' = Without(c)
  /\ lease' = IF Holds(c) THEN NoLease ELSE lease

ReleaseAttempt(c) ==
  IF c \in DOMAIN attempts
  THEN TakeAttempt(c) /\ WriteRows(Uncounted(breaker, attempts[c]), ring)
  ELSE UNCHANGED <<attempts, lease>> /\ WriteRows(breaker, ring)

Init ==
  /\ process = "up"
  /\ breaker = [phase |-> "closed", failures |-> 0, successes |-> 0, generation |-> 1,
                epoch |-> 1, health |-> "healthy", inflight |-> 0, deadline |-> "none",
                timer |-> "none"]
  /\ attempts = [c \in {} |-> breaker]
  /\ lease = NoLease
  /\ ring = EmptyRing(FALSE)
  /\ health = "healthy"
  /\ ready = {}
  /\ pc = [c \in Callers |-> "idle"]
  /\ receipt = [c \in Callers |-> [generation |-> 0, epoch |-> 0]]
  /\ queue = [c \in Callers |-> << >>]

-----------------------------------------------------------------------------
(* Request processes.                                                      *)

CurrentReceipt == [generation |-> breaker.generation, epoch |-> breaker.epoch]
Fenced(c) == receipt[c] = CurrentReceipt
Moves(c, place) == pc' = [pc EXCEPT ![c] = place]

(* A cast to a name nobody is registered under, or to a dead pid, is lost. *)
Sends(c, message) ==
  queue' = IF process = "down" THEN queue ELSE [queue EXCEPT ![c] = Append(@, message)]

OwnerVars == <<process, breaker, attempts, ready>>

(* Admission.check on the snapshot row, by a process with time left: a     *)
(* closed, healthy breaker admits without its owner, an open one rejects   *)
(* until its deadline, the others are asked.                               *)
Admit(c) ==
  /\ pc[c] = "idle" /\ process # "down"
  /\ receipt' = [receipt EXCEPT ![c] = CurrentReceipt]
  /\ \/ /\ breaker.phase = "closed" /\ health = "healthy"
        /\ Moves(c, "serving")
        /\ UNCHANGED queue
     \/ /\ \/ breaker.phase = "closed" /\ health = "degraded"
           \/ breaker.phase = "open" /\ breaker.deadline # "future"
           \/ breaker.phase = "half_open"
        /\ Moves(c, "asking")
        /\ Sends(c, "admit")
  /\ UNCHANGED <<OwnerVars, lease, ring, health>>

(* Variant: nothing is sent after the time-out.                            *)
AdmissionTimeoutSilently(c) ==
  /\ pc[c] = "granted" \/ (pc[c] = "asking" /\ queue[c] # << >>)
  /\ Moves(c, "done")
  /\ UNCHANGED <<OwnerVars, lease, ring, health, receipt, queue>>

(* The call times out, perhaps with the answer under way: the token is     *)
(* given back with a cast behind the request.                              *)
AdmissionTimeout(c) ==
  /\ pc[c] = "granted" \/ (pc[c] = "asking" /\ queue[c] # << >>)
  /\ Moves(c, "done")
  /\ Sends(c, "release_token")
  /\ UNCHANGED <<OwnerVars, lease, ring, health, receipt>>

(* The owner died with the request: the call exits and nothing is sent.    *)
AdmissionFails(c) ==
  /\ pc[c] = "asking" /\ queue[c] = << >>
  /\ Moves(c, "done")
  /\ UNCHANGED <<OwnerVars, lease, ring, health, receipt, queue>>

(* The lease row still is the one the receipt was written for.             *)
Unclaimed(c) ==
  /\ Holds(c) /\ ~lease.claimed
  /\ receipt[c] = [generation |-> lease.generation, epoch |-> lease.epoch]

(* activate_attempt: one compare-and-set on the lease row; on failure the  *)
(* pipeline abandons, as it may for reasons of its own.                    *)
Activate(c) ==
  /\ pc[c] = "granted"
  /\ Unclaimed(c)
  /\ lease' = [lease EXCEPT !.claimed = TRUE]
  /\ Moves(c, "probing")
  /\ UNCHANGED <<OwnerVars, ring, health, receipt, queue>>

(* Variant: the row is deleted and the owner is not told.                  *)
AbandonSilently(c) ==
  /\ pc[c] = "granted"
  /\ lease' = IF Unclaimed(c) THEN NoLease ELSE lease
  /\ Moves(c, "done")
  /\ UNCHANGED <<OwnerVars, ring, health, receipt, queue>>

AbandonUnclaimed(c) ==
  /\ pc[c] = "granted"
  /\ lease' = IF Unclaimed(c) THEN NoLease ELSE lease
  /\ Moves(c, "done")
  /\ Sends(c, "abandon")
  /\ UNCHANGED <<OwnerVars, ring, health, receipt>>

(* report_canonical, or call/3 for an adapter, of a half-open attempt: a   *)
(* neutral or stale outcome only releases.                                 *)
FinishProbe(c) ==
  /\ pc[c] = "probing"
  /\ Moves(c, "done")
  /\ \E message \in {"release"} \cup IF c \in Adapters
                                     THEN {"report_success", "report_failure"}
                                     ELSE {"signal_success", "signal_failure"} :
       Sends(c, message)
  /\ UNCHANGED <<OwnerVars, lease, ring, health, receipt>>

Entries(signals, kind) == {i \in DOMAIN signals : signals[i] = kind}

(* refresh_success_slot: the marker leaves its place in the order.          *)
Unmarked(signals) ==
  LET marks == Entries(signals, "success")
      i     == CHOOSE j \in marks : TRUE
  IN IF marks = {} THEN signals
     ELSE SubSeq(signals, 1, i - 1) \o SubSeq(signals, i + 1, Len(signals))

(* ControlRing.enqueue with a receipt of the current ring: a success is    *)
(* dropped unless wanted and moves the one marker behind everything else;  *)
(* a failure with no slot left is counted and degrades the snapshot; what  *)
(* was stored, or dropped, wakes the owner once.                           *)
Enqueued(signal) ==
  LET full == signal = "failure" /\ Cardinality(Entries(ring.signals, "failure")) = RingCapacity
      kept == IF signal = "success" THEN Unmarked(ring.signals) ELSE ring.signals
  IN /\ ring' = [ring EXCEPT !.signals = IF full THEN @ ELSE Append(kept, signal),
                             !.woken = TRUE,
                             !.pending = @ \/ full]
     /\ health' = IF full THEN "degraded" ELSE health
     /\ ready' = IF ring.woken \/ process = "down" THEN ready ELSE ready \cup {"current"}

(* A closed attempt ends; a neutral outcome, or one whose receipt the ring *)
(* no longer matches, is not stored.                                       *)
FinishServing(c, outcome) ==
  /\ pc[c] = "serving"
  /\ Moves(c, "done")
  /\ IF Fenced(c) /\ (outcome = "failure" \/ (outcome = "success" /\ ring.needs))
     THEN Enqueued(outcome)
     ELSE UNCHANGED <<ring, health, ready>>
  /\ UNCHANGED <<process, breaker, attempts, lease, receipt, queue>>

Exit(c) ==
  /\ Alive(c) /\ pc[c] # "idle"
  /\ Moves(c, "dead")
  /\ UNCHANGED <<OwnerVars, lease, ring, health, receipt, queue>>

(* The name goes to a new process once nothing refers to the old one.      *)
Fresh(c) ==
  /\ pc[c] \in {"done", "dead"}
  /\ queue[c] = << >> /\ c \notin DOMAIN attempts /\ ~Holds(c)
  /\ Moves(c, "idle")
  /\ receipt' = [receipt EXCEPT ![c] = [generation |-> 0, epoch |-> 0]]
  /\ UNCHANGED <<OwnerVars, lease, ring, health, queue>>

(* A WebSocket failure reported past admission, with the row as receipt.   *)
ReportExternalBounded ==
  /\ Enqueued("failure")
  /\ UNCHANGED <<process, breaker, attempts, lease, pc, receipt, queue>>

-----------------------------------------------------------------------------
(* The owner's handlers.                                                   *)

CallerVars == <<pc, receipt>>

Takes(c, messages) ==
  /\ process = "up"
  /\ queue[c] # << >> /\ Head(queue[c]) \in messages
  /\ queue' = [queue EXCEPT ![c] = Tail(@)]

Replies(c, place) == pc' = IF pc[c] = "asking" THEN [pc EXCEPT ![c] = place] ELSE pc

(* handle_call {:admit_exceptional, ..}: refused when the request's own    *)
(* deadline has passed, which it may have at any time, and when its        *)
(* snapshot is outdated, the breaker is not due or a probe is in flight.   *)
RefuseAdmission(c) ==
  /\ Takes(c, {"admit"})
  /\ Replies(c, "done")
  /\ UNCHANGED <<OwnerVars, lease, ring, health, receipt>>

Admissible(c) ==
  /\ Fenced(c)
  /\ breaker.phase = "open" => breaker.deadline # "future"
  /\ breaker.phase = "half_open" => breaker.inflight = 0
  /\ breaker.phase = "closed" => breaker.health = "degraded"

(* Variant: insert instead of insert_new.                                  *)
LeaseRowOverwritten == TRUE

(* :ets.insert_new of the lease row would succeed.                         *)
LeaseRowFree == ~lease.held

(* prepare_exceptional_generation.                                         *)
Prepared == IF breaker.phase = "half_open" THEN breaker ELSE Probation(breaker)
PreparedRing == IF breaker.phase = "half_open" THEN ring ELSE Acknowledged(ring)

GrantAdmission(c) ==
  /\ Takes(c, {"admit"})
  /\ Admissible(c) /\ LeaseRowFree
  /\ lease' = LeaseOf(c, Prepared.generation, breaker.epoch)
  /\ attempts' = [d \in DOMAIN attempts \cup {c} |->
                    IF d = c
                    THEN [generation |-> Prepared.generation, counted |-> Prepared.generation,
                          epoch |-> breaker.epoch, claimed |-> FALSE]
                    ELSE attempts[d]]
  /\ WriteRows([Prepared EXCEPT !.inflight = @ + 1], PreparedRing)
  /\ receipt' = IF pc[c] = "asking"
                THEN [receipt EXCEPT ![c] = [generation |-> Prepared.generation,
                                             epoch |-> breaker.epoch]]
                ELSE receipt
  /\ Replies(c, "granted")
  /\ UNCHANGED process

(* insert_new finds another attempt's lease: half_open_busy, and the state *)
(* from before the preparation is kept, but the timer it cancelled and the *)
(* drops it acknowledged stay so.                                          *)
LeaseBusy(c) ==
  /\ Takes(c, {"admit"})
  /\ Admissible(c) /\ ~LeaseRowFree
  /\ breaker' = IF breaker.phase = "half_open"
                THEN breaker ELSE [breaker EXCEPT !.timer = Cancelled(@)]
  /\ ring' = PreparedRing
  /\ Replies(c, "done")
  /\ UNCHANGED <<process, attempts, lease, health, ready, receipt>>

Remembered(c) == c \in DOMAIN attempts
Matches(c) ==
  /\ Remembered(c)
  /\ receipt[c] = [generation |-> attempts[c].generation, epoch |-> attempts[c].epoch]

(* Variant: the generation and epoch of a report are not compared.         *)
DecidesUnfenced(c) == Remembered(c)

Decides(c) == Remembered(c) /\ Fenced(c)

(* {:report_signal, ..} and {:report, ..} of a half-open attempt: one of   *)
(* the current generation decides, a stale signal only releases and a      *)
(* stale report does nothing.                                              *)
HandleReport(c) ==
  /\ Takes(c, {"signal_success", "signal_failure", "report_success", "report_failure"})
  /\ LET message == Head(queue[c])
         signal == IF message \in {"signal_success", "report_success"}
                   THEN "success" ELSE "failure"
     IN IF Decides(c)
        THEN LET a == attempts[c]
                 b == IF Matches(c) THEN Handled(breaker, signal) ELSE breaker
             IN TakeAttempt(c) /\ WriteRows(Uncounted(b, a), AfterHandling(b, ring))
        ELSE IF message \in {"signal_success", "signal_failure"} /\ Matches(c)
             THEN ReleaseAttempt(c)
             ELSE UNCHANGED <<attempts, lease>> /\ WriteRows(breaker, ring)
  /\ UNCHANGED <<process, CallerVars>>

(* {:release, token}, {:release, token, generation, epoch} and             *)
(* {:abandon_unclaimed, ..}.                                               *)
HandleRelease(c) ==
  /\ Takes(c, {"release_token", "release", "abandon"})
  /\ LET message == Head(queue[c])
     IN IF \/ message = "release_token"
           \/ message = "release" /\ (Fenced(c) \/ Matches(c))
           \/ message = "abandon" /\ Matches(c) /\ ~attempts[c].claimed
        THEN ReleaseAttempt(c)
        ELSE UNCHANGED <<attempts, lease>> /\ WriteRows(breaker, ring)
  /\ UNCHANGED <<process, CallerVars>>

(* Variant: the monitor's message is matched with claimed attempts only.   *)
DownOfClaimed(c) ==
  /\ process = "up"
  /\ ~Alive(c) /\ queue[c] = << >> /\ c \in DOMAIN attempts /\ attempts[c].claimed
  /\ ReleaseAttempt(c)
  /\ UNCHANGED <<process, CallerVars, queue>>

(* The monitor of a lease's process fires, behind what it had sent.        *)
Down(c) ==
  /\ process = "up"
  /\ ~Alive(c) /\ queue[c] = << >> /\ c \in DOMAIN attempts
  /\ ReleaseAttempt(c)
  /\ UNCHANGED <<process, CallerVars, queue>>

(* record_failure, cast by the health probes: rows are written only when   *)
(* the phase changes.                                                      *)
RecordFailure ==
  /\ process = "up"
  /\ LET b == HandleFailure(breaker)
     IN IF b.generation = breaker.generation
        THEN breaker' = b /\ UNCHANGED <<ring, health, ready>>
        ELSE WriteRows(b, ring)
  /\ UNCHANGED <<process, attempts, lease, CallerVars, queue>>

ManualOpen ==
  /\ process = "up"
  /\ WriteRows(Opened(breaker), ring)
  /\ UNCHANGED <<process, attempts, lease, CallerVars, queue>>

ManualClose ==
  /\ process = "up"
  /\ WriteRows(Closed([breaker EXCEPT !.timer = Cancelled(@)]), Acknowledged(ring))
  /\ UNCHANGED <<process, attempts, lease, CallerVars, queue>>

(* The signals of one drain, applied in order while the generation lasts.  *)
Drained(signals) ==
  LET applied[i \in 0..Len(signals)] ==
        IF i = 0 THEN breaker
        ELSE IF applied[i - 1].generation # breaker.generation THEN applied[i - 1]
        ELSE Handled(applied[i - 1], signals[i])
  IN applied[Len(signals)]

(* drain_control: a degraded snapshot sends the breaker into probation and *)
(* the signals are gone with their ring; otherwise at most a ring's        *)
(* capacity is taken and what is left wakes the owner again.               *)
DrainLeaving(inbox) ==
  IF health = "degraded"
  THEN WriteRowsLeaving([HalfOpened(breaker) EXCEPT !.health = "healthy"],
                        Acknowledged(ring), inbox)
  ELSE LET occupied == Len(ring.signals)
           taken == IF occupied > RingCapacity THEN RingCapacity ELSE occupied
           rest  == SubSeq(ring.signals, taken + 1, occupied)
           b     == Drained(SubSeq(ring.signals, 1, taken))
           r     == [ring EXCEPT !.signals = rest, !.woken = rest # << >>]
       IN WriteRowsLeaving(b, AfterHandling(b, r),
                           IF rest = << >> THEN inbox ELSE inbox \cup {"current"})

(* :breaker_control_ready; one of an earlier ring finds nothing to drain   *)
(* and writes the rows again.                                              *)
ControlReady ==
  /\ process = "up"
  /\ \/ "current" \in ready /\ DrainLeaving(ready \ {"current"})
     \/ "stale" \in ready /\ WriteRowsLeaving(breaker, ring, ready \ {"stale"})
  /\ UNCHANGED <<process, attempts, lease, CallerVars, queue>>

(* :breaker_control_audit, when audit_required?.                           *)
ControlAudit ==
  /\ process = "up"
  /\ ring.signals # << >> \/ ring.pending
  /\ DrainLeaving(ready)
  /\ UNCHANGED <<process, attempts, lease, CallerVars, queue>>

DeadlinePasses ==
  /\ breaker.deadline = "future"
  /\ breaker' = [breaker EXCEPT !.deadline = "past"]
  /\ UNCHANGED <<process, attempts, lease, ring, health, ready, CallerVars, queue>>

(* The timer was started after the deadline it waits for was computed.     *)
TimerFires ==
  /\ breaker.timer = "armed" /\ breaker.deadline # "future"
  /\ breaker' = [breaker EXCEPT !.timer = "fired"]
  /\ UNCHANGED <<process, attempts, lease, ring, health, ready, CallerVars, queue>>

(* {:attempt_proactive_recovery, gen} of the current timer generation.     *)
ProactiveRecovery ==
  /\ process = "up" /\ breaker.timer = "fired"
  /\ IF breaker.phase = "open"
     THEN WriteRows([HalfOpened(breaker) EXCEPT !.timer = "none"], ring)
     ELSE breaker' = [breaker EXCEPT !.timer = "none"] /\ UNCHANGED <<ring, health, ready>>
  /\ UNCHANGED <<process, attempts, lease, CallerVars, queue>>

(* The owner dies: its mailbox, struct and timers are gone, the rows stay. *)
OwnerDies ==
  /\ process # "down" /\ breaker.epoch < MaxEpoch /\ breaker.generation < MaxGeneration
  /\ process' = "down"
  /\ attempts' = [c \in {} |-> breaker]
  /\ ready' = {}
  /\ queue' = [c \in Callers |-> << >>]

Crash ==
  /\ OwnerDies
  /\ breaker' = [breaker EXCEPT !.timer = "none"]
  /\ UNCHANGED <<lease, ring, health, CallerVars>>

(* It dies granting: the lease row is in, the snapshot and the reply not.  *)
CrashGranting(c) ==
  /\ OwnerDies
  /\ process = "up" /\ queue[c] # << >> /\ Head(queue[c]) = "admit"
  /\ Admissible(c) /\ LeaseRowFree
  /\ lease' = LeaseOf(c, Prepared.generation, breaker.epoch)
  /\ breaker' = [breaker EXCEPT !.timer = "none"]
  /\ ring' = PreparedRing
  /\ UNCHANGED <<health, CallerVars>>

Inherited == lease.held /\ Alive(lease.token)
(* Variant: the row of a dead process is left in place.                    *)
InheritedLeaseUnchecked == lease

InheritedLease == IF Inherited THEN lease ELSE NoLease

(* init: a new epoch and generation; an open breaker whose deadline is     *)
(* still ahead stays open, anything else is half-open and degraded; the    *)
(* lease of a live process is taken over and forces half-open.             *)
Restart ==
  /\ process = "down"
  /\ process' = "starting"
  /\ LET stillOpen  == breaker.phase = "open" /\ breaker.deadline = "future"
         generation == breaker.generation + 1
     IN /\ breaker' = [phase |-> IF stillOpen /\ ~Inherited THEN "open" ELSE "half_open",
                       failures |-> 0, successes |-> 0,
                       generation |-> generation, epoch |-> breaker.epoch + 1,
                       health |-> "degraded",
                       inflight |-> IF Inherited THEN 1 ELSE 0,
                       deadline |-> IF stillOpen THEN "future" ELSE "none",
                       timer |-> IF stillOpen /\ ~Inherited THEN "armed" ELSE "none"]
        /\ lease' = InheritedLease
        /\ attempts' = [c \in IF Inherited THEN {lease.token} ELSE {} |->
                          [generation |-> lease.generation, counted |-> generation,
                           epoch |-> lease.epoch, claimed |-> lease.claimed]]
  /\ ring' = EmptyRing(ring.pending)
  /\ health' = "degraded"
  /\ UNCHANGED <<ready, CallerVars, queue>>

(* handle_continue: an inherited lease abandoned meanwhile is let go.      *)
Reconcile ==
  /\ process = "starting"
  /\ process' = "up"
  /\ \/ \E c \in DOMAIN attempts : ~Holds(c) /\ ReleaseAttempt(c)
     \/ /\ \A c \in DOMAIN attempts : Holds(c)
        /\ UNCHANGED <<attempts, lease>> /\ WriteRows(breaker, ring)
  /\ UNCHANGED <<CallerVars, queue>>

-----------------------------------------------------------------------------
HandleMessage(c) ==
  \/ RefuseAdmission(c) \/ GrantAdmission(c) \/ LeaseBusy(c)
  \/ HandleReport(c) \/ HandleRelease(c)

CallerStep(c) ==
  \/ Admit(c) \/ AdmissionTimeout(c) \/ AdmissionFails(c)
  \/ Activate(c) \/ AbandonUnclaimed(c) \/ FinishProbe(c)
  \/ \E outcome \in Signals \cup {"neutral"} : FinishServing(c, outcome)
  \/ Exit(c) \/ Fresh(c)

(* Control that neither waits for an operator nor for a failing probe.     *)
OwnerStep ==
  \/ \E c \in Callers : HandleMessage(c) \/ Down(c)
  \/ ControlReady \/ ControlAudit \/ ProactiveRecovery
  \/ Restart \/ Reconcile

Time  == DeadlinePasses \/ TimerFires
Fault == Crash \/ (\E c \in Callers : CrashGranting(c))

Next ==
  \/ \E c \in Callers : CallerStep(c)
  \/ OwnerStep \/ Time \/ Fault
  \/ ReportExternalBounded \/ RecordFailure \/ ManualOpen \/ ManualClose

Spec == Init /\ [][Next]_vars

-----------------------------------------------------------------------------
(* Of all the recovery attempts a breaker hands out, across restarts of    *)
(* its owner, manual switches and reopenings under a running attempt, at   *)
(* most one has been activated and not ended.                              *)
AtMostOneProbe == \A c, d \in Callers : pc[c] = "probing" /\ pc[d] = "probing" => c = d

(* While the owner serves, it remembers the attempt of the lease row: a    *)
(* row it had forgotten would turn every recovery attempt away for good.   *)
LeaseIsTracked == process = "up" /\ lease.held => lease.token \in DOMAIN attempts

(* What the breaker counts as in flight is what is in flight.  Its count    *)
(* is the number of attempts remembered for this generation: too low       *)
(* admits a second one, too high is busy for good.  With one it has its    *)
(* lease row, or still has to read what gave the row up.  And a request of *)
(* the pipeline that is done with its attempt, timed out or not, and whose *)
(* messages have been handled, owns no lease of the present owner.         *)
OwnsNothing(c) ==
  process = "up" /\ pc[c] = "done" /\ queue[c] = << >> =>
    ~(Holds(c) /\ lease.epoch = breaker.epoch)
InflightIsReal ==
  /\ process = "up" =>
       breaker.inflight =
         Cardinality({c \in DOMAIN attempts : attempts[c].counted = breaker.generation})
  /\ process = "up" /\ breaker.inflight > 0 =>
       lease.held \/ \E c \in DOMAIN attempts : queue[c] # << >>
  /\ \A c \in Callers \ Adapters : OwnsNothing(c)

(* A recovery runs its course: an open breaker with a live owner stays     *)
(* open until its deadline, unless its snapshot is degraded, and a         *)
(* recovering one closes on the reported success of an attempt granted in  *)
(* this very generation and epoch, or by hand: never on a timer, an        *)
(* admission or a late success from before a reopening or a restart.       *)
RecoveryInOrder ==
  [][/\ process = "up" /\ breaker.phase = "open" /\ breaker'.phase = "half_open" =>
          breaker.deadline # "future" \/ health = "degraded"
     /\ breaker.phase = "half_open" /\ breaker'.phase = "closed" =>
          \/ \E c \in Callers :
               /\ Fenced(c) /\ queue'[c] # queue[c]
               /\ Head(queue[c]) \in {"signal_success", "report_success"}
          \/ ManualClose]_vars

-----------------------------------------------------------------------------
(* The owner's process is scheduled, its timers fire, it is restarted, a   *)
(* caller's own timeout ends its wait, and a request process that is done  *)
(* ends some day.  Traffic, operators and probes owe nothing.              *)
Fairness ==
  /\ WF_vars(ControlReady) /\ WF_vars(ControlAudit) /\ WF_vars(ProactiveRecovery)
  /\ WF_vars(Restart) /\ WF_vars(Reconcile)
  /\ WF_vars(DeadlinePasses) /\ WF_vars(TimerFires)
  /\ \A c \in Callers :
       /\ WF_vars(HandleMessage(c)) /\ WF_vars(Down(c))
       /\ WF_vars(AdmissionFails(c)) /\ WF_vars(FinishProbe(c)) /\ WF_vars(AbandonUnclaimed(c))
       /\ WF_vars(pc[c] = "done" /\ Exit(c))

(* The generation bound stops the model, not the system.                   *)
Exhausted == breaker.generation = MaxGeneration

(* Proactive recovery: an open breaker leaves open without any traffic.    *)
Recovers == (breaker.phase = "open" /\ ~Exhausted) ~> (breaker.phase # "open" \/ Exhausted)

(* Whatever becomes of the attempt, its process, or the owner, the lease   *)
(* row becomes free again.                                                 *)
LeaseComesBack ==
  \A c \in Callers : (Holds(c) /\ ~Exhausted) ~> (~Holds(c) \/ Exhausted)
=============================================================================
