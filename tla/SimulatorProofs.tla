--------------------------- MODULE SimulatorProofs ---------------------------
(***************************************************************************)
(* The accounts of a run of the load tester hold for any number of runs,   *)
(* sockets, topics and requests, in whatever order timers, responses and   *)
(* socket events come.  What the accounts rest on is that a run which was  *)
(* told to stop has no socket that is connecting or open: a socket cannot  *)
(* open, nor a subscription be answered, after the counters were cleared.  *)
(*                                                                         *)
(* The panel rests on the pushes on their way in order: what it shows once *)
(* those of the hook are applied, its own events still to come (Ends), is  *)
(* what the manager can stand behind.  And it is another load tester: each *)
(* of its steps is one of the tester, or none.                             *)
(***************************************************************************)
EXTENDS SimulatorPanel, FiniteSetTheorems, WellFoundedInduction, TLAPS

Report == [success : Nat, error : Nat, inflight : Nat, open : Nat]

RunRecord ==
  [state : RunState, config : Configs, listed : BOOLEAN,
   durationTimer : BOOLEAN, stopDrainTimer : BOOLEAN, loading : BOOLEAN,
   success : Nat, error : Nat, inflight : Nat,
   socket : [Sockets -> Sockstate], asked : SUBSET Requests,
   open : Nat, pending : Nat, established : Nat, rejected : Nat,
   reports : Seq(Report), fired : Nat, outstanding : Nat, handshakes : Nat]

(* A run that stops has hung up.                                           *)
HungUp(r) ==
  r.state \in {"STOPPING", "STOPPED"} =>
    \A i \in Sockets : r.socket[i] \notin {"connecting", "open"}

Good(r) ==
  /\ r \in RunRecord
  /\ AccountsForRequests(r) /\ StopsOnce(r) /\ AccountsForSockets(r) /\ HungUp(r)

(* The report of a run that has stopped has the outcome of every request.  *)
Retains(r) ==
  r.state = "STOPPED" => r.reports[1].success + r.reports[1].error = r.fired

Inv == run \in [Runs -> RunRecord] /\ \A r \in Runs : Good(run[r])

-----------------------------------------------------------------------------
(* Finite sets                                                             *)
LEMMA FiniteRequests ==
  ASSUME NEW S \in SUBSET Requests
  PROVE  IsFiniteSet(S) /\ Cardinality(S) \in Nat
  <1>1. IsFiniteSet(Sockets) /\ IsFiniteSet(Topics)
    BY FS_Interval, SimulatorAssumption DEF Sockets
  <1>2. IsFiniteSet(Requests)
    BY <1>1, FS_Product DEF Requests
  <1> QED
    BY <1>2, FS_Subset, FS_CardinalityType

LEMMA FiniteSockets ==
  ASSUME NEW S \in SUBSET Sockets
  PROVE  IsFiniteSet(S) /\ Cardinality(S) \in Nat
  <1>1. 1 \in Int /\ MaxSockets \in Int
    BY SimulatorAssumption
  <1>2. IsFiniteSet(Sockets)
    BY <1>1, FS_Interval DEF Sockets
  <1> QED
    BY <1>2, FS_Subset, FS_CardinalityType

LEMMA CardinalityOfRest ==
  ASSUME NEW S \in SUBSET Requests, NEW T \in SUBSET S
  PROVE  Cardinality(S \ T) = Cardinality(S) - Cardinality(T)
  <1>1. IsFiniteSet(S) /\ S \cap T = T
    BY FiniteRequests
  <1> QED
    BY <1>1, FS_Difference

-----------------------------------------------------------------------------
(* Coming to a stop                                                        *)
Stopping(r) ==
  /\ r \in RunRecord /\ r.state = "STOPPING"
  /\ r.listed = TRUE /\ r.loading = FALSE /\ r.durationTimer = FALSE
  /\ r.reports = <<>>
  /\ AccountsForRequests(r) /\ AccountsForSockets(r) /\ HungUp(r)

LEMMA GoodIsStopping ==
  ASSUME NEW r, Good(r), r.state = "STOPPING"
  PROVE  Stopping(r)
  <1>1. r \in RunRecord
    BY DEF Good
  <1>2. Len(r.reports) = 0 /\ r.reports \in Seq(Report)
    BY <1>1 DEF Good, StopsOnce, RunRecord
  <1>3. r.listed = TRUE /\ r.loading = FALSE /\ r.durationTimer = FALSE
    BY <1>1 DEF Good, StopsOnce, RunRecord
  <1> QED
    BY <1>1, <1>2, <1>3 DEF Good, Stopping

LEMMA FinalizeStopGood ==
  ASSUME NEW r, Stopping(r)
  PROVE  /\ Good(FinalizeStop(r))
         /\ r.inflight = 0 => Retains(FinalizeStop(r))
  <1> DEFINE f == FinalizeStop(r)
             e == FinalStats([r EXCEPT !.inflight = 0])
  <1>1. r \in RunRecord /\ r.state = "STOPPING"
    BY DEF Stopping
  <1>2. e \in Report /\ e.success = r.success /\ e.error = r.error
    BY <1>1 DEF FinalStats, Report, RunRecord
  <1>3. f = [r EXCEPT !.stopDrainTimer = FALSE, !.inflight = 0, !.state = "STOPPED",
                      !.reports = Append(r.reports, e), !.listed = FALSE]
    BY <1>1 DEF FinalizeStop
  <1> HIDE DEF e, f
  <1>4. Append(r.reports, e) = <<e>> /\ <<e>> \in Seq(Report) /\ Len(<<e>>) = 1
    BY <1>2 DEF Stopping
  <1>5. f \in RunRecord
    BY <1>1, <1>2, <1>3, <1>4 DEF RunRecord, RunState
  <1>6. AccountsForRequests(f)
    BY <1>1, <1>3 DEF AccountsForRequests, Stopping, RunRecord
  <1>7. AccountsForSockets(f) /\ HungUp(f)
    BY <1>1, <1>3 DEF AccountsForSockets, HungUp, Stopping, RunRecord
  <1>8. StopsOnce(f)
    BY <1>1, <1>3, <1>4 DEF StopsOnce, Stopping, RunRecord
  <1>9. r.inflight = 0 => Retains(f)
    <2>1. /\ r.success \in Nat /\ r.error \in Nat /\ r.outstanding \in Nat
          /\ r.success + r.error + r.outstanding = r.fired
          /\ r.inflight = r.outstanding
      BY <1>1 DEF Stopping, AccountsForRequests, RunRecord
    <2>2. f.reports = <<e>> /\ f.fired = r.fired
      BY <1>1, <1>3, <1>4 DEF RunRecord
    <2> QED
      BY <1>2, <2>1, <2>2 DEF Retains
  <1> QED
    BY <1>5, <1>6, <1>7, <1>8, <1>9 DEF Good, f

LEMMA FinishStopGood ==
  ASSUME NEW r, Stopping(r)
  PROVE  Good(FinishStopWhenDrained(r)) /\ Retains(FinishStopWhenDrained(r))
  <1>1. CASE r.inflight > 0
    <2> DEFINE f == [r EXCEPT !.stopDrainTimer = TRUE]
    <2>1. r \in RunRecord /\ r.state = "STOPPING"
      BY DEF Stopping
    <2>2. f \in RunRecord /\ FinishStopWhenDrained(r) = f
      BY <1>1, <2>1 DEF RunRecord, FinishStopWhenDrained
    <2>3. AccountsForRequests(f) /\ AccountsForSockets(f) /\ HungUp(f)
      BY <2>1 DEF AccountsForRequests, AccountsForSockets, HungUp, Stopping, RunRecord
    <2>4. StopsOnce(f)
      BY <1>1, <2>1 DEF StopsOnce, Stopping, RunRecord
    <2>5. f.state = "STOPPING"
      BY <2>1 DEF RunRecord
    <2> QED
      BY <2>2, <2>3, <2>4, <2>5 DEF Good, Retains
  <1>2. CASE ~ r.inflight > 0
    <2>1. r.inflight = 0
      BY <1>2 DEF Stopping, RunRecord
    <2> QED
      BY <1>2, <2>1, FinalizeStopGood DEF FinishStopWhenDrained
  <1> QED
    BY <1>1, <1>2

-----------------------------------------------------------------------------
(* Starting and stopping a run                                             *)
LEMMA LoadedGood ==
  ASSUME NEW config \in Configs, NEW made
  PROVE  /\ Good(Loaded(config, made))
         /\ Loaded(config, made).state = "RUNNING"
  <1> DEFINE r == Loaded(config, made)
             sockets == [i \in Sockets |-> IF i <= made THEN "connecting" ELSE "none"]
  <1>1. sockets \in [Sockets -> Sockstate] /\ {i \in Sockets : sockets[i] = "open"} = {}
    BY DEF Sockstate
  <1>2. /\ r.state = "RUNNING" /\ r.config = config /\ r.listed = TRUE
        /\ r.durationTimer = FALSE /\ r.stopDrainTimer = FALSE /\ r.loading \in BOOLEAN
        /\ r.success = 0 /\ r.error = 0 /\ r.inflight = 0 /\ r.fired = 0
        /\ r.outstanding = 0 /\ r.handshakes = 0 /\ r.reports = <<>>
        /\ r.socket = sockets /\ r.asked = {} /\ r.open = 0 /\ r.pending = 0
        /\ r.established = 0 /\ r.rejected = 0
    BY DEF Loaded, StartWsLoad, StartHttpLoad, Constructed
  <1>3. r \in RunRecord
    <2> DEFINE c == [Constructed(config) EXCEPT !.state = "RUNNING"]
    <2>1. [i \in Sockets |-> "none"] \in [Sockets -> Sockstate]
      BY DEF Sockstate
    <2>2. <<>> \in Seq(Report) /\ {} \in SUBSET Requests /\ "RUNNING" \in RunState
      BY DEF RunState
    <2>3. c \in RunRecord
      BY <2>1, <2>2 DEF Constructed, RunRecord
    <2> HIDE DEF c
    <2>4. StartHttpLoad(c) \in RunRecord
      BY <2>3 DEF StartHttpLoad, RunRecord
    <2> QED
      BY <1>1, <2>2, <2>4 DEF Loaded, StartWsLoad, RunRecord, c
  <1> HIDE DEF r, sockets
  <1>4. AccountsForRequests(r) /\ StopsOnce(r) /\ HungUp(r)
    BY <1>2 DEF AccountsForRequests, StopsOnce, HungUp
  <1>5. {i \in Sockets : r.socket[i] = "open"} = {}
    BY <1>1, <1>2
  <1>6. AccountsForSockets(r)
    <2>1. Cardinality({}) = 0
      BY FS_EmptySet
    <2>2. r.open = 0 /\ r.pending = 0 /\ r.asked = {}
      BY <1>2
    <2>3. /\ r.pending = Cardinality(r.asked)
          /\ r.open <= Cardinality({i \in Sockets : r.socket[i] = "open"})
      BY <1>5, <2>1, <2>2
    <2> QED
      BY <1>2, <2>3 DEF AccountsForSockets
  <1> QED
    BY <1>2, <1>3, <1>4, <1>6 DEF Good, r

LEMMA StartGood ==
  ASSUME NEW config \in Configs
  PROVE  Good(Start(config))
  <1> DEFINE r == Loaded(config, config.connections)
             f == [r EXCEPT !.durationTimer = config.timed]
  <1>1. Good(r) /\ r.state = "RUNNING" /\ r \in RunRecord
    BY LoadedGood DEF Good
  <1>2. config.timed \in BOOLEAN
    BY ConfigsAssumption
  <1>3. Start(config) = f
    BY DEF Start
  <1> HIDE DEF r
  <1>4. f \in RunRecord
    BY <1>1, <1>2 DEF RunRecord
  <1>5. AccountsForRequests(f) /\ AccountsForSockets(f) /\ HungUp(f)
    BY <1>1 DEF Good, AccountsForRequests, AccountsForSockets, HungUp, RunRecord
  <1>6. StopsOnce(f)
    BY <1>1, <1>2 DEF Good, StopsOnce, RunRecord
  <1> QED
    BY <1>3, <1>4, <1>5, <1>6 DEF Good

LEMMA StopGood ==
  ASSUME NEW r, Good(r), r.state \in {"RUNNING", "STOPPING"}
  PROVE  Good(Stop(r)) /\ Retains(Stop(r))
  <1>1. CASE r.state = "STOPPING"
    BY <1>1 DEF Stop, Retains
  <1>2. CASE r.state = "RUNNING"
    <2> DEFINE sockets == [i \in Sockets |->
                             IF r.socket[i] \in {"connecting", "open"} THEN "closing"
                             ELSE r.socket[i]]
               f == [r EXCEPT !.state = "STOPPING", !.durationTimer = FALSE,
                              !.loading = FALSE, !.socket = sockets, !.asked = {},
                              !.pending = 0, !.open = 0]
    <2>1. r \in RunRecord
      BY DEF Good
    <2>2. Stop(r) = FinishStopWhenDrained(f)
      BY <1>2, <2>1 DEF Stop, StopWsLoad, StopHttpLoad, RunRecord
    <2>3. r.listed = TRUE /\ Len(r.reports) = 0 /\ r.reports \in Seq(Report)
      BY <1>2, <2>1 DEF Good, StopsOnce, RunRecord
    <2>4. /\ sockets \in [Sockets -> Sockstate]
          /\ \A i \in Sockets : sockets[i] \notin {"connecting", "open"}
          /\ {i \in Sockets : sockets[i] = "open"} = {}
      BY <2>1 DEF RunRecord, Sockstate
    <2> HIDE DEF sockets
    <2>5. f \in RunRecord
      BY <2>1, <2>4 DEF RunRecord, RunState
    <2>6. AccountsForRequests(f)
      BY <1>2, <2>1 DEF Good, AccountsForRequests, RunRecord
    <2>7. AccountsForSockets(f)
      <3>1. /\ f.socket = sockets /\ f.asked = {} /\ f.pending = 0 /\ f.open = 0
            /\ f.state = "STOPPING"
        BY <2>1 DEF RunRecord
      <3> HIDE DEF f
      <3>2. {i \in Sockets : f.socket[i] = "open"} = {}
        BY <2>4, <3>1
      <3> QED
        BY <3>1, <3>2, FS_EmptySet DEF AccountsForSockets
    <2>8. HungUp(f)
      BY <2>1, <2>4 DEF HungUp, RunRecord
    <2>9. f.reports = <<>> /\ f.listed = TRUE /\ f.loading = FALSE /\ f.durationTimer = FALSE
      BY <2>1, <2>3 DEF RunRecord
    <2>10. f.state = "STOPPING"
      BY <2>1 DEF RunRecord
    <2>11. Stopping(f)
      BY <2>5, <2>6, <2>7, <2>8, <2>9, <2>10 DEF Stopping
    <2> QED
      BY <2>2, <2>11, FinishStopGood
  <1> QED
    BY <1>1, <1>2

-----------------------------------------------------------------------------
(* Requests                                                                *)
LEMMA FiredGood ==
  ASSUME NEW r, Good(r), MayFire(r)
  PROVE  Good(Fired(r))
  <1> DEFINE f == Fired(r)
  <1>1. r \in RunRecord /\ r.state = "RUNNING"
    BY DEF Good, MayFire
  <1>2. f \in RunRecord
    <2>1. r.inflight + 1 \in Nat /\ r.fired + 1 \in Nat /\ r.outstanding + 1 \in Nat
      BY <1>1 DEF RunRecord
    <2> QED
      BY <1>1, <2>1 DEF Fired, RunRecord
  <1>3. AccountsForRequests(f)
    BY <1>1 DEF Fired, Good, AccountsForRequests, RunRecord
  <1>4. AccountsForSockets(f) /\ HungUp(f)
    BY <1>1 DEF Fired, Good, AccountsForSockets, HungUp, RunRecord
  <1>5. StopsOnce(f)
    BY <1>1 DEF Fired, Good, StopsOnce, RunRecord
  <1> QED
    BY <1>2, <1>3, <1>4, <1>5 DEF Good

LEMMA FetchedGood ==
  ASSUME NEW r, Good(r), r.outstanding > 0, NEW ok \in BOOLEAN
  PROVE  /\ Good(Fetched(r, ok))
         /\ r.state # "STOPPED" => Retains(Fetched(r, ok))
  <1> DEFINE d == [Counted(r, ok) EXCEPT !.inflight = AtLeastZero(@ - 1)]
  <1>1. r \in RunRecord
    BY DEF Good
  <1>2. /\ d \in RunRecord /\ d.state = r.state
        /\ d.outstanding = r.outstanding - 1 /\ d.fired = r.fired
        /\ d.success + d.error = r.success + r.error + 1
        /\ d.inflight = AtLeastZero(r.inflight - 1)
    <2>1. /\ AtLeastZero(r.inflight - 1) \in Nat /\ r.success + 1 \in Nat
          /\ r.error + 1 \in Nat /\ r.outstanding - 1 \in Nat
      BY <1>1 DEF RunRecord, AtLeastZero
    <2>2. /\ r.inflight = Counted(r, ok).inflight
          /\ Counted(r, ok).state = r.state /\ Counted(r, ok).fired = r.fired
          /\ Counted(r, ok).outstanding = r.outstanding - 1
          /\ \/ Counted(r, ok).success = r.success + 1 /\ Counted(r, ok).error = r.error
             \/ Counted(r, ok).success = r.success /\ Counted(r, ok).error = r.error + 1
      BY <1>1 DEF Counted, RunRecord
    <2>3. Counted(r, ok) \in RunRecord
      BY <1>1, <2>1 DEF Counted, RunRecord
    <2>4. d \in RunRecord
      BY <2>1, <2>2, <2>3 DEF RunRecord
    <2>5. /\ d.state = r.state /\ d.fired = r.fired
          /\ d.outstanding = r.outstanding - 1
          /\ d.inflight = AtLeastZero(r.inflight - 1)
          /\ d.success = Counted(r, ok).success /\ d.error = Counted(r, ok).error
      BY <2>2, <2>3 DEF RunRecord
    <2>6. r.success \in Nat /\ r.error \in Nat
      BY <1>1 DEF RunRecord
    <2> QED
      BY <2>2, <2>4, <2>5, <2>6
  <1>3. /\ d.listed = r.listed /\ d.durationTimer = r.durationTimer
        /\ d.stopDrainTimer = r.stopDrainTimer /\ d.loading = r.loading
        /\ d.reports = r.reports /\ d.socket = r.socket /\ d.asked = r.asked
        /\ d.open = r.open /\ d.pending = r.pending /\ d.established = r.established
        /\ d.rejected = r.rejected /\ d.handshakes = r.handshakes
    BY <1>1 DEF Counted, RunRecord
  <1>4. Fetched(r, ok) = IF d.state = "STOPPING" THEN FinishStopWhenDrained(d) ELSE d
    BY DEF Fetched
  <1> HIDE DEF d
  <1>5. AccountsForRequests(d)
    <2>1. /\ r.success \in Nat /\ r.error \in Nat /\ r.outstanding \in Nat
          /\ r.fired \in Nat /\ r.inflight \in Nat
          /\ d.success \in Nat /\ d.error \in Nat
      BY <1>1, <1>2 DEF RunRecord
    <2>2. /\ r.success + r.error + r.outstanding = r.fired
          /\ r.inflight = IF r.state = "STOPPED" THEN 0 ELSE r.outstanding
      BY DEF Good, AccountsForRequests
    <2> QED
      BY <1>2, <2>1, <2>2 DEF AccountsForRequests, AtLeastZero
  <1>6. AccountsForSockets(d) /\ HungUp(d)
    BY <1>2, <1>3 DEF Good, AccountsForSockets, HungUp
  <1>7. CASE r.state = "STOPPING"
    <2>1. Stopping(r)
      BY <1>7, GoodIsStopping
    <2>2. Stopping(d)
      BY <1>2, <1>3, <1>5, <1>6, <2>1 DEF Stopping
    <2> QED
      BY <1>2, <1>4, <1>7, <2>2, FinishStopGood
  <1>8. CASE r.state # "STOPPING"
    <2>1. r.stopDrainTimer = FALSE
      BY <1>1, <1>8 DEF Good, StopsOnce, RunRecord
    <2>2. StopsOnce(d)
      BY <1>2, <1>3, <1>8, <2>1 DEF Good, StopsOnce
    <2> QED
      BY <1>2, <1>4, <1>5, <1>6, <1>8, <2>2 DEF Good, Retains
  <1> QED
    BY <1>7, <1>8

-----------------------------------------------------------------------------
(* Sockets                                                                 *)
OpenOf(r) == {i \in Sockets : r.socket[i] = "open"}

(* What is not about sockets carries over to a record that agrees on it.   *)
LEMMA OtherAccounts ==
  ASSUME NEW r, NEW f, Good(r), f \in RunRecord,
         f.state = r.state, f.listed = r.listed, f.durationTimer = r.durationTimer,
         f.stopDrainTimer = r.stopDrainTimer, f.loading = r.loading,
         f.success = r.success, f.error = r.error, f.inflight = r.inflight,
         f.fired = r.fired, f.outstanding = r.outstanding, f.reports = r.reports,
         AccountsForSockets(f), HungUp(f)
  PROVE  Good(f)
  BY DEF Good, AccountsForRequests, StopsOnce

LEMMA FinishGood ==
  ASSUME NEW r, Good(r), NEW which, NEW ok \in BOOLEAN
  PROVE  LET f == FinishWsSubscriptions(r, which, ok)
         IN  /\ Good(f) /\ f.state = r.state /\ f.socket = r.socket
             /\ f.open = r.open /\ f.asked = r.asked \ which
  <1> DEFINE known == which \cap r.asked
             f == FinishWsSubscriptions(r, which, ok)
             n == Cardinality(known)
  <1>1. r \in RunRecord
    BY DEF Good
  <1>2. known \in SUBSET r.asked /\ r.asked \in SUBSET Requests /\ known \in SUBSET Requests
    BY <1>1 DEF RunRecord
  <1>3. /\ n \in Nat /\ Cardinality(r.asked) \in Nat
        /\ Cardinality(r.asked \ known) \in Nat
        /\ Cardinality(r.asked \ known) = Cardinality(r.asked) - n
    BY <1>2, FiniteRequests, CardinalityOfRest
  <1>4. r.pending = Cardinality(r.asked)
    BY DEF Good, AccountsForSockets
  <1>5. AtLeastZero(r.pending - n) = Cardinality(r.asked \ known)
    BY <1>3, <1>4 DEF AtLeastZero
  <1>6. /\ r.established + n \in Nat /\ r.rejected + n \in Nat
        /\ AtLeastZero(r.pending - n) \in Nat
        /\ r.asked \ known \in SUBSET Requests
    BY <1>1, <1>2, <1>3, <1>5 DEF RunRecord
  <1>7. f = IF ok THEN [r EXCEPT !.asked = r.asked \ known,
                                 !.pending = AtLeastZero(r.pending - n),
                                 !.established = r.established + n]
            ELSE [r EXCEPT !.asked = r.asked \ known,
                           !.pending = AtLeastZero(r.pending - n),
                           !.rejected = r.rejected + n]
    BY <1>1 DEF FinishWsSubscriptions, RunRecord
  <1> HIDE DEF known, f, n
  <1>8. f \in RunRecord
    BY <1>1, <1>6, <1>7 DEF RunRecord
  <1>9. /\ f.state = r.state /\ f.listed = r.listed /\ f.durationTimer = r.durationTimer
        /\ f.stopDrainTimer = r.stopDrainTimer /\ f.loading = r.loading
        /\ f.success = r.success /\ f.error = r.error /\ f.inflight = r.inflight
        /\ f.fired = r.fired /\ f.outstanding = r.outstanding /\ f.reports = r.reports
        /\ f.socket = r.socket /\ f.open = r.open /\ f.asked = r.asked \ known
        /\ f.pending = AtLeastZero(r.pending - n) /\ f.handshakes = r.handshakes
        /\ \/ f.established = r.established + n /\ f.rejected = r.rejected
           \/ f.established = r.established /\ f.rejected = r.rejected + n
    BY <1>1, <1>7 DEF RunRecord
  <1>10. HungUp(f)
    BY <1>9 DEF Good, HungUp
  <1>11. AccountsForSockets(f)
    <2>1. AccountsForSockets(r)
      BY DEF Good
    <2>2. r.established \in Nat /\ r.rejected \in Nat /\ r.pending \in Nat
      BY <1>1 DEF RunRecord
    <2>3. f.pending = Cardinality(f.asked)
      BY <1>5, <1>9
    <2>4. f.established + f.rejected + f.pending = r.established + r.rejected + r.pending
      BY <1>3, <1>4, <1>5, <1>9, <2>2
    <2>5. f.open <= Cardinality(OpenOf(f))
      BY <1>9, <2>1 DEF AccountsForSockets, OpenOf
    <2> QED
      BY <1>9, <2>1, <2>3, <2>4, <2>5 DEF AccountsForSockets, OpenOf
  <1>12. Good(f)
    BY <1>8, <1>9, <1>10, <1>11, OtherAccounts
  <1>13. r.asked \ known = r.asked \ which
    BY DEF known
  <1> QED
    BY <1>9, <1>12, <1>13 DEF f

LEMMA OpenedGood ==
  ASSUME NEW r, Good(r), NEW i \in Sockets, r.socket[i] = "connecting", NEW sent
  PROVE  Good(Opened(r, i, sent)) /\ Opened(r, i, sent).state = r.state
  <1> DEFINE new == {i} \X Topics
             o == [r EXCEPT !.socket[i] = "open", !.open = @ + 1,
                            !.asked = @ \cup new, !.pending = @ + Cardinality(new),
                            !.handshakes = @ + Cardinality(new)]
  <1>1. r \in RunRecord /\ AccountsForSockets(r)
    BY DEF Good
  <1>2. r.state \notin {"STOPPING", "STOPPED"}
    BY DEF Good, HungUp
  <1>3. new \in SUBSET Requests /\ r.asked \in SUBSET Requests
    BY <1>1 DEF RunRecord, Requests
  <1>4. r.asked \cap new = {}
    <2>1. ASSUME NEW q \in r.asked PROVE q \notin new
      BY <1>1 DEF AccountsForSockets
    <2> QED
      BY <2>1
  <1>5. /\ Cardinality(new) \in Nat /\ Cardinality(r.asked) \in Nat
        /\ Cardinality(r.asked \cup new) = Cardinality(r.asked) + Cardinality(new)
    <2>1. /\ IsFiniteSet(new) /\ Cardinality(new) \in Nat
          /\ IsFiniteSet(r.asked) /\ Cardinality(r.asked) \in Nat
      BY <1>3, FiniteRequests
    <2>2. Cardinality(r.asked \cup new)
            = Cardinality(r.asked) + Cardinality(new) - Cardinality(r.asked \cap new)
      BY <2>1, FS_Union
    <2>3. Cardinality(r.asked \cap new) = 0
      BY <1>4, FS_EmptySet
    <2> QED
      BY <2>1, <2>2, <2>3
  <1>6. /\ r.open + 1 \in Nat /\ r.pending + Cardinality(new) \in Nat
        /\ r.handshakes + Cardinality(new) \in Nat
        /\ r.asked \cup new \in SUBSET Requests
        /\ [r.socket EXCEPT ![i] = "open"] \in [Sockets -> Sockstate]
    BY <1>1, <1>3, <1>5 DEF RunRecord, Sockstate
  <1>7. Opened(r, i, sent) = FinishWsSubscriptions(o, {i} \X (Topics \ sent), FALSE)
    BY DEF Opened
  <1>8. o = [r EXCEPT !.socket = [r.socket EXCEPT ![i] = "open"], !.open = r.open + 1,
                      !.asked = r.asked \cup new, !.pending = r.pending + Cardinality(new),
                      !.handshakes = r.handshakes + Cardinality(new)]
    BY <1>1 DEF RunRecord
  <1> HIDE DEF new, o
  <1>9. o \in RunRecord
    BY <1>1, <1>6, <1>8 DEF RunRecord
  <1>10. /\ o.state = r.state /\ o.listed = r.listed /\ o.durationTimer = r.durationTimer
         /\ o.stopDrainTimer = r.stopDrainTimer /\ o.loading = r.loading
         /\ o.success = r.success /\ o.error = r.error /\ o.inflight = r.inflight
         /\ o.fired = r.fired /\ o.outstanding = r.outstanding /\ o.reports = r.reports
         /\ o.socket = [r.socket EXCEPT ![i] = "open"] /\ o.open = r.open + 1
         /\ o.asked = r.asked \cup new /\ o.pending = r.pending + Cardinality(new)
         /\ o.handshakes = r.handshakes + Cardinality(new)
         /\ o.established = r.established /\ o.rejected = r.rejected
    BY <1>1, <1>8 DEF RunRecord
  <1>11. HungUp(o)
    BY <1>2, <1>10 DEF HungUp
  <1>12. AccountsForSockets(o)
    <2>1. o.pending = Cardinality(o.asked)
      BY <1>1, <1>5, <1>10 DEF AccountsForSockets
    <2>2. \A j \in Sockets : o.socket[j] = IF j = i THEN "open" ELSE r.socket[j]
      BY <1>1, <1>10 DEF RunRecord
    <2>3. \A q \in o.asked : o.socket[q[1]] = "open"
      BY <1>1, <1>3, <1>10, <2>2 DEF AccountsForSockets, Requests, new
    <2>4. OpenOf(o) = OpenOf(r) \cup {i} /\ i \notin OpenOf(r)
      BY <2>2 DEF OpenOf
    <2>5. IsFiniteSet(OpenOf(r)) /\ Cardinality(OpenOf(r)) \in Nat
      BY FiniteSockets DEF OpenOf
    <2>6. Cardinality(OpenOf(o)) = Cardinality(OpenOf(r)) + 1
      BY <2>4, <2>5, FS_AddElement
    <2>7. o.open <= Cardinality(OpenOf(o))
      <3>1. r.open <= Cardinality(OpenOf(r)) /\ r.open \in Nat
        BY <1>1 DEF AccountsForSockets, OpenOf, RunRecord
      <3> QED
        BY <1>10, <2>5, <2>6, <3>1
    <2>8. o.state = "RUNNING" => o.established + o.rejected + o.pending = o.handshakes
      <3>1. /\ r.established \in Nat /\ r.rejected \in Nat /\ r.pending \in Nat
            /\ r.handshakes \in Nat
        BY <1>1 DEF RunRecord
      <3>2. r.state = "RUNNING" => r.established + r.rejected + r.pending = r.handshakes
        BY <1>1 DEF AccountsForSockets
      <3> QED
        BY <1>5, <1>10, <3>1, <3>2
    <2> QED
      BY <1>2, <1>10, <2>1, <2>3, <2>7, <2>8 DEF AccountsForSockets, OpenOf
  <1>13. Good(o)
    BY <1>9, <1>10, <1>11, <1>12, OtherAccounts
  <1> DEFINE failed == {i} \X (Topics \ sent)
  <1> HIDE DEF failed
  <1>14. /\ Good(FinishWsSubscriptions(o, failed, FALSE))
         /\ FinishWsSubscriptions(o, failed, FALSE).state = o.state
    BY <1>13, FinishGood
  <1> QED
    BY <1>7, <1>10, <1>14 DEF failed

LEMMA ClosedGood ==
  ASSUME NEW r, Good(r), NEW i \in Sockets
  PROVE  Good(Closed(r, i)) /\ Closed(r, i).state = r.state
  <1> DEFINE s == FinishWsSubscriptions(r, {i} \X Topics, FALSE)
             f == [s EXCEPT !.socket[i] = "closed", !.open = AtLeastZero(@ - 1)]
  <1>1. Closed(r, i) = f
    BY DEF Closed
  <1>2. Good(s) /\ s.asked = r.asked \ ({i} \X Topics) /\ s.state = r.state
    BY FinishGood
  <1>3. s \in RunRecord /\ AccountsForSockets(s)
    BY <1>2 DEF Good
  <1> HIDE DEF s
  <1>4. /\ AtLeastZero(s.open - 1) \in Nat /\ s.open \in Nat
        /\ [s.socket EXCEPT ![i] = "closed"] \in [Sockets -> Sockstate]
    BY <1>3 DEF RunRecord, Sockstate, AtLeastZero
  <1>5. f = [s EXCEPT !.socket = [s.socket EXCEPT ![i] = "closed"],
                      !.open = AtLeastZero(s.open - 1)]
    BY <1>3 DEF RunRecord
  <1> HIDE DEF f
  <1>6. f \in RunRecord
    BY <1>3, <1>4, <1>5 DEF RunRecord
  <1>7. /\ f.state = s.state /\ f.listed = s.listed /\ f.durationTimer = s.durationTimer
        /\ f.stopDrainTimer = s.stopDrainTimer /\ f.loading = s.loading
        /\ f.success = s.success /\ f.error = s.error /\ f.inflight = s.inflight
        /\ f.fired = s.fired /\ f.outstanding = s.outstanding /\ f.reports = s.reports
        /\ f.socket = [s.socket EXCEPT ![i] = "closed"]
        /\ f.open = AtLeastZero(s.open - 1)
        /\ f.asked = s.asked /\ f.pending = s.pending /\ f.handshakes = s.handshakes
        /\ f.established = s.established /\ f.rejected = s.rejected
    BY <1>3, <1>5 DEF RunRecord
  <1>8. \A j \in Sockets : f.socket[j] = IF j = i THEN "closed" ELSE s.socket[j]
    BY <1>3, <1>7 DEF RunRecord
  <1>9. HungUp(f)
    BY <1>2, <1>7, <1>8 DEF Good, HungUp
  <1>10. AccountsForSockets(f)
    <2>1. \A q \in f.asked : q[1] \in Sockets /\ q[1] # i
      <3>1. ASSUME NEW q \in f.asked PROVE q[1] \in Sockets /\ q[1] # i
        <4>1. q \in r.asked /\ q \notin {i} \X Topics
          BY <1>2, <1>7
        <4>2. q \in Sockets \X Topics
          BY <4>1 DEF Good, RunRecord, Requests
        <4> QED
          BY <4>1, <4>2
      <3> QED
        BY <3>1
    <2>2. \A q \in f.asked : f.socket[q[1]] = "open"
      BY <1>3, <1>7, <1>8, <2>1 DEF AccountsForSockets
    <2>3. OpenOf(f) = OpenOf(s) \ {i}
      BY <1>8 DEF OpenOf
    <2>4. IsFiniteSet(OpenOf(s)) /\ Cardinality(OpenOf(s)) \in Nat
      BY FiniteSockets DEF OpenOf
    <2>5. Cardinality(OpenOf(f)) \in Nat
      BY FiniteSockets DEF OpenOf
    <2>6. Cardinality(OpenOf(f)) >= Cardinality(OpenOf(s)) - 1
      <3>1. Cardinality(OpenOf(s) \ {i})
              = IF i \in OpenOf(s) THEN Cardinality(OpenOf(s)) - 1 ELSE Cardinality(OpenOf(s))
        BY <2>4, FS_RemoveElement
      <3> QED
        BY <2>3, <2>4, <2>5, <3>1
    <2>7. f.open <= Cardinality(OpenOf(f))
      <3>1. s.open <= Cardinality(OpenOf(s))
        BY <1>3 DEF AccountsForSockets, OpenOf
      <3> QED
        BY <1>4, <1>7, <2>4, <2>5, <2>6, <3>1 DEF AtLeastZero
    <2>8. s.open = 0 => f.open = 0
      BY <1>7 DEF AtLeastZero
    <2> QED
      BY <1>3, <1>7, <2>2, <2>7, <2>8 DEF AccountsForSockets, OpenOf
  <1> QED
    BY <1>1, <1>2, <1>6, <1>7, <1>9, <1>10, OtherAccounts

-----------------------------------------------------------------------------
(* The steps of the page                                                   *)

(* Of the runs, r becomes a good one, and keeps its report if it stops.    *)
LEMMA OneRunChanges ==
  ASSUME Inv, NEW r \in Runs, NEW new, Becomes(r, new), Good(new)
  PROVE  /\ Inv'
         /\ (run[r].state # new.state => Retains(new)) \/ DrainEnds(r) =>
              \A s \in Runs : StoppedBy(s) /\ ~DrainEnds(s) => Retains(run'[s])
  <1>1. run' = [run EXCEPT ![r] = new] /\ new \in RunRecord
    BY DEF Becomes, Good
  <1>2. \A s \in Runs : run'[s] = IF s = r THEN new ELSE run[s]
    BY <1>1 DEF Inv
  <1>3. run' \in [Runs -> RunRecord]
    BY <1>1 DEF Inv
  <1>4. \A s \in Runs : Good(run'[s])
    BY <1>2 DEF Inv
  <1> QED
    BY <1>2, <1>3, <1>4 DEF Inv, StoppedBy

LEMMA InitGood ==
  ASSUME Init
  PROVE  Inv
  <1> DEFINE config == CHOOSE c \in Configs : TRUE
             sockets == [i \in Sockets |-> "none"]
  <1>1. config \in Configs
    BY SimulatorAssumption
  <1>2. sockets \in [Sockets -> Sockstate] /\ {i \in Sockets : sockets[i] = "open"} = {}
    BY DEF Sockstate
  <1>3. <<>> \in Seq(Report) /\ Len(<<>>) = 0 /\ {} \in SUBSET Requests /\ "ABSENT" \in RunState
    BY DEF RunState
  <1> HIDE DEF config, sockets
  <1>4. Absent = [Constructed(config) EXCEPT !.state = "ABSENT", !.listed = FALSE]
    BY DEF Absent, config
  <1>5. Absent \in RunRecord
    BY <1>1, <1>2, <1>3, <1>4 DEF Constructed, RunRecord, sockets
  <1>6. /\ Absent.state = "ABSENT" /\ Absent.listed = FALSE /\ Absent.loading = FALSE
        /\ Absent.durationTimer = FALSE /\ Absent.stopDrainTimer = FALSE
        /\ Absent.success = 0 /\ Absent.error = 0 /\ Absent.inflight = 0
        /\ Absent.fired = 0 /\ Absent.outstanding = 0 /\ Absent.reports = <<>>
        /\ Absent.asked = {} /\ Absent.pending = 0 /\ Absent.open = 0
    BY <1>4 DEF Constructed
  <1>7. Absent.socket = sockets
    BY <1>4 DEF Constructed, sockets
  <1>8. AccountsForRequests(Absent) /\ StopsOnce(Absent) /\ HungUp(Absent)
    BY <1>3, <1>6 DEF AccountsForRequests, StopsOnce, HungUp
  <1>9. AccountsForSockets(Absent)
    <2>1. Cardinality({}) = 0
      BY FS_EmptySet
    <2>2. {i \in Sockets : Absent.socket[i] = "open"} = {}
      BY <1>2, <1>7
    <2>3. Absent.open = 0
      BY <1>6
    <2>4. Absent.open <= Cardinality({i \in Sockets : Absent.socket[i] = "open"})
      BY <2>1, <2>2, <2>3
    <2> QED
      BY <1>6, <2>1, <2>4 DEF AccountsForSockets
  <1>10. Good(Absent)
    BY <1>5, <1>8, <1>9 DEF Good
  <1> QED
    BY <1>5, <1>10 DEF Init, Inv

(* stopAllRuns stops what the manager lists and has not stopped.           *)
LEMMA StopAllGood ==
  ASSUME Inv, StopAllRuns
  PROVE  Inv' /\ \A s \in Runs : StoppedBy(s) => Retains(run'[s])
  <1>1. run' = [s \in Runs |-> IF s <= MaxRuns /\ Active(run, s) THEN Stop(run[s]) ELSE run[s]]
    BY DEF StopAllRuns, AllStopped, StoppedUpTo
  <1>2. ASSUME NEW s \in Runs, Active(run, s)
        PROVE  Good(Stop(run[s])) /\ Retains(Stop(run[s]))
    <2>1. Good(run[s]) /\ run[s].listed
      BY <1>2 DEF Inv, Active
    <2>2. run[s].state \in {"RUNNING", "STOPPING"}
      BY <2>1 DEF Good, StopsOnce
    <2> QED
      BY <2>1, <2>2, StopGood
  <1>3. \A s \in Runs : Good(run'[s]) /\ (run'[s] = run[s] \/ Retains(run'[s]))
    BY <1>1, <1>2 DEF Inv
  <1>4. run' \in [Runs -> RunRecord]
    BY <1>1, <1>3 DEF Good
  <1> QED
    BY <1>3, <1>4 DEF Inv, StoppedBy

(* What an action does to the invariant, and to the report of a run.       *)
Keeps ==
  /\ Inv'
  /\ \A s \in Runs : StoppedBy(s) /\ ~DrainEnds(s) => Retains(run'[s])

LEMMA CommandsKeep ==
  ASSUME Inv, Commands
  PROVE  Keeps
  <1>1. ASSUME NEW r \in Runs, NEW config \in Configs, StartRun(r, config)
        PROVE  Keeps
    <2>1. Good(Start(config)) /\ Becomes(r, Start(config))
      BY <1>1, StartGood DEF StartRun
    <2>2. Retains(Start(config))
      <3>1. Loaded(config, config.connections) \in RunRecord
        BY LoadedGood DEF Good
      <3>2. Loaded(config, config.connections).state = "RUNNING"
        BY LoadedGood
      <3> QED
        BY <3>1, <3>2 DEF Start, Retains, RunRecord
    <2> QED
      BY <2>1, <2>2, OneRunChanges DEF Keeps
  <1>2. ASSUME NEW r \in Runs, NEW config \in Configs, NEW made \in 0..MaxSockets,
               StartFails(r, config, made)
        PROVE  Keeps
    <2>1. Good(Loaded(config, made)) /\ Loaded(config, made).state = "RUNNING"
      BY LoadedGood
    <2>2. Good(Stop(Loaded(config, made))) /\ Retains(Stop(Loaded(config, made)))
      BY <2>1, StopGood
    <2>3. Becomes(r, Stop(Loaded(config, made)))
      BY <1>2 DEF StartFails
    <2> QED
      BY <2>2, <2>3, OneRunChanges DEF Keeps
  <1>3. CASE StopAllRuns
    BY <1>3, StopAllGood DEF Keeps
  <1> QED
    BY <1>1, <1>2, <1>3 DEF Commands

LEMMA PageKeep ==
  ASSUME Inv, NEW r \in Runs, Page(r)
  PROVE  Keeps
  <1> DEFINE old == run[r]
  <1>1. Good(old) /\ old \in RunRecord
    BY DEF Inv, Good
  <1>2. CASE Fire(r)
    <2>1. Good(Fired(old)) /\ Becomes(r, Fired(old))
      BY <1>1, <1>2, FiredGood DEF Fire
    <2>2. Fired(old).state = old.state
      BY <1>1 DEF Fired, RunRecord
    <2> QED
      BY <2>1, <2>2, OneRunChanges DEF Keeps
  <1>3. ASSUME NEW ok \in BOOLEAN, FetchEnds(r, ok)
        PROVE  Keeps
    <2>1. /\ Good(Fetched(old, ok)) /\ Becomes(r, Fetched(old, ok))
          /\ old.state # "STOPPED" => Retains(Fetched(old, ok))
      BY <1>1, <1>3, FetchedGood DEF FetchEnds
    <2>2. CASE old.state # "STOPPED"
      BY <2>1, <2>2, OneRunChanges DEF Keeps
    <2>3. CASE old.state = "STOPPED"
      <3>1. Fetched(old, ok).state = old.state
        BY <1>1, <2>3 DEF Fetched, Counted, RunRecord
      <3> QED
        BY <2>1, <3>1, OneRunChanges DEF Keeps
    <2> QED
      BY <2>2, <2>3
  <1>4. CASE DurationEnds(r)
    <2>1. old.state = "RUNNING" /\ Becomes(r, Stop(old))
      BY <1>1, <1>4 DEF DurationEnds, Good, StopsOnce
    <2>2. Good(Stop(old)) /\ Retains(Stop(old))
      BY <1>1, <2>1, StopGood
    <2> QED
      BY <2>1, <2>2, OneRunChanges DEF Keeps
  <1>5. CASE DrainEnds(r)
    <2>1. old.state = "STOPPING" /\ Becomes(r, FinalizeStop(old))
      BY <1>1, <1>5 DEF DrainEnds, Good, StopsOnce
    <2>2. Good(FinalizeStop(old))
      BY <1>1, <2>1, GoodIsStopping, FinalizeStopGood
    <2> QED
      BY <1>5, <2>1, <2>2, OneRunChanges DEF Keeps
  <1>6. ASSUME NEW i \in Sockets, NEW sent \in SUBSET Topics, SocketOpens(r, i, sent)
        PROVE  Keeps
    <2>1. /\ Good(Opened(old, i, sent)) /\ Opened(old, i, sent).state = old.state
          /\ Becomes(r, Opened(old, i, sent))
      BY <1>1, <1>6, OpenedGood DEF SocketOpens
    <2> QED
      BY <2>1, OneRunChanges DEF Keeps
  <1>7. ASSUME NEW i \in Sockets, SocketCloses(r, i)
        PROVE  Keeps
    <2>1. /\ Good(Closed(old, i)) /\ Closed(old, i).state = old.state
          /\ Becomes(r, Closed(old, i))
      BY <1>1, <1>7, ClosedGood DEF SocketCloses
    <2> QED
      BY <2>1, OneRunChanges DEF Keeps
  <1>8. ASSUME NEW i \in Sockets, NEW t \in Topics, NEW ok \in BOOLEAN,
               SocketAnswers(r, i, t, ok)
        PROVE  Keeps
    <2> DEFINE which == {<<i, t>>}
    <2>1. Becomes(r, FinishWsSubscriptions(old, which, ok))
      BY <1>8 DEF SocketAnswers
    <2> HIDE DEF which
    <2>2. /\ Good(FinishWsSubscriptions(old, which, ok))
          /\ FinishWsSubscriptions(old, which, ok).state = old.state
      BY <1>1, FinishGood
    <2> QED
      BY <2>1, <2>2, OneRunChanges DEF Keeps
  <1> QED
    BY <1>2, <1>3, <1>4, <1>5, <1>6, <1>7, <1>8 DEF Page

LEMMA UnchangedKeeps ==
  ASSUME Inv, UNCHANGED run
  PROVE  Keeps
  BY DEF Keeps, Inv, StoppedBy

LEMMA NextKeeps ==
  ASSUME Inv, [Next]_run
  PROVE  Keeps
  BY CommandsKeep, PageKeep, UnchangedKeeps DEF Next

-----------------------------------------------------------------------------
(* The invariant implies what is checked.                                  *)
LEMMA InvIsTyped ==
  ASSUME Inv
  PROVE  TypeOK
  BY DEF Inv, TypeOK, RunOK, RunRecord

LEMMA InvAccounts ==
  ASSUME Inv
  PROVE  RunAccounts
  BY DEF Inv, Good, RunAccounts, RequestsAccounted, StoppedOnce, SocketsAccounted

(* Every field of every run keeps its type, in every behaviour of the      *)
(* tester (assets/js/lasso_simulator.js).                                  *)
THEOREM TypeCorrect == Spec => []TypeOK
  <1>1. Init => Inv
    BY InitGood
  <1>2. Inv /\ [Next]_run => Inv'
    BY NextKeeps DEF Keeps
  <1>3. Inv => TypeOK
    BY InvIsTyped
  <1> QED
    BY <1>1, <1>2, <1>3, PTL DEF Spec

(* Requests, reports and subscriptions of every run add up, in every       *)
(* interleaving of timers, responses, socket events, starts and stops.     *)
THEOREM AccountsHold == Spec => []RunAccounts
  <1>1. Init => Inv
    BY InitGood
  <1>2. Inv /\ [Next]_run => Inv'
    BY NextKeeps DEF Keeps
  <1>3. Inv => RunAccounts
    BY InvAccounts
  <1> QED
    BY <1>1, <1>2, <1>3, PTL DEF Spec

(* A report written before the drain timer has the outcome of every        *)
(* request the run ever sent.                                              *)
THEOREM OutcomesRetained == Spec => FinalOutcomeRetained
  <1> DEFINE Reported(r) ==
        StoppedBy(r) /\ ~DrainEnds(r) =>
          LET report == run'[r].reports[1]
          IN report.success + report.error = run'[r].fired
  <1>1. Init => Inv
    BY InitGood
  <1>2. Inv /\ [Next]_run => Inv'
    BY NextKeeps DEF Keeps
  <1>3. Inv /\ [Next]_run => \A r \in Runs : Reported(r)
    BY NextKeeps DEF Keeps, Retains, StoppedBy
  <1>4. Inv /\ [Next]_run => [\A r \in Runs : Reported(r)]_run
    BY <1>3
  <1> QED
    BY <1>1, <1>2, <1>4, PTL DEF Spec, FinalOutcomeRetained
-----------------------------------------------------------------------------
(* The panel.  Pushes on their way                                         *)
IsSequence(u) == u \in Seq({u[i] : i \in 1..Len(u)})

LEMMA SequencesAre ==
  ASSUME NEW S, NEW u \in Seq(S)
  PROVE  IsSequence(u)
  <1>1. Len(u) \in Nat /\ \A i \in 1..Len(u) : u[i] \in {u[j] : j \in 1..Len(u)}
    OBVIOUS
  <1>2. u = [i \in 1..Len(u) |-> u[i]]
    OBVIOUS
  <1> DEFINE T == {u[j] : j \in 1..Len(u)}
  <1> HIDE DEF T
  <1>3. u \in [1..Len(u) -> T]
    BY <1>1, <1>2 DEF T
  <1>4. u \in Seq(T)
    BY <1>1, <1>3
  <1> QED
    BY <1>4 DEF IsSequence, T

LEMMA Joined ==
  ASSUME NEW u, IsSequence(u), NEW v, IsSequence(v)
  PROVE  /\ IsSequence(u \o v)
         /\ Len(u) \in Nat /\ Len(v) \in Nat /\ Len(u \o v) = Len(u) + Len(v)
         /\ \A i \in 1..Len(u) : (u \o v)[i] = u[i]
         /\ \A i \in 1..Len(v) : (u \o v)[Len(u) + i] = v[i]
  <1> DEFINE S == {u[i] : i \in 1..Len(u)}
             T == {v[i] : i \in 1..Len(v)}
             U == S \cup T
  <1>1. u \in Seq(S) /\ v \in Seq(T)
    BY DEF IsSequence
  <1> HIDE DEF S, T
  <1>2. u \in Seq(U) /\ v \in Seq(U)
    BY <1>1
  <1> HIDE DEF U
  <1>3. u \o v \in Seq(U)
    BY <1>2
  <1>4. IsSequence(u \o v)
    BY <1>3, SequencesAre
  <1> QED
    BY <1>2, <1>4

LEMMA OneByOne ==
  /\ IsSequence(<<>>) /\ Len(<<>>) = 0
  /\ \A x : IsSequence(<<x>>) /\ Len(<<x>>) = 1 /\ <<x>>[1] = x
  <1>1. <<>> \in Seq({}) /\ Len(<<>>) = 0
    OBVIOUS
  <1>2. ASSUME NEW x PROVE IsSequence(<<x>>) /\ Len(<<x>>) = 1 /\ <<x>>[1] = x
    <2>1. <<x>> \in Seq({x}) /\ Len(<<x>>) = 1 /\ <<x>>[1] = x
      OBVIOUS
    <2> QED
      BY <2>1, SequencesAre
  <1> QED
    BY <1>1, <1>2, SequencesAre

LEMMA Added ==
  ASSUME NEW u, IsSequence(u), NEW x
  PROVE  Append(u, x) = u \o <<x>>
  <1> DEFINE T == {u[i] : i \in 1..Len(u)} \cup {x}
  <1>1. u \in Seq(T) /\ x \in T
    BY DEF IsSequence
  <1> HIDE DEF T
  <1> QED
    BY <1>1

LEMMA AddedLast ==
  ASSUME NEW u, IsSequence(u), NEW x
  PROVE  LET w == u \o <<x>>
         IN  /\ IsSequence(w) /\ Len(u) \in Nat /\ Len(w) = Len(u) + 1
             /\ w[Len(u) + 1] = x
             /\ \A i \in 1..Len(u) : w[i] = u[i]
  <1> DEFINE v == <<x>>
  <1>1. IsSequence(v) /\ Len(v) = 1 /\ v[1] = x
    BY OneByOne
  <1> HIDE DEF v
  <1>2. /\ IsSequence(u \o v) /\ Len(u) \in Nat /\ Len(u \o v) = Len(u) + Len(v)
        /\ \A i \in 1..Len(u) : (u \o v)[i] = u[i]
        /\ \A i \in 1..Len(v) : (u \o v)[Len(u) + i] = v[i]
    BY <1>1, Joined DEF v
  <1>3. (u \o v)[Len(u) + 1] = v[1]
    BY <1>1, <1>2
  <1> QED
    BY <1>1, <1>2, <1>3 DEF v

LEMMA Shortened ==
  ASSUME NEW u, IsSequence(u), u # <<>>
  PROVE  /\ IsSequence(Tail(u))
         /\ Len(u) \in Nat \ {0} /\ Len(Tail(u)) = Len(u) - 1
         /\ Head(u) = u[1]
         /\ \A i \in 1..(Len(u) - 1) : Tail(u)[i] = u[i + 1]
  <1> DEFINE T == {u[i] : i \in 1..Len(u)}
  <1>1. u \in Seq(T)
    BY DEF IsSequence
  <1> HIDE DEF T
  <1>2. Tail(u) \in Seq(T)
    BY <1>1
  <1>3. IsSequence(Tail(u))
    BY <1>2, SequencesAre
  <1>4. Len(u) \in Nat \ {0} /\ Len(Tail(u)) = Len(u) - 1 /\ Head(u) = u[1]
    BY <1>1
  <1>5. \A i \in 1..(Len(u) - 1) : Tail(u)[i] = u[i + 1]
    BY <1>1
  <1> QED
    BY <1>3, <1>4, <1>5

(* Once the pushes u are applied, field f, which is old, is in G.          *)
Ends(u, f, old, G) ==
  \/ /\ \A i \in 1..Len(u) : u[i][f] = {}
     /\ old \in G
  \/ \E i \in 1..Len(u) :
       /\ u[i][f] # {} /\ u[i][f] \subseteq G
       /\ \A j \in (i + 1)..Len(u) : u[j][f] = {}

LEMMA EndsNow ==
  ASSUME NEW f, NEW old, NEW G
  PROVE  Ends(<<>>, f, old, G) <=> old \in G
  BY OneByOne DEF Ends

LEMMA EndsLarger ==
  ASSUME NEW u, NEW f, NEW old, NEW G, NEW H, G \subseteq H, Ends(u, f, old, G)
  PROVE  Ends(u, f, old, H)
  <1>1. CASE (\A i \in 1..Len(u) : u[i][f] = {}) /\ old \in G
    BY <1>1 DEF Ends
  <1>2. ASSUME NEW i \in 1..Len(u), u[i][f] # {}, u[i][f] \subseteq G,
               \A j \in (i + 1)..Len(u) : u[j][f] = {}
        PROVE  Ends(u, f, old, H)
    BY <1>2 DEF Ends
  <1> QED
    BY <1>1, <1>2 DEF Ends

(* One push is applied.                                                    *)
LEMMA EndsApplied ==
  ASSUME NEW u, IsSequence(u), u # <<>>, NEW f, NEW old, NEW G, Ends(u, f, old, G)
  PROVE  Ends(Tail(u), f, Chosen(Head(u)[f], old), G)
  <1> DEFINE new == Chosen(Head(u)[f], old)
             v == Tail(u)
  <1>1. /\ Len(u) \in Nat \ {0} /\ Len(v) = Len(u) - 1 /\ Head(u) = u[1]
        /\ \A i \in 1..(Len(u) - 1) : v[i] = u[i + 1]
    BY Shortened
  <1>2. (u[1][f] = {} => new = old) /\ (u[1][f] # {} => new \in u[1][f])
    BY <1>1 DEF Chosen
  <1> HIDE DEF new, v
  <1>3. CASE (\A i \in 1..Len(u) : u[i][f] = {}) /\ old \in G
    <2>1. new = old /\ \A i \in 1..Len(v) : v[i][f] = {}
      BY <1>1, <1>2, <1>3
    <2> QED
      BY <1>3, <2>1 DEF Ends, new, v
  <1>4. ASSUME NEW i \in 1..Len(u), u[i][f] # {}, u[i][f] \subseteq G,
               \A j \in (i + 1)..Len(u) : u[j][f] = {}
        PROVE  Ends(v, f, new, G)
    <2>1. CASE i = 1
      <3>1. new \in G
        BY <1>2, <1>4, <2>1
      <3>2. \A j \in 1..Len(v) : v[j][f] = {}
        BY <1>1, <1>4, <2>1
      <3> QED
        BY <3>1, <3>2 DEF Ends
    <2>2. CASE i # 1
      <3>1. i - 1 \in 1..Len(v) /\ v[i - 1] = u[i]
        BY <1>1, <2>2
      <3>2. \A j \in i..Len(v) : v[j][f] = {}
        BY <1>1, <1>4, <2>2
      <3>3. (i - 1) + 1 = i
        BY <1>1
      <3> QED
        BY <1>4, <3>1, <3>2, <3>3 DEF Ends
    <2> QED
      BY <2>1, <2>2
  <1> QED
    BY <1>3, <1>4 DEF Ends, new, v

(* Pushes are added: all without the field, or ending in G themselves.     *)
Silent(v, f) == \A i \in 1..Len(v) : v[i][f] = {}
Speaks(v, f, G) ==
  \E i \in 1..Len(v) :
    /\ v[i][f] # {} /\ v[i][f] \subseteq G
    /\ \A j \in (i + 1)..Len(v) : v[j][f] = {}

LEMMA EndsAdded ==
  ASSUME NEW u, IsSequence(u), NEW v, IsSequence(v), NEW f, NEW old, NEW G,
         \/ Ends(u, f, old, G) /\ Silent(v, f)
         \/ Speaks(v, f, G)
  PROVE  Ends(u \o v, f, old, G)
  <1> DEFINE w == u \o v
  <1>1. /\ Len(u) \in Nat /\ Len(v) \in Nat /\ Len(w) = Len(u) + Len(v)
        /\ \A i \in 1..Len(u) : w[i] = u[i]
        /\ \A i \in 1..Len(v) : w[Len(u) + i] = v[i]
    BY Joined
  <1> HIDE DEF w
  <1>2. ASSUME NEW j \in 1..Len(w), ~ (j \in 1..Len(u))
        PROVE  j - Len(u) \in 1..Len(v) /\ w[j] = v[j - Len(u)]
    <2>1. j - Len(u) \in 1..Len(v) /\ Len(u) + (j - Len(u)) = j
      BY <1>1, <1>2
    <2> QED
      BY <1>1, <2>1
  <1>3. CASE Silent(v, f) /\ (\A i \in 1..Len(u) : u[i][f] = {}) /\ old \in G
    <2>1. \A j \in 1..Len(w) : w[j][f] = {}
      BY <1>1, <1>2, <1>3 DEF Silent
    <2> QED
      BY <1>3, <2>1 DEF Ends, w
  <1>4. ASSUME Silent(v, f), NEW i \in 1..Len(u), u[i][f] # {}, u[i][f] \subseteq G,
               \A j \in (i + 1)..Len(u) : u[j][f] = {}
        PROVE  Ends(w, f, old, G)
    <2>1. i \in 1..Len(w) /\ w[i] = u[i]
      BY <1>1
    <2>2. ASSUME NEW j \in (i + 1)..Len(w) PROVE w[j][f] = {}
      <3>1. j \in 1..Len(w)
        BY <1>1
      <3>2. CASE j \in 1..Len(u)
        <4>1. j \in (i + 1)..Len(u)
          BY <1>1, <3>2
        <4> QED
          BY <1>1, <1>4, <3>2, <4>1
      <3>3. CASE ~ (j \in 1..Len(u))
        BY <1>2, <1>4, <3>1, <3>3 DEF Silent
      <3> QED
        BY <3>2, <3>3
    <2> QED
      BY <1>4, <2>1, <2>2 DEF Ends
  <1>5. ASSUME NEW i \in 1..Len(v), v[i][f] # {}, v[i][f] \subseteq G,
               \A j \in (i + 1)..Len(v) : v[j][f] = {}
        PROVE  Ends(w, f, old, G)
    <2> DEFINE k == Len(u) + i
    <2>1. k \in 1..Len(w) /\ w[k] = v[i]
      BY <1>1
    <2>2. ASSUME NEW j \in (k + 1)..Len(w) PROVE w[j][f] = {}
      <3>1. j \in 1..Len(w) /\ ~ (j \in 1..Len(u)) /\ j - Len(u) \in (i + 1)..Len(v)
        BY <1>1
      <3> QED
        BY <1>2, <1>5, <3>1
    <2> QED
      BY <1>5, <2>1, <2>2 DEF Ends
  <1> QED
    BY <1>3, <1>4, <1>5 DEF Ends, Speaks, w

-----------------------------------------------------------------------------
(* What a run is to the panel: before it starts nothing answers for it,    *)
(* and the report it leaves has no load in it.                             *)
Kept(r) ==
  /\ r.state = "ABSENT" => r.outstanding = 0 /\ \A i \in Sockets : r.socket[i] = "none"
  /\ r.state = "STOPPED" => r.reports[1].inflight = 0 /\ r.reports[1].open = 0

(* A run goes on, or it was going and comes closer to its end.             *)
Proceeds(old, new) ==
  /\ new.config = old.config
  /\ Kept(new)
  /\ \/ new.state = old.state
     \/ old.state \in {"RUNNING", "STOPPING"} /\ new.state \in {"STOPPING", "STOPPED"}

LEMMA FinalizeStopProceeds ==
  ASSUME NEW r, Stopping(r)
  PROVE  Proceeds(r, FinalizeStop(r))
  <1> DEFINE f == FinalizeStop(r)
             e == FinalStats([r EXCEPT !.inflight = 0])
  <1>1. r \in RunRecord /\ r.state = "STOPPING" /\ r.reports = <<>> /\ r.open = 0
    BY DEF Stopping, AccountsForSockets
  <1>2. e.inflight = 0 /\ e.open = 0
    BY <1>1 DEF FinalStats, RunRecord
  <1>3. f = [r EXCEPT !.stopDrainTimer = FALSE, !.inflight = 0, !.state = "STOPPED",
                      !.reports = Append(r.reports, e), !.listed = FALSE]
    BY <1>1 DEF FinalizeStop
  <1> HIDE DEF e, f
  <1>4. f.state = "STOPPED" /\ f.config = r.config /\ f.reports = Append(r.reports, e)
    BY <1>1, <1>3 DEF RunRecord
  <1>5. Append(r.reports, e) = <<e>> /\ <<e>>[1] = e
    BY <1>1
  <1>6. Proceeds(r, f)
    BY <1>1, <1>2, <1>4, <1>5 DEF Proceeds, Kept
  <1> QED
    BY <1>6 DEF f

LEMMA FinishStopProceeds ==
  ASSUME NEW r, Stopping(r)
  PROVE  Proceeds(r, FinishStopWhenDrained(r))
  <1>1. CASE r.inflight > 0
    <2> DEFINE f == [r EXCEPT !.stopDrainTimer = TRUE]
    <2>1. r \in RunRecord /\ r.state = "STOPPING"
      BY DEF Stopping
    <2>2. FinishStopWhenDrained(r) = f /\ f.state = r.state /\ f.config = r.config
      BY <1>1, <2>1 DEF RunRecord, FinishStopWhenDrained
    <2> QED
      BY <2>1, <2>2 DEF Proceeds, Kept
  <1>2. CASE ~ r.inflight > 0
    BY <1>2, FinalizeStopProceeds DEF FinishStopWhenDrained
  <1> QED
    BY <1>1, <1>2

LEMMA StopProceeds ==
  ASSUME NEW r, Good(r), r.state \in {"RUNNING", "STOPPING"}
  PROVE  Proceeds(r, Stop(r)) /\ Stop(r).state \in {"STOPPING", "STOPPED"}
  <1>1. CASE r.state = "STOPPING"
    BY <1>1 DEF Stop, Proceeds, Kept
  <1>2. CASE r.state = "RUNNING"
    <2> DEFINE sockets == [i \in Sockets |->
                             IF r.socket[i] \in {"connecting", "open"} THEN "closing"
                             ELSE r.socket[i]]
               f == [r EXCEPT !.state = "STOPPING", !.durationTimer = FALSE,
                              !.loading = FALSE, !.socket = sockets, !.asked = {},
                              !.pending = 0, !.open = 0]
    <2>1. r \in RunRecord
      BY DEF Good
    <2>2. Stop(r) = FinishStopWhenDrained(f)
      BY <1>2, <2>1 DEF Stop, StopWsLoad, StopHttpLoad, RunRecord
    <2>3. /\ sockets \in [Sockets -> Sockstate]
          /\ \A i \in Sockets : sockets[i] \notin {"connecting", "open"}
          /\ {i \in Sockets : sockets[i] = "open"} = {}
      BY <2>1 DEF RunRecord, Sockstate
    <2>4. r.listed = TRUE /\ Len(r.reports) = 0 /\ r.reports \in Seq(Report)
      BY <1>2, <2>1 DEF Good, StopsOnce, RunRecord
    <2> HIDE DEF sockets
    <2>5. f \in RunRecord
      BY <2>1, <2>3 DEF RunRecord, RunState
    <2>6. /\ f.state = "STOPPING" /\ f.config = r.config /\ f.reports = <<>>
          /\ f.listed = TRUE /\ f.loading = FALSE /\ f.durationTimer = FALSE
          /\ f.socket = sockets /\ f.asked = {} /\ f.pending = 0 /\ f.open = 0
      BY <2>1, <2>4 DEF RunRecord
    <2>7. AccountsForRequests(f)
      BY <1>2, <2>1 DEF Good, AccountsForRequests, RunRecord
    <2> HIDE DEF f
    <2>8. AccountsForSockets(f) /\ HungUp(f)
      <3>1. {i \in Sockets : f.socket[i] = "open"} = {}
        BY <2>3, <2>6
      <3> QED
        BY <2>3, <2>6, <3>1, FS_EmptySet DEF AccountsForSockets, HungUp
    <2>9. Stopping(f)
      BY <2>5, <2>6, <2>7, <2>8 DEF Stopping
    <2>10. Proceeds(f, FinishStopWhenDrained(f))
      BY <2>9, FinishStopProceeds
    <2> QED
      BY <1>2, <2>2, <2>6, <2>10 DEF Proceeds
  <1> QED
    BY <1>1, <1>2

LEMMA FetchedProceeds ==
  ASSUME NEW r, Good(r), Kept(r), r.outstanding > 0, NEW ok \in BOOLEAN
  PROVE  Proceeds(r, Fetched(r, ok))
  <1> DEFINE c == Counted(r, ok)
             d == [c EXCEPT !.inflight = AtLeastZero(@ - 1)]
  <1>1. r \in RunRecord
    BY DEF Good
  <1>2. r.state # "ABSENT"
    <2>1. r.outstanding # 0
      OBVIOUS
    <2> QED
      BY <2>1 DEF Kept
  <1>3. d.state = r.state /\ d.config = r.config /\ d.reports = r.reports
    BY <1>1 DEF Counted, RunRecord
  <1>4. Fetched(r, ok) = IF d.state = "STOPPING" THEN FinishStopWhenDrained(d) ELSE d
    BY DEF Fetched
  <1>5. CASE r.state = "STOPPING"
    <2> DEFINE n == r.outstanding - 1
    <2>1. Stopping(r)
      BY <1>5, GoodIsStopping
    <2>2. r.outstanding \in Nat /\ r.inflight = r.outstanding
      BY <1>1, <1>5 DEF Good, AccountsForRequests, RunRecord
    <2>3. n \in Nat /\ AtLeastZero(r.inflight - 1) = n /\ r.success + 1 \in Nat /\ r.error + 1 \in Nat
      BY <1>1, <2>2 DEF AtLeastZero, RunRecord
    <2>4. d = IF ok THEN [r EXCEPT !.success = r.success + 1, !.outstanding = n, !.inflight = n]
              ELSE [r EXCEPT !.error = r.error + 1, !.outstanding = n, !.inflight = n]
      BY <1>1, <2>3 DEF Counted, RunRecord
    <2> HIDE DEF d
    <2>5. d \in RunRecord
      BY <1>1, <2>3, <2>4 DEF RunRecord
    <2>6. /\ d.listed = r.listed /\ d.durationTimer = r.durationTimer
          /\ d.loading = r.loading /\ d.socket = r.socket /\ d.asked = r.asked
          /\ d.open = r.open /\ d.pending = r.pending /\ d.established = r.established
          /\ d.rejected = r.rejected /\ d.handshakes = r.handshakes /\ d.fired = r.fired
          /\ d.outstanding = n /\ d.inflight = n
          /\ \/ d.success = r.success + 1 /\ d.error = r.error
             \/ d.success = r.success /\ d.error = r.error + 1
      BY <1>1, <2>4 DEF RunRecord
    <2>7. AccountsForRequests(d)
      <3>1. /\ r.success + r.error + r.outstanding = r.fired
            /\ r.success \in Nat /\ r.error \in Nat
        BY <1>1 DEF Good, AccountsForRequests, RunRecord
      <3>2. d.success + d.error + d.outstanding = d.fired
        BY <2>2, <2>6, <3>1
      <3> QED
        BY <1>3, <1>5, <2>6, <3>2 DEF AccountsForRequests
    <2>8. AccountsForSockets(d) /\ HungUp(d)
      BY <1>3, <2>6 DEF Good, AccountsForSockets, HungUp
    <2>9. Stopping(d)
      BY <1>3, <1>5, <2>1, <2>5, <2>6, <2>7, <2>8 DEF Stopping
    <2>10. Proceeds(d, FinishStopWhenDrained(d))
      BY <2>9, FinishStopProceeds
    <2> QED
      BY <1>3, <1>4, <1>5, <2>10 DEF Proceeds
  <1>6. CASE r.state # "STOPPING"
    BY <1>2, <1>3, <1>4, <1>6 DEF Proceeds, Kept
  <1> QED
    BY <1>5, <1>6

(* Requests and sockets leave the state of a run alone.                    *)
LEMMA OthersProceed ==
  ASSUME NEW r, Good(r), Kept(r)
  PROVE  /\ MayFire(r) => Proceeds(r, Fired(r)) /\ r.state # "ABSENT"
         /\ \A i \in Sockets, sent \in SUBSET Topics :
              r.socket[i] = "connecting" =>
                Proceeds(r, Opened(r, i, sent)) /\ r.state # "ABSENT"
         /\ \A i \in Sockets :
              r.socket[i] \in {"connecting", "open", "closing"} =>
                Proceeds(r, Closed(r, i)) /\ r.state # "ABSENT"
  <1> DEFINE Same(f) == f.state = r.state /\ f.config = r.config /\ f.reports = r.reports
  <1>1. r \in RunRecord
    BY DEF Good
  <1>2. ASSUME NEW f, Same(f), r.state # "ABSENT"
        PROVE  Proceeds(r, f)
    BY <1>2 DEF Proceeds, Kept
  <1>3. ASSUME NEW q \in RunRecord, NEW which, NEW ok \in BOOLEAN
        PROVE  LET f == FinishWsSubscriptions(q, which, ok)
               IN  f.state = q.state /\ f.config = q.config /\ f.reports = q.reports
    BY DEF FinishWsSubscriptions, RunRecord
  <1>4. ASSUME NEW i \in Sockets, r.socket[i] # "none"
        PROVE  r.state # "ABSENT"
    BY <1>4 DEF Kept
  <1>5. ASSUME MayFire(r)
        PROVE  Proceeds(r, Fired(r)) /\ r.state # "ABSENT"
    <2>1. r.state = "RUNNING"
      BY <1>5 DEF MayFire
    <2>2. Same(Fired(r))
      BY <1>1 DEF Fired, RunRecord
    <2> QED
      BY <1>2, <2>1, <2>2
  <1>6. ASSUME NEW i \in Sockets, NEW sent \in SUBSET Topics, r.socket[i] = "connecting"
        PROVE  Proceeds(r, Opened(r, i, sent)) /\ r.state # "ABSENT"
    <2> DEFINE new == {i} \X Topics
               o == [r EXCEPT !.socket[i] = "open", !.open = @ + 1,
                              !.asked = @ \cup new, !.pending = @ + Cardinality(new),
                              !.handshakes = @ + Cardinality(new)]
               rest == {i} \X (Topics \ sent)
    <2>1. Opened(r, i, sent) = FinishWsSubscriptions(o, rest, FALSE)
      BY DEF Opened
    <2> HIDE DEF new, rest
    <2>2. Same(o)
      BY <1>1 DEF RunRecord
    <2> HIDE DEF o
    <2>3. Same(FinishWsSubscriptions(o, rest, FALSE))
      BY <1>1, <2>2 DEF FinishWsSubscriptions, o, RunRecord
    <2> QED
      BY <1>2, <1>4, <1>6, <2>1, <2>3
  <1>7. ASSUME NEW i \in Sockets, r.socket[i] \in {"connecting", "open", "closing"}
        PROVE  Proceeds(r, Closed(r, i)) /\ r.state # "ABSENT"
    <2> DEFINE rest == {i} \X Topics
               s == FinishWsSubscriptions(r, rest, FALSE)
    <2>1. Closed(r, i) = [s EXCEPT !.socket[i] = "closed", !.open = AtLeastZero(@ - 1)]
      BY DEF Closed
    <2>2. Same(s) /\ s \in RunRecord
      BY <1>1, <1>3, FinishGood DEF Good
    <2> HIDE DEF s
    <2>3. Same(Closed(r, i))
      BY <2>1, <2>2 DEF RunRecord
    <2> QED
      BY <1>2, <1>4, <1>7, <2>3
  <1> QED
    BY <1>5, <1>6, <1>7

LEMMA SubscriptionsProceed ==
  ASSUME NEW r, Good(r), Kept(r), r.state # "ABSENT", NEW which, NEW ok \in BOOLEAN
  PROVE  Proceeds(r, FinishWsSubscriptions(r, which, ok))
  <1> DEFINE f == FinishWsSubscriptions(r, which, ok)
  <1>1. f.state = r.state /\ f.config = r.config /\ f.reports = r.reports
    BY DEF FinishWsSubscriptions, RunRecord, Good
  <1> QED
    BY <1>1 DEF Proceeds, Kept

-----------------------------------------------------------------------------
(* The steps of the page as the panel sees them.                           *)
RunsInv == Inv /\ \A r \in Runs : Kept(run[r])
RunsProceed == \A r \in Runs : Proceeds(run[r], run'[r])

LEMMA Listed ==
  ASSUME Inv, NEW r \in Runs
  PROVE  Active(run, r) <=> run[r].state \in {"RUNNING", "STOPPING"}
  BY DEF Inv, Good, StopsOnce, Active, IsActive

LEMMA OneRunProceeds ==
  ASSUME RunsInv, Inv', NEW r \in Runs, NEW new, Becomes(r, new), Proceeds(run[r], new)
  PROVE  RunsInv' /\ RunsProceed
  <1>1. \A s \in Runs : run'[s] = IF s = r THEN new ELSE run[s]
    BY DEF Becomes, RunsInv, Inv
  <1>2. \A s \in Runs : Proceeds(run[s], run'[s])
    BY <1>1 DEF RunsInv, Proceeds
  <1> QED
    BY <1>2 DEF RunsInv, RunsProceed, Proceeds

LEMMA PageProceeds ==
  ASSUME RunsInv, NEW r \in Runs, Page(r)
  PROVE  RunsInv' /\ RunsProceed /\ run[r].state # "ABSENT"
  <1> DEFINE old == run[r]
  <1>1. Good(old) /\ Kept(old) /\ Inv /\ Inv'
    BY PageKeep DEF RunsInv, Inv, Keeps
  <1>2. SUFFICES \E new : Becomes(r, new) /\ Proceeds(old, new) /\ old.state # "ABSENT"
    BY <1>1, OneRunProceeds
  <1>3. CASE Fire(r)
    BY <1>1, <1>3, OthersProceed DEF Fire
  <1>4. ASSUME NEW ok \in BOOLEAN, FetchEnds(r, ok)
        PROVE  Becomes(r, Fetched(old, ok)) /\ Proceeds(old, Fetched(old, ok)) /\ old.state # "ABSENT"
    <2>1. old.outstanding > 0 /\ Becomes(r, Fetched(old, ok))
      BY <1>4 DEF FetchEnds
    <2>2. old.state # "ABSENT"
      BY <1>1, <2>1 DEF Kept
    <2> QED
      BY <1>1, <2>1, <2>2, FetchedProceeds
  <1>5. CASE DurationEnds(r)
    <2>1. old.state = "RUNNING" /\ Becomes(r, Stop(old))
      BY <1>1, <1>5 DEF DurationEnds, Good, StopsOnce
    <2> QED
      BY <1>1, <2>1, StopProceeds
  <1>6. CASE DrainEnds(r)
    <2>1. old.state = "STOPPING" /\ Becomes(r, FinalizeStop(old))
      BY <1>1, <1>6 DEF DrainEnds, Good, StopsOnce
    <2> QED
      BY <1>1, <2>1, GoodIsStopping, FinalizeStopProceeds
  <1>7. ASSUME NEW i \in Sockets, NEW sent \in SUBSET Topics, SocketOpens(r, i, sent)
        PROVE  /\ Becomes(r, Opened(old, i, sent)) /\ Proceeds(old, Opened(old, i, sent))
               /\ old.state # "ABSENT"
    BY <1>1, <1>7, OthersProceed DEF SocketOpens
  <1>8. ASSUME NEW i \in Sockets, SocketCloses(r, i)
        PROVE  /\ Becomes(r, Closed(old, i)) /\ Proceeds(old, Closed(old, i))
               /\ old.state # "ABSENT"
    BY <1>1, <1>8, OthersProceed DEF SocketCloses
  <1>9. ASSUME NEW i \in Sockets, NEW t \in Topics, NEW ok \in BOOLEAN,
               SocketAnswers(r, i, t, ok)
        PROVE  /\ Becomes(r, FinishWsSubscriptions(old, {<<i, t>>}, ok))
               /\ Proceeds(old, FinishWsSubscriptions(old, {<<i, t>>}, ok))
               /\ old.state # "ABSENT"
    <2> DEFINE which == {<<i, t>>}
    <2>1. old.socket[i] = "open" /\ Becomes(r, FinishWsSubscriptions(old, which, ok))
      BY <1>9 DEF SocketAnswers
    <2> HIDE DEF which
    <2>2. old.state # "ABSENT"
      BY <1>1, <2>1 DEF Kept
    <2>3. Proceeds(old, FinishWsSubscriptions(old, which, ok))
      BY <1>1, <2>2, SubscriptionsProceed
    <2> QED
      BY <2>1, <2>2, <2>3 DEF which
  <1> QED
    BY <1>3, <1>4, <1>5, <1>6, <1>7, <1>8, <1>9 DEF Page

LEMMA SameProceeds ==
  ASSUME RunsInv, UNCHANGED run
  PROVE  RunsInv' /\ RunsProceed
  BY DEF RunsInv, Inv, RunsProceed, Proceeds

(* No run is left running.                                                 *)
LEMMA StopAllProceeds ==
  ASSUME RunsInv, run' = AllStopped(run)
  PROVE  RunsInv' /\ RunsProceed /\ \A r \in Runs : run'[r].state # "RUNNING"
  <1>1. run' = [s \in Runs |-> IF s <= MaxRuns /\ Active(run, s) THEN Stop(run[s]) ELSE run[s]]
    BY DEF AllStopped, StoppedUpTo
  <1>2. Inv'
    BY StopAllGood DEF RunsInv, StopAllRuns
  <1>3. ASSUME NEW s \in Runs
        PROVE  Proceeds(run[s], run'[s]) /\ run'[s].state # "RUNNING"
    <2>1. s <= MaxRuns
      BY SimulatorAssumption DEF Runs
    <2>2. CASE Active(run, s)
      <3>1. run'[s] = Stop(run[s]) /\ Good(run[s]) /\ run[s].state \in {"RUNNING", "STOPPING"}
        BY <1>1, <2>1, <2>2, Listed DEF RunsInv, Inv
      <3> QED
        BY <3>1, StopProceeds
    <2>3. CASE ~ Active(run, s)
      <3>1. run'[s] = run[s] /\ run[s].state # "RUNNING" /\ Kept(run[s])
        BY <1>1, <2>3, Listed DEF RunsInv
      <3> QED
        BY <3>1 DEF Proceeds
    <2> QED
      BY <2>2, <2>3
  <1> QED
    BY <1>2, <1>3 DEF RunsInv, RunsProceed, Proceeds

(* The run that starts, and those that were there.                         *)
Starts(r, config) ==
  /\ run[r].state = "ABSENT" /\ run'[r].config = config
  /\ run'[r].state \in {"RUNNING", "STOPPING", "STOPPED"}
  /\ \A s \in Runs : s # r => run'[s] = run[s]

LEMMA StartProceeds ==
  ASSUME RunsInv, NEW r \in Runs, NEW config \in Configs, StartRun(r, config)
  PROVE  RunsInv' /\ Starts(r, config) /\ run'[r].state = "RUNNING"
  <1> DEFINE new == Start(config)
  <1>1. Inv'
    <2>1. Commands
      BY DEF Commands
    <2> QED
      BY <2>1, CommandsKeep DEF Keeps, RunsInv
  <1>2. new.state = "RUNNING" /\ new.config = config
    <2> DEFINE l == Loaded(config, config.connections)
    <2>1. l \in RunRecord /\ l.state = "RUNNING"
      BY LoadedGood DEF Good
    <2>2. l.config = config
      BY DEF Loaded, StartWsLoad, StartHttpLoad, Constructed
    <2> HIDE DEF l
    <2>3. new = [l EXCEPT !.durationTimer = config.timed]
      BY DEF Start, l
    <2> QED
      BY <2>1, <2>2, <2>3 DEF RunRecord
  <1> HIDE DEF new
  <1>3. run[r].state = "ABSENT" /\ \A s \in Runs : run'[s] = IF s = r THEN new ELSE run[s]
    BY DEF StartRun, Unused, Becomes, RunsInv, Inv, new
  <1>4. Kept(new)
    BY <1>2 DEF Kept
  <1> QED
    BY <1>1, <1>2, <1>3, <1>4 DEF Starts, RunsInv

LEMMA StartFailsProceeds ==
  ASSUME RunsInv, NEW r \in Runs, NEW config \in Configs, NEW made \in 0..MaxSockets,
         StartFails(r, config, made)
  PROVE  RunsInv' /\ Starts(r, config) /\ run'[r].state \in {"STOPPING", "STOPPED"}
  <1> DEFINE l == Loaded(config, made)
             new == Stop(l)
  <1>1. Inv'
    <2>1. Commands
      BY DEF Commands
    <2> QED
      BY <2>1, CommandsKeep DEF Keeps, RunsInv
  <1>2. Good(l) /\ l.state = "RUNNING"
    BY LoadedGood
  <1>3. l.config = config
    BY DEF Loaded, StartWsLoad, StartHttpLoad, Constructed
  <1> HIDE DEF l
  <1>4. new.state \in {"STOPPING", "STOPPED"} /\ new.config = config /\ Kept(new)
    BY <1>2, <1>3, StopProceeds DEF Proceeds
  <1> HIDE DEF new
  <1>5. run[r].state = "ABSENT" /\ \A s \in Runs : run'[s] = IF s = r THEN new ELSE run[s]
    BY DEF StartFails, Unused, Becomes, RunsInv, Inv, new, l
  <1> QED
    BY <1>1, <1>4, <1>5 DEF Starts, RunsInv

-----------------------------------------------------------------------------
(* The pages at which the stops of a step are told: a run is at its end,   *)
(* and at the last of a profile the profile is as the step leaves it.      *)
StopsOf(p) == {r \in Runs : StoppedBy(r) /\ run'[r].config.profile = p}

FitsRun(pages) ==
  \A r \in Runs : StoppedBy(r) => pages[r][r] = run'[r]
FitsLast(pages, p) ==
  \A m \in StopsOf(p) :
    (\A j \in StopsOf(p) : j <= m) /\ ActiveRuns(run', p) = {} => ~ IsRunning(pages[m], p)
Fits(pages) == FitsRun(pages) /\ \A p : FitsLast(pages, p)

LEMMA AtEndFits == Fits(PagesAtEnd)
  <1>1. \A r \in Runs : PagesAtEnd[r] = run'
    BY DEF PagesAtEnd
  <1> QED
    BY <1>1 DEF Fits, FitsRun, FitsLast, IsRunning, StopsOf

LEMMA InBetweenFits ==
  ASSUME RunsInv, run' = AllStopped(run) \/ run' = run
  PROVE  Fits(PagesInBetween)
  <1>1. \A m \in Runs : PagesInBetween[m] = StoppedUpTo(run, m)
    BY DEF PagesInBetween
  <1>2. CASE run' = run
    <2>1. \A r \in Runs : ~ StoppedBy(r)
      BY <1>2 DEF StoppedBy
    <2> QED
      BY <2>1 DEF Fits, FitsRun, FitsLast, StopsOf
  <1>3. CASE run' = AllStopped(run)
    <2>1. RunsInv' /\ RunsProceed
      BY <1>3, StopAllProceeds
    <2>2. \A s \in Runs : s \in Int /\ s <= MaxRuns
      BY SimulatorAssumption DEF Runs
    <2>3. \A m \in Runs, s \in Runs :
            StoppedUpTo(run, m)[s] = IF s <= m /\ Active(run, s) THEN Stop(run[s]) ELSE run[s]
      BY DEF StoppedUpTo
    <2>4. \A s \in Runs : run'[s] = IF Active(run, s) THEN Stop(run[s]) ELSE run[s]
      BY <1>3, <2>2 DEF AllStopped, StoppedUpTo
    <2>5. \A m \in Runs, s \in Runs : s <= m => StoppedUpTo(run, m)[s] = run'[s]
      BY <2>3, <2>4
    <2>6. ASSUME NEW r \in Runs
          PROVE  PagesInBetween[r][r] = run'[r]
      BY <1>1, <2>2, <2>5
    <2>7. ASSUME NEW p, NEW m \in StopsOf(p), \A j \in StopsOf(p) : j <= m,
                 ActiveRuns(run', p) = {}
          PROVE  ~ IsRunning(PagesInBetween[m], p)
      <3> DEFINE page == StoppedUpTo(run, m)
      <3>1. m \in Runs
        BY DEF StopsOf
      <3>2. ASSUME NEW s \in Runs, Active(page, s), page[s].config.profile = p
            PROVE  FALSE
        <4>1. CASE s <= m
          <5>1. page[s] = run'[s]
            BY <2>5, <3>1, <4>1
          <5>2. Active(run', s) /\ run'[s].config.profile = p
            BY <3>2, <5>1 DEF Active
          <5> QED
            BY <2>7, <5>2 DEF ActiveRuns
        <4>2. CASE ~ s <= m
          <5>1. page[s] = run[s]
            BY <2>3, <3>1, <4>2
          <5>2. Active(run, s) /\ run[s].config.profile = p
            BY <3>2, <5>1 DEF Active
          <5>3. run[s].state \in {"RUNNING", "STOPPING"}
            BY <5>2, Listed DEF RunsInv
          <5>4. run'[s].config.profile = p /\ ~ Active(run', s)
            BY <2>1, <2>7, <5>2 DEF RunsProceed, Proceeds, ActiveRuns
          <5>5. run'[s].state \notin {"RUNNING", "STOPPING"}
            BY <2>1, <5>4 DEF RunsInv, Inv, Good, StopsOnce, Active, IsActive
          <5>6. run'[s].state = "STOPPED"
            BY <2>1, <5>3, <5>5 DEF RunsProceed, Proceeds
          <5>7. s \in StopsOf(p)
            BY <5>3, <5>4, <5>6 DEF StopsOf, StoppedBy
          <5> QED
            BY <2>7, <4>2, <5>7
        <4> QED
          BY <4>1, <4>2
      <3>3. ActiveRuns(page, p) = {}
        BY <3>2 DEF ActiveRuns
      <3> QED
        BY <1>1, <3>1, <3>3 DEF IsRunning
    <2>8. FitsRun(PagesInBetween)
      BY <2>6 DEF FitsRun
    <2>9. \A p : FitsLast(PagesInBetween, p)
      BY <2>7 DEF FitsLast
    <2> QED
      BY <2>8, <2>9 DEF Fits
  <1> QED
    BY <1>2, <1>3

-----------------------------------------------------------------------------
(* What the hook is told.  Told is a recursive function; what it is at an  *)
(* index follows from the least index where it would be otherwise.         *)
Hooks ==
  [profile : Profiles, chains : Chains, recent : SUBSET Runs, debounce : BOOLEAN]

LEMMA Tracks ==
  ASSUME NEW t, t.hook \in Hooks, IsSequence(t.pushes),
         NEW a, a.run \in Runs, a.running \in BOOLEAN, a.stopped \in BOOLEAN
  PROVE  LET h == TrackActivity(t, a)
         IN  /\ h.hook \in Hooks /\ IsSequence(h.pushes)
             /\ h.hook.profile = t.hook.profile
             /\ a.profile # t.hook.profile => h = t
             /\ a.profile = t.hook.profile =>
                  /\ h.hook.recent = t.hook.recent \cup {a.run}
                  /\ ~ (link' = "up" /\ a.stopped) => h.pushes = t.pushes
                  /\ link' = "up" /\ a.stopped =>
                       h.pushes = t.pushes
                         \o <<Push({a.running}, {a.stats}, {t.hook.recent \cup {a.run}})>>
  <1> DEFINE h == TrackActivity(t, a)
             recent == t.hook.recent \cup {a.run}
             push == Push({a.running}, {a.stats}, {recent})
             debounce == t.hook.debounce \/ ((link' = "up") /\ ~ a.stopped /\ a.running)
  <1>1. CASE a.profile # t.hook.profile
    <2>1. h = t
      BY <1>1 DEF TrackActivity
    <2> QED
      BY <1>1, <2>1
  <1>2. CASE a.profile = t.hook.profile
    <2> DEFINE pushes == IF link' = "up" /\ a.stopped THEN Append(t.pushes, push)
                         ELSE t.pushes
    <2>1. /\ h.hook = [t.hook EXCEPT !.recent = recent, !.debounce = debounce]
          /\ h.pushes = pushes
      BY <1>2 DEF TrackActivity, Hooks
    <2>2. recent \in SUBSET Runs /\ debounce \in BOOLEAN
      BY DEF Hooks
    <2> HIDE DEF recent, debounce, push, h
    <2>3. h.hook \in Hooks /\ h.hook.profile = t.hook.profile /\ h.hook.recent = recent
      BY <2>1, <2>2 DEF Hooks
    <2>4. Append(t.pushes, push) = t.pushes \o <<push>> /\ IsSequence(t.pushes \o <<push>>)
      BY Added, Joined, OneByOne
    <2>5. /\ IsSequence(h.pushes)
          /\ ~ (link' = "up" /\ a.stopped) => h.pushes = t.pushes
          /\ link' = "up" /\ a.stopped => h.pushes = t.pushes \o <<push>>
      BY <2>1, <2>4
    <2> QED
      BY <1>2, <2>3, <2>5 DEF h, push, recent
  <1> QED
    BY <1>1, <1>2

(* f tells of the runs up to the n-th.                                     *)
Telling(t, pages, n, f) ==
  f = [i \in 0..n |->
         IF i = 0 THEN t
         ELSE IF StoppedBy(i) THEN TrackActivity(f[i - 1], LoggedStop(i, pages[i]))
         ELSE f[i - 1]]

LEMMA LeastNumber ==
  ASSUME NEW T \in SUBSET Nat, T # {}
  PROVE  \E x \in T : \A y \in T : x <= y
  <1>1. IsWellFoundedOn(OpToRel(<, Nat), Nat)
    BY NatLessThanWellFounded
  <1>2. PICK x \in T : \A y \in T : ~ (<<y, x>> \in OpToRel(<, Nat))
    BY <1>1, WFMin
  <1>3. \A y \in T : ~ (y < x)
    BY <1>2 DEF OpToRel
  <1> QED
    BY <1>3

LEMMA TellingExists ==
  ASSUME NEW t, NEW pages, NEW n \in Nat
  PROVE  \E f : Telling(t, pages, n, f)
  <1> DEFINE T == {k \in Nat : ~ \E f : Telling(t, pages, k, f)}
  <1> SUFFICES ASSUME T # {} PROVE FALSE
    OBVIOUS
  <1>1. PICK k \in T : \A y \in T : k <= y
    BY LeastNumber
  <1> DEFINE step(h, i) ==
        IF i = 0 THEN t
        ELSE IF StoppedBy(i) THEN TrackActivity(h[i - 1], LoggedStop(i, pages[i]))
        ELSE h[i - 1]
  <1>2. k # 0
    <2> DEFINE f == [i \in 0..0 |-> t]
    <2>1. Telling(t, pages, 0, f)
      BY DEF Telling
    <2> QED
      BY <1>1, <2>1
  <1>3. k - 1 \in Nat /\ k - 1 \notin T /\ k \in Nat
    BY <1>1, <1>2
  <1>4. PICK f : Telling(t, pages, k - 1, f)
    BY <1>3
  <1> DEFINE next == IF StoppedBy(k) THEN TrackActivity(f[k - 1], LoggedStop(k, pages[k]))
                     ELSE f[k - 1]
             g == [i \in 0..k |-> IF i = k THEN next ELSE f[i]]
  <1>5. \A i \in 0..(k - 1) : f[i] = step(f, i)
    BY <1>3, <1>4 DEF Telling
  <1> HIDE DEF next
  <1>6. /\ \A i \in 0..(k - 1) : g[i] = f[i]
        /\ g[k] = next
    BY <1>3
  <1> HIDE DEF g
  <1>7. ASSUME NEW i \in 0..k PROVE g[i] = step(g, i)
    <2>1. CASE i = k
      <3>1. g[k - 1] = f[k - 1] /\ k # 0
        BY <1>2, <1>3, <1>6
      <3> QED
        BY <1>6, <2>1, <3>1 DEF next
    <2>2. CASE i \in 0..(k - 1)
      <3>1. i # 0 => i - 1 \in 0..(k - 1)
        BY <1>3, <2>2
      <3> QED
        BY <1>5, <1>6, <2>2, <3>1
    <2> QED
      BY <1>3, <2>1, <2>2
  <1>8. Telling(t, pages, k, g)
    <2>1. [i \in 0..k |-> step(g, i)] = g
      BY <1>7 DEF g
    <2> QED
      BY <2>1 DEF Telling
  <1> QED
    BY <1>1, <1>8

(* What is told of the runs up to the k-th: the last push, if there is any *)
(* run to tell of, speaks of everything the panel shows.                   *)
StopsTo(t, k) == {r \in StopsOf(t.hook.profile) : r <= k}
LastPush(t, pages, S, h) ==
  \E m \in S :
    /\ \A j \in S : j <= m
    /\ Len(h.pushes) # 0
    /\ h.pushes[Len(h.pushes)]
         = Push({IsRunning(pages[m], t.hook.profile)}, {Zero}, {h.hook.recent})
ToldTo(t, pages, S, h) ==
  /\ h.hook \in Hooks /\ h.hook.profile = t.hook.profile
  /\ h.hook.recent = t.hook.recent \cup S
  /\ IsSequence(h.pushes)
  /\ S = {} \/ link' # "up" => h.pushes = <<>>
  /\ S # {} /\ link' = "up" => LastPush(t, pages, S, h)

LEMMA LogsAStop ==
  ASSUME RunsInv', NEW pages, FitsRun(pages), NEW k \in Runs, StoppedBy(k)
  PROVE  LET a == LoggedStop(k, pages[k])
         IN  /\ a.run = k /\ a.stopped = TRUE /\ a.stats = Zero
             /\ a.profile = run'[k].config.profile
             /\ a.running = IsRunning(pages[k], run'[k].config.profile)
             /\ a.running \in BOOLEAN
  <1> DEFINE page == pages[k]
  <1>1. page[k] = run'[k] /\ run'[k].state = "STOPPED"
    BY DEF FitsRun, StoppedBy
  <1>2. run'[k].reports[1].inflight = 0 /\ run'[k].reports[1].open = 0
    BY <1>1 DEF RunsInv, Kept
  <1> HIDE DEF page
  <1>3. IsRunning(page, run'[k].config.profile) \in BOOLEAN
    BY DEF IsRunning
  <1> QED
    BY <1>1, <1>2, <1>3 DEF LoggedStop, Logged, Zero, page

LEMMA TellingSteps ==
  ASSUME RunsInv', NEW pages, FitsRun(pages), NEW t, t.hook \in Hooks, t.pushes = <<>>,
         NEW f, Telling(t, pages, MaxRuns, f), NEW i \in 0..MaxRuns
  PROVE  ToldTo(t, pages, StopsTo(t, i), f[i])
  <1> DEFINE T == {k \in Nat : k <= MaxRuns /\ ~ ToldTo(t, pages, StopsTo(t, k), f[k])}
             p == t.hook.profile
  <1>0. MaxRuns \in Nat /\ \A r \in Runs : r \in 1..MaxRuns
    BY SimulatorAssumption DEF Runs
  <1> SUFFICES ASSUME T # {} PROVE FALSE
    BY <1>0
  <1>1. PICK k \in T : \A y \in T : k <= y
    BY LeastNumber
  <1>2. \A j \in 0..MaxRuns :
          f[j] = IF j = 0 THEN t
                 ELSE IF StoppedBy(j) THEN TrackActivity(f[j - 1], LoggedStop(j, pages[j]))
                 ELSE f[j - 1]
    BY <1>0 DEF Telling
  <1>3. k # 0
    <2>1. StopsTo(t, 0) = {}
      BY <1>0 DEF StopsTo, StopsOf
    <2>2. f[0] = t
      BY <1>0, <1>2
    <2>3. ToldTo(t, pages, StopsTo(t, 0), f[0])
      BY <2>1, <2>2, OneByOne DEF ToldTo
    <2> QED
      BY <1>1, <2>3
  <1>4. k - 1 \in Nat /\ k - 1 <= MaxRuns /\ k \in 0..MaxRuns /\ k \in Runs
    BY <1>0, <1>1, <1>3 DEF Runs
  <1> DEFINE S == StopsTo(t, k - 1)
             h == f[k - 1]
  <1>5. ToldTo(t, pages, S, h)
    BY <1>1, <1>4
  <1>6. ~ ToldTo(t, pages, StopsTo(t, k), f[k])
    BY <1>1
  <1>7. CASE k \notin StopsOf(p)
    <2>1. StopsTo(t, k) = S
      <3>1. \A r \in StopsOf(p) : r <= k <=> r <= k - 1
        BY <1>0, <1>4, <1>7 DEF StopsOf
      <3> QED
        BY <3>1 DEF StopsTo
    <2>2. f[k] = h
      <3>1. CASE ~ StoppedBy(k)
        BY <1>2, <1>3, <1>4, <3>1
      <3>2. CASE StoppedBy(k)
        <4> DEFINE a == LoggedStop(k, pages[k])
        <4>1. a.profile # p /\ f[k] = TrackActivity(h, a)
          BY <1>2, <1>3, <1>4, <1>7, <3>2, LogsAStop DEF StopsOf
        <4> HIDE DEF a
        <4>2. h.hook.profile = p
          BY <1>5 DEF ToldTo
        <4> QED
          BY <4>1, <4>2 DEF TrackActivity
      <3> QED
        BY <3>1, <3>2
    <2> QED
      BY <1>5, <1>6, <2>1, <2>2
  <1>8. CASE k \in StopsOf(p)
    <2> DEFINE a == LoggedStop(k, pages[k])
               g == f[k]
               R == S \cup {k}
    <2>1. StoppedBy(k) /\ run'[k].config.profile = p
      BY <1>8 DEF StopsOf
    <2>2. /\ a.run = k /\ a.stopped = TRUE /\ a.stats = Zero /\ a.profile = p
          /\ a.running = IsRunning(pages[k], p) /\ a.running \in BOOLEAN
      <3> DEFINE q == run'[k].config.profile
      <3>1. /\ a.run = k /\ a.stopped = TRUE /\ a.stats = Zero /\ a.profile = q
            /\ a.running = IsRunning(pages[k], q) /\ a.running \in BOOLEAN
        BY <1>4, <2>1, LogsAStop
      <3> HIDE DEF a, q
      <3>2. q = p
        BY <2>1 DEF q
      <3> QED
        BY <3>1, <3>2
    <2>3. g = TrackActivity(h, a)
      BY <1>2, <1>3, <1>4, <2>1
    <2>4. StopsTo(t, k) = R /\ \A j \in R : j <= k
      <3>1. \A r \in Runs : r \in Int /\ (r <= k <=> (r <= k - 1 \/ r = k))
        BY <1>0, <1>4
      <3>2. StopsOf(p) \subseteq Runs
        BY DEF StopsOf
      <3> QED
        BY <1>4, <1>8, <3>1, <3>2 DEF StopsTo
    <2> HIDE DEF a, g, S, h
    <2>5. h.hook \in Hooks /\ IsSequence(h.pushes) /\ h.hook.profile = p
      BY <1>5 DEF ToldTo
    <2>6. /\ g.hook \in Hooks /\ IsSequence(g.pushes) /\ g.hook.profile = p
          /\ g.hook.recent = h.hook.recent \cup {k}
          /\ link' # "up" => g.pushes = h.pushes
          /\ link' = "up" =>
               g.pushes = h.pushes \o <<Push({IsRunning(pages[k], p)}, {Zero}, {g.hook.recent})>>
      <3> DEFINE x == TrackActivity(h, a)
      <3>1. /\ x.hook \in Hooks /\ IsSequence(x.pushes) /\ x.hook.profile = h.hook.profile
            /\ x.hook.recent = h.hook.recent \cup {a.run}
            /\ ~ (link' = "up" /\ a.stopped) => x.pushes = h.pushes
            /\ link' = "up" /\ a.stopped =>
                 x.pushes = h.pushes
                   \o <<Push({a.running}, {a.stats}, {h.hook.recent \cup {a.run}})>>
        <4>1. a.run \in Runs /\ a.running \in BOOLEAN /\ a.stopped \in BOOLEAN
          BY <1>4, <2>2
        <4>2. a.profile = h.hook.profile
          BY <2>2, <2>5
        <4> QED
          BY <2>5, <4>1, <4>2, Tracks
      <3> HIDE DEF x
      <3>2. g = x
        BY <2>3 DEF x
      <3> QED
        BY <2>2, <2>5, <3>1, <3>2
    <2>7. g.hook.recent = t.hook.recent \cup R
      BY <1>5, <2>6 DEF ToldTo
    <2>8. link' # "up" => g.pushes = <<>>
      BY <1>5, <2>6 DEF ToldTo
    <2>9. link' = "up" => LastPush(t, pages, R, g)
      <3> DEFINE push == Push({IsRunning(pages[k], p)}, {Zero}, {g.hook.recent})
      <3>1. link' = "up" => g.pushes = h.pushes \o <<push>>
        BY <2>6
      <3>2. Len(h.pushes \o <<push>>) # 0 /\ (h.pushes \o <<push>>)[Len(h.pushes \o <<push>>)] = push
        BY <2>5, AddedLast
      <3> QED
        BY <2>4, <3>1, <3>2 DEF LastPush
    <2>10. ToldTo(t, pages, R, g)
      BY <2>6, <2>7, <2>8, <2>9 DEF ToldTo
    <2> QED
      BY <1>6, <2>4, <2>10 DEF g
  <1> QED
    BY <1>7, <1>8

LEMMA WhatIsTold ==
  ASSUME RunsInv', NEW pages, FitsRun(pages), NEW t, t.hook \in Hooks, t.pushes = <<>>
  PROVE  ToldTo(t, pages, StopsOf(t.hook.profile), Told(t, pages))
  <1> DEFINE f == CHOOSE f : Telling(t, pages, MaxRuns, f)
  <1>1. MaxRuns \in Nat /\ MaxRuns \in 0..MaxRuns
    BY SimulatorAssumption
  <1>2. Telling(t, pages, MaxRuns, f)
    BY <1>1, TellingExists
  <1>3. Told(t, pages) = f[MaxRuns]
    BY DEF Told, Telling
  <1>4. StopsTo(t, MaxRuns) = StopsOf(t.hook.profile)
    BY SimulatorAssumption DEF StopsTo, StopsOf, Runs
  <1> HIDE DEF f
  <1> QED
    BY <1>1, <1>2, <1>3, <1>4, TellingSteps

(* In terms of the pushes: with the page up they end in what is, and they  *)
(* end in a panel at rest when that run was the last of its profile.       *)
LEMMA TellsAll ==
  ASSUME RunsInv', NEW pages, Fits(pages), NEW t, t.hook \in Hooks, t.pushes = <<>>
  PROVE  LET h == Told(t, pages)
             p == t.hook.profile
         IN  /\ h.hook \in Hooks /\ h.hook.profile = p
             /\ h.hook.recent = t.hook.recent \cup StopsOf(p)
             /\ IsSequence(h.pushes)
             /\ StopsOf(p) = {} \/ link' # "up" => h.pushes = <<>>
             /\ StopsOf(p) # {} /\ link' = "up" =>
                  /\ Speaks(h.pushes, "recent", SUBSET h.hook.recent)
                  /\ Speaks(h.pushes, "stats", {Zero})
                  /\ ActiveRuns(run', p) = {} => Speaks(h.pushes, "running", {FALSE})
  <1> DEFINE h == Told(t, pages)
             p == t.hook.profile
             S == StopsOf(p)
             u == h.pushes
  <1>1. ToldTo(t, pages, S, h)
    BY WhatIsTold DEF Fits
  <1> HIDE DEF h
  <1>2. ASSUME S # {}, link' = "up"
        PROVE  /\ Speaks(u, "recent", SUBSET h.hook.recent)
               /\ Speaks(u, "stats", {Zero})
               /\ ActiveRuns(run', p) = {} => Speaks(u, "running", {FALSE})
    <2>1. LastPush(t, pages, S, h) /\ IsSequence(u)
      BY <1>1, <1>2 DEF ToldTo
    <2>2. PICK m \in S :
            /\ \A j \in S : j <= m
            /\ Len(u) # 0
            /\ u[Len(u)] = Push({IsRunning(pages[m], p)}, {Zero}, {h.hook.recent})
      BY <2>1 DEF LastPush
    <2>3. Len(u) \in 1..Len(u) /\ \A j \in (Len(u) + 1)..Len(u) : FALSE
      BY <2>1, <2>2, Joined
    <2>4. /\ u[Len(u)]["running"] = {IsRunning(pages[m], p)}
          /\ u[Len(u)]["stats"] = {Zero} /\ u[Len(u)]["recent"] = {h.hook.recent}
      BY <2>2 DEF Push
    <2>5. Speaks(u, "recent", SUBSET h.hook.recent)
      BY <2>3, <2>4 DEF Speaks
    <2>6. Speaks(u, "stats", {Zero})
      BY <2>3, <2>4 DEF Speaks
    <2>7. ASSUME ActiveRuns(run', p) = {} PROVE Speaks(u, "running", {FALSE})
      <3>1. FitsLast(pages, p)
        BY DEF Fits
      <3>2. ~ IsRunning(pages[m], p)
        BY <2>2, <2>7, <3>1 DEF FitsLast
      <3>3. {IsRunning(pages[m], p)} = {FALSE}
        BY <3>2 DEF IsRunning
      <3> QED
        BY <2>3, <2>4, <3>3 DEF Speaks
    <2> QED
      BY <2>5, <2>6, <2>7
  <1> QED
    BY <1>1, <1>2 DEF ToldTo, h

-----------------------------------------------------------------------------
(* Events on their way.  The page shows p once n of the events d have been *)
(* handled, when it shows "first" now.                                     *)
Events ==
  [kind : {"start"}, config : Configs] \cup [kind : {"stop"}]
    \cup [kind : {"patch"}, profile : Profiles, chains : Chains]

ShownAfter(d, first, n, p) ==
  \/ /\ \A j \in 1..n : d[j].kind # "patch"
     /\ p = first
  \/ \E j \in 1..n :
       /\ d[j].kind = "patch" /\ d[j].profile = p
       /\ \A k \in (j + 1)..n : d[k].kind # "patch"

(* A run is asked for of the profile that the page will show then.         *)
DownFits(d, first, last) ==
  /\ \A i \in 1..Len(d) :
       d[i].kind = "start" => ShownAfter(d, first, i - 1, d[i].config.profile)
  /\ ShownAfter(d, first, Len(d), last)

Starting(d) == \E i \in 1..Len(d) : d[i].kind = "start"

LEMMA DownEmpty ==
  ASSUME NEW p
  PROVE  DownFits(<<>>, p, p)
  BY OneByOne DEF DownFits, ShownAfter

LEMMA DownAdded ==
  ASSUME NEW d, IsSequence(d), NEW e, NEW first, NEW last, DownFits(d, first, last)
  PROVE  LET w == d \o <<e>>
         IN  /\ e.kind = "start" /\ e.config.profile = last => DownFits(w, first, last)
             /\ e.kind = "stop" => DownFits(w, first, last)
             /\ e.kind = "patch" => DownFits(w, first, e.profile)
             /\ e.kind = "start" \/ Starting(d) => Starting(w)
  <1> DEFINE w == d \o <<e>>
             n == Len(d)
  <1>1. n \in Nat /\ Len(w) = n + 1 /\ (\A i \in 1..n : w[i] = d[i]) /\ w[n + 1] = e
    BY AddedLast
  <1> HIDE DEF w, n
  <1>2. ASSUME NEW i \in 0..n, NEW p, ShownAfter(d, first, i, p)
        PROVE  ShownAfter(w, first, i, p)
    <2>1. \A j \in 1..i : w[j] = d[j]
      BY <1>1
    <2>2. CASE (\A j \in 1..i : d[j].kind # "patch") /\ p = first
      BY <2>1, <2>2 DEF ShownAfter
    <2>3. ASSUME NEW j \in 1..i, d[j].kind = "patch", d[j].profile = p,
                 \A k \in (j + 1)..i : d[k].kind # "patch"
          PROVE  ShownAfter(w, first, i, p)
      <3>1. \A k \in (j + 1)..i : k \in 1..i
        BY <1>1
      <3> QED
        BY <2>1, <2>3, <3>1 DEF ShownAfter
    <2> QED
      BY <1>2, <2>2, <2>3 DEF ShownAfter
  <1>3. \A i \in 1..n : w[i].kind = "start" => ShownAfter(w, first, i - 1, w[i].config.profile)
    <2>1. \A i \in 1..n : i - 1 \in 0..n
      BY <1>1
    <2> QED
      BY <1>1, <1>2, <2>1 DEF DownFits, n
  <1>4. ShownAfter(w, first, n, last)
    <2>1. n \in 0..n
      BY <1>1
    <2> QED
      BY <1>2, <2>1 DEF DownFits, n
  <1>5. (n + 1) - 1 = n /\ \A i \in 1..(n + 1) : i \in 1..n \/ i = n + 1
    BY <1>1
  <1>6. ASSUME e.kind # "patch"
        PROVE  ShownAfter(w, first, n + 1, last)
    <2>1. CASE (\A j \in 1..n : w[j].kind # "patch") /\ last = first
      <3>1. \A j \in 1..(n + 1) : w[j].kind # "patch"
        BY <1>1, <1>5, <1>6, <2>1
      <3> QED
        BY <2>1, <3>1 DEF ShownAfter
    <2>2. ASSUME NEW j \in 1..n, w[j].kind = "patch", w[j].profile = last,
                 \A k \in (j + 1)..n : w[k].kind # "patch"
          PROVE  ShownAfter(w, first, n + 1, last)
      <3>1. j \in 1..(n + 1) /\ \A k \in (j + 1)..(n + 1) : k \in (j + 1)..n \/ k = n + 1
        BY <1>1
      <3>2. \A k \in (j + 1)..(n + 1) : w[k].kind # "patch"
        BY <1>1, <1>6, <2>2, <3>1
      <3> QED
        BY <2>2, <3>1, <3>2 DEF ShownAfter
    <2> QED
      BY <1>4, <2>1, <2>2 DEF ShownAfter
  <1>7. ASSUME e.kind = "patch"
        PROVE  ShownAfter(w, first, n + 1, e.profile)
    <2>1. n + 1 \in 1..(n + 1) /\ \A k \in ((n + 1) + 1)..(n + 1) : FALSE
      BY <1>1
    <2> QED
      BY <1>1, <1>7, <2>1 DEF ShownAfter
  <1>8. e.kind = "start" \/ Starting(d) => Starting(w)
    <2>1. n + 1 \in 1..Len(w) /\ \A i \in 1..n : i \in 1..Len(w)
      BY <1>1
    <2> QED
      BY <1>1, <2>1 DEF Starting, n
  <1>9. e.kind = "start" /\ e.config.profile = last => DownFits(w, first, last)
    BY <1>1, <1>3, <1>4, <1>5, <1>6 DEF DownFits
  <1>10. e.kind = "stop" => DownFits(w, first, last)
    BY <1>1, <1>3, <1>5, <1>6 DEF DownFits
  <1>11. e.kind = "patch" => DownFits(w, first, e.profile)
    BY <1>1, <1>3, <1>5, <1>7 DEF DownFits
  <1> QED
    BY <1>8, <1>9, <1>10, <1>11 DEF w

LEMMA DownHandled ==
  ASSUME NEW d, IsSequence(d), d # <<>>, NEW first, NEW last, DownFits(d, first, last)
  PROVE  /\ Head(d).kind = "start" => Head(d).config.profile = first
         /\ Head(d).kind # "patch" => DownFits(Tail(d), first, last)
         /\ Head(d).kind = "patch" => DownFits(Tail(d), Head(d).profile, last)
         /\ Head(d).kind # "start" /\ Starting(d) => Starting(Tail(d))
  <1> DEFINE e == Tail(d)
             n == Len(d)
             next == IF d[1].kind = "patch" THEN d[1].profile ELSE first
  <1>1. /\ n \in Nat \ {0} /\ Len(e) = n - 1 /\ Head(d) = d[1]
        /\ \A i \in 1..(n - 1) : e[i] = d[i + 1]
    BY Shortened
  <1> HIDE DEF e, n, next
  <1>2. ASSUME NEW i \in 1..n, NEW p, ShownAfter(d, first, i, p)
        PROVE  ShownAfter(e, next, i - 1, p)
    <2>1. CASE (\A j \in 1..i : d[j].kind # "patch") /\ p = first
      <3>1. next = first /\ \A j \in 1..(i - 1) : j \in 1..(n - 1) /\ j + 1 \in 1..i
        BY <1>1, <2>1 DEF next
      <3>2. \A j \in 1..(i - 1) : e[j].kind # "patch"
        BY <1>1, <2>1, <3>1
      <3> QED
        BY <2>1, <3>1, <3>2 DEF ShownAfter
    <2>2. ASSUME NEW j \in 1..i, d[j].kind = "patch", d[j].profile = p,
                 \A k \in (j + 1)..i : d[k].kind # "patch"
          PROVE  ShownAfter(e, next, i - 1, p)
      <3>1. \A k \in j..(i - 1) : k \in 1..(n - 1) /\ k + 1 \in (j + 1)..i
        BY <1>1
      <3>2. \A k \in j..(i - 1) : e[k].kind # "patch"
        BY <1>1, <2>2, <3>1
      <3>3. CASE j = 1
        BY <2>2, <3>2, <3>3 DEF next, ShownAfter
      <3>4. CASE j # 1
        <4>1. j - 1 \in 1..(i - 1) /\ j - 1 \in 1..(n - 1) /\ (j - 1) + 1 = j
          BY <1>1, <3>4
        <4>2. e[j - 1] = d[j]
          BY <1>1, <4>1
        <4>3. \A k \in ((j - 1) + 1)..(i - 1) : e[k].kind # "patch"
          BY <3>2, <4>1
        <4> QED
          BY <2>2, <4>1, <4>2, <4>3 DEF ShownAfter
      <3> QED
        BY <3>3, <3>4
    <2> QED
      BY <1>2, <2>1, <2>2 DEF ShownAfter
  <1>3. DownFits(e, next, last)
    <2>1. ASSUME NEW i \in 1..Len(e), e[i].kind = "start"
          PROVE  ShownAfter(e, next, i - 1, e[i].config.profile)
      <3>1. i \in 1..(n - 1) /\ i \in 1..n /\ i + 1 \in 1..n /\ (i + 1) - 1 = i
        BY <1>1
      <3>2. e[i] = d[i + 1]
        BY <1>1, <3>1
      <3>3. ShownAfter(d, first, i, d[i + 1].config.profile)
        BY <2>1, <3>1, <3>2 DEF DownFits, n
      <3> QED
        BY <1>2, <3>1, <3>2, <3>3
    <2>2. ShownAfter(e, next, Len(e), last)
      <3>1. Len(e) = n - 1 /\ n \in 1..n
        BY <1>1
      <3> QED
        BY <1>2, <3>1 DEF DownFits, n
    <2> QED
      BY <2>1, <2>2 DEF DownFits
  <1>4. d[1].kind = "start" => d[1].config.profile = first
    <2>1. 1 \in 1..n /\ \A j \in 1..(1 - 1) : FALSE
      BY <1>1
    <2> QED
      BY <2>1 DEF DownFits, ShownAfter, n
  <1>5. d[1].kind # "start" /\ Starting(d) => Starting(e)
    <2>1. \A i \in 1..n : i # 1 => i - 1 \in 1..(n - 1) /\ (i - 1) + 1 = i
      BY <1>1
    <2>2. \A i \in 1..n : i # 1 => i - 1 \in 1..Len(e) /\ e[i - 1] = d[i]
      BY <1>1, <2>1
    <2> QED
      BY <2>2 DEF Starting, n
  <1> QED
    BY <1>1, <1>3, <1>4, <1>5 DEF next, e

-----------------------------------------------------------------------------
(* The invariant of the panel.                                             *)
RunsIn(runs, p) == {r \in Runs : runs[r].state # "ABSENT" /\ runs[r].config.profile = p}

PanelTyped ==
  /\ hook \in Hooks
  /\ link \in Links
  /\ IsSequence(up)
  /\ down \in Seq(Events)
  /\ panel = [profile |-> panel.profile, chains |-> panel.chains,
              running |-> panel.running, stats |-> panel.stats, recent |-> panel.recent]

(* What the panel shows once all pushes have come: calls of the profile,   *)
(* and a tester at rest when none of its runs is left, unless a start is   *)
(* still on its way.                                                       *)
CallsEnd(runs, p, u, shown) == Ends(u, "recent", shown.recent, SUBSET RunsIn(runs, p))
RestEnds(runs, p, u, shown, d) ==
  ActiveRuns(runs, p) = {} =>
    /\ Ends(u, "stats", shown.stats, {Zero})
    /\ Ends(u, "running", shown.running, {FALSE}) \/ Starting(d)

PanelInv ==
  /\ RunsInv /\ PanelTyped
  /\ hook.recent \subseteq RunsIn(run, hook.profile)
  /\ LoadMatchesProfile
  /\ link # "up" => up = <<>> /\ down = <<>>
  /\ link = "up" =>
       /\ DownFits(down, hook.profile, panel.profile)
       /\ CallsEnd(run, hook.profile, up, panel)
       /\ RestEnds(run, hook.profile, up, panel, down)

LEMMA InvComesToRest ==
  ASSUME PanelInv
  PROVE  PanelComesToRest
  <1> SUFFICES ASSUME Quiet, ActiveRuns(run, hook.profile) = {}
               PROVE  ~ PanelActive
    BY DEF PanelComesToRest
  <1>1. link = "up" /\ up = <<>> /\ down = <<>>
    BY DEF Quiet
  <1>2. ~ Starting(down)
    BY <1>1, OneByOne DEF Starting
  <1>3. /\ Ends(<<>>, "stats", panel.stats, {Zero})
        /\ Ends(<<>>, "running", panel.running, {FALSE})
    BY <1>1, <1>2 DEF PanelInv, RestEnds
  <1>4. panel.stats \in {Zero} /\ panel.running \in {FALSE}
    <2>1. panel.stats \in {Zero}
      BY <1>3, EndsNow
    <2>2. panel.running \in {FALSE}
      BY <1>3, EndsNow
    <2> QED
      BY <2>1, <2>2
  <1> QED
    <2>1. ~ (panel.stats.inflight > 0) /\ ~ (panel.stats.open > 0)
      BY <1>4 DEF Zero
    <2>2. ~ panel.running
      BY <1>4
    <2> QED
      BY <2>1, <2>2, Zenon DEF PanelActive

LEMMA InvKeepsToProfile ==
  ASSUME PanelInv
  PROVE  PanelKeepsToProfile
  <1>1. LoadMatchesProfile /\ \A r \in hook.recent : run[r].config.profile = hook.profile
    BY DEF PanelInv, RunsIn
  <1>2. ASSUME Quiet
        PROVE  \A r \in panel.recent : run[r].config.profile = panel.profile
    <2>1. link = "up" /\ up = <<>> /\ down = <<>>
      BY <1>2 DEF Quiet
    <2>2. panel.profile = hook.profile
      BY <2>1, OneByOne DEF PanelInv, DownFits, ShownAfter
    <2>3. Ends(<<>>, "recent", panel.recent, SUBSET RunsIn(run, hook.profile))
      BY <2>1 DEF PanelInv, CallsEnd
    <2>4. panel.recent \in SUBSET RunsIn(run, hook.profile)
      BY <2>3, EndsNow
    <2> QED
      BY <2>2, <2>4 DEF RunsIn
  <1> QED
    BY <1>1, <1>2 DEF PanelKeepsToProfile, CallsOfProfile

-----------------------------------------------------------------------------
(* The runs that were there go on.                                         *)
OthersGoOn == \A r \in Runs : run[r].state # "ABSENT" => Proceeds(run[r], run'[r])

LEMMA GoOn ==
  ASSUME RunsInv, RunsInv', OthersGoOn, NEW p
  PROVE  /\ RunsIn(run, p) \subseteq RunsIn(run', p)
         /\ StopsOf(p) \subseteq RunsIn(run', p)
         /\ ActiveRuns(run', p) = {} /\ StopsOf(p) = {} => ActiveRuns(run, p) = {}
  <1>1. \A r \in RunsIn(run, p) : r \in RunsIn(run', p)
    BY DEF RunsIn, OthersGoOn, Proceeds
  <1>2. \A r \in StopsOf(p) : r \in RunsIn(run', p)
    BY DEF RunsIn, StopsOf, StoppedBy
  <1>3. ASSUME ActiveRuns(run', p) = {}, StopsOf(p) = {}, NEW r \in ActiveRuns(run, p)
        PROVE  FALSE
    <2>1. r \in Runs /\ Active(run, r) /\ run[r].config.profile = p
      BY <1>3 DEF ActiveRuns
    <2>2. run[r].state \in {"RUNNING", "STOPPING"}
      BY <2>1, Listed DEF RunsInv
    <2>3. Proceeds(run[r], run'[r])
      BY <2>1, <2>2 DEF OthersGoOn
    <2>4. run'[r].config.profile = p
      BY <2>1, <2>3 DEF Proceeds
    <2>5. run'[r].state # "STOPPED"
      BY <1>3, <2>1, <2>2, <2>4 DEF StopsOf, StoppedBy
    <2>6. run'[r].state \in {"RUNNING", "STOPPING"}
      BY <2>2, <2>3, <2>5 DEF Proceeds
    <2>7. Active(run', r)
      BY <2>1, <2>6 DEF RunsInv, Inv, Good, StopsOnce, Active, IsActive
    <2> QED
      BY <1>3, <2>1, <2>4, <2>7 DEF ActiveRuns
  <1> QED
    BY <1>1, <1>2, <1>3

LEMMA ProceedGoOn ==
  ASSUME RunsProceed
  PROVE  OthersGoOn
  BY DEF RunsProceed, OthersGoOn

LEMMA StartGoOn ==
  ASSUME RunsInv, NEW r \in Runs, NEW config, Starts(r, config)
  PROVE  OthersGoOn
  <1>1. ASSUME NEW s \in Runs, run[s].state # "ABSENT"
        PROVE  Proceeds(run[s], run'[s])
    BY <1>1 DEF Starts, RunsInv, Proceeds
  <1> QED
    BY <1>1 DEF OthersGoOn

(* Pushes on their way, then those that tell, then the rest.               *)
LEMMA EndsTold ==
  ASSUME NEW u, IsSequence(u), NEW v, IsSequence(v), NEW w, IsSequence(w),
         NEW f, NEW old, NEW G,
         v = <<>> \/ Speaks(v, f, G),
         \/ (Ends(u, f, old, G) \/ Speaks(v, f, G)) /\ Silent(w, f)
         \/ Speaks(w, f, G)
  PROVE  Ends(u \o v \o w, f, old, G)
  <1>1. IsSequence(u \o v)
    BY Joined
  <1>2. CASE Speaks(w, f, G)
    BY <1>1, <1>2, EndsAdded
  <1>3. CASE (Ends(u, f, old, G) \/ Speaks(v, f, G)) /\ Silent(w, f)
    <2>1. Silent(<<>>, f)
      BY OneByOne DEF Silent
    <2>2. Ends(u \o v, f, old, G)
      BY <1>3, <2>1, EndsAdded
    <2> QED
      BY <1>1, <1>3, <2>2, EndsAdded
  <1> QED
    BY <1>2, <1>3

(* The step is told to a page that was not left.                           *)
LEMMA TellsKeep ==
  ASSUME RunsInv', IsSequence(up), link' # "away",
         NEW pages, Fits(pages), NEW t, t.hook \in Hooks, t.pushes = <<>>,
         t.hook.recent \subseteq RunsIn(run', t.hook.profile),
         NEW rest, IsSequence(rest), Tells(t, pages, rest)
  PROVE  LET p == t.hook.profile
             Calls == SUBSET RunsIn(run', p)
         IN  /\ hook' \in Hooks /\ hook'.profile = p
             /\ hook'.recent \subseteq RunsIn(run', p)
             /\ IsSequence(up')
             /\ link' # "up" => up' = up
             /\ link' = "up" =>
                  /\ \A old : \/ Ends(up, "recent", old, Calls) /\ Silent(rest, "recent")
                              \/ Speaks(rest, "recent", Calls)
                              => Ends(up', "recent", old, Calls)
                  /\ \A old : \/ /\ Ends(up, "stats", old, {Zero}) \/ StopsOf(p) # {}
                                 /\ Silent(rest, "stats")
                              \/ Speaks(rest, "stats", {Zero})
                              => Ends(up', "stats", old, {Zero})
                  /\ ActiveRuns(run', p) = {} =>
                       \A old : \/ /\ Ends(up, "running", old, {FALSE}) \/ StopsOf(p) # {}
                                   /\ Silent(rest, "running")
                                \/ Speaks(rest, "running", {FALSE})
                                => Ends(up', "running", old, {FALSE})
  <1> DEFINE p == t.hook.profile
             Calls == SUBSET RunsIn(run', p)
             h == Told(t, pages)
             v == h.pushes
  <1>1. /\ h.hook \in Hooks /\ h.hook.profile = p
        /\ h.hook.recent = t.hook.recent \cup StopsOf(p)
        /\ IsSequence(v)
        /\ StopsOf(p) = {} \/ link' # "up" => v = <<>>
        /\ StopsOf(p) # {} /\ link' = "up" =>
             /\ Speaks(v, "recent", SUBSET h.hook.recent)
             /\ Speaks(v, "stats", {Zero})
             /\ ActiveRuns(run', p) = {} => Speaks(v, "running", {FALSE})
    BY TellsAll
  <1>2. hook' = h.hook /\ up' = IF link' = "up" THEN up \o v \o rest ELSE up
    BY DEF Tells
  <1> HIDE DEF h
  <1>3. StopsOf(p) \subseteq RunsIn(run', p)
    BY DEF RunsIn, StopsOf, StoppedBy
  <1>4. h.hook.recent \subseteq RunsIn(run', p)
    BY <1>1, <1>3
  <1>5. IsSequence(up')
    BY <1>1, <1>2, Joined
  <1>6. Speaks(v, "recent", SUBSET h.hook.recent) => Speaks(v, "recent", Calls)
    <2>1. \A x : x \subseteq SUBSET h.hook.recent => x \subseteq Calls
      BY <1>4
    <2> QED
      BY <2>1 DEF Speaks
  <1>7. ASSUME link' = "up"
        PROVE  /\ v = <<>> \/ Speaks(v, "recent", Calls)
               /\ v = <<>> \/ Speaks(v, "stats", {Zero})
               /\ ActiveRuns(run', p) = {} => v = <<>> \/ Speaks(v, "running", {FALSE})
    BY <1>1, <1>6, <1>7
  <1>8. ASSUME link' = "up", NEW old,
               \/ Ends(up, "recent", old, Calls) /\ Silent(rest, "recent")
               \/ Speaks(rest, "recent", Calls)
        PROVE  Ends(up', "recent", old, Calls)
    <2> HIDE DEF Calls, v
    <2>1. Ends(up \o v \o rest, "recent", old, Calls)
      BY <1>1, <1>7, <1>8, EndsTold
    <2> QED
      BY <1>2, <1>8, <2>1
  <1>9. ASSUME link' = "up", NEW old,
               \/ /\ Ends(up, "stats", old, {Zero}) \/ StopsOf(p) # {}
                  /\ Silent(rest, "stats")
               \/ Speaks(rest, "stats", {Zero})
        PROVE  Ends(up', "stats", old, {Zero})
    <2> HIDE DEF v
    <2>1. StopsOf(p) # {} => Speaks(v, "stats", {Zero})
      BY <1>1, <1>9
    <2>2. Ends(up \o v \o rest, "stats", old, {Zero})
      BY <1>1, <1>7, <1>9, <2>1, EndsTold
    <2> QED
      BY <1>2, <1>9, <2>2
  <1>10. ASSUME link' = "up", ActiveRuns(run', p) = {}, NEW old,
                \/ /\ Ends(up, "running", old, {FALSE}) \/ StopsOf(p) # {}
                   /\ Silent(rest, "running")
                \/ Speaks(rest, "running", {FALSE})
         PROVE  Ends(up', "running", old, {FALSE})
    <2> HIDE DEF v
    <2>1. StopsOf(p) # {} => Speaks(v, "running", {FALSE})
      BY <1>1, <1>10
    <2>2. Ends(up \o v \o rest, "running", old, {FALSE})
      BY <1>1, <1>7, <1>10, <2>1, EndsTold
    <2> QED
      BY <1>2, <1>10, <2>2
  <1> QED
    BY <1>1, <1>2, <1>4, <1>5, <1>8, <1>9, <1>10

(* What the panel will show, whether the pushes of the step leave it to    *)
(* those on their way or have the last word.                               *)
LEMMA ShowsKeep ==
  ASSUME RunsInv, RunsInv', OthersGoOn, IsSequence(up), link' # "away",
         NEW pages, Fits(pages), NEW t, t.hook \in Hooks, t.pushes = <<>>,
         t.hook.recent \subseteq RunsIn(run', t.hook.profile),
         NEW rest, IsSequence(rest), Tells(t, pages, rest), NEW d,
         link' = "up" =>
           \/ Silent(rest, "recent") /\ CallsEnd(run, t.hook.profile, up, panel')
           \/ Speaks(rest, "recent", {{}}),
         link' = "up" /\ ActiveRuns(run', t.hook.profile) = {} =>
           \/ /\ rest = <<>>
              /\ RestEnds(run, t.hook.profile, up, panel', d)
              /\ Starting(d) /\ StopsOf(t.hook.profile) = {} => Starting(down')
           \/ Speaks(rest, "stats", {Zero}) /\ Speaks(rest, "running", {FALSE})
  PROVE  LET p == t.hook.profile
         IN  /\ hook' \in Hooks /\ hook'.profile = p
             /\ hook'.recent \subseteq RunsIn(run', p)
             /\ IsSequence(up')
             /\ link' # "up" => up' = up
             /\ link' = "up" =>
                  CallsEnd(run', p, up', panel') /\ RestEnds(run', p, up', panel', down')
  <1> DEFINE p == t.hook.profile
             Calls == SUBSET RunsIn(run', p)
  <1>1. /\ hook' \in Hooks /\ hook'.profile = p
        /\ hook'.recent \subseteq RunsIn(run', p)
        /\ IsSequence(up')
        /\ link' # "up" => up' = up
    BY TellsKeep
  <1>2. ASSUME link' = "up"
        PROVE  /\ \A old : \/ Ends(up, "recent", old, Calls) /\ Silent(rest, "recent")
                           \/ Speaks(rest, "recent", Calls)
                           => Ends(up', "recent", old, Calls)
               /\ \A old : \/ /\ Ends(up, "stats", old, {Zero}) \/ StopsOf(p) # {}
                              /\ Silent(rest, "stats")
                           \/ Speaks(rest, "stats", {Zero})
                           => Ends(up', "stats", old, {Zero})
               /\ ActiveRuns(run', p) = {} =>
                    \A old : \/ /\ Ends(up, "running", old, {FALSE}) \/ StopsOf(p) # {}
                                /\ Silent(rest, "running")
                             \/ Speaks(rest, "running", {FALSE})
                             => Ends(up', "running", old, {FALSE})
    BY <1>2, TellsKeep
  <1>3. /\ RunsIn(run, p) \subseteq RunsIn(run', p)
        /\ ActiveRuns(run', p) = {} /\ StopsOf(p) = {} => ActiveRuns(run, p) = {}
    BY GoOn
  <1>4. Silent(<<>>, "stats") /\ Silent(<<>>, "running")
    BY OneByOne DEF Silent
  <1>5. ASSUME link' = "up"
        PROVE  CallsEnd(run', p, up', panel')
    <2>1. CASE Silent(rest, "recent") /\ CallsEnd(run, p, up, panel')
      <3>1. SUBSET RunsIn(run, p) \subseteq Calls
        BY <1>3
      <3>2. Ends(up, "recent", panel'.recent, SUBSET RunsIn(run, p))
        BY <2>1 DEF CallsEnd
      <3> HIDE DEF Calls
      <3>3. Ends(up, "recent", panel'.recent, Calls)
        BY <3>1, <3>2, EndsLarger
      <3>4. Ends(up', "recent", panel'.recent, Calls)
        BY <1>2, <1>5, <2>1, <3>3
      <3> QED
        BY <3>4 DEF CallsEnd, Calls
    <2>2. CASE Speaks(rest, "recent", {{}})
      <3>1. {{}} \subseteq Calls
        OBVIOUS
      <3> HIDE DEF Calls
      <3>2. Speaks(rest, "recent", Calls)
        BY <2>2, <3>1 DEF Speaks
      <3>3. Ends(up', "recent", panel'.recent, Calls)
        BY <1>2, <1>5, <3>2
      <3> QED
        BY <3>3 DEF CallsEnd, Calls
    <2> QED
      BY <1>5, <2>1, <2>2
  <1> HIDE DEF Calls
  <1>6. ASSUME link' = "up", ActiveRuns(run', p) = {}
        PROVE  /\ Ends(up', "stats", panel'.stats, {Zero})
               /\ Ends(up', "running", panel'.running, {FALSE}) \/ Starting(down')
    <2>1. CASE Speaks(rest, "stats", {Zero}) /\ Speaks(rest, "running", {FALSE})
      BY <1>2, <1>6, <2>1
    <2>2. CASE /\ rest = <<>>
               /\ RestEnds(run, p, up, panel', d)
               /\ Starting(d) /\ StopsOf(p) = {} => Starting(down')
      <3>1. Silent(rest, "stats") /\ Silent(rest, "running")
        BY <1>4, <2>2
      <3>2. CASE StopsOf(p) # {}
        BY <1>2, <1>6, <3>1, <3>2
      <3>3. CASE StopsOf(p) = {}
        <4>1. ActiveRuns(run, p) = {}
          BY <1>3, <1>6, <3>3
        <4>2. /\ Ends(up, "stats", panel'.stats, {Zero})
              /\ Ends(up, "running", panel'.running, {FALSE}) \/ Starting(d)
          BY <2>2, <4>1 DEF RestEnds
        <4>3. Ends(up', "stats", panel'.stats, {Zero})
          BY <1>2, <1>6, <3>1, <4>2
        <4>4. CASE Ends(up, "running", panel'.running, {FALSE})
          BY <1>2, <1>6, <3>1, <4>3, <4>4
        <4>5. CASE Starting(d)
          BY <2>2, <3>3, <4>3, <4>5
        <4> QED
          BY <4>2, <4>4, <4>5
      <3> QED
        BY <3>2, <3>3
    <2> QED
      BY <1>6, <2>1, <2>2
  <1> QED
    BY <1>1, <1>5, <1>6 DEF RestEnds

-----------------------------------------------------------------------------
(* The callbacks of the page                                               *)
LEMMA LoadGoesOn ==
  ASSUME RunsProceed, LoadMatchesProfile, link' = link, hook'.profile = hook.profile
  PROVE  LoadMatchesProfile'
  <1>1. ASSUME NEW r \in Runs, run'[r].state = "RUNNING"
        PROVE  link' # "away" /\ run'[r].config.profile = hook'.profile
    <2>1. run[r].state = "RUNNING" /\ run'[r].config = run[r].config
      BY <1>1 DEF RunsProceed, Proceeds
    <2> QED
      BY <2>1 DEF LoadMatchesProfile
  <1> QED
    BY <1>1 DEF LoadMatchesProfile

LEMMA PageStepKeeps ==
  ASSUME PanelInv, RunsInv', RunsProceed, PageKeeps,
         NEW t, t.hook \in Hooks, t.pushes = <<>>, t.hook.profile = hook.profile,
         t.hook.recent \subseteq RunsIn(run, hook.profile),
         Tells(t, PagesAtEnd, <<>>)
  PROVE  PanelInv'
  <1> DEFINE p == hook.profile
  <1>1. /\ RunsInv /\ PanelTyped /\ OthersGoOn /\ IsSequence(up)
        /\ link' = link /\ panel' = panel /\ down' = down
    BY ProceedGoOn DEF PanelInv, PanelTyped, PageKeeps
  <1>2. RunsIn(run, p) \subseteq RunsIn(run', p)
    BY <1>1, GoOn
  <1>3. CASE link = "away"
    <2>1. hook' = hook /\ up' = up
      BY <1>1, <1>3 DEF Tells
    <2>2. LoadMatchesProfile'
      BY <1>1, <2>1, LoadGoesOn DEF PanelInv
    <2>3. hook'.recent \subseteq RunsIn(run', hook'.profile)
      BY <1>2, <2>1 DEF PanelInv
    <2>4. PanelTyped'
      BY <1>1, <2>1 DEF PanelTyped
    <2> QED
      BY <1>1, <1>3, <2>1, <2>2, <2>3, <2>4 DEF PanelInv
  <1>4. CASE link # "away"
    <2>1. /\ Fits(PagesAtEnd) /\ IsSequence(<<>>) /\ Silent(<<>>, "recent")
          /\ t.hook.recent \subseteq RunsIn(run', t.hook.profile)
      BY <1>2, AtEndFits, OneByOne DEF Silent
    <2>2. link = "up" => CallsEnd(run, p, up, panel') /\ RestEnds(run, p, up, panel', down)
      BY <1>1 DEF PanelInv
    <2>3. /\ hook' \in Hooks /\ hook'.profile = p
          /\ hook'.recent \subseteq RunsIn(run', p)
          /\ IsSequence(up')
          /\ link' # "up" => up' = up
          /\ link' = "up" =>
               CallsEnd(run', p, up', panel') /\ RestEnds(run', p, up', panel', down')
      BY <1>1, <1>4, <2>1, <2>2, ShowsKeep
    <2>4. LoadMatchesProfile'
      BY <1>1, <2>3, LoadGoesOn DEF PanelInv
    <2>5. PanelTyped'
      BY <1>1, <2>3 DEF PanelTyped
    <2> QED
      BY <1>1, <2>3, <2>4, <2>5 DEF PanelInv
  <1> QED
    BY <1>3, <1>4

(* A call of a run of the profile is shown.                                *)
LEMMA LogsACall ==
  ASSUME NEW h \in Hooks, NEW r \in Runs, NEW runs
  PROVE  LET t == TrackActivity(Untold(h), Logged(r, runs))
         IN  /\ t.hook \in Hooks /\ t.hook.profile = h.profile /\ t.pushes = <<>>
             /\ t.hook.recent
                  \subseteq h.recent \cup {s \in {r} : runs[s].config.profile = h.profile}
  <1> DEFINE u == Untold(h)
             a == Logged(r, runs)
             t == TrackActivity(u, a)
  <1>1. u.hook = h /\ u.pushes = <<>> /\ IsSequence(u.pushes)
    BY OneByOne DEF Untold
  <1>2. /\ a.run = r /\ a.profile = runs[r].config.profile /\ a.stopped = FALSE
        /\ a.running \in BOOLEAN /\ a.stopped \in BOOLEAN
    BY DEF Logged, IsRunning
  <1> HIDE DEF u, a
  <1> DEFINE x == TrackActivity(u, a)
  <1>3. /\ x.hook \in Hooks /\ x.hook.profile = u.hook.profile
        /\ a.profile # u.hook.profile => x = u
        /\ a.profile = u.hook.profile =>
             /\ x.hook.recent = u.hook.recent \cup {a.run}
             /\ ~ (link' = "up" /\ a.stopped) => x.pushes = u.pushes
    <2>1. a.run \in Runs /\ u.hook \in Hooks
      BY <1>1, <1>2
    <2> QED
      BY <1>1, <1>2, <2>1, Tracks
  <1> HIDE DEF x
  <1>4. /\ x.hook \in Hooks /\ x.hook.profile = h.profile /\ x.pushes = <<>>
        /\ x.hook.recent
             \subseteq h.recent \cup {s \in {r} : runs[s].config.profile = h.profile}
    BY <1>1, <1>2, <1>3
  <1> QED
    BY <1>4 DEF x, u, a

LEMMA LoggingKeeps ==
  ASSUME PanelInv, NEW r \in Runs, Logging(r)
  PROVE  PanelInv'
  <1> DEFINE t == TrackActivity(Untold(hook), Logged(r, run))
  <1>1. RunsInv /\ hook \in Hooks /\ hook.recent \subseteq RunsIn(run, hook.profile)
    BY DEF PanelInv, PanelTyped
  <1>2. PageKeeps /\ Tells(t, PagesAtEnd, <<>>)
    BY DEF Logging
  <1>3. RunsInv' /\ RunsProceed /\ run[r].state # "ABSENT"
    <2>1. Page(r) \/ \E i \in Sockets : SocketNotifies(r, i)
      BY DEF Logging, Page
    <2>2. ASSUME NEW i \in Sockets, SocketNotifies(r, i)
          PROVE  UNCHANGED run /\ run[r].state # "ABSENT"
      BY <1>1, <2>2 DEF SocketNotifies, RunsInv, Kept
    <2> QED
      BY <1>1, <2>1, <2>2, PageProceeds, SameProceeds
  <1>4. /\ t.hook \in Hooks /\ t.hook.profile = hook.profile /\ t.pushes = <<>>
        /\ t.hook.recent
             \subseteq hook.recent \cup {s \in {r} : run[s].config.profile = hook.profile}
    BY <1>1, LogsACall
  <1> HIDE DEF t
  <1>5. t.hook.recent \subseteq RunsIn(run, hook.profile)
    BY <1>1, <1>3, <1>4 DEF RunsIn
  <1> QED
    BY <1>2, <1>3, <1>4, <1>5, PageStepKeeps

LEMMA UntoldIs ==
  ASSUME NEW h
  PROVE  Untold(h).hook = h /\ Untold(h).pushes = <<>>
  BY DEF Untold

LEMMA TimerKeeps ==
  ASSUME PanelInv, NEW r \in Runs, TimerFires(r)
  PROVE  PanelInv'
  <1> DEFINE t == Untold(hook)
  <1>1. RunsInv /\ hook \in Hooks /\ hook.recent \subseteq RunsIn(run, hook.profile)
    BY DEF PanelInv, PanelTyped
  <1>2. PageKeeps /\ Tells(t, PagesAtEnd, <<>>)
    BY DEF TimerFires
  <1>3. RunsInv' /\ RunsProceed
    <2>1. Page(r)
      BY DEF TimerFires, Page
    <2> QED
      BY <1>1, <2>1, PageProceeds
  <1>4. t.hook = hook /\ t.pushes = <<>>
    BY UntoldIs
  <1> HIDE DEF t
  <1> QED
    BY <1>1, <1>2, <1>3, <1>4, PageStepKeeps

LEMMA EndsAgain ==
  ASSUME NEW u, NEW f, NEW old, NEW new, NEW G, Ends(u, f, old, G), new \in G
  PROVE  Ends(u, f, new, G)
  BY DEF Ends

(* A push of the page, not all of whose fields have a value.               *)
LEMMA EndsPushed ==
  ASSUME NEW u, IsSequence(u), NEW push, NEW f, NEW old, NEW G,
         \/ Ends(u, f, old, G) /\ push[f] = {}
         \/ push[f] # {} /\ push[f] \subseteq G
  PROVE  Ends(Append(u, push), f, old, G)
  <1> DEFINE v == <<push>>
  <1>1. IsSequence(v) /\ Len(v) = 1 /\ v[1] = push
    BY OneByOne
  <1>2. Append(u, push) = u \o v
    BY Added
  <1> HIDE DEF v
  <1>3. 1 \in 1..Len(v) /\ (\A i \in 1..Len(v) : i = 1) /\ \A j \in (1 + 1)..Len(v) : FALSE
    BY <1>1
  <1>4. push[f] = {} => Silent(v, f)
    BY <1>1, <1>3 DEF Silent
  <1>5. push[f] # {} /\ push[f] \subseteq G => Speaks(v, f, G)
    BY <1>1, <1>3 DEF Speaks
  <1> QED
    BY <1>1, <1>2, <1>4, <1>5, EndsAdded

LEMMA PushedIsSequence ==
  ASSUME NEW u, IsSequence(u), NEW x
  PROVE  IsSequence(Append(u, x))
  <1>1. Append(u, x) = u \o <<x>>
    BY Added
  <1>2. IsSequence(u \o <<x>>)
    BY AddedLast
  <1> QED
    BY <1>1, <1>2

LEMMA StatsKeeps ==
  ASSUME PanelInv, StatsInterval
  PROVE  PanelInv'
  <1> DEFINE push == Push({}, {ActiveStats(run, hook.profile)}, {hook.recent})
  <1>1. /\ RunsInv /\ PanelTyped /\ IsSequence(up) /\ link = "up"
        /\ hook.recent \subseteq RunsIn(run, hook.profile)
        /\ ActiveRuns(run, hook.profile) # {}
        /\ DownFits(down, hook.profile, panel.profile)
        /\ CallsEnd(run, hook.profile, up, panel)
        /\ LoadMatchesProfile
    BY DEF PanelInv, PanelTyped, StatsInterval, IsRunning
  <1>2. /\ up' = Append(up, push) /\ run' = run /\ hook' = hook /\ link' = link
        /\ panel' = panel /\ down' = down
    BY DEF StatsInterval, PageKeeps
  <1>3. push["recent"] = {hook.recent}
    BY DEF Push
  <1> HIDE DEF push
  <1>4. IsSequence(up')
    BY <1>1, <1>2, PushedIsSequence
  <1>5. CallsEnd(run', hook'.profile, up', panel')
    <2> DEFINE Calls == SUBSET RunsIn(run, hook.profile)
    <2>1. push["recent"] # {} /\ push["recent"] \subseteq Calls
      BY <1>1, <1>3
    <2> HIDE DEF Calls
    <2>2. Ends(Append(up, push), "recent", panel.recent, Calls)
      BY <1>1, <2>1, EndsPushed
    <2> QED
      BY <1>2, <2>2 DEF CallsEnd, Calls
  <1>6. RestEnds(run', hook'.profile, up', panel', down')
    BY <1>1, <1>2 DEF RestEnds
  <1>7. RunsInv'
    BY <1>1, <1>2, SameProceeds
  <1>8. PanelTyped'
    BY <1>1, <1>2, <1>4 DEF PanelTyped
  <1>9. LoadMatchesProfile'
    BY <1>1, <1>2 DEF LoadMatchesProfile
  <1> QED
    BY <1>1, <1>2, <1>5, <1>6, <1>7, <1>8, <1>9 DEF PanelInv

LEMMA ImmediateKeeps ==
  ASSUME PanelInv, ImmediateUpdate
  PROVE  PanelInv'
  <1> DEFINE push == Push({}, {}, {hook.recent})
  <1>1. /\ RunsInv /\ PanelTyped /\ IsSequence(up) /\ hook \in Hooks
        /\ hook.recent \subseteq RunsIn(run, hook.profile) /\ LoadMatchesProfile
    BY DEF PanelInv, PanelTyped
  <1>2. /\ up' = IF link = "up" THEN Append(up, push) ELSE up
        /\ hook' = [hook EXCEPT !.debounce = FALSE]
        /\ run' = run /\ link' = link /\ panel' = panel /\ down' = down
    BY DEF ImmediateUpdate, PageKeeps
  <1>3. /\ push["recent"] = {hook.recent} /\ push["stats"] = {} /\ push["running"] = {}
    BY DEF Push
  <1> HIDE DEF push
  <1>4. hook' \in Hooks /\ hook'.profile = hook.profile /\ hook'.recent = hook.recent
    BY <1>1, <1>2 DEF Hooks
  <1>5. IsSequence(up')
    BY <1>1, <1>2, PushedIsSequence
  <1>6. ASSUME link = "up"
        PROVE  /\ CallsEnd(run', hook'.profile, up', panel')
               /\ RestEnds(run', hook'.profile, up', panel', down')
    <2> DEFINE Calls == SUBSET RunsIn(run, hook.profile)
    <2>1. push["recent"] # {} /\ push["recent"] \subseteq Calls
      BY <1>1, <1>3
    <2> HIDE DEF Calls
    <2>2. Ends(Append(up, push), "recent", panel.recent, Calls)
      BY <1>1, <2>1, EndsPushed
    <2>3. CallsEnd(run', hook'.profile, up', panel')
      BY <1>2, <1>4, <1>6, <2>2 DEF CallsEnd, Calls
    <2>4. RestEnds(run, hook.profile, up, panel, down)
      BY <1>6 DEF PanelInv
    <2>5. ASSUME ActiveRuns(run, hook.profile) = {}
          PROVE  /\ Ends(Append(up, push), "stats", panel.stats, {Zero})
                 /\ \/ Ends(Append(up, push), "running", panel.running, {FALSE})
                    \/ Starting(down)
      <3>1. /\ Ends(up, "stats", panel.stats, {Zero})
            /\ Ends(up, "running", panel.running, {FALSE}) \/ Starting(down)
        BY <2>4, <2>5 DEF RestEnds
      <3>2. Ends(Append(up, push), "stats", panel.stats, {Zero})
        BY <1>1, <1>3, <3>1, EndsPushed
      <3>3. Ends(up, "running", panel.running, {FALSE}) =>
              Ends(Append(up, push), "running", panel.running, {FALSE})
        BY <1>1, <1>3, EndsPushed
      <3> QED
        BY <3>1, <3>2, <3>3
    <2>6. RestEnds(run', hook'.profile, up', panel', down')
      BY <1>2, <1>4, <1>6, <2>5 DEF RestEnds
    <2> QED
      BY <2>3, <2>6
  <1>7. RunsInv'
    BY <1>1, <1>2, SameProceeds
  <1>8. PanelTyped'
    BY <1>1, <1>2, <1>4, <1>5 DEF PanelTyped
  <1>9. LoadMatchesProfile'
    BY <1>1, <1>2, <1>4 DEF LoadMatchesProfile
  <1> QED
    BY <1>1, <1>2, <1>4, <1>6, <1>7, <1>8, <1>9 DEF PanelInv

(* The component applies a push.                                           *)
LEMMA ApplyKeeps ==
  ASSUME PanelInv, ApplyPush
  PROVE  PanelInv'
  <1> DEFINE first == Head(up)
             p == hook.profile
  <1>1. /\ RunsInv /\ PanelTyped /\ IsSequence(up) /\ up # <<>> /\ link = "up"
        /\ hook.recent \subseteq RunsIn(run, p) /\ LoadMatchesProfile
        /\ DownFits(down, p, panel.profile)
        /\ CallsEnd(run, p, up, panel) /\ RestEnds(run, p, up, panel, down)
    BY DEF PanelInv, PanelTyped, ApplyPush
  <1>2. /\ panel' = [panel EXCEPT !.running = Chosen(first.running, panel.running),
                                  !.stats = Chosen(first.stats, panel.stats),
                                  !.recent = Chosen(first.recent, panel.recent)]
        /\ up' = Tail(up) /\ run' = run /\ hook' = hook /\ link' = link /\ down' = down
    BY <1>1 DEF ApplyPush, PanelTyped
  <1> HIDE DEF first
  <1>3. /\ panel'.running = Chosen(first.running, panel.running)
        /\ panel'.stats = Chosen(first.stats, panel.stats)
        /\ panel'.recent = Chosen(first.recent, panel.recent)
        /\ panel'.profile = panel.profile /\ panel'.chains = panel.chains
        /\ panel' = [profile |-> panel'.profile, chains |-> panel'.chains,
                     running |-> panel'.running, stats |-> panel'.stats,
                     recent |-> panel'.recent]
    BY <1>1, <1>2 DEF PanelTyped
  <1>4. /\ first["running"] = first.running /\ first["stats"] = first.stats
        /\ first["recent"] = first.recent
    OBVIOUS
  <1>5. IsSequence(up')
    BY <1>1, <1>2, Shortened
  <1>6. CallsEnd(run', p, up', panel')
    <2> DEFINE Calls == SUBSET RunsIn(run, p)
    <2> HIDE DEF Calls
    <2>1. Ends(up, "recent", panel.recent, Calls)
      BY <1>1 DEF CallsEnd, Calls
    <2>2. Ends(Tail(up), "recent", Chosen(first["recent"], panel.recent), Calls)
      BY <1>1, <2>1, EndsApplied DEF first
    <2> QED
      BY <1>2, <1>3, <1>4, <2>2 DEF CallsEnd, Calls
  <1>7. RestEnds(run', p, up', panel', down')
    <2> SUFFICES ASSUME ActiveRuns(run, p) = {}
                 PROVE  /\ Ends(up', "stats", panel'.stats, {Zero})
                        /\ Ends(up', "running", panel'.running, {FALSE}) \/ Starting(down)
      BY <1>2 DEF RestEnds
    <2>1. /\ Ends(up, "stats", panel.stats, {Zero})
          /\ Ends(up, "running", panel.running, {FALSE}) \/ Starting(down)
      BY <1>1 DEF RestEnds
    <2>2. Ends(Tail(up), "stats", Chosen(first["stats"], panel.stats), {Zero})
      BY <1>1, <2>1, EndsApplied DEF first
    <2>3. Ends(up, "running", panel.running, {FALSE}) =>
            Ends(Tail(up), "running", Chosen(first["running"], panel.running), {FALSE})
      BY <1>1, EndsApplied DEF first
    <2> QED
      BY <1>2, <1>3, <1>4, <2>1, <2>2, <2>3
  <1>8. RunsInv'
    BY <1>1, <1>2, SameProceeds
  <1>9. PanelTyped'
    BY <1>1, <1>2, <1>3, <1>5 DEF PanelTyped
  <1>10. LoadMatchesProfile'
    BY <1>1, <1>2 DEF LoadMatchesProfile
  <1> QED
    BY <1>1, <1>2, <1>3, <1>6, <1>7, <1>8, <1>9, <1>10 DEF PanelInv

-----------------------------------------------------------------------------
(* Events reach the page.                                                  *)
LEMMA EventReceived ==
  ASSUME PanelTyped, NEW kind, Receive(kind)
  PROVE  /\ link = "up" /\ link' = link /\ panel' = panel
         /\ IsSequence(down) /\ down # <<>> /\ Head(down).kind = kind
         /\ down' = Tail(down) /\ down' \in Seq(Events)
         /\ kind = "start" => Head(down).config \in Configs
         /\ kind = "patch" => Head(down).profile \in Profiles /\ Head(down).chains \in Chains
  <1>1. /\ link = "up" /\ link' = link /\ panel' = panel /\ down # <<>>
        /\ Head(down).kind = kind /\ down' = Tail(down) /\ down \in Seq(Events)
    BY DEF Receive, Received, PanelTyped
  <1>2. Head(down) \in Events /\ Tail(down) \in Seq(Events)
    BY <1>1
  <1>3. IsSequence(down)
    BY <1>1, SequencesAre
  <1>4. kind = "start" => Head(down).config \in Configs
    BY <1>1, <1>2 DEF Events
  <1>5. kind = "patch" => Head(down).profile \in Profiles /\ Head(down).chains \in Chains
    BY <1>1, <1>2 DEF Events
  <1> QED
    BY <1>1, <1>2, <1>3, <1>4, <1>5

LEMMA HandleStopKeeps ==
  ASSUME PanelInv, HandleStop
  PROVE  PanelInv'
  <1> DEFINE t == Untold(hook)
             p == hook.profile
  <1>1. /\ RunsInv /\ PanelTyped /\ IsSequence(up) /\ hook \in Hooks
        /\ hook.recent \subseteq RunsIn(run, p)
    BY DEF PanelInv, PanelTyped
  <1>2. /\ Receive("stop") /\ run' = AllStopped(run)
        /\ Tells(t, PagesInBetween, <<>>)
    BY DEF HandleStop, StopAllRuns
  <1>3. /\ link = "up" /\ link' = link /\ panel' = panel
        /\ IsSequence(down) /\ down # <<>> /\ Head(down).kind = "stop"
        /\ down' = Tail(down) /\ down' \in Seq(Events)
    BY <1>1, <1>2, EventReceived
  <1>4. RunsInv' /\ RunsProceed /\ OthersGoOn /\ \A r \in Runs : run'[r].state # "RUNNING"
    BY <1>1, <1>2, StopAllProceeds, ProceedGoOn
  <1>5. t.hook = hook /\ t.pushes = <<>>
    BY UntoldIs
  <1> HIDE DEF t
  <1>6. /\ DownFits(down, p, panel.profile) /\ CallsEnd(run, p, up, panel')
        /\ RestEnds(run, p, up, panel', down)
    BY <1>3 DEF PanelInv
  <1>7. DownFits(down', p, panel.profile) /\ (Starting(down) => Starting(down'))
    BY <1>3, <1>6, DownHandled
  <1>8. /\ Fits(PagesInBetween) /\ IsSequence(<<>>) /\ Silent(<<>>, "recent")
        /\ t.hook.recent \subseteq RunsIn(run', t.hook.profile)
    BY <1>1, <1>2, <1>4, <1>5, InBetweenFits, GoOn, OneByOne DEF Silent
  <1>9. /\ hook' \in Hooks /\ hook'.profile = p
        /\ hook'.recent \subseteq RunsIn(run', p)
        /\ IsSequence(up')
        /\ CallsEnd(run', p, up', panel') /\ RestEnds(run', p, up', panel', down')
    <2>1. link' # "away" /\ link' = "up"
      BY <1>3
    <2> QED
      BY <1>1, <1>2, <1>4, <1>5, <1>6, <1>7, <1>8, <2>1, ShowsKeep
  <1>10. LoadMatchesProfile'
    BY <1>4 DEF LoadMatchesProfile
  <1>11. PanelTyped'
    BY <1>1, <1>3, <1>9 DEF PanelTyped
  <1> QED
    BY <1>3, <1>4, <1>7, <1>9, <1>10, <1>11 DEF PanelInv

(* updated(), whatever the component shows by then and whatever is still   *)
(* on its way to the page.                                                 *)
LEMMA UpdatedKeeps ==
  ASSUME RunsInv, hook \in Hooks, hook.recent \subseteq RunsIn(run, hook.profile),
         LoadMatchesProfile, IsSequence(up), link # "away", link' = "up",
         NEW profile \in Profiles, NEW chains \in Chains, Updated(profile, chains),
         NEW d, Starting(d) => Starting(down'),
         profile = hook.profile =>
           CallsEnd(run, profile, up, panel') /\ RestEnds(run, profile, up, panel', d)
  PROVE  /\ RunsInv' /\ LoadMatchesProfile'
         /\ hook' \in Hooks /\ hook'.profile = profile
         /\ hook'.recent \subseteq RunsIn(run', profile)
         /\ IsSequence(up')
         /\ CallsEnd(run', profile, up', panel') /\ RestEnds(run', profile, up', panel', down')
  <1> DEFINE switched == profile # hook.profile
             next == [hook EXCEPT !.profile = profile, !.chains = chains,
                                  !.recent = IF switched THEN {} ELSE @,
                                  !.debounce = @ /\ ~ switched]
             rest == IF switched THEN PushesOfSwitch(profile) ELSE <<>>
             t == Untold(next)
  <1>1. /\ run' = IF StopsRuns(profile, chains) THEN AllStopped(run) ELSE run
        /\ Tells(t, PagesInBetween, rest)
    BY DEF Updated
  <1>2. RunsInv' /\ RunsProceed /\ OthersGoOn
    BY <1>1, StopAllProceeds, SameProceeds, ProceedGoOn
  <1>3. /\ next \in Hooks /\ next.profile = profile
        /\ switched => next.recent = {}
        /\ ~ switched => next.recent = hook.recent
    BY DEF Hooks
  <1>4. t.hook = next /\ t.pushes = <<>>
    BY UntoldIs
  <1> HIDE DEF t, next
  <1>5. Fits(PagesInBetween)
    BY <1>1, InBetweenFits
  <1>6. t.hook.recent \subseteq RunsIn(run', profile)
    <2>1. RunsIn(run, profile) \subseteq RunsIn(run', profile)
      BY <1>2, GoOn
    <2> QED
      BY <1>3, <1>4, <2>1
  <1>7. hook'.profile = profile => LoadMatchesProfile'
    <2>1. CASE StopsRuns(profile, chains)
      <3>1. \A r \in Runs : run'[r].state # "RUNNING"
        BY <1>1, <2>1, StopAllProceeds
      <3> QED
        BY <3>1 DEF LoadMatchesProfile
    <2>2. CASE ~ StopsRuns(profile, chains)
      <3>1. run' = run /\ profile = hook.profile
        BY <1>1, <2>2 DEF StopsRuns
      <3> QED
        BY <3>1 DEF LoadMatchesProfile
    <2> QED
      BY <2>1, <2>2
  <1>8. CASE switched
    <2> DEFINE push == Push({FALSE}, {ActiveStats(run', profile)}, {{}})
    <2>1. rest = <<push>>
      BY <1>8 DEF PushesOfSwitch
    <2>2. /\ push["running"] = {FALSE} /\ push["recent"] = {{}}
          /\ push["stats"] = {ActiveStats(run', profile)}
      BY DEF Push
    <2>3. ActiveRuns(run', profile) = {} => ActiveStats(run', profile) = Zero
      BY DEF ActiveStats, Zero, MapThenSumSet, MapThenFoldSet
    <2> HIDE DEF push, rest
    <2>4. IsSequence(rest) /\ Len(rest) = 1 /\ rest[1] = push
      BY <2>1, OneByOne
    <2>5. 1 \in 1..Len(rest) /\ \A j \in (1 + 1)..Len(rest) : FALSE
      BY <2>4
    <2>6. Speaks(rest, "recent", {{}}) /\ Speaks(rest, "running", {FALSE})
      BY <2>2, <2>4, <2>5 DEF Speaks
    <2>7. ActiveRuns(run', profile) = {} => Speaks(rest, "stats", {Zero})
      BY <2>2, <2>3, <2>4, <2>5 DEF Speaks
    <2>8. /\ hook' \in Hooks /\ hook'.profile = profile
          /\ hook'.recent \subseteq RunsIn(run', profile)
          /\ IsSequence(up')
          /\ CallsEnd(run', profile, up', panel') /\ RestEnds(run', profile, up', panel', down')
      <3>1. /\ t.hook \in Hooks /\ t.hook.profile = profile /\ link' # "away"
            /\ Tells(t, PagesInBetween, rest)
        BY <1>1, <1>3, <1>4 DEF rest
      <3> QED
        BY <1>2, <1>4, <1>5, <1>6, <2>4, <2>6, <2>7, <3>1, ShowsKeep
    <2> QED
      BY <1>2, <1>7, <2>8
  <1>9. CASE ~ switched
    <2>1. rest = <<>> /\ profile = hook.profile
      BY <1>9
    <2> HIDE DEF rest
    <2>2. IsSequence(rest) /\ Silent(rest, "recent")
      BY <2>1, OneByOne DEF Silent
    <2>3. CallsEnd(run, profile, up, panel') /\ RestEnds(run, profile, up, panel', d)
      BY <2>1
    <2>4. /\ hook' \in Hooks /\ hook'.profile = profile
          /\ hook'.recent \subseteq RunsIn(run', profile)
          /\ IsSequence(up')
          /\ CallsEnd(run', profile, up', panel') /\ RestEnds(run', profile, up', panel', down')
      <3>1. /\ t.hook \in Hooks /\ t.hook.profile = profile /\ link' # "away"
            /\ Tells(t, PagesInBetween, rest)
        BY <1>1, <1>3, <1>4 DEF rest
      <3> QED
        BY <1>2, <1>4, <1>5, <1>6, <2>1, <2>2, <2>3, <3>1, ShowsKeep
    <2> QED
      BY <1>2, <1>7, <2>4
  <1> QED
    BY <1>8, <1>9

LEMMA HandlePatchKeeps ==
  ASSUME PanelInv, HandlePatch
  PROVE  PanelInv'
  <1> DEFINE profile == Head(down).profile
             chains == Head(down).chains
  <1>1. /\ RunsInv /\ PanelTyped /\ IsSequence(up) /\ hook \in Hooks
        /\ hook.recent \subseteq RunsIn(run, hook.profile) /\ LoadMatchesProfile
    BY DEF PanelInv, PanelTyped
  <1>2. Receive("patch") /\ Updated(profile, chains)
    BY DEF HandlePatch, Received
  <1>3. /\ link = "up" /\ link' = "up" /\ panel' = panel
        /\ IsSequence(down) /\ down # <<>> /\ Head(down).kind = "patch"
        /\ down' = Tail(down) /\ down' \in Seq(Events)
        /\ profile \in Profiles /\ chains \in Chains
    BY <1>1, <1>2, EventReceived
  <1>4. /\ DownFits(down, hook.profile, panel.profile)
        /\ CallsEnd(run, hook.profile, up, panel')
        /\ RestEnds(run, hook.profile, up, panel', down)
    BY <1>3 DEF PanelInv
  <1>5. DownFits(down', profile, panel.profile) /\ (Starting(down) => Starting(down'))
    BY <1>3, <1>4, DownHandled
  <1> HIDE DEF profile, chains
  <1>6. /\ RunsInv' /\ LoadMatchesProfile'
        /\ hook' \in Hooks /\ hook'.profile = profile
        /\ hook'.recent \subseteq RunsIn(run', profile)
        /\ IsSequence(up')
        /\ CallsEnd(run', profile, up', panel') /\ RestEnds(run', profile, up', panel', down')
    <2>1. link # "away"
      BY <1>3
    <2> QED
      BY <1>1, <1>2, <1>3, <1>4, <1>5, <2>1, UpdatedKeeps
  <1>7. PanelTyped'
    BY <1>1, <1>3, <1>6 DEF PanelTyped, Links
  <1> QED
    BY <1>3, <1>5, <1>6, <1>7 DEF PanelInv

LEMMA ReconnectKeeps ==
  ASSUME PanelInv, NEW profile \in Profiles, NEW chains \in Chains, Reconnect(profile, chains)
  PROVE  PanelInv'
  <1>1. /\ RunsInv /\ PanelTyped /\ IsSequence(up) /\ hook \in Hooks
        /\ hook.recent \subseteq RunsIn(run, hook.profile) /\ LoadMatchesProfile
        /\ link = "down" /\ up = <<>> /\ down = <<>>
    BY DEF PanelInv, PanelTyped, Reconnect
  <1>2. /\ link' = "up" /\ panel' = Fresh(profile, chains) /\ Updated(profile, chains)
        /\ down' = down
    BY DEF Reconnect
  <1>3. /\ panel'.profile = profile /\ panel'.running = FALSE /\ panel'.stats = Zero
        /\ panel'.recent = {}
        /\ panel' = [profile |-> panel'.profile, chains |-> panel'.chains,
                     running |-> panel'.running, stats |-> panel'.stats,
                     recent |-> panel'.recent]
    BY <1>2 DEF Fresh
  <1>4. CallsEnd(run, profile, up, panel') /\ RestEnds(run, profile, up, panel', down)
    <2>1. /\ Ends(<<>>, "stats", Zero, {Zero}) /\ Ends(<<>>, "running", FALSE, {FALSE})
          /\ Ends(<<>>, "recent", {}, SUBSET RunsIn(run, profile))
      BY OneByOne DEF Ends
    <2> QED
      BY <1>1, <1>3, <2>1 DEF CallsEnd, RestEnds
  <1>5. /\ RunsInv' /\ LoadMatchesProfile'
        /\ hook' \in Hooks /\ hook'.profile = profile
        /\ hook'.recent \subseteq RunsIn(run', profile)
        /\ IsSequence(up')
        /\ CallsEnd(run', profile, up', panel') /\ RestEnds(run', profile, up', panel', down')
    <2>1. link # "away" /\ (Starting(down) => Starting(down'))
      BY <1>1, <1>2
    <2> QED
      BY <1>1, <1>2, <1>4, <2>1, UpdatedKeeps
  <1>6. DownFits(down', profile, panel'.profile)
    BY <1>1, <1>2, <1>3, DownEmpty
  <1>7. PanelTyped'
    BY <1>1, <1>2, <1>3, <1>5 DEF PanelTyped, Links
  <1> QED
    BY <1>2, <1>5, <1>6, <1>7 DEF PanelInv

LEMMA HandleStartKeeps ==
  ASSUME PanelInv, HandleStart
  PROVE  PanelInv'
  <1> DEFINE config == Head(down).config
             cleared == [hook EXCEPT !.recent = {}]
             p == hook.profile
             started == <<Push({TRUE}, {}, {})>>
  <1>1. /\ RunsInv /\ PanelTyped /\ IsSequence(up) /\ hook \in Hooks /\ LoadMatchesProfile
    BY DEF PanelInv, PanelTyped
  <1>2. /\ Receive("start")
        /\ \E r \in Runs :
             \/ /\ StartRun(r, config)
                /\ Tells(TrackActivity(Untold(cleared), Logged(r, run')), PagesAtEnd, started)
             \/ /\ \E made \in 0..MaxSockets : StartFails(r, config, made)
                /\ Tells(Untold(cleared), PagesAtEnd, <<>>)
    BY DEF HandleStart, Received
  <1>3. /\ link = "up" /\ link' = link /\ panel' = panel
        /\ IsSequence(down) /\ down # <<>> /\ Head(down).kind = "start"
        /\ down' = Tail(down) /\ down' \in Seq(Events) /\ config \in Configs
    BY <1>1, <1>2, EventReceived
  <1>4. /\ DownFits(down, p, panel.profile) /\ CallsEnd(run, p, up, panel')
        /\ RestEnds(run, p, up, panel', down)
    BY <1>3 DEF PanelInv
  <1>5. config.profile = p /\ DownFits(down', p, panel.profile)
    BY <1>3, <1>4, DownHandled
  <1>6. cleared \in Hooks /\ cleared.profile = p /\ cleared.recent = {}
    BY <1>1 DEF Hooks
  <1> HIDE DEF config, cleared, started
  <1>7. PICK r \in Runs :
          \/ /\ StartRun(r, config)
             /\ Tells(TrackActivity(Untold(cleared), Logged(r, run')), PagesAtEnd, started)
          \/ /\ \E made \in 0..MaxSockets : StartFails(r, config, made)
             /\ Tells(Untold(cleared), PagesAtEnd, <<>>)
    BY <1>2
  <1>8. ASSUME RunsInv', Starts(r, config), hook'.profile = p
        PROVE  LoadMatchesProfile'
    <2>1. ASSUME NEW s \in Runs, run'[s].state = "RUNNING"
          PROVE  run'[s].config.profile = p
      BY <1>1, <1>5, <1>8, <2>1 DEF Starts, LoadMatchesProfile
    <2> QED
      BY <1>3, <1>8, <2>1 DEF LoadMatchesProfile
  <1>9. ASSUME RunsInv', Starts(r, config),
               hook' \in Hooks, hook'.profile = p, hook'.recent \subseteq RunsIn(run', p),
               IsSequence(up'),
               CallsEnd(run', p, up', panel'), RestEnds(run', p, up', panel', down')
        PROVE  PanelInv'
    <2>1. LoadMatchesProfile'
      BY <1>8, <1>9
    <2>2. PanelTyped'
      BY <1>1, <1>3, <1>9 DEF PanelTyped
    <2> QED
      BY <1>3, <1>5, <1>9, <2>1, <2>2 DEF PanelInv
  <1>10. CASE /\ StartRun(r, config)
              /\ Tells(TrackActivity(Untold(cleared), Logged(r, run')), PagesAtEnd, started)
    <2> DEFINE t == TrackActivity(Untold(cleared), Logged(r, run'))
    <2>1. RunsInv' /\ Starts(r, config) /\ run'[r].state = "RUNNING" /\ OthersGoOn
      BY <1>1, <1>3, <1>10, StartProceeds, StartGoOn
    <2>2. /\ t.hook \in Hooks /\ t.hook.profile = p /\ t.pushes = <<>>
          /\ t.hook.recent \subseteq {s \in {r} : run'[s].config.profile = p}
      BY <1>6, LogsACall
    <2>3. Tells(t, PagesAtEnd, started)
      BY <1>10
    <2> HIDE DEF t
    <2>4. t.hook.recent \subseteq RunsIn(run', p)
      BY <2>1, <2>2 DEF RunsIn
    <2>5. ActiveRuns(run', p) # {}
      <3>1. run'[r].config.profile = p
        BY <1>5, <2>1 DEF Starts
      <3>2. Active(run', r)
        BY <2>1 DEF RunsInv, Inv, Good, StopsOnce, Active, IsActive
      <3> QED
        BY <3>1, <3>2 DEF ActiveRuns
    <2>6. IsSequence(started) /\ Silent(started, "recent")
      <3> DEFINE push == Push({TRUE}, {}, {})
      <3>1. IsSequence(started) /\ Len(started) = 1 /\ started[1] = push
        BY OneByOne DEF started
      <3>2. push["recent"] = {}
        BY DEF Push
      <3> HIDE DEF push
      <3> QED
        BY <3>1, <3>2 DEF Silent
    <2>7. /\ hook' \in Hooks /\ hook'.profile = p /\ hook'.recent \subseteq RunsIn(run', p)
          /\ IsSequence(up')
          /\ CallsEnd(run', p, up', panel') /\ RestEnds(run', p, up', panel', down')
      <3>1. link' # "away" /\ link' = "up"
        BY <1>3
      <3> QED
        BY <1>1, <1>4, <2>1, <2>2, <2>3, <2>4, <2>5, <2>6, <3>1, AtEndFits, ShowsKeep
    <2> QED
      BY <1>9, <2>1, <2>7
  <1>11. ASSUME NEW made \in 0..MaxSockets, StartFails(r, config, made),
                Tells(Untold(cleared), PagesAtEnd, <<>>)
         PROVE  PanelInv'
    <2> DEFINE t == Untold(cleared)
    <2>1. /\ RunsInv' /\ Starts(r, config) /\ OthersGoOn
          /\ run'[r].state \in {"STOPPING", "STOPPED"}
      BY <1>1, <1>3, <1>11, StartFailsProceeds, StartGoOn
    <2>2. t.hook = cleared /\ t.pushes = <<>>
      BY UntoldIs
    <2>3. Tells(t, PagesAtEnd, <<>>)
      BY <1>11
    <2> HIDE DEF t
    <2>4. t.hook.recent \subseteq RunsIn(run', p)
      BY <1>6, <2>2
    <2>5. ActiveRuns(run', p) = {} => StopsOf(p) # {}
      <3>1. run'[r].config.profile = p
        BY <1>5, <2>1 DEF Starts
      <3>2. run'[r].state = "STOPPING" => Active(run', r)
        BY <2>1 DEF RunsInv, Inv, Good, StopsOnce, Active, IsActive
      <3>3. run'[r].state = "STOPPED" => r \in StopsOf(p)
        BY <2>1, <3>1 DEF StopsOf, StoppedBy, Starts
      <3> QED
        BY <2>1, <3>1, <3>2, <3>3 DEF ActiveRuns
    <2>6. IsSequence(<<>>) /\ Silent(<<>>, "recent")
      BY OneByOne DEF Silent
    <2>7. /\ hook' \in Hooks /\ hook'.profile = p /\ hook'.recent \subseteq RunsIn(run', p)
          /\ IsSequence(up')
          /\ CallsEnd(run', p, up', panel') /\ RestEnds(run', p, up', panel', down')
      <3>1. link' # "away" /\ link' = "up" /\ t.hook \in Hooks /\ t.hook.profile = p
        BY <1>3, <1>6, <2>2
      <3> QED
        BY <1>1, <1>4, <2>1, <2>2, <2>3, <2>4, <2>5, <2>6, <3>1, AtEndFits, ShowsKeep
    <2> QED
      BY <1>9, <2>1, <2>7
  <1> QED
    BY <1>7, <1>10, <1>11

-----------------------------------------------------------------------------
(* Clicks, which the component answers at once.                            *)
LEMMA ClickKeeps ==
  ASSUME PanelInv, Click, NEW d, d \in Seq(Events), down' = d,
         panel' = [profile |-> panel'.profile, chains |-> panel'.chains,
                   running |-> panel'.running, stats |-> panel'.stats,
                   recent |-> panel'.recent],
         DownFits(d, hook.profile, panel'.profile),
         panel'.recent \in {panel.recent, {}}, panel'.stats \in {panel.stats, Zero},
         panel'.running \in {panel.running, FALSE} \/ Starting(d),
         Starting(down) => Starting(d)
  PROVE  PanelInv'
  <1> DEFINE p == hook.profile
  <1>1. /\ run' = run /\ hook' = hook /\ link' = link /\ up' = up /\ link = "up"
    BY DEF Click
  <1>2. /\ RunsInv /\ PanelTyped /\ LoadMatchesProfile
        /\ hook.recent \subseteq RunsIn(run, p)
        /\ CallsEnd(run, p, up, panel) /\ RestEnds(run, p, up, panel, down)
    BY <1>1 DEF PanelInv
  <1>3. CallsEnd(run, p, up, panel')
    <2> DEFINE Calls == SUBSET RunsIn(run, p)
    <2>1. {} \in Calls
      OBVIOUS
    <2> HIDE DEF Calls
    <2>2. Ends(up, "recent", panel.recent, Calls)
      BY <1>2 DEF CallsEnd, Calls
    <2>3. Ends(up, "recent", {}, Calls)
      BY <2>1, <2>2, EndsAgain
    <2> QED
      BY <2>2, <2>3 DEF CallsEnd, Calls
  <1>4. RestEnds(run, p, up, panel', d)
    <2> SUFFICES ASSUME ActiveRuns(run, p) = {}
                 PROVE  /\ Ends(up, "stats", panel'.stats, {Zero})
                        /\ Ends(up, "running", panel'.running, {FALSE}) \/ Starting(d)
      BY DEF RestEnds
    <2>1. /\ Ends(up, "stats", panel.stats, {Zero})
          /\ Ends(up, "running", panel.running, {FALSE}) \/ Starting(d)
      BY <1>2 DEF RestEnds
    <2>2. Ends(up, "stats", Zero, {Zero})
      <3>1. Zero \in {Zero}
        OBVIOUS
      <3> QED
        BY <2>1, <3>1, EndsAgain
    <2>3. Ends(up, "running", panel.running, {FALSE}) => Ends(up, "running", FALSE, {FALSE})
      <3>1. FALSE \in {FALSE}
        OBVIOUS
      <3> QED
        BY <3>1, EndsAgain
    <2> QED
      BY <2>1, <2>2, <2>3
  <1>5. RunsInv'
    BY <1>1, <1>2, SameProceeds
  <1>6. PanelTyped'
    BY <1>1, <1>2 DEF PanelTyped
  <1>7. LoadMatchesProfile'
    BY <1>1, <1>2 DEF LoadMatchesProfile
  <1> QED
    BY <1>1, <1>2, <1>3, <1>4, <1>5, <1>6, <1>7 DEF PanelInv

LEMMA EventSent ==
  ASSUME PanelInv, link = "up", NEW e \in Events
  PROVE  LET w == Append(down, e)
         IN  /\ w \in Seq(Events)
             /\ e.kind = "start" /\ e.config.profile = panel.profile =>
                  DownFits(w, hook.profile, panel.profile)
             /\ e.kind = "stop" => DownFits(w, hook.profile, panel.profile)
             /\ e.kind = "patch" => DownFits(w, hook.profile, e.profile)
             /\ e.kind = "start" \/ Starting(down) => Starting(w)
  <1>1. down \in Seq(Events) /\ DownFits(down, hook.profile, panel.profile)
    BY DEF PanelInv, PanelTyped
  <1>2. IsSequence(down)
    BY <1>1, SequencesAre
  <1>3. Append(down, e) = down \o <<e>> /\ Append(down, e) \in Seq(Events)
    BY <1>1, <1>2, Added
  <1> QED
    BY <1>1, <1>2, <1>3, DownAdded

LEMMA ClicksKeep ==
  ASSUME PanelInv,
         \/ ClickStop \/ ClearLogs \/ SwitchTabs
         \/ \E config \in Configs : ClickStart(config)
         \/ \E profile \in Profiles, chains \in Chains : Repage(profile, chains)
  PROVE  PanelInv'
  <1>1. PanelTyped /\ down \in Seq(Events)
    BY DEF PanelInv, PanelTyped
  <1>2. ASSUME ClickStop PROVE PanelInv'
    <2> DEFINE e == [kind |-> "stop"]
    <2>1. /\ Click /\ link = "up" /\ panel' = [panel EXCEPT !.running = FALSE]
          /\ down' = Append(down, e)
      BY <1>2 DEF ClickStop, Click
    <2>2. e \in Events /\ e.kind = "stop"
      BY DEF Events
    <2> HIDE DEF e
    <2>3. /\ down' \in Seq(Events) /\ DownFits(down', hook.profile, panel.profile)
          /\ Starting(down) => Starting(down')
      BY <2>1, <2>2, EventSent
    <2>4. /\ panel'.profile = panel.profile /\ panel'.running = FALSE
          /\ panel'.stats = panel.stats /\ panel'.recent = panel.recent
          /\ panel' = [profile |-> panel'.profile, chains |-> panel'.chains,
                       running |-> panel'.running, stats |-> panel'.stats,
                       recent |-> panel'.recent]
      BY <1>1, <2>1 DEF PanelTyped
    <2> QED
      BY <2>1, <2>3, <2>4, ClickKeeps
  <1>3. ASSUME ClearLogs PROVE PanelInv'
    <2>1. Click /\ link = "up" /\ panel' = [panel EXCEPT !.recent = {}] /\ down' = down
      BY <1>3 DEF ClearLogs, Click
    <2>2. DownFits(down', hook.profile, panel.profile)
      BY <2>1 DEF PanelInv
    <2>3. /\ panel'.profile = panel.profile /\ panel'.running = panel.running
          /\ panel'.stats = panel.stats /\ panel'.recent = {}
          /\ panel' = [profile |-> panel'.profile, chains |-> panel'.chains,
                       running |-> panel'.running, stats |-> panel'.stats,
                       recent |-> panel'.recent]
      BY <1>1, <2>1 DEF PanelTyped
    <2> QED
      BY <1>1, <2>1, <2>2, <2>3, ClickKeeps
  <1>4. ASSUME SwitchTabs PROVE PanelInv'
    <2>1. /\ Click /\ link = "up" /\ panel' = Fresh(panel.profile, panel.chains)
          /\ down' = down
      BY <1>4 DEF SwitchTabs, Click
    <2>2. DownFits(down', hook.profile, panel.profile)
      BY <2>1 DEF PanelInv
    <2>3. /\ panel'.profile = panel.profile /\ panel'.running = FALSE
          /\ panel'.stats = Zero /\ panel'.recent = {}
          /\ panel' = [profile |-> panel'.profile, chains |-> panel'.chains,
                       running |-> panel'.running, stats |-> panel'.stats,
                       recent |-> panel'.recent]
      BY <2>1 DEF Fresh
    <2> QED
      BY <1>1, <2>1, <2>2, <2>3, ClickKeeps
  <1>5. ASSUME NEW config \in Configs, ClickStart(config) PROVE PanelInv'
    <2> DEFINE e == [kind |-> "start", config |-> config]
    <2>1. /\ Click /\ link = "up" /\ panel' = [panel EXCEPT !.running = TRUE]
          /\ config.profile = panel.profile /\ down' = Append(down, e)
      BY <1>5 DEF ClickStart, Click
    <2>2. e \in Events /\ e.kind = "start" /\ e.config = config
      BY DEF Events
    <2> HIDE DEF e
    <2>3. /\ down' \in Seq(Events) /\ DownFits(down', hook.profile, panel.profile)
          /\ Starting(down')
      BY <2>1, <2>2, EventSent
    <2>4. /\ panel'.profile = panel.profile
          /\ panel'.stats = panel.stats /\ panel'.recent = panel.recent
          /\ panel' = [profile |-> panel'.profile, chains |-> panel'.chains,
                       running |-> panel'.running, stats |-> panel'.stats,
                       recent |-> panel'.recent]
      BY <1>1, <2>1 DEF PanelTyped
    <2> QED
      BY <2>1, <2>3, <2>4, ClickKeeps
  <1>6. ASSUME NEW profile \in Profiles, NEW chains \in Chains, Repage(profile, chains)
        PROVE  PanelInv'
    <2> DEFINE e == [kind |-> "patch", profile |-> profile, chains |-> chains]
    <2>1. /\ Click /\ link = "up"
          /\ panel' = [panel EXCEPT !.profile = profile, !.chains = chains]
          /\ down' = Append(down, e)
      BY <1>6 DEF Repage, Click
    <2>2. e \in Events /\ e.kind = "patch" /\ e.profile = profile
      BY DEF Events
    <2> HIDE DEF e
    <2>3. /\ down' \in Seq(Events) /\ DownFits(down', hook.profile, profile)
          /\ Starting(down) => Starting(down')
      BY <2>1, <2>2, EventSent
    <2>4. /\ panel'.profile = profile /\ panel'.running = panel.running
          /\ panel'.stats = panel.stats /\ panel'.recent = panel.recent
          /\ panel' = [profile |-> panel'.profile, chains |-> panel'.chains,
                       running |-> panel'.running, stats |-> panel'.stats,
                       recent |-> panel'.recent]
      BY <1>1, <2>1 DEF PanelTyped
    <2> QED
      BY <2>1, <2>3, <2>4, ClickKeeps
  <1> QED
    BY <1>2, <1>3, <1>4, <1>5, <1>6

-----------------------------------------------------------------------------
(* The socket is lost, the page is left and shown again.                   *)
LEMMA LostKeeps ==
  ASSUME PanelInv, NEW profile \in Profiles, NEW chains \in Chains,
         Disconnect \/ Leave \/ Return(profile, chains)
  PROVE  PanelInv'
  <1>1. /\ RunsInv /\ PanelTyped /\ LoadMatchesProfile
        /\ hook.recent \subseteq RunsIn(run, hook.profile)
    BY DEF PanelInv
  <1>2. IsSequence(<<>>) /\ <<>> \in Seq(Events)
    BY OneByOne
  <1>3. CASE Disconnect
    <2>1. /\ run' = run /\ hook' = hook /\ panel' = panel /\ link' = "down"
          /\ link = "up" /\ up' = <<>> /\ down' = <<>>
      BY <1>3 DEF Disconnect, Break
    <2>2. RunsInv'
      BY <1>1, <2>1, SameProceeds
    <2>3. PanelTyped'
      BY <1>1, <1>2, <2>1 DEF PanelTyped, Links
    <2>4. LoadMatchesProfile'
      BY <1>1, <2>1 DEF LoadMatchesProfile
    <2> QED
      BY <1>1, <2>1, <2>2, <2>3, <2>4 DEF PanelInv
  <1>4. CASE Leave
    <2>1. /\ run' = AllStopped(run) /\ panel' = panel /\ link' = "away"
          /\ hook' = [hook EXCEPT !.recent = {}, !.debounce = FALSE]
          /\ up' = <<>> /\ down' = <<>>
      BY <1>4 DEF Leave, Break
    <2>2. RunsInv' /\ \A r \in Runs : run'[r].state # "RUNNING"
      BY <1>1, <2>1, StopAllProceeds
    <2>3. hook' \in Hooks /\ hook'.recent = {}
      BY <1>1, <2>1 DEF PanelTyped, Hooks
    <2>4. PanelTyped'
      BY <1>1, <1>2, <2>1, <2>3 DEF PanelTyped, Links
    <2>5. LoadMatchesProfile'
      BY <2>2 DEF LoadMatchesProfile
    <2> QED
      BY <2>1, <2>2, <2>3, <2>4, <2>5 DEF PanelInv
  <1>5. CASE Return(profile, chains)
    <2>1. /\ run' = run /\ link' = "up" /\ panel' = Fresh(profile, chains)
          /\ hook' = [profile |-> profile, chains |-> chains, recent |-> {}, debounce |-> FALSE]
          /\ up' = <<>> /\ down' = <<>> /\ link = "away"
      BY <1>5 DEF Return, PanelInv
    <2>2. RunsInv'
      BY <1>1, <2>1, SameProceeds
    <2>3. hook' \in Hooks /\ hook'.recent = {} /\ hook'.profile = profile
      BY <2>1 DEF Hooks
    <2>4. /\ panel'.profile = profile /\ panel'.running = FALSE /\ panel'.stats = Zero
          /\ panel'.recent = {}
          /\ panel' = [profile |-> panel'.profile, chains |-> panel'.chains,
                       running |-> panel'.running, stats |-> panel'.stats,
                       recent |-> panel'.recent]
      BY <2>1 DEF Fresh
    <2>5. PanelTyped'
      BY <1>2, <2>1, <2>3, <2>4 DEF PanelTyped, Links
    <2>6. LoadMatchesProfile'
      BY <1>1, <2>1 DEF LoadMatchesProfile
    <2>7. DownFits(<<>>, profile, profile)
      BY DownEmpty
    <2>8. CallsEnd(run', profile, up', panel') /\ RestEnds(run', profile, up', panel', down')
      <3>1. /\ Ends(<<>>, "stats", Zero, {Zero}) /\ Ends(<<>>, "running", FALSE, {FALSE})
            /\ Ends(<<>>, "recent", {}, SUBSET RunsIn(run', profile))
        BY OneByOne DEF Ends
      <3> QED
        BY <2>1, <2>4, <3>1 DEF CallsEnd, RestEnds
    <2> QED
      BY <2>1, <2>2, <2>3, <2>4, <2>5, <2>6, <2>7, <2>8 DEF PanelInv
  <1> QED
    BY <1>3, <1>4, <1>5

LEMMA PanelBegins ==
  ASSUME PanelInit
  PROVE  PanelInv
  <1>1. PICK profile \in Profiles, chains \in Chains :
          /\ panel = Fresh(profile, chains)
          /\ hook = [profile |-> profile, chains |-> chains, recent |-> {}, debounce |-> FALSE]
    BY DEF PanelInit
  <1>2. Init /\ link = "up" /\ up = <<>> /\ down = <<>>
    BY DEF PanelInit
  <1>3. /\ Absent.state = "ABSENT" /\ Absent.outstanding = 0
        /\ \A i \in Sockets : Absent.socket[i] = "none"
    BY DEF Absent, Constructed
  <1>4. \A r \in Runs : run[r] = Absent
    BY <1>2 DEF Init
  <1>5. RunsInv
    BY <1>2, <1>3, <1>4, InitGood DEF RunsInv, Kept
  <1>6. LoadMatchesProfile
    BY <1>3, <1>4 DEF LoadMatchesProfile
  <1>7. /\ panel.profile = profile /\ panel.running = FALSE /\ panel.stats = Zero
        /\ panel.recent = {}
        /\ panel = [profile |-> panel.profile, chains |-> panel.chains,
                    running |-> panel.running, stats |-> panel.stats,
                    recent |-> panel.recent]
    BY <1>1 DEF Fresh
  <1>8. hook \in Hooks /\ hook.recent = {} /\ hook.profile = profile
    BY <1>1 DEF Hooks
  <1>9. PanelTyped
    <2>1. IsSequence(<<>>) /\ <<>> \in Seq(Events)
      BY OneByOne
    <2> QED
      BY <1>2, <1>7, <1>8, <2>1 DEF PanelTyped, Links
  <1>10. CallsEnd(run, profile, up, panel) /\ RestEnds(run, profile, up, panel, down)
    <2>1. /\ Ends(<<>>, "stats", Zero, {Zero}) /\ Ends(<<>>, "running", FALSE, {FALSE})
          /\ Ends(<<>>, "recent", {}, SUBSET RunsIn(run, profile))
      BY OneByOne DEF Ends
    <2> QED
      BY <1>2, <1>7, <2>1 DEF CallsEnd, RestEnds
  <1>11. DownFits(<<>>, profile, profile)
    BY DownEmpty
  <1> QED
    BY <1>2, <1>5, <1>6, <1>7, <1>8, <1>9, <1>10, <1>11 DEF PanelInv

LEMMA PanelStays ==
  ASSUME PanelInv, UNCHANGED allVars
  PROVE  PanelInv'
  <1>1. /\ run' = run /\ hook' = hook /\ link' = link /\ up' = up /\ down' = down
        /\ panel' = panel
    BY DEF allVars, panelVars
  <1>2. RunsInv'
    BY <1>1, SameProceeds DEF PanelInv
  <1>3. PanelTyped' /\ LoadMatchesProfile'
    BY <1>1 DEF PanelInv, PanelTyped, LoadMatchesProfile
  <1> QED
    BY <1>1, <1>2, <1>3 DEF PanelInv

LEMMA PanelNextKeeps ==
  ASSUME PanelInv, [PanelNext]_allVars
  PROVE  PanelInv'
  <1>1. ASSUME NEW r \in Runs, Logging(r) \/ TimerFires(r) PROVE PanelInv'
    BY <1>1, LoggingKeeps, TimerKeeps
  <1>2. ASSUME StatsInterval \/ ImmediateUpdate \/ ApplyPush PROVE PanelInv'
    BY <1>2, StatsKeeps, ImmediateKeeps, ApplyKeeps
  <1>3. ASSUME HandleStart \/ HandleStop \/ HandlePatch PROVE PanelInv'
    BY <1>3, HandleStartKeeps, HandleStopKeeps, HandlePatchKeeps
  <1>4. ASSUME ClickStop \/ ClearLogs \/ SwitchTabs PROVE PanelInv'
    BY <1>4, ClicksKeep
  <1>5. ASSUME NEW config \in Configs, ClickStart(config) PROVE PanelInv'
    BY <1>5, ClicksKeep
  <1>6. ASSUME NEW profile \in Profiles, NEW chains \in Chains,
               Repage(profile, chains) \/ Reconnect(profile, chains) \/ Return(profile, chains)
        PROVE  PanelInv'
    BY <1>6, ClicksKeep, ReconnectKeeps, LostKeeps
  <1>7. ASSUME Disconnect \/ Leave PROVE PanelInv'
    <2>1. PICK profile \in Profiles, chains \in Chains : TRUE
      <3>1. hook.profile \in Profiles /\ hook.chains \in Chains
        BY DEF PanelInv, PanelTyped, Hooks
      <3> QED
        BY <3>1
    <2> QED
      BY <1>7, <2>1, LostKeeps
  <1> QED
    BY <1>1, <1>2, <1>3, <1>4, <1>5, <1>6, <1>7, PanelStays DEF PanelNext

(* Once every push has arrived and no run of the shown profile is left, the *)
(* component (simulator_controls.ex) shows a tester at rest.               *)
THEOREM PanelRests == PanelSpec => []PanelComesToRest
  <1>1. PanelInit => PanelInv
    BY PanelBegins
  <1>2. PanelInv /\ [PanelNext]_allVars => PanelInv'
    BY PanelNextKeeps
  <1>3. PanelInv => PanelComesToRest
    BY InvComesToRest
  <1> QED
    BY <1>1, <1>2, <1>3, PTL DEF PanelSpec

(* The hook of the page (assets/js/app.js) loads and tells of the shown    *)
(* profile only, across switches, lost sockets and pages that are left.    *)
THEOREM PanelIsOfProfile == PanelSpec => []PanelKeepsToProfile
  <1>1. PanelInit => PanelInv
    BY PanelBegins
  <1>2. PanelInv /\ [PanelNext]_allVars => PanelInv'
    BY PanelNextKeeps
  <1>3. PanelInv => PanelKeepsToProfile
    BY InvKeepsToProfile
  <1> QED
    BY <1>1, <1>2, <1>3, PTL DEF PanelSpec

(* What the panel does to the runs is what the tester allows.              *)
LEMMA UpdatedRuns ==
  ASSUME NEW profile, NEW chains, Updated(profile, chains)
  PROVE  [Next]_run
  BY DEF Updated, Next, Commands, StopAllRuns

LEMMA PanelRuns ==
  ASSUME PanelInv, [PanelNext]_allVars
  PROVE  [Next]_run
  <1>1. ASSUME NEW r \in Runs, Logging(r) \/ TimerFires(r) PROVE [Next]_run
    BY <1>1 DEF Logging, TimerFires, SocketNotifies, Page, Next
  <1>2. ASSUME StatsInterval \/ ImmediateUpdate \/ ApplyPush PROVE [Next]_run
    BY <1>2 DEF StatsInterval, ImmediateUpdate, ApplyPush
  <1>3. ASSUME HandleStart PROVE [Next]_run
    <2>1. Receive("start") /\ PanelTyped
      BY <1>3 DEF HandleStart, PanelInv
    <2>2. Received.config \in Configs
      BY <2>1, EventReceived DEF Received
    <2> QED
      BY <1>3, <2>2 DEF HandleStart, Next, Commands
  <1>4. ASSUME HandleStop \/ HandlePatch PROVE [Next]_run
    BY <1>4, UpdatedRuns DEF HandleStop, HandlePatch, Next, Commands
  <1>5. ASSUME NEW profile \in Profiles, NEW chains \in Chains,
               Repage(profile, chains) \/ Reconnect(profile, chains) \/ Return(profile, chains)
        PROVE  [Next]_run
    BY <1>5, UpdatedRuns DEF Repage, Click, Reconnect, Return
  <1>6. ASSUME ClickStop \/ ClearLogs \/ SwitchTabs \/ \E config \in Configs : ClickStart(config)
        PROVE  [Next]_run
    BY <1>6 DEF ClickStop, ClearLogs, SwitchTabs, ClickStart, Click
  <1>7. ASSUME Disconnect \/ Leave PROVE [Next]_run
    BY <1>7 DEF Disconnect, Leave, Next, Commands, StopAllRuns
  <1>8. ASSUME UNCHANGED allVars PROVE [Next]_run
    BY <1>8 DEF allVars
  <1> QED
    BY <1>1, <1>2, <1>3, <1>4, <1>5, <1>6, <1>7, <1>8 DEF PanelNext

(* The panel runs the tester as SimulatorManager allows: every behaviour   *)
(* of the page, its hook and its socket is one of Simulator, so that the   *)
(* accounts and reports of its runs are those proved above.                *)
THEOREM PanelRunsTheTester == PanelSpec => Spec
  <1>1. PanelInit => PanelInv /\ Init
    BY PanelBegins DEF PanelInit
  <1>2. PanelInv /\ [PanelNext]_allVars => PanelInv' /\ [Next]_run
    BY PanelNextKeeps, PanelRuns
  <1> QED
    BY <1>1, <1>2, PTL DEF PanelSpec, Spec
=============================================================================
