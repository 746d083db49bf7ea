------------------------------ MODULE HeadPolicy ------------------------------
(***************************************************************************)
(* The local block-continuity floor of one (profile, chain): the ETS row   *)
(* of lasso_accepted_heads that RPC processes read and advance without a   *)
(* lock, and that the publication runtime fences and releases              *)
(* (lib/lasso/core/request/head_policy.ex).                                *)
(*                                                                         *)
(* Every ETS call is a step of its own.  A request initializes (insert_new,*)
(* lookup), sends attempts to providers whose answers are arbitrary, then  *)
(* validates, replaces the row and reads it back.  The runtime fences with *)
(* a compare-and-swap loop.  The table's generation is constant: an        *)
(* application restart ends every request together with the table.         *)
(***************************************************************************)
EXTENDS Integers

CONSTANTS
  Requests,   \* RPC processes
  Sources,    \* upstream instances
  Hashes,     \* block hashes
  Heights,    \* block heights providers report
  MaxRef      \* bound on references made by make_ref()

NoHeight == -1        \* nil height
NoHash   == "nohash"
NoSource == "nosource"

ASSUME HeadPolicyAssumption ==
  /\ Heights \subseteq Nat
  /\ NoHash \notin Hashes
  /\ NoSource \notin Sources
  /\ MaxRef \in Nat

VARIABLES
  row,     \* the floor: kind, height, hash and epoch (fence, source, revision)
  gate,    \* what Gate.read answers: "unmanaged" or anything else
  rt,      \* where the runtime is in fence_local / release_local
  ref,     \* make_ref() counter
  req,     \* request-local state
  best     \* history: highest height answered so far

vars == <<row, gate, rt, ref, req, best>>

Epoch == [fence : Nat, source : Sources \cup {NoSource}, rev : Nat]
Row   == [kind   : {"absent", "open", "fenced"},
          height : Heights \cup {NoHeight},
          hash   : Hashes \cup {NoHash},
          epoch  : Epoch]

EpochOf(fence, source, rev) == [fence |-> fence, source |-> source, rev |-> rev]
RowOf(kind, height, hash, epoch) ==
  [kind |-> kind, height |-> height, hash |-> hash, epoch |-> epoch]

\* Mutant: a fresh epoch carries no revision.
FreshEpochWithoutRevision == EpochOf(ref, NoSource, -1)
FreshEpoch == EpochOf(ref, NoSource, ref)
AbsentRow  == RowOf("absent", NoHeight, NoHash, EpochOf(0, NoSource, 0))

\* Request states.  floor.kind = "fenced" or "absent" is :unavailable.
Response == [height : Heights, hash : Hashes, source : Sources]
Request ==
  [pc      : {"idle", "snapshot", "attempt", "validate",
              "replace", "confirm", "done", "failed"},
   floor   : Row,
   err     : BOOLEAN,
   height  : Heights \cup {NoHeight},
   hash    : Hashes \cup {NoHash},
   source  : Sources \cup {NoSource},
   owed    : Heights \cup {NoHeight},  \* history: best when the floor was read
   crossed : BOOLEAN,                  \* history: fenced since the floor was read
   stale   : BOOLEAN]                  \* history: hash revised since it was read

IdleRequest ==
  [pc |-> "idle", floor |-> AbsentRow, err |-> FALSE,
   height |-> NoHeight, hash |-> NoHash, source |-> NoSource,
   owed |-> NoHeight, crossed |-> FALSE, stale |-> FALSE]
FailedRequest == [IdleRequest EXCEPT !.pc = "failed"]

TypeOK ==
  /\ row \in Row
  /\ gate \in {"unmanaged", "managed"}
  /\ rt \in [pc : {"idle", "enrolled", "swap", "fenced", "release"}, old : Row]
  /\ ref \in Nat
  /\ req \in [Requests -> Request]
  /\ best \in Heights \cup {NoHeight}

Init ==
  /\ row = AbsentRow
  /\ gate = "unmanaged"
  /\ rt = [pc |-> "idle", old |-> AbsentRow]
  /\ ref = 1
  /\ req = [p \in Requests |-> IdleRequest]
  /\ best = NoHeight

-----------------------------------------------------------------------------
(* A client request under head_policy "local". *)

Become(p, request) == req' = [req EXCEPT ![p] = request]

HoldsFloor(p) ==
  req[p].pc \in {"attempt", "validate", "replace", "confirm"}
Available(p) == req[p].floor.kind = "open"
Minimum(p)   == IF Available(p) THEN req[p].floor.height ELSE NoHeight

\* snapshot_floor: :ets.insert_new(key, nil, nil, fresh_epoch()).
Begin(p) ==
  /\ req[p].pc \in {"idle", "done", "failed"}
  /\ Become(p, [IdleRequest EXCEPT !.pc = "snapshot"])
  /\ \/ /\ row.kind = "absent"
        /\ ref < MaxRef
        /\ row' = RowOf("open", NoHeight, NoHash, FreshEpoch)
        /\ ref' = ref + 1
     \/ /\ row.kind # "absent"
        /\ UNCHANGED <<row, ref>>
  /\ UNCHANGED <<gate, rt, best>>

\* snapshot_floor: :ets.lookup.
Snapshot(p) ==
  /\ req[p].pc = "snapshot"
  /\ Become(p, [req[p] EXCEPT !.pc = "attempt", !.floor = row, !.owed = best])
  /\ UNCHANGED <<row, gate, rt, ref, best>>

\* A provider answers the attempt with some header.
Respond(p, height, hash, source) ==
  /\ req[p].pc = "attempt"
  /\ Become(p, [req[p] EXCEPT !.pc = "validate", !.height = height,
                              !.hash = hash, !.source = source])
  /\ UNCHANGED <<row, gate, rt, ref, best>>

\* The pipeline runs out of candidates or of time.
GiveUp(p) ==
  /\ req[p].pc = "attempt"
  /\ Become(p, FailedRequest)
  /\ UNCHANGED <<row, gate, rt, ref, best>>

\* reject: remember the error, so that the next attempt targets the minimum.
Rejected(p) ==
  [req[p] EXCEPT !.pc = "attempt", !.err = TRUE, !.height = NoHeight,
                 !.hash = NoHash, !.source = NoSource]

\* prepare_attempt targets the minimum height only after an error.
ValidTarget(p) ==
  req[p].err /\ Minimum(p) # NoHeight => req[p].height = Minimum(p)
\* Mutant: only the first attempt's target is checked.
ValidMinimumOnError(p) == req[p].err => req[p].height >= Minimum(p)
ValidMinimum(p) == req[p].height >= Minimum(p)

\* accept refuses outright in a managed scope.
RefuseManaged(p) ==
  /\ req[p].pc = "validate"
  /\ gate # "unmanaged"
  /\ Become(p, FailedRequest)
  /\ UNCHANGED <<row, gate, rt, ref, best>>

\* Target, minimum and age all hold: go on to the floor.
Validate(p) ==
  /\ req[p].pc = "validate"
  /\ gate = "unmanaged"
  /\ ValidTarget(p) /\ ValidMinimum(p)
  /\ Available(p)
  /\ Become(p, [req[p] EXCEPT !.pc = "replace"])
  /\ UNCHANGED <<row, gate, rt, ref, best>>

\* One of the checks fails; a valid header may still be too old or in the future.
Reject(p) ==
  /\ req[p].pc = "validate"
  /\ gate = "unmanaged"
  /\ Become(p, Rejected(p))
  /\ UNCHANGED <<row, gate, rt, ref, best>>

\* Mutant: any open row matches, whatever its fence.
SameFenceAny(p) == row.kind = "open"

\* advance: the match specifications of :ets.select_replace.
SameFence(p) == row.kind = "open" /\ row.epoch.fence = req[p].floor.epoch.fence
Raises(p)    == SameFence(p) /\ row.height < req[p].height
\* Mutant: the revision matches the fence instead of the exact snapshot.
RevisesSameFence(p) ==
  /\ req[p].floor.height = req[p].height
  /\ req[p].floor.epoch.source = req[p].source
  /\ row.hash # req[p].hash
  /\ row.height = req[p].height /\ SameFence(p)
Revises(p) ==
  LET floor == req[p].floor IN
  /\ floor.height = req[p].height
  /\ floor.epoch.source = req[p].source
  /\ floor.hash # req[p].hash
  /\ row = floor

\* A replacement at the row's own height makes every held snapshot stale.
AfterReplace(p, q) ==
  [req[q] EXCEPT !.pc = IF q = p THEN "confirm" ELSE @,
                 !.stale = @ \/ (HoldsFloor(q) /\ row.height = req[p].height)]

\* advance: :ets.select_replace.
Replace(p) ==
  /\ req[p].pc = "replace"
  /\ \/ /\ Raises(p) \/ Revises(p)
        /\ ref < MaxRef
        /\ row' = RowOf("open", req[p].height, req[p].hash,
                        EpochOf(req[p].floor.epoch.fence, req[p].source, ref))
        /\ ref' = ref + 1
        /\ req' = [q \in Requests |-> AfterReplace(p, q)]
     \/ /\ ~ (Raises(p) \/ Revises(p))
        /\ Become(p, [req[p] EXCEPT !.pc = "confirm"])
        /\ UNCHANGED <<row, ref>>
  /\ UNCHANGED <<gate, rt, best>>

\* advance: the :ets.lookup that decides the answer.
Accepted(p) ==
  /\ SameFence(p)
  /\ \/ req[p].height < row.height
     \/ req[p].height = row.height /\ req[p].hash = row.hash

Confirm(p) ==
  /\ req[p].pc = "confirm"
  /\ \/ /\ Accepted(p)
        /\ Become(p, [IdleRequest EXCEPT
             !.pc = "done", !.height = req[p].height,
             !.owed = req[p].owed, !.crossed = req[p].crossed])
        /\ best' = IF req[p].height > best THEN req[p].height ELSE best
     \/ /\ ~ Accepted(p)
        /\ Become(p, Rejected(p))
        /\ UNCHANGED best
  /\ UNCHANGED <<row, gate, rt, ref>>

-----------------------------------------------------------------------------
(* The publication runtime of this node. *)

\* Gate.install of a scope under publication: local acceptance is guarded.
Enroll ==
  /\ rt.pc = "idle"
  /\ gate' = "managed"
  /\ rt' = [rt EXCEPT !.pc = "enrolled"]
  /\ UNCHANGED <<row, ref, req, best>>

\* fence_local: :ets.lookup of the row to swap.
FenceLookup ==
  /\ rt.pc = "enrolled"
  /\ rt' = IF row.kind = "fenced" THEN [rt EXCEPT !.pc = "fenced"]
            ELSE [pc |-> "swap", old |-> row]
  /\ UNCHANGED <<row, gate, ref, req, best>>

\* A fence crosses every held snapshot.
AfterFence(p) == [req[p] EXCEPT !.crossed = @ \/ HoldsFloor(p)]

\* fence_local: swap the exact row, or insert over none; otherwise look again.
FenceSwap ==
  /\ rt.pc = "swap"
  /\ \/ /\ row = rt.old
        /\ ref < MaxRef
        /\ row' = RowOf("fenced", row.height, row.hash, FreshEpoch)
        /\ ref' = ref + 1
        /\ rt' = [pc |-> "fenced", old |-> AbsentRow]
        /\ req' = [p \in Requests |-> AfterFence(p)]
     \/ /\ row # rt.old
        /\ rt' = [pc |-> "enrolled", old |-> AbsentRow]
        /\ UNCHANGED <<row, ref, req>>
  /\ UNCHANGED <<gate, best>>

\* Gate.install of a disabled publication: the gate opens before the floor does.
Disable ==
  /\ rt.pc \in {"enrolled", "fenced"}
  /\ gate' = "unmanaged"
  /\ rt' = [rt EXCEPT !.pc = "release"]
  /\ UNCHANGED <<row, ref, req, best>>

\* restored_floor: the published block when it is above the remembered height.
\* Mutant: the published block replaces the remembered height.
RestoredPublished(height) == IF height # NoHeight THEN height ELSE row.height
RestoredHeight(height) == IF height > row.height THEN height ELSE row.height
RestoredHash(height, hash) == IF height > row.height THEN hash ELSE row.hash

\* release_local: restore the floor of a fenced row, keep its epoch.
Release(height, hash) ==
  /\ rt.pc = "release"
  /\ rt' = [rt EXCEPT !.pc = "idle"]
  /\ \/ /\ row.kind = "fenced"
        /\ row' = RowOf("open", RestoredHeight(height), RestoredHash(height, hash),
                        row.epoch)
     \/ /\ row.kind # "fenced"
        /\ UNCHANGED row
  /\ UNCHANGED <<gate, ref, req, best>>

Next ==
  \/ \E p \in Requests :
       \/ Begin(p)
       \/ Snapshot(p)
       \/ \E height \in Heights, hash \in Hashes, source \in Sources :
            Respond(p, height, hash, source)
       \/ GiveUp(p)
       \/ RefuseManaged(p)
       \/ Validate(p)
       \/ Reject(p)
       \/ Replace(p)
       \/ Confirm(p)
  \/ Enroll
  \/ FenceLookup
  \/ FenceSwap
  \/ Disable
  \/ Release(NoHeight, NoHash)
  \/ \E height \in Heights, hash \in Hashes : Release(height, hash)

Spec == Init /\ [][Next]_vars

-----------------------------------------------------------------------------
(* Properties. *)

\* A request that reads the floor after another has answered never answers
\* below it (head_policy.ex advance, ADR 0006 contract),
\* whatever providers report and however the two overlap with other requests.
SequentialContinuity ==
  \A p \in Requests : req[p].pc = "done" => req[p].height >= req[p].owed

\* What fence_local reports to the fleet, and what release_local restores, is
\* never below a height already answered here: the row covers every answer,
\* through raises, revisions, fencing and release.
FloorCoversAnswers == best <= row.height

\* A floor read before a fence cannot authorize an answer after it, even once
\* the publication is disabled and the same height is restored.
FenceRevokesSnapshots ==
  \A p \in Requests : req[p].crossed => req[p].pc # "done"

\* At an unchanged height the hash changes only by the upstream that
\* established it, and never by a request whose floor was read before an
\* intervening revision: an old response cannot restore a displaced hash.
RevisionAuthority ==
  [][row.kind = "open" /\ row'.kind = "open"
       /\ row'.height = row.height /\ row'.hash # row.hash
     => \E p \in Requests :
          /\ req[p].pc = "replace" /\ req'[p].pc = "confirm"
          /\ req[p].source = row.epoch.source
          /\ ~ req[p].stale]_vars

=============================================================================
