--------------------------- MODULE HeadPolicyProofs ---------------------------
(***************************************************************************)
(* Proofs about HeadPolicy for every set of requests, sources, hashes and  *)
(* heights.  The inductive invariant relates a request's snapshot to the   *)
(* row: fences and revisions are fresh references, so a row that was       *)
(* fenced or revised since a snapshot differs from it.                     *)
(***************************************************************************)
EXTENDS HeadPolicy, TLAPS

Holding == {"attempt", "validate", "replace", "confirm"}

\* What a request r knows about a row, next being the next fresh reference.
SnapshotInv(r, current, next) ==
  /\ r.pc \in Holding => r.owed <= r.floor.height
  /\ r.pc \in Holding => r.floor.epoch.fence < next /\ r.floor.epoch.rev < next
  /\ r.pc \in {"replace", "confirm"} =>
       r.floor.kind = "open" /\ r.floor.height <= r.height
  /\ r.pc = "done" => r.owed <= r.height
  /\ r.crossed => r.pc \in Holding /\ r.floor.epoch.fence # current.epoch.fence
  /\ r.stale => r.pc \in Holding /\ r.floor.epoch.rev # current.epoch.rev

RowInv ==
  /\ best <= row.height
  /\ row.kind = "absent" => row.height = NoHeight
  /\ row.epoch.fence < ref /\ row.epoch.rev < ref

Inv ==
  /\ TypeOK
  /\ RowInv
  /\ \A p \in Requests : SnapshotInv(req[p], row, ref)

LEMMA RecordTypes ==
  /\ AbsentRow \in Row
  /\ IdleRequest \in Request
  /\ FailedRequest \in Request
  BY HeadPolicyAssumption
  DEF AbsentRow, RowOf, EpochOf, Row, Epoch, Request, IdleRequest, FailedRequest, NoHeight

LEMMA HeightsAreIntegers ==
  ASSUME NEW height \in Heights \cup {NoHeight}
  PROVE  height \in Int
  BY HeadPolicyAssumption DEF NoHeight

LEMMA EpochsAreNumbers ==
  ASSUME NEW epoch \in Epoch
  PROVE  epoch.fence \in Nat /\ epoch.rev \in Nat
  BY DEF Epoch

LEMMA NewRowType ==
  ASSUME NEW kind \in {"open", "fenced"}, NEW height \in Heights \cup {NoHeight},
         NEW hash \in Hashes \cup {NoHash}, NEW fence \in Nat,
         NEW source \in Sources \cup {NoSource}, NEW rev \in Nat
  PROVE  RowOf(kind, height, hash, EpochOf(fence, source, rev)) \in Row
  BY DEF RowOf, EpochOf, Row, Epoch

LEMMA TypeStep == TypeOK /\ [Next]_vars => TypeOK'
<1> USE HeadPolicyAssumption DEF NoHeight
<1> SUFFICES ASSUME TypeOK, [Next]_vars PROVE TypeOK'
  OBVIOUS
<1> USE DEF TypeOK
<1>a. ASSUME NEW p \in Requests, NEW r \in Request, Become(p, r)
      PROVE  req' \in [Requests -> Request]
  BY <1>a DEF Become
<1>b. ASSUME NEW p \in Requests
      PROVE  /\ req[p] \in Request /\ Rejected(p) \in Request
             /\ req[p].floor \in Row /\ req[p].floor.epoch.fence \in Nat
  <2>1. req[p] \in Request
    OBVIOUS
  <2>2. Rejected(p) \in Request
    BY <2>1 DEF Rejected, Request
  <2> QED
    BY <2>1, <2>2 DEF Request, Row, Epoch
<1>c. ref + 1 \in Nat
  OBVIOUS
<1>1. ASSUME NEW p \in Requests, Begin(p) PROVE TypeOK'
  <2>1. [IdleRequest EXCEPT !.pc = "snapshot"] \in Request
    BY RecordTypes DEF Request
  <2>2. RowOf("open", NoHeight, NoHash, FreshEpoch) \in Row
    BY NewRowType DEF FreshEpoch
  <2> QED
    BY <1>1, <2>1, <2>2, <1>a, <1>c DEF Begin
<1>2. ASSUME NEW p \in Requests, Snapshot(p) PROVE TypeOK'
  <2>1. [req[p] EXCEPT !.pc = "attempt", !.floor = row, !.owed = best] \in Request
    BY <1>b DEF Request
  <2> QED
    BY <1>2, <2>1, <1>a DEF Snapshot
<1>3. ASSUME NEW p \in Requests, NEW height \in Heights, NEW hash \in Hashes,
             NEW source \in Sources, Respond(p, height, hash, source)
      PROVE TypeOK'
  <2>1. [req[p] EXCEPT !.pc = "validate", !.height = height,
                       !.hash = hash, !.source = source] \in Request
    BY <1>b DEF Request
  <2> QED
    BY <1>3, <2>1, <1>a DEF Respond
<1>4. ASSUME NEW p \in Requests, GiveUp(p) \/ RefuseManaged(p) PROVE TypeOK'
  BY <1>4, <1>a, RecordTypes DEF GiveUp, RefuseManaged
<1>5. ASSUME NEW p \in Requests, Validate(p) PROVE TypeOK'
  <2>1. [req[p] EXCEPT !.pc = "replace"] \in Request
    BY <1>b DEF Request
  <2> QED
    BY <1>5, <2>1, <1>a DEF Validate
<1>6. ASSUME NEW p \in Requests, Reject(p) PROVE TypeOK'
  BY <1>6, <1>a, <1>b DEF Reject
<1>7. ASSUME NEW p \in Requests, Replace(p) PROVE TypeOK'
  <2>1. [req[p] EXCEPT !.pc = "confirm"] \in Request
    BY <1>b DEF Request
  <2>2. CASE Become(p, [req[p] EXCEPT !.pc = "confirm"]) /\ UNCHANGED <<row, ref>>
    BY <1>7, <2>1, <2>2, <1>a DEF Replace
  <2>3. CASE Raises(p) \/ Revises(p)
    <3>1. RowOf("open", req[p].height, req[p].hash,
                EpochOf(req[p].floor.epoch.fence, req[p].source, ref)) \in Row
      BY <1>b, NewRowType DEF Request
    <3>2. ASSUME NEW q \in Requests
          PROVE  AfterReplace(p, q) \in Request
      BY <1>b DEF AfterReplace, Request
    <3>3. row' \in Row /\ ref' \in Nat /\ UNCHANGED <<gate, rt, best>>
      BY <1>7, <2>3, <3>1, <1>c DEF Replace
    <3>4. req' = [q \in Requests |-> AfterReplace(p, q)]
      BY <1>7, <2>3 DEF Replace
    <3> QED
      BY <3>2, <3>3, <3>4
  <2> QED
    BY <1>7, <2>2, <2>3 DEF Replace
<1>8. ASSUME NEW p \in Requests, Confirm(p) PROVE TypeOK'
  <2>1. [IdleRequest EXCEPT !.pc = "done", !.height = req[p].height,
           !.owed = req[p].owed, !.crossed = req[p].crossed] \in Request
    BY <1>b, RecordTypes DEF Request
  <2>2. req[p].height \in Heights \cup {NoHeight}
    BY <1>b DEF Request
  <2> QED
    BY <1>8, <2>1, <2>2, <1>a, <1>b DEF Confirm
<1>9. ASSUME Enroll \/ FenceLookup \/ Disable PROVE TypeOK'
  BY <1>9 DEF Enroll, FenceLookup, Disable
<1>10. ASSUME FenceSwap PROVE TypeOK'
  <2>1. CASE row = rt.old
    <3>1. RowOf("fenced", row.height, row.hash, FreshEpoch) \in Row
      BY NewRowType DEF FreshEpoch, Row
    <3>2. ASSUME NEW p \in Requests
          PROVE  AfterFence(p) \in Request
      BY <1>b DEF AfterFence, Request
    <3>3. /\ row' \in Row /\ ref' \in Nat /\ UNCHANGED <<gate, best>>
          /\ rt' = [pc |-> "fenced", old |-> AbsentRow]
          /\ req' = [p \in Requests |-> AfterFence(p)]
      BY <1>10, <2>1, <3>1, <1>c DEF FenceSwap
    <3> QED
      BY <3>2, <3>3, RecordTypes
  <2>2. CASE row # rt.old
    BY <1>10, <2>2, RecordTypes DEF FenceSwap
  <2> QED
    BY <2>1, <2>2
<1>11. ASSUME NEW height \in Heights \cup {NoHeight},
              NEW hash \in Hashes \cup {NoHash}, Release(height, hash)
       PROVE TypeOK'
  BY <1>11 DEF Release, RestoredHeight, RestoredHash, RowOf, Row
<1>12. CASE UNCHANGED vars
  BY <1>12 DEF vars
<1> QED
  BY <1>1, <1>2, <1>3, <1>4, <1>5, <1>6, <1>7, <1>8, <1>9, <1>10, <1>11, <1>12 DEF Next

\* Every variable keeps its type.
THEOREM TypeCorrect == Spec => []TypeOK
<1>1. Init => TypeOK
  BY RecordTypes, HeadPolicyAssumption DEF Init, TypeOK, NoHeight
<1> QED
  BY <1>1, TypeStep, PTL DEF Spec

\* A step that only moves request p to r keeps the invariant when r fits the row.
LEMMA BecomeStep ==
  ASSUME Inv, NEW p \in Requests, NEW r, Become(p, r),
         SnapshotInv(r, row, ref), UNCHANGED <<row, ref, best>>
  PROVE  RowInv' /\ \A q \in Requests : SnapshotInv(req[q], row, ref)'
<1>1. RowInv'
  BY DEF Inv, RowInv
<1>2. ASSUME NEW q \in Requests PROVE SnapshotInv(req'[q], row', ref')
  <2>1. req'[q] = IF q = p THEN r ELSE req[q]
    BY DEF Become, Inv, TypeOK
  <2> QED
    BY <2>1 DEF Inv
<1> QED
  BY <1>1, <1>2

LEMMA FailedFits == SnapshotInv(FailedRequest, row, ref)
  BY DEF SnapshotInv, Holding, FailedRequest, IdleRequest

LEMMA InvStep == Inv /\ [Next]_vars => Inv'
<1> USE HeadPolicyAssumption DEF NoHeight
<1> SUFFICES ASSUME Inv, [Next]_vars
             PROVE  RowInv' /\ \A q \in Requests : SnapshotInv(req[q], row, ref)'
  BY TypeStep DEF Inv
<1> DEFINE Goal == RowInv' /\ \A q \in Requests : SnapshotInv(req[q], row, ref)'
<1>t. /\ ref \in Nat /\ best \in Int /\ row.height \in Int
      /\ row.epoch.fence \in Nat /\ row.epoch.rev \in Nat
  <2>1. row \in Row /\ ref \in Nat /\ best \in Heights \cup {NoHeight}
    BY DEF Inv, TypeOK
  <2>2. row.height \in Heights \cup {NoHeight} /\ row.epoch \in Epoch
    BY <2>1 DEF Row
  <2> QED
    BY <2>1, <2>2, HeightsAreIntegers, EpochsAreNumbers
<1>r. ASSUME NEW p \in Requests
      PROVE  /\ req[p] \in Request /\ SnapshotInv(req[p], row, ref)
             /\ req[p].height \in Int /\ req[p].owed \in Int
             /\ req[p].floor \in Row /\ req[p].floor.height \in Int
             /\ req[p].floor.epoch.fence \in Nat /\ req[p].floor.epoch.rev \in Nat
  <2>1. req[p] \in Request /\ SnapshotInv(req[p], row, ref)
    BY DEF Inv, TypeOK
  <2> QED
    <3>1. /\ req[p].height \in Heights \cup {NoHeight}
          /\ req[p].owed \in Heights \cup {NoHeight}
          /\ req[p].floor \in Row
      BY <2>1 DEF Request
    <3>2. /\ req[p].floor.height \in Heights \cup {NoHeight}
          /\ req[p].floor.epoch \in Epoch
      BY <3>1 DEF Row
    <3> QED
      BY <2>1, <3>1, <3>2, HeightsAreIntegers, EpochsAreNumbers
<1>1. ASSUME NEW p \in Requests, Begin(p) PROVE Goal
  <2> DEFINE r == [IdleRequest EXCEPT !.pc = "snapshot"]
  <2>1. SnapshotInv(r, row, ref)
    BY DEF SnapshotInv, Holding, IdleRequest
  <2>2. CASE UNCHANGED <<row, ref>>
    BY <1>1, <2>1, <2>2, BecomeStep DEF Begin
  <2>3. CASE row.kind = "absent" /\ row' = RowOf("open", NoHeight, NoHash, FreshEpoch)
              /\ ref' = ref + 1
    <3>1. RowInv'
      BY <1>1, <2>3, <1>t DEF Begin, RowInv, Inv, RowOf, FreshEpoch, EpochOf
    <3>2. ASSUME NEW q \in Requests PROVE SnapshotInv(req'[q], row', ref')
      <4>1. row'.epoch.fence = ref /\ row'.epoch.rev = ref
        BY <2>3 DEF RowOf, FreshEpoch, EpochOf
      <4>2. req'[q] = IF q = p THEN r ELSE req[q]
        BY <1>1 DEF Begin, Become, Inv, TypeOK
      <4>3. CASE q = p
        BY <4>2, <4>3 DEF SnapshotInv, Holding, IdleRequest
      <4>4. CASE q # p
        BY <4>1, <4>2, <4>4, <2>3, <1>r, <1>t DEF SnapshotInv
      <4> QED
        BY <4>3, <4>4
    <3> QED
      BY <3>1, <3>2
  <2> QED
    BY <1>1, <2>2, <2>3 DEF Begin
<1>2. ASSUME NEW p \in Requests, Snapshot(p) PROVE Goal
  <2>1. SnapshotInv([req[p] EXCEPT !.pc = "attempt", !.floor = row, !.owed = best],
                    row, ref)
    BY <1>2, <1>r DEF Snapshot, SnapshotInv, Holding, Inv, RowInv, Request
  <2> QED
    BY <1>2, <2>1, BecomeStep DEF Snapshot
<1>3. ASSUME NEW p \in Requests, NEW height \in Heights, NEW hash \in Hashes,
             NEW source \in Sources, Respond(p, height, hash, source)
      PROVE  Goal
  <2>1. SnapshotInv([req[p] EXCEPT !.pc = "validate", !.height = height,
                                   !.hash = hash, !.source = source], row, ref)
    BY <1>3, <1>r DEF Respond, SnapshotInv, Holding, Request
  <2> QED
    BY <1>3, <2>1, BecomeStep DEF Respond
<1>4. ASSUME NEW p \in Requests, GiveUp(p) \/ RefuseManaged(p) PROVE Goal
  BY <1>4, FailedFits, BecomeStep DEF GiveUp, RefuseManaged
<1>5. ASSUME NEW p \in Requests, Validate(p) PROVE Goal
  <2>1. SnapshotInv([req[p] EXCEPT !.pc = "replace"], row, ref)
    BY <1>5, <1>r DEF Validate, SnapshotInv, Holding, Request, ValidMinimum,
                      Minimum, Available
  <2> QED
    BY <1>5, <2>1, BecomeStep DEF Validate
<1>6. ASSUME NEW p \in Requests, req[p].pc \in {"validate", "confirm"},
             Become(p, Rejected(p)), UNCHANGED <<row, ref, best>>
      PROVE  Goal
  <2>1. SnapshotInv(Rejected(p), row, ref)
    BY <1>6, <1>r DEF Rejected, SnapshotInv, Holding, Request
  <2> QED
    BY <1>6, <2>1, BecomeStep
<1>7. ASSUME NEW p \in Requests, Replace(p) PROVE Goal
  <2>1. CASE Become(p, [req[p] EXCEPT !.pc = "confirm"]) /\ UNCHANGED <<row, ref>>
    <3>1. SnapshotInv([req[p] EXCEPT !.pc = "confirm"], row, ref)
      BY <1>7, <1>r DEF Replace, SnapshotInv, Holding, Request
    <3> QED
      BY <1>7, <2>1, <3>1, BecomeStep DEF Replace
  <2>2. CASE Raises(p) \/ Revises(p)
    <3>1. /\ row' = RowOf("open", req[p].height, req[p].hash,
                          EpochOf(req[p].floor.epoch.fence, req[p].source, ref))
          /\ ref' = ref + 1 /\ best' = best
          /\ req' = [q \in Requests |-> AfterReplace(p, q)]
          /\ req[p].pc = "replace"
      BY <1>7, <2>2 DEF Replace
    <3>2. /\ row'.height = req[p].height /\ row'.kind = "open"
          /\ row'.epoch.fence = row.epoch.fence /\ row'.epoch.rev = ref
          /\ row.height <= row'.height
      BY <2>2, <3>1, <1>r, <1>t DEF RowOf, EpochOf, Raises, Revises, SameFence
    <3>3. RowInv'
      BY <3>1, <3>2, <1>r, <1>t DEF RowInv, Inv
    <3>4. ASSUME NEW q \in Requests PROVE SnapshotInv(req'[q], row', ref')
      <4>1. req'[q] = AfterReplace(p, q)
        BY <3>1
      <4> DEFINE s == AfterReplace(p, q)
      <4>a. /\ s.pc = IF q = p THEN "confirm" ELSE req[q].pc
            /\ s.stale => req[q].stale \/ HoldsFloor(q)
            /\ s.floor = req[q].floor /\ s.owed = req[q].owed
            /\ s.height = req[q].height
            /\ s.crossed => req[q].crossed
        BY <1>r DEF AfterReplace, Request
      <4>b. s.pc \in Holding <=> HoldsFloor(q)
        BY <4>a, <3>1 DEF HoldsFloor, Holding
      <4>c. s.pc \in {"replace", "confirm"} => req[q].pc \in {"replace", "confirm"}
        BY <4>a, <3>1
      <4> HIDE DEF s
      <4>2. SnapshotInv(s, row', ref')
        BY <4>a, <4>b, <4>c, <3>1, <3>2, <1>r, <1>t DEF SnapshotInv, HoldsFloor, Holding
      <4> QED
        BY <4>1, <4>2 DEF s
    <3> QED
      BY <3>3, <3>4
  <2> QED
    BY <1>7, <2>1, <2>2 DEF Replace
<1>8. ASSUME NEW p \in Requests, Confirm(p), Accepted(p) PROVE Goal
  <2> DEFINE r == [IdleRequest EXCEPT !.pc = "done", !.height = req[p].height,
                     !.owed = req[p].owed, !.crossed = req[p].crossed]
  <2>1. /\ Become(p, r) /\ req[p].pc = "confirm" /\ UNCHANGED <<row, ref>>
        /\ best' = IF req[p].height > best THEN req[p].height ELSE best
    BY <1>8 DEF Confirm
  <2>2. req[p].height <= row.height /\ row.epoch.fence = req[p].floor.epoch.fence
    BY <1>8, <1>r, <1>t DEF Accepted, SameFence
  <2>3. /\ r.pc = "done" /\ r.height = req[p].height /\ r.owed = req[p].owed
        /\ r.crossed = req[p].crossed /\ r.stale = FALSE
    BY DEF IdleRequest
  <2>4. SnapshotInv(r, row, ref)
    BY <2>1, <2>2, <2>3, <1>r DEF SnapshotInv, Holding
  <2>5. RowInv'
    BY <2>1, <2>2, <1>r, <1>t DEF RowInv, Inv
  <2>6. ASSUME NEW q \in Requests PROVE SnapshotInv(req'[q], row', ref')
    <3>1. req'[q] = IF q = p THEN r ELSE req[q]
      BY <2>1 DEF Become, Inv, TypeOK
    <3> QED
      BY <3>1, <2>1, <2>4, <1>r
  <2> QED
    BY <2>5, <2>6
<1>9. ASSUME Enroll \/ FenceLookup \/ Disable PROVE Goal
  BY <1>9 DEF Enroll, FenceLookup, Disable, Inv, RowInv
<1>10. ASSUME FenceSwap PROVE Goal
  <2>1. CASE row # rt.old
    BY <1>10, <2>1 DEF FenceSwap, Inv, RowInv
  <2>2. CASE row = rt.old
    <3>1. /\ row' = RowOf("fenced", row.height, row.hash, FreshEpoch)
          /\ ref' = ref + 1 /\ best' = best
          /\ req' = [q \in Requests |-> AfterFence(q)]
      BY <1>10, <2>2 DEF FenceSwap
    <3>2. /\ row'.height = row.height /\ row'.kind = "fenced"
          /\ row'.epoch.fence = ref /\ row'.epoch.rev = ref
      BY <3>1 DEF RowOf, EpochOf, FreshEpoch
    <3>3. RowInv'
      BY <3>1, <3>2, <1>t DEF RowInv, Inv
    <3>4. ASSUME NEW q \in Requests PROVE SnapshotInv(req'[q], row', ref')
      <4>1. req'[q] = AfterFence(q)
        BY <3>1
      <4>2. SnapshotInv(AfterFence(q), row', ref')
        BY <3>1, <3>2, <1>r, <1>t
        DEF AfterFence, SnapshotInv, Holding, HoldsFloor, Request
      <4> QED
        BY <4>1, <4>2
    <3> QED
      BY <3>3, <3>4
  <2> QED
    BY <2>1, <2>2
<1>11. ASSUME NEW height \in Heights \cup {NoHeight},
              NEW hash \in Hashes \cup {NoHash}, Release(height, hash)
       PROVE  Goal
  <2>1. CASE row.kind # "fenced"
    BY <1>11, <2>1 DEF Release, Inv, RowInv
  <2>2. CASE row.kind = "fenced"
    <3>1. /\ row'.height = RestoredHeight(height) /\ row'.kind = "open"
          /\ row'.epoch = row.epoch /\ UNCHANGED <<ref, req, best>>
      BY <1>11, <2>2 DEF Release, RowOf
    <3>2. row.height <= row'.height
      BY <3>1, <1>t DEF RestoredHeight
    <3>3. RowInv'
      BY <3>1, <3>2, <1>t DEF RowInv, Inv, RestoredHeight
    <3>4. ASSUME NEW q \in Requests PROVE SnapshotInv(req'[q], row', ref')
      BY <3>1, <1>r DEF SnapshotInv
    <3> QED
      BY <3>3, <3>4
  <2> QED
    BY <2>1, <2>2
<1>12. CASE UNCHANGED vars
  BY <1>12 DEF vars, Inv, RowInv
<1>13. ASSUME NEW p \in Requests, Reject(p) \/ (Confirm(p) /\ ~ Accepted(p)) PROVE Goal
  BY <1>13, <1>6 DEF Reject, Confirm
<1> QED
  BY <1>1, <1>2, <1>3, <1>4, <1>5, <1>7, <1>8, <1>9, <1>10, <1>11, <1>12, <1>13 DEF Next

LEMMA InvCorrect == Spec => []Inv
<1>1. Init => Inv
  BY RecordTypes, HeadPolicyAssumption
  DEF Init, Inv, TypeOK, RowInv, SnapshotInv, Holding, AbsentRow, RowOf, EpochOf,
      IdleRequest, NoHeight
<1> QED
  BY <1>1, InvStep, PTL DEF Spec

\* A request that reads the floor after another has answered never answers
\* below it (advance, prepare_attempt, fence_local and release_local together).
THEOREM NeverBelowAnEarlierAnswer == Spec => []SequentialContinuity
<1>1. Inv => SequentialContinuity
  <2> SUFFICES ASSUME Inv, NEW p \in Requests, req[p].pc = "done"
               PROVE  req[p].height >= req[p].owed
    BY DEF SequentialContinuity
  <2>1. SnapshotInv(req[p], row, ref) /\ req[p] \in Request
    BY DEF Inv, TypeOK
  <2>2. req[p].height \in Int /\ req[p].owed \in Int
    BY <2>1, HeightsAreIntegers DEF Request
  <2> QED
    BY <2>1, <2>2 DEF SnapshotInv
<1> QED
  BY <1>1, InvCorrect, PTL

\* The row, and so what a fence reports, covers every answer.
THEOREM RowCoversEveryAnswer == Spec => []FloorCoversAnswers
<1>1. Inv => FloorCoversAnswers
  BY DEF Inv, RowInv, FloorCoversAnswers
<1> QED
  BY <1>1, InvCorrect, PTL

\* A snapshot older than a fence authorizes no answer after it.
THEOREM FencedSnapshotsNeverAnswer == Spec => []FenceRevokesSnapshots
<1>1. Inv => FenceRevokesSnapshots
  BY DEF Inv, SnapshotInv, Holding, FenceRevokesSnapshots
<1> QED
  BY <1>1, InvCorrect, PTL

\* At an unchanged height only the establishing upstream replaces the hash,
\* through a request that has seen every earlier revision (the revision match).
THEOREM OnlyTheEstablisherRevises == Spec => RevisionAuthority
<1> DEFINE Changes ==
      /\ row.kind = "open" /\ row'.kind = "open"
      /\ row'.height = row.height /\ row'.hash # row.hash
    Authorized ==
      \E p \in Requests :
        /\ req[p].pc = "replace" /\ req'[p].pc = "confirm"
        /\ req[p].source = row.epoch.source
        /\ ~ req[p].stale
<1>1. Inv /\ [Next]_vars => [Changes => Authorized]_vars
  <2> SUFFICES ASSUME Inv, Next, Changes PROVE Authorized
    BY DEF vars
  <2>a. row' # row /\ row'.kind # "fenced" /\ row.kind # "fenced"
    OBVIOUS
  <2>b. ~ FenceSwap /\ ~ Enroll /\ ~ FenceLookup /\ ~ Disable
    BY <2>a DEF FenceSwap, Enroll, FenceLookup, Disable, RowOf
  <2>c. \A height, hash : ~ Release(height, hash)
    BY <2>a DEF Release
  <2>d. ASSUME NEW p \in Requests
        PROVE  /\ ~ Snapshot(p) /\ ~ GiveUp(p) /\ ~ RefuseManaged(p)
               /\ ~ Validate(p) /\ ~ Reject(p) /\ ~ Confirm(p)
               /\ \A height, hash, source : ~ Respond(p, height, hash, source)
    BY <2>a DEF Snapshot, Respond, GiveUp, RefuseManaged, Validate, Reject, Confirm
  <2>1. PICK p \in Requests : Replace(p) \/ Begin(p)
    BY <2>b, <2>c, <2>d DEF Next
  <2>2. row.kind # "absent"
    OBVIOUS
  <2>3. Replace(p) /\ row' # row
    BY <2>1, <2>2 DEF Begin
  <2>4. /\ req[p].pc = "replace"
        /\ row' = RowOf("open", req[p].height, req[p].hash,
                        EpochOf(req[p].floor.epoch.fence, req[p].source, ref))
        /\ req' = [q \in Requests |-> AfterReplace(p, q)]
        /\ Raises(p) \/ Revises(p)
    BY <2>3 DEF Replace
  <2>5. req[p] \in Request /\ row.height \in Int
    BY HeightsAreIntegers DEF Inv, TypeOK, Row
  <2>6. Revises(p)
    BY <2>4, <2>5 DEF Raises, RowOf
  <2>7. req'[p].pc = "confirm"
    BY <2>4, <2>5 DEF AfterReplace, Request
  <2>8. ~ req[p].stale /\ req[p].source = row.epoch.source
    BY <2>6, <2>4 DEF Revises, Inv, SnapshotInv
  <2> QED
    BY <2>4, <2>7, <2>8
<1> QED
  BY <1>1, InvCorrect, PTL DEF Spec, RevisionAuthority

=============================================================================
