------------------------ MODULE BlockPublicationProofs ------------------------
(***************************************************************************)
(* Proofs about BlockPublication for every set of members, heights and     *)
(* hashes and every number of boots and revisions.                         *)
(***************************************************************************)
EXTENDS BlockPublication, SequenceTheorems, TLAPS

(***************************************************************************)
(* Lemmas about the publication record: an invariant that every command    *)
(* keeps, and one summary of what a committed command may do to a record,  *)
(* so that proofs about a fleet need not look into the commands.           *)
(***************************************************************************)
InBarrier(s) == s.phase \in {"preparing", "closing"}

\* A candidate is the first block, a higher one, or the published one again.
Supersedes(block, published) ==
  published = NoBlock \/ block.height > published.height \/ block = published

\* What holds of every record of a journal.
RecordInv(s) ==
  /\ \A m \in Members : s.active[m] \in Boots =>
       s.members[m] = s.active[m] \/ <<m, s.active[m]>> \in s.fenced
  /\ InBarrier(s) =>
       Joined(s) /\ s.candidate \in Block /\ Supersedes(s.candidate, s.published)
  /\ s.phase = "preparing" => s.closed = Nobody
  /\ s.phase = "closing" => \A m \in Members : Listed(s, m) => s.ready[m] # Absent
  /\ s.phase = "disabled" => s.active = Nobody

\* The boots that take part in a command: who joins, reports readiness,
\* acknowledges a closure or is fenced by it.
Unattended == [joined |-> {}, ready |-> {}, closed |-> {}, fenced |-> {}]

\* The three things a command may do to what a fleet serves.
Keeps(s, t) == t.active = s.active /\ t.published = s.published
Drops(s, t) ==
  /\ t.active = Nobody /\ t.published = s.published
  /\ ~ InBarrier(t) /\ ~ Changing(t)
  /\ \A m \in Members : s.active[m] \in Boots =>
       \/ Changing(s) /\ t.closed[m] = s.active[m]
       \/ <<m, s.active[m]>> \in t.fenced
Publishes(s, t) ==
  /\ s.phase = "closing" /\ t.phase = "active"
  /\ t.active = s.members /\ t.closed = s.members
  /\ t.published = s.candidate

\* Record s may become t by a command of the boots in "by".
Evolves(s, t, by) ==
  /\ s.epoch <= t.epoch
  /\ \A m \in Members :
       /\ t.members[m] \in Boots =>
            t.members[m] = s.members[m] \/ <<m, t.members[m]>> \in by.joined
       /\ t.closed[m] \in Boots =>
            t.closed[m] = s.closed[m] \/ <<m, t.closed[m]>> \in by.closed
       /\ Changing(t) /\ t.closed[m] \in Boots => Changing(s)
       /\ \A boot \in Boots : <<m, boot>> \in t.fenced =>
            <<m, boot>> \in s.fenced \/ <<m, boot>> \in by.fenced
  /\ InBarrier(t) =>
       \/ s.epoch < t.epoch /\ t.ready = NoReady
       \/ /\ InBarrier(s) /\ s.epoch = t.epoch
          /\ t.phase = "preparing" => s.phase = "preparing"
          /\ t.members = s.members /\ t.candidate = s.candidate
          /\ \A m \in Members : t.ready[m] # Absent =>
               s.ready[m] # Absent \/ <<m, s.members[m]>> \in by.ready
  /\ Keeps(s, t) \/ Drops(s, t) \/ Publishes(s, t)

-----------------------------------------------------------------------------
LEMMA BootsAreNumbers ==
  /\ Boots \subseteq Nat
  /\ Nil \notin Boots /\ Unlisted \notin Boots
  BY PublicationAssumption DEF Boots, Nil, Unlisted

LEMMA BlocksHaveHeights ==
  /\ NoBlock.height = 0
  /\ \A block \in Block \cup {NoBlock} :
       block.height \in Heights \cup {0} /\ block.height \in Nat
  /\ \A block \in Block : block # NoBlock /\ block.height \in Heights
<1>1. NoBlock.height = 0
  BY DEF NoBlock
<1>2. ASSUME NEW block \in Block
      PROVE  block.height \in Heights /\ block.height \in Nat \ {0}
  BY PublicationAssumption DEF Block
<1>3. \A block \in Block : block # NoBlock
  BY <1>1, <1>2
<1> QED
  BY <1>1, <1>2, <1>3

LEMMA LargerType ==
  ASSUME NEW a \in Heights \cup {0}, NEW b \in Heights \cup {0}
  PROVE  Larger(a, b) \in Heights \cup {0} /\ Larger(a, b) >= a /\ Larger(a, b) >= b
  BY PublicationAssumption DEF Larger

\* Fields of a record, so that proofs need not expand Record.
LEMMA Fields ==
  ASSUME NEW s \in Record
  PROVE  /\ s.phase \in Phases /\ s.epoch \in Nat
         /\ s.members \in [Members -> {Unlisted, Nil} \cup Boots]
         /\ s.active \in [Members -> {Unlisted} \cup Boots]
         /\ s.closed \in [Members -> {Unlisted} \cup Boots]
         /\ s.ready \in [Members -> {Absent, NoHash} \cup Hashes]
         /\ s.minimum \in Heights \cup {0}
         /\ s.published \in Block \cup {NoBlock}
         /\ s.candidate \in Block \cup {NoBlock}
         /\ s.resume \in BOOLEAN
         /\ s.fenced \in SUBSET (Members \X Boots)
  BY DEF Record

LEMMA NobodyType ==
  /\ Nobody \in [Members -> {Unlisted} \cup Boots]
  /\ NoReady \in [Members -> {Absent, NoHash} \cup Hashes]
  BY DEF Nobody, NoReady

\* A disable that completes revokes every active boot.
LEMMA CompleteDisableEvolves ==
  ASSUME NEW s \in Record, NEW u \in Record, NEW by,
         RecordInv(u), Evolves(s, u, by), Keeps(s, u)
  PROVE  /\ CompleteDisable(u) \in Record
         /\ RecordInv(CompleteDisable(u))
         /\ Evolves(s, CompleteDisable(u), by)
<1> DEFINE t == [u EXCEPT !.phase = IF u.resume THEN RosterPhase(u) ELSE "disabled",
                          !.active = Nobody]
<1>1. CASE ~ (u.phase = "disabling" /\ \A m \in Members : Revoked(u, m))
  BY <1>1 DEF CompleteDisable
<1>2. CASE u.phase = "disabling" /\ \A m \in Members : Revoked(u, m)
  <2>1. CompleteDisable(u) = t
    BY <1>2 DEF CompleteDisable
  <2>2. /\ t.phase \in {"active", "joining", "disabled"}
        /\ t.active = Nobody
        /\ t.members = u.members /\ t.closed = u.closed /\ t.fenced = u.fenced
        /\ t.epoch = u.epoch /\ t.published = u.published
    BY DEF RosterPhase, Record
  <2>3. t \in Record
    BY NobodyType DEF Record, RosterPhase, Phases
  <2>4. RecordInv(t)
    BY <2>2, BootsAreNumbers DEF RecordInv, InBarrier, Nobody
  <2>5. Drops(s, t)
    <3>1. ASSUME NEW m \in Members, s.active[m] \in Boots
          PROVE  \/ Changing(s) /\ t.closed[m] = s.active[m]
                 \/ <<m, s.active[m]>> \in t.fenced
      <4>1. u.active[m] = s.active[m] /\ u.active[m] # Unlisted
        BY <3>1, BootsAreNumbers DEF Keeps
      <4>2. u.closed[m] = u.active[m] \/ <<m, u.active[m]>> \in u.fenced
        BY <1>2, <4>1 DEF Revoked
      <4>3. u.closed[m] = u.active[m] => Changing(s)
        BY <1>2, <3>1, <4>1 DEF Evolves, Changing
      <4> QED
        BY <2>2, <4>1, <4>2, <4>3
    <3> QED
      BY <2>2, <3>1 DEF Drops, Keeps, InBarrier, Changing
  <2>6. ~ InBarrier(t) /\ ~ Changing(t)
    BY <2>2 DEF InBarrier, Changing
  <2>7. Evolves(s, t, by)
    BY <2>2, <2>5, <2>6 DEF Evolves
  <2> QED
    BY <2>1, <2>3, <2>4, <2>7
<1> QED
  BY <1>1, <1>2

\* A boot joins where none is recorded.
LEMMA JoinEvolves ==
  ASSUME NEW s \in Record, RecordInv(s), NEW m \in Members, NEW boot \in Boots,
         NEW floor \in Heights \cup {0}, s.members[m] = Nil
  PROVE  /\ Join(s, m, boot, floor) \in Record
         /\ RecordInv(Join(s, m, boot, floor))
         /\ Evolves(s, Join(s, m, boot, floor),
                    [Unattended EXCEPT !.joined = {<<m, boot>>}])
<1> DEFINE v  == [s EXCEPT !.members[m] = boot, !.minimum = Larger(@, floor)]
           u  == [v EXCEPT !.phase = IF @ = "joining" THEN RosterPhase(v) ELSE @]
           by == [Unattended EXCEPT !.joined = {<<m, boot>>}]
<1>1. Join(s, m, boot, floor) = CompleteDisable(u)
  BY DEF Join
<1>2. v \in Record
  <2>1. [s.members EXCEPT ![m] = boot] \in [Members -> {Unlisted, Nil} \cup Boots]
    BY Fields
  <2> QED
    BY <2>1, Fields, LargerType DEF Record
<1>3. /\ u.members = [s.members EXCEPT ![m] = boot]
      /\ u.active = s.active /\ u.closed = s.closed /\ u.fenced = s.fenced
      /\ u.epoch = s.epoch /\ u.published = s.published
      /\ u.phase = s.phase \/ (s.phase = "joining" /\ u.phase \in {"joining", "active"})
  BY DEF Record, RosterPhase
<1>4. u \in Record
  BY <1>2 DEF Record, RosterPhase, Phases
<1>5. s.phase \notin {"preparing", "closing"} /\ ~ InBarrier(u)
  BY <1>3 DEF RecordInv, InBarrier, Joined
<1>6. RecordInv(u)
  BY <1>3, <1>5, Fields, BootsAreNumbers DEF RecordInv, InBarrier
<1>7. by.joined = {<<m, boot>>} /\ by.closed = {} /\ by.fenced = {}
  BY DEF Unattended
<1>8. Evolves(s, u, by) /\ Keeps(s, u)
  <2>1. Keeps(s, u) /\ s.epoch <= u.epoch
    BY <1>3, Fields DEF Keeps
  <2>2. ASSUME NEW n \in Members, u.members[n] \in Boots
        PROVE  u.members[n] = s.members[n] \/ <<n, u.members[n]>> \in by.joined
    BY <1>3, <1>7, Fields
  <2>3. Changing(u) => Changing(s)
    BY <1>3 DEF Changing
  <2> QED
    BY <1>3, <1>5, <2>1, <2>2, <2>3 DEF Evolves
<1> QED
  BY <1>1, <1>4, <1>6, <1>8, CompleteDisableEvolves

LEMMA ProposeEvolves ==
  ASSUME NEW s \in Record, RecordInv(s), NEW m \in Members, NEW boot \in Boots,
         NEW block \in Block, ProposeOK(s, m, boot, block)
  PROVE  /\ Propose(s, block) \in Record
         /\ RecordInv(Propose(s, block))
         /\ Evolves(s, Propose(s, block), Unattended)
<1> DEFINE t == Propose(s, block)
<1>1. /\ t.phase = "preparing" /\ t.epoch = s.epoch + 1 /\ t.candidate = block
      /\ t.ready = NoReady /\ t.closed = Nobody
      /\ t.members = s.members /\ t.active = s.active /\ t.fenced = s.fenced
      /\ t.published = s.published
  BY DEF Propose, Record
<1>2. t \in Record
  <2>1. s.epoch + 1 \in Nat
    BY Fields
  <2> QED
    BY <2>1, NobodyType DEF Propose, Record, Phases
<1>3. RecordInv(t)
  <2>1. Joined(t) /\ Supersedes(t.candidate, t.published)
    BY <1>1 DEF ProposeOK, Joined, Supersedes
  <2> QED
    BY <1>1, <2>1 DEF RecordInv, InBarrier
<1>4. Evolves(s, t, Unattended)
  <2>1. Keeps(s, t) /\ s.epoch < t.epoch /\ s.epoch <= t.epoch /\ ~ Changing(t)
    BY <1>1, Fields DEF Keeps, Changing
  <2>2. \A n \in Members : t.closed[n] \notin Boots
    BY <1>1, BootsAreNumbers DEF Nobody
  <2> QED
    BY <1>1, <2>1, <2>2 DEF Evolves
<1> QED
  BY <1>2, <1>3, <1>4

LEMMA ReadyEvolves ==
  ASSUME NEW s \in Record, RecordInv(s), NEW m \in Members, NEW boot \in Boots,
         NEW anchor \in {NoHash} \cup Hashes, NEW floor \in Heights \cup {0},
         s.phase = "preparing", s.members[m] = boot
  PROVE  /\ Ready(s, m, anchor, floor) \in Record
         /\ RecordInv(Ready(s, m, anchor, floor))
         /\ Evolves(s, Ready(s, m, anchor, floor),
                    [Unattended EXCEPT !.ready = {<<m, boot>>}])
         /\ InBarrier(Ready(s, m, anchor, floor)) => floor <= s.candidate.height
<1> DEFINE minimum == Larger(s.minimum, floor)
           ready   == [s.ready EXCEPT ![m] = anchor]
           by      == [Unattended EXCEPT !.ready = {<<m, boot>>}]
           t       == Ready(s, m, anchor, floor)
<1>1. minimum \in Heights \cup {0} /\ minimum >= floor
  BY LargerType, Fields
<1>2. ready \in [Members -> {Absent, NoHash} \cup Hashes]
  BY Fields
<1>3. by.joined = {} /\ by.closed = {} /\ by.fenced = {} /\ by.ready = {<<m, boot>>}
  BY DEF Unattended
<1>4. s.candidate \in Block /\ s.closed = Nobody /\ Joined(s)
      /\ Supersedes(s.candidate, s.published)
  BY DEF RecordInv, InBarrier
<1>5. \A n \in Members : s.closed[n] \notin Boots
  BY <1>4, BootsAreNumbers DEF Nobody
<1>6. CASE s.candidate.height < minimum
  <2>1. t = [s EXCEPT !.minimum = minimum, !.phase = "active",
                      !.candidate = NoBlock, !.ready = NoReady]
    BY <1>6 DEF Ready
  <2>2. /\ t.phase = "active" /\ t.members = s.members /\ t.active = s.active
        /\ t.closed = s.closed /\ t.fenced = s.fenced /\ t.published = s.published
        /\ t.epoch = s.epoch
    BY <2>1 DEF Record
  <2>3. t \in Record
    BY <2>1, <1>1, NobodyType DEF Record, Phases
  <2>4. RecordInv(t) /\ ~ InBarrier(t) /\ ~ Changing(t)
    BY <2>2 DEF RecordInv, InBarrier, Changing
  <2>5. Evolves(s, t, by)
    BY <1>3, <2>2, <2>4, Fields DEF Evolves, Keeps
  <2> QED
    BY <2>3, <2>4, <2>5
<1>7. CASE ~ s.candidate.height < minimum
  <2>1. t = [s EXCEPT !.minimum = minimum, !.ready = ready,
                      !.phase = IF AllReady(ready, s) THEN "closing" ELSE "preparing"]
    BY <1>7 DEF Ready
  <2>2. /\ t.phase = IF AllReady(ready, s) THEN "closing" ELSE "preparing"
        /\ t.members = s.members /\ t.active = s.active /\ t.ready = ready
        /\ t.closed = s.closed /\ t.fenced = s.fenced /\ t.published = s.published
        /\ t.epoch = s.epoch /\ t.candidate = s.candidate
    BY <2>1 DEF Record
  <2>3. t \in Record
    BY <2>1, <1>1, <1>2 DEF Record, Phases
  <2>4. RecordInv(t)
    BY <1>4, <2>2 DEF RecordInv, InBarrier, AllReady, Joined, Listed
  <2>5. Evolves(s, t, by)
    <3>1. \A n \in Members : t.ready[n] # Absent =>
            s.ready[n] # Absent \/ <<n, s.members[n]>> \in by.ready
      BY <1>3, <2>2, Fields
    <3> QED
      BY <1>3, <1>5, <2>2, <3>1, Fields DEF Evolves, Keeps, InBarrier
  <2>6. floor <= s.candidate.height
    <3> HIDE DEF minimum
    <3>1. minimum \in Nat /\ floor \in Nat
      BY <1>1, PublicationAssumption
    <3>2. s.candidate.height \in Nat
      BY <1>4, BlocksHaveHeights
    <3> QED
      BY <1>1, <1>7, <3>1, <3>2
  <2> QED
    BY <2>3, <2>4, <2>5, <2>6
<1> QED
  BY <1>6, <1>7

LEMMA AbortEvolves ==
  ASSUME NEW s \in Record, RecordInv(s), s.phase = "preparing"
  PROVE  /\ Abort(s) \in Record /\ RecordInv(Abort(s))
         /\ Evolves(s, Abort(s), Unattended)
<1> DEFINE t == Abort(s)
<1>1. /\ t.phase = "active" /\ t.members = s.members /\ t.active = s.active
      /\ t.closed = s.closed /\ t.fenced = s.fenced /\ t.published = s.published
      /\ t.epoch = s.epoch
  BY DEF Abort, Record
<1>2. t \in Record
  BY NobodyType DEF Abort, Record, Phases
<1>3. RecordInv(t) /\ ~ InBarrier(t) /\ ~ Changing(t)
  BY <1>1 DEF RecordInv, InBarrier, Changing
<1>4. Evolves(s, t, Unattended)
  BY <1>1, <1>3, Fields DEF Evolves, Keeps
<1> QED
  BY <1>2, <1>3, <1>4

\* The last acknowledgement publishes, or completes a disable.
LEMMA ClosedEvolves ==
  ASSUME NEW s \in Record, RecordInv(s), NEW m \in Members, NEW boot \in Boots,
         Changing(s), s.members[m] = boot
  PROVE  /\ Closed(s, m, boot) \in Record
         /\ RecordInv(Closed(s, m, boot))
         /\ Evolves(s, Closed(s, m, boot),
                    [Unattended EXCEPT !.closed = {<<m, boot>>}])
<1> DEFINE u  == [s EXCEPT !.closed[m] = boot]
           by == [Unattended EXCEPT !.closed = {<<m, boot>>}]
<1>1. by.joined = {} /\ by.closed = {<<m, boot>>} /\ by.fenced = {} /\ by.ready = {}
  BY DEF Unattended
<1>2. /\ u.phase = s.phase /\ u.epoch = s.epoch /\ u.members = s.members
      /\ u.active = s.active /\ u.fenced = s.fenced /\ u.published = s.published
      /\ u.candidate = s.candidate /\ u.ready = s.ready
      /\ u.closed = [s.closed EXCEPT ![m] = boot]
  BY DEF Record
<1>3. u.closed \in [Members -> {Unlisted} \cup Boots]
  BY <1>2, Fields
<1>4. u \in Record
  BY <1>2, <1>3 DEF Record
<1>5. \A n \in Members : u.closed[n] \in Boots =>
        u.closed[n] = s.closed[n] \/ <<n, u.closed[n]>> \in by.closed
  BY <1>1, <1>2, Fields
<1>6. CASE s.phase = "closing" /\ AllClosed(u.closed, s)
  <2> DEFINE t == [u EXCEPT !.phase = "active", !.published = s.candidate,
                            !.minimum = s.candidate.height, !.candidate = NoBlock,
                            !.active = s.members]
  <2>1. Closed(s, m, boot) = t
    BY <1>6 DEF Closed
  <2>2. /\ t.phase = "active" /\ t.epoch = s.epoch /\ t.members = s.members
        /\ t.active = s.members /\ t.fenced = s.fenced
        /\ t.published = s.candidate /\ t.closed = u.closed
    BY <1>2, <1>4 DEF Record
  <2>3. u.closed = s.members
    BY <1>6 DEF AllClosed
  <2>4. s.candidate \in Block /\ s.candidate.height \in Heights
    BY <1>6, BlocksHaveHeights DEF RecordInv, InBarrier
  <2>5. t \in Record
    BY <1>3, <1>4, <2>3, <2>4 DEF Record, Phases
  <2>6. RecordInv(t) /\ ~ InBarrier(t) /\ ~ Changing(t)
    BY <2>2 DEF RecordInv, InBarrier, Changing
  <2>7. Publishes(s, t)
    BY <1>6, <2>2, <2>3 DEF Publishes
  <2>8. Evolves(s, t, by)
    BY <1>1, <1>5, <2>2, <2>6, <2>7, Fields DEF Evolves
  <2> QED
    BY <2>1, <2>5, <2>6, <2>8
<1>7. CASE ~ (s.phase = "closing" /\ AllClosed(u.closed, s))
  <2>1. Closed(s, m, boot) = CompleteDisable(u)
    BY <1>7 DEF Closed
  <2>2. RecordInv(u)
    BY <1>2 DEF RecordInv, InBarrier, Changing, Joined, Listed
  <2>3. Evolves(s, u, by) /\ Keeps(s, u)
    BY <1>1, <1>2, <1>5, Fields DEF Evolves, Keeps, InBarrier, Changing
  <2> QED
    BY <1>4, <2>1, <2>2, <2>3, CompleteDisableEvolves
<1> QED
  BY <1>6, <1>7

LEMMA EnableEvolves ==
  ASSUME NEW s \in Record, RecordInv(s), EnableOK(s)
  PROVE  /\ Enable(s) \in Record /\ RecordInv(Enable(s))
         /\ Evolves(s, Enable(s), Unattended)
<1>1. CASE s.phase = "disabled"
  <2> DEFINE t == [s EXCEPT !.phase = RosterPhase(s)]
  <2>1. Enable(s) = t
    BY <1>1 DEF Enable
  <2>2. /\ t.phase \in {"active", "joining"} /\ t.members = s.members
        /\ t.active = s.active /\ t.closed = s.closed /\ t.fenced = s.fenced
        /\ t.published = s.published /\ t.epoch = s.epoch
    BY DEF Record, RosterPhase
  <2>3. t \in Record
    BY DEF Record, RosterPhase, Phases
  <2>4. RecordInv(t) /\ ~ InBarrier(t) /\ ~ Changing(t)
    BY <2>2 DEF RecordInv, InBarrier, Changing
  <2>5. Evolves(s, t, Unattended)
    BY <2>2, <2>4, Fields DEF Evolves, Keeps
  <2> QED
    BY <2>1, <2>3, <2>4, <2>5
<1>2. CASE s.phase = "disabling"
  <2> DEFINE u == [s EXCEPT !.resume = TRUE]
  <2>1. Enable(s) = CompleteDisable(u)
    BY <1>2 DEF Enable
  <2>2. /\ u.phase = "disabling" /\ u.members = s.members
        /\ u.active = s.active /\ u.closed = s.closed /\ u.fenced = s.fenced
        /\ u.published = s.published /\ u.epoch = s.epoch
    BY <1>2 DEF Record
  <2>3. u \in Record
    BY DEF Record
  <2>4. RecordInv(u) /\ ~ InBarrier(u)
    BY <2>2 DEF RecordInv, InBarrier
  <2>5. Evolves(s, u, Unattended) /\ Keeps(s, u)
    BY <1>2, <2>2, <2>4, Fields DEF Evolves, Keeps, Changing
  <2> QED
    BY <2>1, <2>3, <2>4, <2>5, CompleteDisableEvolves
<1> QED
  BY <1>1, <1>2 DEF EnableOK

LEMMA DisableEvolves ==
  ASSUME NEW s \in Record, RecordInv(s)
  PROVE  /\ Disable(s) \in Record /\ RecordInv(Disable(s))
         /\ Evolves(s, Disable(s), Unattended)
<1>1. CASE s.phase \in {"disabled", "disabling"}
  <2> DEFINE u == [s EXCEPT !.resume = FALSE]
  <2>1. Disable(s) = CompleteDisable(u)
    BY <1>1 DEF Disable
  <2>2. /\ u.phase = s.phase /\ u.members = s.members
        /\ u.active = s.active /\ u.closed = s.closed /\ u.fenced = s.fenced
        /\ u.published = s.published /\ u.epoch = s.epoch
    BY DEF Record
  <2>3. u \in Record
    BY DEF Record
  <2>4. RecordInv(u) /\ ~ InBarrier(u)
    BY <1>1, <2>2 DEF RecordInv, InBarrier
  <2>5. Evolves(s, u, Unattended) /\ Keeps(s, u)
    BY <2>2, <2>4, Fields DEF Evolves, Keeps, Changing
  <2> QED
    BY <2>1, <2>3, <2>4, <2>5, CompleteDisableEvolves
<1>2. CASE s.phase \notin {"disabled", "disabling"}
  <2> DEFINE u == [s EXCEPT !.phase = "disabling", !.epoch = @ + 1,
                            !.closed = Nobody, !.candidate = NoBlock,
                            !.resume = FALSE]
  <2>1. Disable(s) = CompleteDisable(u)
    BY <1>2 DEF Disable
  <2>2. /\ u.phase = "disabling" /\ u.members = s.members
        /\ u.active = s.active /\ u.closed = Nobody /\ u.fenced = s.fenced
        /\ u.published = s.published /\ u.epoch = s.epoch + 1
    BY DEF Record
  <2>3. u \in Record
    <3>1. s.epoch + 1 \in Nat
      BY Fields
    <3> QED
      BY <3>1, NobodyType DEF Record, Phases
  <2>4. RecordInv(u) /\ ~ InBarrier(u)
    BY <2>2 DEF RecordInv, InBarrier
  <2>5. Evolves(s, u, Unattended) /\ Keeps(s, u)
    <3>1. \A n \in Members : u.closed[n] \notin Boots
      BY <2>2, BootsAreNumbers DEF Nobody
    <3>2. s.epoch <= u.epoch
      BY <2>2, Fields
    <3> QED
      BY <2>2, <2>4, <3>1, <3>2 DEF Evolves, Keeps
  <2> QED
    BY <2>1, <2>3, <2>4, <2>5, CompleteDisableEvolves
<1> QED
  BY <1>1, <1>2

LEMMA FenceEvolves ==
  ASSUME NEW s \in Record, RecordInv(s), NEW m \in Members, NEW boot \in Boots,
         FenceOK(s, m, boot)
  PROVE  /\ Fence(s, m, boot) \in Record
         /\ RecordInv(Fence(s, m, boot))
         /\ Evolves(s, Fence(s, m, boot),
                    [Unattended EXCEPT !.fenced = {<<m, boot>>}])
<1> DEFINE u  == [s EXCEPT !.members[m] = Nil,
                           !.phase = IF @ \in {"disabling", "disabled"} THEN @ ELSE "joining",
                           !.candidate = NoBlock, !.ready = NoReady,
                           !.closed = IF s.phase = "disabling" THEN @ ELSE Nobody,
                           !.fenced = @ \cup {<<m, boot>>}]
           by == [Unattended EXCEPT !.fenced = {<<m, boot>>}]
<1>1. Fence(s, m, boot) = CompleteDisable(u)
  BY DEF Fence
<1>2. by.joined = {} /\ by.closed = {} /\ by.fenced = {<<m, boot>>}
  BY DEF Unattended
<1>3. /\ u.members = [s.members EXCEPT ![m] = Nil]
      /\ u.phase = IF s.phase \in {"disabling", "disabled"} THEN s.phase ELSE "joining"
      /\ u.closed = IF s.phase = "disabling" THEN s.closed ELSE Nobody
      /\ u.fenced = s.fenced \cup {<<m, boot>>}
      /\ u.active = s.active /\ u.published = s.published /\ u.epoch = s.epoch
      /\ u.candidate = NoBlock /\ u.ready = NoReady
      /\ u.minimum = s.minimum /\ u.resume = s.resume
  BY DEF Record
<1>4. u \in Record
  <2>1. u.members \in [Members -> {Unlisted, Nil} \cup Boots]
    BY <1>3, Fields
  <2>2. u.closed \in [Members -> {Unlisted} \cup Boots]
    BY <1>3, Fields, NobodyType
  <2>3. u.fenced \in SUBSET (Members \X Boots)
    BY <1>3, Fields
  <2>4. u.phase \in Phases
    BY <1>3, Fields DEF Phases
  <2> QED
    BY <1>3, <2>1, <2>2, <2>3, <2>4, Fields, NobodyType DEF Record
<1>5. ~ InBarrier(u)
  BY <1>3 DEF InBarrier
<1>6. RecordInv(u)
  <2>1. ASSUME NEW n \in Members, u.active[n] \in Boots
        PROVE  u.members[n] = u.active[n] \/ <<n, u.active[n]>> \in u.fenced
    BY <1>3, <2>1, Fields DEF RecordInv, FenceOK
  <2> QED
    BY <1>3, <1>5, <2>1 DEF RecordInv, InBarrier
<1>7. Evolves(s, u, by) /\ Keeps(s, u)
  <2>1. Keeps(s, u) /\ s.epoch <= u.epoch
    BY <1>3, Fields DEF Keeps
  <2>2. ASSUME NEW n \in Members, u.members[n] \in Boots
        PROVE  u.members[n] = s.members[n]
    BY <1>3, <2>2, Fields, BootsAreNumbers
  <2>3. ASSUME NEW n \in Members, u.closed[n] \in Boots
        PROVE  u.closed[n] = s.closed[n] /\ s.phase = "disabling"
    BY <1>3, <2>3, BootsAreNumbers DEF Nobody
  <2>4. ASSUME NEW n \in Members, NEW c \in Boots, <<n, c>> \in u.fenced
        PROVE  <<n, c>> \in s.fenced \/ <<n, c>> \in by.fenced
    BY <1>2, <1>3, <2>4
  <2> QED
    BY <1>5, <2>1, <2>2, <2>3, <2>4 DEF Evolves, Changing
<1> QED
  BY <1>1, <1>4, <1>6, <1>7, CompleteDisableEvolves

\* A change of the roster: the barrier, if any, is given up.
LEMMA RosterEvolves ==
  ASSUME NEW s \in Record, RecordInv(s), NEW m \in Members,
         NEW t \in Record, NEW listed \in {Nil, Unlisted},
         s.members[m] \notin Boots, s.phase # "disabling",
         t.members = [s.members EXCEPT ![m] = listed],
         (t.phase = "disabled" /\ s.phase = "disabled") \/ t.phase \in {"joining", "active"},
         t.closed = Nobody, t.fenced = s.fenced, t.active = s.active,
         t.published = s.published, t.epoch = s.epoch
  PROVE  RecordInv(t) /\ Evolves(s, t, Unattended)
<1>1. ~ InBarrier(t) /\ ~ Changing(t)
  BY DEF InBarrier, Changing
<1>2. RecordInv(t)
  <2>1. ASSUME NEW n \in Members, t.active[n] \in Boots
        PROVE  t.members[n] = t.active[n] \/ <<n, t.active[n]>> \in t.fenced
    BY <2>1, Fields DEF RecordInv
  <2> QED
    BY <1>1, <2>1 DEF RecordInv, InBarrier
<1>3. Evolves(s, t, Unattended)
  <2>1. ASSUME NEW n \in Members, t.members[n] \in Boots
        PROVE  t.members[n] = s.members[n]
    BY <2>1, Fields, BootsAreNumbers
  <2>2. \A n \in Members : t.closed[n] \notin Boots
    BY BootsAreNumbers DEF Nobody
  <2> QED
    BY <1>1, <2>1, <2>2, Fields DEF Evolves, Keeps
<1> QED
  BY <1>2, <1>3

LEMMA AddMemberEvolves ==
  ASSUME NEW s \in Record, RecordInv(s), NEW m \in Members, AddMemberOK(s, m)
  PROVE  /\ AddMember(s, m) \in Record
         /\ RecordInv(AddMember(s, m))
         /\ Evolves(s, AddMember(s, m), Unattended)
<1> DEFINE t == AddMember(s, m)
<1>1. /\ t.members = [s.members EXCEPT ![m] = Nil]
      /\ t.phase = IF s.phase = "disabled" THEN s.phase ELSE "joining"
      /\ t.closed = Nobody /\ t.fenced = s.fenced /\ t.active = s.active
      /\ t.published = s.published /\ t.epoch = s.epoch
  BY DEF AddMember, Record
<1>2. t \in Record
  <2>1. [s.members EXCEPT ![m] = Nil] \in [Members -> {Unlisted, Nil} \cup Boots]
    BY Fields
  <2> QED
    BY <2>1, NobodyType DEF AddMember, Record, Phases
<1>3. s.members[m] \notin Boots /\ s.phase # "disabling"
  BY BootsAreNumbers DEF AddMemberOK, Listed
<1> HIDE DEF t
<1>4. RecordInv(t) /\ Evolves(s, t, Unattended)
  BY <1>1, <1>2, <1>3, RosterEvolves
<1> QED
  BY <1>2, <1>4 DEF t

LEMMA RemoveMemberEvolves ==
  ASSUME NEW s \in Record, RecordInv(s), NEW m \in Members, RemoveMemberOK(s, m)
  PROVE  /\ RemoveMember(s, m) \in Record
         /\ RecordInv(RemoveMember(s, m))
         /\ Evolves(s, RemoveMember(s, m), Unattended)
<1> DEFINE t == RemoveMember(s, m)
<1>1. /\ t.members = [s.members EXCEPT ![m] = Unlisted]
      /\ (t.phase = "disabled" /\ s.phase = "disabled") \/ t.phase \in {"joining", "active"}
      /\ t.closed = Nobody /\ t.fenced = s.fenced /\ t.active = s.active
      /\ t.published = s.published /\ t.epoch = s.epoch
  BY DEF RemoveMember, Record, RosterPhase
<1>2. t \in Record
  <2>1. [s.members EXCEPT ![m] = Unlisted] \in [Members -> {Unlisted, Nil} \cup Boots]
    BY Fields
  <2> QED
    BY <2>1, NobodyType DEF RemoveMember, Record, RosterPhase, Phases
<1>3. s.members[m] \notin Boots /\ s.phase # "disabling"
  BY BootsAreNumbers DEF RemoveMemberOK
<1> HIDE DEF t
<1>4. RecordInv(t) /\ Evolves(s, t, Unattended)
  BY <1>1, <1>2, <1>3, RosterEvolves
<1> QED
  BY <1>2, <1>4 DEF t

\* A new scope: nobody has joined or serves.
LEMMA NewRecord ==
  ASSUME NEW roster
  PROVE  /\ New(roster) \in Record /\ RecordInv(New(roster))
         /\ New(roster).phase = "joining" /\ New(roster).fenced = {}
         /\ New(roster).active = Nobody /\ New(roster).closed = Nobody
         /\ New(roster).epoch = 0
         /\ \A m \in Members : New(roster).members[m] \notin Boots
<1>1. [m \in Members |-> IF m \in roster THEN Nil ELSE Unlisted]
        \in [Members -> {Unlisted, Nil} \cup Boots]
  OBVIOUS
<1>2. New(roster) \in Record
  BY <1>1, NobodyType DEF New, Record, Phases
<1>3. /\ New(roster).phase = "joining" /\ New(roster).fenced = {}
      /\ New(roster).active = Nobody /\ New(roster).closed = Nobody
      /\ New(roster).epoch = 0
  BY DEF New
<1>4. \A m \in Members : New(roster).members[m] \notin Boots
  BY BootsAreNumbers DEF New
<1>5. RecordInv(New(roster))
  BY <1>3, BootsAreNumbers DEF RecordInv, InBarrier, Nobody
<1> QED
  BY <1>2, <1>3, <1>4, <1>5

-----------------------------------------------------------------------------
(* The fleet                                                               *)

Last(l) == l[Len(l)]

\* The journal l: every record is sound, epochs and published heights never
\* fall, and a barrier after a disabled record has a newer epoch.
LogInv(l) ==
  /\ l \in Seq(Record)
  /\ \A r \in 1..Len(l) : RecordInv(l[r])
  /\ \A q, r \in 1..Len(l) : q <= r =>
       /\ l[q].epoch <= l[r].epoch
       /\ l[q].published.height <= l[r].published.height
       /\ l[q].phase = "disabled" /\ InBarrier(l[r]) => l[q].epoch < l[r].epoch

\* The gate is past every disabled record up to revision r: no record still to
\* be installed up to r releases the floor.
Past(l, n, r) ==
  n.gate # None /\ \A k \in n.gate..r : l[k].phase # "disabled"

\* Revisions and the task of node n exist in journal l.
IndexInv(l, n) ==
  /\ n.gate <= Len(l) /\ n.snap \in {None, n.gate}
  /\ n.ack <= n.gate /\ n.inventory <= Len(l)
  /\ n.task.kind # "none" => l # <<>>
  /\ n.task.kind = "propose" => n.task.block \in Block
  /\ n.task.kind = "ready" => n.task.epoch <= Last(l).epoch

\* The journal knows no later boot of m than the running one, and has fenced
\* that one only if it has retired.
BootInv(l, n, m) ==
  \A r \in 1..Len(l) :
    /\ l[r].members[m] <= n.boot
    /\ l[r].active[m] <= n.boot
    /\ l[r].closed[m] <= n.boot
    /\ \A boot \in Boots : <<m, boot>> \in l[r].fenced =>
         boot <= n.boot /\ (boot = n.boot => n.retired)

\* A recorded acknowledgement of the current change: the gate has installed it.
ClosedInv(l, n, m) ==
  l # <<>> /\ Changing(Last(l)) /\ Last(l).closed[m] = n.boot =>
    n.gate # None /\ \A k \in n.gate..Len(l) : Changing(l[k])

\* Where m is active, its gate is past the disabled records before.
ActiveInv(l, n, m) ==
  \A r \in 1..Len(l) : l[r].active[m] = n.boot => Past(l, n, r)

\* What a record that the gate may still install opens is what is published.
OpenInv(l, n, m) ==
  \A r, q \in 1..Len(l) :
    ~ n.retired /\ n.gate <= r /\ r <= q /\ Opens(l[r], m, n.boot) =>
      l[q].active[m] = n.boot /\ l[q].published = l[r].published

\* The floor: fenced and known while a barrier counts on it, and while m is
\* active; and otherwise above everything served through m.
FloorInv(l, n, f, m) ==
  /\ n.task.kind = "ready" =>
       (Last(l).phase = "preparing" /\ Last(l).epoch = n.task.epoch =>
          f.fenced /\ f.height = n.task.floor /\ Past(l, n, Len(l)))
  /\ l # <<>> /\ InBarrier(Last(l)) =>
       (Last(l).ready[m] # Absent /\ Last(l).members[m] = n.boot =>
          f.fenced /\ f.height <= Last(l).candidate.height /\ Past(l, n, Len(l)))
  /\ l # <<>> =>
       (Last(l).active[m] = n.boot =>
          f.fenced /\ f.height <= Last(l).published.height)
  /\ ~ f.fenced =>
       \A r \in 1..Len(l) : l[r].active[m] = n.boot =>
         l[r].published.height <= f.height

MemberInv(l, n, f, m) ==
  /\ n \in Node /\ f \in Local
  /\ IndexInv(l, n)
  /\ BootInv(l, n, m)
  /\ ClosedInv(l, n, m)
  /\ ActiveInv(l, n, m)
  /\ OpenInv(l, n, m)
  /\ FloorInv(l, n, f, m)

Inv ==
  /\ LogInv(log)
  /\ node \in [Members -> Node] /\ local \in [Members -> Local]
  /\ \A m \in Members : MemberInv(log, node[m], local[m], m)

-----------------------------------------------------------------------------
(* The journal grows by one record. *)

\* What the boots that take part in a command know of journal l.
Admits(l, t, n, f, m, by) ==
  \A boot \in Boots :
    /\ <<m, boot>> \in by.joined => boot <= n.boot
    /\ <<m, boot>> \in by.closed =>
         boot = n.boot /\ n.gate = Len(l) /\ Changing(Last(l))
    /\ <<m, boot>> \in by.ready /\ InBarrier(t) =>
         f.fenced /\ f.height <= Last(l).candidate.height /\ Past(l, n, Len(l))
    /\ <<m, boot>> \in by.fenced =>
         boot <= n.boot /\ (boot = n.boot => n.retired)

\* Record t may follow journal l.
Follows(l, t, by) ==
  /\ LogInv(l) /\ l # <<>>
  /\ t \in Record /\ RecordInv(t)
  /\ Evolves(Last(l), t, by)

LEMMA AppendFacts ==
  ASSUME NEW l \in Seq(Record), NEW t \in Record
  PROVE  /\ Append(l, t) \in Seq(Record)
         /\ Len(Append(l, t)) = Len(l) + 1 /\ Len(l) \in Nat
         /\ \A r \in 1..Len(l) : Append(l, t)[r] = l[r]
         /\ Append(l, t)[Len(l) + 1] = t
         /\ Last(Append(l, t)) = t /\ Append(l, t) # <<>>
         /\ l # <<>> => Len(l) \in 1..Len(l) /\ Len(l) >= 1
<1>1. /\ Append(l, t) \in Seq(Record)
      /\ Len(Append(l, t)) = Len(l) + 1 /\ Len(l) \in Nat
      /\ \A r \in 1..Len(l) : Append(l, t)[r] = l[r]
      /\ Append(l, t)[Len(l) + 1] = t
  BY AppendProperties
<1>2. Last(Append(l, t)) = t
  BY <1>1 DEF Last
<1>3. Append(l, t) # <<>>
  BY <1>1, EmptySeq
<1>4. l # <<>> => Len(l) \in 1..Len(l) /\ Len(l) >= 1
  BY <1>1, EmptySeq
<1> QED
  BY <1>1, <1>2, <1>3, <1>4

LEMMA LogRecords ==
  ASSUME NEW l, LogInv(l)
  PROVE  /\ Len(l) \in Nat
         /\ \A r \in 1..Len(l) : l[r] \in Record /\ RecordInv(l[r])
         /\ l # <<>> => Len(l) \in 1..Len(l) /\ Last(l) \in Record /\ RecordInv(Last(l))
  BY DEF LogInv, Last

LEMMA PublishedRises ==
  ASSUME NEW s \in Record, NEW t \in Record, NEW by, RecordInv(s), Evolves(s, t, by)
  PROVE  s.published.height <= t.published.height
<1>1. /\ s.published \in Block \cup {NoBlock} /\ s.candidate \in Block \cup {NoBlock}
      /\ s.published.height \in Nat /\ s.candidate.height \in Nat
  BY Fields, BlocksHaveHeights
<1>2. CASE Keeps(s, t) \/ Drops(s, t)
  BY <1>1, <1>2 DEF Keeps, Drops
<1>3. CASE Publishes(s, t)
  <2>1. Supersedes(s.candidate, s.published) /\ t.published = s.candidate
    BY <1>3 DEF Publishes, RecordInv, InBarrier
  <2> QED
    BY <1>1, <2>1, BlocksHaveHeights DEF Supersedes
<1> QED
  BY <1>2, <1>3 DEF Evolves

LEMMA LogGrows ==
  ASSUME NEW l, NEW t, NEW by, Follows(l, t, by)
  PROVE  LogInv(Append(l, t))
<1> DEFINE k == Append(l, t)
           s == Last(l)
<1>1. l \in Seq(Record) /\ t \in Record /\ s \in Record /\ RecordInv(s)
  BY LogRecords DEF Follows, LogInv
<1>2. /\ k \in Seq(Record) /\ Len(k) = Len(l) + 1 /\ Len(l) \in Nat
      /\ \A r \in 1..Len(l) : k[r] = l[r]
      /\ k[Len(l) + 1] = t /\ Len(l) \in 1..Len(l) /\ s = l[Len(l)]
  BY <1>1, AppendFacts DEF Follows, Last
<1> HIDE DEF k, s
<1>3. /\ s.epoch <= t.epoch /\ s.published.height <= t.published.height
      /\ InBarrier(t) => s.epoch < t.epoch \/ (InBarrier(s) /\ s.epoch = t.epoch)
  <2>1. Evolves(s, t, by)
    BY DEF Follows, s
  <2> QED
    BY <1>1, <2>1, PublishedRises DEF Evolves
<1>4. \A r \in 1..Len(k) : RecordInv(k[r])
  BY <1>2 DEF Follows, LogInv
<1>5. ASSUME NEW q \in 1..Len(k), NEW r \in 1..Len(k), q <= r
      PROVE  /\ k[q].epoch <= k[r].epoch
             /\ k[q].published.height <= k[r].published.height
             /\ k[q].phase = "disabled" /\ InBarrier(k[r]) => k[q].epoch < k[r].epoch
  <2>1. CASE r \in 1..Len(l)
    <3>1. q \in 1..Len(l)
      BY <1>2, <1>5, <2>1
    <3> QED
      BY <1>2, <1>5, <2>1, <3>1 DEF Follows, LogInv
  <2>2. CASE r = Len(l) + 1 /\ q \in 1..Len(l)
    <3>1. q <= Len(l)
      BY <1>2, <2>2
    <3>2. /\ l[q].epoch <= s.epoch /\ l[q].published.height <= s.published.height
          /\ l[q].phase = "disabled" /\ InBarrier(s) => l[q].epoch < s.epoch
      BY <1>2, <2>2, <3>1 DEF Follows, LogInv
    <3>3. /\ l[q].epoch \in Nat /\ s.epoch \in Nat /\ t.epoch \in Nat
          /\ l[q].published.height \in Nat /\ s.published.height \in Nat
          /\ t.published.height \in Nat
      <4>1. l[q] \in Record
        BY <1>1, <2>2
      <4> QED
        BY <1>1, <4>1, Fields, BlocksHaveHeights
    <3>4. k[q] = l[q] /\ k[r] = t
      BY <1>2, <2>2
    <3>5. l[q].epoch <= t.epoch /\ l[q].published.height <= t.published.height
      BY <1>3, <3>2, <3>3
    <3>6. l[q].phase = "disabled" /\ InBarrier(t) => l[q].epoch < t.epoch
      BY <1>3, <3>2, <3>3
    <3> QED
      BY <3>4, <3>5, <3>6
  <2>3. CASE r = Len(l) + 1 /\ q = Len(l) + 1
    <3>1. t.epoch \in Nat /\ t.published.height \in Nat
      BY <1>1, Fields, BlocksHaveHeights
    <3> QED
      BY <1>2, <2>3, <3>1 DEF InBarrier
  <2> QED
    BY <1>2, <1>5, <2>1, <2>2, <2>3
<1> QED
  BY <1>2, <1>4, <1>5 DEF LogInv, k

LEMMA NodeFields ==
  ASSUME NEW n \in Node
  PROVE  /\ n.boot \in Boots /\ n.gate \in Nat /\ n.snap \in Nat /\ n.task \in Task
         /\ n.ack \in Nat /\ n.inventory \in Nat \cup {Nothing}
         /\ n.bootstrapped \in BOOLEAN /\ n.retired \in BOOLEAN
         /\ n.boot \in Nat /\ n.boot # Nil /\ n.boot # Unlisted
  BY BootsAreNumbers DEF Node

\* An acknowledgement that a record counts: the gate has installed the change.
LEMMA AcknowledgedGate ==
  ASSUME NEW m \in Members, NEW l, NEW t, NEW n, NEW f, NEW by,
         Follows(l, t, by), MemberInv(l, n, f, m), Admits(l, t, n, f, m, by),
         Changing(Last(l)), t.closed[m] = n.boot
  PROVE  n.gate # None /\ \A k \in n.gate..Len(l) : Changing(l[k])
<1>1. n \in Node /\ n.boot \in Boots /\ n.gate \in Nat
  BY NodeFields DEF MemberInv
<1>2. Len(l) \in Nat /\ Len(l) >= 1 /\ Last(l) = l[Len(l)]
  BY LogRecords DEF Follows, Last
<1>3. Last(l).closed[m] = n.boot \/ <<m, n.boot>> \in by.closed
  BY <1>1 DEF Follows, Evolves
<1>4. CASE Last(l).closed[m] = n.boot
  BY <1>4 DEF MemberInv, ClosedInv, Follows
<1>5. CASE <<m, n.boot>> \in by.closed
  <2>1. n.gate = Len(l)
    BY <1>1, <1>5 DEF Admits
  <2> QED
    BY <1>2, <2>1 DEF None
<1> QED
  BY <1>3, <1>4, <1>5

LEMMA MemberGrows ==
  ASSUME NEW m \in Members, NEW l, NEW t, NEW n, NEW f, NEW by,
         Follows(l, t, by), MemberInv(l, n, f, m), Admits(l, t, n, f, m, by)
  PROVE  MemberInv(Append(l, t), n, f, m)
<1> DEFINE k == Append(l, t)
           s == Last(l)
<1>1. /\ l \in Seq(Record) /\ t \in Record /\ s \in Record
      /\ RecordInv(s) /\ RecordInv(t)
  BY LogRecords DEF Follows, LogInv
<1>2. /\ k \in Seq(Record) /\ Len(k) = Len(l) + 1 /\ Len(l) \in Nat
      /\ \A r \in 1..Len(l) : k[r] = l[r]
      /\ k[Len(l) + 1] = t /\ Len(l) \in 1..Len(l) /\ s = l[Len(l)]
      /\ Last(k) = t /\ k # <<>> /\ l # <<>>
  BY <1>1, AppendFacts DEF Follows, Last
<1> HIDE DEF k, s
<1>3. Evolves(s, t, by)
  BY DEF Follows, s
<1>4. /\ n \in Node /\ f \in Local /\ n.boot \in Boots /\ n.gate \in Nat
      /\ n.boot \in Nat /\ n.boot # Nil /\ n.boot # Unlisted /\ n.gate <= Len(l)
  BY NodeFields DEF MemberInv, IndexInv
<1>5. IndexInv(k, n)
  <2>1. n.gate <= Len(k) /\ n.ack <= n.gate /\ n.snap \in {None, n.gate}
    BY <1>2, <1>4 DEF MemberInv, IndexInv
  <2>2. n.inventory <= Len(k)
    <3>1. n.inventory \in Int /\ n.inventory <= Len(l)
      BY <1>4, NodeFields DEF MemberInv, IndexInv, Nothing
    <3> QED
      BY <1>2, <3>1
  <2>3. n.task.kind = "ready" => n.task.epoch <= Last(k).epoch
    <3>1. n.task.epoch \in Nat /\ s.epoch \in Nat /\ t.epoch \in Nat
      BY <1>1, <1>4, NodeFields, Fields DEF Task
    <3>2. s.epoch <= t.epoch
      BY <1>3 DEF Evolves
    <3>3. n.task.kind = "ready" => n.task.epoch <= s.epoch
      BY DEF MemberInv, IndexInv, s
    <3> QED
      BY <1>2, <3>1, <3>2, <3>3
  <2> QED
    BY <1>2, <2>1, <2>2, <2>3 DEF MemberInv, IndexInv
<1>6. BootInv(k, n, m)
  <2>1. /\ s.members[m] <= n.boot /\ s.active[m] <= n.boot /\ s.closed[m] <= n.boot
        /\ \A boot \in Boots : <<m, boot>> \in s.fenced =>
             boot <= n.boot /\ (boot = n.boot => n.retired)
    BY <1>2 DEF MemberInv, BootInv
  <2>2. /\ t.members[m] \in {Unlisted, Nil} \cup Boots
        /\ t.active[m] \in {Unlisted} \cup Boots /\ t.closed[m] \in {Unlisted} \cup Boots
    BY <1>1, Fields
  <2>3. t.members[m] <= n.boot
    <3>1. CASE t.members[m] \in Boots
      <4>1. t.members[m] = s.members[m] \/ <<m, t.members[m]>> \in by.joined
        BY <1>3, <3>1 DEF Evolves
      <4> QED
        BY <2>1, <3>1, <4>1 DEF Admits
    <3>2. CASE t.members[m] \in {Unlisted, Nil}
      BY <1>4, <3>2 DEF Nil, Unlisted
    <3> QED
      BY <2>2, <3>1, <3>2
  <2>4. t.closed[m] <= n.boot
    <3>1. CASE t.closed[m] \in Boots
      <4>1. t.closed[m] = s.closed[m] \/ <<m, t.closed[m]>> \in by.closed
        BY <1>3, <3>1 DEF Evolves
      <4> QED
        BY <1>4, <2>1, <3>1, <4>1 DEF Admits
    <3>2. CASE t.closed[m] = Unlisted
      BY <1>4, <3>2 DEF Unlisted
    <3> QED
      BY <2>2, <3>1, <3>2
  <2>5. t.active[m] <= n.boot
    BY <1>3, <1>4, <2>1 DEF Evolves, Keeps, Drops, Publishes, Nobody, Unlisted
  <2>6. \A boot \in Boots : <<m, boot>> \in t.fenced =>
          boot <= n.boot /\ (boot = n.boot => n.retired)
    BY <1>3, <2>1 DEF Evolves, Admits
  <2>7. ASSUME NEW r \in 1..Len(k)
        PROVE  r \in 1..Len(l) \/ k[r] = t
    BY <1>2
  <2> QED
    BY <1>2, <2>3, <2>4, <2>5, <2>6, <2>7 DEF MemberInv, BootInv
<1>7. ASSUME t.closed[m] = n.boot, Changing(s)
      PROVE  n.gate # None /\ \A r \in n.gate..Len(l) : Changing(l[r])
  BY <1>7, AcknowledgedGate DEF s
<1>8. ClosedInv(k, n, m)
  <2>1. ASSUME Changing(t), t.closed[m] = n.boot
        PROVE  n.gate # None /\ \A r \in n.gate..Len(k) : Changing(k[r])
    <3>1. Changing(s)
      BY <1>3, <1>4, <2>1 DEF Evolves
    <3>2. ASSUME NEW r \in n.gate..Len(k) PROVE Changing(k[r])
      <4>1. n.gate >= 1
        BY <1>4, <1>7, <2>1, <3>1 DEF None
      <4>2. (r \in n.gate..Len(l) /\ r \in 1..Len(l)) \/ r = Len(l) + 1
        BY <1>2, <1>4, <4>1
      <4> QED
        BY <1>2, <1>7, <2>1, <3>1, <4>2
    <3> QED
      BY <1>7, <2>1, <3>1, <3>2
  <2> QED
    BY <1>2, <2>1 DEF ClosedInv
<1>9. ASSUME Past(l, n, Len(l)), t.phase # "disabled"
      PROVE  Past(k, n, Len(k))
  <2>1. n.gate >= 1
    BY <1>4, <1>9 DEF Past, None
  <2>2. ASSUME NEW r \in n.gate..Len(k) PROVE k[r].phase # "disabled"
    <3>1. (r \in n.gate..Len(l) /\ r \in 1..Len(l)) \/ r = Len(l) + 1
      BY <1>2, <1>4, <2>1
    <3> QED
      BY <1>2, <1>9, <3>1 DEF Past
  <2> QED
    BY <1>9, <2>2 DEF Past
<1>10. ASSUME t.active[m] = n.boot
       PROVE  /\ t.phase # "disabled" /\ ~ Drops(s, t)
              /\ Publishes(s, t) => s.members[m] = n.boot /\ t.closed[m] = n.boot
              /\ Past(k, n, Len(k))
  <2>1. t.phase # "disabled" /\ ~ Drops(s, t)
    BY <1>1, <1>4, <1>10 DEF RecordInv, Drops, Nobody
  <2>2. Publishes(s, t) => s.members[m] = n.boot /\ t.closed[m] = n.boot
    BY <1>10 DEF Publishes
  <2>3. CASE Keeps(s, t)
    <3>1. Past(l, n, Len(l))
      BY <1>2, <1>10, <2>3 DEF Keeps, MemberInv, ActiveInv
    <3> QED
      BY <1>9, <2>1, <2>2, <3>1
  <2>4. CASE Publishes(s, t)
    <3>1. n.gate # None /\ \A r \in n.gate..Len(l) : Changing(l[r])
      BY <1>7, <2>2, <2>4 DEF Publishes, Changing
    <3>2. Past(l, n, Len(l))
      BY <3>1 DEF Past, Changing
    <3> QED
      BY <1>9, <2>1, <2>2, <3>2
  <2> QED
    BY <1>3, <2>1, <2>3, <2>4 DEF Evolves
<1>11. ActiveInv(k, n, m)
  <2>1. ASSUME NEW r \in 1..Len(k), k[r].active[m] = n.boot
        PROVE  Past(k, n, r)
    <3>1. CASE r \in 1..Len(l)
      <4>1. Past(l, n, r)
        BY <1>2, <2>1, <3>1 DEF MemberInv, ActiveInv
      <4>2. n.gate >= 1
        BY <1>4, <4>1 DEF Past, None
      <4>3. \A q \in n.gate..r : q \in 1..Len(l)
        BY <1>2, <1>4, <3>1, <4>2
      <4> QED
        BY <1>2, <4>1, <4>3 DEF Past
    <3>2. CASE r = Len(l) + 1
      BY <1>2, <1>10, <2>1, <3>2
    <3> QED
      BY <1>2, <3>1, <3>2
  <2> QED
    BY <2>1 DEF ActiveInv
<1>12. OpenInv(k, n, m)
  <2>1. ASSUME NEW r \in 1..Len(k), NEW q \in 1..Len(k), ~ n.retired,
               n.gate <= r, r <= q, Opens(k[r], m, n.boot)
        PROVE  k[q].active[m] = n.boot /\ k[q].published = k[r].published
    <3>1. CASE q \in 1..Len(l)
      <4>1. r \in 1..Len(l)
        BY <1>2, <2>1, <3>1
      <4> QED
        BY <1>2, <2>1, <3>1, <4>1 DEF MemberInv, OpenInv
    <3>2. CASE r = Len(l) + 1
      BY <1>2, <2>1, <3>2 DEF Opens
    <3>3. CASE q = Len(l) + 1 /\ r \in 1..Len(l)
      <4>1. k[r] = l[r] /\ k[q] = t /\ r \in n.gate..Len(l)
        BY <1>2, <1>4, <2>1, <3>3
      <4>2. s.active[m] = n.boot /\ s.published = l[r].published
        BY <1>2, <2>1, <3>3, <4>1 DEF MemberInv, OpenInv
      <4>3. ~ Changing(l[r])
        BY <2>1, <4>1 DEF Opens, Changing
      <4>4. <<m, n.boot>> \notin s.fenced /\ <<m, n.boot>> \notin t.fenced
        BY <1>2, <1>4, <1>6, <2>1 DEF MemberInv, BootInv
      <4>5. ~ Drops(s, t)
        BY <1>4, <1>7, <4>1, <4>2, <4>3, <4>4 DEF Drops
      <4>6. ~ Publishes(s, t)
        <5>1. s.members[m] = n.boot
          BY <1>1, <1>4, <4>2, <4>4 DEF RecordInv
        <5> QED
          BY <1>7, <4>1, <4>3, <5>1 DEF Publishes, Changing
      <4>7. Keeps(s, t)
        BY <1>3, <4>5, <4>6 DEF Evolves
      <4> QED
        BY <4>1, <4>2, <4>7 DEF Keeps
    <3> QED
      BY <1>2, <2>1, <3>1, <3>2, <3>3
  <2> QED
    BY <2>1 DEF OpenInv
<1>13. ASSUME InBarrier(t), t.epoch <= s.epoch
       PROVE  /\ InBarrier(s) /\ s.epoch = t.epoch
              /\ t.phase = "preparing" => s.phase = "preparing"
              /\ t.members = s.members /\ t.candidate = s.candidate
              /\ \A p \in Members : t.ready[p] # Absent =>
                   s.ready[p] # Absent \/ <<p, s.members[p]>> \in by.ready
  <2>1. s.epoch \in Nat /\ t.epoch \in Nat
    BY <1>1, Fields
  <2> QED
    BY <1>3, <1>13, <2>1 DEF Evolves
<1>14. ASSUME n.task.kind = "ready", t.phase = "preparing", t.epoch = n.task.epoch
       PROVE  f.fenced /\ f.height = n.task.floor /\ Past(k, n, Len(k))
  <2>1. t.epoch <= s.epoch
    BY <1>14 DEF MemberInv, IndexInv, s
  <2>2. s.phase = "preparing" /\ s.epoch = n.task.epoch
    BY <1>13, <1>14, <2>1 DEF InBarrier
  <2>3. f.fenced /\ f.height = n.task.floor /\ Past(l, n, Len(l))
    BY <1>14, <2>2 DEF MemberInv, FloorInv, s
  <2> QED
    BY <1>9, <1>14, <2>3
<1>15. ASSUME InBarrier(t), t.ready[m] # Absent, t.members[m] = n.boot
       PROVE  f.fenced /\ f.height <= t.candidate.height /\ Past(k, n, Len(k))
  <2>1. t.ready # NoReady
    BY <1>15 DEF NoReady
  <2>2. /\ InBarrier(s) /\ t.members = s.members /\ t.candidate = s.candidate
        /\ s.ready[m] # Absent \/ <<m, s.members[m]>> \in by.ready
    BY <1>3, <1>15, <2>1 DEF Evolves
  <2>3. f.fenced /\ f.height <= s.candidate.height /\ Past(l, n, Len(l))
    <3>1. CASE s.ready[m] # Absent
      BY <1>2, <1>15, <2>2, <3>1 DEF MemberInv, FloorInv, s
    <3>2. CASE <<m, s.members[m]>> \in by.ready
      BY <1>4, <1>15, <2>2, <3>2 DEF Admits, s
    <3> QED
      BY <2>2, <3>1, <3>2
  <2> QED
    BY <1>9, <1>15, <2>2, <2>3 DEF InBarrier
<1>16. ASSUME t.active[m] = n.boot
       PROVE  f.fenced /\ f.height <= t.published.height
  <2>1. CASE Keeps(s, t)
    BY <1>2, <1>16, <2>1 DEF Keeps, MemberInv, FloorInv, s
  <2>2. CASE Publishes(s, t)
    <3>1. s.phase = "closing" /\ s.members[m] = n.boot /\ t.published = s.candidate
      BY <1>16, <2>2 DEF Publishes
    <3>2. s.ready[m] # Absent
      BY <1>1, <1>4, <3>1 DEF RecordInv, Listed
    <3> QED
      BY <1>2, <3>1, <3>2 DEF MemberInv, FloorInv, InBarrier, s
  <2> QED
    BY <1>3, <1>10, <1>16, <2>1, <2>2 DEF Evolves
<1>17. ASSUME ~ f.fenced, NEW r \in 1..Len(k), k[r].active[m] = n.boot
       PROVE  k[r].published.height <= f.height
  <2>1. r \in 1..Len(l)
    BY <1>2, <1>16, <1>17
  <2> QED
    BY <1>2, <1>17, <2>1 DEF MemberInv, FloorInv
<1>18. FloorInv(k, n, f, m)
  BY <1>2, <1>14, <1>15, <1>16, <1>17 DEF FloorInv
<1> QED
  BY <1>4, <1>5, <1>6, <1>8, <1>11, <1>12, <1>18 DEF MemberInv, k

-----------------------------------------------------------------------------
(* What a step may do to a node and its floor while the journal stays. *)

\* Installing a record: a floor is only released when no barrier counts on it.
LEMMA InstallKeeps ==
  ASSUME NEW m \in Members, NEW l, NEW n, NEW f, NEW r \in 1..Len(l),
         LogInv(l), MemberInv(l, n, f, m)
  PROVE  MemberInv(l, Installed(n, r, l[r]), Released(n, f, r, l[r]), m)
<1> DEFINE c == Installed(n, r, l[r])
           g == Released(n, f, r, l[r])
<1>1. /\ Len(l) \in Nat /\ r \in Nat /\ r >= 1 /\ r <= Len(l) /\ l[r] \in Record
      /\ n \in Node /\ f \in Local /\ n.gate \in Nat /\ n.boot \in Boots
  BY LogRecords, NodeFields DEF MemberInv
<1>2. CASE r < n.gate
  <2>1. ~ (r >= n.gate)
    BY <1>1, <1>2
  <2> QED
    BY <1>2, <2>1 DEF Installed, Released
<1>3. CASE r >= n.gate
  <2>1. /\ c \in Node /\ c.boot = n.boot /\ c.retired = n.retired /\ c.task = n.task
        /\ c.ack = n.ack /\ c.inventory = n.inventory
        /\ c.gate = r /\ c.snap \in {None, r}
    <3>1. ~ (r < n.gate)
      BY <1>1, <1>3
    <3>2. c = [n EXCEPT !.gate = r,
                        !.snap = IF l[r].phase = "disabled" THEN None ELSE r]
      BY <3>1 DEF Installed
    <3>3. None \in Nat
      BY DEF None
    <3> HIDE DEF c
    <3> QED
      BY <1>1, <3>2, <3>3 DEF Node
  <2>2. g \in Local
    <3>1. ReleasedHeight(f, l[r]) \in Heights \cup {0}
      BY <1>1, Fields, BlocksHaveHeights, LargerType DEF ReleasedHeight, Local
    <3> QED
      BY <1>1, <3>1 DEF Released, Local
  <2>3. l[r].phase # "disabled" => g = f
    BY DEF Released
  <2>4. g # f => ~ g.fenced /\ g.height = ReleasedHeight(f, l[r])
    BY <1>1 DEF Released, Local
  <2> HIDE DEF c, g
  <2>5. ASSUME NEW q \in 1..Len(l), Past(l, n, q)
        PROVE  /\ Past(l, c, q)
               /\ r <= q => l[r].phase # "disabled"
    <3>1. \A k \in r..q : k \in n.gate..q
      BY <1>1, <1>3, <2>5
    <3> QED
      BY <1>1, <2>1, <2>5, <3>1 DEF Past, None
  <2>6. Len(l) \in 1..Len(l) /\ Last(l) = l[Len(l)] /\ r <= Len(l) /\ l # <<>>
    <3>1. Len(l) \in 1..Len(l) /\ r <= Len(l)
      BY <1>1
    <3> QED
      BY <3>1, EmptySeq DEF Last
  <2>7. IndexInv(l, c)
    <3>1. n.ack \in Nat /\ n.ack <= n.gate
      BY <1>1, NodeFields DEF MemberInv, IndexInv
    <3>2. n.ack <= r
      BY <1>1, <1>3, <3>1
    <3> QED
      BY <1>1, <2>1, <3>2 DEF MemberInv, IndexInv
  <2>8. BootInv(l, c, m)
    BY <2>1 DEF MemberInv, BootInv
  <2>9. ClosedInv(l, c, m)
    <3>1. \A k \in r..Len(l) : k \in n.gate..Len(l)
      BY <1>1, <1>3
    <3> QED
      BY <1>1, <2>1, <3>1 DEF MemberInv, ClosedInv, None
  <2>10. ActiveInv(l, c, m)
    BY <2>1, <2>5 DEF MemberInv, ActiveInv
  <2>11. OpenInv(l, c, m)
    <3>1. \A k \in 1..Len(l) : r <= k => n.gate <= k
      BY <1>1, <1>3
    <3> QED
      BY <2>1, <3>1 DEF MemberInv, OpenInv
  <2>12. Past(l, n, Len(l)) => g = f /\ Past(l, c, Len(l))
    BY <2>3, <2>5, <2>6
  <2>13. Last(l).active[m] = n.boot => Past(l, n, Len(l))
    BY <2>6 DEF MemberInv, ActiveInv
  <2>14. ASSUME ~ g.fenced, NEW q \in 1..Len(l), l[q].active[m] = n.boot
         PROVE  l[q].published.height <= g.height
    <3>1. CASE g = f
      BY <2>14, <3>1 DEF MemberInv, FloorInv
    <3>2. CASE g # f
      <4>1. q < r
        <5>1. Past(l, n, q)
          BY <2>14 DEF MemberInv, ActiveInv
        <5>2. ~ (r <= q)
          BY <2>3, <2>5, <3>2, <5>1
        <5> QED
          BY <1>1, <5>2
      <4>2. q <= r
        BY <1>1, <4>1
      <4>3. l[q].published.height <= l[r].published.height
        BY <1>1, <4>2 DEF LogInv
      <4>4. f.height \in Heights \cup {0} /\ l[r].published.height \in Heights \cup {0}
        BY <1>1, Fields, BlocksHaveHeights DEF Local
      <4>5. g.height >= l[r].published.height /\ g.height \in Heights \cup {0}
        BY <2>4, <3>2, <4>4, LargerType DEF ReleasedHeight
      <4>6. l[q].published.height \in Nat /\ l[r].published.height \in Nat /\ g.height \in Nat
        <5>1. l[q] \in Record
          BY LogRecords
        <5> QED
          BY <1>1, <4>5, <5>1, Fields, BlocksHaveHeights, PublicationAssumption
      <4> QED
        BY <4>3, <4>5, <4>6
    <3> QED
      BY <3>1, <3>2
  <2>15. FloorInv(l, c, g, m)
    BY <2>1, <2>12, <2>13, <2>14 DEF MemberInv, FloorInv
  <2> QED
    BY <2>1, <2>2, <2>7, <2>8, <2>9, <2>10, <2>11, <2>15 DEF MemberInv, c, g
<1> QED
  BY <1>1, <1>2, <1>3

\* A floor may be fenced at any time.
LEMMA FenceKeeps ==
  ASSUME NEW m \in Members, NEW l, NEW n, NEW f, MemberInv(l, n, f, m)
  PROVE  /\ MemberInv(l, n, FencedFloor(f), m)
         /\ FencedFloor(f).fenced /\ FencedFloor(f).height = f.height
<1>1. /\ FencedFloor(f) \in Local
      /\ FencedFloor(f).fenced /\ FencedFloor(f).height = f.height
  BY DEF MemberInv, FencedFloor, Local
<1> HIDE DEF FencedFloor
<1>2. FloorInv(l, n, FencedFloor(f), m)
  BY <1>1 DEF MemberInv, FloorInv
<1> QED
  BY <1>1, <1>2 DEF MemberInv

\* Tasks, acknowledgements and reads come and go, and a node may retire, as long
\* as no readiness is promised.
LEMMA NodeKeeps ==
  ASSUME NEW m \in Members, NEW l, NEW n, NEW f, NEW c \in Node,
         MemberInv(l, n, f, m), IndexInv(l, c),
         c.boot = n.boot, c.gate = n.gate, n.retired => c.retired,
         c.task.kind = "ready" => c.task = n.task
  PROVE  MemberInv(l, c, f, m)
<1>1. \A r : Past(l, c, r) <=> Past(l, n, r)
  BY DEF Past
<1>2. BootInv(l, c, m)
  BY DEF MemberInv, BootInv
<1>3. ClosedInv(l, c, m)
  BY DEF MemberInv, ClosedInv
<1>4. ActiveInv(l, c, m)
  BY <1>1 DEF MemberInv, ActiveInv
<1>5. OpenInv(l, c, m)
  BY DEF MemberInv, OpenInv
<1>6. FloorInv(l, c, f, m)
  BY <1>1 DEF MemberInv, FloorInv
<1> QED
  BY <1>2, <1>3, <1>4, <1>5, <1>6 DEF MemberInv

\* A promise of readiness counts only in the epoch of the snapshot, which no
\* disabled record can have followed.
LEMMA PromiseKeeps ==
  ASSUME NEW m \in Members, NEW l, NEW n, NEW f, LogInv(l), MemberInv(l, n, f, m),
         n.snap # None
  PROVE  MemberInv(l, [n EXCEPT !.task = ReadyTask(l[n.snap].epoch, f.height)],
                   FencedFloor(f), m)
<1> DEFINE c == [n EXCEPT !.task = ReadyTask(l[n.snap].epoch, f.height)]
<1>1. /\ n \in Node /\ f \in Local /\ n.gate \in Nat /\ n.gate = n.snap
      /\ n.gate <= Len(l) /\ n.gate # None
  BY NodeFields DEF MemberInv, IndexInv
<1>2. /\ Len(l) \in Nat /\ n.gate \in 1..Len(l) /\ Len(l) \in 1..Len(l)
      /\ Last(l) = l[Len(l)] /\ l # <<>>
  <2>1. n.gate >= 1
    BY <1>1 DEF None
  <2>2. Len(l) \in Nat
    BY LogRecords
  <2>3. n.gate \in 1..Len(l) /\ Len(l) \in 1..Len(l)
    BY <1>1, <2>1, <2>2
  <2> QED
    BY <2>2, <2>3, EmptySeq DEF Last
<1>3. /\ c \in Node /\ c.boot = n.boot /\ c.gate = n.gate /\ c.retired = n.retired
      /\ c.snap = n.snap /\ c.ack = n.ack /\ c.inventory = n.inventory
      /\ c.task.kind = "ready" /\ c.task.epoch = l[n.gate].epoch
      /\ c.task.floor = f.height
  <2>1. l[n.gate] \in Record
    BY <1>2, LogRecords
  <2>2. NoTask \in Task
    BY DEF NoTask, Task
  <2>3. l[n.gate].epoch \in Nat /\ f.height \in Heights \cup {0}
    BY <1>1, <2>1, Fields DEF Local
  <2>4. /\ ReadyTask(l[n.gate].epoch, f.height) \in Task
        /\ ReadyTask(l[n.gate].epoch, f.height).kind = "ready"
        /\ ReadyTask(l[n.gate].epoch, f.height).epoch = l[n.gate].epoch
        /\ ReadyTask(l[n.gate].epoch, f.height).floor = f.height
    BY <2>2, <2>3 DEF ReadyTask, Task
  <2> QED
    BY <1>1, <2>4 DEF Node
<1> HIDE DEF c
<1>4. MemberInv(l, n, FencedFloor(f), m) /\ FencedFloor(f).fenced
      /\ FencedFloor(f).height = f.height
  BY FenceKeeps
<1> HIDE DEF FencedFloor
<1>5. \A r : Past(l, c, r) <=> Past(l, n, r)
  BY <1>3 DEF Past
<1>6. IndexInv(l, c)
  <2>1. l[n.gate].epoch <= Last(l).epoch
    BY <1>1, <1>2 DEF LogInv
  <2> QED
    BY <1>2, <1>3, <2>1 DEF MemberInv, IndexInv
<1>7. ASSUME Last(l).phase = "preparing", Last(l).epoch = l[n.gate].epoch
      PROVE  Past(l, n, Len(l))
  <2>1. SUFFICES ASSUME NEW k \in n.gate..Len(l), l[k].phase = "disabled"
                 PROVE  FALSE
    BY <1>1 DEF Past
  <2>2. k \in 1..Len(l) /\ n.gate <= k /\ k <= Len(l)
    BY <1>2
  <2>3. l[n.gate].epoch <= l[k].epoch /\ l[k].epoch < Last(l).epoch
    BY <1>2, <1>7, <2>1, <2>2 DEF LogInv, InBarrier
  <2>4. l[n.gate].epoch \in Nat /\ l[k].epoch \in Nat
    BY <1>2, <2>2, LogRecords, Fields
  <2> QED
    BY <1>7, <2>3, <2>4
<1>8. BootInv(l, c, m) /\ ClosedInv(l, c, m) /\ ActiveInv(l, c, m) /\ OpenInv(l, c, m)
  <2>1. BootInv(l, c, m)
    BY <1>3 DEF MemberInv, BootInv
  <2>2. ClosedInv(l, c, m)
    BY <1>3 DEF MemberInv, ClosedInv
  <2>3. ActiveInv(l, c, m)
    BY <1>3, <1>5 DEF MemberInv, ActiveInv
  <2>4. OpenInv(l, c, m)
    BY <1>3 DEF MemberInv, OpenInv
  <2> QED
    BY <2>1, <2>2, <2>3, <2>4
<1>9. FloorInv(l, c, FencedFloor(f), m)
  BY <1>3, <1>4, <1>5, <1>7 DEF MemberInv, FloorInv
<1> QED
  BY <1>3, <1>4, <1>6, <1>8, <1>9 DEF MemberInv, c

\* A local answer only raises a floor that is not fenced.
LEMMA AnswerKeeps ==
  ASSUME NEW m \in Members, NEW l, NEW n, NEW f, NEW g \in Local,
         LogInv(l), MemberInv(l, n, f, m), ~ f.fenced, ~ g.fenced, g.height >= f.height
  PROVE  MemberInv(l, n, g, m)
<1>1. f \in Local /\ f.height \in Nat /\ g.height \in Nat
  <2>1. f \in Local /\ f.height \in Heights \cup {0} /\ g.height \in Heights \cup {0}
    BY DEF MemberInv, Local
  <2>2. \A x \in Heights \cup {0} : x \in Nat
    BY PublicationAssumption
  <2> QED
    BY <2>1, <2>2
<1>2. ASSUME NEW r \in 1..Len(l), l[r].active[m] = n.boot
      PROVE  l[r].published.height <= g.height
  <2>1. l[r].published.height \in Nat
    BY LogRecords, Fields, BlocksHaveHeights
  <2>2. l[r].published.height <= f.height
    BY <1>2 DEF MemberInv, FloorInv
  <2> QED
    BY <1>1, <2>1, <2>2
<1>3. FloorInv(l, n, g, m)
  BY <1>2 DEF MemberInv, FloorInv
<1> QED
  BY <1>3 DEF MemberInv

\* The journal has never heard of a fresh boot.
LEMMA RestartKeeps ==
  ASSUME NEW m \in Members, NEW l, NEW n, NEW f, LogInv(l), MemberInv(l, n, f, m),
         n.boot < MaxBoot
  PROVE  MemberInv(l, Started(n.boot + 1), Unfenced, m)
<1> DEFINE c == Started(n.boot + 1)
<1>1. n.boot \in Nat /\ n.boot + 1 \in Boots /\ n.boot \in Boots /\ Len(l) \in Nat
  BY NodeFields, PublicationAssumption, LogRecords DEF MemberInv, Boots
<1>2. /\ c \in Node /\ c.boot = n.boot + 1 /\ c.gate = None /\ c.snap = None
      /\ c.task.kind = "none" /\ c.ack = None /\ c.inventory = None
  <2>1. NoTask \in Task /\ NoTask.kind = "none"
    BY DEF NoTask, Task
  <2> QED
    BY <1>1, <2>1 DEF Started, Node, None
<1>3. Unfenced \in Local /\ ~ Unfenced.fenced
  BY DEF Unfenced, Local
<1> HIDE DEF c
<1>4. ASSUME NEW r \in 1..Len(l)
      PROVE  /\ l[r].members[m] <= c.boot /\ l[r].members[m] # c.boot
             /\ l[r].active[m] <= c.boot /\ l[r].active[m] # c.boot
             /\ l[r].closed[m] <= c.boot /\ l[r].closed[m] # c.boot
             /\ \A boot \in Boots : <<m, boot>> \in l[r].fenced =>
                  boot <= c.boot /\ boot # c.boot
  <2>1. /\ l[r].members[m] <= n.boot /\ l[r].active[m] <= n.boot /\ l[r].closed[m] <= n.boot
        /\ \A boot \in Boots : <<m, boot>> \in l[r].fenced => boot <= n.boot
    BY <1>4 DEF MemberInv, BootInv
  <2>2. /\ l[r].members[m] \in Int /\ l[r].active[m] \in Int /\ l[r].closed[m] \in Int
    <3>1. l[r] \in Record
      BY LogRecords
    <3>2. /\ l[r].members[m] \in {Unlisted, Nil} \cup Boots
          /\ l[r].active[m] \in {Unlisted} \cup Boots
          /\ l[r].closed[m] \in {Unlisted} \cup Boots
      BY <3>1, Fields
    <3>3. \A x \in {Unlisted, Nil} \cup Boots : x \in Int
      BY BootsAreNumbers DEF Unlisted, Nil
    <3> QED
      BY <3>2, <3>3
  <2>3. \A boot \in Boots : boot \in Nat
    BY BootsAreNumbers
  <2> QED
    BY <1>1, <1>2, <2>1, <2>2, <2>3
<1>5. l # <<>> => Len(l) \in 1..Len(l) /\ Last(l) = l[Len(l)]
  BY LogRecords DEF Last
<1>6. IndexInv(l, c)
  BY <1>1, <1>2 DEF IndexInv, None
<1>7. BootInv(l, c, m)
  BY <1>4 DEF BootInv
<1>8. ClosedInv(l, c, m)
  BY <1>4, <1>5 DEF ClosedInv
<1>9. ActiveInv(l, c, m)
  BY <1>4 DEF ActiveInv
<1>10. OpenInv(l, c, m)
  BY <1>4 DEF OpenInv, Opens
<1>11. FloorInv(l, c, Unfenced, m)
  BY <1>2, <1>3, <1>4, <1>5 DEF FloorInv
<1> QED
  BY <1>2, <1>3, <1>6, <1>7, <1>8, <1>9, <1>10, <1>11 DEF MemberInv, c

\* The first record of a scope.
LEMMA EnsureKeeps ==
  ASSUME NEW m \in Members, NEW n, NEW f, MemberInv(<<>>, n, f, m)
  PROVE  MemberInv(<<New(Roster)>>, n, f, m)
<1> DEFINE l == <<New(Roster)>>
           s == New(Roster)
<1>1. /\ Len(l) = 1 /\ l[1] = s /\ l # <<>> /\ Last(l) = s
      /\ \A r \in 1..Len(l) : l[r] = s
  BY DEF Last
<1>2. /\ s \in Record /\ s.phase = "joining" /\ s.fenced = {}
      /\ s.active[m] = Unlisted /\ s.closed[m] = Unlisted /\ s.members[m] \notin Boots
  BY NewRecord DEF Nobody
<1> HIDE DEF s, l
<1>3. /\ n \in Node /\ f \in Local /\ n.boot \in Nat /\ n.boot # Unlisted
      /\ n.gate \in Nat /\ n.gate <= 0 /\ n.snap \in {None, n.gate} /\ n.ack <= n.gate
      /\ n.inventory <= 0 /\ n.task.kind = "none"
  <2>1. Len(<<>>) = 0
    OBVIOUS
  <2>2. n.task.kind = "none"
    BY DEF MemberInv, IndexInv
  <2> QED
    BY <2>1, <2>2, NodeFields DEF MemberInv, IndexInv
<1>4. n.inventory \in Int
  BY <1>3, NodeFields DEF Nothing
<1>5. IndexInv(l, n)
  BY <1>1, <1>3, <1>4 DEF IndexInv
<1>6. BootInv(l, n, m)
  <2>1. s.members[m] \in {Unlisted, Nil}
    BY <1>2, Fields
  <2> QED
    BY <1>1, <1>2, <1>3, <2>1 DEF BootInv, Unlisted, Nil
<1>7. ClosedInv(l, n, m) /\ ActiveInv(l, n, m) /\ OpenInv(l, n, m)
  BY <1>1, <1>2, <1>3 DEF ClosedInv, ActiveInv, OpenInv, Opens
<1>8. FloorInv(l, n, f, m)
  BY <1>1, <1>2, <1>3 DEF FloorInv, InBarrier
<1> QED
  BY <1>3, <1>5, <1>6, <1>7, <1>8 DEF MemberInv, l, s

-----------------------------------------------------------------------------
(* Steps of one actor. *)

\* A step of one member's node and floor alone.
LEMMA NodeStep ==
  ASSUME Inv, NEW m \in Members, NEW c, NEW g, Become(m, c, g), UNCHANGED log,
         MemberInv(log, c, g, m)
  PROVE  Inv'
<1>1. c \in Node /\ g \in Local
  BY DEF MemberInv
<1>2. node' \in [Members -> Node] /\ local' \in [Members -> Local]
  BY <1>1 DEF Inv, Become
<1>3. ASSUME NEW p \in Members PROVE MemberInv(log, node'[p], local'[p], p)
  <2>1. CASE p = m
    BY <2>1 DEF Inv, Become
  <2>2. CASE p # m
    BY <2>2 DEF Inv, Become
  <2> QED
    BY <2>1, <2>2
<1> QED
  BY <1>2, <1>3 DEF Inv

\* A step of the journal.
LEMMA JournalStep ==
  ASSUME LogInv(log), Recorded, NEW t \in Record, NEW by, RecordInv(t),
         Evolves(Current, t, by), Commit(t),
         node' \in [Members -> Node], local' \in [Members -> Local],
         \A p \in Members :
           /\ MemberInv(log, node'[p], local'[p], p)
           /\ Admits(log, t, node'[p], local'[p], p, by)
  PROVE  Inv'
<1>1. CASE UNCHANGED log
  BY <1>1 DEF Inv
<1>2. CASE log' = Append(log, t)
  <2>1. Follows(log, t, by)
    BY DEF Follows, Recorded, Current, Last
  <2>2. LogInv(log')
    BY <1>2, <2>1, LogGrows
  <2>3. \A p \in Members : MemberInv(log', node'[p], local'[p], p)
    BY <1>2, <2>1, MemberGrows
  <2> QED
    BY <2>2, <2>3 DEF Inv
<1> QED
  BY <1>1, <1>2 DEF Commit

\* A command of the operator, or of boots that the journal already knows.
LEMMA OperatorStep ==
  ASSUME Inv, Recorded, NEW t \in Record, NEW by, RecordInv(t),
         Evolves(Current, t, by), Commit(t), UNCHANGED <<node, local>>,
         \A p \in Members : Admits(log, t, node[p], local[p], p, by)
  PROVE  Inv'
<1>1. \A p \in Members :
        /\ MemberInv(log, node'[p], local'[p], p)
        /\ Admits(log, t, node'[p], local'[p], p, by)
  BY DEF Inv
<1>2. /\ LogInv(log)
      /\ node' \in [Members -> Node] /\ local' \in [Members -> Local]
  BY DEF Inv
<1> QED
  BY <1>1, <1>2, JournalStep

LEMMA NobodyAttends ==
  ASSUME NEW l, NEW t, NEW n, NEW f, NEW m
  PROVE  Admits(l, t, n, f, m, Unattended)
  BY DEF Admits, Unattended

LEMMA JoinLists ==
  ASSUME NEW s \in Record, NEW m \in Members, NEW boot \in Boots,
         NEW floor \in Heights \cup {0}
  PROVE  Join(s, m, boot, floor).members[m] = boot
<1> DEFINE v == [s EXCEPT !.members[m] = boot, !.minimum = Larger(@, floor)]
           u == [v EXCEPT !.phase = IF @ = "joining" THEN RosterPhase(v) ELSE @]
<1>1. v.members = [s.members EXCEPT ![m] = boot]
  BY DEF Record
<1>2. u.members = v.members
  BY DEF Record
<1>3. CompleteDisable(u).members = u.members
  BY DEF CompleteDisable, Record
<1>4. Join(s, m, boot, floor) = CompleteDisable(u)
  BY DEF Join
<1> HIDE DEF u, v
<1> QED
  BY <1>1, <1>2, <1>3, <1>4, Fields

\* The record a runtime acts on is the one its gate has installed.
LEMMA Snapshot ==
  ASSUME LogInv(log), NEW m \in Members, NEW n, NEW f, MemberInv(log, n, f, m),
         n.snap # None
  PROVE  /\ n.snap \in 1..Len(log) /\ n.snap = n.gate /\ Recorded
         /\ log[n.snap] \in Record /\ RecordInv(log[n.snap])
         /\ Len(log) \in Nat /\ Len(log) \in 1..Len(log)
         /\ Current \in Record /\ RecordInv(Current) /\ Current = Last(log)
<1>1. Len(log) \in Nat
  BY LogRecords
<1>2. n.gate \in Nat /\ n.gate <= Len(log) /\ n.snap = n.gate
  BY NodeFields DEF MemberInv, IndexInv
<1>3. n.snap \in 1..Len(log) /\ Len(log) \in 1..Len(log)
  BY <1>1, <1>2 DEF None
<1>4. log # <<>>
  BY <1>3, EmptySeq
<1> QED
  BY <1>1, <1>2, <1>3, <1>4, LogRecords DEF Recorded, Current, Last

LEMMA JoinStep ==
  ASSUME Inv, NEW m \in Members, NEW n, NEW f, MemberInv(log, n, f, m), Joins(m, n),
         n.snap = Len(log), JoinOK(log[n.snap], m, n.boot),
         NEW next, next = Join(log[n.snap], m, n.boot, f.height), Commit(next),
         Become(m, Installed(n, Len(log) + 1, next),
                   Released(n, FencedFloor(f), Len(log) + 1, next))
  PROVE  Inv'
<1> DEFINE g == FencedFloor(f)
           by == [Unattended EXCEPT !.joined = {<<m, n.boot>>}]
<1>1. LogInv(log) /\ n \in Node /\ f \in Local /\ n.boot \in Boots
  BY NodeFields DEF Inv, MemberInv
<1>2. /\ Current = log[n.snap] /\ Current \in Record /\ RecordInv(Current) /\ Recorded
      /\ Current.members[m] = Nil /\ Len(log) \in Nat
  BY <1>1, Snapshot DEF Joins, Acts, Current
<1>3. /\ next \in Record /\ RecordInv(next) /\ Evolves(Current, next, by)
      /\ next.members[m] = n.boot
  <2>1. f.height \in Heights \cup {0}
    BY <1>1 DEF Local
  <2> QED
    BY <1>1, <1>2, <2>1, JoinEvolves, JoinLists
<1>4. log' = Append(log, next)
  BY <1>1, <1>2, <1>3, BootsAreNumbers DEF Commit
<1>5. Follows(log, next, by)
  BY <1>1, <1>2, <1>3 DEF Follows, Recorded, Current, Last
<1>6. LogInv(log')
  BY <1>4, <1>5, LogGrows
<1>7. /\ by.joined = {<<m, n.boot>>} /\ by.ready = {} /\ by.closed = {} /\ by.fenced = {}
  BY DEF Unattended
<1>8. MemberInv(log', n, g, m)
  <2>1. MemberInv(log, n, g, m)
    BY FenceKeeps
  <2>2. n.boot \in Nat
    BY <1>1, BootsAreNumbers
  <2>3. Admits(log, next, n, g, m, by)
    BY <1>7, <2>2 DEF Admits
  <2> QED
    BY <1>4, <1>5, <2>1, <2>3, MemberGrows
<1>9. MemberInv(log', Installed(n, Len(log) + 1, next),
                Released(n, g, Len(log) + 1, next), m)
  <2>1. Len(log) + 1 \in 1..Len(log') /\ log'[Len(log) + 1] = next
    <3>1. log \in Seq(Record)
      BY <1>1 DEF LogInv
    <3>2. Len(log') = Len(log) + 1 /\ log'[Len(log) + 1] = next
      BY <1>3, <1>4, <3>1, AppendFacts
    <3> QED
      BY <1>2, <3>2
  <2>2. MemberInv(log', Installed(n, Len(log) + 1, log'[Len(log) + 1]),
                  Released(n, g, Len(log) + 1, log'[Len(log) + 1]), m)
    BY <1>6, <1>8, <2>1, InstallKeeps
  <2> QED
    BY <2>1, <2>2
<1>10. ASSUME NEW p \in Members, p # m
       PROVE  MemberInv(log', node[p], local[p], p)
  <2>1. Admits(log, next, node[p], local[p], p, by)
    BY <1>7, <1>10 DEF Admits
  <2>2. MemberInv(log, node[p], local[p], p)
    BY DEF Inv
  <2> QED
    BY <1>4, <1>5, <2>1, <2>2, MemberGrows
<1> HIDE DEF g, by
<1> DEFINE c == Installed(n, Len(log) + 1, next)
           h == Released(n, g, Len(log) + 1, next)
<1>11. node' = [node EXCEPT ![m] = c] /\ local' = [local EXCEPT ![m] = h]
  BY DEF Become, g
<1>12. MemberInv(log', c, h, m) /\ c \in Node /\ h \in Local
  BY <1>9 DEF MemberInv
<1> HIDE DEF c, h
<1>13. node' \in [Members -> Node] /\ local' \in [Members -> Local]
  BY <1>11, <1>12 DEF Inv
<1>14. ASSUME NEW p \in Members PROVE MemberInv(log', node'[p], local'[p], p)
  <2>1. CASE p = m
    BY <1>11, <1>12, <2>1 DEF Inv
  <2>2. CASE p # m
    BY <1>10, <1>11, <2>2 DEF Inv
  <2> QED
    BY <2>1, <2>2
<1> QED
  BY <1>6, <1>13, <1>14 DEF Inv

LEMMA ProgressKeeps ==
  ASSUME Inv, NEW m \in Members, NEW n, NEW f, MemberInv(log, n, f, m),
         Progress(m, n, f)
  PROVE  Inv'
<1>1. /\ LogInv(log) /\ n \in Node /\ n.boot \in Boots /\ n.gate \in Nat /\ n.ack \in Nat
      /\ IndexInv(log, n)
  BY NodeFields DEF Inv, MemberInv
<1>2. ASSUME Joins(m, n), n.snap = Len(log), JoinOK(log[n.snap], m, n.boot),
             Commit(Join(log[n.snap], m, n.boot, f.height)),
             Become(m, Installed(n, Len(log) + 1, Join(log[n.snap], m, n.boot, f.height)),
                    Released(n, FencedFloor(f), Len(log) + 1,
                             Join(log[n.snap], m, n.boot, f.height)))
      PROVE  Inv'
  BY <1>2, JoinStep
<1>3. ASSUME Become(m, n, FencedFloor(f)), UNCHANGED log
      PROVE  Inv'
  BY <1>3, FenceKeeps, NodeStep
<1>4. ASSUME Acknowledges(m, n), UNCHANGED log,
             Become(m, [n EXCEPT !.ack = IF @ = None THEN n.snap ELSE @], f)
      PROVE  Inv'
  <2> DEFINE c == [n EXCEPT !.ack = IF @ = None THEN n.snap ELSE @]
  <2>1. n.snap \in 1..Len(log) /\ n.snap = n.gate
    BY <1>1, <1>4, Snapshot DEF Acknowledges, Acts
  <2>2. /\ c \in Node /\ c.boot = n.boot /\ c.gate = n.gate /\ c.retired = n.retired
        /\ c.snap = n.snap /\ c.task = n.task /\ c.inventory = n.inventory
        /\ c.ack \in {n.ack, n.gate}
    BY <1>1, <2>1 DEF Node
  <2> HIDE DEF c
  <2>3. IndexInv(log, c)
    BY <1>1, <2>2 DEF IndexInv
  <2>4. MemberInv(log, c, f, m)
    BY <2>2, <2>3, NodeKeeps
  <2> QED
    BY <1>4, <2>4, NodeStep DEF c
<1>5. ASSUME Works(m, n, "preparing"), UNCHANGED log,
             Become(m, [n EXCEPT !.task = ReadyTask(log[n.snap].epoch, f.height)],
                       FencedFloor(f))
      PROVE  Inv'
  <2>1. n.snap # None
    BY <1>5 DEF Works, Acts
  <2>2. MemberInv(log, [n EXCEPT !.task = ReadyTask(log[n.snap].epoch, f.height)],
                  FencedFloor(f), m)
    BY <1>1, <2>1, PromiseKeeps
  <2> QED
    BY <1>5, <2>2, NodeStep
<1>6. ASSUME Works(m, n, "active"), UNCHANGED log, NEW block \in Block,
             Become(m, [n EXCEPT !.task = ProposeTask(block)], f)
      PROVE  Inv'
  <2> DEFINE c == [n EXCEPT !.task = ProposeTask(block)]
  <2>1. log # <<>>
    BY <1>1, <1>6, Snapshot DEF Works, Acts, Recorded
  <2>2. /\ ProposeTask(block) \in Task /\ ProposeTask(block).kind = "propose"
        /\ ProposeTask(block).block = block
    <3>1. NoTask \in Task
      BY DEF NoTask, Task
    <3> QED
      BY <3>1 DEF ProposeTask, Task
  <2>3. /\ c \in Node /\ c.boot = n.boot /\ c.gate = n.gate /\ c.retired = n.retired
        /\ c.snap = n.snap /\ c.ack = n.ack /\ c.inventory = n.inventory
        /\ c.task.kind = "propose" /\ c.task.block \in Block
    BY <1>1, <2>2 DEF Node
  <2> HIDE DEF c
  <2>4. IndexInv(log, c)
    BY <1>1, <2>1, <2>3 DEF IndexInv
  <2>5. MemberInv(log, c, f, m)
    BY <2>3, <2>4, NodeKeeps
  <2> QED
    BY <1>6, <2>5, NodeStep DEF c
<1>7. ASSUME Become(m, n, f), UNCHANGED log
      PROVE  Inv'
  BY <1>7, NodeStep
<1> QED
  BY <1>2, <1>3, <1>4, <1>5, <1>6, <1>7 DEF Progress

LEMMA InstallStep ==
  ASSUME Inv, NEW m \in Members, NEW n, NEW r \in 1..Len(log),
         MemberInv(log, n, local[m], m), Install(m, n, r)
  PROVE  Inv'
<1>1. MemberInv(log, Installed(n, r, log[r]), Released(n, local[m], r, log[r]), m)
  BY InstallKeeps DEF Inv
<1> QED
  BY <1>1, ProgressKeeps DEF Install

LEMMA PassGuardStep ==
  ASSUME Inv, NEW m \in Members, PassGuard(m)
  PROVE  Inv'
<1> DEFINE g == [local[m] EXCEPT !.guarded = TRUE]
<1>1. /\ MemberInv(log, node[m], local[m], m) /\ local[m] \in Local
  BY DEF Inv
<1>2. g \in Local /\ g.fenced = local[m].fenced /\ g.height = local[m].height
  BY <1>1 DEF Local
<1>3. Become(m, node[m], g) /\ UNCHANGED log
  BY DEF PassGuard, Become, Inv
<1> HIDE DEF g
<1>4. FloorInv(log, node[m], g, m)
  BY <1>1, <1>2 DEF MemberInv, FloorInv
<1>5. MemberInv(log, node[m], g, m)
  BY <1>1, <1>2, <1>4 DEF MemberInv
<1> QED
  BY <1>3, <1>5, NodeStep

LEMMA AnswerStep ==
  ASSUME Inv, NEW m \in Members, NEW height \in Heights, AnswerLocally(m, height)
  PROVE  Inv'
<1> DEFINE g == [local[m] EXCEPT !.height = height]
<1>1. /\ MemberInv(log, node[m], local[m], m) /\ local[m] \in Local /\ LogInv(log)
  BY DEF Inv
<1>2. /\ g \in Local /\ g.fenced = local[m].fenced /\ g.height = height
      /\ ~ local[m].fenced /\ height > local[m].height
  BY <1>1 DEF Local, AnswerLocally
<1>3. g.height >= local[m].height
  <2>1. \A x \in Heights \cup {0} : x \in Nat
    BY PublicationAssumption
  <2>2. local[m].height \in Heights \cup {0}
    BY <1>1 DEF Local
  <2> QED
    BY <1>2, <2>1, <2>2
<1>4. Become(m, node[m], g) /\ UNCHANGED log
  BY DEF AnswerLocally, Become, Inv
<1> HIDE DEF g
<1>5. MemberInv(log, node[m], g, m)
  BY <1>1, <1>2, <1>3, AnswerKeeps
<1> QED
  BY <1>4, <1>5, NodeStep

LEMMA DeliverStep ==
  ASSUME Inv, NEW m \in Members, NEW r \in node[m].gate..Len(log), Deliver(m, r)
  PROVE  Inv'
<1>1. MemberInv(log, node[m], local[m], m) /\ node[m].gate \in Nat /\ Len(log) \in Nat
  BY NodeFields, LogRecords DEF Inv
<1>2. r \in 1..Len(log)
  BY <1>1 DEF Deliver, None
<1> QED
  BY <1>1, <1>2, InstallStep DEF Deliver

LEMMA ReconcileStep ==
  ASSUME Inv, NEW m \in Members, Reconcile(m)
  PROVE  Inv'
<1> DEFINE n == node[m]
           r == Inventory(n.snap)
<1>1. /\ LogInv(log) /\ MemberInv(log, n, local[m], m) /\ n \in Node
      /\ Len(log) \in Nat /\ IndexInv(log, n)
  BY LogRecords DEF Inv, MemberInv
<1>2. r \in {Len(log), Nothing} /\ (r # Nothing => Len(log) \in 1..Len(log))
  BY <1>1, LogRecords DEF Inventory, Recorded
<1>3. CASE n.bootstrapped /\ ~ n.retired /\ r # Nothing
  BY <1>1, <1>2, <1>3, InstallStep DEF Reconcile
<1>4. CASE ~ (n.bootstrapped /\ ~ n.retired /\ r # Nothing)
  <2> DEFINE c == [n EXCEPT !.inventory =
                     IF @ = None /\ ~ n.retired /\ ~ n.bootstrapped THEN r ELSE @]
  <2>1. Progress(m, c, local[m])
    BY <1>4 DEF Reconcile
  <2>2. n.inventory \in Nat \cup {Nothing}
    BY <1>1, NodeFields
  <2>3. /\ c \in Node /\ c.boot = n.boot /\ c.gate = n.gate /\ c.retired = n.retired
        /\ c.snap = n.snap /\ c.ack = n.ack /\ c.task = n.task
        /\ c.inventory \in {n.inventory, Len(log), Nothing}
    BY <1>1, <1>2, <2>2 DEF Node
  <2> HIDE DEF c, n
  <2>4. IndexInv(log, c)
    BY <1>1, <2>3 DEF IndexInv, Nothing
  <2>5. MemberInv(log, c, local[m], m)
    BY <1>1, <2>3, <2>4, NodeKeeps
  <2> QED
    BY <2>1, <2>5, ProgressKeeps
<1> QED
  BY <1>3, <1>4

LEMMA InventoryStep ==
  ASSUME Inv, NEW m \in Members, InventoryResult(m)
  PROVE  Inv'
<1> DEFINE n == [node[m] EXCEPT !.inventory = None, !.bootstrapped = TRUE]
           r == node[m].inventory
<1>1. /\ LogInv(log) /\ MemberInv(log, node[m], local[m], m) /\ node[m] \in Node
      /\ Len(log) \in Nat /\ IndexInv(log, node[m])
  BY LogRecords DEF Inv, MemberInv
<1>2. /\ n \in Node /\ n.boot = node[m].boot /\ n.gate = node[m].gate
      /\ n.retired = node[m].retired /\ n.snap = node[m].snap /\ n.ack = node[m].ack
      /\ n.task = node[m].task /\ n.inventory = None
  BY <1>1 DEF Node, None
<1>3. /\ r # None
      /\ r = Nothing => Progress(m, n, local[m])
      /\ r # Nothing => Install(m, n, r)
  BY DEF InventoryResult
<1> HIDE DEF n
<1>4. IndexInv(log, n)
  BY <1>1, <1>2 DEF IndexInv, None
<1>5. MemberInv(log, n, local[m], m)
  BY <1>1, <1>2, <1>4, NodeKeeps
<1>6. CASE r = Nothing
  BY <1>3, <1>5, <1>6, ProgressKeeps
<1>7. CASE r # Nothing
  <2>1. r \in Nat /\ r <= Len(log)
    BY <1>1, <1>7, NodeFields DEF IndexInv
  <2>2. r \in 1..Len(log)
    BY <1>1, <1>3, <2>1 DEF None
  <2> QED
    BY <1>3, <1>5, <1>7, <2>2, InstallStep
<1> QED
  BY <1>6, <1>7

LEMMA EnsureStep ==
  ASSUME Inv, NEW m \in Members, Ensure(m)
  PROVE  Inv'
<1>1. log = <<>> /\ log' = <<New(Roster)>> /\ node' = node /\ local' = local
  BY DEF Ensure, Recorded
<1>2. New(Roster) \in Record /\ RecordInv(New(Roster)) /\ New(Roster).phase = "joining"
  BY NewRecord
<1> DEFINE s == New(Roster)
           k == <<s>>
<1> HIDE DEF s
<1>3. k \in Seq(Record) /\ Len(k) = 1 /\ k[1] = s /\ \A r \in 1..Len(k) : r = 1
  BY <1>2 DEF s
<1>4. s.epoch \in Nat /\ s.published.height \in Nat
  BY <1>2, Fields, BlocksHaveHeights DEF s
<1>5. LogInv(k)
  BY <1>2, <1>3, <1>4 DEF LogInv, InBarrier, s
<1>6. \A p \in Members : MemberInv(k, node[p], local[p], p)
  BY <1>1, EnsureKeeps DEF Inv, s
<1> QED
  BY <1>1, <1>5, <1>6 DEF Inv, s

LEMMA TaskLostStep ==
  ASSUME Inv, NEW m \in Members, TaskLost(m)
  PROVE  Inv'
<1> DEFINE n == node[m]
<1>1. /\ LogInv(log) /\ MemberInv(log, n, local[m], m) /\ n \in Node
      /\ Len(log) \in Nat /\ IndexInv(log, n) /\ n.gate \in Nat
  BY LogRecords, NodeFields DEF Inv, MemberInv
<1>2. NoTask \in Task /\ NoTask.kind = "none"
  BY DEF NoTask, Task
<1>3. PICK c \in {[n EXCEPT !.task = NoTask], [n EXCEPT !.ack = None],
                  [n EXCEPT !.inventory = None]} :
        Become(m, c, local[m])
  BY DEF TaskLost, Become, Inv
<1>4. /\ c \in Node /\ c.boot = n.boot /\ c.gate = n.gate /\ c.retired = n.retired
      /\ c.snap = n.snap /\ c.ack \in {n.ack, None} /\ c.task \in {n.task, NoTask}
      /\ c.inventory \in {n.inventory, None}
  BY <1>1, <1>2, <1>3 DEF Node, None
<1> HIDE DEF n
<1>5. IndexInv(log, c)
  BY <1>1, <1>2, <1>4 DEF IndexInv, None
<1>6. MemberInv(log, c, local[m], m)
  BY <1>1, <1>2, <1>4, <1>5, NodeKeeps
<1> QED
  BY <1>3, <1>6, NodeStep DEF TaskLost

LEMMA RetireStep ==
  ASSUME Inv, NEW m \in Members, Retire(m)
  PROVE  Inv'
<1> DEFINE n == node[m]
           c == [n EXCEPT !.retired = TRUE]
<1>1. MemberInv(log, n, local[m], m) /\ n \in Node /\ IndexInv(log, n)
  BY DEF Inv, MemberInv
<1>2. /\ c \in Node /\ c.boot = n.boot /\ c.gate = n.gate /\ c.retired
      /\ c.snap = n.snap /\ c.ack = n.ack /\ c.task = n.task /\ c.inventory = n.inventory
  BY <1>1 DEF Node
<1>3. Become(m, c, local[m]) /\ UNCHANGED log
  BY DEF Retire, Become, Inv
<1> HIDE DEF c, n
<1>4. IndexInv(log, c)
  BY <1>1, <1>2 DEF IndexInv
<1>5. MemberInv(log, c, local[m], m)
  BY <1>1, <1>2, <1>4, NodeKeeps
<1> QED
  BY <1>3, <1>5, NodeStep

LEMMA RestartRuntimeStep ==
  ASSUME Inv, NEW m \in Members, RestartRuntime(m)
  PROVE  Inv'
<1> DEFINE n == node[m]
           c == [n EXCEPT !.snap = None, !.task = NoTask, !.ack = None, !.inventory = None]
<1>1. /\ MemberInv(log, n, local[m], m) /\ n \in Node /\ IndexInv(log, n)
      /\ n.gate \in Nat /\ Len(log) \in Nat
  BY LogRecords, NodeFields DEF Inv, MemberInv
<1>2. /\ c \in Node /\ c.boot = n.boot /\ c.gate = n.gate /\ c.retired = n.retired
      /\ c.snap = None /\ c.ack = None /\ c.task.kind = "none" /\ c.inventory = None
  <2>1. NoTask \in Task /\ NoTask.kind = "none" /\ None \in Nat
    BY DEF NoTask, Task, None
  <2> QED
    BY <1>1, <2>1 DEF Node
<1>3. Become(m, c, local[m]) /\ UNCHANGED log
  BY DEF RestartRuntime, Become, Inv
<1> HIDE DEF c, n
<1>4. IndexInv(log, c)
  BY <1>1, <1>2 DEF IndexInv, None
<1>5. MemberInv(log, c, local[m], m)
  BY <1>1, <1>2, <1>4, NodeKeeps
<1> QED
  BY <1>3, <1>5, NodeStep

LEMMA RestartStep ==
  ASSUME Inv, NEW m \in Members, Restart(m)
  PROVE  Inv'
<1>1. MemberInv(log, Started(node[m].boot + 1), Unfenced, m)
  BY RestartKeeps DEF Restart, Inv
<1>2. Become(m, Started(node[m].boot + 1), Unfenced) /\ UNCHANGED log
  BY DEF Restart, Become, Inv
<1> QED
  BY <1>1, <1>2, NodeStep

\* The end of a task, and what stays.
LEMMA TaskEnds ==
  ASSUME Inv, NEW m \in Members, UNCHANGED local,
         \/ node' = [node EXCEPT ![m].task = NoTask]
         \/ node' = [node EXCEPT ![m].ack = None]
  PROVE  /\ node' \in [Members -> Node] /\ local' \in [Members -> Local]
         /\ \A p \in Members :
              /\ MemberInv(log, node'[p], local'[p], p)
              /\ node'[p].boot = node[p].boot /\ node'[p].gate = node[p].gate
              /\ node'[p].retired = node[p].retired /\ local'[p] = local[p]
<1> DEFINE n == node[m]
<1>1. /\ LogInv(log) /\ MemberInv(log, n, local[m], m) /\ n \in Node
      /\ IndexInv(log, n) /\ n.gate \in Nat
  BY NodeFields DEF Inv, MemberInv
<1>2. NoTask \in Task /\ NoTask.kind = "none" /\ None \in Nat
  BY DEF NoTask, Task, None
<1>3. PICK c \in {[n EXCEPT !.task = NoTask], [n EXCEPT !.ack = None]} :
        node' = [node EXCEPT ![m] = c]
  BY DEF Inv
<1>4. /\ c \in Node /\ c.boot = n.boot /\ c.gate = n.gate /\ c.retired = n.retired
      /\ c.snap = n.snap /\ c.ack \in {n.ack, None} /\ c.task \in {n.task, NoTask}
      /\ c.inventory = n.inventory
  BY <1>1, <1>2, <1>3 DEF Node
<1> HIDE DEF n
<1>5. IndexInv(log, c)
  BY <1>1, <1>2, <1>4 DEF IndexInv, None
<1>6. MemberInv(log, c, local[m], m)
  BY <1>1, <1>2, <1>4, <1>5, NodeKeeps
<1>7. node' \in [Members -> Node] /\ local' \in [Members -> Local]
  BY <1>3, <1>4 DEF Inv
<1>8. ASSUME NEW p \in Members
      PROVE  /\ MemberInv(log, node'[p], local'[p], p)
             /\ node'[p].boot = node[p].boot /\ node'[p].gate = node[p].gate
             /\ node'[p].retired = node[p].retired /\ local'[p] = local[p]
  <2>1. CASE p = m
    BY <1>3, <1>4, <1>6, <2>1 DEF Inv, n
  <2>2. CASE p # m
    BY <1>3, <2>2 DEF Inv
  <2> QED
    BY <2>1, <2>2
<1> QED
  BY <1>7, <1>8

LEMMA CurrentFacts ==
  ASSUME LogInv(log), Recorded
  PROVE  /\ Current \in Record /\ RecordInv(Current) /\ Current = Last(log)
         /\ Len(log) \in 1..Len(log) /\ Len(log) \in Nat
  BY LogRecords DEF Recorded, Current, Last

LEMMA AcknowledgeStep ==
  ASSUME Inv, NEW m \in Members, Acknowledge(m)
  PROVE  Inv'
<1> DEFINE r == node[m].ack
           boot == node[m].boot
           by == [Unattended EXCEPT !.closed = {<<m, boot>>}]
<1>1. /\ LogInv(log) /\ MemberInv(log, node[m], local[m], m) /\ boot \in Boots
      /\ IndexInv(log, node[m]) /\ r \in Nat /\ node[m].gate \in Nat
  BY NodeFields DEF Inv, MemberInv
<1>2. /\ node' = [node EXCEPT ![m].ack = None] /\ UNCHANGED local /\ r # None
      /\ \/ UNCHANGED log
         \/ /\ r = Len(log) /\ ClosedOK(log[r], log[r].epoch, m, boot)
            /\ Commit(Closed(log[r], m, boot))
  BY DEF Acknowledge
<1>3. /\ node' \in [Members -> Node] /\ local' \in [Members -> Local]
      /\ \A p \in Members :
           /\ MemberInv(log, node'[p], local'[p], p)
           /\ node'[p].boot = node[p].boot /\ node'[p].gate = node[p].gate
           /\ node'[p].retired = node[p].retired /\ local'[p] = local[p]
  BY <1>2, TaskEnds
<1>4. CASE UNCHANGED log
  BY <1>1, <1>3, <1>4 DEF Inv
<1>5. CASE /\ r = Len(log) /\ ClosedOK(log[r], log[r].epoch, m, boot)
           /\ Commit(Closed(log[r], m, boot))
  <2>1. Recorded
    <3>1. Len(log) \in Nat /\ Len(log) # 0
      BY <1>1, <1>2, <1>5, LogRecords DEF None
    <3> QED
      BY <3>1, EmptySeq DEF Recorded
  <2>2. /\ Current = log[r] /\ Current \in Record /\ RecordInv(Current)
        /\ Current = Last(log)
    BY <1>1, <1>5, <2>1, CurrentFacts DEF Current
  <2>3. Changing(Current) /\ Current.members[m] = boot
    BY <1>5, <2>2 DEF ClosedOK
  <2>4. /\ Closed(Current, m, boot) \in Record /\ RecordInv(Closed(Current, m, boot))
        /\ Evolves(Current, Closed(Current, m, boot), by)
    BY <1>1, <2>2, <2>3, ClosedEvolves
  <2>5. /\ by.closed = {<<m, boot>>} /\ by.joined = {} /\ by.ready = {} /\ by.fenced = {}
    BY DEF Unattended
  <2>6. node[m].gate = Len(log)
    <3>1. node[m].gate <= Len(log) /\ r <= node[m].gate
      BY <1>1 DEF IndexInv
    <3> QED
      BY <1>1, <1>5, <3>1
  <2> HIDE DEF by
  <2>7. \A p \in Members :
          Admits(log, Closed(Current, m, boot), node'[p], local'[p], p, by)
    BY <1>3, <2>2, <2>3, <2>5, <2>6 DEF Admits
  <2> QED
    BY <1>1, <1>3, <1>5, <2>1, <2>2, <2>4, <2>7, JournalStep
<1> QED
  BY <1>2, <1>4, <1>5

LEMMA ProposeStep ==
  ASSUME Inv, NEW m \in Members, ProposeBlock(m)
  PROVE  Inv'
<1> DEFINE block == node[m].task.block
           boot == node[m].boot
<1>1. /\ LogInv(log) /\ MemberInv(log, node[m], local[m], m) /\ boot \in Boots
      /\ IndexInv(log, node[m])
  BY NodeFields DEF Inv, MemberInv
<1>2. /\ node' = [node EXCEPT ![m].task = NoTask] /\ UNCHANGED local
      /\ \/ UNCHANGED log
         \/ ProposeOK(Current, m, boot, block) /\ Commit(Propose(Current, block))
      /\ Recorded /\ block \in Block
  BY <1>1 DEF ProposeBlock, IndexInv, Recorded
<1>3. /\ node' \in [Members -> Node] /\ local' \in [Members -> Local]
      /\ \A p \in Members : MemberInv(log, node'[p], local'[p], p)
  BY <1>2, TaskEnds
<1>4. CASE UNCHANGED log
  BY <1>1, <1>3, <1>4 DEF Inv
<1>5. CASE ProposeOK(Current, m, boot, block) /\ Commit(Propose(Current, block))
  <2>1. Current \in Record /\ RecordInv(Current)
    BY <1>1, <1>2, CurrentFacts
  <2>2. /\ Propose(Current, block) \in Record /\ RecordInv(Propose(Current, block))
        /\ Evolves(Current, Propose(Current, block), Unattended)
    BY <1>1, <1>2, <1>5, <2>1, ProposeEvolves
  <2> QED
    BY <1>1, <1>2, <1>3, <1>5, <2>2, NobodyAttends, JournalStep
<1> QED
  BY <1>2, <1>4, <1>5

LEMMA ReportStep ==
  ASSUME Inv, NEW m \in Members, NEW anchor \in Hashes \cup {NoHash},
         ReportReady(m, anchor)
  PROVE  Inv'
<1> DEFINE task == node[m].task
           boot == node[m].boot
           next == Ready(Current, m, anchor, task.floor)
           by == [Unattended EXCEPT !.ready = {<<m, boot>>}]
<1>1. /\ LogInv(log) /\ MemberInv(log, node[m], local[m], m) /\ boot \in Boots
      /\ IndexInv(log, node[m]) /\ task \in Task /\ task.floor \in Heights \cup {0}
  BY NodeFields DEF Inv, MemberInv, Task
<1>2. /\ node' = [node EXCEPT ![m].task = NoTask] /\ UNCHANGED local
      /\ task.kind = "ready" /\ Recorded
      /\ \/ UNCHANGED log
         \/ /\ ReadyOK(Current, task.epoch, m, boot, Current.candidate.hash)
            /\ Commit(next)
  BY <1>1 DEF ReportReady, IndexInv, Recorded
<1>3. /\ node' \in [Members -> Node] /\ local' \in [Members -> Local]
      /\ \A p \in Members :
           /\ MemberInv(log, node'[p], local'[p], p)
           /\ node'[p].boot = node[p].boot /\ node'[p].gate = node[p].gate
           /\ node'[p].retired = node[p].retired /\ local'[p] = local[p]
  BY <1>2, TaskEnds
<1>4. CASE UNCHANGED log
  BY <1>1, <1>3, <1>4 DEF Inv
<1>5. CASE /\ ReadyOK(Current, task.epoch, m, boot, Current.candidate.hash)
           /\ Commit(next)
  <2>1. Current \in Record /\ RecordInv(Current) /\ Current = Last(log)
    BY <1>1, <1>2, CurrentFacts
  <2>2. Current.phase = "preparing" /\ Current.epoch = task.epoch /\ Current.members[m] = boot
    BY <1>5 DEF ReadyOK
  <2>3. /\ next \in Record /\ RecordInv(next) /\ Evolves(Current, next, by)
        /\ InBarrier(next) => task.floor <= Current.candidate.height
    BY <1>1, <2>1, <2>2, ReadyEvolves
  <2>4. /\ by.ready = {<<m, boot>>} /\ by.joined = {} /\ by.closed = {} /\ by.fenced = {}
    BY DEF Unattended
  <2>5. /\ local[m].fenced /\ local[m].height = task.floor
        /\ Past(log, node[m], Len(log))
    BY <1>1, <1>2, <2>1, <2>2 DEF MemberInv, FloorInv
  <2> HIDE DEF by, next
  <2>6. \A p \in Members : Admits(log, next, node'[p], local'[p], p, by)
    BY <1>3, <2>1, <2>3, <2>4, <2>5 DEF Admits, Past
  <2> QED
    BY <1>1, <1>2, <1>3, <1>5, <2>3, <2>6, JournalStep
<1> QED
  BY <1>2, <1>4, <1>5

LEMMA AbortStep ==
  ASSUME Inv, NEW m \in Members, AbortEpoch(m)
  PROVE  Inv'
<1>1. LogInv(log) /\ IndexInv(log, node[m])
  BY DEF Inv, MemberInv
<1>2. /\ node' = [node EXCEPT ![m].task = NoTask] /\ UNCHANGED local /\ Recorded
      /\ \/ UNCHANGED log
         \/ AbortOK(Current, node[m].task.epoch) /\ Commit(Abort(Current))
  BY <1>1 DEF AbortEpoch, IndexInv, Recorded
<1>3. /\ node' \in [Members -> Node] /\ local' \in [Members -> Local]
      /\ \A p \in Members : MemberInv(log, node'[p], local'[p], p)
  BY <1>2, TaskEnds
<1>4. CASE UNCHANGED log
  BY <1>1, <1>3, <1>4 DEF Inv
<1>5. CASE AbortOK(Current, node[m].task.epoch) /\ Commit(Abort(Current))
  <2>1. Current \in Record /\ RecordInv(Current)
    BY <1>1, <1>2, CurrentFacts
  <2>2. /\ Abort(Current) \in Record /\ RecordInv(Abort(Current))
        /\ Evolves(Current, Abort(Current), Unattended)
    BY <1>5, <2>1, AbortEvolves DEF AbortOK
  <2> QED
    BY <1>1, <1>2, <1>3, <1>5, <2>2, NobodyAttends, JournalStep
<1> QED
  BY <1>2, <1>4, <1>5

LEMMA OperateStep ==
  ASSUME Inv, Operate
  PROVE  Inv'
<1>1. LogInv(log)
  BY DEF Inv
<1>2. Recorded /\ UNCHANGED <<node, local>>
  BY DEF Operate, EnableScope, DisableScope, Enlist, Delist, FenceExternally
<1>3. Current \in Record /\ RecordInv(Current)
  BY <1>1, <1>2, CurrentFacts
<1>4. CASE EnableScope
  <2>1. /\ Enable(Current) \in Record /\ RecordInv(Enable(Current))
        /\ Evolves(Current, Enable(Current), Unattended) /\ Commit(Enable(Current))
    BY <1>3, <1>4, EnableEvolves DEF EnableScope
  <2> QED
    BY <1>2, <2>1, NobodyAttends, OperatorStep
<1>5. CASE DisableScope
  <2>1. /\ Disable(Current) \in Record /\ RecordInv(Disable(Current))
        /\ Evolves(Current, Disable(Current), Unattended) /\ Commit(Disable(Current))
    BY <1>3, <1>5, DisableEvolves DEF DisableScope
  <2> QED
    BY <1>2, <2>1, NobodyAttends, OperatorStep
<1>6. ASSUME NEW m \in Members, Enlist(m)
      PROVE  Inv'
  <2>1. /\ AddMember(Current, m) \in Record /\ RecordInv(AddMember(Current, m))
        /\ Evolves(Current, AddMember(Current, m), Unattended)
        /\ Commit(AddMember(Current, m))
    BY <1>3, <1>6, AddMemberEvolves DEF Enlist
  <2> QED
    BY <1>2, <2>1, NobodyAttends, OperatorStep
<1>7. ASSUME NEW m \in Members, Delist(m)
      PROVE  Inv'
  <2>1. /\ RemoveMember(Current, m) \in Record /\ RecordInv(RemoveMember(Current, m))
        /\ Evolves(Current, RemoveMember(Current, m), Unattended)
        /\ Commit(RemoveMember(Current, m))
    BY <1>3, <1>7, RemoveMemberEvolves DEF Delist
  <2> QED
    BY <1>2, <2>1, NobodyAttends, OperatorStep
<1>8. ASSUME NEW m \in Members, FenceExternally(m)
      PROVE  Inv'
  <2> DEFINE boot == Current.members[m]
             by == [Unattended EXCEPT !.fenced = {<<m, boot>>}]
  <2>1. boot \in Boots /\ boot # node[m].boot /\ Commit(Fence(Current, m, boot))
    BY <1>8 DEF FenceExternally
  <2>2. /\ Fence(Current, m, boot) \in Record /\ RecordInv(Fence(Current, m, boot))
        /\ Evolves(Current, Fence(Current, m, boot), by)
    BY <1>3, <2>1, FenceEvolves DEF FenceOK
  <2>3. boot <= node[m].boot
    BY <1>1, <1>2, CurrentFacts DEF Inv, MemberInv, BootInv, Current
  <2>4. /\ by.fenced = {<<m, boot>>} /\ by.joined = {} /\ by.closed = {} /\ by.ready = {}
    BY DEF Unattended
  <2> HIDE DEF boot, by
  <2>5. \A p \in Members :
          Admits(log, Fence(Current, m, boot), node[p], local[p], p, by)
    BY <2>1, <2>3, <2>4 DEF Admits
  <2> QED
    BY <1>2, <2>1, <2>2, <2>5, OperatorStep
<1> QED
  BY <1>4, <1>5, <1>6, <1>7, <1>8 DEF Operate

LEMMA FenceSelfStep ==
  ASSUME Inv, NEW m \in Members, FenceSelf(m)
  PROVE  Inv'
<1> DEFINE boot == node[m].boot
           by == [Unattended EXCEPT !.fenced = {<<m, boot>>}]
<1>1. LogInv(log) /\ node[m] \in Node /\ boot \in Boots /\ boot \in Nat
  BY NodeFields DEF Inv
<1>2. /\ node[m].retired /\ Recorded /\ FenceOK(Current, m, boot)
      /\ Commit(Fence(Current, m, boot)) /\ UNCHANGED <<node, local>>
  BY DEF FenceSelf
<1>3. /\ Fence(Current, m, boot) \in Record /\ RecordInv(Fence(Current, m, boot))
      /\ Evolves(Current, Fence(Current, m, boot), by)
  BY <1>1, <1>2, CurrentFacts, FenceEvolves
<1>4. /\ by.fenced = {<<m, boot>>} /\ by.joined = {} /\ by.closed = {} /\ by.ready = {}
  BY DEF Unattended
<1> HIDE DEF by
<1>5. \A p \in Members :
        Admits(log, Fence(Current, m, boot), node[p], local[p], p, by)
  BY <1>1, <1>2, <1>4 DEF Admits
<1> QED
  BY <1>2, <1>3, <1>5, OperatorStep

-----------------------------------------------------------------------------
(* The invariant, for every behaviour. *)

LEMMA InvInit == Init => Inv
<1> SUFFICES ASSUME Init PROVE Inv
  OBVIOUS
<1>1. log = <<>> /\ Len(log) = 0 /\ log \in Seq(Record)
  BY DEF Init
<1>2. LogInv(log)
  BY <1>1 DEF LogInv
<1>3. Started(1) \in Node /\ Unfenced \in Local
  <2>1. NoTask \in Task /\ 1 \in Boots
    BY PublicationAssumption DEF NoTask, Task, Boots
  <2> QED
    BY <2>1 DEF Started, Node, None, Unfenced, Local
<1>4. node \in [Members -> Node] /\ local \in [Members -> Local]
  BY <1>3 DEF Init
<1>5. ASSUME NEW m \in Members PROVE MemberInv(log, node[m], local[m], m)
  <2>1. /\ node[m] = Started(1) /\ local[m] = Unfenced /\ node[m] \in Node
        /\ local[m] \in Local
    BY <1>3 DEF Init
  <2>2. /\ node[m].gate = None /\ node[m].snap = None /\ node[m].ack = None
        /\ node[m].inventory = None /\ node[m].task.kind = "none"
    BY <2>1 DEF Started, NoTask
  <2>3. IndexInv(log, node[m])
    BY <1>1, <2>2 DEF IndexInv, None
  <2>4. /\ BootInv(log, node[m], m) /\ ClosedInv(log, node[m], m)
        /\ ActiveInv(log, node[m], m) /\ OpenInv(log, node[m], m)
    BY <1>1 DEF BootInv, ClosedInv, ActiveInv, OpenInv
  <2>5. FloorInv(log, node[m], local[m], m)
    BY <1>1, <2>2 DEF FloorInv
  <2> QED
    BY <2>1, <2>3, <2>4, <2>5 DEF MemberInv
<1> QED
  BY <1>2, <1>4, <1>5 DEF Inv

LEMMA InvStep == Inv /\ [Next]_vars => Inv'
<1> SUFFICES ASSUME Inv, [Next]_vars PROVE Inv'
  OBVIOUS
<1>1. CASE UNCHANGED vars
  BY <1>1 DEF Inv, vars
<1>2. CASE Steady
  <2>1. PICK m \in Members :
          \/ PassGuard(m)
          \/ \E height \in Heights : AnswerLocally(m, height)
          \/ \E r \in node[m].gate..Len(log) : Deliver(m, r)
          \/ Reconcile(m)
          \/ InventoryResult(m)
          \/ Ensure(m)
          \/ TaskLost(m)
          \/ Acknowledge(m)
          \/ ProposeBlock(m)
          \/ \E anchor \in Hashes \cup {NoHash} : ReportReady(m, anchor)
          \/ AbortEpoch(m)
    BY <1>2 DEF Steady
  <2> QED
    BY <2>1, PassGuardStep, AnswerStep, DeliverStep, ReconcileStep, InventoryStep,
       EnsureStep, TaskLostStep, AcknowledgeStep, ProposeStep, ReportStep, AbortStep
<1>3. CASE Operate
  BY <1>3, OperateStep
<1>4. CASE Fail
  BY <1>4, RetireStep, FenceSelfStep, RestartRuntimeStep, RestartStep DEF Fail
<1> QED
  BY <1>1, <1>2, <1>3, <1>4 DEF Next

LEMMA InvCorrect == Spec => []Inv
  BY InvInit, InvStep, PTL DEF Spec

\* The journal holds records, every member a runtime, a gate and a floor, and no
\* member holds a revision that the journal does not have.
THEOREM TypeCorrect == Spec => []TypeOK
<1>1. Inv => TypeOK
  <2> SUFFICES ASSUME Inv, NEW m \in Members
               PROVE  {node[m].gate, node[m].snap, node[m].ack} \subseteq 0..Len(log)
    BY DEF Inv, TypeOK, LogInv
  <2>1. node[m] \in Node /\ IndexInv(log, node[m]) /\ Len(log) \in Nat
    BY LogRecords DEF Inv, MemberInv
  <2>2. /\ node[m].gate \in Nat /\ node[m].gate <= Len(log)
        /\ node[m].ack \in Nat /\ node[m].ack <= node[m].gate
        /\ node[m].snap \in {0, node[m].gate}
    BY <2>1, NodeFields DEF IndexInv, None
  <2> QED
    BY <2>1, <2>2
<1> QED
  BY <1>1, InvCorrect, PTL

\* An open gate has installed a record, opens for the running boot, and what it
\* serves is what every record since has published.
LEMMA OpenGate ==
  ASSUME Inv, NEW m \in Members, Readable(m)
  PROVE  /\ Recorded /\ node[m].gate \in 1..Len(log) /\ ~ node[m].retired
         /\ Opens(log[node[m].gate], m, node[m].boot)
         /\ \A q \in 1..Len(log) : node[m].gate <= q =>
              /\ log[q].active[m] = node[m].boot
              /\ log[q].published = log[node[m].gate].published
         /\ Current.active[m] = node[m].boot
         /\ Current.published = log[node[m].gate].published
<1>1. /\ MemberInv(log, node[m], local[m], m) /\ LogInv(log) /\ Len(log) \in Nat
      /\ node[m].gate \in Nat /\ node[m].gate <= Len(log)
  BY LogRecords, NodeFields DEF Inv, MemberInv, IndexInv
<1>2. /\ node[m].gate # None /\ ~ node[m].retired
      /\ Opens(log[node[m].gate], m, node[m].boot)
  BY DEF Readable
<1>3. node[m].gate \in 1..Len(log) /\ Len(log) \in 1..Len(log)
  BY <1>1, <1>2 DEF None
<1>4. \A q \in 1..Len(log) : node[m].gate <= q =>
        /\ log[q].active[m] = node[m].boot
        /\ log[q].published = log[node[m].gate].published
  BY <1>1, <1>2, <1>3 DEF MemberInv, OpenInv
<1>5. log # <<>>
  BY <1>3, EmptySeq
<1> QED
  BY <1>1, <1>2, <1>3, <1>4, <1>5 DEF Recorded, Current

\* Whatever an open gate serves is the block that the journal publishes now,
\* whichever broadcasts its node has missed (Gate.install, Gate.read).
THEOREM NoOlderBlockServed == Spec => []ReadableIsPublished
<1>1. Inv => ReadableIsPublished
  BY OpenGate DEF ReadableIsPublished
<1> QED
  BY <1>1, InvCorrect, PTL

\* A block is published above every local answer of its members, and a node that
\* answers locally again does so above every block the fleet served through it
\* (join, prepare floors, release_local).
THEOREM LocalAnswersInLine == Spec => []LocalAnswersLineUp
<1>1. Inv => LocalAnswersLineUp
  <2> SUFFICES ASSUME Inv PROVE LocalAnswersLineUp
    OBVIOUS
  <2>1. ASSUME NEW m \in Members
        PROVE  MemberInv(log, node[m], local[m], m) /\ LogInv(log)
    BY DEF Inv
  <2>2. ASSUME Recorded, NEW m \in Members, Current.active[m] = node[m].boot
        PROVE  local[m].fenced /\ local[m].height <= Current.published.height
    BY <2>1, <2>2, CurrentFacts DEF MemberInv, FloorInv, Recorded
  <2>3. ASSUME NEW m \in Members, ~ local[m].fenced, NEW r \in 1..node[m].gate,
               log[r].active[m] = node[m].boot
        PROVE  log[r].published.height <= local[m].height
    <3>1. Len(log) \in Nat /\ node[m].gate \in Nat /\ node[m].gate <= Len(log)
      BY <2>1, LogRecords, NodeFields DEF MemberInv, IndexInv
    <3>2. r \in 1..Len(log)
      BY <3>1
    <3> QED
      BY <2>1, <2>3, <3>2 DEF MemberInv, FloorInv
  <2> QED
    BY <2>2, <2>3 DEF LocalAnswersLineUp
<1> QED
  BY <1>1, InvCorrect, PTL

\* No gate is open on a boot that is recorded as closed while a barrier runs, and
\* no node answers locally while another serves a block published to both
\* (acknowledge_closure after install, complete_disable before release_local).
THEOREM OneWayOfAnswering == Spec => []AnswersAreExclusive
<1>1. Inv => AnswersAreExclusive
  <2> SUFFICES ASSUME Inv PROVE AnswersAreExclusive
    OBVIOUS
  <2>1. ASSUME NEW m \in Members
        PROVE  /\ MemberInv(log, node[m], local[m], m) /\ LogInv(log) /\ Len(log) \in Nat
               /\ node[m].gate \in Nat /\ node[m].gate <= Len(log)
    BY LogRecords, NodeFields DEF Inv, MemberInv, IndexInv
  <2>2. ASSUME Recorded, Changing(Current), NEW m \in Members,
               Current.closed[m] = node[m].boot
        PROVE  ~ Readable(m) /\ ~ Unmanaged(m)
    <3>1. /\ node[m].gate # None
          /\ \A k \in node[m].gate..Len(log) : Changing(log[k])
      BY <2>1, <2>2, CurrentFacts DEF MemberInv, ClosedInv, Recorded
    <3>2. Changing(log[node[m].gate])
      BY <2>1, <3>1
    <3> QED
      BY <3>1, <3>2 DEF Readable, Unmanaged, Opens, Changing
  <2>3. ASSUME NEW m \in Members, NEW n \in Members, Readable(m),
               log[node[m].gate].active[n] = node[n].boot, Unmanaged(n)
        PROVE  FALSE
    <3>1. /\ node[m].gate \in 1..Len(log) /\ \A q \in 1..Len(log) :
               node[m].gate <= q => log[q].active[m] = node[m].boot
      BY <2>3, OpenGate
    <3>2. Past(log, node[n], node[m].gate)
      BY <2>1, <2>3, <3>1 DEF MemberInv, ActiveInv
    <3>3. node[n].gate # None /\ log[node[n].gate].phase = "disabled"
      BY <2>3, <3>2 DEF Past, Unmanaged
    <3>4. ~ (node[n].gate <= node[m].gate)
      <4>1. node[n].gate <= node[m].gate => node[n].gate \in node[n].gate..node[m].gate
        BY <2>1
      <4> QED
        BY <3>2, <3>3, <4>1 DEF Past
    <3>5. node[n].gate \in 1..Len(log) /\ node[m].gate <= node[n].gate
      BY <2>1, <3>3, <3>4 DEF None
    <3>6. log[node[n].gate].active[m] = node[m].boot
      BY <3>1, <3>5
    <3>7. log[node[n].gate].active = Nobody
      BY <2>1, <3>3, <3>5 DEF LogInv, RecordInv
    <3>8. node[m].boot # Unlisted
      BY NodeFields DEF Inv
    <3> QED
      BY <3>6, <3>7, <3>8 DEF Nobody
  <2> QED
    BY <2>2, <2>3 DEF AnswersAreExclusive
<1> QED
  BY <1>1, InvCorrect, PTL

-----------------------------------------------------------------------------
(* The journal and the gates implement one register. *)

Published == IF Recorded THEN Current.published ELSE NoBlock
Offered == {log[node[m].gate].published : m \in {n \in Members : Readable(n)}}

\* A read can only return the published block.
Registered ==
  /\ Published \in Block \cup {NoBlock}
  /\ Offered \in {{}, {Published} \ {NoBlock}}

LEMMA OfferedIsPublished == Inv => Registered
<1> SUFFICES ASSUME Inv PROVE Registered
  OBVIOUS
<1>1. Published \in Block \cup {NoBlock}
  BY CurrentFacts, Fields DEF Inv, Published
<1>2. ASSUME NEW m \in Members, Readable(m)
      PROVE  log[node[m].gate].published = Published /\ Published # NoBlock
  BY <1>2, OpenGate DEF Published, Opens
<1> QED
  BY <1>1, <1>2 DEF Registered, Offered

\* Every command but the last acknowledgement of a barrier keeps the published block.
LEMMA CommandsKeep ==
  ASSUME NEW s \in Record
  PROVE  /\ CompleteDisable(s).published = s.published
         /\ \A m, boot, floor : Join(s, m, boot, floor).published = s.published
         /\ \A block : Propose(s, block).published = s.published
         /\ \A m, anchor, floor : Ready(s, m, anchor, floor).published = s.published
         /\ Abort(s).published = s.published
         /\ Enable(s).published = s.published
         /\ Disable(s).published = s.published
         /\ \A m, boot : Fence(s, m, boot).published = s.published
         /\ \A m : AddMember(s, m).published = s.published
         /\ \A m : RemoveMember(s, m).published = s.published
<1>1. CompleteDisable(s).published = s.published
  BY DEF CompleteDisable, Record
<1>2. ASSUME NEW m, NEW boot, NEW floor
      PROVE  Join(s, m, boot, floor).published = s.published
  BY DEF Join, CompleteDisable, Record
<1>3. ASSUME NEW block PROVE Propose(s, block).published = s.published
  BY DEF Propose, Record
<1>4. ASSUME NEW m, NEW anchor, NEW floor
      PROVE  Ready(s, m, anchor, floor).published = s.published
  BY DEF Ready, Record
<1>5. Abort(s).published = s.published
  BY DEF Abort, Record
<1>6. Enable(s).published = s.published
  BY DEF Enable, CompleteDisable, Record
<1>7. Disable(s).published = s.published
  BY DEF Disable, CompleteDisable, Record
<1>8. ASSUME NEW m, NEW boot PROVE Fence(s, m, boot).published = s.published
  BY DEF Fence, CompleteDisable, Record
<1>9. ASSUME NEW m PROVE AddMember(s, m).published = s.published
  BY DEF AddMember, Record
<1>10. ASSUME NEW m PROVE RemoveMember(s, m).published = s.published
  BY DEF RemoveMember, Record
<1> QED
  BY <1>1, <1>2, <1>3, <1>4, <1>5, <1>6, <1>7, <1>8, <1>9, <1>10

LEMMA CommitPublishes ==
  ASSUME LogInv(log), Recorded, NEW t, Commit(t)
  PROVE  UNCHANGED log \/ (Recorded' /\ Current' = t)
<1>1. log \in Seq(Record \cup {t})
  BY DEF LogInv
<1>2. ASSUME log' = Append(log, t)
      PROVE  Recorded' /\ Current' = t
  <2>1. /\ log' \in Seq(Record \cup {t}) /\ Len(log') = Len(log) + 1
        /\ Len(log) \in Nat /\ log'[Len(log) + 1] = t
    BY <1>1, <1>2, AppendProperties
  <2> QED
    BY <2>1, EmptySeq DEF Recorded, Current
<1> QED
  BY <1>2 DEF Commit

LEMMA PublishedStays ==
  ASSUME LogInv(log), Recorded, NEW t, Commit(t), t.published = Current.published
  PROVE  UNCHANGED Published
  BY CommitPublishes DEF Published, Recorded, Current

LEMMA ProgressPublishes ==
  ASSUME LogInv(log), NEW m \in Members, NEW n, NEW f, Progress(m, n, f)
  PROVE  UNCHANGED Published
<1>1. CASE UNCHANGED log
  BY <1>1 DEF Published, Recorded, Current
<1>2. CASE /\ Joins(m, n) /\ n.snap = Len(log)
           /\ Commit(Join(log[n.snap], m, n.boot, f.height))
  <2>1. Recorded
    <3>1. Len(log) # 0
      BY <1>2 DEF Joins, Acts, None
    <3> QED
      BY <3>1, EmptySeq DEF Recorded, LogInv
  <2>2. Current \in Record /\ log[n.snap] = Current
    BY <1>2, <2>1, CurrentFacts DEF Current
  <2>3. Join(log[n.snap], m, n.boot, f.height).published = Current.published
    BY <2>2, CommandsKeep
  <2> QED
    BY <1>2, <2>1, <2>3, PublishedStays
<1> QED
  BY <1>1, <1>2 DEF Progress

\* Only an acknowledgement can change the published block.
LEMMA OthersPublishNothing ==
  ASSUME Inv, Next, \A m \in Members : ~ Acknowledge(m)
  PROVE  UNCHANGED Published
<1>1. LogInv(log)
  BY DEF Inv
<1>2. Recorded => Current \in Record
  BY <1>1, CurrentFacts
<1>3. CASE UNCHANGED log
  BY <1>3 DEF Published, Recorded, Current
<1>4. ASSUME NEW m \in Members,
             \/ \E r \in node[m].gate..Len(log) : Deliver(m, r)
             \/ Reconcile(m) \/ InventoryResult(m)
      PROVE  UNCHANGED Published
  BY <1>1, <1>4, ProgressPublishes DEF Deliver, Reconcile, InventoryResult, Install
<1>5. ASSUME NEW m \in Members, Ensure(m)
      PROVE  UNCHANGED Published
  <2>1. ~ Recorded /\ log' = <<New(Roster)>>
    BY <1>5 DEF Ensure
  <2>2. Recorded' /\ Current' = New(Roster)
    BY <2>1 DEF Recorded, Current
  <2> QED
    BY <2>1, <2>2 DEF Published, New
<1>6. ASSUME NEW m \in Members,
             \/ ProposeBlock(m) \/ AbortEpoch(m)
             \/ \E anchor \in Hashes \cup {NoHash} : ReportReady(m, anchor)
      PROVE  UNCHANGED Published
  <2>1. Recorded
    BY <1>6 DEF Inv, MemberInv, IndexInv, ProposeBlock, AbortEpoch, ReportReady, Recorded
  <2>2. CASE ProposeBlock(m)
    BY <1>1, <1>2, <1>3, <2>1, <2>2, CommandsKeep, PublishedStays DEF ProposeBlock
  <2>3. CASE AbortEpoch(m)
    BY <1>1, <1>2, <1>3, <2>1, <2>3, CommandsKeep, PublishedStays DEF AbortEpoch
  <2>4. CASE \E anchor \in Hashes \cup {NoHash} : ReportReady(m, anchor)
    BY <1>1, <1>2, <1>3, <2>1, <2>4, CommandsKeep, PublishedStays DEF ReportReady
  <2> QED
    BY <1>6, <2>2, <2>3, <2>4
<1>7. ASSUME NEW m \in Members, FenceSelf(m)
      PROVE  UNCHANGED Published
  BY <1>1, <1>2, <1>7, CommandsKeep, PublishedStays DEF FenceSelf
<1>8. CASE Operate
  <2>1. ASSUME NEW m \in Members, Enlist(m) PROVE UNCHANGED Published
    BY <1>1, <1>2, <2>1, CommandsKeep, PublishedStays DEF Enlist
  <2>2. ASSUME NEW m \in Members, Delist(m) PROVE UNCHANGED Published
    BY <1>1, <1>2, <2>2, CommandsKeep, PublishedStays DEF Delist
  <2>3. ASSUME NEW m \in Members, FenceExternally(m) PROVE UNCHANGED Published
    BY <1>1, <1>2, <2>3, CommandsKeep, PublishedStays DEF FenceExternally
  <2>4. ASSUME EnableScope PROVE UNCHANGED Published
    BY <1>1, <1>2, <2>4, CommandsKeep, PublishedStays DEF EnableScope
  <2>5. ASSUME DisableScope PROVE UNCHANGED Published
    BY <1>1, <1>2, <2>5, CommandsKeep, PublishedStays DEF DisableScope
  <2> QED
    BY <1>8, <2>1, <2>2, <2>3, <2>4, <2>5 DEF Operate
<1>9. CASE Fail
  BY <1>3, <1>7, <1>9 DEF Fail, Retire, RestartRuntime, Restart
<1>10. CASE Steady
  BY <1>3, <1>4, <1>5, <1>6, <1>10 DEF Steady, PassGuard, AnswerLocally, TaskLost
<1> QED
  BY <1>8, <1>9, <1>10 DEF Next

\* The last acknowledgement publishes the candidate while every gate is closed.
LEMMA AcknowledgementPublishes ==
  ASSUME Inv, NEW m \in Members, Acknowledge(m), Published' # Published
  PROVE  /\ Published' \in Block /\ Supersedes(Published', Published)
         /\ Offered = {} /\ Offered' = {}
<1> DEFINE boot == node[m].boot
<1>1. /\ LogInv(log) /\ IndexInv(log, node[m]) /\ node[m] \in Node /\ boot \in Boots
      /\ node[m].gate \in Nat /\ node[m].ack \in Nat
  BY NodeFields DEF Inv, MemberInv
<1>2. /\ node[m].ack = Len(log) /\ node[m].ack # None
      /\ ClosedOK(log[Len(log)], log[Len(log)].epoch, m, boot)
      /\ Commit(Closed(log[Len(log)], m, boot)) /\ ~ UNCHANGED log
  BY DEF Acknowledge, Published, Recorded, Current
<1>3. Recorded
  <2>1. Len(log) # 0
    BY <1>2 DEF None
  <2> QED
    BY <2>1, EmptySeq DEF Recorded
<1> DEFINE s == Current
           t == [s EXCEPT !.closed[m] = boot]
<1>4. s \in Record /\ RecordInv(s) /\ s = log[Len(log)] /\ s = Last(log)
  BY <1>1, <1>3, CurrentFacts DEF Current
<1>5. /\ t \in Record /\ t.published = s.published
      /\ t.closed = [s.closed EXCEPT ![m] = boot]
  BY <1>1, <1>4 DEF Record
<1>6. Commit(Closed(s, m, boot)) /\ Changing(s)
  BY <1>2, <1>4 DEF ClosedOK
<1> HIDE DEF s
<1>7. s.phase = "closing" /\ t.closed = s.members
  <2>1. CASE ~ (s.phase = "closing" /\ AllClosed(t.closed, s))
    <3>1. Closed(s, m, boot) = CompleteDisable(t)
      BY <2>1 DEF Closed
    <3>2. Closed(s, m, boot).published = s.published
      BY <1>5, <3>1, CommandsKeep
    <3> QED
      BY <1>1, <1>3, <1>6, <3>2, PublishedStays DEF s
  <2> QED
    BY <2>1 DEF AllClosed
<1>8. Closed(s, m, boot).published = s.candidate
  BY <1>4, <1>5, <1>7 DEF Closed, AllClosed, Record
<1>9. Published' = s.candidate /\ Published = s.published
  BY <1>1, <1>2, <1>3, <1>6, <1>8, CommitPublishes DEF Published, s
<1>10. s.candidate \in Block /\ Supersedes(s.candidate, s.published)
  BY <1>4, <1>7 DEF RecordInv, InBarrier
<1>11. node[m].gate = Len(log)
  BY <1>1, <1>2 DEF IndexInv
<1>12. ASSUME NEW p \in Members, Readable(p)
       PROVE  FALSE
  <2>1. /\ node[p].gate \in 1..Len(log) /\ ~ node[p].retired
        /\ Opens(log[node[p].gate], p, node[p].boot)
        /\ s.active[p] = node[p].boot
    BY <1>12, OpenGate DEF s
  <2>2. ~ Changing(log[node[p].gate])
    BY <2>1 DEF Opens, Changing
  <2>3. CASE p = m
    BY <1>4, <1>6, <1>11, <2>2, <2>3
  <2>4. CASE p # m
    <3>1. node[p].boot \in Boots /\ MemberInv(log, node[p], local[p], p)
      BY NodeFields DEF Inv
    <3>2. <<p, node[p].boot>> \notin s.fenced
      BY <1>1, <1>3, <1>4, <2>1, <3>1, CurrentFacts DEF MemberInv, BootInv
    <3>3. s.members[p] = node[p].boot
      BY <1>4, <2>1, <3>1, <3>2 DEF RecordInv
    <3>4. s.closed[p] = node[p].boot
      BY <1>4, <1>5, <1>7, <2>4, <3>3, Fields
    <3>5. \A k \in node[p].gate..Len(log) : Changing(log[k])
      BY <1>3, <1>4, <1>6, <3>1, <3>4 DEF MemberInv, ClosedInv, Recorded
    <3>6. node[p].gate \in node[p].gate..Len(log)
      BY <2>1
    <3> QED
      BY <2>2, <3>5, <3>6
  <2> QED
    BY <2>3, <2>4
<1>13. ASSUME NEW p \in Members, Readable(p)'
       PROVE  FALSE
  <2>1. /\ node'[p].boot = node[p].boot /\ node'[p].gate = node[p].gate
        /\ node'[p].retired = node[p].retired
        /\ node'[p].bootstrapped = node[p].bootstrapped
    <3>1. node' = [node EXCEPT ![m] = [node[m] EXCEPT !.ack = None]]
      BY DEF Acknowledge
    <3>2. node[p] \in Node /\ node \in [Members -> Node]
      BY DEF Inv
    <3>3. CASE p = m
      BY <3>1, <3>2, <3>3 DEF Node
    <3>4. CASE p # m
      BY <3>1, <3>2, <3>4
    <3> QED
      BY <3>3, <3>4
  <2>2. /\ ~ node'[p].retired /\ node'[p].bootstrapped /\ node'[p].gate # None
        /\ Opens(log'[node'[p].gate], p, node'[p].boot)
    BY <1>13 DEF Readable
  <2>3. node[p].gate \in 1..Len(log)
    <3>1. node[p].gate \in Nat /\ node[p].gate <= Len(log)
      BY NodeFields DEF Inv, MemberInv, IndexInv
    <3> QED
      BY <2>1, <2>2, <3>1 DEF None
  <2>4. log'[node[p].gate] = log[node[p].gate]
    <3>1. log' = Append(log, Closed(s, m, boot))
      BY <1>2, <1>4 DEF Commit
    <3>2. log \in Seq(Record \cup {Closed(s, m, boot)})
      BY <1>1 DEF LogInv
    <3> QED
      BY <2>3, <3>1, <3>2, AppendProperties
  <2>5. Readable(p)
    BY <2>1, <2>2, <2>4 DEF Readable
  <2> QED
    BY <1>12, <2>5
<1>14. Offered = {} /\ Offered' = {}
  BY <1>12, <1>13 DEF Offered
<1> QED
  BY <1>9, <1>10, <1>14

\* The fleet is one register: reads anywhere return the one published block,
\* which only rises, and a new block is published only while no gate serves the
\* old one (publication.ex, gate.ex and runtime.ex together implement FleetHead).
THEOREM FleetIsOneRegister == Spec => FleetRegister
<1>1. Init => Fleet!Init
  <2> SUFFICES ASSUME Init PROVE Fleet!Init
    OBVIOUS
  <2>1. Published = NoBlock /\ Offered = {}
    BY DEF Init, Published, Recorded, Offered, Readable, Started
  <2> QED
    BY <2>1 DEF Fleet!Init, Published, Offered
<1>2. Inv /\ Registered /\ Registered' /\ [Next]_vars => [Fleet!Next]_<<Published, Offered>>
  <2> SUFFICES ASSUME Inv, Registered, Registered', [Next]_vars,
                      ~ UNCHANGED <<Published, Offered>>
               PROVE  Fleet!Next
    OBVIOUS
  <2>1. /\ Published \in Block \cup {NoBlock} /\ Offered \in {{}, {Published} \ {NoBlock}}
        /\ Published' \in Block \cup {NoBlock}
        /\ Offered' \in {{}, {Published'} \ {NoBlock}}
    BY DEF Registered
  <2>2. CASE Published' = Published
    <3>1. CASE Offered' = {}
      BY <2>2, <3>1 DEF Fleet!Next, Fleet!Withdraw, Published, Offered
    <3>2. CASE Offered' = {Published} /\ Published # NoBlock
      BY <2>2, <3>2 DEF Fleet!Next, Fleet!Offer, Published, Offered
    <3> QED
      BY <2>1, <2>2, <3>1, <3>2
  <2>3. CASE Published' # Published
    <3>1. PICK m \in Members : Acknowledge(m)
      <4>1. Next
        BY <2>3 DEF vars, Published, Recorded, Current
      <4> QED
        BY <2>3, <4>1, OthersPublishNothing
    <3>2. /\ Published' \in Block /\ Supersedes(Published', Published)
          /\ Offered = {} /\ Offered' = {}
      BY <2>3, <3>1, AcknowledgementPublishes
    <3>3. Fleet!Publish(Published')
      BY <3>2 DEF Fleet!Publish, Supersedes, Published, Offered
    <3> QED
      BY <3>2, <3>3 DEF Fleet!Next, Fleet!Block, Block
  <2> QED
    BY <2>2, <2>3
<1>3. Fleet!Spec <=> Fleet!Init /\ [][Fleet!Next]_<<Published, Offered>>
  BY DEF Fleet!Spec, Published, Offered
<1> QED
  BY <1>1, <1>2, <1>3, InvCorrect, OfferedIsPublished, PTL DEF Spec, FleetRegister

=============================================================================
