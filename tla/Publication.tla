----------------------------- MODULE Publication -----------------------------
(***************************************************************************)
(* The durable publication record of one scope and its transitions         *)
(* (lib/lasso/core/block_publication/publication.ex).  Every transition is *)
(* a guard, named ...OK, and the record it yields.  Evidence is reduced to *)
(* the anchor hash it reports, a block to its height and hash; ages, the   *)
(* fence log and the chain-change report are left out.                     *)
(***************************************************************************)
EXTENDS Integers

CONSTANTS
  Members,  \* node identities that may be listed
  Heights,  \* block heights
  Hashes,   \* block hashes
  MaxBoot   \* bound on application starts of one member

NoHash   == "nohash"
Unlisted == -1      \* a member that a roster does not list
Nil      == 0       \* a listed member without a boot
Absent   == "absent"

ASSUME PublicationAssumption ==
  /\ Heights \subseteq Nat \ {0}
  /\ NoHash \notin Hashes /\ Absent \notin Hashes
  /\ MaxBoot \in Nat \ {0}

Boots   == 1..MaxBoot
Block   == [height : Heights, hash : Hashes]
NoBlock == [height |-> 0, hash |-> NoHash]

Phases == {"joining", "active", "preparing", "closing", "disabling", "disabled"}

Record ==
  [phase     : Phases,
   epoch     : Nat,
   members   : [Members -> {Unlisted, Nil} \cup Boots],
   active    : [Members -> {Unlisted} \cup Boots],
   closed    : [Members -> {Unlisted} \cup Boots],
   ready     : [Members -> {Absent, NoHash} \cup Hashes],
   minimum   : Heights \cup {0},
   published : Block \cup {NoBlock},
   candidate : Block \cup {NoBlock},
   resume    : BOOLEAN,
   fenced    : SUBSET (Members \X Boots)]

Nobody  == [m \in Members |-> Unlisted]
NoReady == [m \in Members |-> Absent]

\* Mutant: the configured members are active at once.
NewActive(roster) ==
  LET members == [m \in Members |-> IF m \in roster THEN Nil ELSE Unlisted] IN
  [phase |-> "joining", epoch |-> 0, members |-> members, active |-> members,
   closed |-> Nobody, ready |-> NoReady, minimum |-> 0,
   published |-> NoBlock, candidate |-> NoBlock, resume |-> FALSE, fenced |-> {}]

New(roster) ==
  [phase |-> "joining", epoch |-> 0,
   members |-> [m \in Members |-> IF m \in roster THEN Nil ELSE Unlisted],
   active |-> Nobody, closed |-> Nobody, ready |-> NoReady, minimum |-> 0,
   published |-> NoBlock, candidate |-> NoBlock, resume |-> FALSE, fenced |-> {}]

Larger(a, b) == IF a >= b THEN a ELSE b

Listed(s, m)    == s.members[m] # Unlisted
Joined(s)       == \A m \in Members : s.members[m] # Nil
RosterPhase(s)  == IF Joined(s) THEN "active" ELSE "joining"
Changing(s)     == s.phase \in {"closing", "disabling"}

-----------------------------------------------------------------------------
\* complete_disable: a disabling scope is disabled once every active boot has
\* acknowledged or is fenced.
Revoked(s, m) ==
  \/ s.active[m] = Unlisted
  \/ s.closed[m] = s.active[m]
  \/ <<m, s.active[m]>> \in s.fenced

\* Mutant: the active members outlive the scope.
CompleteDisableKeepsActive(s) ==
  IF s.phase = "disabling" /\ \A m \in Members : Revoked(s, m)
  THEN [s EXCEPT !.phase = IF s.resume THEN RosterPhase(s) ELSE "disabled"]
  ELSE s
\* Mutant: acknowledgements are not awaited.
CompleteDisableAtOnce(s) ==
  IF s.phase = "disabling"
  THEN [s EXCEPT !.phase = IF s.resume THEN RosterPhase(s) ELSE "disabled",
                 !.active = Nobody]
  ELSE s

CompleteDisable(s) ==
  IF s.phase = "disabling" /\ \A m \in Members : Revoked(s, m)
  THEN [s EXCEPT !.phase = IF s.resume THEN RosterPhase(s) ELSE "disabled",
                 !.active = Nobody]
  ELSE s

\* {:join, member, boot, floor}: in any phase.
JoinOK(s, m, boot) ==
  /\ Listed(s, m)
  /\ <<m, boot>> \notin s.fenced
  /\ s.members[m] \in {Nil, boot}
Join(s, m, boot, floor) ==
  LET t == [s EXCEPT !.members[m] = boot, !.minimum = Larger(@, floor)] IN
  CompleteDisable([t EXCEPT !.phase = IF @ = "joining" THEN RosterPhase(t) ELSE @])

\* {:propose, member, boot, block}: a higher block, or the published one again
\* for a roster that has changed.
ProposeOK(s, m, boot, block) ==
  /\ s.phase = "active"
  /\ s.members[m] = boot
  /\ Joined(s)
  /\ block.height >= s.minimum
  /\ \/ s.published = NoBlock
     \/ block.height > s.published.height
     \/ block = s.published /\ s.active # s.members
\* Mutant: acknowledgements of the last epoch are kept.
ProposeKeepsClosed(s, block) ==
  [s EXCEPT !.epoch = @ + 1, !.phase = "preparing", !.candidate = block,
            !.ready = NoReady]
Propose(s, block) ==
  [s EXCEPT !.epoch = @ + 1, !.phase = "preparing", !.candidate = block,
            !.ready = NoReady, !.closed = Nobody]

\* {:ready, epoch, member, boot, evidence}: the barrier opens when all members
\* report the same anchor; a raised minimum drops the candidate.
ReadyOK(s, epoch, m, boot, hash) ==
  /\ s.phase = "preparing"
  /\ s.epoch = epoch /\ s.members[m] = boot
  /\ s.candidate.hash = hash
AllReady(ready, s) ==
  /\ \A m \in Members : Listed(s, m) => ready[m] # Absent
  /\ \A m, n \in Members : Listed(s, m) /\ Listed(s, n) => ready[m] = ready[n]
Ready(s, m, anchor, floor) ==
  LET minimum == Larger(s.minimum, floor)
      ready   == [s.ready EXCEPT ![m] = anchor]
  IN IF s.candidate.height < minimum
     THEN [s EXCEPT !.minimum = minimum, !.phase = "active",
                    !.candidate = NoBlock, !.ready = NoReady]
     ELSE [s EXCEPT !.minimum = minimum, !.ready = ready,
                    !.phase = IF AllReady(ready, s) THEN "closing" ELSE "preparing"]

\* {:closed, epoch, member, boot}: the last acknowledgement publishes.
ClosedOK(s, epoch, m, boot) ==
  Changing(s) /\ s.epoch = epoch /\ s.members[m] = boot
\* Mutant: the first acknowledgement publishes.
AnyClosed(closed, s) == \E m \in Members : Listed(s, m) /\ closed[m] = s.members[m]
AllClosed(closed, s) == closed = s.members
Closed(s, m, boot) ==
  LET t == [s EXCEPT !.closed[m] = boot] IN
  IF s.phase = "closing" /\ AllClosed(t.closed, s)
  THEN [t EXCEPT !.phase = "active", !.published = s.candidate,
                 !.minimum = s.candidate.height, !.candidate = NoBlock,
                 !.active = s.members]
  ELSE CompleteDisable(t)

\* :enable
EnableOK(s) == s.phase \in {"disabled", "disabling"}
Enable(s) ==
  IF s.phase = "disabled" THEN [s EXCEPT !.phase = RosterPhase(s)]
  ELSE CompleteDisable([s EXCEPT !.resume = TRUE])

\* :disable
Disable(s) ==
  IF s.phase \in {"disabled", "disabling"}
  THEN CompleteDisable([s EXCEPT !.resume = FALSE])
  ELSE CompleteDisable([s EXCEPT !.phase = "disabling", !.epoch = @ + 1,
                                 !.closed = Nobody, !.candidate = NoBlock,
                                 !.resume = FALSE])

\* {:abort, epoch}
AbortOK(s, epoch) == s.phase = "preparing" /\ s.epoch = epoch
Abort(s) ==
  [s EXCEPT !.phase = "active", !.candidate = NoBlock, !.ready = NoReady]

\* {:fence, member, expected_boot, reason}
FenceOK(s, m, boot) == s.members[m] = boot
Fence(s, m, boot) ==
  CompleteDisable(
    [s EXCEPT !.members[m] = Nil,
              !.phase = IF @ \in {"disabling", "disabled"} THEN @ ELSE "joining",
              !.candidate = NoBlock,
              !.ready = NoReady,
              !.closed = IF s.phase = "disabling" THEN @ ELSE Nobody,
              !.fenced = @ \cup {<<m, boot>>}])

\* {:add_member, member}
AddMemberOK(s, m) == s.phase # "disabling" /\ ~ Listed(s, m)
AddMember(s, m) ==
  [s EXCEPT !.members[m] = Nil,
            !.phase = IF @ = "disabled" THEN @ ELSE "joining",
            !.ready = NoReady, !.closed = Nobody, !.candidate = NoBlock]

\* {:remove_fenced_member, member}
RemoveMemberOK(s, m) ==
  /\ s.phase # "disabling"
  /\ s.members[m] = Nil
  /\ \E n \in Members \ {m} : Listed(s, n)
RemoveMember(s, m) ==
  LET t == [s EXCEPT !.members[m] = Unlisted,
                     !.ready = NoReady, !.closed = Nobody, !.candidate = NoBlock]
  IN [t EXCEPT !.phase = IF @ = "disabled" THEN @ ELSE RosterPhase(t)]

=============================================================================
