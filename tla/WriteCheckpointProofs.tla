----------------------- MODULE WriteCheckpointProofs -----------------------
(***************************************************************************)
(* Theorems about WriteCheckpoint for every set of instances and every     *)
(* bound of the clock: what an instance stamps after it has switched to    *)
(* the next version survives, and the author of the snapshot loses only    *)
(* what waited for its Checkpoint.                                         *)
(*                                                                         *)
(* The argument: nobody switches, nothing is stored in version N+1 and the *)
(* lease is not done before some Checkpoint has succeeded (PublishInv).    *)
(* Until then a publication may replace another, of a lost response or of  *)
(* an expired lease; later ones set replaced.  So what a switched instance *)
(* stamps is later than the cut (ClockInv) and goes to version N+1 only    *)
(* (SwitchInv).  A draft holds what its author acknowledged, as writers    *)
(* wait while it exists (CallInv), and so does the snapshot that it        *)
(* becomes, until another instance replaces it (AuthorInv).                *)
(***************************************************************************)
EXTENDS WriteCheckpoint, TLAPS

\* No time stamp lies in the future.
ClockInv ==
  /\ \A r \in switched : r <= now
  /\ \A i \in Instance : \A r \in waiting[i] \cup wbuf[i] \cup accepted[i] : r <= now
  /\ snapshot.cut <= now
  /\ \A i \in Instance : draft[i].cut <= now

\* What a call in progress has prepared, and what is left when it succeeded.
CallInv ==
  /\ \A i \in Instance : accepted[i] \subseteq data[i]
  /\ \A i \in Instance : ckpt[i] \in {"cut", "renew", "publish", "mark"} =>
       draft[i].by = i /\ accepted[i] \subseteq draft[i].holds
  /\ \A i \in Instance : ckpt[i] = "mark" /\ snapshot.by = i => snapshot = draft[i]
  /\ \A i \in Instance : hasCheckpointed[i] => nextVerExists[i] /\ ckpt[i] = "none"

\* Nothing belongs to version N+1 before some Checkpoint has succeeded.
PublishInv ==
  /\ \A i \in Instance : nextVerExists[i] => Succeeded
  /\ delta[1] # {} => Succeeded
  /\ switched # {} => Succeeded
  /\ done => Succeeded

\* What a switched instance stamps is later than the cut and reaches no other
\* version than N+1.
SwitchInv ==
  /\ ~replaced => \A r \in switched : r > snapshot.cut
  /\ \A i \in Instance : \A r \in waiting[i] \cup wbuf[i] : r \in switched => nextVerExists[i]
  /\ \A i \in Instance : \A r \in accepted[i] : r \in switched => r \in wbuf[i] \cup delta[1]

\* The snapshot that stands has what its author acknowledged before the cut; the
\* author's later mutations are on their way to version N+1.
AuthorInv ==
  \A i \in Instance : snapshot.by = i /\ hasCheckpointed[i] =>
    /\ \A r \in waiting[i] : r \in overtaken \/ r > snapshot.cut
    /\ \A r \in accepted[i] :
         \/ r \in snapshot.holds \cup overtaken
         \/ r > snapshot.cut /\ r \in wbuf[i] \cup delta[1]

IInv == TypeOK /\ ClockInv /\ CallInv /\ PublishInv /\ SwitchInv /\ AuthorInv

-----------------------------------------------------------------------------
(* The invariant is inductive *)

USE DEF Add, ReadClock, WriteVer, Store, FlushBuffer, At, Renewed, Succeeded, MoveBranch, Discard,
        NoSnapshot, lease, github, local, call, history

\* The first state satisfies the invariant.
LEMMA InitIInv == Init => IInv
<1> SUFFICES ASSUME Init PROVE IInv
  OBVIOUS
<1>1. TypeOK
  <2>1. NoSnapshot \in Snapshot
    BY WriteAssumption DEF WriteAssumption, Snapshot
  <2> HIDE DEF NoSnapshot
  <2>2. now \in 0 .. MaxTime /\ delta \in [{0, 1} -> SUBSET Stamps]
    BY WriteAssumption DEF WriteAssumption, Init
  <2>3. snapshot \in Snapshot /\ draft \in [Instance -> Snapshot]
    BY <2>1 DEF Init
  <2> QED BY <2>2, <2>3 DEF Init, TypeOK
<1>2. ClockInv /\ SwitchInv
  BY WriteAssumption DEF WriteAssumption, Init, ClockInv, SwitchInv
<1>3. CallInv /\ PublishInv /\ AuthorInv
  BY WriteAssumption DEF WriteAssumption, Init, CallInv, PublishInv, AuthorInv
<1> QED BY <1>1, <1>2, <1>3 DEF IInv

\* A writer takes the time: later than everything else, the cut included.
LEMMA StampKeeps == ASSUME IInv, NEW i \in Instance, Stamp(i) PROVE IInv'
<1> USE WriteAssumption DEF WriteAssumption, Stamp
<1>1. TypeOK'
  <2>1. now' \in Stamps
    BY DEF IInv, TypeOK, Stamps
  <2>2. waiting' \in [Instance -> SUBSET Stamps]
    BY <2>1 DEF IInv, TypeOK
  <2>3. switched' \subseteq Stamps
    BY <2>1 DEF IInv, TypeOK
  <2> QED BY <2>2, <2>3 DEF IInv, TypeOK, Stamps
<1>2. ClockInv'
  BY DEF IInv, TypeOK, Stamps, Snapshot, ClockInv
<1>3. CallInv'
  BY DEF IInv, TypeOK, Stamps, Snapshot, CallInv
<1>4. PublishInv'
  BY DEF IInv, TypeOK, Stamps, Snapshot, PublishInv
<1>5. SwitchInv'
  BY DEF IInv, TypeOK, Stamps, Snapshot, ClockInv, PublishInv, SwitchInv
<1>6. AuthorInv'
  BY DEF IInv, TypeOK, Stamps, Snapshot, ClockInv, CallInv, AuthorInv
<1> QED BY <1>1, <1>2, <1>3, <1>4, <1>5, <1>6 DEF IInv

\* A writer passes LockCkptRead: nobody takes a snapshot of its data.
LEMMA ApplyKeeps == ASSUME IInv, NEW i \in Instance, NEW r \in waiting[i], Apply(i, r) PROVE IInv'
<1> USE WriteAssumption DEF WriteAssumption, Apply, MayApply
<1>1. TypeOK'
  BY DEF IInv, TypeOK, Stamps, Snapshot
<1>2. ClockInv'
  BY DEF IInv, TypeOK, Stamps, Snapshot, ClockInv
<1>3. CallInv'
  BY DEF IInv, TypeOK, Stamps, Snapshot, CallInv
<1>4. PublishInv'
  BY DEF IInv, TypeOK, Stamps, Snapshot, PublishInv
<1>5. SwitchInv'
  BY DEF IInv, TypeOK, Stamps, Snapshot, ClockInv, PublishInv, SwitchInv
<1>6. AuthorInv'
  BY DEF IInv, TypeOK, Stamps, Snapshot, ClockInv, CallInv, AuthorInv
<1> QED BY <1>1, <1>2, <1>3, <1>4, <1>5, <1>6 DEF IInv

\* A flush stores the buffer in the version the instance writes to.
LEMMA FlushKeeps == ASSUME IInv, NEW i \in Instance, Flush(i) PROVE IInv'
<1> USE WriteAssumption DEF WriteAssumption, Flush
<1>1. TypeOK'
  BY DEF IInv, TypeOK, Stamps, Snapshot
<1>2. ClockInv'
  BY DEF IInv, TypeOK, Stamps, Snapshot, ClockInv
<1>3. CallInv'
  BY DEF IInv, TypeOK, Stamps, Snapshot, CallInv
<1>4. PublishInv'
  BY DEF IInv, TypeOK, Stamps, Snapshot, PublishInv
<1>5. SwitchInv'
  BY DEF IInv, TypeOK, Stamps, Snapshot, ClockInv, PublishInv, SwitchInv
<1>6. AuthorInv'
  BY DEF IInv, TypeOK, Stamps, Snapshot, ClockInv, CallInv, AuthorInv
<1> QED BY <1>1, <1>2, <1>3, <1>4, <1>5, <1>6 DEF IInv

\* A flush whose response is lost stores it and keeps it.
LEMMA FlushUnclearKeeps == ASSUME IInv, NEW i \in Instance, FlushUnclear(i) PROVE IInv'
<1> USE WriteAssumption DEF WriteAssumption, FlushUnclear
<1>1. TypeOK'
  BY DEF IInv, TypeOK, Stamps, Snapshot
<1>2. ClockInv'
  BY DEF IInv, TypeOK, Stamps, Snapshot, ClockInv
<1>3. CallInv'
  BY DEF IInv, TypeOK, Stamps, Snapshot, CallInv
<1>4. PublishInv'
  BY DEF IInv, TypeOK, Stamps, Snapshot, PublishInv
<1>5. SwitchInv'
  BY DEF IInv, TypeOK, Stamps, Snapshot, ClockInv, PublishInv, SwitchInv
<1>6. AuthorInv'
  BY DEF IInv, TypeOK, Stamps, Snapshot, ClockInv, CallInv, AuthorInv
<1> QED BY <1>1, <1>2, <1>3, <1>4, <1>5, <1>6 DEF IInv

\* A poll that finds version N+1 finds it after a Checkpoint has succeeded.
LEMMA PollKeeps == ASSUME IInv, NEW i \in Instance, Poll(i) PROVE IInv'
<1> USE WriteAssumption DEF WriteAssumption, Poll
<1>1. TypeOK'
  BY DEF IInv, TypeOK, Stamps, Snapshot
<1>2. ClockInv'
  BY DEF IInv, TypeOK, Stamps, Snapshot, ClockInv
<1>3. CallInv'
  BY DEF IInv, TypeOK, Stamps, Snapshot, CallInv
<1>4. PublishInv'
  BY DEF IInv, TypeOK, Stamps, Snapshot, PublishInv
<1>5. SwitchInv'
  BY DEF IInv, TypeOK, Stamps, Snapshot, ClockInv, PublishInv, SwitchInv
<1>6. AuthorInv'
  BY DEF IInv, TypeOK, Stamps, Snapshot, ClockInv, CallInv, AuthorInv
<1> QED BY <1>1, <1>2, <1>3, <1>4, <1>5, <1>6 DEF IInv

\* Checkpoint begins on a lease that is not done.
LEMMA CkptBeginKeeps == ASSUME IInv, NEW i \in Instance, CkptBegin(i) PROVE IInv'
<1> USE WriteAssumption DEF WriteAssumption, CkptBegin
<1>1. TypeOK'
  BY DEF IInv, TypeOK, Stamps, Snapshot
<1>2. ClockInv'
  BY DEF IInv, TypeOK, Stamps, Snapshot, ClockInv
<1>3. CallInv'
  BY DEF IInv, TypeOK, Stamps, Snapshot, CallInv
<1>4. PublishInv'
  BY DEF IInv, TypeOK, Stamps, Snapshot, PublishInv
<1>5. SwitchInv'
  BY DEF IInv, TypeOK, Stamps, Snapshot, ClockInv, PublishInv, SwitchInv
<1>6. AuthorInv'
  BY DEF IInv, TypeOK, Stamps, Snapshot, ClockInv, CallInv, AuthorInv
<1> QED BY <1>1, <1>2, <1>3, <1>4, <1>5, <1>6 DEF IInv

\* An instance learns of another's snapshot and switches.
LEMMA CkptTakenKeeps == ASSUME IInv, NEW i \in Instance, CkptTaken(i) PROVE IInv'
<1> USE WriteAssumption DEF WriteAssumption, CkptTaken
<1>1. TypeOK'
  BY DEF IInv, TypeOK, Stamps, Snapshot
<1>2. ClockInv'
  BY DEF IInv, TypeOK, Stamps, Snapshot, ClockInv
<1>3. CallInv'
  BY DEF IInv, TypeOK, Stamps, Snapshot, CallInv
<1>4. PublishInv'
  BY DEF IInv, TypeOK, Stamps, Snapshot, PublishInv
<1>5. SwitchInv'
  BY DEF IInv, TypeOK, Stamps, Snapshot, ClockInv, PublishInv, SwitchInv
<1>6. AuthorInv'
  BY DEF IInv, TypeOK, Stamps, Snapshot, ClockInv, CallInv, AuthorInv
<1> QED BY <1>1, <1>2, <1>3, <1>4, <1>5, <1>6 DEF IInv

\* The flush of Checkpoint.
LEMMA CkptFlushKeeps == ASSUME IInv, NEW i \in Instance, CkptFlush(i) PROVE IInv'
<1> USE WriteAssumption DEF WriteAssumption, CkptFlush
<1>1. TypeOK'
  BY DEF IInv, TypeOK, Stamps, Snapshot
<1>2. ClockInv'
  BY DEF IInv, TypeOK, Stamps, Snapshot, ClockInv
<1>3. CallInv'
  BY DEF IInv, TypeOK, Stamps, Snapshot, CallInv
<1>4. PublishInv'
  BY DEF IInv, TypeOK, Stamps, Snapshot, PublishInv
<1>5. SwitchInv'
  BY DEF IInv, TypeOK, Stamps, Snapshot, ClockInv, PublishInv, SwitchInv
<1>6. AuthorInv'
  BY DEF IInv, TypeOK, Stamps, Snapshot, ClockInv, CallInv, AuthorInv
<1> QED BY <1>1, <1>2, <1>3, <1>4, <1>5, <1>6 DEF IInv

\* The draft holds the data, so all that was acknowledged.
LEMMA CkptSnapshotKeeps == ASSUME IInv, NEW i \in Instance, CkptSnapshot(i) PROVE IInv'
<1> USE WriteAssumption DEF WriteAssumption, CkptSnapshot
<1>1. TypeOK'
  BY DEF IInv, TypeOK, Stamps, Snapshot
<1>2. ClockInv'
  BY DEF IInv, TypeOK, Stamps, Snapshot, ClockInv
<1>3. CallInv'
  BY DEF IInv, TypeOK, Stamps, Snapshot, CallInv
<1>4. PublishInv'
  BY DEF IInv, TypeOK, Stamps, Snapshot, PublishInv
<1>5. SwitchInv'
  BY DEF IInv, TypeOK, Stamps, Snapshot, ClockInv, PublishInv, SwitchInv
<1>6. AuthorInv'
  BY DEF IInv, TypeOK, Stamps, Snapshot, ClockInv, CallInv, AuthorInv
<1> QED BY <1>1, <1>2, <1>3, <1>4, <1>5, <1>6 DEF IInv

\* The cut is the time of a reading after the snapshot was taken.
LEMMA CkptCutKeeps == ASSUME IInv, NEW i \in Instance, CkptCut(i) PROVE IInv'
<1> USE WriteAssumption DEF WriteAssumption, CkptCut
<1>1. TypeOK'
  BY SMTT(30) DEF IInv, TypeOK, Stamps, Snapshot
<1>2. ClockInv'
  BY DEF IInv, TypeOK, Stamps, Snapshot, ClockInv
<1>3. CallInv'
  BY DEF IInv, TypeOK, Stamps, Snapshot, CallInv
<1>4. PublishInv'
  BY DEF IInv, TypeOK, Stamps, Snapshot, PublishInv
<1>5. SwitchInv'
  BY DEF IInv, TypeOK, Stamps, Snapshot, ClockInv, PublishInv, SwitchInv
<1>6. AuthorInv'
  BY DEF IInv, TypeOK, Stamps, Snapshot, ClockInv, CallInv, AuthorInv
<1> QED BY <1>1, <1>2, <1>3, <1>4, <1>5, <1>6 DEF IInv

\* A renewal changes nothing that the invariant speaks of.
LEMMA CkptRenewKeeps == ASSUME IInv, NEW i \in Instance, CkptRenew(i) PROVE IInv'
<1> USE WriteAssumption DEF WriteAssumption, CkptRenew
<1>1. TypeOK'
  BY DEF IInv, TypeOK, Stamps, Snapshot
<1>2. ClockInv'
  BY DEF IInv, TypeOK, Stamps, Snapshot, ClockInv
<1>3. CallInv'
  BY DEF IInv, TypeOK, Stamps, Snapshot, CallInv
<1>4. PublishInv'
  BY DEF IInv, TypeOK, Stamps, Snapshot, PublishInv
<1>5. SwitchInv'
  BY DEF IInv, TypeOK, Stamps, Snapshot, ClockInv, PublishInv, SwitchInv
<1>6. AuthorInv'
  BY DEF IInv, TypeOK, Stamps, Snapshot, ClockInv, CallInv, AuthorInv
<1> QED BY <1>1, <1>2, <1>3, <1>4, <1>5, <1>6 DEF IInv

\* The draft becomes the snapshot.
LEMMA CkptPublishKeeps == ASSUME IInv, NEW i \in Instance, CkptPublish(i) PROVE IInv'
<1> USE WriteAssumption DEF WriteAssumption, CkptPublish
<1>1. TypeOK'
  BY DEF IInv, TypeOK, Stamps, Snapshot
<1>2. ClockInv'
  BY DEF IInv, TypeOK, Stamps, Snapshot, ClockInv
<1>3. CallInv'
  BY DEF IInv, TypeOK, Stamps, Snapshot, CallInv
<1>4. PublishInv'
  BY DEF IInv, TypeOK, Stamps, Snapshot, PublishInv
<1>5. SwitchInv'
  BY DEF IInv, TypeOK, Stamps, Snapshot, ClockInv, PublishInv, SwitchInv
<1>6. AuthorInv'
  BY DEF IInv, TypeOK, Stamps, Snapshot, ClockInv, CallInv, AuthorInv
<1> QED BY <1>1, <1>2, <1>3, <1>4, <1>5, <1>6 DEF IInv

\* The draft becomes the snapshot, its author does not know.
LEMMA CkptPublishUnclearKeeps == ASSUME IInv, NEW i \in Instance, CkptPublishUnclear(i) PROVE IInv'
<1> USE WriteAssumption DEF WriteAssumption, CkptPublishUnclear
<1>1. TypeOK'
  BY DEF IInv, TypeOK, Stamps, Snapshot
<1>2. ClockInv'
  BY DEF IInv, TypeOK, Stamps, Snapshot, ClockInv
<1>3. CallInv'
  BY DEF IInv, TypeOK, Stamps, Snapshot, CallInv
<1>4. PublishInv'
  BY DEF IInv, TypeOK, Stamps, Snapshot, PublishInv
<1>5. SwitchInv'
  BY DEF IInv, TypeOK, Stamps, Snapshot, ClockInv, PublishInv, SwitchInv
<1>6. AuthorInv'
  BY DEF IInv, TypeOK, Stamps, Snapshot, ClockInv, CallInv, AuthorInv
<1> QED BY <1>1, <1>2, <1>3, <1>4, <1>5, <1>6 DEF IInv

\* The end of a Checkpoint that succeeds: what still waits is overtaken.
LEMMA CkptMarkKeeps == ASSUME IInv, NEW i \in Instance, CkptMark(i) PROVE IInv'
<1> USE WriteAssumption DEF WriteAssumption, CkptMark
<1>1. TypeOK'
  <2>1. NoSnapshot \in Snapshot /\ waiting[i] \subseteq Stamps
    BY DEF IInv, TypeOK, Snapshot
  <2> HIDE DEF NoSnapshot
  <2>2. draft' \in [Instance -> Snapshot]
    BY <2>1 DEF IInv, TypeOK
  <2>3. overtaken' \subseteq Stamps
    BY <2>1 DEF IInv, TypeOK
  <2> QED BY <2>2, <2>3 DEF IInv, TypeOK
<1>2. ClockInv'
  BY DEF IInv, TypeOK, Stamps, Snapshot, ClockInv
<1>3. CallInv'
  BY DEF IInv, TypeOK, Stamps, Snapshot, CallInv
<1>4. PublishInv'
  BY DEF IInv, TypeOK, Stamps, Snapshot, PublishInv
<1>5. SwitchInv'
  BY DEF IInv, TypeOK, Stamps, Snapshot, ClockInv, PublishInv, SwitchInv
<1>6. AuthorInv'
  BY DEF IInv, TypeOK, Stamps, Snapshot, ClockInv, CallInv, AuthorInv
<1> QED BY <1>1, <1>2, <1>3, <1>4, <1>5, <1>6 DEF IInv

\* A failed Checkpoint publishes nothing.
LEMMA CkptFailsKeeps == ASSUME IInv, NEW i \in Instance, CkptFails(i) PROVE IInv'
<1> USE WriteAssumption DEF WriteAssumption, CkptFails
<1>1. TypeOK'
  BY DEF IInv, TypeOK, Stamps, Snapshot
<1>2. ClockInv'
  BY DEF IInv, TypeOK, Stamps, Snapshot, ClockInv
<1>3. CallInv'
  BY DEF IInv, TypeOK, Stamps, Snapshot, CallInv
<1>4. PublishInv'
  BY DEF IInv, TypeOK, Stamps, Snapshot, PublishInv
<1>5. SwitchInv'
  BY DEF IInv, TypeOK, Stamps, Snapshot, ClockInv, PublishInv, SwitchInv
<1>6. AuthorInv'
  BY DEF IInv, TypeOK, Stamps, Snapshot, ClockInv, CallInv, AuthorInv
<1> QED BY <1>1, <1>2, <1>3, <1>4, <1>5, <1>6 DEF IInv

\* Every step keeps the invariant.
LEMMA NextIInv == IInv /\ [Next]_vars => IInv'
<1> SUFFICES ASSUME IInv, [Next]_vars PROVE IInv'
  OBVIOUS
<1>1. CASE UNCHANGED vars
  BY <1>1 DEF vars, IInv, TypeOK, ClockInv, CallInv, PublishInv, SwitchInv, AuthorInv
<1>2. ASSUME NEW i \in Instance, Checkpoint(i) PROVE IInv'
  BY <1>2, CkptBeginKeeps, CkptTakenKeeps, CkptFlushKeeps, CkptSnapshotKeeps, CkptCutKeeps,
     CkptRenewKeeps, CkptPublishKeeps, CkptPublishUnclearKeeps, CkptMarkKeeps, CkptFailsKeeps
     DEF Checkpoint, Publish
<1> QED BY <1>1, <1>2, StampKeeps, ApplyKeeps, FlushKeeps, FlushUnclearKeeps, PollKeeps DEF Next

\* The invariant holds throughout.
THEOREM Invariant == Spec => []IInv
BY InitIInv, NextIInv, PTL DEF Spec

-----------------------------------------------------------------------------
(* What it implies *)

\* Every variable of WriteCheckpoint keeps its type.
THEOREM WriteTypes == Spec => []TypeOK
<1>1. IInv => TypeOK
  BY DEF IInv
<1> QED BY <1>1, Invariant, PTL

\* What an instance stamps once it writes to version N+1 is stored there, after
\* the cut, or still in its buffer (flush.go:224, base.go:438), also when the
\* branch was moved by a call that reported an error, or twice before the first
\* Checkpoint returned (checkpoint.go:94-104, 295).
THEOREM SwitchedSurvive == Spec => []SwitchedWritesSurvive
<1>1. IInv => SwitchedWritesSurvive
  BY DEF IInv, SwitchInv, SwitchedWritesSurvive, Recovered
<1> QED BY <1>1, Invariant, PTL

\* The author of the snapshot that stands, once its Checkpoint has returned nil,
\* loses no acknowledged mutation but those whose time was taken before the cut
\* and that were applied after it returned (table.go:174, checkpoint.go:177).
THEOREM AuthorLoses == Spec => []AuthorLosesOnlyOvertaken
<1>1. IInv => AuthorLosesOnlyOvertaken
  BY DEF IInv, AuthorInv, AuthorLosesOnlyOvertaken, Recovered
<1> QED BY <1>1, Invariant, PTL
=============================================================================
