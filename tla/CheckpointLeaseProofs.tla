------------------------ MODULE CheckpointLeaseProofs ------------------------
(***************************************************************************)
(* Proofs about CheckpointLease, for any set of instances, any window and  *)
(* any number of attempts.                                                 *)
(***************************************************************************)
EXTENDS CheckpointLease, TLAPS

USE DEF Steps, Working, BeforePublish, AfterPublish, Results

\* The lease before its creation has the type of a lease.
LEMMA NoFileType == NoFile \in LeaseFile
BY LeaseAssumption DEF LeaseAssumption, NoFile, LeaseFile

\* Flushing to and finding version N+1 are no steps of a Checkpoint call.
Outside == UNCHANGED vars \/ \E i \in Instance : NextVersion(i)

\* They leave alone what the protocol works on.
LEMMA OutsideKeeps ==
  ASSUME Outside
  PROVE  UNCHANGED <<now, lease, branch, pulls, pc, attempt, seen, stamp, heldAt, after, result,
                     hasCheckpointed, snapshots, lapsed>>
BY DEF Outside, NextVersion, PollFindsNext, WriteNext, vars, remote, scratch, local, history

-----------------------------------------------------------------------------
(* Type correctness *)

\* Every content an instance writes has the type of a lease.
LEMMA ContentTypes ==
  ASSUME CallTypes, NEW i \in Instance
  PROVE  Claim(i) \in LeaseFile /\ Renewal(i) \in LeaseFile /\ Mark(i) \in LeaseFile
<1>1. seen[i] \in LeaseFile /\ stamp[i] \in Nat
  BY DEF CallTypes
<1>2. Claim(i) \in LeaseFile
  BY <1>1 DEF Claim, LeaseFile
<1>3. Renewal(i) \in LeaseFile
  BY <1>1 DEF Renewal, LeaseFile
<1>4. Mark(i) \in LeaseFile
  BY <1>1 DEF Mark, LeaseFile
<1> QED BY <1>2, <1>3, <1>4

\* Returning from Checkpoint, with whatever outcome, keeps the call's types.
LEMMA ReturnTypes ==
  ASSUME CallTypes, NEW i \in Instance, NEW outcome \in Results, Return(i, outcome)
  PROVE  CallTypes'
BY NoFileType, LeaseAssumption DEF LeaseAssumption, CallTypes, Return, Goto

\* A step of the acquire loop keeps the types.
LEMMA AcquireTypes == ASSUME TypeOK, NEW i \in Instance, Acquire(i) PROVE TypeOK'
<1>1. GitHubTypes'
  <2>1. CASE AcquirePut(i) \/ AcquireUnclear(i)
    BY <2>1, ContentTypes DEF TypeOK, GitHubTypes, AcquirePut, AcquireUnclear, PutUnclear, PutLease
  <2>2. CASE UNCHANGED remote
    BY <2>2 DEF TypeOK, GitHubTypes, remote
  <2> QED BY <2>1, <2>2 DEF Acquire, AcquireRead, AcquireTaken, AcquireBusy, AcquireConflict
<1>2. CallTypes'
  <2> USE DEF TypeOK, CallTypes, GitHubTypes
  <2>1. CASE AcquireRead(i)
    BY <2>1 DEF AcquireRead, GetLease, Goto
  <2>2. CASE AcquireTaken(i) \/ AcquireBusy(i) \/ AcquireUnclear(i)
    BY <2>2, ReturnTypes DEF AcquireTaken, AcquireBusy, AcquireUnclear
  <2>3. CASE AcquirePut(i)
    BY <2>3, NoFileType DEF AcquirePut, Goto, Forget
  <2>4. CASE AcquireConflict(i)
    BY <2>4, NoFileType, ReturnTypes, LeaseAssumption DEF LeaseAssumption, AcquireConflict, Goto, Forget
  <2> QED BY <2>1, <2>2, <2>3, <2>4, Acquire(i) DEF Acquire
<1>3. now' \in Nat /\ LocalTypes' /\ HistoryTypes'
  BY DEF TypeOK, LocalTypes, HistoryTypes, local, history, Acquire, AcquireRead, AcquireTaken,
         AcquireBusy, AcquirePut, AcquireConflict, AcquireUnclear
<1> QED BY <1>1, <1>2, <1>3 DEF TypeOK

\* A renewal keeps the types.
LEMMA RenewTypes == ASSUME TypeOK, NEW i \in Instance, Renew(i) PROVE TypeOK'
<1>1. GitHubTypes'
  <2>1. CASE RenewPut(i) \/ RenewUnclear(i)
    BY <2>1, ContentTypes DEF TypeOK, GitHubTypes, RenewPut, RenewUnclear, PutUnclear, PutLease
  <2>2. CASE UNCHANGED remote
    BY <2>2 DEF TypeOK, GitHubTypes, remote
  <2> QED BY <2>1, <2>2 DEF Renew, RenewRead, RenewLost, RenewConflict
<1>2. CallTypes'
  <2> USE DEF TypeOK, CallTypes, GitHubTypes
  <2>1. CASE RenewRead(i)
    BY <2>1 DEF RenewRead, GetLease, Goto
  <2>2. CASE RenewLost(i) \/ RenewConflict(i) \/ RenewUnclear(i)
    BY <2>2, ReturnTypes DEF RenewLost, RenewConflict, RenewUnclear
  <2>3. CASE RenewPut(i)
    BY <2>3, NoFileType DEF RenewPut, Goto, Forget
  <2> QED BY <2>1, <2>2, <2>3 DEF Renew
<1>3. now' \in Nat /\ LocalTypes' /\ HistoryTypes'
  BY DEF TypeOK, LocalTypes, HistoryTypes, local, history, Renew, RenewRead, RenewLost,
         RenewPut, RenewConflict, RenewUnclear
<1> QED BY <1>1, <1>2, <1>3 DEF TypeOK

\* The other steps of a running call keep the types.
LEMMA WorkTypes == ASSUME TypeOK, NEW i \in Instance, Work(i) PROVE TypeOK'
<1>1. GitHubTypes'
  <2> USE DEF TypeOK, GitHubTypes, remote
  <2>1. CASE Prepare(i) \/ PrepareFails(i)
    BY <2>1 DEF Prepare, PrepareFails, SnapshotBranch
  <2>2. CASE Publish(i) \/ PublishUnclear(i)
    BY <2>2 DEF Publish, PublishUnclear, MoveBranch
  <2>3. CASE OpenPR(i)
    BY <2>3 DEF OpenPR
  <2>4. CASE MarkPut(i)
    BY <2>4, ContentTypes DEF MarkPut, PutLease
  <2>5. CASE FlushBuffer(i) \/ Upload(i) \/ CallFails(i) \/ MarkRead(i) \/ MarkFails(i)
    BY <2>5 DEF FlushBuffer, Upload, CallFails, MarkRead, MarkFails
  <2> QED BY <2>1, <2>2, <2>3, <2>4, <2>5 DEF Work
<1>2. CallTypes'
  <2>1. CASE \E outcome \in Results : Return(i, outcome)
    BY <2>1, ReturnTypes DEF TypeOK
  <2>2. CASE MarkRead(i)
    BY <2>2 DEF TypeOK, GitHubTypes, CallTypes, MarkRead, GetLease, Goto
  <2>3. CASE FlushBuffer(i) \/ Prepare(i) \/ Upload(i) \/ Publish(i) \/ OpenPR(i)
    BY <2>3 DEF TypeOK, CallTypes, FlushBuffer, Prepare, Upload, Publish, OpenPR,
                ContinueAt, Goto, scratch
  <2> QED BY <2>1, <2>2, <2>3 DEF Work, PrepareFails, CallFails, PublishUnclear, MarkPut, MarkFails, Finish
<1>3. LocalTypes'
  BY DEF TypeOK, LocalTypes, local, Work, Finish, FlushBuffer, Prepare, PrepareFails, Upload,
         CallFails, Publish, PublishUnclear, OpenPR, MarkRead, MarkPut, MarkFails
<1>4. now' \in Nat /\ HistoryTypes'
  BY DEF TypeOK, HistoryTypes, history, Work, MoveBranch, FlushBuffer, Prepare, PrepareFails, Upload,
         CallFails, Publish, PublishUnclear, OpenPR, MarkRead, MarkPut, MarkFails
<1> QED BY <1>1, <1>2, <1>3, <1>4 DEF TypeOK

\* Beginning, refusing and restarting a call and the clock keep the types.
LEMMA OtherTypes ==
  ASSUME TypeOK,
         \/ \E i \in Instance : Begin(i) \/ CheckpointAgain(i) \/ Restart(i)
         \/ Tick
         \/ Outside
  PROVE  TypeOK'
<1>1. ASSUME NEW i \in Instance, Begin(i) PROVE TypeOK'
  <2>1. CallTypes'
    BY <1>1 DEF TypeOK, CallTypes, Begin, Goto
  <2> QED BY <1>1, <2>1 DEF TypeOK, GitHubTypes, LocalTypes, HistoryTypes, Begin, remote, local, history
<1>2. ASSUME NEW i \in Instance, CheckpointAgain(i) \/ Restart(i) PROVE TypeOK'
  <2>1. CallTypes'
    BY <1>2, ReturnTypes DEF TypeOK, CheckpointAgain, Restart
  <2>2. LocalTypes' /\ HistoryTypes'
    BY <1>2 DEF TypeOK, LocalTypes, HistoryTypes, CheckpointAgain, Restart, local, history
  <2> QED BY <1>2, <2>1, <2>2 DEF TypeOK, GitHubTypes, CheckpointAgain, Restart, remote
<1>3. CASE Tick
  <2>1. now' \in Nat /\ HistoryTypes'
    BY <1>3 DEF TypeOK, HistoryTypes, Tick
  <2> QED BY <1>3, <2>1 DEF TypeOK, GitHubTypes, CallTypes, LocalTypes, Tick, remote, local, scratch
<1>4. CASE Outside
  <2>1. nextDir' \in {"absent", "listed"} /\ nextVerExists' \in [Instance -> BOOLEAN]
    BY <1>4 DEF Outside, NextVersion, PollFindsNext, WriteNext, vars, remote, local, TypeOK,
                GitHubTypes, LocalTypes
  <2> QED BY <1>4, <2>1, OutsideKeeps DEF TypeOK, GitHubTypes, CallTypes, LocalTypes, HistoryTypes
<1> QED BY <1>1, <1>2, <1>3, <1>4

\* Every variable keeps its type, through every step of Checkpoint.
THEOREM TypeInvariant == Spec => []TypeOK
<1>1. Init => TypeOK
  <2> SUFFICES ASSUME Init PROVE TypeOK
    OBVIOUS
  <2>1. CallTypes
    BY NoFileType, LeaseAssumption DEF LeaseAssumption, Init, CallTypes
  <2> QED BY <2>1, NoFileType DEF Init, TypeOK, GitHubTypes, LocalTypes, HistoryTypes
<1>2. TypeOK /\ [Next]_vars => TypeOK'
  BY AcquireTypes, RenewTypes, WorkTypes, OtherTypes DEF Next, Step, Outside
<1> QED BY <1>1, <1>2, PTL DEF Spec

-----------------------------------------------------------------------------
(* The lease stays with a holder whose window is open *)

\* What one instance's step leaves alone in the call of another instance.
Same(j) == /\ pc'[j] = pc[j]
           /\ seen'[j] = seen[j]
           /\ stamp'[j] = stamp[j]
           /\ heldAt'[j] = heldAt[j]

\* An instance touches the call of no other instance.
LEMMA OthersSame ==
  ASSUME TypeOK, NEW i \in Instance, NEW j \in Instance, j # i,
         Begin(i) \/ CheckpointAgain(i) \/ Step(i) \/ Restart(i)
  PROVE  Same(j)
<1> USE DEF TypeOK, CallTypes, Same, Goto, Return, scratch
<1>1. CASE Begin(i) \/ CheckpointAgain(i) \/ Restart(i)
  BY <1>1 DEF Begin, CheckpointAgain, Restart
<1>2. CASE Acquire(i)
  BY <1>2 DEF Acquire, AcquireRead, AcquireTaken, AcquireBusy, AcquirePut, AcquireConflict,
              AcquireUnclear, GetLease, Forget
<1>3. CASE Renew(i)
  BY <1>3 DEF Renew, RenewRead, RenewLost, RenewPut, RenewConflict, RenewUnclear, GetLease, Forget
<1>4. CASE Work(i)
  BY <1>4 DEF Work, ContinueAt, FlushBuffer, Prepare, PrepareFails, Upload, CallFails, Publish,
              PublishUnclear, OpenPR, MarkRead, MarkPut, MarkFails, Finish, GetLease
<1> QED BY <1>1, <1>2, <1>3, <1>4 DEF Step

\* A call that nobody touched keeps its invariant while the lease is unchanged.
LEMMA SameInv ==
  ASSUME TypeOK, NEW j \in Instance, CallInv(j), Same(j), UNCHANGED <<now, lease>>
  PROVE  CallInv(j)'
BY DEF CallInv, Same, MayClaim, Fresh

\* A call that has returned has nothing to rely on.
LEMMA ReturnInv ==
  ASSUME TypeOK, NEW i \in Instance, NEW outcome \in Results, Return(i, outcome), UNCHANGED now
  PROVE  CallInv(i)'
<1>1. pc'[i] = "idle" /\ seen'[i] = NoFile /\ stamp'[i] = 0 /\ heldAt'[i] = 0
  BY DEF TypeOK, CallTypes, Return, Goto
<1> QED BY <1>1 DEF CallInv, NoFile, TypeOK

(***************************************************************************)
(* A successful claim or renewal by i harms no call j: either the lease    *)
(* was i's already, or j's window over it is over.                         *)
(***************************************************************************)
LEMMA TakeInv ==
  ASSUME TypeOK, LeaseInv, NEW i \in Instance, NEW j \in Instance, j # i, Same(j), UNCHANGED now,
         MayClaim(i, lease), lease' \in LeaseFile, lease'.owner = i
  PROVE  CallInv(j)'
<1>1. CallInv(j) /\ lease \in LeaseFile /\ now \in Nat /\ Window \in Nat /\ heldAt[j] \in Nat
  BY LeaseAssumption DEF LeaseAssumption, LeaseInv, TypeOK, GitHubTypes, CallTypes
<1>2. ~(pc[j] \in Working /\ Fresh(j))
  BY <1>1 DEF CallInv, MayClaim, Fresh, LeaseFile
<1> QED BY <1>1, <1>2, LeaseAssumption DEF LeaseAssumption, CallInv, Same, MayClaim, Fresh

\* Marking the lease done keeps its owner and stamp, so it harms no call either.
LEMMA MarkInv ==
  ASSUME TypeOK, NEW j \in Instance, CallInv(j), Same(j), UNCHANGED now,
         lease'.owner = lease.owner, lease'.at = lease.at
  PROVE  CallInv(j)'
BY DEF CallInv, Same, MayClaim, Fresh

\* The acquire loop keeps the invariant of the call that runs it.
LEMMA AcquireInv ==
  ASSUME TypeOK, LeaseInv, NEW i \in Instance, Acquire(i)
  PROVE  CallInv(i)' /\ lease'.at <= now'
<1>1. CallInv(i) /\ lease.at <= now /\ now' = now
  BY DEF LeaseInv, Acquire, AcquireRead, AcquireTaken, AcquireBusy, AcquirePut, AcquireConflict,
         AcquireUnclear
<1>2. CASE AcquireRead(i)
  BY <1>1, <1>2 DEF TypeOK, CallTypes, AcquireRead, GetLease, Goto, remote, CallInv, MayClaim, Fresh
<1>3. CASE AcquireTaken(i) \/ AcquireBusy(i)
  BY <1>1, <1>3, ReturnInv DEF AcquireTaken, AcquireBusy, remote
<1>4. CASE AcquirePut(i)
  <2>1. /\ lease' = Claim(i) /\ pc'[i] = "flush" /\ heldAt'[i] = stamp[i] /\ stamp'[i] = stamp[i]
        /\ seen'[i] = NoFile
    BY <1>4 DEF TypeOK, CallTypes, AcquirePut, PutLease, Goto, Forget
  <2> QED BY <1>1, <2>1, LeaseAssumption
          DEF LeaseAssumption, TypeOK, CallTypes, CallInv, Fresh, Claim, NoFile
<1>5. CASE AcquireConflict(i)
  <2>1. CASE Return(i, "busy")
    BY <1>1, <1>5, <2>1, ReturnInv DEF AcquireConflict, remote
  <2>2. CASE Goto(i, "acquireRead") /\ Forget(i) /\ UNCHANGED <<stamp, heldAt>>
    BY <1>1, <1>5, <2>2 DEF TypeOK, CallTypes, AcquireConflict, Goto, Forget, remote, CallInv, NoFile
  <2> QED BY <1>5, <2>1, <2>2 DEF AcquireConflict
<1>6. CASE AcquireUnclear(i)
  <2>1. CallInv(i)'
    BY <1>1, <1>6, ReturnInv DEF AcquireUnclear
  <2> QED BY <1>1, <1>6, <2>1 DEF AcquireUnclear, PutUnclear, PutLease, Claim, CallInv
<1> QED BY <1>2, <1>3, <1>4, <1>5, <1>6 DEF Acquire

\* So does a renewal.
LEMMA RenewInv ==
  ASSUME TypeOK, LeaseInv, NEW i \in Instance, Renew(i)
  PROVE  CallInv(i)' /\ lease'.at <= now'
<1>1. CallInv(i) /\ lease.at <= now /\ now' = now
  BY DEF LeaseInv, Renew, RenewRead, RenewLost, RenewPut, RenewConflict, RenewUnclear
<1>2. CASE RenewRead(i)
  BY <1>1, <1>2 DEF TypeOK, CallTypes, RenewRead, GetLease, Goto, remote, CallInv, Fresh
<1>3. CASE RenewLost(i) \/ RenewConflict(i)
  BY <1>1, <1>3, ReturnInv DEF RenewLost, RenewConflict, remote
<1>4. CASE RenewPut(i)
  <2>1. /\ lease' = Renewal(i) /\ pc'[i] = after[i] /\ heldAt'[i] = stamp[i] /\ stamp'[i] = stamp[i]
        /\ seen'[i] = NoFile
    BY <1>4 DEF TypeOK, CallTypes, RenewPut, PutLease, Goto, Forget
  <2>2. lease'.owner = i /\ lease'.at = stamp[i]
    BY <1>1, <1>4, <2>1 DEF CallInv, RenewPut, Renewal, TypeOK, CallTypes, LeaseFile
  <2> QED BY <1>1, <2>1, <2>2, LeaseAssumption
          DEF LeaseAssumption, TypeOK, CallTypes, CallInv, Fresh, NoFile
<1>5. CASE RenewUnclear(i)
  <2>1. CallInv(i)'
    BY <1>1, <1>5, ReturnInv DEF RenewUnclear
  <2>2. lease' = Renewal(i) => lease'.at = stamp[i]
    BY DEF Renewal, TypeOK, CallTypes, LeaseFile
  <2> QED BY <1>1, <1>5, <2>1, <2>2 DEF RenewUnclear, PutUnclear, PutLease, CallInv
<1> QED BY <1>2, <1>3, <1>4, <1>5 DEF Renew

\* And so does everything else a call does.
LEMMA WorkInv ==
  ASSUME TypeOK, LeaseInv, NEW i \in Instance, Work(i)
  PROVE  CallInv(i)' /\ lease'.at = lease.at /\ lease'.owner = lease.owner /\ now' = now
<1>1. CallInv(i) /\ now' = now
  BY DEF LeaseInv, Work, FlushBuffer, Prepare, PrepareFails, Upload, CallFails, Publish,
         PublishUnclear, OpenPR, MarkRead, MarkPut, MarkFails
<1>2. CASE PrepareFails(i) \/ CallFails(i) \/ PublishUnclear(i) \/ MarkFails(i)
  BY <1>1, <1>2, ReturnInv DEF PrepareFails, CallFails, PublishUnclear, MarkFails, Finish, remote
<1>3. CASE FlushBuffer(i) \/ Prepare(i) \/ Upload(i)
  BY <1>1, <1>3 DEF TypeOK, CallTypes, FlushBuffer, Prepare, Upload, ContinueAt, Goto, remote,
                    CallInv, Fresh
<1>4. CASE Publish(i) \/ OpenPR(i)
  BY <1>1, <1>4 DEF TypeOK, CallTypes, Publish, OpenPR, Goto, scratch, CallInv, Fresh
<1>5. CASE MarkRead(i)
  BY <1>1, <1>5 DEF TypeOK, CallTypes, MarkRead, GetLease, Goto, remote, CallInv, Fresh, LeaseInv
<1>6. CASE MarkPut(i)
  <2>1. CallInv(i)'
    BY <1>1, <1>6, ReturnInv DEF MarkPut, Finish
  <2>2. Mark(i).at = seen[i].at /\ Mark(i).owner = seen[i].owner
    BY DEF Mark, TypeOK, CallTypes, LeaseFile
  <2> QED BY <1>1, <1>6, <2>1, <2>2 DEF MarkPut, PutLease
<1> QED BY <1>2, <1>3, <1>4, <1>5, <1>6 DEF Work

\* Every step of the system keeps the invariant of every call.
LEMMA LeaseStep == TypeOK /\ LeaseInv /\ [Next]_vars => LeaseInv'
<1> SUFFICES ASSUME TypeOK, LeaseInv, [Next]_vars PROVE LeaseInv'
  OBVIOUS
<1>1. ASSUME NEW i \in Instance, Begin(i) PROVE LeaseInv'
  <2>1. UNCHANGED <<now, lease>>
    BY <1>1 DEF Begin, remote
  <2>2. CallInv(i)'
    BY <1>1 DEF Begin, remote, LeaseInv, CallInv, TypeOK, CallTypes, Goto
  <2> QED BY <1>1, <2>1, <2>2, OthersSame, SameInv DEF LeaseInv
<1>2. ASSUME NEW i \in Instance, CheckpointAgain(i) \/ Restart(i) PROVE LeaseInv'
  <2>1. UNCHANGED <<now, lease>>
    BY <1>2 DEF CheckpointAgain, Restart, remote
  <2>2. CallInv(i)'
    BY <1>2, <2>1, ReturnInv DEF CheckpointAgain, Restart
  <2> QED BY <1>2, <2>1, <2>2, OthersSame, SameInv DEF LeaseInv
<1>3. ASSUME NEW i \in Instance, Acquire(i) \/ Renew(i) PROVE LeaseInv'
  <2>1. CallInv(i)' /\ lease'.at <= now' /\ now' = now
    BY <1>3, AcquireInv, RenewInv
       DEF Acquire, AcquireRead, AcquireTaken, AcquireBusy, AcquirePut, AcquireConflict,
           AcquireUnclear, Renew, RenewRead, RenewLost, RenewPut, RenewConflict, RenewUnclear
  <2>2. \/ UNCHANGED lease
        \/ MayClaim(i, lease) /\ lease'.owner = i
    <3>1. CallInv(i) /\ seen[i] \in LeaseFile
      BY DEF LeaseInv, TypeOK, CallTypes
    <3>2. CASE AcquirePut(i) \/ AcquireUnclear(i)
      BY <3>1, <3>2 DEF AcquirePut, AcquireUnclear, PutUnclear, PutLease, Claim, CallInv
    <3>3. CASE RenewPut(i) \/ RenewUnclear(i)
      BY <3>1, <3>3 DEF RenewPut, RenewUnclear, PutUnclear, PutLease, Renewal, CallInv, MayClaim,
                        LeaseFile
    <3>4. CASE UNCHANGED remote
      BY <3>4 DEF remote
    <3> QED BY <1>3, <3>2, <3>3, <3>4
            DEF Acquire, AcquireRead, AcquireTaken, AcquireBusy, AcquireConflict,
                Renew, RenewRead, RenewLost, RenewConflict
  <2>3. lease' \in LeaseFile
    BY <1>3, AcquireTypes, RenewTypes DEF TypeOK, GitHubTypes
  <2>4. ASSUME NEW j \in Instance, j # i PROVE CallInv(j)'
    <3>1. Same(j) /\ CallInv(j)
      BY <1>3, <2>4, OthersSame DEF Step, LeaseInv
    <3> QED BY <2>1, <2>2, <2>3, <2>4, <3>1, SameInv, TakeInv
  <2> QED BY <2>1, <2>4 DEF LeaseInv
<1>4. ASSUME NEW i \in Instance, Work(i) PROVE LeaseInv'
  <2>1. CallInv(i)' /\ lease'.at = lease.at /\ lease'.owner = lease.owner /\ now' = now
    BY <1>4, WorkInv
  <2>2. ASSUME NEW j \in Instance, j # i PROVE CallInv(j)'
    BY <1>4, <2>1, <2>2, OthersSame, MarkInv DEF Step, LeaseInv
  <2> QED BY <2>1, <2>2 DEF LeaseInv
<1>5. CASE Tick
  <2>1. now' = now + 1 /\ UNCHANGED <<lease, pc, seen, stamp, heldAt>> /\ now \in Nat
    BY <1>5 DEF Tick, remote, scratch, TypeOK
  <2>2. lease'.at <= now'
    BY <2>1 DEF LeaseInv, TypeOK, GitHubTypes, LeaseFile
  <2>3. ASSUME NEW j \in Instance PROVE CallInv(j)'
    <3>1. /\ CallInv(j) /\ Window \in Nat /\ lease.at \in Nat /\ seen[j].at \in Nat
          /\ stamp[j] \in Nat /\ heldAt[j] \in Nat
      BY LeaseAssumption DEF LeaseAssumption, LeaseInv, TypeOK, GitHubTypes, CallTypes, LeaseFile
    <3> QED BY <2>1, <3>1 DEF CallInv, MayClaim, Fresh
  <2> QED BY <2>2, <2>3 DEF LeaseInv
<1>6. CASE Outside
  <2>1. UNCHANGED <<now, lease>> /\ \A j \in Instance : Same(j)
    BY <1>6, OutsideKeeps DEF Same
  <2> QED BY <2>1, SameInv DEF LeaseInv
<1> QED BY <1>1, <1>2, <1>3, <1>4, <1>5, <1>6 DEF Next, Step, Outside

\* The invariant holds in every reachable state.
LEMMA LeaseInvariant == Spec => [](TypeOK /\ LeaseInv)
<1>1. Init => LeaseInv
  BY LeaseAssumption DEF LeaseAssumption, Init, LeaseInv, CallInv, NoFile
<1> QED BY <1>1, LeaseStep, TypeInvariant, PTL DEF Spec

\* Nobody takes the lease from a working instance whose window is open.
THEOREM LiveLeaseIsExclusive == Spec => []FreshHolderOwns
<1>1. LeaseInv => FreshHolderOwns
  BY DEF LeaseInv, CallInv, FreshHolderOwns
<1> QED BY <1>1, LeaseInvariant, PTL

-----------------------------------------------------------------------------
(* One snapshot per version, unless a publication lapses *)

\* A call that is not publishing and does not begin to, and that gains an open
\* window only under an unfinished lease, keeps the publication invariant.
LEMMA QuietInv ==
  ASSUME TypeOK, PublishInv, NEW i \in Instance,
         \A j \in Instance : j # i => Same(j),
         pc'[i] \notin AfterPublish, pc[i] \in AfterPublish => lapsed' # {},
         lease'.done <=> lease.done, UNCHANGED <<now, snapshots>>, lapsed \subseteq lapsed',
         lease.done => pc'[i] \notin Working \/ (pc[i] \in Working /\ heldAt'[i] = heldAt[i])
  PROVE  PublishInv'
<1> SUFFICES ASSUME lapsed' = {} PROVE PublishInv'
  BY DEF PublishInv
<1>1. lapsed = {}
  OBVIOUS
<1>2. \A j \in Instance : pc'[j] \in AfterPublish => Fresh(j)'
  BY <1>1 DEF PublishInv, Same, Fresh
<1>3. snapshots' > 0 => lease'.done \/ \E j \in Instance : pc'[j] \in AfterPublish
  <2>1. ASSUME NEW j \in Instance, pc[j] \in AfterPublish PROVE j # i /\ pc'[j] \in AfterPublish
    BY <2>1 DEF Same
  <2> QED BY <1>1, <2>1 DEF PublishInv
<1>4. lease'.done => \A j \in Instance : ~(pc'[j] \in Working /\ Fresh(j)')
  BY <1>1 DEF PublishInv, Same, Fresh
<1> QED BY <1>1, <1>2, <1>3, <1>4 DEF PublishInv

\* Acquiring and renewing publish nothing, and succeed only on unfinished leases.
LEMMA LeaseCallsPublishInv ==
  ASSUME TypeOK, LeaseInv, PublishInv, NEW i \in Instance, Acquire(i) \/ Renew(i)
  PROVE  PublishInv'
<1>1. \A j \in Instance : j # i => Same(j)
  BY OthersSame DEF Step
<1>2. UNCHANGED <<now, snapshots, lapsed>>
  BY DEF history, Acquire, AcquireRead, AcquireTaken, AcquireBusy, AcquirePut, AcquireConflict,
         AcquireUnclear, Renew, RenewRead, RenewLost, RenewPut, RenewConflict, RenewUnclear
<1>3. pc[i] \notin AfterPublish /\ pc'[i] \notin AfterPublish
  BY DEF TypeOK, CallTypes, Goto, Return, Acquire, AcquireRead, AcquireTaken, AcquireBusy,
         AcquirePut, AcquireConflict, AcquireUnclear, Renew, RenewRead, RenewLost, RenewPut,
         RenewConflict, RenewUnclear
<1>4. CallInv(i) /\ seen[i] \in LeaseFile
  BY DEF LeaseInv, TypeOK, CallTypes
<1>5. CASE AcquirePut(i) \/ AcquireUnclear(i)
  <2>1. lease'.done <=> lease.done
    BY <1>4, <1>5 DEF AcquirePut, AcquireUnclear, PutUnclear, PutLease, Claim, CallInv, MayClaim
  <2>2. AcquirePut(i) => ~lease.done
    BY <1>4 DEF AcquirePut, PutLease, CallInv, MayClaim
  <2>3. AcquireUnclear(i) => pc'[i] = "idle"
    BY DEF AcquireUnclear, Return, Goto, TypeOK, CallTypes
  <2> QED BY <1>1, <1>2, <1>3, <1>5, <2>1, <2>2, <2>3, QuietInv
<1>6. CASE RenewPut(i) \/ RenewUnclear(i)
  <2>1. lease'.done <=> lease.done
    BY <1>4, <1>6 DEF RenewPut, RenewUnclear, PutUnclear, PutLease, Renewal, CallInv, LeaseFile
  <2>2. RenewPut(i) => ~lease.done
    BY <1>4 DEF RenewPut, PutLease, CallInv
  <2>3. RenewUnclear(i) => pc'[i] = "idle"
    BY DEF RenewUnclear, Return, Goto, TypeOK, CallTypes
  <2> QED BY <1>1, <1>2, <1>3, <1>6, <2>1, <2>2, <2>3, QuietInv
<1>7. CASE AcquireRead(i) \/ AcquireTaken(i) \/ AcquireBusy(i) \/ AcquireConflict(i)
  <2>1. UNCHANGED lease /\ pc'[i] \notin Working
    BY <1>7 DEF TypeOK, CallTypes, Goto, Return, AcquireRead, AcquireTaken, AcquireBusy,
                AcquireConflict, remote
  <2> QED BY <1>1, <1>2, <1>3, <2>1, QuietInv
<1>8. CASE RenewRead(i) \/ RenewLost(i) \/ RenewConflict(i)
  <2>1. /\ UNCHANGED lease
        /\ pc'[i] \notin Working \/ (pc[i] \in Working /\ heldAt'[i] = heldAt[i])
    BY <1>8 DEF TypeOK, CallTypes, Goto, Return, RenewRead, RenewLost, RenewConflict, remote
  <2> QED BY <1>1, <1>2, <1>3, <2>1, QuietInv
<1> QED BY <1>5, <1>6, <1>7, <1>8 DEF Acquire, Renew

\* Preparing, publishing and marking keep the publication invariant: a fresh
\* publisher owns the lease, so nobody published or marked before it.
LEMMA WorkPublishInv ==
  ASSUME TypeOK, LeaseInv, PublishInv, NEW i \in Instance, Work(i)
  PROVE  PublishInv'
<1>1. \A j \in Instance : j # i => Same(j)
  BY OthersSame DEF Step
<1>2. \A j \in Instance : pc[j] \in Working /\ Fresh(j) => lease.owner = j
  BY DEF LeaseInv, CallInv
<1>3. CASE FlushBuffer(i) \/ Prepare(i) \/ PrepareFails(i) \/ Upload(i) \/ CallFails(i)
  <2>1. /\ UNCHANGED <<now, lease, snapshots, lapsed>>
        /\ pc[i] \notin AfterPublish /\ pc'[i] \notin AfterPublish
        /\ pc'[i] \notin Working \/ (pc[i] \in Working /\ heldAt'[i] = heldAt[i])
    BY <1>3 DEF TypeOK, CallTypes, Goto, Return, ContinueAt, remote, history, FlushBuffer, Prepare,
                PrepareFails, Upload, CallFails
  <2> QED BY <1>1, <2>1, QuietInv
<1>4. CASE Publish(i)
  <2> SUFFICES ASSUME lapsed' = {} PROVE PublishInv'
    BY DEF PublishInv
  <2>1. /\ lapsed = {} /\ Fresh(i) /\ pc[i] = "publish" /\ pc'[i] = "openPR"
        /\ UNCHANGED <<now, lease, heldAt>>
    BY <1>4 DEF Publish, Goto, scratch, TypeOK, CallTypes
  <2>2. ~lease.done
    BY <2>1 DEF PublishInv
  <2>3. \A j \in Instance : pc[j] \notin AfterPublish
    BY <1>2, <2>1 DEF PublishInv
  <2>4. snapshots' = 1
    BY <1>4, <2>1, <2>2, <2>3 DEF PublishInv, Publish, MoveBranch, TypeOK, HistoryTypes
  <2> QED BY <1>1, <2>1, <2>2, <2>3, <2>4 DEF PublishInv, Same, Fresh
<1>5. CASE PublishUnclear(i) \/ MarkFails(i)
  BY <1>5 DEF PublishUnclear, MarkFails, PublishInv
<1>6. CASE OpenPR(i) \/ MarkRead(i)
  <2>1. /\ UNCHANGED <<now, lease, heldAt, snapshots, lapsed>>
        /\ pc[i] \in AfterPublish /\ pc'[i] \in AfterPublish
    BY <1>6 DEF OpenPR, MarkRead, Goto, scratch, remote, history, TypeOK, CallTypes
  <2>2. \A j \in Instance : (pc'[j] \in AfterPublish <=> pc[j] \in AfterPublish)
                           /\ (pc'[j] \in Working <=> pc[j] \in Working)
    BY <1>1, <2>1 DEF Same
  <2> QED BY <2>1, <2>2 DEF PublishInv, Fresh
<1>7. CASE MarkPut(i)
  <2> SUFFICES ASSUME lapsed = {} PROVE PublishInv'
    BY <1>7 DEF MarkPut, history, PublishInv
  <2>1. /\ pc[i] = "markPut" /\ pc'[i] = "idle" /\ lease' = Mark(i)
        /\ UNCHANGED <<now, snapshots, lapsed>>
    BY <1>7 DEF MarkPut, PutLease, Finish, Return, Goto, history, TypeOK, CallTypes
  <2>2. lease'.done
    BY <2>1 DEF Mark, TypeOK, CallTypes, LeaseFile
  <2>3. lease.owner = i
    BY <1>2, <2>1 DEF PublishInv
  <2>4. \A j \in Instance : ~(pc'[j] \in Working /\ Fresh(j)')
    BY <1>1, <1>2, <2>1, <2>3 DEF Same, Fresh
  <2>5. \A j \in Instance : pc'[j] \in AfterPublish => Fresh(j)'
    BY <1>1, <2>1 DEF PublishInv, Same, Fresh
  <2> QED BY <2>1, <2>2, <2>4, <2>5 DEF PublishInv
<1> QED BY <1>3, <1>4, <1>5, <1>6, <1>7 DEF Work

\* No step publishes a second snapshot while nothing has lapsed.
LEMMA PublishStep == TypeOK /\ LeaseInv /\ PublishInv /\ [Next]_vars => PublishInv'
<1> SUFFICES ASSUME TypeOK, LeaseInv, PublishInv, [Next]_vars PROVE PublishInv'
  OBVIOUS
<1>1. ASSUME NEW i \in Instance, Begin(i) \/ CheckpointAgain(i) \/ Restart(i) PROVE PublishInv'
  <2>1. \A j \in Instance : j # i => Same(j)
    BY <1>1, OthersSame
  <2>2. /\ UNCHANGED <<now, lease, snapshots>> /\ lapsed \subseteq lapsed'
        /\ pc'[i] \notin Working
        /\ pc[i] \in AfterPublish => lapsed' # {}
    BY <1>1 DEF Begin, CheckpointAgain, Restart, Return, Goto, remote, history, TypeOK, CallTypes
  <2> QED BY <2>1, <2>2, QuietInv
<1>2. ASSUME NEW i \in Instance, Step(i) PROVE PublishInv'
  BY <1>2, LeaseCallsPublishInv, WorkPublishInv DEF Step
<1>3. CASE Tick
  <2> SUFFICES ASSUME lapsed' = {} PROVE PublishInv'
    BY DEF PublishInv
  <2>1. lapsed = {} /\ now' = now + 1 /\ UNCHANGED <<lease, pc, heldAt, snapshots>>
    BY <1>3 DEF Tick, remote, scratch
  <2>2. \A j \in Instance : now \in Nat /\ Window \in Nat /\ heldAt[j] \in Nat
    BY LeaseAssumption DEF LeaseAssumption, TypeOK, CallTypes
  <2>3. \A j \in Instance : pc'[j] \in AfterPublish => Fresh(j)'
    BY <1>3, <2>1, <2>2 DEF Tick, Fresh
  <2>4. \A j \in Instance : Fresh(j)' => Fresh(j)
    BY <2>1, <2>2 DEF Fresh
  <2> QED BY <2>1, <2>3, <2>4 DEF PublishInv
<1>4. CASE Outside
  BY <1>4, OutsideKeeps DEF PublishInv, Fresh
<1> QED BY <1>1, <1>2, <1>3, <1>4 DEF Next, Outside

\* A version is published twice only after some publication lapsed.
THEOREM SecondSnapshotNeedsLapse == Spec => []SnapshotOnceInWindow
<1>1. Init => PublishInv
  BY DEF Init, PublishInv
<1>2. PublishInv => SnapshotOnceInWindow
  BY DEF PublishInv, SnapshotOnceInWindow
<1> QED BY <1>1, <1>2, PublishStep, LeaseInvariant, PTL DEF Spec

-----------------------------------------------------------------------------
(* The file protocol implements the atomic lock *)

\* The three things a step can do to the lease file.
LEMMA LeaseChanges ==
  ASSUME TypeOK, LeaseInv, [Next]_vars
  PROVE  \/ UNCHANGED lease
         \/ /\ UNCHANGED now
            /\ \E i \in Instance : /\ MayClaim(i, lease)
                                   /\ lease'.owner = i
                                   /\ lease'.at \in 0 .. now
                                   /\ ~lease'.done
         \/ /\ UNCHANGED now /\ lease.owner # None
            /\ lease'.done /\ lease'.owner = lease.owner /\ lease'.at = lease.at
<1>1. ASSUME NEW i \in Instance PROVE CallInv(i) /\ seen[i] \in LeaseFile /\ stamp[i] \in Nat /\ now \in Nat
  BY DEF LeaseInv, TypeOK, CallTypes
<1>2. ASSUME NEW i \in Instance, AcquirePut(i) \/ AcquireUnclear(i), lease' # lease
      PROVE  /\ UNCHANGED now /\ MayClaim(i, lease)
             /\ lease'.owner = i /\ lease'.at \in 0 .. now /\ ~lease'.done
  <2>1. MayClaim(i, lease) /\ lease' = Claim(i) /\ UNCHANGED now
    BY <1>1, <1>2 DEF AcquirePut, AcquireUnclear, PutUnclear, PutLease, CallInv
  <2> QED BY <1>1, <2>1 DEF Claim, CallInv
<1>3. ASSUME NEW i \in Instance, RenewPut(i) \/ RenewUnclear(i), lease' # lease
      PROVE  /\ UNCHANGED now /\ MayClaim(i, lease)
             /\ lease'.owner = i /\ lease'.at \in 0 .. now /\ ~lease'.done
  <2>1. ~lease.done /\ lease.owner = i /\ lease = seen[i] /\ lease' = Renewal(i) /\ UNCHANGED now
    BY <1>1, <1>3 DEF RenewPut, RenewUnclear, PutUnclear, PutLease, CallInv
  <2>2. lease'.owner = i /\ lease'.at = stamp[i] /\ ~lease'.done
    BY <1>1, <2>1 DEF Renewal, LeaseFile
  <2> QED BY <1>1, <2>1, <2>2 DEF MayClaim, CallInv
<1>4. ASSUME NEW i \in Instance, MarkPut(i)
      PROVE  /\ UNCHANGED now /\ lease.owner # None
             /\ lease'.done /\ lease'.owner = lease.owner /\ lease'.at = lease.at
  <2>1. lease = seen[i] /\ lease' = Mark(i) /\ UNCHANGED now /\ lease.owner # None
    BY <1>1, <1>4 DEF MarkPut, PutLease, CallInv
  <2> QED BY <1>1, <2>1 DEF Mark, LeaseFile
<1>5. CASE Outside \/ Tick \/ \E i \in Instance : Begin(i) \/ CheckpointAgain(i) \/ Restart(i)
  BY <1>5, OutsideKeeps DEF remote, Tick, Begin, CheckpointAgain, Restart
<1>6. ASSUME NEW i \in Instance, Acquire(i), UNCHANGED lease \/ ~(AcquirePut(i) \/ AcquireUnclear(i))
      PROVE  UNCHANGED lease
  BY <1>6 DEF remote, Acquire, AcquireRead, AcquireTaken, AcquireBusy, AcquireConflict
<1>7. ASSUME NEW i \in Instance, Renew(i), UNCHANGED lease \/ ~(RenewPut(i) \/ RenewUnclear(i))
      PROVE  UNCHANGED lease
  BY <1>7 DEF remote, Renew, RenewRead, RenewLost, RenewConflict
<1>8. ASSUME NEW i \in Instance, Work(i), ~MarkPut(i) PROVE UNCHANGED lease
  BY <1>8 DEF remote, Work, FlushBuffer, Prepare, PrepareFails, Upload, CallFails, Publish,
              PublishUnclear, OpenPR, MarkRead, MarkFails
<1> QED BY <1>2, <1>3, <1>4, <1>5, <1>6, <1>7, <1>8 DEF Next, Step, Outside

\* No step changes the clock and the lease file together.
LEMMA ClockOrLease ==
  ASSUME TypeOK, [Next]_vars
  PROVE  UNCHANGED now \/ (now' = now + 1 /\ UNCHANGED lease)
<1>1. CASE Outside \/ Tick \/ \E i \in Instance : Begin(i) \/ CheckpointAgain(i) \/ Restart(i)
  BY <1>1, OutsideKeeps DEF remote, Tick, Begin, CheckpointAgain, Restart
<1>2. ASSUME NEW i \in Instance, Step(i) PROVE UNCHANGED now
  BY <1>2 DEF Step, Acquire, AcquireRead, AcquireTaken, AcquireBusy, AcquirePut, AcquireConflict,
              AcquireUnclear, Renew, RenewRead, RenewLost, RenewPut, RenewConflict, RenewUnclear,
              Work, FlushBuffer, Prepare, PrepareFails, Upload, CallFails, Publish,
              PublishUnclear, OpenPR, MarkRead, MarkPut, MarkFails
<1> QED BY <1>1, <1>2 DEF Next, Outside

\* A completed lease is final: every writer that read it earlier loses the swap.
THEOREM DoneLeaseIsFinal == Spec => DoneIsFinal
<1>1. TypeOK /\ LeaseInv /\ [Next]_vars
        => (lease.done => lease'.done /\ lease'.owner = lease.owner /\ lease'.at = lease.at)
  BY LeaseChanges DEF MayClaim
<1>2. TypeOK /\ LeaseInv /\ [Next]_vars
        => [lease.done => lease'.done /\ lease'.owner = lease.owner /\ lease'.at = lease.at]_vars
  BY <1>1
<1> QED BY <1>2, LeaseInvariant, PTL DEF Spec, DoneIsFinal

\* Read, compare and swap on a file amount to the atomic lock of LeaseLock.
THEOREM LeaseImplementsLock == Spec => ImplementsLock
<1>1. Init => Lock!Init
  BY DEF Init, NoFile, Lock!Init
<1>2. TypeOK /\ LeaseInv /\ [Next]_vars => [Lock!Next]_Lock!vars
  <2> SUFFICES ASSUME TypeOK, LeaseInv, [Next]_vars PROVE [Lock!Next]_Lock!vars
    OBVIOUS
  <2>1. CASE UNCHANGED lease
    BY <2>1, ClockOrLease DEF Lock!vars, Lock!Next, Lock!Tick
  <2>2. ASSUME NEW i \in Instance, UNCHANGED now, MayClaim(i, lease), lease'.owner = i,
               lease'.at \in 0 .. now, ~lease'.done
        PROVE  Lock!Take(i)
    <3>1. lease'.done = lease.done
      <4>1. lease' \in LeaseFile /\ lease \in LeaseFile
        BY AcquireTypes, RenewTypes, WorkTypes, OtherTypes DEF Next, Step, Outside, TypeOK, GitHubTypes
      <4> QED BY <2>2, <4>1 DEF MayClaim, LeaseFile
    <3> QED BY <2>2, <3>1 DEF MayClaim, Lock!Take, Lock!Expired
  <2>3. ASSUME UNCHANGED now, lease.owner # None,
               lease'.done, lease'.owner = lease.owner, lease'.at = lease.at
        PROVE  Lock!Complete
    <3>1. lease'.done = TRUE
      <4>1. lease' \in LeaseFile
        BY AcquireTypes, RenewTypes, WorkTypes, OtherTypes DEF Next, Step, Outside, TypeOK, GitHubTypes
      <4> QED BY <2>3, <4>1 DEF LeaseFile
    <3> QED BY <2>3, <3>1 DEF Lock!Complete
  <2> QED BY <2>1, <2>2, <2>3, LeaseChanges DEF Lock!Next
<1> QED BY <1>1, <1>2, LeaseInvariant, PTL DEF Spec, ImplementsLock, Lock!Spec

-----------------------------------------------------------------------------
(* A done lease and a switch to the next version rest on a snapshot *)

\* The branch, once it carries a snapshot, always carries one.
LEMMA BranchKept ==
  ASSUME TypeOK, [Next]_vars, branch \in Instance
  PROVE  branch' \in Instance
<1>1. CASE Outside \/ Tick \/ \E i \in Instance : Begin(i) \/ CheckpointAgain(i) \/ Restart(i)
  BY <1>1, OutsideKeeps DEF remote, Tick, Begin, CheckpointAgain, Restart
<1>2. ASSUME NEW i \in Instance, Acquire(i) \/ Renew(i) PROVE branch' = branch
  BY <1>2 DEF remote, Acquire, AcquireRead, AcquireTaken, AcquireBusy, AcquirePut, AcquireConflict,
              AcquireUnclear, Renew, RenewRead, RenewLost, RenewPut, RenewConflict, RenewUnclear
<1>3. ASSUME NEW i \in Instance, Work(i) PROVE branch' \in {branch, i}
  BY <1>3, LeaseAssumption
     DEF LeaseAssumption, remote, Work, FlushBuffer, Prepare, PrepareFails, Upload, CallFails,
         Publish, PublishUnclear, OpenPR, MarkRead, MarkPut, MarkFails, SnapshotBranch, MoveBranch
<1> QED BY <1>1, <1>2, <1>3 DEF Next, Step, Outside

\* Every step that marks, reports or starts a publication follows a published one.
LEMMA SnapshotStep == TypeOK /\ LeaseInv /\ SnapshotInv /\ [Next]_vars => SnapshotInv'
<1> SUFFICES ASSUME TypeOK, LeaseInv, SnapshotInv, [Next]_vars, branch' \notin Instance
             PROVE  /\ ~lease'.done /\ nextDir' # "listed"
                    /\ \A j \in Instance : pc'[j] \notin AfterPublish /\ ~nextVerExists'[j]
  BY DEF SnapshotInv
<1>1. /\ ~lease.done /\ nextDir # "listed"
      /\ \A j \in Instance : pc[j] \notin AfterPublish /\ ~nextVerExists[j]
  BY BranchKept DEF SnapshotInv
<1>2. CASE Outside \/ Tick
  <2>1. UNCHANGED <<lease, pc, nextDir, nextVerExists>>
    BY <1>1, <1>2 DEF Outside, NextVersion, PollFindsNext, WriteNext, vars, remote, local, Tick
  <2> QED BY <1>1, <2>1
<1>3. ASSUME NEW i \in Instance, Begin(i) \/ CheckpointAgain(i) \/ Restart(i)
      PROVE  /\ UNCHANGED <<lease, nextDir>> /\ pc'[i] \notin AfterPublish /\ ~nextVerExists'[i]
             /\ \A j \in Instance : nextVerExists'[j] \/ j # i => nextVerExists'[j] = nextVerExists[j]
  BY <1>1, <1>3 DEF TypeOK, CallTypes, LocalTypes, Begin, CheckpointAgain, Restart, Return, Goto, remote, local
<1>4. ASSUME NEW i \in Instance, Acquire(i) \/ Renew(i)
      PROVE  pc'[i] \notin AfterPublish /\ UNCHANGED <<nextDir, nextVerExists>>
  BY <1>1, <1>4 DEF TypeOK, CallTypes, remote, local, Goto, Return, Acquire, AcquireRead, AcquireTaken,
         AcquireBusy, AcquirePut, AcquireConflict, AcquireUnclear, Renew, RenewRead, RenewLost,
         RenewPut, RenewConflict, RenewUnclear
<1>5. ASSUME NEW i \in Instance, Work(i)
      PROVE  pc'[i] \notin AfterPublish /\ UNCHANGED <<lease, nextDir, nextVerExists>>
  BY <1>1, <1>5 DEF TypeOK, CallTypes, remote, local, Goto, Return, ContinueAt, Work, FlushBuffer,
         Prepare, PrepareFails, Upload, CallFails, Publish, PublishUnclear, MoveBranch, OpenPR,
         MarkRead, MarkPut, MarkFails
<1>6. ASSUME NEW i \in Instance, Acquire(i) \/ Renew(i) PROVE ~lease'.done
  <2>1. ~MarkPut(i) /\ (AcquirePut(i) \/ AcquireUnclear(i) \/ RenewPut(i) \/ RenewUnclear(i) \/ UNCHANGED lease)
    BY <1>1, <1>6 DEF MarkPut, remote, Acquire, AcquireRead, AcquireTaken, AcquireBusy,
           AcquireConflict, Renew, RenewRead, RenewLost, RenewConflict
  <2>2. seen[i] \in LeaseFile /\ CallInv(i)
    BY DEF LeaseInv, TypeOK, CallTypes
  <2> QED BY <1>1, <2>1, <2>2 DEF AcquirePut, AcquireUnclear, RenewPut, RenewUnclear, PutUnclear,
             PutLease, Claim, Renewal, CallInv, LeaseFile
<1>7. ASSUME NEW i \in Instance, NEW j \in Instance, j # i,
             Begin(i) \/ CheckpointAgain(i) \/ Step(i) \/ Restart(i)
      PROVE  pc'[j] = pc[j]
  BY <1>7, OthersSame DEF Same
<1> QED BY <1>1, <1>2, <1>3, <1>4, <1>5, <1>6, <1>7 DEF Next, Step, Outside

\* A lease marked done stands on a published snapshot.
THEOREM DoneLeaseHasSnapshot == Spec => []DoneHasSnapshot
<1>1. Init => SnapshotInv
  BY DEF Init, NoFile, SnapshotInv
<1>2. SnapshotInv => DoneHasSnapshot
  BY DEF SnapshotInv, DoneHasSnapshot
<1> QED BY <1>1, <1>2, SnapshotStep, LeaseInvariant, PTL DEF Spec

\* An instance leaves version N only once a snapshot of N+1 is published.
THEOREM SwitchedVersionHasSnapshot == Spec => []NextVersionHasSnapshot
<1>1. Init => SnapshotInv
  BY DEF Init, NoFile, SnapshotInv
<1>2. SnapshotInv => NextVersionHasSnapshot
  BY DEF SnapshotInv, NextVersionHasSnapshot
<1> QED BY <1>1, <1>2, SnapshotStep, LeaseInvariant, PTL DEF Spec
=============================================================================
