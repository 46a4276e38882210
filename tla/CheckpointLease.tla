--------------------------- MODULE CheckpointLease ---------------------------
(***************************************************************************)
(* Checkpoint() of ghdb/base/checkpoint.go, run by several instances of    *)
(* one database that share one delta branch.                               *)
(*                                                                         *)
(* The right to snapshot version N+1 is a lease file on the delta branch.  *)
(* Every access is one GitHub call: GetFile returns the content with its   *)
(* blob SHA, PutFile succeeds only if the SHA it carries is the file's     *)
(* current one.  A blob SHA is a function of the content, so a read keeps  *)
(* the content in seen[i] and a write compares it with the file.           *)
(*                                                                         *)
(* One step of the model is one call to GitHub or one local section of     *)
(* Checkpoint.  A call may fail with or without having taken effect (the   *)
(* response is lost or the 30 s request timeout strikes), and a process    *)
(* may crash between any two steps and start again under the same          *)
(* instance id.  The clocks of the instances are synchronised, as the      *)
(* README requires; time is the one variable now.                          *)
(***************************************************************************)
EXTENDS Integers

CONSTANTS Instance,      \* the processes, named by their instance id
          None,          \* no instance
          Window,        \* Option.CheckpointLease
          MaxAttempts,   \* tries of acquireCheckpointLease, 3 in the code
          MaxTime        \* bound of the clock, for model checking only

ASSUME LeaseAssumption == /\ None \notin Instance
                          /\ "absent" \notin Instance   \* no snapshot branch yet
                          /\ "source" \notin Instance   \* created, no snapshot on it
                          /\ Window \in Nat \ {0}
                          /\ MaxAttempts \in Nat \ {0}
                          /\ MaxTime \in Nat

VARIABLES
  now,              \* the clock
  \* ------------------------------------------------------ kept on GitHub
  lease,            \* content of _checkpoint/v<N+1>.lease
  branch,           \* tip of ghdb-ckpt-<name>-v<N+1>
  pulls,            \* the instances that opened a pull request for it
  nextDir,          \* whether the delta branch lists a segment of version N+1
  \* ------------------------------------------- memory of each instance
  pc,               \* next step of the instance's Checkpoint call
  attempt,          \* tries of the acquire loop so far
  seen,             \* lease content (and so SHA) of the last GetFile
  stamp,            \* AcquiredAt the next PutFile carries
  heldAt,           \* AcquiredAt of the last successful PutFile
  after,            \* where Checkpoint continues after the renewal
  result,           \* what the last call returned
  hasCheckpointed,  \* baseDB.hasCheckpointed
  nextVerExists,    \* baseDB.nextVerExists, with writeVer = N+1
  \* -------------------------------------------------------------- history
  snapshots,        \* 0, 1 or 2 for none, one or several published commits
  lapsed            \* whose publication outlived its lease or was not recorded

remote  == <<lease, branch, pulls, nextDir>>
scratch == <<attempt, seen, stamp, heldAt, after>>
local   == <<hasCheckpointed, nextVerExists>>
history == <<snapshots, lapsed>>
vars    == <<now, remote, pc, scratch, result, local, history>>

-----------------------------------------------------------------------------
(* The state space *)

LeaseFile == [owner : Instance \cup {None}, at : Nat, done : BOOLEAN,
              snapshot : Instance \cup {None}]

\* The lease before anybody created it.
NoFile == [owner |-> None, at |-> 0, done |-> FALSE, snapshot |-> None]

\* Steps of a call between a successful acquire and its end.
BeforePublish == {"flush", "renewRead", "renewPut", "prepare", "upload", "publish"}
AfterPublish  == {"openPR", "markRead", "markPut"}
Working       == BeforePublish \cup AfterPublish

Steps == {"idle", "acquireRead", "acquirePut"} \cup Working

Results == {"none", "ok", "taken", "busy", "failed", "rejected"}

\* The window of i's last successful write of the lease is not over.
Fresh(i) == now - heldAt[i] < Window

GitHubTypes == /\ lease \in LeaseFile
               /\ branch \in Instance \cup {"absent", "source"}
               /\ pulls \subseteq Instance
               /\ nextDir \in {"absent", "listed"}

CallTypes == /\ pc \in [Instance -> Steps]
             /\ attempt \in [Instance -> 1 .. MaxAttempts]
             /\ seen \in [Instance -> LeaseFile]
             /\ stamp \in [Instance -> Nat]
             /\ heldAt \in [Instance -> Nat]
             /\ after \in [Instance -> {"prepare", "upload", "publish"}]
             /\ result \in [Instance -> Results]

LocalTypes == /\ hasCheckpointed \in [Instance -> BOOLEAN]
              /\ nextVerExists \in [Instance -> BOOLEAN]

HistoryTypes == /\ snapshots \in 0 .. 2
                /\ lapsed \subseteq Instance

TypeOK == now \in Nat /\ GitHubTypes /\ CallTypes /\ LocalTypes /\ HistoryTypes

Init ==
  /\ now = 0
  /\ lease = NoFile
  /\ branch = "absent"
  /\ pulls = {}
  /\ nextDir = "absent"
  /\ pc = [i \in Instance |-> "idle"]
  /\ attempt = [i \in Instance |-> 1]
  /\ seen = [i \in Instance |-> NoFile]
  /\ stamp = [i \in Instance |-> 0]
  /\ heldAt = [i \in Instance |-> 0]
  /\ after = [i \in Instance |-> "prepare"]
  /\ result = [i \in Instance |-> "none"]
  /\ hasCheckpointed = [i \in Instance |-> FALSE]
  /\ nextVerExists = [i \in Instance |-> FALSE]
  /\ snapshots = 0
  /\ lapsed = {}

-----------------------------------------------------------------------------
(* Control flow and the GitHub calls on the lease file *)

Goto(i, step) == pc' = [pc EXCEPT ![i] = step]

\* The call's local variables go out of scope.
Return(i, outcome) == /\ Goto(i, "idle")
                      /\ result' = [result EXCEPT ![i] = outcome]
                      /\ attempt' = [attempt EXCEPT ![i] = 1]
                      /\ seen' = [seen EXCEPT ![i] = NoFile]
                      /\ stamp' = [stamp EXCEPT ![i] = 0]
                      /\ heldAt' = [heldAt EXCEPT ![i] = 0]
                      /\ after' = [after EXCEPT ![i] = "prepare"]

\* GetFile: the instance keeps what it read for the compare-and-swap.
GetLease(i) == seen' = [seen EXCEPT ![i] = lease]

\* A read is used by one write only.
Forget(i) == seen' = [seen EXCEPT ![i] = NoFile]

\* Mutant: a PutFile that ignores the SHA it is given.
PutLeaseBlind(i, content) == lease' = content

\* PutFile takes effect: the SHA read before is still the file's SHA.
PutLease(i, content) == /\ lease = seen[i]
                        /\ lease' = content

\* PutFile reports an error that is no conflict; it may have taken effect.
PutUnclear(i, content) == PutLease(i, content) \/ UNCHANGED lease

Claim(i)   == [owner |-> i, at |-> stamp[i], done |-> FALSE, snapshot |-> None]
Renewal(i) == [seen[i] EXCEPT !.at = stamp[i]]
Mark(i)    == [seen[i] EXCEPT !.done = TRUE, !.snapshot = i]

-----------------------------------------------------------------------------
(* Checkpoint: entry and acquireCheckpointLease *)

\* Take ckptMu, stamp the lease once for all attempts.
Begin(i) ==
  /\ pc[i] = "idle"
  /\ ~hasCheckpointed[i]
  /\ Goto(i, "acquireRead")
  /\ stamp' = [stamp EXCEPT ![i] = now]
  /\ result' = [result EXCEPT ![i] = "none"]
  /\ UNCHANGED <<now, remote, attempt, seen, heldAt, after, local, history>>

\* After a success only a restart allows another checkpoint.
CheckpointAgain(i) ==
  /\ pc[i] = "idle"
  /\ hasCheckpointed[i]
  /\ Return(i, "rejected")
  /\ UNCHANGED <<now, remote, local, history>>

\* Mutant: acquire does not look at the age of the lease.
MayClaimEarly(i, file) == ~file.done

\* Mutant: acquire does not look at the done flag.
MayClaimDone(i, file) == file.owner \in {None, i} \/ now - file.at >= Window

MayClaim(i, file) == /\ ~file.done
                     /\ file.owner \in {None, i} \/ now - file.at >= Window

AcquireRead(i) ==
  /\ pc[i] = "acquireRead"
  /\ MayClaim(i, lease)
  /\ GetLease(i)
  /\ Goto(i, "acquirePut")
  /\ UNCHANGED <<now, remote, attempt, stamp, heldAt, after, result, local, history>>

\* ErrCheckpointTaken: the instance moves its writes to version N+1.
AcquireTaken(i) ==
  /\ pc[i] = "acquireRead"
  /\ lease.done
  /\ nextVerExists' = [nextVerExists EXCEPT ![i] = TRUE]
  /\ Return(i, "taken")
  /\ UNCHANGED <<now, remote, hasCheckpointed, history>>

\* Mutant: ErrCheckpointBusy switches the version as ErrCheckpointTaken does.
AcquireBusySwitches(i) ==
  /\ pc[i] = "acquireRead"
  /\ ~lease.done
  /\ ~MayClaim(i, lease)
  /\ nextVerExists' = [nextVerExists EXCEPT ![i] = TRUE]
  /\ Return(i, "busy")
  /\ UNCHANGED <<now, remote, hasCheckpointed, history>>

AcquireBusy(i) ==
  /\ pc[i] = "acquireRead"
  /\ ~lease.done
  /\ ~MayClaim(i, lease)
  /\ Return(i, "busy")
  /\ UNCHANGED <<now, remote, local, history>>

AcquirePut(i) ==
  /\ pc[i] = "acquirePut"
  /\ PutLease(i, Claim(i))
  /\ heldAt' = [heldAt EXCEPT ![i] = stamp[i]]
  /\ Forget(i)
  /\ Goto(i, "flush")
  /\ UNCHANGED <<now, branch, pulls, nextDir, attempt, stamp, after, result, local, history>>

\* Mutant: the acquire loop has no bound.
AcquireConflictUnbounded(i) ==
  /\ pc[i] = "acquirePut"
  /\ attempt' = [attempt EXCEPT ![i] = @ + 1]
  /\ Forget(i)
  /\ Goto(i, "acquireRead")
  /\ UNCHANGED <<now, remote, stamp, heldAt, after, result, local, history>>

\* Mutant: a lost swap is no attempt.
AcquireConflictUncounted(i) ==
  /\ pc[i] = "acquirePut"
  /\ Forget(i)
  /\ Goto(i, "acquireRead")
  /\ UNCHANGED <<now, remote, attempt, stamp, heldAt, after, result, local, history>>

(***************************************************************************)
(* HTTP 409 or 422.  GitHub also answers 409 when another commit moves the *)
(* branch head meanwhile, so a conflict needs no competing lease write.    *)
(***************************************************************************)
AcquireConflict(i) ==
  /\ pc[i] = "acquirePut"
  /\ \/ /\ attempt[i] < MaxAttempts
        /\ attempt' = [attempt EXCEPT ![i] = @ + 1]
        /\ Forget(i)
        /\ Goto(i, "acquireRead")
        /\ UNCHANGED <<stamp, heldAt, after, result>>
     \/ /\ attempt[i] = MaxAttempts
        /\ Return(i, "busy")
  /\ UNCHANGED <<now, remote, local, history>>

AcquireUnclear(i) ==
  /\ pc[i] = "acquirePut"
  /\ PutUnclear(i, Claim(i))
  /\ Return(i, "failed")
  /\ UNCHANGED <<now, branch, pulls, nextDir, local, history>>

-----------------------------------------------------------------------------
(* Checkpoint: the work, with a renewal before each long step *)

ContinueAt(i, step) == /\ Goto(i, "renewRead")
                       /\ after' = [after EXCEPT ![i] = step]

\* Drain the write buffer; what that does is modelled in DeltaFlush.
FlushBuffer(i) ==
  /\ pc[i] = "flush"
  /\ ContinueAt(i, "prepare")
  /\ UNCHANGED <<now, remote, attempt, seen, stamp, heldAt, result, local, history>>

RenewRead(i) ==
  /\ pc[i] = "renewRead"
  /\ ~lease.done
  /\ lease.owner = i
  /\ GetLease(i)
  /\ stamp' = [stamp EXCEPT ![i] = now]
  /\ Goto(i, "renewPut")
  /\ UNCHANGED <<now, remote, attempt, heldAt, after, result, local, history>>

\* Another instance completed the version, or took the lease over.
RenewLost(i) ==
  /\ pc[i] = "renewRead"
  /\ \/ lease.done /\ Return(i, "taken")
     \/ ~lease.done /\ lease.owner # i /\ Return(i, "busy")
  /\ UNCHANGED <<now, remote, local, history>>

RenewPut(i) ==
  /\ pc[i] = "renewPut"
  /\ PutLease(i, Renewal(i))
  /\ heldAt' = [heldAt EXCEPT ![i] = stamp[i]]
  /\ Forget(i)
  /\ Goto(i, after[i])
  /\ UNCHANGED <<now, branch, pulls, nextDir, attempt, stamp, after, result, local, history>>

RenewConflict(i) ==
  /\ pc[i] = "renewPut"
  /\ Return(i, "busy")
  /\ UNCHANGED <<now, remote, local, history>>

RenewUnclear(i) ==
  /\ pc[i] = "renewPut"
  /\ PutUnclear(i, Renewal(i))
  /\ Return(i, "failed")
  /\ UNCHANGED <<now, branch, pulls, nextDir, local, history>>

\* The snapshot branch is created at the source branch, or an older one reused.
SnapshotBranch == IF branch = "absent" THEN "source" ELSE branch

\* Snapshot the data and prepare its branch.
Prepare(i) ==
  /\ pc[i] = "prepare"
  /\ branch' = SnapshotBranch
  /\ ContinueAt(i, "upload")
  /\ UNCHANGED <<now, lease, pulls, nextDir, attempt, seen, stamp, heldAt, result, local, history>>

PrepareFails(i) ==
  /\ pc[i] = "prepare"
  /\ branch' \in {branch, SnapshotBranch}
  /\ Return(i, "failed")
  /\ UNCHANGED <<now, lease, pulls, nextDir, local, history>>

\* CreateTree and signing leave nothing behind that a reader of the branch sees.
Upload(i) ==
  /\ pc[i] = "upload"
  /\ ContinueAt(i, "publish")
  /\ UNCHANGED <<now, remote, attempt, seen, stamp, heldAt, result, local, history>>

\* A call without a lasting effect fails and ends Checkpoint with its error.
CallFails(i) ==
  /\ pc[i] \in {"acquireRead", "flush", "renewRead", "upload", "publish"}
  /\ Return(i, "failed")
  /\ UNCHANGED <<now, remote, local, history>>

-----------------------------------------------------------------------------
(* Checkpoint: publication, pull request and the done mark *)

\* CreateCommit and the forced UpdateRef: the branch now carries i's snapshot.
MoveBranch(i) == /\ branch' = i
                 /\ snapshots' = IF snapshots = 0 THEN 1 ELSE 2

Publish(i) ==
  /\ pc[i] = "publish"
  /\ MoveBranch(i)
  /\ lapsed' = lapsed \cup {j \in {i} : ~Fresh(j)}
  /\ Goto(i, "openPR")
  /\ UNCHANGED <<now, lease, pulls, nextDir, scratch, result, local>>

\* Mutant: an UpdateRef that failed is logged and ignored.
PublishErrorIgnored(i) ==
  /\ pc[i] = "publish"
  /\ Goto(i, "openPR")
  /\ UNCHANGED <<now, remote, scratch, result, local, history>>

\* The branch moved but the response is lost: Checkpoint returns the error.
PublishUnclear(i) ==
  /\ pc[i] = "publish"
  /\ MoveBranch(i)
  /\ lapsed' = lapsed \cup {i}
  /\ Return(i, "failed")
  /\ UNCHANGED <<now, lease, pulls, nextDir, local>>

\* A failure to open the pull request is logged and ignored.
OpenPR(i) ==
  /\ pc[i] = "openPR"
  /\ pulls' \in {pulls, pulls \cup {i}}
  /\ Goto(i, "markRead")
  /\ UNCHANGED <<now, lease, branch, nextDir, scratch, result, local, history>>

\* The end of a successful Checkpoint: writes go to version N+1 from now on.
Finish(i) ==
  /\ nextVerExists' = [nextVerExists EXCEPT ![i] = TRUE]
  /\ hasCheckpointed' = [hasCheckpointed EXCEPT ![i] = TRUE]
  /\ Return(i, "ok")

\* markCheckpointLeaseDone looks at neither the owner nor the done flag it reads.
MarkRead(i) ==
  /\ pc[i] = "markRead"
  /\ GetLease(i)
  /\ Goto(i, "markPut")
  /\ UNCHANGED <<now, remote, attempt, stamp, heldAt, after, result, local, history>>

MarkPut(i) ==
  /\ pc[i] = "markPut"
  /\ PutLease(i, Mark(i))
  /\ Finish(i)
  /\ UNCHANGED <<now, branch, pulls, nextDir, history>>

\* Its failures are logged and ignored as well.
MarkFails(i) ==
  /\ pc[i] \in {"markRead", "markPut"}
  /\ lapsed' = lapsed \cup {i}
  /\ Finish(i)
  /\ UNCHANGED <<now, remote, snapshots>>

-----------------------------------------------------------------------------
(* The rest of the process, crashes and time *)

\* The poller finds the first segment of version N+1.
PollFindsNext(i) ==
  /\ ~nextVerExists[i]
  /\ nextDir = "listed"
  /\ nextVerExists' = [nextVerExists EXCEPT ![i] = TRUE]
  /\ UNCHANGED <<now, remote, pc, scratch, result, hasCheckpointed, history>>

\* A flush of an instance that has switched writes the first segment there.
WriteNext(i) ==
  /\ nextVerExists[i]
  /\ nextDir' = "listed"
  /\ UNCHANGED <<now, lease, branch, pulls, pc, scratch, result, local, history>>

\* The process dies and starts again with the same id, before any PR is merged.
Restart(i) ==
  /\ Return(i, "none")
  /\ hasCheckpointed' = [hasCheckpointed EXCEPT ![i] = FALSE]
  /\ nextVerExists' = [nextVerExists EXCEPT ![i] = (nextDir = "listed")]
  /\ lapsed' = lapsed \cup {j \in {i} : pc[j] \in AfterPublish}
  /\ UNCHANGED <<now, remote, snapshots>>

\* A publication lapses if its lease window ends before it is marked done.
Tick ==
  /\ now < MaxTime
  /\ now' = now + 1
  /\ lapsed' = lapsed \cup {i \in Instance : pc[i] \in AfterPublish
                                          /\ now + 1 - heldAt[i] >= Window}
  /\ UNCHANGED <<remote, pc, scratch, result, local, snapshots>>

\* The steps of a running call.
Acquire(i) == \/ AcquireRead(i) \/ AcquireTaken(i) \/ AcquireBusy(i)
              \/ AcquirePut(i) \/ AcquireConflict(i) \/ AcquireUnclear(i)

Renew(i) == \/ RenewRead(i) \/ RenewLost(i)
            \/ RenewPut(i) \/ RenewConflict(i) \/ RenewUnclear(i)

Work(i) == \/ FlushBuffer(i) \/ Prepare(i) \/ PrepareFails(i) \/ Upload(i) \/ CallFails(i)
           \/ Publish(i) \/ PublishUnclear(i) \/ OpenPR(i)
           \/ MarkRead(i) \/ MarkPut(i) \/ MarkFails(i)

Step(i) == Acquire(i) \/ Renew(i) \/ Work(i)

NextVersion(i) == PollFindsNext(i) \/ WriteNext(i)

Next == \/ \E i \in Instance : \/ Begin(i) \/ CheckpointAgain(i) \/ Step(i)
                             \/ NextVersion(i) \/ Restart(i)
        \/ Tick

Spec == Init /\ [][Next]_vars

\* Every GitHub request ends, with an answer or with its timeout (client.go).
FairSpec == Spec /\ \A i \in Instance : WF_vars(Step(i))

-----------------------------------------------------------------------------
(* Properties *)

(***************************************************************************)
(* While the window of an instance's own lease write is open and its call  *)
(* is at work, the lease file is still exactly that write: nobody takes a  *)
(* live lease over, whatever reads and writes interleave.  Two instances   *)
(* with open windows therefore never work at the same time.                *)
(***************************************************************************)
FreshHolderOwns ==
  \A i \in Instance :
    pc[i] \in Working /\ Fresh(i) => lease.owner = i /\ lease.at = heldAt[i]

(***************************************************************************)
(* A version is published twice only if some publication outlived the      *)
(* window of its lease or was never recorded as done.                      *)
(***************************************************************************)
SnapshotOnceInWindow == lapsed = {} => snapshots <= 1

\* A lease marked done, which ends every later checkpoint of the version with
\* ErrCheckpointTaken, always stands on a published snapshot.
DoneHasSnapshot == lease.done => branch \in Instance

\* An instance moves its writes to version N+1 only when a snapshot of it exists.
NextVersionHasSnapshot == \A i \in Instance : nextVerExists[i] => branch \in Instance

\* Once done, a lease keeps its owner and stamp and is never reopened, not even
\* by an instance that read it before it was done.
DoneIsFinal == [][lease.done => /\ lease'.done
                                /\ lease'.owner = lease.owner
                                /\ lease'.at = lease.at]_vars

\* The file-SHA protocol implements the atomic lock with expiry.
Lock == INSTANCE LeaseLock WITH clock <- now, owner <- lease.owner,
                                since <- lease.at, done <- lease.done
ImplementsLock == Lock!Spec

\* Checkpoint returns: neither conflicts nor lost leases keep it going forever.
CheckpointReturns == \A i \in Instance : pc[i] # "idle" ~> pc[i] = "idle"

-----------------------------------------------------------------------------
(* Why they hold: the inductive invariant of the proofs *)

(***************************************************************************)
(* What the call of instance i may rely on.  A read that allowed a claim   *)
(* or a renewal still allows it when the write succeeds, because the write *)
(* compares the whole content and the clock only moves forward.            *)
(***************************************************************************)
CallInv(i) ==
  /\ pc[i] = "acquirePut" => MayClaim(i, seen[i])
  /\ pc[i] = "renewPut" => ~seen[i].done /\ seen[i].owner = i
  /\ stamp[i] <= now /\ heldAt[i] <= now /\ seen[i].at <= now
  /\ pc[i] \in Working => lease.owner # None
  /\ pc[i] \in Working /\ Fresh(i) => lease.owner = i /\ lease.at = heldAt[i]

LeaseInv == lease.at <= now /\ \A i \in Instance : CallInv(i)

\* As long as nothing lapsed, the only snapshot has a fresh owner or a done lease.
PublishInv ==
  lapsed = {} =>
    /\ \A i \in Instance : pc[i] \in AfterPublish => Fresh(i)
    /\ snapshots > 0 => lease.done \/ \E i \in Instance : pc[i] \in AfterPublish
    /\ lease.done => \A i \in Instance : ~(pc[i] \in Working /\ Fresh(i))
    /\ snapshots <= 1

\* Whoever concludes that the version has a snapshot is right.
SnapshotInv ==
  (\/ lease.done \/ nextDir = "listed"
   \/ \E i \in Instance : pc[i] \in AfterPublish \/ nextVerExists[i])
    => branch \in Instance

-----------------------------------------------------------------------------
(* What the documentation says and the code does not do *)

\* "An instance that finds the lease marked done gets ErrCheckpointTaken, and it
\* moves its writes to the next version": README, and the comment of the error.
TakenSwitchesWrites == \A i \in Instance : result[i] = "taken" => nextVerExists[i]
=============================================================================
