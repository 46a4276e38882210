-------------------------- MODULE WriteCheckpoint --------------------------
(***************************************************************************)
(* Which acknowledged mutations survive a checkpoint: the write path of    *)
(* table/table.go and graph/graph.go, flush of base/flush.go, Checkpoint   *)
(* of base/checkpoint.go with its cut checkpointedAt, and the replay of    *)
(* base/base.go that a process redeployed with the merged snapshot makes.  *)
(*                                                                         *)
(* A mutation is its time stamp.  time.Now has nanoseconds and the clocks  *)
(* are synchronised, so each reading of the clock is a new, later number.  *)
(* Versions N and N+1 are 0 and 1.  A flush is one step here, DeltaFlush   *)
(* has its calls.  Of the lease only its owner and its done mark are here: *)
(* it may expire between any two steps, so several instances may be at     *)
(* work and may publish one after the other; CheckpointLease has the times *)
(* and says when that cannot happen.  No process restarts before the pull  *)
(* request is merged (the README asks for that order).                     *)
(***************************************************************************)
EXTENDS Integers

CONSTANTS Instance,   \* the processes that share the database
          None,       \* no instance
          MaxTime     \* bound of the clock, for model checking only

ASSUME WriteAssumption == None \notin Instance /\ MaxTime \in Nat

VARIABLES
  now,            \* the last reading of the clock
  \* ------------------------------------------------- kept on GitHub
  delta,          \* delta[v]: mutations stored in version v
  snapshot,       \* the snapshot branch: mutations it holds, cut, author
  owner,          \* the instance that last claimed the lease
  done,           \* the lease is marked done
  \* ------------------------------------------- memory of each instance
  waiting,        \* mutations stamped, not yet past LockCkptRead
  data,           \* mutations applied to the data
  wbuf,           \* mutations not yet flushed
  nextVerExists,  \* flush writes to version N+1
  ckpt,           \* where Checkpoint is; "none" when ckptMu is free
  draft,          \* the snapshot it is preparing
  hasCheckpointed,  \* its Checkpoint returned without an error
  \* ---------------------------------------------------------- history
  accepted,       \* mutations each instance acknowledged to its callers
  switched,       \* those it stamped when it already wrote to version N+1
  overtaken,      \* those that waited for its Checkpoint
  moved,          \* those in its buffer when it was told ErrCheckpointTaken
  replaced        \* a snapshot was published after a Checkpoint had succeeded

lease   == <<owner, done>>
github  == <<delta, snapshot, lease>>
local   == <<data, wbuf, nextVerExists>>
call    == <<ckpt, draft, hasCheckpointed>>
history == <<accepted, switched, overtaken, moved, replaced>>
vars    == <<now, github, waiting, local, call, history>>

-----------------------------------------------------------------------------

Stamps == 1 .. MaxTime

Snapshot == [holds : SUBSET Stamps, cut : 0 .. MaxTime, by : Instance \cup {None}]

NoSnapshot == [holds |-> {}, cut |-> 0, by |-> None]

\* What a process started with the merged snapshot has in memory: the
\* snapshot, and version N+1 replayed from the snapshot's cut.
Recovered == snapshot.holds \cup {r \in delta[1] : r > snapshot.cut}

Init ==
  /\ now = 0
  /\ delta = [v \in {0, 1} |-> {}]
  /\ snapshot = NoSnapshot /\ owner = None /\ done = FALSE
  /\ waiting = [i \in Instance |-> {}]
  /\ data = [i \in Instance |-> {}]
  /\ wbuf = [i \in Instance |-> {}]
  /\ nextVerExists = [i \in Instance |-> FALSE]
  /\ ckpt = [i \in Instance |-> "none"]
  /\ draft = [i \in Instance |-> NoSnapshot]
  /\ hasCheckpointed = [i \in Instance |-> FALSE]
  /\ accepted = [i \in Instance |-> {}]
  /\ switched = {}
  /\ overtaken = {}
  /\ moved = {}
  /\ replaced = FALSE

Add(f, i, mutations) == [f EXCEPT ![i] = @ \cup mutations]

ReadClock == now < MaxTime /\ now' = now + 1

-----------------------------------------------------------------------------
(* Writers *)

\* Set, Patch and the edge operations stamp the record before they lock.
Stamp(i) ==
  /\ ReadClock
  /\ waiting' = Add(waiting, i, {now'})
  /\ switched' = switched \cup {r \in {now'} : nextVerExists[i]}
  /\ UNCHANGED <<github, local, call, accepted, overtaken, moved, replaced>>

\* Mutant: writers do not wait for Checkpoint.
MayApplyAlways(i) == TRUE

\* LockCkptRead: Checkpoint holds the lock from its first line to its return.
MayApply(i) == ckpt[i] = "none"

\* Apply to the data, append to the buffer, return to the caller.
Apply(i, r) ==
  /\ MayApply(i)
  /\ r \in waiting[i]
  /\ waiting' = [waiting EXCEPT ![i] = @ \ {r}]
  /\ data' = Add(data, i, {r})
  /\ wbuf' = Add(wbuf, i, {r})
  /\ accepted' = Add(accepted, i, {r})
  /\ UNCHANGED <<now, github, nextVerExists, call, switched, overtaken, moved, replaced>>

-----------------------------------------------------------------------------
(* Flush and poll *)

WriteVer(i) == IF nextVerExists[i] THEN 1 ELSE 0

Store(i) == delta' = [delta EXCEPT ![WriteVer(i)] = @ \cup wbuf[i]]

FlushBuffer(i) == Store(i) /\ wbuf' = [wbuf EXCEPT ![i] = {}]

Flush(i) ==
  /\ wbuf[i] # {}
  /\ FlushBuffer(i)
  /\ UNCHANGED <<now, snapshot, lease, waiting, data, nextVerExists, call, history>>

\* PutFile took effect, its response is lost: the records go back to the buffer.
FlushUnclear(i) ==
  /\ wbuf[i] # {}
  /\ Store(i)
  /\ UNCHANGED <<now, snapshot, lease, waiting, local, call, history>>

\* Apply what is new in the versions this instance reads.
Poll(i) ==
  /\ data' = Add(data, i, delta[0] \cup {r \in delta[1] : nextVerExists[i]})
  /\ nextVerExists' = [nextVerExists EXCEPT ![i] = @ \/ delta[1] # {}]
  /\ UNCHANGED <<now, github, waiting, wbuf, call, history>>

-----------------------------------------------------------------------------
(* Checkpoint *)

At(i, step, next) == ckpt[i] = step /\ ckpt' = [ckpt EXCEPT ![i] = next]

\* Mutant: the instance switches before there is a snapshot.
CkptBeginSwitches(i) ==
  /\ At(i, "none", "flush")
  /\ ~hasCheckpointed[i] /\ ~done
  /\ owner' = i
  /\ nextVerExists' = [nextVerExists EXCEPT ![i] = TRUE]
  /\ UNCHANGED <<now, delta, snapshot, done, waiting, data, wbuf, draft, hasCheckpointed, history>>

\* ckptMu and acquireCheckpointLease: the lease is free, its own or has expired.
\* Its last owner may still be at work, or have published without a done mark.
CkptBegin(i) ==
  /\ At(i, "none", "flush")
  /\ ~hasCheckpointed[i] /\ ~done
  /\ owner' = i
  /\ UNCHANGED <<now, delta, snapshot, done, waiting, local, draft, hasCheckpointed, history>>

\* ErrCheckpointTaken: the mutations in the buffer land on the next version.
CkptTaken(i) ==
  /\ ckpt[i] = "none"
  /\ ~hasCheckpointed[i] /\ done
  /\ nextVerExists' = [nextVerExists EXCEPT ![i] = TRUE]
  /\ moved' = moved \cup wbuf[i]
  /\ UNCHANGED <<now, github, waiting, data, wbuf, call, accepted, switched, overtaken, replaced>>

CkptFlush(i) ==
  /\ At(i, "flush", "snapshot")
  /\ FlushBuffer(i)
  /\ UNCHANGED <<now, snapshot, lease, waiting, data, nextVerExists, draft, hasCheckpointed, history>>

\* renewCheckpointLease succeeds.
Renewed(i) == owner = i /\ ~done

\* The first renewal; snapshotFn copies the data.
CkptSnapshot(i) ==
  /\ At(i, "snapshot", "cut")
  /\ Renewed(i)
  /\ draft' = [draft EXCEPT ![i] = [holds |-> data[i], cut |-> 0, by |-> i]]
  /\ UNCHANGED <<now, github, waiting, local, hasCheckpointed, history>>

\* checkpointedAt, the baseline_time of the next version.
CkptCut(i) ==
  /\ At(i, "cut", "renew")
  /\ ReadClock
  /\ draft' = [draft EXCEPT ![i].cut = now']
  /\ UNCHANGED <<github, waiting, local, hasCheckpointed, history>>

\* The last of the renewals, before the commit.
CkptRenew(i) ==
  /\ At(i, "renew", "publish")
  /\ Renewed(i)
  /\ UNCHANGED <<now, github, waiting, local, draft, hasCheckpointed, history>>

Succeeded == \E j \in Instance : hasCheckpointed[j]

\* UpdateRef moves the snapshot branch, whoever owns the lease by now.
MoveBranch(i) ==
  /\ snapshot' = draft[i]
  /\ replaced' = (replaced \/ Succeeded)

CkptPublish(i) ==
  /\ At(i, "publish", "mark")
  /\ MoveBranch(i)
  /\ UNCHANGED <<now, delta, lease, waiting, local, draft, hasCheckpointed, accepted, switched, overtaken, moved>>

\* The call's local variables go out of scope.
Discard(i) == draft' = [draft EXCEPT ![i] = NoSnapshot]

\* The branch moved, the response is lost: Checkpoint returns the error.
CkptPublishUnclear(i) ==
  /\ At(i, "publish", "none")
  /\ MoveBranch(i)
  /\ Discard(i)
  /\ UNCHANGED <<now, delta, lease, waiting, local, hasCheckpointed, accepted, switched, overtaken, moved>>

\* The pull request, the done mark, which may fail and is put on whatever lease
\* is there, and the switch.  The buffer is empty since CkptFlush.
CkptMark(i) ==
  /\ At(i, "mark", "none")
  /\ done' \in {done, TRUE}
  /\ nextVerExists' = [nextVerExists EXCEPT ![i] = TRUE]
  /\ hasCheckpointed' = [hasCheckpointed EXCEPT ![i] = TRUE]
  /\ overtaken' = overtaken \cup {r \in waiting[i] : r <= draft[i].cut}
  /\ Discard(i)
  /\ UNCHANGED <<now, delta, snapshot, owner, waiting, data, wbuf, accepted, switched, moved, replaced>>

\* Mutant: an error leaves ckptMu locked.
CkptFailsLocked(i) ==
  /\ ckpt[i] \notin {"none", "mark"}
  /\ ckpt' = [ckpt EXCEPT ![i] = "failed"]
  /\ Discard(i)
  /\ UNCHANGED <<now, github, waiting, local, hasCheckpointed, history>>

\* An error before the branch moves, a renewal that finds the lease lost included.
CkptFails(i) ==
  /\ ckpt[i] \notin {"none", "mark"}
  /\ ckpt' = [ckpt EXCEPT ![i] = "none"]
  /\ Discard(i)
  /\ UNCHANGED <<now, github, waiting, local, hasCheckpointed, history>>

Publish(i) == CkptPublish(i) \/ CkptPublishUnclear(i) \/ CkptMark(i)

Checkpoint(i) == \/ CkptBegin(i) \/ CkptTaken(i) \/ CkptFlush(i) \/ CkptSnapshot(i)
                 \/ CkptCut(i) \/ CkptRenew(i) \/ Publish(i) \/ CkptFails(i)

Next == \E i \in Instance : \/ Stamp(i) \/ Flush(i) \/ FlushUnclear(i) \/ Poll(i) \/ Checkpoint(i)
                            \/ \E r \in waiting[i] : Apply(i, r)

Spec == Init /\ [][Next]_vars

-----------------------------------------------------------------------------
(* Properties *)

\* Every variable has its type.
TypeOK ==
  /\ now \in 0 .. MaxTime
  /\ delta \in [{0, 1} -> SUBSET Stamps]
  /\ snapshot \in Snapshot /\ owner \in Instance \cup {None} /\ done \in BOOLEAN
  /\ waiting \in [Instance -> SUBSET Stamps]
  /\ data \in [Instance -> SUBSET Stamps]
  /\ wbuf \in [Instance -> SUBSET Stamps]
  /\ nextVerExists \in [Instance -> BOOLEAN]
  /\ ckpt \in [Instance -> {"none", "flush", "snapshot", "cut", "renew", "publish", "mark"}]
  /\ draft \in [Instance -> Snapshot]
  /\ hasCheckpointed \in [Instance -> BOOLEAN]
  /\ accepted \in [Instance -> SUBSET Stamps]
  /\ switched \subseteq Stamps
  /\ overtaken \subseteq Stamps
  /\ moved \subseteq Stamps /\ replaced \in BOOLEAN

(***************************************************************************)
(* An instance whose Checkpoint succeeded and whose snapshot stands loses  *)
(* none of the mutations it acknowledged, before or after: each is in its  *)
(* buffer or comes back with the snapshot, except those that were stamped  *)
(* before the cut and applied after Checkpoint returned.                   *)
(***************************************************************************)
AuthorLosesOnlyOvertaken ==
  \A i \in Instance : snapshot.by = i /\ hasCheckpointed[i]
                        => accepted[i] \subseteq Recovered \cup wbuf[i] \cup overtaken

(***************************************************************************)
(* A mutation that an instance stamps once it writes to version N+1, told  *)
(* by a checkpoint or by the poller, comes back with the snapshot: no such *)
(* record is older than the cut, however many publications failed, lost    *)
(* their response or overlapped - unless an instance that took an expired  *)
(* lease over publishes after another one's Checkpoint had succeeded.      *)
(***************************************************************************)
SwitchedWritesSurvive ==
  ~replaced => \A i \in Instance : accepted[i] \cap switched \subseteq Recovered \cup wbuf[i]

\* "It moves its writes to the next version so they are not lost" (README,
\* line 154, of an instance that gets ErrCheckpointTaken).
MovedWritesSurvive ==
  \A i \in Instance : accepted[i] \cap moved \subseteq Recovered \cup wbuf[i]
=============================================================================
