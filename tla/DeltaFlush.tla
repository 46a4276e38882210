----------------------------- MODULE DeltaFlush -----------------------------
(***************************************************************************)
(* The write buffer of one instance and its way to the delta branch:       *)
(* AppendMutation and Close of ghdb/base/base.go, flush of                 *)
(* ghdb/base/flush.go, and the steps of Checkpoint that call or bracket    *)
(* the flush.                                                              *)
(*                                                                         *)
(* Two threads flush: the background flusher, on its ticker and once more  *)
(* when Close stops it, and the caller of Checkpoint.  Each call to GitHub *)
(* is one step; it may fail, it may take effect and still report an error, *)
(* and the process may crash between any two steps and start again.        *)
(*                                                                         *)
(* A record is its rank among the accepted mutations and the size of its   *)
(* JSONL line.  Versions N and N+1 are 0 and 1.  delta[v] holds only this  *)
(* instance's segments, in the order latestInstanceSegment gives them:     *)
(* the one named after the instance first, then the rollovers by time.     *)
(* Writers refuse a record above MaxSingleMutationBytes before they append *)
(* it, so flush's own test of that ceiling never fires.                    *)
(***************************************************************************)
EXTENDS Integers, SequencesExt

CONSTANTS Sizes,        \* sizes of a record's line
          MaxBytes,     \* Config.MaxDeltaSegmentBytes
          MaxRecords,   \* Config.MaxDeltaSegmentRecords
          MaxAccepted,  \* bounds for model checking only: mutations accepted,
          MaxFaults,    \* GitHub calls that go wrong,
          MaxCrashes    \* crashes

ASSUME FlushAssumption == /\ Sizes \subseteq Nat \ {0}
                          /\ MaxBytes \in Nat \ {0}
                          /\ MaxRecords \in Nat \ {0}
                          /\ MaxAccepted \in Nat
                          /\ MaxFaults \in Nat
                          /\ MaxCrashes \in Nat

VARIABLES
  \* ------------------------------------------------- kept on GitHub
  delta,            \* delta[v]: this instance's segments of version v
  otherInNext,      \* another instance has a segment in version N+1
  \* ------------------------------------------- memory of the process
  wbuf,             \* baseDB.wbuf
  writeVer,         \* baseDB.writeVer
  nextVerExists,    \* baseDB.nextVerExists
  hasCheckpointed,  \* baseDB.hasCheckpointed
  ckpt,             \* where the Checkpoint call is; "none" when ckptMu is free
  worker,           \* the flusher's goroutine
  \* ------------------------------- locals of the threads inside flush
  pc,               \* next step of the flush; flushMu is held unless "idle"
  pending,          \* records drained and not yet stored
  ver,              \* version the flush writes to
  active,           \* rank of the active segment in the listing, 0 for none
  existing,         \* content (and so SHA) of the active segment as read
  \* ---------------------------------------------------------- history
  accepted,         \* number of mutations AppendMutation took
  dropped,          \* those a crash took with the buffer
  retried,          \* those of a write that took effect and reported an error
  beforeClose,      \* accepted when Close was called
  covered,          \* accepted when the snapshot was taken
  faults, crashes

github  == <<delta, otherInNext>>
version == <<writeVer, nextVerExists, hasCheckpointed>>
locals  == <<pc, pending, ver, active, existing>>
ranks   == <<accepted, dropped, beforeClose, covered>>
vars    == <<github, wbuf, version, ckpt, worker, locals, ranks, retried,
             faults, crashes>>

-----------------------------------------------------------------------------
(* Records and segments *)

Thread == {"flusher", "checkpoint"}
Version == {0, 1}

Record == [rank : 1 .. MaxAccepted, size : Sizes]

Bytes(recs)  == LET sum[k \in 0 .. Len(recs)] == IF k = 0 THEN 0 ELSE sum[k - 1] + recs[k].size
                IN  sum[Len(recs)]
Ranks(recs)  == {recs[k].rank : k \in DOMAIN recs}
Stored(v)    == FlattenSeq(delta[v])
AllStored    == Stored(0) \o Stored(1)
StoredRanks  == Ranks(AllStored)
Buffered     == pending["flusher"] \o pending["checkpoint"] \o wbuf

\* Mutant: the bytes already in the segment are forgotten.
FitCountFromZero(recs, prior) ==
  Max({0} \cup {n \in 1 .. Len(recs) :
                  /\ Len(prior) + n <= MaxRecords
                  /\ Bytes(SubSeq(recs, 1, n)) <= MaxBytes})

\* recordsThatFit: how many of recs may join a segment that holds prior.
FitCount(recs, prior) ==
  Max({0} \cup {n \in 1 .. Len(recs) :
                  /\ Len(prior) + n <= MaxRecords
                  /\ Bytes(prior) + Bytes(SubSeq(recs, 1, n)) <= MaxBytes})

\* The first batch of splitMutationRecords: a record above the byte cap gets a
\* segment of its own.
RolloverCount(recs) == IF Head(recs).size > MaxBytes THEN 1 ELSE FitCount(recs, <<>>)

Init ==
  /\ delta = [v \in Version |-> <<>>]
  /\ otherInNext = FALSE
  /\ wbuf = <<>>
  /\ writeVer = 0
  /\ nextVerExists = FALSE
  /\ hasCheckpointed = FALSE
  /\ ckpt = "none"
  /\ worker = "running"
  /\ pc = [t \in Thread |-> "idle"]
  /\ pending = [t \in Thread |-> <<>>]
  /\ ver = [t \in Thread |-> 0]
  /\ active = [t \in Thread |-> 0]
  /\ existing = [t \in Thread |-> <<>>]
  /\ accepted = 0
  /\ dropped = {}
  /\ retried = {}
  /\ beforeClose = 0
  /\ covered = 0
  /\ faults = 0
  /\ crashes = 0

-----------------------------------------------------------------------------
(* Writers *)

\* Set, Patch and Delete hold ckptMu for reading, so they wait for Checkpoint.
\* Nothing stops a write after Close.
Write(size) ==
  /\ ckpt = "none"
  /\ accepted < MaxAccepted
  /\ accepted' = accepted + 1
  /\ wbuf' = Append(wbuf, [rank |-> accepted + 1, size |-> size])
  /\ UNCHANGED <<github, version, ckpt, worker, locals, dropped, beforeClose,
                 covered, retried, faults, crashes>>

-----------------------------------------------------------------------------
(* flush *)

Goto(t, step) == pc' = [pc EXCEPT ![t] = step]

\* Mutant: the early return on an error leaves flushMu locked.
FlushReturnsLocked(t, ok) ==
  /\ Goto(t, IF ok THEN "idle" ELSE "stuck")
  /\ pending' = [pending EXCEPT ![t] = <<>>]
  /\ UNCHANGED <<ver, active, existing, ckpt, worker>>

\* flush of thread t returns and releases flushMu.  Checkpoint goes on or
\* gives up; after the final flush the flusher exits.
FlushReturns(t, ok) ==
  /\ Goto(t, "idle")
  /\ pending' = [pending EXCEPT ![t] = <<>>]
  /\ ver' = [ver EXCEPT ![t] = 0]
  /\ active' = [active EXCEPT ![t] = 0]
  /\ existing' = [existing EXCEPT ![t] = <<>>]
  /\ \/ /\ t = "checkpoint"
        /\ ckpt' = (IF ok THEN "snapshot" ELSE "none")
        /\ UNCHANGED worker
     \/ /\ t = "flusher"
        /\ worker' = (IF worker # "final" THEN worker ELSE IF ok THEN "clean" ELSE "error")
        /\ UNCHANGED ckpt

\* Mutants: the records go behind the newer ones, or are not put back.
RestoreBehind(t) == wbuf' = wbuf \o pending[t]
RestoreNothing(t) == UNCHANGED wbuf

\* restorePending: what is not stored goes back before the newer records.
RestorePending(t) == wbuf' = pending[t] \o wbuf

\* Mutant: flushMu is missing.
FlushUnlocked(t) == pc[t] = "idle"

\* flushMu is free.
FlushFree(t) == pc[t] = "idle" /\ \A u \in Thread \ {t} : pc[u] = "idle"

\* When a thread calls flush: the flusher at a tick, or once more when Close
\* has stopped it, Checkpoint after it acquired the lease.
Tick  == worker \in {"running", "closing"} /\ UNCHANGED worker
Final == worker = "closing" /\ worker' = "final"

CallsFlush(t) == \/ t = "flusher" /\ (Tick \/ Final)
                 \/ t = "checkpoint" /\ ckpt = "flush" /\ UNCHANGED worker

\* flushMu, the drain of the buffer and the choice of the version.
Drain(t) ==
  /\ FlushFree(t)
  /\ wbuf # <<>>
  /\ CallsFlush(t)
  /\ Goto(t, "list")
  /\ pending' = [pending EXCEPT ![t] = wbuf]
  /\ wbuf' = <<>>
  /\ writeVer' = (IF nextVerExists THEN 1 ELSE writeVer)
  /\ ver' = [ver EXCEPT ![t] = writeVer']
  /\ UNCHANGED <<github, nextVerExists, hasCheckpointed, ckpt, active, existing, ranks,
                 retried, faults, crashes>>

\* The buffer is empty: flush returns nil at once.  At a tick that changes
\* nothing and is left out.
DrainEmpty(t) ==
  /\ FlushFree(t)
  /\ wbuf = <<>>
  /\ \/ /\ t = "flusher" /\ worker = "closing"
        /\ worker' = "clean"
        /\ UNCHANGED ckpt
     \/ /\ t = "checkpoint" /\ ckpt = "flush"
        /\ ckpt' = "snapshot"
        /\ UNCHANGED worker
  /\ UNCHANGED <<github, wbuf, version, locals, ranks, retried, faults, crashes>>

\* The active segment takes the records that fit; without one of those the
\* first write is a rollover.
FirstWrite(t, prior) ==
  Goto(t, IF FitCount(pending[t], prior) > 0 THEN "putActive" ELSE "putRollover")

\* ListDir of the version directory.
List(t) ==
  /\ pc[t] = "list"
  /\ active' = [active EXCEPT ![t] = Len(delta[ver[t]])]
  /\ \/ delta[ver[t]] # <<>> /\ Goto(t, "get")
     \/ delta[ver[t]] = <<>> /\ FirstWrite(t, <<>>)
  /\ UNCHANGED <<github, wbuf, version, ckpt, worker, pending, ver, existing, ranks, retried,
                 faults, crashes>>

\* GetFile of the active segment.
Get(t) ==
  /\ pc[t] = "get"
  /\ existing' = [existing EXCEPT ![t] = delta[ver[t]][active[t]]]
  /\ FirstWrite(t, existing'[t])
  /\ UNCHANGED <<github, wbuf, version, ckpt, worker, pending, ver, active, ranks, retried,
                 faults, crashes>>

\* PutFile on the active segment: create it, or replace what was read.
StoreActive(t, n) ==
  LET v     == ver[t]
      batch == SubSeq(pending[t], 1, n)
  IN \/ /\ active[t] = 0 /\ delta[v] = <<>>
        /\ delta' = [delta EXCEPT ![v] = <<batch>>]
     \/ /\ active[t] # 0 /\ delta[v][active[t]] = existing[t]
        /\ delta' = [delta EXCEPT ![v][active[t]] = existing[t] \o batch]

\* PutFile that creates a segment under a name that is not in use.
StoreRollover(t, n) ==
  delta' = [delta EXCEPT ![ver[t]] = Append(@, SubSeq(pending[t], 1, n))]

\* Mutant: the last record of the batch is kept.
AdvanceShort(t, n) ==
  LET rest == SubSeq(pending[t], n, Len(pending[t]))
  IN /\ Goto(t, "putRollover")
     /\ pending' = [pending EXCEPT ![t] = rest]
     /\ UNCHANGED <<ckpt, worker, ver, active, existing>>

\* pending = pending[len(batch):], and flush is done when nothing is left.
Advance(t, n) ==
  LET rest == SubSeq(pending[t], n + 1, Len(pending[t]))
  IN \/ rest = <<>> /\ FlushReturns(t, TRUE)
     \/ /\ rest # <<>>
        /\ Goto(t, "putRollover")
        /\ pending' = [pending EXCEPT ![t] = rest]
        /\ UNCHANGED <<ckpt, worker, ver, active, existing>>

PutActive(t) ==
  LET n == FitCount(pending[t], existing[t])
  IN /\ pc[t] = "putActive"
     /\ StoreActive(t, n)
     /\ Advance(t, n)
     /\ UNCHANGED <<otherInNext, wbuf, version, ranks, retried, faults, crashes>>

PutRollover(t) ==
  LET n == RolloverCount(pending[t])
  IN /\ pc[t] = "putRollover"
     /\ StoreRollover(t, n)
     /\ Advance(t, n)
     /\ UNCHANGED <<otherInNext, wbuf, version, ranks, retried, faults, crashes>>

\* Any call of flush fails, the SHA check of PutFile included.
CallFails(t) ==
  /\ pc[t] # "idle"
  /\ faults < MaxFaults
  /\ faults' = faults + 1
  /\ RestorePending(t)
  /\ FlushReturns(t, FALSE)
  /\ UNCHANGED <<github, version, ranks, retried, crashes>>

\* PutFile takes effect and its response is lost: flush sees an error and
\* restores the whole batch.
ResponseLost(t) ==
  /\ faults < MaxFaults
  /\ faults' = faults + 1
  /\ \E n \in 1 .. Len(pending[t]) :
       /\ \/ /\ pc[t] = "putActive" /\ n = FitCount(pending[t], existing[t])
             /\ StoreActive(t, n)
          \/ /\ pc[t] = "putRollover" /\ n = RolloverCount(pending[t])
             /\ StoreRollover(t, n)
       /\ retried' = retried \cup Ranks(SubSeq(pending[t], 1, n))
  /\ RestorePending(t)
  /\ FlushReturns(t, FALSE)
  /\ UNCHANGED <<otherInNext, version, ranks, crashes>>

-----------------------------------------------------------------------------
(* Checkpoint around its flush *)

\* ckptMu is taken: from here to the return no write is accepted.
CkptBegin ==
  /\ ckpt = "none"
  /\ ~hasCheckpointed
  /\ ckpt' = "acquire"
  /\ UNCHANGED <<github, wbuf, version, worker, locals, ranks, retried, faults, crashes>>

CkptAcquired ==
  /\ ckpt = "acquire"
  /\ ckpt' = "flush"
  /\ UNCHANGED <<github, wbuf, version, worker, locals, ranks, retried, faults, crashes>>

\* Mutant: the instance goes on writing to version N.
WriteOn == UNCHANGED <<nextVerExists, writeVer>>

\* The instance writes to version N+1 from here on.
WriteToNext == nextVerExists' = TRUE /\ writeVer' = 1

\* Another instance has produced the snapshot.
CkptTaken ==
  /\ ckpt = "acquire"
  /\ ckpt' = "none"
  /\ WriteToNext
  /\ UNCHANGED <<github, wbuf, hasCheckpointed, worker, locals, ranks, retried, faults,
                 crashes>>

\* The lease is busy or lost, or a call outside flush fails.
CkptFails ==
  /\ ckpt \in {"acquire", "snapshot", "publish"}
  /\ ckpt' = "none"
  /\ UNCHANGED <<github, wbuf, version, worker, locals, ranks, retried, faults, crashes>>

\* snapshotFn copies the memory, which holds every accepted mutation.
Snapshot ==
  /\ ckpt = "snapshot"
  /\ ckpt' = "publish"
  /\ covered' = accepted
  /\ UNCHANGED <<github, wbuf, version, worker, locals, accepted, dropped, beforeClose,
                 retried, faults, crashes>>

CkptDone ==
  /\ ckpt = "publish"
  /\ ckpt' = "none"
  /\ WriteToNext
  /\ hasCheckpointed' = TRUE
  /\ UNCHANGED <<github, wbuf, worker, locals, ranks, retried, faults, crashes>>

-----------------------------------------------------------------------------
(* Other instances, the poller, Close, crashes *)

OtherWritesNext ==
  /\ ~otherInNext
  /\ otherInNext' = TRUE
  /\ UNCHANGED <<delta, wbuf, version, ckpt, worker, locals, ranks, retried, faults, crashes>>

\* Mutant: the instance's own segments do not count.
NextListedByOthers == otherInNext

\* The directory of version N+1 lists an entry.
NextListed == otherInNext \/ delta[1] # <<>>

\* The poller finds version N+1; a poll in progress outlives Close's signal.
PollFindsNext ==
  /\ ~nextVerExists
  /\ NextListed
  /\ nextVerExists' = TRUE
  /\ UNCHANGED <<github, wbuf, writeVer, hasCheckpointed, ckpt, worker, locals, ranks,
                 retried, faults, crashes>>

Close ==
  /\ worker = "running"
  /\ worker' = "closing"
  /\ beforeClose' = accepted
  /\ UNCHANGED <<github, wbuf, version, ckpt, locals, accepted, dropped, covered, retried,
                 faults, crashes>>

\* The process dies and starts online again under its instance id.
Crash ==
  /\ crashes < MaxCrashes
  /\ crashes' = crashes + 1
  /\ dropped' = dropped \cup (Ranks(Buffered) \ StoredRanks)
  /\ wbuf' = <<>>
  /\ nextVerExists' = NextListed
  /\ writeVer' = (IF NextListed THEN 1 ELSE 0)
  /\ hasCheckpointed' = FALSE
  /\ ckpt' = "none"
  /\ worker' = "running"
  /\ pc' = [t \in Thread |-> "idle"]
  /\ pending' = [t \in Thread |-> <<>>]
  /\ ver' = [t \in Thread |-> 0]
  /\ active' = [t \in Thread |-> 0]
  /\ existing' = [t \in Thread |-> <<>>]
  /\ beforeClose' = 0
  /\ UNCHANGED <<github, accepted, covered, retried, faults>>

-----------------------------------------------------------------------------

FlushCall(t) == List(t) \/ Get(t) \/ PutActive(t) \/ PutRollover(t)
Flush(t)     == \/ Drain(t) \/ DrainEmpty(t) \/ FlushCall(t)
                \/ CallFails(t) \/ ResponseLost(t)

Next == \/ \E size \in Sizes : Write(size)
        \/ \E t \in Thread : Flush(t)
        \/ CkptBegin \/ CkptAcquired \/ CkptTaken \/ CkptFails \/ Snapshot \/ CkptDone
        \/ OtherWritesNext \/ PollFindsNext \/ Close \/ Crash

Spec == Init /\ [][Next]_vars

\* The flush of a flusher that saw the stop signal.
FinalFlush == worker = "closing" /\ (Drain("flusher") \/ DrainEmpty("flusher"))
                                 /\ worker' # "closing"

\* Every tick calls flush, every call returns (the client times out after
\* 30 s) and, the faults being bounded, one succeeds in the end; the select
\* of a stopped flusher does not prefer its ticker for ever.
Fairness == /\ \A t \in Thread : WF_vars(Flush(t))
            /\ WF_vars(FinalFlush)

FairSpec == Spec /\ Fairness

-----------------------------------------------------------------------------
(* Properties *)

Steps == {"idle", "list", "get", "putActive", "putRollover"}

\* Every variable has its type: what flush and Checkpoint keep in baseDB and
\* on their stacks, and what they leave on the delta branch.
TypeOK ==
  /\ delta \in [Version -> Seq(Seq(Record))]
  /\ otherInNext \in BOOLEAN
  /\ wbuf \in Seq(Record)
  /\ writeVer \in Version
  /\ nextVerExists \in BOOLEAN
  /\ hasCheckpointed \in BOOLEAN
  /\ ckpt \in {"none", "acquire", "flush", "snapshot", "publish"}
  /\ worker \in {"running", "closing", "final", "clean", "error"}
  /\ pc \in [Thread -> Steps]
  /\ pending \in [Thread -> Seq(Record)]
  /\ ver \in [Thread -> Version]
  /\ active \in [Thread -> Nat]
  /\ existing \in [Thread -> Seq(Record)]
  /\ accepted \in 0 .. MaxAccepted
  /\ dropped \subseteq 1 .. MaxAccepted
  /\ retried \subseteq 1 .. MaxAccepted
  /\ beforeClose \in 0 .. MaxAccepted
  /\ covered \in 0 .. MaxAccepted
  /\ faults \in 0 .. MaxFaults
  /\ crashes \in 0 .. MaxCrashes

\* Whatever calls fail and whichever threads flush, an accepted mutation is in
\* the buffer, in the hands of a flush or in a segment, until a crash takes
\* the buffer (restorePending of flush.go:215-219).
NothingLost == Ranks(AllStored \o Buffered) = (1 .. accepted) \ dropped

\* The segments, then the records in hand, then the buffer give the mutations
\* in the order they were accepted: none comes before an older one has come.
InOrder ==
  LET all == AllStored \o Buffered
  IN \A k \in DOMAIN all : \A older \in (1 .. all[k].rank) \ dropped :
       older \in Ranks(SubSeq(all, 1, k))

\* A mutation is stored twice only if a write that took effect reported an
\* error: a flush that fails half way does not write its first batch again.
TwiceOnlyIfRetried ==
  \A j, k \in DOMAIN AllStored :
    j # k /\ AllStored[j].rank = AllStored[k].rank => AllStored[j].rank \in retried

\* A segment keeps within both caps, or is one record too large for any.
SegmentsBounded ==
  \A v \in Version : \A k \in DOMAIN delta[v] :
    LET segment == delta[v][k]
    IN \/ Len(segment) \in 1 .. MaxRecords /\ Bytes(segment) <= MaxBytes
       \/ Len(segment) = 1

\* Once the instance has stored a record in version N+1, it stores none in
\* version N again, restarts included.
VersionForward == [][delta[1] # <<>> => delta'[0] = delta[0]]_vars

\* Checkpoint snapshots with nothing buffered and no flush in progress, so
\* the segments of version N hold all that the snapshot holds.
SnapshotFlushed ==
  ckpt = "publish" => Buffered = <<>> /\ \A t \in Thread : pc[t] = "idle"

\* After its own checkpoint a process writes nothing to version N that its
\* snapshot has not: such a record would be skipped once the snapshot is the
\* baseline.
NothingAfterSnapshot == hasCheckpointed => Ranks(Stored(0)) \subseteq 1 .. covered

\* A flusher that exits after a final flush without error leaves every
\* mutation accepted before Close in a segment.
ClosedDurable == worker = "clean" => (1 .. beforeClose) \ dropped \subseteq StoredRanks

\* An accepted mutation reaches a segment, unless the process stops first.
FlushDelivers ==
  \A rank \in 1 .. MaxAccepted :
    rank <= accepted ~> \/ rank \in StoredRanks \cup dropped
                        \/ worker # "running"

\* Close ends: the stopped flusher makes its final flush and exits.
CloseFinishes == worker = "closing" ~> worker \in {"clean", "error"} \/ worker = "running"
=============================================================================
