-------------------------- MODULE DeltaFlushProofs --------------------------
(***************************************************************************)
(* Theorems about DeltaFlush for any sizes, caps and bounds: a snapshot is *)
(* taken with nothing buffered and no flush in progress, an instance that  *)
(* has stored a record in version N+1 stores none in version N again, and  *)
(* every variable keeps its type.                                          *)
(*                                                                         *)
(* The argument: flushMu gives one flush at a time, and no write comes in  *)
(* while a Checkpoint runs, so the buffer that its flush drained stays     *)
(* empty (LockInv); the version of a flush in progress is not behind what  *)
(* is stored, and writeVer follows it, a restart included (ForwardInv).    *)
(* Between two of its calls a flush knows which segment is the last one    *)
(* and that records fit into it (FlushInv), as nobody else extends it.     *)
(***************************************************************************)
EXTENDS DeltaFlush, InductionLemmas, TLAPS

\* The variables that the argument reads are functions on their domains.
Shapes ==
  /\ DOMAIN delta = Version
  /\ pc \in [Thread -> Steps]
  /\ DOMAIN pending = Thread
  /\ ver \in [Thread -> Version]
  /\ writeVer \in Version

\* One flush at a time; the flush of a Checkpoint runs while ckpt is "flush",
\* and nothing reaches the buffer from its drain to the snapshot.
LockInv ==
  /\ \A t \in Thread : pc[t] = "idle" => pending[t] = <<>>
  /\ \A t, u \in Thread : pc[t] # "idle" /\ pc[u] # "idle" => t = u
  /\ pc["checkpoint"] # "idle" => ckpt = "flush" /\ wbuf = <<>>
  /\ ckpt \in {"snapshot", "publish"} => wbuf = <<>> /\ \A t \in Thread : pc[t] = "idle"

\* Version N+1 is where the instance writes once something of it is stored there.
ForwardInv ==
  /\ \A t \in Thread : pc[t] # "idle" /\ ver[t] = 1 => writeVer = 1
  /\ delta[1] # <<>> => writeVer = 1 /\ \A t \in Thread : pc[t] # "idle" => ver[t] = 1

IInv == Shapes /\ LockInv /\ ForwardInv

-----------------------------------------------------------------------------
(* The invariant is inductive *)

USE DEF Thread, Version, Steps, github, version, locals, ranks, vars, Goto, IInv, Shapes, LockInv, ForwardInv

LEMMA InitIInv == Init => IInv
BY SMT DEF Init

\* A writer appends to the buffer only while no Checkpoint runs.
LEMMA WriteKeeps == ASSUME IInv, NEW size, Write(size) PROVE IInv'
BY SMT DEF Write

\* The drain takes flushMu, empties the buffer and chooses the version.
LEMMA DrainKeeps == ASSUME IInv, NEW t \in Thread, Drain(t) \/ DrainEmpty(t) PROVE IInv'
<1>1. CASE Drain(t)
  <2>1. /\ pc' = [pc EXCEPT ![t] = "list"] /\ pending' = [pending EXCEPT ![t] = wbuf]
        /\ ver' = [ver EXCEPT ![t] = writeVer'] /\ writeVer' \in {1, writeVer}
        /\ UNCHANGED <<delta, ckpt>> /\ wbuf' = <<>> /\ wbuf # <<>>
        /\ t = "checkpoint" => ckpt = "flush"
        /\ \A u \in Thread : pc[u] = "idle"
    BY <1>1, SMT DEF Drain, FlushFree, CallsFlush
  <2>2. Shapes' /\ LockInv'
    BY <2>1, SMT
  <2>3. ForwardInv'
    BY <2>1, SMT
  <2> QED BY <2>2, <2>3
<1>2. CASE DrainEmpty(t)
  BY <1>2, SMT DEF DrainEmpty, FlushFree
<1> QED BY <1>1, <1>2

\* The reads of a flush change nothing that is shared.
LEMMA ReadsKeep == ASSUME IInv, NEW t \in Thread, List(t) \/ Get(t) PROVE IInv'
<1>1. CASE List(t)
  <2>1. \E step \in Steps \ {"idle"} : pc' = [pc EXCEPT ![t] = step]
    BY <1>1, SMT DEF List, FirstWrite
  <2> QED BY <1>1, <2>1, SMT DEF List
<1>2. CASE Get(t)
  <2>1. \E step \in Steps \ {"idle"} : pc' = [pc EXCEPT ![t] = step]
    <3>1. ASSUME NEW prior, FirstWrite(t, prior)
          PROVE  \E step \in Steps \ {"idle"} : pc' = [pc EXCEPT ![t] = step]
      <4>1. pc' = [pc EXCEPT ![t] = "putActive"] \/ pc' = [pc EXCEPT ![t] = "putRollover"]
        BY <3>1, Zenon DEF FirstWrite
      <4> QED BY <4>1
    <3>2. FirstWrite(t, existing'[t])
      BY <1>2, Zenon DEF Get
    <3> QED BY <3>1, <3>2, Zenon
  <2> QED BY <1>2, <2>1, SMT DEF Get
<1> QED BY <1>1, <1>2

\* A write stores a segment of the flush's version and of no other.
StoresOnly(t) ==
  /\ DOMAIN delta' = Version
  /\ \A v \in Version \ {ver[t]} : delta'[v] = delta[v]

LEMMA StoreShape ==
  ASSUME IInv, NEW t \in Thread, NEW n, StoreActive(t, n) \/ StoreRollover(t, n)
  PROVE  StoresOnly(t)
BY SMT DEF StoreActive, StoreRollover, StoresOnly

\* The flush goes on with the next batch, or returns with nothing left.
LEMMA AdvanceKeeps ==
  ASSUME IInv, NEW t \in Thread, NEW n, pc[t] # "idle", StoresOnly(t), Advance(t, n),
         UNCHANGED <<otherInNext, wbuf, version, ranks, retried, faults, crashes>>
  PROVE  IInv'
<1> DEFINE rest == SubSeq(pending[t], n + 1, Len(pending[t]))
<1>1. CASE rest = <<>> /\ FlushReturns(t, TRUE)
  <2>1. /\ pc' = [pc EXCEPT ![t] = "idle"] /\ pending' = [pending EXCEPT ![t] = <<>>]
        /\ ver' = [ver EXCEPT ![t] = 0] /\ UNCHANGED <<wbuf, writeVer>>
        /\ IF t = "checkpoint" THEN ckpt' = "snapshot" ELSE ckpt' = ckpt
    BY <1>1, SMT DEF FlushReturns
  <2>2. Shapes' /\ LockInv'
    BY <2>1, SMT DEF StoresOnly
  <2>3. ForwardInv'
    BY <2>1, SMT DEF StoresOnly
  <2> QED BY <2>2, <2>3
<1>2. CASE /\ rest # <<>>
           /\ Goto(t, "putRollover")
           /\ pending' = [pending EXCEPT ![t] = rest]
           /\ UNCHANGED <<ckpt, worker, ver, active, existing>>
  <2> HIDE DEF rest
  <2>1. Shapes' /\ LockInv'
    BY <1>2, SMT DEF StoresOnly
  <2>2. ForwardInv'
    BY <1>2, SMT DEF StoresOnly
  <2> QED BY <2>1, <2>2
<1> QED BY <1>1, <1>2 DEF Advance

LEMMA PutsKeep == ASSUME IInv, NEW t \in Thread, PutActive(t) \/ PutRollover(t) PROVE IInv'
<1>1. CASE PutActive(t)
  <2> DEFINE n == FitCount(pending[t], existing[t])
  <2>1. /\ pc[t] # "idle" /\ StoreActive(t, n) /\ Advance(t, n)
        /\ UNCHANGED <<otherInNext, wbuf, version, ranks, retried, faults, crashes>>
    BY <1>1, Zenon DEF PutActive
  <2> HIDE DEF n
  <2> QED BY <2>1, StoreShape, AdvanceKeeps
<1>2. CASE PutRollover(t)
  <2> DEFINE n == RolloverCount(pending[t])
  <2>1. /\ pc[t] # "idle" /\ StoreRollover(t, n) /\ Advance(t, n)
        /\ UNCHANGED <<otherInNext, wbuf, version, ranks, retried, faults, crashes>>
    BY <1>2, Zenon DEF PutRollover
  <2> HIDE DEF n
  <2> QED BY <2>1, StoreShape, AdvanceKeeps
<1> QED BY <1>1, <1>2

\* A flush that fails releases flushMu and restores the batch; the Checkpoint
\* that called it gives up.
LEMMA FailureKeeps ==
  ASSUME IInv, NEW t \in Thread, pc[t] # "idle", StoresOnly(t),
         RestorePending(t), FlushReturns(t, FALSE), UNCHANGED version
  PROVE  IInv'
<1>1. /\ pc' = [pc EXCEPT ![t] = "idle"] /\ pending' = [pending EXCEPT ![t] = <<>>]
      /\ ver' = [ver EXCEPT ![t] = 0] /\ UNCHANGED writeVer
      /\ IF t = "checkpoint" THEN ckpt' = "none" ELSE ckpt' = ckpt
  BY SMT DEF FlushReturns
<1>2. Shapes' /\ LockInv'
  BY <1>1, SMT DEF StoresOnly
<1>3. ForwardInv'
  BY <1>1, SMT DEF StoresOnly
<1> QED BY <1>2, <1>3

LEMMA FaultsKeep == ASSUME IInv, NEW t \in Thread, CallFails(t) \/ ResponseLost(t) PROVE IInv'
<1>1. CASE CallFails(t)
  BY <1>1, FailureKeeps DEF CallFails, StoresOnly
<1>2. CASE ResponseLost(t)
  <2>1. PICK n : StoreActive(t, n) \/ StoreRollover(t, n)
    BY <1>2, Zenon DEF ResponseLost
  <2>2. pc[t] # "idle"
    BY <1>2, Zenon DEF ResponseLost
  <2> QED BY <1>2, <2>1, <2>2, StoreShape, FailureKeeps DEF ResponseLost
<1> QED BY <1>1, <1>2

\* The other steps of Checkpoint.
LEMMA CheckpointKeeps ==
  ASSUME IInv, CkptBegin \/ CkptAcquired \/ CkptTaken \/ CkptFails \/ Snapshot \/ CkptDone
  PROVE  IInv'
BY SMT DEF CkptBegin, CkptAcquired, CkptTaken, CkptFails, Snapshot, CkptDone, WriteToNext

\* Other instances, the poller, Close and a crash.
LEMMA OthersKeep == ASSUME IInv, OtherWritesNext \/ PollFindsNext \/ Close \/ Crash PROVE IInv'
<1>1. CASE OtherWritesNext \/ PollFindsNext \/ Close
  BY <1>1, SMT DEF OtherWritesNext, PollFindsNext, Close
<1>2. CASE Crash
  BY <1>2, SMT DEF Crash, NextListed
<1> QED BY <1>1, <1>2

LEMMA NextIInv == IInv /\ [Next]_vars => IInv'
<1> SUFFICES ASSUME IInv, [Next]_vars PROVE IInv'
  OBVIOUS
<1>1. CASE \E size \in Sizes : Write(size)
  BY <1>1, WriteKeeps
<1>2. ASSUME NEW t \in Thread, Flush(t) PROVE IInv'
  BY <1>2, DrainKeeps, ReadsKeep, PutsKeep, FaultsKeep, Zenon DEF Flush, FlushCall
<1>3. CASE CkptBegin \/ CkptAcquired \/ CkptTaken \/ CkptFails \/ Snapshot \/ CkptDone
  BY <1>3, CheckpointKeeps, Zenon
<1>4. CASE OtherWritesNext \/ PollFindsNext \/ Close \/ Crash
  BY <1>4, OthersKeep, Zenon
<1>5. CASE UNCHANGED vars
  BY <1>5, SMT
<1> QED BY <1>1, <1>2, <1>3, <1>4, <1>5, Zenon DEF Next

\* The invariant holds of every state.
THEOREM FlushInvariant == Spec => []IInv
<1> HIDE DEF IInv, vars
<1> QED BY InitIInv, NextIInv, PTL DEF Spec

-----------------------------------------------------------------------------
(* The theorems *)

\* Every snapshot is taken with an empty buffer and no flush in progress.
THEOREM SnapshotIsFlushed == Spec => []SnapshotFlushed
<1>1. IInv => SnapshotFlushed
  <2> SUFFICES ASSUME IInv, ckpt = "publish"
               PROVE  Buffered = <<>> /\ \A t \in Thread : pc[t] = "idle"
    BY Zenon DEF SnapshotFlushed
  <2>1. pending["flusher"] = <<>> /\ pending["checkpoint"] = <<>> /\ wbuf = <<>>
    BY SMT
  <2>2. Buffered = <<>>
    BY <2>1, SMT DEF Buffered
  <2> QED BY <2>2, SMT
<1> QED BY FlushInvariant, <1>1, PTL

\* No write to version N follows one to version N+1, restarts included: a
\* store goes to the version of its flush, and the other steps keep delta.
THEOREM VersionMovesForward == Spec => VersionForward
<1>1. IInv /\ [Next]_vars => [delta[1] # <<>> => delta'[0] = delta[0]]_vars
  <2> SUFFICES ASSUME IInv, Next, delta[1] # <<>> PROVE delta'[0] = delta[0]
    BY SMT
  <2>1. CASE \E size \in Sizes : Write(size)
    BY <2>1, Zenon DEF Write
  <2>2. ASSUME NEW t \in Thread, Flush(t) PROVE delta'[0] = delta[0]
    <3>1. CASE Drain(t) \/ DrainEmpty(t) \/ List(t) \/ Get(t) \/ CallFails(t)
      BY <3>1, Zenon DEF Drain, DrainEmpty, List, Get, CallFails
    <3>2. CASE PutActive(t) \/ PutRollover(t) \/ ResponseLost(t)
      <4>1. pc[t] # "idle" /\ \E n : StoreActive(t, n) \/ StoreRollover(t, n)
        BY <3>2, Zenon DEF PutActive, PutRollover, ResponseLost
      <4>2. StoresOnly(t) /\ ver[t] = 1
        BY <4>1, StoreShape, SMT
      <4> QED BY <4>2, SMT DEF StoresOnly
    <3> QED BY <2>2, <3>1, <3>2, Zenon DEF Flush, FlushCall
  <2>3. CASE CkptBegin \/ CkptAcquired \/ CkptTaken \/ CkptFails \/ Snapshot \/ CkptDone
    BY <2>3, Zenon DEF CkptBegin, CkptAcquired, CkptTaken, CkptFails, Snapshot, CkptDone
  <2>4. CASE OtherWritesNext \/ PollFindsNext \/ Close \/ Crash
    BY <2>4, Zenon DEF OtherWritesNext, PollFindsNext, Close, Crash
  <2> QED BY <2>1, <2>2, <2>3, <2>4, Zenon DEF Next
<1> HIDE DEF vars
<1> QED BY FlushInvariant, <1>1, PTL DEF Spec, VersionForward

-----------------------------------------------------------------------------
(* Types, and what a flush in progress knows *)

HIDE DEF IInv, Shapes, LockInv, ForwardInv

\* TypeOK in the parts that the provers take one at a time.
Segments == delta \in [Version -> Seq(Seq(Record))]

Shared ==
  /\ wbuf \in Seq(Record)
  /\ writeVer \in Version
  /\ ckpt \in {"none", "acquire", "flush", "snapshot", "publish"}
  /\ worker \in {"running", "closing", "final", "clean", "error"}

Locals ==
  /\ pc \in [Thread -> Steps]
  /\ pending \in [Thread -> Seq(Record)]
  /\ ver \in [Thread -> Version]
  /\ active \in [Thread -> Nat]
  /\ existing \in [Thread -> Seq(Record)]

History ==
  /\ accepted \in 0 .. MaxAccepted
  /\ dropped \subseteq 1 .. MaxAccepted
  /\ retried \subseteq 1 .. MaxAccepted
  /\ beforeClose \in 0 .. MaxAccepted
  /\ covered \in 0 .. MaxAccepted
  /\ faults \in 0 .. MaxFaults
  /\ crashes \in 0 .. MaxCrashes

Flags == otherInNext \in BOOLEAN /\ nextVerExists \in BOOLEAN /\ hasCheckpointed \in BOOLEAN

Data == Segments /\ Shared /\ Locals /\ History

\* What a thread knows of its flush: the active segment is the last one and
\* nobody else extends it, and a flush that writes to it has records that fit.
Knows(t) ==
  /\ pc[t] # "idle" => pending[t] # <<>>
  /\ pc[t] \in {"idle", "list"} => existing[t] = <<>> /\ active[t] = 0
  /\ pc[t] \in {"get", "putActive"} => active[t] = Len(delta[ver[t]])
  /\ pc[t] = "get" => active[t] # 0 /\ existing[t] = <<>>
  /\ pc[t] = "putActive" => /\ FitCount(pending[t], existing[t]) > 0
                            /\ active[t] = 0 => existing[t] = <<>>

FlushInv == \A t \in Thread : Knows(t)

KInv == Data /\ FlushInv
JInv == IInv /\ KInv

LEMMA InitKInv == Init => KInv
<1> SUFFICES ASSUME Init PROVE KInv
  OBVIOUS
<1>1. Segments /\ Shared
  BY SMT DEF Init, Segments, Shared
<1>2. Locals /\ History
  BY FlushAssumption, SMT DEF FlushAssumption, Init, Locals, History
<1>3. FlushInv
  BY SMT DEF Init, FlushInv, Knows
<1> QED BY <1>1, <1>2, <1>3, Zenon DEF KInv, Data

HIDE DEF Thread, Version, Steps

\* The first n of recs join a segment that holds prior within both caps.
Fits(recs, prior, n) ==
  /\ Len(prior) + n <= MaxRecords
  /\ Bytes(prior) + Bytes(SubSeq(recs, 1, n)) <= MaxBytes

\* A count of records that fit is a count, they do fit, and no more would.
LEMMA FitCountFits ==
  ASSUME NEW recs \in Seq(Record), NEW prior
  PROVE  /\ FitCount(recs, prior) \in 0 .. Len(recs)
         /\ FitCount(recs, prior) > 0 => Fits(recs, prior, FitCount(recs, prior))
         /\ \A n \in 1 .. Len(recs) : Fits(recs, prior, n) => n <= FitCount(recs, prior)
<1> DEFINE Fit(n) == Fits(recs, prior, n)
           T == {0} \cup {n \in 1 .. Len(recs) : Fit(n)}
           len == Len(recs)
<1>1. len \in Nat
  OBVIOUS
<1>2. T \subseteq 0 .. len /\ T # {}
  <2> HIDE DEF Fit
  <2> QED BY <1>1
<1>3. \E t \in T : \A u \in T : u <= t
  <2> HIDE DEF T, len
  <2> QED BY <1>1, <1>2, LargestNat
<1>4. \E t \in T : \A u \in T : t >= u
  <2> HIDE DEF T
  <2> QED BY <1>1, <1>2, <1>3
<1>5. Max(T) \in T /\ \A u \in T : Max(T) >= u
  <2> HIDE DEF T
  <2> QED BY <1>4, Zenon DEF Max
<1>6. FitCount(recs, prior) = Max(T)
  BY Zenon DEF FitCount, Fits
<1>7. FitCount(recs, prior) \in T /\ \A u \in T : FitCount(recs, prior) >= u
  BY <1>5, <1>6
<1> HIDE DEF Fit
<1>8. FitCount(recs, prior) \in 0 .. len
  BY <1>1, <1>7
<1>9. FitCount(recs, prior) > 0 => Fit(FitCount(recs, prior))
  BY <1>7
<1>10. \A n \in 1 .. len : Fit(n) => n <= FitCount(recs, prior)
  BY <1>1, <1>7, <1>8
<1> QED BY <1>8, <1>9, <1>10, Zenon DEF Fit

\* The batch and the rest of what a flush has in hand.
LEMMA Split ==
  ASSUME NEW recs \in Seq(Record), NEW n \in 0 .. Len(recs)
  PROVE  /\ SubSeq(recs, 1, n) \in Seq(Record)
         /\ SubSeq(recs, n + 1, Len(recs)) \in Seq(Record)
         /\ Len(SubSeq(recs, 1, n)) = n
         /\ recs = SubSeq(recs, 1, n) \o SubSeq(recs, n + 1, Len(recs))
<1>1. SubSeq(recs, 1, n) \in Seq(Record) /\ SubSeq(recs, n + 1, Len(recs)) \in Seq(Record)
  OBVIOUS
<1>2. Len(SubSeq(recs, 1, n)) = n
  OBVIOUS
<1>3. SubSeq(recs, 1, n) \o SubSeq(recs, n + 1, Len(recs)) = SubSeq(recs, 1, Len(recs))
  <2>1. 1 \in 1 .. Len(recs) + 1 /\ n \in 1 - 1 .. Len(recs) /\ Len(recs) \in n .. Len(recs)
    OBVIOUS
  <2> QED BY <2>1, ConcatAdjacentSubSeq
<1>4. SubSeq(recs, 1, Len(recs)) = recs
  BY SubSeqFull
<1> QED BY <1>1, <1>2, <1>3, <1>4

\* The first batch of what is left is some of it.
LEMMA RolloverFits ==
  ASSUME NEW recs \in Seq(Record), recs # <<>>
  PROVE  RolloverCount(recs) \in 0 .. Len(recs)
<1>1. 1 \in 0 .. Len(recs)
  OBVIOUS
<1> QED BY <1>1, FitCountFits, Zenon DEF RolloverCount


-----------------------------------------------------------------------------
(* Every step keeps the types and what a flush knows *)

\* While one thread flushes, the other has nothing in hand.
LEMMA OthersIdle ==
  ASSUME JInv, NEW t \in Thread, pc[t] # "idle", NEW u \in Thread \ {t}
  PROVE  pc[u] = "idle" /\ pending[u] = <<>>
BY SMT DEF JInv, IInv, LockInv

\* The types of what a thread reads.
LEMMA Read ==
  ASSUME JInv
  PROVE  /\ wbuf \in Seq(Record)
         /\ \A v \in Version : delta[v] \in Seq(Seq(Record))
         /\ \A t \in Thread : /\ pending[t] \in Seq(Record)
                              /\ existing[t] \in Seq(Record)
                              /\ ver[t] \in Version
                              /\ active[t] \in Nat
                              /\ Knows(t)
<1>1. wbuf \in Seq(Record) /\ \A v \in Version : delta[v] \in Seq(Seq(Record))
  <2>1. delta \in [Version -> Seq(Seq(Record))] /\ wbuf \in Seq(Record)
    BY Zenon DEF JInv, KInv, Data, Segments, Shared
  <2> QED BY <2>1, Zenon
<1>2. \A t \in Thread : /\ pending[t] \in Seq(Record)
                        /\ existing[t] \in Seq(Record)
                        /\ ver[t] \in Version
                        /\ active[t] \in Nat
  BY Zenon DEF JInv, KInv, Data, Locals
<1>3. \A t \in Thread : Knows(t)
  BY Zenon DEF JInv, KInv, FlushInv
<1> QED BY <1>1, <1>2, <1>3, Zenon

\* The batch of a write is the beginning of what the flush has in hand.
LEMMA BatchInRange ==
  ASSUME JInv, NEW t \in Thread, pc[t] # "idle"
  PROVE  /\ FitCount(pending[t], existing[t]) \in 0 .. Len(pending[t])
         /\ RolloverCount(pending[t]) \in 0 .. Len(pending[t])
<1>1. pending[t] \in Seq(Record) /\ pending[t] # <<>>
  BY Read, Zenon DEF Knows
<1> QED BY <1>1, FitCountFits, RolloverFits, Zenon

\* One value of a function is replaced.
LEMMA OneReplaced ==
  ASSUME NEW A, NEW B, NEW f \in [A -> B], NEW a \in A, NEW e \in B, NEW g,
         g = [f EXCEPT ![a] = e]
  PROVE  g \in [A -> B] /\ DOMAIN g = A /\ g[a] = e /\ \A w \in A \ {a} : g[w] = f[w]
OBVIOUS

\* The locals of one thread become these.
Become(t, c, p, v, a, e) ==
  /\ pc' = [pc EXCEPT ![t] = c] /\ pending' = [pending EXCEPT ![t] = p]
  /\ ver' = [ver EXCEPT ![t] = v] /\ active' = [active EXCEPT ![t] = a]
  /\ existing' = [existing EXCEPT ![t] = e]

Became(t, c, p, v, a, e) ==
  /\ pc'[t] = c /\ pending'[t] = p /\ ver'[t] = v /\ active'[t] = a /\ existing'[t] = e
  /\ \A u \in Thread \ {t} : /\ pc'[u] = pc[u] /\ pending'[u] = pending[u] /\ ver'[u] = ver[u]
                             /\ active'[u] = active[u] /\ existing'[u] = existing[u]

LEMMA LocalsKept ==
  ASSUME JInv, NEW t \in Thread, NEW c \in Steps, NEW p \in Seq(Record), NEW v \in Version,
         NEW a \in Nat, NEW e \in Seq(Record), Become(t, c, p, v, a, e)
  PROVE  Locals' /\ Became(t, c, p, v, a, e)
<1> USE DEF Become
<1>1. Locals
  BY Zenon DEF JInv, KInv, Data
<1> DEFINE T == Seq(Record)
<1>2. pending \in [Thread -> T] /\ existing \in [Thread -> T] /\ p \in T /\ e \in T
  BY <1>1, Zenon DEF Locals
<1> HIDE DEF T
<1>3. /\ pc' \in [Thread -> Steps] /\ pc'[t] = c /\ \A u \in Thread \ {t} : pc'[u] = pc[u]
  BY <1>1, OneReplaced DEF Locals
<1>4. /\ pending' \in [Thread -> T] /\ pending'[t] = p
      /\ \A u \in Thread \ {t} : pending'[u] = pending[u]
  BY <1>2, OneReplaced
<1>5. /\ existing' \in [Thread -> T] /\ existing'[t] = e
      /\ \A u \in Thread \ {t} : existing'[u] = existing[u]
  BY <1>2, OneReplaced
<1>6. /\ ver' \in [Thread -> Version] /\ ver'[t] = v /\ \A u \in Thread \ {t} : ver'[u] = ver[u]
  BY <1>1, OneReplaced DEF Locals
<1>7. /\ active' \in [Thread -> Nat] /\ active'[t] = a /\ \A u \in Thread \ {t} : active'[u] = active[u]
  BY <1>1, OneReplaced DEF Locals
<1> QED BY <1>3, <1>4, <1>5, <1>6, <1>7, Zenon DEF Locals, T, Became

\* A thread that is idle knows nothing of its flush.
LEMMA IdleKnows ==
  ASSUME NEW t, pc[t] = "idle", existing[t] = <<>>, active[t] = 0 PROVE Knows(t)
BY SMT DEF Knows

\* The other threads keep what they know while one thread flushes.
LEMMA OthersKnow ==
  ASSUME JInv, NEW t \in Thread, pc[t] # "idle", NEW u \in Thread \ {t},
         pc'[u] = pc[u], existing'[u] = existing[u], active'[u] = active[u]
  PROVE  Knows(u)'
<1>1. pc'[u] = "idle"
  BY OthersIdle, Zenon
<1>2. existing'[u] = <<>> /\ active'[u] = 0
  BY <1>1, Read, Zenon DEF Knows
<1> QED BY <1>1, <1>2, SMT DEF Knows

\* A step that leaves the delta branch and the flush alone.
LEMMA FlushUntouched ==
  ASSUME JInv, UNCHANGED <<delta, pc, pending, ver, active, existing>>
  PROVE  Segments' /\ Locals' /\ FlushInv'
<1>1. Segments' /\ Locals'
  BY Zenon DEF JInv, KInv, Data, Segments, Locals
<1>2. FlushInv'
  BY SMT DEF JInv, KInv, FlushInv, Knows
<1> QED BY <1>1, <1>2

\* flush returns: it has nothing in hand and knows of no segment.
LEMMA ReturnKeeps ==
  ASSUME JInv, NEW t \in Thread, pc[t] # "idle", NEW ok, FlushReturns(t, ok)
  PROVE  /\ Locals' /\ FlushInv'
         /\ ckpt' \in {"none", "acquire", "flush", "snapshot", "publish"}
         /\ worker' \in {"running", "closing", "final", "clean", "error"}
<1>1. /\ pc' = [pc EXCEPT ![t] = "idle"] /\ pending' = [pending EXCEPT ![t] = <<>>]
      /\ ver' = [ver EXCEPT ![t] = 0] /\ active' = [active EXCEPT ![t] = 0]
      /\ existing' = [existing EXCEPT ![t] = <<>>]
      /\ ckpt' \in {ckpt, "none", "snapshot"} /\ worker' \in {worker, "clean", "error"}
      /\ Become(t, "idle", <<>>, 0, 0, <<>>)
  BY Zenon DEF FlushReturns, Goto, Become
<1>2. <<>> \in Seq(Record) /\ "idle" \in Steps /\ 0 \in Version /\ 0 \in Nat
  BY SMT DEF Steps, Version
<1>3. Locals' /\ Became(t, "idle", <<>>, 0, 0, <<>>)
  BY <1>1, <1>2, LocalsKept, Zenon
<1>4. Knows(t)'
  BY <1>3, SMT DEF Knows, Became
<1>5. \A u \in Thread \ {t} : Knows(u)'
  BY <1>3, OthersKnow, Zenon DEF Became
<1>6. FlushInv'
  BY <1>4, <1>5, Zenon DEF FlushInv
<1>7. /\ ckpt' \in {"none", "acquire", "flush", "snapshot", "publish"}
      /\ worker' \in {"running", "closing", "final", "clean", "error"}
  BY <1>1, Zenon DEF JInv, KInv, Data, Shared
<1> QED BY <1>3, <1>6, <1>7, Zenon

\* A write puts the batch behind everything that its version stores.
Puts(t, n) ==
  /\ delta' \in [Version -> Seq(Seq(Record))]
  /\ StoresOnly(t)
  /\ FlattenSeq(delta'[ver[t]]) = FlattenSeq(delta[ver[t]]) \o SubSeq(pending[t], 1, n)

LEMMA StorePuts ==
  ASSUME JInv, NEW t \in Thread, NEW n \in 0 .. Len(pending[t]),
         \/ pc[t] = "putActive" /\ StoreActive(t, n)
         \/ pc[t] = "putRollover" /\ StoreRollover(t, n)
  PROVE  Puts(t, n)
<1> DEFINE b == SubSeq(pending[t], 1, n)
           v == ver[t]
<1>1. pending[t] \in Seq(Record) /\ v \in Version /\ delta[v] \in Seq(Seq(Record))
  BY Read, Zenon
<1>2. b \in Seq(Record)
  BY <1>1, Split, Zenon
<1>3. delta' = [delta EXCEPT ![v] = Append(delta[v], b)] => Puts(t, n)
  <2> HAVE delta' = [delta EXCEPT ![v] = Append(delta[v], b)]
  <2>1. Append(delta[v], b) \in Seq(Seq(Record))
    <3> DEFINE T == Seq(Record)
    <3> HIDE DEF b, v, T
    <3>1. delta[v] \in Seq(T) /\ b \in T
      BY <1>1, <1>2 DEF T
    <3>2. Append(delta[v], b) \in Seq(T)
      BY <3>1, AppendProperties
    <3> QED BY <3>2 DEF T
  <2>2. FlattenSeq(Append(delta[v], b)) = FlattenSeq(delta[v]) \o b
    <3> HIDE DEF b, v
    <3> QED BY <1>1, <1>2, FlattenAppend
  <2> HIDE DEF b
  <2>3. /\ delta' \in [Version -> Seq(Seq(Record))] /\ DOMAIN delta' = Version
        /\ delta'[v] = Append(delta[v], b) /\ \A w \in Version \ {v} : delta'[w] = delta[w]
    <3> DEFINE e == Append(delta[v], b)
               U == Seq(Seq(Record))
    <3>1. delta \in [Version -> U] /\ v \in Version /\ e \in U /\ delta' = [delta EXCEPT ![v] = e]
      BY <1>1, <2>1, Zenon DEF JInv, KInv, Data, Segments
    <3> HIDE DEF e, U, v
    <3> QED BY <3>1, OneReplaced DEF e, U
  <2> QED BY <2>2, <2>3, Zenon DEF Puts, StoresOnly, b
<1>4. CASE pc[t] = "putRollover" /\ StoreRollover(t, n)
  BY <1>3, <1>4, Zenon DEF StoreRollover
<1>5. CASE pc[t] = "putActive" /\ StoreActive(t, n)
  <2>1. CASE active[t] = 0 /\ delta[v] = <<>> /\ delta' = [delta EXCEPT ![v] = <<b>>]
    <3>1. <<b>> = Append(delta[v], b)
      <4> HIDE DEF b
      <4> QED BY <2>1
    <3> QED BY <1>3, <2>1, <3>1, Zenon
  <2>2. CASE /\ active[t] # 0 /\ delta[v][active[t]] = existing[t]
             /\ delta' = [delta EXCEPT ![v][active[t]] = existing[t] \o b]
    <3>1. active[t] = Len(delta[v]) /\ delta[v] # <<>>
      BY <1>1, <1>5, <2>2, Read, SMT DEF Knows
    <3> DEFINE segs == delta[v]
               longer == [segs EXCEPT ![Len(segs)] = segs[Len(segs)] \o b]
    <3>2. delta' = [delta EXCEPT ![v] = longer]
      BY <2>2, <3>1, Zenon
    <3>3. longer \in Seq(Seq(Record))
      <4> DEFINE T == Seq(Record)
      <4>1. Len(segs) \in 1 .. Len(segs) /\ segs[Len(segs)] \o b \in T
        <5> HIDE DEF b, v
        <5> QED BY <1>1, <1>2, <3>1
      <4>2. segs \in Seq(T)
        BY <1>1
      <4> HIDE DEF T, segs, b
      <4> QED BY <4>1, <4>2, ExceptSeq DEF T
    <3>4. FlattenSeq(longer) = FlattenSeq(segs) \o b
      <4>1. segs \in Seq(Seq(Record)) /\ segs # <<>>
        BY <1>1, <3>1
      <4> HIDE DEF b, segs
      <4> QED BY <1>2, <4>1, FlattenExtend
    <3> HIDE DEF b, longer
    <3>5. /\ delta' \in [Version -> Seq(Seq(Record))] /\ DOMAIN delta' = Version
          /\ delta'[v] = longer /\ \A w \in Version \ {v} : delta'[w] = delta[w]
      <4> DEFINE U == Seq(Seq(Record))
      <4>1. delta \in [Version -> U] /\ v \in Version /\ longer \in U
        BY <1>1, <3>3, Zenon DEF JInv, KInv, Data, Segments
      <4> HIDE DEF U, v
      <4> QED BY <3>2, <4>1, OneReplaced DEF U
    <3> QED BY <3>4, <3>5, Zenon DEF Puts, StoresOnly, b
  <2> QED BY <1>5, <2>1, <2>2, Zenon DEF StoreActive
<1> QED BY <1>4, <1>5

\* The flush goes on with what is left when the batch is stored.
LEMMA AdvanceTyped ==
  ASSUME JInv, NEW t \in Thread, NEW n \in 0 .. Len(pending[t]), pc[t] # "idle",
         Puts(t, n), Advance(t, n), UNCHANGED <<wbuf, writeVer, ranks, retried, faults, crashes>>
  PROVE  KInv'
<1> DEFINE rest == SubSeq(pending[t], n + 1, Len(pending[t]))
<1>1. Segments' /\ History'
  BY Zenon DEF Puts, Segments, History, JInv, KInv, Data
<1>2. CASE rest = <<>> /\ FlushReturns(t, TRUE)
  <2>1. /\ Locals' /\ FlushInv'
        /\ ckpt' \in {"none", "acquire", "flush", "snapshot", "publish"}
        /\ worker' \in {"running", "closing", "final", "clean", "error"}
    BY <1>2, ReturnKeeps, Zenon
  <2>2. Shared'
    BY <2>1, Zenon DEF Shared, JInv, KInv, Data
  <2> QED BY <1>1, <2>1, <2>2, Zenon DEF KInv, Data
<1>3. CASE /\ rest # <<>>
           /\ Goto(t, "putRollover")
           /\ pending' = [pending EXCEPT ![t] = rest]
           /\ UNCHANGED <<ckpt, worker, ver, active, existing>>
  <2>1. rest \in Seq(Record)
    BY Read, Split, Zenon
  <2> HIDE DEF rest
  <2>2. Locals' /\ pc'[t] = "putRollover" /\ pending'[t] = rest
        /\ \A u \in Thread \ {t} : /\ pc'[u] = pc[u] /\ pending'[u] = pending[u]
    <3>1. "putRollover" \in Steps
      BY DEF Steps
    <3>2. Locals
      BY Zenon DEF JInv, KInv, Data
    <3>3. /\ pc' \in [Thread -> Steps] /\ pc'[t] = "putRollover"
          /\ \A u \in Thread \ {t} : pc'[u] = pc[u]
      BY <1>3, <3>1, <3>2, OneReplaced DEF Locals, Goto
    <3> DEFINE T == Seq(Record)
    <3>4. pending \in [Thread -> T] /\ rest \in T
      BY <2>1, <3>2, Zenon DEF Locals
    <3> HIDE DEF T
    <3>5. /\ pending' \in [Thread -> T] /\ pending'[t] = rest
          /\ \A u \in Thread \ {t} : pending'[u] = pending[u]
      BY <1>3, <3>4, OneReplaced
    <3>6. Locals'
      BY <1>3, <3>2, <3>3, <3>5, Zenon DEF Locals, T
    <3> QED BY <3>3, <3>5, <3>6, Zenon
  <2>3. Shared'
    BY <1>3, Zenon DEF Shared, JInv, KInv, Data
  <2>4. Knows(t)'
    BY <1>3, <2>2, SMT DEF Knows
  <2>5. \A u \in Thread \ {t} : Knows(u)'
    BY <1>3, <2>2, OthersKnow, Zenon
  <2>6. FlushInv'
    BY <2>4, <2>5, Zenon DEF FlushInv
  <2> QED BY <1>1, <2>2, <2>3, <2>6, Zenon DEF KInv, Data
<1> QED BY <1>2, <1>3, Zenon DEF Advance

\* What a step of flush writes.
Stores(t, n) ==
  /\ n \in 0 .. Len(pending[t])
  /\ pc[t] # "idle"
  /\ Puts(t, n)

LEMMA PutStores ==
  ASSUME JInv, NEW t \in Thread, PutActive(t) \/ PutRollover(t)
  PROVE  /\ \E n : Stores(t, n) /\ Advance(t, n)
         /\ UNCHANGED <<otherInNext, wbuf, version, ranks, retried, faults, crashes>>
<1>1. CASE PutActive(t)
  <2> DEFINE n == FitCount(pending[t], existing[t])
  <2>1. /\ pc[t] = "putActive" /\ StoreActive(t, n) /\ Advance(t, n)
        /\ UNCHANGED <<otherInNext, wbuf, version, ranks, retried, faults, crashes>>
    BY <1>1, Zenon DEF PutActive
  <2>2. pc[t] # "idle"
    BY <2>1
  <2>3. n \in 0 .. Len(pending[t])
    BY <2>2, BatchInRange, Zenon
  <2> HIDE DEF n
  <2>4. Puts(t, n)
    BY <2>1, <2>3, StorePuts, Zenon
  <2> QED BY <2>1, <2>2, <2>3, <2>4, Zenon DEF Stores
<1>2. CASE PutRollover(t)
  <2> DEFINE n == RolloverCount(pending[t])
  <2>1. /\ pc[t] = "putRollover" /\ StoreRollover(t, n) /\ Advance(t, n)
        /\ UNCHANGED <<otherInNext, wbuf, version, ranks, retried, faults, crashes>>
    BY <1>2, Zenon DEF PutRollover
  <2>2. pc[t] # "idle"
    BY <2>1
  <2>3. n \in 0 .. Len(pending[t])
    BY <2>2, BatchInRange, Zenon
  <2> HIDE DEF n
  <2>4. Puts(t, n)
    BY <2>1, <2>3, StorePuts, Zenon
  <2> QED BY <2>1, <2>2, <2>3, <2>4, Zenon DEF Stores
<1> QED BY <1>1, <1>2

LEMMA LostStores ==
  ASSUME JInv, NEW t \in Thread, ResponseLost(t)
  PROVE  /\ \E n : Stores(t, n) /\ retried' = retried \cup Ranks(SubSeq(pending[t], 1, n))
         /\ faults < MaxFaults /\ faults' = faults + 1
         /\ RestorePending(t) /\ FlushReturns(t, FALSE)
         /\ UNCHANGED <<otherInNext, version, ranks, crashes>>
<1>1. PICK n \in 1 .. Len(pending[t]) :
        /\ \/ pc[t] = "putActive" /\ StoreActive(t, n)
           \/ pc[t] = "putRollover" /\ StoreRollover(t, n)
        /\ retried' = retried \cup Ranks(SubSeq(pending[t], 1, n))
  BY Zenon DEF ResponseLost
<1>2. n \in 0 .. Len(pending[t]) /\ pc[t] # "idle"
  BY <1>1, SMT
<1>3. Stores(t, n)
  BY <1>1, <1>2, StorePuts, Zenon DEF Stores
<1>4. /\ faults < MaxFaults /\ faults' = faults + 1
      /\ RestorePending(t) /\ FlushReturns(t, FALSE)
      /\ UNCHANGED <<otherInNext, version, ranks, crashes>>
  BY Zenon DEF ResponseLost
<1> QED BY <1>1, <1>3, <1>4, Zenon

LEMMA WriteTyped == ASSUME JInv, NEW size \in Sizes, Write(size) PROVE KInv'
<1> DEFINE r == [rank |-> accepted + 1, size |-> size]
<1>1. /\ accepted < MaxAccepted /\ accepted' = accepted + 1 /\ wbuf' = Append(wbuf, r)
      /\ UNCHANGED <<delta, pc, pending, ver, active, existing>>
      /\ UNCHANGED <<writeVer, ckpt, worker, dropped, beforeClose, covered, retried, faults, crashes>>
  BY Zenon DEF Write
<1>2. accepted' \in 0 .. MaxAccepted /\ accepted + 1 \in 1 .. MaxAccepted
  <2>1. accepted \in 0 .. MaxAccepted /\ MaxAccepted \in Nat
    BY FlushAssumption, Zenon DEF FlushAssumption, JInv, KInv, Data, History
  <2> QED BY <1>1, <2>1
<1>3. r \in Record
  BY <1>2, SMT DEF Record
<1> HIDE DEF r
<1>4. Append(wbuf, r) \in Seq(Record)
  BY <1>3, Read
<1>5. Shared' /\ History'
  BY <1>1, <1>2, <1>4, Zenon DEF Shared, History, JInv, KInv, Data
<1>6. Segments' /\ Locals' /\ FlushInv'
  BY <1>1, FlushUntouched, Zenon
<1> QED BY <1>5, <1>6, Zenon DEF KInv, Data

LEMMA DrainTyped == ASSUME JInv, NEW t \in Thread, Drain(t) \/ DrainEmpty(t) PROVE KInv'
<1>1. CASE Drain(t)
  <2>1. /\ pc' = [pc EXCEPT ![t] = "list"] /\ pending' = [pending EXCEPT ![t] = wbuf]
        /\ writeVer' \in {1, writeVer} /\ ver' = [ver EXCEPT ![t] = writeVer']
        /\ wbuf # <<>> /\ wbuf' = <<>> /\ pc[t] = "idle" /\ \A u \in Thread \ {t} : pc[u] = "idle"
        /\ worker' \in {worker, "final"}
        /\ UNCHANGED <<delta, ckpt, active, existing, ranks, retried, faults, crashes>>
    BY <1>1, Zenon DEF Drain, FlushFree, CallsFlush, Tick, Final, Goto
  <2>2. /\ <<>> \in Seq(Record) /\ "list" \in Steps /\ writeVer' \in Version
    <3>1. writeVer \in Version
      BY Zenon DEF JInv, KInv, Data, Shared
    <3> QED BY <2>1, <3>1 DEF Steps, Version
  <2>3. Shared' /\ Segments' /\ History'
    BY <2>1, <2>2, Zenon DEF Shared, Segments, History, JInv, KInv, Data
  <2>4. Locals
    BY Zenon DEF JInv, KInv, Data
  <2>5. /\ pc' \in [Thread -> Steps] /\ pc'[t] = "list" /\ \A u \in Thread \ {t} : pc'[u] = pc[u]
    BY <2>1, <2>2, <2>4, OneReplaced DEF Locals
  <2>6. /\ ver' \in [Thread -> Version]
    BY <2>1, <2>2, <2>4, OneReplaced DEF Locals
  <2>7. /\ pending' \in [Thread -> Seq(Record)] /\ pending'[t] = wbuf
    <3> DEFINE T == Seq(Record)
    <3>1. pending \in [Thread -> T] /\ wbuf \in T
      BY <2>4, Read, Zenon DEF Locals
    <3> HIDE DEF T
    <3>2. pending' \in [Thread -> T] /\ pending'[t] = wbuf
      BY <2>1, <3>1, OneReplaced
    <3> QED BY <3>2 DEF T
  <2>8. Locals'
    BY <2>1, <2>4, <2>5, <2>6, <2>7, Zenon DEF Locals
  <2>9. \A u \in Thread : existing'[u] = <<>> /\ active'[u] = 0
    BY <2>1, Read, Zenon DEF Knows
  <2>10. Knows(t)'
    BY <2>1, <2>5, <2>7, <2>9, SMT DEF Knows
  <2>11. \A u \in Thread \ {t} : Knows(u)'
    BY <2>1, <2>5, <2>9, SMT DEF Knows
  <2>12. FlushInv'
    BY <2>10, <2>11, Zenon DEF FlushInv
  <2> QED BY <2>3, <2>8, <2>12, Zenon DEF KInv, Data
<1>2. CASE DrainEmpty(t)
  <2>1. /\ UNCHANGED <<delta, pc, pending, ver, active, existing>>
        /\ UNCHANGED <<wbuf, writeVer, ranks, retried, faults, crashes>>
        /\ worker' \in {worker, "clean"} /\ ckpt' \in {ckpt, "snapshot"}
    BY <1>2, Zenon DEF DrainEmpty
  <2>2. Shared' /\ History'
    BY <2>1, Zenon DEF Shared, History, JInv, KInv, Data
  <2> QED BY <2>1, <2>2, FlushUntouched, Zenon DEF KInv, Data
<1> QED BY <1>1, <1>2

\* The next step of the first write, as the fit of what was read decides.
LEMMA FirstWriteGoes ==
  ASSUME NEW t \in Thread, NEW prior, FirstWrite(t, prior)
  PROVE  \/ pc' = [pc EXCEPT ![t] = "putActive"] /\ FitCount(pending[t], prior) > 0
         \/ pc' = [pc EXCEPT ![t] = "putRollover"]
BY Zenon DEF FirstWrite, Goto

LEMMA ReadsTyped == ASSUME JInv, NEW t \in Thread, List(t) \/ Get(t) PROVE KInv'
<1> DEFINE segs == delta[ver[t]]
<1>1. segs \in Seq(Seq(Record)) /\ ver[t] \in Version /\ Knows(t)
  BY Read, Zenon
<1>2. Locals
  BY Zenon DEF JInv, KInv, Data
<1>3. ASSUME NEW c \in Steps \ {"idle"}, pc' = [pc EXCEPT ![t] = c]
      PROVE  /\ pc' \in [Thread -> Steps] /\ pc'[t] = c
             /\ \A u \in Thread \ {t} : pc'[u] = pc[u]
  BY <1>2, <1>3, OneReplaced DEF Locals
<1>4. CASE List(t)
  <2>1. /\ pc[t] = "list" /\ active' = [active EXCEPT ![t] = Len(segs)]
        /\ UNCHANGED <<delta, pending, ver, existing>>
        /\ UNCHANGED <<wbuf, writeVer, ckpt, worker, ranks, retried, faults, crashes>>
    BY <1>4, Zenon DEF List
  <2>2. PICK c \in {"get", "putActive", "putRollover"} :
          /\ pc' = [pc EXCEPT ![t] = c]
          /\ c = "get" => segs # <<>>
          /\ c = "putActive" => FitCount(pending[t], <<>>) > 0
    <3>1. \/ pc' = [pc EXCEPT ![t] = "get"] /\ segs # <<>>
          \/ pc' = [pc EXCEPT ![t] = "putActive"] /\ FitCount(pending[t], <<>>) > 0
          \/ pc' = [pc EXCEPT ![t] = "putRollover"]
      BY <1>4, FirstWriteGoes, Zenon DEF List, Goto
    <3> HIDE DEF segs
    <3> QED BY <3>1
  <2>3. c \in Steps \ {"idle"}
    BY DEF Steps
  <2>4. Len(segs) \in Nat /\ (segs # <<>> => Len(segs) # 0)
    <3> HIDE DEF segs
    <3> QED BY <1>1
  <2>5. active' \in [Thread -> Nat] /\ active'[t] = Len(segs)
        /\ \A u \in Thread \ {t} : active'[u] = active[u]
    <3> HIDE DEF segs
    <3> QED BY <1>2, <2>1, <2>4, OneReplaced DEF Locals
  <2>6. /\ pc' \in [Thread -> Steps] /\ pc'[t] = c
        /\ \A u \in Thread \ {t} : pc'[u] = pc[u]
    BY <1>3, <2>2, <2>3, Zenon
  <2>7. Locals'
    BY <1>2, <2>1, <2>5, <2>6, Zenon DEF Locals
  <2>8. Segments' /\ Shared' /\ History'
    BY <2>1, Zenon DEF Segments, Shared, History, JInv, KInv, Data
  <2>9. existing'[t] = <<>> /\ pending'[t] = pending[t] /\ pending[t] # <<>> /\ pc[t] # "idle"
        /\ delta'[ver'[t]] = segs
    BY <1>1, <2>1, SMT DEF Knows
  <2>10. Knows(t)'
    <3> HIDE DEF segs
    <3> QED BY <2>2, <2>4, <2>5, <2>6, <2>9, SMT DEF Knows
  <2>11. \A u \in Thread \ {t} : Knows(u)'
    BY <2>1, <2>5, <2>6, <2>9, OthersKnow, Zenon
  <2>12. FlushInv'
    BY <2>10, <2>11, Zenon DEF FlushInv
  <2> QED BY <2>7, <2>8, <2>12, Zenon DEF KInv, Data
<1>5. CASE Get(t)
  <2> DEFINE seg == segs[active[t]]
  <2>1. /\ pc[t] = "get" /\ existing' = [existing EXCEPT ![t] = seg]
        /\ FirstWrite(t, existing'[t])
        /\ UNCHANGED <<delta, pending, ver, active>>
        /\ UNCHANGED <<wbuf, writeVer, ckpt, worker, ranks, retried, faults, crashes>>
    BY <1>5, Zenon DEF Get
  <2>2. active[t] = Len(segs) /\ active[t] # 0 /\ pending[t] # <<>>
    BY <1>1, <2>1, SMT DEF Knows
  <2>3. seg \in Seq(Record)
    <3> HIDE DEF segs
    <3>1. active[t] \in 1 .. Len(segs)
      BY <1>1, <2>2
    <3> QED BY <1>1, <3>1
  <2> HIDE DEF seg
  <2>4. existing' \in [Thread -> Seq(Record)] /\ existing'[t] = seg
        /\ \A u \in Thread \ {t} : existing'[u] = existing[u]
    <3> DEFINE T == Seq(Record)
    <3>1. existing \in [Thread -> T] /\ seg \in T
      BY <1>2, <2>3, Zenon DEF Locals
    <3> HIDE DEF T
    <3>2. existing' \in [Thread -> T] /\ existing'[t] = seg
          /\ \A u \in Thread \ {t} : existing'[u] = existing[u]
      BY <2>1, <3>1, OneReplaced
    <3> QED BY <3>2 DEF T
  <2>5. PICK c \in {"putActive", "putRollover"} :
          /\ pc' = [pc EXCEPT ![t] = c]
          /\ c = "putActive" => FitCount(pending[t], seg) > 0
    <3>1. \/ pc' = [pc EXCEPT ![t] = "putActive"] /\ FitCount(pending[t], seg) > 0
          \/ pc' = [pc EXCEPT ![t] = "putRollover"]
      BY <2>1, <2>4, FirstWriteGoes, Zenon
    <3> QED BY <3>1
  <2>6. c \in Steps \ {"idle"}
    BY DEF Steps
  <2>7. /\ pc' \in [Thread -> Steps] /\ pc'[t] = c
        /\ \A u \in Thread \ {t} : pc'[u] = pc[u]
    BY <1>3, <2>5, <2>6, Zenon
  <2>8. Locals'
    BY <1>2, <2>1, <2>4, <2>7, Zenon DEF Locals
  <2>9. Segments' /\ Shared' /\ History'
    BY <2>1, Zenon DEF Segments, Shared, History, JInv, KInv, Data
  <2>10. pending'[t] = pending[t] /\ active'[t] = active[t] /\ delta'[ver'[t]] = segs
    BY <2>1, Zenon
  <2>11. Knows(t)'
    <3> HIDE DEF segs
    <3> QED BY <2>2, <2>4, <2>5, <2>7, <2>10, SMT DEF Knows
  <2>12. \A u \in Thread \ {t} : Knows(u)'
    <3>1. pc[t] # "idle"
      BY <2>1
    <3> QED BY <2>1, <2>4, <2>7, <3>1, OthersKnow, Zenon
  <2>13. FlushInv'
    BY <2>11, <2>12, Zenon DEF FlushInv
  <2> QED BY <2>8, <2>9, <2>13, Zenon DEF KInv, Data
<1> QED BY <1>4, <1>5

LEMMA PutsTyped == ASSUME JInv, NEW t \in Thread, PutActive(t) \/ PutRollover(t) PROVE KInv'
<1>1. PICK n : Stores(t, n) /\ Advance(t, n)
  BY PutStores, Zenon
<1>2. UNCHANGED <<wbuf, writeVer, ranks, retried, faults, crashes>>
  BY PutStores, Zenon
<1> QED BY <1>1, <1>2, AdvanceTyped, Zenon DEF Stores

\* The ranks of records are those of accepted mutations.
LEMMA RanksTyped == ASSUME NEW recs \in Seq(Record) PROVE Ranks(recs) \subseteq 1 .. MaxAccepted
<1> SUFFICES ASSUME NEW k \in DOMAIN recs PROVE recs[k].rank \in 1 .. MaxAccepted
  BY Zenon DEF Ranks
<1>1. recs[k] \in Record
  OBVIOUS
<1> QED BY <1>1 DEF Record

\* A flush that fails puts what it has in hand back.
LEMMA FailureTyped ==
  ASSUME JInv, NEW t \in Thread, pc[t] # "idle", RestorePending(t), FlushReturns(t, FALSE),
         faults < MaxFaults, faults' = faults + 1, UNCHANGED <<writeVer, ranks, crashes>>,
         Segments', retried' \subseteq 1 .. MaxAccepted
  PROVE  KInv'
<1>1. faults' \in 0 .. MaxFaults
  <2>1. faults \in 0 .. MaxFaults /\ MaxFaults \in Nat
    BY FlushAssumption, Zenon DEF JInv, KInv, Data, History, FlushAssumption
  <2> QED BY <2>1
<1>2. wbuf' \in Seq(Record)
  BY Read, SMT DEF RestorePending
<1>3. /\ Locals' /\ FlushInv'
      /\ ckpt' \in {"none", "acquire", "flush", "snapshot", "publish"}
      /\ worker' \in {"running", "closing", "final", "clean", "error"}
  BY ReturnKeeps, Zenon
<1>4. Shared' /\ History'
  BY <1>1, <1>2, <1>3, Zenon DEF Shared, History, JInv, KInv, Data
<1> QED BY <1>3, <1>4, Zenon DEF KInv, Data

LEMMA FaultsTyped == ASSUME JInv, NEW t \in Thread, CallFails(t) \/ ResponseLost(t) PROVE KInv'
<1>1. Segments /\ retried \subseteq 1 .. MaxAccepted
  BY Zenon DEF JInv, KInv, Data, History
<1>2. CASE CallFails(t)
  <2>1. /\ pc[t] # "idle" /\ faults < MaxFaults /\ faults' = faults + 1
        /\ RestorePending(t) /\ FlushReturns(t, FALSE)
        /\ UNCHANGED <<delta, writeVer, ranks, retried, crashes>>
    BY <1>2, Zenon DEF CallFails
  <2>2. Segments' /\ retried' \subseteq 1 .. MaxAccepted
    BY <1>1, <2>1, Zenon DEF Segments
  <2> QED BY <2>1, <2>2, FailureTyped, Zenon
<1>3. CASE ResponseLost(t)
  <2>1. PICK n : Stores(t, n) /\ retried' = retried \cup Ranks(SubSeq(pending[t], 1, n))
    BY <1>3, LostStores, Zenon
  <2>2. /\ faults < MaxFaults /\ faults' = faults + 1
        /\ RestorePending(t) /\ FlushReturns(t, FALSE)
        /\ UNCHANGED <<writeVer, ranks, crashes>>
    BY <1>3, LostStores, Zenon
  <2>3. pc[t] # "idle" /\ Segments' /\ n \in 0 .. Len(pending[t])
    BY <2>1, Zenon DEF Stores, Puts, Segments
  <2>4. SubSeq(pending[t], 1, n) \in Seq(Record)
    BY <2>3, Read, Split, Zenon
  <2>5. retried' \subseteq 1 .. MaxAccepted
    BY <1>1, <2>1, <2>4, RanksTyped, Zenon
  <2> QED BY <2>2, <2>3, <2>5, FailureTyped, Zenon
<1> QED BY <1>2, <1>3

LEMMA CheckpointTyped ==
  ASSUME JInv, CkptBegin \/ CkptAcquired \/ CkptTaken \/ CkptFails \/ Snapshot \/ CkptDone
  PROVE  KInv'
<1>1. /\ UNCHANGED <<delta, pc, pending, ver, active, existing>>
      /\ UNCHANGED <<wbuf, worker, accepted, dropped, beforeClose, retried, faults, crashes>>
      /\ ckpt' \in {"none", "acquire", "flush", "snapshot", "publish"}
      /\ writeVer' \in {writeVer, 1} /\ covered' \in {covered, accepted}
  BY Zenon DEF CkptBegin, CkptAcquired, CkptTaken, CkptFails, Snapshot, CkptDone, WriteToNext
<1>2. 1 \in Version
  BY DEF Version
<1>3. Shared' /\ History'
  BY <1>1, <1>2, Zenon DEF Shared, History, JInv, KInv, Data
<1> QED BY <1>1, <1>3, FlushUntouched, Zenon DEF KInv, Data

LEMMA OthersTyped == ASSUME JInv, OtherWritesNext \/ PollFindsNext \/ Close \/ Crash PROVE KInv'
<1>1. CASE OtherWritesNext \/ PollFindsNext \/ Close
  <2>1. /\ UNCHANGED <<delta, pc, pending, ver, active, existing>>
        /\ UNCHANGED <<wbuf, writeVer, ckpt, accepted, dropped, covered, retried, faults, crashes>>
        /\ worker' \in {worker, "closing"} /\ beforeClose' \in {beforeClose, accepted}
    BY <1>1, Zenon DEF OtherWritesNext, PollFindsNext, Close
  <2>2. Shared' /\ History'
    BY <2>1, Zenon DEF Shared, History, JInv, KInv, Data
  <2> QED BY <2>1, <2>2, FlushUntouched, Zenon DEF KInv, Data
<1>2. CASE Crash
  <2>1. /\ crashes < MaxCrashes /\ crashes' = crashes + 1
        /\ dropped' = dropped \cup (Ranks(Buffered) \ StoredRanks)
        /\ wbuf' = <<>> /\ writeVer' \in {0, 1} /\ ckpt' = "none" /\ worker' = "running"
        /\ pc' = [u \in Thread |-> "idle"] /\ pending' = [u \in Thread |-> <<>>]
        /\ ver' = [u \in Thread |-> 0] /\ active' = [u \in Thread |-> 0]
        /\ existing' = [u \in Thread |-> <<>>] /\ beforeClose' = 0
        /\ UNCHANGED <<delta, accepted, covered, retried, faults>>
    BY <1>2, Zenon DEF Crash
  <2>2. Ranks(Buffered) \subseteq 1 .. MaxAccepted
    <3>1. pending["flusher"] \in Seq(Record) /\ pending["checkpoint"] \in Seq(Record)
      BY Read DEF Thread
    <3>2. Buffered \in Seq(Record)
      BY <3>1, Read, SMT DEF Buffered
    <3> QED BY <3>2, RanksTyped, Zenon
  <2>3. dropped' \subseteq 1 .. MaxAccepted
    BY <2>1, <2>2, Zenon DEF JInv, KInv, Data, History
  <2>4. crashes' \in 0 .. MaxCrashes /\ beforeClose' \in 0 .. MaxAccepted
    <3>1. crashes \in 0 .. MaxCrashes /\ MaxCrashes \in Nat /\ MaxAccepted \in Nat
      BY FlushAssumption, Zenon DEF JInv, KInv, Data, History, FlushAssumption
    <3> QED BY <2>1, <3>1
  <2>5. <<>> \in Seq(Record) /\ "idle" \in Steps /\ 0 \in Version /\ 0 \in Nat
        /\ writeVer' \in Version
    BY <2>1 DEF Steps, Version
  <2>6. Segments' /\ Shared' /\ History'
    BY <2>1, <2>3, <2>4, <2>5, Zenon DEF Segments, Shared, History, JInv, KInv, Data
  <2>7. Locals'
    <3> DEFINE T == Seq(Record)
    <3> HIDE DEF T
    <3>1. <<>> \in T
      BY <2>5 DEF T
    <3>2. /\ pc' \in [Thread -> Steps] /\ pending' \in [Thread -> T] /\ ver' \in [Thread -> Version]
          /\ active' \in [Thread -> Nat] /\ existing' \in [Thread -> T]
      BY <2>1, <2>5, <3>1
    <3> QED BY <3>2, Zenon DEF Locals, T
  <2>8. FlushInv'
    <3> SUFFICES ASSUME NEW u \in Thread PROVE Knows(u)'
      BY Zenon DEF FlushInv
    <3> QED BY <2>1, SMT DEF Knows
  <2> QED BY <2>6, <2>7, <2>8, Zenon DEF KInv, Data
<1> QED BY <1>1, <1>2

LEMMA NextJInv == JInv /\ [Next]_vars => JInv'
<1> SUFFICES ASSUME JInv, [Next]_vars PROVE JInv'
  OBVIOUS
<1>1. IInv'
  BY NextIInv, Zenon DEF JInv
<1>2. ASSUME NEW size \in Sizes, Write(size) PROVE KInv'
  BY <1>2, WriteTyped, Zenon
<1>3. ASSUME NEW t \in Thread, Flush(t) PROVE KInv'
  BY <1>3, DrainTyped, ReadsTyped, PutsTyped, FaultsTyped, Zenon DEF Flush, FlushCall
<1>4. ASSUME CkptBegin \/ CkptAcquired \/ CkptTaken \/ CkptFails \/ Snapshot \/ CkptDone PROVE KInv'
  BY <1>4, CheckpointTyped, Zenon
<1>5. ASSUME OtherWritesNext \/ PollFindsNext \/ Close \/ Crash PROVE KInv'
  BY <1>5, OthersTyped, Zenon
<1>6. ASSUME UNCHANGED vars PROVE KInv'
  <2>1. Shared' /\ History'
    BY <1>6, Zenon DEF Shared, History, JInv, KInv, Data, vars
  <2> QED BY <1>6, <2>1, FlushUntouched, Zenon DEF KInv, Data, vars
<1>7. KInv'
  BY <1>2, <1>3, <1>4, <1>5, <1>6, Zenon DEF Next
<1> QED BY <1>1, <1>7, Zenon DEF JInv

LEMMA DataInvariant == Spec => []JInv
<1>1. Init => JInv
  BY InitIInv, InitKInv, Zenon DEF JInv
<1> HIDE DEF JInv, vars
<1> QED BY <1>1, NextJInv, PTL DEF Spec

\* The flags stay flags.
LEMMA FlagsKept == Flags /\ [Next]_vars => Flags'
<1> SUFFICES ASSUME Flags, [Next]_vars PROVE Flags'
  OBVIOUS
<1>1. \A x, y : (x \/ y) \in BOOLEAN /\ (x # y) \in BOOLEAN
  BY Zenon
<1>2. ASSUME NEW size \in Sizes, Write(size) PROVE Flags'
  BY <1>2, Zenon DEF Write, Flags
<1>3. ASSUME NEW t \in Thread, Flush(t) PROVE Flags'
  <2>1. UNCHANGED <<otherInNext, nextVerExists, hasCheckpointed>>
    BY <1>3, Zenon DEF Flush, FlushCall, Drain, DrainEmpty, List, Get, PutActive, PutRollover,
                       CallFails, ResponseLost
  <2> QED BY <2>1, Zenon DEF Flags
<1>4. ASSUME CkptBegin \/ CkptAcquired \/ CkptTaken \/ CkptFails \/ Snapshot \/ CkptDone PROVE Flags'
  BY <1>4, Zenon DEF CkptBegin, CkptAcquired, CkptTaken, CkptFails, Snapshot, CkptDone, WriteToNext,
                     Flags
<1>5. ASSUME OtherWritesNext \/ PollFindsNext \/ Close PROVE Flags'
  BY <1>5, Zenon DEF OtherWritesNext, PollFindsNext, Close, Flags
<1>6. ASSUME Crash PROVE Flags'
  BY <1>1, <1>6, Zenon DEF Crash, NextListed, Flags
<1>7. ASSUME UNCHANGED vars PROVE Flags'
  BY <1>7, Zenon DEF vars, Flags
<1> QED BY <1>2, <1>3, <1>4, <1>5, <1>6, <1>7, Zenon DEF Next

\* Every variable keeps its type in every step of the writers, the flush, the
\* checkpoint, the poller, Close and a crash.
THEOREM TypeInvariant == Spec => []TypeOK
<1>1. Init => Flags
  BY Zenon DEF Init, Flags
<1>2. JInv /\ Flags => TypeOK
  BY Zenon DEF JInv, KInv, Data, Segments, Shared, Locals, History, Flags, TypeOK
<1> HIDE DEF JInv, Flags, vars
<1>3. Spec => []Flags
  BY <1>1, FlagsKept, PTL DEF Spec
<1> QED BY <1>2, <1>3, DataInvariant, PTL

=============================================================================
