--------------------------- MODULE LifecycleProofs ---------------------------
(***************************************************************************)
(* Theorems about Lifecycle for any segments, any backoff bound and any    *)
(* number of faults: what memory holds at every step of a start, and that  *)
(* a cancelled start gives out no database.                                *)
(*                                                                         *)
(* The argument: ReplayInv says, call by call, how far the replay has come *)
(* when Open is about to make that call; CancelInv says that after a       *)
(* cancellation Open makes at most the call it was at and then fails.      *)
(***************************************************************************)
EXTENDS Lifecycle, TLAPS

BeforeReplay == {"load", "source", "repo", "user", "branch", "create", "list"}

\* What has been listed, read and applied when Open is at pc.
ReplayInv ==
  /\ pc \in BeforeReplay => listed = {} /\ fetched = {} /\ mem = {}
  /\ pc = "segments" => mem = {} /\ listed \subseteq SegmentsN
  /\ pc \in {"next", "nextList"} => mem = listed /\ fetched = {} /\ listed \subseteq SegmentsN
  /\ pc = "nextSegments" => mem = listed \cap SegmentsN /\ fetched \subseteq SegmentsNext
  /\ pc = "start" => mem = listed
  /\ mem \in {{}, listed \cap SegmentsN, listed}

\* Only a start that got as far as its workers is online, and memory does not
\* change once Open has returned.
OnlineInv ==
  /\ result # "none" <=> pc = "returned"
  /\ result = "online" => mem = listed
  /\ flusher # "off" => result = "online"

\* After a cancellation Open is still at that call, or has failed.
CancelInv ==
  \/ cancelled \in {"no", pc}
  \/ pc = "failed"
  \/ pc = "returned" /\ (cancelled = "start" \/ result \in {"error", "ctxError"})

\* TypeOK without its two flags, which no other part reads.
Types ==
  /\ stored \subseteq SegmentsN \cup SegmentsNext
  /\ faults \in 0..MaxFaults
  /\ pc \in Calls \cup {"load", "failed", "returned"}
  /\ mem \subseteq listed /\ fetched \subseteq listed /\ listed \subseteq stored
  /\ result \in {"none", "online", "offline", "error", "ctxError"}
  /\ cancelled \in Calls \cup {"no", "load", "failed"}
  /\ flusher \in {"off", "wait", "busy", "final", "done"}
  /\ poller \in {"off", "wait", "busy", "done"}
  /\ pause \in 0..MaxBackoff
  /\ closing \in {"no", "waiting", "returned", "timedOut"}

Flags == branch \in BOOLEAN /\ fallback \in BOOLEAN

SInv == Types /\ ReplayInv /\ OnlineInv /\ CancelInv

-----------------------------------------------------------------------------
(* The invariant is inductive *)

USE DEF remote, replay, startup, workers, vars, Alive, Fault, Calls, Goes, Returns, Calling,
        BeforeReplay, Types, ReplayInv, OnlineInv, CancelInv, SInv

LEMMA InitSInv == Init => SInv
BY LifecycleAssumption, SMT DEF LifecycleAssumption, Init

\* The calls before the replay, and those that fail, leave memory alone.
LEMMA CallsKeep ==
  ASSUME SInv, \/ Load \/ Check \/ BranchExists \/ CreateBranch \/ CallFails \/ OpenFails
  PROVE  SInv'
<1> USE LifecycleAssumption DEF LifecycleAssumption
<1>1. CASE Load
  BY <1>1, SMT DEF Load
<1>2. CASE Check
  BY <1>2, SMT DEF Check
<1>3. CASE BranchExists
  BY <1>3, SMT DEF BranchExists, AfterLookup
<1>4. CASE CreateBranch
  BY <1>4, SMT DEF CreateBranch
<1>5. CASE CallFails
  BY <1>5, SMT DEF CallFails
<1>6. CASE OpenFails
  BY <1>6, SMT DEF OpenFails, Outcome
<1> QED BY <1>1, <1>2, <1>3, <1>4, <1>5, <1>6

\* The replay of version N, and then of N+1.
LEMMA ReplayKeeps == ASSUME SInv, Replay PROVE SInv'
<1> USE LifecycleAssumption DEF LifecycleAssumption
<1>1. CASE ListDir("list", SegmentsN, "segments")
  BY <1>1, SMT DEF ListDir
<1>2. CASE GetFile("segments")
  BY <1>2, SMT DEF GetFile
<1>3. CASE ApplyAll("segments", SegmentsN, "next")
  BY <1>3, SMT DEF ApplyAll, ReadByNow
<1>4. CASE NextLookup
  BY <1>4, SMT DEF NextLookup, AfterNextLookup
<1>5. CASE ListDir("nextList", SegmentsNext, "nextSegments")
  BY <1>5, SMT DEF ListDir
<1>6. CASE GetFile("nextSegments")
  BY <1>6, SMT DEF GetFile
<1>7. CASE ApplyAll("nextSegments", SegmentsNext, "start")
  BY <1>7, SMT DEF ApplyAll, ReadByNow
<1> QED BY <1>1, <1>2, <1>3, <1>4, <1>5, <1>6, <1>7 DEF Replay

\* The workers start over what the replay has read, whatever the context says.
LEMMA OnlineKeeps == ASSUME SInv, GoOnline PROVE SInv'
BY LifecycleAssumption, SMT DEF LifecycleAssumption, GoOnline

\* A cancellation, and what the other processes do.
LEMMA OthersKeep ==
  ASSUME SInv, Cancel \/ OtherCreatesBranch \/ OtherFlushes
  PROVE  SInv'
<1> USE LifecycleAssumption DEF LifecycleAssumption
<1>1. CASE Cancel
  BY <1>1, SMT DEF Cancel
<1>2. CASE OtherCreatesBranch
  BY <1>2, SMT DEF OtherCreatesBranch
<1>3. CASE OtherFlushes
  BY <1>3, SMT DEF OtherFlushes
<1> QED BY <1>1, <1>2, <1>3

\* The workers, the window they share, and Close.
LEMMA WorkersKeep ==
  ASSUME SInv, WorkerStep \/ TimePasses \/ Close \/ CloseReturns
  PROVE  SInv'
<1> USE LifecycleAssumption DEF LifecycleAssumption
<1>1. NoteRateLimit => pause' \in 0..MaxBackoff
  BY SMT DEF NoteRateLimit, Window
<1>2. CASE FlushTick \/ FlushEnds \/ FinalFlush \/ FinalEnds
  BY <1>1, <1>2, SMT DEF FlushTick, FlushEnds, FinalFlush, FinalEnds, Flusher
<1>3. CASE PollTick \/ PollCallFails \/ PollEnds \/ PollStops
  BY <1>1, <1>3, SMT DEF PollTick, PollCallFails, PollEnds, PollStops, Poller
<1>4. CASE TimePasses
  BY <1>4, SMT DEF TimePasses
<1>5. CASE Close \/ CloseReturns
  BY <1>5, SMT DEF Close, CloseReturns
<1> QED BY <1>2, <1>3, <1>4, <1>5 DEF WorkerStep

LEMMA NextSInv == SInv /\ [Next]_vars => SInv'
<1> SUFFICES ASSUME SInv, [Next]_vars PROVE SInv'
  OBVIOUS
<1>1. CASE OpenStep
  BY <1>1, CallsKeep, ReplayKeeps, OnlineKeeps, Zenon DEF OpenStep
<1>2. CASE Cancel \/ OtherCreatesBranch \/ OtherFlushes
  BY <1>2, OthersKeep, Zenon
<1>3. CASE WorkerStep \/ TimePasses \/ Close \/ CloseReturns
  BY <1>3, WorkersKeep, Zenon
<1>4. CASE UNCHANGED vars
  BY <1>4, SMT
<1> QED BY <1>1, <1>2, <1>3, <1>4, Zenon DEF Next

\* The delta branch is never removed, and the option never changes.
LEMMA FlagsKept == [Next]_vars => branch' \in {branch, TRUE} /\ fallback' = fallback
<1> SUFFICES ASSUME [Next]_vars PROVE branch' \in {branch, TRUE} /\ fallback' = fallback
  OBVIOUS
<1>1. CASE OpenStep
  <2>1. CASE Load \/ Check \/ BranchExists \/ CreateBranch
    BY <2>1, Zenon DEF Load, Check, BranchExists, CreateBranch
  <2>2. CASE Replay
    BY <2>2, Zenon DEF Replay, ListDir, GetFile, ApplyAll, NextLookup
  <2>3. CASE CallFails \/ GoOnline \/ OpenFails
    BY <2>3, Zenon DEF CallFails, GoOnline, OpenFails
  <2> QED BY <1>1, <2>1, <2>2, <2>3, Zenon DEF OpenStep
<1>2. CASE Cancel \/ OtherCreatesBranch \/ OtherFlushes
  BY <1>2, Zenon DEF Cancel, OtherCreatesBranch, OtherFlushes
<1>3. CASE WorkerStep \/ TimePasses \/ Close \/ CloseReturns
  BY <1>3, Zenon DEF WorkerStep, FlushTick, FlushEnds, FinalFlush, FinalEnds, Flusher,
     PollTick, PollCallFails, PollEnds, PollStops, Poller, TimePasses, Close, CloseReturns
<1>4. CASE UNCHANGED vars
  BY <1>4, Zenon
<1> QED BY <1>1, <1>2, <1>3, <1>4, Zenon DEF Next

\* The invariant holds of every state of a start, its workers and its Close.
THEOREM StartupInvariant == Spec => []SInv
<1> HIDE DEF SInv, vars
<1> QED BY InitSInv, NextSInv, PTL DEF Spec

-----------------------------------------------------------------------------
(* The theorems *)

\* Every variable has its type, and no pause is longer than the bound.
THEOREM TypeInvariant == Spec => []TypeOK
<1>1. Init => Flags
  BY Zenon DEF Init, Flags
<1>2. Flags /\ [Next]_vars => Flags'
  BY FlagsKept, Zenon DEF Flags
<1>3. SInv /\ Flags => TypeOK
  BY Zenon DEF Flags, TypeOK
<1> HIDE DEF SInv, vars
<1> QED BY StartupInvariant, <1>1, <1>2, <1>3, PTL DEF Spec

\* At every step of a start memory holds a version in full or not at all, and
\* the workers run over all that the replay listed.
THEOREM VersionsStayWhole == Spec => []WholeVersions
<1>1. SInv => WholeVersions
  BY Zenon DEF WholeVersions
<1> HIDE DEF SInv
<1> QED BY StartupInvariant, <1>1, PTL

\* A start whose context ended before the last look at it returns no database.
THEOREM CancelledStartServesNothing == Spec => []CancelledServesNothing
<1>1. SInv => CancelledServesNothing
  BY SMT DEF CancelledServesNothing
<1> HIDE DEF SInv
<1> QED BY StartupInvariant, <1>1, PTL
=============================================================================
