------------------------------ MODULE Lifecycle ------------------------------
(* The life of one process: Option.Open with its online startup, call by call,
   under a context that may be cancelled at any time (option.go, StartOnline
   and replayVersion in base.go), then the flusher and the poller with their
   shared rate-limit pause, and Close (base.go, flush.go, sync.go).  The other
   processes create the delta branch and flush to it.  What flushes and polls do
   to the data is in DeltaFlush and Replication.  Time is relative: pause is the
   time left until rateLimitedUntil, so no clock needs a bound.              *)
EXTENDS Naturals

CONSTANTS
  SegmentsN,   \* segments that version N may have
  SegmentsNext,\* segments that version N+1 may have
  MaxBackoff,  \* maxRateLimitBackoff, in ticks of the time
  Far,         \* a reset time too far away to wait for
  MaxFaults    \* bound on failing calls, cancellations and timeouts of Close together

ASSUME LifecycleAssumption ==
  /\ SegmentsN \cap SegmentsNext = {}
  /\ MaxBackoff \in Nat \ {0} /\ Far \notin Nat /\ MaxFaults \in Nat

VARIABLES
  branch,     \* the delta branch exists
  stored,     \* the segments on it
  fallback,   \* opened with AllowOfflineFallback
  pc,         \* the call Open is about to make
  fetched,    \* the segments listed and still to be read
  listed,     \* the segments listed so far
  mem,        \* the segments whose records memory holds
  result,     \* what Open returned
  cancelled,  \* the call at which the context was cancelled
  flusher, poller,  \* the two workers
  pause,      \* the rest of the rate-limit window
  closing,    \* Close
  faults

remote == <<branch, stored>>
replay == <<fetched, listed, mem>>
startup == <<remote, fallback, pc, replay, result, cancelled>>
workers == <<flusher, poller, pause, closing>>
vars == <<startup, workers, faults>>

Calls == {"source", "repo", "user", "branch", "create", "list", "segments", "next",
          "nextList", "nextSegments", "start"}

Alive == cancelled = "no"
Fault == faults < MaxFaults /\ faults' = faults + 1

Init ==
  /\ branch \in BOOLEAN /\ stored \in {s \in SUBSET SegmentsN : branch \/ s = {}}
  /\ fallback \in BOOLEAN
  /\ pc = "load" /\ result = "none" /\ cancelled = "no"
  /\ fetched = {} /\ listed = {} /\ mem = {}
  /\ flusher = "off" /\ poller = "off" /\ pause = 0 /\ closing = "no"
  /\ faults = 0
-----------------------------------------------------------------------------
(* Startup *)

(* After every call comes a look at the context. *)
Goes(next) == pc' = IF Alive THEN next ELSE "failed"

Returns(r) == pc' = "returned" /\ result' = r

(* Mutant: the fallback comes before the context. *)
OutcomeFallbackFirst == IF fallback THEN "offline" ELSE IF Alive THEN "error" ELSE "ctxError"

Outcome == IF ~Alive THEN "ctxError" ELSE IF fallback THEN "offline" ELSE "error"

(* parseAndLoad: a baseline that does not load, a cancelled context, no token *)
Load ==
  /\ pc = "load"
  /\ \/ Fault /\ Returns("error")
     \/ ~Alive /\ Returns("ctxError") /\ UNCHANGED faults
     \/ Alive /\ Returns("offline") /\ UNCHANGED faults
     \/ Alive /\ Goes("source") /\ UNCHANGED <<result, faults>>
  /\ UNCHANGED <<remote, fallback, replay, cancelled, workers>>

Calling(at) ==
  pc = at /\ UNCHANGED <<stored, fallback, result, cancelled, workers>>

(* resolveSourceBranch, GetRepoInfo, and GetAuthenticatedUser for a process
   without a committer identity of its own *)
Check ==
  /\ \/ Calling("source") /\ Goes("repo")
     \/ Calling("repo") /\ (Goes("user") \/ Goes("branch"))
     \/ Calling("user") /\ Goes("branch")
  /\ UNCHANGED <<branch, replay, faults>>

(* Mutant: the branch is created without a look at whether it exists. *)
AfterLookupCreates == "create"

AfterLookup == IF branch THEN "list" ELSE "create"

BranchExists == Calling("branch") /\ Goes(AfterLookup) /\ UNCHANGED <<branch, replay, faults>>

(* GitHub refuses a branch that exists by now, because another process came
   first; a lost response leaves the branch behind. *)
CreateBranch ==
  /\ Calling("create") /\ branch' = TRUE /\ UNCHANGED replay
  /\ \/ branch /\ pc' = "failed" /\ UNCHANGED faults
     \/ ~branch /\ Goes("list") /\ UNCHANGED faults
     \/ Fault /\ pc' = "failed"

(* replayVersion: the listing, one read per segment, and the records of all of
   them applied under one lock. *)
ListDir(at, segments, next) ==
  /\ Calling(at) /\ Goes(next)
  /\ fetched' = stored \cap segments /\ listed' = listed \cup fetched'
  /\ UNCHANGED <<branch, mem, faults>>

GetFile(at) ==
  /\ Calling(at) /\ Goes(at) /\ \E s \in fetched : fetched' = fetched \ {s}
  /\ UNCHANGED <<branch, listed, mem, faults>>

(* Mutant: the records are applied as the segments are read. *)
ReadByNowEarly == TRUE

ReadByNow == fetched = {}

ApplyAll(at, segments, next) ==
  /\ Calling(at) /\ ReadByNow /\ Goes(next)
  /\ mem' = mem \cup ((listed \cap segments) \ fetched)
  /\ UNCHANGED <<branch, fetched, listed, faults>>

(* Version N+1 is looked for first, and listed again for its replay. *)
AfterNextLookup == IF stored \cap SegmentsNext = {} THEN "start" ELSE "nextList"

NextLookup == Calling("next") /\ Goes(AfterNextLookup) /\ UNCHANGED <<branch, replay, faults>>

Replay ==
  \/ ListDir("list", SegmentsN, "segments")
  \/ GetFile("segments")
  \/ ApplyAll("segments", SegmentsN, "next")
  \/ NextLookup
  \/ ListDir("nextList", SegmentsNext, "nextSegments")
  \/ GetFile("nextSegments")
  \/ ApplyAll("nextSegments", SegmentsNext, "start")

(* A call fails, and so may deriveInstanceID before the workers start. *)
CallFails ==
  /\ pc \in Calls /\ Calling(pc) /\ Fault /\ pc' = "failed" /\ UNCHANGED <<branch, replay>>

(* The workers start without a further look at the context. *)
GoOnline ==
  /\ pc = "start" /\ Returns("online") /\ flusher' = "wait" /\ poller' = "wait"
  /\ UNCHANGED <<remote, fallback, replay, cancelled, pause, closing, faults>>

OpenFails ==
  /\ pc = "failed" /\ Returns(Outcome)
  /\ UNCHANGED <<remote, fallback, replay, cancelled, workers, faults>>

OpenStep ==
  \/ Load \/ Check \/ BranchExists \/ CreateBranch \/ Replay \/ CallFails \/ GoOnline \/ OpenFails

Cancel ==
  /\ Alive /\ pc # "returned" /\ Fault /\ cancelled' = pc
  /\ UNCHANGED <<remote, fallback, pc, replay, result, workers>>

(* Other processes create the delta branch and flush to it; a checkpoint of
   theirs moves their segments to version N+1. *)
OtherCreatesBranch ==
  ~branch /\ branch' = TRUE
  /\ UNCHANGED <<stored, fallback, pc, replay, result, cancelled, workers, faults>>

OtherFlushes ==
  /\ branch /\ \E s \in (SegmentsN \cup SegmentsNext) \ stored : stored' = stored \cup {s}
  /\ UNCHANGED <<branch, fallback, pc, replay, result, cancelled, workers, faults>>
-----------------------------------------------------------------------------
(* The workers *)
BackingOff == pause # 0

(* Mutant: the stop signal ends with the Close that gave it. *)
StoppedWhileWaited == closing = "waiting"

Stopped == closing # "no"

(* Mutant: any reset time is taken. *)
WindowUnbounded(old, reset) == IF reset = 0 THEN old ELSE reset

(* noteRateLimit: the last report wins, if it is in the future and near. *)
Window(old, reset) == IF reset \in 1..MaxBackoff THEN reset ELSE old

NoteRateLimit == \E reset \in (0..MaxBackoff) \cup {Far} : pause' = Window(pause, reset)

Flusher(from, to) == flusher = from /\ flusher' = to /\ UNCHANGED <<startup, closing, faults, poller>>
Poller(from, to) == poller = from /\ poller' = to /\ UNCHANGED <<startup, closing, faults, flusher>>

FlushTick == Flusher("wait", "busy") /\ ~BackingOff /\ UNCHANGED pause
FlushEnds == Flusher("busy", "wait") /\ (NoteRateLimit \/ UNCHANGED pause)

(* the final flush neither waits for the window nor reports one *)
FinalFlush == Stopped /\ Flusher("wait", "final") /\ UNCHANGED pause
FinalEnds == Flusher("final", "done") /\ UNCHANGED pause

PollTick == Poller("wait", "busy") /\ ~BackingOff /\ UNCHANGED pause

(* a listing or a read of the poll that fails is noted, and the poll goes on *)
PollCallFails == Poller("busy", "busy") /\ NoteRateLimit
PollEnds == Poller("busy", "wait") /\ UNCHANGED pause
PollStops == Stopped /\ Poller("wait", "done") /\ UNCHANGED pause

TimePasses ==
  /\ pause \in 1..MaxBackoff /\ pause' = pause - 1
  /\ UNCHANGED <<startup, flusher, poller, closing, faults>>

WorkerStep ==
  \/ FlushTick \/ FlushEnds \/ FinalFlush \/ FinalEnds
  \/ PollTick \/ PollCallFails \/ PollEnds \/ PollStops
-----------------------------------------------------------------------------
(* Close: an offline database has nothing to stop; a Close whose context ends
   may be called again. *)
Close ==
  /\ result = "online" /\ closing \in {"no", "timedOut"} /\ closing' = "waiting"
  /\ UNCHANGED <<startup, flusher, poller, pause, faults>>

WorkersDone == flusher = "done" /\ poller = "done"

CloseReturns ==
  /\ closing = "waiting"
  /\ \/ WorkersDone /\ closing' = "returned" /\ UNCHANGED faults
     \/ Fault /\ closing' = "timedOut"
  /\ UNCHANGED <<startup, flusher, poller, pause>>

Next ==
  \/ OpenStep \/ Cancel \/ OtherCreatesBranch \/ OtherFlushes
  \/ WorkerStep \/ TimePasses \/ Close \/ CloseReturns

(* Open goes on, calls end, by the timeout of a request at the latest, and time
   passes.  Go's select is random, so a worker that comes back to it again and
   again does not miss the closed stop channel for ever. *)
Fairness ==
  /\ WF_vars(OpenStep) /\ WF_vars(TimePasses) /\ WF_vars(CloseReturns)
  /\ WF_vars(FlushEnds) /\ WF_vars(FinalEnds) /\ WF_vars(PollEnds)
  /\ SF_vars(FinalFlush) /\ SF_vars(PollStops)

Spec == Init /\ [][Next]_vars /\ Fairness
-----------------------------------------------------------------------------
(* Properties *)

(* Types, and the window that the workers wait for is never longer than the
   bound, whatever GitHub reports (base.go:320-335). *)
TypeOK ==
  /\ branch \in BOOLEAN /\ stored \subseteq SegmentsN \cup SegmentsNext
  /\ fallback \in BOOLEAN /\ faults \in 0..MaxFaults
  /\ pc \in Calls \cup {"load", "failed", "returned"}
  /\ mem \subseteq listed /\ fetched \subseteq listed /\ listed \subseteq stored
  /\ result \in {"none", "online", "offline", "error", "ctxError"}
  /\ cancelled \in Calls \cup {"no", "load", "failed"}
  /\ flusher \in {"off", "wait", "busy", "final", "done"}
  /\ poller \in {"off", "wait", "busy", "done"}
  /\ pause \in 0..MaxBackoff
  /\ closing \in {"no", "waiting", "returned", "timedOut"}

(* Memory holds a version in full or not at all, and never N+1 without N: also
   in the offline database that a failed startup leaves behind (option.go:206).
   The workers run only in an online database, over everything that the
   listings of the replay named (base.go:122-180). *)
WholeVersions ==
  /\ mem \in {{}, listed \cap SegmentsN, listed}
  /\ flusher # "off" => result = "online" /\ mem = listed

(* Open never returns a database, online or offline, once the context was
   cancelled before the last look at it (README.md:89 and 91). *)
CancelledServesNothing ==
  cancelled \notin {"no", "start"} => result \notin {"online", "offline"}

(* A start that begins when the delta branch exists comes up, unless a call
   fails or the caller gives up: the race for the creation of the branch
   (base.go:99-111) is lost at most by starts that came before it. *)
StartSucceeds ==
  (branch /\ pc \in {"load", "source", "repo", "user", "branch"})
    ~> (result \in {"online", "offline"} \/ faults > 0)

(* A pause ends, however often the calls in flight report a new window. *)
PauseEnds == BackingOff ~> ~BackingOff

(* Once Close is called both workers end, also when that Close timed out and
   when the pause is on. *)
CloseStops == Stopped ~> (flusher = "done" /\ poller = "done")
=============================================================================
