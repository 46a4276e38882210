----------------------------- MODULE Replication -----------------------------
(* How the writes of one process reach the memory of the others, and its own
   memory again: the three sections of a write (table/table.go, graph.go), the
   flush to the segment of the process, the poll of base/sync.go with its SHA
   and watermark per segment, and the replay of base.go at a start.

   One row stands for the database, a function from field names to the time of
   the write that gave the field its value.  A segment is the sequence of its
   lines; it only grows, so its length stands for its SHA.  Clocks agree: what
   goes wrong here goes wrong without any skew.  Per version a process has
   its first segment and the rollover segments after it, MaxParts in all.
   DeltaFlush has the inside of a flush, WriteCheckpoint the snapshot and its
   baseline_time.                                                            *)
EXTENDS Naturals, FiniteSets, Sequences, SequencesExt

CONSTANTS
  Instances,
  Writers,      \* the goroutines that call Set, Patch and Delete
  Home,         \* [Writers -> Instances]
  Ops,          \* [Writers -> the operations it calls]
  MaxParts,     \* bound on the segments of one process in one version
  MaxLines,     \* bound on the lines a flush leaves in a segment
  MaxTS,        \* bound of the clock
  MaxEvents     \* bound on restarts, damaged lines, lost responses and switches together

ASSUME ReplicationAssumption ==
  /\ Home \in [Writers -> Instances]
  /\ Ops \in [Writers -> SUBSET {"set", "patch", "delete", "cascade", "foreign"}]
  /\ MaxParts \in Nat /\ MaxLines \in Nat /\ MaxTS \in Nat /\ MaxEvents \in Nat

VARIABLES
  clock,     \* the time of the last write
  call,      \* per writer: the records of its call, and whether memory has them
  mem,       \* per process: the row
  wbuf,      \* per process: the write buffer
  segment,   \* per version, process and part: the lines of the delta segment
  syncSHA,   \* per process and segment: the length it has acknowledged
  syncTime,  \* per process and segment: the watermark
  nextVer,   \* per process: nextVerExists, it writes to and polls N+1
  applied,   \* history, per process: the records a poll or its start applied
  retried,   \* history: the records a call stored and their process kept
  events     \* restarts, damaged lines, lost responses and switches so far

vars == <<clock, call, mem, wbuf, segment, syncSHA, syncTime, nextVer, applied, retried, events>>
local == <<mem, wbuf, syncSHA, syncTime, nextVer, applied>>
-----------------------------------------------------------------------------
Fields == {"name", "age"}
Versions == {0, 1}      \* cfg.Version and cfg.Version + 1
Files == Instances \X (1..MaxParts)
Segments == Versions \X Files
Empty == [f \in {} |-> 0]
Malformed == [op |-> "malformed"]
Idle == [records |-> <<>>, applied |-> TRUE]

(* The records one call makes; those of a cascading delete share one time. *)
Records(w, op) ==
  LET r(o, f) == [op |-> o, field |-> f, ts |-> clock + 1, by |-> w]
  IN  IF op = "cascade" THEN <<r("cut", "age"), r("cut", "name")>> ELSE <<r(op, "name")>>

(* Mutant: a patch replaces the row. *)
ApplyPatchReplaces(row, r) ==
  CASE r.op = "set" -> [f \in Fields |-> r.ts]
    [] r.op = "patch" -> [f \in {r.field} |-> r.ts]
    [] r.op = "delete" -> Empty
    [] r.op = "cut" -> [f \in DOMAIN row \ {r.field} |-> row[f]]
    [] OTHER -> row

ApplyFn(row, r) ==
  CASE r.op = "set" -> [f \in Fields |-> r.ts]
    [] r.op = "patch" -> [f \in DOMAIN row \cup {r.field} |-> IF f = r.field THEN r.ts ELSE row[f]]
    [] r.op = "delete" -> Empty
    [] r.op = "cut" -> [f \in DOMAIN row \ {r.field} |-> row[f]]
    [] OTHER -> row

(* A "foreign" record is on a table only its writer's db_meta.json declares. *)
Rejects(i, r) == r.op = "foreign" /\ Home[r.by] # i

Decoded(lines) == {lines[k] : k \in DOMAIN lines} \ {Malformed}

(* SortByTS and sort.Slice: the k-th record has k - 1 before it.  The records
   of one time commute, so any order of them will do. *)
InOrder(records) ==
  LET key(r) == IF r.field = "age" THEN 2 * r.ts - 1 ELSE 2 * r.ts
  IN  [k \in 1..Cardinality(records) |->
         CHOOSE r \in records : Cardinality({q \in records : key(q) < key(r)}) = k - 1]

ApplyAll(row, records) ==
  LET after[k \in 0..Len(records)] == IF k = 0 THEN row ELSE ApplyFn(after[k - 1], records[k])
  IN  after[Len(records)]

Latest(records) == CHOOSE t \in {r.ts : r \in records} : \A r \in records : r.ts <= t
-----------------------------------------------------------------------------
(* One write: stamped, applied to memory, appended to the buffer *)
Stamp(w, op) ==
  /\ call[w] = Idle /\ clock < MaxTS /\ clock' = clock + 1
  /\ call' = [call EXCEPT ![w] = [records |-> Records(w, op), applied |-> FALSE]]
  /\ UNCHANGED <<local, segment, retried, events>>

Apply(w) ==
  /\ ~call[w].applied
  /\ mem' = [mem EXCEPT ![Home[w]] = ApplyAll(@, call[w].records)]
  /\ call' = [call EXCEPT ![w].applied = TRUE]
  /\ UNCHANGED <<clock, wbuf, segment, syncSHA, syncTime, nextVer, applied, retried, events>>

AppendMutation(w) ==
  /\ call[w].applied /\ call[w] # Idle
  /\ wbuf' = [wbuf EXCEPT ![Home[w]] = Append(@, Head(call[w].records))]
  /\ call' = [call EXCEPT ![w].records = Tail(@)]
  /\ UNCHANGED <<clock, mem, segment, syncSHA, syncTime, nextVer, applied, retried, events>>

(* A flush stores the buffer batch by batch, each batch with one call.  It
   goes on in the latest segment of the process, which it reads strictly: a
   damaged line makes the flush fail, until a segment with no room left, which
   it does not read, lets it roll over.                                      *)
WriteVer(i) == IF nextVer[i] THEN 1 ELSE 0

Parses(lines) == Malformed \notin ToSet(lines)

Target(i, s) ==
  /\ s[1] = WriteVer(i) /\ s[2][1] = i /\ Parses(segment[s])
  /\ \A p \in (1..MaxParts) \ {s[2][2]} : segment[<<s[1], <<i, p>>>>] # <<>> <=> p < s[2][2]

(* Mutant: the batch replaces the content of the segment. *)
ContentBatchOnly(s, batch) == batch

Content(s, batch) == segment[s] \o batch

Flush(i) ==
  /\ \E s \in Segments, n \in 1..Len(wbuf[i]) :
       /\ Target(i, s) /\ Len(Content(s, SubSeq(wbuf[i], 1, n))) <= MaxLines
       /\ segment' = [segment EXCEPT ![s] = Content(s, SubSeq(wbuf[i], 1, n))]
       /\ wbuf' = [wbuf EXCEPT ![i] = SubSeq(@, n + 1, Len(@))]
  /\ UNCHANGED <<clock, call, mem, syncSHA, syncTime, nextVer, applied, retried, events>>

(* The call takes effect and reports an error: restorePending keeps the batch,
   and a later flush stores it again, in this segment, a rollover or N+1. *)
FlushUnclear(i) ==
  /\ events < MaxEvents /\ events' = events + 1
  /\ \E s \in Segments, n \in 1..Len(wbuf[i]) :
       /\ Target(i, s) /\ Len(Content(s, SubSeq(wbuf[i], 1, n))) <= MaxLines
       /\ segment' = [segment EXCEPT ![s] = Content(s, SubSeq(wbuf[i], 1, n))]
       /\ retried' = retried \cup ToSet(SubSeq(wbuf[i], 1, n))
  /\ UNCHANGED <<clock, call, local>>
-----------------------------------------------------------------------------
(* The poll of one segment.  The SHA comes from a listing made after the
   last poll and before the content is read: the segment may have grown since. *)
(* Mutant: the records at the watermark are fresh again. *)
FreshAgain(i, s) == {r \in Decoded(segment[s]) : r.ts >= syncTime[i][s]}

Fresh(i, s) == {r \in Decoded(segment[s]) : r.ts > syncTime[i][s]}

Accepted(i, records) == {r \in records : ~Rejects(i, r)}

(* Mutant: a rejected record moves the watermark. *)
WatermarkOfAll(i, old, records) == IF records = {} THEN old ELSE Latest(records)

Watermark(i, old, records) ==
  IF Accepted(i, records) = {} THEN old ELSE Latest(Accepted(i, records))

(* Mutant: the poll never lists version N+1. *)
PolledVersionN(i, s) == s[1] = 0

Polled(i, s) == s[1] = 0 \/ nextVer[i]

PollSegment(i, s) ==
  /\ Polled(i, s)
  /\ \E listed \in syncSHA[i][s] + 1..Len(segment[s]), fresh \in {Fresh(i, s)} :
       /\ syncSHA' = [syncSHA EXCEPT ![i][s] = listed]
       /\ syncTime' = [syncTime EXCEPT ![i][s] = Watermark(i, @, fresh)]
       /\ mem' = [mem EXCEPT ![i] = ApplyAll(@, InOrder(Accepted(i, fresh)))]
       /\ applied' = [applied EXCEPT ![i] = @ \cup Accepted(i, fresh)]
  /\ UNCHANGED <<clock, call, wbuf, segment, nextVer, retried, events>>

NextListed == \E f \in Files : segment[<<1, f>>] # <<>>

PollFindsNext(i) ==
  /\ ~nextVer[i] /\ NextListed /\ nextVer' = [nextVer EXCEPT ![i] = TRUE]
  /\ UNCHANGED <<clock, call, mem, wbuf, segment, syncSHA, syncTime, applied, retried, events>>

(* A Checkpoint that completes, or finds the version taken, switches the writes. *)
SwitchVersion(i) ==
  /\ ~nextVer[i] /\ nextVer' = [nextVer EXCEPT ![i] = TRUE]
  /\ events < MaxEvents /\ events' = events + 1
  /\ UNCHANGED <<clock, call, mem, wbuf, segment, syncSHA, syncTime, applied, retried>>
-----------------------------------------------------------------------------
(* A start replays version N, then N+1, each sorted by time. *)
Stored(v) == UNION {Decoded(segment[<<v, f>>]) : f \in Files}

(* Mutant: the segments are replayed one after the other. *)
ReplayVersionUnsorted(i, row, v) ==
  ApplyAll(row, FlattenSeq(SetToSeq({InOrder(Accepted(i, Decoded(segment[<<v, f>>]))) : f \in Files})))

ReplayVersion(i, row, v) == ApplyAll(row, InOrder(Accepted(i, Stored(v))))

Replayed(i) == ReplayVersion(i, ReplayVersion(i, Empty, 0), 1)

Restart(i) ==
  /\ events < MaxEvents /\ events' = events + 1
  /\ call' = [w \in Writers |-> IF Home[w] = i THEN Idle ELSE call[w]]
  /\ mem' = [mem EXCEPT ![i] = Replayed(i)]
  /\ wbuf' = [wbuf EXCEPT ![i] = <<>>]
  /\ syncSHA' = [syncSHA EXCEPT ![i] = [s \in Segments |-> Len(segment[s])]]
  /\ syncTime' = [syncTime EXCEPT ![i] = [s \in Segments |-> Watermark(i, 0, Decoded(segment[s]))]]
  /\ nextVer' = [nextVer EXCEPT ![i] = NextListed]
  /\ applied' = [applied EXCEPT ![i] = Accepted(i, Stored(0) \cup Stored(1))]
  /\ UNCHANGED <<clock, segment, retried>>

(* Somebody edits a segment on the delta branch and leaves a damaged line. *)
Corrupt(s) ==
  /\ events < MaxEvents /\ events' = events + 1
  /\ segment[s] # <<>> /\ segment' = [segment EXCEPT ![s] = Append(@, Malformed)]
  /\ UNCHANGED <<clock, call, local, retried>>

Init ==
  /\ clock = 0 /\ call = [w \in Writers |-> Idle]
  /\ mem = [i \in Instances |-> Empty] /\ wbuf = [i \in Instances |-> <<>>]
  /\ segment = [s \in Segments |-> <<>>]
  /\ syncSHA = [i \in Instances |-> [s \in Segments |-> 0]] /\ syncTime = syncSHA
  /\ nextVer = [i \in Instances |-> FALSE] /\ applied = [i \in Instances |-> {}]
  /\ retried = {} /\ events = 0

WriterStep(w) == (\E op \in Ops[w] : Stamp(w, op)) \/ Apply(w) \/ AppendMutation(w)

PollStep(i) == PollFindsNext(i) \/ \E s \in Segments : PollSegment(i, s)

Next ==
  \/ \E w \in Writers : WriterStep(w)
  \/ \E i \in Instances : Flush(i) \/ FlushUnclear(i) \/ PollStep(i) \/ SwitchVersion(i) \/ Restart(i)
  \/ \E s \in Segments : Corrupt(s)

(* The ticker of the poller goes on and the calls of its polls end; segments
   change finitely often, so a poller that keeps polling reaches each of them. *)
Fairness == \A i \in Instances : WF_vars(PollStep(i))

Spec == Init /\ [][Next]_vars /\ Fairness
-----------------------------------------------------------------------------
(* Properties *)

TypeOK ==
  /\ clock \in 0..MaxTS /\ DOMAIN call = Writers
  /\ \A i \in Instances :
       /\ DOMAIN mem[i] \subseteq Fields /\ \A f \in DOMAIN mem[i] : mem[i][f] \in 1..clock
       /\ nextVer[i] \in BOOLEAN
       /\ \A s \in Segments : syncSHA[i][s] \in 0..Len(segment[s]) /\ syncTime[i][s] \in 0..clock

Overtaken(i, s, r) == \E q \in Decoded(segment[s]) \cap applied[i] : q.ts >= r.ts

Settled(i, s, r) == r \in applied[i] \/ Rejects(i, r) \/ Overtaken(i, s, r)

(* Of the content a process has acknowledged it has applied every record, but
   those it rejects and those that another record of the same segment, with
   the same or a later time, overtook; neither a damaged line nor a rejected
   record hides another one (sync.go:95-119). *)
SkippedOnlyIfOvertaken ==
  \A i \in Instances, s \in Segments : \A k \in 1..syncSHA[i][s] :
    segment[s][k] = Malformed \/ Settled(i, s, segment[s][k])

(* A poll applies no record that this process has replayed or polled before,
   in whatever segment, but one that a call stored without its process knowing:
   the process stores it again, and a second segment has a watermark of its own. *)
PolledOnce ==
  [][\A i \in Instances, s \in Segments :
       syncSHA'[i][s] # syncSHA[i][s] /\ events' = events => Accepted(i, Fresh(i, s)) \cap applied[i] \subseteq retried]_vars

(* Reference: every field has the value of the latest record that touches it. *)
Touches(r, f) == r.op \in {"set", "delete"} \/ (r.op \in {"patch", "cut"} /\ r.field = f)

LastWrite(records) ==
  LET last(f) == CHOOSE r \in records : Touches(r, f) /\ \A q \in records : Touches(q, f) => q.ts <= r.ts
      touched == {f \in Fields : \E r \in records : Touches(r, f)}
  IN  [f \in {g \in touched : last(g).op \in {"set", "patch"}} |-> last(f).ts]

AllStored == Stored(0) \cup Stored(1)

(* A start gives every field its last write, as long as no record of N+1 is
   older than one of N. *)
ReplayIsLastWrite ==
  (\A r \in Stored(0), q \in Stored(1) : r.ts < q.ts)
    => \A i \in Instances : Replayed(i) = LastWrite(AllStored)

Quiescent ==
  /\ \A w \in Writers : call[w] = Idle
  /\ \A i \in Instances : wbuf[i] = <<>> /\ \A s \in Segments : syncSHA[i][s] = Len(segment[s])

OneSegment == \A s, t \in Segments : segment[s] # <<>> /\ segment[t] # <<>> => s = t

(* What is stored in one segment, and every process has applied in full, is in
   every process the last write of every field, however the writers of the
   segment raced for memory and buffer and whatever polls repeated over newer
   values in memory.  With two segments it need not be: a poll whose call for
   one of them fails goes on to the next. *)
OneSegmentConverges ==
  /\ Quiescent /\ OneSegment
  /\ \A i \in Instances : Accepted(i, AllStored) \subseteq applied[i]
  => \A i \in Instances : mem[i] = LastWrite(AllStored)

(* When the writes end, every stored record is settled in every process. *)
StoredSettles ==
  []<>(\A i \in Instances, s \in Segments : \A r \in Decoded(segment[s]) : Settled(i, s, r))

(* README.md:239 "Last write wins on timestamps": once everything is flushed
   and polled, every process has the last write of every field. *)
LastWriteWins == Quiescent => \A i \in Instances : mem[i] = LastWrite(AllStored)
=============================================================================
