-------------------------- MODULE ReplicationProofs --------------------------
(***************************************************************************)
(* Theorems about Replication for any processes, writers and bounds: of a  *)
(* segment it has acknowledged, a process has applied every record, but    *)
(* those it rejects and those that a record it did apply overtook; a poll  *)
(* applies no record again, but one whose call reported an error; a start  *)
(* gives every field its last write; and processes that have applied one   *)
(* segment in full agree.                                                  *)
(*                                                                         *)
(* The argument: a watermark is zero or the time of a record of that       *)
(* segment which the process has applied (MarkInv), so what a poll finds   *)
(* behind the watermark is overtaken, and what it finds ahead it applies.  *)
(* What a process has applied is in some segment behind the watermark of   *)
(* it (AppliedAt), and a record is in one call, one buffer or one segment  *)
(* alone, unless a call stored it and reported an error (Apart); so only   *)
(* such a record is found fresh again. Records of one time are the cuts of *)
(* one delete (Apart again), so a replay has an order to sort them into,   *)
(* in which each one becomes the last write of what it touches             *)
(* (LastWriteAdds). While there is one segment, memory has the last write  *)
(* of what was replayed and polled, but where a write of the process is    *)
(* still to be polled (AgreeInv); when nothing is left to poll, that is    *)
(* the last write of the segment.                                          *)
(***************************************************************************)
EXTENDS Replication, InductionLemmas, TLAPS

Names == {"set", "patch", "delete", "cascade", "foreign", "cut"}

Rec == [op : Names, field : Fields, ts : 1..MaxTS, by : Writers]

\* The types of what the argument reads.
Types ==
  /\ clock \in 0..MaxTS
  /\ call \in [Writers -> [records : Seq(Rec), applied : BOOLEAN]]
  /\ wbuf \in [Instances -> Seq(Rec)]
  /\ segment \in [Segments -> Seq(Rec \cup {Malformed})]
  /\ syncSHA \in [Instances -> [Segments -> Nat]]
  /\ syncTime \in [Instances -> [Segments -> Nat]]
  /\ applied \in [Instances -> SUBSET Rec]

\* A process acknowledges no more of a segment than there is.
AckInv == \A i \in Instances, s \in Segments : syncSHA[i][s] <= Len(segment[s])

\* A watermark is the time of a record that the process has applied.
MarkInv ==
  \A i \in Instances, s \in Segments :
    \/ syncTime[i][s] = 0
    \/ \E q \in Decoded(segment[s]) \cap applied[i] : q.ts = syncTime[i][s]

IInv == Types /\ AckInv /\ MarkInv /\ SkippedOnlyIfOvertaken

-----------------------------------------------------------------------------
(* The latest of a set of records *)

\* Latest is the time of one of the records, and no record is later.
LEMMA LatestIsOne ==
  ASSUME NEW S, S \subseteq Rec, S # {}
  PROVE  (\E q \in S : q.ts = Latest(S)) /\ \A r \in S : r.ts <= Latest(S)
<1> DEFINE T == {r.ts : r \in S}
<1>1. T \subseteq 0..MaxTS /\ T # {}
  BY ReplicationAssumption, SMT DEF ReplicationAssumption, Rec
<1>2. \E t \in T : \A u \in T : u <= t
  <2>1. MaxTS \in Nat
    BY ReplicationAssumption, Zenon DEF ReplicationAssumption
  <2> HIDE DEF T
  <2> QED BY <1>1, <2>1, LargestNat, Zenon
<1>3. \E t \in T : \A r \in S : r.ts <= t
  BY <1>2
<1>4. Latest(S) \in T /\ \A r \in S : r.ts <= Latest(S)
  BY <1>3, Zenon DEF Latest
<1> QED BY <1>4

-----------------------------------------------------------------------------
(* The invariant is inductive *)

USE DEF vars, local

LEMMA InitIInv == Init => IInv
<1> SUFFICES ASSUME Init PROVE IInv
  OBVIOUS
<1>1. Types
  BY ReplicationAssumption, SMT DEF ReplicationAssumption, Init, Types, Idle
<1>2. AckInv /\ MarkInv /\ SkippedOnlyIfOvertaken
  BY SMT DEF Init, AckInv, MarkInv, SkippedOnlyIfOvertaken
<1> QED BY <1>1, <1>2 DEF IInv

\* What a process decodes of a segment are records.
LEMMA DecodedAreRecords ==
  ASSUME Types, NEW s \in Segments
  PROVE  Decoded(segment[s]) \subseteq Rec
BY SMT DEF Types, Decoded

\* A segment that grows at its end keeps what is known of it.
LEMMA GrowthKeeps ==
  ASSUME IInv, Types', UNCHANGED <<syncSHA, syncTime, applied>>,
         \A s \in Segments : /\ Len(segment[s]) <= Len(segment'[s])
                             /\ \A k \in 1..Len(segment[s]) : segment'[s][k] = segment[s][k]
  PROVE  IInv'
<1>1. AckInv'
  BY SMT DEF IInv, Types, AckInv
<1>2. \A s \in Segments : Decoded(segment[s]) \subseteq Decoded(segment'[s])
  <2> SUFFICES ASSUME NEW s \in Segments, NEW r \in Decoded(segment[s])
               PROVE  r \in Decoded(segment'[s])
    BY Zenon
  <2>1. PICK k \in DOMAIN segment[s] : r = segment[s][k] /\ r # Malformed
    BY Zenon DEF Decoded
  <2>2. k \in DOMAIN segment'[s] /\ segment'[s][k] = r
    <3>1. DOMAIN segment[s] = 1..Len(segment[s]) /\ DOMAIN segment'[s] = 1..Len(segment'[s])
      BY SMT DEF IInv, Types
    <3>2. Len(segment[s]) \in Nat /\ Len(segment'[s]) \in Nat
      BY SMT DEF IInv, Types
    <3> QED BY <2>1, <3>1, <3>2, SMT
  <2> QED BY <2>1, <2>2, Zenon DEF Decoded
<1>3. MarkInv'
  BY <1>2, Zenon DEF IInv, MarkInv
<1>4. ASSUME NEW i \in Instances, NEW s \in Segments, NEW k \in 1..syncSHA'[i][s]
      PROVE  (segment[s][k] = Malformed \/ Settled(i, s, segment[s][k]))'
  <2>1. k \in 1..syncSHA[i][s] /\ segment'[s][k] = segment[s][k]
    <3>1. /\ syncSHA[i][s] \in Nat /\ Len(segment[s]) \in Nat /\ syncSHA' = syncSHA
          /\ syncSHA[i][s] <= Len(segment[s])
      BY SMT DEF IInv, AckInv, Types
    <3> QED BY <1>4, <3>1, SMT
  <2> QED BY <1>2, <2>1, Zenon DEF IInv, SkippedOnlyIfOvertaken, Settled, Overtaken
<1>5. SkippedOnlyIfOvertaken'
  BY <1>4, Zenon DEF SkippedOnlyIfOvertaken
<1> QED BY <1>1, <1>3, <1>5 DEF IInv

\* A write touches no segment.
LEMMA WriterKeeps == ASSUME IInv, NEW w \in Writers, WriterStep(w) PROVE IInv'
<1> USE ReplicationAssumption DEF ReplicationAssumption
<1>1. Types'
  <2>1. ASSUME NEW op \in Ops[w], Stamp(w, op) PROVE Types'
    <3>1. Records(w, op) \in Seq(Rec) /\ clock' \in 0..MaxTS
      <4>1. clock + 1 \in 1..MaxTS /\ clock' = clock + 1
        BY <2>1, SMT DEF Stamp, IInv, Types
      <4> DEFINE r(o, f) == [op |-> o, field |-> f, ts |-> clock + 1, by |-> w]
      <4>2. \A o \in Names, f \in Fields : r(o, f) \in Rec
        BY <4>1, Zenon DEF Rec
      <4>3. op \in {"set", "patch", "delete", "cascade", "foreign"}
        BY <2>1, Zenon
      <4>4. r(op, "name") \in Rec /\ r("cut", "age") \in Rec /\ r("cut", "name") \in Rec
        BY <4>2, <4>3 DEF Names, Fields
      <4>5. Records(w, op) = <<r(op, "name")>> \/ Records(w, op) = <<r("cut", "age"), r("cut", "name")>>
        BY DEF Records
      <4>6. \A a, b \in Rec : <<a>> \in Seq(Rec) /\ <<a, b>> \in Seq(Rec)
        BY SMT
      <4>7. clock' \in 0..MaxTS
        BY <4>1, SMT
      <4> HIDE DEF r
      <4> QED BY <4>4, <4>5, <4>6, <4>7, Zenon
    <3> QED BY <2>1, <3>1, SMT DEF Stamp, IInv, Types
  <2>2. CASE Apply(w)
    <3>1. /\ call' = [call EXCEPT ![w].applied = TRUE]
          /\ UNCHANGED <<clock, wbuf, segment, syncSHA, syncTime, applied>>
      BY <2>2, Zenon DEF Apply
    <3>2. call[w] \in [records : Seq(Rec), applied : BOOLEAN]
      BY Zenon DEF IInv, Types
    <3>3. [call[w] EXCEPT !.applied = TRUE] \in [records : Seq(Rec), applied : BOOLEAN]
      BY <3>2, Zenon
    <3>4. call' \in [Writers -> [records : Seq(Rec), applied : BOOLEAN]]
      BY <3>1, <3>3, Zenon DEF IInv, Types
    <3> QED BY <3>1, <3>4, Zenon DEF IInv, Types
  <2>3. CASE AppendMutation(w)
    <3>1. call[w].records \in Seq(Rec) /\ call[w].records # <<>>
      BY <2>3, SMT DEF AppendMutation, IInv, Types, Idle
    <3>2. Head(call[w].records) \in Rec /\ Tail(call[w].records) \in Seq(Rec)
      BY <3>1, SMT
    <3>3. /\ wbuf' = [wbuf EXCEPT ![Home[w]] = Append(@, Head(call[w].records))]
          /\ call' = [call EXCEPT ![w].records = Tail(@)]
          /\ UNCHANGED <<clock, segment, syncSHA, syncTime, applied>>
      BY <2>3, Zenon DEF AppendMutation
    <3>4. call[w] \in [records : Seq(Rec), applied : BOOLEAN]
      BY Zenon DEF IInv, Types
    <3>5. [call[w] EXCEPT !.records = Tail(@)] \in [records : Seq(Rec), applied : BOOLEAN]
      BY <3>2, <3>4, Zenon
    <3>6. call' \in [Writers -> [records : Seq(Rec), applied : BOOLEAN]]
      BY <3>3, <3>5, Zenon DEF IInv, Types
    <3>7. wbuf' \in [Instances -> Seq(Rec)]
      BY <3>2, <3>3, SMT DEF IInv, Types
    <3> QED BY <3>3, <3>6, <3>7, Zenon DEF IInv, Types
  <2> QED BY <2>1, <2>2, <2>3 DEF WriterStep
<1>2. UNCHANGED <<segment, syncSHA, syncTime, applied>>
  BY DEF WriterStep, Stamp, Apply, AppendMutation
<1> QED BY <1>1, <1>2, GrowthKeeps, SMTT(30) DEF IInv, Types

\* A flush appends the front of the buffer to a segment of the process, and
\* takes it from the buffer or, when the response is lost, keeps it there.
StoresBatch(i, s, n) ==
  /\ s[2][1] = i /\ segment' = [segment EXCEPT ![s] = segment[s] \o SubSeq(wbuf[i], 1, n)]
  /\ UNCHANGED <<clock, call, mem, syncSHA, syncTime, nextVer, applied>>
  /\ \/ wbuf' = [wbuf EXCEPT ![i] = SubSeq(@, n + 1, Len(@))] /\ retried' = retried
     \/ wbuf' = wbuf /\ retried' = retried \cup ToSet(SubSeq(wbuf[i], 1, n))

LEMMA FlushStores ==
  ASSUME NEW i \in Instances, Flush(i) \/ FlushUnclear(i)
  PROVE  \E s \in Segments, n \in 1..Len(wbuf[i]) : StoresBatch(i, s, n)
BY Zenon DEF Flush, FlushUnclear, Target, Content, StoresBatch, local

\* A flush, or a damaged line, is at the end of a segment.
LEMMA FlushKeeps == ASSUME IInv, NEW i \in Instances, Flush(i) \/ FlushUnclear(i) PROVE IInv'
<1>1. PICK s \in Segments, n \in 1..Len(wbuf[i]) : StoresBatch(i, s, n)
  BY FlushStores
<1>2. /\ segment' = [segment EXCEPT ![s] = segment[s] \o SubSeq(wbuf[i], 1, n)]
      /\ wbuf' = [wbuf EXCEPT ![i] = SubSeq(@, n + 1, Len(@))] \/ wbuf' = wbuf
      /\ UNCHANGED <<clock, call, syncSHA, syncTime, applied>>
  BY <1>1, Zenon DEF StoresBatch
<1>3. SubSeq(wbuf[i], 1, n) \in Seq(Rec) /\ SubSeq(wbuf[i], n + 1, Len(wbuf[i])) \in Seq(Rec)
  BY <1>1, SMT DEF IInv, Types
<1>4. Types'
  <2>1. wbuf' \in [Instances -> Seq(Rec)]
    BY <1>2, <1>3, Zenon DEF IInv, Types
  <2>2. segment' \in [Segments -> Seq(Rec \cup {Malformed})]
    BY <1>2, <1>3, SMTT(30) DEF IInv, Types
  <2> QED BY <1>2, <2>1, <2>2, Zenon DEF IInv, Types
<1>5. \A t \in Segments : /\ Len(segment[t]) <= Len(segment'[t])
                          /\ \A k \in 1..Len(segment[t]) : segment'[t][k] = segment[t][k]
  BY <1>2, <1>3, SMTT(30) DEF IInv, Types
<1> QED BY <1>2, <1>4, <1>5, GrowthKeeps

LEMMA CorruptKeeps == ASSUME IInv, NEW s \in Segments, Corrupt(s) PROVE IInv'
<1>1. Types'
  BY SMT DEF Corrupt, IInv, Types
<1>2. \A t \in Segments : /\ Len(segment[t]) <= Len(segment'[t])
                          /\ \A k \in 1..Len(segment[t]) : segment'[t][k] = segment[t][k]
  BY SMT DEF Corrupt, IInv, Types
<1> QED BY <1>1, <1>2, GrowthKeeps DEF Corrupt

\* A switch of the version reads no segment.
LEMMA SwitchKeeps ==
  ASSUME IInv, NEW i \in Instances, SwitchVersion(i) \/ PollFindsNext(i) PROVE IInv'
<1>1. UNCHANGED <<clock, call, wbuf, segment, syncSHA, syncTime, applied>>
  BY DEF SwitchVersion, PollFindsNext
<1> QED BY <1>1, GrowthKeeps, SMT DEF IInv, Types

\* The new watermark is the old one or the time of an accepted record.
LEMMA WatermarkIsOne ==
  ASSUME NEW i \in Instances, NEW old \in Nat, NEW S, S \subseteq Rec
  PROVE  /\ Watermark(i, old, S) \in Nat
         /\ \/ Watermark(i, old, S) = old
            \/ \E q \in Accepted(i, S) : q.ts = Watermark(i, old, S)
<1>1. CASE Accepted(i, S) = {}
  BY <1>1 DEF Watermark
<1>2. CASE Accepted(i, S) # {}
  <2>1. Accepted(i, S) \subseteq Rec
    BY DEF Accepted
  <2>2. Watermark(i, old, S) = Latest(Accepted(i, S))
    BY <1>2, Zenon DEF Watermark
  <2>3. PICK q \in Accepted(i, S) : q.ts = Latest(Accepted(i, S))
    BY <1>2, <2>1, LatestIsOne, Zenon
  <2>4. q.ts \in Nat
    BY <2>1, ReplicationAssumption, SMT DEF ReplicationAssumption, Rec
  <2> QED BY <2>2, <2>3, <2>4, Zenon
<1> QED BY <1>1, <1>2

\* After a poll of a segment every record of it is settled.
LEMMA PollKeeps ==
  ASSUME IInv, NEW i \in Instances, NEW s \in Segments, PollSegment(i, s) PROVE IInv'
<1> DEFINE D == Decoded(segment[s])
           F == Fresh(i, s)
           mark == Watermark(i, syncTime[i][s], F)
<1>1. D \subseteq Rec /\ F \subseteq D /\ syncTime[i][s] \in Nat
  BY DecodedAreRecords, SMT DEF IInv, Fresh, Types
<1>2. /\ mark \in Nat
      /\ mark = syncTime[i][s] \/ \E q \in Accepted(i, F) : q.ts = mark
  BY <1>1, WatermarkIsOne, Zenon
<1>3. PICK listed \in syncSHA[i][s] + 1..Len(segment[s]) :
        syncSHA' = [syncSHA EXCEPT ![i][s] = listed]
  BY Zenon DEF PollSegment
<1>4. /\ syncTime' = [syncTime EXCEPT ![i][s] = mark]
      /\ applied' = [applied EXCEPT ![i] = @ \cup Accepted(i, F)]
      /\ UNCHANGED <<clock, call, wbuf, segment>>
  BY Zenon DEF PollSegment
<1>5. Accepted(i, F) \subseteq F
  BY DEF Accepted
<1> HIDE DEF D, F, mark
<1>6. listed \in Nat /\ listed <= Len(segment[s])
  BY <1>3, SMT DEF IInv, Types
<1>7. Types'
  BY <1>1, <1>2, <1>3, <1>4, <1>5, <1>6, SMT DEF IInv, Types
<1>8. AckInv'
  BY <1>3, <1>4, <1>6, SMT DEF IInv, Types, AckInv
<1>9. /\ applied[i] \subseteq applied'[i] /\ Accepted(i, F) \subseteq applied'[i]
      /\ \A j \in Instances \ {i} : applied'[j] = applied[j]
  BY <1>4, SMT DEF IInv, Types
<1>10. MarkInv'
  <2> SUFFICES ASSUME NEW j \in Instances, NEW t \in Segments
               PROVE  \/ syncTime'[j][t] = 0
                      \/ \E q \in Decoded(segment[t]) \cap applied'[j] : q.ts = syncTime'[j][t]
    BY <1>4, Zenon DEF MarkInv
  <2>1. CASE j = i /\ t = s /\ mark # syncTime[i][s]
    <3>1. syncTime'[i][s] = mark
      BY <1>4, SMT DEF IInv, Types
    <3> QED BY <1>1, <1>2, <1>5, <1>9, <2>1, <3>1, Zenon DEF D
  <2>2. CASE ~(j = i /\ t = s /\ mark # syncTime[i][s])
    <3>1. syncTime'[j][t] = syncTime[j][t]
      BY <1>4, <2>2, SMT DEF IInv, Types
    <3>2. applied[j] \subseteq applied'[j]
      BY <1>9, SMT
    <3>3. \/ syncTime[j][t] = 0
          \/ \E q \in Decoded(segment[t]) \cap applied[j] : q.ts = syncTime[j][t]
      BY Zenon DEF IInv, MarkInv
    <3> QED BY <3>1, <3>2, <3>3, Zenon
  <2> QED BY <2>1, <2>2
<1>11. ASSUME NEW r \in D PROVE Settled(i, s, r)'
  <2>1. CASE r \in F
    BY <1>9, <2>1 DEF Accepted, Settled
  <2>2. CASE r \notin F
    <3>1. r.ts <= syncTime[i][s] /\ syncTime[i][s] # 0
      BY <1>1, <1>11, <2>2, ReplicationAssumption, SMT DEF ReplicationAssumption, D, F, Fresh, Rec
    <3>2. PICK q \in D \cap applied[i] : q.ts = syncTime[i][s]
      BY <3>1, Zenon DEF IInv, MarkInv, D
    <3>3. q \in Decoded(segment'[s]) \cap applied'[i] /\ q.ts >= r.ts
      BY <1>4, <1>9, <3>1, <3>2, <1>1, SMT DEF D, Rec
    <3> QED BY <3>3, Zenon DEF Settled, Overtaken
  <2> QED BY <2>1, <2>2
<1>12. ASSUME NEW j \in Instances, NEW t \in Segments, NEW k \in 1..syncSHA'[j][t]
       PROVE  (segment[t][k] = Malformed \/ Settled(j, t, segment[t][k]))'
  <2>1. CASE j = i /\ t = s
    <3>1. k \in 1..Len(segment[s])
      BY <1>3, <1>6, <1>12, <2>1, SMT DEF IInv, Types
    <3>2. segment[s][k] = Malformed \/ segment[s][k] \in D
      BY <3>1, SMTT(30) DEF D, Decoded, IInv, Types
    <3> QED BY <1>4, <1>11, <2>1, <3>2, Zenon
  <2>2. CASE ~(j = i /\ t = s)
    <3>1. syncSHA'[j][t] = syncSHA[j][t]
      BY <1>3, <2>2, SMT DEF IInv, Types
    <3>2. applied[j] \subseteq applied'[j] /\ segment' = segment
      BY <1>4, <1>9, SMT
    <3> QED BY <3>1, <3>2, <1>12, Zenon DEF IInv, SkippedOnlyIfOvertaken, Settled, Overtaken
  <2> QED BY <2>1, <2>2
<1>13. SkippedOnlyIfOvertaken'
  BY <1>12, Zenon DEF SkippedOnlyIfOvertaken
<1> QED BY <1>7, <1>8, <1>10, <1>13, Zenon DEF IInv

\* A start settles every record: it applies all that it does not reject.
LEMMA RestartKeeps == ASSUME IInv, NEW i \in Instances, Restart(i) PROVE IInv'
<1> DEFINE D(s) == Decoded(segment[s])
           all == Stored(0) \cup Stored(1)
           mark(s) == Watermark(i, 0, D(s))
<1>1. \A s \in Segments : D(s) \subseteq Rec /\ D(s) \subseteq all
  <2>1. ASSUME NEW v \in Versions, NEW f \in Files PROVE D(<<v, f>>) \subseteq all
    BY DEF Stored, Versions
  <2>2. \A s \in Segments : D(s) \subseteq Rec
    BY DecodedAreRecords, Zenon DEF IInv
  <2>3. \A s \in Segments : \E v \in Versions, f \in Files : s = <<v, f>>
    BY DEF Segments
  <2> QED BY <2>1, <2>2, <2>3, Zenon
<1>2. all \subseteq Rec
  <2>1. ASSUME NEW v \in Versions PROVE Stored(v) \subseteq Rec
    <3>1. \A f \in Files : <<v, f>> \in Segments
      BY DEF Segments
    <3> QED BY <1>1, <3>1 DEF Stored
  <2> QED BY <2>1 DEF Versions
<1>3. ASSUME NEW s \in Segments
      PROVE  mark(s) \in Nat /\ (mark(s) = 0 \/ \E q \in Accepted(i, D(s)) : q.ts = mark(s))
  <2>1. D(s) \subseteq Rec /\ 0 \in Nat
    BY <1>1
  <2> HIDE DEF D
  <2> QED BY <2>1, WatermarkIsOne, Zenon
<1>4. /\ call' = [w \in Writers |-> IF Home[w] = i THEN Idle ELSE call[w]]
      /\ wbuf' = [wbuf EXCEPT ![i] = <<>>]
      /\ syncSHA' = [syncSHA EXCEPT ![i] = [s \in Segments |-> Len(segment[s])]]
      /\ syncTime' = [syncTime EXCEPT ![i] = [s \in Segments |-> mark(s)]]
      /\ applied' = [applied EXCEPT ![i] = Accepted(i, all)]
      /\ UNCHANGED <<clock, segment>>
  BY Zenon DEF Restart
<1>5. Accepted(i, all) \subseteq Rec /\ \A s \in Segments : Accepted(i, D(s)) \subseteq Accepted(i, all)
  BY <1>1, <1>2, Zenon DEF Accepted
<1>6. \A r \in all : r \in Accepted(i, all) \/ Rejects(i, r)
  BY Zenon DEF Accepted
<1> HIDE DEF D, all, mark
<1>7. Types'
  <2>1. call' \in [Writers -> [records : Seq(Rec), applied : BOOLEAN]]
    <3>1. Idle \in [records : Seq(Rec), applied : BOOLEAN]
      BY SMT DEF Idle
    <3> QED BY <1>4, <3>1, Zenon DEF IInv, Types
  <2>2. wbuf' \in [Instances -> Seq(Rec)]
    BY <1>4, SMT DEF IInv, Types
  <2>3. /\ syncSHA' \in [Instances -> [Segments -> Nat]]
        /\ syncTime' \in [Instances -> [Segments -> Nat]]
    <3>1. \A s \in Segments : Len(segment[s]) \in Nat
      BY SMT DEF IInv, Types
    <3>2. /\ [s \in Segments |-> Len(segment[s])] \in [Segments -> Nat]
          /\ [s \in Segments |-> mark(s)] \in [Segments -> Nat]
      BY <1>3, <3>1, Zenon
    <3> QED BY <1>4, <3>2, Zenon DEF IInv, Types
  <2>4. applied' \in [Instances -> SUBSET Rec]
    BY <1>4, <1>5, Zenon DEF IInv, Types
  <2> QED BY <1>4, <2>1, <2>2, <2>3, <2>4, Zenon DEF IInv, Types
<1>8. /\ applied'[i] = Accepted(i, all)
      /\ \A s \in Segments : syncSHA'[i][s] = Len(segment[s]) /\ syncTime'[i][s] = mark(s)
      /\ \A j \in Instances \ {i} : /\ applied'[j] = applied[j]
                                    /\ syncSHA'[j] = syncSHA[j] /\ syncTime'[j] = syncTime[j]
  BY <1>4, Zenon DEF IInv, Types
<1>9. AckInv'
  <2>1. \A s \in Segments : Len(segment[s]) \in Nat
    BY SMT DEF IInv, Types
  <2> QED BY <1>4, <1>8, <2>1, SMT DEF IInv, AckInv
<1>10. MarkInv'
  <2> SUFFICES ASSUME NEW j \in Instances, NEW s \in Segments
               PROVE  \/ syncTime'[j][s] = 0
                      \/ \E q \in Decoded(segment[s]) \cap applied'[j] : q.ts = syncTime'[j][s]
    BY <1>4, Zenon DEF MarkInv
  <2>1. CASE j = i
    <3>1. Accepted(i, D(s)) \subseteq Decoded(segment[s])
      BY DEF Accepted, D
    <3> QED BY <1>3, <1>5, <1>8, <2>1, <3>1, Zenon
  <2>2. CASE j # i
    BY <1>8, <2>2, ZenonT(30) DEF IInv, MarkInv
  <2> QED BY <2>1, <2>2
<1>11. ASSUME NEW j \in Instances, NEW s \in Segments, NEW k \in 1..syncSHA'[j][s]
       PROVE  (segment[s][k] = Malformed \/ Settled(j, s, segment[s][k]))'
  <2>1. CASE j = i
    <3>1. segment[s][k] = Malformed \/ segment[s][k] \in D(s)
      <4>1. k \in DOMAIN segment[s]
        BY <1>8, <1>11, <2>1, SMT DEF IInv, Types
      <4> QED BY <4>1 DEF D, Decoded
    <3> QED BY <1>1, <1>4, <1>6, <1>8, <2>1, <3>1, Zenon DEF Settled
  <2>2. CASE j # i
    BY <1>4, <1>8, <1>11, <2>2, Zenon DEF IInv, SkippedOnlyIfOvertaken, Settled, Overtaken
  <2> QED BY <2>1, <2>2
<1>12. SkippedOnlyIfOvertaken'
  BY <1>11, Zenon DEF SkippedOnlyIfOvertaken
<1> QED BY <1>7, <1>9, <1>10, <1>12, Zenon DEF IInv

LEMMA NextIInv == IInv /\ [Next]_vars => IInv'
<1> SUFFICES ASSUME IInv, [Next]_vars PROVE IInv'
  OBVIOUS
<1>1. CASE \E w \in Writers : WriterStep(w)
  BY <1>1, WriterKeeps
<1>2. CASE \E i \in Instances : Flush(i) \/ FlushUnclear(i) \/ PollStep(i) \/ SwitchVersion(i) \/ Restart(i)
  BY <1>2, FlushKeeps, PollKeeps, SwitchKeeps, RestartKeeps, Zenon DEF PollStep
<1>3. CASE \E s \in Segments : Corrupt(s)
  BY <1>3, CorruptKeeps
<1>4. CASE UNCHANGED vars
  <2>1. UNCHANGED <<clock, call, wbuf, segment, syncSHA, syncTime, applied>>
    BY <1>4
  <2> QED BY <2>1, Zenon DEF IInv, Types, AckInv, MarkInv, SkippedOnlyIfOvertaken, Settled, Overtaken
<1> QED BY <1>1, <1>2, <1>3, <1>4, Zenon DEF Next

-----------------------------------------------------------------------------
(* The theorem about what is skipped *)

\* Of what a process has acknowledged it has applied every record, but those
\* that it rejects and those that a record it applied overtook, whatever lines
\* are damaged and however polls, flushes and restarts interleave.
THEOREM NothingElseIsSkipped == Spec => []SkippedOnlyIfOvertaken
<1>1. IInv => SkippedOnlyIfOvertaken
  BY Zenon DEF IInv
<1> HIDE DEF vars
<1> QED BY InitIInv, NextIInv, <1>1, PTL DEF Spec
-----------------------------------------------------------------------------
(* The rows a replay goes through *)

\* The rows and the records of the first t readings of the clock.
Rows(t) == UNION {[D -> 1..t] : D \in SUBSET Fields}

RecUpTo(t) == {r \in Rec : r.ts <= t}

LEMMA ApplyTyped ==
  ASSUME NEW t \in Nat, NEW row \in Rows(t), NEW r \in RecUpTo(t)
  PROVE  ApplyFn(row, r) \in Rows(t)
<1>1. PICK D \in SUBSET Fields : row \in [D -> 1..t]
  BY DEF Rows
<1>2. r.ts \in 1..t /\ r.field \in Fields
  BY ReplicationAssumption, SMT DEF ReplicationAssumption, RecUpTo, Rec
<1>3. ASSUME NEW E \in SUBSET Fields, NEW x \in [E -> 1..t] PROVE x \in Rows(t)
  BY <1>3, Zenon DEF Rows
<1>4. [f \in Fields |-> r.ts] \in Rows(t)
  BY <1>2, <1>3
<1>5. [f \in DOMAIN row \cup {r.field} |-> IF f = r.field THEN r.ts ELSE row[f]] \in Rows(t)
  BY <1>1, <1>2, <1>3
<1>6. [f \in DOMAIN row \ {r.field} |-> row[f]] \in Rows(t)
  BY <1>1, <1>3
<1>7. Empty \in Rows(t)
  <2>1. Empty \in [{} -> 1..t]
    BY DEF Empty
  <2> QED BY <1>3, <2>1, Zenon
<1> QED BY <1>4, <1>5, <1>6, <1>7, Zenon DEF ApplyFn

\* The rows after each of the records.
Steps(f, row, records) ==
  f = [k \in 0..Len(records) |-> IF k = 0 THEN row ELSE ApplyFn(f[k - 1], records[k])]

LEMMA StepsExist ==
  ASSUME NEW t \in Nat, NEW row \in Rows(t), NEW records \in Seq(RecUpTo(t))
  PROVE  \E f : Steps(f, row, records)
<1> DEFINE n == Len(records)
           step == [k \in Nat |-> [x \in Rows(t) |-> IF k \in 1..n THEN ApplyFn(x, records[k]) ELSE x]]
<1>1. n \in Nat /\ \A k \in 1..n : records[k] \in RecUpTo(t)
  BY SMT
<1>2. step \in [Nat -> [Rows(t) -> Rows(t)]]
  <2>1. ASSUME NEW k \in Nat, NEW x \in Rows(t)
        PROVE  (IF k \in 1..n THEN ApplyFn(x, records[k]) ELSE x) \in Rows(t)
    BY <1>1, ApplyTyped, Zenon
  <2> QED BY <2>1, Zenon
<1>3. PICK f \in [0..n -> Rows(t)] : Iterates(f, row, step, n)
  <2> HIDE DEF step, n
  <2> QED BY <1>1, <1>2, PrimitiveRecursion
<1>4. ASSUME NEW k \in 0..n PROVE f[k] = IF k = 0 THEN row ELSE ApplyFn(f[k - 1], records[k])
  <2>1. CASE k = 0
    BY <1>3, <2>1, Zenon DEF Iterates
  <2>2. CASE k # 0
    <3>1. k \in 1..n /\ k \in Nat /\ k - 1 \in 0..n
      <4> HIDE DEF n
      <4> QED BY <1>1, <2>2
    <3>2. f[k - 1] \in Rows(t)
      BY <1>3, <3>1, Zenon
    <3>3. f[k] = step[k][f[k - 1]]
      BY <1>3, <3>1, Zenon DEF Iterates
    <3>4. f[k] = ApplyFn(f[k - 1], records[k])
      BY <3>1, <3>2, <3>3, Zenon
    <3> QED BY <2>2, <3>4
  <2> QED BY <2>1, <2>2
<1>5. f = [k \in 0..n |-> IF k = 0 THEN row ELSE ApplyFn(f[k - 1], records[k])]
  BY <1>3, <1>4
<1> QED BY <1>5, Zenon DEF Steps

\* ApplyAll is the last of them, and all of them are rows.
LEMMA ApplyAllSteps ==
  ASSUME NEW t \in Nat, NEW row \in Rows(t), NEW records \in Seq(RecUpTo(t))
  PROVE  \E f \in [0..Len(records) -> Rows(t)] :
           /\ f[0] = row /\ \A k \in 1..Len(records) : f[k] = ApplyFn(f[k - 1], records[k])
           /\ ApplyAll(row, records) = f[Len(records)]
<1> DEFINE n == Len(records)
           f == CHOOSE g : Steps(g, row, records)
           T == {k \in Nat : k <= n => f[k] \in Rows(t)}
<1>1. n \in Nat /\ \A k \in 1..n : records[k] \in RecUpTo(t)
  BY SMT
<1>2. Steps(f, row, records)
  BY StepsExist, Zenon
<1>3. ApplyAll(row, records) = f[n]
  BY Zenon DEF ApplyAll, Steps
<1> HIDE DEF f
<1>4. f = [k \in 0..n |-> IF k = 0 THEN row ELSE ApplyFn(f[k - 1], records[k])]
  BY <1>2, Zenon DEF Steps
<1> HIDE DEF n
<1>5. f[0] = row /\ \A k \in 1..n : f[k] = ApplyFn(f[k - 1], records[k])
  <2>1. \A k \in 0..n : f[k] = IF k = 0 THEN row ELSE ApplyFn(f[k - 1], records[k])
    BY <1>4, Zenon
  <2>2. 0 \in 0..n /\ \A k \in 1..n : k \in 0..n /\ k # 0
    BY <1>1
  <2> QED BY <2>1, <2>2, Zenon
<1>6. 0 \in T
  BY <1>5
<1>7. ASSUME NEW k \in Nat, k \in T PROVE k + 1 \in T
  <2>1. CASE k + 1 <= n
    <3>1. k <= n /\ k + 1 \in 1..n /\ (k + 1) - 1 = k
      BY <1>1, <2>1
    <3>2. f[k] \in Rows(t)
      BY <1>7, <3>1
    <3>3. f[k + 1] = ApplyFn(f[k], records[k + 1])
      BY <1>5, <3>1, Zenon
    <3>4. f[k + 1] \in Rows(t)
      BY <1>1, <3>1, <3>2, <3>3, ApplyTyped, Zenon
    <3> QED BY <3>4
  <2>2. CASE ~(k + 1 <= n)
    BY <2>2
  <2> QED BY <2>1, <2>2
<1>8. Nat \subseteq T
  <2> HIDE DEF T
  <2> QED BY <1>6, <1>7, SetInduction
<1>9. f \in [0..n -> Rows(t)]
  <2>1. \A k \in 0..n : f[k] \in Rows(t)
    BY <1>1, <1>8
  <2>2. DOMAIN f = 0..n /\ f = [k \in DOMAIN f |-> f[k]]
    BY <1>4, Zenon
  <2> QED BY <2>1, <2>2, Zenon
<1> QED BY <1>3, <1>5, <1>9, Zenon DEF n

LEMMA ApplyAllTyped ==
  ASSUME NEW t \in Nat, NEW row \in Rows(t), NEW records \in Seq(RecUpTo(t))
  PROVE  ApplyAll(row, records) \in Rows(t)
<1>1. PICK f \in [0..Len(records) -> Rows(t)] : ApplyAll(row, records) = f[Len(records)]
  BY ApplyAllSteps, ZenonT(30)
<1>2. Len(records) \in 0..Len(records)
  BY SMT
<1> QED BY <1>1, <1>2, Zenon

-----------------------------------------------------------------------------
(* Records told apart by time and field are sorted *)

\* Two records of one time are the two cuts of one cascading delete.
ToldApart(S) ==
  \A r, q \in S : r.ts = q.ts /\ r # q => r.op = "cut" /\ q.op = "cut" /\ r.field # q.field

Key(r) == IF r.field = "age" THEN 2 * r.ts - 1 ELSE 2 * r.ts

LEMMA InOrderSorts ==
  ASSUME NEW S \in SUBSET Rec, ToldApart(S)
  PROVE  /\ InOrder(S) \in Seq(S) /\ Len(InOrder(S)) = Cardinality(S)
         /\ \A j, k \in 1..Len(InOrder(S)) : j < k => Key(InOrder(S)[j]) < Key(InOrder(S)[k])
         /\ \A r \in S : \E k \in 1..Len(InOrder(S)) : InOrder(S)[k] = r
<1> DEFINE key == [r \in S |-> Key(r)]
           bound == 2 * MaxTS
           s == InOrder(S)
<1>1. MaxTS \in Nat
  BY ReplicationAssumption, Zenon DEF ReplicationAssumption
<1>2. \A r \in S : r.ts \in 1..MaxTS /\ r.field \in Fields
  BY SMT DEF Rec
<1>3. \A r \in S : Key(r) \in 0..2 * MaxTS
  BY <1>1, <1>2, SMT DEF Key
<1>4. ASSUME NEW a \in S, NEW b \in S, Key(a) = Key(b) PROVE a = b
  <2>1. a.ts = b.ts /\ (a.field = "age" <=> b.field = "age")
    BY <1>1, <1>2, <1>4, SMTT(30) DEF Key
  <2>2. a.field = b.field
    BY <1>2, <2>1, Zenon DEF Fields
  <2> QED BY <2>1, <2>2, Zenon DEF ToldApart
<1>5. Keyed(S, key, bound)
  <2>1. 2 * MaxTS \in Nat
    BY <1>1
  <2>2. \A a, b \in S : key[a] = key[b] => a = b
    BY <1>4, Zenon
  <2>3. key \in [S -> 0..bound]
    BY <1>3, Zenon
  <2>4. IsFiniteSet(S)
    <3>1. key \in Injection(S, 0..bound)
      BY <2>2, <2>3, Zenon DEF Injection, IsInjective
    <3>2. IsFiniteSet(0..bound)
      BY <2>1, FS_Interval
    <3> HIDE DEF key, bound
    <3> QED BY <3>1, <3>2, FS_Injection
  <2> QED BY <2>1, <2>2, <2>3, <2>4, Zenon DEF Keyed
<1>6. Sorts(s, S, key)
  <2>1. s = [k \in 1..Cardinality(S) |->
               CHOOSE r \in S : Cardinality({q \in S : Key(q) < Key(r)}) = k - 1]
    BY Zenon DEF InOrder, Key
  <2>2. ASSUME NEW r \in S PROVE Before(S, key, r) = {q \in S : Key(q) < Key(r)}
    BY Zenon DEF Before
  <2>3. \A k : (CHOOSE r \in S : Cardinality({q \in S : Key(q) < Key(r)}) = k - 1)
               = (CHOOSE r \in S : Cardinality(Before(S, key, r)) = k - 1)
    BY <2>2, Zenon
  <2> QED BY <2>1, <2>3, Zenon DEF Sorts
<1> HIDE DEF s
<1>7. /\ s \in Seq(S) /\ Len(s) = Cardinality(S)
      /\ \A j, k \in 1..Len(s) : j < k => key[s[j]] < key[s[k]]
      /\ \A r \in S : \E k \in 1..Len(s) : s[k] = r
  <2> HIDE DEF key, bound
  <2> QED BY <1>5, <1>6, SortedSequence
<1>8. \A k \in 1..Len(s) : s[k] \in S
  BY <1>7, SMT
<1>9. \A j, k \in 1..Len(s) : j < k => Key(s[j]) < Key(s[k])
  BY <1>7, <1>8, Zenon
<1> QED BY <1>7, <1>9, Zenon DEF s
-----------------------------------------------------------------------------
(* Where a record is: in a call, in a buffer or in a segment, and in one alone *)

Places == ({"call"} \X Writers) \cup ({"buffer"} \X Instances) \cup ({"segment"} \X Segments)

Held(p) ==
  CASE p[1] = "call" -> ToSet(call[p[2]].records)
    [] p[1] = "buffer" -> ToSet(wbuf[p[2]])
    [] OTHER -> Decoded(segment[p[2]])

LEMMA HeldAt ==
  /\ \A w \in Writers : /\ <<"call", w>> \in Places /\ Held(<<"call", w>>) = ToSet(call[w].records)
                        /\ (Held(<<"call", w>>))' = ToSet(call'[w].records)
  /\ \A i \in Instances : /\ <<"buffer", i>> \in Places /\ Held(<<"buffer", i>>) = ToSet(wbuf[i])
                          /\ (Held(<<"buffer", i>>))' = ToSet(wbuf'[i])
  /\ \A s \in Segments : /\ <<"segment", s>> \in Places /\ Held(<<"segment", s>>) = Decoded(segment[s])
                         /\ (Held(<<"segment", s>>))' = Decoded(segment'[s])
<1>1. "call" # "buffer" /\ "call" # "segment" /\ "buffer" # "segment"
  OBVIOUS
<1>2. ASSUME NEW w \in Writers
      PROVE  /\ <<"call", w>> \in Places /\ Held(<<"call", w>>) = ToSet(call[w].records)
             /\ (Held(<<"call", w>>))' = ToSet(call'[w].records)
  BY <1>1 DEF Places, Held
<1>3. ASSUME NEW i \in Instances
      PROVE  /\ <<"buffer", i>> \in Places /\ Held(<<"buffer", i>>) = ToSet(wbuf[i])
             /\ (Held(<<"buffer", i>>))' = ToSet(wbuf'[i])
  BY <1>1 DEF Places, Held
<1>4. ASSUME NEW s \in Segments
      PROVE  /\ <<"segment", s>> \in Places /\ Held(<<"segment", s>>) = Decoded(segment[s])
             /\ (Held(<<"segment", s>>))' = Decoded(segment'[s])
  BY <1>1 DEF Places, Held
<1> QED BY <1>2, <1>3, <1>4, Zenon

LEMMA PlaceIs ==
  \A p \in Places : \/ \E w \in Writers : p = <<"call", w>>
                    \/ \E i \in Instances : p = <<"buffer", i>>
                    \/ \E s \in Segments : p = <<"segment", s>>
BY SMT DEF Places

\* A record has a time that has passed.
Past == \A p \in Places : Held(p) \subseteq RecUpTo(clock)

\* It is in one place, unless a call has stored it unnoticed; others of its
\* time are the cuts of one delete.
Once(r, p, q) == p = q \/ (r \in retried /\ p[1] # "call" /\ q[1] # "call")

Apart ==
  \A p, q \in Places : \A r \in Held(p), x \in Held(q) :
    /\ r = x => Once(r, p, q)
    /\ r.ts = x.ts /\ r # x => r.op = "cut" /\ x.op = "cut" /\ r.field # x.field

\* It is there once.
OnceInLine ==
  /\ \A w \in Writers : IsInjective(call[w].records)
  /\ \A i \in Instances : IsInjective(wbuf[i])

\* What a process has applied is stored in a segment, behind its watermark.
AppliedAt ==
  \A i \in Instances : \A r \in applied[i] :
    \E s \in Segments : r \in Decoded(segment[s]) /\ r.ts <= syncTime[i][s]

PlaceInv == Past /\ Apart /\ OnceInLine /\ AppliedAt

\* Records move from one place to another, or go.
LEMMA MovedKeeps ==
  ASSUME Past, Apart, clock' = clock, retried \subseteq retried',
         NEW from \in Places, NEW to \in Places, to[1] # "call",
         NEW P, P \subseteq Held(from),
         \A r \in P : r \notin Held(from)' \/ (r \in retried' /\ from[1] # "call"),
         \A p \in Places : Held(p)' \subseteq Held(p) \cup P,
         \A p \in Places : p # to => Held(p)' \subseteq Held(p)
  PROVE  (Past /\ Apart)'
<1>1. P \subseteq RecUpTo(clock)
  BY DEF Past
<1>2. Past'
  BY <1>1, Zenon DEF Past
<1>3. ASSUME NEW p \in Places, NEW r \in Held(p)'
      PROVE  \E old \in Places : r \in Held(old) /\ (old = p \/ (old = from /\ p = to /\ r \in P))
  BY <1>3, Zenon
<1>4. ASSUME NEW p \in Places, NEW q \in Places, NEW r \in Held(p)', NEW x \in Held(q)'
      PROVE  /\ r = x => p = q \/ (r \in retried' /\ p[1] # "call" /\ q[1] # "call")
             /\ r.ts = x.ts /\ r # x => r.op = "cut" /\ x.op = "cut" /\ r.field # x.field
  <2>1. PICK a \in Places : r \in Held(a) /\ (a = p \/ (a = from /\ p = to /\ r \in P))
    BY <1>3, <1>4, Zenon
  <2>2. PICK b \in Places : x \in Held(b) /\ (b = q \/ (b = from /\ q = to /\ x \in P))
    BY <1>3, <1>4, Zenon
  <2>3. /\ r = x => a = b \/ (r \in retried /\ a[1] # "call" /\ b[1] # "call")
        /\ r.ts = x.ts /\ r # x => r.op = "cut" /\ x.op = "cut" /\ r.field # x.field
    BY <2>1, <2>2 DEF Apart, Once
  <2>4. ASSUME r = x PROVE p = q \/ (r \in retried' /\ p[1] # "call" /\ q[1] # "call")
    <3>1. CASE a # b
      BY <2>1, <2>2, <2>3, <2>4, <3>1, Zenon
    <3>2. CASE a = b /\ a = p /\ b = q
      BY <3>2
    <3>3. CASE a = b /\ a = p /\ b = from /\ q = to /\ x \in P
      BY <1>4, <2>4, <3>3, Zenon
    <3>4. CASE a = b /\ a = from /\ p = to /\ r \in P /\ b = q
      BY <1>4, <2>4, <3>4, Zenon
    <3>5. CASE p = to /\ q = to
      BY <3>5
    <3> QED BY <2>1, <2>2, <3>1, <3>2, <3>3, <3>4, <3>5, Zenon
  <2> QED BY <2>3, <2>4, Zenon
<1>5. Apart'
  BY <1>4, Zenon DEF Apart, Once
<1> QED BY <1>2, <1>5

LEMMA FewerKeeps ==
  ASSUME Past, Apart, clock' = clock, retried' = retried, \A p \in Places : Held(p)' \subseteq Held(p)
  PROVE  (Past /\ Apart)'
<1>1. Past'
  BY Zenon DEF Past
<1>2. Apart'
  BY DEF Apart, Once
<1> QED BY <1>1, <1>2

-----------------------------------------------------------------------------
(* Sequences in which nothing is twice *)

LEMMA TakenFromFront ==
  ASSUME NEW S, NEW s \in Seq(S), IsInjective(s), s # <<>>
  PROVE  /\ Head(s) \in ToSet(s) /\ ToSet(Tail(s)) \subseteq ToSet(s)
         /\ Head(s) \notin ToSet(Tail(s)) /\ IsInjective(Tail(s))
<1>1. /\ Len(s) \in Nat \ {0} /\ Tail(s) \in Seq(S) /\ Len(Tail(s)) = Len(s) - 1 /\ Head(s) = s[1]
      /\ \A k \in 1..Len(s) - 1 : Tail(s)[k] = s[k + 1]
  BY SMT
<1>2. DOMAIN s = 1..Len(s) /\ DOMAIN Tail(s) = 1..Len(s) - 1
  BY <1>1, SMT
<1>3. \A j, k \in 1..Len(s) : s[j] = s[k] => j = k
  BY <1>2, Zenon DEF IsInjective
<1>4. \A k \in 1..Len(s) - 1 : k + 1 \in 1..Len(s) /\ k + 1 # 1 /\ Tail(s)[k] = s[k + 1]
  BY <1>1, SMT
<1>5. 1 \in 1..Len(s)
  BY <1>1, SMT
<1>6. Head(s) \in ToSet(s) /\ ToSet(Tail(s)) \subseteq ToSet(s) /\ Head(s) \notin ToSet(Tail(s))
  <2>1. Head(s) \in ToSet(s)
    BY <1>1, <1>2, <1>5, Zenon DEF ToSet
  <2>2. ToSet(Tail(s)) \subseteq ToSet(s)
    BY <1>2, <1>4, Zenon DEF ToSet
  <2>3. ASSUME NEW k \in 1..Len(s) - 1, Tail(s)[k] = Head(s) PROVE FALSE
    <3>1. s[k + 1] = s[1] /\ k + 1 \in 1..Len(s)
      BY <1>1, <1>4, <2>3, Zenon
    <3> QED BY <1>3, <1>4, <1>5, <3>1, Zenon
  <2> QED BY <1>2, <2>1, <2>2, <2>3, Zenon DEF ToSet
<1>7. ASSUME NEW j \in 1..Len(s) - 1, NEW k \in 1..Len(s) - 1, Tail(s)[j] = Tail(s)[k] PROVE j = k
  <2>1. j + 1 = k + 1
    BY <1>3, <1>4, <1>7, Zenon
  <2> QED BY <1>1, <2>1, SMT
<1> QED BY <1>2, <1>6, <1>7, Zenon DEF IsInjective

LEMMA PutAtEnd ==
  ASSUME NEW S, NEW s \in Seq(S), IsInjective(s), NEW e \in S, e \notin ToSet(s)
  PROVE  ToSet(Append(s, e)) = ToSet(s) \cup {e} /\ IsInjective(Append(s, e))
<1> DEFINE a == Append(s, e)
<1>1. /\ Len(s) \in Nat /\ a \in Seq(S) /\ Len(a) = Len(s) + 1 /\ a[Len(s) + 1] = e
      /\ \A k \in 1..Len(s) : a[k] = s[k]
  BY SMT
<1>2. DOMAIN s = 1..Len(s) /\ DOMAIN a = 1..Len(s) + 1
  BY <1>1, SMT
<1> HIDE DEF a
<1>3. \A k \in 1..Len(s) + 1 : k \in 1..Len(s) \/ k = Len(s) + 1
  BY <1>1, SMT
<1>4. Len(s) + 1 \in 1..Len(s) + 1 /\ \A k \in 1..Len(s) : k \in 1..Len(s) + 1
  BY <1>1, SMT
<1>5. \A k \in 1..Len(s) : s[k] \in ToSet(s)
  BY <1>2, Zenon DEF ToSet
<1>6. ToSet(a) = ToSet(s) \cup {e}
  BY <1>1, <1>2, <1>3, <1>4, Zenon DEF ToSet
<1>7. \A j, k \in 1..Len(s) : s[j] = s[k] => j = k
  BY <1>2, Zenon DEF IsInjective
<1>8. \A j, k \in 1..Len(s) + 1 : a[j] = a[k] => j = k
  BY <1>1, <1>3, <1>5, <1>7, Zenon
<1> QED BY <1>2, <1>6, <1>8, Zenon DEF a, IsInjective

LEMMA CutInTwo ==
  ASSUME NEW S, NEW s \in Seq(S), IsInjective(s), NEW n \in 1..Len(s)
  PROVE  /\ ToSet(SubSeq(s, 1, n)) \subseteq ToSet(s) /\ ToSet(SubSeq(s, n + 1, Len(s))) \subseteq ToSet(s)
         /\ \A e \in ToSet(SubSeq(s, 1, n)) : e \notin ToSet(SubSeq(s, n + 1, Len(s)))
         /\ IsInjective(SubSeq(s, n + 1, Len(s)))
<1> DEFINE a == SubSeq(s, 1, n)
           b == SubSeq(s, n + 1, Len(s))
           m == Len(s) - n
<1>1. /\ Len(s) \in Nat /\ m \in Nat /\ n \in Nat
      /\ DOMAIN s = 1..Len(s) /\ DOMAIN a = 1..n /\ DOMAIN b = 1..m
  BY SMT
<1>2. \A k \in 1..n : k \in 1..Len(s) /\ a[k] = s[k]
  BY <1>1, SMT
<1>3. \A k \in 1..m : k + n \in 1..Len(s) /\ b[k] = s[k + n]
  BY <1>1, SMT
<1>4. \A j, k \in 1..Len(s) : s[j] = s[k] => j = k
  BY <1>1, Zenon DEF IsInjective
<1>5. \A j \in 1..n, k \in 1..m : j # k + n
  BY <1>1, SMT
<1>6. \A j, k \in 1..m : j + n = k + n => j = k
  BY <1>1, SMT
<1> HIDE DEF a, b, m
<1>7. ToSet(a) \subseteq ToSet(s) /\ ToSet(b) \subseteq ToSet(s)
  BY <1>1, <1>2, <1>3, Zenon DEF ToSet
<1>8. \A e \in ToSet(a) : e \notin ToSet(b)
  <2>1. ASSUME NEW j \in 1..n, NEW k \in 1..m, a[j] = b[k] PROVE FALSE
    <3>1. s[j] = s[k + n]
      BY <1>2, <1>3, <2>1, Zenon
    <3> QED BY <1>2, <1>3, <1>4, <1>5, <3>1, Zenon
  <2> QED BY <1>1, <2>1, Zenon DEF ToSet
<1>9. IsInjective(b)
  BY <1>1, <1>3, <1>4, <1>6, ZenonT(30) DEF IsInjective
<1> QED BY <1>7, <1>8, <1>9, Zenon DEF a, b

LEMMA DecodedConcat ==
  ASSUME NEW S, NEW a \in Seq(S), NEW b \in Seq(S)
  PROVE  Decoded(a \o b) \subseteq Decoded(a) \cup ToSet(b) /\ Decoded(a) \subseteq Decoded(a \o b)
<1> DEFINE c == a \o b
<1>1. /\ Len(a) \in Nat /\ Len(b) \in Nat /\ DOMAIN a = 1..Len(a) /\ DOMAIN b = 1..Len(b)
      /\ DOMAIN c = 1..Len(a) + Len(b)
      /\ \A k \in 1..Len(a) + Len(b) : c[k] = IF k <= Len(a) THEN a[k] ELSE b[k - Len(a)]
  BY SMT
<1> HIDE DEF c
<1>2. \A k \in DOMAIN c : (k \in DOMAIN a /\ c[k] = a[k]) \/ (k - Len(a) \in DOMAIN b /\ c[k] = b[k - Len(a)])
  BY <1>1, SMT
<1>3. \A k \in DOMAIN a : k \in DOMAIN c /\ c[k] = a[k]
  BY <1>1, SMT
<1>4. Decoded(c) \subseteq Decoded(a) \cup ToSet(b) /\ Decoded(a) \subseteq Decoded(c)
  BY <1>2, <1>3, Zenon DEF Decoded, ToSet
<1> QED BY <1>4 DEF c

LEMMA DecodedAppend ==
  ASSUME NEW S, NEW a \in Seq(S)
  PROVE  Decoded(Append(a, Malformed)) = Decoded(a)
<1> DEFINE c == Append(a, Malformed)
<1>1. /\ Len(a) \in Nat /\ DOMAIN a = 1..Len(a) /\ DOMAIN c = 1..Len(a) + 1
      /\ c[Len(a) + 1] = Malformed /\ \A k \in 1..Len(a) : c[k] = a[k]
  <2> HIDE DEF Malformed
  <2> QED BY SMT
<1> HIDE DEF c
<1>2. \A k \in DOMAIN c : (k \in DOMAIN a /\ c[k] = a[k]) \/ c[k] = Malformed
  BY <1>1, SMT
<1>3. \A k \in DOMAIN a : k \in DOMAIN c /\ c[k] = a[k]
  BY <1>1, SMT
<1>4. Decoded(c) = Decoded(a)
  BY <1>2, <1>3, Zenon DEF Decoded
<1> QED BY <1>4 DEF c

-----------------------------------------------------------------------------
(* Every step keeps records where they can be told apart *)

\* The rows of the processes.
MemInv == mem \in [Instances -> Rows(clock)] /\ nextVer \in [Instances -> BOOLEAN]

RInv == IInv /\ PlaceInv /\ MemInv

LEMMA LaterRows == ASSUME NEW t \in Nat PROVE Rows(t) \subseteq Rows(t + 1) /\ RecUpTo(t) \subseteq RecUpTo(t + 1)
<1>1. 1..t \subseteq 1..t + 1
  BY SMT
<1>2. ASSUME NEW D \in SUBSET Fields, NEW row \in [D -> 1..t] PROVE row \in [D -> 1..t + 1]
  BY <1>1
<1>3. Rows(t) \subseteq Rows(t + 1)
  <2>1. ASSUME NEW row \in Rows(t) PROVE row \in Rows(t + 1)
    <3>1. PICK D \in SUBSET Fields : row \in [D -> 1..t]
      BY DEF Rows
    <3>2. row \in [D -> 1..t + 1]
      BY <1>2, <3>1
    <3> QED BY <3>2 DEF Rows
  <2> QED BY <2>1
<1>4. RecUpTo(t) \subseteq RecUpTo(t + 1)
  BY ReplicationAssumption, SMT DEF ReplicationAssumption, RecUpTo, Rec
<1> QED BY <1>3, <1>4

LEMMA StampPlaces ==
  ASSUME RInv, NEW w \in Writers, NEW op \in Ops[w], Stamp(w, op) PROVE (PlaceInv /\ MemInv)'
<1> DEFINE R == Records(w, op)
           c == <<"call", w>>
<1>1. /\ call' = [call EXCEPT ![w] = [records |-> R, applied |-> FALSE]] /\ clock' = clock + 1
      /\ UNCHANGED <<mem, wbuf, segment, syncTime, nextVer, applied, retried>>
  BY Zenon DEF Stamp, local
<1>2. clock \in Nat /\ clock' \in Nat /\ clock' \in 1..MaxTS
  BY ReplicationAssumption, SMT DEF ReplicationAssumption, Stamp, RInv, IInv, Types
<1>3. DOMAIN call = Writers
  BY Zenon DEF RInv, IInv, Types
<1>4. call'[w].records = R /\ \A x \in Writers \ {w} : call'[x] = call[x]
  BY <1>1, <1>3, SMT
<1>5. /\ \A r \in ToSet(R) : r \in Rec /\ r.ts = clock'
      /\ \A r, q \in ToSet(R) : r # q => r.op = "cut" /\ q.op = "cut" /\ r.field # q.field
      /\ IsInjective(R)
  <2> DEFINE r(o, f) == [op |-> o, field |-> f, ts |-> clock + 1, by |-> w]
  <2>1. R = <<r(op, "name")>> \/ R = <<r("cut", "age"), r("cut", "name")>>
    BY DEF Records
  <2>2. op \in {"set", "patch", "delete", "cascade", "foreign"}
    BY ReplicationAssumption, Zenon DEF ReplicationAssumption
  <2>3. \A o \in Names, f \in Fields : r(o, f) \in Rec /\ r(o, f).ts = clock'
    BY <1>1, <1>2, SMT DEF Rec
  <2>4. /\ r(op, "name") \in Rec /\ r(op, "name").ts = clock'
        /\ r("cut", "age") \in Rec /\ r("cut", "age").ts = clock'
        /\ r("cut", "name") \in Rec /\ r("cut", "name").ts = clock'
    BY <2>2, <2>3 DEF Names, Fields
  <2>5. /\ r("cut", "age").op = "cut" /\ r("cut", "name").op = "cut"
        /\ r("cut", "age").field # r("cut", "name").field
    OBVIOUS
  <2> HIDE DEF r, R
  <2>6. CASE R = <<r(op, "name")>>
    <3>1. DOMAIN R = {1} /\ R[1] = r(op, "name")
      BY <2>6, SMT
    <3>2. ToSet(R) = {r(op, "name")}
      BY <3>1 DEF ToSet
    <3>3. IsInjective(R)
      BY <3>1, Zenon DEF IsInjective
    <3> QED BY <2>4, <3>2, <3>3, Zenon
  <2>7. CASE R = <<r("cut", "age"), r("cut", "name")>>
    <3>1. DOMAIN R = {1, 2} /\ R[1] = r("cut", "age") /\ R[2] = r("cut", "name")
      BY <2>7, SMT
    <3>2. ToSet(R) = {r("cut", "age"), r("cut", "name")}
      BY <3>1, SMT DEF ToSet
    <3>3. IsInjective(R)
      BY <2>5, <3>1, Zenon DEF IsInjective
    <3> QED BY <2>4, <2>5, <3>2, <3>3, Zenon
  <2> QED BY <2>1, <2>6, <2>7
<1> HIDE DEF R, c
<1>6. Held(c)' = ToSet(R) /\ c \in Places
  BY <1>4, HeldAt, Zenon DEF c
<1>7. \A p \in Places : p # c => Held(p)' = Held(p)
  <2> SUFFICES ASSUME NEW p \in Places, p # c PROVE Held(p)' = Held(p)
    BY Zenon
  <2>1. ASSUME NEW x \in Writers, p = <<"call", x>> PROVE Held(p)' = Held(p)
    <3>1. x # w
      BY <2>1, Zenon DEF c
    <3>2. call'[x].records = call[x].records
      BY <1>4, <3>1, Zenon
    <3> QED BY <2>1, <3>2, HeldAt, Zenon
  <2>2. ASSUME NEW i \in Instances, p = <<"buffer", i>> PROVE Held(p)' = Held(p)
    BY <1>1, <2>2, HeldAt, Zenon
  <2>3. ASSUME NEW s \in Segments, p = <<"segment", s>> PROVE Held(p)' = Held(p)
    BY <1>1, <2>3, HeldAt, Zenon
  <2> QED BY <2>1, <2>2, <2>3, PlaceIs, Zenon
<1>8. \A p \in Places : \A r \in Held(p) : r \in RecUpTo(clock) /\ r.ts # clock'
  <2>1. \A r \in RecUpTo(clock) : r.ts # clock'
    BY <1>1, <1>2, ReplicationAssumption, SMT DEF ReplicationAssumption, RecUpTo, Rec
  <2> QED BY <2>1, Zenon DEF RInv, PlaceInv, Past
<1>9. Past'
  <2>1. ToSet(R) \subseteq RecUpTo(clock')
    BY <1>2, <1>5, SMT DEF RecUpTo
  <2>2. RecUpTo(clock) \subseteq RecUpTo(clock')
    BY <1>1, <1>2, LaterRows, Zenon
  <2>3. ASSUME NEW p \in Places PROVE Held(p)' \subseteq RecUpTo(clock')
    BY <1>6, <1>7, <1>8, <2>1, <2>2, Zenon
  <2> QED BY <2>3, Zenon DEF Past, RecUpTo
<1>10. Apart'
  <2> SUFFICES ASSUME NEW p \in Places, NEW q \in Places, NEW r \in Held(p)', NEW x \in Held(q)'
               PROVE  /\ r = x => p = q \/ (r \in retried' /\ p[1] # "call" /\ q[1] # "call")
                      /\ r.ts = x.ts /\ r # x => r.op = "cut" /\ x.op = "cut" /\ r.field # x.field
    BY Zenon DEF Apart, Once
  <2>1. CASE p = c /\ q = c
    BY <1>5, <1>6, <2>1, Zenon
  <2>2. CASE p = c /\ q # c
    <3>1. r.ts = clock' /\ x.ts # clock'
      BY <1>5, <1>6, <1>7, <1>8, <2>2, Zenon
    <3> QED BY <3>1, Zenon
  <2>3. CASE p # c /\ q = c
    <3>1. r.ts # clock' /\ x.ts = clock'
      BY <1>5, <1>6, <1>7, <1>8, <2>3, Zenon
    <3> QED BY <3>1, Zenon
  <2>4. CASE p # c /\ q # c
    <3>1. r \in Held(p) /\ x \in Held(q)
      BY <1>7, <2>4, Zenon
    <3> QED BY <1>1, <3>1 DEF RInv, PlaceInv, Apart, Once
  <2> QED BY <2>1, <2>2, <2>3, <2>4, Zenon
<1>11. OnceInLine'
  <2>1. ASSUME NEW x \in Writers PROVE IsInjective(call'[x].records)
    BY <1>4, <1>5, Zenon DEF RInv, PlaceInv, OnceInLine
  <2> QED BY <1>1, <2>1, Zenon DEF RInv, PlaceInv, OnceInLine
<1>12. AppliedAt'
  BY <1>1, Zenon DEF RInv, PlaceInv, AppliedAt
<1>13. MemInv'
  <2>1. Rows(clock) \subseteq Rows(clock')
    BY <1>1, <1>2, LaterRows, Zenon
  <2>2. mem' \in [Instances -> Rows(clock')]
    BY <1>1, <2>1, Zenon DEF RInv, MemInv
  <2> QED BY <1>1, <2>2, Zenon DEF RInv, MemInv, Rows
<1> QED BY <1>9, <1>10, <1>11, <1>12, <1>13, Zenon DEF PlaceInv

\* The records of a sequence that lies in one place are past.
LEMMA PastSeq ==
  ASSUME NEW t, NEW S, NEW s \in Seq(S), ToSet(s) \subseteq RecUpTo(t)
  PROVE  s \in Seq(RecUpTo(t))
<1>1. \A k \in 1..Len(s) : s[k] \in RecUpTo(t)
  <2>1. DOMAIN s = 1..Len(s)
    BY SMT
  <2> QED BY <2>1, Zenon DEF ToSet
<1> QED BY <1>1, SMT

LEMMA ApplyPlaces ==
  ASSUME RInv, NEW w \in Writers, Apply(w) PROVE (PlaceInv /\ MemInv)'
<1> DEFINE records == call[w].records
           i == Home[w]
<1>1. /\ mem' = [mem EXCEPT ![i] = ApplyAll(mem[i], records)]
      /\ call' = [call EXCEPT ![w].applied = TRUE]
      /\ UNCHANGED <<clock, wbuf, segment, syncTime, nextVer, applied, retried>>
  BY Zenon DEF Apply
<1>2. call \in [Writers -> [records : Seq(Rec), applied : BOOLEAN]]
  BY Zenon DEF RInv, IInv, Types
<1>3. \A x \in Writers : call'[x].records = call[x].records
  <2>1. ASSUME NEW x \in Writers PROVE call'[x].records = call[x].records
    <3>1. CASE x = w
      <4>1. call'[w] = [call[w] EXCEPT !.applied = TRUE]
        BY <1>1, <1>2, Zenon
      <4>2. call[w] \in [records : Seq(Rec), applied : BOOLEAN]
        BY <1>2
      <4>3. call'[w].records = call[w].records
        BY <4>1, <4>2, Zenon
      <4> QED BY <3>1, <4>3
    <3>2. CASE x # w
      BY <1>1, <1>2, <3>2, Zenon
    <3> QED BY <3>1, <3>2
  <2> QED BY <2>1
<1>4. \A p \in Places : Held(p)' \subseteq Held(p)
  <2> SUFFICES ASSUME NEW p \in Places PROVE Held(p)' \subseteq Held(p)
    BY Zenon
  <2>1. ASSUME NEW x \in Writers, p = <<"call", x>> PROVE Held(p)' = Held(p)
    BY <1>3, <2>1, HeldAt, Zenon
  <2>2. ASSUME NEW j \in Instances, p = <<"buffer", j>> PROVE Held(p)' = Held(p)
    BY <1>1, <2>2, HeldAt, Zenon
  <2>3. ASSUME NEW s \in Segments, p = <<"segment", s>> PROVE Held(p)' = Held(p)
    BY <1>1, <2>3, HeldAt, Zenon
  <2> QED BY <2>1, <2>2, <2>3, PlaceIs, Zenon
<1>5. (Past /\ Apart)'
  BY <1>1, <1>4, FewerKeeps, Zenon DEF RInv, PlaceInv
<1>6. OnceInLine'
  BY <1>1, <1>3, Zenon DEF RInv, PlaceInv, OnceInLine
<1>7. AppliedAt'
  BY <1>1, Zenon DEF RInv, PlaceInv, AppliedAt
<1>8. MemInv'
  <2>1. ToSet(records) \subseteq RecUpTo(clock)
    BY HeldAt, Zenon DEF RInv, PlaceInv, Past
  <2>2. records \in Seq(RecUpTo(clock))
    <3>1. records \in Seq(Rec)
      BY <1>2, Zenon
    <3> HIDE DEF records
    <3> QED BY <2>1, <3>1, PastSeq, Zenon
  <2>3. i \in Instances /\ clock \in Nat
    BY ReplicationAssumption, SMT DEF ReplicationAssumption, RInv, IInv, Types
  <2>4. ApplyAll(mem[i], records) \in Rows(clock)
    <3>1. mem[i] \in Rows(clock)
      BY <2>3, Zenon DEF RInv, MemInv
    <3> HIDE DEF records
    <3> QED BY <2>2, <2>3, <3>1, ApplyAllTyped, Zenon
  <2>5. mem' \in [Instances -> Rows(clock)]
    BY <1>1, <2>4, Zenon DEF RInv, MemInv
  <2> QED BY <1>1, <2>5, Zenon DEF RInv, MemInv, Rows
<1> QED BY <1>5, <1>6, <1>7, <1>8, Zenon DEF PlaceInv

LEMMA AppendPlaces ==
  ASSUME RInv, NEW w \in Writers, AppendMutation(w) PROVE (PlaceInv /\ MemInv)'
<1> DEFINE records == call[w].records
           h == Head(records)
           i == Home[w]
           c == <<"call", w>>
           b == <<"buffer", i>>
<1>1. /\ wbuf' = [wbuf EXCEPT ![i] = Append(@, h)]
      /\ call' = [call EXCEPT ![w].records = Tail(@)]
      /\ UNCHANGED <<clock, mem, segment, syncTime, nextVer, applied, retried>>
  BY Zenon DEF AppendMutation
<1>2. call \in [Writers -> [records : Seq(Rec), applied : BOOLEAN]] /\ wbuf \in [Instances -> Seq(Rec)]
  BY Zenon DEF RInv, IInv, Types
<1>3. records \in Seq(Rec) /\ records # <<>> /\ IsInjective(records)
  <2>1. records \in Seq(Rec) /\ records # <<>>
    BY <1>2, SMT DEF AppendMutation, Idle
  <2> QED BY <2>1, Zenon DEF RInv, PlaceInv, OnceInLine
<1>4. i \in Instances /\ c \in Places /\ b \in Places /\ c # b
  <2>1. i \in Instances
    BY ReplicationAssumption, Zenon DEF ReplicationAssumption
  <2> QED BY <2>1, HeldAt
<1>5. Held(c) = ToSet(records) /\ Held(b) = ToSet(wbuf[i])
  BY <1>4, HeldAt, Zenon
<1>6. call'[w].records = Tail(records) /\ \A x \in Writers \ {w} : call'[x] = call[x]
  <2>1. call'[w] = [call[w] EXCEPT !.records = Tail(@)]
    BY <1>1, <1>2, Zenon
  <2>2. call[w] \in [records : Seq(Rec), applied : BOOLEAN]
    BY <1>2
  <2>3. call'[w].records = Tail(records)
    BY <2>1, <2>2, Zenon
  <2> QED BY <1>1, <1>2, <2>3, Zenon
<1> HIDE DEF records, h, c, b
<1>7. /\ h \in ToSet(records) /\ ToSet(Tail(records)) \subseteq ToSet(records)
      /\ h \notin ToSet(Tail(records)) /\ IsInjective(Tail(records))
  BY <1>3, TakenFromFront, Zenon DEF h
<1>8. h \in Rec
  BY <1>3, SMT DEF h
<1>9. h \notin ToSet(wbuf[i])
  <2> SUFFICES ASSUME h \in ToSet(wbuf[i]) PROVE FALSE
    OBVIOUS
  <2>1. h \in Held(c) /\ h \in Held(b)
    BY <1>5, <1>7, Zenon
  <2>2. c[1] = "call"
    BY DEF c
  <2> QED BY <1>4, <2>1, <2>2 DEF RInv, PlaceInv, Apart, Once
<1>10. ToSet(wbuf'[i]) = ToSet(wbuf[i]) \cup {h} /\ IsInjective(wbuf'[i])
  <2>1. wbuf'[i] = Append(wbuf[i], h) /\ wbuf[i] \in Seq(Rec) /\ IsInjective(wbuf[i])
    BY <1>1, <1>2, <1>4, Zenon DEF RInv, PlaceInv, OnceInLine
  <2>2. ToSet(Append(wbuf[i], h)) = ToSet(wbuf[i]) \cup {h} /\ IsInjective(Append(wbuf[i], h))
    BY <1>8, <1>9, <2>1, PutAtEnd, Zenon
  <2> QED BY <2>1, <2>2, Zenon
<1>11. \A j \in Instances \ {i} : wbuf'[j] = wbuf[j]
  BY <1>1, <1>2, Zenon
<1>12. /\ \A p \in Places : Held(p)' \subseteq Held(p) \cup {h}
       /\ \A p \in Places : p # b => Held(p)' \subseteq Held(p)
  <2>1. ASSUME NEW p \in Places
        PROVE  Held(p)' \subseteq Held(p) \cup {h} /\ (p # b => Held(p)' \subseteq Held(p))
    <3>1. ASSUME NEW x \in Writers, p = <<"call", x>> PROVE Held(p)' \subseteq Held(p)
      BY <1>6, <1>7, <3>1, HeldAt, Zenon DEF records
    <3>2. ASSUME NEW j \in Instances, p = <<"buffer", j>>
          PROVE  Held(p)' \subseteq Held(p) \cup {h} /\ (p # b => Held(p)' \subseteq Held(p))
      <4>1. CASE j = i
        BY <1>10, <3>2, <4>1, HeldAt, Zenon DEF b
      <4>2. CASE j # i
        BY <1>11, <3>2, <4>2, HeldAt, Zenon
      <4> QED BY <4>1, <4>2
    <3>3. ASSUME NEW s \in Segments, p = <<"segment", s>> PROVE Held(p)' \subseteq Held(p)
      BY <1>1, <3>3, HeldAt, Zenon
    <3> QED BY <3>1, <3>2, <3>3, PlaceIs, Zenon
  <2> QED BY <2>1, Zenon
<1>13. (Past /\ Apart)'
  <2>1. {h} \subseteq Held(c) /\ \A r \in {h} : r \notin Held(c)'
    <3>1. Held(c)' = ToSet(Tail(records))
      BY <1>6, HeldAt, Zenon DEF c
    <3> QED BY <1>5, <1>7, <3>1, Zenon
  <2>2. Past /\ Apart /\ clock' = clock
    BY <1>1, Zenon DEF RInv, PlaceInv
  <2> DEFINE P == {h}
  <2> HIDE DEF P
  <2>3. P \subseteq Held(c) /\ \A r \in P : r \notin Held(c)'
    BY <2>1 DEF P
  <2>4. /\ \A p \in Places : Held(p)' \subseteq Held(p) \cup P
        /\ \A p \in Places : p # b => Held(p)' \subseteq Held(p)
    BY <1>12 DEF P
  <2>5. b[1] # "call" /\ retried \subseteq retried'
    BY <1>1 DEF b
  <2> QED BY <1>4, <2>2, <2>3, <2>4, <2>5, MovedKeeps, Zenon
<1>14. OnceInLine'
  <2>1. ASSUME NEW x \in Writers PROVE IsInjective(call'[x].records)
    BY <1>6, <1>7, Zenon DEF RInv, PlaceInv, OnceInLine
  <2>2. ASSUME NEW j \in Instances PROVE IsInjective(wbuf'[j])
    BY <1>10, <1>11, Zenon DEF RInv, PlaceInv, OnceInLine
  <2> QED BY <2>1, <2>2, Zenon DEF OnceInLine
<1>15. AppliedAt'
  BY <1>1, Zenon DEF RInv, PlaceInv, AppliedAt
<1>16. MemInv'
  BY <1>1, Zenon DEF RInv, MemInv, Rows
<1> QED BY <1>13, <1>14, <1>15, <1>16, Zenon DEF PlaceInv

LEMMA FlushPlaces ==
  ASSUME RInv, NEW i \in Instances, Flush(i) \/ FlushUnclear(i) PROVE (PlaceInv /\ MemInv)'
<1>1. PICK s \in Segments, n \in 1..Len(wbuf[i]) : StoresBatch(i, s, n)
  BY FlushStores
<1> DEFINE P == ToSet(SubSeq(wbuf[i], 1, n))
           b == <<"buffer", i>>
           c == <<"segment", s>>
<1>2. /\ segment' = [segment EXCEPT ![s] = segment[s] \o SubSeq(wbuf[i], 1, n)]
      /\ UNCHANGED <<clock, call, mem, syncTime, nextVer, applied>>
      /\ \/ wbuf' = [wbuf EXCEPT ![i] = SubSeq(@, n + 1, Len(@))] /\ retried' = retried
         \/ wbuf' = wbuf /\ retried' = retried \cup P
  BY <1>1, Zenon DEF StoresBatch
<1>3. /\ segment \in [Segments -> Seq(Rec \cup {Malformed})] /\ wbuf \in [Instances -> Seq(Rec)]
      /\ \A j \in Instances : IsInjective(wbuf[j])
  BY Zenon DEF RInv, IInv, Types, PlaceInv, OnceInLine
<1>4. b \in Places /\ c \in Places /\ b[1] # "call" /\ c[1] # "call"
  BY HeldAt
<1>5. /\ P \subseteq ToSet(wbuf[i])
      /\ \A j \in Instances : ToSet(wbuf'[j]) \subseteq ToSet(wbuf[j]) /\ IsInjective(wbuf'[j])
      /\ retried \subseteq retried' /\ \A e \in P : e \notin ToSet(wbuf'[i]) \/ e \in retried'
  <2>1. wbuf[i] \in Seq(Rec) /\ IsInjective(wbuf[i])
    BY <1>3, Zenon
  <2>2. /\ P \subseteq ToSet(wbuf[i]) /\ ToSet(SubSeq(wbuf[i], n + 1, Len(wbuf[i]))) \subseteq ToSet(wbuf[i])
        /\ \A e \in P : e \notin ToSet(SubSeq(wbuf[i], n + 1, Len(wbuf[i])))
        /\ IsInjective(SubSeq(wbuf[i], n + 1, Len(wbuf[i])))
    BY <2>1, CutInTwo, Zenon
  <2> HIDE DEF P
  <2>3. CASE wbuf' = [wbuf EXCEPT ![i] = SubSeq(@, n + 1, Len(@))] /\ retried' = retried
    <3>1. wbuf'[i] = SubSeq(wbuf[i], n + 1, Len(wbuf[i])) /\ \A j \in Instances \ {i} : wbuf'[j] = wbuf[j]
      BY <1>3, <2>3, Zenon
    <3>2. ASSUME NEW j \in Instances PROVE ToSet(wbuf'[j]) \subseteq ToSet(wbuf[j]) /\ IsInjective(wbuf'[j])
      <4>1. CASE j = i
        BY <2>2, <3>1, <4>1, Zenon
      <4>2. CASE j # i
        BY <1>3, <3>1, <4>2, Zenon
      <4> QED BY <4>1, <4>2
    <3> QED BY <2>2, <2>3, <3>1, <3>2, Zenon
  <2>4. CASE wbuf' = wbuf /\ retried' = retried \cup P
    BY <1>3, <2>2, <2>4, Zenon
  <2> QED BY <1>2, <2>3, <2>4, Zenon
<1>6. /\ Decoded(segment'[s]) \subseteq Decoded(segment[s]) \cup P
      /\ Decoded(segment[s]) \subseteq Decoded(segment'[s])
      /\ \A t \in Segments \ {s} : segment'[t] = segment[t]
  <2> DEFINE S == Rec \cup {Malformed}
  <2>1. segment[s] \in Seq(S) /\ SubSeq(wbuf[i], 1, n) \in Seq(S)
    BY <1>3, SMT
  <2>2. /\ Decoded(segment[s] \o SubSeq(wbuf[i], 1, n)) \subseteq Decoded(segment[s]) \cup P
        /\ Decoded(segment[s]) \subseteq Decoded(segment[s] \o SubSeq(wbuf[i], 1, n))
    <3> HIDE DEF S
    <3> QED BY <2>1, DecodedConcat, Zenon
  <2>3. segment'[s] = segment[s] \o SubSeq(wbuf[i], 1, n) /\ \A t \in Segments \ {s} : segment'[t] = segment[t]
    BY <1>2, <1>3, Zenon
  <2> HIDE DEF P
  <2> QED BY <2>2, <2>3, Zenon
<1> HIDE DEF P, b, c
<1>7. Held(b) = ToSet(wbuf[i]) /\ Held(b)' = ToSet(wbuf'[i])
  BY HeldAt, Zenon DEF b
<1>8. /\ \A p \in Places : Held(p)' \subseteq Held(p) \cup P
      /\ \A p \in Places : p # c => Held(p)' \subseteq Held(p)
  <2>1. ASSUME NEW p \in Places
        PROVE  Held(p)' \subseteq Held(p) \cup P /\ (p # c => Held(p)' \subseteq Held(p))
    <3>1. ASSUME NEW x \in Writers, p = <<"call", x>> PROVE Held(p)' \subseteq Held(p)
      BY <1>2, <3>1, HeldAt, Zenon
    <3>2. ASSUME NEW j \in Instances, p = <<"buffer", j>> PROVE Held(p)' \subseteq Held(p)
      BY <1>5, <3>2, HeldAt, Zenon
    <3>3. ASSUME NEW t \in Segments, p = <<"segment", t>>
          PROVE  Held(p)' \subseteq Held(p) \cup P /\ (p # c => Held(p)' \subseteq Held(p))
      <4>1. CASE t = s
        BY <1>6, <3>3, <4>1, HeldAt, Zenon DEF c
      <4>2. CASE t # s
        BY <1>6, <3>3, <4>2, HeldAt, Zenon
      <4> QED BY <4>1, <4>2
    <3> QED BY <3>1, <3>2, <3>3, PlaceIs, Zenon
  <2> QED BY <2>1, Zenon
<1>9. (Past /\ Apart)'
  <2>1. Past /\ Apart /\ clock' = clock
    BY <1>2, Zenon DEF RInv, PlaceInv
  <2>2. P \subseteq Held(b) /\ \A r \in P : r \notin Held(b)' \/ (r \in retried' /\ b[1] # "call")
    BY <1>4, <1>5, <1>7, Zenon
  <2>3. retried \subseteq retried'
    BY <1>5, Zenon
  <2> QED BY <1>4, <1>8, <2>1, <2>2, <2>3, MovedKeeps, Zenon
<1>10. OnceInLine'
  BY <1>2, <1>5, Zenon DEF RInv, PlaceInv, OnceInLine
<1>11. \A t \in Segments : Decoded(segment[t]) \subseteq Decoded(segment'[t])
  <2>1. ASSUME NEW t \in Segments PROVE Decoded(segment[t]) \subseteq Decoded(segment'[t])
    <3>1. CASE t = s
      BY <1>6, <3>1, Zenon
    <3>2. CASE t # s
      BY <1>6, <3>2, Zenon
    <3> QED BY <3>1, <3>2
  <2> QED BY <2>1
<1>12. AppliedAt'
  BY <1>2, <1>11, Zenon DEF RInv, PlaceInv, AppliedAt
<1>13. MemInv'
  BY <1>2, Zenon DEF RInv, MemInv, Rows
<1> QED BY <1>9, <1>10, <1>12, <1>13, Zenon DEF PlaceInv

LEMMA CorruptPlaces ==
  ASSUME RInv, NEW s \in Segments, Corrupt(s) PROVE (PlaceInv /\ MemInv)'
<1>1. /\ segment' = [segment EXCEPT ![s] = Append(@, Malformed)]
      /\ UNCHANGED <<clock, call, mem, wbuf, syncTime, nextVer, applied, retried>>
  BY Zenon DEF Corrupt, local
<1>2. segment \in [Segments -> Seq(Rec \cup {Malformed})]
  BY Zenon DEF RInv, IInv, Types
<1>3. \A t \in Segments : Decoded(segment'[t]) = Decoded(segment[t])
  <2>1. Decoded(Append(segment[s], Malformed)) = Decoded(segment[s])
    <3> DEFINE S == Rec \cup {Malformed}
    <3>1. segment[s] \in Seq(S)
      BY <1>2, Zenon
    <3> HIDE DEF S
    <3> QED BY <3>1, DecodedAppend, Zenon
  <2> QED BY <1>1, <1>2, <2>1, Zenon
<1>4. \A p \in Places : Held(p)' \subseteq Held(p)
  <2> SUFFICES ASSUME NEW p \in Places PROVE Held(p)' \subseteq Held(p)
    BY Zenon
  <2>1. ASSUME NEW x \in Writers, p = <<"call", x>> PROVE Held(p)' = Held(p)
    BY <1>1, <2>1, HeldAt, Zenon
  <2>2. ASSUME NEW j \in Instances, p = <<"buffer", j>> PROVE Held(p)' = Held(p)
    BY <1>1, <2>2, HeldAt, Zenon
  <2>3. ASSUME NEW t \in Segments, p = <<"segment", t>> PROVE Held(p)' = Held(p)
    BY <1>3, <2>3, HeldAt, Zenon
  <2> QED BY <2>1, <2>2, <2>3, PlaceIs, Zenon
<1>5. (Past /\ Apart)'
  BY <1>1, <1>4, FewerKeeps, Zenon DEF RInv, PlaceInv
<1>6. OnceInLine'
  BY <1>1, Zenon DEF RInv, PlaceInv, OnceInLine
<1>7. AppliedAt'
  BY <1>1, <1>3, Zenon DEF RInv, PlaceInv, AppliedAt
<1>8. MemInv'
  BY <1>1, Zenon DEF RInv, MemInv, Rows
<1> QED BY <1>5, <1>6, <1>7, <1>8, Zenon DEF PlaceInv

LEMMA SwitchPlaces ==
  ASSUME RInv, NEW i \in Instances, SwitchVersion(i) \/ PollFindsNext(i) PROVE (PlaceInv /\ MemInv)'
<1>1. /\ nextVer' = [nextVer EXCEPT ![i] = TRUE]
      /\ UNCHANGED <<clock, call, mem, wbuf, segment, syncTime, applied, retried>>
  BY Zenon DEF SwitchVersion, PollFindsNext
<1>2. \A p \in Places : Held(p)' = Held(p)
  BY <1>1, Zenon DEF Held
<1>3. (Past /\ Apart)'
  BY <1>1, <1>2, FewerKeeps, Zenon DEF RInv, PlaceInv
<1>4. OnceInLine' /\ AppliedAt'
  BY <1>1, Zenon DEF RInv, PlaceInv, OnceInLine, AppliedAt
<1>5. MemInv'
  BY <1>1, Zenon DEF RInv, MemInv, Rows
<1> QED BY <1>3, <1>4, <1>5, Zenon DEF PlaceInv

-----------------------------------------------------------------------------
(* What a poll and a start apply *)

LEMMA WatermarkCovers ==
  ASSUME NEW i \in Instances, NEW old \in Nat, NEW S, S \subseteq Rec
  PROVE  \A r \in Accepted(i, S) : r.ts <= Watermark(i, old, S)
<1>1. Accepted(i, S) \subseteq Rec
  BY DEF Accepted
<1>2. ASSUME NEW r \in Accepted(i, S) PROVE r.ts <= Watermark(i, old, S)
  <2>1. Accepted(i, S) # {}
    BY <1>2
  <2> QED BY <1>1, <2>1, LatestIsOne, Zenon DEF Watermark
<1> QED BY <1>2

\* Stored records are told apart, and sorted into a sequence of them.
LEMMA StoredSorts ==
  ASSUME RInv, NEW S, \A r \in S : \E s \in Segments : r \in Decoded(segment[s])
  PROVE  S \in SUBSET Rec /\ S \subseteq RecUpTo(clock) /\ ToldApart(S) /\ InOrder(S) \in Seq(RecUpTo(clock))
<1>1. ASSUME NEW r \in S PROVE r \in Rec /\ r \in RecUpTo(clock) /\ \E p \in Places : r \in Held(p)
  <2>1. PICK s \in Segments : r \in Decoded(segment[s])
    BY Zenon
  <2>2. <<"segment", s>> \in Places /\ r \in Held(<<"segment", s>>)
    BY <2>1, HeldAt, Zenon
  <2>3. r \in RecUpTo(clock)
    BY <2>2, Zenon DEF RInv, PlaceInv, Past
  <2> QED BY <2>2, <2>3 DEF RecUpTo
<1>2. S \in SUBSET Rec /\ S \subseteq RecUpTo(clock)
  BY <1>1
<1>3. ToldApart(S)
  <2> SUFFICES ASSUME NEW r \in S, NEW q \in S, r.ts = q.ts, r # q
               PROVE  r.op = "cut" /\ q.op = "cut" /\ r.field # q.field
    BY Zenon DEF ToldApart
  <2>1. PICK a \in Places : r \in Held(a)
    BY <1>1, Zenon
  <2>2. PICK b \in Places : q \in Held(b)
    BY <1>1, Zenon
  <2> QED BY <2>1, <2>2 DEF RInv, PlaceInv, Apart
<1>4. InOrder(S) \in Seq(S)
  BY <1>2, <1>3, InOrderSorts, Zenon
<1>5. InOrder(S) \in Seq(RecUpTo(clock))
  BY <1>2, <1>4, SMT
<1> QED BY <1>2, <1>3, <1>5

\* What a process has applied is stored.
LEMMA AppliedIsStored ==
  ASSUME RInv, NEW i \in Instances, NEW r \in applied[i]
  PROVE  \E s \in Segments : r \in Decoded(segment[s])
BY Zenon DEF RInv, PlaceInv, AppliedAt

\* A poll finds fresh in a segment only what the process has not applied, or
\* what is in two places.
LEMMA FreshIsNew ==
  ASSUME RInv, NEW i \in Instances, NEW s \in Segments
  PROVE  Fresh(i, s) \cap applied[i] \subseteq retried
<1> SUFFICES ASSUME NEW r \in Fresh(i, s), r \in applied[i], r \notin retried PROVE FALSE
  BY Zenon
<1>1. r \in Decoded(segment[s]) /\ r.ts > syncTime[i][s]
  BY Zenon DEF Fresh
<1>2. PICK t \in Segments : r \in Decoded(segment[t]) /\ r.ts <= syncTime[i][t]
  BY Zenon DEF RInv, PlaceInv, AppliedAt
<1>3. t = s
  <2>1. /\ r \in Held(<<"segment", t>>) /\ r \in Held(<<"segment", s>>)
        /\ <<"segment", t>> \in Places /\ <<"segment", s>> \in Places
    BY <1>1, <1>2, HeldAt, Zenon
  <2>2. <<"segment", t>> = <<"segment", s>>
    BY <2>1 DEF RInv, PlaceInv, Apart, Once
  <2> QED BY <2>2
<1>4. r.ts \in Nat /\ syncTime[i][s] \in Nat
  <2>1. r \in Rec
    BY <1>1, DecodedAreRecords, Zenon DEF RInv, IInv
  <2> QED BY <2>1, SMT DEF Rec, RInv, IInv, Types
<1> QED BY <1>1, <1>2, <1>3, <1>4, SMT

LEMMA PollPlaces ==
  ASSUME RInv, NEW i \in Instances, NEW s \in Segments, PollSegment(i, s) PROVE (PlaceInv /\ MemInv)'
<1> DEFINE F == Fresh(i, s)
           A == Accepted(i, F)
           mark == Watermark(i, syncTime[i][s], F)
<1>1. /\ syncTime' = [syncTime EXCEPT ![i][s] = mark]
      /\ applied' = [applied EXCEPT ![i] = @ \cup A]
      /\ mem' = [mem EXCEPT ![i] = ApplyAll(mem[i], InOrder(A))]
      /\ UNCHANGED <<clock, call, wbuf, segment, nextVer, retried>>
  BY Zenon DEF PollSegment
<1>2. /\ clock \in Nat /\ syncTime \in [Instances -> [Segments -> Nat]]
      /\ applied \in [Instances -> SUBSET Rec] /\ syncTime[i][s] \in Nat
  BY SMT DEF RInv, IInv, Types
<1>3. A \subseteq F /\ F \subseteq Decoded(segment[s]) /\ F \subseteq Rec /\ \A r \in F : r.ts > syncTime[i][s]
  <2>1. Decoded(segment[s]) \subseteq Rec
    BY DecodedAreRecords, Zenon DEF RInv, IInv
  <2> QED BY <2>1, Zenon DEF Accepted, Fresh
<1>5. /\ mark \in Nat /\ (mark = syncTime[i][s] \/ \E q \in A : q.ts = mark) /\ \A r \in A : r.ts <= mark
  BY <1>2, <1>3, WatermarkIsOne, WatermarkCovers, Zenon
<1> HIDE DEF F, A, mark
<1>6. syncTime[i][s] <= mark
  <2>1. \A r \in A : r.ts > syncTime[i][s] /\ r.ts \in Nat
    BY <1>3, SMT DEF Rec
  <2> QED BY <1>2, <1>5, <2>1, SMT
<1>7. \A p \in Places : Held(p)' = Held(p)
  BY <1>1, Zenon DEF Held
<1>8. (Past /\ Apart)'
  BY <1>1, <1>7, FewerKeeps, Zenon DEF RInv, PlaceInv
<1>9. OnceInLine'
  BY <1>1, Zenon DEF RInv, PlaceInv, OnceInLine
<1>10. applied'[i] = applied[i] \cup A /\ \A j \in Instances \ {i} : applied'[j] = applied[j]
  BY <1>1, <1>2, Zenon
<1>11. /\ syncTime'[i][s] = mark
       /\ \A j \in Instances, t \in Segments : (j # i \/ t # s) => syncTime'[j][t] = syncTime[j][t]
  BY <1>1, <1>2, SMT
<1>12. ASSUME NEW j \in Instances, NEW r \in applied'[j]
       PROVE  \E t \in Segments : r \in Decoded(segment[t]) /\ r.ts <= syncTime'[j][t]
  <2>1. CASE r \in applied[j]
    <3>1. PICK t \in Segments : r \in Decoded(segment[t]) /\ r.ts <= syncTime[j][t]
      BY <2>1, Zenon DEF RInv, PlaceInv, AppliedAt
    <3>2. CASE j = i /\ t = s
      <4>1. r.ts \in Nat
        <5>1. r \in Rec
          BY <1>2, <2>1, Zenon
        <5> QED BY <5>1, SMT DEF Rec
      <4>2. r.ts <= mark
        BY <1>2, <1>5, <1>6, <3>1, <3>2, <4>1, SMT
      <4> QED BY <1>11, <3>1, <3>2, <4>2, Zenon
    <3>3. CASE ~(j = i /\ t = s)
      BY <1>11, <3>1, <3>3, Zenon
    <3> QED BY <3>2, <3>3
  <2>2. CASE r \notin applied[j]
    <3>1. j = i /\ r \in A
      BY <1>10, <1>12, <2>2, Zenon
    <3> QED BY <1>3, <1>5, <1>11, <3>1, Zenon
  <2> QED BY <2>1, <2>2
<1>13. AppliedAt'
  BY <1>1, <1>12, Zenon DEF AppliedAt
<1>14. MemInv'
  <2>1. InOrder(A) \in Seq(RecUpTo(clock))
    BY <1>3, StoredSorts, Zenon
  <2>2. mem[i] \in Rows(clock)
    BY Zenon DEF RInv, MemInv
  <2>3. ApplyAll(mem[i], InOrder(A)) \in Rows(clock)
    BY <1>2, <2>1, <2>2, ApplyAllTyped, Zenon
  <2>4. mem' \in [Instances -> Rows(clock)]
    BY <1>1, <2>3, Zenon DEF RInv, MemInv
  <2> QED BY <1>1, <2>4, Zenon DEF RInv, MemInv, Rows
<1> QED BY <1>8, <1>9, <1>13, <1>14, Zenon DEF PlaceInv

LEMMA StoredAt ==
  \A v \in Versions : \A r \in Stored(v) : \E s \in Segments : r \in Decoded(segment[s])
<1>1. ASSUME NEW v \in Versions, NEW r \in Stored(v) PROVE \E s \in Segments : r \in Decoded(segment[s])
  <2>1. PICK f \in Files : r \in Decoded(segment[<<v, f>>])
    BY DEF Stored
  <2>2. <<v, f>> \in Segments
    BY DEF Segments
  <2> QED BY <2>1, <2>2
<1> QED BY <1>1

LEMMA ReplayTyped ==
  ASSUME RInv, NEW i \in Instances, NEW v \in Versions, NEW row \in Rows(clock)
  PROVE  ReplayVersion(i, row, v) \in Rows(clock)
<1> DEFINE A == Accepted(i, Stored(v))
<1>1. \A r \in A : \E s \in Segments : r \in Decoded(segment[s])
  BY StoredAt, Zenon DEF Accepted
<1> HIDE DEF A
<1>2. InOrder(A) \in Seq(RecUpTo(clock))
  BY <1>1, StoredSorts, Zenon
<1>3. clock \in Nat
  BY SMT DEF RInv, IInv, Types
<1>4. ApplyAll(row, InOrder(A)) \in Rows(clock)
  BY <1>2, <1>3, ApplyAllTyped, Zenon
<1> QED BY <1>4, Zenon DEF ReplayVersion, A

LEMMA RestartPlaces ==
  ASSUME RInv, NEW i \in Instances, Restart(i) PROVE (PlaceInv /\ MemInv)'
<1> DEFINE D(s) == Decoded(segment[s])
           A == Accepted(i, Stored(0) \cup Stored(1))
           mark(s) == Watermark(i, 0, D(s))
<1>1. /\ call' = [w \in Writers |-> IF Home[w] = i THEN Idle ELSE call[w]]
      /\ mem' = [mem EXCEPT ![i] = Replayed(i)]
      /\ wbuf' = [wbuf EXCEPT ![i] = <<>>]
      /\ syncTime' = [syncTime EXCEPT ![i] = [s \in Segments |-> mark(s)]]
      /\ nextVer' = [nextVer EXCEPT ![i] = NextListed]
      /\ applied' = [applied EXCEPT ![i] = A]
      /\ UNCHANGED <<clock, segment, retried>>
  BY Zenon DEF Restart
<1>2. /\ wbuf \in [Instances -> Seq(Rec)] /\ syncTime \in [Instances -> [Segments -> Nat]]
      /\ applied \in [Instances -> SUBSET Rec] /\ clock \in Nat
  BY SMT DEF RInv, IInv, Types
<1>3. ToSet(<<>>) = {} /\ IsInjective(<<>>)
  BY SMT DEF ToSet, IsInjective
<1>4. \A w \in Writers : call'[w].records = <<>> \/ call'[w].records = call[w].records
  BY <1>1, SMT DEF Idle
<1>5. \A j \in Instances : wbuf'[j] = <<>> \/ wbuf'[j] = wbuf[j]
  BY <1>1, <1>2, SMT
<1>6. \A p \in Places : Held(p)' \subseteq Held(p)
  <2> SUFFICES ASSUME NEW p \in Places PROVE Held(p)' \subseteq Held(p)
    BY Zenon
  <2>1. ASSUME NEW x \in Writers, p = <<"call", x>> PROVE Held(p)' \subseteq Held(p)
    BY <1>3, <1>4, <2>1, HeldAt, Zenon
  <2>2. ASSUME NEW j \in Instances, p = <<"buffer", j>> PROVE Held(p)' \subseteq Held(p)
    BY <1>3, <1>5, <2>2, HeldAt, Zenon
  <2>3. ASSUME NEW t \in Segments, p = <<"segment", t>> PROVE Held(p)' = Held(p)
    BY <1>1, <2>3, HeldAt, Zenon
  <2> QED BY <2>1, <2>2, <2>3, PlaceIs, Zenon
<1>7. (Past /\ Apart)'
  BY <1>1, <1>6, FewerKeeps, Zenon DEF RInv, PlaceInv
<1>8. OnceInLine'
  <2>1. ASSUME NEW w \in Writers PROVE IsInjective(call'[w].records)
    BY <1>3, <1>4, Zenon DEF RInv, PlaceInv, OnceInLine
  <2>2. ASSUME NEW j \in Instances PROVE IsInjective(wbuf'[j])
    BY <1>3, <1>5, Zenon DEF RInv, PlaceInv, OnceInLine
  <2> QED BY <2>1, <2>2, Zenon DEF OnceInLine
<1>9. \A r \in A : ~Rejects(i, r) /\ \E s \in Segments : r \in D(s)
  BY StoredAt, Zenon DEF Accepted, Versions
<1>10. \A r \in A : \E s \in Segments : r \in D(s) /\ r.ts <= mark(s)
  <2> SUFFICES ASSUME NEW s \in Segments, NEW r \in A, r \in D(s) PROVE r.ts <= mark(s)
    BY <1>9, Zenon
  <2>1. r \in Accepted(i, D(s))
    BY <1>9, Zenon DEF Accepted
  <2>2. D(s) \subseteq Rec /\ 0 \in Nat
    BY DecodedAreRecords, Zenon DEF RInv, IInv
  <2> HIDE DEF D
  <2> QED BY <2>1, <2>2, WatermarkCovers, Zenon
<1> HIDE DEF A, mark
<1>11. /\ applied'[i] = A /\ \A s \in Segments : syncTime'[i][s] = mark(s)
       /\ \A j \in Instances \ {i} : applied'[j] = applied[j] /\ syncTime'[j] = syncTime[j]
  BY <1>1, <1>2, Zenon
<1>12. ASSUME NEW j \in Instances, NEW r \in applied'[j]
       PROVE  \E t \in Segments : r \in Decoded(segment[t]) /\ r.ts <= syncTime'[j][t]
  <2>1. CASE j = i
    BY <1>10, <1>11, <1>12, <2>1, Zenon
  <2>2. CASE j # i
    BY <1>11, <1>12, <2>2, Zenon DEF RInv, PlaceInv, AppliedAt
  <2> QED BY <2>1, <2>2
<1>13. AppliedAt'
  BY <1>1, <1>12, Zenon DEF AppliedAt
<1>14. MemInv'
  <2>1. Empty \in Rows(clock)
    <3>1. Empty \in [{} -> 1..clock]
      BY DEF Empty
    <3> QED BY <3>1 DEF Rows
  <2>2. 0 \in Versions /\ 1 \in Versions
    BY DEF Versions
  <2>3. Replayed(i) \in Rows(clock)
    BY <2>1, <2>2, ReplayTyped, Zenon DEF Replayed
  <2>4. mem' \in [Instances -> Rows(clock)]
    BY <1>1, <2>3, Zenon DEF RInv, MemInv
  <2>5. NextListed \in BOOLEAN
    BY Zenon DEF NextListed
  <2>6. nextVer' \in [Instances -> BOOLEAN]
    BY <1>1, <2>5, Zenon DEF RInv, MemInv
  <2>7. clock' = clock
    BY <1>1, Zenon
  <2> QED BY <2>4, <2>6, <2>7, Zenon DEF MemInv
<1> QED BY <1>7, <1>8, <1>13, <1>14, Zenon DEF PlaceInv

-----------------------------------------------------------------------------
(* The invariant of the records is inductive *)

LEMMA InitRInv == Init => RInv
<1> SUFFICES ASSUME Init PROVE RInv
  OBVIOUS
<1>1. IInv
  BY InitIInv
<1>2. ToSet(<<>>) = {} /\ IsInjective(<<>>) /\ Decoded(<<>>) = {}
  BY SMT DEF ToSet, IsInjective, Decoded
<1>3. /\ \A w \in Writers : call[w].records = <<>>
      /\ \A i \in Instances : wbuf[i] = <<>> /\ applied[i] = {} /\ mem[i] = Empty
      /\ \A s \in Segments : segment[s] = <<>>
  BY SMT DEF Init, Idle
<1>4. \A p \in Places : Held(p) = {}
  BY <1>2, <1>3, HeldAt, PlaceIs, Zenon
<1>5. Past /\ Apart
  <2>1. Past
    BY <1>4, Zenon DEF Past
  <2>2. Apart
    BY <1>4 DEF Apart
  <2> QED BY <2>1, <2>2
<1>6. OnceInLine /\ AppliedAt
  BY <1>2, <1>3, Zenon DEF OnceInLine, AppliedAt
<1>7. MemInv
  <2>1. Empty \in Rows(clock)
    <3>1. Empty \in [{} -> 1..clock]
      BY DEF Empty
    <3> QED BY <3>1 DEF Rows
  <2>2. mem \in [Instances -> Rows(clock)]
    BY <2>1, Zenon DEF Init
  <2>3. nextVer \in [Instances -> BOOLEAN]
    BY Zenon DEF Init
  <2> QED BY <2>2, <2>3, Zenon DEF MemInv
<1> QED BY <1>1, <1>5, <1>6, <1>7, Zenon DEF RInv, PlaceInv

LEMMA NextRInv == RInv /\ [Next]_vars => RInv'
<1> SUFFICES ASSUME RInv, [Next]_vars PROVE RInv'
  OBVIOUS
<1>1. IInv'
  BY NextIInv, Zenon DEF RInv
<1>2. ASSUME NEW w \in Writers, WriterStep(w) PROVE (PlaceInv /\ MemInv)'
  BY <1>2, StampPlaces, ApplyPlaces, AppendPlaces, Zenon DEF WriterStep
<1>3. ASSUME NEW i \in Instances, Flush(i) \/ FlushUnclear(i) \/ PollStep(i) \/ SwitchVersion(i) \/ Restart(i)
      PROVE  (PlaceInv /\ MemInv)'
  BY <1>3, FlushPlaces, PollPlaces, SwitchPlaces, RestartPlaces, Zenon DEF PollStep
<1>4. ASSUME NEW s \in Segments, Corrupt(s) PROVE (PlaceInv /\ MemInv)'
  BY <1>4, CorruptPlaces, Zenon
<1>5. ASSUME UNCHANGED vars PROVE (PlaceInv /\ MemInv)'
  <2>1. UNCHANGED <<clock, call, mem, wbuf, segment, syncTime, nextVer, applied, retried>>
    BY <1>5, Zenon DEF vars
  <2>2. \A p \in Places : Held(p)' = Held(p)
    BY <2>1, Zenon DEF Held
  <2>3. (Past /\ Apart)'
    BY <2>1, <2>2, FewerKeeps, Zenon DEF RInv, PlaceInv
  <2>4. OnceInLine' /\ AppliedAt'
    BY <2>1, Zenon DEF RInv, PlaceInv, OnceInLine, AppliedAt
  <2>5. MemInv'
    BY <2>1, Zenon DEF RInv, MemInv, Rows
  <2> QED BY <2>3, <2>4, <2>5, Zenon DEF PlaceInv
<1>6. (PlaceInv /\ MemInv)'
  BY <1>2, <1>3, <1>4, <1>5, Zenon DEF Next
<1> QED BY <1>1, <1>6, Zenon DEF RInv

-----------------------------------------------------------------------------
(* The last write of a field *)

Newest(P, f) == CHOOSE r \in P : Touches(r, f) /\ \A q \in P : Touches(q, f) => q.ts <= r.ts

Latter(P, f, r) == r \in P /\ Touches(r, f) /\ \A q \in P : Touches(q, f) => q.ts <= r.ts

LEMMA LastIs ==
  ASSUME NEW P \in SUBSET Rec, ToldApart(P), NEW f, NEW r, Latter(P, f, r)
  PROVE  Newest(P, f) = r
<1> DEFINE l == Newest(P, f)
<1>1. r \in P /\ Touches(r, f) /\ \A q \in P : Touches(q, f) => q.ts <= r.ts
  BY Zenon DEF Latter
<1>2. l \in P /\ Touches(l, f) /\ \A q \in P : Touches(q, f) => q.ts <= l.ts
  BY <1>1, Zenon DEF Newest
<1> HIDE DEF l
<1>3. l.ts = r.ts
  <2>1. l.ts <= r.ts /\ r.ts <= l.ts
    BY <1>1, <1>2, Zenon
  <2>2. l.ts \in Nat /\ r.ts \in Nat
    BY <1>1, <1>2, SMT DEF Rec
  <2> QED BY <2>1, <2>2, SMT
<1>4. ASSUME l # r PROVE FALSE
  <2>1. l.op = "cut" /\ r.op = "cut" /\ l.field # r.field
    BY <1>1, <1>2, <1>3, <1>4, Zenon DEF ToldApart
  <2>2. l.field = f /\ r.field = f
    BY <1>1, <1>2, <2>1 DEF Touches
  <2> QED BY <2>1, <2>2
<1> QED BY <1>4 DEF l

LEMMA LastExists ==
  ASSUME NEW P \in SUBSET Rec, NEW f, NEW q \in P, Touches(q, f)
  PROVE  Latter(P, f, Newest(P, f))
<1> DEFINE T == {r.ts : r \in {x \in P : Touches(x, f)}}
<1>1. MaxTS \in Nat
  BY ReplicationAssumption, Zenon DEF ReplicationAssumption
<1>2. T \subseteq 0..MaxTS /\ T # {}
  BY <1>1, SMT DEF Rec
<1>3. \E t \in T : \A u \in T : u <= t
  <2> HIDE DEF T
  <2> QED BY <1>1, <1>2, LargestNat, Zenon
<1>4. \E r \in P : Touches(r, f) /\ \A x \in P : Touches(x, f) => x.ts <= r.ts
  BY <1>3, Zenon
<1> QED BY <1>4, Zenon DEF Newest, Latter

\* The field has a value, that of its last write.
InRow(P, f) == (\E r \in P : Touches(r, f)) /\ Newest(P, f).op \in {"set", "patch"}

LEMMA LastWriteIs ==
  ASSUME NEW P PROVE LastWrite(P) = [f \in {g \in Fields : InRow(P, g)} |-> Newest(P, f).ts]
<1>1. LastWrite(P) =
        [f \in {g \in {h \in Fields : \E r \in P : Touches(r, h)} : Newest(P, g).op \in {"set", "patch"}}
           |-> Newest(P, f).ts]
  BY Zenon DEF LastWrite, Newest
<1>2. {g \in {h \in Fields : \E r \in P : Touches(r, h)} : Newest(P, g).op \in {"set", "patch"}}
      = {g \in Fields : InRow(P, g)}
  BY Zenon DEF InRow
<1> QED BY <1>1, <1>2, Zenon

\* The row has the fields of D, with their last writes.
Holds(P, D, row) ==
  /\ D \subseteq Fields /\ row = [f \in D |-> row[f]]
  /\ \A f \in Fields : InRow(P, f) <=> f \in D
  /\ \A f \in D : Newest(P, f).ts = row[f]

LEMMA SameRow ==
  ASSUME NEW P, NEW D, NEW row, Holds(P, D, row)
  PROVE  LastWrite(P) = row
<1>0. /\ D \subseteq Fields /\ row = [f \in D |-> row[f]]
      /\ \A f \in Fields : InRow(P, f) <=> f \in D
      /\ \A f \in D : Newest(P, f).ts = row[f]
  BY Zenon DEF Holds
<1>1. {g \in Fields : InRow(P, g)} = D
  BY <1>0, Zenon
<1>2. LastWrite(P) = [f \in D |-> Newest(P, f).ts]
  BY <1>1, LastWriteIs, Zenon
<1>3. [f \in D |-> Newest(P, f).ts] = [f \in D |-> row[f]]
  BY <1>0, Zenon
<1> QED BY <1>0, <1>2, <1>3, Zenon

\* What touches a field is its last write if nothing later does.
LEMMA TouchIsLast ==
  ASSUME NEW P \in SUBSET Rec, NEW r \in Rec, ToldApart(P \cup {r}), \A q \in P : q.ts <= r.ts,
         NEW f, Touches(r, f)
  PROVE  Newest(P \cup {r}, f) = r /\ (InRow(P \cup {r}, f) <=> r.op \in {"set", "patch"})
<1> DEFINE Q == P \cup {r}
<1>1. Q \in SUBSET Rec /\ r \in Q
  OBVIOUS
<1>2. r.ts <= r.ts
  BY SMT DEF Rec
<1>3. Latter(Q, f, r)
  BY <1>1, <1>2, Zenon DEF Latter
<1> HIDE DEF Q
<1>4. Newest(Q, f) = r
  <2>1. ToldApart(Q)
    BY DEF Q
  <2> QED BY <1>1, <1>3, <2>1, LastIs, Zenon
<1>5. InRow(Q, f) <=> r.op \in {"set", "patch"}
  BY <1>1, <1>4, Zenon DEF InRow
<1> QED BY <1>4, <1>5 DEF Q

\* What touches nothing leaves the last write of a field.
LEMMA UntouchedStays ==
  ASSUME NEW P \in SUBSET Rec, NEW Q \in SUBSET Rec, P \subseteq Q, ToldApart(Q),
         NEW f, \A r \in Q : r \notin P => ~Touches(r, f)
  PROVE  (InRow(Q, f) <=> InRow(P, f)) /\ (InRow(P, f) => Newest(Q, f) = Newest(P, f))
<1>1. (\E r \in Q : Touches(r, f)) <=> (\E r \in P : Touches(r, f))
  BY Zenon
<1>2. ASSUME NEW x \in P, Touches(x, f) PROVE Newest(Q, f) = Newest(P, f)
  <2>1. Latter(P, f, Newest(P, f))
    BY <1>2, LastExists, Zenon
  <2>2. Latter(Q, f, Newest(P, f))
    BY <2>1, Zenon DEF Latter
  <2> DEFINE l == Newest(P, f)
  <2> HIDE DEF l
  <2>3. Latter(Q, f, l)
    BY <2>2 DEF l
  <2>4. Newest(Q, f) = l
    BY <2>3, LastIs, Zenon
  <2> QED BY <2>4 DEF l
<1> QED BY <1>1, <1>2, Zenon DEF InRow

\* Applying a record that is later than the others makes it the last write.
LEMMA LastWriteAdds ==
  ASSUME NEW P \in SUBSET Rec, NEW r \in Rec, ToldApart(P \cup {r}), \A q \in P : q.ts <= r.ts
  PROVE  LastWrite(P \cup {r}) = ApplyFn(LastWrite(P), r)
<1> DEFINE Q == P \cup {r}
           row == LastWrite(P)
           D == {g \in Fields : InRow(P, g)}
           new == ApplyFn(row, r)
<1>1. row = [f \in D |-> Newest(P, f).ts] /\ DOMAIN row = D /\ \A f \in D : row[f] = Newest(P, f).ts
  BY LastWriteIs, Zenon
<1>2. ASSUME NEW f, Touches(r, f)
      PROVE  Newest(Q, f) = r /\ (InRow(Q, f) <=> r.op \in {"set", "patch"})
  BY <1>2, TouchIsLast, Zenon
<1>3. ASSUME NEW f, ~Touches(r, f)
      PROVE  (InRow(Q, f) <=> InRow(P, f)) /\ (InRow(P, f) => Newest(Q, f) = Newest(P, f))
  <2>1. P \subseteq Q /\ Q \in SUBSET Rec /\ ToldApart(Q) /\ \A x \in Q : x \notin P => ~Touches(x, f)
    BY <1>3
  <2> HIDE DEF Q
  <2> QED BY <2>1, UntouchedStays, Zenon
<1>4. r.field \in Fields /\ D \subseteq Fields
  BY SMT DEF Rec
<1> HIDE DEF row, D, Q
<1>5. \A f \in Fields : f \in D <=> InRow(P, f)
  BY Zenon DEF D
<1>6. CASE r.op = "set"
  <2>1. new = [f \in Fields |-> r.ts]
    BY <1>6, Zenon DEF ApplyFn
  <2>2. \A f \in Fields : InRow(Q, f) /\ Newest(Q, f) = r
    BY <1>2, <1>6, Zenon DEF Touches
  <2>3. new = [f \in Fields |-> new[f]] /\ \A f \in Fields : Newest(Q, f).ts = new[f]
    BY <2>1, <2>2, Zenon
  <2> HIDE DEF new
  <2>4. LastWrite(Q) = new
    BY <2>2, <2>3, SameRow, Zenon DEF Holds
  <2> QED BY <2>4 DEF new, Q, row
<1>7. CASE r.op = "patch"
  <2> DEFINE E == D \cup {r.field}
  <2>1. new = [f \in E |-> IF f = r.field THEN r.ts ELSE row[f]]
    BY <1>1, <1>7 DEF ApplyFn
  <2>2. \A f : Touches(r, f) <=> f = r.field
    BY <1>7 DEF Touches
  <2>3. \A f \in Fields : InRow(Q, f) <=> f \in E
    BY <1>2, <1>3, <1>5, <1>7, <2>2, Zenon
  <2>4. \A f \in E : Newest(Q, f).ts = new[f]
    <3>1. ASSUME NEW f \in E PROVE Newest(Q, f).ts = new[f]
      <4>1. CASE f = r.field
        BY <1>2, <2>1, <2>2, <4>1, Zenon
      <4>2. CASE f # r.field
        <5>1. f \in D /\ InRow(P, f)
          BY <1>4, <1>5, <3>1, <4>2, Zenon
        <5>2. new[f] = row[f]
          BY <2>1, <3>1, <4>2, Zenon
        <5> QED BY <1>1, <1>3, <2>2, <4>2, <5>1, <5>2, Zenon
      <4> QED BY <4>1, <4>2
    <3> QED BY <3>1
  <2>5. new = [f \in E |-> new[f]] /\ E \subseteq Fields
    BY <1>4, <2>1, Zenon
  <2> HIDE DEF new, E
  <2>6. Holds(Q, E, new)
    BY <2>3, <2>4, <2>5, Zenon DEF Holds
  <2>7. LastWrite(Q) = new
    BY <2>6, SameRow, Zenon
  <2> QED BY <2>7 DEF new, Q, row
<1>8. CASE r.op = "delete"
  <2>1. new = [f \in {} |-> 0]
    BY <1>8 DEF ApplyFn, Empty
  <2>2. \A f \in Fields : ~InRow(Q, f)
    <3>1. \A f : Touches(r, f)
      BY <1>8, Zenon DEF Touches
    <3>2. r.op \notin {"set", "patch"}
      BY <1>8
    <3> QED BY <1>2, <3>1, <3>2, Zenon
  <2> DEFINE E == {}
  <2>3. new = [f \in E |-> new[f]] /\ E \subseteq Fields
    BY <2>1
  <2>4. (\A f \in Fields : InRow(Q, f) <=> f \in E) /\ \A f \in E : Newest(Q, f).ts = new[f]
    BY <2>2, Zenon
  <2> HIDE DEF new, E
  <2>5. Holds(Q, E, new)
    BY <2>3, <2>4, Zenon DEF Holds
  <2>6. LastWrite(Q) = new
    BY <2>5, SameRow, Zenon
  <2> QED BY <2>6 DEF new, Q, row
<1>9. CASE r.op = "cut"
  <2> DEFINE E == D \ {r.field}
  <2>1. new = [f \in E |-> row[f]]
    BY <1>1, <1>9 DEF ApplyFn
  <2>2. \A f : Touches(r, f) <=> f = r.field
    BY <1>9 DEF Touches
  <2>3. r.op \notin {"set", "patch"}
    BY <1>9
  <2>4. \A f \in Fields : InRow(Q, f) <=> f \in E
    BY <1>2, <1>3, <1>5, <2>2, <2>3, Zenon
  <2>5. \A f \in E : Newest(Q, f).ts = new[f]
    <3>1. ASSUME NEW f \in E PROVE Newest(Q, f).ts = new[f]
      <4>1. f \in D /\ f # r.field /\ InRow(P, f)
        BY <1>4, <1>5, <3>1, Zenon
      <4>2. new[f] = row[f]
        BY <2>1, <3>1, Zenon
      <4> QED BY <1>1, <1>3, <2>2, <4>1, <4>2, Zenon
    <3> QED BY <3>1
  <2>6. new = [f \in E |-> new[f]] /\ E \subseteq Fields
    BY <1>4, <2>1, Zenon
  <2> HIDE DEF new, E
  <2>7. Holds(Q, E, new)
    BY <2>4, <2>5, <2>6, Zenon DEF Holds
  <2>8. LastWrite(Q) = new
    BY <2>7, SameRow, Zenon
  <2> QED BY <2>8 DEF new, Q, row
<1>10. CASE r.op \notin {"set", "patch", "delete", "cut"}
  <2>1. new = row
    BY <1>10 DEF ApplyFn
  <2>2. \A f : ~Touches(r, f)
    BY <1>10 DEF Touches
  <2>3. \A f \in Fields : InRow(Q, f) <=> f \in D
    BY <1>3, <1>5, <2>2, Zenon
  <2>4. \A f \in D : Newest(Q, f).ts = row[f]
    BY <1>1, <1>3, <1>4, <1>5, <2>2, Zenon
  <2>5. row = [f \in D |-> row[f]]
    BY <1>1, Zenon
  <2>6. Holds(Q, D, row)
    BY <1>4, <2>3, <2>4, <2>5, Zenon DEF Holds
  <2>7. LastWrite(Q) = row
    BY <2>6, SameRow, Zenon
  <2> QED BY <2>1, <2>7 DEF Q, row
<1> QED BY <1>6, <1>7, <1>8, <1>9, <1>10, Zenon

LEMMA LastWriteTyped ==
  ASSUME NEW t \in Nat, NEW P \in SUBSET RecUpTo(t) PROVE LastWrite(P) \in Rows(t)
<1> DEFINE D == {g \in Fields : InRow(P, g)}
<1>1. LastWrite(P) = [f \in D |-> Newest(P, f).ts] /\ D \in SUBSET Fields
  BY LastWriteIs, Zenon
<1>2. P \in SUBSET Rec /\ \A r \in P : r.ts \in 1..t
  BY ReplicationAssumption, SMT DEF ReplicationAssumption, RecUpTo, Rec
<1>3. \A f \in D : Newest(P, f).ts \in 1..t
  <2>1. ASSUME NEW f \in D PROVE Newest(P, f).ts \in 1..t
    <3>1. PICK q \in P : Touches(q, f)
      BY <2>1, Zenon DEF InRow
    <3>2. Newest(P, f) \in P
      BY <1>2, <3>1, LastExists, Zenon DEF Latter
    <3> QED BY <1>2, <3>2, Zenon
  <2> QED BY <2>1
<1> HIDE DEF D
<1>4. LastWrite(P) \in [D -> 1..t]
  BY <1>1, <1>3, Zenon
<1> QED BY <1>1, <1>4, Zenon DEF Rows

LEMMA LastWriteEmpty == LastWrite({}) = Empty
<1>1. \A f \in Fields : ~InRow({}, f)
  BY Zenon DEF InRow
<1>2. {g \in Fields : InRow({}, g)} = {}
  BY <1>1, Zenon
<1>3. LastWrite({}) = [f \in {} |-> Newest({}, f).ts]
  BY <1>2, LastWriteIs, Zenon
<1> QED BY <1>3, SMT DEF Empty

LEMMA ApartSubset == ASSUME NEW S, ToldApart(S), NEW T, T \subseteq S PROVE ToldApart(T)
BY Zenon DEF ToldApart

\* A replay of records in their order, over the last writes of older ones.
LEMMA ReplayLast ==
  ASSUME NEW t \in Nat, NEW P \in SUBSET RecUpTo(t), NEW S \in SUBSET RecUpTo(t),
         ToldApart(P \cup S), \A q \in P, r \in S : q.ts < r.ts
  PROVE  ApplyAll(LastWrite(P), InOrder(S)) = LastWrite(P \cup S)
<1> DEFINE s == InOrder(S)
           n == Len(s)
           front(k) == {s[j] : j \in 1..k}
<1>1. P \in SUBSET Rec /\ S \in SUBSET Rec
  BY Zenon DEF RecUpTo
<1>2. ToldApart(S)
  <2>1. S \subseteq P \cup S
    OBVIOUS
  <2> DEFINE U == P \cup S
  <2> HIDE DEF U
  <2>2. ToldApart(U) /\ S \subseteq U
    BY <2>1 DEF U
  <2> QED BY <2>2, ApartSubset, Zenon
<1>3. /\ s \in Seq(S) /\ \A j, k \in 1..n : j < k => Key(s[j]) < Key(s[k])
      /\ \A r \in S : \E k \in 1..n : s[k] = r
  BY <1>1, <1>2, InOrderSorts
<1> HIDE DEF s
<1>4. n \in Nat /\ \A k \in 1..n : s[k] \in S
  BY <1>3, SMT
<1>5. \A a, b \in S : Key(a) < Key(b) => a.ts <= b.ts
  BY <1>1, SMT DEF Rec, Key
<1>6. \A j, k \in 1..n : j < k => s[j].ts <= s[k].ts
  BY <1>3, <1>4, <1>5, Zenon
<1>7. s \in Seq(RecUpTo(t)) /\ LastWrite(P) \in Rows(t)
  <2>1. s \in Seq(RecUpTo(t))
    BY <1>3, SMT
  <2> QED BY <2>1, LastWriteTyped, Zenon
<1>8. PICK f \in [0..n -> Rows(t)] :
        /\ f[0] = LastWrite(P) /\ \A k \in 1..n : f[k] = ApplyFn(f[k - 1], s[k])
        /\ ApplyAll(LastWrite(P), s) = f[n]
  <2> DEFINE row == LastWrite(P)
  <2>1. row \in Rows(t)
    BY <1>7
  <2> HIDE DEF row
  <2>2. \E f \in [0..n -> Rows(t)] :
          /\ f[0] = row /\ \A k \in 1..n : f[k] = ApplyFn(f[k - 1], s[k])
          /\ ApplyAll(row, s) = f[n]
    BY <1>7, <2>1, ApplyAllSteps, Zenon
  <2> QED BY <2>2 DEF row
<1> HIDE DEF n, front
<1> DEFINE T == {k \in Nat : k <= n => f[k] = LastWrite(P \cup front(k))}
<1>9. 0 \in T
  <2>1. 1..0 = {}
    BY SMT
  <2>2. front(0) = {}
    BY <2>1, Zenon DEF front
  <2>3. P \cup front(0) = P
    BY <2>2, Zenon
  <2>4. f[0] = LastWrite(P \cup front(0))
    BY <1>8, <2>3, Zenon
  <2> QED BY <2>4
<1>10. ASSUME NEW k \in Nat, k \in T PROVE k + 1 \in T
  <2> SUFFICES ASSUME k + 1 <= n PROVE f[k + 1] = LastWrite(P \cup front(k + 1))
    BY DEF T
  <2> DEFINE r == s[k + 1]
             Q == P \cup front(k)
  <2>1. k <= n /\ k + 1 \in 1..n /\ (k + 1) - 1 = k
    BY <1>4, SMT
  <2>2. f[k] = LastWrite(Q)
    BY <1>10, <2>1
  <2>3. f[k + 1] = ApplyFn(f[k], r)
    BY <1>8, <2>1, Zenon
  <2>4. \A j \in 1..k : j \in 1..n /\ j < k + 1
    BY <1>4, <2>1, SMT
  <2>5. front(k) \subseteq S /\ r \in S /\ \A q \in front(k) : q.ts <= r.ts
    BY <1>4, <1>6, <2>1, <2>4, Zenon DEF front
  <2>6. \A q \in P : q.ts <= r.ts
    <3>1. \A q \in P : q.ts < r.ts /\ q.ts \in Nat /\ r.ts \in Nat
      BY <1>1, <2>5, SMT DEF Rec
    <3> QED BY <3>1, SMT
  <2>7. front(k + 1) = front(k) \cup {r}
    <3>1. \A j : j \in 1..k + 1 <=> (j \in 1..k \/ j = k + 1)
      BY SMT
    <3> QED BY <3>1, Zenon DEF front
  <2>8. P \cup front(k + 1) = Q \cup {r}
    BY <2>7, Zenon
  <2>9. Q \in SUBSET Rec /\ r \in Rec /\ Q \cup {r} \subseteq P \cup S /\ \A q \in Q : q.ts <= r.ts
    BY <1>1, <2>5, <2>6, Zenon
  <2>10. ToldApart(Q \cup {r})
    <3> DEFINE U == P \cup S
               V == Q \cup {r}
    <3>1. ToldApart(U) /\ V \subseteq U
      BY <2>9
    <3> HIDE DEF U, V
    <3>2. ToldApart(V)
      BY <3>1, ApartSubset, Zenon
    <3> QED BY <3>2 DEF V
  <2> HIDE DEF r, Q
  <2>11. LastWrite(Q \cup {r}) = ApplyFn(LastWrite(Q), r)
    BY <2>9, <2>10, LastWriteAdds, Zenon
  <2> QED BY <2>2, <2>3, <2>8, <2>11, Zenon
<1>11. Nat \subseteq T
  <2> HIDE DEF T
  <2> QED BY <1>9, <1>10, SetInduction
<1>12. f[n] = LastWrite(P \cup front(n))
  <2>1. n \in T /\ n <= n
    BY <1>4, <1>11, SMT
  <2> QED BY <2>1
<1>13. front(n) = S
  BY <1>3, <1>4, Zenon DEF front, n
<1> QED BY <1>8, <1>12, <1>13, Zenon DEF s

\* Records that touch nothing change no last write.
LEMMA UntouchedIgnored ==
  ASSUME NEW P \in SUBSET Rec, NEW Q \in SUBSET Rec, P \subseteq Q, ToldApart(Q),
         \A r \in Q : r \notin P => r.op = "foreign"
  PROVE  LastWrite(P) = LastWrite(Q)
<1> DEFINE D == {g \in Fields : InRow(P, g)}
           row == LastWrite(P)
<1>1. row = [f \in D |-> Newest(P, f).ts] /\ D \subseteq Fields
  BY LastWriteIs, Zenon
<1>2. \A r \in Q : r \notin P => \A f : ~Touches(r, f)
  BY DEF Touches
<1>3. \A f : (InRow(Q, f) <=> InRow(P, f)) /\ (InRow(P, f) => Newest(Q, f) = Newest(P, f))
  BY <1>2, UntouchedStays, Zenon
<1>4. (\A f \in Fields : InRow(Q, f) <=> f \in D) /\ \A f \in D : Newest(Q, f).ts = row[f]
  BY <1>1, <1>3, Zenon
<1>5. row = [f \in D |-> row[f]]
  BY <1>1, Zenon
<1> HIDE DEF D, row
<1>6. Holds(Q, D, row)
  BY <1>1, <1>4, <1>5, Zenon DEF Holds
<1>7. LastWrite(Q) = row
  BY <1>6, SameRow, Zenon
<1> QED BY <1>7 DEF row

\* The replay of a start, when it takes all of version N before all of N+1.
LEMMA ReplayedIs ==
  ASSUME RInv, NEW i \in Instances, \A q \in Stored(0), r \in Stored(1) : q.ts < r.ts
  PROVE  Replayed(i) = LastWrite(Accepted(i, AllStored))
<1> DEFINE A == Accepted(i, Stored(0))
           B == Accepted(i, Stored(1))
<1>1. \A r \in AllStored : \E s \in Segments : r \in Decoded(segment[s])
  BY StoredAt, Zenon DEF AllStored, Versions
<1>2. AllStored \subseteq RecUpTo(clock) /\ ToldApart(AllStored)
  BY <1>1, StoredSorts, Zenon
<1>3. /\ A \subseteq Stored(0) /\ B \subseteq Stored(1) /\ A \cup B \subseteq AllStored
      /\ A \cup B = Accepted(i, AllStored)
  BY Zenon DEF Accepted, AllStored
<1> HIDE DEF A, B
<1>4. ToldApart(A \cup B) /\ ToldApart(A)
  <2> DEFINE U == A \cup B
  <2>1. U \subseteq AllStored /\ A \subseteq U
    BY <1>3
  <2> HIDE DEF U
  <2>2. ToldApart(U) /\ ToldApart(A)
    BY <1>2, <2>1, ApartSubset, Zenon
  <2> QED BY <2>2 DEF U
<1>5. clock \in Nat /\ A \in SUBSET RecUpTo(clock) /\ B \in SUBSET RecUpTo(clock)
  <2>1. clock \in Nat
    BY SMT DEF RInv, IInv, Types
  <2> QED BY <1>2, <1>3, <2>1, Zenon
<1>6. ApplyAll(Empty, InOrder(A)) = LastWrite(A)
  <2> DEFINE P == {}
  <2>1. P \in SUBSET RecUpTo(clock) /\ P \cup A = A /\ \A q \in P, r \in A : q.ts < r.ts
    OBVIOUS
  <2>2. LastWrite(P) = Empty
    BY LastWriteEmpty
  <2> HIDE DEF P
  <2>3. ToldApart(P \cup A)
    BY <1>4, <2>1, Zenon
  <2>4. ApplyAll(LastWrite(P), InOrder(A)) = LastWrite(P \cup A)
    BY <1>5, <2>1, <2>3, ReplayLast, Zenon
  <2> QED BY <2>1, <2>2, <2>4, Zenon
<1>7. ApplyAll(LastWrite(A), InOrder(B)) = LastWrite(A \cup B)
  <2>1. \A q \in A, r \in B : q.ts < r.ts
    BY <1>3, Zenon
  <2> QED BY <1>4, <1>5, <2>1, ReplayLast, Zenon
<1>8. Replayed(i) = ApplyAll(ApplyAll(Empty, InOrder(A)), InOrder(B))
  BY Zenon DEF Replayed, ReplayVersion, A, B
<1> QED BY <1>3, <1>6, <1>7, <1>8, Zenon

LEMMA RInvReplay == ASSUME RInv PROVE ReplayIsLastWrite
<1> SUFFICES ASSUME \A r \in Stored(0), q \in Stored(1) : r.ts < q.ts, NEW i \in Instances
             PROVE  Replayed(i) = LastWrite(AllStored)
  BY Zenon DEF ReplayIsLastWrite
<1> DEFINE P == Accepted(i, AllStored)
<1>1. Replayed(i) = LastWrite(P)
  BY ReplayedIs, Zenon
<1>2. \A r \in AllStored : \E s \in Segments : r \in Decoded(segment[s])
  BY StoredAt, Zenon DEF AllStored, Versions
<1>3. AllStored \in SUBSET Rec /\ ToldApart(AllStored)
  BY <1>2, StoredSorts, Zenon
<1>4. P \subseteq AllStored /\ \A r \in AllStored : r \notin P => r.op = "foreign"
  BY Zenon DEF Accepted, Rejects
<1> HIDE DEF P
<1>5. P \in SUBSET Rec
  BY <1>3, <1>4, Zenon
<1>6. LastWrite(P) = LastWrite(AllStored)
  BY <1>3, <1>4, <1>5, UntouchedIgnored, Zenon
<1> QED BY <1>1, <1>6, Zenon

-----------------------------------------------------------------------------
(* Memory and what is applied *)

\* Two rows have the same of a field.
Agree(row, other, f) ==
  /\ f \in DOMAIN row <=> f \in DOMAIN other
  /\ f \in DOMAIN row => row[f] = other[f]

LEMMA TouchedAgrees ==
  ASSUME NEW row, NEW other, NEW r, NEW f \in Fields, Touches(r, f)
  PROVE  Agree(ApplyFn(row, r), ApplyFn(other, r), f)
<1>1. CASE r.op = "set"
  <2>1. ApplyFn(row, r) = [g \in Fields |-> r.ts] /\ ApplyFn(other, r) = [g \in Fields |-> r.ts]
    BY <1>1, Zenon DEF ApplyFn
  <2> QED BY <2>1, Zenon DEF Agree
<1>2. CASE r.op = "patch"
  <2> DEFINE a == [g \in DOMAIN row \cup {r.field} |-> IF g = r.field THEN r.ts ELSE row[g]]
             b == [g \in DOMAIN other \cup {r.field} |-> IF g = r.field THEN r.ts ELSE other[g]]
  <2>1. f = r.field
    BY <1>2 DEF Touches
  <2>2. f \in DOMAIN a /\ f \in DOMAIN b /\ a[f] = r.ts /\ b[f] = r.ts
    BY <2>1, Zenon
  <2>3. ApplyFn(row, r) = a /\ ApplyFn(other, r) = b
    BY <1>2 DEF ApplyFn
  <2> HIDE DEF a, b
  <2> QED BY <2>2, <2>3, Zenon DEF Agree
<1>3. CASE r.op = "delete"
  <2>1. ApplyFn(row, r) = Empty /\ ApplyFn(other, r) = Empty
    BY <1>3 DEF ApplyFn
  <2> QED BY <2>1, Zenon DEF Agree
<1>4. CASE r.op = "cut"
  <2> DEFINE a == [g \in DOMAIN row \ {r.field} |-> row[g]]
             b == [g \in DOMAIN other \ {r.field} |-> other[g]]
  <2>1. f = r.field
    BY <1>4 DEF Touches
  <2>2. f \notin DOMAIN a /\ f \notin DOMAIN b
    BY <2>1, Zenon
  <2>3. ApplyFn(row, r) = a /\ ApplyFn(other, r) = b
    BY <1>4 DEF ApplyFn
  <2> HIDE DEF a, b
  <2> QED BY <2>2, <2>3, Zenon DEF Agree
<1> QED BY <1>1, <1>2, <1>3, <1>4 DEF Touches

LEMMA UntouchedAgrees ==
  ASSUME NEW row, NEW r, NEW f \in Fields, ~Touches(r, f)
  PROVE  Agree(ApplyFn(row, r), row, f)
<1>1. r.op # "set" /\ r.op # "delete" /\ (r.op \in {"patch", "cut"} => f # r.field)
  BY DEF Touches
<1>2. CASE r.op = "patch"
  <2> DEFINE a == [g \in DOMAIN row \cup {r.field} |-> IF g = r.field THEN r.ts ELSE row[g]]
  <2>1. f # r.field
    BY <1>1, <1>2
  <2>2. f \in DOMAIN a <=> f \in DOMAIN row
    BY <2>1, Zenon
  <2>3. f \in DOMAIN a => a[f] = row[f]
    BY <2>1, Zenon
  <2>4. ApplyFn(row, r) = a
    BY <1>2 DEF ApplyFn
  <2> HIDE DEF a
  <2> QED BY <2>2, <2>3, <2>4, Zenon DEF Agree
<1>3. CASE r.op = "cut"
  <2> DEFINE a == [g \in DOMAIN row \ {r.field} |-> row[g]]
  <2>1. f # r.field
    BY <1>1, <1>3
  <2>2. (f \in DOMAIN a <=> f \in DOMAIN row) /\ (f \in DOMAIN a => a[f] = row[f])
    BY <2>1, Zenon
  <2>3. ApplyFn(row, r) = a
    BY <1>3 DEF ApplyFn
  <2> HIDE DEF a
  <2> QED BY <2>2, <2>3, Zenon DEF Agree
<1>4. CASE r.op \notin {"patch", "cut"}
  <2>1. ApplyFn(row, r) = row
    BY <1>1, <1>4 DEF ApplyFn
  <2> QED BY <2>1, Zenon DEF Agree
<1> QED BY <1>2, <1>3, <1>4, Zenon

LEMMA AgreeTransitive ==
  ASSUME NEW a, NEW b, NEW c, NEW f, Agree(a, b, f), Agree(b, c, f)
  PROVE  Agree(a, c, f) /\ Agree(b, a, f)
BY Zenon DEF Agree

\* A replay over two rows that agree on a field, or that touches it.
LEMMA ReplayAgrees ==
  ASSUME NEW t \in Nat, NEW row \in Rows(t), NEW other \in Rows(t), NEW records \in Seq(RecUpTo(t)),
         NEW f \in Fields, Agree(row, other, f) \/ \E k \in 1..Len(records) : Touches(records[k], f)
  PROVE  Agree(ApplyAll(row, records), ApplyAll(other, records), f)
<1> DEFINE n == Len(records)
<1>1. PICK a \in [0..n -> Rows(t)] :
        /\ a[0] = row /\ \A k \in 1..n : a[k] = ApplyFn(a[k - 1], records[k])
        /\ ApplyAll(row, records) = a[n]
  BY ApplyAllSteps, Zenon
<1>2. PICK b \in [0..n -> Rows(t)] :
        /\ b[0] = other /\ \A k \in 1..n : b[k] = ApplyFn(b[k - 1], records[k])
        /\ ApplyAll(other, records) = b[n]
  BY ApplyAllSteps, Zenon
<1>3. n \in Nat
  BY SMT
<1> HIDE DEF n
<1> DEFINE Known(k) == Agree(row, other, f) \/ \E j \in 1..k : Touches(records[j], f)
           T == {k \in Nat : k <= n /\ Known(k) => Agree(a[k], b[k], f)}
<1>4. 0 \in T
  <2>1. 1..0 = {}
    BY SMT
  <2>2. Known(0) => Agree(a[0], b[0], f)
    BY <1>1, <1>2, <2>1, Zenon
  <2> HIDE DEF Known
  <2> QED BY <2>2
<1>5. ASSUME NEW k \in Nat, k \in T PROVE k + 1 \in T
  <2> SUFFICES ASSUME k + 1 <= n, Known(k + 1) PROVE Agree(a[k + 1], b[k + 1], f)
    BY DEF T
  <2> DEFINE r == records[k + 1]
  <2>1. k <= n /\ k + 1 \in 1..n /\ (k + 1) - 1 = k
    BY <1>3, SMT
  <2>2. a[k + 1] = ApplyFn(a[k], r) /\ b[k + 1] = ApplyFn(b[k], r)
    BY <1>1, <1>2, <2>1, Zenon
  <2>3. CASE Touches(r, f)
    BY <2>2, <2>3, TouchedAgrees, Zenon
  <2>4. CASE ~Touches(r, f)
    <3>1. \A j \in 1..k + 1 : j \in 1..k \/ j = k + 1
      BY SMT
    <3>2. Known(k)
      BY <2>4, <3>1, Zenon
    <3>3. Agree(a[k], b[k], f)
      <4> HIDE DEF Known
      <4> QED BY <1>5, <2>1, <3>2
    <3>4. Agree(ApplyFn(a[k], r), a[k], f) /\ Agree(ApplyFn(b[k], r), b[k], f)
      BY <2>4, UntouchedAgrees, Zenon
    <3> HIDE DEF r
    <3>5. Agree(ApplyFn(a[k], r), ApplyFn(b[k], r), f)
      BY <3>3, <3>4, Zenon DEF Agree
    <3> QED BY <2>2, <3>5, Zenon
  <2> QED BY <2>3, <2>4
<1>6. Nat \subseteq T
  <2> HIDE DEF T
  <2> QED BY <1>4, <1>5, SetInduction
<1>7. n \in T /\ n <= n
  BY <1>3, <1>6, SMT
<1>8. Known(n)
  BY Zenon DEF n
<1>9. Agree(a[n], b[n], f)
  <2> HIDE DEF Known
  <2> QED BY <1>7, <1>8
<1> QED BY <1>1, <1>2, <1>9, Zenon

\* A replay that does not touch the field.
LEMMA ReplayLeaves ==
  ASSUME NEW t \in Nat, NEW row \in Rows(t), NEW records \in Seq(RecUpTo(t)), NEW f \in Fields,
         \A k \in 1..Len(records) : ~Touches(records[k], f)
  PROVE  Agree(ApplyAll(row, records), row, f)
<1> DEFINE n == Len(records)
<1>1. PICK a \in [0..n -> Rows(t)] :
        /\ a[0] = row /\ \A k \in 1..n : a[k] = ApplyFn(a[k - 1], records[k])
        /\ ApplyAll(row, records) = a[n]
  BY ApplyAllSteps, Zenon
<1>2. n \in Nat /\ \A k \in 1..n : ~Touches(records[k], f)
  BY SMT
<1> HIDE DEF n
<1> DEFINE T == {k \in Nat : k <= n => Agree(a[k], row, f)}
<1>3. 0 \in T
  <2>1. Agree(a[0], row, f)
    BY <1>1, Zenon DEF Agree
  <2> QED BY <2>1
<1>4. ASSUME NEW k \in Nat, k \in T PROVE k + 1 \in T
  <2> SUFFICES ASSUME k + 1 <= n PROVE Agree(a[k + 1], row, f)
    BY DEF T
  <2>1. k <= n /\ k + 1 \in 1..n /\ (k + 1) - 1 = k
    BY <1>2, SMT
  <2>2. Agree(a[k], row, f)
    BY <1>4, <2>1
  <2>3. a[k + 1] = ApplyFn(a[k], records[k + 1])
    BY <1>1, <2>1, Zenon
  <2>4. Agree(ApplyFn(a[k], records[k + 1]), a[k], f)
    BY <1>2, <2>1, UntouchedAgrees, Zenon
  <2> QED BY <2>2, <2>3, <2>4, AgreeTransitive, Zenon
<1>5. Nat \subseteq T
  <2> HIDE DEF T
  <2> QED BY <1>3, <1>4, SetInduction
<1>6. Agree(a[n], row, f)
  BY <1>2, <1>5, SMT
<1> QED BY <1>1, <1>6, Zenon

-----------------------------------------------------------------------------
(* What a process wrote and has not polled *)

\* A write of the process: applied to memory, on its way to a segment or in one.
Written(i, r) ==
  \/ \E w \in Writers : Home[w] = i /\ call[w].applied /\ r \in ToSet(call[w].records)
  \/ r \in ToSet(wbuf[i])
  \/ \E s \in Segments : s[2][1] = i /\ r \in Decoded(segment[s])

Own(i) == {r \in Rec : Written(i, r) /\ r \notin applied[i]}

Untouched(i, f) == \A r \in Own(i) : ~Touches(r, f)

\* Memory has the last write among what the process replayed and polled, of
\* every field that no write of its own, still to be polled, touches.
AgreeAt(i) ==
  OneSegment => \A f \in Fields : Untouched(i, f) => Agree(mem[i], LastWrite(applied[i]), f)

AgreeInv == \A i \in Instances : AgreeAt(i)

LEMMA OwnGrows ==
  ASSUME NEW i \in Instances, AgreeAt(i), mem'[i] = mem[i], applied'[i] = applied[i],
         OneSegment' => OneSegment, \A r \in Rec : Written(i, r) => Written(i, r)'
  PROVE  AgreeAt(i)'
<1>1. Own(i) \subseteq Own(i)'
  BY Zenon DEF Own
<1>2. \A f : Untouched(i, f)' => Untouched(i, f)
  <2>1. \A f : Untouched(i, f)' <=> \A r \in Own(i)' : ~Touches(r, f)
    BY DEF Untouched, Touches
  <2> QED BY <1>1, <2>1, Zenon DEF Untouched
<1>3. (mem[i])' = mem[i] /\ (applied[i])' = applied[i]
  BY Zenon
<1>4. AgreeAt(i)' <=> (OneSegment' => \A f \in Fields : Untouched(i, f)' => Agree(mem'[i], LastWrite(applied'[i]), f))
  BY DEF AgreeAt, Agree, LastWrite, Touches
<1> QED BY <1>2, <1>3, <1>4, Zenon DEF AgreeAt

LEMMA StampAgrees == ASSUME RInv, AgreeInv, NEW w \in Writers, NEW op \in Ops[w], Stamp(w, op) PROVE AgreeInv'
<1>1. /\ call' = [call EXCEPT ![w] = [records |-> Records(w, op), applied |-> FALSE]]
      /\ call[w] = Idle /\ UNCHANGED <<mem, wbuf, segment, applied>>
  BY Zenon DEF Stamp, local
<1>2. ToSet(call[w].records) = {}
  BY <1>1, SMT DEF Idle, ToSet
<1>3. \A x \in Writers \ {w} : call'[x] = call[x]
  BY <1>1, Zenon DEF RInv, IInv, Types
<1>4. \A i \in Instances : \A r \in Rec : Written(i, r) => Written(i, r)'
  BY <1>1, <1>2, <1>3, Zenon DEF Written
<1>5. OneSegment' <=> OneSegment
  BY <1>1, Zenon DEF OneSegment
<1> QED BY <1>1, <1>4, <1>5, OwnGrows, Zenon DEF AgreeInv

\* Memory takes the records of a call, which the process has not polled yet.
LEMMA ApplyAgrees == ASSUME RInv, AgreeInv, NEW w \in Writers, Apply(w) PROVE AgreeInv'
<1> DEFINE s == call[w].records
           i == Home[w]
<1>1. /\ mem' = [mem EXCEPT ![i] = ApplyAll(mem[i], s)]
      /\ call' = [call EXCEPT ![w].applied = TRUE]
      /\ UNCHANGED <<clock, wbuf, segment, applied>>
  BY Zenon DEF Apply
<1>2. call \in [Writers -> [records : Seq(Rec), applied : BOOLEAN]] /\ clock \in Nat
  BY SMT DEF RInv, IInv, Types
<1>3. i \in Instances /\ mem \in [Instances -> Rows(clock)]
  BY ReplicationAssumption, Zenon DEF ReplicationAssumption, RInv, MemInv
<1>4. /\ \A x \in Writers : call'[x].records = call[x].records
      /\ call'[w].applied /\ \A x \in Writers : call[x].applied => call'[x].applied
  <2>1. call'[w] = [call[w] EXCEPT !.applied = TRUE] /\ \A x \in Writers \ {w} : call'[x] = call[x]
    BY <1>1, <1>2, Zenon
  <2>2. call[w] \in [records : Seq(Rec), applied : BOOLEAN]
    BY <1>2
  <2>3. call'[w].records = s /\ call'[w].applied = TRUE
    BY <2>1, <2>2, Zenon
  <2> QED BY <2>1, <2>3, Zenon
<1>5. \A j \in Instances : \A r \in Rec : Written(j, r) => Written(j, r)'
  <2>1. wbuf' = wbuf /\ segment' = segment
    BY <1>1
  <2> QED BY <1>4, <2>1, Zenon DEF Written
<1>6. OneSegment' <=> OneSegment
  BY <1>1, Zenon DEF OneSegment
<1>7. ToSet(s) \subseteq RecUpTo(clock) /\ ToSet(s) \subseteq Rec
  <2>1. ToSet(s) \subseteq RecUpTo(clock)
    BY HeldAt, Zenon DEF RInv, PlaceInv, Past
  <2> QED BY <2>1, Zenon DEF RecUpTo
<1>8. s \in Seq(RecUpTo(clock))
  <2>1. s \in Seq(Rec)
    BY <1>2, Zenon
  <2> HIDE DEF s
  <2> QED BY <1>7, <2>1, PastSeq, Zenon
<1>9. \A r \in ToSet(s) : r \notin applied[i]
  <2> SUFFICES ASSUME NEW r \in ToSet(s), r \in applied[i] PROVE FALSE
    BY Zenon
  <2>1. PICK t \in Segments : r \in Decoded(segment[t])
    BY <1>3, AppliedIsStored, Zenon
  <2>2. /\ <<"call", w>> \in Places /\ <<"segment", t>> \in Places /\ <<"call", w>> # <<"segment", t>>
        /\ <<"call", w>>[1] = "call" /\ r \in Held(<<"call", w>>) /\ r \in Held(<<"segment", t>>)
    <3>1. <<"call", w>> # <<"segment", t>>
      OBVIOUS
    <3> QED BY <2>1, <3>1, HeldAt, Zenon
  <2> HIDE DEF s
  <2> QED BY <2>2 DEF RInv, PlaceInv, Apart, Once
<1>10. \A k \in 1..Len(s) : s[k] \in ToSet(s)
  <2>1. s \in Seq(Rec)
    BY <1>2, Zenon
  <2> HIDE DEF s
  <2>2. DOMAIN s = 1..Len(s)
    BY <2>1, SMT
  <2> QED BY <2>2, Zenon DEF ToSet
<1>11. AgreeAt(i)'
  <2> SUFFICES ASSUME OneSegment', NEW f \in Fields, \A r \in Own(i)' : ~Touches(r, f)
               PROVE  Agree(mem'[i], LastWrite(applied[i]), f)
    <3>1. (applied[i])' = applied[i] /\ (mem[i])' = mem'[i]
      BY <1>1, Zenon
    <3>2. AgreeAt(i)' <=> (OneSegment' => \A f \in Fields : (\A r \in Own(i)' : ~Touches(r, f))
                             => Agree(mem'[i], LastWrite(applied'[i]), f))
      BY DEF AgreeAt, Agree, LastWrite, Touches, Untouched
    <3> QED BY <1>1, <3>1, <3>2, Zenon
  <2>1. Own(i) \subseteq Own(i)'
    BY <1>1, <1>3, <1>5, Zenon DEF Own
  <2>2. ToSet(s) \subseteq Own(i)'
    <3>1. \A r \in ToSet(s) : Written(i, r)'
      BY <1>4, Zenon DEF Written
    <3>2. (applied[i])' = applied[i]
      BY <1>1, Zenon
    <3> HIDE DEF s
    <3> QED BY <1>7, <1>9, <3>1, <3>2, Zenon DEF Own
  <2>3. Agree(mem[i], LastWrite(applied[i]), f)
    BY <1>3, <1>6, <2>1, Zenon DEF AgreeInv, AgreeAt, Untouched
  <2>4. mem'[i] = ApplyAll(mem[i], s)
    BY <1>1, <1>3, Zenon
  <2>5. Agree(ApplyAll(mem[i], s), mem[i], f)
    <3>1. \A k \in 1..Len(s) : ~Touches(s[k], f)
      BY <1>10, <2>2, Zenon
    <3>2. mem[i] \in Rows(clock)
      BY <1>3
    <3> HIDE DEF s
    <3> QED BY <1>2, <1>8, <3>1, <3>2, ReplayLeaves, Zenon
  <2> QED BY <2>3, <2>4, <2>5, AgreeTransitive, Zenon
<1>12. ASSUME NEW j \in Instances, j # i PROVE AgreeAt(j)'
  <2>1. mem'[j] = mem[j] /\ applied'[j] = applied[j]
    BY <1>1, <1>3, <1>12, Zenon
  <2> QED BY <1>5, <1>6, <2>1, OwnGrows, Zenon DEF AgreeInv
<1> QED BY <1>11, <1>12, Zenon DEF AgreeInv

LEMMA AppendAgrees == ASSUME RInv, AgreeInv, NEW w \in Writers, AppendMutation(w) PROVE AgreeInv'
<1> DEFINE s == call[w].records
           i == Home[w]
<1>1. /\ wbuf' = [wbuf EXCEPT ![i] = Append(@, Head(s))]
      /\ call' = [call EXCEPT ![w].records = Tail(@)]
      /\ UNCHANGED <<mem, segment, applied>>
  BY Zenon DEF AppendMutation
<1>2. /\ call \in [Writers -> [records : Seq(Rec), applied : BOOLEAN]] /\ wbuf \in [Instances -> Seq(Rec)]
      /\ call[w] \in [records : Seq(Rec), applied : BOOLEAN]
  BY Zenon DEF RInv, IInv, Types
<1>3. s \in Seq(Rec) /\ s # <<>>
  BY <1>2, SMT DEF AppendMutation, Idle
<1>4. i \in Instances
  BY ReplicationAssumption, Zenon DEF ReplicationAssumption
<1>5. /\ call'[w].records = Tail(s) /\ \A x \in Writers \ {w} : call'[x] = call[x]
      /\ \A x \in Writers : call'[x].applied = call[x].applied
  <2>1. call'[w] = [call[w] EXCEPT !.records = Tail(@)] /\ \A x \in Writers \ {w} : call'[x] = call[x]
    BY <1>1, <1>2, Zenon
  <2>2. call'[w].records = Tail(s) /\ call'[w].applied = call[w].applied
    BY <1>2, <2>1, Zenon
  <2> QED BY <2>1, <2>2, Zenon
<1>6. wbuf'[i] = Append(wbuf[i], Head(s)) /\ \A j \in Instances \ {i} : wbuf'[j] = wbuf[j]
  BY <1>1, <1>2, <1>4, Zenon
<1> HIDE DEF s
<1>7. ToSet(s) \subseteq {Head(s)} \cup ToSet(Tail(s))
  <2>1. /\ Len(s) \in Nat /\ DOMAIN s = 1..Len(s) /\ DOMAIN Tail(s) = 1..Len(s) - 1 /\ Head(s) = s[1]
        /\ \A k \in 1..Len(s) : k # 1 => k - 1 \in 1..Len(s) - 1 /\ Tail(s)[k - 1] = s[k]
    BY <1>3, SMT
  <2> QED BY <2>1, Zenon DEF ToSet
<1>8. ToSet(wbuf[i]) \cup {Head(s)} \subseteq ToSet(wbuf'[i])
  <2> DEFINE b == wbuf[i]
             a == Append(b, Head(s))
  <2>1. b \in Seq(Rec) /\ Head(s) \in Rec
    BY <1>2, <1>3, <1>4, SMT
  <2> HIDE DEF b
  <2>2. /\ Len(b) \in Nat /\ DOMAIN b = 1..Len(b) /\ DOMAIN a = 1..Len(b) + 1
        /\ a[Len(b) + 1] = Head(s) /\ \A k \in 1..Len(b) : a[k] = b[k]
    BY <2>1, SMT
  <2>3. Len(b) + 1 \in 1..Len(b) + 1 /\ \A k \in 1..Len(b) : k \in 1..Len(b) + 1
    BY <2>2, SMT
  <2> HIDE DEF a
  <2>4. ToSet(b) \cup {Head(s)} \subseteq ToSet(a)
    BY <2>2, <2>3, Zenon DEF ToSet
  <2> QED BY <1>6, <2>4 DEF a, b
<1>9. ASSUME NEW j \in Instances, NEW r \in Rec, Written(j, r) PROVE Written(j, r)'
  <2>1. CASE \E x \in Writers : Home[x] = j /\ call[x].applied /\ r \in ToSet(call[x].records)
    <3>1. PICK x \in Writers : Home[x] = j /\ call[x].applied /\ r \in ToSet(call[x].records)
      BY <2>1
    <3>2. CASE x # w
      BY <1>5, <3>1, <3>2, Zenon DEF Written
    <3>3. CASE x = w /\ r \in ToSet(Tail(s))
      BY <1>5, <3>1, <3>3, Zenon DEF Written
    <3>4. CASE x = w /\ r = Head(s)
      BY <1>8, <3>1, <3>4, Zenon DEF Written
    <3> QED BY <1>7, <3>1, <3>2, <3>3, <3>4, Zenon DEF s
  <2>2. CASE r \in ToSet(wbuf[j])
    BY <1>6, <1>8, <2>2, Zenon DEF Written
  <2>3. CASE \E t \in Segments : t[2][1] = j /\ r \in Decoded(segment[t])
    BY <1>1, <2>3, Zenon DEF Written
  <2> QED BY <1>9, <2>1, <2>2, <2>3, Zenon DEF Written
<1>10. OneSegment' <=> OneSegment
  BY <1>1, Zenon DEF OneSegment
<1> QED BY <1>1, <1>9, <1>10, OwnGrows, Zenon DEF AgreeInv

LEMMA FlushAgrees == ASSUME RInv, AgreeInv, NEW i \in Instances, Flush(i) \/ FlushUnclear(i) PROVE AgreeInv'
<1> DEFINE b == wbuf[i]
<1>1. PICK s \in Segments, n \in 1..Len(b) : StoresBatch(i, s, n)
  BY FlushStores, Zenon
<1> DEFINE front == SubSeq(b, 1, n)
           back == SubSeq(b, n + 1, Len(b))
<1>2. /\ segment' = [segment EXCEPT ![s] = segment[s] \o front] /\ s[2][1] = i
      /\ wbuf' = [wbuf EXCEPT ![i] = back] \/ wbuf' = wbuf
      /\ UNCHANGED <<call, mem, applied>>
  BY <1>1, Zenon DEF StoresBatch
<1>3. segment \in [Segments -> Seq(Rec \cup {Malformed})] /\ wbuf \in [Instances -> Seq(Rec)]
  BY Zenon DEF RInv, IInv, Types
<1>4. /\ segment'[s] = segment[s] \o front /\ \A t \in Segments \ {s} : segment'[t] = segment[t]
      /\ wbuf'[i] = back \/ wbuf'[i] = b
      /\ \A j \in Instances \ {i} : wbuf'[j] = wbuf[j]
  BY <1>2, <1>3, Zenon
<1>5. b \in Seq(Rec) /\ segment[s] \in Seq(Rec \cup {Malformed})
  BY <1>3, Zenon
<1> HIDE DEF b
<1>6. ToSet(b) \subseteq ToSet(front) \cup ToSet(back)
  <2> DEFINE m == Len(b) - n
  <2>1. /\ DOMAIN b = 1..Len(b) /\ DOMAIN front = 1..n /\ DOMAIN back = 1..m
        /\ \A k \in 1..n : front[k] = b[k]
        /\ \A k \in 1..Len(b) : k \notin 1..n => k - n \in 1..m /\ back[k - n] = b[k]
    BY <1>5, SMT
  <2> HIDE DEF front, back, m
  <2> QED BY <2>1, Zenon DEF ToSet
<1>7. front \in Seq(Rec)
  BY <1>5, SMT
<1> HIDE DEF front, back
<1>8. Decoded(segment[s]) \cup ToSet(front) \subseteq Decoded(segment'[s])
  <2> DEFINE a == segment[s]
             c == a \o front
  <2>1. a \in Seq(Rec \cup {Malformed}) /\ front \in Seq(Rec \cup {Malformed})
    BY <1>5, <1>7, SMT
  <2> HIDE DEF a
  <2>2. /\ Len(a) \in Nat /\ Len(front) \in Nat /\ DOMAIN a = 1..Len(a) /\ DOMAIN front = 1..Len(front)
        /\ \A k \in 1..Len(a) : k \in DOMAIN c /\ c[k] = a[k]
        /\ \A k \in 1..Len(front) : k + Len(a) \in DOMAIN c /\ c[k + Len(a)] = front[k]
    <3> HIDE DEF Malformed
    <3> QED BY <2>1, SMT
  <2>3. \A k \in 1..Len(front) : front[k] # Malformed
    <3>1. \A k \in 1..Len(front) : front[k] \in Rec
      BY <1>7, SMT
    <3>2. Malformed \notin Rec
      BY SMT DEF Malformed, Rec
    <3> QED BY <3>1, <3>2, Zenon
  <2> HIDE DEF c
  <2>4. Decoded(a) \cup ToSet(front) \subseteq Decoded(c)
    BY <2>2, <2>3, Zenon DEF Decoded, ToSet
  <2> QED BY <1>4, <2>4 DEF a, c
<1>9. ASSUME NEW j \in Instances, NEW r \in Rec, Written(j, r) PROVE Written(j, r)'
  <2>1. CASE \E x \in Writers : Home[x] = j /\ call[x].applied /\ r \in ToSet(call[x].records)
    BY <1>2, <2>1, Zenon DEF Written
  <2>2. CASE r \in ToSet(wbuf[j])
    <3>1. CASE j = i /\ r \in ToSet(front)
      <4>1. r \in Decoded(segment'[s]) /\ s[2][1] = j
        BY <1>2, <1>8, <3>1, Zenon
      <4> QED BY <4>1, Zenon DEF Written
    <3>2. CASE j = i /\ r \in ToSet(back)
      BY <1>4, <2>2, <3>2, Zenon DEF Written, b
    <3>3. CASE j # i
      BY <1>4, <2>2, <3>3, Zenon DEF Written
    <3> QED BY <1>6, <2>2, <3>1, <3>2, <3>3, Zenon DEF b
  <2>3. CASE \E t \in Segments : t[2][1] = j /\ r \in Decoded(segment[t])
    <3>1. PICK t \in Segments : t[2][1] = j /\ r \in Decoded(segment[t])
      BY <2>3
    <3>2. r \in Decoded(segment'[t])
      <4>1. CASE t = s
        BY <1>8, <3>1, <4>1, Zenon
      <4>2. CASE t # s
        BY <1>4, <3>1, <4>2, Zenon
      <4> QED BY <4>1, <4>2
    <3> QED BY <3>1, <3>2, Zenon DEF Written
  <2> QED BY <1>9, <2>1, <2>2, <2>3, Zenon DEF Written
<1>10. OneSegment' => OneSegment
  <2>1. segment[s] # <<>> => segment'[s] # <<>>
    BY <1>4, <1>5, <1>7, SMT
  <2>2. \A t \in Segments : segment[t] # <<>> => segment'[t] # <<>>
    BY <1>4, <2>1, Zenon
  <2> QED BY <2>2, Zenon DEF OneSegment
<1> QED BY <1>2, <1>9, <1>10, OwnGrows, Zenon DEF AgreeInv

LEMMA CorruptAgrees == ASSUME RInv, AgreeInv, NEW s \in Segments, Corrupt(s) PROVE AgreeInv'
<1>1. /\ segment' = [segment EXCEPT ![s] = Append(@, Malformed)] /\ segment[s] # <<>>
      /\ UNCHANGED <<call, mem, wbuf, applied>>
  BY Zenon DEF Corrupt, local
<1>2. segment \in [Segments -> Seq(Rec \cup {Malformed})]
  BY Zenon DEF RInv, IInv, Types
<1>3. \A t \in Segments : Decoded(segment'[t]) = Decoded(segment[t])
  <2>1. Decoded(Append(segment[s], Malformed)) = Decoded(segment[s])
    <3> DEFINE S == Rec \cup {Malformed}
    <3>1. segment[s] \in Seq(S)
      BY <1>2, Zenon
    <3> HIDE DEF S
    <3> QED BY <3>1, DecodedAppend, Zenon
  <2> QED BY <1>1, <1>2, <2>1, Zenon
<1>5. \A i \in Instances : \A r \in Rec : Written(i, r) => Written(i, r)'
  BY <1>1, <1>3, Zenon DEF Written
<1>6. OneSegment' => OneSegment
  <2>1. Append(segment[s], Malformed) # <<>>
    <3>1. segment[s] \in Seq(Rec \cup {Malformed})
      BY <1>2, Zenon
    <3> HIDE DEF Malformed
    <3> QED BY <3>1, SMT
  <2>2. \A t \in Segments : segment[t] # <<>> => segment'[t] # <<>>
    BY <1>1, <1>2, <2>1, Zenon
  <2> QED BY <2>2, Zenon DEF OneSegment
<1> QED BY <1>1, <1>5, <1>6, OwnGrows, Zenon DEF AgreeInv

LEMMA StillAgrees ==
  ASSUME AgreeInv, UNCHANGED <<call, mem, wbuf, segment, applied>> PROVE AgreeInv'
<1>1. \A i \in Instances : \A r \in Rec : Written(i, r) => Written(i, r)'
  BY Zenon DEF Written
<1>2. OneSegment' <=> OneSegment
  BY Zenon DEF OneSegment
<1> QED BY <1>1, <1>2, OwnGrows, Zenon DEF AgreeInv

\* A record that is in one of the segments is alone to be stored.
LEMMA StoredTogether ==
  ASSUME OneSegment, NEW s \in Segments, NEW t \in Segments,
         NEW r \in Decoded(segment[s]), NEW q \in Decoded(segment[t])
  PROVE  s = t
<1>1. Decoded(<<>>) = {}
  BY SMT DEF Decoded
<1> QED BY <1>1, Zenon DEF OneSegment

\* A poll applies what is later than all the process has applied, to memory and
\* to the last writes alike.
LEMMA PollAgrees == ASSUME RInv, AgreeInv, NEW i \in Instances, NEW s \in Segments, PollSegment(i, s) PROVE AgreeInv'
<1> DEFINE A == Accepted(i, Fresh(i, s))
           P == applied[i]
<1>1. /\ applied' = [applied EXCEPT ![i] = @ \cup A]
      /\ mem' = [mem EXCEPT ![i] = ApplyAll(mem[i], InOrder(A))]
      /\ UNCHANGED <<call, wbuf, segment>>
  BY Zenon DEF PollSegment
<1>2. /\ clock \in Nat /\ applied \in [Instances -> SUBSET Rec] /\ mem \in [Instances -> Rows(clock)]
      /\ syncTime[i][s] \in Nat
  BY SMT DEF RInv, IInv, MemInv, Types
<1>3. \A r \in A : r \in Decoded(segment[s]) /\ r.ts > syncTime[i][s]
  BY Zenon DEF Accepted, Fresh
<1>4. \A r \in P \cup A : \E t \in Segments : r \in Decoded(segment[t])
  BY <1>3, AppliedIsStored, Zenon
<1> HIDE DEF A
<1>5. applied'[i] = P \cup A /\ \A j \in Instances \ {i} : applied'[j] = applied[j]
  BY <1>1, <1>2, Zenon
<1>6. mem'[i] = ApplyAll(mem[i], InOrder(A)) /\ \A j \in Instances \ {i} : mem'[j] = mem[j]
  BY <1>1, <1>2, Zenon
<1>7. \A j \in Instances : \A r \in Rec : Written(j, r) => Written(j, r)'
  BY <1>1, Zenon DEF Written
<1>8. OneSegment' <=> OneSegment
  BY <1>1, Zenon DEF OneSegment
<1>9. P \in SUBSET RecUpTo(clock) /\ A \in SUBSET RecUpTo(clock) /\ A \in SUBSET Rec
  <2> DEFINE U == P \cup A
  <2>1. \A r \in U : \E t \in Segments : r \in Decoded(segment[t])
    BY <1>4
  <2>2. P \subseteq U /\ A \subseteq U
    OBVIOUS
  <2> HIDE DEF U, P
  <2>3. U \subseteq RecUpTo(clock) /\ U \in SUBSET Rec
    BY <2>1, StoredSorts, Zenon
  <2> QED BY <2>2, <2>3
<1>10. ToldApart(P \cup A) /\ ToldApart(A)
  <2> DEFINE U == P \cup A
  <2>1. \A r \in U : \E t \in Segments : r \in Decoded(segment[t])
    BY <1>4
  <2>2. A \subseteq U
    OBVIOUS
  <2> HIDE DEF U
  <2>3. ToldApart(U)
    BY <2>1, StoredSorts, Zenon
  <2>4. ToldApart(A)
    BY <2>2, <2>3, ApartSubset, Zenon
  <2> QED BY <2>3, <2>4 DEF U
<1>11. InOrder(A) \in Seq(RecUpTo(clock))
  BY <1>3, StoredSorts, Zenon
<1>12. \A r \in A : \E k \in 1..Len(InOrder(A)) : InOrder(A)[k] = r
  BY <1>9, <1>10, InOrderSorts, Zenon
<1>13. ASSUME OneSegment PROVE \A q \in P, r \in A : q.ts < r.ts
  <2> SUFFICES ASSUME NEW q \in P, NEW r \in A PROVE q.ts < r.ts
    BY Zenon
  <2>1. PICK t \in Segments : q \in Decoded(segment[t]) /\ q.ts <= syncTime[i][t]
    BY Zenon DEF RInv, PlaceInv, AppliedAt
  <2>2. t = s
    BY <1>3, <1>13, <2>1, StoredTogether, Zenon
  <2>3. q.ts <= syncTime[i][s]
    BY <2>1, <2>2, Zenon
  <2>4. q.ts \in Nat /\ r.ts \in Nat
    <3>1. q \in Rec /\ r \in Rec
      BY <1>2, <1>9, Zenon
    <3> QED BY <3>1, SMT DEF Rec
  <2>5. r.ts > syncTime[i][s]
    BY <1>3
  <2> QED BY <1>2, <2>3, <2>4, <2>5, SMT
<1>14. AgreeAt(i)'
  <2> SUFFICES ASSUME OneSegment', NEW f \in Fields, \A r \in Own(i)' : ~Touches(r, f)
               PROVE  Agree(mem'[i], LastWrite(applied'[i]), f)
    <3>1. AgreeAt(i)' <=> (OneSegment' => \A f \in Fields : (\A r \in Own(i)' : ~Touches(r, f))
                             => Agree(mem'[i], LastWrite(applied'[i]), f))
      BY DEF AgreeAt, Agree, LastWrite, Touches, Untouched
    <3> QED BY <3>1, Zenon
  <2> DEFINE row == mem[i]
             last == LastWrite(P)
  <2>1. LastWrite(P \cup A) = ApplyAll(last, InOrder(A))
    <3> HIDE DEF P
    <3> QED BY <1>2, <1>8, <1>9, <1>10, <1>13, ReplayLast, Zenon
  <2>2. row \in Rows(clock) /\ last \in Rows(clock)
    <3>1. last \in Rows(clock)
      BY <1>2, <1>9, LastWriteTyped, Zenon
    <3> QED BY <1>2, <3>1, Zenon
  <2>3. Agree(row, last, f) \/ \E k \in 1..Len(InOrder(A)) : Touches(InOrder(A)[k], f)
    <3>1. CASE \E r \in A : Touches(r, f)
      BY <1>12, <3>1, Zenon
    <3>2. CASE \A r \in A : ~Touches(r, f)
      <4>1. Own(i) \subseteq Own(i)' \cup A
        BY <1>5, <1>7, Zenon DEF Own
      <4>2. \A r \in Own(i) : ~Touches(r, f)
        BY <3>2, <4>1, Zenon
      <4>3. Agree(mem[i], LastWrite(applied[i]), f)
        BY <1>8, <4>2, Zenon DEF AgreeInv, AgreeAt, Untouched
      <4> QED BY <4>3
    <3> QED BY <3>1, <3>2
  <2> HIDE DEF row, last
  <2>4. Agree(ApplyAll(row, InOrder(A)), ApplyAll(last, InOrder(A)), f)
    BY <1>2, <1>11, <2>2, <2>3, ReplayAgrees, Zenon
  <2> QED BY <1>5, <1>6, <2>1, <2>4, Zenon DEF row
<1>15. ASSUME NEW j \in Instances, j # i PROVE AgreeAt(j)'
  BY <1>5, <1>6, <1>7, <1>8, <1>15, OwnGrows, Zenon DEF AgreeInv
<1> QED BY <1>14, <1>15, Zenon DEF AgreeInv

LEMMA RestartAgrees == ASSUME RInv, AgreeInv, NEW i \in Instances, Restart(i) PROVE AgreeInv'
<1>1. /\ call' = [w \in Writers |-> IF Home[w] = i THEN Idle ELSE call[w]]
      /\ mem' = [mem EXCEPT ![i] = Replayed(i)]
      /\ wbuf' = [wbuf EXCEPT ![i] = <<>>]
      /\ applied' = [applied EXCEPT ![i] = Accepted(i, AllStored)]
      /\ UNCHANGED segment
  BY Zenon DEF Restart, AllStored
<1>2. /\ wbuf \in [Instances -> Seq(Rec)] /\ applied \in [Instances -> SUBSET Rec]
      /\ mem \in [Instances -> Rows(clock)]
  BY Zenon DEF RInv, IInv, MemInv, Types
<1>3. OneSegment' <=> OneSegment
  BY <1>1, Zenon DEF OneSegment
<1>4. ASSUME OneSegment PROVE \A q \in Stored(0), r \in Stored(1) : q.ts < r.ts
  <2> SUFFICES ASSUME NEW q \in Stored(0), NEW r \in Stored(1) PROVE FALSE
    BY Zenon
  <2>1. PICK e \in Files : q \in Decoded(segment[<<0, e>>])
    BY DEF Stored
  <2>2. PICK f \in Files : r \in Decoded(segment[<<1, f>>])
    BY DEF Stored
  <2>3. <<0, e>> \in Segments /\ <<1, f>> \in Segments /\ <<0, e>> # <<1, f>>
    BY DEF Segments, Versions
  <2> QED BY <1>4, <2>1, <2>2, <2>3, StoredTogether, Zenon
<1>5. AgreeAt(i)'
  <2>1. mem'[i] = Replayed(i) /\ applied'[i] = Accepted(i, AllStored)
    BY <1>1, <1>2, Zenon
  <2>2. ASSUME OneSegment PROVE mem'[i] = LastWrite(applied'[i])
    BY <1>4, <2>1, <2>2, ReplayedIs, Zenon
  <2>3. ASSUME OneSegment', NEW f \in Fields PROVE Agree(mem'[i], LastWrite(applied'[i]), f)
    BY <1>3, <2>2, <2>3, Zenon DEF Agree
  <2>4. AgreeAt(i)' <=> (OneSegment' => \A f \in Fields : Untouched(i, f)' => Agree(mem'[i], LastWrite(applied'[i]), f))
    BY DEF AgreeAt, Agree, LastWrite, Touches
  <2> QED BY <2>3, <2>4, Zenon
<1>6. ASSUME NEW j \in Instances, j # i PROVE AgreeAt(j)'
  <2>1. mem'[j] = mem[j] /\ applied'[j] = applied[j] /\ wbuf'[j] = wbuf[j]
    BY <1>1, <1>2, <1>6, Zenon
  <2>2. \A w \in Writers : Home[w] = j => call'[w] = call[w]
    BY <1>1, <1>6, Zenon
  <2>3. \A r \in Rec : Written(j, r) => Written(j, r)'
    BY <1>1, <2>1, <2>2, Zenon DEF Written
  <2> QED BY <1>3, <2>1, <2>3, OwnGrows, Zenon DEF AgreeInv
<1> QED BY <1>5, <1>6, Zenon DEF AgreeInv

LEMMA InitAgrees == Init => AgreeInv
<1> SUFFICES ASSUME Init, NEW i \in Instances, NEW f \in Fields PROVE Agree(mem[i], LastWrite(applied[i]), f)
  BY Zenon DEF AgreeInv, AgreeAt
<1>1. mem[i] = Empty /\ applied[i] = {}
  BY Zenon DEF Init
<1>2. LastWrite(applied[i]) = Empty
  BY <1>1, LastWriteEmpty, Zenon
<1> QED BY <1>1, <1>2, Zenon DEF Agree

LEMMA NextAgrees == RInv /\ AgreeInv /\ [Next]_vars => AgreeInv'
<1> SUFFICES ASSUME RInv, AgreeInv, [Next]_vars PROVE AgreeInv'
  OBVIOUS
<1>1. ASSUME NEW w \in Writers, WriterStep(w) PROVE AgreeInv'
  BY <1>1, StampAgrees, ApplyAgrees, AppendAgrees, Zenon DEF WriterStep
<1>2. ASSUME NEW i \in Instances, SwitchVersion(i) \/ PollFindsNext(i) PROVE AgreeInv'
  BY <1>2, StillAgrees, Zenon DEF SwitchVersion, PollFindsNext
<1>3. ASSUME NEW i \in Instances, Flush(i) \/ FlushUnclear(i) \/ PollStep(i) \/ SwitchVersion(i) \/ Restart(i) PROVE AgreeInv'
  BY <1>2, <1>3, FlushAgrees, PollAgrees, RestartAgrees, Zenon DEF PollStep
<1>4. ASSUME UNCHANGED vars PROVE AgreeInv'
  BY <1>4, StillAgrees, Zenon DEF vars
<1> QED BY <1>1, <1>3, <1>4, CorruptAgrees, Zenon DEF Next

\* Rows that agree on every field are one.
LEMMA AgreeingRows ==
  ASSUME NEW t, NEW a \in Rows(t), NEW b \in Rows(t), \A f \in Fields : Agree(a, b, f)
  PROVE  a = b
<1>1. PICK D \in SUBSET Fields : a \in [D -> 1..t]
  BY DEF Rows
<1>2. PICK E \in SUBSET Fields : b \in [E -> 1..t]
  BY DEF Rows
<1>3. D = DOMAIN a /\ E = DOMAIN b
  BY <1>1, <1>2, Zenon
<1>4. D = E
  BY <1>3, Zenon DEF Agree
<1>5. \A f \in D : a[f] = b[f]
  BY <1>3, Zenon DEF Agree
<1>6. b \in [D -> 1..t]
  BY <1>2, <1>4, Zenon
<1> QED BY <1>1, <1>5, <1>6

LEMMA AgreeConverges == ASSUME RInv, AgreeInv PROVE OneSegmentConverges
<1> SUFFICES ASSUME Quiescent, OneSegment, \A j \in Instances : Accepted(j, AllStored) \subseteq applied[j],
                    NEW i \in Instances
             PROVE  mem[i] = LastWrite(AllStored)
  BY Zenon DEF OneSegmentConverges
<1> DEFINE P == applied[i]
<1>1. ToSet(<<>>) = {}
  BY SMT DEF ToSet
<1>2. (\A w \in Writers : call[w].records = <<>>) /\ wbuf[i] = <<>>
  BY SMT DEF Quiescent, Idle
<1>3. ASSUME NEW s \in Segments, NEW r \in Decoded(segment[s]) PROVE r \in AllStored
  <2> PICK v \in Versions, f \in Files : s = <<v, f>>
    BY DEF Segments
  <2>1. r \in Stored(v)
    BY <1>3, Zenon DEF Stored
  <2>2. v = 0 \/ v = 1
    BY DEF Versions
  <2> QED BY <2>1, <2>2, Zenon DEF AllStored
<1>4. \A r \in AllStored : r \notin P => r.op = "foreign"
  BY Zenon DEF Accepted, Rejects
<1>5. \A r \in Own(i) : r \in AllStored /\ r \notin P
  BY <1>1, <1>2, <1>3, Zenon DEF Own, Written
<1>6. ASSUME NEW f \in Fields PROVE Agree(mem[i], LastWrite(P), f)
  <2>1. \A r \in Own(i) : ~Touches(r, f)
    <3>1. \A r \in Own(i) : r.op = "foreign"
      BY <1>4, <1>5, Zenon
    <3> QED BY <3>1 DEF Touches
  <2> QED BY <2>1, Zenon DEF AgreeInv, AgreeAt, Untouched
<1>7. \A r \in AllStored : \E s \in Segments : r \in Decoded(segment[s])
  BY StoredAt, Zenon DEF AllStored, Versions
<1>8. AllStored \in SUBSET Rec /\ AllStored \subseteq RecUpTo(clock) /\ ToldApart(AllStored)
  BY <1>7, StoredSorts, Zenon
<1>9. P \subseteq AllStored
  <2>1. ASSUME NEW r \in P PROVE r \in AllStored
    <3>1. PICK s \in Segments : r \in Decoded(segment[s])
      BY AppliedIsStored, Zenon
    <3> QED BY <1>3, <3>1, Zenon
  <2> QED BY <2>1
<1> HIDE DEF P
<1>10. P \in SUBSET Rec /\ P \in SUBSET RecUpTo(clock)
  BY <1>8, <1>9, Zenon
<1>11. LastWrite(P) = LastWrite(AllStored)
  BY <1>4, <1>8, <1>9, <1>10, UntouchedIgnored, Zenon
<1>12. clock \in Nat /\ mem[i] \in Rows(clock)
  BY SMT DEF RInv, IInv, MemInv, Types
<1>13. LastWrite(P) \in Rows(clock)
  BY <1>10, <1>12, LastWriteTyped, Zenon
<1>14. mem[i] = LastWrite(P)
  <2> DEFINE a == mem[i]
             b == LastWrite(P)
  <2>1. a \in Rows(clock) /\ b \in Rows(clock) /\ \A f \in Fields : Agree(a, b, f)
    BY <1>6, <1>12, <1>13
  <2> HIDE DEF a, b
  <2>2. a = b
    BY <2>1, AgreeingRows, Zenon
  <2> QED BY <2>2 DEF a, b
<1> QED BY <1>11, <1>14, Zenon

-----------------------------------------------------------------------------
(* The theorems *)

\* Every process holds a row of known fields with times that have passed, and
\* acknowledges no more than there is, of lines or of time.
THEOREM TypeInvariant == Spec => []TypeOK
<1>1. ASSUME RInv PROVE TypeOK
  <2>1. clock \in 0..MaxTS /\ DOMAIN call = Writers
    BY <1>1, Zenon DEF RInv, IInv, Types
  <2>2. ASSUME NEW i \in Instances
        PROVE  DOMAIN mem[i] \subseteq Fields /\ \A f \in DOMAIN mem[i] : mem[i][f] \in 1..clock
    <3>1. mem[i] \in Rows(clock)
      BY <1>1, Zenon DEF RInv, MemInv
    <3>2. PICK D \in SUBSET Fields : mem[i] \in [D -> 1..clock]
      BY <3>1 DEF Rows
    <3> QED BY <3>2, Zenon
  <2>3. ASSUME NEW i \in Instances PROVE nextVer[i] \in BOOLEAN
    BY <1>1, Zenon DEF RInv, MemInv
  <2>4. ASSUME NEW i \in Instances, NEW s \in Segments
        PROVE  syncSHA[i][s] \in 0..Len(segment[s]) /\ syncTime[i][s] \in 0..clock
    <3>1. syncSHA[i][s] \in Nat /\ syncSHA[i][s] <= Len(segment[s]) /\ Len(segment[s]) \in Nat
      BY <1>1, SMT DEF RInv, IInv, AckInv, Types
    <3>2. syncTime[i][s] \in Nat /\ clock \in Nat
      BY <1>1, SMT DEF RInv, IInv, Types
    <3>3. CASE syncTime[i][s] = 0
      BY <3>1, <3>2, <3>3, SMT
    <3>4. CASE syncTime[i][s] # 0
      <4>1. PICK q \in Decoded(segment[s]) : q.ts = syncTime[i][s]
        BY <1>1, <3>4, Zenon DEF RInv, IInv, MarkInv
      <4>2. q \in RecUpTo(clock)
        BY <1>1, <4>1, HeldAt, Zenon DEF RInv, PlaceInv, Past
      <4>3. q.ts <= clock
        BY <4>2, Zenon DEF RecUpTo
      <4> QED BY <3>1, <3>2, <4>1, <4>3, SMT
    <3> QED BY <3>3, <3>4
  <2> QED BY <2>1, <2>2, <2>3, <2>4, Zenon DEF TypeOK
<1> HIDE DEF vars
<1> QED BY InitRInv, NextRInv, <1>1, PTL DEF Spec

\* A poll applies no record that the process has replayed or polled before,
\* whatever restarts, switches, rollovers and other polls came between, but one
\* that a call stored although it reported an error: any other is stored in one
\* segment, whose watermark covers what is applied of it.
THEOREM PollsApplyOnce == Spec => PolledOnce
<1>1. ASSUME RInv, NEW i \in Instances, NEW s \in Segments
      PROVE  Accepted(i, Fresh(i, s)) \cap applied[i] \subseteq retried
  <2>1. Accepted(i, Fresh(i, s)) \subseteq Fresh(i, s)
    BY DEF Accepted
  <2> QED BY <1>1, <2>1, FreshIsNew, Zenon
<1>2. RInv /\ [Next]_vars
        => [\A i \in Instances, s \in Segments :
              syncSHA'[i][s] # syncSHA[i][s] /\ events' = events
                => Accepted(i, Fresh(i, s)) \cap applied[i] \subseteq retried]_vars
  BY <1>1, Zenon
<1> HIDE DEF vars
<1> QED BY InitRInv, NextRInv, <1>2, PTL DEF Spec, PolledOnce

\* A start gives every field its last write, whatever the segments, as long as
\* no record of version N+1 is older than one of N: the sort by time makes the
\* order of the segments, and of the processes that wrote them, irrelevant.
THEOREM StartFindsLastWrites == Spec => []ReplayIsLastWrite
<1> HIDE DEF vars
<1> QED BY InitRInv, NextRInv, RInvReplay, PTL DEF Spec

\* What is stored in one segment, and every process has applied in full, is in
\* every process the last write of every field: the writers of the segment may
\* race for memory and buffer, and a poll may repeat over newer values in
\* memory, as every write that memory is ahead with is one the poll still brings.
THEOREM OneSegmentIsEnough == Spec => []OneSegmentConverges
<1>1. Init => RInv /\ AgreeInv
  BY InitRInv, InitAgrees
<1>2. RInv /\ AgreeInv /\ [Next]_vars => (RInv /\ AgreeInv)'
  BY NextRInv, NextAgrees
<1>3. RInv /\ AgreeInv => OneSegmentConverges
  BY AgreeConverges
<1> HIDE DEF vars
<1> QED BY <1>1, <1>2, <1>3, PTL DEF Spec
=============================================================================
