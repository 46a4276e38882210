------------------------- MODULE DeltaContentsProofs -------------------------
(***************************************************************************)
(* Theorems about the records of DeltaFlush, for any sizes, caps and       *)
(* bounds: none is lost, they are stored in the order they were accepted,  *)
(* and only a write whose response is lost stores one twice; a Close       *)
(* without error has stored what came before it; nothing is stored in a    *)
(* version after its snapshot; and no segment outgrows the caps.           *)
(*                                                                         *)
(* The argument reads the segments, what the flush has in hand and the     *)
(* buffer as one sequence, All.  Every step does one of four things to it  *)
(* (Effect): it leaves it as it is, a write accepts one more record at its *)
(* end, a lost response doubles one stretch of it, or a crash cuts it off  *)
(* after what is stored.  The first three theorems follow from these four  *)
(* alone.  For Close, whatever was accepted before it is stored or in the  *)
(* hands of the last flush (CloseInv); for the snapshot, everything        *)
(* accepted is covered from the flush of the Checkpoint until writeVer     *)
(* moves on (CoverInv); for the caps, recordsThatFit cuts what a segment   *)
(* still takes, and Bytes is the sum of the sizes (BytesIsSum,             *)
(* BytesConcat).                                                           *)
(***************************************************************************)
EXTENDS DeltaFlushProofs

All == AllStored \o Buffered

\* The step moves records on their way, and neither adds nor takes one.
Moves == All' = All /\ UNCHANGED <<accepted, dropped, retried>>

\* AppendMutation takes a record.
Accepts ==
  \E size \in Sizes :
    /\ All' = Append(All, [rank |-> accepted + 1, size |-> size])
    /\ accepted + 1 \in 1 .. MaxAccepted
    /\ accepted' = accepted + 1
    /\ UNCHANGED <<dropped, retried>>

\* A batch b is stored and put back as well.
Repeats ==
  \E a, b, c \in Seq(Record) :
    /\ All = a \o (b \o c)
    /\ All' = (a \o b) \o (b \o c)
    /\ retried' = retried \cup Ranks(b)
    /\ UNCHANGED <<accepted, dropped>>

\* What is not stored goes with the process.
Dies ==
  /\ All' = AllStored
  /\ dropped' = dropped \cup (Ranks(Buffered) \ StoredRanks)
  /\ UNCHANGED <<accepted, retried>>

Effect == Moves \/ Accepts \/ Repeats \/ Dies

-----------------------------------------------------------------------------
(* What is stored and what is not *)

LEMMA Joined ==
  ASSUME NEW a \in Seq(Record), NEW b \in Seq(Record), NEW c \in Seq(Record)
  PROVE  (a \o b) \o c = a \o (b \o c)
BY ConcatAssociative

LEMMA ContentsTyped ==
  ASSUME JInv
  PROVE  /\ Stored(0) \in Seq(Record) /\ Stored(1) \in Seq(Record)
         /\ AllStored \in Seq(Record) /\ Buffered \in Seq(Record) /\ All \in Seq(Record)
<1>1. Stored(0) \in Seq(Record) /\ Stored(1) \in Seq(Record)
  <2>1. delta[0] \in Seq(Seq(Record)) /\ delta[1] \in Seq(Seq(Record))
    BY Read DEF Version
  <2> QED BY <2>1, FlattenIsSeq, Zenon DEF Stored
<1>2. pending["flusher"] \in Seq(Record) /\ pending["checkpoint"] \in Seq(Record)
      /\ wbuf \in Seq(Record)
  BY Read DEF Thread
<1>3. AllStored \in Seq(Record)
  BY <1>1, ConcatProperties, Zenon DEF AllStored
<1>4. Buffered \in Seq(Record)
  <2>1. pending["flusher"] \o pending["checkpoint"] \in Seq(Record)
    BY <1>2, ConcatProperties, Zenon
  <2> QED BY <1>2, <2>1, ConcatProperties, Zenon DEF Buffered
<1> QED BY <1>1, <1>3, <1>4, ConcatProperties, Zenon DEF All

\* When only one thread has records in hand, they come before the buffer.
LEMMA OneInHand ==
  ASSUME NEW p, NEW t \in Thread, NEW w \in Seq(Record), p[t] \in Seq(Record),
         \A u \in Thread \ {t} : p[u] = <<>>
  PROVE  p["flusher"] \o p["checkpoint"] \o w = p[t] \o w
<1>1. p[t] \o <<>> = p[t] /\ <<>> \o p[t] = p[t]
  BY ConcatEmptySeq, Zenon
<1>2. CASE t = "flusher"
  <2>1. p["checkpoint"] = <<>>
    BY <1>2 DEF Thread
  <2> QED BY <1>1, <1>2, <2>1, Zenon
<1>3. CASE t = "checkpoint"
  <2>1. p["flusher"] = <<>>
    BY <1>3 DEF Thread
  <2> QED BY <1>1, <1>3, <2>1, Zenon
<1> QED BY <1>2, <1>3 DEF Thread

LEMMA FlushBuffered ==
  ASSUME JInv, NEW t \in Thread, pc[t] # "idle"
  PROVE  Buffered = pending[t] \o wbuf
<1>1. \A u \in Thread \ {t} : pending[u] = <<>>
  BY OthersIdle, Zenon
<1>2. pending[t] \in Seq(Record) /\ wbuf \in Seq(Record)
  BY Read, Zenon
<1> DEFINE p == pending
<1> HIDE DEF p
<1>3. p["flusher"] \o p["checkpoint"] \o wbuf = p[t] \o wbuf
  BY <1>1, <1>2, OneInHand DEF p
<1> QED BY <1>3 DEF p, Buffered

\* What one thread gets in hand while the others have nothing.
LEMMA FlushBufferedNext ==
  ASSUME JInv, NEW t \in Thread, \A u \in Thread \ {t} : pending[u] = <<>>,
         NEW e \in Seq(Record), pending' = [pending EXCEPT ![t] = e], wbuf' \in Seq(Record)
  PROVE  Buffered' = e \o wbuf'
<1>1. DOMAIN pending = Thread
  BY Zenon DEF JInv, KInv, Data, Locals
<1>2. pending'[t] = e /\ \A u \in Thread \ {t} : pending'[u] = <<>>
  BY <1>1, SMT
<1> DEFINE p == pending'
           w == wbuf'
<1>3. p[t] \in Seq(Record) /\ w \in Seq(Record) /\ \A u \in Thread \ {t} : p[u] = <<>>
  BY <1>2
<1> HIDE DEF p, w
<1>4. p["flusher"] \o p["checkpoint"] \o w = p[t] \o w
  BY <1>3, OneInHand
<1> QED BY <1>2, <1>4 DEF p, w, Buffered

\* A write of a flush comes behind everything that is stored: version N gets
\* nothing once version N+1 holds something.
LEMMA StoreAppends ==
  ASSUME JInv, NEW t \in Thread, NEW n, Stores(t, n)
  PROVE  AllStored' = AllStored \o SubSeq(pending[t], 1, n)
<1> DEFINE b == SubSeq(pending[t], 1, n)
<1>1. pc[t] # "idle" /\ n \in 0 .. Len(pending[t]) /\ pending[t] \in Seq(Record)
      /\ ver[t] \in Version
  BY Read, Zenon DEF Stores
<1>2. b \in Seq(Record)
  BY <1>1, Split, Zenon
<1>3. StoresOnly(t) /\ FlattenSeq(delta'[ver[t]]) = FlattenSeq(delta[ver[t]]) \o b
  BY Zenon DEF Stores, Puts
<1> HIDE DEF b
<1>4. CASE ver[t] = 1
  <2>1. Stored(1)' = Stored(1) \o b
    BY <1>3, <1>4, Zenon DEF Stored
  <2>2. Stored(0)' = Stored(0)
    <3>1. delta'[0] = delta[0]
      BY <1>3, <1>4 DEF StoresOnly, Version
    <3> QED BY <3>1, Zenon DEF Stored
  <2>3. (Stored(0) \o Stored(1)) \o b = Stored(0) \o (Stored(1) \o b)
    <3> DEFINE x == Stored(0)
               y == Stored(1)
    <3>1. x \in Seq(Record) /\ y \in Seq(Record)
      BY ContentsTyped, Zenon
    <3> HIDE DEF x, y
    <3>2. (x \o y) \o b = x \o (y \o b)
      BY <1>2, <3>1, Joined
    <3> QED BY <3>2 DEF x, y
  <2> QED BY <2>1, <2>2, <2>3, Zenon DEF AllStored, b
<1>5. CASE ver[t] = 0
  <2>1. Stored(0)' = Stored(0) \o b
    BY <1>3, <1>5, Zenon DEF Stored
  <2>2. delta[1] = <<>>
    BY <1>1, <1>5, SMT DEF JInv, IInv, ForwardInv
  <2>3. delta'[1] = delta[1]
    BY <1>3, <1>5 DEF StoresOnly, Version
  <2>4. Stored(1) = <<>> /\ Stored(1)' = <<>>
    BY <2>2, <2>3, FlattenEmpty, Zenon DEF Stored
  <2>5. Stored(0) \o b \in Seq(Record)
    BY <1>2, ContentsTyped, ConcatProperties, Zenon
  <2>6. (Stored(0) \o b) \o <<>> = Stored(0) \o b /\ Stored(0) \o <<>> = Stored(0)
    BY <2>5, ContentsTyped, ConcatEmptySeq, Zenon
  <2> QED BY <2>1, <2>4, <2>6, Zenon DEF AllStored, b
<1> QED BY <1>1, <1>4, <1>5 DEF Version

-----------------------------------------------------------------------------
(* The effect of each step *)

\* The segments and the buffer are where they were.
LEMMA Still ==
  ASSUME UNCHANGED <<delta, pending, wbuf, accepted, dropped, retried>> PROVE Moves
BY Zenon DEF Moves, All, AllStored, Stored, Buffered

LEMMA WriteAccepts == ASSUME JInv, NEW size \in Sizes, Write(size) PROVE Accepts
<1> DEFINE r == [rank |-> accepted + 1, size |-> size]
           hand == pending["flusher"] \o pending["checkpoint"]
<1>1. /\ accepted < MaxAccepted /\ accepted' = accepted + 1 /\ wbuf' = Append(wbuf, r)
      /\ UNCHANGED <<delta, pending, dropped, retried>>
  BY Zenon DEF Write, github, locals
<1>2. accepted + 1 \in 1 .. MaxAccepted
  <2>1. accepted \in 0 .. MaxAccepted /\ MaxAccepted \in Nat
    BY FlushAssumption, Zenon DEF FlushAssumption, JInv, KInv, Data, History
  <2> QED BY <1>1, <2>1
<1>3. r \in Record
  BY <1>2 DEF Record
<1>4. hand \in Seq(Record) /\ wbuf \in Seq(Record)
  <2>1. pending["flusher"] \in Seq(Record) /\ pending["checkpoint"] \in Seq(Record)
    BY Read DEF Thread
  <2> QED BY <2>1, Read, ConcatProperties, Zenon
<1>5. AllStored' = AllStored
  BY <1>1, Zenon DEF AllStored, Stored
<1>6. Buffered' = hand \o Append(wbuf, r) /\ Buffered = hand \o wbuf
  BY <1>1, Zenon DEF Buffered
<1> HIDE DEF r, hand
<1>7. hand \o Append(wbuf, r) = Append(hand \o wbuf, r)
  BY <1>3, <1>4, SMT
<1>8. AllStored \o Append(Buffered, r) = Append(AllStored \o Buffered, r)
  BY <1>3, ContentsTyped, SMT
<1>9. All' = Append(All, r)
  BY <1>5, <1>6, <1>7, <1>8, Zenon DEF All
<1> QED BY <1>1, <1>2, <1>9, Zenon DEF Accepts, r

LEMMA DrainMoves == ASSUME JInv, NEW t \in Thread, Drain(t) \/ DrainEmpty(t) PROVE Moves
<1>1. CASE Drain(t)
  <2>1. /\ pending' = [pending EXCEPT ![t] = wbuf] /\ wbuf' = <<>>
        /\ pc[t] = "idle" /\ \A u \in Thread \ {t} : pc[u] = "idle"
        /\ UNCHANGED <<delta, accepted, dropped, retried>>
    BY <1>1, Zenon DEF Drain, FlushFree, ranks, github
  <2>2. \A u \in Thread : pending[u] = <<>>
    BY <2>1, Zenon DEF JInv, IInv, LockInv
  <2>3. wbuf \in Seq(Record) /\ <<>> \in Seq(Record) /\ pending[t] \in Seq(Record)
    BY Read
  <2>4. Buffered' = wbuf \o <<>>
    BY <2>1, <2>2, <2>3, FlushBufferedNext, Zenon
  <2>5. Buffered = <<>> \o wbuf
    <3> DEFINE p == pending
    <3>1. p[t] = <<>> /\ \A u \in Thread \ {t} : p[u] = <<>>
      BY <2>2
    <3> HIDE DEF p
    <3>2. p["flusher"] \o p["checkpoint"] \o wbuf = p[t] \o wbuf
      BY <2>3, <3>1, OneInHand
    <3> QED BY <3>1, <3>2 DEF p, Buffered
  <2>6. Buffered' = Buffered
    BY <2>3, <2>4, <2>5, ConcatEmptySeq, Zenon
  <2> QED BY <2>1, <2>6, Zenon DEF Moves, All, AllStored, Stored
<1>2. CASE DrainEmpty(t)
  BY <1>2, Still, Zenon DEF DrainEmpty, github, locals, ranks
<1> QED BY <1>1, <1>2

\* What is in hand is split into the batch and the rest.
LEMMA InHand ==
  ASSUME JInv, NEW t \in Thread, pc[t] # "idle", NEW n \in 0 .. Len(pending[t])
  PROVE  LET b == SubSeq(pending[t], 1, n)
             c == SubSeq(pending[t], n + 1, Len(pending[t])) \o wbuf
         IN  b \in Seq(Record) /\ c \in Seq(Record) /\ Buffered = b \o c
<1> DEFINE b == SubSeq(pending[t], 1, n)
           rest == SubSeq(pending[t], n + 1, Len(pending[t]))
<1>1. pending[t] \in Seq(Record) /\ wbuf \in Seq(Record)
  BY Read, Zenon
<1>2. b \in Seq(Record) /\ rest \in Seq(Record) /\ pending[t] = b \o rest
  BY <1>1, Split, Zenon
<1>3. Buffered = pending[t] \o wbuf
  BY FlushBuffered, Zenon
<1> HIDE DEF b, rest
<1>4. rest \o wbuf \in Seq(Record)
  BY <1>1, <1>2, ConcatProperties, Zenon
<1>5. (b \o rest) \o wbuf = b \o (rest \o wbuf)
  BY <1>1, <1>2, Joined, Zenon
<1> QED BY <1>2, <1>3, <1>4, <1>5 DEF b, rest

LEMMA PutMoves == ASSUME JInv, NEW t \in Thread, PutActive(t) \/ PutRollover(t) PROVE Moves
<1>1. PICK n : Stores(t, n) /\ Advance(t, n)
  BY PutStores, Zenon
<1>2. UNCHANGED <<wbuf, accepted, dropped, retried>>
  BY PutStores, Zenon DEF ranks
<1> DEFINE b == SubSeq(pending[t], 1, n)
           rest == SubSeq(pending[t], n + 1, Len(pending[t]))
<1>3. pc[t] # "idle" /\ n \in 0 .. Len(pending[t])
  BY <1>1, Zenon DEF Stores
<1>4. b \in Seq(Record) /\ rest \o wbuf \in Seq(Record) /\ Buffered = b \o (rest \o wbuf)
  BY <1>3, InHand, Zenon
<1>5. AllStored' = AllStored \o b
  BY <1>1, StoreAppends, Zenon
<1>6. rest \in Seq(Record) /\ wbuf' \in Seq(Record)
  BY <1>2, <1>3, Read, Split, Zenon
<1>7. pending' = [pending EXCEPT ![t] = rest]
  BY <1>1, Zenon DEF Advance, FlushReturns
<1>8. \A u \in Thread \ {t} : pending[u] = <<>>
  BY <1>3, OthersIdle, Zenon
<1> HIDE DEF b, rest
<1>9. Buffered' = rest \o wbuf
  BY <1>2, <1>6, <1>7, <1>8, FlushBufferedNext, Zenon
<1>10. (AllStored \o b) \o (rest \o wbuf) = AllStored \o (b \o (rest \o wbuf))
  <2>1. AllStored \in Seq(Record)
    BY ContentsTyped, Zenon
  <2> QED BY <1>4, <2>1, Joined, Zenon
<1> QED BY <1>2, <1>4, <1>5, <1>9, <1>10, Zenon DEF Moves, All

\* A flush that fails has what was in hand and the buffer behind it again.
LEMMA Restored ==
  ASSUME JInv, NEW t \in Thread, pc[t] # "idle", RestorePending(t), FlushReturns(t, FALSE)
  PROVE  Buffered' = Buffered
<1>1. pending' = [pending EXCEPT ![t] = <<>>] /\ wbuf' = pending[t] \o wbuf
  BY Zenon DEF RestorePending, FlushReturns
<1>2. pending[t] \o wbuf \in Seq(Record) /\ <<>> \in Seq(Record)
  <2>1. pending[t] \in Seq(Record) /\ wbuf \in Seq(Record)
    BY Read, Zenon
  <2> QED BY <2>1
<1>3. \A u \in Thread \ {t} : pending[u] = <<>>
  BY OthersIdle, Zenon
<1>4. Buffered' = <<>> \o (pending[t] \o wbuf)
  BY <1>1, <1>2, <1>3, FlushBufferedNext, Zenon
<1> QED BY <1>2, <1>4, ConcatEmptySeq, FlushBuffered, Zenon

LEMMA FailMoves == ASSUME JInv, NEW t \in Thread, CallFails(t) PROVE Moves
<1>1. /\ pc[t] # "idle" /\ RestorePending(t) /\ FlushReturns(t, FALSE)
      /\ UNCHANGED <<delta, accepted, dropped, retried>>
  BY Zenon DEF CallFails, github, ranks
<1>2. Buffered' = Buffered
  BY <1>1, Restored, Zenon
<1> QED BY <1>1, <1>2, Zenon DEF Moves, All, AllStored, Stored

LEMMA LostRepeats == ASSUME JInv, NEW t \in Thread, ResponseLost(t) PROVE Repeats
<1>1. PICK n : Stores(t, n) /\ retried' = retried \cup Ranks(SubSeq(pending[t], 1, n))
  BY LostStores, Zenon
<1>2. RestorePending(t) /\ FlushReturns(t, FALSE) /\ UNCHANGED <<accepted, dropped>>
  BY LostStores, Zenon DEF ranks
<1> DEFINE b == SubSeq(pending[t], 1, n)
           c == SubSeq(pending[t], n + 1, Len(pending[t])) \o wbuf
<1>3. pc[t] # "idle" /\ n \in 0 .. Len(pending[t])
  BY <1>1, Zenon DEF Stores
<1>4. b \in Seq(Record) /\ c \in Seq(Record) /\ Buffered = b \o c
  BY <1>3, InHand, Zenon
<1>5. AllStored' = AllStored \o b
  BY <1>1, StoreAppends, Zenon
<1>6. Buffered' = Buffered
  BY <1>2, <1>3, Restored, Zenon
<1>7. retried' = retried \cup Ranks(b)
  BY <1>1
<1> HIDE DEF b, c
<1>8. All = AllStored \o (b \o c) /\ All' = (AllStored \o b) \o (b \o c)
  BY <1>4, <1>5, <1>6, Zenon DEF All
<1> QED BY <1>2, <1>4, <1>7, <1>8, ContentsTyped, Zenon DEF Repeats

LEMMA CrashDies == ASSUME JInv, Crash PROVE Dies
<1>1. /\ wbuf' = <<>> /\ pending' = [u \in Thread |-> <<>>]
      /\ dropped' = dropped \cup (Ranks(Buffered) \ StoredRanks)
      /\ UNCHANGED <<delta, accepted, retried>>
  BY Zenon DEF Crash, github
<1>2. Buffered' = <<>> \o <<>> \o <<>>
  BY <1>1 DEF Buffered, Thread
<1>3. Buffered' = <<>>
  BY <1>2, SMT
<1>4. AllStored' = AllStored
  BY <1>1, Zenon DEF AllStored, Stored
<1>5. All' = AllStored
  BY <1>3, <1>4, ContentsTyped, ConcatEmptySeq, Zenon DEF All
<1> QED BY <1>1, <1>5, Zenon DEF Dies

LEMMA NextEffect == ASSUME JInv, [Next]_vars PROVE Effect
<1>1. ASSUME NEW size \in Sizes, Write(size) PROVE Effect
  BY <1>1, WriteAccepts, Zenon DEF Effect
<1>2. ASSUME NEW t \in Thread, Flush(t) PROVE Effect
  <2>1. CASE List(t) \/ Get(t)
    BY <2>1, Still, Zenon DEF List, Get, github, ranks, Effect
  <2> QED BY <1>2, <2>1, DrainMoves, PutMoves, FailMoves, LostRepeats, Zenon
          DEF Flush, FlushCall, Effect
<1>3. ASSUME CkptBegin \/ CkptAcquired \/ CkptTaken \/ CkptFails \/ Snapshot \/ CkptDone PROVE Effect
  BY <1>3, Still, Zenon DEF CkptBegin, CkptAcquired, CkptTaken, CkptFails, Snapshot, CkptDone,
                            github, locals, ranks, Effect
<1>4. ASSUME OtherWritesNext \/ PollFindsNext \/ Close PROVE Effect
  BY <1>4, Still, Zenon DEF OtherWritesNext, PollFindsNext, Close, github, locals, ranks, Effect
<1>5. ASSUME Crash PROVE Effect
  BY <1>5, CrashDies, Zenon DEF Effect
<1>6. ASSUME UNCHANGED vars PROVE Effect
  BY <1>6, Still, Zenon DEF vars, github, locals, ranks, Effect
<1> QED BY <1>1, <1>2, <1>3, <1>4, <1>5, <1>6, Zenon DEF Next

-----------------------------------------------------------------------------
(* What the effects leave true *)

HIDE DEF All

\* Every accepted mutation is somewhere, and no other record is.
Complete ==
  /\ Ranks(All) = (1 .. accepted) \ dropped
  /\ dropped \subseteq 1 .. accepted

\* No record comes before an older one has come.
Ordered ==
  \A k \in DOMAIN All : \A older \in (1 .. All[k].rank) \ dropped :
    \E j \in 1 .. k : All[j].rank = older

\* A record that comes twice is one of a lost response.
Distinct ==
  \A j, k \in DOMAIN All : j # k /\ All[j].rank = All[k].rank => All[j].rank \in retried

Contents == Complete /\ Ordered /\ Distinct

LEMMA RanksConcat ==
  ASSUME NEW s \in Seq(Record), NEW r \in Seq(Record)
  PROVE  Ranks(s \o r) = Ranks(s) \cup Ranks(r)
<1>1. /\ DOMAIN s = 1 .. Len(s) /\ DOMAIN r = 1 .. Len(r) /\ Len(s) \in Nat /\ Len(r) \in Nat
      /\ DOMAIN (s \o r) = 1 .. Len(s) + Len(r)
      /\ \A k \in 1 .. Len(s) + Len(r) :
           (s \o r)[k] = IF k <= Len(s) THEN s[k] ELSE r[k - Len(s)]
  OBVIOUS
<1> DEFINE q == s \o r
<1> HIDE DEF q
<1>2. /\ DOMAIN q = 1 .. Len(s) + Len(r)
      /\ \A k \in 1 .. Len(s) + Len(r) : q[k] = IF k <= Len(s) THEN s[k] ELSE r[k - Len(s)]
  BY <1>1, Zenon DEF q
<1>3. ASSUME NEW k \in DOMAIN q PROVE q[k].rank \in Ranks(s) \cup Ranks(r)
  <2>1. CASE k <= Len(s)
    <3>1. k \in DOMAIN s /\ q[k] = s[k]
      BY <1>1, <1>2, <2>1
    <3> QED BY <3>1, Zenon DEF Ranks
  <2>2. CASE ~ (k <= Len(s))
    <3>1. k - Len(s) \in DOMAIN r /\ q[k] = r[k - Len(s)]
      BY <1>1, <1>2, <2>2
    <3> QED BY <3>1, Zenon DEF Ranks
  <2> QED BY <2>1, <2>2
<1>4. ASSUME NEW k \in DOMAIN s PROVE s[k].rank \in Ranks(q)
  <2>1. k \in DOMAIN q /\ q[k] = s[k]
    BY <1>1, <1>2
  <2> QED BY <2>1, Zenon DEF Ranks
<1>5. ASSUME NEW k \in DOMAIN r PROVE r[k].rank \in Ranks(q)
  <2>1. k + Len(s) \in DOMAIN q /\ q[k + Len(s)] = r[k]
    BY <1>1, <1>2
  <2> QED BY <2>1, Zenon DEF Ranks
<1>6. Ranks(q) \subseteq Ranks(s) \cup Ranks(r)
  BY <1>3, Zenon DEF Ranks
<1>7. Ranks(s) \subseteq Ranks(q) /\ Ranks(r) \subseteq Ranks(q)
  BY <1>4, <1>5, Zenon DEF Ranks
<1> QED BY <1>6, <1>7 DEF q

LEMMA RanksAll == ASSUME JInv PROVE Ranks(All) = StoredRanks \cup Ranks(Buffered)
BY ContentsTyped, RanksConcat, Zenon DEF All, StoredRanks

\* A record that is accepted comes last, with a rank of its own.
LEMMA AcceptsContents == ASSUME JInv, Contents, Accepts PROVE Contents'
<1>1. PICK size \in Sizes :
        /\ All' = Append(All, [rank |-> accepted + 1, size |-> size])
        /\ accepted + 1 \in 1 .. MaxAccepted
        /\ accepted' = accepted + 1
        /\ UNCHANGED <<dropped, retried>>
  BY Zenon DEF Accepts
<1> DEFINE r == [rank |-> accepted + 1, size |-> size]
           n == Len(All)
<1>2. All \in Seq(Record)
  BY ContentsTyped, Zenon
<1>3. r \in Record /\ r.rank = accepted + 1
  BY <1>1 DEF Record
<1>4. accepted \in Nat /\ MaxAccepted \in Nat
  <2>1. accepted \in 0 .. MaxAccepted /\ MaxAccepted \in Nat
    BY FlushAssumption, Zenon DEF JInv, KInv, Data, History, FlushAssumption
  <2> QED BY <2>1
<1> HIDE DEF r
<1>5. /\ n \in Nat /\ DOMAIN All = 1 .. n /\ DOMAIN All' = 1 .. n + 1
      /\ \A k \in 1 .. n : All'[k] = All[k]
      /\ All'[n + 1] = r
  <2>1. All' = Append(All, r)
    BY <1>1 DEF r
  <2>2. /\ Append(All, r) \in Seq(Record) /\ Len(Append(All, r)) = n + 1
        /\ \A k \in 1 .. n : Append(All, r)[k] = All[k]
        /\ Append(All, r)[n + 1] = r
    BY <1>2, <1>3, AppendProperties
  <2>3. DOMAIN Append(All, r) = 1 .. n + 1
    BY <2>2
  <2> QED BY <1>2, <2>1, <2>2, <2>3
<1> DEFINE A == All
           B == All'
<1> HIDE DEF A, B
<1>6. /\ n \in Nat /\ DOMAIN A = 1 .. n /\ DOMAIN B = 1 .. n + 1
      /\ \A k \in 1 .. n : B[k] = A[k]
      /\ B[n + 1].rank = accepted + 1
  BY <1>3, <1>5 DEF A, B
<1>7. /\ Ranks(A) = (1 .. accepted) \ dropped /\ dropped \subseteq 1 .. accepted
  BY Zenon DEF Contents, Complete, A
<1> HIDE DEF n
<1>8. \A k \in 1 .. n : A[k].rank \in Ranks(A)
  BY <1>6, Zenon DEF Ranks
<1>9. Ranks(B) = Ranks(A) \cup {accepted + 1}
  <2>1. ASSUME NEW k \in DOMAIN B PROVE B[k].rank \in Ranks(A) \cup {accepted + 1}
    <3>1. k \in 1 .. n \/ k = n + 1
      BY <1>6
    <3> QED BY <1>6, <1>8, <3>1
  <2>2. \A x \in Ranks(A) : \E k \in 1 .. n : x = A[k].rank
    BY <1>6, Zenon DEF Ranks
  <2>3. \A k \in 1 .. n : k \in DOMAIN B
    BY <1>6
  <2>4. n + 1 \in DOMAIN B
    BY <1>6
  <2>5. Ranks(B) \subseteq Ranks(A) \cup {accepted + 1}
    BY <2>1, Zenon DEF Ranks
  <2>6. Ranks(A) \subseteq Ranks(B)
    <3> SUFFICES ASSUME NEW x \in Ranks(A) PROVE x \in Ranks(B)
      OBVIOUS
    <3>1. PICK k \in 1 .. n : x = A[k].rank
      BY <2>2
    <3>2. k \in DOMAIN B /\ x = B[k].rank
      BY <1>6, <2>3, <3>1
    <3> QED BY <3>2, Zenon DEF Ranks
  <2>7. accepted + 1 \in Ranks(B)
    BY <1>6, <2>4, Zenon DEF Ranks
  <2> QED BY <2>5, <2>6, <2>7
<1>10. Complete'
  <2>1. Ranks(B) = (1 .. accepted + 1) \ dropped /\ dropped \subseteq 1 .. accepted + 1
    BY <1>4, <1>7, <1>9
  <2> QED BY <1>1, <2>1 DEF Complete, B
<1>11. Ordered'
  <2>1. ASSUME NEW k \in 1 .. n + 1, NEW older \in (1 .. B[k].rank) \ dropped
        PROVE  \E j \in 1 .. k : B[j].rank = older
    <3>1. CASE k \in 1 .. n
      <4>1. k \in DOMAIN A /\ older \in (1 .. A[k].rank) \ dropped
        BY <1>6, <3>1
      <4>2. PICK j \in 1 .. k : A[j].rank = older
        BY <4>1, Zenon DEF Contents, Ordered, A
      <4>3. B[j].rank = older
        BY <1>6, <3>1, <4>2
      <4> QED BY <4>3
    <3>2. CASE k = n + 1 /\ older = accepted + 1
      BY <1>6, <3>2
    <3>3. CASE k = n + 1 /\ older # accepted + 1
      <4>1. older \in Ranks(A)
        BY <1>4, <1>6, <1>7, <3>3
      <4>2. PICK j \in 1 .. n : A[j].rank = older
        BY <1>6, <4>1, Zenon DEF Ranks
      <4>3. j \in 1 .. k /\ B[j].rank = older
        BY <1>6, <3>3, <4>2
      <4> QED BY <4>3
    <3> QED BY <1>6, <3>1, <3>2, <3>3
  <2>2. DOMAIN B = 1 .. n + 1 /\ dropped' = dropped
    BY <1>1, <1>6
  <2> QED BY <2>1, <2>2, Zenon DEF Ordered, B
<1>12. Distinct'
  <2>1. \A k \in 1 .. n : B[k].rank # B[n + 1].rank
    BY <1>4, <1>6, <1>7, <1>8
  <2>2. ASSUME NEW j \in 1 .. n + 1, NEW k \in 1 .. n + 1, j # k, B[j].rank = B[k].rank
        PROVE  B[j].rank \in retried
    <3>1. j \in 1 .. n /\ k \in 1 .. n
      BY <1>6, <2>1, <2>2
    <3>2. j \in DOMAIN A /\ k \in DOMAIN A /\ A[j].rank = A[k].rank /\ B[j] = A[j]
      BY <1>6, <2>2, <3>1
    <3>3. A[j].rank \in retried
      BY <2>2, <3>2, Zenon DEF Contents, Distinct, A
    <3> QED BY <3>2, <3>3
  <2>3. DOMAIN B = 1 .. n + 1 /\ retried' = retried
    BY <1>1, <1>6
  <2> QED BY <2>2, <2>3, Zenon DEF Distinct, B
<1> QED BY <1>10, <1>11, <1>12, Zenon DEF Contents

\* Where the records of a sequence are once a stretch of it is doubled.
Origin(k, la, lb) == IF k <= la + lb THEN k ELSE k - lb

IsDoubled(a, b, s, r) ==
  /\ DOMAIN s = 1 .. Len(s)
  /\ DOMAIN r = 1 .. Len(s) + Len(b)
  /\ \A k \in 1 .. Len(s) + Len(b) : r[k] = s[Origin(k, Len(a), Len(b))]
  /\ \A k \in Len(a) + 1 .. Len(a) + Len(b) : s[k].rank \in Ranks(b)

LEMMA Doubled ==
  ASSUME NEW a \in Seq(Record), NEW b \in Seq(Record), NEW c \in Seq(Record)
  PROVE  /\ Len(a \o (b \o c)) = Len(a) + Len(b) + Len(c)
         /\ IsDoubled(a, b, a \o (b \o c), (a \o b) \o (b \o c))
<1> DEFINE s == a \o (b \o c)
           r == (a \o b) \o (b \o c)
<1> DEFINE d == b \o c
           e == a \o b
<1>1. /\ d \in Seq(Record) /\ Len(d) = Len(b) + Len(c)
      /\ \A k \in 1 .. Len(b) + Len(c) : d[k] = IF k <= Len(b) THEN b[k] ELSE c[k - Len(b)]
  BY ConcatProperties
<1>2. /\ e \in Seq(Record) /\ Len(e) = Len(a) + Len(b)
      /\ \A k \in 1 .. Len(a) + Len(b) : e[k] = IF k <= Len(a) THEN a[k] ELSE b[k - Len(a)]
  BY ConcatProperties
<1>3. s = a \o d /\ r = e \o d
  OBVIOUS
<1> HIDE DEF d, e, s, r
<1>4. /\ s \in Seq(Record) /\ Len(s) = Len(a) + Len(d)
      /\ \A k \in 1 .. Len(a) + Len(d) : s[k] = IF k <= Len(a) THEN a[k] ELSE d[k - Len(a)]
  <2>1. d \in Seq(Record)
    BY <1>1
  <2>2. /\ a \o d \in Seq(Record) /\ Len(a \o d) = Len(a) + Len(d)
        /\ \A k \in 1 .. Len(a) + Len(d) : (a \o d)[k] = IF k <= Len(a) THEN a[k] ELSE d[k - Len(a)]
    BY <2>1, ConcatProperties
  <2> QED BY <1>3, <2>2
<1>5. /\ r \in Seq(Record) /\ Len(r) = Len(e) + Len(d)
      /\ \A k \in 1 .. Len(e) + Len(d) : r[k] = IF k <= Len(e) THEN e[k] ELSE d[k - Len(e)]
  <2>1. d \in Seq(Record) /\ e \in Seq(Record)
    BY <1>1, <1>2
  <2>2. /\ e \o d \in Seq(Record) /\ Len(e \o d) = Len(e) + Len(d)
        /\ \A k \in 1 .. Len(e) + Len(d) : (e \o d)[k] = IF k <= Len(e) THEN e[k] ELSE d[k - Len(e)]
    BY <2>1, ConcatProperties
  <2> QED BY <1>3, <2>2
<1>6. Len(a) \in Nat /\ Len(b) \in Nat /\ Len(c) \in Nat
  OBVIOUS
<1>7. Len(s) = Len(a) + Len(b) + Len(c) /\ DOMAIN s = 1 .. Len(s) /\ DOMAIN r = 1 .. Len(s) + Len(b)
  BY <1>1, <1>2, <1>4, <1>5, <1>6
<1>8. ASSUME NEW k \in 1 .. Len(s) + Len(b) PROVE r[k] = s[Origin(k, Len(a), Len(b))]
  <2>1. CASE k <= Len(a)
    <3>1. r[k] = a[k] /\ s[k] = a[k]
      BY <1>1, <1>2, <1>4, <1>5, <1>6, <1>7, <2>1
    <3> QED BY <1>6, <2>1, <3>1 DEF Origin
  <2>2. CASE Len(a) < k /\ k <= Len(a) + Len(b)
    <3>1. r[k] = b[k - Len(a)]
      BY <1>1, <1>2, <1>5, <1>6, <1>7, <2>2
    <3>2. s[k] = b[k - Len(a)]
      <4>1. s[k] = d[k - Len(a)]
        BY <1>1, <1>4, <1>6, <2>2
      <4>2. d[k - Len(a)] = b[k - Len(a)]
        BY <1>1, <1>6, <2>2, SMTT(30)
      <4> QED BY <4>1, <4>2
    <3> QED BY <1>6, <2>2, <3>1, <3>2 DEF Origin
  <2>3. CASE Len(a) + Len(b) < k
    <3>1. r[k] = d[k - (Len(a) + Len(b))]
      BY <1>1, <1>2, <1>5, <1>6, <1>7, <2>3
    <3>2. /\ k - Len(b) \in 1 .. Len(a) + Len(d) /\ ~ (k - Len(b) <= Len(a))
          /\ (k - Len(b)) - Len(a) = k - (Len(a) + Len(b))
          /\ Origin(k, Len(a), Len(b)) = k - Len(b)
      BY <1>1, <1>6, <1>7, <2>3 DEF Origin
    <3>3. s[k - Len(b)] = d[(k - Len(b)) - Len(a)]
      BY <1>4, <3>2, Zenon
    <3> QED BY <3>1, <3>2, <3>3, Zenon
  <2>4. k \in Int
    BY <1>6, <1>7
  <2>5. k <= Len(a) \/ (Len(a) < k /\ k <= Len(a) + Len(b)) \/ Len(a) + Len(b) < k
    BY <1>6, <2>4
  <2> QED BY <2>1, <2>2, <2>3, <2>5, Zenon
<1>9. ASSUME NEW k \in Len(a) + 1 .. Len(a) + Len(b) PROVE s[k].rank \in Ranks(b)
  <2>1. /\ k \in 1 .. Len(a) + Len(d) /\ ~ (k <= Len(a))
        /\ k - Len(a) \in 1 .. Len(b) /\ k - Len(a) <= Len(b)
    BY <1>1, <1>6
  <2>2. s[k] = d[k - Len(a)]
    BY <1>4, <2>1, Zenon
  <2>3. d[k - Len(a)] = b[k - Len(a)] /\ k - Len(a) \in DOMAIN b
    BY <1>1, <1>6, <2>1, SMTT(30)
  <2>4. s[k] = b[k - Len(a)]
    BY <2>2, <2>3, Zenon
  <2> QED BY <2>3, <2>4, Zenon DEF Ranks
<1> QED BY <1>7, <1>8, <1>9, Zenon DEF IsDoubled, s, r

\* The records of a batch that is stored and put back come at a distance: the
\* second time none of them comes before its elders.
LEMMA RepeatsContents == ASSUME JInv, Contents, Repeats PROVE Contents'
<1>1. PICK a \in Seq(Record), b \in Seq(Record), c \in Seq(Record) :
        /\ All = a \o (b \o c)
        /\ All' = (a \o b) \o (b \o c)
        /\ retried' = retried \cup Ranks(b)
        /\ UNCHANGED <<accepted, dropped>>
  BY Zenon DEF Repeats
<1> DEFINE A == All
           B == All'
           la == Len(a)
           lb == Len(b)
           n == Len(A)
           P(k) == Origin(k, la, lb)
<1>2. la \in Nat /\ lb \in Nat /\ Len(c) \in Nat
  OBVIOUS
<1>3. A = a \o (b \o c) /\ B = (a \o b) \o (b \o c)
  BY <1>1
<1> HIDE DEF A, B
<1>4. /\ n = la + lb + Len(c) /\ DOMAIN A = 1 .. n /\ DOMAIN B = 1 .. n + lb
      /\ \A k \in 1 .. n + lb : B[k] = A[P(k)]
      /\ \A k \in la + 1 .. la + lb : A[k].rank \in Ranks(b)
  <2>1. Len(A) = Len(a) + Len(b) + Len(c) /\ IsDoubled(a, b, A, B)
    <3>1. /\ Len(a \o (b \o c)) = Len(a) + Len(b) + Len(c)
          /\ IsDoubled(a, b, a \o (b \o c), (a \o b) \o (b \o c))
      BY Doubled, Zenon
    <3> QED BY <1>3, <3>1, Zenon
  <2> QED BY <2>1, Zenon DEF IsDoubled
<1> HIDE DEF la, lb, n
<1>5. n \in Nat /\ n >= la + lb
  BY <1>2, <1>4
<1>6. ASSUME NEW k \in 1 .. n + lb
      PROVE  /\ P(k) \in 1 .. n /\ P(k) <= k
             /\ k <= la + lb => P(k) = k
             /\ k > la + lb => P(k) = k - lb
  BY <1>2, <1>5 DEF Origin
<1>7. \A k \in 1 .. n : \E j \in 1 .. n + lb : P(j) = k /\ B[j] = A[k]
  <2> SUFFICES ASSUME NEW k \in 1 .. n PROVE \E j \in 1 .. n + lb : P(j) = k /\ B[j] = A[k]
    OBVIOUS
  <2>1. CASE k <= la + lb
    <3>1. k \in 1 .. n + lb /\ P(k) = k
      BY <1>2, <1>5, <1>6, <2>1
    <3> QED BY <1>4, <3>1
  <2>2. CASE k > la + lb
    <3>1. k + lb \in 1 .. n + lb /\ P(k + lb) = k
      BY <1>2, <1>5, <1>6, <2>2
    <3> QED BY <1>4, <3>1
  <2> QED BY <1>2, <1>5, <2>1, <2>2
<1> HIDE DEF P
<1>8. Ranks(B) = Ranks(A)
  <2>1. ASSUME NEW x \in Ranks(B) PROVE x \in Ranks(A)
    <3>1. PICK k \in 1 .. n + lb : x = B[k].rank
      BY <1>4, Zenon DEF Ranks
    <3>2. P(k) \in DOMAIN A /\ x = A[P(k)].rank
      BY <1>4, <1>6, <3>1
    <3> QED BY <3>2, Zenon DEF Ranks
  <2>2. ASSUME NEW x \in Ranks(A) PROVE x \in Ranks(B)
    <3>1. PICK k \in 1 .. n : x = A[k].rank
      BY <1>4, Zenon DEF Ranks
    <3>2. \E j \in DOMAIN B : x = B[j].rank
      BY <1>4, <1>7, <3>1
    <3> QED BY <3>2, Zenon DEF Ranks
  <2> QED BY <2>1, <2>2
<1>9. Complete'
  BY <1>1, <1>8, Zenon DEF Contents, Complete, A, B
<1>10. Ordered'
  <2>1. ASSUME NEW k \in 1 .. n + lb, NEW older \in (1 .. B[k].rank) \ dropped
        PROVE  \E j \in 1 .. k : B[j].rank = older
    <3>1. P(k) \in DOMAIN A /\ B[k] = A[P(k)]
      BY <1>4, <1>6
    <3>2. PICK j \in 1 .. P(k) : A[j].rank = older
      BY <3>1, Zenon DEF Contents, Ordered, A
    <3>3. CASE j <= la + lb
      <4>1. j \in 1 .. n + lb /\ j \in 1 .. k
        BY <1>2, <1>4, <1>5, <1>6, <3>1, <3>2, <3>3
      <4>2. B[j] = A[j]
        BY <1>4, <1>6, <3>3, <4>1
      <4> QED BY <3>2, <4>1, <4>2
    <3>4. CASE j > la + lb
      <4>1. k > la + lb
        BY <1>2, <1>5, <1>6, <3>2, <3>4
      <4>2. P(k) = k - lb
        BY <1>6, <4>1
      <4>3. j + lb \in 1 .. n + lb /\ j + lb \in 1 .. k /\ j + lb > la + lb
        BY <1>2, <1>5, <1>6, <3>2, <3>4, <4>2
      <4>4. P(j + lb) = j
        BY <1>2, <1>6, <3>2, <4>3
      <4>5. B[j + lb] = A[j]
        BY <1>4, <4>3, <4>4
      <4> QED BY <3>2, <4>3, <4>5
    <3> QED BY <1>2, <1>6, <3>2, <3>3, <3>4
  <2> QED BY <1>1, <1>4, <2>1, Zenon DEF Ordered, B
<1>11. Distinct'
  <2>1. ASSUME NEW j \in 1 .. n + lb, NEW k \in 1 .. n + lb, P(j) = P(k), j < k
        PROVE  B[j].rank \in Ranks(b)
    <3>1. k > la + lb /\ P(k) = k - lb
      BY <1>2, <1>6, <2>1
    <3>2. j <= la + lb /\ P(j) = j
      BY <1>2, <1>6, <2>1, <3>1
    <3>3. j \in la + 1 .. la + lb
      BY <1>2, <2>1, <3>1, <3>2
    <3> QED BY <1>4, <3>2, <3>3
  <2>2. ASSUME NEW j \in 1 .. n + lb, NEW k \in 1 .. n + lb, j # k, B[j].rank = B[k].rank
        PROVE  B[j].rank \in retried \cup Ranks(b)
    <3>1. /\ P(j) \in DOMAIN A /\ P(k) \in DOMAIN A
          /\ B[j] = A[P(j)] /\ B[k] = A[P(k)]
      BY <1>4, <1>6
    <3>2. CASE P(j) # P(k)
      BY <2>2, <3>1, <3>2, Zenon DEF Contents, Distinct, A
    <3>3. CASE P(j) = P(k)
      <4>1. j < k \/ k < j
        BY <1>2, <1>5, <2>2
      <4> QED BY <2>1, <2>2, <3>3, <4>1
    <3> QED BY <3>2, <3>3
  <2> QED BY <1>1, <1>4, <2>2, Zenon DEF Distinct, B
<1> QED BY <1>9, <1>10, <1>11, Zenon DEF Contents

\* After a crash what is stored is the beginning of what there was.
LEMMA DiesContents == ASSUME JInv, Contents, Dies PROVE Contents'
<1>1. /\ All' = AllStored
      /\ dropped' = dropped \cup (Ranks(Buffered) \ StoredRanks)
      /\ UNCHANGED <<accepted, retried>>
  BY Zenon DEF Dies
<1> DEFINE A == All
           B == AllStored
<1>2. B \in Seq(Record) /\ Buffered \in Seq(Record)
  BY ContentsTyped, Zenon
<1>3. /\ DOMAIN B \subseteq DOMAIN A /\ \A k \in DOMAIN B : A[k] = B[k] /\ 1 .. k \subseteq DOMAIN B
      /\ DOMAIN B \subseteq Int
  <2>1. A = B \o Buffered
    BY Zenon DEF All
  <2> HIDE DEF A, B
  <2>2. /\ Len(B) \in Nat /\ Len(Buffered) \in Nat
        /\ DOMAIN B = 1 .. Len(B) /\ DOMAIN A = 1 .. Len(B) + Len(Buffered)
        /\ \A k \in 1 .. Len(B) : A[k] = B[k]
    BY <1>2, <2>1
  <2> QED BY <2>2
<1>4. Ranks(A) = Ranks(B) \cup Ranks(Buffered) /\ StoredRanks = Ranks(B)
  BY RanksAll, Zenon DEF StoredRanks
<1> HIDE DEF A, B
<1>5. Complete'
  <2>1. Ranks(A) = (1 .. accepted) \ dropped /\ dropped \subseteq 1 .. accepted
    BY Zenon DEF Contents, Complete, A
  <2>2. Ranks(B) = (1 .. accepted) \ dropped' /\ dropped' \subseteq 1 .. accepted
    BY <1>1, <1>4, <2>1
  <2> QED BY <1>1, <2>2, Zenon DEF Complete, B
<1>6. Ordered'
  <2>1. ASSUME NEW k \in DOMAIN B, NEW older \in (1 .. B[k].rank) \ dropped'
        PROVE  \E j \in 1 .. k : B[j].rank = older
    <3>1. k \in DOMAIN A /\ A[k] = B[k] /\ older \in (1 .. A[k].rank) \ dropped
      BY <1>1, <1>3, <2>1
    <3>2. PICK j \in 1 .. k : A[j].rank = older
      BY <3>1, Zenon DEF Contents, Ordered, A
    <3>3. j \in DOMAIN B
      BY <1>3, <3>2
    <3> QED BY <1>3, <3>2, <3>3
  <2>2. \A k \in DOMAIN B : \A older \in (1 .. B[k].rank) \ dropped' :
          \E j \in 1 .. k : B[j].rank = older
    BY <2>1, Zenon
  <2>3. All' = B
    BY <1>1, Zenon DEF B
  <2> QED BY <2>2, <2>3, SMT DEF Ordered
<1>7. Distinct'
  <2>1. ASSUME NEW j \in DOMAIN B, NEW k \in DOMAIN B, j # k, B[j].rank = B[k].rank
        PROVE  B[j].rank \in retried
    BY <1>3, <2>1, SMT DEF Contents, Distinct, A
  <2> QED BY <1>1, <2>1, Zenon DEF Distinct, B
<1> QED BY <1>5, <1>6, <1>7, Zenon DEF Contents

LEMMA InitContents == Init => Contents
<1> SUFFICES ASSUME Init PROVE Contents
  OBVIOUS
<1>1. /\ delta[0] = <<>> /\ delta[1] = <<>> /\ pending["flusher"] = <<>> /\ pending["checkpoint"] = <<>>
      /\ wbuf = <<>> /\ accepted = 0 /\ dropped = {}
  BY DEF Init, Thread, Version
<1>2. All = <<>> \o <<>> \o (<<>> \o <<>> \o <<>>)
  BY <1>1, FlattenEmpty, Zenon DEF All, AllStored, Stored, Buffered
<1>3. All = <<>>
  BY <1>2
<1>4. DOMAIN All = {}
  BY <1>3
<1>5. Ranks(All) = {}
  BY <1>4, Zenon DEF Ranks
<1>6. Complete
  BY <1>1, <1>5 DEF Complete
<1> QED BY <1>4, <1>6, Zenon DEF Contents, Ordered, Distinct

LEMMA NextContents == JInv /\ Contents /\ [Next]_vars => Contents'
<1> SUFFICES ASSUME JInv, Contents, [Next]_vars PROVE Contents'
  OBVIOUS
<1>1. Effect
  BY NextEffect, Zenon
<1>2. ASSUME Moves PROVE Contents'
  <2>1. All' = All /\ accepted' = accepted /\ dropped' = dropped /\ retried' = retried
    BY <1>2, Zenon DEF Moves
  <2>2. Complete' /\ Distinct'
    BY <2>1, Zenon DEF Contents, Complete, Distinct
  <2>3. Ordered'
    BY <2>1, SMT DEF Contents, Ordered
  <2> QED BY <2>2, <2>3, Zenon DEF Contents
<1> QED BY <1>1, <1>2, AcceptsContents, RepeatsContents, DiesContents, Zenon DEF Effect

LEMMA ContentsInvariant == Spec => [](JInv /\ Contents)
<1> HIDE DEF JInv, Contents, vars
<1> QED BY DataInvariant, InitContents, NextContents, PTL DEF Spec

-----------------------------------------------------------------------------
(* The theorems about the records *)

\* Whatever calls fail and whichever threads flush, every accepted mutation is
\* stored, in the hands of a flush or in the buffer, unless a crash took it.
THEOREM NoRecordLost == Spec => []NothingLost
<1>1. Contents => NothingLost
  BY Zenon DEF Contents, Complete, NothingLost, All
<1> HIDE DEF JInv, Contents
<1> QED BY <1>1, ContentsInvariant, PTL

\* Retries, rollovers and restarts keep the order in which the mutations were
\* accepted: none is stored, or about to be, before an older one is.
THEOREM RecordsInOrder == Spec => []InOrder
<1>1. JInv /\ Contents => InOrder
  <2> SUFFICES ASSUME JInv, Contents, NEW k \in DOMAIN All, NEW older \in (1 .. All[k].rank) \ dropped
               PROVE  older \in Ranks(SubSeq(All, 1, k))
    BY Zenon DEF InOrder, All
  <2>1. PICK j \in 1 .. k : All[j].rank = older
    BY Zenon DEF Contents, Ordered
  <2>2. All \in Seq(Record)
    BY ContentsTyped, Zenon
  <2>3. j \in DOMAIN SubSeq(All, 1, k) /\ SubSeq(All, 1, k)[j] = All[j]
    BY <2>2
  <2> QED BY <2>1, <2>3, Zenon DEF Ranks
<1> HIDE DEF JInv, Contents
<1> QED BY <1>1, ContentsInvariant, PTL

\* Only a write that took effect and reported an error stores a mutation twice.
THEOREM StoredOnce == Spec => []TwiceOnlyIfRetried
<1>1. JInv /\ Contents => TwiceOnlyIfRetried
  <2> SUFFICES ASSUME JInv, Contents, NEW j \in DOMAIN AllStored, NEW k \in DOMAIN AllStored,
                      j # k, AllStored[j].rank = AllStored[k].rank
               PROVE  AllStored[j].rank \in retried
    BY Zenon DEF TwiceOnlyIfRetried
  <2> DEFINE B == AllStored
  <2>1. All = B \o Buffered /\ B \in Seq(Record) /\ Buffered \in Seq(Record)
    BY ContentsTyped, Zenon DEF All
  <2>2. j \in DOMAIN B /\ k \in DOMAIN B
    OBVIOUS
  <2>3. j \in DOMAIN All /\ k \in DOMAIN All /\ All[j] = B[j] /\ All[k] = B[k]
    <3> HIDE DEF B
    <3> QED BY <2>1, <2>2
  <2> QED BY <2>3, Zenon DEF Contents, Distinct
<1> HIDE DEF JInv, Contents
<1> QED BY <1>1, ContentsInvariant, PTL

-----------------------------------------------------------------------------
(* Close *)

\* During the final flush the buffer holds only what came after Close.
CloseInv ==
  /\ worker = "final" => pc["flusher"] # "idle" /\ \A r \in Ranks(wbuf) : r > beforeClose
  /\ beforeClose <= accepted
  /\ ClosedDurable

JC == JInv /\ Contents

\* A step of the flush adds to what is stored, the other steps keep it.
LEMMA StoredGrows ==
  ASSUME JInv, NEW t \in Thread, NEW n, Stores(t, n)
  PROVE  StoredRanks' = StoredRanks \cup Ranks(SubSeq(pending[t], 1, n))
<1> DEFINE b == SubSeq(pending[t], 1, n)
<1>1. n \in 0 .. Len(pending[t]) /\ pending[t] \in Seq(Record)
  BY Read, Zenon DEF Stores
<1>2. b \in Seq(Record)
  BY <1>1, Split, Zenon
<1>3. AllStored' = AllStored \o b
  BY StoreAppends, Zenon
<1>4. Ranks(AllStored \o b) = Ranks(AllStored) \cup Ranks(b)
  BY <1>2, ContentsTyped, RanksConcat, Zenon
<1> QED BY <1>3, <1>4, Zenon DEF StoredRanks

LEMMA StoredSame == ASSUME UNCHANGED delta PROVE StoredRanks' = StoredRanks
BY Zenon DEF StoredRanks, AllStored, Stored

\* With only late records in the buffer and none in hand, the rest is stored.
LEMMA RestStored ==
  ASSUME JC, NEW stored, beforeClose <= accepted,
         StoredRanks \cup Ranks(Buffered) = stored \cup Ranks(wbuf),
         \A r \in Ranks(wbuf) : r > beforeClose
  PROVE  (1 .. beforeClose) \ dropped \subseteq stored
<1>1. stored \cup Ranks(wbuf) = (1 .. accepted) \ dropped
  BY RanksAll, Zenon DEF JC, Contents, Complete
<1>2. accepted \in Int /\ beforeClose \in Int
  <2>1. accepted \in 0 .. MaxAccepted /\ beforeClose \in 0 .. MaxAccepted /\ MaxAccepted \in Nat
    BY FlushAssumption, Zenon DEF FlushAssumption, JC, JInv, KInv, Data, History
  <2> QED BY <2>1
<1> QED BY <1>1, <1>2

\* The flusher is in its final flush, or the step is none of that flush.
LEMMA NotFinal ==
  ASSUME JInv, CloseInv, NEW t \in Thread, pc[t] # "idle", t # "flusher" PROVE worker # "final"
<1>1. "flusher" \in Thread
  BY DEF Thread
<1> QED BY <1>1, OthersIdle, Zenon DEF CloseInv

\* A flush that fails ends a final flush with an error.
LEMMA FailureCloses ==
  ASSUME JInv, CloseInv, NEW t \in Thread, pc[t] # "idle", FlushReturns(t, FALSE),
         UNCHANGED <<accepted, dropped, beforeClose>>, StoredRanks \subseteq StoredRanks'
  PROVE  CloseInv'
<1>1. CASE t = "flusher"
  <2>1. worker' \in {worker, "error"} /\ worker' # "final"
    BY <1>1, SMT DEF FlushReturns
  <2>2. worker' = "clean" => worker = "clean"
    BY <2>1
  <2> QED BY <2>1, <2>2, SMT DEF CloseInv, ClosedDurable
<1>2. CASE t # "flusher"
  <2>1. worker' = worker
    BY <1>2, SMT DEF FlushReturns
  <2>2. worker # "final"
    BY <1>2, NotFinal, Zenon
  <2> QED BY <2>1, <2>2, SMT DEF CloseInv, ClosedDurable
<1> QED BY <1>1, <1>2

\* The last write of a final flush stores the last of what came before Close.
LEMMA PutCloses ==
  ASSUME JC, CloseInv, NEW t \in Thread, PutActive(t) \/ PutRollover(t) PROVE CloseInv'
<1> USE DEF JC
<1>1. PICK n : Stores(t, n) /\ Advance(t, n)
  BY PutStores, Zenon
<1>2. UNCHANGED <<wbuf, accepted, dropped, beforeClose>>
  BY PutStores, Zenon DEF ranks
<1> DEFINE b == SubSeq(pending[t], 1, n)
           rest == SubSeq(pending[t], n + 1, Len(pending[t]))
<1>3. pc[t] # "idle" /\ n \in 0 .. Len(pending[t])
  BY <1>1, Zenon DEF Stores
<1>4. StoredRanks' = StoredRanks \cup Ranks(b)
  BY <1>1, StoredGrows, Zenon
<1>5. b \in Seq(Record) /\ rest \o wbuf \in Seq(Record) /\ Buffered = b \o (rest \o wbuf)
  BY <1>3, InHand, Zenon
<1>6. CASE rest = <<>> /\ FlushReturns(t, TRUE)
  <2>1. CASE t = "flusher" /\ worker = "final"
    <3>1. worker' = "clean"
      BY <1>6, <2>1, SMT DEF FlushReturns
    <3>2. Buffered = b \o wbuf
      <4>1. <<>> \o wbuf = wbuf
        BY Read, ConcatEmptySeq, Zenon
      <4> HIDE DEF b, rest
      <4> QED BY <1>5, <1>6, <4>1, Zenon
    <3>3. Ranks(Buffered) = Ranks(b) \cup Ranks(wbuf)
      BY <1>5, <3>2, Read, RanksConcat, Zenon
    <3> HIDE DEF b
    <3>4. StoredRanks \cup Ranks(Buffered) = (StoredRanks \cup Ranks(b)) \cup Ranks(wbuf)
      BY <3>3, Zenon
    <3>5. beforeClose <= accepted /\ \A r \in Ranks(wbuf) : r > beforeClose
      BY <2>1, Zenon DEF CloseInv
    <3>6. (1 .. beforeClose) \ dropped \subseteq StoredRanks'
      BY <1>4, <3>4, <3>5, RestStored, Zenon
    <3> QED BY <1>2, <3>1, <3>5, <3>6, SMT DEF CloseInv, ClosedDurable
  <2>2. CASE ~ (t = "flusher" /\ worker = "final")
    <3>1. worker' = worker
      BY <1>6, <2>2, SMT DEF FlushReturns
    <3>2. worker # "final"
      BY <1>3, <2>2, NotFinal, Zenon
    <3> HIDE DEF b
    <3> QED BY <1>2, <1>4, <3>1, <3>2, SMT DEF CloseInv, ClosedDurable
  <2> QED BY <2>1, <2>2
<1>7. CASE /\ rest # <<>>
           /\ Goto(t, "putRollover")
           /\ UNCHANGED <<ckpt, worker, ver, active, existing>>
  <2>1. pc'["flusher"] # "idle" \/ pc'["flusher"] = pc["flusher"]
    <3>1. pc \in [Thread -> Steps] /\ "flusher" \in Thread
      BY Zenon DEF JInv, KInv, Data, Locals, Thread
    <3> QED BY <1>7, <3>1, SMT DEF Goto
  <2> HIDE DEF b, rest
  <2> QED BY <1>2, <1>4, <1>7, <2>1, SMT DEF CloseInv, ClosedDurable
<1> QED BY <1>1, <1>6, <1>7, Zenon DEF Advance

\* The final flush takes the whole buffer; with none left it is over at once.
LEMMA DrainCloses ==
  ASSUME JC, CloseInv, NEW t \in Thread, Drain(t) \/ DrainEmpty(t) PROVE CloseInv'
<1> USE DEF JC
<1>0. "flusher" \in Thread /\ pc \in [Thread -> Steps]
  BY Zenon DEF JInv, KInv, Data, Locals, Thread
<1>1. FlushFree(t) /\ \A u \in Thread : pc[u] = "idle"
  BY DEF Drain, DrainEmpty, FlushFree
<1>2. worker # "final"
  BY <1>0, <1>1, Zenon DEF CloseInv
<1>3. UNCHANGED <<delta, accepted, dropped, beforeClose>>
  BY Zenon DEF Drain, DrainEmpty, github, ranks
<1>4. StoredRanks' = StoredRanks
  BY <1>3, StoredSame, Zenon
<1>5. CASE Drain(t)
  <2>1. worker' = worker \/ (t = "flusher" /\ worker' = "final")
    BY <1>5, Zenon DEF Drain, CallsFlush, Tick, Final
  <2>2. t = "flusher" => pc'["flusher"] # "idle"
    BY <1>0, <1>5, SMT DEF Drain, Goto
  <2>3. Ranks(wbuf') = {}
    <3>1. wbuf' = <<>>
      BY <1>5, Zenon DEF Drain
    <3>2. DOMAIN wbuf' = {}
      BY <3>1
    <3> QED BY <3>2, Zenon DEF Ranks
  <2> QED BY <1>2, <1>3, <1>4, <2>1, <2>2, <2>3, SMT DEF CloseInv, ClosedDurable
<1>6. CASE DrainEmpty(t)
  <2>1. wbuf = <<>> /\ worker' \in {worker, "clean"}
    BY <1>6, Zenon DEF DrainEmpty
  <2>2. Buffered = <<>>
    <3>1. pending["flusher"] = <<>> /\ pending["checkpoint"] = <<>>
      BY <1>1, SMT DEF JInv, IInv, LockInv, Thread
    <3> QED BY <2>1, <3>1 DEF Buffered
  <2>3. Ranks(<<>>) = {}
    BY SMT DEF Ranks
  <2>4. beforeClose <= accepted
    BY Zenon DEF CloseInv
  <2>5. (1 .. beforeClose) \ dropped \subseteq StoredRanks
    <3>1. StoredRanks \cup Ranks(Buffered) = StoredRanks \cup Ranks(wbuf)
          /\ \A r \in Ranks(wbuf) : r > beforeClose
      BY <2>1, <2>2, <2>3
    <3> QED BY <2>4, <3>1, RestStored, Zenon
  <2> QED BY <1>2, <1>3, <1>4, <2>1, <2>4, <2>5, SMT DEF CloseInv, ClosedDurable
<1> QED BY <1>5, <1>6

\* A write after Close has a rank of its own behind those before it.
LEMMA WriteCloses == ASSUME JC, CloseInv, NEW size \in Sizes, Write(size) PROVE CloseInv'
<1> USE DEF JC
<1> DEFINE r == [rank |-> accepted + 1, size |-> size]
<1>1. /\ accepted' = accepted + 1 /\ wbuf' = Append(wbuf, r) /\ accepted < MaxAccepted
      /\ UNCHANGED <<delta, pc, worker, dropped, beforeClose>>
  BY Zenon DEF Write, github, locals
<1>2. StoredRanks' = StoredRanks
  BY <1>1, StoredSame, Zenon
<1>3. accepted \in Nat /\ beforeClose \in Nat /\ MaxAccepted \in Nat
  <2>1. accepted \in 0 .. MaxAccepted /\ beforeClose \in 0 .. MaxAccepted /\ MaxAccepted \in Nat
    BY FlushAssumption, Zenon DEF FlushAssumption, JInv, KInv, Data, History
  <2> QED BY <2>1
<1>4. r \in Record /\ r.rank = accepted + 1
  BY <1>1, <1>3 DEF Record
<1> HIDE DEF r
<1>5. Ranks(wbuf') = Ranks(wbuf) \cup {accepted + 1}
  <2>1. wbuf' = wbuf \o <<r>> /\ <<r>> \in Seq(Record)
    BY <1>1, <1>4, Read, AppendIsConcat
  <2>2. Ranks(<<r>>) = {accepted + 1}
    BY <1>4, SMT DEF Ranks
  <2>3. Ranks(wbuf \o <<r>>) = Ranks(wbuf) \cup Ranks(<<r>>)
    BY <2>1, Read, RanksConcat, Zenon
  <2> QED BY <2>1, <2>2, <2>3, Zenon
<1> QED BY <1>1, <1>2, <1>3, <1>5, SMT DEF CloseInv, ClosedDurable

LEMMA NextClose == JC /\ CloseInv /\ [Next]_vars => CloseInv'
<1> SUFFICES ASSUME JC, CloseInv, [Next]_vars PROVE CloseInv'
  OBVIOUS
<1> USE DEF JC
<1>0. accepted \in Nat /\ beforeClose \in Nat
  <2>1. accepted \in 0 .. MaxAccepted /\ beforeClose \in 0 .. MaxAccepted /\ MaxAccepted \in Nat
    BY FlushAssumption, Zenon DEF FlushAssumption, JInv, KInv, Data, History
  <2> QED BY <2>1
<1>1. ASSUME NEW size \in Sizes, Write(size) PROVE CloseInv'
  BY <1>1, WriteCloses, Zenon
<1>2. ASSUME NEW t \in Thread, Flush(t) PROVE CloseInv'
  <2>1. CASE List(t) \/ Get(t)
    <3>1. /\ UNCHANGED <<delta, wbuf, worker, accepted, dropped, beforeClose>>
      BY <2>1, Zenon DEF List, Get, github, ranks
    <3>2. StoredRanks' = StoredRanks
      BY <3>1, StoredSame, Zenon
    <3>3. pc'["flusher"] # "idle" \/ pc'["flusher"] = pc["flusher"]
      <4>1. pc \in [Thread -> Steps] /\ "flusher" \in Thread
        BY Zenon DEF JInv, KInv, Data, Locals, Thread
      <4>2. \E c \in Steps \ {"idle"} : pc' = [pc EXCEPT ![t] = c]
        <5>1. \/ pc' = [pc EXCEPT ![t] = "get"]
              \/ pc' = [pc EXCEPT ![t] = "putActive"]
              \/ pc' = [pc EXCEPT ![t] = "putRollover"]
          BY <2>1, FirstWriteGoes, Zenon DEF List, Get, Goto
        <5> QED BY <5>1 DEF Steps
      <4> QED BY <4>1, <4>2, SMT
    <3> QED BY <3>1, <3>2, <3>3, SMT DEF CloseInv, ClosedDurable
  <2>2. CASE CallFails(t)
    <3>1. /\ pc[t] # "idle" /\ FlushReturns(t, FALSE)
          /\ UNCHANGED <<delta, accepted, dropped, beforeClose>>
      BY <2>2, Zenon DEF CallFails, github, ranks
    <3>2. StoredRanks' = StoredRanks
      BY <3>1, StoredSame, Zenon
    <3>3. StoredRanks \subseteq StoredRanks'
      BY <3>2
    <3> QED BY <3>1, <3>3, FailureCloses, Zenon
  <2>3. CASE ResponseLost(t)
    <3>1. PICK n : Stores(t, n)
      BY <2>3, LostStores, Zenon
    <3>2. /\ pc[t] # "idle" /\ FlushReturns(t, FALSE)
          /\ UNCHANGED <<accepted, dropped, beforeClose>>
      BY <2>3, <3>1, LostStores, Zenon DEF Stores, ranks
    <3>3. StoredRanks \subseteq StoredRanks'
      BY <3>1, StoredGrows, Zenon
    <3> QED BY <3>2, <3>3, FailureCloses, Zenon
  <2> QED BY <1>2, <2>1, <2>2, <2>3, DrainCloses, PutCloses, Zenon DEF Flush, FlushCall
<1>3. ASSUME \/ CkptBegin \/ CkptAcquired \/ CkptTaken \/ CkptFails \/ Snapshot \/ CkptDone
             \/ OtherWritesNext \/ PollFindsNext \/ UNCHANGED vars
      PROVE  CloseInv'
  <2>1. UNCHANGED <<delta, pc, wbuf, worker, accepted, dropped, beforeClose>>
    BY <1>3, Zenon DEF CkptBegin, CkptAcquired, CkptTaken, CkptFails, Snapshot, CkptDone,
                       OtherWritesNext, PollFindsNext, vars, github, locals, ranks
  <2>2. StoredRanks' = StoredRanks
    BY <2>1, StoredSame, Zenon
  <2> QED BY <2>1, <2>2, SMT DEF CloseInv, ClosedDurable
<1>4. ASSUME Close \/ Crash PROVE CloseInv'
  <2>1. /\ worker' \in {"closing", "running"} /\ beforeClose' \in {accepted, 0}
        /\ accepted' = accepted
    BY <1>4, Zenon DEF Close, Crash
  <2> QED BY <1>0, <2>1, SMT DEF CloseInv, ClosedDurable
<1> QED BY <1>1, <1>2, <1>3, <1>4, Zenon DEF Next

\* A flusher that exits without error has stored every mutation accepted before
\* Close, whatever is written after Close and whichever calls failed before.
THEOREM CloseIsDurable == Spec => []ClosedDurable
<1>1. Init => CloseInv
  BY FlushAssumption DEF Init, CloseInv, ClosedDurable, Thread, FlushAssumption
<1>2. CloseInv => ClosedDurable
  BY Zenon DEF CloseInv
<1>3. Spec => []JC
  <2> HIDE DEF JInv, Contents
  <2> QED BY ContentsInvariant, PTL DEF JC
<1> HIDE DEF JC, CloseInv, vars
<1> QED BY <1>1, <1>2, <1>3, NextClose, PTL DEF Spec

-----------------------------------------------------------------------------
(* Nothing in version N after the snapshot *)

\* A process that has checkpointed writes to version N+1 and does not
\* checkpoint again; its snapshot covers what was accepted before it.
CoverInv ==
  /\ ckpt = "publish" => covered = accepted
  /\ ckpt # "none" => ~ hasCheckpointed
  /\ hasCheckpointed => nextVerExists
  /\ hasCheckpointed => \A t \in Thread : pc[t] # "idle" => ver[t] = 1
  /\ NothingAfterSnapshot

LEMMA StoredZeroSame == ASSUME delta'[0] = delta[0] PROVE Stored(0)' = Stored(0)
BY Zenon DEF Stored

\* No flush of a process that has checkpointed begins or is in progress.
LEMMA CoverStill ==
  ASSUME CoverInv, delta'[0] = delta[0], UNCHANGED <<nextVerExists, hasCheckpointed, covered>>,
         ckpt' = "publish" => ckpt = "publish" /\ accepted' = accepted,
         ckpt' # "none" => ckpt # "none",
         \A t \in Thread : pc'[t] # "idle" => pc[t] # "idle" /\ ver'[t] = ver[t]
  PROVE  CoverInv'
<1>1. Stored(0)' = Stored(0)
  BY StoredZeroSame, Zenon
<1>2. (ckpt = "publish" => covered = accepted)'
  BY Zenon DEF CoverInv
<1>3. (ckpt # "none" => ~ hasCheckpointed)' /\ (hasCheckpointed => nextVerExists)'
  BY Zenon DEF CoverInv
<1>4. (hasCheckpointed => \A t \in Thread : pc[t] # "idle" => ver[t] = 1)'
  BY Zenon DEF CoverInv
<1>5. NothingAfterSnapshot'
  BY <1>1, Zenon DEF CoverInv, NothingAfterSnapshot
<1> QED BY <1>2, <1>3, <1>4, <1>5, Zenon DEF CoverInv

\* Where the locals of the flush are after it returned or went on.
LEMMA ReturnedLocals ==
  ASSUME JInv, NEW t \in Thread, pc[t] # "idle", NEW ok, FlushReturns(t, ok)
  PROVE  /\ \A u \in Thread : pc'[u] # "idle" => pc[u] # "idle" /\ ver'[u] = ver[u]
         /\ ckpt' # "publish"
         /\ ckpt' # "none" => ckpt # "none"
<1>1. pc' = [pc EXCEPT ![t] = "idle"] /\ ver' = [ver EXCEPT ![t] = 0]
  BY Zenon DEF FlushReturns, Goto
<1>2. Locals
  BY Zenon DEF JInv, KInv, Data
<1>3. \A u \in Thread : pc'[u] # "idle" => pc[u] # "idle" /\ ver'[u] = ver[u]
  BY <1>1, <1>2, SMT DEF Locals
<1>4. /\ t = "checkpoint" => ckpt = "flush"
      /\ ckpt \in {"snapshot", "publish"} => pc[t] = "idle"
  BY SMT DEF JInv, IInv, LockInv
<1>5. \/ t = "checkpoint" /\ ckpt' \in {"snapshot", "none"}
      \/ ckpt' = ckpt
  BY Zenon DEF FlushReturns
<1> QED BY <1>3, <1>4, <1>5

\* A flush of a process that has checkpointed writes to version N+1.
LEMMA PutCovers ==
  ASSUME JC, CoverInv, NEW t \in Thread, PutActive(t) \/ PutRollover(t) PROVE CoverInv'
<1> USE DEF JC
<1>1. PICK n : Stores(t, n) /\ Advance(t, n)
  BY PutStores, Zenon
<1>2. UNCHANGED <<nextVerExists, hasCheckpointed, covered, accepted>>
  BY PutStores, Zenon DEF ranks, version
<1>3. pc[t] # "idle" /\ StoresOnly(t)
  BY <1>1, Zenon DEF Stores, Puts
<1>4. /\ \A u \in Thread : pc'[u] # "idle" => pc[u] # "idle" /\ ver'[u] = ver[u]
      /\ ckpt' = "publish" => ckpt = "publish"
      /\ ckpt' # "none" => ckpt # "none"
  <2>1. CASE FlushReturns(t, TRUE)
    BY <1>3, <2>1, ReturnedLocals, Zenon
  <2>2. CASE Goto(t, "putRollover") /\ UNCHANGED <<ckpt, ver>>
    <3>1. Locals
      BY Zenon DEF JInv, KInv, Data
    <3> QED BY <1>3, <2>2, <3>1, SMT DEF Goto, Locals
  <2> QED BY <1>1, <2>1, <2>2, Zenon DEF Advance
<1>5. Stored(0)' = Stored(0) \/ ~ hasCheckpointed
  <2>1. hasCheckpointed => ver[t] = 1
    BY <1>3, Zenon DEF CoverInv
  <2>2. ver[t] = 1 => delta'[0] = delta[0]
    BY <1>3 DEF StoresOnly, Version
  <2> QED BY <2>1, <2>2, StoredZeroSame, Zenon
<1>6. (ckpt = "publish" => covered = accepted)'
  BY <1>2, <1>4, Zenon DEF CoverInv
<1>7. (ckpt # "none" => ~ hasCheckpointed)' /\ (hasCheckpointed => nextVerExists)'
  BY <1>2, <1>4, Zenon DEF CoverInv
<1>8. (hasCheckpointed => \A u \in Thread : pc[u] # "idle" => ver[u] = 1)'
  BY <1>2, <1>4, Zenon DEF CoverInv
<1>9. NothingAfterSnapshot'
  BY <1>2, <1>5, Zenon DEF CoverInv, NothingAfterSnapshot
<1> QED BY <1>6, <1>7, <1>8, <1>9, Zenon DEF CoverInv

\* So does a write whose response is lost, after which the flush returns.
LEMMA FaultCovers ==
  ASSUME JC, CoverInv, NEW t \in Thread, CallFails(t) \/ ResponseLost(t) PROVE CoverInv'
<1> USE DEF JC
<1>1. /\ pc[t] # "idle" /\ FlushReturns(t, FALSE)
      /\ UNCHANGED <<nextVerExists, hasCheckpointed, covered, accepted>>
  <2>1. CASE CallFails(t)
    BY <2>1, Zenon DEF CallFails, ranks, version
  <2>2. CASE ResponseLost(t)
    <3>1. PICK n : Stores(t, n)
      BY <2>2, LostStores, Zenon
    <3> QED BY <2>2, <3>1, LostStores, Zenon DEF Stores, ranks, version
  <2> QED BY <2>1, <2>2
<1>2. Stored(0)' = Stored(0) \/ ~ hasCheckpointed
  <2>1. CASE CallFails(t)
    <3>1. delta' = delta
      BY <2>1, Zenon DEF CallFails, github
    <3> QED BY <3>1, Zenon DEF Stored
  <2>2. CASE ResponseLost(t)
    <3>1. PICK n : Stores(t, n)
      BY <2>2, LostStores, Zenon
    <3>2. hasCheckpointed => ver[t] = 1
      BY <1>1, Zenon DEF CoverInv
    <3>3. ver[t] = 1 => delta'[0] = delta[0]
      BY <3>1 DEF Stores, Puts, StoresOnly, Version
    <3> QED BY <3>2, <3>3, StoredZeroSame, Zenon
  <2> QED BY <2>1, <2>2
<1>3. /\ \A u \in Thread : pc'[u] # "idle" => pc[u] # "idle" /\ ver'[u] = ver[u]
      /\ ckpt' # "publish"
      /\ ckpt' # "none" => ckpt # "none"
  BY <1>1, ReturnedLocals, Zenon
<1>4. (ckpt = "publish" => covered = accepted)'
  BY <1>3, Zenon
<1>5. (ckpt # "none" => ~ hasCheckpointed)' /\ (hasCheckpointed => nextVerExists)'
  BY <1>1, <1>3, Zenon DEF CoverInv
<1>6. (hasCheckpointed => \A u \in Thread : pc[u] # "idle" => ver[u] = 1)'
  BY <1>1, <1>3, Zenon DEF CoverInv
<1>7. NothingAfterSnapshot'
  BY <1>1, <1>2, Zenon DEF CoverInv, NothingAfterSnapshot
<1> QED BY <1>4, <1>5, <1>6, <1>7, Zenon DEF CoverInv

\* The flush that begins takes its version from nextVerExists.
LEMMA DrainCovers ==
  ASSUME JC, CoverInv, NEW t \in Thread, Drain(t) \/ DrainEmpty(t) PROVE CoverInv'
<1> USE DEF JC
<1>1. CASE Drain(t)
  <2>1. /\ UNCHANGED <<delta, nextVerExists, hasCheckpointed, ckpt, covered, accepted>>
        /\ pc' = [pc EXCEPT ![t] = "list"] /\ ver' = [ver EXCEPT ![t] = writeVer']
        /\ writeVer' = (IF nextVerExists THEN 1 ELSE writeVer)
    BY <1>1, Zenon DEF Drain, Goto, github, ranks
  <2>2. Locals
    BY Zenon DEF JInv, KInv, Data
  <2>3. nextVerExists => writeVer' = 1
    BY <2>1, Zenon
  <2>4. ver'[t] = writeVer' /\ \A u \in Thread \ {t} : pc'[u] = pc[u] /\ ver'[u] = ver[u]
    BY <2>1, <2>2, SMT DEF Locals
  <2>5. (hasCheckpointed => \A u \in Thread : pc[u] # "idle" => ver[u] = 1)'
    BY <2>1, <2>3, <2>4, Zenon DEF CoverInv
  <2>6. NothingAfterSnapshot'
    BY <2>1, Zenon DEF CoverInv, NothingAfterSnapshot, Stored
  <2>7. /\ (ckpt = "publish" => covered = accepted)' /\ (ckpt # "none" => ~ hasCheckpointed)'
        /\ (hasCheckpointed => nextVerExists)'
    BY <2>1, Zenon DEF CoverInv
  <2> QED BY <2>5, <2>6, <2>7, Zenon DEF CoverInv
<1>2. CASE DrainEmpty(t)
  <2>1. /\ UNCHANGED <<delta, pc, ver, nextVerExists, hasCheckpointed, covered, accepted>>
        /\ ckpt' = ckpt \/ (ckpt = "flush" /\ ckpt' = "snapshot")
    BY <1>2, Zenon DEF DrainEmpty, github, locals, version, ranks
  <2>2. /\ ckpt' = "publish" => ckpt = "publish"
        /\ ckpt' # "none" => ckpt # "none"
    BY <2>1
  <2> QED BY <2>1, <2>2, CoverStill, Zenon
<1> QED BY <1>1, <1>2

\* The checkpoint takes its snapshot, and switches to version N+1 when it is done.
LEMMA CheckpointCovers ==
  ASSUME JC, CoverInv,
         CkptBegin \/ CkptAcquired \/ CkptTaken \/ CkptFails \/ Snapshot \/ CkptDone
  PROVE  CoverInv'
<1> USE DEF JC
<1>1. CASE CkptBegin \/ CkptAcquired \/ CkptTaken \/ CkptFails
  <2>1. /\ UNCHANGED <<delta, pc, ver, hasCheckpointed, covered, accepted>>
        /\ ckpt' # "publish" /\ (ckpt' # "none" => ~ hasCheckpointed)
        /\ nextVerExists => nextVerExists'
    <3>1. CASE CkptBegin
      BY <3>1, SMT DEF CkptBegin, github, locals, version, ranks
    <3>2. CASE CkptAcquired
      <4>1. ckpt = "acquire" /\ ckpt' = "flush"
            /\ UNCHANGED <<delta, pc, ver, nextVerExists, hasCheckpointed, covered, accepted>>
        BY <3>2, Zenon DEF CkptAcquired, github, locals, version, ranks
      <4>2. ckpt # "none" /\ ckpt' # "publish"
        BY <4>1
      <4> QED BY <4>1, <4>2, Zenon DEF CoverInv
    <3>3. CASE CkptTaken \/ CkptFails
      <4>1. /\ ckpt' = "none" /\ (nextVerExists => nextVerExists')
            /\ UNCHANGED <<delta, pc, ver, hasCheckpointed, covered, accepted>>
        <5>1. nextVerExists' = nextVerExists \/ nextVerExists' = TRUE
          BY <3>3, Zenon DEF CkptTaken, CkptFails, WriteToNext, version
        <5>2. nextVerExists => nextVerExists'
          BY <5>1
        <5> QED BY <3>3, <5>2, Zenon DEF CkptTaken, CkptFails, WriteToNext, github, locals, version,
                                         ranks
      <4>2. ckpt' # "publish"
        BY <4>1
      <4> QED BY <4>1, <4>2, Zenon
    <3> QED BY <1>1, <3>1, <3>2, <3>3, Zenon
  <2>2. (ckpt = "publish" => covered = accepted)' /\ (ckpt # "none" => ~ hasCheckpointed)'
    BY <2>1, Zenon
  <2>3. (hasCheckpointed => nextVerExists)'
    BY <2>1, Zenon DEF CoverInv
  <2>4. (hasCheckpointed => \A u \in Thread : pc[u] # "idle" => ver[u] = 1)'
    BY <2>1, Zenon DEF CoverInv
  <2>5. NothingAfterSnapshot'
    BY <2>1, Zenon DEF CoverInv, NothingAfterSnapshot, Stored
  <2> QED BY <2>2, <2>3, <2>4, <2>5, Zenon DEF CoverInv
<1>2. CASE Snapshot
  <2>1. /\ ckpt = "snapshot" /\ covered' = accepted /\ accepted' = accepted
        /\ UNCHANGED hasCheckpointed
    BY <1>2, Zenon DEF Snapshot, version
  <2>2. ~ hasCheckpointed'
    <3>1. ckpt # "none"
      BY <2>1
    <3> QED BY <2>1, <3>1, Zenon DEF CoverInv
  <2> QED BY <2>1, <2>2, Zenon DEF CoverInv, NothingAfterSnapshot
<1>3. CASE CkptDone
  <2>1. /\ ckpt = "publish" /\ ckpt' = "none" /\ nextVerExists'
        /\ UNCHANGED <<delta, pc, ver, covered, accepted>>
    BY <1>3, Zenon DEF CkptDone, WriteToNext, github, locals, ranks
  <2>2. ckpt' # "publish"
    BY <2>1
  <2>3. \A u \in Thread : pc'[u] = "idle"
    BY <2>1, SMT DEF JInv, IInv, LockInv
  <2>4. Ranks(Stored(0)) \subseteq 1 .. covered
    <3>1. Ranks(AllStored) = Ranks(Stored(0)) \cup Ranks(Stored(1))
      BY ContentsTyped, RanksConcat, Zenon DEF AllStored
    <3>2. Ranks(Stored(0)) \subseteq Ranks(All)
      BY <3>1, RanksAll, Zenon DEF StoredRanks
    <3>3. Ranks(All) = (1 .. accepted) \ dropped
      BY Zenon DEF Contents, Complete
    <3>4. covered = accepted
      BY <2>1, Zenon DEF CoverInv
    <3> QED BY <3>2, <3>3, <3>4, Zenon
  <2>5. NothingAfterSnapshot'
    BY <2>1, <2>4, Zenon DEF NothingAfterSnapshot, Stored
  <2> QED BY <2>1, <2>2, <2>3, <2>5, Zenon DEF CoverInv
<1> QED BY <1>1, <1>2, <1>3

LEMMA NextCover == JC /\ CoverInv /\ [Next]_vars => CoverInv'
<1> SUFFICES ASSUME JC, CoverInv, [Next]_vars PROVE CoverInv'
  OBVIOUS
<1>1. ASSUME NEW size \in Sizes, Write(size) PROVE CoverInv'
  <2>1. /\ ckpt = "none" /\ ckpt' = ckpt
        /\ UNCHANGED <<delta, pc, ver, nextVerExists, hasCheckpointed, covered>>
    BY <1>1, Zenon DEF Write, github, version, locals
  <2>2. ckpt' # "publish"
    BY <2>1
  <2> QED BY <2>1, <2>2, CoverStill, Zenon
<1>2. ASSUME NEW t \in Thread, Flush(t) PROVE CoverInv'
  <2>1. CASE List(t) \/ Get(t)
    <3>1. UNCHANGED <<delta, ver, nextVerExists, hasCheckpointed, ckpt, covered, accepted>>
      BY <2>1, Zenon DEF List, Get, github, version, ranks
    <3>2. \A u \in Thread : pc'[u] # "idle" => pc[u] # "idle"
      <4>1. Locals
        BY Zenon DEF JC, JInv, KInv, Data
      <4>2. pc[t] \in {"list", "get"} /\ \E c : pc' = [pc EXCEPT ![t] = c]
        BY <2>1, Zenon DEF List, Get, FirstWrite, Goto
      <4> QED BY <4>1, <4>2, SMT DEF Locals
    <3> QED BY <3>1, <3>2, CoverStill, Zenon
  <2> QED BY <1>2, <2>1, DrainCovers, PutCovers, FaultCovers, Zenon DEF Flush, FlushCall
<1>3. ASSUME CkptBegin \/ CkptAcquired \/ CkptTaken \/ CkptFails \/ Snapshot \/ CkptDone PROVE CoverInv'
  BY <1>3, CheckpointCovers, Zenon
<1>4. ASSUME OtherWritesNext \/ Close \/ UNCHANGED vars PROVE CoverInv'
  <2>1. UNCHANGED <<delta, pc, ver, nextVerExists, hasCheckpointed, ckpt, covered, accepted>>
    BY <1>4, Zenon DEF OtherWritesNext, Close, vars, github, version, locals, ranks
  <2> QED BY <2>1, CoverStill, Zenon
<1>5. ASSUME PollFindsNext PROVE CoverInv'
  <2>1. /\ nextVerExists'
        /\ UNCHANGED <<delta, pc, ver, hasCheckpointed, ckpt, covered, accepted>>
    BY <1>5, Zenon DEF PollFindsNext, github, locals, ranks
  <2>2. NothingAfterSnapshot'
    BY <2>1, Zenon DEF CoverInv, NothingAfterSnapshot, Stored
  <2> QED BY <2>1, <2>2, Zenon DEF CoverInv
<1>6. ASSUME Crash PROVE CoverInv'
  <2>1. ~ hasCheckpointed' /\ ckpt' = "none"
    BY <1>6, Zenon DEF Crash
  <2>2. ckpt' # "publish"
    BY <2>1
  <2> QED BY <2>1, <2>2, Zenon DEF CoverInv, NothingAfterSnapshot
<1> QED BY <1>1, <1>2, <1>3, <1>4, <1>5, <1>6, Zenon DEF Next

\* What an instance stores in version N after its own checkpoint is nothing
\* that its snapshot lacks: no flush is caught with the old version in hand.
THEOREM SnapshotCoversVersion == Spec => []NothingAfterSnapshot
<1>1. Init => CoverInv
  <2> SUFFICES ASSUME Init PROVE CoverInv
    OBVIOUS
  <2>1. ~ hasCheckpointed /\ ckpt = "none"
    BY Zenon DEF Init
  <2>2. ckpt # "publish"
    BY <2>1
  <2> QED BY <2>1, <2>2, Zenon DEF CoverInv, NothingAfterSnapshot
<1>2. CoverInv => NothingAfterSnapshot
  BY Zenon DEF CoverInv
<1>3. Spec => []JC
  <2> HIDE DEF JInv, Contents
  <2> QED BY ContentsInvariant, PTL DEF JC
<1> HIDE DEF JC, CoverInv, vars
<1> QED BY <1>1, <1>2, <1>3, NextCover, PTL DEF Spec

-----------------------------------------------------------------------------
(* The size of a segment *)

\* f holds the size of each beginning of recs.
Sums(f, recs) ==
  f = [k \in 0 .. Len(recs) |-> IF k = 0 THEN 0 ELSE f[k - 1] + recs[k].size]

LEMMA SizeTyped == ASSUME NEW r \in Record PROVE r.size \in Nat /\ r.size \in Int
<1>1. r.size \in Sizes
  BY DEF Record
<1>2. Sizes \subseteq Nat \ {0}
  BY FlushAssumption, Zenon DEF FlushAssumption
<1>3. r.size \in Nat
  BY <1>1, <1>2, Zenon
<1> DEFINE x == r.size
<1> HIDE DEF x
<1>4. x \in Nat => x \in Int
  OBVIOUS
<1> QED BY <1>3, <1>4, Zenon DEF x

LEMMA SumsExists ==
  ASSUME NEW recs \in Seq(Record)
  PROVE  \E f \in [0 .. Len(recs) -> Nat] : Sums(f, recs)
<1> DEFINE n == Len(recs)
           size(k) == IF k \in 1 .. n THEN recs[k].size ELSE 0
           step == [k \in Nat |-> [x \in Nat |-> x + size(k)]]
<1>1. ASSUME NEW k \in Nat PROVE size(k) \in Nat
  <2>1. CASE k \in 1 .. n
    <3>1. recs[k] \in Record
      BY <2>1
    <3>2. recs[k].size \in Nat
      BY <3>1, SizeTyped, Zenon
    <3> QED BY <2>1, <3>2
  <2>2. CASE k \notin 1 .. n
    BY <2>2
  <2> QED BY <2>1, <2>2
<1> HIDE DEF size
<1>2. step \in [Nat -> [Nat -> Nat]]
  BY <1>1, SMTT(30)
<1>3. n \in Nat /\ 0 \in Nat
  OBVIOUS
<1>4. PICK f \in [0 .. n -> Nat] : Iterates(f, 0, step, n)
  <2> HIDE DEF step, n
  <2> QED BY <1>2, <1>3, PrimitiveRecursion
<1>5. ASSUME NEW k \in 0 .. n PROVE f[k] = IF k = 0 THEN 0 ELSE f[k - 1] + recs[k].size
  <2>1. CASE k = 0
    BY <1>4, <2>1 DEF Iterates
  <2>2. CASE k # 0
    <3>1. k \in 1 .. n /\ k \in Nat /\ f[k - 1] \in Nat
      <4> HIDE DEF n
      <4>1. k \in 1 .. n /\ k \in Nat /\ k - 1 \in 0 .. n
        BY <1>3, <2>2
      <4> QED BY <1>4, <4>1
    <3>2. f[k] = step[k][f[k - 1]]
      BY <1>4, <3>1, Zenon DEF Iterates
    <3>3. f[k] = f[k - 1] + size(k)
      BY <3>1, <3>2
    <3> QED BY <2>2, <3>1, <3>3 DEF size
  <2> QED BY <2>1, <2>2
<1>6. f = [k \in 0 .. n |-> IF k = 0 THEN 0 ELSE f[k - 1] + recs[k].size]
  BY <1>5
<1> QED BY <1>6, Zenon DEF Sums

\* The sizes are those of any such function.
LEMMA SumsAt ==
  ASSUME NEW recs \in Seq(Record), NEW f, Sums(f, recs)
  PROVE  f[0] = 0 /\ \A k \in 1 .. Len(recs) : f[k] = f[k - 1] + recs[k].size
<1> DEFINE n == Len(recs)
<1>1. n \in Nat
  OBVIOUS
<1>2. f = [k \in 0 .. n |-> IF k = 0 THEN 0 ELSE f[k - 1] + recs[k].size]
  BY Zenon DEF Sums
<1> HIDE DEF n
<1>3. \A k \in 0 .. n : f[k] = IF k = 0 THEN 0 ELSE f[k - 1] + recs[k].size
  BY <1>2, Zenon
<1>4. 0 \in 0 .. n /\ \A k \in 1 .. n : k \in 0 .. n /\ k # 0
  BY <1>1
<1> QED BY <1>3, <1>4, Zenon DEF n

LEMMA SumsUnique ==
  ASSUME NEW recs \in Seq(Record), NEW f, Sums(f, recs), NEW g, Sums(g, recs)
  PROVE  \A k \in 0 .. Len(recs) : f[k] = g[k]
<1> DEFINE n == Len(recs)
           T == {k \in Nat : k <= n => f[k] = g[k]}
<1>1. n \in Nat
  OBVIOUS
<1>2. /\ f[0] = 0 /\ \A k \in 1 .. n : f[k] = f[k - 1] + recs[k].size
      /\ g[0] = 0 /\ \A k \in 1 .. n : g[k] = g[k - 1] + recs[k].size
  BY SumsAt, Zenon
<1> HIDE DEF n
<1>3. 0 \in T
  BY <1>2
<1>4. ASSUME NEW k \in Nat, k \in T PROVE k + 1 \in T
  <2>1. CASE k + 1 <= n
    <3>1. k + 1 \in 1 .. n /\ (k + 1) - 1 = k /\ k <= n
      BY <1>1, <2>1
    <3>2. f[k] = g[k]
      BY <1>4, <3>1
    <3>3. f[k + 1] = g[k + 1]
      BY <1>2, <3>1, <3>2, Zenon
    <3> QED BY <3>3
  <2>2. CASE ~ (k + 1 <= n)
    BY <2>2
  <2> QED BY <2>1, <2>2
<1>5. Nat \subseteq T
  <2> HIDE DEF T
  <2> QED BY <1>3, <1>4, SetInduction
<1> QED BY <1>1, <1>5 DEF n

LEMMA BytesIsSum ==
  ASSUME NEW recs \in Seq(Record), NEW f \in [0 .. Len(recs) -> Nat], Sums(f, recs)
  PROVE  Bytes(recs) = f[Len(recs)] /\ Bytes(recs) \in Nat
<1> DEFINE g == CHOOSE h : Sums(h, recs)
<1>1. Bytes(recs) = g[Len(recs)]
  BY Zenon DEF Bytes, Sums
<1>2. Sums(g, recs)
  BY Zenon
<1> HIDE DEF g
<1>3. Len(recs) \in 0 .. Len(recs)
  OBVIOUS
<1>4. f[Len(recs)] = g[Len(recs)]
  BY <1>2, <1>3, SumsUnique, Zenon
<1> QED BY <1>1, <1>3, <1>4

\* The size of a segment is a number.
LEMMA BytesTyped == ASSUME NEW recs \in Seq(Record) PROVE Bytes(recs) \in Nat
BY SumsExists, BytesIsSum, Zenon

\* The batch behind a segment adds its size to it.
LEMMA BytesConcat ==
  ASSUME NEW s \in Seq(Record), NEW b \in Seq(Record)
  PROVE  Bytes(s \o b) = Bytes(s) + Bytes(b)
<1> DEFINE q == s \o b
           ls == Len(s)
           lb == Len(b)
<1>1. /\ q \in Seq(Record) /\ Len(q) = ls + lb /\ ls \in Nat /\ lb \in Nat
      /\ \A k \in 1 .. ls : q[k] = s[k]
      /\ \A k \in 1 .. lb : q[ls + k] = b[k]
  OBVIOUS
<1>2. PICK f \in [0 .. Len(s) -> Nat] : Sums(f, s)
  BY SumsExists
<1>3. PICK g \in [0 .. Len(b) -> Nat] : Sums(g, b)
  BY SumsExists
<1> HIDE DEF q
<1>4. PICK h \in [0 .. Len(q) -> Nat] : Sums(h, q)
  BY <1>1, SumsExists
<1>5. /\ f[0] = 0 /\ \A k \in 1 .. ls : f[k] = f[k - 1] + s[k].size
      /\ g[0] = 0 /\ \A k \in 1 .. lb : g[k] = g[k - 1] + b[k].size
      /\ h[0] = 0 /\ \A k \in 1 .. Len(q) : h[k] = h[k - 1] + q[k].size
  BY <1>1, <1>2, <1>3, <1>4, SumsAt, Zenon
<1>6. Bytes(s) = f[ls] /\ Bytes(b) = g[lb] /\ Bytes(q) = h[Len(q)]
  BY <1>1, <1>2, <1>3, <1>4, BytesIsSum, Zenon
<1>7. /\ f \in [0 .. ls -> Nat] /\ g \in [0 .. lb -> Nat] /\ h \in [0 .. ls + lb -> Nat]
      /\ Len(q) = ls + lb
  BY <1>1, <1>2, <1>3, <1>4, Zenon
<1> HIDE DEF ls, lb
<1> DEFINE T == {k \in Nat : k <= ls => h[k] = f[k]}
           U == {k \in Nat : k <= lb => h[ls + k] = f[ls] + g[k]}
<1>8. Nat \subseteq T
  <2>1. 0 \in T
    BY <1>5
  <2>2. ASSUME NEW k \in Nat, k \in T PROVE k + 1 \in T
    <3> SUFFICES ASSUME k + 1 <= ls PROVE h[k + 1] = f[k + 1]
      OBVIOUS
    <3>1. k + 1 \in 1 .. ls /\ k + 1 \in 1 .. Len(q) /\ (k + 1) - 1 = k /\ k <= ls
      BY <1>1, <1>7
    <3>2. h[k] = f[k] /\ q[k + 1] = s[k + 1]
      BY <1>1, <2>2, <3>1
    <3>3. h[k + 1] = h[k] + q[k + 1].size /\ f[k + 1] = f[k] + s[k + 1].size
      BY <1>5, <3>1, Zenon
    <3> QED BY <3>2, <3>3, Zenon
  <2> HIDE DEF T
  <2> QED BY <2>1, <2>2, SetInduction
<1>9. h[ls] = f[ls]
  BY <1>1, <1>8
<1>10. Nat \subseteq U
  <2>1. 0 \in U
    <3>1. ls + 0 = ls /\ f[ls] + 0 = f[ls]
      BY <1>1, <1>7
    <3> QED BY <1>5, <1>9, <3>1
  <2>2. ASSUME NEW k \in Nat, k \in U PROVE k + 1 \in U
    <3> SUFFICES ASSUME k + 1 <= lb PROVE h[ls + (k + 1)] = f[ls] + g[k + 1]
      OBVIOUS
    <3>1. /\ k + 1 \in 1 .. lb /\ ls + (k + 1) \in 1 .. Len(q) /\ (k + 1) - 1 = k /\ k <= lb
          /\ (ls + (k + 1)) - 1 = ls + k
      BY <1>1, <1>7
    <3>2. h[ls + k] = f[ls] + g[k] /\ q[ls + (k + 1)] = b[k + 1]
      BY <1>1, <2>2, <3>1
    <3>3. h[ls + (k + 1)] = h[ls + k] + q[ls + (k + 1)].size /\ g[k + 1] = g[k] + b[k + 1].size
      BY <1>5, <3>1, Zenon
    <3>4. h[ls + (k + 1)] = (f[ls] + g[k]) + b[k + 1].size
      BY <3>2, <3>3, Zenon
    <3>5. f[ls] \in Nat /\ g[k] \in Nat /\ b[k + 1].size \in Int
      <4>1. b[k + 1] \in Record
        BY <3>1 DEF lb
      <4>2. b[k + 1].size \in Int
        BY <4>1, SizeTyped, Zenon
      <4>3. ls \in 0 .. ls /\ k \in 0 .. lb
        BY <1>1, <3>1
      <4> QED BY <1>7, <4>2, <4>3
    <3> QED BY <3>3, <3>4, <3>5
  <2> HIDE DEF U
  <2> QED BY <2>1, <2>2, SetInduction
<1>11. h[ls + lb] = f[ls] + g[lb]
  BY <1>1, <1>10
<1> QED BY <1>6, <1>7, <1>11, Zenon DEF q

LEMMA BytesEmpty == Bytes(<<>>) = 0
<1>1. <<>> \in Seq(Record) /\ Len(<<>>) = 0
  OBVIOUS
<1>2. PICK f \in [0 .. Len(<<>>) -> Nat] : Sums(f, <<>>)
  BY <1>1, SumsExists
<1>3. f[0] = 0
  BY <1>1, <1>2, SumsAt, Zenon
<1> QED BY <1>1, <1>2, <1>3, BytesIsSum, Zenon

LEMMA BytesOne == ASSUME NEW recs \in Seq(Record), Len(recs) = 1 PROVE Bytes(recs) = recs[1].size
<1>1. PICK f \in [0 .. Len(recs) -> Nat] : Sums(f, recs)
  BY SumsExists
<1>2. f[0] = 0 /\ f[1] = f[0] + recs[1].size /\ f[1] \in Nat
  <2>1. 1 \in 1 .. Len(recs) /\ 1 - 1 = 0 /\ 1 \in 0 .. Len(recs)
    OBVIOUS
  <2>2. f[0] = 0 /\ f[1] = f[1 - 1] + recs[1].size
    BY <1>1, <2>1, SumsAt, Zenon
  <2> QED BY <1>1, <2>1, <2>2
<1>3. recs[1].size \in Int
  <2>1. recs[1] \in Record
    OBVIOUS
  <2> QED BY <2>1, SizeTyped, Zenon
<1>4. f[1] = recs[1].size
  BY <1>2, <1>3
<1>5. Bytes(recs) = f[Len(recs)]
  BY <1>1, BytesIsSum, Zenon
<1> QED BY <1>4, <1>5

-----------------------------------------------------------------------------
(* Both caps hold of every segment *)

Bounded(segment) ==
  \/ Len(segment) \in 1 .. MaxRecords /\ Bytes(segment) <= MaxBytes
  \/ Len(segment) = 1

\* What joins the active segment leaves it within both caps.
LEMMA ActiveBounded ==
  ASSUME NEW recs \in Seq(Record), NEW prior \in Seq(Record), FitCount(recs, prior) > 0
  PROVE  Bounded(prior \o SubSeq(recs, 1, FitCount(recs, prior)))
<1> DEFINE n == FitCount(recs, prior)
           b == SubSeq(recs, 1, n)
<1>1. n \in 0 .. Len(recs) /\ Fits(recs, prior, n)
  BY FitCountFits, Zenon
<1>2. Len(prior) + n <= MaxRecords /\ Bytes(prior) + Bytes(b) <= MaxBytes
  BY <1>1, Zenon DEF Fits
<1>3. n > 0
  OBVIOUS
<1> HIDE DEF n
<1>4. b \in Seq(Record) /\ Len(b) = n
  BY <1>1, Split, Zenon
<1> HIDE DEF b
<1>5. Bytes(prior \o b) = Bytes(prior) + Bytes(b)
  BY <1>4, BytesConcat, Zenon
<1>6. Len(prior \o b) = Len(prior) + n /\ Len(prior) \in Nat
  BY <1>4
<1>7. n \in Nat /\ MaxRecords \in Nat
  <2>1. MaxRecords \in Nat
    BY FlushAssumption, Zenon DEF FlushAssumption
  <2>2. Len(recs) \in Nat
    OBVIOUS
  <2> QED BY <1>1, <2>1, <2>2
<1>8. Len(prior \o b) \in 1 .. MaxRecords
  BY <1>2, <1>3, <1>6, <1>7
<1> QED BY <1>2, <1>5, <1>8, Zenon DEF Bounded, b, n

\* A rollover takes at least one record, and more than one only within both caps.
LEMMA RolloverBounded ==
  ASSUME NEW recs \in Seq(Record), recs # <<>>
  PROVE  Bounded(SubSeq(recs, 1, RolloverCount(recs)))
<1>1. 1 \in 1 .. Len(recs) /\ 1 \in 0 .. Len(recs)
  OBVIOUS
<1>2. CASE Head(recs).size > MaxBytes
  <2>1. RolloverCount(recs) = 1
    BY <1>2, Zenon DEF RolloverCount
  <2>2. Len(SubSeq(recs, 1, 1)) = 1
    BY <1>1, Split, Zenon
  <2> QED BY <2>1, <2>2, Zenon DEF Bounded
<1>3. CASE ~ (Head(recs).size > MaxBytes)
  <2>1. RolloverCount(recs) = FitCount(recs, <<>>)
    BY <1>3, Zenon DEF RolloverCount
  <2>2. Fits(recs, <<>>, 1)
    <3> DEFINE b == SubSeq(recs, 1, 1)
    <3>1. b \in Seq(Record) /\ Len(b) = 1
      BY <1>1, Split, Zenon
    <3>2. b[1] = Head(recs)
      BY <1>1
    <3>3. Bytes(b) = Head(recs).size /\ Bytes(b) \in Nat
      <4> HIDE DEF b
      <4>1. Bytes(b) = b[1].size /\ Bytes(b) \in Nat
        BY <3>1, BytesOne, BytesTyped, Zenon
      <4> QED BY <3>2, <4>1, Zenon
    <3> HIDE DEF b
    <3>4. MaxBytes \in Nat /\ MaxRecords \in Nat /\ MaxRecords # 0
      BY FlushAssumption, SMT DEF FlushAssumption
    <3>5. Bytes(b) <= MaxBytes
      <4> DEFINE x == Bytes(b)
      <4>1. ~ (x > MaxBytes) /\ x \in Nat
        BY <1>3, <3>3, Zenon
      <4> HIDE DEF x
      <4>2. x <= MaxBytes
        BY <3>4, <4>1
      <4> QED BY <4>2 DEF x
    <3>6. 0 + 1 <= MaxRecords /\ 0 + Bytes(b) <= MaxBytes
      BY <3>3, <3>4, <3>5
    <3>7. Len(<<>>) = 0
      OBVIOUS
    <3> QED BY <3>6, <3>7, BytesEmpty, Zenon DEF Fits, b
  <2>3. 1 <= FitCount(recs, <<>>) /\ FitCount(recs, <<>>) \in 0 .. Len(recs)
    BY <1>1, <2>2, FitCountFits, Zenon
  <2>4. FitCount(recs, <<>>) > 0
    <3> DEFINE x == FitCount(recs, <<>>)
    <3>1. 1 <= x /\ x \in 0 .. Len(recs)
      BY <2>3
    <3> HIDE DEF x
    <3>2. x > 0
      BY <3>1
    <3> QED BY <3>2 DEF x
  <2>5. <<>> \in Seq(Record)
    OBVIOUS
  <2>6. Bounded(<<>> \o SubSeq(recs, 1, FitCount(recs, <<>>)))
    BY <2>4, <2>5, ActiveBounded, Zenon
  <2>7. SubSeq(recs, 1, FitCount(recs, <<>>)) \in Seq(Record)
    BY <2>3, Split, Zenon
  <2>8. <<>> \o SubSeq(recs, 1, FitCount(recs, <<>>)) = SubSeq(recs, 1, FitCount(recs, <<>>))
    BY <2>7, ConcatEmptySeq, Zenon
  <2> QED BY <2>1, <2>6, <2>8, Zenon
<1> QED BY <1>2, <1>3

\* What the segments of version v become: the last one is replaced, or one is added.
Grows(v, segment) ==
  \/ delta' = [delta EXCEPT ![v] = Append(delta[v], segment)]
  \/ delta[v] # <<>> /\ delta' = [delta EXCEPT ![v] = [delta[v] EXCEPT ![Len(delta[v])] = segment]]

LEMMA GrowsBounded ==
  ASSUME JInv, SegmentsBounded, NEW v \in Version, NEW segment \in Seq(Record), Bounded(segment),
         Grows(v, segment)
  PROVE  SegmentsBounded'
<1> DEFINE T == Seq(Record)
           segs == delta[v]
<1>1. delta \in [Version -> Seq(T)] /\ segs \in Seq(T) /\ segment \in T
  BY Zenon DEF JInv, KInv, Data, Segments
<1>2. \A w \in Version : \A k \in DOMAIN delta[w] : Bounded(delta[w][k])
  BY Zenon DEF SegmentsBounded, Bounded
<1> HIDE DEF T
<1>3. ASSUME NEW e \in Seq(T), delta' = [delta EXCEPT ![v] = e],
             \A k \in DOMAIN e : Bounded(e[k])
      PROVE  SegmentsBounded'
  <2>1. delta'[v] = e /\ \A w \in Version \ {v} : delta'[w] = delta[w]
    BY <1>1, <1>3
  <2>2. \A w \in Version : \A k \in DOMAIN delta'[w] : Bounded(delta'[w][k])
    BY <1>2, <1>3, <2>1, Zenon
  <2> QED BY <2>2, Zenon DEF SegmentsBounded, Bounded
<1>4. \A k \in DOMAIN segs : Bounded(segs[k])
  BY <1>2
<1>5. CASE delta' = [delta EXCEPT ![v] = Append(segs, segment)]
  <2> DEFINE e == Append(segs, segment)
  <2> HIDE DEF segs
  <2>1. /\ e \in Seq(T) /\ Len(segs) \in Nat /\ DOMAIN segs = 1 .. Len(segs)
        /\ DOMAIN e = 1 .. Len(segs) + 1
        /\ e[Len(segs) + 1] = segment
        /\ \A k \in 1 .. Len(segs) : e[k] = segs[k]
    BY <1>1
  <2>2. delta' = [delta EXCEPT ![v] = e]
    BY <1>5
  <2> HIDE DEF e
  <2>3. ASSUME NEW k \in DOMAIN e PROVE Bounded(e[k])
    <3>1. k = Len(segs) + 1 \/ k \in 1 .. Len(segs)
      BY <2>1
    <3> QED BY <1>4, <2>1, <3>1, Zenon
  <2> QED BY <1>3, <2>1, <2>2, <2>3, Zenon
<1>6. CASE segs # <<>> /\ delta' = [delta EXCEPT ![v] = [segs EXCEPT ![Len(segs)] = segment]]
  <2> DEFINE n == Len(segs)
             e == [segs EXCEPT ![n] = segment]
  <2> HIDE DEF segs
  <2>1. n \in 1 .. Len(segs) /\ DOMAIN segs = 1 .. n
    BY <1>1, <1>6
  <2>2. /\ e \in Seq(T) /\ Len(e) = Len(segs)
        /\ \A k \in 1 .. Len(segs) : e[k] = IF k = n THEN segment ELSE segs[k]
    <3> HIDE DEF n
    <3> QED BY <1>1, <2>1, ExceptSeq
  <2>3. DOMAIN e = 1 .. n
    <3> HIDE DEF e
    <3> QED BY <2>2
  <2>4. delta' = [delta EXCEPT ![v] = e]
    BY <1>6
  <2> HIDE DEF e
  <2>5. ASSUME NEW k \in DOMAIN e PROVE Bounded(e[k])
    BY <1>4, <2>1, <2>2, <2>3, <2>5, Zenon
  <2> QED BY <1>3, <2>2, <2>4, <2>5, Zenon
<1> QED BY <1>5, <1>6, Zenon DEF Grows

LEMMA StoreActiveBounded ==
  ASSUME JInv, SegmentsBounded, NEW t \in Thread, pc[t] = "putActive",
         StoreActive(t, FitCount(pending[t], existing[t]))
  PROVE  SegmentsBounded'
<1> DEFINE v == ver[t]
           b == SubSeq(pending[t], 1, FitCount(pending[t], existing[t]))
           segment == existing[t] \o b
<1>1. pending[t] \in Seq(Record) /\ existing[t] \in Seq(Record) /\ v \in Version
      /\ delta[v] \in Seq(Seq(Record))
  BY Read, Zenon
<1>2. /\ FitCount(pending[t], existing[t]) > 0
      /\ active[t] = 0 => existing[t] = <<>>
      /\ active[t] = Len(delta[v])
  BY Read, SMT DEF Knows
<1>3. Bounded(segment)
  BY <1>1, <1>2, ActiveBounded, Zenon
<1>4. b \in Seq(Record)
  <2>1. FitCount(pending[t], existing[t]) \in 0 .. Len(pending[t])
    BY <1>1, FitCountFits, Zenon
  <2> QED BY <1>1, <2>1, Split, Zenon
<1>5. segment \in Seq(Record)
  BY <1>1, <1>4, ConcatProperties, Zenon
<1>6. CASE active[t] = 0 /\ delta[v] = <<>> /\ delta' = [delta EXCEPT ![v] = <<b>>]
  <2> HIDE DEF b, v
  <2>1. <<>> \o b = b
    BY <1>4, ConcatEmptySeq, Zenon
  <2>2. segment = b
    BY <1>2, <1>6, <2>1, Zenon
  <2>3. <<b>> = Append(delta[v], b)
    BY <1>6
  <2>4. Grows(v, segment)
    BY <1>6, <2>2, <2>3, Zenon DEF Grows
  <2> HIDE DEF segment
  <2> QED BY <1>1, <1>3, <1>5, <2>4, GrowsBounded, Zenon
<1>7. CASE /\ active[t] # 0 /\ delta[v][active[t]] = existing[t]
           /\ delta' = [delta EXCEPT ![v][active[t]] = existing[t] \o b]
  <2> HIDE DEF b
  <2>1. delta' = [delta EXCEPT ![v] = [delta[v] EXCEPT ![Len(delta[v])] = segment]]
    BY <1>2, <1>7, Zenon
  <2>2. delta[v] # <<>>
    <3> HIDE DEF v
    <3> QED BY <1>1, <1>2, <1>7
  <2> HIDE DEF v, segment
  <2>3. Grows(v, segment)
    BY <2>1, <2>2, Zenon DEF Grows
  <2> QED BY <1>1, <1>3, <1>5, <2>3, GrowsBounded, Zenon
<1> QED BY <1>6, <1>7, Zenon DEF StoreActive

LEMMA StoreRolloverBounded ==
  ASSUME JInv, SegmentsBounded, NEW t \in Thread, pc[t] = "putRollover",
         StoreRollover(t, RolloverCount(pending[t]))
  PROVE  SegmentsBounded'
<1> DEFINE v == ver[t]
           b == SubSeq(pending[t], 1, RolloverCount(pending[t]))
<1>1. pending[t] \in Seq(Record) /\ v \in Version /\ Knows(t)
  BY Read, Zenon
<1>2. pending[t] # <<>> /\ pc[t] # "idle"
  BY <1>1, SMT DEF Knows
<1>3. b \in Seq(Record)
  BY <1>1, <1>2, RolloverFits, Split, Zenon
<1>4. Bounded(b)
  BY <1>1, <1>2, RolloverBounded, Zenon
<1>5. Grows(v, b)
  BY Zenon DEF StoreRollover, Grows
<1> HIDE DEF v, b
<1> QED BY <1>1, <1>3, <1>4, <1>5, GrowsBounded, Zenon

LEMMA NextBounded == JInv /\ SegmentsBounded /\ [Next]_vars => SegmentsBounded'
<1> SUFFICES ASSUME JInv, SegmentsBounded, [Next]_vars PROVE SegmentsBounded'
  OBVIOUS
<1>1. ASSUME delta' = delta PROVE SegmentsBounded'
  BY <1>1, Zenon DEF SegmentsBounded
<1>2. ASSUME NEW size \in Sizes, Write(size) PROVE SegmentsBounded'
  BY <1>1, <1>2, Zenon DEF Write, github
<1>3. ASSUME NEW t \in Thread, Flush(t) PROVE SegmentsBounded'
  <2>1. CASE Drain(t) \/ DrainEmpty(t) \/ List(t) \/ Get(t) \/ CallFails(t)
    BY <1>1, <2>1, Zenon DEF Drain, DrainEmpty, List, Get, CallFails, github
  <2>2. CASE PutActive(t)
    BY <2>2, StoreActiveBounded, Zenon DEF PutActive
  <2>3. CASE PutRollover(t)
    BY <2>3, StoreRolloverBounded, Zenon DEF PutRollover
  <2>4. CASE ResponseLost(t)
    BY <2>4, StoreActiveBounded, StoreRolloverBounded, Zenon DEF ResponseLost
  <2> QED BY <1>3, <2>1, <2>2, <2>3, <2>4, Zenon DEF Flush, FlushCall
<1>4. ASSUME CkptBegin \/ CkptAcquired \/ CkptTaken \/ CkptFails \/ Snapshot \/ CkptDone
      PROVE  SegmentsBounded'
  BY <1>1, <1>4, Zenon DEF CkptBegin, CkptAcquired, CkptTaken, CkptFails, Snapshot, CkptDone, github
<1>5. ASSUME OtherWritesNext \/ PollFindsNext \/ Close \/ Crash \/ UNCHANGED vars
      PROVE  SegmentsBounded'
  BY <1>1, <1>5, Zenon DEF OtherWritesNext, PollFindsNext, Close, Crash, vars, github
<1> QED BY <1>2, <1>3, <1>4, <1>5, Zenon DEF Next

\* No segment grows past either cap, unless one record is too large for any,
\* however the batches are cut, retried and taken up again.
THEOREM SegmentsStayBounded == Spec => []SegmentsBounded
<1>1. Init => SegmentsBounded
  <2> SUFFICES ASSUME Init, NEW v \in Version PROVE DOMAIN delta[v] = {}
    BY Zenon DEF SegmentsBounded
  <2>1. delta[v] = <<>>
    BY Zenon DEF Init
  <2> QED BY <2>1
<1> HIDE DEF JInv, SegmentsBounded, vars
<1> QED BY <1>1, DataInvariant, NextBounded, PTL DEF Spec

=============================================================================
