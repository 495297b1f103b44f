---------------------------- MODULE TxTracer_proofs ----------------------------
(***************************************************************************)
(* Proofs about TxTracer: for lists of transactions of any length, any      *)
(* failures, and any use the caller makes of the iterator.                  *)
(***************************************************************************)
EXTENDS TxTracer, SequenceTheorems, TLAPS

Traces ==
    [tx : Transactions, run : Nat, inspector : Seq(Nat), db : Seq(Transactions),
     fused : BOOLEAN, last : BOOLEAN, asked : BOOLEAN]

\* Executions are numbered as they come: nothing recorded is newer than the last.
OlderThan(sequence, run) == \A i \in DOMAIN sequence : sequence[i] < run

TraceInv ==
    /\ runs \in Nat /\ fuse \in BOOLEAN
    /\ todo \in Seq(Transactions) /\ db \in Seq(Transactions)
    /\ traces \in Seq(Traces)
    /\ inspector \in Seq(Nat) /\ OlderThan(inspector, runs)
    /\ \A k \in 1 .. Len(traces) :
          traces[k].run < runs /\ OlderThan(traces[k].inspector, runs)

LEMMA StillOlder ==
    ASSUME NEW run \in Nat, NEW sequence \in Seq(Nat), OlderThan(sequence, run)
    PROVE  OlderThan(sequence, run + 1)
BY DEF OlderThan

\* What the invariant says of one trace.
LEMMA TraceTypes ==
    ASSUME TraceInv, NEW k \in 1 .. Len(traces)
    PROVE  /\ traces[k].run \in Nat /\ traces[k].run < runs /\ runs \in Nat
           /\ traces[k].inspector \in Seq(Nat)
           /\ OlderThan(traces[k].inspector, runs)
<1>1. traces[k] \in Traces
  BY DEF TraceInv
<1>2. traces[k].run \in Nat /\ traces[k].inspector \in Seq(Nat)
  BY <1>1, Zenon DEF Traces
<1>3. QED
  BY <1>2 DEF TraceInv

LEMMA RunAppended ==
    ASSUME TraceInv
    PROVE  /\ InspectorAfterOk \in Seq(Nat)
           /\ Last(InspectorAfterOk) = runs
           /\ OlderThan(InspectorAfterOk, runs + 1)
           /\ \A r : r \in Range(InspectorAfterOk) <=> r \in Range(inspector) \cup {runs}
<1>1. /\ inspector \in Seq(Nat) /\ runs \in Nat
      /\ \A i \in 1 .. Len(inspector) : inspector[i] < runs
  BY DEF TraceInv, OlderThan
<1>2. /\ InspectorAfterOk \in Seq(Nat)
      /\ Len(InspectorAfterOk) = Len(inspector) + 1
      /\ DOMAIN InspectorAfterOk = 1 .. Len(inspector) + 1
      /\ DOMAIN inspector = 1 .. Len(inspector)
      /\ \A i \in 1 .. Len(inspector) : InspectorAfterOk[i] = inspector[i]
      /\ InspectorAfterOk[Len(inspector) + 1] = runs
  BY <1>1 DEF InspectorAfterOk
<1>3. OlderThan(InspectorAfterOk, runs + 1)
  <2>1. ASSUME NEW i \in 1 .. Len(inspector) + 1 PROVE InspectorAfterOk[i] < runs + 1
    <3>1. CASE i = Len(inspector) + 1
      BY <1>1, <1>2, <3>1
    <3>2. CASE i # Len(inspector) + 1
      <4>1. i \in 1 .. Len(inspector)
        BY <1>1, <3>2
      <4>2. InspectorAfterOk[i] = inspector[i] /\ inspector[i] < runs /\ inspector[i] \in Nat
        BY <1>1, <1>2, <4>1
      <4>3. QED
        BY <1>1, <4>2
    <3>3. QED
      BY <3>1, <3>2
  <2>2. QED
    BY <1>2, <2>1 DEF OlderThan
<1>4. \A r : r \in Range(InspectorAfterOk) <=> r \in Range(inspector) \cup {runs}
  BY <1>2 DEF Range
<1>5. QED
  BY <1>2, <1>3, <1>4 DEF Last

\* A trace that is handed out becomes the last of the traces.
LEMMA TraceAppended ==
    ASSUME TraceInv, NEW tx \in Transactions, NEW fused \in BOOLEAN,
           traces' = Append(traces, Trace(tx, fused))
    PROVE  /\ Trace(tx, fused) \in Traces
           /\ traces' \in Seq(Traces)
           /\ Len(traces') = Len(traces) + 1
           /\ traces'[Len(traces) + 1] = Trace(tx, fused)
           /\ \A k \in 1 .. Len(traces) : traces'[k] = traces[k]
<1>1. Trace(tx, fused) \in Traces
  BY RunAppended DEF TraceInv, Trace, Traces
<1>2. QED
  BY <1>1 DEF TraceInv

LEMMA TraceInvariant == Spec => []TraceInv
<1>1. Init => TraceInv
  BY DEF Init, TraceInv, FusedInspector, OlderThan
<1>2. TraceInv /\ [Next]_vars => TraceInv'
  <2> SUFFICES ASSUME TraceInv, [Next]_vars PROVE TraceInv'
    OBVIOUS
  <2>1. ASSUME runs' = runs + 1,
               inspector' \in {<<>>, inspector, InspectorAfterOk}
        PROVE  inspector' \in Seq(Nat) /\ OlderThan(inspector, runs)' /\ runs' \in Nat
    <3>1. CASE inspector' = <<>>
      BY <2>1, <3>1 DEF TraceInv, OlderThan
    <3>2. CASE inspector' = inspector
      BY <2>1, <3>2 DEF TraceInv, OlderThan
    <3>3. CASE inspector' = InspectorAfterOk
      BY <2>1, <3>3, RunAppended DEF TraceInv, OlderThan
    <3>4. QED
      BY <2>1, <3>1, <3>2, <3>3
  <2>2. ASSUME runs' = runs + 1,
               \/ UNCHANGED traces
               \/ \E tx \in Transactions, fused \in BOOLEAN :
                     traces' = Append(traces, Trace(tx, fused))
        PROVE  /\ traces' \in Seq(Traces)
               /\ \A k \in 1 .. Len(traces') :
                     traces'[k].run < runs' /\ OlderThan(traces[k].inspector, runs)'
    <3>1. CASE UNCHANGED traces
      <4>1. ASSUME NEW k \in 1 .. Len(traces)
            PROVE  traces[k].run < runs + 1 /\ OlderThan(traces[k].inspector, runs + 1)
        BY TraceTypes, StillOlder
      <4>2. QED
        BY <2>2, <3>1, <4>1 DEF TraceInv
    <3>2. ASSUME NEW tx \in Transactions, NEW fused \in BOOLEAN,
                 traces' = Append(traces, Trace(tx, fused)),
                 NEW k \in 1 .. Len(traces')
          PROVE  traces'[k].run < runs' /\ OlderThan(traces[k].inspector, runs)'
      <4>1. CASE k = Len(traces) + 1
        <5>1. traces'[k].run = runs /\ traces'[k].inspector = InspectorAfterOk
          BY <3>2, <4>1, TraceAppended DEF Trace
        <5>2. QED
          BY <2>2, <5>1, RunAppended DEF OlderThan, TraceInv
      <4>2. CASE k # Len(traces) + 1
        <5>1. k \in 1 .. Len(traces) /\ traces'[k] = traces[k]
          BY <3>2, <4>2, TraceAppended DEF TraceInv
        <5>2. /\ traces[k].run < runs /\ OlderThan(traces[k].inspector, runs)
              /\ traces[k].run \in Nat /\ traces[k].inspector \in Seq(Nat)
              /\ runs \in Nat
          BY <5>1, TraceTypes
        <5>3. QED
          BY <2>2, <5>1, <5>2, StillOlder
      <4>3. QED
        BY <4>1, <4>2
    <3>3. QED
      BY <2>2, <3>1, <3>2, TraceAppended
  <2>3. ASSUME NEW tx \in Transactions, TraceOne(tx) PROVE TraceInv'
    <3>1. Append(db, tx) \in Seq(Transactions) /\ db \in Seq(Transactions)
      BY DEF TraceInv
    <3>2. db' \in Seq(Transactions)
      BY <2>3, <3>1, Zenon DEF TraceOne
    <3>3. QED
      BY <2>1, <2>2, <2>3, <3>2 DEF TraceOne, TraceInv, FusedInspector, flags
  <2>4. ASSUME NEW list \in Lists, TryTraceMany(list) PROVE TraceInv'
    BY <2>4, ListsAssumption DEF TryTraceMany, TraceInv, OlderThan
  <2>5. CASE CommitLastTx \/ NoFuse \/ NextNone \/ UNCHANGED vars
    BY <2>5 DEF CommitLastTx, NoFuse, NextNone, vars, flags, TraceInv, OlderThan
  <2>6. CASE DropIter
    BY <2>6 DEF DropIter, flags, TraceInv, OlderThan
  <2>7. CASE NextSome
    <3>1. Head(todo) \in Transactions /\ Tail(todo) \in Seq(Transactions)
      BY <2>7 DEF NextSome, TraceInv
    <3>2. db' \in Seq(Transactions)
      BY <2>7, <3>1 DEF NextSome, NextOutcome, TraceInv
    <3>3. PICK taken \in BOOLEAN :
            /\ traces' = Append(traces, Trace(Head(todo), taken \/ fuse))
            /\ inspector' = InspectorAfterHook(taken)
      BY <2>7 DEF NextSome, NextOutcome
    <3>4. (taken \/ fuse) \in BOOLEAN
      OBVIOUS
    <3>5. inspector' \in {<<>>, inspector, InspectorAfterOk}
      BY <3>3 DEF InspectorAfterHook, FusedInspector
    <3>6. QED
      BY <2>1, <2>2, <2>7, <3>1, <3>2, <3>3, <3>4, <3>5 DEF NextSome, TraceInv, flags
  <2>8. CASE NextFails
    <3>1. Tail(todo) \in Seq(Transactions)
      BY <2>8 DEF NextFails, TraceInv
    <3>2. QED
      BY <2>1, <2>2, <2>8, <3>1 DEF NextFails, InspectorsAfterErr, TraceInv, flags
  <2>9. QED
    BY <2>3, <2>4, <2>5, <2>6, <2>7, <2>8 DEF Next
<1>3. QED
  BY <1>1, <1>2, PTL DEF Spec

-----------------------------------------------------------------------------
(***************************************************************************)
(* Attribution                                                              *)
(***************************************************************************)

\* As long as inspectors are fused, the one in use holds nothing that was handed
\* out already.
InspectorFresh ==
    FusedUpTo(Len(traces)) =>
        \A j \in 1 .. Len(traces) : traces[j].run \notin Range(inspector)

AttributionInv == TracesAttributed /\ InspectorFresh

\* Handing out one more trace, and what the inspector may be afterwards.
LEMMA AttributionStep ==
    ASSUME TraceInv, AttributionInv, NEW tx \in Transactions, NEW fused \in BOOLEAN,
           traces' = Append(traces, Trace(tx, fused)),
           fused => inspector' = <<>>
    PROVE  AttributionInv'
<1> DEFINE n == Len(traces)
<1>1. /\ n \in Nat /\ Len(traces') = n + 1
      /\ traces'[n + 1] = Trace(tx, fused)
      /\ \A k \in 1 .. n : traces'[k] = traces[k]
  BY TraceAppended DEF TraceInv
<1> HIDE DEF n
<1>2. /\ traces'[n + 1].run = runs
      /\ traces'[n + 1].inspector = InspectorAfterOk
      /\ traces'[n + 1].fused = fused
  BY <1>1 DEF Trace
<1>3. \A k \in 0 .. n : FusedUpTo(k)' <=> FusedUpTo(k)
  BY <1>1 DEF FusedUpTo
<1>4. ASSUME NEW k \in 1 .. n + 1
      PROVE  /\ Last(traces'[k].inspector) = traces'[k].run
             /\ FusedUpTo(k - 1)' =>
                  \A j \in 1 .. n + 1 :
                     j # k => traces'[j].run \notin Range(traces'[k].inspector)
  <2>1. CASE k = n + 1
    <3>1. Last(traces'[k].inspector) = traces'[k].run
      BY <1>2, <2>1, RunAppended
    <3>2. ASSUME FusedUpTo(k - 1)', NEW j \in 1 .. n
          PROVE  traces'[j].run \notin Range(traces'[k].inspector)
      <4>1. FusedUpTo(n)
        BY <1>1, <1>3, <2>1, <3>2
      <4>2. traces[j].run \notin Range(inspector)
        BY <4>1, <3>2 DEF AttributionInv, InspectorFresh, n
      <4>3. traces[j].run # runs
        BY <3>2, TraceTypes DEF n
      <4>4. QED
        BY <1>1, <1>2, <2>1, <4>2, <4>3, RunAppended
    <3>3. QED
      BY <1>1, <2>1, <3>1, <3>2
  <2>2. CASE k # n + 1
    <3>1. k \in 1 .. n /\ traces'[k] = traces[k] /\ k - 1 \in 0 .. n
      BY <1>1, <2>2
    <3>2. /\ Last(traces[k].inspector) = traces[k].run
          /\ FusedUpTo(k - 1) =>
               \A j \in 1 .. n : j # k => traces[j].run \notin Range(traces[k].inspector)
      BY <3>1 DEF AttributionInv, TracesAttributed, n
    <3>3. runs \notin Range(traces[k].inspector)
      <4>1. OlderThan(traces[k].inspector, runs) /\ runs \in Nat
            /\ traces[k].inspector \in Seq(Nat)
        BY <3>1, TraceTypes DEF n
      <4>2. QED
        BY <4>1 DEF OlderThan, Range
    <3>4. QED
      BY <1>1, <1>2, <1>3, <3>1, <3>2, <3>3
  <2>3. QED
    BY <2>1, <2>2
<1>5. InspectorFresh'
  <2>1. CASE fused
    BY <2>1 DEF InspectorFresh, Range
  <2>2. CASE ~fused
    BY <1>1, <1>2, <2>2 DEF InspectorFresh, FusedUpTo
  <2>3. QED
    BY <2>1, <2>2
<1>6. QED
  BY <1>1, <1>4, <1>5 DEF AttributionInv, TracesAttributed

LEMMA AttributionInvariant == Spec => []AttributionInv
<1>1. Init => AttributionInv
  BY DEF Init, AttributionInv, TracesAttributed, InspectorFresh
<1>2. TraceInv /\ AttributionInv /\ [Next]_vars => AttributionInv'
  <2> SUFFICES ASSUME TraceInv, AttributionInv, [Next]_vars PROVE AttributionInv'
    OBVIOUS
  <2>1. CASE UNCHANGED traces /\ inspector' \in {<<>>, inspector, InspectorAfterOk}
    <3>1. \A j \in 1 .. Len(traces) :
            traces[j].run \notin Range(inspector) => traces[j].run \notin Range(inspector')
      <4>1. \A j \in 1 .. Len(traces) : traces[j].run # runs
        BY TraceTypes
      <4>2. CASE inspector' = <<>>
        BY <4>2 DEF Range
      <4>3. CASE inspector' = inspector
        BY <4>3
      <4>4. CASE inspector' = InspectorAfterOk
        BY <4>1, <4>4, RunAppended
      <4>5. QED
        BY <2>1, <4>2, <4>3, <4>4
    <3>2. QED
      BY <2>1, <3>1 DEF AttributionInv, TracesAttributed, InspectorFresh, FusedUpTo
  <2>2. ASSUME NEW tx \in Transactions, TraceOne(tx) PROVE AttributionInv'
    <3>1. CASE traces' = Append(traces, Trace(tx, TRUE))
      BY <2>2, <3>1, AttributionStep DEF TraceOne, FusedInspector
    <3>2. CASE UNCHANGED traces
      BY <2>1, <2>2, <3>2 DEF TraceOne, FusedInspector
    <3>3. QED
      BY <2>2, <3>1, <3>2 DEF TraceOne
  <2>3. CASE NextSome
    <3>1. PICK taken \in BOOLEAN :
            /\ traces' = Append(traces, Trace(Head(todo), taken \/ fuse))
            /\ inspector' = InspectorAfterHook(taken)
      BY <2>3 DEF NextSome, NextOutcome
    <3>2. Head(todo) \in Transactions
      BY <2>3 DEF NextSome, TraceInv
    <3>3. (taken \/ fuse) \in BOOLEAN
      OBVIOUS
    <3>4. (taken \/ fuse) => inspector' = <<>>
      BY <3>1 DEF InspectorAfterHook, FusedInspector
    <3>5. QED
      BY <3>1, <3>2, <3>3, <3>4, AttributionStep
  <2>4. QED
    BY <2>1, <2>2, <2>3
    DEF Next, TryTraceMany, CommitLastTx, NoFuse, NextFails, NextNone, DropIter, vars,
        InspectorsAfterErr
<1>3. QED
  BY <1>1, <1>2, TraceInvariant, PTL DEF Spec

\* A trace ends with its own execution and, as long as inspectors are fused,
\* holds no other one that was handed out, for lists of any length.
THEOREM Attribution == Spec => []TracesAttributed
BY AttributionInvariant, PTL DEF AttributionInv

-----------------------------------------------------------------------------
(***************************************************************************)
(* Commits                                                                  *)
(***************************************************************************)

\* No transaction is to come once the last of the list was traced, so that the
\* one left out stays the last one.
HistoryInv ==
    /\ before \in 0 .. Len(traces) /\ base \in Seq(Transactions)
    /\ TracedAreCommitted /\ HookSeesPredecessors
    /\ iter # "none" /\ Traced # <<>> /\ Last(traces).last => todo = <<>>

LEMMA AppendToConcat ==
    \A s, t \in Seq(Transactions), e \in Transactions :
        Append(s \o t, e) = s \o Append(t, e)
<1> TAKE s, t \in Seq(Transactions), e \in Transactions
<1>1. <<e>> \in Seq(Transactions) /\ s \o t \in Seq(Transactions)
  BY ConcatProperties
<1>2. Append(s \o t, e) = (s \o t) \o <<e>> /\ Append(t, e) = t \o <<e>>
  BY <1>1, AppendIsConcat
<1>3. (s \o t) \o <<e>> = s \o (t \o <<e>>)
  BY <1>1, ConcatAssociative
<1>4. QED
  BY <1>2, <1>3

LEMMA TracedSequence ==
    ASSUME TraceInv, before \in 0 .. Len(traces)
    PROVE  /\ Traced \in Seq(Transactions)
           /\ Len(Traced) = Len(traces) - before
           /\ \A i \in 1 .. Len(Traced) : Traced[i] = traces[before + i].tx
<1> DEFINE n == Len(traces) - before
<1>1. n \in Nat
  BY DEF TraceInv
<1>2. ASSUME NEW i \in 1 .. n PROVE traces[before + i].tx \in Transactions
  <2>1. before + i \in 1 .. Len(traces)
    BY <1>2 DEF TraceInv
  <2>2. traces[before + i] \in Traces
    BY <2>1 DEF TraceInv
  <2>3. QED
    BY <2>2, Zenon DEF Traces
<1>3. Traced \in [1 .. n -> Transactions]
  BY <1>2 DEF Traced
<1>4. Traced \in Seq(Transactions) /\ Len(Traced) = n
  BY <1>1, <1>3
<1>5. QED
  BY <1>4 DEF Traced

\* One more transaction has been traced.
LEMMA TracedAppended ==
    ASSUME TraceInv, before \in 0 .. Len(traces), UNCHANGED before,
           NEW tx \in Transactions, NEW fused \in BOOLEAN,
           traces' = Append(traces, Trace(tx, fused))
    PROVE  /\ Traced' = Append(Traced, tx)
           /\ Front(Traced') = Traced
           /\ \A i \in 0 .. Len(Traced) : SubSeq(Traced', 1, i) = SubSeq(Traced, 1, i)
<1> DEFINE n == Len(Traced)
<1>1. /\ Traced \in Seq(Transactions) /\ n \in Nat
      /\ Len(traces) = before + n /\ before \in Nat
      /\ \A i \in 1 .. n : Traced[i] = traces[before + i].tx
  BY TracedSequence DEF TraceInv
<1>2. /\ traces' \in Seq(Traces) /\ Len(traces') = Len(traces) + 1
      /\ traces'[Len(traces) + 1].tx = tx
      /\ \A k \in 1 .. Len(traces) : traces'[k] = traces[k]
  BY TraceAppended DEF Trace
<1>3. Traced' = [i \in 1 .. n + 1 |-> traces'[before + i].tx]
  BY <1>1, <1>2 DEF Traced
<1>4. \A i \in 1 .. n : Traced'[i] = Traced[i]
  BY <1>1, <1>2, <1>3
<1>5. Traced'[n + 1] = tx
  BY <1>1, <1>2, <1>3
<1>6. Traced' \in [1 .. n + 1 -> Transactions]
  <2>1. ASSUME NEW i \in 1 .. n + 1 PROVE traces'[before + i].tx \in Transactions
    <3>1. CASE i = n + 1
      BY <1>1, <1>2, <3>1
    <3>2. CASE i # n + 1
      <4>1. i \in 1 .. n /\ traces'[before + i].tx = Traced[i]
        BY <1>1, <1>2, <3>2
      <4>2. QED
        BY <1>1, <4>1
    <3>3. QED
      BY <3>1, <3>2
  <2>2. QED
    BY <1>3, <2>1
<1>7. Traced' \in Seq(Transactions) /\ Len(Traced') = n + 1
  BY <1>1, <1>6, SMTT(30)
<1> HIDE DEF n
<1>8. Traced' = Append(Traced, tx)
  <2>1. /\ Append(Traced, tx) \in Seq(Transactions)
        /\ Len(Append(Traced, tx)) = n + 1
        /\ \A i \in 1 .. n : Append(Traced, tx)[i] = Traced[i]
        /\ Append(Traced, tx)[n + 1] = tx
    BY <1>1, AppendProperties DEF n
  <2>2. \A i \in 1 .. n + 1 : i \in 1 .. n \/ i = n + 1
    BY <1>1
  <2>3. \A i \in 1 .. Len(Traced') : Traced'[i] = Append(Traced, tx)[i]
    BY <1>4, <1>5, <1>7, <2>1, <2>2
  <2>4. QED
    BY <1>7, <2>1, <2>3, SeqEqual
<1>9. ASSUME NEW i \in 0 .. n PROVE SubSeq(Traced', 1, i) = SubSeq(Traced, 1, i)
  <2>1. /\ \A j \in 1 .. i : Traced'[j] \in Transactions /\ Traced[j] \in Transactions
        /\ i \in Int /\ i \in Nat
    BY <1>1, <1>4, ElementOfSeq DEF n
  <2>2. /\ SubSeq(Traced, 1, i) \in Seq(Transactions)
        /\ Len(SubSeq(Traced, 1, i)) = i
        /\ \A j \in 1 .. i : SubSeq(Traced, 1, i)[j] = Traced[j]
    BY <2>1, SubSeqProperties
  <2>3. /\ SubSeq(Traced', 1, i) \in Seq(Transactions)
        /\ Len(SubSeq(Traced', 1, i)) = i
        /\ \A j \in 1 .. i : SubSeq(Traced', 1, i)[j] = Traced'[j]
    BY <2>1, SubSeqProperties
  <2>4. \A j \in 1 .. i : SubSeq(Traced', 1, i)[j] = SubSeq(Traced, 1, i)[j]
    BY <1>1, <1>4, <2>2, <2>3
  <2>5. QED
    BY <2>2, <2>3, <2>4, SeqEqual
<1>10. Front(Traced') = Traced
  <2>1. n \in 0 .. n /\ Len(Traced') - 1 = n
    BY <1>1, <1>7
  <2>2. Front(Traced') = SubSeq(Traced, 1, n)
    BY <1>9, <2>1 DEF Front
  <2>3. QED
    BY <1>1, <2>2, SubSeqFull DEF n
<1>11. QED
  BY <1>8, <1>9, <1>10 DEF n

LEMMA HistoryInvariant == Spec => []HistoryInv
<1>1. Init => HistoryInv
  BY DEF Init, HistoryInv, TracedAreCommitted, HookSeesPredecessors
<1>2. TraceInv /\ HistoryInv /\ [Next]_vars => HistoryInv'
  <2> SUFFICES ASSUME TraceInv, HistoryInv, [Next]_vars PROVE HistoryInv'
    OBVIOUS
  <2>1. ASSUME NEW tx \in Transactions, TraceOne(tx) PROVE HistoryInv'
    <3>1. traces' = traces \/ traces' = Append(traces, Trace(tx, TRUE))
      BY <2>1 DEF TraceOne
    <3>2. Len(traces) \in Nat /\ Len(traces') \in Nat /\ Len(traces') >= Len(traces)
      <4>1. Len(traces) \in Nat
        BY DEF TraceInv
      <4>2. CASE traces' = traces
        BY <4>1, <4>2
      <4>3. CASE traces' = Append(traces, Trace(tx, TRUE))
        <5>1. Len(traces') = Len(traces) + 1
          BY <4>3, TraceAppended
        <5>2. QED
          BY <4>1, <5>1
      <4>4. QED
        BY <3>1, <4>2, <4>3
    <3>3. iter' = "none" /\ before' = before /\ base' = base
      BY <2>1 DEF TraceOne, ghosts
    <3>4. QED
      BY <3>2, <3>3 DEF HistoryInv, TracedAreCommitted, HookSeesPredecessors
  <2>2. ASSUME NEW list \in Lists, TryTraceMany(list) PROVE HistoryInv'
    <3>1. base' = db /\ db' = db /\ before' = Len(traces) /\ traces' = traces
      BY <2>2 DEF TryTraceMany
    <3>2. db \in Seq(Transactions) /\ Len(traces) \in Nat
      BY DEF TraceInv
    <3>3. Traced' = <<>> /\ Len(Traced') = 0
      BY <3>1, <3>2 DEF Traced
    <3>4. db' = base' \o Traced'
      BY <3>1, <3>2, <3>3, ConcatEmptySeq
    <3>5. QED
      BY <3>1, <3>2, <3>3, <3>4
      DEF HistoryInv, TracedAreCommitted, LastLeftOut, HookSeesPredecessors
  <2>3. CASE NextSome
    <3>1. PICK taken \in BOOLEAN :
            traces' = Append(traces, Trace(Head(todo), taken \/ fuse))
      BY <2>3 DEF NextSome, NextOutcome
    <3>2. /\ (taken \/ fuse) \in BOOLEAN
          /\ Head(todo) \in Transactions
          /\ before' = before /\ base' = base /\ todo' = Tail(todo) /\ iter # "none"
          /\ before \in 0 .. Len(traces) /\ base \in Seq(Transactions)
      BY <2>3 DEF NextSome, TraceInv, HistoryInv, ghosts
    <3>3. /\ Traced' = Append(Traced, Head(todo))
          /\ Front(Traced') = Traced
          /\ \A i \in 0 .. Len(Traced) : SubSeq(Traced', 1, i) = SubSeq(Traced, 1, i)
      BY <3>1, <3>2, TracedAppended
    <3>4. /\ Traced \in Seq(Transactions)
          /\ Len(Traced') = Len(Traced) + 1 /\ Traced' # <<>>
          /\ Len(traces) = before + Len(Traced) /\ Len(Traced) \in Nat
          /\ before \in Nat
      <4>1. /\ Traced \in Seq(Transactions)
            /\ Len(Traced) = Len(traces) - before /\ Len(Traced) \in Nat
            /\ Len(traces) \in Nat
        BY <3>2, TracedSequence DEF TraceInv
      <4>2. Append(Traced, Head(todo)) # <<>>
            /\ Len(Append(Traced, Head(todo))) = Len(Traced) + 1
        BY <3>2, <4>1, AppendProperties
      <4>3. QED
        BY <3>2, <3>3, <4>1, <4>2
    <3>5. db = base \o Traced
      BY <2>3 DEF NextSome, HistoryInv, TracedAreCommitted, LastLeftOut
    <3>10. /\ Last(traces').last <=> todo' = <<>>
           /\ Last(traces').asked <=> ~skipLastCommit
           /\ LastLeftOut' <=> todo' = <<>> /\ skipLastCommit
      <4> DEFINE trace == Trace(Head(todo), taken \/ fuse)
      <4>1. /\ Len(traces') = Len(traces) + 1
            /\ traces'[Len(traces) + 1] = trace
        BY <3>1, <3>2, TraceAppended
      <4>2. Last(traces') = trace
        BY <4>1 DEF Last
      <4>3. todo \in Seq(Transactions) /\ todo # <<>> /\ todo' = Tail(todo)
        BY <2>3 DEF NextSome, TraceInv
      <4>4. Len(todo) = 1 <=> todo' = <<>>
        <5>1. /\ Len(todo) \in Nat /\ Len(todo) # 0
              /\ Tail(todo) \in Seq(Transactions) /\ Len(Tail(todo)) = Len(todo) - 1
          BY <4>3, EmptySeq, HeadTailProperties
        <5>2. Tail(todo) = <<>> <=> Len(Tail(todo)) = 0
          BY <5>1, EmptySeq
        <5>3. QED
          BY <4>3, <5>1, <5>2
      <4>5. (trace.last <=> Len(todo) = 1) /\ (trace.asked <=> ~skipLastCommit)
        BY DEF Trace
      <4> HIDE DEF trace
      <4>6. QED
        BY <3>4, <4>2, <4>4, <4>5 DEF LastLeftOut
    <3>6. TracedAreCommitted'
      <4>1. CASE Commits(Tail(todo))
        <5>1. db' = Append(db, Head(todo))
          BY <2>3, <4>1 DEF NextSome, NextOutcome
        <5>2. Append(base \o Traced, Head(todo)) = base \o Append(Traced, Head(todo))
          BY <3>2, <3>4, AppendToConcat, Zenon
        <5>3. ~LastLeftOut'
          BY <3>2, <3>10, <4>1 DEF Commits
        <5>4. QED
          BY <3>2, <3>3, <3>5, <5>1, <5>2, <5>3 DEF TracedAreCommitted
      <4>2. CASE ~Commits(Tail(todo))
        <5>1. db' = db /\ LastLeftOut'
          BY <2>3, <3>10, <4>2 DEF NextSome, NextOutcome, Commits
        <5>2. QED
          BY <3>2, <3>3, <3>5, <5>1 DEF TracedAreCommitted
      <4>3. QED
        BY <4>1, <4>2
    <3>7. HookSeesPredecessors'
      <4>1. ASSUME NEW i \in 1 .. Len(Traced')
            PROVE  traces'[before + i].db = base \o SubSeq(Traced', 1, i - 1)
        <5>1. i - 1 \in 0 .. Len(Traced)
          BY <3>4
        <5>2. SubSeq(Traced', 1, i - 1) = SubSeq(Traced, 1, i - 1)
          BY <3>3, <5>1
        <5>3. CASE i = Len(Traced')
          <6>1. traces'[before + i].db = db
            <7>1. before + i = Len(traces) + 1
              BY <3>4, <5>3
            <7>2. QED
              BY <3>1, <3>2, <7>1, TraceAppended DEF Trace
          <6>2. SubSeq(Traced, 1, i - 1) = Traced
            BY <3>4, <5>3, SubSeqFull
          <6>3. QED
            BY <3>5, <5>2, <6>1, <6>2
        <5>4. CASE i # Len(Traced')
          <6>1. i \in 1 .. Len(Traced) /\ before + i \in 1 .. Len(traces)
            BY <3>4, <5>4
          <6>2. traces'[before + i] = traces[before + i]
            BY <3>1, <3>2, <6>1, TraceAppended
          <6>3. QED
            BY <3>2, <5>2, <6>1, <6>2 DEF HistoryInv, HookSeesPredecessors
        <5>5. QED
          BY <5>3, <5>4
      <4>2. QED
        BY <3>2, <4>1 DEF HookSeesPredecessors
    <3>8. before' \in 0 .. Len(traces')
      BY <3>1, <3>2, <3>4, TraceAppended
    <3>9. QED
      BY <3>2, <3>6, <3>7, <3>8, <3>10 DEF HistoryInv
  <2>4. CASE CommitLastTx \/ NoFuse \/ NextNone \/ NextFails \/ UNCHANGED vars
    <3>1. /\ UNCHANGED <<db, traces, base, before>>
          /\ iter' # "none" => iter # "none"
          /\ todo' = todo \/ todo # <<>>
      BY <2>4 DEF CommitLastTx, NoFuse, NextNone, NextFails, vars, ghosts
    <3>2. Traced' = Traced /\ LastLeftOut' = LastLeftOut
      BY <3>1 DEF Traced, LastLeftOut
    <3>3. QED
      BY <3>1, <3>2 DEF HistoryInv, TracedAreCommitted, HookSeesPredecessors
  <2>5. CASE DropIter
    BY <2>5 DEF DropIter, ghosts, HistoryInv, TracedAreCommitted, HookSeesPredecessors
  <2>6. QED
    BY <2>1, <2>2, <2>3, <2>4, <2>5 DEF Next
<1>3. QED
  BY <1>1, <1>2, TraceInvariant, PTL DEF Spec

\* While an iterator is in use the database holds every transaction it traced,
\* in order, but the last of its list unless that was asked for in time: nothing
\* else is left out, and nothing is committed twice.
THEOREM CommitsTraced == Spec => []TracedAreCommitted
BY HistoryInvariant, PTL DEF HistoryInv

\* The hook sees the database its transaction was executed on.
THEOREM HookBeforeCommit == Spec => []HookSeesPredecessors
BY HistoryInvariant, PTL DEF HistoryInv

=============================================================================
