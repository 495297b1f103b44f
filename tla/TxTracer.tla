------------------------------- MODULE TxTracer -------------------------------
(***************************************************************************)
(* TxTracer and TracerIter (crates/evm/src/tracing.rs): transactions are     *)
(* executed one after the other on one EVM whose inspector records them.    *)
(* "Fusing" replaces the inspector by a clone of the one the tracer was      *)
(* created with, so that every transaction is traced on its own.             *)
(*                                                                          *)
(* The EVM is external: a transaction executes or fails, and the inspector  *)
(* records it when it executes and possibly when it fails.  Executions are   *)
(* numbered; an inspector is the sequence of the executions it recorded      *)
(* since it was fused, the database the sequence of the transactions that    *)
(* were committed.  trace and next run to their end, the hook included; the  *)
(* caller interleaves them, the builder methods of the iterator and          *)
(* dropping it as it likes.                                                 *)
(***************************************************************************)
EXTENDS SequencesExt, Naturals

CONSTANTS
    Transactions,
    Lists,            \* the transactions an iterator is created with
    MaxRuns           \* bound on the transactions executed

VARIABLES
    db,               \* what was committed
    inspector,        \* the EVM's inspector
    iter,             \* "none", "open", or "ended": next last returned None
    txs, todo,        \* the transactions of the iterator, and those to come
    skipLastCommit,
    fuse,
    traces,           \* ghost: what was handed to the caller, in order
    base,             \* ghost: db when the iterator was created
    before,           \* ghost: Len(traces) when the iterator was created
    runs              \* ghost: the number of transactions executed so far

flags == <<skipLastCommit, fuse>>
ghosts == <<base, before>>
vars == <<db, inspector, iter, txs, todo, flags, traces, ghosts, runs>>

\* The inspector the tracer was created with: nothing recorded.
FusedInspector == <<>>

\* Evm::transact with an inspector: Ok, or Err before or while running.
InspectorAfterOk == Append(inspector, runs)
InspectorsAfterErr == {inspector, InspectorAfterOk}

\* What the caller gets to see of the current execution, and of its
\* circumstances: whether the inspector is fused after it, whether its
\* transaction was the last of a list, and whether that one is to be committed.
Trace(tx, fused) ==
    [tx |-> tx, run |-> runs, inspector |-> InspectorAfterOk, db |-> db,
     fused |-> fused, last |-> Len(todo) = 1, asked |-> ~skipLastCommit]

-----------------------------------------------------------------------------
\* TxTracer::trace: transact_commit, then fuse whatever came out.
TraceOne(tx) ==
    /\ iter = "none" /\ runs < MaxRuns /\ runs' = runs + 1
    /\ inspector' = FusedInspector
    /\ \/ /\ db' = Append(db, tx)
          /\ traces' = Append(traces, Trace(tx, TRUE))
       \/ UNCHANGED <<db, traces>>
    /\ UNCHANGED <<iter, txs, todo, flags, ghosts>>

\* TxTracer::trace_many and try_trace_many.
TryTraceMany(list) ==
    /\ iter = "none" /\ runs < MaxRuns
    /\ iter' = "open"
    /\ txs' = list /\ todo' = list
    /\ skipLastCommit' = TRUE /\ fuse' = TRUE
    /\ base' = db /\ before' = Len(traces)
    /\ UNCHANGED <<db, inspector, traces, runs>>

\* TracerIter::commit_last_tx
CommitLastTx ==
    /\ iter # "none" /\ skipLastCommit
    /\ skipLastCommit' = FALSE
    /\ UNCHANGED <<db, inspector, iter, txs, todo, fuse, traces, ghosts, runs>>

\* TracerIter::no_fuse
NoFuse ==
    /\ iter # "none" /\ fuse
    /\ fuse' = FALSE
    /\ UNCHANGED <<db, inspector, iter, txs, todo, skipLastCommit, traces, ghosts, runs>>

-----------------------------------------------------------------------------
(***************************************************************************)
(* TracerIter::next                                                         *)
(***************************************************************************)
\* Mutant: the last transaction is committed whether asked for or not.
CommitsAlways(rest) == TRUE

\* The last transaction is not committed unless asked for.
Commits(rest) == ~skipLastCommit \/ rest # <<>>

\* Mutant: only fused when the hook took the inspector as well.
InspectorAfterHookTaken(taken) ==
    IF taken THEN FusedInspector ELSE InspectorAfterOk

\* The hook may have taken the inspector, which fuses it; if not, next does.
InspectorAfterHook(taken) ==
    IF taken \/ fuse THEN FusedInspector ELSE InspectorAfterOk

\* Mutant: the changes are committed before the hook is called.
NextOutcomeCommittedFirst(tx) ==
    \E taken \in BOOLEAN :
        /\ db' = IF Commits(Tail(todo)) THEN Append(db, tx) ELSE db
        /\ traces' = Append(traces, [Trace(tx, taken \/ fuse) EXCEPT !.db = db'])
        /\ inspector' = InspectorAfterHook(taken)

\* The hook is given the trace and the database before the commit.  That it
\* returns an Err only matters to the caller.
NextOutcome(tx) ==
    \E taken \in BOOLEAN :
        /\ db' = IF Commits(Tail(todo)) THEN Append(db, tx) ELSE db
        /\ traces' = Append(traces, Trace(tx, taken \/ fuse))
        /\ inspector' = InspectorAfterHook(taken)

NextSome ==
    /\ iter # "none" /\ todo # <<>> /\ runs < MaxRuns /\ runs' = runs + 1
    /\ iter' = "open"
    /\ NextOutcome(Head(todo))
    /\ todo' = Tail(todo)
    /\ UNCHANGED <<txs, flags, ghosts>>

\* The EVM fails: None, as if there were no more transactions.
NextFails ==
    /\ iter # "none" /\ todo # <<>> /\ runs < MaxRuns /\ runs' = runs + 1
    /\ iter' = "ended"
    /\ inspector' \in InspectorsAfterErr
    /\ todo' = Tail(todo)
    /\ UNCHANGED <<db, txs, flags, traces, ghosts>>

\* There are no more transactions.
NextNone ==
    /\ iter = "open" /\ todo = <<>>
    /\ iter' = "ended"
    /\ UNCHANGED <<db, inspector, txs, todo, flags, traces, ghosts, runs>>

\* The caller is done with the iterator, exhausted or not.
DropIter ==
    /\ iter # "none"
    /\ iter' = "none"
    /\ txs' = <<>> /\ todo' = <<>>
    /\ UNCHANGED <<db, inspector, flags, traces, ghosts, runs>>

-----------------------------------------------------------------------------
Init ==
    /\ db = <<>> /\ inspector = FusedInspector
    /\ iter = "none" /\ txs = <<>> /\ todo = <<>>
    /\ skipLastCommit = TRUE /\ fuse = TRUE
    /\ traces = <<>> /\ base = <<>> /\ before = 0 /\ runs = 0

Next ==
    \/ \E tx \in Transactions : TraceOne(tx)
    \/ \E list \in Lists : TryTraceMany(list)
    \/ CommitLastTx
    \/ NoFuse
    \/ NextSome
    \/ NextFails
    \/ NextNone
    \/ DropIter

Spec == Init /\ [][Next]_vars

ASSUME ListsAssumption == Lists \subseteq Seq(Transactions)

-----------------------------------------------------------------------------
\* The transactions the current iterator has called its hook for.
Traced == [i \in 1 .. Len(traces) - before |-> traces[before + i].tx]

\* The inspector has been fused after each of the first n traces.
FusedUpTo(n) == \A k \in 1 .. n : traces[k].fused

\* As long as inspectors are fused, each trace ends with its own execution and
\* holds no other execution that was handed out: at most the remains of ones
\* that the EVM failed on.
TracesAttributed ==
    \A k \in 1 .. Len(traces) :
        /\ Last(traces[k].inspector) = traces[k].run
        /\ FusedUpTo(k - 1) =>
              \A j \in 1 .. Len(traces) :
                  j # k => traces[j].run \notin Range(traces[k].inspector)

\* The last transaction traced was the last of the list, and the caller had not
\* asked for that one to be committed.
LastLeftOut == Traced # <<>> /\ Last(traces).last /\ ~Last(traces).asked

\* While an iterator is in use the database holds, on top of what it held when
\* the iterator was created, every transaction traced, in order; the last of
\* the list is missing exactly if it was traced before the caller asked for it,
\* whatever failed in between and however often next is called again.
TracedAreCommitted ==
    iter # "none" => db = base \o (IF LastLeftOut THEN Front(Traced) ELSE Traced)

\* The hook sees the database its transaction was executed on: its
\* predecessors in the list are in it, it is not.
HookSeesPredecessors ==
    iter # "none" =>
        \A i \in 1 .. Len(Traced) :
            traces[before + i].db = base \o SubSeq(Traced, 1, i - 1)

\* tracing.rs:66: trace_many "applies the closure to each transaction result,
\* and returns the outcomes", so an exhausted iterator returned one for each.
TraceManyComplete ==
    iter = "ended" => Len(Traced) = Len(txs)

=============================================================================
