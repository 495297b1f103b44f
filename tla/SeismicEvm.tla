------------------------------ MODULE SeismicEvm ------------------------------
(***************************************************************************)
(* SeismicEvm (crates/seismic-evm/src/lib.rs), the wrapper of the EVM that  *)
(* block executors drive.  What it adds to revm is transact_system_call,    *)
(* which runs a transaction no block would admit: it swaps the gas limit,   *)
(* the base fee and the nonce check of the context out, transacts, swaps    *)
(* them back and drops every account but the contract's from the changeset. *)
(* In between, everything the EVM calls (inspector, precompiles, database)  *)
(* sees the swapped context.                                                *)
(***************************************************************************)
EXTENDS Revm

VARIABLES
    env,              \* the context create_evm was given, never changed
    ctx,              \* the context of the EVM, which is swapped
    inspect,          \* whether transactions are inspected
    inspected,        \* what the inspector heard: transactions and their context
    db,               \* Addresses -> [nonce, writes]
    stage,            \* "idle", "entered" or "ran": inside transact_system_call
    frame,            \* its locals: the contract and the context swapped out
    res,              \* the last result of transact, until it is committed
    returned          \* what finish returned: {} or {[db, env]}

inspection == <<inspect, inspected>>
vars == <<env, ctx, inspection, db, stage, frame, res, returned>>

NoFrame == [contract |-> SystemAddress]

Idle == stage = "idle" /\ returned = {}

-----------------------------------------------------------------------------
(***************************************************************************)
(* transact and transact_system_call                                        *)
(***************************************************************************)

\* Mutant: the switch is not looked at.
TransactRawInspecting(tx) ==
    \E r \in Outcomes(tx, ctx, db) :
        /\ res' = r
        /\ \E seen \in Observations(TRUE, ctx, r) : inspected' = inspected \cup seen
        /\ UNCHANGED <<env, ctx, inspect, db, frame, returned>>

\* transact_raw, on behalf of a caller or of transact_system_call.
TransactRaw(tx) ==
    \E r \in Outcomes(tx, ctx, db) :
        /\ res' = r
        /\ \E seen \in Observations(inspect, ctx, r) : inspected' = inspected \cup seen
        /\ UNCHANGED <<env, ctx, inspect, db, frame, returned>>

Transact(tx) ==
    /\ Idle
    /\ db[tx.caller].nonce < MaxNonce
    /\ TransactRaw(tx)
    /\ UNCHANGED stage

\* Mutant: the block's gas limit is left in place.
SwappedButGasLimit ==
    [gasLimit |-> ctx.gasLimit, basefee |-> 0, disableNonceCheck |-> TRUE]

\* The three swaps before the call.
Swapped ==
    [gasLimit |-> SystemGas, basefee |-> 0, disableNonceCheck |-> TRUE]

EnterSystemCall(contract) ==
    /\ Idle
    /\ db[contract].writes < MaxNonce
    /\ stage' = "entered"
    /\ frame' = [contract |-> contract, ctx |-> ctx]
    /\ ctx' = Swapped
    /\ res' = NoResult
    /\ UNCHANGED <<env, inspection, db, returned>>

RunSystemCall ==
    /\ stage = "entered"
    /\ stage' = "ran"
    /\ TransactRaw(SystemTx(frame.contract))

\* Mutant: the accounts revm touches are all kept.
RetainEverything(result, contract) == result

\* res.state.retain(|addr, _| *addr == contract), which an Err does not have.
Retain(result, contract) ==
    IF result.status # "ok" THEN result
    ELSE [tx     |-> result.tx,
          status |-> result.status,
          state  |-> [a \in DOMAIN result.state \cap {contract} |-> result.state[a]]]

\* Mutant: an error is returned before the context is put back.
SwappedBackOnSuccess == IF res.status = "ok" THEN frame.ctx ELSE ctx

\* Mutant: the nonce check is not switched on again.
SwappedBackButNonces == [frame.ctx EXCEPT !.disableNonceCheck = TRUE]

\* The three swaps after the call.
SwappedBack == frame.ctx

\* They and the clean-up of the changeset.
LeaveSystemCall ==
    /\ stage = "ran"
    /\ stage' = "idle"
    /\ ctx' = SwappedBack
    /\ res' = Retain(res, frame.contract)
    /\ frame' = NoFrame
    /\ UNCHANGED <<env, inspection, db, returned>>

\* Mutant: what is not in the changeset is lost.
CommitReplacing ==
    /\ Idle
    /\ res.status = "ok"
    /\ db' = res.state
    /\ res' = NoResult
    /\ UNCHANGED <<env, ctx, inspection, stage, frame, returned>>

\* The executor commits the changeset it was returned, once.
CommitState ==
    /\ Idle
    /\ res.status = "ok"
    /\ db' = Applied(db, res.state)
    /\ res' = NoResult
    /\ UNCHANGED <<env, ctx, inspection, stage, frame, returned>>

SetInspectorEnabled(enabled) ==
    /\ Idle
    /\ inspect' = enabled
    /\ UNCHANGED <<env, ctx, inspected, db, stage, frame, res, returned>>

\* finish takes the EVM apart; into_db and into_env return half of it.
Finish ==
    /\ Idle
    /\ returned' = {[db |-> db, env |-> ctx]}
    /\ UNCHANGED <<env, ctx, inspection, db, stage, frame, res>>

-----------------------------------------------------------------------------
Init ==
    /\ env \in Environments
    /\ ctx = env
    /\ inspect \in BOOLEAN          \* create_evm, create_evm_with_inspector
    /\ inspected = {}
    /\ db = [a \in Addresses |-> [nonce |-> 0, writes |-> 0]]
    /\ stage = "idle"
    /\ frame = NoFrame
    /\ res = NoResult
    /\ returned = {}

Next ==
    \/ \E tx \in Transactions : Transact(tx)
    \/ \E contract \in Contracts : EnterSystemCall(contract)
    \/ RunSystemCall
    \/ LeaveSystemCall
    \/ CommitState
    \/ \E enabled \in BOOLEAN : SetInspectorEnabled(enabled)
    \/ Finish

Spec == Init /\ [][Next]_vars

-----------------------------------------------------------------------------
TypeOK ==
    /\ env \in Environments
    /\ ctx \in Contexts
    /\ inspect \in BOOLEAN
    /\ DOMAIN db = Addresses
    /\ stage \in {"idle", "entered", "ran"}
    /\ res.status \in {"none", "invalid", "fatal", "ok"}

\* Whoever uses the EVM between two calls, or gets its environment back from
\* finish, finds the one it was created with, whether the last system call ran,
\* failed or was not admitted.
EnvRestored ==
    /\ stage = "idle" => ctx = env
    /\ \A end \in returned : end.env = env

\* A system call is admitted whatever the block's gas limit and base fee and
\* the caller's nonce are: it can only fail for reasons of the database.
SystemCallAdmitted == stage = "ran" => res.status # "invalid"

\* However system calls are interleaved with transactions, a transaction that
\* ran was within the real block's gas limit and base fee and, unless the
\* creator of the EVM wanted no nonce checks, had the nonce of its sender.
TransactionsChecked ==
    stage = "idle" /\ res.status = "ok" /\ res.tx.caller # SystemAddress =>
        Admitted(res.tx, env, db)

\* No transaction is replayed: a nonce moves by one, by a committed transaction
\* of that very account and, if nonces are checked, of that nonce; the system
\* caller's never moves.
NoncesSequential ==
    [][\A a \in Addresses :
          db'[a].nonce # db[a].nonce =>
              /\ db'[a].nonce = db[a].nonce + 1
              /\ res.tx.caller = a /\ a # SystemAddress
              /\ env.disableNonceCheck \/ res.tx.nonce = db[a].nonce]_db

-----------------------------------------------------------------------------
\* The inspector also hears of system calls, in the swapped context; of users'
\* transactions it hears what an EthEvm's inspector would.
UserObservations == {o \in inspected : o.tx.caller # SystemAddress}

Abstract == INSTANCE EthEvm WITH
    inspected <- UserObservations,
    res <- IF stage = "idle" THEN res ELSE NoResult

\* Block executors may take a SeismicEvm for an EthEvm: the swaps, the unwanted
\* accounts and the clean-up amount to revm's own system call in one step, which
\* changes its contract and nothing else, and never shows in the environment or
\* in what is inspected of the users' transactions.
ImplementsEvm == Abstract!Spec

=============================================================================
