--------------------------- MODULE SeismicEvm_proofs ---------------------------
(***************************************************************************)
(* Proofs about SeismicEvm: for every environment, every transaction and    *)
(* every interleaving of transactions, system calls and switches of the     *)
(* inspector.                                                               *)
(***************************************************************************)
EXTENDS SeismicEvm, TLAPS

\* Inside a system call its locals hold the context to put back, and the EVM
\* has the swapped one.
SwapInv ==
    /\ stage \in {"idle", "entered", "ran"}
    /\ stage = "idle" => ctx = env
    /\ stage # "idle" =>
        /\ frame.ctx = env /\ frame.contract \in Contracts
        /\ ctx = Swapped
        /\ returned = {}
    /\ \A end \in returned : end.env = env

\* What transact returns is about the transaction it was given.
LEMMA OutcomeOf ==
    ASSUME NEW tx, NEW c, NEW base, NEW r \in Outcomes(tx, c, base)
    PROVE  /\ r.tx = tx
           /\ r.status = "invalid" <=> ~Admitted(tx, c, base)
BY DEF Outcomes, Failure

\* The swapped context admits every system call.
LEMMA SwappedAdmits ==
    ASSUME NEW contract, NEW base
    PROVE  Admitted(SystemTx(contract), Swapped, base)
BY RevmAssumption DEF Admitted, SystemTx, Swapped

\* SwapInv is inductive.
LEMMA SwapInvariant == Spec => []SwapInv
<1>1. Init => SwapInv
  BY DEF Init, SwapInv
<1>2. SwapInv /\ [Next]_vars => SwapInv'
  <2> SUFFICES ASSUME SwapInv, [Next]_vars PROVE SwapInv'
    OBVIOUS
  <2> USE DEF SwapInv
  <2>1. ASSUME NEW tx \in Transactions, Transact(tx) PROVE SwapInv'
    BY <2>1 DEF Transact, TransactRaw, Swapped
  <2>2. ASSUME NEW contract \in Contracts, EnterSystemCall(contract) PROVE SwapInv'
    BY <2>2 DEF EnterSystemCall, Idle, Swapped
  <2>3. CASE RunSystemCall
    BY <2>3 DEF RunSystemCall, TransactRaw, Swapped
  <2>4. CASE LeaveSystemCall
    BY <2>4 DEF LeaveSystemCall, SwappedBack
  <2>5. CASE CommitState
    BY <2>5 DEF CommitState, Idle
  <2>6. ASSUME NEW enabled \in BOOLEAN, SetInspectorEnabled(enabled) PROVE SwapInv'
    BY <2>6 DEF SetInspectorEnabled, Idle
  <2>7. CASE Finish
    BY <2>7 DEF Finish, Idle
  <2>8. CASE UNCHANGED vars
    BY <2>8 DEF vars, Swapped
  <2>9. QED
    BY <2>1, <2>2, <2>3, <2>4, <2>5, <2>6, <2>7, <2>8 DEF Next
<1>3. QED
  BY <1>1, <1>2, PTL DEF Spec

\* Between two calls of the EVM the environment is the one it was created with,
\* and so is the one finish gives back.
THEOREM EnvironmentRestored == Spec => []EnvRestored
<1>1. SwapInv => EnvRestored
  BY DEF SwapInv, EnvRestored
<1>2. QED
  BY <1>1, SwapInvariant, PTL

-----------------------------------------------------------------------------
\* What a system call leaves to be returned is an outcome of its transaction
\* in the swapped context.
CallInv ==
    stage = "ran" => res \in Outcomes(SystemTx(frame.contract), Swapped, db)

\* CallInv is inductive, relative to SwapInv.
LEMMA CallInvariant == Spec => []CallInv
<1>1. Init => CallInv
  BY DEF Init, CallInv
<1>2. SwapInv /\ CallInv /\ [Next]_vars => CallInv'
  <2> SUFFICES ASSUME SwapInv, CallInv, [Next]_vars PROVE CallInv'
    OBVIOUS
  <2>1. CASE RunSystemCall
    BY <2>1 DEF RunSystemCall, TransactRaw, SwapInv, CallInv, Swapped
  <2>2. CASE UNCHANGED vars
    BY <2>2 DEF vars, CallInv, Swapped
  <2>3. CASE stage' # "ran"
    BY <2>3 DEF CallInv
  <2>4. QED
    BY <2>1, <2>2, <2>3
    DEF Next, Transact, Idle, EnterSystemCall, LeaveSystemCall, CommitState,
        SetInspectorEnabled, Finish
<1>3. QED
  BY <1>1, <1>2, SwapInvariant, PTL DEF Spec

\* A system call is never refused: the swapped context admits it.
THEOREM SystemCallsAdmitted == Spec => []SystemCallAdmitted
<1>1. CallInv => SystemCallAdmitted
  BY SwappedAdmits, OutcomeOf DEF CallInv, SystemCallAdmitted
<1>2. QED
  BY <1>1, CallInvariant, PTL

\* A transaction that ran was checked against the real block and its sender's
\* nonce, however many system calls went before it.
THEOREM EveryTransactionChecked == Spec => []TransactionsChecked
<1>1. Init => TransactionsChecked
  BY DEF Init, TransactionsChecked, NoResult, Failure
<1>2. SwapInv /\ CallInv /\ TransactionsChecked /\ [Next]_vars => TransactionsChecked'
  <2> SUFFICES ASSUME SwapInv, CallInv, TransactionsChecked, [Next]_vars
               PROVE  TransactionsChecked'
    OBVIOUS
  <2>1. ASSUME NEW tx \in Transactions, Transact(tx) PROVE TransactionsChecked'
    <3>1. res' \in Outcomes(tx, ctx, db) /\ ctx = env /\ UNCHANGED <<env, db>>
      BY <2>1 DEF Transact, TransactRaw, Idle, SwapInv
    <3>2. res'.tx = tx /\ (res'.status = "ok" => Admitted(tx, env, db))
      BY <3>1, OutcomeOf
    <3>3. QED
      BY <3>1, <3>2 DEF TransactionsChecked, Admitted
  <2>2. ASSUME NEW contract \in Contracts, EnterSystemCall(contract)
        PROVE  TransactionsChecked'
    BY <2>2 DEF EnterSystemCall, TransactionsChecked
  <2>3. CASE RunSystemCall
    BY <2>3 DEF RunSystemCall, TransactionsChecked
  <2>4. CASE LeaveSystemCall
    <3>1. res.tx = SystemTx(frame.contract) /\ res'.tx = res.tx
      BY <2>4, OutcomeOf DEF LeaveSystemCall, Retain, CallInv
    <3>2. QED
      BY <3>1 DEF TransactionsChecked, SystemTx
  <2>5. CASE CommitState
    BY <2>5 DEF CommitState, TransactionsChecked, NoResult, Failure, SystemTx
  <2>6. CASE UNCHANGED <<env, db, stage, res>>
    BY <2>6 DEF TransactionsChecked, Admitted
  <2>7. QED
    BY <2>1, <2>2, <2>3, <2>4, <2>5, <2>6 DEF Next, SetInspectorEnabled, Finish, vars
<1>3. QED
  BY <1>1, <1>2, SwapInvariant, CallInvariant, PTL DEF Spec

-----------------------------------------------------------------------------
(***************************************************************************)
(* Types and nonces.  A changeset waits between transact and the commit:    *)
(* what it says of an account is relative to the database it was made from, *)
(* and no other step may move that database in between.                     *)
(***************************************************************************)
Accounts == [nonce : Nat, writes : Nat]

\* A changeset ready to be committed moves the nonce of its transaction's
\* caller, by one, unless that is the system caller; and no other nonce.
ChangesetInv ==
    stage = "idle" /\ res.status = "ok" =>
        \A a \in Addresses \cap DOMAIN res.state :
            /\ res.state[a] \in Accounts
            /\ \/ res.state[a].nonce = db[a].nonce
               \/ /\ res.state[a].nonce = db[a].nonce + 1
                  /\ a = res.tx.caller /\ a # SystemAddress

FieldsInv == TypeOK /\ db \in [Addresses -> Accounts]

\* The swapped context is one.
LEMMA SwappedType == Swapped \in Contexts
BY RevmAssumption DEF Swapped, Contexts

\* What transact returns has one of three statuses.
LEMMA OutcomeStatus ==
    ASSUME NEW tx, NEW c, NEW base, NEW r \in Outcomes(tx, c, base)
    PROVE  r.status \in {"invalid", "fatal", "ok"}
BY DEF Outcomes, Failure

\* What a changeset says of an account, against the database it was made from.
LEMMA ChangesetAccounts ==
    ASSUME NEW tx, NEW c, NEW base \in [Addresses -> Accounts],
           NEW r \in Outcomes(tx, c, base), r.status = "ok",
           NEW a \in Addresses \cap DOMAIN r.state
    PROVE  /\ r.state[a] \in Accounts
           /\ r.state[a].nonce = IF a = tx.caller THEN base[a].nonce + 1 ELSE base[a].nonce
<1>1. r.state \in Changesets(tx, base)
  BY DEF Outcomes, Failure
<1>2. PICK written : r.state = Touch(tx, base, written)
  BY <1>1 DEF Changesets
<1>3. base[a].nonce \in Nat /\ base[a].writes \in Nat
  BY DEF Accounts
<1>4. r.state[a] = [nonce  |-> IF a = tx.caller THEN base[a].nonce + 1 ELSE base[a].nonce,
                    writes |-> IF a \in written THEN base[a].writes + 1 ELSE base[a].writes]
  BY <1>2 DEF Touch
<1>5. QED
  BY <1>3, <1>4 DEF Accounts

\* Both are inductive, relative to SwapInv and CallInv.
LEMMA FieldsInvariant == Spec => [](FieldsInv /\ ChangesetInv)
<1> DEFINE I == FieldsInv /\ ChangesetInv
<1>1. Init => I
  BY RevmAssumption DEF Init, FieldsInv, TypeOK, ChangesetInv, Accounts, NoResult, Failure
<1>2. SwapInv /\ CallInv /\ I /\ [Next]_vars => I'
  <2> SUFFICES ASSUME SwapInv, CallInv, FieldsInv, ChangesetInv, [Next]_vars
               PROVE  FieldsInv' /\ ChangesetInv'
    OBVIOUS
  <2>1. ASSUME NEW tx \in Transactions, Transact(tx) PROVE FieldsInv' /\ ChangesetInv'
    <3>1. /\ res' \in Outcomes(tx, ctx, db)
          /\ UNCHANGED <<env, ctx, inspect, db, stage>>
      BY <2>1 DEF Transact, TransactRaw
    <3>2. FieldsInv'
      BY <3>1, OutcomeStatus DEF FieldsInv, TypeOK
    <3>3. tx.caller # SystemAddress /\ res'.tx = tx
      BY <3>1, OutcomeOf, RevmAssumption
    <3>4. ChangesetInv'
      BY <3>1, <3>3, ChangesetAccounts DEF ChangesetInv, FieldsInv
    <3>5. QED
      BY <3>2, <3>4
  <2>2. ASSUME NEW contract \in Contracts, EnterSystemCall(contract)
        PROVE  FieldsInv' /\ ChangesetInv'
    BY <2>2, SwappedType
    DEF EnterSystemCall, inspection, FieldsInv, TypeOK, ChangesetInv, NoResult, Failure
  <2>3. CASE RunSystemCall
    BY <2>3, OutcomeStatus DEF RunSystemCall, TransactRaw, FieldsInv, TypeOK, ChangesetInv
  <2>4. CASE LeaveSystemCall
    <3>1. /\ res \in Outcomes(SystemTx(frame.contract), Swapped, db)
          /\ frame.contract \in Contracts /\ frame.contract # SystemAddress
          /\ frame.ctx = env
          /\ ctx' = env /\ res' = Retain(res, frame.contract)
          /\ stage' = "idle" /\ UNCHANGED <<env, inspect, db>>
      BY <2>4, RevmAssumption
      DEF LeaveSystemCall, SwappedBack, inspection, SwapInv, CallInv
    <3>2. res'.status = res.status
      BY <3>1 DEF Retain
    <3>3. FieldsInv'
      BY <3>1, <3>2, RevmAssumption DEF FieldsInv, TypeOK
    <3>4. ASSUME res'.status = "ok", NEW a \in Addresses \cap DOMAIN res'.state
          PROVE  res'.state[a] \in Accounts /\ res'.state[a].nonce = db[a].nonce
      <4>1. /\ a \in DOMAIN res.state /\ a = frame.contract
            /\ res'.state[a] = res.state[a]
        BY <3>1, <3>2, <3>4 DEF Retain
      <4>2. a # SystemTx(frame.contract).caller
        BY <3>1, <4>1 DEF SystemTx
      <4>3. db \in [Addresses -> Accounts] /\ res.status = "ok"
        BY <3>2, <3>4 DEF FieldsInv
      <4>4. /\ res.state[a] \in Accounts
            /\ res.state[a].nonce = IF a = SystemTx(frame.contract).caller
                                    THEN db[a].nonce + 1 ELSE db[a].nonce
        BY <3>1, <4>1, <4>3, ChangesetAccounts
      <4>5. QED
        BY <4>1, <4>2, <4>4
    <3>5. ChangesetInv'
      BY <3>1, <3>4 DEF ChangesetInv
    <3>6. QED
      BY <3>3, <3>5
  <2>5. CASE CommitState
    <3>1. /\ db' = Applied(db, res.state) /\ res' = NoResult
          /\ UNCHANGED <<env, ctx, inspect, stage>>
          /\ stage = "idle" /\ res.status = "ok"
      BY <2>5 DEF CommitState, Idle, inspection
    <3>2. db' \in [Addresses -> Accounts]
      BY <3>1 DEF Applied, ChangesetInv, FieldsInv
    <3>3. QED
      BY <3>1, <3>2 DEF FieldsInv, TypeOK, ChangesetInv, NoResult, Failure
  <2>6. ASSUME NEW enabled \in BOOLEAN, SetInspectorEnabled(enabled)
        PROVE  FieldsInv' /\ ChangesetInv'
    BY <2>6 DEF SetInspectorEnabled, FieldsInv, TypeOK, ChangesetInv
  <2>7. CASE Finish
    BY <2>7 DEF Finish, inspection, FieldsInv, TypeOK, ChangesetInv
  <2>8. CASE UNCHANGED vars
    BY <2>8 DEF vars, inspection, FieldsInv, TypeOK, ChangesetInv
  <2>9. QED
    BY <2>1, <2>2, <2>3, <2>4, <2>5, <2>6, <2>7, <2>8 DEF Next
<1>3. QED
  BY <1>1, <1>2, SwapInvariant, CallInvariant, PTL DEF Spec

\* Every variable of the EVM keeps its type, the context in particular, whose
\* swapped values are those of a context.
THEOREM TypeCorrect == Spec => []TypeOK
<1>1. FieldsInv => TypeOK
  BY DEF FieldsInv
<1>2. QED
  BY <1>1, FieldsInvariant, PTL

\* Nonces count the committed transactions of their account, one at a time and
\* in the order of their own nonces, however many system calls come between a
\* transaction and its commit.
THEOREM NoTransactionReplayed == Spec => NoncesSequential
<1> DEFINE Step == \A a \in Addresses :
        db'[a].nonce # db[a].nonce =>
            /\ db'[a].nonce = db[a].nonce + 1
            /\ res.tx.caller = a /\ a # SystemAddress
            /\ env.disableNonceCheck \/ res.tx.nonce = db[a].nonce
<1>1. ChangesetInv /\ TransactionsChecked /\ [Next]_vars => [Step]_db
  <2> SUFFICES ASSUME ChangesetInv, TransactionsChecked, [Next]_vars, db' # db
               PROVE  Step
    OBVIOUS
  <2>1. CommitState
    BY DEF Next, Transact, TransactRaw, EnterSystemCall, RunSystemCall, LeaveSystemCall,
           SetInspectorEnabled, Finish, vars
  <2>2. stage = "idle" /\ res.status = "ok" /\ db' = Applied(db, res.state)
    BY <2>1 DEF CommitState, Idle
  <2>3. ASSUME NEW a \in Addresses, db'[a].nonce # db[a].nonce
        PROVE  /\ db'[a].nonce = db[a].nonce + 1
               /\ res.tx.caller = a /\ a # SystemAddress
    BY <2>2, <2>3 DEF Applied, ChangesetInv
  <2>4. QED
    BY <2>2, <2>3 DEF TransactionsChecked, Admitted
<1>2. QED
  BY <1>1, FieldsInvariant, EveryTransactionChecked, PTL DEF Spec, NoncesSequential

-----------------------------------------------------------------------------
\* What is kept of a system call's outcome is one revm's system call may have.
LEMMA RetainedOutcome ==
    ASSUME NEW c \in Contracts, NEW base, NEW r \in Outcomes(SystemTx(c), Swapped, base)
    PROVE  Retain(r, c) \in SystemCallOutcomes(c, base)
<1>1. r = Failure(SystemTx(c), "fatal")
        \/ r \in [tx : {SystemTx(c)}, status : {"ok"}, state : Changesets(SystemTx(c), base)]
  BY SwappedAdmits DEF Outcomes
<1>2. CASE r = Failure(SystemTx(c), "fatal")
  BY <1>2 DEF Failure, Retain, SystemCallOutcomes
<1>3. CASE r \in [tx : {SystemTx(c)}, status : {"ok"},
                  state : Changesets(SystemTx(c), base)]
  <2>1. PICK written : r.state = Touch(SystemTx(c), base, written)
    BY <1>3 DEF Changesets
  <2> DEFINE touched == DOMAIN r.state \cap {c}
             wrote == c \in written
  <2>2. \A a \in touched :
           r.state[a] = [nonce  |-> base[a].nonce,
                         writes |-> IF wrote THEN base[a].writes + 1 ELSE base[a].writes]
    BY <2>1, RevmAssumption DEF Touch, SystemTx
  <2> DEFINE Kept(t, w) ==
        [tx |-> SystemTx(c), status |-> "ok",
         state |-> [a \in t |->
                      [nonce  |-> base[a].nonce,
                       writes |-> IF w THEN base[a].writes + 1 ELSE base[a].writes]]]
  <2>3. Retain(r, c) = Kept(touched, wrote)
    BY <1>3, <2>2 DEF Retain
  <2>4. touched \in SUBSET {c} /\ wrote \in BOOLEAN
    OBVIOUS
  <2>5. {Kept(t, w) : t \in SUBSET {c}, w \in BOOLEAN} \subseteq SystemCallOutcomes(c, base)
    BY DEF SystemCallOutcomes
  <2> HIDE DEF touched, wrote, Kept
  <2>6. QED
    BY <2>3, <2>4, <2>5
<1>4. QED
  BY <1>1, <1>2, <1>3

\* An EVM with the swaps in steps of their own is an EVM with system calls in
\* one step: every step is one of EthEvm's, or shows nothing of itself.
THEOREM Implementation == Spec => ImplementsEvm
<1> USE DEF NoResult, Failure, SystemTx, Abstract!NoResult, Abstract!Failure,
            Abstract!SystemTx
<1>1. Init => Abstract!Init
  BY DEF Init, Abstract!Init, UserObservations
<1>2. SwapInv /\ CallInv /\ [Next]_vars => [Abstract!Next]_(Abstract!evmVars)
  <2> SUFFICES ASSUME SwapInv, CallInv, [Next]_vars
               PROVE  [Abstract!Next]_(Abstract!evmVars)
    OBVIOUS
  <2> USE DEF Abstract!Alive
  <2>1. ASSUME NEW tx \in Transactions, Transact(tx) PROVE Abstract!Next
    <3> PICK r \in Outcomes(tx, ctx, db) :
          /\ res' = r
          /\ \E seen \in Observations(inspect, ctx, r) : inspected' = inspected \cup seen
      BY <2>1 DEF Transact, TransactRaw
    <3>1. PICK seen \in Observations(inspect, ctx, r) : inspected' = inspected \cup seen
      OBVIOUS
    <3>2. ctx = env /\ stage = "idle" /\ stage' = "idle"
      BY <2>1 DEF Transact, Idle, SwapInv
    <3>3. \A o \in seen : o.tx = tx
      BY <3>1, OutcomeOf DEF Observations
    <3>4. tx.caller # SystemAddress
      BY RevmAssumption
    <3>5. UserObservations' = UserObservations \cup seen
      BY <3>1, <3>3, <3>4 DEF UserObservations
    <3>6. r \in Abstract!Outcomes(tx, env, db)
      BY <3>2 DEF Outcomes, Admitted, Changesets, Touch,
                  Abstract!Outcomes, Abstract!Admitted, Abstract!Changesets, Abstract!Touch
    <3>7. seen \in Abstract!Observations(inspect, env, r)
      BY <3>2 DEF Observations, Abstract!Observations
    <3>8. UNCHANGED <<env, inspect, db, returned>> /\ returned = {}
          /\ db[tx.caller].nonce < MaxNonce
      BY <2>1 DEF Transact, TransactRaw, Idle
    <3>9. QED
      BY <3>2, <3>5, <3>6, <3>7, <3>8 DEF Abstract!Transact, Abstract!Next
  <2>2. ASSUME NEW contract \in Contracts, EnterSystemCall(contract)
        PROVE  Abstract!Next
    <3>1. Abstract!DropResult
      BY <2>2 DEF EnterSystemCall, Idle, inspection, UserObservations,
                  Abstract!DropResult
    <3>2. QED
      BY <3>1 DEF Abstract!Next
  <2>3. CASE RunSystemCall
    <3> PICK r \in Outcomes(SystemTx(frame.contract), ctx, db) :
          \E seen \in Observations(inspect, ctx, r) : inspected' = inspected \cup seen
      BY <2>3 DEF RunSystemCall, TransactRaw
    <3>1. PICK seen \in Observations(inspect, ctx, r) : inspected' = inspected \cup seen
      OBVIOUS
    <3>2. \A o \in seen : o.tx.caller = SystemAddress
      BY <3>1, OutcomeOf DEF Observations, SystemTx
    <3>3. UserObservations' = UserObservations
      BY <3>1, <3>2 DEF UserObservations
    <3>4. QED
      BY <2>3, <3>3 DEF RunSystemCall, TransactRaw, Abstract!evmVars
  <2>4. CASE LeaveSystemCall
    <3>1. Retain(res, frame.contract) \in SystemCallOutcomes(frame.contract, db)
      BY <2>4, RetainedOutcome DEF LeaveSystemCall, SwapInv, CallInv
    <3> SystemCallOutcomes(frame.contract, db)
          = Abstract!SystemCallOutcomes(frame.contract, db)
      BY DEF SystemCallOutcomes, Abstract!SystemCallOutcomes
    <3>2. Abstract!TransactSystemCall(frame.contract)
      BY <2>4, <3>1
      DEF LeaveSystemCall, SwapInv, inspection, UserObservations,
          Abstract!TransactSystemCall
    <3>3. frame.contract \in Contracts
      BY <2>4 DEF LeaveSystemCall, SwapInv
    <3>4. QED
      BY <3>2, <3>3 DEF Abstract!Next
  <2>5. CASE CommitState
    BY <2>5 DEF CommitState, Idle, inspection, UserObservations, Abstract!CommitState,
                Applied, Abstract!Applied, Abstract!Next
  <2>6. ASSUME NEW enabled \in BOOLEAN, SetInspectorEnabled(enabled)
        PROVE  Abstract!Next
    <3>1. Abstract!SetInspectorEnabled(enabled)
      BY <2>6 DEF SetInspectorEnabled, Idle, UserObservations,
                  Abstract!SetInspectorEnabled
    <3>2. QED
      BY <3>1 DEF Abstract!Next
  <2>7. CASE Finish
    BY <2>7 DEF Finish, Idle, SwapInv, inspection, UserObservations, Abstract!Finish,
                Abstract!Next
  <2>8. CASE UNCHANGED vars
    BY <2>8 DEF vars, inspection, UserObservations, Abstract!evmVars
  <2>9. QED
    BY <2>1, <2>2, <2>3, <2>4, <2>5, <2>6, <2>7, <2>8 DEF Next
<1>3. QED
  BY <1>1, <1>2, SwapInvariant, CallInvariant, PTL DEF Spec, ImplementsEvm, Abstract!Spec

=============================================================================
