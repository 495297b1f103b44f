----------------------------- MODULE StateOverrides -----------------------------
(***************************************************************************)
(* apply_state_overrides and apply_block_overrides                          *)
(* (crates/evm/src/overrides.rs): what an RPC call asks to be different in  *)
(* the state and in the block, written to a caching database and to the     *)
(* environment before the call is executed.  Both may be overridden several *)
(* times (once per simulated block).                                        *)
(*                                                                          *)
(* An optional field is the set of its value, or {}.  An account is a       *)
(* nonce, a balance, a code with its hash, and a storage.  The database     *)
(* is external: Storage and Committed say what overrides.rs relies on.      *)
(***************************************************************************)
EXTENDS Naturals, FiniteSetsExt, Functions, Sequences

CONSTANTS
    Accounts, Slots,
    MaxWord,             \* U256::MAX
    StateOverride,       \* the requests: functions from accounts to overrides
    ValidCode,           \* what Bytecode::new_raw_checked accepts
    EmptyCode,
    Hash(_),             \* keccak256
    Backing,             \* account -> [info, storage]: what the cache is above
    BlockEnv,            \* the environment of the block: field -> value
    BlockOverrides,      \* requests: [set, block_hash], the fields to set and
                         \* the hashes of past blocks
    MaxFee,              \* u64::MAX
    MaxCalls             \* bound: how often something is overridden

Words == 0 .. MaxWord

NoAccount == [nonce |-> 0, balance |-> 0, code |-> EmptyCode, codeHash |-> Hash(EmptyCode)]

VARIABLES
    db,        \* the cache: account -> [info, status, written]
    request,   \* the StateOverride being applied
    todo,      \* its accounts the loop has still to visit, in any order (a HashMap)
    outcome,   \* "running", "ok", or the error of the last call
    calls,     \* how many calls were made
    before,    \* history: what could be read of the database before the call
    env,       \* the BlockEnv
    hashes,    \* the database's own block hashes: number -> hash
    asked      \* history: the BlockOverrides so far

blockVars == <<env, hashes, asked>>
vars == <<db, request, todo, outcome, calls, before, blockVars>>

-----------------------------------------------------------------------------
(***************************************************************************)
(* The database.  An account is "cached" above its backing storage,         *)
(* "destroyed", or "created", when the backing storage is not read.         *)
(***************************************************************************)
Storage(cached, account, slot) ==
    CASE slot \in DOMAIN cached.written -> cached.written[slot]
      [] slot \notin DOMAIN cached.written /\ cached.status = "cached" ->
            Backing[account].storage[slot]
      [] OTHER -> 0

\* What a call executed on the database sees of an account.
ViewOf(cached, account) ==
    [info    |-> cached.info,
     storage |-> [s \in Slots |-> Storage(cached, account, s)]]

View(account) == ViewOf(db[account], account)

\* Only slots whose present value differs from the original one are written.
ChangedSlots(storage) ==
    {s \in DOMAIN storage : storage[s].present_value # storage[s].original_value}

\* DatabaseCommit::commit of one touched account.
Committed(cached, acc) ==
    LET changed == [s \in ChangedSlots(acc.storage) |-> acc.storage[s].present_value]
    IN  CASE acc.status = "SelfDestructed" ->
               [info |-> NoAccount, status |-> "destroyed", written |-> <<>>]
          [] acc.status = "Created" ->
               [info |-> acc.info, status |-> "created", written |-> changed]
          [] OTHER ->
               [info    |-> acc.info,
                status  |-> IF cached.status = "created" THEN "created" ELSE "cached",
                written |-> [s \in DOMAIN changed \cup DOMAIN cached.written |->
                               IF s \in DOMAIN changed THEN changed[s]
                               ELSE cached.written[s]]]

-----------------------------------------------------------------------------
(***************************************************************************)
(* apply_account_override                                                   *)
(***************************************************************************)

\* The value of an optional field, or the one it leaves alone.
Or(option, value) == IF option = {} THEN value ELSE CHOOSE v \in option : TRUE

\* The code and its hash are set together.
OverriddenInfo(info, o) ==
    [nonce    |-> Or(o.nonce, info.nonce),
     balance  |-> Or(o.balance, info.balance),
     code     |-> Or(o.code, info.code),
     codeHash |-> IF o.code = {} THEN info.codeHash ELSE Hash(Or(o.code, info.code))]

\* Mutant: the original value of a slot is zero, as for a new account.
SlotOverZero(value) == [original_value |-> 0, present_value |-> value]

\* The original value is the bitwise complement, hence never the present one.
EvmStorageSlot(value) == [original_value |-> MaxWord - value, present_value |-> value]

\* The account that is committed last.
OverrideAccount(info, o) ==
    [info    |-> info,
     status  |-> IF o.state # {} THEN "Created" ELSE "Touched",
     storage |-> LET given == Or(o.state \cup o.state_diff, <<>>)
                 IN  [s \in DOMAIN given |-> EvmStorageSlot(given[s])]]

Destroyed == [info |-> NoAccount, status |-> "SelfDestructed", storage |-> <<>>]

\* A whole state is two commits, a diff is one.
Overridden(cached, o) ==
    Committed(IF o.state # {} THEN Committed(cached, Destroyed) ELSE cached,
              OverrideAccount(OverriddenInfo(cached.info, o), o))

CodeRejected(o) == o.code # {} /\ Or(o.code, EmptyCode) \notin ValidCode

BothGiven(o) == o.state # {} /\ o.state_diff # {}

\* The code is decoded before the two storages are looked at, and both before
\* anything is committed.
ApplyAccountOverride(account) ==
    LET o == request[account]
    IN  \/ /\ outcome' = "Database"                  \* basic fails
           /\ UNCHANGED <<db, todo>>
        \/ /\ CodeRejected(o)
           /\ outcome' = "InvalidBytecode"
           /\ UNCHANGED <<db, todo>>
        \/ /\ ~CodeRejected(o) /\ BothGiven(o)
           /\ outcome' = "BothStateAndStateDiff"
           /\ UNCHANGED <<db, todo>>
        \/ /\ ~CodeRejected(o) /\ ~BothGiven(o)
           /\ db' = [db EXCEPT ![account] = Overridden(db[account], o)]
           /\ todo' = todo \ {account}
           /\ UNCHANGED outcome

-----------------------------------------------------------------------------
(***************************************************************************)
(* apply_state_overrides                                                    *)
(***************************************************************************)
Init ==
    /\ db = [a \in Accounts |->
               [info |-> Backing[a].info, status |-> "cached", written |-> <<>>]]
    /\ request = <<>> /\ todo = {}
    /\ outcome = "ok"
    /\ calls = 0
    /\ before = [a \in Accounts |-> View(a)]
    /\ env = BlockEnv /\ hashes = <<>> /\ asked = <<>>

\* An error leaves the database as it is: the caller may go on with it.
ApplyStateOverrides ==
    /\ outcome # "running"
    /\ calls < MaxCalls
    /\ \E overrides \in StateOverride :
          request' = overrides /\ todo' = DOMAIN overrides
    /\ outcome' = "running"
    /\ calls' = calls + 1
    /\ before' = [a \in Accounts |-> View(a)]
    /\ UNCHANGED <<db, blockVars>>

VisitAccount ==
    /\ outcome = "running"
    /\ \E account \in todo : ApplyAccountOverride(account)
    /\ UNCHANGED <<request, calls, before, blockVars>>

ReturnOk ==
    /\ outcome = "running"
    /\ todo = {}
    /\ outcome' = "ok"
    /\ UNCHANGED <<db, request, todo, calls, before, blockVars>>

-----------------------------------------------------------------------------
(***************************************************************************)
(* apply_block_overrides                                                    *)
(***************************************************************************)

\* The base fee of an override is a U256, that of a BlockEnv a u64.
Saturating(field, value) ==
    IF field = "base_fee" /\ value > MaxFee THEN MaxFee ELSE value

\* Mutant: the block hashes are replaced.
OverrideBlockHashesAnew(block_hash) == block_hash

\* The map of block hashes is extended.
OverrideBlockHashes(block_hash) ==
    [n \in DOMAIN hashes \cup DOMAIN block_hash |->
        IF n \in DOMAIN block_hash THEN block_hash[n] ELSE hashes[n]]

ApplyBlockOverrides ==
    /\ outcome # "running"
    /\ calls < MaxCalls
    /\ \E overrides \in BlockOverrides :
          /\ hashes' = OverrideBlockHashes(overrides.block_hash)
          /\ env' = [f \in DOMAIN env |->
                       IF f \in DOMAIN overrides.set
                       THEN Saturating(f, overrides.set[f]) ELSE env[f]]
          /\ asked' = Append(asked, overrides)
    /\ calls' = calls + 1
    /\ UNCHANGED <<db, request, todo, outcome, before>>

-----------------------------------------------------------------------------
Next == ApplyStateOverrides \/ VisitAccount \/ ReturnOk \/ ApplyBlockOverrides

Spec == Init /\ [][Next]_vars

\* A word is never its own complement.
ASSUME WordAssumption == MaxWord \in Nat /\ \A w \in Words : MaxWord - w # w

\* Code hashes are those of the code, and a storage is optional and holds words.
ASSUME BackingAssumption ==
    \A a \in Accounts : Backing[a].info.codeHash = Hash(Backing[a].info.code)

ASSUME RequestAssumption ==
    \A overrides \in StateOverride : \A a \in DOMAIN overrides :
        \A option \in {overrides[a].state, overrides[a].state_diff} :
            \A given, other \in option :
                given = other /\ \A s \in DOMAIN given : given[s] \in Words

-----------------------------------------------------------------------------
\* What a caller asks for: the whole storage, or a part of it.
Requested(view, o) ==
    [info    |-> [nonce    |-> Or(o.nonce, view.info.nonce),
                  balance  |-> Or(o.balance, view.info.balance),
                  code     |-> Or(o.code, view.info.code),
                  codeHash |-> Hash(Or(o.code, view.info.code))],
     storage |-> [s \in Slots |->
                    IF \E given \in o.state \cup o.state_diff : s \in DOMAIN given
                    THEN Or(o.state \cup o.state_diff, <<>>)[s]
                    ELSE IF o.state # {} THEN 0 ELSE view.storage[s]]]

\* Every account is overridden entirely or not at all, whatever the order of
\* the accounts, the call that fails on one of them, and what earlier calls did
\* to the same account: a visited account reads exactly as requested (zeros,
\* and slots an earlier state hid, included), every other one as before.  A
\* diff beside a whole state never passes in silence.
AllOrNothing ==
    \A a \in Accounts :
        IF a \in DOMAIN request \ todo
        THEN /\ View(a) = Requested(before[a], request[a])
             /\ request[a].state = {} \/ request[a].state_diff = {}
        ELSE View(a) = before[a]

\* What was asked last, of those who asked.
LastAsked(asking, value(_), otherwise) ==
    IF asking = {} THEN otherwise ELSE value(asked[Max(asking)])

\* However many blocks are simulated on one environment and database, a field
\* and the hash of a past block read as the last override that named them: an
\* override does not undo what an earlier one set and it leaves alone.
LastOverrideWins ==
    /\ \A f \in DOMAIN env :
          LET Value(o) == Saturating(f, o.set[f])
          IN  env[f] = LastAsked({i \in DOMAIN asked : f \in DOMAIN asked[i].set},
                                 Value, BlockEnv[f])
    /\ \A n \in UNION {DOMAIN asked[i].block_hash : i \in DOMAIN asked} :
          LET Hashed(o) == o.block_hash[n]
          IN  /\ n \in DOMAIN hashes
              /\ hashes[n] =
                   LastAsked({i \in DOMAIN asked : n \in DOMAIN asked[i].block_hash},
                             Hashed, 0)

=============================================================================
