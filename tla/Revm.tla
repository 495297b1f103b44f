---------------------------------- MODULE Revm ----------------------------------
(***************************************************************************)
(* What EthEvm and SeismicEvm have in common: the EVM they wrap, which is   *)
(* external.  A transaction is validated against a context and, if admitted,*)
(* runs and yields a changeset, which names every account touched.          *)
(*                                                                          *)
(* A context is the part of an EvmEnv the validation reads: the block's gas *)
(* limit and base fee, and whether nonces are checked.  Accounts are        *)
(* reduced to a nonce and to how often their storage was written.           *)
(***************************************************************************)
EXTENDS Naturals, FiniteSets

CONSTANTS
    Addresses,        \* all accounts
    Contracts,        \* those that can be the target of a system call
    SystemAddress,    \* SYSTEM_ADDRESS, the caller of system calls
    Beneficiary,      \* block.beneficiary, touched by every transaction
    Transactions,     \* user transactions
    Environments,     \* the contexts create_evm may be given
    SystemGas,        \* 30_000_000
    MaxNonce          \* bound on the nonces and system calls explored

Contexts == [gasLimit : Nat, basefee : Nat, disableNonceCheck : BOOLEAN]

ASSUME RevmAssumption ==
    /\ SystemGas \in Nat
    /\ Contracts \cup {SystemAddress, Beneficiary} \subseteq Addresses
    /\ SystemAddress \notin Contracts
    /\ Environments \subseteq Contexts
    /\ \A tx \in Transactions : tx.caller \in Addresses \ {SystemAddress}

\* What is returned for tx: a status and, when it ran, a changeset.
Failure(tx, status) == [tx |-> tx, status |-> status, state |-> [a \in {} |-> 0]]

\* transact_system_call's transaction.
SystemTx(contract) ==
    [caller |-> SystemAddress, to |-> contract, nonce |-> 0,
     gasLimit |-> SystemGas, gasPrice |-> 0]

NoResult == Failure(SystemTx(SystemAddress), "none")

\* validate_env and validate_account_nonce.
Admitted(tx, ctx, db) ==
    /\ tx.gasLimit <= ctx.gasLimit
    /\ tx.gasPrice >= ctx.basefee
    /\ ctx.disableNonceCheck \/ tx.nonce = db[tx.caller].nonce

\* A changeset names the caller, whose nonce moves, the beneficiary, and when
\* the call succeeds the accounts it wrote to.
Touch(tx, db, written) ==
    [a \in written \cup {tx.caller, Beneficiary} |->
        [nonce  |-> IF a = tx.caller THEN db[a].nonce + 1 ELSE db[a].nonce,
         writes |-> IF a \in written THEN db[a].writes + 1 ELSE db[a].writes]]

Changesets(tx, db) ==
    {Touch(tx, db, written) : written \in {{}, {tx.to}} \cup {{tx.to, c} : c \in Contracts}}

\* Invalid, failed on the way, or executed.
Outcomes(tx, ctx, db) ==
    IF ~Admitted(tx, ctx, db) THEN {Failure(tx, "invalid")}
    ELSE {Failure(tx, "fatal")} \cup
         [tx : {tx}, status : {"ok"}, state : Changesets(tx, db)]

\* system_call_with_caller validates nothing, touches neither the caller nor the
\* beneficiary and does not call the inspector.
SystemCallOutcomes(contract, db) ==
    {Failure(SystemTx(contract), "fatal")} \cup
    {[tx |-> SystemTx(contract), status |-> "ok",
      state |-> [a \in touched |->
                   [nonce  |-> db[a].nonce,
                    writes |-> IF wrote THEN db[a].writes + 1 ELSE db[a].writes]]] :
        touched \in SUBSET {contract}, wrote \in BOOLEAN}

\* What the inspector hears of a transaction, when it is enabled: nothing if the
\* transaction was refused, and maybe nothing if the database failed.
Observations(inspect, ctx, r) ==
    LET seen == {[tx |-> r.tx, ctx |-> ctx]}
    IN  CASE ~inspect \/ r.status = "invalid" -> {{}}
          [] inspect /\ r.status = "fatal" -> {{}, seen}
          [] OTHER -> {seen}

\* DatabaseCommit::commit.
Applied(db, state) ==
    [a \in Addresses |-> IF a \in DOMAIN state THEN state[a] ELSE db[a]]

=============================================================================
