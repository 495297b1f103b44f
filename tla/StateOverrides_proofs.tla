------------------------- MODULE StateOverrides_proofs -------------------------
(***************************************************************************)
(* Proofs about StateOverrides: for every backing state, every request and  *)
(* every order in which its accounts are visited.                           *)
(***************************************************************************)
EXTENDS StateOverrides, TLAPS

-----------------------------------------------------------------------------
(***************************************************************************)
(* apply_state_overrides                                                    *)
(***************************************************************************)
\* The code and its hash agree, and a destroyed account has been created again.
AccountInv(cached) ==
    /\ cached.info.codeHash = Hash(cached.info.code)
    /\ cached.status \in {"cached", "created"}

LEMMA OrMember ==
    ASSUME NEW option, NEW v, option # {}
    PROVE  Or(option, v) \in option
BY DEF Or

\* Every slot of an override is written: none keeps its value by being equal to
\* the original one.
LEMMA AllSlotsChanged ==
    ASSUME NEW given, \A s \in DOMAIN given : given[s] \in Words
    PROVE  LET storage == [s \in DOMAIN given |-> EvmStorageSlot(given[s])]
           IN  ChangedSlots(storage) = DOMAIN given
BY WordAssumption DEF ChangedSlots, EvmStorageSlot

\* The storage an override names.
Given(o) == Or(o.state \cup o.state_diff, <<>>)

\* It is the only one there is, and holds words.
LEMMA GivenStorage ==
    ASSUME NEW overrides \in StateOverride, NEW a \in DOMAIN overrides,
           ~BothGiven(overrides[a])
    PROVE  LET o == overrides[a]
           IN  /\ \A s \in DOMAIN Given(o) : Given(o)[s] \in Words
               /\ \A g \in o.state \cup o.state_diff : g = Given(o)
               /\ o.state \cup o.state_diff = {} => DOMAIN Given(o) = {}
<1> DEFINE o == overrides[a]
<1>1. CASE o.state \cup o.state_diff = {}
  <2>1. Given(o) = <<>>
    BY <1>1 DEF Given, Or
  <2>2. QED
    BY <1>1, <2>1
<1>2. CASE o.state \cup o.state_diff # {}
  <2>1. Given(o) \in o.state \cup o.state_diff
    BY <1>2, OrMember DEF Given
  <2>2. \A g \in o.state \cup o.state_diff : g = Given(o)
    BY <2>1, RequestAssumption DEF BothGiven
  <2>3. QED
    BY <1>2, <2>1, <2>2, RequestAssumption
<1>3. QED
  BY <1>1, <1>2

\* What one override leaves of an account.
LEMMA OverriddenAccount ==
    ASSUME NEW overrides \in StateOverride, NEW a \in DOMAIN overrides,
           NEW cached, AccountInv(cached), ~BothGiven(overrides[a])
    PROVE  LET o     == overrides[a]
               given == Given(o)
           IN  Overridden(cached, o) =
                 [info    |-> OverriddenInfo(cached.info, o),
                  status  |-> IF o.state # {} THEN "created" ELSE cached.status,
                  written |-> IF o.state # {} THEN [s \in DOMAIN given |-> given[s]]
                              ELSE [s \in DOMAIN given \cup DOMAIN cached.written |->
                                      IF s \in DOMAIN given THEN given[s]
                                      ELSE cached.written[s]]]
<1> DEFINE o     == overrides[a]
           given == Given(o)
           info  == OverriddenInfo(cached.info, o)
           acc   == OverrideAccount(info, o)
<1>1. acc.storage = [s \in DOMAIN given |-> EvmStorageSlot(given[s])]
      /\ acc.info = info
      /\ acc.status = IF o.state # {} THEN "Created" ELSE "Touched"
  BY DEF OverrideAccount, Given
<1>2. \A s \in DOMAIN given : given[s] \in Words
  BY GivenStorage
<1>3. ChangedSlots(acc.storage) = DOMAIN given
  <2> HIDE DEF given
  <2> QED
    BY <1>1, <1>2, AllSlotsChanged
<1>4. \A s \in DOMAIN given : acc.storage[s].present_value = given[s]
  BY <1>1 DEF EvmStorageSlot
<1> HIDE DEF acc, given, info
<1>5. CASE o.state # {}
  BY <1>1, <1>3, <1>4, <1>5 DEF Overridden, Committed, given, acc, info
<1>6. CASE o.state = {}
  BY <1>1, <1>3, <1>4, <1>6 DEF Overridden, Committed, AccountInv, given, acc, info
<1>7. QED
  BY <1>5, <1>6 DEF given, info

\* It reads as it was asked to.
LEMMA OverriddenView ==
    ASSUME NEW overrides \in StateOverride, NEW a \in DOMAIN overrides,
           NEW cached, AccountInv(cached), ~BothGiven(overrides[a])
    PROVE  LET o == overrides[a]
           IN  /\ AccountInv(Overridden(cached, o))
               /\ ViewOf(Overridden(cached, o), a) = Requested(ViewOf(cached, a), o)
<1> DEFINE o     == overrides[a]
           given == Given(o)
           info  == OverriddenInfo(cached.info, o)
           final == Overridden(cached, o)
           view  == ViewOf(cached, a)
<1>1. info = [nonce    |-> Or(o.nonce, cached.info.nonce),
              balance  |-> Or(o.balance, cached.info.balance),
              code     |-> Or(o.code, cached.info.code),
              codeHash |-> Hash(Or(o.code, cached.info.code))]
  BY DEF OverriddenInfo, AccountInv, Or
<1>2. final = [info    |-> info,
               status  |-> IF o.state # {} THEN "created" ELSE cached.status,
               written |-> IF o.state # {} THEN [s \in DOMAIN given |-> given[s]]
                           ELSE [s \in DOMAIN given \cup DOMAIN cached.written |->
                                   IF s \in DOMAIN given THEN given[s]
                                   ELSE cached.written[s]]]
  BY OverriddenAccount
<1>3. /\ \A g \in o.state \cup o.state_diff : g = given
      /\ o.state \cup o.state_diff = {} => DOMAIN given = {}
  BY GivenStorage
<1> HIDE DEF final, given, info
<1>4. \A s \in Slots :
         Storage(final, a, s) = IF s \in DOMAIN given THEN given[s]
                                ELSE IF o.state # {} THEN 0 ELSE Storage(cached, a, s)
  BY <1>2 DEF Storage
<1>5. \A s \in Slots :
         (\E g \in o.state \cup o.state_diff : s \in DOMAIN g) <=> s \in DOMAIN given
  BY <1>3
<1>6. \A s \in Slots : view.storage[s] = Storage(cached, a, s)
  BY DEF ViewOf
<1>7. Requested(view, o).storage = [s \in Slots |-> Storage(final, a, s)]
  <2>1. \A s \in Slots : Storage(final, a, s)
                           = IF s \in DOMAIN given THEN given[s]
                             ELSE IF o.state # {} THEN 0 ELSE view.storage[s]
    BY <1>4, <1>6
  <2>2. QED
    BY <1>5, <2>1 DEF Requested, Given, given
<1>8. Requested(view, o).info = info
  BY <1>1 DEF Requested, ViewOf
<1>9. AccountInv(final)
  BY <1>1, <1>2 DEF AccountInv
<1>10. ViewOf(final, a) = Requested(view, o)
  BY <1>2, <1>7, <1>8 DEF ViewOf, Requested
<1>11. QED
  BY <1>9, <1>10 DEF final

\* Between two visits: the database holds sound accounts, and those to be visited
\* belong to a request that was made.
VisitInv ==
    /\ DOMAIN db = Accounts
    /\ \A a \in Accounts : AccountInv(db[a])
    /\ todo # {} => request \in StateOverride
    /\ todo \subseteq DOMAIN request

LEMMA VisitStep ==
    ASSUME VisitInv, AllOrNothing, VisitAccount
    PROVE  VisitInv' /\ AllOrNothing'
<1> PICK account \in todo : ApplyAccountOverride(account)
  BY DEF VisitAccount
<1>1. UNCHANGED <<request, before>>
  BY DEF VisitAccount
<1>2. CASE UNCHANGED <<db, todo>>
  BY <1>1, <1>2 DEF VisitInv, AllOrNothing, View
<1>3. CASE /\ ~CodeRejected(request[account]) /\ ~BothGiven(request[account])
           /\ db' = [db EXCEPT ![account] = Overridden(db[account], request[account])]
           /\ todo' = todo \ {account}
  <2> DEFINE o == request[account]
  <2>1. request \in StateOverride /\ account \in DOMAIN request
    BY DEF VisitInv
  <2>2. \A a \in Accounts :
           db'[a] = IF a = account THEN Overridden(db[account], o) ELSE db[a]
    BY <1>3 DEF VisitInv
  <2>3. DOMAIN db' = Accounts
    BY <1>3 DEF VisitInv
  <2>4. ASSUME account \in Accounts
        PROVE  /\ AccountInv(Overridden(db[account], o))
               /\ ViewOf(Overridden(db[account], o), account)
                    = Requested(View(account), o)
    BY <1>3, <2>1, <2>4, OverriddenView DEF VisitInv, View
  <2>5. VisitInv'
    BY <1>1, <1>3, <2>1, <2>2, <2>3, <2>4 DEF VisitInv, AccountInv
  <2>6. ASSUME NEW a \in Accounts
        PROVE  IF a \in DOMAIN request \ todo'
               THEN /\ View(a)' = Requested(before[a], request[a])
                    /\ request[a].state = {} \/ request[a].state_diff = {}
               ELSE View(a)' = before[a]
    <3>1. CASE a = account
      <4>1. View(a) = before[a]
        BY <3>1 DEF AllOrNothing
      <4>2. View(a)' = ViewOf(Overridden(db[account], o), account)
        BY <2>2, <3>1 DEF View, ViewOf, Storage
      <4>3. View(a)' = Requested(before[a], request[a])
        BY <2>4, <3>1, <4>1, <4>2
      <4>4. QED
        BY <1>3, <2>1, <3>1, <4>3 DEF BothGiven
    <3>2. CASE a # account
      <4>1. View(a)' = View(a)
        BY <2>2, <3>2 DEF View, ViewOf, Storage
      <4>2. a \in DOMAIN request \ todo' <=> a \in DOMAIN request \ todo
        BY <1>3, <3>2
      <4>3. QED
        BY <4>1, <4>2 DEF AllOrNothing
    <3>3. QED
      BY <3>1, <3>2
  <2>7. AllOrNothing'
    BY <1>1, <2>6 DEF AllOrNothing, Requested
  <2>8. QED
    BY <2>5, <2>7
<1>4. QED
  BY <1>2, <1>3 DEF ApplyAccountOverride

LEMMA VisitInvariant == Spec => [](VisitInv /\ AllOrNothing)
<1>1. Init => VisitInv /\ AllOrNothing
  <2> SUFFICES ASSUME Init PROVE VisitInv /\ AllOrNothing
    OBVIOUS
  <2>1. DOMAIN request = {}
    BY DEF Init
  <2>2. VisitInv
    BY <2>1, BackingAssumption DEF Init, VisitInv, AccountInv
  <2>3. AllOrNothing
    BY <2>1 DEF Init, AllOrNothing
  <2>4. QED
    BY <2>2, <2>3
<1>2. VisitInv /\ AllOrNothing /\ [Next]_vars => VisitInv' /\ AllOrNothing'
  <2> SUFFICES ASSUME VisitInv, AllOrNothing, [Next]_vars
               PROVE  VisitInv' /\ AllOrNothing'
    OBVIOUS
  <2>1. CASE ApplyStateOverrides
    <3>1. /\ request' \in StateOverride /\ todo' = DOMAIN request'
          /\ UNCHANGED db
          /\ before' = [a \in Accounts |-> View(a)]
      BY <2>1 DEF ApplyStateOverrides
    <3>2. \A a \in Accounts : View(a)' = View(a)
      BY <3>1 DEF View
    <3>3. QED
      BY <3>1, <3>2 DEF VisitInv, AllOrNothing
  <2>2. CASE VisitAccount
    BY <2>2, VisitStep
  <2>3. CASE ReturnOk
    BY <2>3 DEF ReturnOk, VisitInv, AllOrNothing, View
  <2>4. CASE ApplyBlockOverrides
    BY <2>4 DEF ApplyBlockOverrides, VisitInv, AllOrNothing, View
  <2>5. CASE UNCHANGED vars
    BY <2>5 DEF vars, VisitInv, AllOrNothing, View
  <2>6. QED
    BY <2>1, <2>2, <2>3, <2>4, <2>5 DEF Next
<1>3. QED
  BY <1>1, <1>2, PTL DEF Spec

\* An account is overridden entirely or not at all, for every backing state and
\* request, in every order of its accounts, and whatever earlier calls did or
\* failed to do.
THEOREM OverridesAtomic == Spec => []AllOrNothing
BY VisitInvariant, PTL

-----------------------------------------------------------------------------
(***************************************************************************)
(* apply_block_overrides                                                    *)
(***************************************************************************)
FieldAsked(f) == {i \in DOMAIN asked : f \in DOMAIN asked[i].set}

HashAsked(n) == {i \in DOMAIN asked : n \in DOMAIN asked[i].block_hash}

HasLast(asking) == asking = {} \/ \E m \in asking : \A k \in asking : k <= m

\* Every field and every hash is that of the last override that named it, and
\* there is such a last one.
BlockInv ==
    /\ asked \in Seq(BlockOverrides)
    /\ \A f \in DOMAIN env :
          /\ HasLast(FieldAsked(f))
          /\ env[f] = IF FieldAsked(f) = {} THEN BlockEnv[f]
                      ELSE Saturating(f, asked[Max(FieldAsked(f))].set[f])
    /\ \A n : n \in DOMAIN hashes <=> HashAsked(n) # {}
    /\ \A n \in DOMAIN hashes :
          /\ HasLast(HashAsked(n))
          /\ hashes[n] = asked[Max(HashAsked(n))].block_hash[n]

LEMMA MaxIsLast ==
    ASSUME NEW asking \in SUBSET Nat, NEW m \in asking, \A k \in asking : k <= m
    PROVE  Max(asking) = m
<1>1. \A y \in asking : m >= y
  OBVIOUS
<1>2. Max(asking) \in asking /\ \A y \in asking : Max(asking) >= y
  BY <1>1, Zenon DEF Max
<1>3. /\ Max(asking) \in Nat /\ m \in Nat
      /\ m >= Max(asking) /\ Max(asking) >= m
  BY <1>1, <1>2
<1>4. QED
  BY <1>3

LEMMA LastIsAsked ==
    ASSUME NEW asking \in SUBSET Nat, HasLast(asking), asking # {}
    PROVE  Max(asking) \in asking
BY MaxIsLast DEF HasLast

\* One more override, which asks or does not.
LEMMA OneMoreAsked ==
    ASSUME NEW len \in Nat, NEW asking \in SUBSET (1 .. len), HasLast(asking)
    PROVE  /\ HasLast(asking \cup {len + 1})
           /\ Max(asking \cup {len + 1}) = len + 1
<1>1. \A k \in asking \cup {len + 1} : k <= len + 1
  OBVIOUS
<1>2. asking \cup {len + 1} \in SUBSET Nat
  OBVIOUS
<1>3. QED
  BY <1>1, <1>2, MaxIsLast DEF HasLast

LEMMA BlockStep ==
    ASSUME BlockInv, ApplyBlockOverrides
    PROVE  BlockInv'
<1> PICK o \in BlockOverrides :
      /\ hashes' = OverrideBlockHashes(o.block_hash)
      /\ env' = [f \in DOMAIN env |->
                   IF f \in DOMAIN o.set THEN Saturating(f, o.set[f]) ELSE env[f]]
      /\ asked' = Append(asked, o)
  BY DEF ApplyBlockOverrides
<1> DEFINE len == Len(asked)
<1>1. /\ len \in Nat /\ DOMAIN asked = 1 .. len
      /\ asked' \in Seq(BlockOverrides)
      /\ DOMAIN asked' = 1 .. len + 1
      /\ asked'[len + 1] = o
      /\ \A i \in 1 .. len : asked'[i] = asked[i]
  BY DEF BlockInv
<1> HIDE DEF len
<1>2. ASSUME NEW f
      PROVE  FieldAsked(f)' = IF f \in DOMAIN o.set THEN FieldAsked(f) \cup {len + 1}
                              ELSE FieldAsked(f)
  BY <1>1 DEF FieldAsked
<1>3. ASSUME NEW n
      PROVE  HashAsked(n)' = IF n \in DOMAIN o.block_hash
                             THEN HashAsked(n) \cup {len + 1} ELSE HashAsked(n)
  BY <1>1 DEF HashAsked
<1>4. ASSUME NEW f \in DOMAIN env'
      PROVE  /\ HasLast(FieldAsked(f)')
             /\ env'[f] = IF FieldAsked(f)' = {} THEN BlockEnv[f]
                          ELSE Saturating(f, asked'[Max(FieldAsked(f)')].set[f])
  <2>1. /\ f \in DOMAIN env
        /\ env'[f] = IF f \in DOMAIN o.set THEN Saturating(f, o.set[f]) ELSE env[f]
    OBVIOUS
  <2>2. /\ FieldAsked(f) \in SUBSET (1 .. len) /\ FieldAsked(f) \in SUBSET Nat
        /\ HasLast(FieldAsked(f))
        /\ env[f] = IF FieldAsked(f) = {} THEN BlockEnv[f]
                    ELSE Saturating(f, asked[Max(FieldAsked(f))].set[f])
    BY <1>1, <2>1 DEF FieldAsked, BlockInv
  <2>3. CASE f \in DOMAIN o.set
    BY <1>1, <1>2, <2>1, <2>2, <2>3, OneMoreAsked
  <2>4. CASE f \notin DOMAIN o.set
    <3>1. FieldAsked(f)' = FieldAsked(f)
      BY <1>2, <2>4
    <3>2. FieldAsked(f) # {} => Max(FieldAsked(f)) \in 1 .. len
      BY <2>2, LastIsAsked
    <3>3. QED
      BY <1>1, <2>1, <2>2, <2>4, <3>1, <3>2
  <2>5. QED
    BY <2>3, <2>4
<1>5. ASSUME NEW n
      PROVE  n \in DOMAIN hashes' <=> HashAsked(n)' # {}
  BY <1>3 DEF OverrideBlockHashes, BlockInv
<1>6. ASSUME NEW n \in DOMAIN hashes'
      PROVE  /\ HasLast(HashAsked(n)')
             /\ hashes'[n] = asked'[Max(HashAsked(n)')].block_hash[n]
  <2>1. hashes'[n] = IF n \in DOMAIN o.block_hash THEN o.block_hash[n] ELSE hashes[n]
    BY DEF OverrideBlockHashes
  <2>2. HashAsked(n) \in SUBSET (1 .. len) /\ HashAsked(n) \in SUBSET Nat
    BY <1>1 DEF HashAsked
  <2>3. HasLast(HashAsked(n))
    BY DEF BlockInv, HasLast
  <2>4. CASE n \in DOMAIN o.block_hash
    BY <1>1, <1>3, <2>1, <2>2, <2>3, <2>4, OneMoreAsked
  <2>5. CASE n \notin DOMAIN o.block_hash
    <3>1. n \in DOMAIN hashes /\ HashAsked(n) # {} /\ HashAsked(n)' = HashAsked(n)
      BY <1>3, <2>5 DEF OverrideBlockHashes, BlockInv
    <3>2. Max(HashAsked(n)) \in 1 .. len
      BY <2>2, <2>3, <3>1, LastIsAsked
    <3>3. QED
      BY <1>1, <2>1, <2>3, <2>5, <3>1, <3>2 DEF BlockInv
  <2>6. QED
    BY <2>4, <2>5
<1>7. QED
  BY <1>1, <1>4, <1>5, <1>6 DEF BlockInv, HasLast

LEMMA BlockInvariant == Spec => []BlockInv
<1>1. Init => BlockInv
  <2> SUFFICES ASSUME Init PROVE BlockInv
    OBVIOUS
  <2>1. asked = <<>> /\ hashes = <<>> /\ env = BlockEnv
    BY DEF Init
  <2>2. \A x : FieldAsked(x) = {} /\ HashAsked(x) = {}
    BY <2>1 DEF FieldAsked, HashAsked
  <2>3. QED
    BY <2>1, <2>2 DEF BlockInv, HasLast
<1>2. BlockInv /\ [Next]_vars => BlockInv'
  <2> SUFFICES ASSUME BlockInv, [Next]_vars PROVE BlockInv'
    OBVIOUS
  <2>1. CASE ApplyBlockOverrides
    BY <2>1, BlockStep
  <2>2. CASE UNCHANGED blockVars
    BY <2>2 DEF blockVars, BlockInv, FieldAsked, HashAsked
  <2>3. QED
    BY <2>1, <2>2
    DEF Next, vars, ApplyStateOverrides, VisitAccount, ReturnOk
<1>3. QED
  BY <1>1, <1>2, PTL DEF Spec

\* A field of the block and the hash of a past block are those of the last
\* override that named them, however many were applied.
THEOREM LastWins == Spec => []LastOverrideWins
<1>1. BlockInv => LastOverrideWins
  <2> SUFFICES ASSUME BlockInv PROVE LastOverrideWins
    OBVIOUS
  <2>1. \A i \in DOMAIN asked : \A n \in DOMAIN asked[i].block_hash :
           HashAsked(n) # {} /\ n \in DOMAIN hashes
    BY DEF BlockInv, HashAsked
  <2>2. QED
    BY <2>1 DEF LastOverrideWins, LastAsked, BlockInv, FieldAsked, HashAsked
<1>2. QED
  BY <1>1, BlockInvariant, PTL

=============================================================================
