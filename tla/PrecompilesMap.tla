---------------------------- MODULE PrecompilesMap ----------------------------
(***************************************************************************)
(* PrecompilesMap (crates/evm/src/precompiles.rs): the precompiles of an     *)
(* EVM, borrowed from revm until somebody modifies one ("Builtin") and a    *)
(* map of boxed closures with a set of its addresses after that             *)
(* ("Dynamic"); and a lookup for all other addresses.                       *)
(*                                                                          *)
(* A precompile is the function it computes, whether it is pure, whether a  *)
(* result cache was wrapped around it, what it costs, and                   *)
(* whether it looks at the gas it is given before it charges it: revm's     *)
(* precompiles do, a closure of a user need not.                            *)
(***************************************************************************)
EXTENDS Naturals, Functions

CONSTANTS
    Addresses,
    Builtin,        \* revm's precompiles: addresses to functions
    Lookups,        \* the lookups a user may set
    Gas,            \* the gas calls are given
    Cost            \* the cost of every precompile

VARIABLES
    kind,           \* PrecompilesKind: "Builtin" or "Dynamic"
    inner,          \* DynPrecompiles::inner
    addresses,      \* DynPrecompiles::addresses
    lookup,         \* the lookup: a function on the addresses it resolves
    answer          \* what run last returned

vars == <<kind, inner, addresses, lookup, answer>>

-----------------------------------------------------------------------------
\* revm's precompile seen through the trait Precompile: pure by default.
FromStatic(fn) ==
    [fn |-> fn, pure |-> TRUE, cached |-> FALSE, checksGas |-> TRUE]

\* From<PrecompileFn> for DynPrecompile: a closure around the same function,
\* pure because every closure is by default.  (Its identifier is lost.)
FromPrecompileFn(fn) ==
    [fn |-> fn, pure |-> TRUE, cached |-> FALSE, checksGas |-> TRUE]

\* A closure of the user's.
UserPrecompile ==
    [fn |-> "user", pure |-> TRUE, cached |-> FALSE, checksGas |-> FALSE]

\* The closures a user may map precompiles with: a cache around it, a mark that
\* it is stateful (DynPrecompile::stateful), or another precompile.
Transformations == {"cache", "stateful", "replace"}

Transform(f, p) ==
    CASE f = "cache"    -> [p EXCEPT !.cached = TRUE, !.pure = TRUE]
      [] f = "stateful" -> [p EXCEPT !.pure = FALSE]
      [] f = "replace"  -> UserPrecompile

-----------------------------------------------------------------------------
\* ensure_dynamic_precompiles
ConvertedInner ==
    IF kind = "Dynamic" THEN inner
    ELSE [a \in DOMAIN Builtin |-> FromPrecompileFn(Builtin[a])]

ConvertedAddresses == IF kind = "Dynamic" THEN addresses ELSE DOMAIN Builtin

EnsureDynamicPrecompiles ==
    /\ kind = "Builtin"
    /\ kind' = "Dynamic"
    /\ inner' = ConvertedInner /\ addresses' = ConvertedAddresses
    /\ UNCHANGED <<lookup, answer>>

\* map_precompile
MapPrecompile(a, f) ==
    /\ kind' = "Dynamic"
    /\ inner' = [x \in DOMAIN ConvertedInner |->
                    IF x = a THEN Transform(f, ConvertedInner[x]) ELSE ConvertedInner[x]]
    /\ addresses' = ConvertedAddresses
    /\ UNCHANGED <<lookup, answer>>

\* Mutant: map_pure_precompiles transforms every precompile.
FilterNothing(p, pureOnly) == TRUE

Filter(p, pureOnly) == pureOnly => p.pure

\* map_precompiles and map_pure_precompiles; a cache is only put around pure ones.
MapPrecompiles(f, pureOnly) ==
    /\ f = "cache" => pureOnly
    /\ kind' = "Dynamic"
    /\ inner' = [x \in DOMAIN ConvertedInner |->
                    IF Filter(ConvertedInner[x], pureOnly)
                    THEN Transform(f, ConvertedInner[x]) ELSE ConvertedInner[x]]
    /\ addresses' = ConvertedAddresses
    /\ UNCHANGED <<lookup, answer>>

\* What the closure of apply_precompile is given.
Current(a) == IF a \in DOMAIN ConvertedInner THEN {ConvertedInner[a]} ELSE {}

\* apply_precompile, with a closure that returns Some(p).
ApplySome(a, p) ==
    /\ kind' = "Dynamic"
    /\ inner' = [x \in DOMAIN ConvertedInner \cup {a} |->
                    IF x = a THEN p ELSE ConvertedInner[x]]
    /\ addresses' = ConvertedAddresses \cup {a}
    /\ UNCHANGED <<lookup, answer>>

\* Mutant: the address is left behind.
ApplyNoneKeepingAddress(a) ==
    /\ kind' = "Dynamic"
    /\ inner' = Restrict(ConvertedInner, DOMAIN ConvertedInner \ {a})
    /\ addresses' = ConvertedAddresses
    /\ UNCHANGED <<lookup, answer>>

\* apply_precompile, with a closure that returns None.
ApplyNone(a) ==
    /\ kind' = "Dynamic"
    /\ inner' = Restrict(ConvertedInner, DOMAIN ConvertedInner \ {a})
    /\ addresses' = ConvertedAddresses \ {a}
    /\ UNCHANGED <<lookup, answer>>

SetPrecompileLookup(l) ==
    /\ lookup' = l
    /\ UNCHANGED <<kind, inner, addresses, answer>>

-----------------------------------------------------------------------------
\* The precompiles in their current representation.
Static ==
    IF kind = "Builtin" THEN [a \in DOMAIN Builtin |-> FromStatic(Builtin[a])]
    ELSE inner

\* warm_addresses
Warm == IF kind = "Builtin" THEN DOMAIN Builtin ELSE addresses

\* Mutant: the lookup takes precedence.
GetLookupFirst(a) ==
    IF a \in DOMAIN lookup THEN {lookup[a]}
    ELSE IF a \in DOMAIN Static THEN {Static[a]} ELSE {}

\* get, as a set of at most one precompile; contains is that there is one.
Get(a) ==
    IF a \in DOMAIN Static THEN {Static[a]}
    ELSE IF a \in DOMAIN lookup THEN {lookup[a]} ELSE {}

\* What calling p may come to: a result, or one of the three PrecompileErrors.
\* A charge above the gas of the call fails the assertion on record_cost.
Outcomes(p, gas) ==
    IF gas < Cost
    THEN {IF p.checksGas THEN "PrecompileOOG" ELSE "panic"}
    ELSE {"Return", "Revert", "PrecompileError", "Fatal"}

Alive == answer.result # "panic"

\* PrecompileProvider::run
Run(a, gas) ==
    /\ \/ /\ Get(a) = {}
          /\ answer' = [address |-> a, by |-> {}, result |-> "None", gas |-> gas]
       \/ \E p \in Get(a) : \E outcome \in Outcomes(p, gas) :
            answer' = [address |-> a, by |-> {p}, result |-> outcome,
                       gas |-> IF outcome \in {"Return", "Revert"}
                               THEN gas - Cost ELSE gas]
    /\ UNCHANGED <<kind, inner, addresses, lookup>>

-----------------------------------------------------------------------------
\* PrecompilesMap::from_static
Init ==
    /\ kind = "Builtin"
    /\ inner = [a \in {} |-> {}] /\ addresses = {}
    /\ lookup = [a \in {} |-> {}]
    /\ answer = [address |-> {}, by |-> {}, result |-> "None", gas |-> 0]

Modify ==
    \/ EnsureDynamicPrecompiles
    \/ \E a \in Addresses, f \in {"stateful", "replace"} : MapPrecompile(a, f)
    \/ \E f \in Transformations, pureOnly \in BOOLEAN : MapPrecompiles(f, pureOnly)
    \/ \E a \in Addresses : \E p \in Current(a) \cup {UserPrecompile} : ApplySome(a, p)
    \/ \E a \in Addresses : ApplyNone(a)
    \/ \E l \in Lookups : SetPrecompileLookup(l)

Next == Alive /\ (Modify \/ \E a \in Addresses, gas \in Gas : Run(a, gas))

Spec == Init /\ [][Next]_vars

ASSUME PrecompilesAssumption == DOMAIN Builtin \subseteq Addresses

-----------------------------------------------------------------------------
\* An address is warm exactly when the map itself has it, and then the map
\* serves it: what only the lookup resolves is cold, what was removed does not
\* stay warm, what was added does not stay cold.
WarmIffServedByMap ==
    /\ Warm = DOMAIN Static
    /\ \A a \in Warm : Get(a) = {Static[a]}

\* A cache is put around a precompile only while that is pure, whatever was
\* mapped or applied before.
OnlyPureCached ==
    [][\A a \in DOMAIN Static \cap DOMAIN Static' :
          Static'[a].cached /\ ~Static[a].cached => Static[a].pure]_vars

Table == INSTANCE PrecompileTable WITH
    table <- Static

\* The map is one table and a lookup to its users (module PrecompileTable):
\* converting it changes what no call returns.
ImplementsTable == Table!Spec

=============================================================================
