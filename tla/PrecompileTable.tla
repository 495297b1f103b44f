---------------------------- MODULE PrecompileTable ----------------------------
(***************************************************************************)
(* What PrecompilesMap (crates/evm/src/precompiles.rs) is to its users: one *)
(* table of precompiles and a lookup for the addresses not in it.  That the *)
(* table is first borrowed from revm and only copied when it is modified is *)
(* an optimisation nobody should notice.                                     *)
(***************************************************************************)
EXTENDS Functions

VARIABLES table,    \* a function from some addresses to precompiles
          lookup,   \* a function from some addresses to precompiles
          answer    \* what the last call was answered, and by which precompile

vars == <<table, lookup, answer>>

\* The table takes precedence.
Served(a) ==
    IF a \in DOMAIN table THEN {table[a]}
    ELSE IF a \in DOMAIN lookup THEN {lookup[a]} ELSE {}

\* Transforming adds and removes nothing; map_precompile changes one address.
MapAll == DOMAIN table' = DOMAIN table /\ UNCHANGED <<lookup, answer>>

\* apply_precompile adds, changes or removes one precompile.
ApplyOne ==
    /\ \E a \in DOMAIN table \cup DOMAIN table' :
          Restrict(table', DOMAIN table' \ {a}) = Restrict(table, DOMAIN table \ {a})
    /\ UNCHANGED <<lookup, answer>>

SetLookup == UNCHANGED <<table, answer>>

\* A call changes nothing and is answered by who serves the address.
Call ==
    /\ answer'.by = Served(answer'.address)
    /\ UNCHANGED <<table, lookup>>

Next == MapAll \/ ApplyOne \/ SetLookup \/ Call

Spec == [][Next]_vars

=============================================================================
