--------------------------- MODULE MCPrecompilesMap ---------------------------
(***************************************************************************)
(* Two precompiles of revm's and one more address; lookups that resolve      *)
(* nothing, the third address, or one of revm's as well.                     *)
(***************************************************************************)
EXTENDS PrecompilesMap

CONSTANTS sha, identity, other

AllAddresses == {sha, identity, other}

RevmPrecompiles ==
    [a \in {sha, identity} |-> IF a = sha THEN "sha" ELSE "identity"]

AllLookups == {[a \in {} |-> {}], [a \in {other} |-> UserPrecompile],
               [a \in {sha, other} |-> UserPrecompile]}

SomeGas == {1, 3}

=============================================================================
