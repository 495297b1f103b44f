------------------------- MODULE PrecompilesMap_proofs -------------------------
(***************************************************************************)
(* Proofs about PrecompilesMap: for every set of precompiles and lookups and *)
(* every order of modifications and calls.                                   *)
(***************************************************************************)
EXTENDS PrecompilesMap, TLAPS

\* A precompile says whether it is cached.
Labelled(p) == "cached" \in DOMAIN p

\* The addresses kept beside the map are its domain.
MapInv ==
    /\ kind \in {"Builtin", "Dynamic"}
    /\ kind = "Dynamic" =>
          /\ addresses = DOMAIN inner
          /\ \A a \in DOMAIN inner : Labelled(inner[a])

\* A conversion computes the table users see already.
LEMMA ConversionInvisible ==
    ASSUME MapInv
    PROVE  /\ ConvertedInner = Static
           /\ ConvertedAddresses = DOMAIN Static
           /\ \A a \in DOMAIN Static : Labelled(Static[a])
BY DEF MapInv, ConvertedInner, ConvertedAddresses, Static, FromStatic, FromPrecompileFn,
       Labelled

\* What a modification leaves is what its closure makes of that table.
LEMMA DynamicStatic ==
    ASSUME kind' = "Dynamic"
    PROVE  Static' = inner'
BY DEF Static

LEMMA TransformLabelled ==
    ASSUME NEW f \in Transformations, NEW p, Labelled(p)
    PROVE  Labelled(Transform(f, p))
BY DEF Transformations, Transform, UserPrecompile, Labelled

LEMMA MapInvariant == Spec => []MapInv
<1>1. Init => MapInv
  BY DEF Init, MapInv
<1>2. MapInv /\ [Next]_vars => MapInv'
  <2> SUFFICES ASSUME MapInv, [Next]_vars PROVE MapInv'
    OBVIOUS
  <2> USE ConversionInvisible DEF MapInv
  <2>1. CASE EnsureDynamicPrecompiles
    BY <2>1 DEF EnsureDynamicPrecompiles
  <2>2. ASSUME NEW a \in Addresses, NEW f \in Transformations, MapPrecompile(a, f)
        PROVE  MapInv'
    BY <2>2, TransformLabelled DEF MapPrecompile
  <2>3. ASSUME NEW f \in Transformations, NEW pureOnly, MapPrecompiles(f, pureOnly)
        PROVE  MapInv'
    BY <2>3, TransformLabelled DEF MapPrecompiles
  <2>4. ASSUME NEW a \in Addresses, NEW p \in Current(a) \cup {UserPrecompile},
               ApplySome(a, p)
        PROVE  MapInv'
    <3>1. Labelled(p)
      BY DEF Current, UserPrecompile, Labelled
    <3>2. QED
      BY <2>4, <3>1 DEF ApplySome
  <2>5. ASSUME NEW a \in Addresses, ApplyNone(a) PROVE MapInv'
    BY <2>5 DEF ApplyNone, Restrict
  <2>6. ASSUME NEW l \in Lookups, SetPrecompileLookup(l) PROVE MapInv'
    BY <2>6 DEF SetPrecompileLookup
  <2>7. ASSUME NEW a, NEW gas, Run(a, gas) PROVE MapInv'
    BY <2>7 DEF Run
  <2>8. CASE UNCHANGED vars
    BY <2>8 DEF vars
  <2>9. QED
    BY <2>1, <2>2, <2>3, <2>4, <2>5, <2>6, <2>7, <2>8
    DEF Next, Modify, Transformations
<1>3. QED
  BY <1>1, <1>2, PTL DEF Spec

\* Whatever was mapped, added and removed, before and after the conversion, an
\* address is warm exactly when the map serves it.
THEOREM WarmIsServed == Spec => []WarmIffServedByMap
<1>1. MapInv => WarmIffServedByMap
  BY DEF MapInv, WarmIffServedByMap, Warm, Static, Get
<1>2. QED
  BY <1>1, MapInvariant, PTL

\* No sequence of mappings puts a cache around a precompile that is not pure.
THEOREM CachedWhilePure == Spec => OnlyPureCached
<1>1. ASSUME MapInv, [Next]_vars,
             NEW a \in DOMAIN Static \cap DOMAIN Static',
             Static'[a].cached, ~Static[a].cached
      PROVE  Static[a].pure
  <2>1. CASE EnsureDynamicPrecompiles
    BY <1>1, <2>1, ConversionInvisible, DynamicStatic DEF EnsureDynamicPrecompiles
  <2>2. ASSUME NEW b \in Addresses, NEW f \in {"stateful", "replace"},
               MapPrecompile(b, f)
        PROVE  Static[a].pure
    <3>1. Static'[a] = IF a = b THEN Transform(f, Static[a]) ELSE Static[a]
      BY <1>1, <2>2, ConversionInvisible, DynamicStatic DEF MapPrecompile
    <3>2. CASE f = "stateful"
      BY <1>1, <3>1, <3>2, ConversionInvisible DEF Transform, Labelled
    <3>3. CASE f = "replace"
      BY <1>1, <3>1, <3>3 DEF Transform, UserPrecompile
    <3>4. QED
      BY <3>2, <3>3
  <2>3. ASSUME NEW f \in Transformations, NEW pureOnly \in BOOLEAN,
               MapPrecompiles(f, pureOnly)
        PROVE  Static[a].pure
    <3>1. Static'[a] = IF Filter(Static[a], pureOnly) THEN Transform(f, Static[a])
                       ELSE Static[a]
      BY <1>1, <2>3, ConversionInvisible, DynamicStatic DEF MapPrecompiles
    <3>2. CASE f = "cache"
      BY <1>1, <2>3, <3>1, <3>2 DEF MapPrecompiles, Filter
    <3>3. CASE f = "stateful"
      BY <1>1, <3>1, <3>3, ConversionInvisible DEF Transform, Labelled
    <3>4. CASE f = "replace"
      BY <1>1, <3>1, <3>4 DEF Transform, UserPrecompile
    <3>5. QED
      BY <3>2, <3>3, <3>4 DEF Transformations
  <2>4. ASSUME NEW b \in Addresses, NEW p \in Current(b) \cup {UserPrecompile},
               ApplySome(b, p)
        PROVE  Static[a].pure
    <3>1. Static'[a] = IF a = b THEN p ELSE Static[a]
      BY <1>1, <2>4, ConversionInvisible, DynamicStatic DEF ApplySome
    <3>2. a = b => p = Static[a] \/ p = UserPrecompile
      BY <1>1, ConversionInvisible DEF Current
    <3>3. QED
      BY <1>1, <3>1, <3>2 DEF UserPrecompile
  <2>5. ASSUME NEW b \in Addresses, ApplyNone(b) PROVE Static[a].pure
    BY <1>1, <2>5, ConversionInvisible, DynamicStatic DEF ApplyNone, Restrict
  <2>6. CASE UNCHANGED <<kind, inner>>
    BY <1>1, <2>6 DEF Static
  <2>7. QED
    BY <1>1, <2>1, <2>2, <2>3, <2>4, <2>5, <2>6
    DEF Next, Modify, SetPrecompileLookup, Run, vars
<1>2. MapInv /\ [Next]_vars =>
        [\A a \in DOMAIN Static \cap DOMAIN Static' :
            Static'[a].cached /\ ~Static[a].cached => Static[a].pure]_vars
  BY <1>1
<1>3. QED
  BY <1>2, MapInvariant, PTL DEF Spec, OnlyPureCached

\* To its users the map is one table and a lookup, for all the conversions,
\* modifications and calls there may be.
THEOREM TableImplemented == Spec => ImplementsTable
<1>1. MapInv /\ [Next]_vars => [Table!Next]_(Table!vars)
  <2> SUFFICES ASSUME MapInv, [Next]_vars PROVE [Table!Next]_(Table!vars)
    OBVIOUS
  <2> USE DEF Table!vars
  <2>1. CASE EnsureDynamicPrecompiles
    BY <2>1, ConversionInvisible, DynamicStatic DEF EnsureDynamicPrecompiles
  <2>2. ASSUME NEW a \in Addresses, NEW f, MapPrecompile(a, f) PROVE Table!Next
    <3>1. DOMAIN Static' = DOMAIN Static
      BY <2>2, ConversionInvisible, DynamicStatic DEF MapPrecompile
    <3>2. QED
      BY <2>2, <3>1 DEF MapPrecompile, Table!MapAll, Table!Next
  <2>3. ASSUME NEW f, NEW pureOnly, MapPrecompiles(f, pureOnly) PROVE Table!Next
    <3>1. DOMAIN Static' = DOMAIN Static
      BY <2>3, ConversionInvisible, DynamicStatic DEF MapPrecompiles
    <3>2. QED
      BY <2>3, <3>1 DEF MapPrecompiles, Table!MapAll, Table!Next
  <2>4. ASSUME NEW a \in Addresses, NEW p, ApplySome(a, p) PROVE Table!Next
    <3>1. Static' = [x \in DOMAIN Static \cup {a} |-> IF x = a THEN p ELSE Static[x]]
      BY <2>4, ConversionInvisible, DynamicStatic DEF ApplySome
    <3>2. DOMAIN Static' \ {a} = DOMAIN Static \ {a} /\ a \in DOMAIN Static'
      BY <3>1
    <3>3. Table!Restrict(Static', DOMAIN Static' \ {a})
            = Table!Restrict(Static, DOMAIN Static \ {a})
      BY <3>1, <3>2 DEF Table!Restrict
    <3>4. QED
      BY <2>4, <3>2, <3>3 DEF ApplySome, Table!ApplyOne, Table!Next
  <2>5. ASSUME NEW a \in Addresses, ApplyNone(a)
        PROVE  Table!Next \/ UNCHANGED Table!vars
    <3>1. Static' = [x \in DOMAIN Static \ {a} |-> Static[x]]
      BY <2>5, ConversionInvisible, DynamicStatic DEF ApplyNone, Restrict
    <3>2. DOMAIN Static' \ {a} = DOMAIN Static \ {a}
      BY <3>1
    <3>3. Table!Restrict(Static', DOMAIN Static' \ {a})
            = Table!Restrict(Static, DOMAIN Static \ {a})
      BY <3>1, <3>2 DEF Table!Restrict
    <3>4. CASE a \in DOMAIN Static
      BY <2>5, <3>3, <3>4 DEF ApplyNone, Table!ApplyOne, Table!Next
    <3>5. CASE a \notin DOMAIN Static
      BY <2>5, <3>1, <3>5 DEF ApplyNone, Table!MapAll, Table!Next
    <3>6. QED
      BY <3>4, <3>5
  <2>6. ASSUME NEW l \in Lookups, SetPrecompileLookup(l) PROVE Table!Next
    BY <2>6 DEF SetPrecompileLookup, Static, Table!SetLookup, Table!Next
  <2>7. ASSUME NEW a, NEW gas, Run(a, gas) PROVE Table!Next
    <3>1. UNCHANGED <<Static, lookup>>
      BY <2>7 DEF Run, Static
    <3>2. answer'.address = a /\ answer'.by = Get(a)
      BY <2>7 DEF Run, Get
    <3>3. Get(a) = Table!Served(a)
      BY DEF Get, Table!Served
    <3>4. QED
      BY <3>1, <3>2, <3>3 DEF Table!Call, Table!Next
  <2>8. CASE UNCHANGED vars
    BY <2>8 DEF vars, Static
  <2>9. QED
    BY <2>1, <2>2, <2>3, <2>4, <2>5, <2>6, <2>7, <2>8 DEF Next, Modify
<1>2. QED
  BY <1>1, MapInvariant, PTL DEF Spec, ImplementsTable, Table!Spec

=============================================================================
