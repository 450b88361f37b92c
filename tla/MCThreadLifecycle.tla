------------------------- MODULE MCThreadLifecycle -------------------------
(* Small instances of ThreadLifecycle. *)
EXTENDS ThreadLifecycle, TLC

CONSTANTS main, t1, t2, h, r1, r2, r3, r4, r5

NoThreads == {}

\* Only CON looks at the mirror: the regions are in the order of their addresses,
\* SHADOW_STACK_OFFSET apart, in an address space that wraps.
MCMirror == [r \in Regions |-> CASE r = r1 -> r2 [] r = r2 -> r3 [] r = r3 -> r4 [] r = r4 -> IF r5 \in Regions THEN r5 ELSE h
                               [] r = r5 -> h [] OTHER -> r1]

\* Under REG and MEM all regions but the fixed one are alike.
RegionSymmetry == Permutations(Regions \ {h})
=============================================================================
