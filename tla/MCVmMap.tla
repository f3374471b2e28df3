------------------------------- MODULE MCVmMap -------------------------------
(* Eight page numbers, user pages 2..6, a text, a data/bss and a stack    *)
(* page; room for five areas and three fresh objects.                     *)
EXTENDS VmMap, TLC

CONSTANTS a1, a2, a3, a4, a5, a6, a7, oText, oData, oStack, oFile, o1, o2, o3

MCAreaIds == {a1, a2, a3, a4, a5, a6, a7}
MCObjs == {oText, oData, oStack, oFile, o1, o2, o3}

(* Slab slots and fresh objects are interchangeable: no property names    *)
(* one, and the code never compares them but for identity.                *)
Symm == Permutations(MCAreaIds) \cup Permutations({o1, o2, o3})
=============================================================================
