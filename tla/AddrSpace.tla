----------------------------- MODULE AddrSpace ------------------------------
(***************************************************************************)
(* What an address space promises its process (mm/mman.h, spec section   *)
(* 4.9), page by page: each user page is unmapped (NULL) or shows page    *)
(* pg of memory object o.  mmap maps exactly the pages asked for, to      *)
(* consecutive pages of one object, replacing what was there; munmap      *)
(* unmaps exactly the pages asked for; brk grows the heap by mapping      *)
(* unmapped pages to the pages of the heap's object that follow the last  *)
(* heap page, and shrinks it by unmapping.  No other page ever changes.   *)
(***************************************************************************)
EXTENDS Naturals, FiniteSets, FiniteSetsExt

CONSTANTS Pages, Objs, NULL

VARIABLE pmap

Content == (Objs \X Nat) \cup {NULL}

Init == pmap \in [Pages -> Content]

PageRange(lo, n) == {v \in Pages : lo <= v /\ v < lo + n}

(* A step from page map old to page map new maps pages lo .. lo+n-1 to  *)
(* consecutive pages of one object, and changes nothing else.            *)
MapPages(old, new, lo, n) ==
    \A v \in Pages :
        IF v \in PageRange(lo, n)
        THEN /\ new[v] # NULL /\ new[v][1] = new[lo][1]
             /\ new[v][2] = new[lo][2] + v - lo
        ELSE new[v] = old[v]

(* ... unmaps pages lo .. lo+n-1 and changes nothing else.                *)
UnmapPages(old, new, lo, n) ==
    \A v \in Pages : new[v] = IF v \in PageRange(lo, n) THEN NULL ELSE old[v]

(* ... maps the unmapped pages lo .. lo+n-1 to the object pages that     *)
(* follow the one page lo-1 shows, and changes nothing else.              *)
GrowPages(old, new, lo, n) ==
    /\ lo - 1 \in Pages /\ old[lo - 1] # NULL
    /\ \A v \in Pages :
           IF v \in PageRange(lo, n)
           THEN old[v] = NULL /\ new[v] = <<old[lo - 1][1], old[lo - 1][2] + v - lo + 1>>
           ELSE new[v] = old[v]

(* A step changes no page, or is one of the three on the smallest range  *)
(* holding the pages it changes (a larger range that works for a step    *)
(* has this one work too).  The maps and the changed set are bound by \E *)
(* over one-element sets so that each is computed once per step when pmap *)
(* is a refinement mapping.                                               *)
Next ==
    \E old \in {pmap}, new \in {pmap'} :
    \E C \in {{v \in Pages : new[v] # old[v]}} :
        \/ C = {}
        \/ \E lo \in {Min(C)}, n \in {Max(C) - Min(C) + 1} :
           \/ MapPages(old, new, lo, n)
           \/ UnmapPages(old, new, lo, n)
           \/ GrowPages(old, new, lo, n)

Spec == Init /\ [][Next]_pmap
=============================================================================
