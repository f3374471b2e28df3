------------------------------- MODULE VmMap --------------------------------
(***************************************************************************)
(* The address-space map of one process (vm/vmmap.c) and the system calls *)
(* that change it: mmap, munmap (vm/mmap.c) and brk (vm/brk.c).            *)
(*                                                                         *)
(* Addresses are page numbers 0 .. NPN-1, so that the 32-bit sums of     *)
(* do_mmap and do_munmap wrap modulo NPN pages; user pages are LOW ..     *)
(* HIGH-1.  A break address is counted in half pages (PAGE units to a    *)
(* page), enough to tell a page-aligned break from one inside a page.    *)
(* A vmarea is an id of the vmarea slab with a record [start, end, off,   *)
(* obj]; vmm_list is the list of ids in list order.  A memory object is  *)
(* an id with a reference count; what an object holds (anon.c, shadow.c) *)
(* is left to other modules: here an object is created with refcount 1   *)
(* for its area (anon_create, or shadow_create for MAP_PRIVATE), and the  *)
(* one file's object gains a reference from the vnode's mmap.            *)
(*                                                                         *)
(* The operators transform a record m = [list, vma, alloc, ref, objs];    *)
(* an action chains the calls of one system call and commits the result. *)
(* A failed KASSERT or a NULL dereference stops the kernel: fault.       *)
(***************************************************************************)
EXTENDS Naturals, Integers, Sequences, FiniteSets, SequencesExt

CONSTANTS
    NPN,          \* 2^32 bytes in pages: sums of addresses wrap at NPN
    LOW, HIGH,    \* ADDR_TO_PN(USER_MEM_LOW), ADDR_TO_PN(USER_MEM_HIGH)
    AreaIds,      \* the vmarea slab
    Objs,         \* memory objects: the loader's, the file's, fresh ones
    TextObj, DataObj, StackObj, FileObj,
    StartBrks,    \* p_start_brk values the loader may leave, in half pages
    MmapAddrs,    \* page numbers passed to mmap (0 is NULL)
    MmapLens,     \* lengths in pages passed to mmap and munmap
    MunmapAddrs,  \* page numbers passed to munmap
    BrkAddrs,     \* addresses passed to brk, in half pages
    MmapResults,  \* what the file's vn_ops->mmap returns: "ok", "fail"
    NULL

PAGE == 2

ASSUME /\ 0 < LOW /\ LOW < HIGH /\ HIGH < NPN
       /\ {TextObj, DataObj, StackObj, FileObj} \subseteq Objs

Pages == LOW .. HIGH - 1

(* ADDR_TO_PN and PAGE_ALIGN_UP on a break address.                        *)
AddrToPn(a) == a \div PAGE
AlignUpPn(a) == (a + PAGE - 1) \div PAGE

VARIABLES
    vmm_list,   \* the areas of map->vmm_list, lowest first
    vma,        \* vma[a]: vma_start, vma_end, vma_off, vma_obj of area a
    alloc,      \* the vmarea slab objects allocated
    refcount,   \* mmo_refcount of each memory object
    objs,       \* the memory objects created so far
    p_start_brk, p_brk,
    fault       \* "none", or how the kernel stopped

vars == <<vmm_list, vma, alloc, refcount, objs, p_start_brk, p_brk, fault>>

AreaRec == [start : 0..NPN, end : 0..NPN, off : Int, obj : Objs]

M == [list |-> vmm_list, vma |-> vma, alloc |-> alloc, ref |-> refcount,
      objs |-> objs]

Commit(m) ==
    /\ vmm_list' = m.list /\ vma' = m.vma /\ alloc' = m.alloc
    /\ refcount' = m.ref /\ objs' = m.objs

(* The areas the loader leaves (outside src/): text at LOW, data/bss on  *)
(* the next page with the break inside or at the end of it, and a stack  *)
(* page at the top.                                                       *)
InitAreas ==
    <<[start |-> LOW, end |-> LOW + 1, off |-> 0, obj |-> TextObj],
      [start |-> LOW + 1, end |-> LOW + 2, off |-> 0, obj |-> DataObj],
      [start |-> HIGH - 1, end |-> HIGH, off |-> 0, obj |-> StackObj]>>

(* What a slab slot holds while free: nothing the code reads again,     *)
(* except through a pointer left dangling, so one record stands for all. *)
FreedRec == [start |-> 0, end |-> 0, off |-> 0, obj |-> TextObj]

Init ==
    LET ids == CHOOSE f \in [1..3 -> AreaIds] : IsInjective(f)
    IN  /\ vmm_list = ids
        /\ vma = [a \in AreaIds |->
                    IF \E i \in 1..3 : ids[i] = a
                    THEN InitAreas[CHOOSE i \in 1..3 : ids[i] = a]
                    ELSE FreedRec]
        /\ alloc = ToSet(ids)
        /\ refcount = [o \in Objs |-> IF o \in {TextObj, DataObj, StackObj}
                                      THEN 1 ELSE 0]
        /\ objs = {TextObj, DataObj, StackObj, FileObj}
        /\ p_start_brk \in StartBrks /\ p_brk = p_start_brk
        /\ fault = "none"

(***************************************************************************)
(* The list operations of vmmap.c                                          *)
(***************************************************************************)
(* A vmmap_insert that always links the new area at the tail.           *)
InsertTail(m, a) == [m EXCEPT !.list = Append(@, a)]

(* vmmap_insert: before the first area whose start is at or above the new *)
(* area's end, else at the tail.                                           *)
Insert(m, a) ==
    LET i == SelectInSeq(m.list, LAMBDA b : m.vma[b].start >= m.vma[a].end)
    IN  [m EXCEPT !.list = IF i = 0 THEN Append(@, a) ELSE InsertAt(@, i, a)]

(* vmmap_lookup: the first area with start <= vfn < end, or NULL.          *)
Lookup(m, vfn) ==
    LET i == SelectInSeq(m.list, LAMBDA b : m.vma[b].end > vfn /\ m.vma[b].start <= vfn)
    IN  IF i = 0 THEN NULL ELSE m.list[i]

(* vmmap_is_range_empty: the scan stops at the first area that starts at *)
(* or after the end (empty) or overlaps the range (not empty).            *)
IsRangeEmpty(m, startvfn, npages) ==
    LET endvfn == startvfn + npages
        i == SelectInSeq(m.list, LAMBDA b : \/ m.vma[b].start >= endvfn
                                            \/ m.vma[b].end > startvfn)
    IN  IF i = 0 THEN TRUE ELSE m.vma[m.list[i]].start >= endvfn

(* The VMMAP_DIR_HILO scan of vmmap_find_range, from the tail, pre_start  *)
(* the start of the area above; after the head, the gap down to LOW.      *)
(* A scan that takes a gap only when it is larger than npages.           *)
RECURSIVE HiLoScanStrict(_, _, _, _)
HiLoScanStrict(m, l, pre_start, npages) ==
    IF l = <<>>
    THEN IF pre_start - LOW > npages THEN pre_start - npages ELSE -1
    ELSE IF pre_start - m.vma[Last(l)].end > npages THEN pre_start - npages
         ELSE HiLoScanStrict(m, Front(l), m.vma[Last(l)].start, npages)

RECURSIVE HiLoScan(_, _, _, _)
HiLoScan(m, l, pre_start, npages) ==
    IF l = <<>>
    THEN IF pre_start - LOW >= npages THEN pre_start - npages ELSE -1
    ELSE IF pre_start - m.vma[Last(l)].end >= npages THEN pre_start - npages
         ELSE HiLoScan(m, Front(l), m.vma[Last(l)].start, npages)

(* vmmap_find_range(map, npages, VMMAP_DIR_HILO) on a non-empty map (on  *)
(* an empty one list_head reads a vmarea that is not there).              *)
FindRange(m, npages) == HiLoScan(m, m.list, HIGH, npages)

(* A free area of the slab; the model's slab never runs out.              *)
NewArea(m) == CHOOSE a \in AreaIds : a \notin m.alloc

(* A removal that forgets mmo_ops->put.                                   *)
PutForgotten(m, o) == m

(* A removal that puts the area's object twice (once for a shadow that   *)
(* the area does not have).                                                *)
PutTwice(m, o) == [m EXCEPT !.ref[o] = @ - 2]

(* The reference an area drops: mmo_ops->put.                              *)
Put(m, o) == [m EXCEPT !.ref[o] = @ - 1]

(* The page of the area's object shown at vfn, as the split and the     *)
(* front trim compute it; a variant that keeps the old offset.            *)
OffAtStale(v, vfn) == v.off

OffAt(v, vfn) == v.off + vfn - v.start

(* One iteration of vmmap_remove's loop over area a, for [lo, endvfn).   *)
RemoveOne(m, a, lo, endvfn) ==
    LET v == m.vma[a]
    IN  CASE v.end > endvfn /\ v.start < lo ->
               \* case 1: split; the upper part is a new area on the same
               \* object, which gains a reference
               LET b == NewArea(m)
                   m1 == [m EXCEPT !.alloc = @ \cup {b},
                                   !.vma[b] = [start |-> endvfn, end |-> v.end,
                                               off |-> OffAt(v, endvfn),
                                               obj |-> v.obj]]
                   m2 == Insert(m1, b)
               IN  [m2 EXCEPT !.ref[v.obj] = @ + 1, !.vma[a].end = lo]
          [] v.end <= endvfn /\ v.start < lo /\ v.end > lo ->
               [m EXCEPT !.vma[a].end = lo]
          [] v.end > endvfn /\ v.start >= lo /\ v.start < endvfn ->
               [m EXCEPT !.vma[a].off = OffAt(v, endvfn),
                         !.vma[a].start = endvfn]
          [] v.end <= endvfn /\ v.start >= lo ->
               [Put(m, v.obj) EXCEPT !.list = Remove(@, a), !.alloc = @ \ {a},
                                     !.vma[a] = FreedRec]
          [] OTHER -> m

(* vmmap_remove: the loop visits the areas that were on the list when it *)
(* reached them; an area split off in case 1 lies above the range and is *)
(* left alone by every case, so a pass over the list as it was is the    *)
(* same.  The TLB flush and pt_unmap_range touch no state modelled here. *)
RECURSIVE RemoveEach(_, _, _, _)
RemoveEach(m, l, lo, endvfn) ==
    IF l = <<>> THEN m
    ELSE RemoveEach(RemoveOne(m, Head(l), lo, endvfn), Tail(l), lo, endvfn)

VmmapRemove(m, lopage, npages) == RemoveEach(m, m.list, lopage, lopage + npages)

(***************************************************************************)
(* The system calls                                                        *)
(***************************************************************************)
(* The slab and the pool of fresh objects are bounded; a call is taken   *)
(* only while what it may allocate is there.                              *)
RoomFor(m) == Cardinality(AreaIds \ m.alloc) >= 2 /\ objs # Objs

FreshObj == CHOOSE o \in Objs : o \notin objs

(* vmmap_map after its KASSERTs and the choice of lopage: remove what is *)
(* in the range, insert a new area, then give it an object; when the     *)
(* file's mmap fails the area is freed, but it stays on the list.         *)
MapAt(m, lopage, npages, file, shared, result) ==
    LET m1 == IF IsRangeEmpty(m, lopage, npages) THEN m
              ELSE VmmapRemove(m, lopage, npages)
        b == NewArea(m1)
        m2 == Insert([m1 EXCEPT !.alloc = @ \cup {b},
                                !.vma[b] = [start |-> lopage, end |-> lopage + npages,
                                            off |-> 0, obj |-> m1.vma[b].obj]], b)
        o == IF file /\ shared THEN FileObj ELSE FreshObj
    IN  IF file /\ result = "fail"
        THEN [m2 EXCEPT !.alloc = @ \ {b}]
        ELSE [m2 EXCEPT !.vma[b].obj = o, !.ref[o] = @ + 1, !.objs = @ \cup {o}]

(* What vmmap_find_range can return.  On an empty map the loop does not *)
(* run and list_head yields the list anchor itself, so the head check    *)
(* reads a vma_start from whatever lies before the vmmap: any page, or   *)
(* -1 when that garbage is below LOW + npages.                           *)
FindRangeResults(m, npages) ==
    IF m.list = <<>> THEN -1 .. NPN - 1 ELSE {FindRange(m, npages)}

(* do_mmap(addr, len, ..., flags, fd, 0) and the vmmap_map it calls, with *)
(* MAP_SHARED or MAP_PRIVATE, anonymous or on the one file; the argument *)
(* checks that return early change nothing and are left out.  A lopage   *)
(* given by the caller meets the KASSERTs of vmmap_map, one found by the *)
(* scan that of vmmap_insert.                                             *)
do_mmap(addr, npages, file, shared, result) ==
    /\ fault = "none" /\ RoomFor(M)
    /\ (addr + npages) % NPN <= HIGH
    /\ IF addr # 0 /\ ~(LOW <= addr /\ addr + npages <= HIGH)
       THEN fault' = "kassert" /\ UNCHANGED <<vmm_list, vma, alloc, refcount, objs>>
       ELSE \E lopage \in IF addr = 0 THEN FindRangeResults(M, npages) ELSE {addr} :
              /\ lopage >= 0
              /\ IF LOW <= lopage /\ lopage + npages <= HIGH
                 THEN Commit(MapAt(M, lopage, npages, file, shared, result))
                      /\ UNCHANGED fault
                 ELSE fault' = "kassert" /\ UNCHANGED <<vmm_list, vma, alloc, refcount, objs>>
    /\ UNCHANGED <<p_start_brk, p_brk>>

(* do_munmap(addr, len): the checks, then vmmap_remove.                   *)
do_munmap(addr, npages) ==
    /\ fault = "none" /\ RoomFor(M)
    /\ (addr + npages) % NPN <= HIGH /\ (addr + npages) % NPN >= LOW
    /\ npages <= HIGH
    /\ Commit(VmmapRemove(M, addr, npages))
    /\ UNCHANGED <<p_start_brk, p_brk, fault>>

(* do_brk(addr), addr not NULL: the area holding p_start_brk's page is   *)
(* the heap; a lower break removes the pages above it, a higher one      *)
(* extends the area when the pages are free.                              *)
do_brk(addr) ==
    /\ fault = "none" /\ RoomFor(M)
    /\ addr >= p_start_brk /\ addr <= HIGH * PAGE
    /\ LET a == Lookup(M, AddrToPn(p_start_brk))
       IN  IF a = NULL
           THEN fault' = "nullderef" /\ UNCHANGED <<vmm_list, vma, alloc, refcount, objs, p_brk>>
           ELSE LET prev_endvfn == vma[a].end
                    new_endvfn == AlignUpPn(addr)
                IN  /\ \/ /\ prev_endvfn > new_endvfn
                          /\ Commit(VmmapRemove(M, new_endvfn, prev_endvfn - new_endvfn))
                       \/ /\ prev_endvfn < new_endvfn
                          /\ IsRangeEmpty(M, prev_endvfn, new_endvfn - prev_endvfn)
                          /\ vma' = [vma EXCEPT ![a].end = new_endvfn]
                          /\ UNCHANGED <<vmm_list, alloc, refcount, objs>>
                       \/ /\ prev_endvfn = new_endvfn
                          /\ UNCHANGED <<vmm_list, vma, alloc, refcount, objs>>
                    /\ p_brk' = addr
                    /\ UNCHANGED fault
    /\ UNCHANGED p_start_brk

Next ==
    \/ \E addr \in MmapAddrs, n \in MmapLens, file, shared \in BOOLEAN,
          result \in MmapResults : do_mmap(addr, n, file, shared, result)
    \/ \E addr \in MunmapAddrs, n \in MmapLens : do_munmap(addr, n)
    \/ \E addr \in BrkAddrs : do_brk(addr)

Spec == Init /\ [][Next]_vars

(***************************************************************************)
(* Properties                                                              *)
(***************************************************************************)
TypeOK ==
    /\ vmm_list \in Seq(AreaIds) /\ alloc \subseteq AreaIds
    /\ vma \in [AreaIds -> AreaRec]
    /\ refcount \in [Objs -> Nat] /\ objs \subseteq Objs
    /\ fault \in {"none", "kassert", "nullderef"}

(* The spec's invariant of an address space: the areas on vmm_list are   *)
(* non-empty, inside user memory, in increasing order and disjoint, each *)
(* listed once, after any sequence of mmap (into free or occupied        *)
(* ranges), munmap (the four cases of vmmap_remove) and brk.              *)
MapWellFormed ==
    /\ IsInjective(vmm_list)
    /\ \A i \in 1..Len(vmm_list) :
           LET v == vma[vmm_list[i]]
           IN  LOW <= v.start /\ v.start < v.end /\ v.end <= HIGH
    /\ \A i \in 1..Len(vmm_list) - 1 :
           vma[vmm_list[i]].end <= vma[vmm_list[i + 1]].start

(* Every area on vmm_list is a live vmarea of the slab, not one that was  *)
(* freed (vmarea_free) and left linked.                                    *)
AreasAllocated == ToSet(vmm_list) \subseteq alloc

(* Each object is referenced by the map exactly as often as areas point   *)
(* to it: a split takes a reference for the new area, a whole removal     *)
(* drops one, a new mapping holds one.                                     *)
RefsMatch ==
    \A o \in Objs :
        refcount[o] = Cardinality({a \in ToSet(vmm_list) : vma[a].obj = o})

(* The first-fit HILO scan of vmmap_find_range returns the highest start  *)
(* of npages free pages inside user memory, or -1 when there is none, for *)
(* every npages and every map mmap, munmap and brk can leave.             *)
HighestFit(npages) ==
    LET F == {v \in LOW..HIGH - npages :
                \A p \in v..v + npages - 1 : Lookup(M, p) = NULL}
    IN  IF F = {} THEN -1 ELSE Max(F)

FindRangeIsHighestFit ==
    vmm_list # <<>> =>
        \A n \in 1..HIGH - LOW : FindRange(M, n) = HighestFit(n)

(* What each user page shows: the object and object page of the first    *)
(* area on vmm_list that covers it (vmmap_lookup).                         *)
PageMap ==
    [v \in Pages |->
        LET I == {i \in 1..Len(vmm_list) :
                    vma[vmm_list[i]].start <= v /\ v < vma[vmm_list[i]].end}
        IN  IF I = {} THEN NULL
            ELSE <<vma[vmm_list[Min(I)]].obj, OffAt(vma[vmm_list[Min(I)]], v)>>]

AbsSpace == INSTANCE AddrSpace WITH pmap <- PageMap

(* mmap, munmap and brk change exactly the pages they are asked to, and  *)
(* every other page keeps showing the same page of the same object: the  *)
(* splits, trims and offset updates of vmmap_remove implement AddrSpace.  *)
AddrSpaceRefinement == AbsSpace!Spec

(* The kernel never trips a KASSERT on mmap arguments from user space.    *)
NoFailedAssertion == fault # "kassert"

(* brk never dereferences the NULL that vmmap_lookup returns.             *)
BrkFindsHeap == fault # "nullderef"
=============================================================================
