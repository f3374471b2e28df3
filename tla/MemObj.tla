------------------------------- MODULE MemObj -------------------------------
(***************************************************************************)
(* Memory objects behind a private mapping (vm/anon.c, vm/shadow.c), the *)
(* page-fault handler that maps their pages (vm/pagefault.c), the          *)
(* copy-on-write part of do_fork (proc/fork.c) and the put of the mapping *)
(* at exit (vmmap_destroy, vm/vmmap.c).                                    *)
(*                                                                         *)
(* Every process has two areas, both PROT_READ|WRITE and anonymous: one   *)
(* mapped MAP_PRIVATE, whose vma_obj is area[p], and one mapped           *)
(* MAP_SHARED over the pages SharedPages, whose vma_obj is sarea[p].  The *)
(* pages of Pages belong to one area or the other; an area's object pages *)
(* are numbered as its virtual pages.  An object is an anon or a    *)
(* shadow object with a refcount, its resident pages res and their        *)
(* contents data, and for a shadow its shadowed and bottom objects.  The  *)
(* objects form one record mo so that the recursive puts can thread it.   *)
(* Freed objects are never reused, so a use after free stays visible.     *)
(* pt[p][pg] is the page-table entry: the object whose frame is mapped    *)
(* and whether it is writable.  A store through a writable entry changes  *)
(* the frame; any other access traps into handle_pagefault.               *)
(*                                                                         *)
(* pframe.c is not part of the source: pframe_get returns the resident    *)
(* frame or allocates one and calls the object's fillpage, and a resident *)
(* frame holds a reference on its object (spec 3, "refcount >= number of  *)
(* resident pages").                                                       *)
(***************************************************************************)
EXTENDS Integers, FiniteSets, FiniteSetsExt

CONSTANTS
    Procs, InitProc,   \* process slots; InitProc runs from the start
    Pages,             \* the virtual pages of both areas
    SharedPages,       \* those of the MAP_SHARED area
    Vals,              \* non-zero values a store may write
    MaxObjs            \* bound on the memory objects ever allocated

VARIABLES pstate, area, sarea, mo, pt

vars == <<pstate, area, sarea, mo, pt>>

NoObj == 0
ObjIds == 1 .. MaxObjs
Data == {0} \cup Vals
Stale == -1    \* the bytes of a frame no fillpage has written
Unmapped == [obj |-> NoObj, w |-> FALSE]
NoMappings == [pg \in Pages |-> Unmapped]

Live(m, o) == m.kind[o] \in {"anon", "shadow"}

(* The objects after vmmap_map(NULL, ..., MAP_PRIVATE) and               *)
(* vmmap_map(NULL, ..., MAP_SHARED) of the init process: anon_create      *)
(* gives object 1 (refcount 1), shadow_create gives object 2 (refcount 1) *)
(* shadowing it, and the bottom is ref'ed; the shared area keeps its own  *)
(* anon object 3 (refcount 1).                                             *)
Init ==
    /\ pstate = [p \in Procs |-> IF p = InitProc THEN "running" ELSE "unused"]
    /\ area = [p \in Procs |-> IF p = InitProc THEN 2 ELSE NoObj]
    /\ sarea = [p \in Procs |-> IF p = InitProc THEN 3 ELSE NoObj]
    /\ mo = [kind     |-> [o \in ObjIds |-> CASE o \in {1, 3} -> "anon"
                                              [] o = 2 -> "shadow"
                                              [] OTHER -> "none"],
             ref      |-> [o \in ObjIds |-> CASE o = 1 -> 2 [] o \in {2, 3} -> 1 [] OTHER -> 0],
             shadowed |-> [o \in ObjIds |-> IF o = 2 THEN 1 ELSE NoObj],
             bottom   |-> [o \in ObjIds |-> IF o = 2 THEN 1 ELSE NoObj],
             res      |-> [o \in ObjIds |-> {}],
             data     |-> [o \in ObjIds |-> [pg \in Pages |-> Stale]],
             kassert  |-> FALSE]
    /\ pt = [p \in Procs |-> NoMappings]

(***************************************************************************)
(* Frames                                                                  *)
(***************************************************************************)
(* pframe_alloc: page pg becomes resident in o, holds a reference and   *)
(* holds whatever the physical page held.                                  *)
PframeAlloc(m, o, pg) ==
    [m EXCEPT !.res[o] = @ \cup {pg}, !.ref[o] = @ + 1, !.data[o][pg] = Stale]

(* anon_lookuppage is pframe_get; anon_fillpage zero-fills the new frame. *)
AnonLookup(m, o, pg) ==
    IF pg \in m.res[o] THEN m
    ELSE [PframeAlloc(m, o, pg) EXCEPT !.data[o][pg] = 0]

(* mmobj_bottom_obj                                                        *)
BottomObj(m, o) == IF m.kind[o] = "shadow" THEN m.bottom[o] ELSE o

(* The read loop of shadow_lookuppage: the first object of the chain,     *)
(* from o, that has pg resident, stopping at the object with no shadowed. *)
RECURSIVE ChainResident(_, _, _)
ChainResident(m, o, pg) ==
    CASE m.shadowed[o] = NoObj -> NoObj
      [] pg \in m.res[o]       -> o
      [] OTHER                 -> ChainResident(m, m.shadowed[o], pg)

(* The loop of shadow_fillpage: the first object below c, from           *)
(* c->mmo_shadowed down to the bottom, that has pg resident.               *)
RECURSIVE FillFrom(_, _, _)
FillFrom(m, c, pg) ==
    CASE m.shadowed[c] = NoObj            -> NoObj
      [] pg \in m.res[m.shadowed[c]]      -> m.shadowed[c]
      [] OTHER                            -> FillFrom(m, m.shadowed[c], pg)

CopyPage(m, o, src, pg) == [m EXCEPT !.data[o][pg] = m.data[src][pg]]

(* shadow_fillpage on the new frame pg of o: copy the first resident copy *)
(* found below o, else look the page up in the bottom object and copy it. *)
ShadowFillFrom(m, o, pg, src) ==
    IF src # NoObj THEN CopyPage(m, o, src, pg)
    ELSE CopyPage(AnonLookup(m, m.bottom[o], pg), o, m.bottom[o], pg)

(* A fill that copies from the bottom object without walking the chain. *)
ShadowFillPageFromBottom(m, o, pg) == ShadowFillFrom(m, o, pg, NoObj)

ShadowFillPage(m, o, pg) == ShadowFillFrom(m, o, pg, FillFrom(m, o, pg))

(* shadow_lookuppage with forwrite: the frame resident in o, or a new one *)
(* that pframe_get fills.                                                  *)
ShadowLookupWriteNoFill(m, o, pg) ==
    IF pg \in m.res[o] THEN m ELSE PframeAlloc(m, o, pg)

ShadowLookupWrite(m, o, pg) ==
    IF pg \in m.res[o] THEN m ELSE ShadowFillPage(PframeAlloc(m, o, pg), o, pg)

(* shadow_lookuppage without forwrite: f is the result of the loop; when *)
(* it found nothing the bottom object is looked up.                        *)
ShadowLookupRead(m, o, pg, f) ==
    IF f # NoObj THEN m ELSE AnonLookup(m, m.bottom[o], pg)

(* The object whose frame a read lookup returns.                           *)
ReadFrameObj(m, o, pg, f) == IF f # NoObj THEN f ELSE m.bottom[o]

(***************************************************************************)
(* Puts                                                                    *)
(***************************************************************************)
(* The frames are unpinned and freed, then the object itself.             *)
Release(m, o) == [m EXCEPT !.kind[o] = "freed", !.ref[o] = 0, !.res[o] = {}]

Unref(m, o) == [m EXCEPT !.ref[o] = @ - 1]

(* anon_put: the object dies when its refcount falls to its resident     *)
(* pages.                                                                  *)
AnonPut(m, o) ==
    IF m.ref[o] - 1 = Cardinality(m.res[o]) THEN Release(m, o) ELSE Unref(m, o)

RECURSIVE Put(_, _)

(* A dying shadow that forgets to put its bottom object.                   *)
ShadowPutNoBottom(m, o) ==
    IF m.ref[o] - 1 = Cardinality(m.res[o])
    THEN Put(Release(m, o), m.shadowed[o])
    ELSE Unref(m, o)

(* shadow_put: as anon_put, and a dying shadow puts its bottom and then  *)
(* its shadowed object.                                                    *)
ShadowPut(m, o) ==
    IF m.ref[o] - 1 = Cardinality(m.res[o])
    THEN Put(Put(Release(m, o), m.bottom[o]), m.shadowed[o])
    ELSE Unref(m, o)

(* o->mmo_ops->put(o), with the KASSERT both puts open with.              *)
Put(m, o) ==
    CASE ~Live(m, o) \/ m.ref[o] <= 0 -> [m EXCEPT !.kassert = TRUE]
      [] m.kind[o] = "anon"           -> AnonPut(m, o)
      [] OTHER                        -> ShadowPut(m, o)

(***************************************************************************)
(* Actions                                                                 *)
(***************************************************************************)
(* A store through a writable page-table entry writes the frame.          *)
UserStore(p, pg, v) ==
    /\ pstate[p] = "running" /\ pt[p][pg].w
    /\ mo' = [mo EXCEPT !.data[pt[p][pg].obj][pg] = v]
    /\ UNCHANGED <<pstate, area, sarea, pt>>

(* The vma_obj of the area that maps page pg of p (vmmap_lookup).          *)
AreaObj(p, pg) == IF pg \in SharedPages THEN sarea[p] ELSE area[p]

(* The object whose frame pframe_lookup(o, pg, forwrite) returns: an anon *)
(* object's own; a shadow's as shadow_lookuppage finds it.                 *)
FrameObj(m, o, pg, forwrite) ==
    CASE m.kind[o] = "anon" -> o
      [] forwrite           -> o
      [] OTHER              -> ReadFrameObj(m, o, pg, ChainResident(m, o, pg))

(* pframe_lookup through the object's lookuppage operation.                *)
LookupPage(m, o, pg, forwrite) ==
    CASE m.kind[o] = "anon" -> AnonLookup(m, o, pg)
      [] forwrite           -> ShadowLookupWrite(m, o, pg)
      [] OTHER              -> ShadowLookupRead(m, o, pg, ChainResident(m, o, pg))

(* handle_pagefault: the MMU traps a write to a page that is not mapped  *)
(* writable and a read of an unmapped page.  The area covers the page and *)
(* allows the access, so the EFAULT exits are not taken; the object is   *)
(* looked up (for writing, or not) and the frame is mapped, writable only *)
(* for a write.  The pin, dirty and unpin of a write change no state here. *)
handle_pagefault(p, pg, forwrite) ==
    /\ pstate[p] = "running"
    /\ IF forwrite THEN ~pt[p][pg].w ELSE pt[p][pg].obj = NoObj
    /\ \E o \in {AreaObj(p, pg)} :
         /\ mo' = LookupPage(mo, o, pg, forwrite)
         /\ pt' = [pt EXCEPT ![p][pg] = [obj |-> FrameObj(mo, o, pg, forwrite), w |-> forwrite]]
    /\ UNCHANGED <<pstate, area, sarea>>

(* The private-mapping branch of do_fork's loop: two new shadows, one for *)
(* the parent and one for the child, over the parent's object o.  The     *)
(* parent's reference to o moves to its shadow; the child's shadow refs o *)
(* and both ref the bottom.                                                *)
ForkShadowsNoRef(m, o, sp, sc) ==
    [m EXCEPT !.kind[sp] = "shadow", !.kind[sc] = "shadow",
              !.ref[sp] = 1, !.ref[sc] = 1,
              !.shadowed[sp] = o, !.shadowed[sc] = o,
              !.bottom[sp] = BottomObj(m, o), !.bottom[sc] = BottomObj(m, o),
              !.ref[BottomObj(m, o)] = @ + 2]

ForkShadowsOneBottomRef(m, o, sp, sc) ==
    [m EXCEPT !.kind[sp] = "shadow", !.kind[sc] = "shadow",
              !.ref[sp] = 1, !.ref[sc] = 1,
              !.shadowed[sp] = o, !.shadowed[sc] = o,
              !.bottom[sp] = BottomObj(m, o), !.bottom[sc] = BottomObj(m, o),
              !.ref[o] = @ + 1,
              !.ref[BottomObj(m, o)] = @ + 1]

ForkShadows(m, o, sp, sc) ==
    [m EXCEPT !.kind[sp] = "shadow", !.kind[sc] = "shadow",
              !.ref[sp] = 1, !.ref[sc] = 1,
              !.shadowed[sp] = o, !.shadowed[sc] = o,
              !.bottom[sp] = BottomObj(m, o), !.bottom[sc] = BottomObj(m, o),
              !.ref[o] = @ + 1,
              !.ref[BottomObj(m, o)] = @ + 2]

(* A shared-branch variant that forgets the child's reference.            *)
ForkShareNoRef(m, o) == m

(* The shared-mapping branch of do_fork's loop: the child's area points  *)
(* at the parent's object, which is ref'ed.                                *)
ForkShare(m, o) == [m EXCEPT !.ref[o] = @ + 1]

Unused == {o \in ObjIds : mo.kind[o] = "none"}

(* do_fork: vmmap_clone, its loop over the areas in address order (the   *)
(* private area, then the shared one), pt_unmap_range of the parent's     *)
(* user pages; the child starts with an empty page directory.             *)
(* A fork that leaves the parent's page-table entries in place.           *)
do_forkKeepMappings(p, c) ==
    /\ pstate[p] = "running" /\ pstate[c] = "unused"
    /\ Cardinality(Unused) >= 2
    /\ \E sp \in {Min(Unused)} : \E sc \in {Min(Unused \ {sp})} :
         /\ mo' = ForkShare(ForkShadows(mo, area[p], sp, sc), sarea[p])
         /\ area' = [area EXCEPT ![p] = sp, ![c] = sc]
    /\ sarea' = [sarea EXCEPT ![c] = sarea[p]]
    /\ pt' = [pt EXCEPT ![c] = NoMappings]
    /\ pstate' = [pstate EXCEPT ![c] = "running"]

do_fork(p, c) ==
    /\ pstate[p] = "running" /\ pstate[c] = "unused"
    /\ Cardinality(Unused) >= 2
    /\ \E sp \in {Min(Unused)} : \E sc \in {Min(Unused \ {sp})} :
         /\ mo' = ForkShare(ForkShadows(mo, area[p], sp, sc), sarea[p])
         /\ area' = [area EXCEPT ![p] = sp, ![c] = sc]
    /\ sarea' = [sarea EXCEPT ![c] = sarea[p]]
    /\ pt' = [pt EXCEPT ![p] = NoMappings, ![c] = NoMappings]
    /\ pstate' = [pstate EXCEPT ![c] = "running"]

(* proc_cleanup: vmmap_destroy puts the objects of the areas, in address *)
(* order.                                                                  *)
proc_cleanup(p) ==
    /\ pstate[p] = "running"
    /\ pstate' = [pstate EXCEPT ![p] = "dead"]
    /\ mo' = Put(Put(mo, area[p]), sarea[p])
    /\ area' = [area EXCEPT ![p] = NoObj]
    /\ sarea' = [sarea EXCEPT ![p] = NoObj]
    /\ UNCHANGED pt

Next ==
    \E p \in Procs :
        \/ \E pg \in Pages, v \in Vals : UserStore(p, pg, v)
        \/ \E pg \in Pages, w \in BOOLEAN : handle_pagefault(p, pg, w)
        \/ \E c \in Procs : do_fork(p, c)
        \/ proc_cleanup(p)

Spec == Init /\ [][Next]_vars

(***************************************************************************)
(* Properties                                                              *)
(***************************************************************************)
Running == {p \in Procs : pstate[p] = "running"}

(* The variables have their types, and every resident frame holds bytes *)
(* a fillpage wrote: pframe_get never hands out a frame it did not fill.  *)
TypeOK ==
    /\ pstate \in [Procs -> {"unused", "running", "dead"}]
    /\ area \in [Procs -> {NoObj} \cup ObjIds]
    /\ sarea \in [Procs -> {NoObj} \cup ObjIds]
    /\ mo.kind \in [ObjIds -> {"none", "anon", "shadow", "freed"}]
    /\ mo.ref \in [ObjIds -> Nat]
    /\ mo.shadowed \in [ObjIds -> {NoObj} \cup ObjIds]
    /\ mo.bottom \in [ObjIds -> {NoObj} \cup ObjIds]
    /\ mo.res \in [ObjIds -> SUBSET Pages]
    /\ mo.data \in [ObjIds -> [Pages -> Data \cup {Stale}]]
    /\ \A o \in ObjIds : \A pg \in mo.res[o] : mo.data[o][pg] \in Data
    /\ mo.kassert \in BOOLEAN
    /\ pt \in [Procs -> [Pages -> [obj : {NoObj} \cup ObjIds, w : BOOLEAN]]]

(* The objects o's shadowed links lead through, o included.               *)
RECURSIVE ChainOf(_)
ChainOf(o) == IF o = NoObj THEN {} ELSE {o} \cup ChainOf(mo.shadowed[o])

NumSuch(S) == Cardinality(S)

(* Who holds a reference on o: the areas of running processes, and the   *)
(* shadowed and bottom links of live shadows.                              *)
Holders(o) ==
    NumSuch({p \in Running : area[p] = o})
    + NumSuch({p \in Running : sarea[p] = o})
    + NumSuch({s \in ObjIds : mo.kind[s] = "shadow" /\ mo.shadowed[s] = o})
    + NumSuch({s \in ObjIds : mo.kind[s] = "shadow" /\ mo.bottom[s] = o})

(* The refcount of every live object is the number of references do_fork *)
(* and vmmap_map handed out and the puts of exit did not return, plus its *)
(* resident frames: fork's refs of the shadowed and the bottom objects    *)
(* balance the puts of the dying shadows.                                  *)
RefsBalanced ==
    \A o \in ObjIds :
        Live(mo, o) => mo.ref[o] = Holders(o) + Cardinality(mo.res[o])

(* The objects p's areas reach.                                            *)
Reach(p) == ChainOf(area[p]) \cup {sarea[p]}

(* No object a running process can reach is freed: every object on its   *)
(* shadow chain, its shared object and every frame its page table maps belongs to a live     *)
(* object, and no put ever met a freed or unreferenced object.            *)
NoUseAfterFree ==
    /\ ~mo.kassert
    /\ \A p \in Running :
         /\ \A o \in Reach(p) : Live(mo, o)
         /\ \A pg \in Pages :
              pt[p][pg].obj # NoObj =>
                 Live(mo, pt[p][pg].obj) /\ pg \in mo.res[pt[p][pg].obj]

(* No object outlives its last user: the self-collect rule of anon_put   *)
(* and shadow_put frees every object no running process's chain reaches. *)
NoLeak ==
    \A o \in ObjIds :
        Live(mo, o) => \E p \in Running : o \in Reach(p)

(* A mapped page is the frame the fault handler would map now: a writable *)
(* private entry is the frame of the process's own top shadow, a         *)
(* read-only one the frame the read lookup of the chain returns, and a    *)
(* shared entry the frame of the shared object.  A fork that left a       *)
(* writable entry of the parent in place would break this.                *)
PageTableCoherent ==
    \A p \in Running, pg \in Pages :
        pt[p][pg].obj # NoObj =>
            pt[p][pg].obj = FrameObj(mo, AreaObj(p, pg), pg, pt[p][pg].w)

(* What a load of page pg by p returns: the mapped frame, or the frame a *)
(* read fault would map (a zero page when the object it would be looked   *)
(* up in, an anon object, has none yet).                                  *)
LoadFrom(o, pg) ==
    IF pg \in mo.res[o] THEN mo.data[o][pg] ELSE 0

Load(p, pg) ==
    IF pt[p][pg].obj # NoObj THEN mo.data[pt[p][pg].obj][pg]
    ELSE LoadFrom(FrameObj(mo, AreaObj(p, pg), pg, FALSE), pg)

Memory == [p \in Procs |-> [pg \in Pages |->
              IF pstate[p] = "running" /\ pg \notin SharedPages THEN Load(p, pg) ELSE 0]]

(* The shared pages, as any running process loads them.                   *)
SharedMemory ==
    [pg \in Pages |->
        IF pg \in SharedPages /\ \E p \in Running : TRUE
        THEN Load(CHOOSE p \in Running : TRUE, pg) ELSE 0]

AM == INSTANCE AnonMemory WITH mem <- Memory, shm <- SharedMemory

(* Copy-on-write and sharing: the shadow chains, faults and forks          *)
(* implement anonymous memory.  A fault never changes what any process    *)
(* loads; a store to a private page changes only the storing process's    *)
(* page and a child starts with the parent's private pages as they were   *)
(* at the fork; a store to a shared page is seen by every process.        *)
COWRefinement == AM!Spec

=============================================================================
