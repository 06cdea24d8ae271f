---------------------------- MODULE MappedRegion ----------------------------
(***************************************************************************)
(* util::scoped_memory and the functions of src/kenlm/util/mmap.cc that    *)
(* fill it: several scoped_memory objects (a binary's vocabulary and      *)
(* search regions, say), each of which its owner may reset with memory of *)
(* any origin, fill with MapRead, MapAnonymous or MapZeroedWrite, grow     *)
(* with call_realloc, and finally destroy.  They share one allocator,     *)
(* `live`: which blocks of address space the C library and the kernel     *)
(* have handed out, and by what.                                          *)
(* Failing system calls are nondeterministic outcomes.                    *)
(***************************************************************************)
EXTENDS Naturals, FiniteSets

CONSTANTS
  Regions,          \* the scoped_memory objects
  Blocks,           \* addresses the allocator may hand out
  NULL,             \* the null pointer
  MaxSize,          \* largest size requested
  ReallocOutcomes   \* what realloc(data_, size) may do, a subset of
                    \* {"fail", "inplace", "moved", "zero"}

ASSUME NULL \notin Blocks /\ MaxSize \in Nat \ {0}
ASSUME ReallocOutcomes \subseteq {"fail", "inplace", "moved", "zero"}

Sizes == 1..MaxSize

(* scoped_memory::Alloc *)
Sources == {"MMAP_ALLOCATED", "ARRAY_ALLOCATED", "MALLOC_ALLOCATED",
            "NONE_ALLOCATED"}
(* The allocator's view of a block: what it was allocated by, or "none". *)
Kinds == {"mmap", "array", "malloc", "none"}
(* The release reset performs for each source: scoped_mmap's destructor *)
(* (msync and munmap), delete[], free(), nothing.                        *)
KindOf == [MMAP_ALLOCATED |-> "mmap", ARRAY_ALLOCATED |-> "array",
           MALLOC_ALLOCATED |-> "malloc", NONE_ALLOCATED |-> "none"]

Fault == [block : Blocks, as : Kinds \ {"none"}, had : Kinds]

VARIABLES
  live,    \* block -> the kind it is allocated as, or "none"
  mem,     \* region -> [data, size, source] of that scoped_memory
  faults,  \* the first release of a block not allocated as the release
           \* expects, if any (a singleton), else {}
  pc       \* region -> "open" or "destroyed"

vars == <<live, mem, faults, pc>>

FreeBlocks == {b \in Blocks : live[b] = "none"}

(* Block d handed out by the allocator as kind k (nothing for NULL). *)
Alloc(l, d, k) == IF d = NULL THEN l ELSE [l EXCEPT ![d] = k]

(* Release of block b as kind k from allocator state l: the new state and *)
(* the faults: a block not allocated as k (a double free, or free() of a   *)
(* mapping).  free(NULL) and NONE_ALLOCATED release nothing.               *)
ReleaseIn(l, b, k) ==
  IF b = NULL \/ k = "none" THEN [live |-> l, faults |-> {}]
  ELSE [live |-> [l EXCEPT ![b] = "none"],
        faults |-> IF l[b] = k THEN {}
                   ELSE {[block |-> b, as |-> k, had |-> l[b]]}]

(* Keep the first fault only; the releases after it add nothing. *)
FirstFault(old, new) ==
  IF old = {} /\ new # {} THEN {CHOOSE x \in new : TRUE} ELSE old

(* Mutant: reset forgets to free() malloc'd memory. *)
ResetFromNoFree(m, l, f, data, size, source) ==
  LET r == IF mem[m].source = "MALLOC_ALLOCATED"
           THEN [live |-> l, faults |-> {}]
           ELSE ReleaseIn(l, mem[m].data, KindOf[mem[m].source])
  IN  /\ live' = r.live
      /\ faults' = FirstFault(faults, f \cup r.faults)
      /\ mem' = [mem EXCEPT ![m] = [data |-> data, size |-> size,
                                     source |-> source]]

(* scoped_memory::reset(data, size, source), from allocator state l and   *)
(* faults f left by what the caller did just before: release the current  *)
(* memory as its source says, then adopt the new.                         *)
ResetFrom(m, l, f, data, size, source) ==
  LET r == ReleaseIn(l, mem[m].data, KindOf[mem[m].source])
  IN  /\ live' = r.live
      /\ faults' = FirstFault(faults, f \cup r.faults)
      /\ mem' = [mem EXCEPT ![m] = [data |-> data, size |-> size,
                                     source |-> source]]

(* The caller obtains d by allocator kind k and passes it to reset. *)
Reset(m, d, k, size, source) ==
  ResetFrom(m, Alloc(live, d, k), {}, d, size, source)

(* MapOrThrow(size, ...) either returns a fresh mapping, which the caller *)
(* hands to mem.reset(..., MMAP_ALLOCATED), or throws with mem untouched.  *)
MapOrThrowInto(m) ==
  \/ \E b \in FreeBlocks, n \in Sizes : Reset(m, b, "mmap", n, "MMAP_ALLOCATED")
  \/ UNCHANGED <<live, mem, faults>>

-----------------------------------------------------------------------------

Init ==
  /\ live = [b \in Blocks |-> "none"]
  /\ mem = [m \in Regions |->
              [data |-> NULL, size |-> 0, source |-> "NONE_ALLOCATED"]]
  /\ faults = {}
  /\ pc = [m \in Regions |-> "open"]

(* mem.reset(new char[n], n, ARRAY_ALLOCATED) by a caller. *)
ResetArray(m) ==
  /\ pc[m] = "open"
  /\ \E b \in FreeBlocks, n \in Sizes : Reset(m, b, "array", n, "ARRAY_ALLOCATED")
  /\ UNCHANGED pc

(* mem.reset(): release and hold nothing. *)
ResetNone(m) ==
  /\ pc[m] = "open"
  /\ Reset(m, NULL, "none", 0, "NONE_ALLOCATED")
  /\ UNCHANGED pc

(* MapRead, LAZY, POPULATE_OR_LAZY and (Linux) POPULATE_OR_READ. *)
MapReadMmap(m) ==
  /\ pc[m] = "open"
  /\ MapOrThrowInto(m)
  /\ UNCHANGED pc

(* Mutant: the READ case records its block as mapped. *)
MapReadMallocAsMmap(m) ==
  /\ pc[m] = "open"
  /\ \E p \in FreeBlocks \cup {NULL}, n \in Sizes :
       Reset(m, p, "malloc", n, "MMAP_ALLOCATED")
  /\ UNCHANGED pc

(* MapRead, READ: out.reset(malloc(size), size, MALLOC_ALLOCATED); a null *)
(* result, a failing lseek or ReadOrThrow throw after the reset, leaving  *)
(* the new block owned by out.                                             *)
MapReadMalloc(m) ==
  /\ pc[m] = "open"
  /\ \E p \in FreeBlocks \cup {NULL}, n \in Sizes :
       Reset(m, p, "malloc", n, "MALLOC_ALLOCATED")
  /\ UNCHANGED pc

(* mem.reset(MapAnonymous(size), size, MMAP_ALLOCATED). *)
MapAnonymous(m) ==
  /\ pc[m] = "open"
  /\ MapOrThrowInto(m)
  /\ UNCHANGED pc

(* mem.reset(MapZeroedWrite(name, size, fd), size, MMAP_ALLOCATED): open, *)
(* ftruncate or mmap may each fail and throw before mem is touched.        *)
MapZeroedWrite(m) ==
  /\ pc[m] = "open"
  /\ MapOrThrowInto(m)
  /\ UNCHANGED pc

(* Mutant: the failure branch frees data_ itself before reset(). *)
CallReallocFreeFirst(m, o, n) ==
  /\ pc[m] = "open"
  /\ mem[m].source \in {"MALLOC_ALLOCATED", "NONE_ALLOCATED"}
  /\ o = "fail"
  /\ LET a == ReleaseIn(live, mem[m].data, "malloc") IN
       ResetFrom(m, a.live, a.faults, NULL, 0, "NONE_ALLOCATED")
  /\ UNCHANGED pc

(* Mutant: size_ grown by the requested size instead of set to it. *)
CallReallocAddSize(m, o, n) ==
  /\ pc[m] = "open"
  /\ mem[m].source \in {"MALLOC_ALLOCATED", "NONE_ALLOCATED"}
  /\ o = "moved"
  /\ \E b \in FreeBlocks :
       LET a == ReleaseIn(live, mem[m].data, "malloc") IN
         ResetFrom(m, [a.live EXCEPT ![b] = "malloc"], a.faults, b,
                   mem[m].size + n, "MALLOC_ALLOCATED")
  /\ UNCHANGED pc

(* call_realloc(n), asserted on malloc'd or empty memory; realloc then     *)
(*   "fail"    returns NULL, the old block intact, and reset() frees it;   *)
(*   "zero"    (n = 0) frees the block and returns NULL (glibc), reset();  *)
(*   "inplace" resizes the block where it is: reset(data_, n, MALLOC);     *)
(*   "moved"   returns a new block, the old one freed: reset(new, n, ...). *)
(* reset releases data_ as MALLOC_ALLOCATED in every case.                 *)
CallRealloc(m, o, n) ==
  /\ pc[m] = "open"
  /\ mem[m].source \in {"MALLOC_ALLOCATED", "NONE_ALLOCATED"}
  /\ \/ o = "fail" /\ Reset(m, NULL, "none", 0, "NONE_ALLOCATED")
     \/ /\ o = "zero"
        /\ mem[m].data # NULL
        /\ LET a == ReleaseIn(live, mem[m].data, "malloc") IN
             ResetFrom(m, a.live, a.faults, NULL, 0, "NONE_ALLOCATED")
     \/ /\ o = "inplace"
        /\ mem[m].data # NULL /\ live[mem[m].data] = "malloc"
        /\ ResetFrom(m, live, {}, mem[m].data, n, "MALLOC_ALLOCATED")
     \/ /\ o = "moved"
        /\ \E b \in FreeBlocks :
             LET a == ReleaseIn(live, mem[m].data, "malloc") IN
               ResetFrom(m, [a.live EXCEPT ![b] = "malloc"], a.faults, b, n,
                         "MALLOC_ALLOCATED")
  /\ UNCHANGED pc

(* ~scoped_memory(): reset(). *)
Destroy(m) ==
  /\ pc[m] = "open"
  /\ Reset(m, NULL, "none", 0, "NONE_ALLOCATED")
  /\ pc' = [pc EXCEPT ![m] = "destroyed"]

Next ==
  \E m \in Regions :
    \/ ResetArray(m)
    \/ ResetNone(m)
    \/ MapReadMmap(m)
    \/ MapReadMalloc(m)
    \/ MapAnonymous(m)
    \/ MapZeroedWrite(m)
    \/ \E o \in ReallocOutcomes, n \in Sizes : CallRealloc(m, o, n)
    \/ Destroy(m)

Spec == Init /\ [][Next]_vars

-----------------------------------------------------------------------------

Region == [data : Blocks \cup {NULL}, size : 0..MaxSize, source : Sources]

TypeOK ==
  /\ live \in [Blocks -> Kinds]
  /\ mem \in [Regions -> Region]
  /\ faults \subseteq Fault /\ Cardinality(faults) <= 1
  /\ pc \in [Regions -> {"open", "destroyed"}]

(* No leak: every block the allocator holds is owned by some scoped_memory, *)
(* so once every region is destroyed nothing is held.                       *)
NoLeak ==
  \A b \in Blocks : live[b] # "none" => \E m \in Regions : mem[m].data = b

(* What a scoped_memory owns is allocated, by the allocator its source_    *)
(* names, and owned by no other scoped_memory: the release reset will      *)
(* perform is the matching one and happens once.                           *)
OwnedIsLive ==
  \A m \in Regions :
    mem[m].data # NULL /\ mem[m].source # "NONE_ALLOCATED" =>
      /\ live[mem[m].data] = KindOf[mem[m].source]
      /\ \A m2 \in Regions \ {m} : mem[m2].data # mem[m].data

(* Every block reset, call_realloc or the destructor release was          *)
(* allocated, and by the allocator the release belongs to: no double free *)
(* or munmap, no free() of a mapping.                                      *)
ReleasesMatch == faults = {}

=============================================================================
