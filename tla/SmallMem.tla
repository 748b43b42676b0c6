------------------------------ MODULE SmallMem ------------------------------
(***************************************************************************)
(* The allocator of the system heap (rt-thread/src/mem.c, 32-bit), as      *)
(* operators on a heap record h.  The heap is a chain of items, each a     *)
(* struct rt_small_mem_item followed by its data, up to an end item that   *)
(* is always used.  The fields of h are                                    *)
(*                                                                         *)
(*   item   the items by their offset from heap_ptr: used is bit 0 of      *)
(*          pool_ptr, next and prev are the fields of the struct           *)
(*   lfree  the lowest free item, or the end                               *)
(*   used   parent.used                                                    *)
(*                                                                         *)
(* A pointer is the offset of the data, 0 is RT_NULL.  What a header that  *)
(* was merged away leaves in memory is not kept: no chain leads to it.     *)
(***************************************************************************)
EXTENDS SequencesExt, Integers

CONSTANT HeapSize     \* mem_size_aligned

ASSUME HeapAssumption == HeapSize \in Nat /\ HeapSize % 8 = 0 /\ HeapSize >= 16

RT_NULL == 0
SIZEOF_STRUCT_MEM == 16
MIN_SIZE == 12
MIN_SIZE_ALIGNED == 16
RT_ALIGN(n) == ((n + 7) \div 8) * 8

HeapEnd == HeapSize + SIZEOF_STRUCT_MEM
Item(ptr) == ptr - SIZEOF_STRUCT_MEM
Data(p) == p + SIZEOF_STRUCT_MEM
MEM_SIZE(h, p) == h.item[p].next - Data(p)

\* rt_smem_init; max is not modelled
SmemInit ==
  [item |-> [p \in {0, HeapEnd} |->
               [used |-> p = HeapEnd, next |-> HeapEnd, prev |-> p]],
   lfree |-> 0,
   used |-> 0]

-----------------------------------------------------------------------------
\* a free item is made at offset at, out of the end of the data of item p
Split(h, p, at) ==
  LET next == h.item[p].next
      rest == [used |-> FALSE, next |-> next, prev |-> p]
      cut  == [h.item EXCEPT ![p].next = at,
                             ![next].prev = IF next = HeapEnd THEN @ ELSE at]
  IN [h EXCEPT !.item = [q \in DOMAIN cut \cup {at} |-> IF q = at THEN rest ELSE cut[q]]]

\* the item after p becomes a part of it
Absorb(h, p) ==
  LET mem  == h.item[p].next
      next == h.item[mem].next
      item == [h.item EXCEPT ![p].next = next, ![next].prev = p]
  IN [h EXCEPT !.lfree = IF @ = mem THEN p ELSE @,
               !.item = Restrict(item, DOMAIN item \ {mem})]

PlugHoles_MergeUsed(h, mem) ==
  LET nmem == h.item[mem].next
      plug == IF nmem # HeapEnd THEN Absorb(h, mem) ELSE h
      pmem == plug.item[mem].prev
  IN IF pmem # mem /\ ~plug.item[pmem].used THEN Absorb(plug, pmem) ELSE plug

\* plug_holes: mem, which is free, is merged with its free neighbours
PlugHoles(h, mem) ==
  LET nmem == h.item[mem].next
      plug == IF ~h.item[nmem].used /\ nmem # HeapEnd THEN Absorb(h, mem) ELSE h
      pmem == plug.item[mem].prev
  IN IF pmem # mem /\ ~plug.item[pmem].used THEN Absorb(plug, pmem) ELSE plug

\* the free items from lfree on that have size bytes of data
Fitting(h, size) ==
  {p \in DOMAIN h.item : /\ p >= h.lfree /\ p <= HeapSize - size
                         /\ ~h.item[p].used /\ MEM_SIZE(h, p) >= size}

\* item p is given away, and if it was the lowest free one the next is found
Take(h, p) ==
  LET taken == [h EXCEPT !.item[p].used = TRUE, !.used = @ + h.item[p].next - p]
      after == {q \in DOMAIN h.item : q > p /\ ~h.item[q].used}
  IN [taken EXCEPT !.lfree = IF @ # p THEN @ ELSE Min(after \cup {HeapEnd})]

\* rt_smem_alloc: the first fit, split if another block fits into the rest
SmemAlloc(h, asked) ==
  LET size == Max({RT_ALIGN(asked), MIN_SIZE_ALIGNED})
      p    == Min(Fitting(h, size))
      room == MEM_SIZE(h, p) >= size + SIZEOF_STRUCT_MEM + MIN_SIZE_ALIGNED
  IN IF asked = 0 \/ size > HeapSize \/ Fitting(h, size) = {}
     THEN [heap |-> h, ptr |-> RT_NULL]
     ELSE [heap |-> Take(IF room THEN Split(h, p, Data(p) + size) ELSE h, p),
           ptr |-> Data(p)]

SmemFree_LfreeStays(h, ptr) ==
  LET mem == Item(ptr)
  IN PlugHoles([h EXCEPT !.item[mem].used = FALSE,
                         !.used = @ - (h.item[mem].next - mem)], mem)

\* rt_smem_free
SmemFree(h, ptr) ==
  LET mem == Item(ptr)
  IN PlugHoles([h EXCEPT !.item[mem].used = FALSE,
                         !.lfree = Min({@, mem}),
                         !.used = @ - (h.item[mem].next - mem)], mem)

\* rt_smem_realloc when the rest of the block is split off
Shrink(h, ptr, newsize) ==
  LET mem2 == ptr + newsize
      cut  == [Split(h, Item(ptr), mem2) EXCEPT
                 !.lfree = Min({@, mem2}),
                 !.used = @ - (MEM_SIZE(h, Item(ptr)) - newsize)]
  IN PlugHoles(cut, mem2)

\* rt_smem_realloc of a block ptr (of RT_NULL it is rt_smem_alloc):
\* the block stays, or is cut, or moves (rt_memcpy copies its data)
SmemRealloc(h, ptr, asked) ==
  LET newsize == RT_ALIGN(asked)
      size    == MEM_SIZE(h, Item(ptr))
      new     == SmemAlloc(h, newsize)
      stays   == [heap |-> h, ptr |-> ptr]
  IN CASE newsize > HeapSize -> [stays EXCEPT !.ptr = RT_NULL]
       [] newsize = 0 -> [heap |-> SmemFree(h, ptr), ptr |-> RT_NULL]
       [] newsize = size -> stays
       [] newsize \in 1..(size - SIZEOF_STRUCT_MEM - MIN_SIZE - 1) ->
            [stays EXCEPT !.heap = Shrink(h, ptr, newsize)]
       [] OTHER -> [new EXCEPT !.heap = IF new.ptr = RT_NULL THEN @
                                                             ELSE SmemFree(@, ptr)]

-----------------------------------------------------------------------------
(* What the chain means *)

Used(h) == {p \in DOMAIN h.item : h.item[p].used} \ {HeapEnd}
Size(h, p) == h.item[p].next - p

\* The items tile the heap, forward and backward (the end's prev is never read),
\* no two neighbours are free, lfree is the lowest free item, and used is what
\* the used items take, headers included.
WellFormed(h) ==
  /\ {0, HeapEnd} \subseteq DOMAIN h.item
  /\ \A p \in DOMAIN h.item \ {HeapEnd} :
       LET next == h.item[p].next
       IN /\ next = Min({q \in DOMAIN h.item : q > p})
          /\ next # HeapEnd => /\ h.item[next].prev = p
                               /\ h.item[p].used \/ h.item[next].used
  /\ h.item[0].prev = 0
  /\ h.lfree = Min({p \in DOMAIN h.item : ~h.item[p].used} \cup {HeapEnd})
  /\ h.used = MapThenSumSet(LAMBDA p : Size(h, p), Used(h))
=============================================================================
