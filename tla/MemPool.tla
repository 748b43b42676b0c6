------------------------------ MODULE MemPool -------------------------------
(***************************************************************************)
(* A memory pool (rt-thread/src/mempool.c), static or made in the system   *)
(* heap (mem.c, kservice.c), which threads use for themselves as well.     *)
(* The heap is locked by a mutex: a call of rt_malloc, rt_realloc or       *)
(* rt_free is one step, and interrupt handlers make none.                  *)
(***************************************************************************)
EXTENDS IpcOps, SmallMem

CONSTANTS Pool,            \* its suspend list
          BlockCount, BlockSize,
          ObjectSize,      \* sizeof(struct rt_mempool)
          Sizes,           \* what the threads ask the heap for
          MaxOwned,        \* bound on the heap blocks of the threads
          Ops, Timed,
          Together         \* whether the threads have blocks of the heap and of
                           \* the pool at the same time

ASSUME PoolAssumption == /\ WaitObj = {Pool}
                         /\ BlockCount \in Nat \ {0} /\ BlockSize \in Nat \ {0}

VARIABLES k, pc,
          heap,       \* system_heap
          owned,      \* the size of each heap block of the threads, by pointer
          mp,         \* the pool
          arg         \* whether the rt_mp_alloc of a thread is timed
vars == <<k, pc, heap, owned, mp, arg>>

Block == 1..BlockCount
\* a block and the pointer in front of it
RoomSize == (RT_ALIGN(BlockSize) + 4) * BlockCount

\* object and start are pointers into the heap, RT_NULL for a static pool; held
\* are the blocks that the application has
NoPool == [object |-> RT_NULL, start |-> RT_NULL, alive |-> FALSE,
           block_free_count |-> 0, block_list |-> <<>>, held |-> {}]

PC == {"run", "sched", "createRoom", "createFailed",
       "allocSched", "allocWoken",
       "drain", "one", "detachObject", "deleteRoom", "deleteObject",
                              \* in rt_mp_detach and rt_mp_delete
       "fault"}               \* on the way with a pool that is not there
InDelete == {"drain", "one", "detachObject", "deleteRoom", "deleteObject"}

Init == /\ k = StartedKernel
        /\ pc = [t \in Thread |-> "run"]
        /\ heap = SmemInit
        /\ owned = [p \in {} |-> 0]
        /\ mp = NoPool
        /\ arg = [t \in Thread |-> FALSE]

-----------------------------------------------------------------------------
At(t, l) == t = k.cur /\ pc[t] = l
Goto(t, l) == pc' = [pc EXCEPT ![t] = l]
Calls(t, op) == At(t, "run") /\ t # Idle /\ op \in Ops

\* nobody calls a pool that is being deleted
InUse == mp.alive /\ \A u \in Thread : pc[u] \notin InDelete \cup {"fault"}
Uses(t, op) == Calls(t, op) /\ InUse

InAlloc(t) == pc[t] \in {"allocSched", "allocWoken"}

\* rt_mp_alloc and rt_mp_free never touch the heap: unless Together, blocks of the
\* pool are only taken when the threads have none of the heap and the pool lies at
\* its start
PoolAtRest == mp.alive => mp.block_free_count = BlockCount /\ ~\E t \in Thread : InAlloc(t)
HeapCalls(t) == Calls(t, "malloc") /\ (Together \/ PoolAtRest)
PoolAlone == DOMAIN owned = {} /\ mp.object \in {RT_NULL, Data(0)}
PoolCalls(t) == Uses(t, "alloc") /\ (Together \/ PoolAlone)

-----------------------------------------------------------------------------
(* rt_malloc, rt_realloc and rt_free by the threads                          *)

Malloc(t, size) ==
  /\ HeapCalls(t) /\ Cardinality(DOMAIN owned) < MaxOwned
  /\ LET new == SmemAlloc(heap, size)
     IN /\ new.ptr # RT_NULL
        /\ heap' = new.heap
        /\ owned' = (new.ptr :> size) @@ owned
  /\ UNCHANGED <<k, pc, mp, arg>>

Free(t, ptr) ==
  /\ HeapCalls(t)
  /\ heap' = SmemFree(heap, ptr)
  /\ owned' = Restrict(owned, DOMAIN owned \ {ptr})
  /\ UNCHANGED <<k, pc, mp, arg>>

\* a realloc that returns RT_NULL leaves the block to the caller
Realloc(t, ptr, size) ==
  /\ HeapCalls(t)
  /\ LET new == SmemRealloc(heap, ptr, size)
     IN /\ new.ptr # RT_NULL
        /\ heap' = new.heap
        /\ owned' = (new.ptr :> size) @@ Restrict(owned, DOMAIN owned \ {ptr})
  /\ UNCHANGED <<k, pc, mp, arg>>

-----------------------------------------------------------------------------
(* rt_mp_create: the control block, the room for the blocks, the free list;  *)
(* rt_mp_init only makes the list                                            *)

\* nobody waits for, or has, a block of the pool that was there before
MayMake(t, op) == /\ Calls(t, op)
                  /\ ~mp.alive /\ mp.object = RT_NULL /\ mp.held = {}
                  /\ ~\E u \in Thread : InAlloc(u)

\* all blocks in the free list
Full == [mp EXCEPT !.alive = TRUE, !.block_free_count = BlockCount,
                   !.block_list = [i \in Block |-> i]]

MpInit(t) ==
  /\ MayMake(t, "init")
  /\ mp' = Full
  /\ UNCHANGED <<k, pc, heap, owned, arg>>

CreateObject(t) ==
  /\ MayMake(t, "create")
  /\ LET new == SmemAlloc(heap, ObjectSize)
     IN /\ new.ptr # RT_NULL
        /\ heap' = new.heap
        /\ mp' = [NoPool EXCEPT !.object = new.ptr]
  /\ Goto(t, "createRoom")
  /\ UNCHANGED <<k, owned, arg>>

CreateRoom(t) ==
  /\ At(t, "createRoom")
  /\ LET new == SmemAlloc(heap, RoomSize)
     IN IF new.ptr = RT_NULL
        THEN Goto(t, "createFailed") /\ UNCHANGED <<heap, mp>>
        ELSE /\ heap' = new.heap
             /\ mp' = [Full EXCEPT !.start = new.ptr]
             /\ Goto(t, "run")
  /\ UNCHANGED <<k, owned, arg>>

CreateFailed_LeakObject(t) ==
  /\ At(t, "createFailed")
  /\ mp' = NoPool
  /\ Goto(t, "run")
  /\ UNCHANGED <<k, heap, owned, arg>>

\* no room: the control block is given back
CreateFailed(t) ==
  /\ At(t, "createFailed")
  /\ heap' = SmemFree(heap, mp.object)
  /\ mp' = NoPool
  /\ Goto(t, "run")
  /\ UNCHANGED <<k, owned, arg>>

-----------------------------------------------------------------------------
(* rt_mp_alloc                                                               *)

TakeBlock_KeepList ==
  /\ mp.block_free_count # 0
  /\ mp' = [mp EXCEPT !.block_free_count = @ - 1,
                      !.held = @ \cup {Head(mp.block_list)}]

TakeBlock ==
  /\ mp.block_free_count # 0
  /\ mp' = [mp EXCEPT !.block_free_count = @ - 1,
                      !.block_list = Tail(@),
                      !.held = @ \cup {Head(mp.block_list)}]

\* the current thread goes to the front of the suspend list
WaitForBlock(t, timed) ==
  LET s == [SuspendSelf([k EXCEPT !.error[t] = "EOK"]) EXCEPT !.wait[Pool] = Cons(t, @)]
  IN k' = IF timed THEN StartTimer(s, t) ELSE s

\* with time 0 on an empty pool it changes nothing
AllocNow(t) ==
  /\ PoolCalls(t)
  /\ TakeBlock
  /\ UNCHANGED <<k, pc, heap, owned, arg>>

AllocWait(t, timed) ==
  /\ PoolCalls(t) /\ mp.block_free_count = 0
  /\ WaitForBlock(t, timed)
  /\ arg' = [arg EXCEPT ![t] = timed]
  /\ Goto(t, "allocSched")
  /\ UNCHANGED <<heap, owned, mp>>

\* (what is left over from a call, the error included, is not kept)
EndCall(t) == Goto(t, "run") /\ arg' = [arg EXCEPT ![t] = FALSE]

Woken(t) == At(t, "allocWoken") /\ k.error[t] = "EOK"

WaitFailed(t) ==
  /\ At(t, "allocWoken") /\ k.error[t] # "EOK"
  /\ EndCall(t)
  /\ k' = [k EXCEPT !.error[t] = "EOK"]
  /\ UNCHANGED <<heap, owned, mp>>

AllocAgain(t) ==
  /\ Woken(t)
  /\ TakeBlock
  /\ EndCall(t)
  /\ UNCHANGED <<k, heap, owned>>

\* another thread was faster: the thread waits for the rest of its time
WaitAgain(t) ==
  /\ Woken(t) /\ mp.block_free_count = 0
  /\ WaitForBlock(t, arg[t])
  /\ Goto(t, "allocSched")
  /\ UNCHANGED <<heap, owned, mp, arg>>

\* another thread was faster, and no time is left
TimeUsedUp(t) ==
  /\ Woken(t) /\ mp.block_free_count = 0 /\ arg[t]
  /\ EndCall(t)
  /\ UNCHANGED <<k, heap, owned, mp>>

-----------------------------------------------------------------------------
(* rt_mp_free                                                                *)

PutBlock(b) ==
  mp' = [mp EXCEPT !.block_free_count = @ + 1, !.block_list = Cons(b, @),
                   !.held = @ \ {b}]

Waking_FirstBlockOnly ==
  IF HasWaiter(k, Pool) /\ mp.block_free_count = 0 THEN ResumeFirst(k, Pool) ELSE k

Waking == IF HasWaiter(k, Pool) THEN ResumeFirst(k, Pool) ELSE k

FreeBlock(t, b) ==
  /\ PoolCalls(t)
  /\ PutBlock(b)
  /\ k' = Waking
  /\ Goto(t, IF HasWaiter(k, Pool) THEN "sched" ELSE "run")
  /\ UNCHANGED <<heap, owned, arg>>

-----------------------------------------------------------------------------
(* rt_mp_detach and rt_mp_delete: the list is looked at with interrupts      *)
(* enabled before one waiter is resumed; then a delete frees the room and    *)
(* the control block                                                         *)

Delete(t) ==
  /\ Uses(t, "delete")
  /\ Goto(t, "drain")
  /\ mp' = [mp EXCEPT !.held = {}]
  /\ UNCHANGED <<k, heap, owned, arg>>

DrainLook(t) ==
  /\ At(t, "drain")
  /\ Goto(t, IF HasWaiter(k, Pool) THEN "one"
             ELSE IF mp.object = RT_NULL THEN "detachObject" ELSE "deleteRoom")
  /\ UNCHANGED <<k, heap, owned, mp, arg>>

DrainOne(t) ==
  /\ At(t, "one")
  /\ IF HasWaiter(k, Pool)
     THEN k' = ResumeFailed(k, Head(k.wait[Pool])) /\ Goto(t, "drain")
     ELSE Goto(t, "fault") /\ UNCHANGED k
  /\ UNCHANGED <<heap, owned, mp, arg>>

DetachObject(t) ==
  /\ At(t, "detachObject")
  /\ mp' = [mp EXCEPT !.alive = FALSE]
  /\ Goto(t, "run")
  /\ UNCHANGED <<k, heap, owned, arg>>

DeleteRoom(t) ==
  /\ At(t, "deleteRoom")
  /\ heap' = SmemFree(heap, mp.start)
  /\ mp' = [mp EXCEPT !.start = RT_NULL]
  /\ Goto(t, "deleteObject")
  /\ UNCHANGED <<k, owned, arg>>

\* woken by a free, and not yet looked
Comes(t) == InAlloc(t) /\ ~Suspended(k, t) /\ k.error[t] = "EOK"

\* a thread that was woken by a free looks at the pool although it is gone, or has
\* looked since the list was drained, and waits in a list that is gone
DeleteObject(t) ==
  /\ At(t, "deleteObject")
  /\ heap' = SmemFree(heap, mp.object)
  /\ mp' = NoPool
  /\ pc' = [u \in Thread |-> IF u = t THEN "run"
                             ELSE IF Comes(u) \/ Waits(k, u, Pool) THEN "fault"
                             ELSE pc[u]]
  /\ UNCHANGED <<k, owned, arg>>

DoSchedule(t) ==
  /\ \/ At(t, "sched") /\ Goto(t, "run")
     \/ At(t, "allocSched") /\ Goto(t, "allocWoken")
  /\ k' = Schedule(k)
  /\ UNCHANGED <<heap, owned, mp, arg>>

-----------------------------------------------------------------------------
(* Interrupts: a handler may allocate without waiting, and free              *)

IsrAlloc == /\ "isr" \in Ops /\ InUse /\ (Together \/ PoolAlone)
            /\ TakeBlock
            /\ UNCHANGED <<k, pc, heap, owned, arg>>

IsrFree(b) == /\ "isr" \in Ops /\ InUse
              /\ PutBlock(b)
              /\ k' = IF HasWaiter(k, Pool) THEN Schedule(Waking) ELSE Waking
              /\ UNCHANGED <<pc, heap, owned, arg>>

Tick == /\ k' = TickSlice(k)
        /\ UNCHANGED <<pc, heap, owned, mp, arg>>

TimerExpire(u) == /\ u \in k.timer
                  /\ k' = ThreadTimeout(k, u)
                  /\ UNCHANGED <<pc, heap, owned, mp, arg>>

-----------------------------------------------------------------------------
HeapStep(t) == \/ \E size \in Sizes : Malloc(t, size)
               \/ \E ptr \in DOMAIN owned : Free(t, ptr)
               \/ \E ptr \in DOMAIN owned, size \in Sizes : Realloc(t, ptr, size)

PoolStep(t) ==
  \/ MpInit(t) \/ CreateObject(t) \/ CreateRoom(t) \/ CreateFailed(t)
  \/ AllocNow(t) \/ AllocAgain(t) \/ WaitAgain(t) \/ TimeUsedUp(t) \/ WaitFailed(t)
  \/ Delete(t) \/ DrainLook(t) \/ DrainOne(t) \/ DetachObject(t)
  \/ DeleteRoom(t) \/ DeleteObject(t) \/ DoSchedule(t)
  \/ \E timed \in Timed : AllocWait(t, timed)
  \/ \E b \in mp.held : FreeBlock(t, b)

Stopped == \E t \in Thread : pc[t] = "fault"

Next == /\ ~Stopped
        /\ \/ \E t \in Thread : HeapStep(t) \/ PoolStep(t)
           \/ IsrAlloc
           \/ \E b \in mp.held : IsrFree(b)
           \/ Tick
           \/ \E u \in Thread : TimerExpire(u)

Spec == Init /\ [][Next]_vars

-----------------------------------------------------------------------------
TypeOK == /\ k \in Kernel
          /\ pc \in [Thread -> PC]
          /\ DOMAIN heap.item \subseteq 0..HeapEnd
          /\ \A p \in DOMAIN owned : owned[p] \in Sizes
          /\ mp.block_free_count \in 0..BlockCount
          /\ mp.block_list \in Seq(Block) /\ mp.held \subseteq Block
          /\ arg \in [Thread -> BOOLEAN]

\* the heap blocks in use, with the sizes their users asked for: those of the
\* threads and those of the pool
InHeap ==
  LET ofPool == (mp.object :> ObjectSize) @@ (mp.start :> RoomSize)
  IN owned @@ Restrict(ofPool, {mp.object, mp.start} \ {RT_NULL})

\* The chain of the heap stays in order, and its used items are exactly the
\* blocks that the threads and the pool have: a create that fails halfway and a
\* delete leak nothing.  A thread is in the suspend list of the pool exactly
\* while it is suspended in rt_mp_alloc.
Consistent ==
  /\ TypeOK
  /\ QueueInv(k, {}) /\ OneNode(k)
  /\ \A t \in Thread : pc[t] # "fault" =>
       (Waits(k, t, Pool) <=> InAlloc(t) /\ Suspended(k, t))
  /\ WellFormed(heap)
  /\ {Data(p) : p \in Used(heap)} = DOMAIN InHeap

\* The heap hands out blocks that lie apart, as rt_malloc promises, whatever
\* was freed, merged, split, shrunk or moved before.
Abs == INSTANCE AbstractHeap WITH Header <- SIZEOF_STRUCT_MEM, End <- HeapEnd,
                                  owned <- InHeap
HeapImplements == Abs!Spec

\* rt_malloc only gives up if no stretch of memory between two blocks in use
\* has room for the size asked for and a header: neither a free item below
\* lfree nor two that were not merged are ever in the way.
Hole(size) ==
  \E s \in {0} \cup {heap.item[p].next : p \in Used(heap)} :
    /\ s + SIZEOF_STRUCT_MEM + size <= HeapEnd
    /\ \A p \in Used(heap) : p >= s + SIZEOF_STRUCT_MEM + size \/ heap.item[p].next <= s
FindsHole ==
  \A size \in Sizes \cup {ObjectSize, RoomSize} :
    SmemAlloc(heap, size).ptr = RT_NULL =>
      ~Hole(Max({RT_ALIGN(size), MIN_SIZE_ALIGNED}))

\* Each block of the pool is in the free list once or with one user, and the
\* count of the free ones is right, however allocations, frees of handlers,
\* timeouts and second looks interleave.
BlocksAccounted ==
  InUse =>
    /\ IsInjective(mp.block_list) /\ Len(mp.block_list) = mp.block_free_count
    /\ ToSet(mp.block_list) = Block \ mp.held

\* No wake-up is lost: while a thread sleeps, each free block has a woken thread
\* that comes for it, however many newcomers took blocks first.
NoWakeUpLost ==
  HasWaiter(k, Pool) =>
    mp.block_free_count <= Cardinality({t \in Thread : Comes(t)})
=============================================================================
