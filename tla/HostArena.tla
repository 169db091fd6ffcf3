------------------------------ MODULE HostArena ------------------------------
(***************************************************************************)
(* The bump arena for host memory and the allocator that falls back to it  *)
(* (swamp-tensors/src/hma.rs).  Sizes are in units of the smallest         *)
(* allocation (64 bytes).  A block is a heap allocation; a host allocation *)
(* is a range [blk, off, size] of a block.                                 *)
(***************************************************************************)
EXTENDS Naturals, SequencesExt

CONSTANTS
    BlockSize,   \* HostPinnedArena.block_size in units, a power of two
    Sizes        \* the requested sizes in units

VARIABLES
    blocks,      \* HostPinnedArenaInner.blocks: the size of each block
    bump,        \* bump_offset in the last block
    live,        \* the host allocations handed out since the last reset and
                 \* still held by a caller, oldest first
    dropped      \* some host Allocation was dropped: its drop() handed memory
                 \* of a block back to the heap although the arena still owns
                 \* it, and from here on a new block may have the same address

arenaVars == <<blocks, bump, live, dropped>>

ArenaInit ==
    /\ blocks = <<>>
    /\ bump = 0
    /\ live = <<>>
    /\ dropped = FALSE

\* usize::next_power_of_two(), at least one unit
NextPowerOfTwo(n) ==
    CHOOSE p \in {2^k : k \in 0..n} :
        p >= n /\ \A k \in 0..n : 2^k >= n => p <= 2^k

\* Sizes are rounded to a power of two, of one unit at least.
ASSUME ArenaAssumption ==
    /\ BlockSize \in Nat
    /\ \A request \in Sizes : NextPowerOfTwo(request) \in Nat \ {0}

LastSize == IF blocks = <<>> THEN 0 ELSE blocks[Len(blocks)]

\* Mutant: looks at the offset only, not at the end of the request
NeedNew_start(size) == bump >= LastSize

\* bump_offset + size > last_size
NeedNew(size) == bump + size > LastSize

\* The range that allocate(size) returns
NextRange(size) ==
    IF NeedNew(size)
    THEN [blk |-> Len(blocks) + 1, off |-> 0, size |-> size]
    ELSE [blk |-> Len(blocks), off |-> bump, size |-> size]

\* HostPinnedArena::allocate after rounding: a block that is too short is left
\* for a new one, and the bump offset restarts in it
Bump(size) ==
    /\ blocks' = IF NeedNew(size) THEN Append(blocks, Max({size, BlockSize})) ELSE blocks
    /\ bump' = NextRange(size).off + size

\* A caller keeps the allocation
ArenaAllocate(request) ==
    LET size == NextPowerOfTwo(request)
    IN  /\ Bump(size)
        /\ live' = Append(live, NextRange(size))
        /\ UNCHANGED dropped

\* A caller drops the TensorHandle at the end of its scope
ArenaAllocateAndDrop(request) ==
    /\ Bump(NextPowerOfTwo(request))
    /\ dropped' = TRUE
    /\ UNCHANGED live

\* Drop for Allocation
ArenaDrop(i) ==
    /\ live' = RemoveAt(live, i)
    /\ dropped' = TRUE
    /\ UNCHANGED <<blocks, bump>>

\* HostPinnedArena::reset: what was handed out before is no longer protected
ArenaReset ==
    /\ bump' = 0
    /\ live' = <<>>
    /\ UNCHANGED <<blocks, dropped>>

ArenaNext ==
    \/ \E request \in Sizes : ArenaAllocate(request) \/ ArenaAllocateAndDrop(request)
    \/ \E i \in DOMAIN live : ArenaDrop(i)
    \/ ArenaReset

ArenaSpec == ArenaInit /\ [][ArenaNext]_arenaVars

-----------------------------------------------------------------------------
Overlap(a, b) ==
    /\ a.blk = b.blk
    /\ a.off < b.off + b.size
    /\ b.off < a.off + a.size

\* Until the first drop, allocations held at the same time share no byte and
\* end inside their block, for every mix of sizes around the block boundary.
ArenaRangesDisjoint ==
    ~dropped =>
        \A i \in DOMAIN live :
            /\ live[i].off + live[i].size <= blocks[live[i].blk]
            /\ \A j \in DOMAIN live : i # j => ~Overlap(live[i], live[j])
=============================================================================
