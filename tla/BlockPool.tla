----------------------------- MODULE BlockPool -----------------------------
(***************************************************************************)
(* class BlockPool and class BlockHashToBlockMap                           *)
(* (vllm/v1/core/block_pool.py): the KV cache blocks, their reference      *)
(* counts, the queue of free blocks and the prefix cache.                  *)
(*                                                                         *)
(* A pool is a record and an operation maps a pool to the pool it leaves:  *)
(*   free        the free block queue, as the sequence that module         *)
(*               FreeKVCacheBlockQueue is proved to implement              *)
(*   ref_cnt     block.ref_cnt                                             *)
(*   block_hash  block.block_hash, NoHash for None                         *)
(*   cached      cached_block_hash_to_block: the cached hashes, each with  *)
(*               its blocks in insertion order                             *)
(*   error       the first assertion or exception, or "none"               *)
(*                                                                         *)
(* A block hash chains over all blocks before it, so a hash is the token   *)
(* prefix that ends with its block: hashes are assumed not to collide.     *)
(***************************************************************************)
EXTENDS Integers, Sequences, FiniteSets, Functions

CONSTANT NumGpuBlocks   \* num_gpu_blocks, the null block included

ASSUME NumGpuBlocksAssumption == NumGpuBlocks \in Nat \ {0}

Block == 0 .. (NumGpuBlocks - 1)

\* The placeholder popped from the free queue by __init__.
NullBlock == 0

NoHash == <<>>

InitPool ==
    [free |-> [i \in 1 .. (NumGpuBlocks - 1) |-> i],
     ref_cnt |-> [b \in Block |-> 0],
     block_hash |-> [b \in Block |-> NoHash],
     cached |-> <<>>,
     error |-> "none"]

Fail(pool, error) == IF pool.error = "none" THEN [pool EXCEPT !.error = error] ELSE pool

Occurrences(blocks, b) == Cardinality({i \in DOMAIN blocks : blocks[i] = b})

\* The elements of s that are in S, in their order.
Keep(s, S) ==
    LET kept[i \in 0 .. Len(s)] ==
            IF i = 0 THEN <<>> ELSE IF s[i] \in S THEN Append(kept[i - 1], s[i]) ELSE kept[i - 1]
    IN kept[Len(s)]

-----------------------------------------------------------------------------
\* BlockHashToBlockMap.get_one_block; .insert for several hashes, with the
\* block of each; .pop for the blocks of a set, each under its own hash.
get_one_block(cached, hash) == IF hash \in DOMAIN cached THEN cached[hash][1] ELSE NullBlock

\* With one KV cache group a hash has one key in the map.
get_cached_block(pool, hash) == get_one_block(pool.cached, hash)

insert(cached, new) ==
    [h \in DOMAIN cached \cup DOMAIN new |->
        IF h \notin DOMAIN new THEN cached[h]
        ELSE IF h \in DOMAIN cached THEN Append(cached[h], new[h]) ELSE <<new[h]>>]

pop(cached, block_hash, bs) ==
    LET left(h) == Keep(cached[h], {b \in Block : b \notin bs \/ block_hash[b] # h})
    IN [h \in {g \in DOMAIN cached : left(g) # <<>>} |-> left(h)]

-----------------------------------------------------------------------------
\* Mutants of EvictBlocks: the hash outlives the map entry; nothing is evicted.
EvictBlocks_KeepsHash(pool, bs) == [pool EXCEPT !.cached = pop(@, pool.block_hash, bs)]

EvictBlocks_Nothing(pool, bs) == pool

\* _maybe_evict_cached_block for every block of a set: a block whose hash is
\* in the map loses both the map entry and the hash.
EvictBlocks(pool, bs) ==
    LET found == {b \in bs : /\ pool.block_hash[b] \in DOMAIN pool.cached
                             /\ b \in Range(pool.cached[pool.block_hash[b]])}
    IN [pool EXCEPT !.cached = pop(@, pool.block_hash, found),
                    !.block_hash = [b \in Block |-> IF b \in found THEN NoHash ELSE @[b]]]

\* The n blocks that get_new_blocks hands out, and the pool it leaves.
NewBlocks(pool, n) == SubSeq(pool.free, 1, IF n <= Len(pool.free) THEN n ELSE 0)

get_new_blocks(pool, n) ==
    LET new == Range(NewBlocks(pool, n))
        evicted == EvictBlocks(pool, new)
    IN IF n > Len(pool.free) THEN Fail(pool, "get_new_blocks: ValueError")
       ELSE IF \E b \in new : pool.ref_cnt[b] # 0 THEN Fail(pool, "get_new_blocks: ref_cnt != 0")
       ELSE [evicted EXCEPT !.free = SubSeq(@, n + 1, Len(@)),
                            !.ref_cnt = [b \in Block |-> IF b \in new THEN @[b] + 1 ELSE @[b]]]

touch(pool, blocks) ==
    LET revived == {b \in Range(blocks) : pool.ref_cnt[b] = 0 /\ b # NullBlock}
    IN IF ~ revived \subseteq Range(pool.free) THEN Fail(pool, "remove: RuntimeError")
       ELSE [pool EXCEPT !.free = Keep(@, Block \ revived),
                         !.ref_cnt = [b \in Block |-> @[b] + Occurrences(blocks, b)]]

\* Mutant of free_blocks: a block somebody else still holds is freed too.
free_blocks_StillHeld(pool, ordered_blocks) ==
    [pool EXCEPT !.ref_cnt = [b \in Block |-> @[b] - Occurrences(ordered_blocks, b)],
                 !.free = @ \o ordered_blocks]

\* The blocks whose count drops to 0 go to the tail of the free queue in the
\* order given, which is the order they will be evicted in.
free_blocks(pool, ordered_blocks) ==
    LET ref_cnt == [b \in Block |-> pool.ref_cnt[b] - Occurrences(ordered_blocks, b)]
    IN [pool EXCEPT !.ref_cnt = ref_cnt,
                    !.free = @ \o Keep(ordered_blocks,
                                       {b \in Block : ref_cnt[b] = 0 /\ b # NullBlock})]

\* Blocks num_cached + 1 .. num_full of a request enter the prefix cache under
\* the request's block hashes, which are all different.
cache_full_blocks(pool, block_hashes, blocks, num_cached, num_full) ==
    LET last == IF num_full <= Len(blocks) THEN num_full ELSE Len(blocks)
        new == {i \in (num_cached + 1) .. last : blocks[i] # NullBlock}
        block_of == [h \in {block_hashes[i] : i \in new} |->
                        blocks[CHOOSE i \in new : block_hashes[i] = h]]
    IN IF num_cached >= num_full THEN pool
       ELSE IF Len(block_hashes) < num_full THEN Fail(pool, "cache_full_blocks: block_hashes")
       ELSE IF \E i \in new : pool.block_hash[blocks[i]] # NoHash
            THEN Fail(pool, "cache_full_blocks: block_hash is not None")
       ELSE [pool EXCEPT !.cached = insert(@, block_of),
                         !.block_hash =
                             [b \in Block |->
                                IF \E i \in new : blocks[i] = b
                                THEN block_hashes[CHOOSE i \in new : blocks[i] = b] ELSE @[b]]]

\* BlockPool.reset_prefix_cache refuses while a block other than the null
\* block is in use.
CanReset(pool) == NumGpuBlocks - Len(pool.free) = 1

\* Mutant of ResetPool: blocks in use lose their hashes as well.
ResetPool_InUse(pool) == [pool EXCEPT !.cached = <<>>, !.block_hash = [b \in Block |-> NoHash]]

ResetPool(pool) ==
    IF CanReset(pool)
    THEN [pool EXCEPT !.cached = <<>>, !.block_hash = [b \in Block |-> NoHash]]
    ELSE pool
=============================================================================
