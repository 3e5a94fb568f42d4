--------------------------- MODULE KVCacheManager ---------------------------
(***************************************************************************)
(* class KVCacheManager (vllm/v1/core/kv_cache_manager.py) for a model     *)
(* with one KV cache group of full attention layers, i.e. on top of        *)
(* UnitaryKVCacheCoordinator and FullAttentionManager                      *)
(* (vllm/v1/core/single_type_kv_cache_manager.py), with prefix caching.    *)
(*                                                                         *)
(* A manager is a record: the block pool, req_to_blocks (<<>> for a        *)
(* request it has no entry for) and num_cached_block (NoEntry likewise).   *)
(***************************************************************************)
EXTENDS BlockPool

CONSTANTS Request, BlockSize, MaxModelLen

ASSUME SizesAssumption == BlockSize \in Nat \ {0} /\ MaxModelLen \in Nat \ {0}

NoEntry == -1

InitManager ==
    [pool |-> InitPool,
     req_to_blocks |-> [r \in Request |-> <<>>],
     num_cached_block |-> [r \in Request |-> NoEntry]]

LesserOf(a, b) == IF a <= b THEN a ELSE b

cdiv(a, b) == (a + b - 1) \div b

\* request.block_hashes: one hash for each full block of tokens.
block_hashes(tokens) == [i \in 1 .. (Len(tokens) \div BlockSize) |-> SubSeq(tokens, 1, i * BlockSize)]

-----------------------------------------------------------------------------
\* The blocks cached for the longest run of leading hashes.
find_longest_cache_hit(pool, hashes, max_length) ==
    LET max_num_blocks == LesserOf(max_length \div BlockSize, Len(hashes))
        hit(n) == \A i \in 1 .. n : get_cached_block(pool, hashes[i]) # NullBlock
        n == CHOOSE k \in 0 .. max_num_blocks : hit(k) /\ (k < max_num_blocks => ~ hit(k + 1))
    IN [i \in 1 .. n |-> get_cached_block(pool, hashes[i])]

\* The hits of a request, its last token always left to compute.
get_computed_blocks(m, tokens) ==
    find_longest_cache_hit(m.pool, block_hashes(tokens), Len(tokens) - 1)

\* Mutant of get_num_blocks_to_allocate: hits are counted as free of charge.
get_num_blocks_to_allocate_HitsFree(m, r, num_tokens, new_computed_blocks) ==
    LET have == Len(m.req_to_blocks[r]) + Len(new_computed_blocks)
        required == cdiv(num_tokens, BlockSize)
    IN IF required > have THEN required - have ELSE 0

\* Slots for num_tokens tokens, the hits in the free queue counted in since
\* touching them takes them out of it.
get_num_blocks_to_allocate(m, r, num_tokens, new_computed_blocks) ==
    LET required == cdiv(num_tokens, BlockSize)
        held == Len(m.req_to_blocks[r])
        evictable == {i \in DOMAIN new_computed_blocks :
                        /\ m.pool.ref_cnt[new_computed_blocks[i]] = 0
                        /\ new_computed_blocks[i] # NullBlock}
        missing(have) == IF required > have THEN required - have ELSE 0
    IN IF m.num_cached_block[r] # NoEntry THEN missing(held)
       ELSE missing(held + Len(new_computed_blocks)) + Cardinality(evictable)

can_fit_full_sequence(m, r, tokens, new_computed_blocks) ==
    get_num_blocks_to_allocate(m, r, LesserOf(Len(tokens), MaxModelLen), new_computed_blocks)
        <= Len(m.pool.free)

\* SingleTypeKVCacheManager.allocate_new_computed_blocks, called when there
\* are hits.
allocate_new_computed_blocks(m, r, new_computed_blocks) ==
    IF new_computed_blocks = <<>> THEN m
    ELSE IF m.num_cached_block[r] # NoEntry \/ m.req_to_blocks[r] # <<>>
    THEN [m EXCEPT !.pool = Fail(@, "allocate_new_computed_blocks: not a new request")]
    ELSE [m EXCEPT !.pool = touch(@, new_computed_blocks),
                   !.req_to_blocks[r] = new_computed_blocks,
                   !.num_cached_block[r] = Len(new_computed_blocks)]

NumNewBlocks(m, r, num_tokens) == cdiv(num_tokens, BlockSize) - Len(m.req_to_blocks[r])

allocate_new_blocks(m, r, num_tokens) ==
    LET n == NumNewBlocks(m, r, num_tokens)
    IN IF n <= 0 THEN m
       ELSE [m EXCEPT !.pool = get_new_blocks(@, n),
                      !.req_to_blocks[r] = @ \o NewBlocks(m.pool, n)]

cache_blocks(m, r, tokens, num_tokens) ==
    LET num_cached == IF m.num_cached_block[r] = NoEntry THEN 0 ELSE m.num_cached_block[r]
        num_full == num_tokens \div BlockSize
    IN IF num_cached >= num_full THEN m
       ELSE [m EXCEPT !.pool = cache_full_blocks(@, block_hashes(tokens), m.req_to_blocks[r],
                                                 num_cached, num_full),
                      !.num_cached_block[r] = num_full]

\* allocate_slots: the slots for num_new_tokens more tokens after
\* num_computed_tokens computed ones, of which the last are hits.
NeedsSlots(num_computed_tokens, num_new_tokens) ==
    LesserOf(LesserOf(num_computed_tokens, MaxModelLen) + num_new_tokens, MaxModelLen)

CanAllocate(m, r, num_computed_tokens, num_new_tokens, new_computed_blocks) ==
    get_num_blocks_to_allocate(m, r, NeedsSlots(num_computed_tokens, num_new_tokens),
                               new_computed_blocks) <= Len(m.pool.free)

allocate_slots(m, r, tokens, num_computed_tokens, num_new_tokens, new_computed_blocks) ==
    LET hits == allocate_new_computed_blocks(m, r, new_computed_blocks)
        all == allocate_new_blocks(hits, r, NeedsSlots(num_computed_tokens, num_new_tokens))
    IN cache_blocks(all, r, tokens, LesserOf(LesserOf(num_computed_tokens, MaxModelLen)
                                               + num_new_tokens, Len(tokens)))

\* Mutant of free: the blocks are freed in the order of the sequence.
free_HeadFirst(m, r) ==
    [m EXCEPT !.pool = free_blocks(@, m.req_to_blocks[r]),
              !.req_to_blocks[r] = <<>>,
              !.num_cached_block[r] = NoEntry]

\* free: the tail blocks first, so that a prefix outlives what extends it.
free(m, r) ==
    LET blocks == m.req_to_blocks[r]
        reversed == [i \in 1 .. Len(blocks) |-> blocks[Len(blocks) + 1 - i]]
    IN [m EXCEPT !.pool = free_blocks(@, reversed),
                 !.req_to_blocks[r] = <<>>,
                 !.num_cached_block[r] = NoEntry]

reset_prefix_cache(m) == [m EXCEPT !.pool = ResetPool(@)]
=============================================================================
