------------------------ MODULE FreeKVCacheBlockQueue ------------------------
(***************************************************************************)
(* class FreeKVCacheBlockQueue (vllm/v1/core/kv_cache_utils.py): the free  *)
(* KV cache blocks as a doubly linked list threaded through the blocks     *)
(* themselves (prev_free_block, next_free_block), between a fake head and  *)
(* a fake tail, with a separately maintained length.                       *)
(*                                                                         *)
(* Blocks are their ids.  The two fake blocks and Python's None are three  *)
(* further integers.                                                       *)
(***************************************************************************)
EXTENDS Integers, Sequences, Functions

CONSTANT NumBlocks      \* len(blocks)

ASSUME NumBlocksAssumption == NumBlocks \in Nat

VARIABLES
    next_free_block,    \* block.next_free_block of every block and fake block
    prev_free_block,    \* block.prev_free_block
    num_free_blocks,    \* the list's length as the object counts it
    ret,                \* the list returned by the last call
    raised              \* the exception it raised, or "none"

vars == <<next_free_block, prev_free_block, num_free_blocks, ret, raised>>

Block == 0 .. (NumBlocks - 1)
FakeHead == -1
FakeTail == -2
None == -3
Node == Block \cup {FakeHead, FakeTail}

\* The i-th node of the list q, counting the fake head as 0 and the fake tail
\* as Len(q) + 1.
At(q, i) == IF i = 0 THEN FakeHead ELSE IF i = Len(q) + 1 THEN FakeTail ELSE q[i]

BlockLists == UNION {[1 .. n -> Block] : n \in 0 .. NumBlocks}

IndexOf(s, b) == CHOOSE i \in 1 .. Len(s) : s[i] = b

-----------------------------------------------------------------------------
\* __init__ on the blocks as BlockPool lists them, in the order of their ids:
\* consecutive blocks are linked, the fakes at both ends.  Lists in another order
\* come about by the operations.
Init ==
    /\ next_free_block =
         [x \in Node |->
            CASE x = FakeHead -> IF NumBlocks > 0 THEN 0 ELSE FakeTail
              [] x = FakeTail -> None
              [] x = NumBlocks - 1 -> FakeTail
              [] OTHER -> x + 1]
    /\ prev_free_block =
         [x \in Node |->
            CASE x = FakeHead -> None
              [] x = FakeTail -> IF NumBlocks > 0 THEN NumBlocks - 1 ELSE FakeHead
              [] x = 0 -> FakeHead
              [] OTHER -> x - 1]
    /\ num_free_blocks = NumBlocks
    /\ ret = <<>>
    /\ raised = "none"

Return(list) ==
    /\ ret' = list
    /\ raised' = "none"

Raise(exception) ==
    /\ ret' = <<>>
    /\ raised' = exception
    /\ UNCHANGED <<next_free_block, prev_free_block, num_free_blocks>>

\* Mutant of popleft: the popped block keeps its link to the fake head.
popleft_KeepsLink ==
    LET first == next_free_block[FakeHead] IN
    /\ first # FakeTail
    /\ next_free_block' = [next_free_block EXCEPT ![FakeHead] = next_free_block[first], ![first] = None]
    /\ prev_free_block' = [prev_free_block EXCEPT ![next_free_block[first]] = FakeHead]
    /\ num_free_blocks' = num_free_blocks - 1
    /\ Return(<<first>>)

popleft ==
    LET first == next_free_block[FakeHead]
        second == next_free_block[first]
    IN
    \/ /\ first \in {FakeTail, None} \/ second = None
       /\ Raise(IF first \notin {FakeTail, None} THEN "RuntimeError"
                ELSE IF num_free_blocks = 0 THEN "ValueError" ELSE "AssertionError")
    \/ /\ first \notin {FakeTail, None} /\ second # None
       /\ next_free_block' = [next_free_block EXCEPT ![FakeHead] = second, ![first] = None]
       /\ prev_free_block' = [prev_free_block EXCEPT ![second] = FakeHead, ![first] = None]
       /\ num_free_blocks' = num_free_blocks - 1
       /\ Return(<<first>>)

\* The loop of popleft_n: popped is the chain of n nodes from the fake head,
\* curr the node after the last of them.
popleft_n(n) ==
    \/ /\ n > num_free_blocks
       /\ Raise("AssertionError")
    \/ /\ n = 0
       /\ Return(<<>>)
       /\ UNCHANGED <<next_free_block, prev_free_block, num_free_blocks>>
    \/ /\ n # 0
       /\ n <= num_free_blocks
       /\ \E popped \in [1 .. n -> Block] :
            LET curr == next_free_block[popped[n]] IN
            /\ \A i \in 1 .. n : popped[i] = next_free_block[At(popped, i - 1)]
            /\ next_free_block' =
                 [x \in Node |-> IF x \in Range(popped) THEN None
                                 ELSE IF x = FakeHead /\ curr # None THEN curr
                                 ELSE next_free_block[x]]
            /\ prev_free_block' =
                 [x \in Node |-> IF x = curr THEN FakeHead
                                 ELSE IF x \in Range(popped) THEN None
                                 ELSE prev_free_block[x]]
            /\ Return(popped)
       /\ num_free_blocks' = num_free_blocks - n

remove(b) ==
    LET p == prev_free_block[b]
        s == next_free_block[b]
    IN
    \/ /\ p = None \/ s = None
       /\ Raise("RuntimeError")
    \/ /\ p # None /\ s # None
       /\ next_free_block' = [next_free_block EXCEPT ![p] = s, ![b] = None]
       /\ prev_free_block' = [prev_free_block EXCEPT ![s] = p, ![b] = None]
       /\ num_free_blocks' = num_free_blocks - 1
       /\ Return(<<>>)

\* The contract of append and append_n, which neither checks: the blocks are
\* distinct and none is in the list.  BlockPool keeps it by appending a block
\* only when its reference count drops to 0.  (append and append_n check that the fake
\* tail has a predecessor, which WellLinked says it always has.)
Detached(bs) ==
    /\ IsInjective(bs)
    /\ \A b \in Range(bs) : next_free_block[b] = None /\ prev_free_block[b] = None

\* Mutant of append: the block goes to the head of the list.
append_AtHead(b) ==
    LET first == next_free_block[FakeHead] IN
    /\ Detached(<<b>>)
    /\ next_free_block' = [next_free_block EXCEPT ![FakeHead] = b, ![b] = first]
    /\ prev_free_block' = [prev_free_block EXCEPT ![first] = b, ![b] = FakeHead]
    /\ num_free_blocks' = num_free_blocks + 1
    /\ Return(<<>>)

append(b) ==
    LET last == prev_free_block[FakeTail] IN
    /\ Detached(<<b>>)
    /\ next_free_block' = [next_free_block EXCEPT ![last] = b, ![b] = FakeTail]
    /\ prev_free_block' = [prev_free_block EXCEPT ![b] = last, ![FakeTail] = b]
    /\ num_free_blocks' = num_free_blocks + 1
    /\ Return(<<>>)

append_n(bs) ==
    LET last == prev_free_block[FakeTail]
        n == Len(bs)
    IN
    /\ Detached(bs)
    /\ Return(<<>>)
    /\ \/ /\ n = 0
          /\ UNCHANGED <<next_free_block, prev_free_block, num_free_blocks>>
       \/ /\ n # 0
          /\ next_free_block' =
               [x \in Node |-> IF x \in Range(bs) THEN At(bs, IndexOf(bs, x) + 1)
                               ELSE IF x = last THEN bs[1]
                               ELSE next_free_block[x]]
          /\ prev_free_block' =
               [x \in Node |-> IF x = FakeTail THEN bs[n]
                               ELSE IF x \in Range(bs) /\ x # bs[1] THEN bs[IndexOf(bs, x) - 1]
                               ELSE IF x = bs[1] THEN last
                               ELSE prev_free_block[x]]
          /\ num_free_blocks' = num_free_blocks + n

Next ==
    \/ popleft
    \/ \E n \in 0 .. NumBlocks : popleft_n(n)
    \/ \E b \in Block : remove(b)
    \/ \E b \in Block : append(b)
    \/ \E bs \in BlockLists : append_n(bs)

Spec == Init /\ [][Next]_vars

-----------------------------------------------------------------------------
\* get_all_free_blocks follows next_free_block from the fake head to the fake
\* tail, the node without a successor.
IsWalk(q) == \A i \in 0 .. Len(q) : next_free_block[At(q, i)] = At(q, i + 1)

get_all_free_blocks == CHOOSE q \in BlockLists : IsWalk(q)

\* Type correctness of the links and of the counter: the fields of the list
\* object never hold anything but a block, a fake block or None.
TypeOK ==
    /\ next_free_block \in [Node -> Node \cup {None}]
    /\ prev_free_block \in [Node -> Node \cup {None}]
    /\ num_free_blocks \in 0 .. NumBlocks
    /\ ret \in BlockLists
    /\ raised \in {"none", "ValueError", "AssertionError", "RuntimeError"}

\* The list is what the class means by one: from the fake head next_free_block
\* leads over num_free_blocks distinct blocks to the fake tail, prev_free_block
\* leads back over the same blocks, and every other block has both links None
\* (what remove's and popleft's sanity checks rely on).
IsList(q) ==
    /\ Len(q) = num_free_blocks
    /\ IsInjective(q)
    /\ IsWalk(q)
    /\ \A i \in 0 .. Len(q) : prev_free_block[At(q, i + 1)] = At(q, i)
    /\ \A b \in Block \ Range(q) : next_free_block[b] = None /\ prev_free_block[b] = None
    /\ next_free_block[FakeTail] = None
    /\ prev_free_block[FakeHead] = None

WellLinked == \E q \in BlockLists : IsList(q)

\* The list object implements the abstract queue: every call changes the
\* sequence get_all_free_blocks returns, and returns or raises, as the queue
\* operation of the same name.
Queue == INSTANCE FreeQueue WITH queue <- get_all_free_blocks

ImplementsQueue == Queue!AQSpec
=============================================================================
