----------------------------- MODULE FreeQueue -----------------------------
(***************************************************************************)
(* What FreeKVCacheBlockQueue promises its only client, the block pool: it *)
(* is a queue of pairwise distinct block ids from which a block may also   *)
(* be taken out of the middle.  The linked list that implements it is      *)
(* module FreeKVCacheBlockQueue.                                           *)
(*                                                                         *)
(* ret is the list the last call returned and raised the exception it      *)
(* raised ("none" when it returned).                                       *)
(***************************************************************************)
EXTENDS Integers, Sequences, Functions

CONSTANT NumBlocks      \* len(blocks) of the constructor

VARIABLES queue, ret, raised

aqVars == <<queue, ret, raised>>

QBlock == 0 .. (NumBlocks - 1)

BlockLists == UNION {[1 .. n -> QBlock] : n \in 0 .. NumBlocks}

-----------------------------------------------------------------------------
\* The queue starts with every block, in the order of the ids.
AQInit ==
    /\ queue = [i \in 1 .. NumBlocks |-> i - 1]
    /\ ret = <<>>
    /\ raised = "none"

Return(list) ==
    /\ ret' = list
    /\ raised' = "none"

Raise(exception) ==
    /\ ret' = <<>>
    /\ raised' = exception
    /\ UNCHANGED queue

AQPopleft ==
    \/ /\ queue = <<>>
       /\ Raise("ValueError")
    \/ /\ queue # <<>>
       /\ queue' = SubSeq(queue, 2, Len(queue))
       /\ Return(<<queue[1]>>)

AQPopleftN(n) ==
    \/ /\ n > Len(queue)
       /\ Raise("AssertionError")
    \/ /\ n <= Len(queue)
       /\ queue' = SubSeq(queue, n + 1, Len(queue))
       /\ Return(SubSeq(queue, 1, n))

\* Taking out a block that is not free is refused and changes nothing.
AQRemove(b) ==
    \/ /\ b \notin Range(queue)
       /\ Raise("RuntimeError")
    \/ \E k \in 1 .. Len(queue) :
           /\ queue[k] = b
           /\ queue' = SubSeq(queue, 1, k - 1) \o SubSeq(queue, k + 1, Len(queue))
           /\ Return(<<>>)

\* Blocks that are already free may not be appended: the caller's contract.
AQAppendN(bs) ==
    /\ IsInjective(bs)
    /\ Range(bs) \cap Range(queue) = {}
    /\ queue' = queue \o bs
    /\ Return(<<>>)

AQNext ==
    \/ AQPopleft
    \/ \E n \in 0 .. NumBlocks : AQPopleftN(n)
    \/ \E b \in QBlock : AQRemove(b)
    \/ \E bs \in BlockLists : AQAppendN(bs)

AQSpec == AQInit /\ [][AQNext]_aqVars
=============================================================================
