---------------------------- MODULE MCFreeQueue ----------------------------
(***************************************************************************)
(* The free list BlockPool builds on NumBlocks blocks: every call, with    *)
(* every argument, wherever earlier calls have led.                        *)
(***************************************************************************)
EXTENDS FreeKVCacheBlockQueue
=============================================================================
