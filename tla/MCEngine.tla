------------------------------ MODULE MCEngine ------------------------------
(***************************************************************************)
(* The engine on a few requests.                                           *)
(***************************************************************************)
EXTENDS EngineCore

CONSTANTS a, b, tok

\* The first two requests share their first block of two, the third is alone.
SharedPrefix == <<<<a, b, a>>, <<a, b, b>>, <<b>>>>

\* A prompt that several chunks are needed for, and a short one.
LongAndShort == <<<<a, b, a, b, a, b>>, <<b>>>>

\* A request that decodes while two that share a block still prefill.
ShortAndLong == <<<<b>>, <<a, b, a>>, <<a, b, b>>>>

TwoEach == <<2, 2, 2>>
ThreeEach == <<3, 3, 3>>
OneAndTwo == <<1, 2>>
FourAndThree == <<4, 3, 3>>

\* The first request asks for more tokens than the model has room for.
TooManyAndTwo == <<9, 2>>

SamePriority == <<0, 0, 0>>

\* The first request is the least urgent.
FirstLast == <<1, 0, 0>>

\* The sampler may end the sequence.
TokenOrEos == {tok, Eos}

\* The engine has no request and no batch.
Idle == phase = "input" /\ ~ has_requests /\ batch_queue = <<>>

\* FairSpec of EngineCore, with the condition under which Engine \/ Execute is
\* enabled written out: TLC would otherwise evaluate whole steps for ENABLED in
\* every state.
LiveSpec == Spec /\ ([]<>Idle \/ []<><<Engine \/ Execute>>_vars)
=============================================================================
