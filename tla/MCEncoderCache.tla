--------------------------- MODULE MCEncoderCache ---------------------------
(* Instances of EncoderCache for TLC. *)
EXTENDS EncoderCache

Item(h, o, l) == [identifier |-> h, offset |-> o, length |-> l]

\* Two requests, each with an input of its own and then one they share.  The three do
\* not fit in the cache together, and no two of a request touch: while each request is
\* in the middle of its first input there is no room for the second.
MCNumTokens == 1 :> 4 @@ 2 :> 4
MCFeatures ==
    1 :> <<Item("A", 0, 2), Item("B", 3, 1)>>
    @@ 2 :> <<Item("C", 0, 2), Item("B", 3, 1)>>

Config(p, d, e) == [policy |-> p, disable_chunked_mm_input |-> d, use_eagle |-> e]
MCConfigs == {Config("fcfs", FALSE, FALSE), Config("fcfs", TRUE, TRUE)}
EagleConfigs == {Config("fcfs", FALSE, TRUE)}
PriorityConfigs == {Config("priority", FALSE, FALSE)}
=============================================================================
