----------------------------- MODULE MCDPWaves -----------------------------
(* Small instances of DPWaves. *)
EXTENDS DPWaves

\* Who sends a request.
ClientA == [r \in Request |-> "A"]

\* Where a request may go.
Opposite == [r \in Request |-> {r % NumEngines}]

\* A request shorter than the interval between two all-reduces, and one that
\* needs the whole interval.
Lengths == [r \in Request |-> IF r = 1 THEN 1 ELSE 2]
=============================================================================
