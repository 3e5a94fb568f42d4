----------------------- MODULE MultiprocExecutorProof -----------------------
(***************************************************************************)
(* Proofs about MultiprocExecutor, for every number of workers, calls and  *)
(* futures and for every set of kinds of calls.                            *)
(*                                                                         *)
(* No answer carries the number of its call: get_response takes whatever   *)
(* comes first in a worker's queue.  The answers match because the queues  *)
(* of every worker hold exactly the answers that somebody has yet to read, *)
(* in the order of the calls (Aligned), and the executor reads for the     *)
(* oldest pending call first (FuturesOK, TargetOK).  This is kept until a  *)
(* call is given up while answers to it are still under way (LeftOver).    *)
(* An output thread that ends takes an answer with it, but it is the last  *)
(* to send one: what is missing comes after all that was sent (Missing).   *)
(***************************************************************************)
EXTENDS MultiprocExecutor, TLAPS

\* The engine waits for the result of target.
Awaiting == engine \in {"registering", "waiting"}

\* c is in the queue q.
Within(c, q) == \E i \in DOMAIN q : q[i] = c

\* The futures are the pending calls that nobody is reading the answers of,
\* oldest first.
FuturesOK ==
    /\ \A i \in DOMAIN futures_queue :
          /\ outcome[futures_queue[i]] = Pending
          /\ current # 0 => current < futures_queue[i]
    /\ \A i, j \in DOMAIN futures_queue : i < j => futures_queue[i] < futures_queue[j]
    /\ \A c \in Calls : outcome[c] = Pending =>
          Within(c, futures_queue) \/ c = current \/ (Awaiting /\ c = target)

\* The call whose result the engine wants comes after the futures it has to
\* drain, or is one of them.
TargetOK ==
    /\ Awaiting <=> target # 0
    /\ current # 0 => engine = "waiting" /\ outcome[current] = Pending /\ current <= target
    /\ current = 0 => got = <<>>
    /\ engine = "registering" =>
          /\ target = Len(calls) /\ outcome[target] = Pending
          /\ calls[target].non_block => Len(futures_queue) < MaxPending
    /\ Awaiting /\ (engine = "registering" \/ ~calls[target].non_block) =>
          \A i \in DOMAIN futures_queue : futures_queue[i] < target
    /\ engine = "waiting" /\ calls[target].non_block /\ outcome[target] = Pending =>
          Within(target, futures_queue) \/ target = current

\* Only a call that may fail is answered by an exception, and without the thread
\* that sends answers nothing is queued for it.
MayRaise(q) == \A i \in DOMAIN q : q[i].success \/ calls[q[i].call].fails
ExceptionsOK ==
    \A w \in Rank :
        /\ MayRaise(worker_response_mq[w]) /\ MayRaise(async_output_queue[w])
        /\ ~AsyncScheduling => async_output_queue[w] = <<>>

\* Only the thread that sends answers can end and leave the worker without one.
SendingOK == \A w \in Rank : AsyncScheduling \/ sending[w]

\* A call that several workers answer, or that may time out, was given up.
LeftOver == \E c \in Calls : outcome[c] = Failed /\ (calls[c].all \/ calls[c].expires)

\* The answers to the call being read so far.
ReadOK ==
    /\ \A c \in DOMAIN response_mqs : response_mqs[c] = Answering(c)
    /\ current # 0 =>
          /\ Len(got) <= Len(Answering(current))
          /\ \A i \in DOMAIN got : got[i] = [rank |-> Answering(current)[i], call |-> current]

\* Where call c or its answer may be under way.
Answered(c, q) == \E i \in DOMAIN q : q[i].call = c
InResponse(c, w) == Answered(c, worker_response_mq[w])
InAsync(c, w) == Answered(c, async_output_queue[w])
InBroadcast(c, w) == Within(c, rpc_broadcast_mq[w])
UnderWay(c, w) == InResponse(c, w) \/ InAsync(c, w) \/ InBroadcast(c, w)

\* In the three queues of a worker the calls are in order, ...
Ascending(q) == \A i, j \in DOMAIN q : i < j => q[i] < q[j]
Increasing(q) == \A i, j \in DOMAIN q : i < j => q[i].call < q[j].call
QueuesInOrder(w) ==
    /\ Increasing(worker_response_mq[w]) /\ Increasing(async_output_queue[w])
    /\ Ascending(rpc_broadcast_mq[w])
    /\ \A c, d \in Calls :
          /\ InResponse(c, w) /\ InAsync(d, w) => c < d
          /\ InResponse(c, w) /\ InBroadcast(d, w) => c < d
          /\ InAsync(c, w) /\ InBroadcast(d, w) => c < d

\* ... and those it answers are the ones that somebody has yet to read, except that
\* after what was sent one is missing if the output thread has ended.
Awaited(c, w) == outcome[c] = Pending /\ ~IsRead(c, w)
Missing(c, w) == ~sending[w] /\ \A d \in Calls : InResponse(d, w) => d < c
UnderWayIsAwaited(w) ==
    \A c \in Calls :
       /\ (InResponse(c, w) \/ InAsync(c, w)) => Answers(c, w)
       /\ (Answers(c, w) /\ UnderWay(c, w)) => Awaited(c, w)
       /\ (Answers(c, w) /\ Awaited(c, w)) => (UnderWay(c, w) \/ Missing(c, w))

Aligned(w) == QueuesInOrder(w) /\ UnderWayIsAwaited(w)

\* What holds as long as nobody died and nothing is left over.
Matched ==
    /\ ReadOK
    /\ \A w \in Rank : Aligned(w)
    /\ AnswersMatch

\* The inductive invariant.
IInv ==
    /\ TypeOK
    /\ FuturesOK
    /\ TargetOK
    /\ ExceptionsOK
    /\ SendingOK
    /\ is_failed \/ LeftOver \/ Matched

\* The calls that leave nothing behind: none times out, and none that every
\* worker answers raises an exception.
KindsSafe == \A k \in Kinds : ~k.expires /\ (k.fails => ~k.all)

\* Nothing is left over unless somebody died.
NoneLeftOver == is_failed \/ ~LeftOver

-----------------------------------------------------------------------------
(***************************************************************************)
(* Sequences.                                                              *)
(***************************************************************************)
LEMMA AppendFacts ==
    ASSUME NEW S, NEW q \in Seq(S), NEW x \in S
    PROVE  /\ Append(q, x) \in Seq(S)
           /\ Len(q) \in Nat /\ Len(Append(q, x)) = Len(q) + 1
           /\ DOMAIN q = 1 .. Len(q) /\ DOMAIN Append(q, x) = 1 .. (Len(q) + 1)
           /\ \A i \in 1 .. Len(q) : Append(q, x)[i] = q[i] /\ q[i] \in S
           /\ Append(q, x)[Len(q) + 1] = x
OBVIOUS

(***************************************************************************)
(* Taking the first element of a sequence.                                  *)
(***************************************************************************)
LEMMA TailFacts ==
    ASSUME NEW S, NEW q \in Seq(S), q # <<>>
    PROVE  /\ Tail(q) \in Seq(S)
           /\ Len(q) \in Nat \ {0} /\ Len(Tail(q)) = Len(q) - 1
           /\ DOMAIN q = 1 .. Len(q) /\ DOMAIN Tail(q) = 1 .. (Len(q) - 1)
           /\ \A i \in 1 .. (Len(q) - 1) : Tail(q)[i] = q[i + 1]
           /\ \A i \in 1 .. Len(q) : q[i] \in S
           /\ Head(q) = q[1] /\ Head(q) \in S
OBVIOUS

(***************************************************************************)
(* A sequence of elements of a set is one of elements of a larger set.     *)
(***************************************************************************)
LEMMA SeqWider ==
    ASSUME NEW S, NEW T, S \subseteq T, NEW q \in Seq(S)
    PROVE  q \in Seq(T)
<1>1. Len(q) \in Nat /\ q \in [1 .. Len(q) -> S]
  OBVIOUS
<1>2. q \in [1 .. Len(q) -> T]
  BY <1>1
<1> QED BY <1>1, <1>2

(***************************************************************************)
(* Replacing an element.                                                   *)
(***************************************************************************)
LEMMA ExceptFacts ==
    ASSUME NEW S, NEW q \in Seq(S), NEW i \in 1 .. Len(q), NEW x \in S
    PROVE  /\ [q EXCEPT ![i] = x] \in Seq(S) /\ Len([q EXCEPT ![i] = x]) = Len(q)
           /\ DOMAIN [q EXCEPT ![i] = x] = DOMAIN q
<1>1. Len(q) \in Nat /\ q \in [1 .. Len(q) -> S]
  OBVIOUS
<1>2. [q EXCEPT ![i] = x] \in [1 .. Len(q) -> S]
  BY <1>1
<1> QED BY <1>1, <1>2

\* The elements of the sequences.
Answer == [call : Calls, success : BOOLEAN]
Got == [rank : Rank, call : Calls]
Outcome == [status : {"pending", "exception", "returned"}, answers : Seq(Got)]

(***************************************************************************)
(* What the types say of the variables, ...                                *)
(***************************************************************************)
LEMMA NamedTypes ==
    ASSUME TypeOK
    PROVE  /\ outcome \in Seq(Outcome) /\ Len(outcome) = Len(calls) /\ got \in Seq(Got)
           /\ async_output_queue \in [Rank -> Seq(Answer)]
           /\ worker_response_mq \in [Rank -> Seq(Answer)]
           /\ \A c \in Calls : Answering(c) \in Seq(Rank)
           /\ <<>> \in Seq(Rank) /\ <<>> \in Seq(Got) /\ <<>> \in Seq(Answer)
           /\ Failed \in Outcome /\ Pending \in Outcome
           /\ Failed # Pending /\ \A a : Returned(a) # Pending /\ Returned(a) # Failed
<1>1. /\ outcome \in Seq(Outcome) /\ Len(outcome) = Len(calls) /\ got \in Seq(Got)
  BY DEF TypeOK, Outcome, Got
<1>2. /\ async_output_queue \in [Rank -> Seq(Answer)]
      /\ worker_response_mq \in [Rank -> Seq(Answer)]
  BY DEF TypeOK, Answer
<1>3. \A c \in Calls : Answering(c) \in Seq(Rank)
  <2>1. Rank = 1 .. WorldSize /\ WorldSize \in Nat
    BY ExecutorAssumption DEF Rank
  <2>2. [i \in Rank |-> i] \in Seq(Rank)
    <3>1. [i \in Rank |-> i] \in [1 .. WorldSize -> Rank]
      BY <2>1
    <3> QED BY <2>1, <3>1
  <2>3. <<OutputRank>> \in Seq(Rank)
    BY ExecutorAssumption
  <2> QED BY <2>2, <2>3 DEF Answering
<1>4. <<>> \in Seq(Rank) /\ <<>> \in Seq(Got) /\ <<>> \in Seq(Answer)
  OBVIOUS
<1>5. Failed \in Outcome /\ Pending \in Outcome
  BY <1>4 DEF Failed, Pending, Outcome
<1>6. Failed # Pending /\ \A a : Returned(a) # Pending /\ Returned(a) # Failed
  BY DEF Failed, Pending, Returned
<1> QED BY <1>1, <1>2, <1>3, <1>4, <1>5, <1>6

(***************************************************************************)
(* ... and of their elements and domains.                                  *)
(***************************************************************************)
LEMMA TypeFacts ==
    ASSUME TypeOK
    PROVE  /\ Len(calls) \in Nat /\ Calls = 1 .. Len(calls)
           /\ \A c \in Calls : calls[c] \in Kinds
           /\ DOMAIN outcome = Calls
           /\ \A c \in Calls : outcome[c] \in Outcome
           /\ Len(response_mqs) \in Nat /\ DOMAIN response_mqs = 1 .. Len(response_mqs)
           /\ Len(futures_queue) \in Nat /\ DOMAIN futures_queue = 1 .. Len(futures_queue)
           /\ \A i \in DOMAIN futures_queue : futures_queue[i] \in Calls
           /\ Len(got) \in Nat /\ DOMAIN got = 1 .. Len(got)
           /\ \A w \in Rank :
                 /\ Len(rpc_broadcast_mq[w]) \in Nat
                 /\ DOMAIN rpc_broadcast_mq[w] = 1 .. Len(rpc_broadcast_mq[w])
                 /\ \A i \in DOMAIN rpc_broadcast_mq[w] : rpc_broadcast_mq[w][i] \in Calls
                 /\ Len(async_output_queue[w]) \in Nat
                 /\ DOMAIN async_output_queue[w] = 1 .. Len(async_output_queue[w])
                 /\ \A i \in DOMAIN async_output_queue[w] : async_output_queue[w][i] \in Answer
                 /\ Len(worker_response_mq[w]) \in Nat
                 /\ DOMAIN worker_response_mq[w] = 1 .. Len(worker_response_mq[w])
                 /\ \A i \in DOMAIN worker_response_mq[w] : worker_response_mq[w][i] \in Answer
<1>1. Len(calls) \in Nat /\ Calls = 1 .. Len(calls) /\ \A c \in Calls : calls[c] \in Kinds
  BY DEF TypeOK, Calls
<1>2. Len(outcome) = Len(calls) /\ outcome \in Seq(Outcome)
  BY DEF TypeOK, Outcome, Got
<1>3. DOMAIN outcome = 1 .. Len(outcome) /\ \A c \in 1 .. Len(outcome) : outcome[c] \in Outcome
  BY <1>2
<1>4. /\ Len(response_mqs) \in Nat /\ DOMAIN response_mqs = 1 .. Len(response_mqs)
      /\ Len(futures_queue) \in Nat /\ DOMAIN futures_queue = 1 .. Len(futures_queue)
      /\ \A i \in DOMAIN futures_queue : futures_queue[i] \in Calls
      /\ Len(got) \in Nat /\ DOMAIN got = 1 .. Len(got)
  <2>1. response_mqs \in Seq(Seq(Rank)) /\ futures_queue \in Seq(Calls) /\ got \in Seq(Got)
    BY DEF TypeOK, Got
  <2> HIDE DEF Got
  <2> QED BY <2>1
<1>5. ASSUME NEW w \in Rank
      PROVE  /\ Len(rpc_broadcast_mq[w]) \in Nat
             /\ DOMAIN rpc_broadcast_mq[w] = 1 .. Len(rpc_broadcast_mq[w])
             /\ \A i \in DOMAIN rpc_broadcast_mq[w] : rpc_broadcast_mq[w][i] \in Calls
             /\ Len(async_output_queue[w]) \in Nat
             /\ DOMAIN async_output_queue[w] = 1 .. Len(async_output_queue[w])
             /\ \A i \in DOMAIN async_output_queue[w] : async_output_queue[w][i] \in Answer
             /\ Len(worker_response_mq[w]) \in Nat
             /\ DOMAIN worker_response_mq[w] = 1 .. Len(worker_response_mq[w])
             /\ \A i \in DOMAIN worker_response_mq[w] : worker_response_mq[w][i] \in Answer
  <2>1. /\ rpc_broadcast_mq[w] \in Seq(Calls) /\ async_output_queue[w] \in Seq(Answer)
        /\ worker_response_mq[w] \in Seq(Answer)
    BY <1>5 DEF TypeOK, Answer
  <2> HIDE DEF Answer
  <2> QED BY <2>1
<1> QED BY <1>1, <1>2, <1>3, <1>4, <1>5

-----------------------------------------------------------------------------
(* The types are kept *)

(***************************************************************************)
(* collective_rpc.                                                         *)
(***************************************************************************)
LEMMA CallTypes ==
    ASSUME TypeOK, NEW kind \in Kinds, collective_rpc(kind)
    PROVE  TypeOK'
<1>1. CASE is_failed
  <2>1. engine' \in {"idle", "dead"}
    BY <1>1 DEF collective_rpc, AfterException
  <2>2. UNCHANGED <<calls, response_mqs, outcome, futures_queue, target, current, got,
                    rpc_broadcast_mq, async_output_queue, worker_response_mq,
                    alive, sending, monitor, deaths>>
    BY <1>1 DEF collective_rpc, callVars, workerVars, monitorVars
  <2>3. engine # "registering" /\ engine' # "registering"
    BY <2>1 DEF collective_rpc
  <2> QED BY <2>1, <2>2, <2>3 DEF TypeOK, Calls
<1>2. CASE ~is_failed
  <2>1. /\ calls' = Append(calls, kind) /\ outcome' = Append(outcome, Pending)
        /\ rpc_broadcast_mq' = [w \in Rank |-> Append(rpc_broadcast_mq[w], Len(calls) + 1)]
        /\ engine' = "registering" /\ target' = Len(calls) + 1
        /\ engine = "idle" /\ Len(calls) < MaxCalls
        /\ UNCHANGED <<response_mqs, futures_queue, async_output_queue, worker_response_mq,
                       current, got, alive, sending, monitor, deaths>>
    BY <1>2 DEF collective_rpc, monitorVars
  <2>2. /\ calls' \in Seq(Kinds) /\ Len(calls') = Len(calls) + 1 /\ Len(calls) \in Nat
        /\ Calls' = 1 .. (Len(calls) + 1) /\ Calls = 1 .. Len(calls)
    BY <2>1, AppendFacts DEF TypeOK, Calls
  <2>3. Calls \subseteq Calls' /\ Len(calls) + 1 \in Calls'
    BY <2>2
  <2>4. outcome' \in Seq(Outcome') /\ Len(outcome') = Len(calls')
    <3>1. Seq(Got) \subseteq Seq(Got')
      <4>1. Got \subseteq Got'
        BY <2>3 DEF Got
      <4> QED BY <4>1, SeqWider
    <3>2. Outcome \subseteq Outcome' /\ Pending \in Outcome'
      BY <3>1 DEF Outcome, Pending
    <3>3. outcome \in Seq(Outcome')
      BY <3>2, SeqWider, NamedTypes
    <3>4. Len(outcome) = Len(calls)
      BY NamedTypes
    <3> QED BY <2>1, <2>2, <3>2, <3>3, <3>4, AppendFacts
  <2>5. futures_queue \in Seq(Calls') /\ got \in Seq(Got')
    <3>1. Got \subseteq Got'
      BY <2>3 DEF Got
    <3>2. got \in Seq(Got)
      BY DEF TypeOK, Got
    <3>3. got \in Seq(Got')
      BY <3>1, <3>2, SeqWider
    <3> QED BY <2>3, <3>3, SeqWider DEF TypeOK
  <2>6. rpc_broadcast_mq' \in [Rank -> Seq(Calls')]
    <3>1. ASSUME NEW w \in Rank PROVE Append(rpc_broadcast_mq[w], Len(calls) + 1) \in Seq(Calls')
      <4>1. rpc_broadcast_mq[w] \in Seq(Calls)
        BY DEF TypeOK
      <4>2. rpc_broadcast_mq[w] \in Seq(Calls')
        BY <4>1, <2>3, SeqWider
      <4> QED BY <4>2, <2>3, AppendFacts
    <3> QED BY <2>1, <3>1
  <2>7. Seq(Answer) \subseteq Seq(Answer')
    <3>1. Answer \subseteq Answer'
      BY <2>3 DEF Answer
    <3> QED BY <3>1, SeqWider
  <2>8. /\ async_output_queue \in [Rank -> Seq(Answer')]
        /\ worker_response_mq \in [Rank -> Seq(Answer')]
    BY <2>7 DEF TypeOK, Answer
  <2>9. /\ target' \in {0} \cup Calls' /\ current' \in {0} \cup Calls'
        /\ Len(response_mqs') = Len(calls') - 1 /\ Len(calls') <= MaxCalls
    <3>1. current \in {0} \cup Calls /\ Len(response_mqs) = Len(calls)
      BY <2>1 DEF TypeOK
    <3> QED BY <2>1, <2>2, <2>3, <3>1, ExecutorAssumption
  <2>10. /\ response_mqs' \in Seq(Seq(Rank)) /\ IsInjective(futures_queue')
         /\ Len(futures_queue') <= MaxPending
         /\ alive' \in [Rank -> BOOLEAN] /\ sending' \in [Rank -> BOOLEAN]
         /\ monitor' \in {"watching", "failed", "terminated", "closed", "done"}
         /\ deaths' \in 0 .. MaxDeaths
    BY <2>1 DEF TypeOK
  <2> QED BY <2>1, <2>2, <2>4, <2>5, <2>6, <2>8, <2>9, <2>10
          DEF TypeOK, Outcome, Got, Answer
<1> QED BY <1>1, <1>2

(***************************************************************************)
(* A step of the engine that makes no call, if it keeps the types of what  *)
(* it changes.                                                             *)
(***************************************************************************)
LEMMA EngineTypes ==
    ASSUME TypeOK, UNCHANGED <<calls, rpc_broadcast_mq, async_output_queue, monitorVars>>,
           outcome' \in Seq(Outcome), Len(outcome') = Len(calls),
           response_mqs' \in Seq(Seq(Rank)),
           Len(response_mqs') = IF engine' = "registering" THEN Len(calls) - 1 ELSE Len(calls),
           futures_queue' \in Seq(Calls), IsInjective(futures_queue'),
           Len(futures_queue') <= MaxPending,
           engine' \in {"idle", "registering", "waiting", "dead"},
           target' \in {0} \cup Calls, current' \in {0} \cup Calls, got' \in Seq(Got),
           worker_response_mq' \in [Rank -> Seq(Answer)]
    PROVE  TypeOK'
BY DEF TypeOK, Calls, Outcome, Got, Answer, monitorVars

(***************************************************************************)
(* Register.                                                               *)
(***************************************************************************)
LEMMA RegisterTypes ==
    ASSUME TypeOK, TargetOK, FuturesOK, Register
    PROVE  TypeOK'
<1>1. /\ engine = "registering" /\ target \in Calls /\ target = Len(calls)
      /\ Len(response_mqs) = Len(calls) - 1
      /\ calls[target].non_block => Len(futures_queue) < MaxPending
      /\ \A i \in DOMAIN futures_queue : futures_queue[i] < target
  BY DEF Register, TargetOK, Awaiting, TypeOK
<1>2. UNCHANGED <<calls, current, got, rpc_broadcast_mq, async_output_queue,
                  worker_response_mq, monitorVars>>
  BY DEF Register, workerVars
<1>3. outcome \in Seq(Outcome) /\ Len(outcome) = Len(calls) /\ Len(calls) \in Nat
  BY NamedTypes, TypeFacts
<1>4. Answering(target) \in Seq(Rank) /\ <<>> \in Seq(Rank)
  BY <1>1, NamedTypes
<1>5. /\ got' \in Seq(Got) /\ worker_response_mq' \in [Rank -> Seq(Answer)]
      /\ current' \in {0} \cup Calls
  BY <1>2 DEF TypeOK, Got, Answer
<1>6. CASE closed /\ ~calls[target].all
  <2>1. /\ outcome' = [outcome EXCEPT ![target] = Failed]
        /\ response_mqs' = Append(response_mqs, <<>>)
        /\ engine' \in {"idle", "dead"} /\ target' = 0 /\ UNCHANGED futures_queue
    BY <1>6 DEF Register, AfterException
  <2>2. outcome' \in Seq(Outcome) /\ Len(outcome') = Len(calls)
    <3>1. Failed \in Outcome /\ target \in 1 .. Len(outcome)
      BY <1>1, <1>3, NamedTypes, TypeFacts
    <3> HIDE DEF Outcome
    <3> QED BY <2>1, <1>3, <3>1, ExceptFacts
  <2>3. response_mqs' \in Seq(Seq(Rank)) /\ Len(response_mqs') = Len(calls)
    BY <1>1, <1>3, <1>4, <2>1, AppendFacts DEF TypeOK
  <2>4. futures_queue' \in Seq(Calls) /\ IsInjective(futures_queue') /\ Len(futures_queue') <= MaxPending
    BY <2>1 DEF TypeOK
  <2> QED BY <1>2, <1>5, <2>1, <2>2, <2>3, <2>4, EngineTypes
<1>7. CASE ~(closed /\ ~calls[target].all)
  <2>1. /\ response_mqs' = Append(response_mqs, IF closed THEN <<>> ELSE Answering(target))
        /\ UNCHANGED outcome
    BY <1>7 DEF Register
  <2>2. response_mqs' \in Seq(Seq(Rank)) /\ Len(response_mqs') = Len(calls)
    BY <1>1, <1>3, <1>4, <2>1, AppendFacts DEF TypeOK
  <2>3. CASE calls[target].non_block
    <3>1. futures_queue' = Append(futures_queue, target) /\ engine' = "idle" /\ target' = 0
      BY <1>7, <2>3 DEF Register
    <3>2. futures_queue' \in Seq(Calls) /\ Len(futures_queue') <= MaxPending
      <4>1. futures_queue \in Seq(Calls) /\ Len(futures_queue) < MaxPending
        BY <1>1, <2>3 DEF TypeOK
      <4> QED BY <3>1, <1>1, <4>1, AppendFacts, ExecutorAssumption
    <3>3. IsInjective(futures_queue')
      <4> DEFINE q == futures_queue
      <4>1. q \in Seq(Calls) /\ IsInjective(q) /\ Calls \subseteq Int
        <5>1. Calls = 1 .. Len(calls)
          BY TypeFacts
        <5> QED BY <5>1 DEF TypeOK
      <4>2. /\ DOMAIN futures_queue' = 1 .. (Len(q) + 1) /\ futures_queue'[Len(q) + 1] = target
            /\ Len(q) \in Nat /\ DOMAIN q = 1 .. Len(q)
            /\ \A i \in 1 .. Len(q) : futures_queue'[i] = q[i] /\ q[i] \in Calls
        BY <4>1, <3>1, <1>1, AppendFacts
      <4>3. \A i \in 1 .. Len(q) : q[i] # target
        BY <1>1, <4>1, <4>2
      <4> HIDE DEF q
      <4>4. ASSUME NEW i \in 1 .. (Len(q) + 1), NEW j \in 1 .. (Len(q) + 1),
                   futures_queue'[i] = futures_queue'[j]
            PROVE  i = j
        <5>1. CASE i = Len(q) + 1 \/ j = Len(q) + 1
          BY <5>1, <4>2, <4>3, <4>4
        <5>2. CASE i # Len(q) + 1 /\ j # Len(q) + 1
          BY <5>2, <4>1, <4>2, <4>4 DEF IsInjective
        <5> QED BY <5>1, <5>2
      <4> QED BY <4>2, <4>4 DEF IsInjective
    <3> QED BY <1>2, <1>3, <1>5, <2>1, <2>2, <3>1, <3>2, <3>3, EngineTypes
  <2>4. CASE ~calls[target].non_block
    <3>1. UNCHANGED <<futures_queue, target>> /\ engine' = "waiting"
      BY <1>7, <2>4 DEF Register
    <3>2. futures_queue' \in Seq(Calls) /\ IsInjective(futures_queue') /\ Len(futures_queue') <= MaxPending
      BY <3>1 DEF TypeOK
    <3> QED BY <1>1, <1>2, <1>3, <1>5, <2>1, <2>2, <3>1, <3>2, EngineTypes
  <2> QED BY <2>3, <2>4
<1> QED BY <1>6, <1>7

(***************************************************************************)
(* Drain.                                                                  *)
(***************************************************************************)
LEMMA DrainTypes ==
    ASSUME TypeOK, TargetOK, Drain
    PROVE  TypeOK'
<1>1. /\ engine = "waiting" /\ target \in Calls
      /\ UNCHANGED <<calls, response_mqs, outcome, rpc_broadcast_mq, async_output_queue,
                     worker_response_mq, monitorVars>>
  BY DEF Drain, TargetOK, Awaiting, TypeOK, workerVars
<1>2. /\ outcome' \in Seq(Outcome) /\ Len(outcome') = Len(calls) /\ <<>> \in Seq(Got)
      /\ response_mqs' \in Seq(Seq(Rank)) /\ Len(response_mqs') = Len(calls)
      /\ worker_response_mq' \in [Rank -> Seq(Answer)]
  <2>1. /\ response_mqs \in Seq(Seq(Rank)) /\ Len(response_mqs) = Len(calls)
    BY <1>1 DEF TypeOK
  <2> QED BY <1>1, <2>1, NamedTypes
<1>3. CASE outcome[target] # Pending
  <2>1. /\ engine' \in {"idle", "dead"} /\ target' = 0
        /\ UNCHANGED <<futures_queue, current, got>>
    BY <1>3 DEF Drain, AfterException
  <2>2. /\ futures_queue' \in Seq(Calls) /\ IsInjective(futures_queue')
        /\ Len(futures_queue') <= MaxPending
        /\ current' \in {0} \cup Calls /\ got' \in Seq(Got)
    BY <2>1 DEF TypeOK, Got
  <2> QED BY <1>1, <1>2, <2>1, <2>2, EngineTypes
<1>4. CASE outcome[target] = Pending
  <2>1. /\ current' = NextResponse /\ got' = <<>> /\ UNCHANGED <<engine, target>>
        /\ futures_queue' = IF futures_queue # <<>> THEN Tail(futures_queue) ELSE futures_queue
    BY <1>4 DEF Drain
  <2>2. CASE futures_queue = <<>>
    <3>1. /\ futures_queue' \in Seq(Calls) /\ IsInjective(futures_queue')
          /\ Len(futures_queue') <= MaxPending /\ current' \in {0} \cup Calls
      BY <1>1, <2>1, <2>2 DEF NextResponse, TypeOK
    <3> QED BY <1>1, <1>2, <2>1, <3>1, EngineTypes
  <2>3. CASE futures_queue # <<>>
    <3> DEFINE q == futures_queue
    <3>1. q \in Seq(Calls) /\ q # <<>> /\ IsInjective(q) /\ Len(q) <= MaxPending
      BY <2>3 DEF TypeOK
    <3>2. /\ Tail(q) \in Seq(Calls) /\ Len(q) \in Nat \ {0} /\ Len(Tail(q)) = Len(q) - 1
          /\ DOMAIN q = 1 .. Len(q) /\ DOMAIN Tail(q) = 1 .. (Len(q) - 1)
          /\ \A i \in 1 .. (Len(q) - 1) : Tail(q)[i] = q[i + 1]
          /\ Head(q) \in Calls
      BY <3>1, TailFacts
    <3>3. futures_queue' = Tail(q) /\ current' = Head(q)
      BY <2>1, <2>3 DEF NextResponse
    <3> HIDE DEF q
    <3>4. IsInjective(Tail(q)) /\ Len(Tail(q)) <= MaxPending
      <4>1. ASSUME NEW i \in 1 .. (Len(q) - 1), NEW j \in 1 .. (Len(q) - 1), Tail(q)[i] = Tail(q)[j]
            PROVE  i = j
        <5>1. q[i + 1] = q[j + 1] /\ i + 1 \in DOMAIN q /\ j + 1 \in DOMAIN q
          BY <3>2, <4>1
        <5> QED BY <5>1, <3>1 DEF IsInjective
      <4> QED BY <3>1, <3>2, <4>1, ExecutorAssumption DEF IsInjective
    <3> QED BY <1>1, <1>2, <2>1, <3>2, <3>3, <3>4, EngineTypes
  <2> QED BY <2>2, <2>3
<1> QED BY <1>3, <1>4

(***************************************************************************)
(* A step that reads answers: CompleteResponse and Dequeue.                *)
(***************************************************************************)
LEMMA ReadTypes ==
    ASSUME TypeOK, current \in Calls,
           UNCHANGED <<calls, response_mqs, futures_queue, engine, target, rpc_broadcast_mq,
                       async_output_queue, monitorVars>>,
           worker_response_mq' \in [Rank -> Seq(Answer)],
           \/ \E o \in Outcome : EndResponse(o)
           \/ UNCHANGED <<outcome, current>> /\ got' \in Seq(Got)
    PROVE  TypeOK'
<1>1. /\ response_mqs' \in Seq(Seq(Rank))
      /\ Len(response_mqs') = IF engine' = "registering" THEN Len(calls) - 1 ELSE Len(calls)
      /\ futures_queue' \in Seq(Calls) /\ IsInjective(futures_queue')
      /\ Len(futures_queue') <= MaxPending
      /\ engine' \in {"idle", "registering", "waiting", "dead"} /\ target' \in {0} \cup Calls
  BY DEF TypeOK
<1>2. /\ outcome' \in Seq(Outcome) /\ Len(outcome') = Len(calls)
      /\ current' \in {0} \cup Calls /\ got' \in Seq(Got)
  <2>1. CASE \E o \in Outcome : EndResponse(o)
    <3>1. PICK o \in Outcome : EndResponse(o)
      BY <2>1
    <3>2. current \in 1 .. Len(outcome) /\ outcome \in Seq(Outcome) /\ Len(outcome) = Len(calls)
      BY NamedTypes, TypeFacts
    <3> HIDE DEF Outcome
    <3> QED BY <3>1, <3>2, ExceptFacts DEF EndResponse
  <2>2. CASE UNCHANGED <<outcome, current>> /\ got' \in Seq(Got)
    BY <2>2, NamedTypes
  <2> QED BY <2>1, <2>2
<1> QED BY <1>1, <1>2, EngineTypes

(***************************************************************************)
(* CompleteResponse.                                                        *)
(***************************************************************************)
LEMMA CompleteTypes ==
    ASSUME TypeOK, CompleteResponse
    PROVE  TypeOK'
<1>1. /\ EndResponse(Returned(got)) /\ current # 0
      /\ UNCHANGED <<calls, response_mqs, futures_queue, engine, target, rpc_broadcast_mq,
                     async_output_queue, worker_response_mq, monitorVars>>
  BY DEF CompleteResponse, workerVars
<1>2. Returned(got) \in Outcome
  BY NamedTypes DEF Returned, Outcome
<1>3. current \in Calls
  BY <1>1 DEF TypeOK
<1>4. worker_response_mq' \in [Rank -> Seq(Answer)]
  BY <1>1, NamedTypes
<1> QED BY <1>1, <1>2, <1>3, <1>4, ReadTypes

\* The queue that is read next.
Reading == response_mqs[current][Len(got) + 1]

(***************************************************************************)
(* Dequeue.                                                                 *)
(***************************************************************************)
LEMMA DequeueTypes ==
    ASSUME TypeOK, Dequeue
    PROVE  TypeOK' /\ Reading \in Rank
<1> DEFINE mq == worker_response_mq[Reading]
<1>1. /\ current # 0 /\ Len(got) < Len(response_mqs[current]) /\ engine = "waiting"
      /\ UNCHANGED <<calls, response_mqs, futures_queue, engine, target, rpc_broadcast_mq,
                     async_output_queue, monitorVars>>
  BY DEF Dequeue
<1>2. current \in Calls /\ Len(response_mqs) = Len(calls) /\ response_mqs \in Seq(Seq(Rank))
  BY <1>1 DEF TypeOK
<1>3. Reading \in Rank
  <2>1. current \in 1 .. Len(response_mqs)
    BY <1>2, TypeFacts
  <2>2. response_mqs[current] \in Seq(Rank)
    BY <1>2, <2>1
  <2>3. Len(got) + 1 \in 1 .. Len(response_mqs[current])
    BY <1>1, <2>2, TypeFacts
  <2> QED BY <2>2, <2>3 DEF Reading
<1>4. mq \in Seq(Answer)
  BY <1>3, NamedTypes
<1>5. CASE mq = <<>>
  <2>1. EndResponse(Failed) /\ UNCHANGED worker_response_mq
    BY <1>5 DEF Dequeue, Reading
  <2>2. Failed \in Outcome /\ worker_response_mq' \in [Rank -> Seq(Answer)]
    BY <2>1, NamedTypes
  <2> QED BY <1>1, <1>2, <1>3, <2>1, <2>2, ReadTypes
<1>6. CASE mq # <<>>
  <2>1. /\ worker_response_mq' = [worker_response_mq EXCEPT ![Reading] = Tail(mq)]
        /\ IF Head(mq).success
           THEN /\ got' = Append(got, [rank |-> Reading, call |-> Head(mq).call])
                /\ UNCHANGED <<outcome, current>>
           ELSE EndResponse(Failed)
    BY <1>6 DEF Dequeue, Reading
  <2>2. Tail(mq) \in Seq(Answer) /\ Head(mq) \in Answer
    <3> HIDE DEF Answer, mq
    <3> QED BY <1>4, <1>6, TailFacts
  <2>3. worker_response_mq' \in [Rank -> Seq(Answer)]
    <3>1. worker_response_mq \in [Rank -> Seq(Answer)]
      BY NamedTypes
    <3> HIDE DEF Answer, mq
    <3> QED BY <2>1, <2>2, <1>3, <3>1
  <2>4. CASE Head(mq).success
    <3>1. [rank |-> Reading, call |-> Head(mq).call] \in Got
      BY <2>2, <1>3 DEF Answer, Got
    <3>2. got' \in Seq(Got)
      <4> DEFINE x == [rank |-> Reading, call |-> Head(mq).call]
      <4>1. got \in Seq(Got) /\ got' = Append(got, x) /\ x \in Got
        BY <2>1, <2>4, <3>1, NamedTypes
      <4> HIDE DEF Got, x
      <4> QED BY <4>1, AppendFacts
    <3> QED BY <1>1, <1>2, <1>3, <2>1, <2>3, <2>4, <3>2, ReadTypes
  <2>5. CASE ~ Head(mq).success
    <3>1. EndResponse(Failed) /\ Failed \in Outcome
      BY <2>1, <2>5, NamedTypes
    <3> QED BY <1>1, <1>2, <1>3, <2>3, <3>1, ReadTypes
  <2> QED BY <2>4, <2>5
<1> QED BY <1>5, <1>6

(***************************************************************************)
(* The steps of a worker.                                                  *)
(***************************************************************************)
LEMMA WorkerTypes ==
    ASSUME TypeOK, UNCHANGED <<callVars, engineVars, monitorVars>>,
           rpc_broadcast_mq' \in [Rank -> Seq(Calls)],
           async_output_queue' \in [Rank -> Seq(Answer)],
           worker_response_mq' \in [Rank -> Seq(Answer)]
    PROVE  TypeOK'
BY DEF TypeOK, Calls, Answer, callVars, engineVars, monitorVars

\* A worker takes call c, and its answer, if it gives one, goes to the end of a queue.
Takes(w, c, success) ==
    LET output == [call |-> c, success |-> success]
    IN  /\ rpc_broadcast_mq[w] # <<>> /\ c = Head(rpc_broadcast_mq[w])
        /\ rpc_broadcast_mq' = [rpc_broadcast_mq EXCEPT ![w] = Tail(rpc_broadcast_mq[w])]
        /\ \/ /\ ~Answers(c, w)
              /\ UNCHANGED <<async_output_queue, worker_response_mq>>
           \/ /\ Answers(c, w) /\ AsyncScheduling
              /\ async_output_queue' =
                    [async_output_queue EXCEPT ![w] = Append(async_output_queue[w], output)]
              /\ UNCHANGED worker_response_mq
           \/ /\ Answers(c, w) /\ ~AsyncScheduling
              /\ worker_response_mq' =
                    [worker_response_mq EXCEPT ![w] = Append(worker_response_mq[w], output)]
              /\ UNCHANGED async_output_queue
        /\ UNCHANGED <<callVars, engineVars, monitorVars>>

(***************************************************************************)
(* worker_busy_loop is such a step, for the oldest call of the worker.      *)
(***************************************************************************)
LEMMA BusyLoopTakes ==
    ASSUME NEW w \in Rank, worker_busy_loop(w), TypeOK
    PROVE  \E c \in Calls, success \in BOOLEAN :
              Takes(w, c, success) /\ (success \/ calls[c].fails)
<1> DEFINE c == Head(rpc_broadcast_mq[w])
<1>1. PICK success \in {TRUE} \cup {~calls[c].fails} : handle_output(w, c, success)
  BY DEF worker_busy_loop
<1>2. c \in Calls
  <2>1. rpc_broadcast_mq[w] \in Seq(Calls) /\ rpc_broadcast_mq[w] # <<>>
    BY DEF TypeOK, worker_busy_loop
  <2> QED BY <2>1
<1>3. success \in BOOLEAN /\ (success \/ calls[c].fails)
  <2>1. calls[c].fails \in BOOLEAN
    BY <1>2, TypeFacts, ExecutorAssumption
  <2> QED BY <1>1, <2>1
<1>4. Takes(w, c, success)
  BY <1>1 DEF worker_busy_loop, handle_output, Takes
<1> HIDE DEF c
<1> QED BY <1>2, <1>3, <1>4

(***************************************************************************)
(* worker_busy_loop.                                                        *)
(***************************************************************************)
LEMMA BusyLoopTypes ==
    ASSUME TypeOK, NEW w \in Rank, NEW c \in Calls, NEW success \in BOOLEAN, Takes(w, c, success)
    PROVE  TypeOK'
<1> DEFINE output == [call |-> c, success |-> success]
<1>1. output \in Answer
  BY DEF Answer
<1>2. /\ async_output_queue \in [Rank -> Seq(Answer)]
      /\ worker_response_mq \in [Rank -> Seq(Answer)]
  BY NamedTypes
<1>3. /\ Append(async_output_queue[w], output) \in Seq(Answer)
      /\ Append(worker_response_mq[w], output) \in Seq(Answer)
  <2>1. async_output_queue[w] \in Seq(Answer) /\ worker_response_mq[w] \in Seq(Answer)
    BY <1>2
  <2> HIDE DEF Answer, output
  <2> QED BY <1>1, <2>1
<1>4. rpc_broadcast_mq' \in [Rank -> Seq(Calls)]
  <2>1. /\ rpc_broadcast_mq \in [Rank -> Seq(Calls)] /\ rpc_broadcast_mq[w] # <<>>
        /\ rpc_broadcast_mq' = [rpc_broadcast_mq EXCEPT ![w] = Tail(rpc_broadcast_mq[w])]
    BY DEF TypeOK, Takes
  <2>2. Tail(rpc_broadcast_mq[w]) \in Seq(Calls)
    BY <2>1
  <2> QED BY <2>1, <2>2
<1>5. /\ async_output_queue' \in [Rank -> Seq(Answer)]
      /\ worker_response_mq' \in [Rank -> Seq(Answer)]
  <2> HIDE DEF Answer
  <2> QED BY <1>2, <1>3 DEF Takes
<1> QED BY <1>4, <1>5, WorkerTypes DEF Takes

(***************************************************************************)
(* async_output_busy_loop.                                                  *)
(***************************************************************************)
LEMMA AsyncTypes ==
    ASSUME TypeOK, NEW w \in Rank, async_output_busy_loop(w)
    PROVE  TypeOK'
<1> DEFINE q == async_output_queue[w]
<1>1. /\ async_output_queue \in [Rank -> Seq(Answer)]
      /\ worker_response_mq \in [Rank -> Seq(Answer)]
  BY NamedTypes
<1>2. /\ q # <<>> /\ async_output_queue' = [async_output_queue EXCEPT ![w] = Tail(q)]
      /\ worker_response_mq' =
            [worker_response_mq EXCEPT ![w] = Append(worker_response_mq[w], Head(q))]
      /\ UNCHANGED <<callVars, engineVars, rpc_broadcast_mq, monitorVars>>
  BY DEF async_output_busy_loop
<1>3. q \in Seq(Answer) /\ worker_response_mq[w] \in Seq(Answer)
  BY <1>1
<1>4. Tail(q) \in Seq(Answer) /\ Append(worker_response_mq[w], Head(q)) \in Seq(Answer)
  <2> HIDE DEF Answer, q
  <2>1. Tail(q) \in Seq(Answer) /\ Head(q) \in Answer
    BY <1>2, <1>3, TailFacts
  <2> QED BY <1>3, <2>1, AppendFacts
<1>5. /\ async_output_queue' \in [Rank -> Seq(Answer)]
      /\ worker_response_mq' \in [Rank -> Seq(Answer)]
  <2> HIDE DEF Answer, q
  <2> QED BY <1>1, <1>2, <1>4
<1>6. rpc_broadcast_mq' \in [Rank -> Seq(Calls)]
  BY <1>2 DEF TypeOK
<1> QED BY <1>2, <1>5, <1>6, WorkerTypes

(***************************************************************************)
(* OutputThreadEnds.                                                        *)
(***************************************************************************)
LEMMA EndsTypes ==
    ASSUME TypeOK, NEW w \in Rank, OutputThreadEnds(w)
    PROVE  TypeOK'
<1> DEFINE q == async_output_queue[w]
<1>1. async_output_queue \in [Rank -> Seq(Answer)]
  BY NamedTypes
<1>2. /\ q # <<>> /\ async_output_queue' = [async_output_queue EXCEPT ![w] = Tail(q)]
      /\ sending' = [sending EXCEPT ![w] = FALSE]
      /\ UNCHANGED <<callVars, engineVars, rpc_broadcast_mq, worker_response_mq, alive, monitor,
                     deaths>>
  BY DEF OutputThreadEnds
<1>3. async_output_queue' \in [Rank -> Seq(Answer)]
  <2> HIDE DEF Answer
  <2>1. q \in Seq(Answer)
    BY <1>1
  <2> HIDE DEF q
  <2>2. Tail(q) \in Seq(Answer)
    BY <1>2, <2>1, TailFacts
  <2> QED BY <1>1, <1>2, <2>2
<1>4. sending' \in [Rank -> BOOLEAN]
  <2>1. sending \in [Rank -> BOOLEAN]
    BY DEF TypeOK
  <2> QED BY <1>2, <2>1
<1> QED BY <1>2, <1>3, <1>4 DEF TypeOK, Calls, Answer, callVars, engineVars

(***************************************************************************)
(* The steps of the monitor, a death, and those that only move the engine. *)
(***************************************************************************)
LEMMA OtherTypes ==
    ASSUME TypeOK, UNCHANGED <<callVars, current, got, workerVars>>,
           engine' \in {"idle", "waiting", "dead"} \/ engine' = engine,
           engine' = "registering" <=> engine = "registering",
           target' \in {0} \cup Calls,
           alive' \in [Rank -> BOOLEAN], sending' \in [Rank -> BOOLEAN],
           monitor' \in {"watching", "failed", "terminated", "closed", "done"},
           deaths' \in 0 .. MaxDeaths
    PROVE  TypeOK'
BY DEF TypeOK, Calls, callVars, workerVars

-----------------------------------------------------------------------------
(* The futures and the call that is waited for *)

Waiting == FuturesOK /\ TargetOK

(***************************************************************************)
(* A step that touches neither.                                            *)
(***************************************************************************)
LEMMA WaitingKept ==
    ASSUME Waiting, UNCHANGED <<callVars, engineVars>>
    PROVE  Waiting'
BY DEF Waiting, FuturesOK, TargetOK, Awaiting, Within, Calls, callVars, engineVars

(***************************************************************************)
(* collective_rpc.                                                          *)
(***************************************************************************)
LEMMA CallWaiting ==
    ASSUME TypeOK, Waiting, NEW kind \in Kinds, collective_rpc(kind)
    PROVE  Waiting'
<1>1. current = 0 /\ engine = "idle" /\ target = 0 /\ got = <<>>
  BY DEF collective_rpc, Waiting, TargetOK, Awaiting
<1>2. CASE is_failed
  <2>1. /\ engine' \in {"idle", "dead"}
        /\ UNCHANGED <<calls, outcome, futures_queue, target, current, got>>
    BY <1>2 DEF collective_rpc, AfterException, callVars
  <2> QED BY <1>1, <2>1 DEF Waiting, FuturesOK, TargetOK, Awaiting, Within, Calls
<1>3. CASE ~is_failed
  <2>1. /\ calls' = Append(calls, kind) /\ outcome' = Append(outcome, Pending)
        /\ engine' = "registering" /\ target' = Len(calls) + 1
        /\ UNCHANGED <<futures_queue, current, got>>
        /\ kind.non_block => Len(futures_queue) < MaxPending
    BY <1>3 DEF collective_rpc, MayCall
  <2>2. /\ Len(calls) \in Nat /\ Calls = 1 .. Len(calls) /\ Calls' = 1 .. (Len(calls) + 1)
        /\ Len(calls') = Len(calls) + 1
        /\ \A c \in Calls : outcome'[c] = outcome[c]
        /\ outcome'[Len(calls) + 1] = Pending /\ calls'[Len(calls) + 1] = kind
        /\ \A i \in DOMAIN futures_queue : futures_queue[i] \in Calls
    <3>1. calls \in Seq(Kinds)
      BY DEF TypeOK
    <3>2. /\ Len(calls) \in Nat /\ Len(calls') = Len(calls) + 1 /\ DOMAIN calls' = 1 .. (Len(calls) + 1)
          /\ calls'[Len(calls) + 1] = kind
      BY <2>1, <3>1, AppendFacts
    <3>3. outcome \in Seq(Outcome) /\ Len(outcome) = Len(calls) /\ Pending \in Outcome
      BY NamedTypes
    <3>4. /\ \A c \in 1 .. Len(calls) : outcome'[c] = outcome[c]
          /\ outcome'[Len(calls) + 1] = Pending
      <4> HIDE DEF Outcome
      <4> QED BY <2>1, <3>3, AppendFacts
    <3> QED BY <3>2, <3>4, TypeFacts DEF Calls
  <2>3. FuturesOK'
    <3>1. ASSUME NEW c \in Calls', outcome'[c] = Pending
          PROVE  Within(c, futures_queue') \/ c = current' \/ (Awaiting /\ c = target)'
      <4>1. CASE c = Len(calls) + 1
        BY <2>1, <4>1 DEF Awaiting
      <4>2. CASE c # Len(calls) + 1
        <5>1. c \in Calls /\ outcome[c] = Pending
          BY <2>2, <3>1, <4>2
        <5>2. Within(c, futures_queue)
          BY <1>1, <5>1 DEF Waiting, FuturesOK, Awaiting, Calls, TypeOK
        <5> QED BY <5>2, <2>1 DEF Within
      <4> QED BY <4>1, <4>2
    <3>2. \A i \in DOMAIN futures_queue : outcome'[futures_queue[i]] = Pending
      BY <2>2 DEF Waiting, FuturesOK
    <3>3. \A i, j \in DOMAIN futures_queue : i < j => futures_queue[i] < futures_queue[j]
      BY DEF Waiting, FuturesOK
    <3> QED BY <1>1, <2>1, <3>1, <3>2, <3>3 DEF FuturesOK
  <2>4. TargetOK'
    BY <1>1, <2>1, <2>2 DEF TargetOK, Awaiting
  <2> QED BY <2>3, <2>4 DEF Waiting
<1> QED BY <1>2, <1>3

(***************************************************************************)
(* Register.                                                                *)
(***************************************************************************)
LEMMA RegisterWaiting ==
    ASSUME TypeOK, Waiting, Register
    PROVE  Waiting'
<1>1. /\ engine = "registering" /\ target \in Calls /\ target = Len(calls) /\ current = 0
      /\ got = <<>> /\ outcome[target] = Pending
      /\ \A i \in DOMAIN futures_queue : futures_queue[i] < target
      /\ UNCHANGED <<calls, current, got>>
  BY DEF Register, Waiting, TargetOK, Awaiting, TypeOK
<1>2. /\ \A i \in DOMAIN futures_queue :
            /\ outcome[futures_queue[i]] = Pending /\ futures_queue[i] # target
      /\ \A i, j \in DOMAIN futures_queue : i < j => futures_queue[i] < futures_queue[j]
      /\ \A c \in Calls : outcome[c] = Pending => Within(c, futures_queue) \/ c = target
  <2>1. \A i \in DOMAIN futures_queue : futures_queue[i] \in Int
    BY TypeFacts
  <2> QED BY <1>1, <2>1, TypeFacts DEF Waiting, FuturesOK
<1>3. CASE closed /\ ~calls[target].all
  <2>1. /\ outcome' = [outcome EXCEPT ![target] = Failed]
        /\ engine' \in {"idle", "dead"} /\ target' = 0 /\ UNCHANGED futures_queue
    BY <1>3 DEF Register, AfterException
  <2>2. /\ \A c \in Calls : c # target => outcome'[c] = outcome[c]
        /\ outcome'[target] # Pending
    BY <1>1, <2>1, NamedTypes, TypeFacts
  <2>3. FuturesOK'
    BY <1>1, <1>2, <2>1, <2>2, TypeFacts DEF FuturesOK, Within, Calls
  <2>4. TargetOK'
    BY <1>1, <2>1 DEF TargetOK, Awaiting
  <2> QED BY <2>3, <2>4 DEF Waiting
<1>4. CASE ~(closed /\ ~calls[target].all) /\ calls[target].non_block
  <2>1. /\ futures_queue' = Append(futures_queue, target) /\ engine' = "idle" /\ target' = 0
        /\ UNCHANGED outcome
    BY <1>4 DEF Register
  <2> DEFINE q == futures_queue
  <2>2. /\ Len(q) \in Nat /\ DOMAIN q = 1 .. Len(q) /\ DOMAIN futures_queue' = 1 .. (Len(q) + 1)
        /\ \A i \in 1 .. Len(q) : futures_queue'[i] = q[i] /\ q[i] \in Calls
        /\ futures_queue'[Len(q) + 1] = target
    <3>1. q \in Seq(Calls)
      BY DEF TypeOK
    <3> QED BY <1>1, <2>1, <3>1, AppendFacts
  <2> HIDE DEF q
  <2>3. \A i, j \in DOMAIN futures_queue' : i < j => futures_queue'[i] < futures_queue'[j]
    BY <1>1, <1>2, <2>2 DEF q
  <2>4. \A i \in DOMAIN futures_queue' : outcome'[futures_queue'[i]] = Pending
    BY <1>1, <1>2, <2>1, <2>2 DEF q
  <2>5. \A c \in Calls : outcome[c] = Pending => Within(c, futures_queue')
    <3>1. \A c \in Calls : Within(c, futures_queue) => Within(c, futures_queue')
      BY <2>2 DEF Within, q
    <3>2. Within(target, futures_queue')
      BY <2>2 DEF Within
    <3> QED BY <1>2, <3>1, <3>2
  <2>6. FuturesOK'
    BY <1>1, <2>1, <2>3, <2>4, <2>5 DEF FuturesOK, Calls
  <2>7. TargetOK'
    BY <1>1, <2>1 DEF TargetOK, Awaiting
  <2> QED BY <2>6, <2>7 DEF Waiting
<1>5. CASE ~(closed /\ ~calls[target].all) /\ ~calls[target].non_block
  <2>1. UNCHANGED <<futures_queue, target, outcome>> /\ engine' = "waiting"
    BY <1>5 DEF Register
  <2>2. FuturesOK'
    BY <1>1, <1>2, <2>1 DEF FuturesOK, Within, Awaiting, Calls
  <2>3. TargetOK'
    BY <1>1, <1>5, <2>1, TypeFacts DEF TargetOK, Awaiting
  <2> QED BY <2>2, <2>3 DEF Waiting
<1> QED BY <1>3, <1>4, <1>5

(***************************************************************************)
(* A result that is asked for.                                              *)
(***************************************************************************)
LEMMA ResultWaiting ==
    ASSUME TypeOK, Waiting, NEW c \in Calls, result(c)
    PROVE  Waiting'
<1>1. /\ engine = "idle" /\ calls[c].non_block /\ engine' = "waiting" /\ target' = c
      /\ UNCHANGED <<calls, outcome, futures_queue, current, got>>
      /\ current = 0 /\ got = <<>> /\ c # 0
  BY TypeFacts DEF result, callVars, Waiting, TargetOK, Awaiting
<1>2. outcome[c] = Pending => Within(c, futures_queue)
  BY <1>1, TypeFacts DEF Waiting, FuturesOK, Awaiting
<1>3. FuturesOK'
  BY <1>1 DEF Waiting, FuturesOK, Within, Awaiting, Calls
<1>4. TargetOK'
  BY <1>1, <1>2 DEF TargetOK, Within, Awaiting
<1> QED BY <1>3, <1>4 DEF Waiting

(***************************************************************************)
(* Drain takes the oldest future.                                           *)
(***************************************************************************)
LEMMA DrainWaiting ==
    ASSUME TypeOK, Waiting, Drain
    PROVE  Waiting'
<1>1. /\ engine = "waiting" /\ current = 0 /\ target \in Calls /\ target # 0 /\ got = <<>>
      /\ UNCHANGED <<calls, outcome>>
  BY TypeFacts DEF Drain, Waiting, TargetOK, Awaiting, TypeOK
<1>2. CASE outcome[target] # Pending
  <2>1. engine' \in {"idle", "dead"} /\ target' = 0 /\ UNCHANGED <<futures_queue, current, got>>
    BY <1>2 DEF Drain, AfterException
  <2>2. FuturesOK'
    BY <1>1, <1>2, <2>1 DEF Waiting, FuturesOK, Within, Awaiting, Calls
  <2>3. TargetOK'
    BY <1>1, <2>1 DEF TargetOK, Awaiting
  <2> QED BY <2>2, <2>3 DEF Waiting
<1>3. CASE outcome[target] = Pending
  <2>1. /\ current' = NextResponse /\ got' = <<>> /\ UNCHANGED <<engine, target>>
        /\ futures_queue' = IF futures_queue # <<>> THEN Tail(futures_queue) ELSE futures_queue
    BY <1>3 DEF Drain
  <2>2. CASE futures_queue = <<>>
    <3>1. current' = target /\ futures_queue' = futures_queue
      BY <2>1, <2>2 DEF NextResponse
    <3>2. FuturesOK'
      <4>1. \A c \in Calls : outcome[c] = Pending => c = target
        BY <1>1, <2>2, TypeFacts DEF Waiting, FuturesOK, Within
      <4> QED BY <1>1, <2>1, <2>2, <3>1, <4>1 DEF FuturesOK, Awaiting, Calls
    <3>3. TargetOK'
      BY <1>1, <1>3, <2>1, <2>2, <3>1, TypeFacts DEF Waiting, TargetOK, Awaiting, Within
    <3> QED BY <3>2, <3>3 DEF Waiting
  <2>3. CASE futures_queue # <<>>
    <3> DEFINE q == futures_queue
    <3>1. q \in Seq(Calls) /\ q # <<>>
      BY <2>3 DEF TypeOK
    <3>2. /\ Len(q) \in Nat \ {0}
          /\ DOMAIN q = 1 .. Len(q) /\ DOMAIN Tail(q) = 1 .. (Len(q) - 1)
          /\ \A i \in 1 .. (Len(q) - 1) : Tail(q)[i] = q[i + 1]
          /\ \A i \in 1 .. Len(q) : q[i] \in Calls
          /\ Head(q) = q[1]
      BY <3>1, TailFacts
    <3>3. futures_queue' = Tail(q) /\ current' = q[1]
      BY <2>1, <2>3, <3>2 DEF NextResponse
    <3>4. /\ \A i \in DOMAIN q : outcome[q[i]] = Pending
          /\ \A i, j \in DOMAIN q : i < j => q[i] < q[j]
          /\ \A c \in Calls : outcome[c] = Pending => (\E i \in DOMAIN q : q[i] = c) \/ c = target
      BY <1>1, TypeFacts DEF Waiting, FuturesOK, Within
    <3>5. /\ calls[target].non_block => \E i \in DOMAIN q : q[i] = target
          /\ ~calls[target].non_block => \A i \in DOMAIN q : q[i] < target
      BY <1>1, <1>3 DEF Waiting, TargetOK, Within, Awaiting
    <3>6. Calls = 1 .. Len(calls) /\ Len(calls) \in Nat
      BY TypeFacts
    <3> HIDE DEF q
    <3>7. \A c : (\E i \in DOMAIN q : q[i] = c) => Within(c, futures_queue') \/ c = q[1]
      <4>1. ASSUME NEW i \in DOMAIN q, i # 1 PROVE Within(q[i], futures_queue')
        <5>1. i - 1 \in 1 .. (Len(q) - 1) /\ (i - 1) + 1 = i
          BY <4>1, <3>2
        <5> QED BY <5>1, <3>2, <3>3 DEF Within
      <4> QED BY <4>1
    <3>8. FuturesOK'
      <4>1. \A i \in DOMAIN futures_queue' :
               outcome'[futures_queue'[i]] = Pending /\ current' < futures_queue'[i]
        <5>1. ASSUME NEW i \in 1 .. (Len(q) - 1)
              PROVE  outcome[Tail(q)[i]] = Pending /\ q[1] < Tail(q)[i]
          <6>1. i + 1 \in DOMAIN q /\ 1 \in DOMAIN q /\ 1 < i + 1 /\ Tail(q)[i] = q[i + 1]
            BY <3>2
          <6> QED BY <6>1, <3>4
        <5> QED BY <1>1, <3>2, <3>3, <5>1
      <4>2. \A i, j \in DOMAIN futures_queue' : i < j => futures_queue'[i] < futures_queue'[j]
        BY <3>2, <3>3, <3>4
      <4>3. \A c \in Calls : outcome[c] = Pending => Within(c, futures_queue') \/ c = current' \/ c = target
        BY <3>3, <3>4, <3>7
      <4> QED BY <1>1, <2>1, <4>1, <4>2, <4>3 DEF FuturesOK, Awaiting, Calls
    <3>9. TargetOK'
      <4>1. q[1] <= target /\ q[1] # 0 /\ outcome[q[1]] = Pending
        <5>1. 1 \in DOMAIN q /\ q[1] \in Nat \ {0} /\ target \in Nat
          BY <1>1, <3>2, <3>6
        <5>2. \A i \in DOMAIN q : i = 1 \/ q[1] < q[i]
          BY <3>2, <3>4
        <5>3. \A i \in DOMAIN q : q[i] = target => q[1] <= target
          BY <5>1, <5>2
        <5> QED BY <5>1, <5>3, <3>4, <3>5
      <4>2. calls[target].non_block => Within(target, futures_queue') \/ target = q[1]
        BY <3>5, <3>7
      <4>3. ~calls[target].non_block => \A i \in DOMAIN futures_queue' : futures_queue'[i] < target
        BY <3>2, <3>3, <3>5
      <4> QED BY <1>1, <2>1, <3>3, <4>1, <4>2, <4>3 DEF TargetOK, Within, Awaiting
    <3> QED BY <3>8, <3>9 DEF Waiting
  <2> QED BY <2>2, <2>3
<1> QED BY <1>2, <1>3

(***************************************************************************)
(* The end of get_response: the call that was read is not pending.         *)
(***************************************************************************)
LEMMA EndWaiting ==
    ASSUME TypeOK, Waiting, engine = "waiting", current # 0, NEW o, o # Pending, EndResponse(o),
           UNCHANGED <<calls, futures_queue, engine, target>>
    PROVE  Waiting'
<1>1. /\ outcome' = [outcome EXCEPT ![current] = o] /\ current' = 0 /\ got' = <<>>
  BY DEF EndResponse
<1>2. current \in Calls /\ target \in Calls /\ target # 0
  BY DEF TypeOK, Waiting, TargetOK, Awaiting
<1>3. outcome'[current] # Pending /\ \A c \in Calls : c # current => outcome'[c] = outcome[c]
  BY <1>1, <1>2, TypeFacts
<1>4. \A i \in DOMAIN futures_queue : futures_queue[i] \in Calls /\ futures_queue[i] # current
  BY <1>2, TypeFacts DEF Waiting, FuturesOK
<1>5. FuturesOK'
  BY <1>1, <1>3, <1>4 DEF Waiting, FuturesOK, Within, Awaiting, Calls
<1>6. TargetOK'
  BY <1>1, <1>2, <1>3 DEF Waiting, TargetOK, Within, Awaiting
<1> QED BY <1>5, <1>6 DEF Waiting

(***************************************************************************)
(* CompleteResponse.                                                        *)
(***************************************************************************)
LEMMA CompleteWaiting ==
    ASSUME TypeOK, Waiting, CompleteResponse
    PROVE  Waiting'
<1>1. Returned(got) # Pending
  BY NamedTypes
<1> QED BY <1>1, EndWaiting DEF CompleteResponse

(***************************************************************************)
(* Dequeue.                                                                 *)
(***************************************************************************)
LEMMA DequeueWaiting ==
    ASSUME TypeOK, Waiting, Dequeue
    PROVE  Waiting'
<1>1. /\ current # 0 /\ engine = "waiting" /\ UNCHANGED <<calls, futures_queue, engine, target>>
      /\ EndResponse(Failed) \/ UNCHANGED <<outcome, current>>
  BY DEF Dequeue
<1>2. CASE EndResponse(Failed)
  BY <1>1, <1>2, NamedTypes, EndWaiting
<1>3. CASE UNCHANGED <<outcome, current>>
  BY <1>1, <1>3 DEF Waiting, FuturesOK, TargetOK, Awaiting, Within, Calls
<1> QED BY <1>1, <1>2, <1>3

(***************************************************************************)
(* A failure of the executor.                                               *)
(***************************************************************************)
LEMMA FailedWaiting ==
    ASSUME TypeOK, Waiting, ExecutorFailed
    PROVE  Waiting'
<1>1. /\ engine = "idle" /\ engine' = "dead"
      /\ UNCHANGED <<calls, outcome, futures_queue, target, current, got>>
  BY DEF ExecutorFailed, callVars
<1> QED BY <1>1 DEF Waiting, FuturesOK, TargetOK, Awaiting, Within, Calls

-----------------------------------------------------------------------------
(* The queues of the workers *)

(***************************************************************************)
(* What taking the first and adding a last element does to a queue of      *)
(* calls and to one of answers.                                            *)
(***************************************************************************)
LEMMA CallsTail ==
    ASSUME NEW q \in Seq(Nat), q # <<>>, Ascending(q)
    PROVE  /\ Ascending(Tail(q)) /\ Within(Head(q), q)
           /\ \A c : Within(c, Tail(q)) <=> Within(c, q) /\ c # Head(q)
           /\ \A c : Within(c, Tail(q)) => Head(q) < c
<1>1. /\ Len(q) \in Nat \ {0} /\ DOMAIN q = 1 .. Len(q) /\ DOMAIN Tail(q) = 1 .. (Len(q) - 1)
      /\ \A i \in 1 .. (Len(q) - 1) : Tail(q)[i] = q[i + 1]
      /\ \A i \in 1 .. Len(q) : q[i] \in Nat
      /\ Head(q) = q[1]
  BY TailFacts
<1>2. \A i, j \in 1 .. Len(q) : i < j => q[i] < q[j]
  BY <1>1 DEF Ascending
<1>3. Ascending(Tail(q))
  BY <1>1, <1>2 DEF Ascending
<1>4. \A i \in 1 .. (Len(q) - 1) : q[1] < Tail(q)[i]
  BY <1>1, <1>2
<1>5. ASSUME NEW c PROVE Within(c, Tail(q)) <=> Within(c, q) /\ c # Head(q)
  <2>1. ASSUME Within(c, Tail(q)) PROVE Within(c, q) /\ c # Head(q)
    <3>1. PICK i \in 1 .. (Len(q) - 1) : Tail(q)[i] = c
      BY <1>1, <2>1 DEF Within
    <3>2. i + 1 \in 1 .. Len(q) /\ q[i + 1] = c /\ q[1] < c /\ q[1] \in Nat /\ c \in Nat
      BY <1>1, <1>4, <3>1
    <3> QED BY <1>1, <3>2 DEF Within
  <2>2. ASSUME Within(c, q), c # Head(q) PROVE Within(c, Tail(q))
    <3>1. PICK i \in 1 .. Len(q) : q[i] = c
      BY <1>1, <2>2 DEF Within
    <3>2. i - 1 \in 1 .. (Len(q) - 1) /\ (i - 1) + 1 = i
      BY <1>1, <2>2, <3>1
    <3>3. Tail(q)[i - 1] = c
      BY <1>1, <3>1, <3>2
    <3> QED BY <1>1, <3>2, <3>3 DEF Within
  <2> QED BY <2>1, <2>2
<1>6. Within(Head(q), q)
  BY <1>1 DEF Within
<1>7. \A c : Within(c, Tail(q)) => Head(q) < c
  BY <1>1, <1>4 DEF Within
<1> QED BY <1>3, <1>5, <1>6, <1>7

(***************************************************************************)
(* One more call at the end of a queue of calls.                            *)
(***************************************************************************)
LEMMA CallsAppend ==
    ASSUME NEW q \in Seq(Nat), NEW n \in Nat, Ascending(q), \A c : Within(c, q) => c < n
    PROVE  /\ Ascending(Append(q, n))
           /\ \A c : Within(c, Append(q, n)) <=> Within(c, q) \/ c = n
<1>1. /\ Len(q) \in Nat /\ DOMAIN q = 1 .. Len(q) /\ DOMAIN Append(q, n) = 1 .. (Len(q) + 1)
      /\ \A i \in 1 .. Len(q) : Append(q, n)[i] = q[i] /\ q[i] \in Nat
      /\ Append(q, n)[Len(q) + 1] = n
  BY AppendFacts
<1>2. \A i \in 1 .. Len(q) : q[i] < n
  BY <1>1 DEF Within
<1>3. Ascending(Append(q, n))
  BY <1>1, <1>2 DEF Ascending
<1>4. \A c : Within(c, Append(q, n)) <=> Within(c, q) \/ c = n
  BY <1>1 DEF Within
<1> QED BY <1>3, <1>4

(***************************************************************************)
(* The first answer taken from a queue of answers.                          *)
(***************************************************************************)
LEMMA AnswersTail ==
    ASSUME NEW C \in SUBSET Nat, NEW q \in Seq([call : C, success : BOOLEAN]), q # <<>>,
           Increasing(q)
    PROVE  /\ Increasing(Tail(q)) /\ Answered(Head(q).call, q) /\ Head(q).call \in C
           /\ \A c : Answered(c, Tail(q)) <=> Answered(c, q) /\ c # Head(q).call
           /\ \A c : Answered(c, Tail(q)) => Head(q).call < c
<1> DEFINE S == [call : C, success : BOOLEAN]
<1>1. /\ Len(q) \in Nat \ {0} /\ DOMAIN q = 1 .. Len(q) /\ DOMAIN Tail(q) = 1 .. (Len(q) - 1)
      /\ \A i \in 1 .. (Len(q) - 1) : Tail(q)[i] = q[i + 1]
      /\ \A i \in 1 .. Len(q) : q[i] \in S
      /\ Head(q) = q[1]
  <2>1. q \in Seq(S)
    OBVIOUS
  <2> HIDE DEF S
  <2> QED BY <2>1, TailFacts
<1>2. \A i, j \in 1 .. Len(q) : i < j => q[i].call < q[j].call
  BY <1>1 DEF Increasing
<1>3. Increasing(Tail(q))
  BY <1>1, <1>2 DEF Increasing
<1>4. \A i \in 1 .. (Len(q) - 1) : q[1].call < Tail(q)[i].call
  BY <1>1, <1>2
<1>5. \A i \in 1 .. Len(q) : q[i].call \in C /\ q[i].call \in Nat
  BY <1>1
<1>6. ASSUME NEW c PROVE Answered(c, Tail(q)) <=> Answered(c, q) /\ c # Head(q).call
  <2>1. ASSUME Answered(c, Tail(q)) PROVE Answered(c, q) /\ c # Head(q).call
    <3>1. PICK i \in 1 .. (Len(q) - 1) : Tail(q)[i].call = c
      BY <1>1, <2>1 DEF Answered
    <3>2. i + 1 \in 1 .. Len(q) /\ 1 \in 1 .. Len(q)
      BY <1>1
    <3>3. q[i + 1].call = c /\ q[1].call < c /\ q[1].call \in Nat /\ c \in Nat
      BY <1>1, <1>4, <1>5, <3>1, <3>2
    <3> QED BY <1>1, <3>2, <3>3 DEF Answered
  <2>2. ASSUME Answered(c, q), c # Head(q).call PROVE Answered(c, Tail(q))
    <3>1. PICK i \in 1 .. Len(q) : q[i].call = c
      BY <1>1, <2>2 DEF Answered
    <3>2. i - 1 \in 1 .. (Len(q) - 1) /\ (i - 1) + 1 = i
      BY <1>1, <2>2, <3>1
    <3>3. Tail(q)[i - 1].call = c
      BY <1>1, <3>1, <3>2
    <3> QED BY <1>1, <3>2, <3>3 DEF Answered
  <2> QED BY <2>1, <2>2
<1>7. Answered(Head(q).call, q) /\ Head(q).call \in C
  BY <1>1, <1>5 DEF Answered
<1>8. \A c : Answered(c, Tail(q)) => Head(q).call < c
  BY <1>1, <1>4 DEF Answered
<1> QED BY <1>3, <1>6, <1>7, <1>8

(***************************************************************************)
(* One more answer at the end of a queue of answers.                        *)
(***************************************************************************)
LEMMA AnswersAppend ==
    ASSUME NEW C \in SUBSET Nat, NEW q \in Seq([call : C, success : BOOLEAN]),
           NEW x \in [call : C, success : BOOLEAN],
           Increasing(q), \A c : Answered(c, q) => c < x.call
    PROVE  /\ Increasing(Append(q, x))
           /\ \A c : Answered(c, Append(q, x)) <=> Answered(c, q) \/ c = x.call
<1> DEFINE S == [call : C, success : BOOLEAN]
<1>1. /\ Len(q) \in Nat /\ DOMAIN q = 1 .. Len(q) /\ DOMAIN Append(q, x) = 1 .. (Len(q) + 1)
      /\ \A i \in 1 .. Len(q) : Append(q, x)[i] = q[i] /\ q[i] \in S
      /\ Append(q, x)[Len(q) + 1] = x
  <2>1. q \in Seq(S) /\ x \in S
    OBVIOUS
  <2> HIDE DEF S
  <2> QED BY <2>1, AppendFacts
<1>2. \A i \in 1 .. Len(q) : q[i].call < x.call
  BY <1>1 DEF Answered
<1>3. Increasing(Append(q, x))
  BY <1>1, <1>2 DEF Increasing
<1>4. \A c : Answered(c, Append(q, x)) <=> Answered(c, q) \/ c = x.call
  BY <1>1 DEF Answered
<1> QED BY <1>3, <1>4

-----------------------------------------------------------------------------
(* Exceptions *)

(***************************************************************************)
(* The queues of answers after a step: as they were, without the first, or *)
(* with one more answer at the end.                                        *)
(***************************************************************************)
LEMMA MayRaiseTail ==
    ASSUME NEW q \in Seq(Answer), q # <<>>, MayRaise(q)
    PROVE  MayRaise(Tail(q)) /\ (Head(q).success \/ calls[Head(q).call].fails)
<1>1. /\ Len(q) \in Nat \ {0} /\ DOMAIN q = 1 .. Len(q) /\ DOMAIN Tail(q) = 1 .. (Len(q) - 1)
      /\ \A i \in 1 .. (Len(q) - 1) : Tail(q)[i] = q[i + 1]
      /\ Head(q) = q[1]
  <2> HIDE DEF Answer
  <2> QED BY TailFacts
<1>2. \A i \in 1 .. Len(q) : q[i].success \/ calls[q[i].call].fails
  BY <1>1 DEF MayRaise
<1>3. ASSUME NEW i \in 1 .. (Len(q) - 1)
      PROVE  Tail(q)[i].success \/ calls[Tail(q)[i].call].fails
  <2>1. i + 1 \in 1 .. Len(q) /\ Tail(q)[i] = q[i + 1]
    BY <1>1
  <2> QED BY <1>2, <2>1
<1>4. 1 \in 1 .. Len(q)
  BY <1>1
<1> QED BY <1>1, <1>2, <1>3, <1>4 DEF MayRaise

(***************************************************************************)
(* One more answer.                                                         *)
(***************************************************************************)
LEMMA MayRaiseAppend ==
    ASSUME NEW q \in Seq(Answer), MayRaise(q), NEW x \in Answer, x.success \/ calls[x.call].fails
    PROVE  MayRaise(Append(q, x))
<1>1. /\ Len(q) \in Nat /\ DOMAIN q = 1 .. Len(q) /\ DOMAIN Append(q, x) = 1 .. (Len(q) + 1)
      /\ \A i \in 1 .. Len(q) : Append(q, x)[i] = q[i]
      /\ Append(q, x)[Len(q) + 1] = x
  <2> HIDE DEF Answer
  <2> QED BY AppendFacts
<1> QED BY <1>1 DEF MayRaise

(***************************************************************************)
(* A step that adds no answer and takes none.                              *)
(***************************************************************************)
LEMMA ExceptionsKept ==
    ASSUME TypeOK, ExceptionsOK, UNCHANGED <<async_output_queue, worker_response_mq>>,
           \A c \in Calls : calls'[c] = calls[c]
    PROVE  ExceptionsOK'
<1>1. ASSUME NEW w \in Rank
      PROVE  /\ (MayRaise(worker_response_mq[w]))' /\ (MayRaise(async_output_queue[w]))'
             /\ ~AsyncScheduling => async_output_queue'[w] = <<>>
  <2>1. /\ \A i \in DOMAIN async_output_queue[w] : async_output_queue[w][i].call \in Calls
        /\ \A i \in DOMAIN worker_response_mq[w] : worker_response_mq[w][i].call \in Calls
    BY TypeFacts DEF Answer
  <2>2. /\ MayRaise(worker_response_mq[w]) /\ MayRaise(async_output_queue[w])
        /\ ~AsyncScheduling => async_output_queue[w] = <<>>
    BY DEF ExceptionsOK
  <2> QED BY <2>1, <2>2 DEF MayRaise
<1> QED BY <1>1 DEF ExceptionsOK

(***************************************************************************)
(* A worker takes a call.                                                   *)
(***************************************************************************)
LEMMA TakesExceptions ==
    ASSUME TypeOK, ExceptionsOK, NEW w \in Rank, NEW c \in Calls, NEW success \in BOOLEAN,
           Takes(w, c, success), success \/ calls[c].fails
    PROVE  ExceptionsOK'
<1> DEFINE output == [call |-> c, success |-> success]
<1>1. output \in Answer /\ (output.success \/ calls[output.call].fails)
  BY DEF Answer
<1>2. /\ async_output_queue \in [Rank -> Seq(Answer)]
      /\ worker_response_mq \in [Rank -> Seq(Answer)]
  BY NamedTypes
<1>3. /\ MayRaise(Append(async_output_queue[w], output))
      /\ MayRaise(Append(worker_response_mq[w], output))
  <2>1. async_output_queue[w] \in Seq(Answer) /\ worker_response_mq[w] \in Seq(Answer)
    BY <1>2
  <2>2. MayRaise(async_output_queue[w]) /\ MayRaise(worker_response_mq[w])
    BY DEF ExceptionsOK
  <2> HIDE DEF output
  <2> QED BY <1>1, <2>1, <2>2, MayRaiseAppend
<1> HIDE DEF output
<1>4. calls' = calls
  BY DEF Takes, callVars
<1>5. ASSUME NEW v \in Rank
      PROVE  /\ MayRaise(worker_response_mq'[v]) /\ MayRaise(async_output_queue'[v])
             /\ ~AsyncScheduling => async_output_queue'[v] = <<>>
  <2>1. /\ MayRaise(worker_response_mq[v]) /\ MayRaise(async_output_queue[v])
        /\ ~AsyncScheduling => async_output_queue[v] = <<>>
    BY DEF ExceptionsOK
  <2>2. \/ UNCHANGED <<async_output_queue, worker_response_mq>>
        \/ /\ AsyncScheduling /\ UNCHANGED worker_response_mq
           /\ async_output_queue' =
                 [async_output_queue EXCEPT ![w] = Append(async_output_queue[w], output)]
        \/ /\ UNCHANGED async_output_queue
           /\ worker_response_mq' =
                 [worker_response_mq EXCEPT ![w] = Append(worker_response_mq[w], output)]
    BY DEF Takes, output
  <2> QED BY <1>2, <1>3, <2>1, <2>2
<1> QED BY <1>4, <1>5 DEF ExceptionsOK, MayRaise

(***************************************************************************)
(* The worker's thread sends an answer.                                     *)
(***************************************************************************)
LEMMA AsyncExceptions ==
    ASSUME TypeOK, ExceptionsOK, NEW w \in Rank, async_output_busy_loop(w)
    PROVE  ExceptionsOK'
<1> DEFINE q == async_output_queue[w]
<1>1. /\ async_output_queue \in [Rank -> Seq(Answer)]
      /\ worker_response_mq \in [Rank -> Seq(Answer)]
  BY NamedTypes
<1>2. /\ q # <<>> /\ async_output_queue' = [async_output_queue EXCEPT ![w] = Tail(q)]
      /\ worker_response_mq' =
            [worker_response_mq EXCEPT ![w] = Append(worker_response_mq[w], Head(q))]
      /\ calls' = calls
  BY DEF async_output_busy_loop, callVars
<1>3. q \in Seq(Answer) /\ worker_response_mq[w] \in Seq(Answer)
  BY <1>1
<1>4. /\ MayRaise(q) /\ MayRaise(worker_response_mq[w]) /\ AsyncScheduling
  BY <1>2 DEF ExceptionsOK
<1>5. MayRaise(Tail(q)) /\ MayRaise(Append(worker_response_mq[w], Head(q)))
  <2> HIDE DEF q
  <2>1. Head(q) \in Answer
    <3> HIDE DEF Answer
    <3> QED BY <1>2, <1>3, TailFacts
  <2> QED BY <1>2, <1>3, <1>4, <2>1, MayRaiseTail, MayRaiseAppend
<1> HIDE DEF q
<1>6. ASSUME NEW v \in Rank
      PROVE  MayRaise(worker_response_mq'[v]) /\ MayRaise(async_output_queue'[v])
  <2>1. MayRaise(worker_response_mq[v]) /\ MayRaise(async_output_queue[v])
    BY DEF ExceptionsOK
  <2> QED BY <1>1, <1>2, <1>5, <2>1
<1> QED BY <1>2, <1>4, <1>6 DEF ExceptionsOK, MayRaise

(***************************************************************************)
(* The worker's thread ends, and an answer is lost.                         *)
(***************************************************************************)
LEMMA EndsExceptions ==
    ASSUME TypeOK, ExceptionsOK, NEW w \in Rank, OutputThreadEnds(w)
    PROVE  ExceptionsOK' /\ AsyncScheduling
<1> DEFINE q == async_output_queue[w]
<1>1. async_output_queue \in [Rank -> Seq(Answer)]
  BY NamedTypes
<1>2. /\ q # <<>> /\ async_output_queue' = [async_output_queue EXCEPT ![w] = Tail(q)]
      /\ worker_response_mq' = worker_response_mq /\ calls' = calls
  BY DEF OutputThreadEnds, callVars
<1>3. q \in Seq(Answer) /\ MayRaise(q) /\ AsyncScheduling
  BY <1>1, <1>2 DEF ExceptionsOK
<1>4. MayRaise(Tail(q))
  <2> HIDE DEF q
  <2> QED BY <1>2, <1>3, MayRaiseTail
<1> HIDE DEF q
<1>5. ASSUME NEW v \in Rank
      PROVE  MayRaise(worker_response_mq'[v]) /\ MayRaise(async_output_queue'[v])
  <2>1. MayRaise(worker_response_mq[v]) /\ MayRaise(async_output_queue[v])
    BY DEF ExceptionsOK
  <2> QED BY <1>1, <1>2, <1>4, <2>1
<1> QED BY <1>2, <1>3, <1>5 DEF ExceptionsOK, MayRaise

(***************************************************************************)
(* Dequeue takes the first answer of one queue.                             *)
(***************************************************************************)
LEMMA DequeueExceptions ==
    ASSUME TypeOK, ExceptionsOK, Dequeue
    PROVE  ExceptionsOK'
<1> DEFINE mq == worker_response_mq[Reading]
<1>1. Reading \in Rank
  BY DequeueTypes
<1>2. calls' = calls /\ UNCHANGED async_output_queue
  BY DEF Dequeue
<1>3. \/ UNCHANGED worker_response_mq
      \/ mq # <<>> /\ worker_response_mq' = [worker_response_mq EXCEPT ![Reading] = Tail(mq)]
  BY DEF Dequeue, Reading
<1>4. CASE UNCHANGED worker_response_mq
  BY <1>2, <1>4, ExceptionsKept
<1>5. CASE mq # <<>> /\ worker_response_mq' = [worker_response_mq EXCEPT ![Reading] = Tail(mq)]
  <2>1. worker_response_mq \in [Rank -> Seq(Answer)]
    BY NamedTypes
  <2>2. mq \in Seq(Answer) /\ MayRaise(mq)
    BY <1>1, <2>1 DEF ExceptionsOK
  <2>3. MayRaise(Tail(mq))
    BY <1>5, <2>2, MayRaiseTail
  <2> HIDE DEF mq
  <2>4. ASSUME NEW v \in Rank PROVE MayRaise(worker_response_mq'[v])
    BY <1>1, <1>5, <2>1, <2>3 DEF ExceptionsOK
  <2> QED BY <1>2, <2>4 DEF ExceptionsOK, MayRaise
<1> QED BY <1>3, <1>4, <1>5

-----------------------------------------------------------------------------
(* Answers and calls *)

(***************************************************************************)
(* The workers asked are different, and are those that answer.             *)
(***************************************************************************)
LEMMA AnsweringFacts ==
    ASSUME TypeOK, NEW c \in Calls
    PROVE  /\ Len(Answering(c)) \in Nat /\ DOMAIN Answering(c) = 1 .. Len(Answering(c))
           /\ \A i \in DOMAIN Answering(c) : Answering(c)[i] \in Rank /\ Answers(c, Answering(c)[i])
           /\ \A i, j \in DOMAIN Answering(c) : Answering(c)[i] = Answering(c)[j] => i = j
           /\ \A w \in Rank : Answers(c, w) => \E i \in DOMAIN Answering(c) : Answering(c)[i] = w
<1>1. Rank = 1 .. WorldSize /\ WorldSize \in Nat /\ OutputRank \in Rank
  BY ExecutorAssumption DEF Rank
<1>2. CASE calls[c].all
  <2>1. Answering(c) = [i \in Rank |-> i]
    BY <1>2 DEF Answering
  <2>2. Answering(c) \in Seq(Rank)
    BY NamedTypes
  <2>3. Len(Answering(c)) \in Nat /\ DOMAIN Answering(c) = 1 .. Len(Answering(c))
    BY <2>2
  <2>4. DOMAIN Answering(c) = Rank /\ \A i \in Rank : Answering(c)[i] = i
    BY <2>1
  <2> QED BY <1>2, <2>3, <2>4 DEF Answers
<1>3. CASE ~calls[c].all
  <2>1. Answering(c) = <<OutputRank>>
    BY <1>3 DEF Answering
  <2>2. Len(Answering(c)) = 1 /\ DOMAIN Answering(c) = 1 .. 1 /\ Answering(c)[1] = OutputRank
    BY <2>1
  <2> QED BY <1>1, <1>3, <2>2 DEF Answers
<1> QED BY <1>2, <1>3

(***************************************************************************)
(* A worker whose queues do not change, if the calls that wait for it do   *)
(* not.                                                                    *)
(***************************************************************************)
LEMMA AlignedKept ==
    ASSUME NEW w \in Rank, Aligned(w), calls' = calls, sending'[w] = sending[w],
           rpc_broadcast_mq'[w] = rpc_broadcast_mq[w],
           async_output_queue'[w] = async_output_queue[w],
           worker_response_mq'[w] = worker_response_mq[w],
           \A c \in Calls : Answers(c, w) => (Awaited(c, w)' <=> Awaited(c, w))
    PROVE  Aligned(w)'
<1>1. Calls' = Calls
  BY DEF Calls
<1>2. ASSUME NEW c
      PROVE  /\ InResponse(c, w)' <=> InResponse(c, w)
             /\ InAsync(c, w)' <=> InAsync(c, w)
             /\ InBroadcast(c, w)' <=> InBroadcast(c, w)
  BY DEF InResponse, InAsync, InBroadcast
<1>3. QueuesInOrder(w)'
  <2>1. QueuesInOrder(w)
    BY DEF Aligned
  <2> QED BY <1>1, <1>2, <2>1 DEF QueuesInOrder
<1>4. UnderWayIsAwaited(w)'
  <2>1. ASSUME NEW c \in Calls PROVE (Answers(c, w)' <=> Answers(c, w)) /\ (UnderWay(c, w)' <=> UnderWay(c, w))
    BY <1>2 DEF Answers, UnderWay
  <2>2. UnderWayIsAwaited(w)
    BY DEF Aligned
  <2>3. ASSUME NEW c \in Calls PROVE Missing(c, w)' <=> Missing(c, w)
    BY <1>1, <1>2 DEF Missing
  <2> QED BY <1>1, <1>2, <2>1, <2>2, <2>3 DEF UnderWayIsAwaited
<1> QED BY <1>3, <1>4 DEF Aligned

(***************************************************************************)
(* The results, if none is added.                                          *)
(***************************************************************************)
LEMMA ResultsKept ==
    ASSUME AnswersMatch, monitor' = monitor,
           \A c \in Calls' : outcome'[c].status = "returned" =>
              c \in Calls /\ calls'[c] = calls[c] /\ outcome'[c] = outcome[c]
    PROVE  AnswersMatch'
<1>1. ASSUME NEW c \in Calls, calls'[c] = calls[c]
      PROVE  (OwnAnswers(c))' = OwnAnswers(c)
  BY <1>1 DEF OwnAnswers, Answering
<1>2. is_failed' <=> is_failed
  BY DEF is_failed
<1> QED BY <1>1, <1>2 DEF AnswersMatch

(***************************************************************************)
(* A step that leaves calls and answers alone.                             *)
(***************************************************************************)
LEMMA MatchedKept ==
    ASSUME Matched, UNCHANGED <<calls, response_mqs, outcome, current, got, workerVars>>,
           monitor' = monitor, sending' = sending
    PROVE  Matched'
<1>1. ReadOK' /\ AnswersMatch'
  <2>1. AnswersMatch'
    BY ResultsKept DEF Matched, Calls
  <2> QED BY <2>1 DEF Matched, ReadOK, Answering
<1>2. ASSUME NEW w \in Rank PROVE Aligned(w)'
  <2>1. \A c \in Calls : Awaited(c, w)' <=> Awaited(c, w)
    BY DEF Awaited, IsRead
  <2> QED BY <2>1, AlignedKept DEF Matched, workerVars
<1> QED BY <1>1, <1>2 DEF Matched

(***************************************************************************)
(* collective_rpc: the new call is the last one everywhere.                *)
(***************************************************************************)
LEMMA CallMatched ==
    ASSUME TypeOK, Waiting, Matched, NEW kind \in Kinds, collective_rpc(kind), ~is_failed
    PROVE  Matched'
<1> DEFINE n == Len(calls) + 1
<1>1. /\ calls' = Append(calls, kind) /\ outcome' = Append(outcome, Pending)
      /\ rpc_broadcast_mq' = [w \in Rank |-> Append(rpc_broadcast_mq[w], n)]
      /\ engine = "idle"
      /\ UNCHANGED <<response_mqs, async_output_queue, worker_response_mq, current, got, monitor,
                     sending>>
  BY DEF collective_rpc, monitorVars
<1>2. current = 0
  BY <1>1 DEF Waiting, TargetOK
<1>3. /\ Len(calls) \in Nat /\ Calls = 1 .. Len(calls) /\ n \in Nat /\ n # 0
      /\ Calls' = 1 .. n /\ n \notin Calls /\ Calls' = Calls \cup {n}
      /\ \A c \in Calls : c < n /\ calls'[c] = calls[c]
  <2>1. calls \in Seq(Kinds)
    BY DEF TypeOK
  <2>2. /\ Len(calls) \in Nat /\ DOMAIN calls' = 1 .. (Len(calls) + 1)
        /\ \A i \in 1 .. Len(calls) : calls'[i] = calls[i]
    BY <1>1, <2>1, AppendFacts
  <2> QED BY <2>2, TypeFacts DEF Calls
<1>4. /\ \A c \in Calls : outcome'[c] = outcome[c]
      /\ outcome'[n] = Pending
  <2>1. outcome \in Seq(Outcome) /\ Len(outcome) = Len(calls) /\ Pending \in Outcome
    BY NamedTypes
  <2> HIDE DEF Outcome
  <2> QED BY <1>1, <1>3, <2>1, AppendFacts
<1> HIDE DEF n
<1>5. \A c \in Calls, w \in Rank : /\ Answers(c, w)' <=> Answers(c, w)
                                   /\ (Answering(c))' = Answering(c)
  BY <1>3 DEF Answers, Answering
<1>6. ReadOK'
  <2>1. Len(response_mqs) = Len(calls)
    BY <1>1 DEF TypeOK
  <2>2. DOMAIN response_mqs = Calls
    BY <2>1, TypeFacts
  <2> QED BY <1>1, <1>2, <1>5, <2>2, <1>3 DEF Matched, ReadOK, Answering
<1>7. AnswersMatch'
  <2>1. ASSUME NEW c \in Calls', outcome'[c].status = "returned" PROVE c \in Calls
    BY <1>3, <1>4, <2>1 DEF Pending
  <2> QED BY <1>1, <1>3, <1>4, <2>1, ResultsKept DEF Matched
<1>8. ASSUME NEW w \in Rank PROVE Aligned(w)'
  <2> DEFINE q == rpc_broadcast_mq[w]
  <2>1. q \in Seq(Calls) /\ q \in Seq(Nat)
    <3>1. q \in Seq(Calls) /\ Calls \subseteq Nat
      BY <1>3 DEF TypeOK
    <3> QED BY <3>1, SeqWider
  <2>2. \A c : Within(c, q) => c \in Calls
    BY <2>1 DEF Within
  <2>3. QueuesInOrder(w) /\ UnderWayIsAwaited(w)
    BY DEF Matched, Aligned
  <2>4. rpc_broadcast_mq'[w] = Append(q, n)
    BY <1>1
  <2>5. /\ Ascending(Append(q, n))
        /\ \A c : Within(c, Append(q, n)) <=> Within(c, q) \/ c = n
    <3>1. Ascending(q)
      BY <2>3 DEF QueuesInOrder
    <3>2. \A c : Within(c, q) => c < n
      BY <2>2, <1>3
    <3> HIDE DEF q
    <3> QED BY <1>3, <2>1, <3>1, <3>2, CallsAppend
  <2>6. ASSUME NEW c
        PROVE  /\ InBroadcast(c, w)' <=> (InBroadcast(c, w) \/ c = n)
               /\ InResponse(c, w)' <=> InResponse(c, w)
               /\ InAsync(c, w)' <=> InAsync(c, w)
               /\ InResponse(c, w) => c \in Calls
               /\ InAsync(c, w) => c \in Calls
    <3>1. /\ \A i \in DOMAIN worker_response_mq[w] : worker_response_mq[w][i].call \in Calls
          /\ \A i \in DOMAIN async_output_queue[w] : async_output_queue[w][i].call \in Calls
      BY TypeFacts DEF Answer
    <3> QED BY <1>1, <2>4, <2>5, <3>1 DEF InBroadcast, InResponse, InAsync, Answered
  <2>7. QueuesInOrder(w)'
    <3>1. /\ Increasing(worker_response_mq'[w]) /\ Increasing(async_output_queue'[w])
          /\ Ascending(rpc_broadcast_mq'[w])
      BY <1>1, <2>3, <2>4, <2>5 DEF QueuesInOrder
    <3>2. ASSUME NEW c \in Calls', NEW d \in Calls'
          PROVE  /\ InResponse(c, w)' /\ InAsync(d, w)' => c < d
                 /\ InResponse(c, w)' /\ InBroadcast(d, w)' => c < d
                 /\ InAsync(c, w)' /\ InBroadcast(d, w)' => c < d
      BY <1>3, <2>3, <2>6 DEF QueuesInOrder
    <3> QED BY <3>1, <3>2 DEF QueuesInOrder
  <2>8. UnderWayIsAwaited(w)'
    <3>1. ASSUME NEW c \in Calls'
          PROVE  /\ (InResponse(c, w)' \/ InAsync(c, w)') => Answers(c, w)'
                 /\ (Answers(c, w)' /\ UnderWay(c, w)') => Awaited(c, w)'
                 /\ (Answers(c, w)' /\ Awaited(c, w)') => (UnderWay(c, w)' \/ Missing(c, w)')
      <4>1. CASE c \in Calls
        <5>1. c # n /\ (Awaited(c, w)' <=> Awaited(c, w))
          BY <1>1, <1>3, <1>4, <4>1 DEF Awaited, IsRead
        <5>2. Missing(c, w)' <=> Missing(c, w)
          BY <1>1, <1>3, <2>6 DEF Missing
        <5>3. UnderWay(c, w)' <=> UnderWay(c, w)
          BY <2>6, <5>1 DEF UnderWay
        <5> QED BY <1>5, <2>3, <2>6, <4>1, <5>1, <5>2, <5>3 DEF UnderWayIsAwaited
      <4>2. CASE c = n
        <5>1. Awaited(c, w)'
          BY <1>1, <1>2, <1>3, <1>4, <4>2 DEF Awaited, IsRead
        <5> QED BY <1>3, <2>6, <4>2, <5>1 DEF UnderWay
      <4> QED BY <1>3, <4>1, <4>2
    <3> QED BY <3>1 DEF UnderWayIsAwaited
  <2> QED BY <2>7, <2>8 DEF Aligned
<1> QED BY <1>6, <1>7, <1>8 DEF Matched

(***************************************************************************)
(* Register, while nothing is closed.                                      *)
(***************************************************************************)
LEMMA RegisterMatched ==
    ASSUME TypeOK, Waiting, Matched, Register, ~is_failed
    PROVE  Matched'
<1>1. ~closed
  BY DEF is_failed, closed
<1>2. /\ response_mqs' = Append(response_mqs, Answering(target)) /\ engine = "registering"
      /\ UNCHANGED <<calls, outcome, current, got, workerVars, monitor, sending>>
  BY <1>1 DEF Register, monitorVars
<1>3. target = Len(calls) /\ current = 0 /\ target \in Calls /\ Len(response_mqs) = Len(calls) - 1
  BY <1>2 DEF Waiting, TargetOK, TypeOK, Awaiting
<1>4. \A c \in DOMAIN response_mqs' : response_mqs'[c] = Answering(c)
  <2>1. response_mqs \in Seq(Seq(Rank)) /\ Answering(target) \in Seq(Rank) /\ Len(calls) \in Nat
    BY <1>3, NamedTypes, TypeFacts DEF TypeOK
  <2>2. /\ DOMAIN response_mqs = 1 .. Len(response_mqs) /\ Len(response_mqs) \in Nat
        /\ DOMAIN response_mqs' = 1 .. (Len(response_mqs) + 1)
        /\ \A i \in 1 .. Len(response_mqs) : response_mqs'[i] = response_mqs[i]
        /\ response_mqs'[Len(response_mqs) + 1] = Answering(target)
    <3> HIDE DEF Answering
    <3> QED BY <1>2, <2>1, AppendFacts
  <2>3. \A c \in DOMAIN response_mqs : response_mqs[c] = Answering(c)
    BY DEF Matched, ReadOK
  <2>4. Len(response_mqs) + 1 = target
    BY <1>3, <2>1
  <2> HIDE DEF Answering
  <2> QED BY <2>2, <2>3, <2>4
<1>5. ReadOK'
  BY <1>2, <1>3, <1>4 DEF ReadOK, Answering
<1>6. AnswersMatch'
  BY <1>2, ResultsKept DEF Matched, Calls
<1>7. ASSUME NEW w \in Rank PROVE Aligned(w)'
  <2>1. \A c \in Calls : Awaited(c, w)' <=> Awaited(c, w)
    BY <1>2 DEF Awaited, IsRead
  <2> QED BY <1>2, <2>1, AlignedKept DEF Matched, workerVars
<1> QED BY <1>5, <1>6, <1>7 DEF Matched

(***************************************************************************)
(* Drain: nothing of the next call has been read yet.                      *)
(***************************************************************************)
LEMMA DrainMatched ==
    ASSUME TypeOK, Waiting, Matched, Drain
    PROVE  Matched'
<1>1. /\ current = 0 /\ got = <<>>
      /\ UNCHANGED <<calls, response_mqs, outcome, workerVars, monitor, sending>>
      /\ (current' = current \/ current' \in Calls) /\ got' = <<>>
  <2>1. current' = current \/ current' \in Calls
    <3>1. current' = current \/ current' = NextResponse
      BY DEF Drain
    <3>2. NextResponse \in Calls
      <4>1. target \in Calls /\ futures_queue \in Seq(Calls)
        BY DEF TypeOK, Waiting, TargetOK, Drain, Awaiting
      <4> QED BY <4>1 DEF NextResponse
    <3> QED BY <3>1, <3>2
  <2> QED BY <2>1 DEF Drain, Waiting, TargetOK, monitorVars
<1>2. ReadOK'
  <2>1. current' # 0 => Len(Answering(current')) \in Nat
    BY <1>1, AnsweringFacts
  <2>2. (Answering(current))' = Answering(current')
    BY <1>1 DEF Answering
  <2>3. \A c \in DOMAIN response_mqs : response_mqs'[c] = Answering(c)
    BY <1>1 DEF Matched, ReadOK
  <2> QED BY <1>1, <2>1, <2>2, <2>3 DEF ReadOK, Answering
<1>3. AnswersMatch'
  BY <1>1, ResultsKept DEF Matched, Calls
<1>4. ASSUME NEW w \in Rank PROVE Aligned(w)'
  <2>1. \A c \in Calls : Awaited(c, w)' <=> Awaited(c, w)
    BY <1>1 DEF Awaited, IsRead
  <2> QED BY <1>1, <2>1, AlignedKept DEF Matched, workerVars
<1> QED BY <1>2, <1>3, <1>4 DEF Matched

(***************************************************************************)
(* The end of get_response: all the workers that answer have been read.    *)
(***************************************************************************)
LEMMA CompleteMatched ==
    ASSUME TypeOK, Waiting, Matched, CompleteResponse, ~is_failed
    PROVE  Matched'
<1>1. /\ engine = "waiting" /\ current # 0 /\ Len(got) = Len(response_mqs[current])
      /\ outcome' = [outcome EXCEPT ![current] = Returned(got)] /\ current' = 0 /\ got' = <<>>
      /\ UNCHANGED <<calls, response_mqs, workerVars, monitor, sending>>
  BY DEF CompleteResponse, EndResponse, monitorVars
<1>2. current \in Calls /\ current \in DOMAIN response_mqs /\ 0 \notin Calls
  <2>1. current \in Calls /\ Len(response_mqs) = Len(calls)
    BY <1>1 DEF TypeOK
  <2> QED BY <2>1, TypeFacts
<1>3. /\ outcome'[current] = Returned(got)
      /\ \A c \in Calls : c # current => outcome'[c] = outcome[c]
  BY <1>1, <1>2, TypeFacts
<1>4. /\ Len(got) = Len(Answering(current)) /\ DOMAIN got = DOMAIN Answering(current)
      /\ \A i \in DOMAIN got : got[i] = [rank |-> Answering(current)[i], call |-> current]
  <2>1. /\ response_mqs[current] = Answering(current)
        /\ \A i \in DOMAIN got : got[i] = [rank |-> Answering(current)[i], call |-> current]
    BY <1>1, <1>2 DEF Matched, ReadOK
  <2>2. DOMAIN Answering(current) = 1 .. Len(Answering(current))
    BY <1>2, AnsweringFacts
  <2> QED BY <1>1, <2>1, <2>2, TypeFacts
<1>5. ReadOK'
  BY <1>1 DEF Matched, ReadOK, Answering
<1>6. AnswersMatch'
  <2>1. got = OwnAnswers(current)
    <3>1. got \in Seq(Got)
      BY NamedTypes
    <3>2. got = [i \in DOMAIN got |-> got[i]]
      BY <3>1
    <3> QED BY <1>4, <3>2 DEF OwnAnswers
  <2>2. ASSUME NEW c \in Calls PROVE (OwnAnswers(c))' = OwnAnswers(c)
    BY <1>1 DEF OwnAnswers, Answering
  <2>3. outcome'[current].answers = got
    BY <1>3 DEF Returned
  <2>4. \A c \in Calls : c # current /\ outcome[c].status = "returned"
                           => outcome[c].answers = OwnAnswers(c)
    BY DEF Matched, AnswersMatch
  <2>5. \A c \in Calls : outcome'[c].status = "returned" => outcome'[c].answers = OwnAnswers(c)
    BY <1>3, <2>1, <2>3, <2>4
  <2> QED BY <1>1, <2>2, <2>5 DEF AnswersMatch, Calls
<1>7. ASSUME NEW w \in Rank PROVE Aligned(w)'
  <2>1. ASSUME NEW c \in Calls, Answers(c, w) PROVE Awaited(c, w)' <=> Awaited(c, w)
    <3>1. CASE c = current
      <4>1. PICK i \in DOMAIN Answering(c) : Answering(c)[i] = w
        BY <2>1, AnsweringFacts
      <4>2. i \in DOMAIN got /\ got[i].rank = w
        BY <1>4, <3>1, <4>1
      <4>3. IsRead(c, w)
        BY <3>1, <4>2 DEF IsRead
      <4>4. outcome'[c] # Pending
        BY <1>3, <3>1, NamedTypes
      <4> QED BY <4>3, <4>4 DEF Awaited
    <3>2. CASE c # current
      BY <1>1, <1>2, <1>3, <3>2 DEF Awaited, IsRead
    <3> QED BY <3>1, <3>2
  <2> QED BY <1>1, <2>1, AlignedKept DEF Matched, workerVars
<1> QED BY <1>5, <1>6, <1>7 DEF Matched

(***************************************************************************)
(* The first answer in a queue is the one to the call that is read: that   *)
(* call waits for this worker, so that its answer is under way, or missing *)
(* behind what was sent; whatever comes first belongs to a call at most as *)
(* late, and is awaited as well; and the call that is read is the oldest   *)
(* of those that are pending.                                              *)
(***************************************************************************)
LEMMA HeadIsCurrent ==
    ASSUME TypeOK, Waiting, Matched, Dequeue, worker_response_mq[Reading] # <<>>
    PROVE  /\ Head(worker_response_mq[Reading]).call = current
           /\ current \in Calls /\ Reading = Answering(current)[Len(got) + 1]
           /\ Len(got) + 1 \in DOMAIN Answering(current)
           /\ Answers(current, Reading) /\ ~ IsRead(current, Reading)
<1> DEFINE w == Reading
           mq == worker_response_mq[w]
           h == Head(mq).call
<1>1. /\ engine = "waiting" /\ current # 0 /\ Len(got) < Len(response_mqs[current])
  BY DEF Dequeue
<1>2. current \in Calls /\ current \in DOMAIN response_mqs /\ Calls \subseteq Nat
  <2>1. current \in Calls /\ Len(response_mqs) = Len(calls)
    BY <1>1 DEF TypeOK
  <2> QED BY <2>1, TypeFacts
<1>3. /\ response_mqs[current] = Answering(current) /\ w = Answering(current)[Len(got) + 1]
      /\ \A i \in DOMAIN got : got[i] = [rank |-> Answering(current)[i], call |-> current]
  BY <1>1, <1>2 DEF Matched, ReadOK, Reading
<1>4. /\ Len(got) \in Nat /\ DOMAIN got = 1 .. Len(got)
      /\ Len(got) + 1 \in DOMAIN Answering(current)
      /\ \A i \in DOMAIN got : i \in DOMAIN Answering(current) /\ i # Len(got) + 1
  <2>1. /\ Len(got) \in Nat /\ DOMAIN got = 1 .. Len(got)
        /\ Len(Answering(current)) \in Nat
        /\ DOMAIN Answering(current) = 1 .. Len(Answering(current))
    BY <1>2, TypeFacts, AnsweringFacts
  <2>2. Len(got) < Len(Answering(current))
    BY <1>1, <1>3
  <2> QED BY <2>1, <2>2
<1>5. w \in Rank /\ Answers(current, w) /\ ~ IsRead(current, w)
  <2>1. w \in Rank /\ Answers(current, w)
    BY <1>2, <1>3, <1>4, AnsweringFacts
  <2>2. \A i \in DOMAIN got : got[i].rank # w
    BY <1>2, <1>3, <1>4, AnsweringFacts
  <2> QED BY <2>1, <2>2 DEF IsRead
<1>6. outcome[current] = Pending /\ current <= target /\ target \in Calls
  BY <1>1, <1>2 DEF Waiting, TargetOK, TypeOK, Awaiting
<1> HIDE DEF w
<1>7. QueuesInOrder(w) /\ UnderWayIsAwaited(w)
  BY <1>5 DEF Matched, Aligned
<1>8. UnderWay(current, w) \/ Missing(current, w)
  BY <1>2, <1>5, <1>6, <1>7 DEF UnderWayIsAwaited, Awaited
<1>9. /\ Answered(h, mq) /\ h \in Calls
      /\ \A c : Answered(c, Tail(mq)) <=> Answered(c, mq) /\ c # h
      /\ \A c : Answered(c, Tail(mq)) => h < c
  <2>1. mq \in Seq([call : Calls, success : BOOLEAN]) /\ mq # <<>> /\ Increasing(mq)
    BY <1>5, <1>7 DEF TypeOK, QueuesInOrder, w
  <2>2. Calls \in SUBSET Nat
    BY <1>2
  <2> HIDE DEF mq
  <2> QED BY <2>1, <2>2, AnswersTail
<1>10. outcome[h] = Pending
  <2>1. InResponse(h, w)
    BY <1>9 DEF InResponse
  <2> HIDE DEF h
  <2> QED BY <1>7, <1>9, <2>1 DEF UnderWayIsAwaited, UnderWay, Awaited
<1> HIDE DEF h, mq
<1>11. current <= h
  <2>1. Within(h, futures_queue) \/ h = current \/ h = target
    BY <1>9, <1>10 DEF Waiting, FuturesOK
  <2>2. ASSUME Within(h, futures_queue) PROVE current < h
    BY <1>1, <2>2 DEF Waiting, FuturesOK, Within
  <2> QED BY <1>2, <1>6, <1>9, <2>1, <2>2
<1>12. h = current \/ h < current
  <2>1. InResponse(h, w)
    BY <1>9 DEF InResponse, mq
  <2>2. CASE InResponse(current, w)
    <3>1. Answered(current, mq)
      BY <2>2 DEF InResponse, mq
    <3> QED BY <1>9, <3>1
  <2>3. CASE InAsync(current, w) \/ InBroadcast(current, w)
    BY <1>2, <1>7, <1>9, <2>1, <2>3 DEF QueuesInOrder
  <2>4. CASE Missing(current, w)
    BY <1>9, <2>1, <2>4 DEF Missing
  <2> QED BY <1>8, <2>2, <2>3, <2>4 DEF UnderWay
<1>13. h = current
  BY <1>2, <1>9, <1>11, <1>12
<1> QED BY <1>2, <1>3, <1>4, <1>5, <1>13 DEF h, mq, w

(***************************************************************************)
(* The queue that was read.                                                *)
(***************************************************************************)
LEMMA ReadAligned ==
    ASSUME TypeOK, NEW w \in Rank, Aligned(w), calls' = calls, sending'[w] = sending[w],
           worker_response_mq[w] # <<>>, NEW h, h = Head(worker_response_mq[w]).call,
           rpc_broadcast_mq'[w] = rpc_broadcast_mq[w],
           async_output_queue'[w] = async_output_queue[w],
           worker_response_mq'[w] = Tail(worker_response_mq[w]),
           \A c \in Calls : c # h /\ Answers(c, w) => (Awaited(c, w)' <=> Awaited(c, w)),
           ~ Awaited(h, w)'
    PROVE  Aligned(w)'
<1> DEFINE mq == worker_response_mq[w]
<1>1. Calls' = Calls /\ Calls \in SUBSET Nat
  BY TypeFacts DEF Calls
<1>2. QueuesInOrder(w) /\ UnderWayIsAwaited(w)
  BY DEF Aligned
<1>3. /\ Increasing(Tail(mq)) /\ Answered(h, mq) /\ h \in Calls
      /\ \A c : Answered(c, Tail(mq)) <=> Answered(c, mq) /\ c # h
      /\ \A c : Answered(c, Tail(mq)) => h < c
  <2>1. mq \in Seq([call : Calls, success : BOOLEAN]) /\ mq # <<>> /\ Increasing(mq)
    BY <1>2 DEF TypeOK, QueuesInOrder
  <2>2. h = Head(mq).call
    OBVIOUS
  <2> HIDE DEF mq
  <2>3. /\ Increasing(Tail(mq)) /\ Answered(Head(mq).call, mq) /\ Head(mq).call \in Calls
        /\ \A c : Answered(c, Tail(mq)) <=> Answered(c, mq) /\ c # Head(mq).call
        /\ \A c : Answered(c, Tail(mq)) => Head(mq).call < c
    BY <1>1, <2>1, AnswersTail
  <2> QED BY <2>2, <2>3
<1>4. ASSUME NEW c
      PROVE  /\ InResponse(c, w)' <=> (InResponse(c, w) /\ c # h)
             /\ InAsync(c, w)' <=> InAsync(c, w)
             /\ InBroadcast(c, w)' <=> InBroadcast(c, w)
  BY <1>3 DEF InResponse, InAsync, InBroadcast
<1>5. InResponse(h, w) /\ ~ Awaited(h, w)'
  BY <1>3 DEF InResponse
<1>6. \A c \in Calls : c # h /\ Answers(c, w) => (Awaited(c, w)' <=> Awaited(c, w))
  OBVIOUS
<1>7. Increasing(worker_response_mq'[w]) /\ Increasing(async_output_queue'[w])
      /\ Ascending(rpc_broadcast_mq'[w])
  BY <1>2, <1>3 DEF QueuesInOrder
<1> HIDE DEF mq
<1>8. QueuesInOrder(w)'
  <2>1. ASSUME NEW c \in Calls, NEW d \in Calls
        PROVE  /\ InResponse(c, w)' /\ InAsync(d, w)' => c < d
               /\ InResponse(c, w)' /\ InBroadcast(d, w)' => c < d
               /\ InAsync(c, w)' /\ InBroadcast(d, w)' => c < d
    BY <1>2, <1>4 DEF QueuesInOrder
  <2> QED BY <1>1, <1>7, <2>1 DEF QueuesInOrder
<1>9. UnderWayIsAwaited(w)'
  <2>1. ASSUME NEW c \in Calls
        PROVE  /\ (InResponse(c, w)' \/ InAsync(c, w)') => Answers(c, w)'
               /\ (Answers(c, w)' /\ UnderWay(c, w)') => Awaited(c, w)'
               /\ (Answers(c, w)' /\ Awaited(c, w)') => (UnderWay(c, w)' \/ Missing(c, w)')
    <3>1. Answers(c, w)' <=> Answers(c, w)
      BY DEF Answers
    <3>2. c = h => ~ InAsync(c, w) /\ ~ InBroadcast(c, w)
      <4>1. c \in Nat
        BY <1>1
      <4> QED BY <1>2, <1>3, <1>5, <4>1 DEF QueuesInOrder
    <3>3. /\ (InResponse(c, w) \/ InAsync(c, w)) => Answers(c, w)
          /\ (Answers(c, w) /\ UnderWay(c, w)) => Awaited(c, w)
          /\ (Answers(c, w) /\ Awaited(c, w)) => (UnderWay(c, w) \/ Missing(c, w))
      BY <1>2 DEF UnderWayIsAwaited
    <3>6. Missing(c, w) => Missing(c, w)'
      BY <1>1, <1>4 DEF Missing
    <3>4. CASE c = h
      <4>1. ~ UnderWay(c, w)'
        BY <1>4, <3>2, <3>4 DEF UnderWay
      <4>2. ~ Awaited(c, w)'
        BY <1>5, <3>4
      <4> QED BY <3>1, <3>3, <1>4, <4>1, <4>2
    <3>5. CASE c # h
      <4>1. UnderWay(c, w)' <=> UnderWay(c, w)
        BY <1>4, <3>5 DEF UnderWay
      <4> QED BY <1>4, <1>6, <3>1, <3>3, <3>5, <3>6, <4>1
    <3> QED BY <3>4, <3>5
  <2> QED BY <1>1, <2>1 DEF UnderWayIsAwaited
<1> QED BY <1>8, <1>9 DEF Aligned

(***************************************************************************)
(* One dequeue, unless it leaves the answers of other workers behind.      *)
(***************************************************************************)
LEMMA DequeueMatched ==
    ASSUME TypeOK, Waiting, Matched, Dequeue, ~ is_failed, ~ LeftOver'
    PROVE  Matched'
<1> DEFINE mq == worker_response_mq[Reading]
<1>1. /\ current # 0 /\ engine = "waiting" /\ Reading \in Rank
      /\ UNCHANGED <<calls, response_mqs, rpc_broadcast_mq, async_output_queue, monitor, sending>>
  BY DequeueTypes DEF Dequeue, monitorVars
<1>2. PICK k \in Calls : k = current
  BY <1>1 DEF TypeOK
<1>3. Calls \subseteq Nat \ {0} /\ DOMAIN outcome = Calls /\ Calls' = Calls
  BY <1>1, TypeFacts DEF Calls
<1>4. ASSUME EndResponse(Failed)
      PROVE  /\ ~ calls[k].all /\ ~ calls[k].expires
             /\ outcome'[k] = Failed /\ \A c \in Calls : c # k => outcome'[c] = outcome[c]
             /\ current' = 0 /\ got' = <<>>
  <2>1. /\ outcome' = [outcome EXCEPT ![k] = Failed] /\ current' = 0 /\ got' = <<>>
    BY <1>2, <1>4 DEF EndResponse
  <2>2. outcome'[k] = Failed /\ \A c \in Calls : c # k => outcome'[c] = outcome[c]
    BY <1>3, <2>1
  <2>3. ~ calls'[k].all /\ ~ calls'[k].expires
    BY <1>3, <2>2 DEF LeftOver
  <2> QED BY <1>1, <2>1, <2>2, <2>3
<1>5. mq # <<>>
  <2>1. SUFFICES ASSUME mq = <<>> PROVE FALSE
    OBVIOUS
  <2>2. (closed \/ calls[current].expires) /\ EndResponse(Failed)
    BY <2>1 DEF Dequeue, Reading
  <2>3. ~ closed
    BY DEF is_failed, closed
  <2> QED BY <1>2, <1>4, <2>2, <2>3
<1>6. /\ worker_response_mq' = [worker_response_mq EXCEPT ![Reading] = Tail(mq)]
      /\ IF Head(mq).success
         THEN /\ got' = Append(got, [rank |-> Reading, call |-> Head(mq).call])
              /\ UNCHANGED <<outcome, current>>
         ELSE EndResponse(Failed)
  BY <1>5 DEF Dequeue, Reading
<1>7. PICK v \in Rank : v = Reading
  BY <1>1
<1>8. /\ Head(mq).call = k /\ v = Answering(k)[Len(got) + 1]
      /\ Len(got) + 1 \in DOMAIN Answering(k)
      /\ Answers(k, v) /\ ~ IsRead(k, v)
  BY <1>2, <1>5, <1>7, HeadIsCurrent
<1>9. worker_response_mq'[v] = Tail(worker_response_mq[v])
      /\ \A w \in Rank : w # v => worker_response_mq'[w] = worker_response_mq[w]
  <2>1. worker_response_mq \in [Rank -> Seq(Answer)]
    BY NamedTypes
  <2> QED BY <1>6, <1>7, <2>1
<1>10. CASE Head(mq).success
  <2> DEFINE x == [rank |-> v, call |-> k]
  <2>1. got' = Append(got, x) /\ UNCHANGED <<outcome, current>>
    BY <1>6, <1>7, <1>8, <1>10
  <2>2. /\ Len(got) \in Nat /\ DOMAIN got = 1 .. Len(got) /\ DOMAIN got' = 1 .. (Len(got) + 1)
        /\ Len(got') = Len(got) + 1
        /\ \A i \in 1 .. Len(got) : got'[i] = got[i]
        /\ got'[Len(got) + 1] = x
    <3>1. got \in Seq(Got) /\ x \in Got
      BY NamedTypes DEF Got
    <3> HIDE DEF Got, x
    <3> QED BY <2>1, <3>1, AppendFacts
  <2>3. ASSUME NEW w \in Rank, NEW c \in Calls
        PROVE  IsRead(c, w)' <=> IsRead(c, w) \/ (c = k /\ w = v)
    BY <1>2, <2>1, <2>2 DEF IsRead
  <2>4. ASSUME NEW w \in Rank, NEW c \in Calls, c # k \/ w # v
        PROVE  Awaited(c, w)' <=> Awaited(c, w)
    BY <2>1, <2>3, <2>4 DEF Awaited
  <2>5. ~ Awaited(k, v)'
    BY <2>3 DEF Awaited
  <2>6. ReadOK'
    <3>1. (Answering(k))' = Answering(k)
      BY <1>1 DEF Answering
    <3>2. /\ Len(got) + 1 <= Len(Answering(k))
      BY <1>8, AnsweringFacts
    <3>3. \A i \in DOMAIN got' : got'[i] = [rank |-> Answering(k)[i], call |-> k]
      <4>1. \A i \in DOMAIN got : got[i] = [rank |-> Answering(k)[i], call |-> k]
        BY <1>1, <1>2 DEF Matched, ReadOK
      <4> HIDE DEF Answering
      <4> QED BY <1>8, <2>2, <4>1
    <3>4. \A c \in DOMAIN response_mqs : response_mqs[c] = Answering(c)
      BY DEF Matched, ReadOK
    <3>5. \A c \in DOMAIN response_mqs' : response_mqs'[c] = (Answering(c))'
      BY <1>1, <3>4 DEF Answering
    <3>6. current' = k
      BY <1>2, <2>1
    <3>7. (Answering(current))' = Answering(k)
      BY <3>1, <3>6 DEF Answering
    <3> QED BY <2>2, <3>2, <3>3, <3>5, <3>6, <3>7 DEF ReadOK
  <2>7. AnswersMatch'
    BY <1>1, <1>3, <2>1, ResultsKept DEF Matched
  <2>8. ASSUME NEW w \in Rank PROVE Aligned(w)'
    <3>1. Aligned(w)
      BY DEF Matched
    <3>2. CASE w # v
      BY <1>1, <1>9, <2>4, <3>1, <3>2, AlignedKept
    <3>3. CASE w = v
      <4>1. Head(worker_response_mq[w]).call = k /\ worker_response_mq[w] # <<>>
        BY <1>5, <1>7, <1>8, <3>3
      <4> QED BY <1>1, <1>9, <2>4, <2>5, <3>1, <3>3, <4>1, ReadAligned
    <3> QED BY <3>2, <3>3
  <2> QED BY <2>6, <2>7, <2>8 DEF Matched
<1>11. CASE ~ Head(mq).success
  <2>1. /\ ~ calls[k].all /\ outcome'[k] = Failed
        /\ \A c \in Calls : c # k => outcome'[c] = outcome[c]
        /\ current' = 0 /\ got' = <<>>
    BY <1>4, <1>6, <1>11
  <2>2. ASSUME NEW w \in Rank, NEW c \in Calls, c # k
        PROVE  Awaited(c, w)' <=> Awaited(c, w)
    BY <1>2, <1>3, <2>1, <2>2 DEF Awaited, IsRead
  <2>3. ASSUME NEW w \in Rank PROVE ~ Awaited(k, w)'
    BY <2>1, NamedTypes DEF Awaited
  <2>4. \A w \in Rank : Answers(k, w) => w = v
    BY <1>8, <2>1 DEF Answers
  <2>5. ReadOK'
    BY <1>1, <2>1 DEF Matched, ReadOK, Answering
  <2>6. AnswersMatch'
    <3>1. outcome'[k].status # "returned"
      BY <2>1 DEF Failed
    <3> QED BY <1>1, <1>3, <2>1, <3>1, ResultsKept DEF Matched
  <2>7. ASSUME NEW w \in Rank PROVE Aligned(w)'
    <3>1. Aligned(w)
      BY DEF Matched
    <3>2. CASE w # v
      <4>1. ~ Answers(k, w)
        BY <2>4, <3>2
      <4> QED BY <1>1, <1>9, <2>2, <3>1, <3>2, <4>1, AlignedKept
    <3>3. CASE w = v
      <4>1. Head(worker_response_mq[w]).call = k /\ worker_response_mq[w] # <<>>
        BY <1>5, <1>7, <1>8, <3>3
      <4> QED BY <1>1, <1>9, <2>2, <2>3, <3>1, <3>3, <4>1, ReadAligned
    <3> QED BY <3>2, <3>3
  <2> QED BY <2>5, <2>6, <2>7 DEF Matched
<1> QED BY <1>10, <1>11

(***************************************************************************)
(* A worker takes a call: from then on its answer is under way, in the     *)
(* queue behind the calls it took before.                                  *)
(***************************************************************************)
LEMMA TakesMatched ==
    ASSUME TypeOK, ExceptionsOK, SendingOK, Matched, NEW w \in Rank, NEW k \in Calls,
           NEW success \in BOOLEAN, Takes(w, k, success)
    PROVE  Matched'
<1> DEFINE b == rpc_broadcast_mq[w]
           a == async_output_queue[w]
           r == worker_response_mq[w]
           x == [call |-> k, success |-> success]
           S == [call : Calls, success : BOOLEAN]
<1>1. UNCHANGED <<calls, response_mqs, outcome, current, got, monitor, sending>>
  BY DEF Takes, callVars, engineVars, monitorVars
<1>2. Calls' = Calls /\ Calls \in SUBSET Nat
  BY <1>1, TypeFacts DEF Calls
<1>3. \A v \in Rank, c \in Calls : Awaited(c, v)' <=> Awaited(c, v)
  BY <1>1 DEF Awaited, IsRead
<1>4. /\ rpc_broadcast_mq \in [Rank -> Seq(Calls)] /\ async_output_queue \in [Rank -> Seq(S)]
      /\ worker_response_mq \in [Rank -> Seq(S)]
  BY DEF TypeOK
<1>5. /\ b # <<>> /\ k = Head(b) /\ rpc_broadcast_mq' = [rpc_broadcast_mq EXCEPT ![w] = Tail(b)]
      /\ \/ ~ Answers(k, w) /\ UNCHANGED <<async_output_queue, worker_response_mq>>
         \/ /\ Answers(k, w) /\ UNCHANGED worker_response_mq
            /\ async_output_queue' = [async_output_queue EXCEPT ![w] = Append(a, x)]
         \/ /\ Answers(k, w) /\ UNCHANGED async_output_queue /\ ~ AsyncScheduling
            /\ worker_response_mq' = [worker_response_mq EXCEPT ![w] = Append(r, x)]
  BY DEF Takes
<1>6. ReadOK' /\ AnswersMatch'
  <2>1. AnswersMatch'
    BY <1>1, ResultsKept DEF Matched, Calls
  <2> QED BY <1>1, <2>1 DEF Matched, ReadOK, Answering
<1>7. ASSUME NEW v \in Rank, v # w PROVE Aligned(v)'
  <2>1. /\ rpc_broadcast_mq'[v] = rpc_broadcast_mq[v]
        /\ async_output_queue'[v] = async_output_queue[v]
        /\ worker_response_mq'[v] = worker_response_mq[v]
    <3> HIDE DEF S, a, r, x, b
    <3> QED BY <1>4, <1>5, <1>7
  <2> QED BY <1>1, <1>3, <2>1, AlignedKept DEF Matched
<1>8. Aligned(w)'
  <2>1. QueuesInOrder(w) /\ UnderWayIsAwaited(w)
    BY DEF Matched, Aligned
  <2>2. /\ Ascending(Tail(b)) /\ Within(k, b)
        /\ \A c : Within(c, Tail(b)) <=> Within(c, b) /\ c # k
        /\ \A c : Within(c, Tail(b)) => k < c
    <3>1. b \in Seq(Calls) /\ Ascending(b)
      BY <1>4, <2>1 DEF QueuesInOrder
    <3>2. b \in Seq(Nat)
      <4>1. Calls \subseteq Nat
        BY <1>2
      <4> HIDE DEF b
      <4> QED BY <3>1, <4>1, SeqWider
    <3> HIDE DEF b
    <3> QED BY <1>5, <3>1, <3>2, CallsTail
  <2>3. a \in Seq(S) /\ r \in Seq(S) /\ x \in S /\ x.call = k
    BY <1>4
  <2>4. /\ \A c : Answered(c, a) => c \in Calls /\ c < k
        /\ \A c : Answered(c, r) => c \in Calls /\ c < k
    <3>1. /\ \A c : Answered(c, a) => c \in Calls
          /\ \A c : Answered(c, r) => c \in Calls
      BY TypeFacts DEF Answered, Answer
    <3>2. InBroadcast(k, w)
      BY <2>2 DEF InBroadcast
    <3> QED BY <2>1, <3>1, <3>2 DEF QueuesInOrder, InAsync, InResponse
  <2>5. /\ Increasing(Append(a, x)) /\ Increasing(Append(r, x))
        /\ \A c : Answered(c, Append(a, x)) <=> Answered(c, a) \/ c = k
        /\ \A c : Answered(c, Append(r, x)) <=> Answered(c, r) \/ c = k
    <3>1. Increasing(a) /\ Increasing(r)
      BY <2>1 DEF QueuesInOrder
    <3> HIDE DEF a, r, x
    <3> QED BY <1>2, <2>3, <2>4, <3>1, AnswersAppend
  <2>6. rpc_broadcast_mq'[w] = Tail(b)
    <3> HIDE DEF b
    <3> QED BY <1>4, <1>5
  <2>7. ASSUME NEW c
        PROVE  InBroadcast(c, w)' <=> (InBroadcast(c, w) /\ c # k)
    BY <2>2, <2>6 DEF InBroadcast
  <2>8. \/ /\ ~ Answers(k, w)
           /\ async_output_queue'[w] = a /\ worker_response_mq'[w] = r
        \/ /\ Answers(k, w) /\ worker_response_mq'[w] = r
           /\ async_output_queue'[w] = Append(a, x)
        \/ /\ Answers(k, w) /\ async_output_queue'[w] = a /\ a = <<>> /\ sending[w]
           /\ worker_response_mq'[w] = Append(r, x)
    <3>1. ~ AsyncScheduling => (a = <<>> /\ sending[w])
      BY DEF ExceptionsOK, SendingOK
    <3> HIDE DEF x, S
    <3> QED BY <1>4, <1>5, <3>1
  <2>9. Increasing(worker_response_mq'[w]) /\ Increasing(async_output_queue'[w])
        /\ Ascending(rpc_broadcast_mq'[w])
    <3>1. Increasing(a) /\ Increasing(r)
      BY <2>1 DEF QueuesInOrder
    <3> HIDE DEF a, r, x, b
    <3> QED BY <2>2, <2>5, <2>6, <2>8, <3>1
  <2>10. \/ /\ ~ Answers(k, w)
            /\ \A c : /\ InResponse(c, w)' <=> InResponse(c, w)
                      /\ InAsync(c, w)' <=> InAsync(c, w)
         \/ /\ Answers(k, w)
            /\ \A c : /\ InResponse(c, w)' <=> InResponse(c, w)
                      /\ InAsync(c, w)' <=> (InAsync(c, w) \/ c = k)
         \/ /\ Answers(k, w) /\ sending[w]
            /\ \A c : /\ InResponse(c, w)' <=> (InResponse(c, w) \/ c = k)
                      /\ ~ InAsync(c, w)' /\ ~ InAsync(c, w)
    <3>1. \A c : a = <<>> => ~ Answered(c, a)
      BY DEF Answered
    <3>2. \A c : /\ InResponse(c, w)' <=> Answered(c, worker_response_mq'[w])
                 /\ InAsync(c, w)' <=> Answered(c, async_output_queue'[w])
                 /\ InResponse(c, w) <=> Answered(c, r)
                 /\ InAsync(c, w) <=> Answered(c, a)
      BY DEF InResponse, InAsync
    <3> HIDE DEF a, r, x
    <3>3. CASE ~ Answers(k, w) /\ async_output_queue'[w] = a /\ worker_response_mq'[w] = r
      BY <3>2, <3>3
    <3>4. CASE /\ Answers(k, w) /\ worker_response_mq'[w] = r
               /\ async_output_queue'[w] = Append(a, x)
      BY <2>5, <3>2, <3>4
    <3>5. CASE /\ Answers(k, w) /\ async_output_queue'[w] = a /\ a = <<>> /\ sending[w]
               /\ worker_response_mq'[w] = Append(r, x)
      BY <2>5, <3>1, <3>2, <3>5
    <3> QED BY <2>8, <3>3, <3>4, <3>5
  <2>11. ASSUME NEW c PROVE /\ InAsync(c, w) => c \in Calls /\ c < k
                            /\ InResponse(c, w) => c \in Calls /\ c < k
                            /\ InBroadcast(c, w)' => k < c
    BY <2>2, <2>4, <2>6 DEF InAsync, InResponse, InBroadcast
  <2>12. k \in Nat /\ InBroadcast(k, w)
    BY <1>2, <2>2 DEF InBroadcast
  <2>13. QueuesInOrder(w)'
    <3>1. ASSUME NEW c \in Calls, NEW d \in Calls
          PROVE  /\ InResponse(c, w)' /\ InAsync(d, w)' => c < d
                 /\ InResponse(c, w)' /\ InBroadcast(d, w)' => c < d
                 /\ InAsync(c, w)' /\ InBroadcast(d, w)' => c < d
      <4>1. /\ InResponse(c, w) /\ InAsync(d, w) => c < d
            /\ InResponse(c, w) /\ InBroadcast(d, w) => c < d
            /\ InAsync(c, w) /\ InBroadcast(d, w) => c < d
            /\ InBroadcast(d, w)' => InBroadcast(d, w)
        BY <2>1, <2>7 DEF QueuesInOrder
      <4>2. c \in Nat /\ d \in Nat
        BY <1>2
      <4>3. InResponse(c, w)' /\ InAsync(d, w)' => c < d
        <5>1. CASE ~ Answers(k, w) \/ d # k
          BY <2>10, <2>11, <4>1, <4>2, <5>1
        <5>2. CASE d = k
          BY <2>10, <2>11, <4>2, <5>2
        <5> QED BY <5>1, <5>2
      <4>4. /\ InResponse(c, w)' => c <= k
            /\ InAsync(c, w)' => c <= k
        BY <2>10, <2>11, <2>12, <4>2
      <4>5. InBroadcast(d, w)' => k < d
        BY <2>11
      <4> QED BY <2>12, <4>2, <4>3, <4>4, <4>5
    <3> QED BY <1>2, <2>9, <3>1 DEF QueuesInOrder
  <2>14. UnderWayIsAwaited(w)'
    <3>1. ASSUME NEW c \in Calls
          PROVE  /\ (InResponse(c, w)' \/ InAsync(c, w)') => Answers(c, w)'
                 /\ (Answers(c, w)' /\ UnderWay(c, w)') => Awaited(c, w)'
                 /\ (Answers(c, w)' /\ Awaited(c, w)') => (UnderWay(c, w)' \/ Missing(c, w)')
      <4>1. Answers(c, w)' <=> Answers(c, w)
        BY <1>1 DEF Answers
      <4>2. /\ (InResponse(c, w) \/ InAsync(c, w)) => Answers(c, w)
            /\ (Answers(c, w) /\ UnderWay(c, w)) => Awaited(c, w)
            /\ (Answers(c, w) /\ Awaited(c, w)) => (UnderWay(c, w) \/ Missing(c, w))
        BY <2>1 DEF UnderWayIsAwaited
      <4>3. Answers(c, w) => (UnderWay(c, w)' <=> UnderWay(c, w))
        BY <2>7, <2>10, <2>12 DEF UnderWay
      <4>4. (InResponse(c, w)' \/ InAsync(c, w)') => Answers(c, w)
        BY <2>10, <4>2
      <4>5. Missing(c, w) => Missing(c, w)'
        BY <1>1, <1>2, <2>10 DEF Missing
      <4> QED BY <1>3, <4>1, <4>2, <4>3, <4>4, <4>5
    <3> QED BY <1>2, <3>1 DEF UnderWayIsAwaited
  <2> QED BY <2>13, <2>14 DEF Aligned
<1> QED BY <1>6, <1>7, <1>8 DEF Matched

(***************************************************************************)
(* The worker's thread sends its oldest answer.                            *)
(***************************************************************************)
LEMMA AsyncMatched ==
    ASSUME TypeOK, Matched, NEW w \in Rank, async_output_busy_loop(w)
    PROVE  Matched'
<1> DEFINE a == async_output_queue[w]
           r == worker_response_mq[w]
           S == [call : Calls, success : BOOLEAN]
<1>1. UNCHANGED <<calls, response_mqs, outcome, current, got, rpc_broadcast_mq, monitor, sending>>
  BY DEF async_output_busy_loop, callVars, engineVars, monitorVars
<1>2. Calls' = Calls /\ Calls \in SUBSET Nat
  BY <1>1, TypeFacts DEF Calls
<1>3. \A v \in Rank, c \in Calls : Awaited(c, v)' <=> Awaited(c, v)
  BY <1>1 DEF Awaited, IsRead
<1>4. async_output_queue \in [Rank -> Seq(S)] /\ worker_response_mq \in [Rank -> Seq(S)]
  BY DEF TypeOK
<1>5. /\ a # <<>> /\ async_output_queue' = [async_output_queue EXCEPT ![w] = Tail(a)]
      /\ worker_response_mq' = [worker_response_mq EXCEPT ![w] = Append(r, Head(a))]
  BY DEF async_output_busy_loop
<1>6. ReadOK' /\ AnswersMatch'
  <2>1. AnswersMatch'
    BY <1>1, ResultsKept DEF Matched, Calls
  <2> QED BY <1>1, <2>1 DEF Matched, ReadOK, Answering
<1>7. ASSUME NEW v \in Rank, v # w PROVE Aligned(v)'
  <2>1. /\ async_output_queue'[v] = async_output_queue[v]
        /\ worker_response_mq'[v] = worker_response_mq[v]
    <3> HIDE DEF S, a, r
    <3> QED BY <1>4, <1>5, <1>7
  <2> QED BY <1>1, <1>3, <2>1, AlignedKept DEF Matched
<1>8. Aligned(w)'
  <2>1. QueuesInOrder(w) /\ UnderWayIsAwaited(w)
    BY DEF Matched, Aligned
  <2>2. PICK k : k = Head(a).call
    OBVIOUS
  <2>3. a \in Seq(S) /\ r \in Seq(S) /\ Increasing(a) /\ Increasing(r)
    BY <1>4, <2>1 DEF QueuesInOrder
  <2>4. /\ Increasing(Tail(a)) /\ Answered(k, a) /\ k \in Calls
        /\ \A c : Answered(c, Tail(a)) <=> Answered(c, a) /\ c # k
        /\ \A c : Answered(c, Tail(a)) => k < c
    <3> HIDE DEF a
    <3>1. /\ Increasing(Tail(a)) /\ Answered(Head(a).call, a) /\ Head(a).call \in Calls
          /\ \A c : Answered(c, Tail(a)) <=> Answered(c, a) /\ c # Head(a).call
          /\ \A c : Answered(c, Tail(a)) => Head(a).call < c
      BY <1>2, <1>5, <2>3, AnswersTail
    <3> QED BY <2>2, <3>1
  <2>5. Head(a) \in S
    <3> HIDE DEF a, S
    <3> QED BY <1>5, <2>3, TailFacts
  <2>6. \A c : Answered(c, r) => c \in Calls /\ c < k
    <3>1. \A c : Answered(c, r) => c \in Calls
      BY TypeFacts DEF Answered, Answer
    <3>2. InAsync(k, w)
      BY <2>4 DEF InAsync
    <3> QED BY <2>1, <2>4, <3>1, <3>2 DEF QueuesInOrder, InResponse
  <2>7. /\ Increasing(Append(r, Head(a)))
        /\ \A c : Answered(c, Append(r, Head(a))) <=> Answered(c, r) \/ c = k
    <3> HIDE DEF a, r
    <3> QED BY <1>2, <2>2, <2>3, <2>5, <2>6, AnswersAppend
  <2>8. async_output_queue'[w] = Tail(a) /\ worker_response_mq'[w] = Append(r, Head(a))
    <3> HIDE DEF S
    <3> QED BY <1>4, <1>5
  <2>9. \A c : /\ InResponse(c, w)' <=> (InResponse(c, w) \/ c = k)
               /\ InAsync(c, w)' <=> (InAsync(c, w) /\ c # k)
               /\ InBroadcast(c, w)' <=> InBroadcast(c, w)
               /\ InResponse(c, w) => c < k
               /\ InAsync(c, w)' => k < c
    BY <1>1, <2>4, <2>6, <2>7, <2>8 DEF InResponse, InAsync, InBroadcast
  <2>10. k \in Nat /\ InAsync(k, w)
    BY <1>2, <2>4 DEF InAsync
  <2>11. QueuesInOrder(w)'
    <3>1. /\ Increasing(worker_response_mq'[w]) /\ Increasing(async_output_queue'[w])
          /\ Ascending(rpc_broadcast_mq'[w])
      BY <1>1, <2>1, <2>4, <2>7, <2>8 DEF QueuesInOrder
    <3>2. ASSUME NEW c \in Calls, NEW d \in Calls
          PROVE  /\ InResponse(c, w)' /\ InAsync(d, w)' => c < d
                 /\ InResponse(c, w)' /\ InBroadcast(d, w)' => c < d
                 /\ InAsync(c, w)' /\ InBroadcast(d, w)' => c < d
      <4>1. /\ InResponse(c, w) /\ InAsync(d, w) => c < d
            /\ InResponse(c, w) /\ InBroadcast(d, w) => c < d
            /\ InAsync(c, w) /\ InBroadcast(d, w) => c < d
            /\ InBroadcast(d, w) => k < d
        BY <2>1, <2>4, <2>10 DEF QueuesInOrder
      <4> QED BY <2>9, <4>1
    <3> QED BY <1>2, <3>1, <3>2 DEF QueuesInOrder
  <2>12. UnderWayIsAwaited(w)'
    <3>1. ASSUME NEW c \in Calls
          PROVE  /\ (InResponse(c, w)' \/ InAsync(c, w)') => Answers(c, w)'
                 /\ (Answers(c, w)' /\ UnderWay(c, w)') => Awaited(c, w)'
                 /\ (Answers(c, w)' /\ Awaited(c, w)') => (UnderWay(c, w)' \/ Missing(c, w)')
      <4>1. Answers(c, w)' <=> Answers(c, w)
        BY <1>1 DEF Answers
      <4>2. /\ (InResponse(c, w) \/ InAsync(c, w)) => Answers(c, w)
            /\ (Answers(c, w) /\ UnderWay(c, w)) => Awaited(c, w)
            /\ (Answers(c, w) /\ Awaited(c, w)) => (UnderWay(c, w) \/ Missing(c, w))
        BY <2>1 DEF UnderWayIsAwaited
      <4>3. UnderWay(c, w)' <=> UnderWay(c, w)
        BY <2>9, <2>10 DEF UnderWay
      <4>4. (InResponse(c, w)' \/ InAsync(c, w)') => (InResponse(c, w) \/ InAsync(c, w))
        BY <2>9, <2>10
      <4>5. ~ Missing(c, w)
        BY DEF async_output_busy_loop, Missing
      <4> QED BY <1>3, <4>1, <4>2, <4>3, <4>4, <4>5
    <3> QED BY <1>2, <3>1 DEF UnderWayIsAwaited
  <2> QED BY <2>11, <2>12 DEF Aligned
<1> QED BY <1>6, <1>7, <1>8 DEF Matched

(***************************************************************************)
(* The worker's thread ends: the oldest answer it had is missing from then *)
(* on, and nothing is sent after it.                                       *)
(***************************************************************************)
LEMMA EndsMatched ==
    ASSUME TypeOK, Matched, NEW w \in Rank, OutputThreadEnds(w)
    PROVE  Matched'
<1> DEFINE a == async_output_queue[w]
           S == [call : Calls, success : BOOLEAN]
<1>1. /\ UNCHANGED <<calls, response_mqs, outcome, current, got, rpc_broadcast_mq,
                     worker_response_mq, monitor>>
      /\ sending[w] /\ sending' = [sending EXCEPT ![w] = FALSE]
      /\ a # <<>> /\ async_output_queue' = [async_output_queue EXCEPT ![w] = Tail(a)]
  BY DEF OutputThreadEnds, callVars, engineVars
<1>2. Calls' = Calls /\ Calls \in SUBSET Nat
  BY <1>1, TypeFacts DEF Calls
<1>3. \A v \in Rank, c \in Calls : Awaited(c, v)' <=> Awaited(c, v)
  BY <1>1 DEF Awaited, IsRead
<1>4. async_output_queue \in [Rank -> Seq(S)] /\ sending \in [Rank -> BOOLEAN]
  BY DEF TypeOK
<1>5. ReadOK' /\ AnswersMatch'
  <2>1. AnswersMatch'
    BY <1>1, ResultsKept DEF Matched, Calls
  <2> QED BY <1>1, <2>1 DEF Matched, ReadOK, Answering
<1>6. ASSUME NEW v \in Rank, v # w PROVE Aligned(v)'
  <2>1. async_output_queue'[v] = async_output_queue[v] /\ sending'[v] = sending[v]
    <3> HIDE DEF S, a
    <3> QED BY <1>1, <1>4, <1>6
  <2> QED BY <1>1, <1>3, <2>1, AlignedKept DEF Matched
<1>7. Aligned(w)'
  <2>1. QueuesInOrder(w) /\ UnderWayIsAwaited(w)
    BY DEF Matched, Aligned
  <2>2. PICK k : k = Head(a).call
    OBVIOUS
  <2>3. a \in Seq(S) /\ Increasing(a)
    BY <1>4, <2>1 DEF QueuesInOrder
  <2>4. /\ Increasing(Tail(a)) /\ Answered(k, a) /\ k \in Calls
        /\ \A c : Answered(c, Tail(a)) <=> Answered(c, a) /\ c # k
    <3> HIDE DEF a
    <3>1. /\ Increasing(Tail(a)) /\ Answered(Head(a).call, a) /\ Head(a).call \in Calls
          /\ \A c : Answered(c, Tail(a)) <=> Answered(c, a) /\ c # Head(a).call
      BY <1>1, <1>2, <2>3, AnswersTail
    <3> QED BY <2>2, <3>1
  <2>5. async_output_queue'[w] = Tail(a) /\ ~ sending'[w]
    <3> HIDE DEF S, a
    <3> QED BY <1>1, <1>4
  <2>6. \A c : /\ InResponse(c, w)' <=> InResponse(c, w)
               /\ InAsync(c, w)' <=> (InAsync(c, w) /\ c # k)
               /\ InBroadcast(c, w)' <=> InBroadcast(c, w)
    BY <1>1, <2>4, <2>5 DEF InResponse, InAsync, InBroadcast
  <2>7. InAsync(k, w)
    BY <2>4 DEF InAsync
  <2> HIDE DEF a
  <2>8. QueuesInOrder(w)'
    <3>1. /\ Increasing(worker_response_mq'[w]) /\ Increasing(async_output_queue'[w])
          /\ Ascending(rpc_broadcast_mq'[w])
      BY <1>1, <2>1, <2>4, <2>5 DEF QueuesInOrder
    <3>2. ASSUME NEW c \in Calls, NEW d \in Calls
          PROVE  /\ InResponse(c, w)' /\ InAsync(d, w)' => c < d
                 /\ InResponse(c, w)' /\ InBroadcast(d, w)' => c < d
                 /\ InAsync(c, w)' /\ InBroadcast(d, w)' => c < d
      BY <2>1, <2>6 DEF QueuesInOrder
    <3> QED BY <1>2, <3>1, <3>2 DEF QueuesInOrder
  <2>9. UnderWayIsAwaited(w)'
    <3>1. ASSUME NEW c \in Calls
          PROVE  /\ (InResponse(c, w)' \/ InAsync(c, w)') => Answers(c, w)'
                 /\ (Answers(c, w)' /\ UnderWay(c, w)') => Awaited(c, w)'
                 /\ (Answers(c, w)' /\ Awaited(c, w)') => (UnderWay(c, w)' \/ Missing(c, w)')
      <4>1. Answers(c, w)' <=> Answers(c, w)
        BY <1>1 DEF Answers
      <4>2. /\ (InResponse(c, w) \/ InAsync(c, w)) => Answers(c, w)
            /\ (Answers(c, w) /\ UnderWay(c, w)) => Awaited(c, w)
            /\ (Answers(c, w) /\ Awaited(c, w)) => (UnderWay(c, w) \/ Missing(c, w))
        BY <2>1 DEF UnderWayIsAwaited
      <4>3. ~ Missing(c, w)
        BY <1>1 DEF Missing
      <4>4. UnderWay(c, w)' => UnderWay(c, w)
        BY <2>6 DEF UnderWay
      <4>5. UnderWay(c, w) => (UnderWay(c, w)' \/ c = k)
        BY <2>6 DEF UnderWay
      <4>6. Missing(k, w)'
        <5>1. \A d \in Calls : InResponse(d, w) => d < k
          BY <2>1, <2>4, <2>7 DEF QueuesInOrder
        <5> QED BY <1>2, <2>5, <2>6, <5>1 DEF Missing
      <4>7. (InResponse(c, w)' \/ InAsync(c, w)') => (InResponse(c, w) \/ InAsync(c, w))
        BY <2>6
      <4> QED BY <1>3, <4>1, <4>2, <4>3, <4>4, <4>5, <4>6, <4>7
    <3> QED BY <1>2, <3>1 DEF UnderWayIsAwaited
  <2> QED BY <2>8, <2>9 DEF Aligned
<1> QED BY <1>5, <1>6, <1>7 DEF Matched

-----------------------------------------------------------------------------
(* The invariant *)

(***************************************************************************)
(* It holds before the first call.                                         *)
(***************************************************************************)
LEMMA InitInv == Init => IInv /\ ~ LeftOver
<1> SUFFICES ASSUME Init PROVE IInv /\ ~ LeftOver
  OBVIOUS
<1>1. /\ calls = <<>> /\ response_mqs = <<>> /\ outcome = <<>> /\ futures_queue = <<>>
      /\ engine = "idle" /\ target = 0 /\ current = 0 /\ got = <<>>
      /\ monitor = "watching" /\ deaths = 0 /\ alive = [w \in Rank |-> TRUE]
      /\ sending = [w \in Rank |-> TRUE]
      /\ DOMAIN calls = {} /\ Len(calls) = 0
  BY DEF Init
<1>2. \A w \in Rank : /\ rpc_broadcast_mq[w] = <<>> /\ async_output_queue[w] = <<>>
                      /\ worker_response_mq[w] = <<>>
  BY DEF Init
<1>3. TypeOK
  <2>1. /\ rpc_broadcast_mq \in [Rank -> Seq(Calls)]
        /\ async_output_queue \in [Rank -> Seq([call : Calls, success : BOOLEAN])]
        /\ worker_response_mq \in [Rank -> Seq([call : Calls, success : BOOLEAN])]
    BY DEF Init
  <2>2. /\ alive \in [Rank -> BOOLEAN] /\ sending \in [Rank -> BOOLEAN]
        /\ IsInjective(futures_queue)
    BY <1>1 DEF IsInjective
  <2>3. /\ calls \in Seq(Kinds) /\ response_mqs \in Seq(Seq(Rank)) /\ futures_queue \in Seq(Calls)
        /\ outcome \in Seq([status : {"pending", "exception", "returned"},
                            answers : Seq([rank : Rank, call : Calls])])
        /\ got \in Seq([rank : Rank, call : Calls])
        /\ Len(outcome) = 0 /\ Len(response_mqs) = 0 /\ Len(futures_queue) = 0
    BY <1>1
  <2>4. MaxCalls \in Nat /\ MaxPending \in Nat /\ MaxDeaths \in Nat
    BY ExecutorAssumption
  <2>5. /\ Len(calls) <= MaxCalls /\ Len(futures_queue) <= MaxPending /\ deaths \in 0 .. MaxDeaths
        /\ Len(outcome) = Len(calls) /\ engine # "registering" /\ Len(response_mqs) = Len(calls)
        /\ engine \in {"idle", "registering", "waiting", "dead"}
        /\ target \in {0} \cup Calls /\ current \in {0} \cup Calls
        /\ monitor \in {"watching", "failed", "terminated", "closed", "done"}
    BY <1>1, <2>3, <2>4
  <2> QED BY <2>1, <2>2, <2>3, <2>5 DEF TypeOK
<1>4. FuturesOK /\ TargetOK
  BY <1>1 DEF FuturesOK, TargetOK, Awaiting, Calls
<1>5. ExceptionsOK /\ SendingOK
  BY <1>1, <1>2 DEF ExceptionsOK, SendingOK, MayRaise
<1>6. ReadOK /\ AnswersMatch /\ ~ LeftOver
  BY <1>1 DEF ReadOK, AnswersMatch, LeftOver, Calls
<1>7. \A w \in Rank : Aligned(w)
  <2>1. ASSUME NEW w \in Rank PROVE QueuesInOrder(w) /\ UnderWayIsAwaited(w)
    BY <1>1, <1>2 DEF QueuesInOrder, UnderWayIsAwaited, Calls, Increasing, Ascending
  <2> QED BY <2>1 DEF Aligned
<1> QED BY <1>3, <1>4, <1>5, <1>6, <1>7 DEF IInv, Matched

(***************************************************************************)
(* What was left over stays: an exception is not replaced.                 *)
(***************************************************************************)
LEMMA LeftOverStays ==
    ASSUME TypeOK, Waiting, Next, LeftOver
    PROVE  LeftOver'
<1>1. PICK c \in Calls : outcome[c] = Failed /\ (calls[c].all \/ calls[c].expires)
  BY DEF LeftOver
<1>2. SUFFICES c \in Calls' /\ calls'[c] = calls[c] /\ outcome'[c] = outcome[c]
  BY <1>1 DEF LeftOver
<1>3. c \in DOMAIN outcome /\ outcome[c] # Pending
  BY <1>1, NamedTypes, TypeFacts
<1>4. CASE UNCHANGED <<calls, outcome>>
  BY <1>4 DEF Calls
<1>5. ASSUME NEW kind \in Kinds, collective_rpc(kind)
      PROVE  c \in Calls' /\ calls'[c] = calls[c] /\ outcome'[c] = outcome[c]
  <2>1. \/ UNCHANGED <<calls, outcome>>
        \/ calls' = Append(calls, kind) /\ outcome' = Append(outcome, Pending)
    BY <1>5 DEF collective_rpc, callVars
  <2>2. CASE calls' = Append(calls, kind) /\ outcome' = Append(outcome, Pending)
    <3>1. calls \in Seq(Kinds) /\ outcome \in Seq(Outcome) /\ Pending \in Outcome
          /\ Len(outcome) = Len(calls)
      BY NamedTypes DEF TypeOK
    <3>2. DOMAIN calls' = 1 .. (Len(calls) + 1) /\ DOMAIN calls = 1 .. Len(calls)
          /\ Len(calls) \in Nat /\ \A i \in 1 .. Len(calls) : calls'[i] = calls[i]
      BY <2>2, <3>1, AppendFacts
    <3>3. \A i \in 1 .. Len(calls) : outcome'[i] = outcome[i]
      <4> HIDE DEF Outcome
      <4> QED BY <2>2, <3>1, AppendFacts
    <3> QED BY <3>2, <3>3 DEF Calls
  <2> QED BY <2>1, <2>2 DEF Calls
<1>6. ASSUME Register PROVE c \in Calls' /\ calls'[c] = calls[c] /\ outcome'[c] = outcome[c]
  <2>1. calls' = calls /\ (outcome' = outcome \/ outcome' = [outcome EXCEPT ![target] = Failed])
    BY <1>6 DEF Register
  <2>2. outcome[target] = Pending
    BY <1>6 DEF Register, Waiting, TargetOK
  <2> QED BY <1>3, <2>1, <2>2 DEF Calls
<1>7. ASSUME NEW o, EndResponse(o), engine = "waiting", current # 0, calls' = calls
      PROVE  c \in Calls' /\ calls'[c] = calls[c] /\ outcome'[c] = outcome[c]
  <2>1. outcome[current] = Pending /\ outcome' = [outcome EXCEPT ![current] = o]
    BY <1>7 DEF EndResponse, Waiting, TargetOK
  <2> QED BY <1>3, <1>7, <2>1 DEF Calls
<1>8. ASSUME CompleteResponse \/ Dequeue
      PROVE  c \in Calls' /\ calls'[c] = calls[c] /\ outcome'[c] = outcome[c]
  <2>1. /\ engine = "waiting" /\ current # 0 /\ calls' = calls
        /\ EndResponse(Failed) \/ EndResponse(Returned(got)) \/ outcome' = outcome
    BY <1>8 DEF CompleteResponse, Dequeue
  <2> QED BY <1>7, <2>1 DEF Calls
<1>9. ASSUME \/ \E d \in DOMAIN calls : result(d)
             \/ Drain \/ ExecutorFailed \/ MonitorSteps
             \/ \E w \in Rank : WorkerSteps(w) \/ OutputThreadEnds(w) \/ Die(w)
      PROVE  UNCHANGED <<calls, outcome>>
  BY <1>9 DEF result, Drain, ExecutorFailed, MonitorSteps, Notice, Terminate, Close, Callback,
              WorkerSteps, worker_busy_loop, async_output_busy_loop, OutputThreadEnds, Die,
              callVars
<1> QED BY <1>4, <1>5, <1>6, <1>8, <1>9 DEF Next, EngineSteps

(***************************************************************************)
(* The steps of engine and workers keep the answers matched as long as     *)
(* nobody has died and nothing is left over.                               *)
(***************************************************************************)
LEMMA NextMatched ==
    ASSUME IInv, Next, ~ is_failed', ~ LeftOver'
    PROVE  Matched'
<1>1. TypeOK /\ Waiting /\ ExceptionsOK /\ SendingOK
  BY DEF IInv, Waiting
<1>2. ~ is_failed
  <2>1. monitor' = monitor \/ monitor' # "watching"
    BY DEF Next, EngineSteps, MonitorSteps, WorkerSteps, collective_rpc, result, Register, Drain,
           CompleteResponse, Dequeue, ExecutorFailed, worker_busy_loop, async_output_busy_loop,
           OutputThreadEnds, Die, Notice, Terminate, Close, Callback, monitorVars
  <2> QED BY <2>1 DEF is_failed
<1>3. Matched
  BY <1>1, <1>2, LeftOverStays DEF IInv
<1>4. ASSUME NEW kind \in Kinds, collective_rpc(kind) PROVE Matched'
  BY <1>1, <1>2, <1>3, <1>4, CallMatched
<1>5. CASE Register
  BY <1>1, <1>2, <1>3, <1>5, RegisterMatched
<1>6. CASE Drain
  BY <1>1, <1>3, <1>6, DrainMatched
<1>7. CASE CompleteResponse
  BY <1>1, <1>2, <1>3, <1>7, CompleteMatched
<1>8. CASE Dequeue
  BY <1>1, <1>2, <1>3, <1>8, DequeueMatched
<1>9. ASSUME NEW w \in Rank, worker_busy_loop(w) PROVE Matched'
  <2>1. PICK c \in Calls, success \in BOOLEAN : Takes(w, c, success)
    BY <1>1, <1>9, BusyLoopTakes
  <2> QED BY <1>1, <1>3, <2>1, TakesMatched
<1>10. ASSUME NEW w \in Rank, async_output_busy_loop(w) PROVE Matched'
  BY <1>1, <1>3, <1>10, AsyncMatched
<1>13. ASSUME NEW w \in Rank, OutputThreadEnds(w) PROVE Matched'
  BY <1>1, <1>3, <1>13, EndsMatched
<1>11. ASSUME \/ \E c \in DOMAIN calls : result(c)
              \/ ExecutorFailed
              \/ \E w \in Rank : Die(w)
       PROVE  Matched'
  <2>1. UNCHANGED <<calls, response_mqs, outcome, current, got, workerVars, monitor, sending>>
    BY <1>11 DEF result, ExecutorFailed, Die, callVars, engineVars, monitorVars
  <2> QED BY <1>3, <2>1, MatchedKept
<1>12. ASSUME MonitorSteps PROVE FALSE
  BY <1>12, <1>2 DEF MonitorSteps, Notice, Terminate, Close, Callback, is_failed
<1> QED BY <1>4, <1>5, <1>6, <1>7, <1>8, <1>9, <1>10, <1>11, <1>12, <1>13
        DEF Next, EngineSteps, WorkerSteps

(***************************************************************************)
(* Every step keeps the rest of the invariant.                             *)
(***************************************************************************)
LEMMA NextTypes ==
    ASSUME TypeOK, Waiting, ExceptionsOK, Next
    PROVE  TypeOK' /\ Waiting' /\ ExceptionsOK'
<1>1. FuturesOK /\ TargetOK
  BY DEF Waiting
<1>2. ASSUME NEW kind \in Kinds, collective_rpc(kind) PROVE TypeOK' /\ Waiting' /\ ExceptionsOK'
  <2>1. UNCHANGED <<async_output_queue, worker_response_mq>>
        /\ (calls' = calls \/ calls' = Append(calls, kind))
    BY <1>2 DEF collective_rpc, workerVars, callVars
  <2>2. \A c \in Calls : calls'[c] = calls[c]
    <3>1. calls \in Seq(Kinds)
      BY DEF TypeOK
    <3> QED BY <2>1, <3>1, AppendFacts DEF Calls
  <2> QED BY <1>2, <2>1, <2>2, CallTypes, CallWaiting, ExceptionsKept
<1>3. ASSUME NEW c \in Calls, result(c) PROVE TypeOK' /\ Waiting' /\ ExceptionsOK'
  <2>1. /\ UNCHANGED <<callVars, current, got, workerVars, monitorVars>>
        /\ engine = "idle" /\ engine' = "waiting" /\ target' = c
    BY <1>3 DEF result
  <2>2. /\ alive' \in [Rank -> BOOLEAN] /\ sending' \in [Rank -> BOOLEAN]
        /\ deaths' \in 0 .. MaxDeaths
        /\ monitor' \in {"watching", "failed", "terminated", "closed", "done"}
    BY <2>1 DEF TypeOK, monitorVars
  <2>3. TypeOK'
    BY <2>1, <2>2, OtherTypes
  <2>4. ExceptionsOK'
    BY <2>1, ExceptionsKept DEF callVars, workerVars
  <2> QED BY <1>3, <2>3, <2>4, ResultWaiting
<1>4. CASE Register
  <2>1. UNCHANGED <<calls, async_output_queue, worker_response_mq>>
    BY <1>4 DEF Register, workerVars
  <2> QED BY <1>1, <1>4, <2>1, RegisterTypes, RegisterWaiting, ExceptionsKept
<1>5. CASE Drain
  <2>1. UNCHANGED <<calls, async_output_queue, worker_response_mq>>
    BY <1>5 DEF Drain, workerVars
  <2> QED BY <1>1, <1>5, <2>1, DrainTypes, DrainWaiting, ExceptionsKept
<1>6. CASE CompleteResponse
  <2>1. UNCHANGED <<calls, async_output_queue, worker_response_mq>>
    BY <1>6 DEF CompleteResponse, workerVars
  <2> QED BY <1>6, <2>1, CompleteTypes, CompleteWaiting, ExceptionsKept
<1>7. CASE Dequeue
  BY <1>7, DequeueTypes, DequeueWaiting, DequeueExceptions
<1>8. CASE ExecutorFailed
  <2>1. /\ UNCHANGED <<callVars, target, current, got, workerVars, monitorVars>>
        /\ engine = "idle" /\ engine' = "dead"
    BY <1>8 DEF ExecutorFailed
  <2>2. /\ alive' \in [Rank -> BOOLEAN] /\ sending' \in [Rank -> BOOLEAN]
        /\ deaths' \in 0 .. MaxDeaths
        /\ monitor' \in {"watching", "failed", "terminated", "closed", "done"}
        /\ target' \in {0} \cup Calls
    BY <2>1 DEF TypeOK, monitorVars
  <2>3. TypeOK'
    BY <2>1, <2>2, OtherTypes
  <2>4. ExceptionsOK'
    BY <2>1, ExceptionsKept DEF callVars, workerVars
  <2> QED BY <1>8, <2>3, <2>4, FailedWaiting
<1>9. ASSUME NEW w \in Rank, worker_busy_loop(w) PROVE TypeOK' /\ Waiting' /\ ExceptionsOK'
  <2>1. PICK c \in Calls, success \in BOOLEAN :
           Takes(w, c, success) /\ (success \/ calls[c].fails)
    BY <1>9, BusyLoopTakes
  <2>2. UNCHANGED <<callVars, engineVars>>
    BY <1>9 DEF worker_busy_loop
  <2> QED BY <2>1, <2>2, BusyLoopTypes, TakesExceptions, WaitingKept
<1>10. ASSUME NEW w \in Rank, async_output_busy_loop(w) PROVE TypeOK' /\ Waiting' /\ ExceptionsOK'
  <2>1. UNCHANGED <<callVars, engineVars>>
    BY <1>10 DEF async_output_busy_loop
  <2> QED BY <1>10, <2>1, AsyncTypes, AsyncExceptions, WaitingKept
<1>11. ASSUME MonitorSteps \/ \E w \in Rank : Die(w) PROVE TypeOK' /\ Waiting' /\ ExceptionsOK'
  <2>1. UNCHANGED <<callVars, engineVars, workerVars>>
    BY <1>11 DEF MonitorSteps, Notice, Terminate, Close, Callback, Die
  <2>2. alive' \in [Rank -> BOOLEAN] /\ sending' \in [Rank -> BOOLEAN]
    <3>1. alive \in [Rank -> BOOLEAN] /\ sending \in [Rank -> BOOLEAN]
      BY DEF TypeOK
    <3>2. /\ \/ alive' = alive \/ alive' = [w \in Rank |-> FALSE]
             \/ \E w \in Rank : alive' = [alive EXCEPT ![w] = FALSE]
          /\ sending' = sending
      BY <1>11 DEF MonitorSteps, Notice, Terminate, Close, Callback, Die
    <3> QED BY <3>1, <3>2
  <2>3. deaths' \in 0 .. MaxDeaths
    <3>1. deaths \in 0 .. MaxDeaths /\ MaxDeaths \in Nat
      BY ExecutorAssumption DEF TypeOK
    <3>2. deaths' = deaths \/ (deaths < MaxDeaths /\ deaths' = deaths + 1)
      BY <1>11 DEF MonitorSteps, Notice, Terminate, Close, Callback, Die
    <3> QED BY <3>1, <3>2
  <2>4. monitor' \in {"watching", "failed", "terminated", "closed", "done"}
    <3>1. monitor \in {"watching", "failed", "terminated", "closed", "done"}
      BY DEF TypeOK
    <3> QED BY <1>11, <3>1 DEF MonitorSteps, Notice, Terminate, Close, Callback, Die
  <2>5. TypeOK'
    <3>1. UNCHANGED <<current, got>> /\ engine' = engine /\ target' = target
      BY <2>1 DEF engineVars
    <3>2. target' \in {0} \cup Calls
      BY <3>1 DEF TypeOK
    <3> QED BY <2>1, <2>2, <2>3, <2>4, <3>1, <3>2, OtherTypes
  <2>6. ExceptionsOK'
    BY <2>1, ExceptionsKept DEF callVars, workerVars
  <2> QED BY <2>1, <2>5, <2>6, WaitingKept
<1>12. ASSUME NEW w \in Rank, OutputThreadEnds(w) PROVE TypeOK' /\ Waiting' /\ ExceptionsOK'
  <2>1. UNCHANGED <<callVars, engineVars>>
    BY <1>12 DEF OutputThreadEnds
  <2> QED BY <1>12, <2>1, EndsTypes, EndsExceptions, WaitingKept
<1> QED BY <1>2, <1>3, <1>4, <1>5, <1>6, <1>7, <1>8, <1>9, <1>10, <1>11, <1>12
        DEF Next, EngineSteps, WorkerSteps, Calls

(***************************************************************************)
(* Only an output thread ends, and one there is only with async scheduling. *)
(***************************************************************************)
LEMMA NextSending ==
    ASSUME TypeOK, ExceptionsOK, SendingOK, [Next]_vars
    PROVE  SendingOK'
<1>1. ASSUME NEW w \in Rank, OutputThreadEnds(w) PROVE SendingOK'
  <2>1. AsyncScheduling
    BY <1>1, EndsExceptions
  <2> QED BY <2>1 DEF SendingOK
<1>2. ASSUME ~ \E w \in Rank : OutputThreadEnds(w) PROVE sending' = sending
  BY <1>2 DEF Next, EngineSteps, MonitorSteps, WorkerSteps, collective_rpc, result, Register,
         Drain, CompleteResponse, Dequeue, ExecutorFailed, worker_busy_loop,
         async_output_busy_loop, Die, Notice, Terminate, Close, Callback, monitorVars, vars
<1> QED BY <1>1, <1>2 DEF SendingOK

(***************************************************************************)
(* The invariant is inductive.                                              *)
(***************************************************************************)
LEMMA NextInv ==
    ASSUME IInv, [Next]_vars
    PROVE  IInv'
<1>1. CASE Next
  <2>1. TypeOK /\ Waiting /\ ExceptionsOK
    BY DEF IInv, Waiting
  <2>2. TypeOK' /\ Waiting' /\ ExceptionsOK'
    BY <1>1, <2>1, NextTypes
  <2>3. (is_failed \/ LeftOver \/ Matched)'
    BY <1>1, NextMatched
  <2>4. SendingOK'
    BY <2>1, NextSending DEF IInv
  <2> QED BY <2>2, <2>3, <2>4 DEF IInv, Waiting
<1>2. CASE UNCHANGED vars
  <2>1. UNCHANGED <<callVars, engineVars, workerVars, monitorVars>>
    BY <1>2 DEF vars
  <2>2. TypeOK' /\ Waiting' /\ ExceptionsOK'
    <3>1. TypeOK /\ Waiting /\ ExceptionsOK
      BY DEF IInv, Waiting
    <3>2. /\ alive' \in [Rank -> BOOLEAN] /\ sending' \in [Rank -> BOOLEAN]
          /\ deaths' \in 0 .. MaxDeaths
          /\ monitor' \in {"watching", "failed", "terminated", "closed", "done"}
          /\ target' \in {0} \cup Calls /\ engine' = engine /\ UNCHANGED <<current, got>>
      BY <2>1, <3>1 DEF TypeOK, monitorVars, engineVars
    <3>3. TypeOK'
      BY <2>1, <3>1, <3>2, OtherTypes
    <3>4. ExceptionsOK'
      BY <2>1, <3>1, ExceptionsKept DEF callVars, workerVars
    <3> QED BY <2>1, <3>1, <3>3, <3>4, WaitingKept
  <2>3. UNCHANGED <<calls, response_mqs, outcome, current, got, workerVars, monitor, sending>>
    BY <2>1 DEF callVars, engineVars, monitorVars
  <2>4. Matched => Matched'
    BY <2>3, MatchedKept
  <2>5. (is_failed' <=> is_failed) /\ (LeftOver' <=> LeftOver)
    BY <2>3 DEF is_failed, LeftOver, Calls
  <2>6. SendingOK'
    BY <2>3 DEF IInv, SendingOK
  <2> QED BY <2>2, <2>4, <2>5, <2>6 DEF IInv, Waiting
<1> QED BY <1>1, <1>2

(***************************************************************************)
(* With calls that leave nothing behind, nothing is left over until a      *)
(* worker's death is noticed: the exception that ends a call is the answer *)
(* of the one worker that was asked.                                       *)
(***************************************************************************)
LEMMA NextNoneLeftOver ==
    ASSUME KindsSafe, IInv, NoneLeftOver, [Next]_vars
    PROVE  NoneLeftOver'
<1> SUFFICES ASSUME ~ is_failed', LeftOver' PROVE FALSE
  BY DEF NoneLeftOver
<1>1. TypeOK /\ Waiting /\ ExceptionsOK
  BY DEF IInv, Waiting
<1>2. ~ is_failed /\ ~ LeftOver /\ Matched
  <2>1. monitor' = monitor \/ monitor' # "watching"
    BY DEF Next, EngineSteps, MonitorSteps, WorkerSteps, collective_rpc, result, Register, Drain,
           CompleteResponse, Dequeue, ExecutorFailed, worker_busy_loop, async_output_busy_loop,
           OutputThreadEnds, Die, Notice, Terminate, Close, Callback, monitorVars, vars
  <2>2. ~ is_failed
    BY <2>1 DEF is_failed
  <2> QED BY <2>2 DEF NoneLeftOver, IInv
<1>3. PICK c \in Calls' : outcome'[c] = Failed /\ (calls'[c].all \/ calls'[c].expires)
  BY DEF LeftOver
<1>4. ASSUME c \in Calls, calls'[c] = calls[c] PROVE outcome[c] # Failed
  BY <1>2, <1>3, <1>4 DEF LeftOver
<1>5. ASSUME UNCHANGED <<calls, outcome>> PROVE FALSE
  BY <1>3, <1>4, <1>5 DEF Calls
<1>6. ASSUME NEW kind \in Kinds, collective_rpc(kind) PROVE FALSE
  <2>1. calls' = Append(calls, kind) /\ outcome' = Append(outcome, Pending)
    BY <1>2, <1>6 DEF collective_rpc
  <2>2. calls \in Seq(Kinds) /\ outcome \in Seq(Outcome) /\ Pending \in Outcome
        /\ Len(outcome) = Len(calls)
    BY <1>1, NamedTypes DEF TypeOK
  <2>3. /\ DOMAIN calls' = 1 .. (Len(calls) + 1) /\ DOMAIN calls = 1 .. Len(calls)
        /\ Len(calls) \in Nat /\ \A i \in 1 .. Len(calls) : calls'[i] = calls[i]
    BY <2>1, <2>2, AppendFacts
  <2>4. /\ \A i \in 1 .. Len(calls) : outcome'[i] = outcome[i]
        /\ outcome'[Len(calls) + 1] = Pending
    <3> HIDE DEF Outcome
    <3> QED BY <2>1, <2>2, AppendFacts
  <2>5. Failed # Pending
    BY <1>1, NamedTypes
  <2> QED BY <1>3, <1>4, <2>3, <2>4, <2>5 DEF Calls
<1>7. ASSUME Register PROVE FALSE
  <2>1. ~ closed
    BY <1>2 DEF is_failed, closed
  <2>2. UNCHANGED <<calls, outcome>>
    BY <1>7, <2>1 DEF Register
  <2> QED BY <1>5, <2>2
<1>8. ASSUME engine = "waiting", current # 0, calls' = calls, NEW o, EndResponse(o)
      PROVE  o = Failed /\ c = current /\ c \in Calls
  <2>1. outcome' = [outcome EXCEPT ![current] = o] /\ current \in Calls /\ c \in Calls
    BY <1>1, <1>3, <1>8 DEF EndResponse, TypeOK, Calls
  <2>2. DOMAIN outcome = Calls
    BY <1>1, TypeFacts
  <2> QED BY <1>3, <1>4, <1>8, <2>1, <2>2
<1>9. ASSUME CompleteResponse PROVE FALSE
  <2>1. Returned(got) = Failed
    BY <1>8, <1>9 DEF CompleteResponse
  <2> QED BY <1>1, <2>1, NamedTypes
<1>10. ASSUME Dequeue PROVE FALSE
  <2> DEFINE mq == worker_response_mq[Reading]
  <2>1. engine = "waiting" /\ current # 0 /\ calls' = calls /\ Reading \in Rank
    BY <1>1, <1>10, DequeueTypes DEF Dequeue
  <2>2. EndResponse(Failed)
    <3>1. EndResponse(Failed) \/ outcome' = outcome
      BY <1>10 DEF Dequeue
    <3> QED BY <1>5, <2>1, <3>1
  <2>3. c = current /\ c \in Calls
    BY <1>8, <2>1, <2>2
  <2>4. ~ calls[c].expires /\ calls[c].all /\ ~ calls[c].fails
    <3>1. calls[c] \in Kinds
      BY <1>1, <2>3, TypeFacts
    <3> QED BY <1>3, <2>1, <3>1 DEF KindsSafe
  <2>5. ~ closed
    BY <1>2 DEF is_failed, closed
  <2>6. mq # <<>>
    BY <1>10, <2>3, <2>4, <2>5 DEF Dequeue, Reading
  <2>7. ~ Head(mq).success
    <3>1. outcome' # outcome
      BY <1>5, <2>1
    <3> QED BY <1>10, <2>6, <3>1 DEF Dequeue, Reading
  <2>8. Head(mq).call = c
    BY <1>1, <1>2, <1>10, <2>3, <2>6, HeadIsCurrent
  <2>9. Head(mq).success \/ calls[Head(mq).call].fails
    <3>1. mq \in Seq(Answer) /\ MayRaise(mq)
      BY <1>1, <2>1, NamedTypes DEF ExceptionsOK
    <3> HIDE DEF mq
    <3> QED BY <2>6, <3>1, MayRaiseTail
  <2> QED BY <2>4, <2>7, <2>8, <2>9
<1>11. ASSUME \/ \E d \in DOMAIN calls : result(d)
              \/ Drain \/ ExecutorFailed \/ MonitorSteps
              \/ \E w \in Rank : WorkerSteps(w) \/ OutputThreadEnds(w) \/ Die(w)
              \/ UNCHANGED vars
       PROVE  UNCHANGED <<calls, outcome>>
  BY <1>11 DEF result, Drain, ExecutorFailed, MonitorSteps, Notice, Terminate, Close, Callback,
               WorkerSteps, worker_busy_loop, async_output_busy_loop, OutputThreadEnds, Die,
               callVars, vars
<1> QED BY <1>5, <1>6, <1>7, <1>9, <1>10, <1>11 DEF Next, EngineSteps

(***************************************************************************)
(* Two queues one after the other.                                         *)
(***************************************************************************)
LEMMA ConcatFacts ==
    ASSUME NEW S, NEW p \in Seq(S), NEW q \in Seq(S)
    PROVE  /\ p \o q \in Seq(S) /\ Len(p) \in Nat /\ Len(q) \in Nat
           /\ Len(p \o q) = Len(p) + Len(q) /\ DOMAIN (p \o q) = 1 .. (Len(p) + Len(q))
           /\ DOMAIN p = 1 .. Len(p) /\ DOMAIN q = 1 .. Len(q)
           /\ \A i \in 1 .. Len(p) : (p \o q)[i] = p[i]
           /\ \A i \in 1 .. Len(q) : (p \o q)[Len(p) + i] = q[i]
           /\ \A i \in 1 .. (Len(p) + Len(q)) :
                 \/ i \in 1 .. Len(p) /\ (p \o q)[i] = p[i]
                 \/ i - Len(p) \in 1 .. Len(q) /\ (p \o q)[i] = q[i - Len(p)]
<1>1. /\ p \o q \in Seq(S) /\ Len(p) \in Nat /\ Len(q) \in Nat
      /\ Len(p \o q) = Len(p) + Len(q) /\ DOMAIN (p \o q) = 1 .. (Len(p) + Len(q))
      /\ DOMAIN p = 1 .. Len(p) /\ DOMAIN q = 1 .. Len(q)
  OBVIOUS
<1>2. \A i \in 1 .. (Len(p) + Len(q)) :
         (p \o q)[i] = IF i <= Len(p) THEN p[i] ELSE q[i - Len(p)]
  BY <1>1
<1>3. \A i \in 1 .. Len(q) : (Len(p) + i) - Len(p) = i /\ Len(p) + i \in 1 .. (Len(p) + Len(q))
                             /\ ~ (Len(p) + i <= Len(p))
  BY <1>1
<1> QED BY <1>1, <1>2, <1>3

(***************************************************************************)
(* Queues that are aligned hold the answers that are awaited, all of them  *)
(* as long as the output thread is there.                                  *)
(***************************************************************************)
LEMMA AlignedNotStale ==
    ASSUME IInv, Matched
    PROVE  NoStaleResponse
<1> SUFFICES ASSUME NEW w \in Rank
             PROVE  LET answers == worker_response_mq[w] \o async_output_queue[w]
                        underway == [i \in DOMAIN answers |-> answers[i].call]
                                       \o rpc_broadcast_mq[w]
                        IsUnderWay(c) == \E i \in DOMAIN underway : underway[i] = c
                        IsAwaited(c) == outcome[c] = Pending /\ ~IsRead(c, w)
                    IN  /\ \A i, j \in DOMAIN underway : i < j => underway[i] < underway[j]
                        /\ \A i \in DOMAIN answers : Answers(answers[i].call, w)
                        /\ \A c \in Calls : Answers(c, w) =>
                              /\ IsUnderWay(c) => IsAwaited(c)
                              /\ IsAwaited(c) /\ sending[w] => IsUnderWay(c)
  BY DEF NoStaleResponse
<1> DEFINE r == worker_response_mq[w]
           a == async_output_queue[w]
           b == rpc_broadcast_mq[w]
           answers == r \o a
           sent == [i \in DOMAIN answers |-> answers[i].call]
           underway == sent \o b
           m == Len(r)
           n == Len(a)
<1>1. TypeOK /\ QueuesInOrder(w) /\ UnderWayIsAwaited(w) /\ Calls \subseteq Nat
  <2>1. TypeOK
    BY DEF IInv
  <2> QED BY <2>1, TypeFacts DEF Matched, Aligned
<1>2. r \in Seq(Answer) /\ a \in Seq(Answer) /\ b \in Seq(Calls)
  <2>1. rpc_broadcast_mq \in [Rank -> Seq(Calls)]
    BY <1>1 DEF TypeOK
  <2> QED BY <1>1, <2>1, NamedTypes
<1>3. /\ answers \in Seq(Answer) /\ m \in Nat /\ n \in Nat /\ DOMAIN answers = 1 .. (m + n)
      /\ DOMAIN r = 1 .. m /\ DOMAIN a = 1 .. n
      /\ \A i \in 1 .. m : answers[i] = r[i]
      /\ \A i \in 1 .. n : answers[m + i] = a[i]
      /\ \A i \in 1 .. (m + n) : \/ i \in 1 .. m /\ answers[i] = r[i]
                                 \/ i - m \in 1 .. n /\ answers[i] = a[i - m]
  <2> HIDE DEF r, a, Answer
  <2> QED BY <1>2, ConcatFacts
<1> HIDE DEF answers, m, n
<1>4. sent \in Seq(Calls) /\ Len(sent) = m + n /\ \A i \in 1 .. (m + n) : sent[i] = answers[i].call
  <2>1. m + n \in Nat /\ \A i \in 1 .. (m + n) : answers[i] \in Answer
    <3>1. Len(answers) = m + n
      BY <1>3
    <3> HIDE DEF Answer
    <3> QED BY <1>3, <3>1
  <2>2. sent \in [1 .. (m + n) -> Calls]
    BY <1>3, <2>1 DEF Answer
  <2>3. \A i \in 1 .. (m + n) : sent[i] = answers[i].call
    BY <1>3
  <2> HIDE DEF sent
  <2>4. PICK l \in Nat : l = m + n
    BY <2>1
  <2>5. sent \in [1 .. l -> Calls]
    BY <2>2, <2>4
  <2>6. sent \in Seq(Calls) /\ Len(sent) = l
    BY <2>5
  <2> QED BY <2>3, <2>4, <2>6
<1> HIDE DEF sent
<1>5. /\ Len(b) \in Nat /\ DOMAIN b = 1 .. Len(b) /\ DOMAIN underway = 1 .. ((m + n) + Len(b))
      /\ \A i \in 1 .. (m + n) : underway[i] = sent[i]
      /\ \A i \in 1 .. Len(b) : underway[(m + n) + i] = b[i]
      /\ \A i \in 1 .. ((m + n) + Len(b)) :
            \/ i \in 1 .. (m + n) /\ underway[i] = sent[i]
            \/ i - (m + n) \in 1 .. Len(b) /\ underway[i] = b[i - (m + n)]
  <2>1. b \in Seq(Calls)
    BY <1>2
  <2> HIDE DEF b
  <2>3. sent \in Seq(Calls)
    BY <1>4
  <2>2. /\ Len(b) \in Nat /\ DOMAIN b = 1 .. Len(b) /\ DOMAIN underway = 1 .. (Len(sent) + Len(b))
        /\ \A i \in 1 .. Len(sent) : underway[i] = sent[i]
        /\ \A i \in 1 .. Len(b) : underway[Len(sent) + i] = b[i]
        /\ \A i \in 1 .. (Len(sent) + Len(b)) :
              \/ i \in 1 .. Len(sent) /\ underway[i] = sent[i]
              \/ i - Len(sent) \in 1 .. Len(b) /\ underway[i] = b[i - Len(sent)]
    BY <2>1, <2>3, ConcatFacts
  <2> HIDE DEF underway
  <2> QED BY <1>4, <2>2
<1> HIDE DEF underway
<1>6. \A i \in 1 .. (m + n) : \/ i \in 1 .. m /\ sent[i] = r[i].call
                              \/ i - m \in 1 .. n /\ sent[i] = a[i - m].call
  BY <1>3, <1>4
<1>7. /\ \A i \in 1 .. m : r[i].call \in Calls /\ InResponse(r[i].call, w)
      /\ \A i \in 1 .. n : a[i].call \in Calls /\ InAsync(a[i].call, w)
      /\ \A i \in 1 .. Len(b) : b[i] \in Calls /\ InBroadcast(b[i], w)
  <2>1. /\ \A i \in 1 .. m : r[i].call \in Calls
        /\ \A i \in 1 .. n : a[i].call \in Calls
        /\ \A i \in 1 .. Len(b) : b[i] \in Calls
    BY <1>1, <1>3, <1>5, TypeFacts DEF Answer
  <2> QED BY <1>3, <1>5, <2>1 DEF InResponse, InAsync, InBroadcast, Answered, Within
<1>8. /\ \A i, j \in 1 .. m : i < j => r[i].call < r[j].call
      /\ \A i, j \in 1 .. n : i < j => a[i].call < a[j].call
      /\ \A i, j \in 1 .. Len(b) : i < j => b[i] < b[j]
      /\ \A i \in 1 .. m, j \in 1 .. n : r[i].call < a[j].call
      /\ \A i \in 1 .. m, j \in 1 .. Len(b) : r[i].call < b[j]
      /\ \A i \in 1 .. n, j \in 1 .. Len(b) : a[i].call < b[j]
  BY <1>1, <1>3, <1>5, <1>7 DEF QueuesInOrder, Increasing, Ascending
<1> HIDE DEF r, a, b
<1>9. \A i, j \in 1 .. (m + n) : i < j => sent[i] < sent[j]
  <2> SUFFICES ASSUME NEW i \in 1 .. (m + n), NEW j \in 1 .. (m + n), i < j
               PROVE  sent[i] < sent[j]
    OBVIOUS
  <2>1. CASE i \in 1 .. m /\ sent[i] = r[i].call /\ j \in 1 .. m /\ sent[j] = r[j].call
    BY <1>8, <2>1
  <2>2. CASE i \in 1 .. m /\ sent[i] = r[i].call /\ j - m \in 1 .. n /\ sent[j] = a[j - m].call
    BY <1>8, <2>2
  <2>3. CASE i - m \in 1 .. n /\ sent[i] = a[i - m].call /\ j - m \in 1 .. n
             /\ sent[j] = a[j - m].call
    <3>1. i - m < j - m
      BY <1>3
    <3> QED BY <1>8, <2>3, <3>1
  <2>4. CASE i - m \in 1 .. n /\ j \in 1 .. m
    BY <1>3, <2>4
  <2> QED BY <1>6, <2>1, <2>2, <2>3, <2>4
<1>10. \A i \in 1 .. (m + n), j \in 1 .. Len(b) : sent[i] < b[j]
  BY <1>6, <1>8
<1>11. \A i, j \in DOMAIN underway : i < j => underway[i] < underway[j]
  <2> SUFFICES ASSUME NEW i \in 1 .. ((m + n) + Len(b)), NEW j \in 1 .. ((m + n) + Len(b)), i < j
               PROVE  underway[i] < underway[j]
    BY <1>5
  <2> DEFINE l == m + n
  <2>1. l \in Nat
    BY <1>3
  <2>2. CASE i \in 1 .. l /\ underway[i] = sent[i] /\ j \in 1 .. l /\ underway[j] = sent[j]
    BY <1>9, <2>2
  <2>3. CASE i \in 1 .. l /\ underway[i] = sent[i] /\ j - l \in 1 .. Len(b)
             /\ underway[j] = b[j - l]
    BY <1>10, <2>3
  <2>4. CASE i - l \in 1 .. Len(b) /\ underway[i] = b[i - l] /\ j - l \in 1 .. Len(b)
             /\ underway[j] = b[j - l]
    <3> HIDE DEF l
    <3>1. i - l < j - l
      BY <1>5, <2>1, <2>4
    <3> QED BY <1>8, <2>4, <3>1
  <2>5. CASE i - l \in 1 .. Len(b) /\ j \in 1 .. l
    <3> HIDE DEF l
    <3> QED BY <1>5, <2>1, <2>5
  <2> QED BY <1>5, <2>2, <2>3, <2>4, <2>5
<1>12. \A i \in DOMAIN answers : Answers(answers[i].call, w)
  BY <1>1, <1>3, <1>7 DEF UnderWayIsAwaited
<1>13. ASSUME NEW c \in Calls
       PROVE  (\E i \in DOMAIN underway : underway[i] = c) <=> UnderWay(c, w)
  <2>1. ASSUME NEW i \in DOMAIN underway, underway[i] = c PROVE UnderWay(c, w)
    BY <1>5, <1>6, <1>7, <2>1 DEF UnderWay
  <2>2. ASSUME InResponse(c, w) PROVE \E i \in DOMAIN underway : underway[i] = c
    <3>1. PICK i \in 1 .. m : r[i].call = c
      BY <1>3, <2>2 DEF InResponse, Answered, r
    <3>2. i \in 1 .. (m + n) /\ i \in DOMAIN underway
      BY <1>3, <1>5
    <3>3. underway[i] = c
      BY <1>3, <1>4, <1>5, <3>1, <3>2
    <3> QED BY <3>2, <3>3
  <2>3. ASSUME InAsync(c, w) PROVE \E i \in DOMAIN underway : underway[i] = c
    <3>1. PICK i \in 1 .. n : a[i].call = c
      BY <1>3, <2>3 DEF InAsync, Answered, a
    <3>2. m + i \in 1 .. (m + n) /\ m + i \in DOMAIN underway
      BY <1>3, <1>5
    <3>3. underway[m + i] = c
      BY <1>3, <1>4, <1>5, <3>1, <3>2
    <3> QED BY <3>2, <3>3
  <2>4. ASSUME InBroadcast(c, w) PROVE \E i \in DOMAIN underway : underway[i] = c
    <3>1. PICK i \in 1 .. Len(b) : b[i] = c
      BY <1>5, <2>4 DEF InBroadcast, Within, b
    <3>2. (m + n) + i \in DOMAIN underway
      BY <1>3, <1>5
    <3> QED BY <1>5, <3>1, <3>2
  <2> QED BY <2>1, <2>2, <2>3, <2>4 DEF UnderWay
<1>14. \A c \in Calls : Answers(c, w) =>
           /\ (\E i \in DOMAIN underway : underway[i] = c)
                 => (outcome[c] = Pending /\ ~IsRead(c, w))
           /\ ((outcome[c] = Pending /\ ~IsRead(c, w)) /\ sending[w])
                 => \E i \in DOMAIN underway : underway[i] = c
  BY <1>1, <1>13 DEF UnderWayIsAwaited, Awaited, Missing
<1> QED BY <1>11, <1>12, <1>14 DEF underway, sent, answers, r, a, b

-----------------------------------------------------------------------------
(***************************************************************************)
(* The variables keep their types, and the batch queue its bound.          *)
(***************************************************************************)
THEOREM TypeCorrect == Spec => []TypeOK
<1>1. Init => IInv
  BY InitInv
<1>2. IInv => TypeOK
  BY DEF IInv
<1> QED BY <1>1, <1>2, NextInv, PTL DEF Spec

(***************************************************************************)
(* Whatever calls are made: until a worker dies, a call returns the        *)
(* answers to that call unless one that several workers answer, or that    *)
(* may time out, was given up before.                                      *)
(***************************************************************************)
THEOREM AnswersMatchUntilLeftOver == Spec => [](LeftOver \/ AnswersMatch)
<1>1. Init => IInv
  BY InitInv
<1>2. IInv => LeftOver \/ AnswersMatch
  BY DEF IInv, Matched, AnswersMatch
<1> QED BY <1>1, <1>2, NextInv, PTL DEF Spec

(***************************************************************************)
(* With calls that leave nothing behind, those of the engine's steps among *)
(* them, get_response returns the answers to its own call, one from each   *)
(* worker asked, although nothing in an answer says which call it is for.  *)
(***************************************************************************)
THEOREM AnswersAlwaysMatch ==
    ASSUME KindsSafe
    PROVE  Spec => []AnswersMatch
<1>1. Init => IInv /\ NoneLeftOver
  BY InitInv DEF NoneLeftOver
<1>2. IInv /\ NoneLeftOver /\ [Next]_vars => IInv' /\ NoneLeftOver'
  BY NextInv, NextNoneLeftOver
<1>3. IInv /\ NoneLeftOver => AnswersMatch
  BY DEF IInv, Matched, AnswersMatch, NoneLeftOver
<1> QED BY <1>1, <1>2, <1>3, PTL DEF Spec

(***************************************************************************)
(* ... and what is under way from a living worker is, in order, what the   *)
(* pending calls have yet to read from it, and all of that as long as its  *)
(* output thread is there.                                                 *)
(***************************************************************************)
THEOREM NeverStaleResponse ==
    ASSUME KindsSafe
    PROVE  Spec => []NoStaleResponse
<1>1. Init => IInv /\ NoneLeftOver
  BY InitInv DEF NoneLeftOver
<1>2. IInv /\ NoneLeftOver /\ [Next]_vars => IInv' /\ NoneLeftOver'
  BY NextInv, NextNoneLeftOver
<1>3. IInv /\ NoneLeftOver => NoStaleResponse
  <2> SUFFICES ASSUME IInv, NoneLeftOver PROVE NoStaleResponse
    OBVIOUS
  <2>1. CASE is_failed
    BY <2>1 DEF NoStaleResponse
  <2>2. CASE ~ is_failed
    BY <2>2, AlignedNotStale DEF NoneLeftOver, IInv
  <2> QED BY <2>1, <2>2
<1> QED BY <1>1, <1>2, <1>3, PTL DEF Spec
=============================================================================
