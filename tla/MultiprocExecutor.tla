--------------------------- MODULE MultiprocExecutor ---------------------------
(***************************************************************************)
(* Calls from the engine to its workers: class MultiprocExecutor with      *)
(* FutureWrapper, and the loops of WorkerProc                              *)
(* (vllm/v1/executor/multiproc_executor.py).                               *)
(*                                                                         *)
(* A call is broadcast to every worker; one of them or all answer, each on *)
(* a queue of its own.  Neither call nor answer carries a number: the      *)
(* executor relies on reading the answers in the order of the calls.  Calls *)
(* may be left pending as futures, whose answers are read when somebody    *)
(* needs theirs or a later one.  A thread watches the workers, and when one *)
(* dies ends the others and closes the queues, under the engine's feet.    *)
(*                                                                         *)
(* The broadcast and the response queues are those of ShmRingBuffer: here  *)
(* they are queues that lose and reorder nothing.                          *)
(***************************************************************************)
EXTENDS Integers, Sequences, Functions

CONSTANTS
    WorldSize,      \* workers, of ranks 1 .. WorldSize
    OutputRank,     \* output_rank, the one that answers calls with a single answer
    Kinds,          \* the calls the engine makes: records of
                    \*   all        whether every worker answers
                    \*   non_block  whether it returns a future
                    \*   fatal      whether an exception of it ends the engine; that of
                    \*              a utility call is returned to the client
                    \*   fails      whether workers may raise an exception in it
                    \*   expires    whether it has a timeout
    AsyncScheduling,\* whether a thread of the worker sends the answers
    MaxCalls,       \* bound on the calls
    MaxPending,     \* futures pending (the batch queue)
    MaxDeaths       \* workers that may die by themselves

Rank == 1 .. WorldSize

ASSUME ExecutorAssumption ==
    /\ WorldSize \in Nat \ {0} /\ OutputRank \in Rank
    /\ Kinds \subseteq [all : BOOLEAN, non_block : BOOLEAN, fatal : BOOLEAN,
                        fails : BOOLEAN, expires : BOOLEAN]
    /\ AsyncScheduling \in BOOLEAN
    /\ MaxCalls \in Nat /\ MaxPending \in Nat /\ MaxDeaths \in Nat

VARIABLES
    \* the executor, in the engine's thread
    calls,              \* the kind of each call made, in order
    response_mqs,       \* of each call, the queues it reads
    outcome,            \* of each call: pending, the answers, or an exception
    futures_queue,      \* the calls pending, oldest first
    engine,             \* "idle", "registering", "waiting" or "dead"
    target,             \* the call whose result the engine wants
    current,            \* the call whose get_response is under way, or 0
    got,                \* the answers it has read
    \* the workers
    alive,
    sending,            \* whether the thread that sends the answers is there
    rpc_broadcast_mq,   \* the calls each worker has yet to take
    async_output_queue, \* answers the worker's thread has yet to send
    worker_response_mq, \* answers sent
    \* the worker monitor
    monitor,            \* "watching", "failed", "terminated", "closed" or "done"
    deaths              \* counted to bound it

callVars == <<calls, response_mqs, outcome, futures_queue>>
engineVars == <<engine, target, current, got>>
workerVars == <<rpc_broadcast_mq, async_output_queue, worker_response_mq>>
monitorVars == <<alive, sending, monitor, deaths>>
vars == <<callVars, engineVars, workerVars, monitorVars>>

Pending == [status |-> "pending", answers |-> <<>>]
Failed == [status |-> "exception", answers |-> <<>>]
Returned(answers) == [status |-> "returned", answers |-> answers]

is_failed == monitor # "watching"

\* Mutant of closed: shutdown leaves the response queues open.
closed_Never == FALSE

\* shutdown has closed the response queues and dropped them.
closed == monitor \in {"closed", "done"}

\* The workers that answer call c, and whether w does.
Answering(c) == IF calls[c].all THEN [i \in Rank |-> i] ELSE <<OutputRank>>
Answers(c, w) == calls[c].all \/ w = OutputRank

Init ==
    /\ calls = <<>> /\ response_mqs = <<>> /\ outcome = <<>> /\ futures_queue = <<>>
    /\ engine = "idle" /\ target = 0 /\ current = 0 /\ got = <<>>
    /\ rpc_broadcast_mq = [w \in Rank |-> <<>>]
    /\ async_output_queue = [w \in Rank |-> <<>>]
    /\ worker_response_mq = [w \in Rank |-> <<>>]
    /\ alive = [w \in Rank |-> TRUE] /\ sending = [w \in Rank |-> TRUE]
    /\ monitor = "watching" /\ deaths = 0

-----------------------------------------------------------------------------
(* The executor *)

\* What an exception of call c does to the engine.
AfterException(kind) == IF kind.fatal THEN "dead" ELSE "idle"

\* Mutant of MayCall: one future too many.
MayCall_OneMore(kind) == kind.non_block => Len(futures_queue) <= MaxPending

\* The engine keeps its batch queue bounded.
MayCall(kind) == kind.non_block => Len(futures_queue) < MaxPending

\* collective_rpc, up to the broadcast.
collective_rpc(kind) ==
    /\ engine = "idle"
    /\ Len(calls) < MaxCalls
    /\ MayCall(kind)
    /\ IF is_failed
       THEN /\ engine' = AfterException(kind)
            /\ UNCHANGED <<callVars, target, workerVars>>
       ELSE /\ calls' = Append(calls, kind)
            /\ outcome' = Append(outcome, Pending)
            /\ rpc_broadcast_mq' =
                  [w \in Rank |-> Append(rpc_broadcast_mq[w], Len(calls) + 1)]
            /\ engine' = "registering" /\ target' = Len(calls) + 1
            /\ UNCHANGED <<response_mqs, futures_queue, async_output_queue,
                           worker_response_mq>>
    /\ UNCHANGED <<current, got, monitorVars>>

\* The rest of it: the queues to read are looked up (shutdown may have dropped them
\* since the broadcast), and a future is queued or the answers waited for.
Register ==
    /\ engine = "registering"
    /\ IF closed /\ ~calls[target].all
       THEN \* no such queue
            /\ outcome' = [outcome EXCEPT ![target] = Failed]
            /\ response_mqs' = Append(response_mqs, <<>>)
            /\ engine' = AfterException(calls[target]) /\ target' = 0
            /\ UNCHANGED futures_queue
       ELSE /\ response_mqs' = Append(response_mqs,
                                      IF closed THEN <<>> ELSE Answering(target))
            /\ IF calls[target].non_block
               THEN /\ futures_queue' = Append(futures_queue, target)
                    /\ engine' = "idle" /\ target' = 0
               ELSE /\ engine' = "waiting"
                    /\ UNCHANGED <<futures_queue, target>>
            /\ UNCHANGED outcome
    /\ UNCHANGED <<calls, current, got, workerVars, monitorVars>>

\* result of a future; a result that is there already is returned at once.
result(c) ==
    /\ engine = "idle"
    /\ calls[c].non_block
    /\ outcome[c].status # "returned"
    /\ engine' = "waiting" /\ target' = c
    /\ UNCHANGED <<callVars, current, got, workerVars, monitorVars>>

\* Mutant of NextResponse: the pending futures are not drained.
NextResponse_Own == target

\* The next call to read the answers of: the futures ahead come first.
NextResponse == IF futures_queue # <<>> THEN Head(futures_queue) ELSE target

\* The loops of result and collective_rpc that drain the futures: the engine goes on
\* when the call it waits for is done, otherwise the next answers are read.
Drain ==
    /\ engine = "waiting" /\ current = 0
    /\ IF outcome[target] # Pending
       THEN /\ engine' = IF outcome[target] = Failed
                         THEN AfterException(calls[target]) ELSE "idle"
            /\ target' = 0
            /\ UNCHANGED <<futures_queue, current, got>>
       ELSE /\ current' = NextResponse
            /\ got' = <<>>
            /\ futures_queue' = IF futures_queue # <<>> THEN Tail(futures_queue)
                                                     ELSE futures_queue
            /\ UNCHANGED <<engine, target>>
    /\ UNCHANGED <<calls, response_mqs, outcome, workerVars, monitorVars>>

\* get_response, the end: the answers are complete, or it raises an exception.
EndResponse(o) ==
    /\ outcome' = [outcome EXCEPT ![current] = o]
    /\ current' = 0 /\ got' = <<>>

CompleteResponse ==
    /\ engine = "waiting" /\ current # 0
    /\ Len(got) = Len(response_mqs[current])
    /\ EndResponse(Returned(got))
    /\ UNCHANGED <<calls, response_mqs, futures_queue, engine, target, workerVars, monitorVars>>

\* get_response, one dequeue: an answer, the exception a worker sent, the timeout,
\* or the end of a queue that was closed; these two only if there is no answer.
Dequeue ==
    /\ engine = "waiting" /\ current # 0
    /\ Len(got) < Len(response_mqs[current])
    /\ LET w == response_mqs[current][Len(got) + 1]
           mq == worker_response_mq[w]
       IN  IF mq = <<>>
           THEN /\ closed \/ calls[current].expires
                /\ EndResponse(Failed)
                /\ UNCHANGED worker_response_mq
           ELSE /\ worker_response_mq' = [worker_response_mq EXCEPT ![w] = Tail(mq)]
                /\ IF Head(mq).success
                   THEN /\ got' = Append(got, [rank |-> w, call |-> Head(mq).call])
                        /\ UNCHANGED <<outcome, current>>
                   ELSE EndResponse(Failed)
    /\ UNCHANGED <<calls, response_mqs, futures_queue, engine, target, rpc_broadcast_mq,
                   async_output_queue, monitorVars>>

\* The engine takes EXECUTOR_FAILED from its input queue.
ExecutorFailed ==
    /\ engine = "idle" /\ monitor = "done"
    /\ engine' = "dead"
    /\ UNCHANGED <<callVars, target, current, got, workerVars, monitorVars>>

-----------------------------------------------------------------------------
(* A worker *)

\* Mutant of handle_output: every worker answers.
handle_output_All(w, c, success) ==
    LET output == [call |-> c, success |-> success]
    IN  IF AsyncScheduling
        THEN /\ async_output_queue' = [async_output_queue EXCEPT ![w] = Append(@, output)]
             /\ UNCHANGED worker_response_mq
        ELSE /\ worker_response_mq' = [worker_response_mq EXCEPT ![w] = Append(@, output)]
             /\ UNCHANGED async_output_queue

\* handle_output, for the workers that answer.
handle_output(w, c, success) ==
    LET output == [call |-> c, success |-> success]
    IN  IF ~Answers(c, w)
        THEN UNCHANGED <<async_output_queue, worker_response_mq>>
        ELSE IF AsyncScheduling
        THEN /\ async_output_queue' = [async_output_queue EXCEPT ![w] = Append(@, output)]
             /\ UNCHANGED worker_response_mq
        ELSE /\ worker_response_mq' = [worker_response_mq EXCEPT ![w] = Append(@, output)]
             /\ UNCHANGED async_output_queue

worker_busy_loop(w) ==
    /\ alive[w] /\ rpc_broadcast_mq[w] # <<>>
    /\ rpc_broadcast_mq' = [rpc_broadcast_mq EXCEPT ![w] = Tail(@)]
    /\ LET c == Head(rpc_broadcast_mq[w])
       IN  \E success \in {TRUE} \cup {~calls[c].fails} : handle_output(w, c, success)
    /\ UNCHANGED <<callVars, engineVars, monitorVars>>

\* The thread's loop: get, then enqueue_output.
async_output_busy_loop(w) ==
    /\ alive[w] /\ sending[w] /\ async_output_queue[w] # <<>>
    /\ async_output_queue' = [async_output_queue EXCEPT ![w] = Tail(@)]
    /\ worker_response_mq' =
          [worker_response_mq EXCEPT ![w] = Append(@, Head(async_output_queue[w]))]
    /\ UNCHANGED <<callVars, engineVars, rpc_broadcast_mq, monitorVars>>

\* enqueue_output raises, as getting or pickling the output may.  No try surrounds it
\* in the thread: the thread ends and the output is lost, but the process lives on.
\* (Without the thread the exception leaves worker_busy_loop, and the process ends as
\* in Die.)
OutputThreadEnds(w) ==
    /\ alive[w] /\ sending[w] /\ async_output_queue[w] # <<>>
    /\ async_output_queue' = [async_output_queue EXCEPT ![w] = Tail(@)]
    /\ sending' = [sending EXCEPT ![w] = FALSE]
    /\ UNCHANGED <<callVars, engineVars, rpc_broadcast_mq, worker_response_mq, alive, monitor,
                   deaths>>

\* The process ends; what it had not sent is lost.
Die(w) ==
    /\ alive[w] /\ deaths < MaxDeaths
    /\ alive' = [alive EXCEPT ![w] = FALSE]
    /\ deaths' = deaths + 1
    /\ UNCHANGED <<callVars, engineVars, workerVars, sending, monitor>>

-----------------------------------------------------------------------------
(* The worker monitor *)

\* Mutant of Notice: it waits for all the workers.
Notice_All ==
    /\ monitor = "watching" /\ \A w \in Rank : ~alive[w]
    /\ monitor' = "failed"
    /\ UNCHANGED <<callVars, engineVars, workerVars, alive, sending, deaths>>

\* monitor_workers: it notices a death, ...
Notice ==
    /\ monitor = "watching" /\ \E w \in Rank : ~alive[w]
    /\ monitor' = "failed"
    /\ UNCHANGED <<callVars, engineVars, workerVars, alive, sending, deaths>>

\* ... ends the other workers (shutdown), ...
Terminate ==
    /\ monitor = "failed"
    /\ monitor' = "terminated" /\ alive' = [w \in Rank |-> FALSE]
    /\ UNCHANGED <<callVars, engineVars, workerVars, sending, deaths>>

\* ... closes the queues (shutdown), ...
Close ==
    /\ monitor = "terminated"
    /\ monitor' = "closed"
    /\ UNCHANGED <<callVars, engineVars, workerVars, alive, sending, deaths>>

\* ... and calls the failure callback, which queues EXECUTOR_FAILED for the engine.
Callback ==
    /\ monitor = "closed"
    /\ monitor' = "done"
    /\ UNCHANGED <<callVars, engineVars, workerVars, alive, sending, deaths>>

-----------------------------------------------------------------------------
EngineSteps == Register \/ Drain \/ CompleteResponse \/ Dequeue \/ ExecutorFailed
WorkerSteps(w) == worker_busy_loop(w) \/ async_output_busy_loop(w)
MonitorSteps == Notice \/ Terminate \/ Close \/ Callback

Next ==
    \/ \E kind \in Kinds : collective_rpc(kind)
    \/ \E c \in DOMAIN calls : result(c)
    \/ EngineSteps
    \/ \E w \in Rank : WorkerSteps(w) \/ OutputThreadEnds(w) \/ Die(w)
    \/ MonitorSteps

Spec == Init /\ [][Next]_vars

(* Fairness: the threads of the engine, of each worker and of the monitor    *)
(* are scheduled.  Nobody has to make calls or ask for results, and no       *)
(* worker or output thread has to die: while the latter is there it runs.    *)
FairSpec ==
    /\ Spec
    /\ WF_vars(EngineSteps)
    /\ WF_vars(MonitorSteps)
    /\ \A w \in Rank : WF_vars(worker_busy_loop(w)) /\ WF_vars(async_output_busy_loop(w))

-----------------------------------------------------------------------------
Calls == DOMAIN calls

\* What call c should return, and whether the answer of w to it has been read.
OwnAnswers(c) == [i \in DOMAIN Answering(c) |-> [rank |-> Answering(c)[i], call |-> c]]
IsRead(c, w) == c = current /\ \E i \in DOMAIN got : got[i].rank = w

(* Type invariant.                                                           *)
TypeOK ==
    /\ calls \in Seq(Kinds) /\ Len(calls) <= MaxCalls
    /\ outcome \in Seq([status : {"pending", "exception", "returned"},
                        answers : Seq([rank : Rank, call : Calls])])
    /\ Len(outcome) = Len(calls)
    /\ response_mqs \in Seq(Seq(Rank))
    /\ Len(response_mqs) = IF engine = "registering" THEN Len(calls) - 1 ELSE Len(calls)
    /\ futures_queue \in Seq(Calls) /\ IsInjective(futures_queue)
    /\ Len(futures_queue) <= MaxPending
    /\ engine \in {"idle", "registering", "waiting", "dead"}
    /\ target \in {0} \cup Calls /\ current \in {0} \cup Calls
    /\ got \in Seq([rank : Rank, call : Calls])
    /\ rpc_broadcast_mq \in [Rank -> Seq(Calls)]
    /\ async_output_queue \in [Rank -> Seq([call : Calls, success : BOOLEAN])]
    /\ worker_response_mq \in [Rank -> Seq([call : Calls, success : BOOLEAN])]
    /\ alive \in [Rank -> BOOLEAN] /\ sending \in [Rank -> BOOLEAN]
    /\ monitor \in {"watching", "failed", "terminated", "closed", "done"}
    /\ deaths \in 0 .. MaxDeaths

(* A call returns the answers to that call, one from each worker asked and   *)
(* in the order of the ranks, although nothing in an answer says which call  *)
(* it is for.  This holds until a worker dies: from then on a call that was  *)
(* not answered by all its workers leaves answers behind which the next call *)
(* may read, before the engine learns of the death.                          *)
AnswersMatch ==
    is_failed \/ \A c \in Calls :
        outcome[c].status = "returned" => outcome[c].answers = OwnAnswers(c)

(* What is on its way from a worker is, in order, answers that pending calls *)
(* have yet to read from it: nothing is left over that a later call would    *)
(* take for its own.  Nothing is missing either as long as the worker's      *)
(* output thread is there.                                                   *)
NoStaleResponse ==
    \A w \in Rank : alive[w] /\ ~is_failed =>
        LET answers == worker_response_mq[w] \o async_output_queue[w]
            underway == [i \in DOMAIN answers |-> answers[i].call] \o rpc_broadcast_mq[w]
            IsUnderWay(c) == \E i \in DOMAIN underway : underway[i] = c
            IsAwaited(c) == outcome[c] = Pending /\ ~IsRead(c, w)
        IN  /\ \A i, j \in DOMAIN underway : i < j => underway[i] < underway[j]
            /\ \A i \in DOMAIN answers : Answers(answers[i].call, w)
            /\ \A c \in Calls : Answers(c, w) =>
                  /\ IsUnderWay(c) => IsAwaited(c)
                  /\ IsAwaited(c) /\ sending[w] => IsUnderWay(c)

\* The engine waits, in a call without a timeout, for an answer that nobody is going to
\* send, from a worker that lives.
IsStuck ==
    /\ current # 0 /\ ~calls[current].expires
    /\ Len(got) < Len(response_mqs[current])
    /\ LET w == response_mqs[current][Len(got) + 1]
       IN  alive[w] /\ ~sending[w] /\ worker_response_mq[w] = <<>>

(* The engine gets its answers or an exception, even if the worker that was  *)
(* to answer dies: a wait ends, with the one exception of waiting without a  *)
(* timeout for a worker that lives but has lost its output thread, which     *)
(* nobody watches.                                                           *)
WaitsEnd == (engine = "waiting") ~> (engine # "waiting" \/ IsStuck)

(* The death of a worker ends the engine, whatever it is doing.              *)
DeathIsNoticed == (\E w \in Rank : ~alive[w]) ~> (engine = "dead")

=============================================================================
