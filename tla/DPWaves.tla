------------------------------ MODULE DPWaves ------------------------------
(***************************************************************************)
(* Request waves of a data parallel deployment of a mixture-of-experts     *)
(* model: class DPEngineCoreProc (vllm/v1/engine/core.py), one per rank,   *)
(* class DPCoordinatorProc (vllm/v1/engine/coordinator.py) and the front   *)
(* ends, class DPAsyncMPClient (vllm/v1/engine/core_client.py).            *)
(*                                                                         *)
(* Every forward pass of one rank needs a forward pass of all the others   *)
(* (expert parallel layers communicate), so the ranks run together or not  *)
(* at all: a rank without requests runs dummy passes.  Every SyncInterval  *)
(* passes an all-reduce tells them whether anyone still has a request; if  *)
(* not the wave is over and all of them go to sleep.  Whoever gets a       *)
(* request then has to see to it that all the others wake up.              *)
(*                                                                         *)
(* All processes are independent; their sockets are first-in first-out     *)
(* and lose nothing, and a message may stay in one for any time.           *)
(***************************************************************************)
EXTENDS Integers, Sequences

CONSTANTS
    NumEngines,     \* data_parallel_size
    FrontEnd,       \* the API server processes
    Request,        \* bound: the requests ever sent
    ClientOf,       \* client_index: the front end each request comes to
    Placement,      \* the engines each request may be given to
    Passes,         \* how many forward passes each request needs
    SyncInterval,   \* passes between two all-reduces (32 in the code)
    AbortAllowed,   \* requests the client may abort
    DropAllowed,    \* requests whose preprocessing may raise
    PauseModes,     \* modes pause_scheduler is called with
    MaxCalls        \* bound on the calls of the clients

Engine == 0 .. (NumEngines - 1)
PauseMode == {"abort", "wait", "keep"}

ASSUME DPAssumption ==
    /\ NumEngines \in Nat /\ NumEngines > 1
    /\ SyncInterval \in Nat \ {0}
    /\ Passes \in [Request -> Nat \ {0}] /\ ClientOf \in [Request -> FrontEnd]
    /\ Placement \in [Request -> SUBSET Engine]
    /\ AbortAllowed \subseteq Request /\ DropAllowed \subseteq Request
    /\ PauseModes \subseteq PauseMode /\ MaxCalls \in Nat

VARIABLES
    \* each front end
    fe_wave,         \* current_wave
    fe_running,      \* engines_running
    first_req,       \* FIRST_REQ notes for its own statistics task
    \* their clients
    calls,           \* requests, aborts, pauses and resumes so far
    resume_due,      \* whether a pause has not been followed by its resume
    \* the coordinator
    co_wave,         \* current_wave
    co_running,      \* engines_running
    \* the engines
    current_wave,
    engines_running,
    step_counter,    \* modulo SyncInterval, which is all the code looks at
    pause_state,     \* of the scheduler
    idle_callback,   \* whether a pause waits for the engine to become idle
    pc,              \* where the busy loop is
    \* the requests
    status,          \* "new", "sent", "waiting", "running" or "done"
    engine_of,       \* the engine chosen for it
    passes_left,
    \* the sockets
    input,           \* front end to engine
    to_coordinator,  \* front end to coordinator: <<engine identity, wave>>
    output,          \* engine to coordinator: <<kind, wave>>
    start_wave,      \* coordinator to engine: <<wave, excluded engine>>
    published        \* coordinator to front end: <<wave, running>>

frontVars == <<fe_wave, fe_running, first_req>>
callVars == <<calls, resume_due>>
coordVars == <<co_wave, co_running>>
engineVars == <<current_wave, engines_running, step_counter, pause_state,
                idle_callback, pc>>
requestVars == <<status, engine_of, passes_left>>
socketVars == <<input, to_coordinator, output, start_wave, published>>
vars == <<frontVars, callVars, coordVars, engineVars, requestVars, socketVars>>

-----------------------------------------------------------------------------
(* State and messages *)

NoEngine == -1

\* A front end knows an engine by its socket identity, two bytes; an engine
\* compares what START_DP_WAVE excludes with its index, an integer.  The bytes
\* are never equal to any index.
identity(e) == NumEngines + e

Add(r, w) == [type |-> "ADD", req |-> r, wave |-> w]
Abort(r) == [type |-> "ABORT", req |-> r]
Pause(mode) == [type |-> "PAUSE", mode |-> mode]
Resume == [type |-> "RESUME"]

Init ==
    /\ fe_wave = [f \in FrontEnd |-> 0]
    /\ fe_running = [f \in FrontEnd |-> FALSE]
    /\ first_req = [f \in FrontEnd |-> <<>>]
    /\ calls = 0 /\ resume_due = FALSE
    /\ co_wave = 0 /\ co_running = FALSE
    /\ current_wave = [e \in Engine |-> 0]
    /\ engines_running = [e \in Engine |-> FALSE]
    /\ step_counter = [e \in Engine |-> 0]
    /\ pause_state = [e \in Engine |-> "UNPAUSED"]
    /\ idle_callback = [e \in Engine |-> FALSE]
    /\ pc = [e \in Engine |-> "input"]
    /\ status = [r \in Request |-> "new"]
    /\ engine_of = [r \in Request |-> NoEngine]
    /\ passes_left = Passes
    /\ input = [f \in FrontEnd |-> [e \in Engine |-> <<>>]]
    /\ to_coordinator = [f \in FrontEnd |-> <<>>]
    /\ output = [e \in Engine |-> <<>>]
    /\ start_wave = [e \in Engine |-> <<>>]
    /\ published = [f \in FrontEnd |-> <<>>]

-----------------------------------------------------------------------------
(* Front end *)

\* add_request_async: the request carries the wave the front end believes in;
\* if it believes the engines asleep it leaves a note for the statistics task.
add_request_async(f, r, e) ==
    /\ status[r] = "new" /\ ClientOf[r] = f /\ e \in Placement[r]
    /\ calls < MaxCalls /\ calls' = calls + 1
    /\ status' = [status EXCEPT ![r] = "sent"]
    /\ engine_of' = [engine_of EXCEPT ![r] = e]
    /\ input' = [input EXCEPT ![f][e] = Append(@, Add(r, fe_wave[f]))]
    /\ first_req' = IF fe_running[f] THEN first_req
                    ELSE [first_req EXCEPT ![f] = Append(@, e)]
    /\ UNCHANGED <<fe_wave, fe_running, resume_due, coordVars, engineVars, passes_left,
                   to_coordinator, output, start_wave, published>>

\* abort_requests_async, on the socket its request took.
abort_requests_async(f, r) ==
    /\ r \in AbortAllowed /\ ClientOf[r] = f
    /\ status[r] \notin {"new", "done"}
    /\ calls < MaxCalls /\ calls' = calls + 1
    /\ LET e == engine_of[r]
       IN  /\ \A i \in DOMAIN input[f][e] : input[f][e][i] # Abort(r)
           /\ input' = [input EXCEPT ![f][e] = Append(@, Abort(r))]
    /\ UNCHANGED <<frontVars, resume_due, coordVars, engineVars, requestVars,
                   to_coordinator, output, start_wave, published>>

\* pause_scheduler_async and resume_scheduler_async call all the engines.
SendToAll(f, m) ==
    input' = [input EXCEPT ![f] = [e \in Engine |-> Append(@[e], m)]]

pause_scheduler_async(f, mode) ==
    /\ ~resume_due /\ calls + 2 <= MaxCalls
    /\ calls' = calls + 2 /\ resume_due' = TRUE
    /\ SendToAll(f, Pause(mode))
    /\ UNCHANGED <<frontVars, coordVars, engineVars, requestVars,
                   to_coordinator, output, start_wave, published>>

resume_scheduler_async(f) ==
    /\ resume_due /\ resume_due' = FALSE
    /\ SendToAll(f, Resume)
    /\ UNCHANGED <<frontVars, calls, coordVars, engineVars, requestVars,
                   to_coordinator, output, start_wave, published>>

\* run_engine_stats_update_task, a FIRST_REQ note: the coordinator is told the
\* engine and the wave known now.
forward_first_req(f) ==
    /\ first_req[f] # <<>>
    /\ first_req' = [first_req EXCEPT ![f] = Tail(@)]
    /\ fe_running' = [fe_running EXCEPT ![f] = TRUE]
    /\ to_coordinator' = [to_coordinator EXCEPT ![f] =
                              Append(@, <<identity(Head(first_req[f])), fe_wave[f]>>)]
    /\ UNCHANGED <<fe_wave, callVars, coordVars, engineVars, requestVars,
                   input, output, start_wave, published>>

\* run_engine_stats_update_task, the coordinator's updates: it reads all that
\* have arrived and keeps the last.  While the engines are believed asleep a note
\* goes first if it was there when the sockets were polled; it may have come since.
receive_updates(f) ==
    \E n \in 1 .. Len(published[f]) :
        /\ fe_wave' = [fe_wave EXCEPT ![f] = published[f][n][1]]
        /\ fe_running' = [fe_running EXCEPT ![f] = published[f][n][2]]
        /\ published' = [published EXCEPT ![f] = SubSeq(@, n + 1, Len(@))]
        /\ UNCHANGED <<first_req, callVars, coordVars, engineVars, requestVars,
                       input, to_coordinator, output, start_wave>>

-----------------------------------------------------------------------------
(* Coordinator *)

_send_start_wave(wave, exclude) ==
    start_wave' = [e \in Engine |-> Append(start_wave[e], <<wave, exclude>>)]

\* Every change of the wave state is published to the front ends.
MoveTo(wave, running) ==
    /\ co_wave' = wave
    /\ co_running' = running
    /\ published' = [f \in FrontEnd |-> Append(published[f], <<wave, running>>)]

\* A front end sent a request while it believed the engines asleep.
handle_new_request(f) ==
    /\ to_coordinator[f] # <<>>
    /\ to_coordinator' = [to_coordinator EXCEPT ![f] = Tail(@)]
    /\ LET engine_to_exclude == Head(to_coordinator[f])[1]
           wave == Head(to_coordinator[f])[2]
       IN  \/ co_running /\ UNCHANGED <<coordVars, start_wave, published>>
           \/ /\ ~co_running
              /\ _send_start_wave(co_wave, IF wave < co_wave THEN NoEngine
                                           ELSE engine_to_exclude)
              /\ MoveTo(co_wave, TRUE)
    /\ UNCHANGED <<frontVars, callVars, engineVars, requestVars, input, output>>

\* Mutant of handle_wave_complete: the report of the current wave counts as stale.
handle_wave_complete_Strict(e) ==
    /\ output[e] # <<>> /\ Head(output[e])[1] = "wave_complete"
    /\ output' = [output EXCEPT ![e] = Tail(@)]
    /\ LET wave == Head(output[e])[2]
       IN  \/ co_wave >= wave /\ UNCHANGED <<coordVars, published>>
           \/ co_wave < wave /\ MoveTo(wave + 1, FALSE)
    /\ UNCHANGED <<frontVars, callVars, engineVars, requestVars, input,
                   to_coordinator, start_wave>>

\* Rank 0 reports the end of a wave.
handle_wave_complete(e) ==
    /\ output[e] # <<>> /\ Head(output[e])[1] = "wave_complete"
    /\ output' = [output EXCEPT ![e] = Tail(@)]
    /\ LET wave == Head(output[e])[2]
       IN  \/ co_wave > wave /\ UNCHANGED <<coordVars, published>>
           \/ co_wave <= wave /\ MoveTo(wave + 1, FALSE)
    /\ UNCHANGED <<frontVars, callVars, engineVars, requestVars, input,
                   to_coordinator, start_wave>>

\* An engine asks for a wave to be started.
handle_start_wave(e) ==
    /\ output[e] # <<>> /\ Head(output[e])[1] = "start_wave"
    /\ output' = [output EXCEPT ![e] = Tail(@)]
    /\ LET wave == Head(output[e])[2]
           starts == wave > co_wave \/ (wave = co_wave /\ ~co_running)
       IN  \/ ~starts /\ UNCHANGED <<coordVars, start_wave, published>>
           \/ /\ starts
              /\ _send_start_wave(wave, e)
              /\ MoveTo(wave, TRUE)
    /\ UNCHANGED <<frontVars, callVars, engineVars, requestVars, input, to_coordinator>>

\* The poll times out: the state is published again with the request counts.
\* It is one that changes what some front end believes: the others have no
\* effect.
publish_stats ==
    /\ \A f \in FrontEnd : published[f] = <<>>
    /\ \E f \in FrontEnd : <<fe_wave[f], fe_running[f]>> # <<co_wave, co_running>>
    /\ MoveTo(co_wave, co_running)
    /\ UNCHANGED <<frontVars, callVars, engineVars, requestVars, input,
                   to_coordinator, output, start_wave>>

-----------------------------------------------------------------------------
(* Engine: what it works on *)

Requests(e) == {r \in Request : engine_of[r] = e /\ status[r] \in {"waiting", "running"}}

\* get_num_unfinished_requests depends on the pause state.
Unfinished(e) ==
    CASE pause_state[e] = "UNPAUSED" -> Requests(e)
      [] pause_state[e] = "PAUSED_NEW" -> {r \in Requests(e) : status[r] = "running"}
      [] pause_state[e] = "PAUSED_ALL" -> {}

has_work(e) == engines_running[e] \/ Unfinished(e) # {}

(* Engine: _process_input_queue *)

\* preprocess_add_request raises: the client gets an error, the engine nothing.
handle_preproc_error(e, f) ==
    /\ input[f][e] # <<>> /\ Head(input[f][e]).type = "ADD"
    /\ LET r == Head(input[f][e]).req
       IN  /\ r \in DropAllowed
           /\ status' = [status EXCEPT ![r] = "done"]
    /\ input' = [input EXCEPT ![f][e] = Tail(@)]
    /\ UNCHANGED <<frontVars, callVars, coordVars, engineVars, engine_of, passes_left,
                   to_coordinator, output, start_wave, published>>

\* Mutant of add_request: the engine wakes, but does not tell the coordinator.
add_request_Silent(e, f) ==
    /\ pc[e] = "input"
    /\ input[f][e] # <<>> /\ Head(input[f][e]).type = "ADD"
    /\ input' = [input EXCEPT ![f][e] = Tail(@)]
    /\ LET r == Head(input[f][e]).req
           request_wave == Head(input[f][e]).wave
           wakes == /\ request_wave < current_wave[e]
                    /\ ~engines_running[e] /\ pause_state[e] = "UNPAUSED"
       IN  /\ status' = [status EXCEPT ![r] = "waiting"]
           /\ current_wave' = IF request_wave > current_wave[e]
                              THEN [current_wave EXCEPT ![e] = request_wave]
                              ELSE current_wave
           /\ engines_running' = [engines_running EXCEPT ![e] = @ \/ wakes]
           /\ UNCHANGED output
    /\ UNCHANGED <<frontVars, callVars, coordVars, step_counter, pause_state, idle_callback,
                   pc, engine_of, passes_left,
                   to_coordinator, start_wave, published>>

\* add_request: a request of an earlier wave finds the engine asleep only if
\* the front end did not know, so nobody else has woken the others.
add_request(e, f) ==
    /\ pc[e] = "input"
    /\ input[f][e] # <<>> /\ Head(input[f][e]).type = "ADD"
    /\ input' = [input EXCEPT ![f][e] = Tail(@)]
    /\ LET r == Head(input[f][e]).req
           request_wave == Head(input[f][e]).wave
           wakes == /\ request_wave < current_wave[e]
                    /\ ~engines_running[e] /\ pause_state[e] = "UNPAUSED"
       IN  /\ status' = [status EXCEPT ![r] = "waiting"]
           /\ current_wave' = IF request_wave > current_wave[e]
                              THEN [current_wave EXCEPT ![e] = request_wave]
                              ELSE current_wave
           /\ engines_running' = [engines_running EXCEPT ![e] = @ \/ wakes]
           /\ output' = IF wakes
                        THEN [output EXCEPT ![e] =
                                  Append(@, <<"start_wave", current_wave[e]>>)]
                        ELSE output
    /\ UNCHANGED <<frontVars, callVars, coordVars, step_counter, pause_state, idle_callback,
                   pc, engine_of, passes_left,
                   to_coordinator, start_wave, published>>

\* abort_requests, which ignores requests that are gone.
abort_requests(e, f) ==
    /\ pc[e] = "input"
    /\ input[f][e] # <<>> /\ Head(input[f][e]).type = "ABORT"
    /\ input' = [input EXCEPT ![f][e] = Tail(@)]
    /\ status' = [status EXCEPT ![Head(input[f][e]).req] = "done"]
    /\ UNCHANGED <<frontVars, callVars, coordVars, engineVars, engine_of, passes_left,
                   to_coordinator, output, start_wave, published>>

\* pause_scheduler: the call returns at once if there is no work, and at the
\* next idle moment otherwise.
pause_scheduler(e, f) ==
    /\ pc[e] = "input"
    /\ input[f][e] # <<>> /\ Head(input[f][e]).type = "PAUSE"
    /\ input' = [input EXCEPT ![f][e] = Tail(@)]
    /\ LET mode == Head(input[f][e]).mode
       IN  /\ status' = IF mode = "abort"
                        THEN [r \in Request |-> IF r \in Requests(e) THEN "done"
                                                ELSE status[r]]
                        ELSE status
           /\ pause_state' = [pause_state EXCEPT ![e] =
                                  IF mode = "keep" THEN "PAUSED_ALL" ELSE "PAUSED_NEW"]
    /\ UNCHANGED <<frontVars, callVars, coordVars, current_wave, engines_running,
                   step_counter, pc, engine_of, passes_left,
                   to_coordinator, output, start_wave, published>>
    /\ idle_callback' = [idle_callback EXCEPT ![e] = @ \/ has_work(e)']

\* resume_scheduler: requests held back meanwhile need the other engines.
resume_scheduler(e, f) ==
    /\ pc[e] = "input"
    /\ input[f][e] # <<>> /\ Head(input[f][e]).type = "RESUME"
    /\ input' = [input EXCEPT ![f][e] = Tail(@)]
    /\ pause_state' = [pause_state EXCEPT ![e] = "UNPAUSED"]
    /\ output' = IF ~engines_running[e] /\ Requests(e) # {}
                 THEN [output EXCEPT ![e] = Append(@, <<"start_wave", current_wave[e]>>)]
                 ELSE output
    /\ UNCHANGED <<frontVars, callVars, coordVars, current_wave, engines_running,
                   step_counter, idle_callback, pc, requestVars,
                   to_coordinator, start_wave, published>>

\* START_DP_WAVE.
handle_start_dp_wave(e) ==
    /\ pc[e] = "input"
    /\ start_wave[e] # <<>>
    /\ start_wave' = [start_wave EXCEPT ![e] = Tail(@)]
    /\ LET new_wave == Head(start_wave[e])[1]
           exclude_eng_index == Head(start_wave[e])[2]
           joins == exclude_eng_index # e /\ new_wave >= current_wave[e]
       IN  IF joins
           THEN /\ current_wave' = [current_wave EXCEPT ![e] = new_wave]
                /\ engines_running' = [engines_running EXCEPT ![e] = TRUE]
           ELSE UNCHANGED <<current_wave, engines_running>>
    /\ UNCHANGED <<frontVars, callVars, coordVars, step_counter, pause_state, idle_callback,
                   pc, requestVars,
                   input, to_coordinator, output, published>>

\* _notify_idle_state_callbacks, when there is no work.
notify_idle(e) ==
    /\ pc[e] = "input" /\ ~has_work(e) /\ idle_callback[e]
    /\ idle_callback' = [idle_callback EXCEPT ![e] = FALSE]
    /\ UNCHANGED <<frontVars, callVars, coordVars, current_wave, engines_running,
                   step_counter, pause_state, pc, requestVars,
                   socketVars>>

-----------------------------------------------------------------------------
(* Engine: run_busy_loop *)

\* A forward pass, of the scheduled requests or a dummy one (execute_dummy_batch):
\* the engine waits in it for all the others.
start_pass(e) ==
    /\ pc[e] = "input" /\ has_work(e)
    /\ pc' = [pc EXCEPT ![e] = "pass"]
    /\ UNCHANGED <<frontVars, callVars, coordVars, current_wave, engines_running,
                   step_counter, pause_state, idle_callback, requestVars, socketVars>>

\* The aborts among the messages the input thread may have received by now;
\* _process_aborts_queue handles them before the output is processed.
PendingAborts(e) ==
    {r \in Unfinished(e) : \E f \in FrontEnd :
        \E i \in DOMAIN input[f][e] : input[f][e][i] = Abort(r)}

\* Mutant of finish_pass: dummy passes are not counted.
finish_pass_DummyUncounted ==
    /\ \A e \in Engine : pc[e] = "pass"
    /\ \E aborted \in SUBSET UNION {PendingAborts(e) : e \in Engine} :
         LET executed == UNION {Unfinished(e) : e \in Engine}
             finished == aborted \cup {r \in executed : passes_left[r] = 1}
         IN  /\ passes_left' = [r \in Request |->
                    IF r \in executed THEN passes_left[r] - 1 ELSE passes_left[r]]
             /\ status' = [r \in Request |->
                    IF r \in finished THEN "done"
                    ELSE IF r \in executed THEN "running" ELSE status[r]]
    /\ step_counter' = [e \in Engine |->
            IF Unfinished(e) = {} THEN step_counter[e]
            ELSE (step_counter[e] + 1) % SyncInterval]
    /\ pc' = [e \in Engine |-> IF step_counter'[e] = 0 THEN "all-reduce" ELSE "input"]
    /\ engines_running' = [e \in Engine |-> step_counter'[e] # 0 \/ engines_running[e]]
    /\ UNCHANGED <<frontVars, callVars, coordVars, current_wave, pause_state,
                   idle_callback, engine_of, socketVars>>

\* Mutant of finish_pass: requests that wait are charged as well.
finish_pass_ChargesAll ==
    /\ \A e \in Engine : pc[e] = "pass"
    /\ \E aborted \in SUBSET UNION {PendingAborts(e) : e \in Engine} :
         LET executed == UNION {Unfinished(e) : e \in Engine}
             finished == aborted \cup {r \in executed : passes_left[r] = 1}
         IN  /\ passes_left' = [r \in Request |->
                    passes_left[r] - 1]
             /\ status' = [r \in Request |->
                    IF r \in finished THEN "done"
                    ELSE IF r \in executed THEN "running" ELSE status[r]]
    /\ step_counter' = [e \in Engine |-> (step_counter[e] + 1) % SyncInterval]
    /\ pc' = [e \in Engine |-> IF step_counter'[e] = 0 THEN "all-reduce" ELSE "input"]
    /\ engines_running' = [e \in Engine |-> step_counter'[e] # 0 \/ engines_running[e]]
    /\ UNCHANGED <<frontVars, callVars, coordVars, current_wave, pause_state,
                   idle_callback, engine_of, socketVars>>

\* The collectives of the layers (external) let the pass end when every rank is
\* in it.  Each engine then processes its output and counts the pass
\* (_has_global_unfinished_reqs); every SyncInterval-th leads to an all-reduce.
\* The engines return one by one, but none does anything that another could
\* see before its next collective or its next look at its input queue, so one
\* step stands for all of them.
finish_pass ==
    /\ \A e \in Engine : pc[e] = "pass"
    /\ \E aborted \in SUBSET UNION {PendingAborts(e) : e \in Engine} :
         LET executed == UNION {Unfinished(e) : e \in Engine}
             finished == aborted \cup {r \in executed : passes_left[r] = 1}
         IN  /\ passes_left' = [r \in Request |->
                    IF r \in executed THEN passes_left[r] - 1 ELSE passes_left[r]]
             /\ status' = [r \in Request |->
                    IF r \in finished THEN "done"
                    ELSE IF r \in executed THEN "running" ELSE status[r]]
    /\ step_counter' = [e \in Engine |-> (step_counter[e] + 1) % SyncInterval]
    /\ pc' = [e \in Engine |-> IF step_counter'[e] = 0 THEN "all-reduce" ELSE "input"]
    /\ engines_running' = [e \in Engine |-> step_counter'[e] # 0 \/ engines_running[e]]
    /\ UNCHANGED <<frontVars, callVars, coordVars, current_wave, pause_state,
                   idle_callback, engine_of, socketVars>>

\* Mutant of finish_all_reduce: rank 0 reports the wave after counting it.
finish_all_reduce_LateReport ==
    /\ \A e \in Engine : pc[e] = "all-reduce"
    /\ pc' = [e \in Engine |-> "input"]
    /\ LET unfinished == \E e \in Engine : Unfinished(e) # {}
       IN  /\ engines_running' = [e \in Engine |-> unfinished]
           /\ IF unfinished
              THEN UNCHANGED <<current_wave, step_counter, output>>
              ELSE /\ current_wave' = [e \in Engine |-> current_wave[e] + 1]
                   /\ step_counter' = [e \in Engine |-> 0]
                   /\ output' = [output EXCEPT ![0] =
                                     Append(@, <<"wave_complete", current_wave[0] + 1>>)]
    /\ UNCHANGED <<frontVars, callVars, coordVars, pause_state, idle_callback, requestVars,
                   input, to_coordinator, start_wave, published>>

\* has_unfinished_dp (external: a maximum over all ranks).  If nobody has a
\* request left the wave is over, and rank 0 tells the coordinator.
finish_all_reduce ==
    /\ \A e \in Engine : pc[e] = "all-reduce"
    /\ pc' = [e \in Engine |-> "input"]
    /\ LET unfinished == \E e \in Engine : Unfinished(e) # {}
       IN  /\ engines_running' = [e \in Engine |-> unfinished]
           /\ IF unfinished
              THEN UNCHANGED <<current_wave, step_counter, output>>
              ELSE /\ current_wave' = [e \in Engine |-> current_wave[e] + 1]
                   /\ step_counter' = [e \in Engine |-> 0]
                   /\ output' = [output EXCEPT ![0] =
                                     Append(@, <<"wave_complete", current_wave[0]>>)]
    /\ UNCHANGED <<frontVars, callVars, coordVars, pause_state, idle_callback, requestVars,
                   input, to_coordinator, start_wave, published>>

-----------------------------------------------------------------------------
\* The front end's part of the next-state relation, the coordinator's and an engine's.
NextFrontEnd(f) ==
    \/ \E r \in Request, e \in Engine : add_request_async(f, r, e)
    \/ \E r \in Request : abort_requests_async(f, r)
    \/ \E mode \in PauseModes : pause_scheduler_async(f, mode)
    \/ resume_scheduler_async(f)
    \/ forward_first_req(f)
    \/ receive_updates(f)

NextCoordinator ==
    \/ \E f \in FrontEnd : handle_new_request(f)
    \/ \E e \in Engine : handle_wave_complete(e) \/ handle_start_wave(e)
    \/ publish_stats

handle_client_request(e, f) ==
    \/ add_request(e, f)
    \/ abort_requests(e, f)
    \/ pause_scheduler(e, f)
    \/ resume_scheduler(e, f)

NextEngine(e) ==
    \/ \E f \in FrontEnd : handle_client_request(e, f) \/ handle_preproc_error(e, f)
    \/ handle_start_dp_wave(e)
    \/ notify_idle(e)
    \/ start_pass(e)

Next ==
    \/ \E f \in FrontEnd : NextFrontEnd(f)
    \/ NextCoordinator
    \/ \E e \in Engine : NextEngine(e)
    \/ finish_pass
    \/ finish_all_reduce

Spec == Init /\ [][Next]_vars

\* The tasks and the busy loops keep running, and sockets deliver.  An engine
\* empties its input queue in every round of its loop, so it cannot pass by a
\* message for ever although it is elsewhere in between (strong fairness).
\* Nobody has to send a request, to abort one or to pause; a pause is followed
\* by a resume.
Fairness ==
    /\ WF_vars(\E f \in FrontEnd :
          forward_first_req(f) \/ receive_updates(f) \/ resume_scheduler_async(f))
    /\ WF_vars(\/ \E f \in FrontEnd : handle_new_request(f)
               \/ \E e \in Engine : handle_wave_complete(e) \/ handle_start_wave(e))
    /\ WF_vars(\/ \E e \in Engine : start_pass(e) \/ notify_idle(e)
               \/ finish_pass \/ finish_all_reduce)
    /\ \A e \in Engine : SF_vars(\/ handle_start_dp_wave(e)
                                 \/ \E f \in FrontEnd : handle_client_request(e, f))

FairSpec == Spec /\ Fairness

-----------------------------------------------------------------------------
(* Properties *)

PauseState == {"UNPAUSED", "PAUSED_NEW", "PAUSED_ALL"}

\* Every variable has its type.
TypeOK ==
    /\ fe_wave \in [FrontEnd -> Nat] /\ fe_running \in [FrontEnd -> BOOLEAN]
    /\ first_req \in [FrontEnd -> Seq(Engine)]
    /\ calls \in 0 .. MaxCalls /\ resume_due \in BOOLEAN
    /\ co_wave \in Nat /\ co_running \in BOOLEAN
    /\ current_wave \in [Engine -> Nat] /\ engines_running \in [Engine -> BOOLEAN]
    /\ step_counter \in [Engine -> 0 .. (SyncInterval - 1)]
    /\ pause_state \in [Engine -> PauseState] /\ idle_callback \in [Engine -> BOOLEAN]
    /\ pc \in [Engine -> {"input", "pass", "all-reduce"}]
    /\ status \in [Request -> {"new", "sent", "waiting", "running", "done"}]
    /\ engine_of \in [Request -> Engine \cup {NoEngine}]
    /\ passes_left \in [Request -> Nat]

\* The ranks are always in the same collective: none waits in a forward pass
\* while another waits in the all-reduce (_has_global_unfinished_reqs counts
\* passes separately in each rank).
CollectivesMatch ==
    \A d, e \in Engine : ~(pc[d] = "pass" /\ pc[e] = "all-reduce")

\* The engines agree on the wave, and nobody is ahead of them: not the
\* coordinator, a front end, or a message on its way.  (In particular
\* add_request and START_DP_WAVE never have to move an engine forward.)
NoWaveAhead ==
    \A e \in Engine :
        /\ \A d \in Engine : current_wave[d] = current_wave[e]
        /\ co_wave <= current_wave[e]
        /\ \A f \in FrontEnd : fe_wave[f] <= current_wave[e]
        /\ \A i \in DOMAIN start_wave[e] : start_wave[e][i][1] <= current_wave[e]
        /\ \A f \in FrontEnd : \A i \in DOMAIN input[f][e] :
              input[f][e][i].type = "ADD" => input[f][e][i].wave <= current_wave[e]

\* Once every engine sleeps and every message has been handled, coordinator and
\* engines agree on the wave and that nobody runs: the next request will find
\* what it needs to wake everybody.
Quiet ==
    /\ \A e \in Engine : pc[e] = "input" /\ ~has_work(e)
    /\ \A e \in Engine : output[e] = <<>> /\ start_wave[e] = <<>>
    /\ \A f \in FrontEnd : to_coordinator[f] = <<>> /\ first_req[f] = <<>>
    /\ \A f \in FrontEnd, e \in Engine : input[f][e] = <<>>
QuietMeansPaused ==
    Quiet => ~co_running /\ \A e \in Engine : current_wave[e] = co_wave

\* Every request that was sent finishes, every pause is answered and all the
\* engines go to sleep: nobody waits for ever in a collective for ranks that
\* nobody has woken, and nobody spins in dummy passes for ever.
EverythingComesToRest ==
    <>[](/\ \A r \in Request : status[r] \in {"new", "done"}
         /\ \A e \in Engine : pc[e] = "input" /\ ~has_work(e) /\ ~idle_callback[e])
=============================================================================
