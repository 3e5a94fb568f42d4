---------------------------- MODULE DPWavesProof ----------------------------
(***************************************************************************)
(* For every number of engines and front ends, whatever their clients do:  *)
(* the ranks are always in the same collective, nobody is ahead of the     *)
(* engines' wave, no request runs past its passes, and when everything is  *)
(* quiet the coordinator knows that the engines sleep.                     *)
(***************************************************************************)
EXTENDS DPWaves, TLAPS

\* What the sockets carry.
ClientMessage ==
    [type : {"ADD"}, req : Request, wave : Nat]
    \cup [type : {"ABORT"}, req : Request]
    \cup [type : {"PAUSE"}, mode : PauseMode]
    \cup [type : {"RESUME"}]

SocketsOK ==
    /\ input \in [FrontEnd -> [Engine -> Seq(ClientMessage)]]
    /\ to_coordinator \in [FrontEnd -> Seq((Int \ Engine) \X Nat)]
    /\ output \in [Engine -> Seq({"wave_complete", "start_wave"} \X Nat)]
    /\ start_wave \in [Engine -> Seq(Nat \X Int)]
    /\ published \in [FrontEnd -> Seq(Nat \X BOOLEAN)]

\* The ranks count passes together and enter the all-reduce together.
Lockstep ==
    \A d, e \in Engine :
        /\ step_counter[d] = step_counter[e]
        /\ pc[d] = "all-reduce" => pc[e] = "all-reduce"

\* The wave of the engines.
Wave == current_wave[0]

\* Neither is a message of an engine or to a front end ahead, and a wave that
\* was completed is over.
MessagesBehind ==
    /\ \A e \in Engine : \A i \in DOMAIN output[e] :
          /\ output[e][i][2] <= Wave
          /\ output[e][i][1] = "wave_complete" => output[e][i][2] < Wave
    /\ \A f \in FrontEnd : \A i \in DOMAIN published[f] : published[f][i][1] <= Wave

\* A coordinator that is behind has yet to read of the last wave's end.
CompletionUnderWay ==
    co_wave < Wave =>
        \E i \in DOMAIN output[0] : output[0][i] = <<"wave_complete", Wave - 1>>

\* A coordinator that believes the engines run in the current wave is right
\* about one of them, or has told it to.
StartUnderWay ==
    co_running /\ co_wave = Wave =>
        \E e \in Engine :
            \/ engines_running[e]
            \/ \E i \in DOMAIN start_wave[e] :
                  start_wave[e][i][1] = Wave /\ start_wave[e][i][2] # e

\* A request that is not done has passes left, and one that was sent an engine.
RequestsOK ==
    \A r \in Request :
        /\ status[r] # "done" => passes_left[r] > 0
        /\ status[r] # "new" => engine_of[r] \in Engine

\* A request on its way to its engine is "sent" and on its way once only, and no
\* abort of it is ahead on the same socket.
AddOK(f, e, i) ==
    LET r == input[f][e][i].req
    IN  /\ status[r] = "sent" /\ ClientOf[r] = f /\ engine_of[r] = e
        /\ \A j \in DOMAIN input[f][e] :
              /\ j # i /\ input[f][e][j].type = "ADD" => input[f][e][j].req # r
              /\ j < i /\ input[f][e][j].type = "ABORT" => input[f][e][j].req # r

\* An abort takes the socket its request took.
AbortOK(f, e, i) ==
    LET r == input[f][e][i].req
    IN  status[r] # "new" /\ ClientOf[r] = f /\ engine_of[r] = e

MessagesInOrder ==
    \A f \in FrontEnd, e \in Engine : \A i \in DOMAIN input[f][e] :
        /\ input[f][e][i].type = "ADD" => AddOK(f, e, i)
        /\ input[f][e][i].type = "ABORT" => AbortOK(f, e, i)

IInv ==
    /\ TypeOK
    /\ SocketsOK
    /\ Lockstep
    /\ NoWaveAhead
    /\ MessagesBehind
    /\ CompletionUnderWay
    /\ StartUnderWay
    /\ RequestsOK
    /\ MessagesInOrder


(***************************************************************************)
(* The engines are numbered from 0, and there are at least two.            *)
(***************************************************************************)
LEMMA EngineFacts ==
    /\ 0 \in Engine
    /\ \A e \in Engine : e \in Nat /\ identity(e) \in Int \ Engine
    /\ \A e \in Engine : \E d \in Engine : d # e
    /\ NoEngine \in Int \ Engine
<1>1. 0 \in Engine /\ 1 \in Engine
  BY DPAssumption DEF Engine
<1>2. \A e \in Engine : e \in Nat /\ identity(e) \in Int \ Engine
  BY DPAssumption DEF Engine, identity
<1>3. \A e \in Engine : \E d \in Engine : d # e
  BY <1>1
<1>4. NoEngine \in Int \ Engine
  BY DEF NoEngine, Engine
<1> QED BY <1>1, <1>2, <1>3, <1>4

(***************************************************************************)
(* The deployment starts in the invariant.                                 *)
(***************************************************************************)
LEMMA InitInv == Init => IInv
<1> SUFFICES ASSUME Init PROVE IInv
  OBVIOUS
<1> USE EngineFacts, DPAssumption
<1>1. TypeOK
  <2>1. /\ fe_wave \in [FrontEnd -> Nat] /\ first_req \in [FrontEnd -> Seq(Engine)]
        /\ calls \in 0 .. MaxCalls /\ co_wave \in Nat /\ current_wave \in [Engine -> Nat]
    BY DEF Init
  <2>4. /\ resume_due \in BOOLEAN /\ co_running \in BOOLEAN
        /\ fe_running \in [FrontEnd -> BOOLEAN]
    BY DEF Init
  <2>2. /\ engines_running \in [Engine -> BOOLEAN]
        /\ step_counter \in [Engine -> 0 .. (SyncInterval - 1)]
        /\ pause_state \in [Engine -> PauseState] /\ idle_callback \in [Engine -> BOOLEAN]
        /\ pc \in [Engine -> {"input", "pass", "all-reduce"}]
    BY DEF Init, PauseState
  <2>3. /\ status \in [Request -> {"new", "sent", "waiting", "running", "done"}]
        /\ engine_of \in [Request -> Engine \cup {NoEngine}]
        /\ passes_left \in [Request -> Nat]
    BY DEF Init
  <2> QED BY <2>1, <2>2, <2>3, <2>4 DEF TypeOK
<1>2. SocketsOK
  BY DEF Init, SocketsOK
<1>3. Lockstep /\ MessagesBehind /\ CompletionUnderWay /\ StartUnderWay
  BY DEF Init, Lockstep, MessagesBehind, CompletionUnderWay, StartUnderWay, Wave
<1>4. NoWaveAhead
  BY DEF Init, NoWaveAhead
<1>5. RequestsOK /\ MessagesInOrder
  BY DEF Init, RequestsOK, MessagesInOrder
<1> QED BY <1>1, <1>2, <1>3, <1>4, <1>5 DEF IInv

\* What a step that takes the first message out of an engine's input socket leaves.
Taken(f, e) ==
    LET q == input[f][e]
    IN  /\ input' \in [FrontEnd -> [Engine -> Seq(ClientMessage)]]
        /\ \A g \in FrontEnd, d \in Engine : ~(g = f /\ d = e) => input'[g][d] = input[g][d]
        /\ Len(q) \in Nat \ {0} /\ DOMAIN q = 1 .. Len(q)
        /\ Head(q) = q[1] /\ Head(q) \in ClientMessage
        /\ DOMAIN input'[f][e] = 1 .. (Len(q) - 1)
        /\ \A i \in DOMAIN input'[f][e] : i + 1 \in DOMAIN q /\ input'[f][e][i] = q[i + 1]

(***************************************************************************)
(* The step that takes a message does so.                                  *)
(***************************************************************************)
LEMMA TakeInput ==
    ASSUME SocketsOK, NEW f \in FrontEnd, NEW e \in Engine, input[f][e] # <<>>,
           input' = [input EXCEPT ![f][e] = Tail(@)]
    PROVE  Taken(f, e)
<1> DEFINE q == input[f][e]
<1>1. q \in Seq(ClientMessage) /\ q # <<>>
  BY DEF SocketsOK
<1>2. input'[f][e] = Tail(q) /\ Tail(q) \in Seq(ClientMessage)
  BY <1>1 DEF SocketsOK
<1>3. /\ input' \in [FrontEnd -> [Engine -> Seq(ClientMessage)]]
      /\ \A g \in FrontEnd, d \in Engine : ~(g = f /\ d = e) => input'[g][d] = input[g][d]
  BY <1>2 DEF SocketsOK
<1>4. /\ Len(q) \in Nat \ {0} /\ Head(q) = q[1] /\ q[1] \in ClientMessage
      /\ DOMAIN q = 1 .. Len(q)
      /\ Len(Tail(q)) = Len(q) - 1 /\ DOMAIN Tail(q) = 1 .. (Len(q) - 1)
      /\ \A i \in 1 .. (Len(q) - 1) : Tail(q)[i] = q[i + 1]
  <2> HIDE DEF q
  <2> QED BY <1>1
<1>5. \A i \in 1 .. (Len(q) - 1) : i + 1 \in DOMAIN q
  <2> HIDE DEF q
  <2> QED BY <1>4
<1> QED BY <1>2, <1>3, <1>4, <1>5 DEF Taken

(***************************************************************************)
(* The messages left are in order if the requests among them stay sent.    *)
(***************************************************************************)
LEMMA TakeInOrder ==
    ASSUME SocketsOK, MessagesInOrder,
           NEW f \in FrontEnd, NEW e \in Engine, Taken(f, e),
           UNCHANGED engine_of,
           \A r \in Request : status[r] # "new" => status'[r] # "new",
           \A g \in FrontEnd, d \in Engine : \A i \in DOMAIN input'[g][d] :
              input'[g][d][i].type = "ADD" => status'[input'[g][d][i].req] = "sent"
    PROVE  MessagesInOrder'
<1>1. ASSUME NEW g \in FrontEnd, NEW d \in Engine, NEW i \in DOMAIN input'[g][d]
      PROVE  /\ input'[g][d][i].type = "ADD" => AddOK(g, d, i)'
             /\ input'[g][d][i].type = "ABORT" => AbortOK(g, d, i)'
  <2>1. input'[g][d][i].type = "ABORT" => input'[g][d][i].req \in Request
    <3>1. input'[g][d][i] \in ClientMessage
      BY DEF Taken
    <3> QED BY <3>1 DEF ClientMessage
  <2>2. CASE ~(g = f /\ d = e)
    <3>1. input'[g][d] = input[g][d]
      BY <2>2 DEF Taken
    <3>2. input'[g][d][i].type = "ADD" => AddOK(g, d, i) /\ status'[input'[g][d][i].req] = "sent"
      BY <3>1 DEF MessagesInOrder
    <3>3. input'[g][d][i].type = "ABORT" => AbortOK(g, d, i)'
      BY <2>1, <3>1 DEF MessagesInOrder, AbortOK
    <3>4. input'[g][d][i].type = "ADD" => AddOK(g, d, i)'
      BY <3>1, <3>2 DEF AddOK
    <3> QED BY <3>3, <3>4
  <2>3. CASE g = f /\ d = e
    <3>1. /\ i \in Nat /\ i + 1 \in DOMAIN input[f][e] /\ input'[f][e][i] = input[f][e][i + 1]
          /\ \A j \in DOMAIN input'[f][e] :
                j \in Nat /\ j + 1 \in DOMAIN input[f][e] /\ input'[f][e][j] = input[f][e][j + 1]
      BY <2>3 DEF Taken
    <3>2. /\ input'[f][e][i].type = "ADD" => AddOK(f, e, i + 1)
          /\ input'[f][e][i].type = "ABORT" => AbortOK(f, e, i + 1)
      BY <3>1 DEF MessagesInOrder
    <3>3. input'[f][e][i].type = "ADD" => AddOK(f, e, i)'
      <4> SUFFICES ASSUME input'[f][e][i].type = "ADD" PROVE AddOK(f, e, i)'
        OBVIOUS
      <4>1. ASSUME NEW j \in DOMAIN input'[f][e]
            PROVE  /\ j # i /\ input'[f][e][j].type = "ADD"
                          => input'[f][e][j].req # input'[f][e][i].req
                   /\ j < i /\ input'[f][e][j].type = "ABORT"
                          => input'[f][e][j].req # input'[f][e][i].req
        <5>1. j \in Nat /\ j + 1 \in DOMAIN input[f][e] /\ input'[f][e][j] = input[f][e][j + 1]
          BY <3>1
        <5>2. (j # i => j + 1 # i + 1) /\ (j < i => j + 1 < i + 1)
          BY <3>1, <5>1
        <5> QED BY <3>1, <3>2, <5>1, <5>2 DEF AddOK
      <4>2. status'[input'[f][e][i].req] = "sent"
        BY <2>3
      <4> QED BY <3>1, <3>2, <4>1, <4>2 DEF AddOK
    <3>4. input'[f][e][i].type = "ABORT" => AbortOK(f, e, i)'
      BY <2>1, <2>3, <3>1, <3>2 DEF AbortOK
    <3> QED BY <2>3, <3>3, <3>4
  <2> QED BY <2>2, <2>3
<1> QED BY <1>1 DEF MessagesInOrder

(***************************************************************************)
(* Nothing is sent or taken, and what was sent stays sent.                 *)
(***************************************************************************)
LEMMA KeepInOrder ==
    ASSUME SocketsOK, MessagesInOrder, UNCHANGED <<input, engine_of>>,
           \A r \in Request : /\ status[r] = "sent" => status'[r] = "sent"
                              /\ status[r] # "new" => status'[r] # "new"
    PROVE  MessagesInOrder'
<1>1. ASSUME NEW g \in FrontEnd, NEW d \in Engine, NEW i \in DOMAIN input[g][d]
      PROVE  /\ input[g][d][i].type = "ADD" => AddOK(g, d, i)'
             /\ input[g][d][i].type = "ABORT" => AbortOK(g, d, i)'
  <2>1. input[g][d][i].type \in {"ADD", "ABORT"} => input[g][d][i].req \in Request
    <3>1. input[g][d][i] \in ClientMessage
      BY DEF SocketsOK
    <3> QED BY <3>1 DEF ClientMessage
  <2>2. input[g][d][i].type = "ADD" => AddOK(g, d, i)'
    BY <2>1 DEF MessagesInOrder, AddOK
  <2>3. input[g][d][i].type = "ABORT" => AbortOK(g, d, i)'
    BY <2>1 DEF MessagesInOrder, AbortOK
  <2> QED BY <2>2, <2>3
<1> QED BY <1>1 DEF MessagesInOrder

(***************************************************************************)
(* A message other than a request is appended to some of the sockets.      *)
(***************************************************************************)
LEMMA SendInput ==
    ASSUME IInv, NEW m \in ClientMessage, m.type # "ADD",
           UNCHANGED <<status, engine_of, current_wave, co_wave, fe_wave, start_wave>>,
           input' \in [FrontEnd -> [Engine -> Seq(ClientMessage)]],
           \A g \in FrontEnd, d \in Engine :
              \/ input'[g][d] = input[g][d]
              \/ /\ input'[g][d] = Append(input[g][d], m)
                 /\ m.type = "ABORT" => /\ status[m.req] # "new"
                                        /\ ClientOf[m.req] = g /\ engine_of[m.req] = d
    PROVE  NoWaveAhead' /\ MessagesInOrder'
<1>1. ASSUME NEW g \in FrontEnd, NEW d \in Engine, NEW i \in DOMAIN input'[g][d]
      PROVE  /\ input'[g][d][i].type = "ADD" => input'[g][d][i].wave <= current_wave[d]
             /\ input'[g][d][i].type = "ADD" => AddOK(g, d, i)'
             /\ input'[g][d][i].type = "ABORT" => AbortOK(g, d, i)'
  <2> DEFINE q == input[g][d]
  <2>1. CASE input'[g][d] = q
    <3>1. /\ input[g][d][i].type = "ADD" => AddOK(g, d, i)
          /\ input[g][d][i].type = "ABORT" => AbortOK(g, d, i)
          /\ input[g][d][i].type = "ADD" => input[g][d][i].wave <= current_wave[d]
      BY <2>1 DEF IInv, MessagesInOrder, NoWaveAhead
    <3> QED BY <2>1, <3>1 DEF AddOK, AbortOK
  <2>2. CASE input'[g][d] # q
    <3>1. /\ input'[g][d] = Append(q, m) /\ q \in Seq(ClientMessage)
          /\ m.type = "ABORT" => /\ status[m.req] # "new"
                                 /\ ClientOf[m.req] = g /\ engine_of[m.req] = d
      BY <2>2 DEF IInv, SocketsOK
    <3>2. /\ Len(q) \in Nat /\ DOMAIN q = 1 .. Len(q)
          /\ DOMAIN input'[g][d] = 1 .. (Len(q) + 1)
          /\ input'[g][d][Len(q) + 1] = m
          /\ \A j \in 1 .. Len(q) : input'[g][d][j] = q[j]
      <4> HIDE DEF q
      <4> QED BY <3>1
    <3>3. CASE i = Len(q) + 1
      <4>1. input'[g][d][i] = m
        BY <3>2, <3>3
      <4> QED BY <3>1, <4>1 DEF AbortOK
    <3>4. CASE i \in 1 .. Len(q)
      <4>1. /\ i \in Nat /\ i <= Len(q) /\ input'[g][d][i] = q[i] /\ i \in DOMAIN input[g][d]
        BY <3>2, <3>4
      <4>2. /\ q[i].type = "ADD" => AddOK(g, d, i)
            /\ q[i].type = "ABORT" => AbortOK(g, d, i)
            /\ q[i].type = "ADD" => q[i].wave <= current_wave[d]
        BY <4>1 DEF IInv, MessagesInOrder, NoWaveAhead
      <4>3. \A j \in DOMAIN input'[g][d] :
               \/ j \in DOMAIN q /\ input'[g][d][j] = q[j]
               \/ j > i /\ input'[g][d][j] = m
        <5> HIDE DEF q
        <5> QED BY <3>2, <4>1
      <4>4. q[i].type = "ADD" => AddOK(g, d, i)'
        BY <4>1, <4>2, <4>3 DEF AddOK
      <4>5. q[i].type = "ABORT" => AbortOK(g, d, i)'
        BY <4>1, <4>2 DEF AbortOK
      <4> QED BY <4>1, <4>2, <4>4, <4>5
    <3> QED
      <4> HIDE DEF q
      <4> QED BY <3>2, <3>3, <3>4
  <2> QED BY <2>1, <2>2
<1>2. MessagesInOrder'
  BY <1>1 DEF MessagesInOrder
<1>3. NoWaveAhead'
  BY <1>1 DEF IInv, NoWaveAhead
<1> QED BY <1>2, <1>3

(***************************************************************************)
(* The calls of a front end's clients preserve the invariant.              *)
(***************************************************************************)
LEMMA AddRequestAsyncInv ==
    ASSUME IInv, NEW f \in FrontEnd, NEW r \in Request, NEW e \in Engine,
           add_request_async(f, r, e)
    PROVE  IInv'
<1> DEFINE q == input[f][e]
           m == Add(r, fe_wave[f])
<1>1. /\ q \in Seq(ClientMessage) /\ m \in ClientMessage
      /\ m.type = "ADD" /\ m.req = r /\ m.wave = fe_wave[f] /\ m.wave \in Nat
  BY DEF IInv, TypeOK, SocketsOK, ClientMessage, Add
<1>2. /\ \A g \in FrontEnd, d \in Engine : ~(g = f /\ d = e) => input'[g][d] = input[g][d]
      /\ input'[f][e] = Append(q, m)
      /\ input' \in [FrontEnd -> [Engine -> Seq(ClientMessage)]]
  BY <1>1 DEF IInv, SocketsOK, add_request_async
<1>3. /\ Len(q) \in Nat /\ DOMAIN input'[f][e] = 1 .. Len(q) + 1
      /\ DOMAIN q = 1 .. Len(q)
      /\ \A i \in 1 .. Len(q) : input'[f][e][i] = q[i]
      /\ input'[f][e][Len(q) + 1] = m
  BY <1>1, <1>2
<1>4. TypeOK'
  <2>1. calls' \in 0 .. MaxCalls
    BY DPAssumption DEF IInv, TypeOK, add_request_async
  <2>2. /\ status' \in [Request -> {"new", "sent", "waiting", "running", "done"}]
        /\ engine_of' \in [Request -> Engine \cup {NoEngine}]
    BY DEF IInv, TypeOK, add_request_async
  <2>3. first_req' \in [FrontEnd -> Seq(Engine)]
    BY DEF IInv, TypeOK, add_request_async
  <2> QED BY <2>1, <2>2, <2>3 DEF IInv, TypeOK, add_request_async, coordVars, engineVars
<1>5. SocketsOK'
  BY <1>2 DEF IInv, SocketsOK, add_request_async
<1>6. Lockstep' /\ MessagesBehind' /\ CompletionUnderWay' /\ StartUnderWay'
  BY DEF IInv, Lockstep, MessagesBehind, CompletionUnderWay, StartUnderWay, Wave,
         add_request_async, coordVars, engineVars
<1>7. NoWaveAhead'
  <2>1. ASSUME NEW g \in FrontEnd, NEW d \in Engine, NEW i \in DOMAIN input'[g][d],
               input'[g][d][i].type = "ADD"
        PROVE  input'[g][d][i].wave <= current_wave[d]
    <3>1. CASE ~(g = f /\ d = e)
      <4>1. input'[g][d] = input[g][d]
        BY <1>2, <3>1
      <4> QED BY <2>1, <4>1 DEF IInv, NoWaveAhead
    <3>2. CASE g = f /\ d = e /\ i \in 1 .. Len(q)
      <4>1. i \in DOMAIN input[f][e] /\ input'[g][d][i] = input[f][e][i]
        BY <1>3, <3>2
      <4> QED BY <2>1, <3>2, <4>1 DEF IInv, NoWaveAhead
    <3>3. CASE g = f /\ d = e /\ i = Len(q) + 1
      BY <1>1, <1>3, <3>3 DEF IInv, NoWaveAhead
    <3> QED BY <1>1, <1>3, <3>1, <3>2, <3>3
  <2> QED
    BY <2>1 DEF IInv, NoWaveAhead, add_request_async, coordVars, engineVars
<1>8. RequestsOK'
  BY DEF IInv, TypeOK, RequestsOK, add_request_async
<1>9. MessagesInOrder'
  <2>1. /\ status'[r] = "sent" /\ engine_of'[r] = e /\ ClientOf[r] = f
        /\ \A s \in Request : s # r => status'[s] = status[s] /\ engine_of'[s] = engine_of[s]
    BY DEF IInv, TypeOK, add_request_async
  <2>2. ASSUME NEW g \in FrontEnd, NEW d \in Engine, NEW i \in DOMAIN input[g][d],
               input[g][d][i].type \in {"ADD", "ABORT"}
        PROVE  input[g][d][i].req \in Request \ {r}
    <3>1. input[g][d][i] \in ClientMessage
      BY DEF IInv, SocketsOK
    <3> QED BY <2>2, <3>1 DEF IInv, MessagesInOrder, AddOK, AbortOK, ClientMessage, add_request_async
  <2>3. ASSUME NEW g \in FrontEnd, NEW d \in Engine, NEW i \in DOMAIN input'[g][d]
        PROVE  /\ input'[g][d][i].type = "ADD" => AddOK(g, d, i)'
               /\ input'[g][d][i].type = "ABORT" => AbortOK(g, d, i)'
    <3>1. CASE ~(g = f /\ d = e)
      <4>1. input'[g][d] = input[g][d]
        BY <1>2, <3>1
      <4> QED BY <2>1, <2>2, <4>1 DEF IInv, MessagesInOrder, AddOK, AbortOK
    <3>2. CASE g = f /\ d = e /\ i \in 1 .. Len(q)
      <4>1. /\ q[i].type = "ADD" => AddOK(f, e, i)
            /\ q[i].type = "ABORT" => AbortOK(f, e, i)
        BY <1>3, <3>2 DEF IInv, MessagesInOrder
      <4>2. q[i].type \in {"ADD", "ABORT"} => q[i].req \in Request \ {r}
        BY <1>3, <2>2, <3>2
      <4>3. /\ i \in Nat /\ input'[f][e][i] = q[i]
            /\ \A j \in DOMAIN input'[f][e] :
                  \/ j \in DOMAIN q /\ input'[f][e][j] = q[j]
                  \/ j > i /\ input'[f][e][j] = m
        <5> HIDE DEF q, m
        <5> QED BY <1>3, <3>2
      <4> HIDE DEF q, m
      <4>4. q[i].type = "ADD" => AddOK(f, e, i)'
        BY <1>1, <2>1, <4>1, <4>2, <4>3 DEF AddOK, q
      <4>5. q[i].type = "ABORT" => AbortOK(f, e, i)'
        BY <1>1, <2>1, <4>1, <4>2, <4>3 DEF AbortOK, q
      <4> QED BY <3>2, <4>3, <4>4, <4>5
    <3>3. CASE g = f /\ d = e /\ i = Len(q) + 1
      <4>1. \A j \in 1 .. Len(q) : q[j].type \in {"ADD", "ABORT"} => q[j].req # r
        BY <1>3, <2>2
      <4>2. input'[f][e][i] = m /\ i \in Nat
        BY <1>1, <1>3, <3>3
      <4>3. \A j \in DOMAIN input'[f][e] :
                  j = i \/ (j \in 1 .. Len(q) /\ input'[f][e][j] = q[j])
        <5> HIDE DEF q, m
        <5> QED BY <1>3, <3>3
      <4> HIDE DEF q, m
      <4>4. AddOK(f, e, i)'
        BY <1>1, <2>1, <4>1, <4>2, <4>3 DEF AddOK
      <4> QED BY <1>1, <3>3, <4>2, <4>4
    <3> QED BY <1>1, <1>3, <3>1, <3>2, <3>3
  <2> QED BY <2>3 DEF MessagesInOrder
<1> QED BY <1>4, <1>5, <1>6, <1>7, <1>8, <1>9 DEF IInv

(***************************************************************************)
(* An abort goes after its request.                                        *)
(***************************************************************************)
LEMMA AbortRequestsAsyncInv ==
    ASSUME IInv, NEW f \in FrontEnd, NEW r \in Request, abort_requests_async(f, r)
    PROVE  IInv'
<1> DEFINE e == engine_of[r]
<1>1. /\ e \in Engine /\ status[r] # "new" /\ ClientOf[r] = f
      /\ Abort(r) \in ClientMessage /\ Abort(r).type = "ABORT" /\ Abort(r).req = r
  BY DEF IInv, RequestsOK, abort_requests_async, Abort, ClientMessage
<1>2. /\ input' \in [FrontEnd -> [Engine -> Seq(ClientMessage)]]
      /\ \A g \in FrontEnd, d \in Engine :
            \/ input'[g][d] = input[g][d]
            \/ input'[g][d] = Append(input[g][d], Abort(r)) /\ g = f /\ d = e
  <2>1. input' = [input EXCEPT ![f][e] = Append(@, Abort(r))]
    BY DEF abort_requests_async
  <2> HIDE DEF e
  <2> QED BY <1>1, <2>1 DEF IInv, SocketsOK
<1>3. NoWaveAhead' /\ MessagesInOrder'
  <2>1. UNCHANGED <<status, engine_of, current_wave, co_wave, fe_wave, start_wave>>
    BY DEF abort_requests_async, frontVars, coordVars, engineVars, requestVars
  <2> QED BY <1>1, <1>2, <2>1, SendInput
<1>4. TypeOK'
  <2>1. calls' \in 0 .. MaxCalls
    BY DPAssumption DEF IInv, TypeOK, abort_requests_async
  <2> QED
    BY <2>1 DEF IInv, TypeOK, abort_requests_async, frontVars, coordVars, engineVars, requestVars
<1>5. SocketsOK' /\ RequestsOK'
  BY <1>2 DEF IInv, SocketsOK, RequestsOK, abort_requests_async, requestVars
<1>6. Lockstep' /\ MessagesBehind' /\ CompletionUnderWay' /\ StartUnderWay'
  BY DEF IInv, Lockstep, MessagesBehind, CompletionUnderWay, StartUnderWay, Wave,
         abort_requests_async, coordVars, engineVars
<1> QED BY <1>3, <1>4, <1>5, <1>6 DEF IInv

(***************************************************************************)
(* Pauses and resumes go to all the engines.                               *)
(***************************************************************************)
LEMMA PauseResumeAsyncInv ==
    ASSUME IInv, NEW f \in FrontEnd,
           \/ \E mode \in PauseModes : pause_scheduler_async(f, mode)
           \/ resume_scheduler_async(f)
    PROVE  IInv'
<1>1. PICK m \in ClientMessage : m.type \in {"PAUSE", "RESUME"} /\ SendToAll(f, m)
  <2>1. ASSUME NEW mode \in PauseModes, pause_scheduler_async(f, mode)
        PROVE  \E m \in ClientMessage : m.type \in {"PAUSE", "RESUME"} /\ SendToAll(f, m)
    <3>1. Pause(mode) \in ClientMessage /\ Pause(mode).type = "PAUSE"
      BY DPAssumption DEF Pause, ClientMessage
    <3> QED BY <2>1, <3>1 DEF pause_scheduler_async
  <2>2. ASSUME resume_scheduler_async(f)
        PROVE  \E m \in ClientMessage : m.type \in {"PAUSE", "RESUME"} /\ SendToAll(f, m)
    <3>1. Resume \in ClientMessage /\ Resume.type = "RESUME"
      BY DEF Resume, ClientMessage
    <3> QED BY <2>2, <3>1 DEF resume_scheduler_async
  <2> QED BY <2>1, <2>2
<1>2. /\ UNCHANGED <<frontVars, coordVars, engineVars, requestVars,
                     to_coordinator, output, start_wave, published>>
      /\ calls' \in 0 .. MaxCalls /\ resume_due' \in BOOLEAN
  <2>1. CASE \E mode \in PauseModes : pause_scheduler_async(f, mode)
    BY <2>1, DPAssumption DEF IInv, TypeOK, pause_scheduler_async
  <2>2. CASE resume_scheduler_async(f)
    BY <2>2, DPAssumption DEF IInv, TypeOK, resume_scheduler_async
  <2> QED BY <2>1, <2>2
<1>3. /\ input' \in [FrontEnd -> [Engine -> Seq(ClientMessage)]]
      /\ \A g \in FrontEnd, d \in Engine :
            \/ input'[g][d] = input[g][d]
            \/ input'[g][d] = Append(input[g][d], m)
  BY <1>1 DEF IInv, SocketsOK, SendToAll
<1>4. NoWaveAhead' /\ MessagesInOrder'
  <2>1. UNCHANGED <<status, engine_of, current_wave, co_wave, fe_wave, start_wave>>
    BY <1>2 DEF frontVars, coordVars, engineVars, requestVars
  <2>2. m.type # "ADD" /\ m.type # "ABORT"
    BY <1>1
  <2> QED BY <1>3, <2>1, <2>2, SendInput
<1>5. TypeOK'
  BY <1>2 DEF IInv, TypeOK, frontVars, coordVars, engineVars, requestVars
<1>6. SocketsOK' /\ RequestsOK'
  BY <1>2, <1>3 DEF IInv, SocketsOK, RequestsOK, requestVars
<1>7. Lockstep' /\ MessagesBehind' /\ CompletionUnderWay' /\ StartUnderWay'
  BY <1>2 DEF IInv, Lockstep, MessagesBehind, CompletionUnderWay, StartUnderWay, Wave,
              coordVars, engineVars
<1> QED BY <1>4, <1>5, <1>6, <1>7 DEF IInv

(***************************************************************************)
(* The statistics task of a front end: what it tells the coordinator names *)
(* no engine by its index, and what it learns is not ahead.                *)
(***************************************************************************)
LEMMA ForwardFirstReqInv ==
    ASSUME IInv, NEW f \in FrontEnd, forward_first_req(f)
    PROVE  IInv'
<1>1. /\ first_req[f] \in Seq(Engine) /\ first_req[f] # <<>> /\ fe_wave[f] \in Nat
      /\ to_coordinator[f] \in Seq((Int \ Engine) \X Nat)
  BY DEF IInv, TypeOK, SocketsOK, forward_first_req
<1>2. Head(first_req[f]) \in Engine /\ Tail(first_req[f]) \in Seq(Engine)
  BY <1>1
<1>3. identity(Head(first_req[f])) \in Int \ Engine
  BY <1>2, EngineFacts
<1>4. Append(to_coordinator[f], <<identity(Head(first_req[f])), fe_wave[f]>>)
         \in Seq((Int \ Engine) \X Nat)
  BY <1>1, <1>3
<1>5. SocketsOK'
  BY <1>4 DEF IInv, SocketsOK, forward_first_req
<1>6. TypeOK'
  <2>1. first_req' \in [FrontEnd -> Seq(Engine)]
    BY <1>2 DEF IInv, TypeOK, forward_first_req
  <2>2. fe_running' \in [FrontEnd -> BOOLEAN]
    BY DEF IInv, TypeOK, forward_first_req
  <2> QED
    BY <2>1, <2>2 DEF IInv, TypeOK, forward_first_req, callVars, coordVars, engineVars, requestVars
<1>7. Lockstep' /\ NoWaveAhead' /\ MessagesBehind' /\ CompletionUnderWay' /\ StartUnderWay'
  BY DEF IInv, Lockstep, NoWaveAhead, MessagesBehind, CompletionUnderWay, StartUnderWay, Wave,
         forward_first_req, coordVars, engineVars
<1>8. RequestsOK' /\ MessagesInOrder'
  BY DEF IInv, RequestsOK, MessagesInOrder, AddOK, AbortOK, forward_first_req, requestVars
<1> QED BY <1>5, <1>6, <1>7, <1>8 DEF IInv

(***************************************************************************)
(* A front end takes over an update of the coordinator.                    *)
(***************************************************************************)
LEMMA ReceiveUpdatesInv ==
    ASSUME IInv, NEW f \in FrontEnd, receive_updates(f)
    PROVE  IInv'
<1> DEFINE p == published[f]
<1>1. PICK n \in 1 .. Len(p) :
        /\ fe_wave' = [fe_wave EXCEPT ![f] = p[n][1]]
        /\ fe_running' = [fe_running EXCEPT ![f] = p[n][2]]
        /\ published' = [published EXCEPT ![f] = SubSeq(@, n + 1, Len(@))]
        /\ UNCHANGED <<first_req, callVars, coordVars, engineVars, requestVars,
                       input, to_coordinator, output, start_wave>>
  BY DEF receive_updates
<1>2. p \in Seq(Nat \X BOOLEAN)
  BY DEF IInv, SocketsOK
<1>3. p[n] \in Nat \X BOOLEAN /\ p[n][1] \in Nat /\ p[n][2] \in BOOLEAN
  <2> HIDE DEF p
  <2> QED BY <1>2
<1>4. /\ SubSeq(p, n + 1, Len(p)) \in Seq(Nat \X BOOLEAN)
      /\ \A i \in DOMAIN SubSeq(p, n + 1, Len(p)) :
            n + i \in DOMAIN p /\ SubSeq(p, n + 1, Len(p))[i] = p[n + i]
  <2> HIDE DEF p
  <2>1. Len(p) \in Nat /\ DOMAIN p = 1 .. Len(p) /\ n \in 1 .. Len(p)
    BY <1>2
  <2>2. SubSeq(p, n + 1, Len(p)) = [i \in 1 .. (Len(p) - n) |-> p[n + i]]
    BY <1>2, <2>1
  <2>3. \A i \in 1 .. (Len(p) - n) : n + i \in 1 .. Len(p)
    BY <2>1
  <2>4. SubSeq(p, n + 1, Len(p)) \in Seq(Nat \X BOOLEAN)
    BY <1>2, <2>1
  <2> QED BY <2>1, <2>2, <2>3, <2>4
<1>5. SocketsOK'
  BY <1>1, <1>4 DEF IInv, SocketsOK
<1>6. TypeOK'
  <2>1. fe_wave' \in [FrontEnd -> Nat]
    BY <1>1, <1>3 DEF IInv, TypeOK
  <2>2. fe_running' \in [FrontEnd -> BOOLEAN]
    BY <1>1, <1>3 DEF IInv, TypeOK
  <2> QED
    BY <1>1, <2>1, <2>2 DEF IInv, TypeOK, callVars, coordVars, engineVars, requestVars
<1>7. p[n][1] <= Wave /\ \A d \in Engine : current_wave[d] = Wave
  BY <1>2, EngineFacts DEF IInv, MessagesBehind, NoWaveAhead, Wave
<1>8. NoWaveAhead'
  BY <1>1, <1>7 DEF IInv, TypeOK, NoWaveAhead, coordVars, engineVars
<1>9. MessagesBehind'
  <2>1. \A g \in FrontEnd : \A i \in DOMAIN published'[g] : published'[g][i][1] <= Wave
    BY <1>1, <1>4 DEF IInv, SocketsOK, MessagesBehind
  <2> QED BY <1>1, <2>1 DEF IInv, MessagesBehind, Wave, engineVars
<1>10. Lockstep' /\ CompletionUnderWay' /\ StartUnderWay'
  BY <1>1 DEF IInv, Lockstep, CompletionUnderWay, StartUnderWay, Wave, coordVars, engineVars
<1>11. RequestsOK' /\ MessagesInOrder'
  BY <1>1 DEF IInv, RequestsOK, MessagesInOrder, AddOK, AbortOK, requestVars
<1> QED BY <1>5, <1>6, <1>8, <1>9, <1>10, <1>11 DEF IInv

(***************************************************************************)
(* All engines are in one wave.                                            *)
(***************************************************************************)
LEMMA OneWave ==
    ASSUME IInv
    PROVE  Wave \in Nat /\ co_wave \in Nat /\ co_wave <= Wave /\ \A e \in Engine : current_wave[e] = Wave
BY EngineFacts DEF IInv, TypeOK, NoWaveAhead, Wave

(***************************************************************************)
(* What the coordinator sends to the engines and the front ends is not     *)
(* ahead if the wave it names is not.                                      *)
(***************************************************************************)
LEMMA SendStartWave ==
    ASSUME IInv, NEW w \in Nat, w <= Wave, NEW x \in Int, _send_start_wave(w, x)
    PROVE  /\ start_wave' \in [Engine -> Seq(Nat \X Int)]
           /\ \A e \in Engine : \A i \in DOMAIN start_wave'[e] : start_wave'[e][i][1] <= Wave
           /\ \A e \in Engine : \E i \in DOMAIN start_wave'[e] : start_wave'[e][i] = <<w, x>>
<1>1. ASSUME NEW e \in Engine
      PROVE  /\ start_wave'[e] \in Seq(Nat \X Int)
             /\ \A i \in DOMAIN start_wave'[e] : start_wave'[e][i][1] <= Wave
             /\ \E i \in DOMAIN start_wave'[e] : start_wave'[e][i] = <<w, x>>
  <2> DEFINE q == start_wave[e]
  <2>1. q \in Seq(Nat \X Int) /\ <<w, x>> \in Nat \X Int /\ start_wave'[e] = Append(q, <<w, x>>)
    BY DEF IInv, SocketsOK, _send_start_wave
  <2>2. \A i \in DOMAIN q : q[i][1] <= Wave
    BY OneWave DEF IInv, NoWaveAhead
  <2> HIDE DEF q
  <2>3. /\ Append(q, <<w, x>>) \in Seq(Nat \X Int) /\ Len(q) \in Nat /\ DOMAIN q = 1 .. Len(q)
        /\ DOMAIN Append(q, <<w, x>>) = 1 .. (Len(q) + 1)
        /\ \A i \in 1 .. Len(q) : Append(q, <<w, x>>)[i] = q[i]
        /\ Append(q, <<w, x>>)[Len(q) + 1] = <<w, x>>
    BY <2>1
  <2>4. \A i \in 1 .. (Len(q) + 1) : i \in 1 .. Len(q) \/ i = Len(q) + 1
    BY <2>3
  <2>5. Len(q) + 1 \in 1 .. (Len(q) + 1)
    BY <2>3
  <2> QED BY <2>1, <2>2, <2>3, <2>4, <2>5
<1>2. start_wave' = [e \in Engine |-> start_wave'[e]]
  BY DEF _send_start_wave
<1> QED BY <1>1, <1>2

(***************************************************************************)
(* The same for what it publishes.                                         *)
(***************************************************************************)
LEMMA MoveToPublishes ==
    ASSUME IInv, NEW w \in Nat, w <= Wave, NEW b \in BOOLEAN, MoveTo(w, b)
    PROVE  /\ published' \in [FrontEnd -> Seq(Nat \X BOOLEAN)]
           /\ \A f \in FrontEnd : \A i \in DOMAIN published'[f] : published'[f][i][1] <= Wave
           /\ co_wave' = w /\ co_running' = b
<1>1. ASSUME NEW f \in FrontEnd
      PROVE  /\ published'[f] \in Seq(Nat \X BOOLEAN)
             /\ \A i \in DOMAIN published'[f] : published'[f][i][1] <= Wave
  <2> DEFINE q == published[f]
  <2>1. q \in Seq(Nat \X BOOLEAN) /\ <<w, b>> \in Nat \X BOOLEAN /\ published'[f] = Append(q, <<w, b>>)
    BY DEF IInv, SocketsOK, MoveTo
  <2>2. \A i \in DOMAIN q : q[i][1] <= Wave
    BY DEF IInv, MessagesBehind
  <2> HIDE DEF q
  <2>3. /\ Append(q, <<w, b>>) \in Seq(Nat \X BOOLEAN) /\ Len(q) \in Nat /\ DOMAIN q = 1 .. Len(q)
        /\ DOMAIN Append(q, <<w, b>>) = 1 .. (Len(q) + 1)
        /\ \A i \in 1 .. Len(q) : Append(q, <<w, b>>)[i] = q[i]
        /\ Append(q, <<w, b>>)[Len(q) + 1] = <<w, b>>
    BY <2>1
  <2>4. \A i \in 1 .. (Len(q) + 1) : i \in 1 .. Len(q) \/ i = Len(q) + 1
    BY <2>3
  <2> QED BY <2>1, <2>2, <2>3, <2>4
<1>2. published' = [f \in FrontEnd |-> published'[f]] /\ co_wave' = w /\ co_running' = b
  BY DEF MoveTo
<1> QED BY <1>1, <1>2

(***************************************************************************)
(* The coordinator moves to a wave that is not ahead.                      *)
(***************************************************************************)
LEMMA CoordinatorNotAhead ==
    ASSUME IInv, UNCHANGED <<frontVars, engineVars, input>>, co_wave' <= Wave,
           \A e \in Engine : \A i \in DOMAIN start_wave'[e] : start_wave'[e][i][1] <= Wave
    PROVE  NoWaveAhead'
<1>1. UNCHANGED <<fe_wave, current_wave, input>>
  BY DEF frontVars, engineVars
<1>2. \A e \in Engine : current_wave[e] = Wave
  BY OneWave
<1> QED BY <1>1, <1>2 DEF IInv, NoWaveAhead

\* What a step that takes the first message of an engine leaves.
OutputTaken(e) ==
    LET m == Head(output[e])
    IN  /\ output' \in [Engine -> Seq({"wave_complete", "start_wave"} \X Nat)]
        /\ m \in {"wave_complete", "start_wave"} \X Nat /\ m[2] \in Nat /\ m[2] <= Wave
        /\ m[1] = "wave_complete" => m[2] < Wave
        /\ \A k \in DOMAIN output[0] :
              \/ output[0][k] = m
              \/ \E i \in DOMAIN output'[0] : output'[0][i] = output[0][k]
        /\ \A d \in Engine : \A i \in DOMAIN output'[d] :
              /\ output'[d][i][2] <= Wave
              /\ output'[d][i][1] = "wave_complete" => output'[d][i][2] < Wave

(***************************************************************************)
(* The coordinator takes a message of an engine.                           *)
(***************************************************************************)
LEMMA TakeOutput ==
    ASSUME IInv, NEW e \in Engine, output[e] # <<>>, output' = [output EXCEPT ![e] = Tail(@)]
    PROVE  OutputTaken(e)
<1> DEFINE q == output[e]
           M == {"wave_complete", "start_wave"} \X Nat
<1>1. q \in Seq(M) /\ q # <<>> /\ output \in [Engine -> Seq(M)]
  BY DEF IInv, SocketsOK
<1>2. \A i \in DOMAIN q : q[i][2] <= Wave /\ (q[i][1] = "wave_complete" => q[i][2] < Wave)
  BY DEF IInv, MessagesBehind
<1>3. output'[e] = Tail(q) /\ \A d \in Engine : d # e => output'[d] = output[d]
  BY <1>1
<1>4. /\ Tail(q) \in Seq(M) /\ Len(q) \in Nat /\ DOMAIN q = 1 .. Len(q)
      /\ DOMAIN Tail(q) = 1 .. (Len(q) - 1) /\ Head(q) = q[1] /\ 1 \in 1 .. Len(q)
      /\ \A i \in 1 .. (Len(q) - 1) : Tail(q)[i] = q[i + 1]
      /\ Head(q) \in M
  <2> HIDE DEF q, M
  <2> QED BY <1>1
<1>5. /\ \A i \in 1 .. (Len(q) - 1) : i + 1 \in 1 .. Len(q)
      /\ \A k \in 1 .. Len(q) : k = 1 \/ (k - 1 \in 1 .. (Len(q) - 1) /\ k = (k - 1) + 1)
  <2> HIDE DEF q, M
  <2> QED BY <1>4
<1>6. output' \in [Engine -> Seq(M)]
  BY <1>1, <1>4
<1>7. /\ Head(q)[2] \in Nat /\ Head(q)[2] <= Wave
      /\ Head(q)[1] = "wave_complete" => Head(q)[2] < Wave
  BY <1>2, <1>4
<1>8. ASSUME NEW d \in Engine, NEW i \in DOMAIN output'[d]
      PROVE  \E k \in DOMAIN output[d] : output'[d][i] = output[d][k]
  BY <1>3, <1>4, <1>5
<1>9. ASSUME NEW d \in Engine, NEW k \in DOMAIN output[d]
      PROVE  \/ d = e /\ output[d][k] = Head(q)
             \/ \E i \in DOMAIN output'[d] : output'[d][i] = output[d][k]
  <2>1. CASE d = e /\ k # 1
    <3>1. k - 1 \in DOMAIN output'[e] /\ output'[e][k - 1] = output[e][k]
      BY <1>3, <1>4, <1>5, <2>1
    <3> QED BY <2>1, <3>1
  <2> QED BY <1>3, <1>4, <2>1
<1>10. \A k \in DOMAIN output[0] :
          \/ output[0][k] = Head(q)
          \/ \E i \in DOMAIN output'[0] : output'[0][i] = output[0][k]
  BY <1>9, EngineFacts
<1>11. ASSUME NEW d \in Engine, NEW i \in DOMAIN output'[d]
       PROVE  /\ output'[d][i][2] <= Wave
              /\ output'[d][i][1] = "wave_complete" => output'[d][i][2] < Wave
  <2>1. PICK k \in DOMAIN output[d] : output'[d][i] = output[d][k]
    BY <1>8
  <2>2. /\ output[d][k][2] <= Wave
        /\ output[d][k][1] = "wave_complete" => output[d][k][2] < Wave
    BY DEF IInv, MessagesBehind
  <2> QED BY <2>1, <2>2
<1> QED BY <1>4, <1>6, <1>7, <1>10, <1>11 DEF OutputTaken

(***************************************************************************)
(* The coordinator learns of a request: it tells all the engines, since    *)
(* what it excludes is not the index of any.                               *)
(***************************************************************************)
LEMMA HandleNewRequestInv ==
    ASSUME IInv, NEW f \in FrontEnd, handle_new_request(f)
    PROVE  IInv'
<1> DEFINE q == to_coordinator[f]
           x == Head(q)[1]
           exclude == IF Head(q)[2] < co_wave THEN NoEngine ELSE x
<1>1. q \in Seq((Int \ Engine) \X Nat) /\ q # <<>>
  BY DEF IInv, SocketsOK, handle_new_request
<1>2. /\ Tail(q) \in Seq((Int \ Engine) \X Nat)
      /\ Head(q) \in (Int \ Engine) \X Nat /\ Head(q)[1] \in Int \ Engine
  <2> HIDE DEF q
  <2> QED BY <1>1
<1>3. to_coordinator' \in [FrontEnd -> Seq((Int \ Engine) \X Nat)]
  BY <1>2 DEF IInv, SocketsOK, handle_new_request
<1>4. exclude \in Int \ Engine
  BY <1>2, EngineFacts
<1>5. UNCHANGED <<frontVars, callVars, engineVars, requestVars, input, output>>
  BY DEF handle_new_request
<1>6. /\ RequestsOK' /\ MessagesInOrder' /\ Lockstep'
  BY <1>5 DEF IInv, RequestsOK, MessagesInOrder, AddOK, AbortOK, Lockstep, requestVars, engineVars
<1>7. CASE co_running /\ UNCHANGED <<coordVars, start_wave, published>>
  <2>1. TypeOK' /\ SocketsOK'
    BY <1>3, <1>5, <1>7 DEF IInv, TypeOK, SocketsOK, frontVars, callVars, coordVars, engineVars,
                            requestVars
  <2>2. NoWaveAhead' /\ MessagesBehind' /\ CompletionUnderWay' /\ StartUnderWay'
    BY <1>5, <1>7 DEF IInv, NoWaveAhead, MessagesBehind, CompletionUnderWay, StartUnderWay, Wave,
                      frontVars, coordVars, engineVars
  <2> QED BY <1>6, <2>1, <2>2 DEF IInv
<1>8. CASE /\ ~co_running
           /\ _send_start_wave(co_wave, exclude)
           /\ MoveTo(co_wave, TRUE)
  <2>1. /\ start_wave' \in [Engine -> Seq(Nat \X Int)]
        /\ \A e \in Engine : \A i \in DOMAIN start_wave'[e] : start_wave'[e][i][1] <= Wave
        /\ \A e \in Engine : \E i \in DOMAIN start_wave'[e] : start_wave'[e][i] = <<co_wave, exclude>>
    <3> HIDE DEF exclude
    <3> QED BY <1>4, <1>8, OneWave, SendStartWave
  <2>2. /\ published' \in [FrontEnd -> Seq(Nat \X BOOLEAN)]
        /\ \A g \in FrontEnd : \A i \in DOMAIN published'[g] : published'[g][i][1] <= Wave
        /\ co_wave' = co_wave /\ co_running' = TRUE
    BY <1>8, OneWave, MoveToPublishes
  <2>3. TypeOK'
    BY <1>5, <2>2 DEF IInv, TypeOK, frontVars, callVars, engineVars, requestVars
  <2>4. SocketsOK'
    BY <1>3, <1>5, <2>1, <2>2 DEF IInv, SocketsOK
  <2>5. NoWaveAhead'
    BY <1>5, <2>1, <2>2, OneWave, CoordinatorNotAhead
  <2>6. MessagesBehind' /\ CompletionUnderWay'
    BY <1>5, <2>2 DEF IInv, MessagesBehind, CompletionUnderWay, Wave, engineVars
  <2>7. StartUnderWay'
    <3>1. PICK i \in DOMAIN start_wave'[0] : start_wave'[0][i] = <<co_wave, exclude>>
      BY <2>1, EngineFacts
    <3>2. start_wave'[0][i][1] = co_wave /\ start_wave'[0][i][2] # 0
      BY <1>4, <3>1, EngineFacts
    <3> QED BY <1>5, <2>2, <3>2, EngineFacts DEF StartUnderWay, Wave, engineVars
  <2> QED BY <1>6, <2>3, <2>4, <2>5, <2>6, <2>7 DEF IInv
<1> QED BY <1>7, <1>8 DEF handle_new_request

(***************************************************************************)
(* The coordinator learns of a wave's end: if it is the last one it has    *)
(* caught up, and otherwise the end of the last one is still to come.      *)
(***************************************************************************)
LEMMA HandleWaveCompleteInv ==
    ASSUME IInv, NEW e \in Engine, handle_wave_complete(e)
    PROVE  IInv'
<1> DEFINE w == Head(output[e])[2]
<1>1. OutputTaken(e)
  BY TakeOutput DEF handle_wave_complete
<1>2. w \in Nat /\ w < Wave
  BY <1>1 DEF OutputTaken, handle_wave_complete
<1>3. UNCHANGED <<frontVars, callVars, engineVars, requestVars, input, to_coordinator, start_wave>>
  BY DEF handle_wave_complete
<1>4. /\ RequestsOK' /\ MessagesInOrder' /\ Lockstep'
  BY <1>3 DEF IInv, RequestsOK, MessagesInOrder, AddOK, AbortOK, Lockstep, requestVars, engineVars
<1>5. \A d \in Engine : \A i \in DOMAIN output'[d] :
         /\ output'[d][i][2] <= Wave
         /\ output'[d][i][1] = "wave_complete" => output'[d][i][2] < Wave
  BY <1>1 DEF OutputTaken
<1>6. CASE co_wave > w /\ UNCHANGED <<coordVars, published>>
  <2>1. TypeOK' /\ SocketsOK'
    BY <1>1, <1>3, <1>6 DEF IInv, TypeOK, SocketsOK, OutputTaken, frontVars, callVars, coordVars,
                            engineVars, requestVars
  <2>2. NoWaveAhead' /\ MessagesBehind' /\ StartUnderWay'
    BY <1>3, <1>5, <1>6 DEF IInv, NoWaveAhead, MessagesBehind, StartUnderWay, Wave,
                            frontVars, coordVars, engineVars
  <2>3. CompletionUnderWay'
    <3> SUFFICES ASSUME co_wave < Wave
                 PROVE  \E i \in DOMAIN output'[0] : output'[0][i] = <<"wave_complete", Wave - 1>>
      BY <1>3, <1>6 DEF CompletionUnderWay, Wave, coordVars, engineVars
    <3>1. PICK k \in DOMAIN output[0] : output[0][k] = <<"wave_complete", Wave - 1>>
      BY DEF IInv, CompletionUnderWay
    <3>2. output[0][k] # Head(output[e])
      <4>1. output[0][k][2] = Wave - 1
        BY <3>1
      <4>2. w # Wave - 1
        BY <1>2, <1>6, OneWave
      <4> QED BY <4>1, <4>2
    <3> QED BY <1>1, <3>1, <3>2 DEF OutputTaken
  <2> QED BY <1>4, <2>1, <2>2, <2>3 DEF IInv
<1>7. CASE co_wave <= w /\ MoveTo(w + 1, FALSE)
  <2>1. w + 1 \in Nat /\ w + 1 <= Wave
    BY <1>2, OneWave
  <2>2. /\ published' \in [FrontEnd -> Seq(Nat \X BOOLEAN)]
        /\ \A g \in FrontEnd : \A i \in DOMAIN published'[g] : published'[g][i][1] <= Wave
        /\ co_wave' = w + 1 /\ co_running' = FALSE
    <3> HIDE DEF w
    <3> QED BY <1>7, <2>1, MoveToPublishes
  <2>3. TypeOK'
    BY <1>3, <2>1, <2>2 DEF IInv, TypeOK, frontVars, callVars, engineVars, requestVars
  <2>4. SocketsOK'
    BY <1>1, <1>3, <2>2 DEF IInv, SocketsOK, OutputTaken
  <2>5. NoWaveAhead'
    BY <1>3, <2>1, <2>2, OneWave DEF IInv, NoWaveAhead, frontVars, engineVars
  <2>6. MessagesBehind' /\ StartUnderWay'
    BY <1>3, <1>5, <2>2 DEF MessagesBehind, StartUnderWay, Wave, engineVars
  <2>7. CompletionUnderWay'
    <3> SUFFICES ASSUME w + 1 < Wave
                 PROVE  \E i \in DOMAIN output'[0] : output'[0][i] = <<"wave_complete", Wave - 1>>
      BY <1>3, <2>2 DEF CompletionUnderWay, Wave, engineVars
    <3>1. co_wave < Wave
      BY <1>2, <1>7, OneWave
    <3>2. PICK k \in DOMAIN output[0] : output[0][k] = <<"wave_complete", Wave - 1>>
      BY <3>1 DEF IInv, CompletionUnderWay
    <3>3. output[0][k] # Head(output[e])
      <4>1. output[0][k][2] = Wave - 1
        BY <3>2
      <4>2. w # Wave - 1
        BY <1>2, OneWave
      <4> QED BY <4>1, <4>2
    <3> QED BY <1>1, <3>2, <3>3 DEF OutputTaken
  <2> QED BY <1>4, <2>3, <2>4, <2>5, <2>6, <2>7 DEF IInv
<1> QED BY <1>6, <1>7 DEF handle_wave_complete

(***************************************************************************)
(* The coordinator starts a wave for an engine: at least one other engine  *)
(* is told.                                                                *)
(***************************************************************************)
LEMMA HandleStartWaveInv ==
    ASSUME IInv, NEW e \in Engine, handle_start_wave(e)
    PROVE  IInv'
<1> DEFINE w == Head(output[e])[2]
           starts == w > co_wave \/ (w = co_wave /\ ~co_running)
<1>1. OutputTaken(e) /\ Head(output[e])[1] = "start_wave"
  BY TakeOutput DEF handle_start_wave
<1>2. w \in Nat /\ w <= Wave
  BY <1>1 DEF OutputTaken
<1>3. UNCHANGED <<frontVars, callVars, engineVars, requestVars, input, to_coordinator>>
  BY DEF handle_start_wave
<1>4. /\ RequestsOK' /\ MessagesInOrder' /\ Lockstep'
  BY <1>3 DEF IInv, RequestsOK, MessagesInOrder, AddOK, AbortOK, Lockstep, requestVars, engineVars
<1>5. \A d \in Engine : \A i \in DOMAIN output'[d] :
         /\ output'[d][i][2] <= Wave
         /\ output'[d][i][1] = "wave_complete" => output'[d][i][2] < Wave
  BY <1>1 DEF OutputTaken
<1>6. ASSUME co_wave < Wave
      PROVE  \E i \in DOMAIN output'[0] : output'[0][i] = <<"wave_complete", Wave - 1>>
  <2>1. PICK k \in DOMAIN output[0] : output[0][k] = <<"wave_complete", Wave - 1>>
    BY <1>6 DEF IInv, CompletionUnderWay
  <2>2. output[0][k] # Head(output[e])
    <3>1. output[0][k][1] = "wave_complete"
      BY <2>1
    <3> QED BY <1>1, <3>1
  <2> QED BY <1>1, <2>1, <2>2 DEF OutputTaken
<1>7. CASE ~starts /\ UNCHANGED <<coordVars, start_wave, published>>
  <2>1. TypeOK' /\ SocketsOK'
    BY <1>1, <1>3, <1>7 DEF IInv, TypeOK, SocketsOK, OutputTaken, frontVars, callVars, coordVars,
                            engineVars, requestVars
  <2>2. NoWaveAhead' /\ MessagesBehind' /\ StartUnderWay'
    BY <1>3, <1>5, <1>7 DEF IInv, NoWaveAhead, MessagesBehind, StartUnderWay, Wave,
                            frontVars, coordVars, engineVars
  <2>3. CompletionUnderWay'
    BY <1>3, <1>6, <1>7 DEF CompletionUnderWay, Wave, coordVars, engineVars
  <2> QED BY <1>4, <2>1, <2>2, <2>3 DEF IInv
<1>8. CASE /\ starts
           /\ _send_start_wave(w, e)
           /\ MoveTo(w, TRUE)
  <2>1. /\ start_wave' \in [Engine -> Seq(Nat \X Int)]
        /\ \A d \in Engine : \A i \in DOMAIN start_wave'[d] : start_wave'[d][i][1] <= Wave
        /\ \A d \in Engine : \E i \in DOMAIN start_wave'[d] : start_wave'[d][i] = <<w, e>>
    <3>1. e \in Int
      BY EngineFacts
    <3> HIDE DEF w, starts
    <3> QED BY <1>2, <1>8, <3>1, SendStartWave
  <2>2. /\ published' \in [FrontEnd -> Seq(Nat \X BOOLEAN)]
        /\ \A g \in FrontEnd : \A i \in DOMAIN published'[g] : published'[g][i][1] <= Wave
        /\ co_wave' = w /\ co_running' = TRUE
    <3> HIDE DEF w, starts
    <3> QED BY <1>2, <1>8, MoveToPublishes
  <2>3. TypeOK'
    BY <1>2, <1>3, <2>2 DEF IInv, TypeOK, frontVars, callVars, engineVars, requestVars
  <2>4. SocketsOK'
    BY <1>1, <1>3, <2>1, <2>2 DEF IInv, SocketsOK, OutputTaken
  <2>5. NoWaveAhead'
    BY <1>2, <1>3, <2>1, <2>2, CoordinatorNotAhead
  <2>6. MessagesBehind'
    BY <1>3, <1>5, <2>2 DEF MessagesBehind, Wave, engineVars
  <2>7. CompletionUnderWay'
    <3>1. w < Wave => co_wave < Wave
      BY <1>2, <1>8, OneWave
    <3> QED BY <1>3, <1>6, <2>2, <3>1 DEF CompletionUnderWay, Wave, engineVars
  <2>8. StartUnderWay'
    <3>1. PICK d \in Engine : d # e
      BY EngineFacts
    <3>2. PICK i \in DOMAIN start_wave'[d] : start_wave'[d][i] = <<w, e>>
      BY <2>1
    <3>3. start_wave'[d][i][1] = w /\ start_wave'[d][i][2] # d
      BY <3>1, <3>2
    <3> QED BY <1>3, <2>2, <3>3 DEF StartUnderWay, Wave, engineVars
  <2> QED BY <1>4, <2>3, <2>4, <2>5, <2>6, <2>7, <2>8 DEF IInv
<1> QED BY <1>7, <1>8 DEF handle_start_wave

(***************************************************************************)
(* The coordinator publishes its state again.                              *)
(***************************************************************************)
LEMMA PublishStatsInv ==
    ASSUME IInv, publish_stats
    PROVE  IInv'
<1>1. UNCHANGED <<frontVars, callVars, engineVars, requestVars, input, to_coordinator,
                  output, start_wave>>
  BY DEF publish_stats
<1>2. /\ published' \in [FrontEnd -> Seq(Nat \X BOOLEAN)]
      /\ \A g \in FrontEnd : \A i \in DOMAIN published'[g] : published'[g][i][1] <= Wave
      /\ co_wave' = co_wave /\ co_running' = co_running
  <2>1. co_running \in BOOLEAN
    BY DEF IInv, TypeOK
  <2> QED BY <2>1, OneWave, MoveToPublishes DEF publish_stats
<1>3. TypeOK' /\ SocketsOK'
  BY <1>1, <1>2 DEF IInv, TypeOK, SocketsOK, frontVars, callVars, engineVars, requestVars
<1>4. NoWaveAhead' /\ MessagesBehind' /\ CompletionUnderWay' /\ StartUnderWay' /\ Lockstep'
  BY <1>1, <1>2 DEF IInv, NoWaveAhead, MessagesBehind, CompletionUnderWay, StartUnderWay, Lockstep,
                    Wave, frontVars, engineVars
<1>5. RequestsOK' /\ MessagesInOrder'
  BY <1>1 DEF IInv, RequestsOK, MessagesInOrder, AddOK, AbortOK, requestVars
<1> QED BY <1>3, <1>4, <1>5 DEF IInv

(***************************************************************************)
(* An engine takes a client's message: what is left is not ahead either,   *)
(* and the requests left are those sent, without the one it took.          *)
(***************************************************************************)
LEMMA TakeNotAhead ==
    ASSUME IInv, NEW f \in FrontEnd, NEW e \in Engine, Taken(f, e),
           UNCHANGED <<co_wave, fe_wave, start_wave, current_wave>>
    PROVE  NoWaveAhead'
<1>1. ASSUME NEW g \in FrontEnd, NEW d \in Engine, NEW i \in DOMAIN input'[g][d],
             input'[g][d][i].type = "ADD"
      PROVE  input'[g][d][i].wave <= current_wave[d]
  <2>1. PICK k \in DOMAIN input[g][d] : input'[g][d][i] = input[g][d][k]
    <3>1. CASE ~(g = f /\ d = e)
      <4>1. input'[g][d] = input[g][d]
        BY <3>1 DEF Taken
      <4> QED BY <4>1
    <3>2. CASE g = f /\ d = e
      BY <3>2 DEF Taken
    <3> QED BY <3>1, <3>2
  <2> QED BY <1>1, <2>1 DEF IInv, NoWaveAhead
<1> QED BY <1>1 DEF IInv, NoWaveAhead

(***************************************************************************)
(* The requests left on the sockets were sent, and none is the one taken.  *)
(***************************************************************************)
LEMMA TakeRequests ==
    ASSUME IInv, NEW f \in FrontEnd, NEW e \in Engine, Taken(f, e)
    PROVE  \A g \in FrontEnd, d \in Engine : \A i \in DOMAIN input'[g][d] :
              input'[g][d][i].type = "ADD" =>
                 /\ input'[g][d][i].req \in Request
                 /\ status[input'[g][d][i].req] = "sent"
                 /\ Head(input[f][e]).type \in {"ADD", "ABORT"} =>
                       input'[g][d][i].req # Head(input[f][e]).req
<1> SUFFICES ASSUME NEW g \in FrontEnd, NEW d \in Engine, NEW i \in DOMAIN input'[g][d],
                    input'[g][d][i].type = "ADD"
             PROVE  /\ input'[g][d][i].req \in Request
                    /\ status[input'[g][d][i].req] = "sent"
                    /\ Head(input[f][e]).type \in {"ADD", "ABORT"} =>
                          input'[g][d][i].req # Head(input[f][e]).req
  OBVIOUS
<1> DEFINE r == Head(input[f][e]).req
<1>1. input'[g][d][i].req \in Request
  <2>1. input'[g][d][i] \in ClientMessage
    BY DEF Taken
  <2> QED BY <2>1 DEF ClientMessage
<1>2. /\ 1 \in DOMAIN input[f][e] /\ Head(input[f][e]) = input[f][e][1]
      /\ input[f][e][1].type = "ADD" => AddOK(f, e, 1)
      /\ input[f][e][1].type = "ABORT" => AbortOK(f, e, 1)
  <2>1. 1 \in DOMAIN input[f][e] /\ Head(input[f][e]) = input[f][e][1]
    BY DEF Taken
  <2> QED BY <2>1 DEF IInv, MessagesInOrder
<1>3. Head(input[f][e]).type \in {"ADD", "ABORT"} => ClientOf[r] = f /\ engine_of[r] = e
  BY <1>2 DEF AddOK, AbortOK
<1>4. CASE ~(g = f /\ d = e)
  <2>1. input'[g][d] = input[g][d]
    BY <1>4 DEF Taken
  <2>2. AddOK(g, d, i)
    BY <2>1 DEF IInv, MessagesInOrder
  <2>3. /\ status[input'[g][d][i].req] = "sent"
        /\ ClientOf[input'[g][d][i].req] = g /\ engine_of[input'[g][d][i].req] = d
    BY <2>1, <2>2 DEF AddOK
  <2> QED BY <1>1, <1>3, <1>4, <2>3
<1>5. CASE g = f /\ d = e
  <2>1. i + 1 \in DOMAIN input[f][e] /\ input'[f][e][i] = input[f][e][i + 1] /\ i \in Nat \ {0}
    BY <1>5 DEF Taken
  <2>2. AddOK(f, e, i + 1)
    BY <1>5, <2>1 DEF IInv, MessagesInOrder
  <2>3. 1 # i + 1 /\ 1 < i + 1
    BY <2>1
  <2>4. status[input'[f][e][i].req] = "sent"
    BY <2>1, <2>2 DEF AddOK
  <2>5. Head(input[f][e]).type \in {"ADD", "ABORT"} => input'[f][e][i].req # r
    BY <1>2, <2>1, <2>2, <2>3 DEF AddOK
  <2> QED BY <1>1, <1>5, <2>4, <2>5
<1> QED BY <1>4, <1>5

(***************************************************************************)
(* The first message of an input socket.                                   *)
(***************************************************************************)
LEMMA HeadOK ==
    ASSUME IInv, NEW f \in FrontEnd, NEW e \in Engine, Taken(f, e)
    PROVE  LET m == Head(input[f][e])
           IN  /\ m.type \in {"ADD", "ABORT"} => m.req \in Request /\ engine_of[m.req] = e
               /\ m.type = "ADD" => /\ status[m.req] = "sent"
                                    /\ m.wave \in Nat /\ m.wave <= Wave
               /\ m.type = "ABORT" => status[m.req] # "new"
<1> DEFINE m == Head(input[f][e])
<1>1. m \in ClientMessage /\ 1 \in DOMAIN input[f][e] /\ m = input[f][e][1]
  BY DEF Taken
<1>2. /\ m.type \in {"ADD", "ABORT"} => m.req \in Request
      /\ m.type = "ADD" => m.wave \in Nat
  BY <1>1 DEF ClientMessage
<1>3. /\ m.type = "ADD" => AddOK(f, e, 1) /\ m.wave <= Wave
      /\ m.type = "ABORT" => AbortOK(f, e, 1)
  BY <1>1, OneWave DEF IInv, MessagesInOrder, NoWaveAhead
<1>4. /\ m.type = "ADD" => status[m.req] = "sent" /\ engine_of[m.req] = e
      /\ m.type = "ABORT" => status[m.req] # "new" /\ engine_of[m.req] = e
  BY <1>1, <1>3 DEF AddOK, AbortOK
<1> QED BY <1>2, <1>3, <1>4

(***************************************************************************)
(* A request whose preprocessing raises, and an abort.                     *)
(***************************************************************************)
LEMMA DropInv ==
    ASSUME IInv, NEW f \in FrontEnd, NEW e \in Engine,
           handle_preproc_error(e, f) \/ abort_requests(e, f)
    PROVE  IInv'
<1> DEFINE r == Head(input[f][e]).req
<1>1. /\ input[f][e] # <<>> /\ Head(input[f][e]).type \in {"ADD", "ABORT"}
      /\ input' = [input EXCEPT ![f][e] = Tail(@)]
      /\ status' = [status EXCEPT ![r] = "done"]
      /\ UNCHANGED <<frontVars, callVars, coordVars, engineVars, engine_of, passes_left,
                     to_coordinator, output, start_wave, published>>
  BY DEF handle_preproc_error, abort_requests
<1>2. Taken(f, e)
  BY <1>1, TakeInput DEF IInv
<1>3. r \in Request /\ engine_of[r] = e
  BY <1>1, <1>2, HeadOK
<1>4. TypeOK'
  <2>1. status' \in [Request -> {"new", "sent", "waiting", "running", "done"}]
    BY <1>1 DEF IInv, TypeOK
  <2> QED BY <1>1, <2>1 DEF IInv, TypeOK, frontVars, callVars, coordVars, engineVars
<1>5. SocketsOK'
  BY <1>1, <1>2 DEF IInv, SocketsOK, Taken
<1>6. NoWaveAhead'
  BY <1>1, <1>2, TakeNotAhead DEF frontVars, coordVars, engineVars
<1>7. Lockstep' /\ MessagesBehind' /\ CompletionUnderWay' /\ StartUnderWay'
  BY <1>1 DEF IInv, Lockstep, MessagesBehind, CompletionUnderWay, StartUnderWay, Wave,
              coordVars, engineVars
<1>8. RequestsOK'
  BY <1>1, <1>3 DEF IInv, TypeOK, RequestsOK
<1>9. MessagesInOrder'
  <2>1. \A s \in Request : status'[s] = IF s = r THEN "done" ELSE status[s]
    BY <1>1 DEF IInv, TypeOK
  <2>2. \A g \in FrontEnd, d \in Engine : \A i \in DOMAIN input'[g][d] :
           input'[g][d][i].type = "ADD" => status'[input'[g][d][i].req] = "sent"
    BY <1>1, <1>2, <2>1, TakeRequests
  <2>3. UNCHANGED engine_of /\ \A s \in Request : status[s] # "new" => status'[s] # "new"
    BY <1>1, <2>1
  <2> QED BY <1>2, <2>2, <2>3, TakeInOrder DEF IInv
<1> QED BY <1>4, <1>5, <1>6, <1>7, <1>8, <1>9 DEF IInv

(***************************************************************************)
(* An engine sends the coordinator a message that is not ahead of wave v.  *)
(***************************************************************************)
LEMMA SendOutput ==
    ASSUME IInv, NEW e \in Engine, NEW m \in {"wave_complete", "start_wave"} \X Nat,
           output' = [output EXCEPT ![e] = Append(@, m)],
           NEW v \in Nat, Wave <= v, m[2] <= v, m[1] = "wave_complete" => m[2] < v
    PROVE  /\ output' \in [Engine -> Seq({"wave_complete", "start_wave"} \X Nat)]
           /\ \A d \in Engine : \A i \in DOMAIN output'[d] :
                 /\ output'[d][i][2] <= v
                 /\ output'[d][i][1] = "wave_complete" => output'[d][i][2] < v
           /\ \A k \in DOMAIN output[0] :
                 \E i \in DOMAIN output'[0] : output'[0][i] = output[0][k]
           /\ \E i \in DOMAIN output'[e] : output'[e][i] = m
<1> DEFINE q == output[e]
           M == {"wave_complete", "start_wave"} \X Nat
<1>1. q \in Seq(M) /\ output \in [Engine -> Seq(M)]
  BY DEF IInv, SocketsOK
<1>2. output'[e] = Append(q, m) /\ \A d \in Engine : d # e => output'[d] = output[d]
  BY <1>1
<1>3. /\ Append(q, m) \in Seq(M) /\ Len(q) \in Nat /\ DOMAIN q = 1 .. Len(q)
      /\ DOMAIN Append(q, m) = 1 .. (Len(q) + 1)
      /\ \A i \in 1 .. Len(q) : Append(q, m)[i] = q[i]
      /\ Append(q, m)[Len(q) + 1] = m
  <2> HIDE DEF q, M
  <2> QED BY <1>1 DEF M
<1>4. /\ \A i \in 1 .. (Len(q) + 1) : i \in 1 .. Len(q) \/ i = Len(q) + 1
      /\ Len(q) + 1 \in 1 .. (Len(q) + 1) /\ \A i \in 1 .. Len(q) : i \in 1 .. (Len(q) + 1)
  <2> HIDE DEF q, M
  <2> QED BY <1>3
<1>5. output' \in [Engine -> Seq(M)]
  BY <1>1, <1>3
<1>6. ASSUME NEW d \in Engine, NEW i \in DOMAIN output'[d]
      PROVE  /\ output'[d][i][2] <= v
             /\ output'[d][i][1] = "wave_complete" => output'[d][i][2] < v
  <2>1. CASE d = e /\ i = Len(q) + 1
    <3>1. output'[d][i] = m
      BY <1>2, <1>3, <2>1
    <3> QED BY <3>1
  <2>2. CASE ~(d = e /\ i = Len(q) + 1)
    <3>1. i \in DOMAIN output[d] /\ output'[d][i] = output[d][i]
      BY <1>2, <1>3, <1>4, <2>2
    <3>2. /\ output[d][i][2] <= Wave
          /\ output[d][i][1] = "wave_complete" => output[d][i][2] < Wave
      BY <3>1 DEF IInv, MessagesBehind
    <3>3. output[d][i][2] \in Nat /\ Wave \in Nat
      <4>1. output[d] \in Seq(M)
        BY <1>1
      <4>2. output[d][i] \in M
        BY <3>1, <4>1
      <4> QED BY <4>2, OneWave
    <3> HIDE DEF q, M
    <3> QED BY <3>1, <3>2, <3>3
  <2> QED BY <2>1, <2>2
<1>7. \A k \in DOMAIN output[0] : \E i \in DOMAIN output'[0] : output'[0][i] = output[0][k]
  BY <1>2, <1>3, <1>4, EngineFacts
<1>8. \E i \in DOMAIN output'[e] : output'[e][i] = m
  BY <1>2, <1>3, <1>4
<1> QED BY <1>5, <1>6, <1>7, <1>8

\* What a step that may ask for the current wave to be started leaves.
OutputKept ==
    /\ output' \in [Engine -> Seq({"wave_complete", "start_wave"} \X Nat)]
    /\ \A d \in Engine : \A i \in DOMAIN output'[d] :
          /\ output'[d][i][2] <= Wave
          /\ output'[d][i][1] = "wave_complete" => output'[d][i][2] < Wave
    /\ \A k \in DOMAIN output[0] : \E i \in DOMAIN output'[0] : output'[0][i] = output[0][k]

(***************************************************************************)
(* An engine that asks for its own wave is not ahead.                      *)
(***************************************************************************)
LEMMA AskForWave ==
    ASSUME IInv, NEW e \in Engine,
           \/ output' = output
           \/ output' = [output EXCEPT ![e] = Append(@, <<"start_wave", current_wave[e]>>)]
    PROVE  OutputKept
<1>1. CASE output' = output
  BY <1>1 DEF OutputKept, IInv, SocketsOK, MessagesBehind
<1>2. CASE output' = [output EXCEPT ![e] = Append(@, <<"start_wave", current_wave[e]>>)]
  <2>1. current_wave[e] = Wave /\ Wave \in Nat
    BY OneWave
  <2> DEFINE m == <<"start_wave", Wave>>
  <2>2. /\ m \in {"wave_complete", "start_wave"} \X Nat
        /\ m[1] = "start_wave" /\ m[2] = Wave /\ Wave <= Wave
    BY <2>1
  <2>3. output' = [output EXCEPT ![e] = Append(@, m)]
    BY <1>2, <2>1
  <2>4. m[1] = "wave_complete" => m[2] < Wave
    BY <2>2
  <2> HIDE DEF m
  <2>5. m \in {"wave_complete", "start_wave"} \X Nat /\ Wave \in Nat /\ Wave <= Wave /\ m[2] <= Wave
    BY <2>1, <2>2
  <2>6. /\ output' \in [Engine -> Seq({"wave_complete", "start_wave"} \X Nat)]
        /\ \A d \in Engine : \A i \in DOMAIN output'[d] :
              /\ output'[d][i][2] <= Wave
              /\ output'[d][i][1] = "wave_complete" => output'[d][i][2] < Wave
        /\ \A k \in DOMAIN output[0] :
              \E i \in DOMAIN output'[0] : output'[0][i] = output[0][k]
    BY <2>3, <2>4, <2>5, SendOutput
  <2> QED BY <2>6 DEF OutputKept
<1> QED BY <1>1, <1>2

(***************************************************************************)
(* As long as nothing reported to the coordinator is lost.                 *)
(***************************************************************************)
LEMMA KeptInv ==
    ASSUME IInv, OutputKept, UNCHANGED <<current_wave, co_wave, published>>
    PROVE  MessagesBehind' /\ CompletionUnderWay'
<1>1. Wave' = Wave
  BY DEF Wave
<1>2. MessagesBehind'
  BY <1>1 DEF IInv, MessagesBehind, OutputKept
<1>3. CompletionUnderWay'
  BY <1>1 DEF IInv, CompletionUnderWay, OutputKept
<1> QED BY <1>2, <1>3

(***************************************************************************)
(* An engine gets a request.  It is of the current wave or an earlier one, *)
(* so the engine stays in its wave.                                        *)
(***************************************************************************)
LEMMA AddRequestInv ==
    ASSUME IInv, NEW f \in FrontEnd, NEW e \in Engine, add_request(e, f)
    PROVE  IInv'
<1> DEFINE r == Head(input[f][e]).req
           wakes == /\ Head(input[f][e]).wave < current_wave[e]
                    /\ ~engines_running[e] /\ pause_state[e] = "UNPAUSED"
<1>1. /\ input[f][e] # <<>> /\ Head(input[f][e]).type = "ADD"
      /\ input' = [input EXCEPT ![f][e] = Tail(@)]
      /\ status' = [status EXCEPT ![r] = "waiting"]
      /\ engines_running' = [engines_running EXCEPT ![e] = @ \/ wakes]
      /\ UNCHANGED <<frontVars, callVars, coordVars, step_counter, pause_state, idle_callback,
                     pc, engine_of, passes_left, to_coordinator, start_wave, published>>
  BY DEF add_request
<1>2. Taken(f, e)
  BY <1>1, TakeInput DEF IInv
<1>3. /\ r \in Request /\ engine_of[r] = e /\ status[r] = "sent"
      /\ Head(input[f][e]).wave \in Nat /\ Head(input[f][e]).wave <= Wave
  BY <1>1, <1>2, HeadOK
<1>4. current_wave' = current_wave
  <2>1. ~(Head(input[f][e]).wave > current_wave[e])
    BY <1>3, OneWave
  <2> QED BY <2>1 DEF add_request
<1>5. OutputKept
  BY AskForWave DEF add_request
<1>6. TypeOK'
  <2>1. status' \in [Request -> {"new", "sent", "waiting", "running", "done"}]
    BY <1>1 DEF IInv, TypeOK
  <2>2. engines_running' \in [Engine -> BOOLEAN]
    <3>1. engines_running \in [Engine -> BOOLEAN]
      BY DEF IInv, TypeOK
    <3> HIDE DEF wakes
    <3> QED BY <1>1, <3>1
  <2> QED BY <1>1, <1>4, <2>1, <2>2 DEF IInv, TypeOK, frontVars, callVars, coordVars
<1>7. SocketsOK'
  BY <1>1, <1>2, <1>5 DEF IInv, SocketsOK, Taken, OutputKept
<1>8. NoWaveAhead'
  BY <1>1, <1>2, <1>4, TakeNotAhead DEF frontVars, coordVars
<1>9. MessagesBehind' /\ CompletionUnderWay'
  BY <1>1, <1>4, <1>5, KeptInv DEF coordVars
<1>10. Lockstep'
  BY <1>1 DEF IInv, Lockstep
<1>11. StartUnderWay'
  <2>1. \A d \in Engine : engines_running[d] => engines_running'[d]
    <3>1. engines_running \in [Engine -> BOOLEAN]
      BY DEF IInv, TypeOK
    <3> HIDE DEF wakes
    <3> QED BY <1>1, <3>1
  <2> QED BY <1>1, <1>4, <2>1 DEF IInv, StartUnderWay, Wave, coordVars
<1>12. RequestsOK'
  BY <1>1, <1>3 DEF IInv, TypeOK, RequestsOK
<1>13. MessagesInOrder'
  <2>1. \A s \in Request : status'[s] = IF s = r THEN "waiting" ELSE status[s]
    BY <1>1 DEF IInv, TypeOK
  <2>2. \A g \in FrontEnd, d \in Engine : \A i \in DOMAIN input'[g][d] :
           input'[g][d][i].type = "ADD" => status'[input'[g][d][i].req] = "sent"
    BY <1>1, <1>2, <2>1, TakeRequests
  <2>3. UNCHANGED engine_of /\ \A s \in Request : status[s] # "new" => status'[s] # "new"
    BY <1>1, <2>1
  <2> QED BY <1>2, <2>2, <2>3, TakeInOrder DEF IInv
<1> QED BY <1>6, <1>7, <1>8, <1>9, <1>10, <1>11, <1>12, <1>13 DEF IInv

(***************************************************************************)
(* An engine is paused or resumed.                                         *)
(***************************************************************************)
LEMMA PauseSchedulerInv ==
    ASSUME IInv, NEW f \in FrontEnd, NEW e \in Engine, pause_scheduler(e, f)
    PROVE  IInv'
<1>1. /\ input[f][e] # <<>>
      /\ input' = [input EXCEPT ![f][e] = Tail(@)]
      /\ UNCHANGED <<frontVars, callVars, coordVars, current_wave, engines_running,
                     step_counter, pc, engine_of, passes_left,
                     to_coordinator, output, start_wave, published>>
  BY DEF pause_scheduler
<1>2. Taken(f, e)
  BY <1>1, TakeInput DEF IInv
<1>3. \A s \in Request :
         /\ status'[s] = status[s] \/ (status'[s] = "done" /\ status[s] \in {"waiting", "running"})
  BY DEF pause_scheduler, Requests
<1>4. status' \in [Request -> {"new", "sent", "waiting", "running", "done"}]
  <2>1. CASE status' = status
    BY <2>1 DEF IInv, TypeOK
  <2>2. CASE status' = [r \in Request |-> IF r \in Requests(e) THEN "done" ELSE status[r]]
    BY <2>2 DEF IInv, TypeOK
  <2> QED BY <2>1, <2>2 DEF pause_scheduler
<1>5. TypeOK'
  <2>1. pause_state' \in [Engine -> PauseState]
    BY DEF IInv, TypeOK, pause_scheduler, PauseState
  <2>2. idle_callback' \in [Engine -> BOOLEAN]
    <3>1. idle_callback \in [Engine -> BOOLEAN]
      BY DEF IInv, TypeOK
    <3> DEFINE b == idle_callback[e] \/ has_work(e)'
    <3>2. idle_callback' = [idle_callback EXCEPT ![e] = b] /\ b \in BOOLEAN
      BY DEF pause_scheduler
    <3> HIDE DEF b
    <3> QED BY <3>1, <3>2
  <2> QED BY <1>1, <1>4, <2>1, <2>2 DEF IInv, TypeOK, frontVars, callVars, coordVars
<1>6. SocketsOK'
  BY <1>1, <1>2 DEF IInv, SocketsOK, Taken
<1>7. NoWaveAhead'
  BY <1>1, <1>2, TakeNotAhead DEF frontVars, coordVars
<1>8. Lockstep' /\ MessagesBehind' /\ CompletionUnderWay' /\ StartUnderWay'
  BY <1>1 DEF IInv, Lockstep, MessagesBehind, CompletionUnderWay, StartUnderWay, Wave, coordVars
<1>9. RequestsOK'
  BY <1>1, <1>3 DEF IInv, RequestsOK
<1>10. MessagesInOrder'
  <2>1. \A g \in FrontEnd, d \in Engine : \A i \in DOMAIN input'[g][d] :
           input'[g][d][i].type = "ADD" => status'[input'[g][d][i].req] = "sent"
    BY <1>2, <1>3, TakeRequests
  <2>2. UNCHANGED engine_of /\ \A s \in Request : status[s] # "new" => status'[s] # "new"
    BY <1>1, <1>3
  <2> QED BY <1>2, <2>1, <2>2, TakeInOrder DEF IInv
<1> QED BY <1>5, <1>6, <1>7, <1>8, <1>9, <1>10 DEF IInv

(***************************************************************************)
(* A resumed engine may ask for its wave to be started.                    *)
(***************************************************************************)
LEMMA ResumeSchedulerInv ==
    ASSUME IInv, NEW f \in FrontEnd, NEW e \in Engine, resume_scheduler(e, f)
    PROVE  IInv'
<1>1. /\ input[f][e] # <<>>
      /\ input' = [input EXCEPT ![f][e] = Tail(@)]
      /\ pause_state' = [pause_state EXCEPT ![e] = "UNPAUSED"]
      /\ UNCHANGED <<frontVars, callVars, coordVars, current_wave, engines_running,
                     step_counter, idle_callback, pc, requestVars,
                     to_coordinator, start_wave, published>>
  BY DEF resume_scheduler
<1>2. Taken(f, e)
  BY <1>1, TakeInput DEF IInv
<1>3. OutputKept
  BY AskForWave DEF resume_scheduler
<1>4. TypeOK'
  <2>1. pause_state' \in [Engine -> PauseState]
    BY <1>1 DEF IInv, TypeOK, PauseState
  <2> QED BY <1>1, <2>1 DEF IInv, TypeOK, frontVars, callVars, coordVars, requestVars
<1>5. SocketsOK'
  BY <1>1, <1>2, <1>3 DEF IInv, SocketsOK, Taken, OutputKept
<1>6. NoWaveAhead'
  BY <1>1, <1>2, TakeNotAhead DEF frontVars, coordVars
<1>7. MessagesBehind' /\ CompletionUnderWay'
  BY <1>1, <1>3, KeptInv DEF coordVars
<1>8. Lockstep' /\ StartUnderWay'
  BY <1>1 DEF IInv, Lockstep, StartUnderWay, Wave, coordVars
<1>9. RequestsOK'
  BY <1>1 DEF IInv, RequestsOK, requestVars
<1>10. MessagesInOrder'
  <2>1. UNCHANGED <<status, engine_of>>
    BY <1>1 DEF requestVars
  <2>2. \A g \in FrontEnd, d \in Engine : \A i \in DOMAIN input'[g][d] :
           input'[g][d][i].type = "ADD" => status'[input'[g][d][i].req] = "sent"
    BY <1>2, <2>1, TakeRequests
  <2> QED BY <1>2, <2>1, <2>2, TakeInOrder DEF IInv
<1> QED BY <1>4, <1>5, <1>6, <1>7, <1>8, <1>9, <1>10 DEF IInv

(***************************************************************************)
(* START_DP_WAVE: an engine that was told to start the current wave and is *)
(* not excluded runs.                                                      *)
(***************************************************************************)
LEMMA HandleStartDpWaveInv ==
    ASSUME IInv, NEW e \in Engine, handle_start_dp_wave(e)
    PROVE  IInv'
<1> DEFINE q == start_wave[e]
           joins == Head(q)[2] # e /\ Head(q)[1] >= current_wave[e]
<1>1. /\ q \in Seq(Nat \X Int) /\ q # <<>>
      /\ \A i \in DOMAIN q : q[i][1] <= Wave
  BY OneWave DEF IInv, SocketsOK, NoWaveAhead, handle_start_dp_wave
<1>2. /\ Tail(q) \in Seq(Nat \X Int) /\ Len(q) \in Nat /\ DOMAIN q = 1 .. Len(q)
      /\ Len(q) # 0 /\ Head(q) = q[1] /\ Head(q) \in Nat \X Int
      /\ DOMAIN Tail(q) = 1 .. (Len(q) - 1)
      /\ \A i \in 1 .. (Len(q) - 1) : Tail(q)[i] = q[i + 1]
  <2> HIDE DEF q
  <2> QED BY <1>1
<1>3. /\ \A i \in 1 .. (Len(q) - 1) : i + 1 \in 1 .. Len(q)
      /\ \A k \in 1 .. Len(q) : k = 1 \/ (k - 1 \in 1 .. (Len(q) - 1) /\ k = (k - 1) + 1)
      /\ 1 \in 1 .. Len(q) /\ Head(q)[1] \in Nat /\ Head(q)[1] <= Wave
  <2> HIDE DEF q
  <2> QED BY <1>1, <1>2
<1>4. /\ start_wave' = [start_wave EXCEPT ![e] = Tail(@)]
      /\ UNCHANGED <<frontVars, callVars, coordVars, step_counter, pause_state, idle_callback,
                     pc, requestVars, input, to_coordinator, output, published>>
  BY DEF handle_start_dp_wave
<1>5. /\ start_wave'[e] = Tail(q) /\ \A d \in Engine : d # e => start_wave'[d] = start_wave[d]
      /\ start_wave' \in [Engine -> Seq(Nat \X Int)]
  BY <1>2, <1>4 DEF IInv, SocketsOK
<1>6. joins => Head(q)[1] = current_wave[e]
  <2> HIDE DEF q
  <2> QED BY <1>3, OneWave
<1>7. current_wave' = current_wave
  <2>1. current_wave \in [Engine -> Nat]
    BY DEF IInv, TypeOK
  <2>2. CASE joins
    <3>1. current_wave' = [current_wave EXCEPT ![e] = current_wave[e]]
      BY <1>6, <2>2 DEF handle_start_dp_wave
    <3> QED BY <2>1, <3>1
  <2>3. CASE ~joins
    BY <2>3 DEF handle_start_dp_wave
  <2> QED BY <2>2, <2>3
<1>8. /\ engines_running' \in [Engine -> BOOLEAN]
      /\ joins => engines_running'[e]
      /\ \A d \in Engine : engines_running[d] => engines_running'[d]
  <2>1. engines_running \in [Engine -> BOOLEAN]
    BY DEF IInv, TypeOK
  <2>2. CASE joins
    <3>1. engines_running' = [engines_running EXCEPT ![e] = TRUE]
      BY <2>2 DEF handle_start_dp_wave
    <3> HIDE DEF joins
    <3> QED BY <2>1, <3>1
  <2>3. CASE ~joins
    <3>1. engines_running' = engines_running
      BY <2>3 DEF handle_start_dp_wave
    <3> HIDE DEF joins
    <3> QED BY <2>1, <2>3, <3>1
  <2> QED BY <2>2, <2>3
<1>9. TypeOK'
  BY <1>4, <1>7, <1>8 DEF IInv, TypeOK, frontVars, callVars, coordVars, requestVars
<1>10. SocketsOK'
  BY <1>4, <1>5 DEF IInv, SocketsOK
<1>11. NoWaveAhead'
  <2>1. ASSUME NEW d \in Engine, NEW i \in DOMAIN start_wave'[d]
        PROVE  start_wave'[d][i][1] <= current_wave[d]
    <3>1. CASE d = e
      <4>1. i + 1 \in DOMAIN q /\ start_wave'[d][i] = q[i + 1]
        BY <1>2, <1>3, <1>5, <3>1
      <4> QED BY <1>1, <3>1, <4>1, OneWave
    <3>2. CASE d # e
      BY <1>5, <3>2 DEF IInv, NoWaveAhead
    <3> QED BY <3>1, <3>2
  <2> QED BY <1>4, <1>7, <2>1 DEF IInv, NoWaveAhead, frontVars, coordVars
<1>12. Lockstep' /\ MessagesBehind' /\ CompletionUnderWay'
  BY <1>4, <1>7 DEF IInv, Lockstep, MessagesBehind, CompletionUnderWay, Wave, coordVars
<1>13. StartUnderWay'
  <2> SUFFICES ASSUME co_running, co_wave = Wave
               PROVE  \E d \in Engine :
                         \/ engines_running'[d]
                         \/ \E i \in DOMAIN start_wave'[d] :
                               start_wave'[d][i][1] = Wave /\ start_wave'[d][i][2] # d
    BY <1>4, <1>7 DEF StartUnderWay, Wave, coordVars
  <2>1. PICK d \in Engine :
           \/ engines_running[d]
           \/ \E i \in DOMAIN start_wave[d] :
                 start_wave[d][i][1] = Wave /\ start_wave[d][i][2] # d
    BY DEF IInv, StartUnderWay
  <2>2. CASE engines_running[d]
    BY <1>8, <2>2
  <2>3. CASE \E i \in DOMAIN start_wave[d] :
                start_wave[d][i][1] = Wave /\ start_wave[d][i][2] # d
    <3>1. PICK i \in DOMAIN start_wave[d] :
                start_wave[d][i][1] = Wave /\ start_wave[d][i][2] # d
      BY <2>3
    <3>2. CASE d # e
      BY <1>5, <3>1, <3>2
    <3>3. CASE d = e /\ i = 1
      <4>1. joins
        <5>1. Wave >= Wave
          BY OneWave
        <5> QED BY <1>2, <3>1, <3>3, <5>1, OneWave
      <4> QED BY <1>8, <4>1
    <3>4. CASE d = e /\ i # 1
      <4>1. i - 1 \in DOMAIN start_wave'[e] /\ start_wave'[e][i - 1] = start_wave[e][i]
        <5>1. i \in 1 .. Len(q) /\ i # 1
          BY <1>2, <3>4
        <5>2. i - 1 \in 1 .. (Len(q) - 1) /\ i = (i - 1) + 1
          BY <1>3, <5>1
        <5>3. Tail(q)[i - 1] = q[i]
          BY <1>2, <5>2
        <5> QED BY <1>2, <1>5, <5>2, <5>3
      <4> QED BY <3>1, <3>4, <4>1
    <3> QED BY <3>2, <3>3, <3>4
  <2> QED BY <2>1, <2>2, <2>3
<1>14. RequestsOK' /\ MessagesInOrder'
  BY <1>4 DEF IInv, RequestsOK, MessagesInOrder, AddOK, AbortOK, requestVars
<1> QED BY <1>9, <1>10, <1>11, <1>12, <1>13, <1>14 DEF IInv

(***************************************************************************)
(* The callbacks of an idle engine, and the start of a pass, which no      *)
(* engine makes while another is in the all-reduce.                        *)
(***************************************************************************)
LEMMA NotifyOrStartInv ==
    ASSUME IInv, NEW e \in Engine, notify_idle(e) \/ start_pass(e)
    PROVE  IInv'
<1>1. /\ UNCHANGED <<frontVars, callVars, coordVars, current_wave, engines_running,
                     step_counter, pause_state, requestVars, socketVars>>
      /\ pc[e] = "input" /\ (pc' = pc \/ pc' = [pc EXCEPT ![e] = "pass"])
      /\ \/ idle_callback' = idle_callback
         \/ idle_callback' = [idle_callback EXCEPT ![e] = FALSE]
  BY DEF notify_idle, start_pass
<1>2. TypeOK'
  <2>1. idle_callback' \in [Engine -> BOOLEAN]
    BY <1>1 DEF IInv, TypeOK
  <2>2. pc' \in [Engine -> {"input", "pass", "all-reduce"}]
    BY <1>1 DEF IInv, TypeOK
  <2> QED BY <1>1, <2>1, <2>2 DEF IInv, TypeOK, frontVars, callVars, coordVars, requestVars
<1>3. SocketsOK'
  BY <1>1 DEF IInv, SocketsOK, socketVars
<1>4. Lockstep'
  <2>1. \A d \in Engine : pc'[d] = "all-reduce" => pc[d] = "all-reduce"
    BY <1>1 DEF IInv, TypeOK
  <2>2. \A d \in Engine : pc[d] # "all-reduce"
    BY <1>1 DEF IInv, Lockstep
  <2> QED BY <1>1, <2>1, <2>2 DEF IInv, Lockstep
<1>5. NoWaveAhead'
  BY <1>1 DEF IInv, NoWaveAhead, frontVars, coordVars, socketVars
<1>6. MessagesBehind' /\ CompletionUnderWay' /\ StartUnderWay'
  BY <1>1 DEF IInv, MessagesBehind, CompletionUnderWay, StartUnderWay, Wave, coordVars, socketVars
<1>7. RequestsOK' /\ MessagesInOrder'
  BY <1>1 DEF IInv, RequestsOK, MessagesInOrder, AddOK, AbortOK, requestVars, socketVars
<1> QED BY <1>2, <1>3, <1>4, <1>5, <1>6, <1>7 DEF IInv

(***************************************************************************)
(* The end of a pass: all the engines count it, and those requests that    *)
(* took part have passes left to take.                                     *)
(***************************************************************************)
LEMMA UnfinishedStatus ==
    ASSUME IInv, NEW e \in Engine
    PROVE  Unfinished(e) \subseteq {r \in Request : status[r] \in {"waiting", "running"}}
<1>1. pause_state[e] \in PauseState
  BY DEF IInv, TypeOK
<1> QED BY <1>1 DEF Unfinished, Requests, PauseState

(***************************************************************************)
(* The requests that took part are charged one pass.                       *)
(***************************************************************************)
LEMMA FinishPassInv ==
    ASSUME IInv, finish_pass
    PROVE  IInv'
<1> DEFINE executed == UNION {Unfinished(e) : e \in Engine}
<1>1. PICK aborted \in SUBSET UNION {PendingAborts(e) : e \in Engine} :
         /\ passes_left' = [r \in Request |->
                IF r \in executed THEN passes_left[r] - 1 ELSE passes_left[r]]
         /\ status' = [r \in Request |->
                IF r \in aborted \cup {s \in executed : passes_left[s] = 1} THEN "done"
                ELSE IF r \in executed THEN "running" ELSE status[r]]
  BY DEF finish_pass
<1>2. /\ step_counter' = [e \in Engine |-> (step_counter[e] + 1) % SyncInterval]
      /\ pc' = [e \in Engine |-> IF step_counter'[e] = 0 THEN "all-reduce" ELSE "input"]
      /\ engines_running' = [e \in Engine |-> step_counter'[e] # 0 \/ engines_running[e]]
      /\ UNCHANGED <<frontVars, callVars, coordVars, current_wave, pause_state,
                     idle_callback, engine_of, socketVars>>
  BY DEF finish_pass
<1>3. /\ \A r \in executed : r \in Request /\ status[r] \in {"waiting", "running"}
      /\ \A r \in aborted : r \in executed
  BY UnfinishedStatus DEF PendingAborts
<1> HIDE DEF executed
<1>4. \A r \in Request : /\ passes_left[r] \in Nat
                         /\ r \in executed => passes_left[r] > 0
  BY <1>3 DEF IInv, TypeOK, RequestsOK
<1>5. /\ status' \in [Request -> {"new", "sent", "waiting", "running", "done"}]
      /\ \A r \in Request : \/ status'[r] = status[r]
                            \/ /\ status'[r] \in {"running", "done"}
                               /\ status[r] \in {"waiting", "running"}
  BY <1>1, <1>3 DEF IInv, TypeOK
<1>6. /\ passes_left' \in [Request -> Nat]
      /\ \A r \in Request : status'[r] # "done" => passes_left'[r] > 0
  <2>1. ASSUME NEW r \in Request
        PROVE  passes_left'[r] \in Nat /\ (status'[r] # "done" => passes_left'[r] > 0)
    <3>1. CASE r \in executed
      <4>1. passes_left'[r] = passes_left[r] - 1 /\ passes_left[r] \in Nat /\ passes_left[r] > 0
        BY <1>1, <1>4, <3>1
      <4>2. passes_left[r] = 1 => status'[r] = "done"
        BY <1>1, <3>1
      <4> QED BY <4>1, <4>2
    <3>2. CASE r \notin executed
      <4>1. passes_left'[r] = passes_left[r] /\ status'[r] = status[r]
        BY <1>1, <1>3, <3>2
      <4> QED BY <4>1 DEF IInv, TypeOK, RequestsOK
    <3> QED BY <3>1, <3>2
  <2> QED BY <1>1, <2>1
<1>7. step_counter' \in [Engine -> 0 .. (SyncInterval - 1)]
  <2>1. \A e \in Engine : step_counter[e] \in 0 .. (SyncInterval - 1)
    BY DEF IInv, TypeOK
  <2>2. \A n \in Nat : n % SyncInterval \in 0 .. (SyncInterval - 1)
    BY DPAssumption
  <2> QED BY <1>2, <2>1, <2>2
<1>8. engines_running' \in [Engine -> BOOLEAN]
  BY <1>2
<1>9. pc' \in [Engine -> {"input", "pass", "all-reduce"}]
  BY <1>2
<1>10. TypeOK'
  BY <1>2, <1>5, <1>6, <1>7, <1>8, <1>9 DEF IInv, TypeOK, frontVars, callVars, coordVars
<1>11. SocketsOK'
  BY <1>2 DEF IInv, SocketsOK, socketVars
<1>12. Lockstep'
  BY <1>2 DEF IInv, Lockstep
<1>13. NoWaveAhead'
  BY <1>2 DEF IInv, NoWaveAhead, frontVars, coordVars, socketVars
<1>14. MessagesBehind' /\ CompletionUnderWay'
  BY <1>2 DEF IInv, MessagesBehind, CompletionUnderWay, Wave, coordVars, socketVars
<1>15. StartUnderWay'
  <2>1. \A e \in Engine : engines_running[e] => engines_running'[e]
    BY <1>2
  <2> QED BY <1>2, <2>1 DEF IInv, StartUnderWay, Wave, coordVars, socketVars
<1>16. RequestsOK'
  BY <1>2, <1>5, <1>6 DEF IInv, RequestsOK
<1>17. MessagesInOrder'
  BY <1>2, <1>5, KeepInOrder DEF IInv, socketVars
<1> QED BY <1>10, <1>11, <1>12, <1>13, <1>14, <1>15, <1>16, <1>17 DEF IInv

(***************************************************************************)
(* The all-reduce: either all engines go on, or all of them leave the wave *)
(* and its end is reported.                                                *)
(***************************************************************************)
LEMMA FinishAllReduceInv ==
    ASSUME IInv, finish_all_reduce
    PROVE  IInv'
<1> DEFINE unfinished == \E e \in Engine : Unfinished(e) # {}
<1>1. /\ pc' = [e \in Engine |-> "input"]
      /\ engines_running' = [e \in Engine |-> unfinished]
      /\ UNCHANGED <<frontVars, callVars, coordVars, pause_state, idle_callback, requestVars,
                     input, to_coordinator, start_wave, published>>
  BY DEF finish_all_reduce
<1>2. pc' \in [Engine -> {"input", "pass", "all-reduce"}]
  BY <1>1
<1>3. engines_running' \in [Engine -> BOOLEAN]
  BY <1>1
<1>4. RequestsOK' /\ MessagesInOrder'
  BY <1>1 DEF IInv, RequestsOK, MessagesInOrder, AddOK, AbortOK, requestVars
<1>5. CASE unfinished
  <2>1. UNCHANGED <<current_wave, step_counter, output>>
    BY <1>5 DEF finish_all_reduce
  <2>2. TypeOK'
    BY <1>1, <1>2, <1>3, <2>1 DEF IInv, TypeOK, frontVars, callVars, coordVars, requestVars
  <2>3. SocketsOK' /\ Lockstep'
    BY <1>1, <2>1 DEF IInv, SocketsOK, Lockstep
  <2>4. NoWaveAhead' /\ MessagesBehind' /\ CompletionUnderWay'
    BY <1>1, <2>1 DEF IInv, NoWaveAhead, MessagesBehind, CompletionUnderWay, Wave,
                      frontVars, coordVars
  <2>5. StartUnderWay'
    <3>1. engines_running'[0]
      BY <1>1, <1>5, EngineFacts
    <3> QED BY <3>1, EngineFacts DEF StartUnderWay
  <2> QED BY <1>4, <2>2, <2>3, <2>4, <2>5 DEF IInv
<1>6. CASE ~unfinished
  <2> DEFINE m == <<"wave_complete", current_wave[0]>>
  <2>1. /\ current_wave' = [e \in Engine |-> current_wave[e] + 1]
        /\ step_counter' = [e \in Engine |-> 0]
        /\ output' = [output EXCEPT ![0] = Append(@, m)]
    BY <1>6 DEF finish_all_reduce
  <2>2. /\ m \in {"wave_complete", "start_wave"} \X Nat /\ m[1] = "wave_complete" /\ m[2] = Wave
        /\ Wave \in Nat /\ Wave + 1 \in Nat /\ Wave <= Wave + 1 /\ Wave < Wave + 1
    BY OneWave DEF Wave
  <2>3. /\ Wave' = Wave + 1 /\ \A e \in Engine : current_wave'[e] = Wave + 1
        /\ current_wave' \in [Engine -> Nat]
    BY <2>1, <2>2, OneWave, EngineFacts DEF Wave
  <2>4. step_counter' \in [Engine -> 0 .. (SyncInterval - 1)]
    BY <2>1, DPAssumption
  <2>5. TypeOK'
    BY <1>1, <1>2, <1>3, <2>3, <2>4 DEF IInv, TypeOK, frontVars, callVars, coordVars, requestVars
  <2>6. /\ output' \in [Engine -> Seq({"wave_complete", "start_wave"} \X Nat)]
        /\ \A d \in Engine : \A i \in DOMAIN output'[d] :
              /\ output'[d][i][2] <= Wave + 1
              /\ output'[d][i][1] = "wave_complete" => output'[d][i][2] < Wave + 1
        /\ \E i \in DOMAIN output'[0] : output'[0][i] = m
    <3> HIDE DEF m
    <3> QED BY <2>1, <2>2, SendOutput, EngineFacts
  <2>7. SocketsOK'
    BY <1>1, <2>6 DEF IInv, SocketsOK
  <2>8. Lockstep'
    BY <1>1, <2>1 DEF Lockstep
  <2>9. NoWaveAhead'
    <3>1. ASSUME NEW e \in Engine
          PROVE  /\ co_wave <= Wave + 1
                 /\ \A f \in FrontEnd : fe_wave[f] <= Wave + 1
                 /\ \A i \in DOMAIN start_wave[e] : start_wave[e][i][1] <= Wave + 1
                 /\ \A f \in FrontEnd : \A i \in DOMAIN input[f][e] :
                       input[f][e][i].type = "ADD" => input[f][e][i].wave <= Wave + 1
      <4>1. \A n \in Nat : n <= Wave => n <= Wave + 1
        BY <2>2
      <4>2. current_wave[e] = Wave /\ co_wave <= Wave /\ co_wave \in Nat
        BY OneWave
      <4>3. \A f \in FrontEnd : fe_wave[f] \in Nat /\ fe_wave[f] <= Wave
        BY <4>2 DEF IInv, TypeOK, NoWaveAhead
      <4>4. \A i \in DOMAIN start_wave[e] : start_wave[e][i][1] \in Nat /\ start_wave[e][i][1] <= Wave
        <5>1. start_wave[e] \in Seq(Nat \X Int)
          BY DEF IInv, SocketsOK
        <5>2. \A i \in DOMAIN start_wave[e] : start_wave[e][i] \in Nat \X Int
          BY <5>1
        <5> QED BY <4>2, <5>2 DEF IInv, NoWaveAhead
      <4>5. ASSUME NEW f \in FrontEnd, NEW i \in DOMAIN input[f][e], input[f][e][i].type = "ADD"
            PROVE  input[f][e][i].wave \in Nat /\ input[f][e][i].wave <= Wave
        <5>1. input[f][e][i] \in ClientMessage
          BY DEF IInv, SocketsOK
        <5>2. input[f][e][i].wave \in Nat
          BY <4>5, <5>1 DEF ClientMessage
        <5> QED BY <4>2, <4>5, <5>2 DEF IInv, NoWaveAhead
      <4> QED BY <4>1, <4>2, <4>3, <4>4, <4>5
    <3> QED BY <1>1, <2>3, <3>1 DEF NoWaveAhead, frontVars, coordVars
  <2>10. MessagesBehind'
    <3>1. ASSUME NEW f \in FrontEnd, NEW i \in DOMAIN published[f]
          PROVE  published[f][i][1] <= Wave + 1
      <4>1. published[f] \in Seq(Nat \X BOOLEAN)
        BY DEF IInv, SocketsOK
      <4>2. published[f][i] \in Nat \X BOOLEAN
        BY <4>1
      <4>3. published[f][i][1] <= Wave /\ published[f][i][1] \in Nat
        BY <4>2 DEF IInv, MessagesBehind
      <4> QED BY <2>2, <4>3
    <3> QED BY <1>1, <2>3, <2>6, <3>1 DEF MessagesBehind
  <2>11. CompletionUnderWay'
    <3>1. (Wave + 1) - 1 = Wave /\ m = <<"wave_complete", Wave>>
      BY <2>2 DEF Wave
    <3> HIDE DEF m
    <3> QED BY <2>3, <2>6, <3>1 DEF CompletionUnderWay
  <2>12. StartUnderWay'
    <3>1. co_wave' # Wave'
      BY <1>1, <2>3, OneWave DEF coordVars
    <3> QED BY <3>1 DEF StartUnderWay
  <2> QED BY <1>4, <2>5, <2>7, <2>8, <2>9, <2>10, <2>11, <2>12 DEF IInv
<1> QED BY <1>5, <1>6

(***************************************************************************)
(* Every step preserves the invariant.                                     *)
(***************************************************************************)
LEMMA NextInv ==
    ASSUME IInv, [Next]_vars
    PROVE  IInv'
<1>1. CASE \E f \in FrontEnd : NextFrontEnd(f)
  BY <1>1, AddRequestAsyncInv, AbortRequestsAsyncInv, PauseResumeAsyncInv, ForwardFirstReqInv,
     ReceiveUpdatesInv DEF NextFrontEnd
<1>2. CASE NextCoordinator
  BY <1>2, HandleNewRequestInv, HandleWaveCompleteInv, HandleStartWaveInv, PublishStatsInv
     DEF NextCoordinator
<1>3. CASE \E e \in Engine : NextEngine(e)
  BY <1>3, AddRequestInv, DropInv, PauseSchedulerInv, ResumeSchedulerInv, HandleStartDpWaveInv,
     NotifyOrStartInv DEF NextEngine, handle_client_request
<1>4. CASE UNCHANGED vars
  <2> USE <1>4 DEF vars, frontVars, callVars, coordVars, engineVars, requestVars, socketVars
  <2>1. TypeOK'
    BY DEF IInv, TypeOK
  <2>2. SocketsOK' /\ Lockstep' /\ RequestsOK'
    BY DEF IInv, SocketsOK, Lockstep, RequestsOK
  <2>3. NoWaveAhead' /\ MessagesBehind'
    BY DEF IInv, NoWaveAhead, MessagesBehind, Wave
  <2>4. CompletionUnderWay' /\ StartUnderWay' /\ MessagesInOrder'
    BY DEF IInv, CompletionUnderWay, StartUnderWay, MessagesInOrder, AddOK, AbortOK, Wave
  <2> QED BY <2>1, <2>2, <2>3, <2>4 DEF IInv
<1> QED BY <1>1, <1>2, <1>3, <1>4, FinishPassInv, FinishAllReduceInv DEF Next

(***************************************************************************)
(* The invariant says that the ranks are in one collective, and that when  *)
(* all is quiet the coordinator has read of the end of the last wave and   *)
(* does not believe in another.                                            *)
(***************************************************************************)
LEMMA InvMatch == IInv => CollectivesMatch
BY DEF IInv, Lockstep, CollectivesMatch

(***************************************************************************)
(* What the invariant says once there is no message left.                  *)
(***************************************************************************)
LEMMA InvQuiet == IInv => QuietMeansPaused
<1> SUFFICES ASSUME IInv, Quiet
             PROVE  ~co_running /\ \A e \in Engine : current_wave[e] = co_wave
  BY DEF QuietMeansPaused
<1>1. co_wave = Wave
  <2>1. DOMAIN output[0] = {}
    BY EngineFacts DEF Quiet
  <2> QED BY <2>1, OneWave DEF IInv, CompletionUnderWay
<1>2. ~co_running
  <2>1. \A e \in Engine : ~engines_running[e] /\ DOMAIN start_wave[e] = {}
    BY DEF Quiet, has_work
  <2> QED BY <1>1, <2>1 DEF IInv, StartUnderWay
<1> QED BY <1>1, <1>2, OneWave

(***************************************************************************)
(* The variables keep their types; in particular no request is charged for *)
(* more passes than it has.                                                *)
(***************************************************************************)
THEOREM TypeCorrect == Spec => []TypeOK
<1>1. IInv => TypeOK
  BY DEF IInv
<1> QED BY InitInv, NextInv, <1>1, PTL DEF Spec

(***************************************************************************)
(* No rank waits in a forward pass while another waits in the all-reduce   *)
(* of _has_global_unfinished_reqs, whatever each of them has to do.        *)
(***************************************************************************)
THEOREM CollectivesAlwaysMatch == Spec => []CollectivesMatch
BY InitInv, NextInv, InvMatch, PTL DEF Spec

(***************************************************************************)
(* Nobody is ahead of the engines, which are all in one wave.              *)
(***************************************************************************)
THEOREM NeverAWaveAhead == Spec => []NoWaveAhead
<1>1. IInv => NoWaveAhead
  BY DEF IInv
<1> QED BY InitInv, NextInv, <1>1, PTL DEF Spec

(***************************************************************************)
(* Once all is quiet the coordinator knows the engines' wave and that they *)
(* sleep, so that the next request is going to wake all of them.           *)
(***************************************************************************)
THEOREM QuietAlwaysMeansPaused == Spec => []QuietMeansPaused
BY InitInv, NextInv, InvQuiet, PTL DEF Spec
=============================================================================
