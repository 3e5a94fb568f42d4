--------------------------- MODULE EngineCoreProof ---------------------------
(***************************************************************************)
(* For every number of requests and blocks, both scheduling policies, sync *)
(* and async scheduling, any number of batches in flight, with preemption, *)
(* aborts and resets: every block is accounted for, the prefix cache index *)
(* is consistent, and the queues match the requests' status; every prefix  *)
(* of a cached block's chain is cached, and no assertion fails but, under  *)
(* async scheduling, the one on num_output_placeholders.                   *)
(***************************************************************************)
EXTENDS EngineCore, KVCacheProof

Queued == {"WAITING", "PREEMPTED"}

\* The queues w and u, of waiting and running requests, have each request of q
\* where its status says, once.
Placed(w, u, q) ==
    /\ w \in Seq(Request) /\ u \in Seq(Request)
    /\ IsInjective(w) /\ IsInjective(u)
    /\ \A r \in Request : r \in Range(u) <=> q[r].status = "RUNNING"
    /\ \A r \in Request : r \in Range(w) <=> q[r].status \in Queued
    /\ Len(u) <= MaxNumRunningReqs

\* The blocks of manager m are accounted for, and only running requests of q
\* hold any.
Held(m, q) ==
    /\ ManagerOK(m)
    /\ \A r \in Request : m.req_to_blocks[r] # <<>> => q[r].status = "RUNNING"

\* Requests p differ from q in the status of r only.
Changed(q, p, r) == \A s \in Request : s # r => p[s].status = q[s].status

-----------------------------------------------------------------------------
(* The request queues *)

(***************************************************************************)
(* Without takes out the one request.                                      *)
(***************************************************************************)
LEMMA WithoutFacts ==
    ASSUME NEW u \in Seq(Request), NEW r \in Request
    PROVE  /\ Without(u, r) \in Seq(Request)
           /\ \A s : s \in Range(Without(u, r)) <=> (s \in Range(u) /\ s # r)
           /\ IsInjective(u) => IsInjective(Without(u, r))
           /\ Len(Without(u, r)) <= Len(u)
<1>1. /\ Without(u, r) \in Seq(Request)
      /\ Range(Without(u, r)) = Range(u) \cap (Request \ {r})
      /\ IsInjective(u) => IsInjective(Without(u, r))
      /\ Len(Without(u, r)) <= Len(u)
  BY KeepFacts DEF Without
<1>2. Range(u) \subseteq Request
  BY DEF Range
<1> QED BY <1>1, <1>2

(***************************************************************************)
(* Request.__lt__ compares any two requests.                               *)
(***************************************************************************)
LEMMA BeforeTotal ==
    /\ \A r, s \in Request : r # s => (Before(r, s) \/ Before(s, r))
    /\ \A r \in Request : ~Before(r, r)
    /\ \A r, s, t \in Request : (Before(r, s) /\ Before(s, t)) => Before(r, t)
<1>1. \A r \in Request : r \in Int /\ Priority[r] \in Int
  BY SchedulerAssumption
<1> QED BY <1>1 DEF Before

\* Queue v is w with r added somewhere.
Extends(v, w, r) ==
    /\ v \in Seq(Request) /\ IsInjective(v)
    /\ \A s : s \in Range(v) <=> (s \in Range(w) \/ s = r)

(***************************************************************************)
(* PriorityRequestQueue: a request that is not in the heap is in it once   *)
(* afterwards, between those before and those after it.                    *)
(***************************************************************************)
LEMMA InsertFacts ==
    ASSUME NEW w \in Seq(Request), IsInjective(w), NEW r \in Request, r \notin Range(w)
    PROVE  Extends(Insert(w, r), w, r)
<1> DEFINE lo == Keep(w, {s \in Request : Before(s, r)})
           hi == Keep(w, {s \in Request : Before(r, s)})
           one == <<r>>
           left == lo \o one
<1>1. /\ lo \in Seq(Request) /\ IsInjective(lo)
      /\ Range(lo) = Range(w) \cap {s \in Request : Before(s, r)}
  BY KeepFacts
<1>2. /\ hi \in Seq(Request) /\ IsInjective(hi)
      /\ Range(hi) = Range(w) \cap {s \in Request : Before(r, s)}
  BY KeepFacts
<1>3. one \in Seq(Request) /\ Range(one) = {r} /\ IsInjective(one)
  BY OneFacts
<1>4. Insert(w, r) = left \o hi
  BY DEF Insert
<1> HIDE DEF lo, hi, one
<1>5. Range(lo) \cap Range(one) = {}
  BY <1>1, <1>3, BeforeTotal
<1>6. left \in Seq(Request) /\ Range(left) = Range(lo) \cup Range(one) /\ IsInjective(left)
  BY <1>1, <1>3, <1>5, ConcatFacts
<1> HIDE DEF left
<1>7. Range(left) \cap Range(hi) = {}
  <2>1. ASSUME NEW s, s \in Range(left), s \in Range(hi) PROVE FALSE
    <3>1. s \in Request /\ Before(r, s)
      BY <1>2, <2>1
    <3>2. s \in Range(lo) \/ s = r
      BY <1>3, <1>6, <2>1
    <3> QED BY <1>1, <3>1, <3>2, BeforeTotal
  <2> QED BY <2>1
<1>8. /\ left \o hi \in Seq(Request) /\ Range(left \o hi) = Range(left) \cup Range(hi)
      /\ IsInjective(left \o hi)
  BY <1>2, <1>6, <1>7, ConcatFacts
<1>9. Range(w) \subseteq Request
  BY DEF Range
<1>10. ASSUME NEW s PROVE s \in Range(left \o hi) <=> (s \in Range(w) \/ s = r)
  <2>1. s \in Range(left \o hi) <=> (s \in Range(lo) \/ s = r \/ s \in Range(hi))
    BY <1>3, <1>6, <1>8
  <2>2. s \in Range(w) => (s \in Request /\ s # r)
    BY <1>9
  <2> QED BY <1>1, <1>2, <2>1, <2>2, BeforeTotal
<1> QED BY <1>4, <1>8, <1>10 DEF Extends

(***************************************************************************)
(* add_request and prepend_request of both kinds of RequestQueue add the   *)
(* request and lose none.                                                  *)
(***************************************************************************)
LEMMA QueueFacts ==
    ASSUME NEW w \in Seq(Request), IsInjective(w), NEW r \in Request, r \notin Range(w)
    PROVE  Extends(Enqueue(w, r), w, r) /\ Extends(Prepend(w, r), w, r)
<1>1. Extends(Insert(w, r), w, r)
  BY InsertFacts
<1>2. Extends(Append(w, r), w, r)
  BY AppendFacts DEF Extends
<1>3. Extends(<<r>> \o w, w, r)
  <2> DEFINE one == <<r>>
  <2>1. one \in Seq(Request) /\ Range(one) = {r} /\ IsInjective(one)
    BY OneFacts
  <2> HIDE DEF one
  <2>2. Range(one) \cap Range(w) = {}
    BY <2>1
  <2>3. one \o w \in Seq(Request) /\ Range(one \o w) = Range(one) \cup Range(w)
        /\ IsInjective(one \o w)
    BY <2>1, <2>2, ConcatFacts
  <2>4. Extends(one \o w, w, r)
    BY <2>1, <2>3 DEF Extends
  <2> QED BY <2>4 DEF one
<1> QED BY <1>1, <1>2, <1>3 DEF Enqueue, Prepend

(***************************************************************************)
(* pop_request takes the first request out, and nothing else.              *)
(***************************************************************************)
LEMMA TailFacts ==
    ASSUME NEW T, NEW w \in Seq(T), w # <<>>
    PROVE  /\ Head(w) \in T /\ Tail(w) \in Seq(T) /\ Head(w) \in Range(w)
           /\ IsInjective(w) => /\ IsInjective(Tail(w))
                                /\ \A s : s \in Range(Tail(w)) <=> (s \in Range(w) /\ s # Head(w))
<1> DEFINE t == Tail(w)
           n == Len(w)
<1>1. /\ n \in Nat /\ n >= 1 /\ DOMAIN w = 1 .. n /\ Head(w) = w[1] /\ w[1] \in T
      /\ t \in Seq(T) /\ Len(t) = n - 1 /\ DOMAIN t = 1 .. (n - 1)
      /\ \A i \in 1 .. (n - 1) : t[i] = w[i + 1]
  OBVIOUS
<1> HIDE DEF t, n
<1>2. 1 \in DOMAIN w /\ Head(w) \in Range(w)
  BY <1>1 DEF Range
<1>3. ASSUME IsInjective(w) PROVE IsInjective(t)
  <2>1. ASSUME NEW i \in 1 .. (n - 1), NEW j \in 1 .. (n - 1), t[i] = t[j]
        PROVE  i = j
    <3>1. i + 1 \in DOMAIN w /\ j + 1 \in DOMAIN w /\ t[i] = w[i + 1] /\ t[j] = w[j + 1]
      BY <1>1
    <3>2. i + 1 = j + 1
      BY <1>3, <2>1, <3>1 DEF IsInjective
    <3> QED BY <3>2
  <2> QED BY <1>1, <2>1 DEF IsInjective
<1>4. ASSUME IsInjective(w), NEW s
      PROVE  s \in Range(t) <=> (s \in Range(w) /\ s # Head(w))
  <2>1. ASSUME s \in Range(t) PROVE s \in Range(w) /\ s # Head(w)
    <3>1. PICK i \in 1 .. (n - 1) : t[i] = s
      BY <1>1, <2>1 DEF Range
    <3>2. i + 1 \in DOMAIN w /\ w[i + 1] = s /\ i + 1 # 1
      BY <1>1, <3>1
    <3> QED BY <1>1, <1>2, <1>4, <3>2 DEF Range, IsInjective
  <2>2. ASSUME s \in Range(w), s # Head(w) PROVE s \in Range(t)
    <3>1. PICK i \in 1 .. n : w[i] = s
      BY <1>1, <2>2 DEF Range
    <3>2. i # 1
      BY <1>1, <2>2, <3>1
    <3>3. i - 1 \in 1 .. (n - 1) /\ (i - 1) + 1 = i
      BY <1>1, <3>2
    <3>4. t[i - 1] = s
      BY <1>1, <3>1, <3>3
    <3> QED BY <1>1, <3>3, <3>4 DEF Range
  <2> QED BY <2>1, <2>2
<1> QED BY <1>1, <1>2, <1>3, <1>4 DEF t

-----------------------------------------------------------------------------
(* What the operations do to the queues *)

(***************************************************************************)
(* The queues keep matching as long as no status changes.                  *)
(***************************************************************************)
LEMMA PlacedSame ==
    ASSUME NEW w, NEW u, NEW q, NEW p, Placed(w, u, q),
           \A r \in Request : p[r].status = q[r].status
    PROVE  Placed(w, u, p)
BY DEF Placed

(***************************************************************************)
(* A request that stops or is aborted leaves the queue it was in:          *)
(* self.running if it was running, self.waiting otherwise.                 *)
(***************************************************************************)
LEMMA PlacedFinish ==
    ASSUME NEW w, NEW u, NEW q, NEW p, Placed(w, u, q), NEW r \in Request, Changed(q, p, r),
           q[r].status \in {"WAITING", "RUNNING", "PREEMPTED"},
           p[r].status \in {"FINISHED", "FINISHED_ABORTED"}
    PROVE  /\ q[r].status = "RUNNING" => Placed(w, Without(u, r), p)
           /\ q[r].status # "RUNNING" => Placed(Without(w, r), u, p)
<1>1. /\ w \in Seq(Request) /\ u \in Seq(Request) /\ IsInjective(w) /\ IsInjective(u)
      /\ Len(u) <= MaxNumRunningReqs
      /\ \A s \in Request : s \in Range(u) <=> q[s].status = "RUNNING"
      /\ \A s \in Request : s \in Range(w) <=> q[s].status \in Queued
  BY DEF Placed
<1>2. p[r].status # "RUNNING" /\ p[r].status \notin Queued
  BY DEF Queued
<1>3. \A s \in Request : s # r => p[s].status = q[s].status
  BY DEF Changed
<1>4. /\ Without(u, r) \in Seq(Request) /\ IsInjective(Without(u, r))
      /\ Len(Without(u, r)) <= Len(u)
      /\ \A s : s \in Range(Without(u, r)) <=> (s \in Range(u) /\ s # r)
  BY <1>1, WithoutFacts
<1>5. /\ Without(w, r) \in Seq(Request) /\ IsInjective(Without(w, r))
      /\ \A s : s \in Range(Without(w, r)) <=> (s \in Range(w) /\ s # r)
  BY <1>1, WithoutFacts
<1>6. Len(Without(u, r)) <= MaxNumRunningReqs
  <2>1. Len(Without(u, r)) \in Nat /\ Len(u) \in Nat /\ MaxNumRunningReqs \in Nat
    BY <1>1, <1>4, SchedulerAssumption
  <2> QED BY <1>1, <1>4, <2>1
<1>7. ASSUME q[r].status = "RUNNING" PROVE Placed(w, Without(u, r), p)
  <2>1. r \notin Range(w)
    BY <1>1, <1>7 DEF Queued
  <2>2. \A s \in Request : s \in Range(Without(u, r)) <=> p[s].status = "RUNNING"
    BY <1>1, <1>2, <1>3, <1>4
  <2>3. \A s \in Request : s \in Range(w) <=> p[s].status \in Queued
    BY <1>1, <1>2, <1>3, <2>1
  <2> QED BY <1>1, <1>4, <1>6, <2>2, <2>3 DEF Placed
<1>8. ASSUME q[r].status # "RUNNING" PROVE Placed(Without(w, r), u, p)
  <2>1. r \notin Range(u)
    BY <1>1, <1>8
  <2>2. \A s \in Request : s \in Range(u) <=> p[s].status = "RUNNING"
    BY <1>1, <1>2, <1>3, <2>1
  <2>3. \A s \in Request : s \in Range(Without(w, r)) <=> p[s].status \in Queued
    BY <1>1, <1>2, <1>3, <1>5
  <2> QED BY <1>1, <1>5, <2>2, <2>3 DEF Placed
<1> QED BY <1>7, <1>8

(***************************************************************************)
(* _preempt_request moves the victim from self.running to self.waiting.    *)
(***************************************************************************)
LEMMA PlacedPreempt ==
    ASSUME NEW w, NEW u, NEW q, NEW p, Placed(w, u, q), NEW v \in Request, Changed(q, p, v),
           v \in Range(u), p[v].status = "PREEMPTED"
    PROVE  Placed(Prepend(w, v), Without(u, v), p)
<1>1. /\ w \in Seq(Request) /\ u \in Seq(Request) /\ IsInjective(w) /\ IsInjective(u)
      /\ Len(u) <= MaxNumRunningReqs
      /\ \A s \in Request : s \in Range(u) <=> q[s].status = "RUNNING"
      /\ \A s \in Request : s \in Range(w) <=> q[s].status \in Queued
  BY DEF Placed
<1>2. p[v].status # "RUNNING" /\ p[v].status \in Queued /\ v \notin Range(w)
  BY <1>1 DEF Queued
<1>3. \A s \in Request : s # v => p[s].status = q[s].status
  BY DEF Changed
<1>4. /\ Without(u, v) \in Seq(Request) /\ IsInjective(Without(u, v))
      /\ Len(Without(u, v)) <= Len(u)
      /\ \A s : s \in Range(Without(u, v)) <=> (s \in Range(u) /\ s # v)
  BY <1>1, WithoutFacts
<1>5. /\ Prepend(w, v) \in Seq(Request) /\ IsInjective(Prepend(w, v))
      /\ \A s : s \in Range(Prepend(w, v)) <=> (s \in Range(w) \/ s = v)
  BY <1>1, <1>2, QueueFacts DEF Extends
<1>6. Len(Without(u, v)) <= MaxNumRunningReqs
  <2>1. Len(Without(u, v)) \in Nat /\ Len(u) \in Nat /\ MaxNumRunningReqs \in Nat
    BY <1>1, <1>4, SchedulerAssumption
  <2> QED BY <1>1, <1>4, <2>1
<1>7. \A s \in Request : s \in Range(Without(u, v)) <=> p[s].status = "RUNNING"
  BY <1>1, <1>2, <1>3, <1>4
<1>8. \A s \in Request : s \in Range(Prepend(w, v)) <=> p[s].status \in Queued
  BY <1>1, <1>2, <1>3, <1>5
<1> QED BY <1>4, <1>5, <1>6, <1>7, <1>8 DEF Placed

(***************************************************************************)
(* Scheduler.add_request puts a request that is in no queue into           *)
(* self.waiting.                                                           *)
(***************************************************************************)
LEMMA PlacedAdd ==
    ASSUME NEW w, NEW u, NEW q, NEW p, Placed(w, u, q), NEW r \in Request, Changed(q, p, r),
           q[r].status \notin {"WAITING", "RUNNING", "PREEMPTED"}, p[r].status = "WAITING"
    PROVE  Placed(Enqueue(w, r), u, p)
<1>1. /\ w \in Seq(Request) /\ u \in Seq(Request) /\ IsInjective(w) /\ IsInjective(u)
      /\ Len(u) <= MaxNumRunningReqs
      /\ \A s \in Request : s \in Range(u) <=> q[s].status = "RUNNING"
      /\ \A s \in Request : s \in Range(w) <=> q[s].status \in Queued
  BY DEF Placed
<1>2. /\ p[r].status # "RUNNING" /\ p[r].status \in Queued
      /\ r \notin Range(w) /\ r \notin Range(u)
  BY <1>1 DEF Queued
<1>3. \A s \in Request : s # r => p[s].status = q[s].status
  BY DEF Changed
<1>4. /\ Enqueue(w, r) \in Seq(Request) /\ IsInjective(Enqueue(w, r))
      /\ \A s : s \in Range(Enqueue(w, r)) <=> (s \in Range(w) \/ s = r)
  BY <1>1, <1>2, QueueFacts DEF Extends
<1>5. \A s \in Request : s \in Range(u) <=> p[s].status = "RUNNING"
  BY <1>1, <1>2, <1>3
<1>6. \A s \in Request : s \in Range(Enqueue(w, r)) <=> p[s].status \in Queued
  BY <1>1, <1>2, <1>3, <1>4
<1> QED BY <1>1, <1>4, <1>5, <1>6 DEF Placed

(***************************************************************************)
(* schedule() moves the first waiting request to self.running, which had   *)
(* room for it.                                                            *)
(***************************************************************************)
LEMMA PlacedAdmit ==
    ASSUME NEW w, NEW u, NEW q, NEW p, Placed(w, u, q), w # <<>>, Changed(q, p, Head(w)),
           Len(u) # MaxNumRunningReqs, p[Head(w)].status = "RUNNING"
    PROVE  Placed(Tail(w), Append(u, Head(w)), p)
<1> DEFINE r == Head(w)
           x == Append(u, r)
<1>1. /\ w \in Seq(Request) /\ u \in Seq(Request) /\ IsInjective(w) /\ IsInjective(u)
      /\ Len(u) <= MaxNumRunningReqs
      /\ \A s \in Request : s \in Range(u) <=> q[s].status = "RUNNING"
      /\ \A s \in Request : s \in Range(w) <=> q[s].status \in Queued
  BY DEF Placed
<1>2. /\ r \in Request /\ r \in Range(w) /\ Tail(w) \in Seq(Request) /\ IsInjective(Tail(w))
      /\ \A s : s \in Range(Tail(w)) <=> (s \in Range(w) /\ s # r)
  BY <1>1, TailFacts
<1>3. \A s \in Request : s # r => p[s].status = q[s].status
  BY DEF Changed
<1> HIDE DEF r
<1>4. p[r].status = "RUNNING" /\ p[r].status \notin Queued
  BY DEF Queued, r
<1>5. r \notin Range(u)
  BY <1>1, <1>2 DEF Queued
<1>6. /\ x \in Seq(Request) /\ IsInjective(x) /\ Len(x) = Len(u) + 1
      /\ Range(x) = Range(u) \cup {r}
  BY <1>1, <1>2, <1>5, AppendFacts
<1>7. Len(x) <= MaxNumRunningReqs
  <2>1. Len(u) \in Nat /\ MaxNumRunningReqs \in Nat
    BY <1>1, SchedulerAssumption
  <2> QED BY <1>1, <1>6, <2>1
<1>8. \A s \in Request : s \in Range(x) <=> p[s].status = "RUNNING"
  BY <1>1, <1>3, <1>4, <1>6
<1>9. \A s \in Request : s \in Range(Tail(w)) <=> p[s].status \in Queued
  BY <1>1, <1>2, <1>3, <1>4
<1>10. Placed(Tail(w), x, p)
  BY <1>2, <1>6, <1>7, <1>8, <1>9 DEF Placed
<1> QED BY <1>10 DEF r

(***************************************************************************)
(* A request may leave the RUNNING status in the step that frees its       *)
(* blocks, whatever its status is then.                                    *)
(***************************************************************************)
LEMMA HeldFree ==
    ASSUME NEW m, NEW q, NEW p, Held(m, q), NEW r \in Request, Changed(q, p, r)
    PROVE  Held(free(m, r), p)
<1>1. ManagerOK(free(m, r)) /\ free(m, r).req_to_blocks = [m.req_to_blocks EXCEPT ![r] = <<>>]
  BY FreeOK DEF Held
<1>2. DOMAIN m.req_to_blocks = Request
  BY DEF Held, ManagerOK, IsManager
<1> QED BY <1>1, <1>2 DEF Held, Changed

-----------------------------------------------------------------------------
(* All running requests preempted *)

\* f is the function that PreemptAll(m, w, u) is defined by, for the last k of
\* the n requests of u.
PreemptedBy(f, m, w, u, n, k) ==
    f = [i \in 0 .. k |->
           IF i = 0 THEN [manager |-> m, waiting |-> w]
           ELSE [manager |-> free(f[i - 1].manager, u[n + 1 - i]),
                 waiting |-> Prepend(f[i - 1].waiting, u[n + 1 - i])]]

(***************************************************************************)
(* PreemptAll is well defined: the function it is defined by exists.       *)
(***************************************************************************)
LEMMA PreemptedExists ==
    ASSUME NEW m, NEW w, NEW u, NEW n, NEW k \in Nat
    PROVE  \E f : PreemptedBy(f, m, w, u, n, k)
<1> DEFINE P(x) == \E f : PreemptedBy(f, m, w, u, n, x)
           Bad == {x \in Nat : ~P(x)}
           G(f, i) == IF i = 0 THEN [manager |-> m, waiting |-> w]
                      ELSE [manager |-> free(f[i - 1].manager, u[n + 1 - i]),
                            waiting |-> Prepend(f[i - 1].waiting, u[n + 1 - i])]
<1> SUFFICES ASSUME ~P(k) PROVE FALSE
  OBVIOUS
<1>1. PICK x \in Bad : \A y \in Bad : x <= y
  <2> HIDE DEF P
  <2> QED BY LeastNat
<1>2. P(0)
  <2> DEFINE f == [i \in 0 .. 0 |-> [manager |-> m, waiting |-> w]]
  <2>1. PreemptedBy(f, m, w, u, n, 0)
    BY DEF PreemptedBy
  <2> QED BY <2>1
<1>3. x \in Nat /\ x # 0 /\ ~P(x)
  <2> HIDE DEF P
  <2> QED BY <1>1, <1>2
<1>4. P(x - 1)
  <2> HIDE DEF P
  <2>1. x - 1 \in Nat /\ ~(x <= x - 1)
    BY <1>3
  <2> QED BY <1>1, <2>1
<1>5. PICK g : PreemptedBy(g, m, w, u, n, x - 1)
  BY <1>4
<1> DEFINE last == G(g, x)
           h == [i \in 0 .. x |-> IF i < x THEN g[i] ELSE last]
<1>6. \A i \in 0 .. x : h[i] = G(h, i)
  <2> SUFFICES ASSUME NEW i \in 0 .. x PROVE h[i] = G(h, i)
    OBVIOUS
  <2>1. CASE i = 0
    <3>1. h[0] = g[0] /\ g[0] = [manager |-> m, waiting |-> w]
      BY <1>3, <1>5 DEF PreemptedBy
    <3> QED BY <2>1, <3>1
  <2>2. CASE i # 0
    <3>1. h[i - 1] = g[i - 1]
      BY <1>3, <2>2
    <3>2. G(h, i) = G(g, i)
      BY <2>2, <3>1
    <3>3. CASE i < x
      <4>1. h[i] = g[i]
        BY <3>3
      <4>2. i \in 0 .. (x - 1)
        BY <1>3, <3>3
      <4>3. g[i] = G(g, i)
        BY <1>5, <4>2 DEF PreemptedBy
      <4> QED BY <3>2, <4>1, <4>3
    <3>4. CASE i = x
      <4>1. h[i] = G(g, i)
        BY <1>3, <3>4
      <4> QED BY <3>2, <4>1
    <3> QED BY <1>3, <3>3, <3>4
  <2> QED BY <2>1, <2>2
<1>7. PreemptedBy(h, m, w, u, n, x)
  BY <1>6 DEF PreemptedBy
<1> QED BY <1>3, <1>7

(***************************************************************************)
(* reset_prefix_cache with reset_running_requests: once every running      *)
(* request is preempted no request holds a block, and the queue of waiting *)
(* requests has all of them, once.                                         *)
(***************************************************************************)
LEMMA PreemptAllFacts ==
    ASSUME NEW m, NEW w, NEW u, NEW q, Placed(w, u, q), Held(m, q)
    PROVE  LET left == PreemptAll(m, w, u)
           IN  /\ ManagerOK(left.manager)
               /\ \A r \in Request : left.manager.req_to_blocks[r] = <<>>
               /\ left.waiting \in Seq(Request) /\ IsInjective(left.waiting)
               /\ \A r : r \in Range(left.waiting) <=> (r \in Range(w) \/ r \in Range(u))
               /\ left.manager.pool.error = m.pool.error
               /\ (HasTokens(q) /\ Linked(m, q)) => Linked(left.manager, q)
<1> DEFINE n == Len(u)
           f == CHOOSE g : PreemptedBy(g, m, w, u, n, n)
           G(i) == IF i = 0 THEN [manager |-> m, waiting |-> w]
                   ELSE [manager |-> free(f[i - 1].manager, u[n + 1 - i]),
                         waiting |-> Prepend(f[i - 1].waiting, u[n + 1 - i])]
           Done(i) == {u[n + 1 - j] : j \in 1 .. i}
           Good(i) == /\ ManagerOK(f[i].manager)
                      /\ \A r \in Request : f[i].manager.req_to_blocks[r] =
                            IF r \in Done(i) THEN <<>> ELSE m.req_to_blocks[r]
                      /\ f[i].waiting \in Seq(Request) /\ IsInjective(f[i].waiting)
                      /\ \A r : r \in Range(f[i].waiting) <=> (r \in Range(w) \/ r \in Done(i))
                      /\ f[i].manager.pool.error = m.pool.error
                      /\ (HasTokens(q) /\ Linked(m, q)) => Linked(f[i].manager, q)
           Bad == {i \in 0 .. n : ~Good(i)}
<1>1. /\ n \in Nat /\ DOMAIN u = 1 .. n /\ \A i \in 1 .. n : u[i] \in Request
      /\ w \in Seq(Request) /\ IsInjective(w) /\ IsInjective(u)
      /\ \A s \in Request : s \in Range(u) <=> q[s].status = "RUNNING"
      /\ \A s \in Request : s \in Range(w) <=> q[s].status \in Queued
  BY DEF Placed
<1>2. ManagerOK(m) /\ \A r \in Request : m.req_to_blocks[r] # <<>> => r \in Range(u)
  BY <1>1 DEF Held
<1>3. PreemptAll(m, w, u) = f[n]
  BY DEF PreemptAll, PreemptedBy
<1> HIDE DEF n
<1>4. \A i \in 0 .. n : f[i] = G(i)
  <2>1. PreemptedBy(f, m, w, u, n, n)
    BY <1>1, PreemptedExists
  <2> HIDE DEF f
  <2> QED BY <2>1 DEF PreemptedBy
<1> HIDE DEF f
<1>5. Good(0)
  <2>1. f[0] = [manager |-> m, waiting |-> w]
    <3>1. G(0) = [manager |-> m, waiting |-> w]
      OBVIOUS
    <3> HIDE DEF G
    <3> QED BY <1>1, <1>4, <3>1
  <2>2. Done(0) = {}
    OBVIOUS
  <2> HIDE DEF Done
  <2> QED BY <1>1, <1>2, <2>1, <2>2
<1>6. ASSUME NEW i \in 1 .. n, Good(i - 1) PROVE Good(i)
  <2> DEFINE v == u[n + 1 - i]
             a == f[i - 1].manager
             b == f[i - 1].waiting
  <2>1. n + 1 - i \in 1 .. n /\ v \in Request /\ v \in Range(u)
    BY <1>1 DEF Range
  <2>2. f[i].manager = free(a, v) /\ f[i].waiting = Prepend(b, v)
    <3>1. i # 0 /\ i \in 0 .. n
      BY <1>1
    <3>2. G(i) = [manager |-> free(a, v), waiting |-> Prepend(b, v)]
      BY <3>1
    <3> HIDE DEF G, a, b, v
    <3> QED BY <1>4, <3>1, <3>2
  <2>3. \A r : r \in Done(i) <=> (r \in Done(i - 1) \/ r = v)
    <3>1. 1 .. i = (1 .. (i - 1)) \cup {i}
      BY <1>1
    <3> QED BY <3>1
  <2>4. v \notin Done(i - 1) /\ v \notin Range(w)
    <3>1. ASSUME NEW j \in 1 .. (i - 1), u[n + 1 - j] = v PROVE FALSE
      <4>1. n + 1 - j \in 1 .. n /\ n + 1 - j # n + 1 - i
        BY <1>1
      <4> QED BY <1>1, <2>1, <3>1, <4>1 DEF IsInjective
    <3>2. v \notin Range(w)
      BY <1>1, <2>1 DEF Queued
    <3> QED BY <3>1, <3>2
  <2> HIDE DEF Done, v
  <2>5. /\ ManagerOK(a) /\ b \in Seq(Request) /\ IsInjective(b)
        /\ \A r : r \in Range(b) <=> (r \in Range(w) \/ r \in Done(i - 1))
        /\ \A r \in Request : a.req_to_blocks[r] =
              IF r \in Done(i - 1) THEN <<>> ELSE m.req_to_blocks[r]
        /\ a.pool.error = m.pool.error
        /\ (HasTokens(q) /\ Linked(m, q)) => Linked(a, q)
    BY <1>6
  <2> HIDE DEF a, b
  <2>6. /\ ManagerOK(free(a, v))
        /\ free(a, v).req_to_blocks = [a.req_to_blocks EXCEPT ![v] = <<>>]
    BY <2>1, <2>5, FreeOK
  <2>7. DOMAIN a.req_to_blocks = Request
    BY <2>5 DEF ManagerOK, IsManager
  <2>8. \A r \in Request : free(a, v).req_to_blocks[r] =
              IF r \in Done(i) THEN <<>> ELSE m.req_to_blocks[r]
    BY <2>3, <2>5, <2>6, <2>7
  <2>9. Extends(Prepend(b, v), b, v)
    BY <2>1, <2>4, <2>5, QueueFacts
  <2>10. free(a, v).pool.error = m.pool.error
    <3>1. GivenBack(free(a, v), a, v)
      BY <2>1, <2>5, FreeFacts
    <3> QED BY <2>5, <3>1 DEF GivenBack
  <2>11. (HasTokens(q) /\ Linked(m, q)) => Linked(free(a, v), q)
    <3>1. HasTokens(q) => SameTokens(q, q, v)
      BY DEF SameTokens
    <3> QED BY <2>1, <2>5, <3>1, FreeLinked
  <2> QED BY <2>2, <2>3, <2>5, <2>6, <2>8, <2>9, <2>10, <2>11 DEF Extends
<1>7. Bad = {}
  <2> HIDE DEF Good
  <2> SUFFICES ASSUME Bad # {} PROVE FALSE
    OBVIOUS
  <2>1. Bad \in SUBSET Nat
    BY <1>1
  <2>2. PICK x \in Bad : \A y \in Bad : x <= y
    BY <2>1, LeastNat
  <2>3. x \in 1 .. n /\ ~Good(x)
    BY <1>1, <1>5, <2>2
  <2>4. x - 1 \in 0 .. n /\ ~(x <= x - 1)
    BY <1>1, <2>3
  <2>5. Good(x - 1)
    BY <2>2, <2>4
  <2> QED BY <1>6, <2>3, <2>5
<1>8. Good(n)
  <2> HIDE DEF Good
  <2> QED BY <1>1, <1>7
<1>9. Done(n) = Range(u)
  <2>1. ASSUME NEW r \in Range(u) PROVE r \in Done(n)
    <3>1. PICK i \in 1 .. n : u[i] = r
      BY <1>1 DEF Range
    <3>2. n + 1 - i \in 1 .. n /\ n + 1 - (n + 1 - i) = i
      BY <1>1
    <3> QED BY <3>1, <3>2
  <2>2. ASSUME NEW r \in Done(n) PROVE r \in Range(u)
    <3>1. PICK j \in 1 .. n : u[n + 1 - j] = r
      OBVIOUS
    <3>2. n + 1 - j \in 1 .. n
      BY <1>1
    <3> QED BY <1>1, <3>1, <3>2 DEF Range
  <2> QED BY <2>1, <2>2
<1> HIDE DEF Done
<1>10. \A r \in Request : f[n].manager.req_to_blocks[r] = <<>>
  BY <1>2, <1>8, <1>9
<1> QED BY <1>3, <1>8, <1>9, <1>10

-----------------------------------------------------------------------------
(* The request that is preempted *)

(***************************************************************************)
(* Whoever is preempted is running: the last request under FCFS, and under *)
(* the priority policy the one that comes after all others, which exists   *)
(* because Request.__lt__ is a total order.                                *)
(***************************************************************************)
LEMMA VictimRuns ==
    ASSUME running \in Seq(Request), running # <<>>
    PROVE  Victim \in Range(running)
<1> DEFINE n == Len(running)
           u == running
           Top(k, v) == \A j \in 1 .. k : u[j] = v \/ Before(u[j], v)
           P(k) == \E i \in 1 .. k : Top(k, u[i])
           Bad == {k \in 1 .. n : ~P(k)}
<1>1. n \in Nat /\ n >= 1 /\ DOMAIN u = 1 .. n /\ \A i \in 1 .. n : u[i] \in Request
  OBVIOUS
<1>2. CASE Policy = "fcfs"
  BY <1>1, <1>2 DEF Victim, Range
<1>3. CASE Policy # "fcfs"
  <2> HIDE DEF n, u
  <2>1. P(1)
    BY <1>1
  <2>2. ASSUME NEW k \in 2 .. n, P(k - 1) PROVE P(k)
    <3>1. PICK i \in 1 .. (k - 1) : Top(k - 1, u[i])
      BY <2>2
    <3>2. u[i] \in Request /\ u[k] \in Request /\ k \in 1 .. k /\ i \in 1 .. k
      BY <1>1
    <3>3. CASE u[k] = u[i] \/ Before(u[k], u[i])
      <4>1. \A j \in 1 .. k : j \in 1 .. (k - 1) \/ j = k
        BY <1>1
      <4>2. Top(k, u[i])
        BY <3>1, <3>3, <4>1
      <4> QED BY <3>2, <4>2
    <3>4. CASE ~(u[k] = u[i] \/ Before(u[k], u[i]))
      <4>1. Before(u[i], u[k])
        BY <3>2, <3>4, BeforeTotal
      <4>2. ASSUME NEW j \in 1 .. k PROVE u[j] = u[k] \/ Before(u[j], u[k])
        <5>1. CASE j = k
          BY <5>1
        <5>2. CASE j # k
          <6>1. j \in 1 .. (k - 1) /\ u[j] \in Request
            BY <1>1, <5>2
          <6>2. u[j] = u[i] \/ Before(u[j], u[i])
            BY <3>1, <6>1
          <6> QED BY <3>2, <4>1, <6>1, <6>2, BeforeTotal
        <5> QED BY <5>1, <5>2
      <4>3. Top(k, u[k])
        BY <4>2
      <4> QED BY <3>2, <4>3
    <3> QED BY <3>3, <3>4
  <2>3. P(n)
    <3> HIDE DEF P
    <3> SUFFICES ASSUME ~P(n) PROVE FALSE
      OBVIOUS
    <3>1. n \in Bad /\ Bad \in SUBSET Nat
      BY <1>1
    <3>2. PICK x \in Bad : \A y \in Bad : x <= y
      BY <3>1, LeastNat
    <3>3. x \in 2 .. n /\ ~P(x)
      BY <1>1, <2>1, <3>2
    <3>4. x - 1 \in 1 .. n /\ ~(x <= x - 1)
      BY <1>1, <3>3
    <3>5. P(x - 1)
      BY <3>2, <3>4
    <3> QED BY <2>2, <3>3, <3>5
  <2>4. \E v \in Range(u) : \A r \in Range(u) : r = v \/ Before(r, v)
    <3>1. PICK i \in 1 .. n : Top(n, u[i])
      BY <2>3
    <3>2. u[i] \in Range(u)
      BY <1>1 DEF Range
    <3>3. \A r \in Range(u) : r = u[i] \/ Before(r, u[i])
      BY <1>1, <3>1 DEF Range
    <3> QED BY <3>2, <3>3
  <2> QED BY <1>3, <2>4 DEF Victim, u
<1> QED BY <1>2, <1>3

-----------------------------------------------------------------------------
(* The inductive invariant *)

IsRequest(q) ==
    /\ DOMAIN q = {"status", "tokens", "num_computed_tokens", "num_output_placeholders",
                   "discard_latest_async_tokens"}
    /\ q.status \in Status
    /\ IsSeq(q.tokens) /\ q.tokens # <<>>
    /\ q.num_computed_tokens \in Int /\ q.num_output_placeholders \in Int

RequestsOK == DOMAIN requests = Request /\ \A r \in Request : IsRequest(requests[r])

QueuesOK == Placed(waiting, running, requests)

BlocksOK == Held(manager, requests)

IsEntry(e) == e.id \in Request /\ e.num_scheduled_tokens \in Int

\* While schedule() walks the running requests, its index is past as many of
\* them as it has scheduled.
IsStep(s) ==
    /\ DOMAIN s = {"loop", "req_index", "token_budget", "request", "num_new_tokens",
                   "scheduled", "preempted"}
    /\ s.req_index \in Int /\ s.token_budget \in Int /\ s.num_new_tokens \in Int
    /\ IsSeq(s.scheduled) /\ \A i \in DOMAIN s.scheduled : IsEntry(s.scheduled[i])
    /\ s.loop = "running" => s.req_index > Len(s.scheduled)

\* The request that is being scheduled is running; outside schedule() there is
\* none.
StepOK ==
    /\ IsStep(step)
    /\ step.request # NoRequest => step.request \in Range(running)
    /\ phase # "schedule" => step = NoStep

IsBatch(b) ==
    /\ DOMAIN b = {"out", "done", "sampled", "reads_ok"}
    /\ DOMAIN b.out = {"reqs", "finished_req_ids"}
    /\ IsSeq(b.out.reqs) /\ \A k \in DOMAIN b.out.reqs : b.out.reqs[k].id \in Request
    /\ b.done => /\ IsSeq(b.sampled) /\ Len(b.sampled) = Len(b.out.reqs)
                 /\ \A k \in DOMAIN b.sampled : IsSeq(b.sampled[k])

BatchesOK ==
    /\ IsSeq(batch_queue) /\ \A i \in DOMAIN batch_queue : IsBatch(batch_queue[i])
    /\ phase \in {"output", "update"} => batch_queue # <<>>

IInv == RequestsOK /\ QueuesOK /\ BlocksOK /\ StepOK /\ BatchesOK

(***************************************************************************)
(* Append of anything to a sequence.                                       *)
(***************************************************************************)
LEMMA SeqAppend ==
    ASSUME NEW s, IsSeq(s), NEW e
    PROVE  /\ IsSeq(Append(s, e)) /\ Len(Append(s, e)) = Len(s) + 1
           /\ DOMAIN Append(s, e) = 1 .. (Len(s) + 1) /\ Append(s, e)[Len(s) + 1] = e
           /\ \A i \in DOMAIN s : Append(s, e)[i] = s[i]
           /\ DOMAIN s = 1 .. Len(s) /\ Len(s) \in Nat
<1>1. s \in Seq(Range(s) \cup {e})
  BY DEF IsSeq, Range
<1>2. Append(s, e) \in Seq(Range(s) \cup {e})
  BY <1>1
<1>3. IsSeq(Append(s, e))
  BY <1>2, SeqIs
<1>4. /\ Len(Append(s, e)) = Len(s) + 1
      /\ DOMAIN Append(s, e) = 1 .. (Len(s) + 1) /\ Append(s, e)[Len(s) + 1] = e
      /\ \A i \in DOMAIN s : Append(s, e)[i] = s[i]
      /\ DOMAIN s = 1 .. Len(s) /\ Len(s) \in Nat
  BY <1>1
<1> QED BY <1>3, <1>4

(***************************************************************************)
(* Tokens stay a non-empty sequence when sampled tokens are added.         *)
(***************************************************************************)
LEMMA SeqConcat ==
    ASSUME NEW s, IsSeq(s), s # <<>>, NEW t, IsSeq(t)
    PROVE  IsSeq(s \o t) /\ s \o t # <<>>
<1> DEFINE T == Range(s) \cup Range(t)
<1>1. s \in Seq(T) /\ t \in Seq(T)
  BY DEF IsSeq, Range
<1> HIDE DEF T
<1>2. s \o t \in Seq(T) /\ Len(s \o t) = Len(s) + Len(t) /\ Len(s) \in Nat /\ Len(t) \in Nat
      /\ Len(s) # 0
  BY <1>1
<1>3. Len(s \o t) # 0
  BY <1>2
<1>4. s \o t # <<>>
  BY <1>2, <1>3
<1> QED BY <1>2, <1>4, SeqIs

(***************************************************************************)
(* Tail of a sequence that is not empty.                                   *)
(***************************************************************************)
LEMMA SeqTail ==
    ASSUME NEW s, IsSeq(s), s # <<>>
    PROVE  /\ IsSeq(Tail(s)) /\ Len(Tail(s)) = Len(s) - 1
           /\ DOMAIN Tail(s) = 1 .. (Len(s) - 1) /\ 1 \in DOMAIN s /\ DOMAIN s = 1 .. Len(s)
           /\ \A i \in DOMAIN Tail(s) : i + 1 \in DOMAIN s /\ Tail(s)[i] = s[i + 1]
<1>1. s \in Seq(Range(s))
  BY DEF IsSeq
<1>2. Tail(s) \in Seq(Range(s)) /\ Len(Tail(s)) = Len(s) - 1 /\ DOMAIN s = 1 .. Len(s)
      /\ Len(s) \in Nat /\ Len(s) >= 1 /\ DOMAIN Tail(s) = 1 .. (Len(s) - 1)
      /\ \A i \in 1 .. (Len(s) - 1) : Tail(s)[i] = s[i + 1]
  BY <1>1
<1>3. IsSeq(Tail(s))
  BY <1>2, SeqIs
<1>4. 1 \in 1 .. Len(s) /\ \A i \in 1 .. (Len(s) - 1) : i + 1 \in 1 .. Len(s)
  BY <1>2
<1> QED BY <1>2, <1>3, <1>4

(***************************************************************************)
(* Keep of a sequence, and that it gets shorter when something goes.       *)
(***************************************************************************)
LEMMA SeqKeep ==
    ASSUME NEW s, IsSeq(s), NEW S
    PROVE  /\ IsSeq(Keep(s, S)) /\ Range(Keep(s, S)) = Range(s) \cap S
           /\ Len(Keep(s, S)) <= Len(s) /\ Len(Keep(s, S)) \in Nat /\ Len(s) \in Nat
           /\ (\E j \in DOMAIN s : s[j] \notin S) => Len(Keep(s, S)) < Len(s)
<1>1. s \in Seq(Range(s))
  BY DEF IsSeq
<1>2. /\ Keep(s, S) \in Seq(Range(s)) /\ Range(Keep(s, S)) = Range(s) \cap S
      /\ Len(Keep(s, S)) <= Len(s)
      /\ (\E j \in DOMAIN s : s[j] \notin S) => Len(Keep(s, S)) < Len(s)
  BY <1>1, KeepFacts
<1>3. IsSeq(Keep(s, S)) /\ Len(Keep(s, S)) \in Nat /\ Len(s) \in Nat
  BY <1>1, <1>2, SeqIs
<1> QED BY <1>2, <1>3

(***************************************************************************)
(* A request is created with a prompt of one token or more.                *)
(***************************************************************************)
LEMMA NewRequestOK ==
    ASSUME NEW r \in Request, NEW status \in Status
    PROVE  IsRequest(NewRequest(r, status)) /\ NewRequest(r, status).status = status
<1> DEFINE n == Len(Prompt[r])
           T == {<<i, Prompt[r][i]>> : i \in 1 .. n}
           s == PromptTokens(r)
<1>1. n \in Nat /\ n >= 1
  BY SchedulerAssumption, SizesAssumption
<1>2. s = [i \in 1 .. n |-> <<i, Prompt[r][i]>>]
  BY DEF PromptTokens
<1> HIDE DEF n, s
<1>3. s \in Seq(T) /\ Len(s) = n
  BY <1>1, <1>2
<1> HIDE DEF T
<1>4. IsSeq(s) /\ s # <<>>
  BY <1>1, <1>3, SeqIs
<1>5. NewRequest(r, status) =
        [status |-> status, tokens |-> s, num_computed_tokens |-> 0,
         num_output_placeholders |-> 0, discard_latest_async_tokens |-> FALSE]
  BY DEF NewRequest, s
<1> QED BY <1>4, <1>5 DEF IsRequest

-----------------------------------------------------------------------------
(* The client's calls *)

(***************************************************************************)
(* EngineCore.add_request preserves the invariant: nothing was left of the *)
(* id, so its request holds no block and is in no queue.                   *)
(***************************************************************************)
LEMMA AddKeeps ==
    ASSUME IInv, NEW r \in Request, Add(r)
    PROVE  IInv'
<1>1. /\ requests' = [requests EXCEPT ![r] = NewRequest(r, "WAITING")]
      /\ waiting' = Enqueue(waiting, r)
      /\ running' = running /\ manager' = manager /\ step' = step
      /\ phase' = phase /\ batch_queue' = batch_queue
      /\ requests[r].status \notin {"WAITING", "RUNNING", "PREEMPTED"}
  BY DEF Add, add_request, Fresh, engineVars
<1>2. IsRequest(NewRequest(r, "WAITING")) /\ NewRequest(r, "WAITING").status = "WAITING"
  BY NewRequestOK DEF Status
<1>3. DOMAIN requests = Request
  BY DEF IInv, RequestsOK
<1>4. RequestsOK'
  BY <1>1, <1>2, <1>3 DEF IInv, RequestsOK
<1>5. Changed(requests, requests', r) /\ requests'[r].status = "WAITING"
  BY <1>1, <1>2, <1>3 DEF Changed
<1>6. QueuesOK'
  <2>1. Placed(waiting, running, requests)
    BY DEF IInv, QueuesOK
  <2>2. Placed(Enqueue(waiting, r), running, requests')
    BY <1>1, <1>5, <2>1, PlacedAdd
  <2> QED BY <1>1, <2>2 DEF QueuesOK
<1>7. BlocksOK'
  <2>1. Held(manager, requests)
    BY DEF IInv, BlocksOK
  <2>2. manager.req_to_blocks[r] = <<>>
    BY <1>1, <2>1 DEF Held
  <2>3. Held(manager, requests')
    BY <1>5, <2>1, <2>2 DEF Held, Changed
  <2> QED BY <1>1, <2>3 DEF BlocksOK
<1>8. StepOK' /\ BatchesOK'
  BY <1>1 DEF IInv, StepOK, BatchesOK
<1> QED BY <1>4, <1>6, <1>7, <1>8 DEF IInv

(***************************************************************************)
(* finish_requests preserves the invariant: outside schedule() nothing     *)
(* points to the request that goes.                                        *)
(***************************************************************************)
LEMMA AbortKeeps ==
    ASSUME IInv, NEW r \in Request, Abort(r)
    PROVE  IInv'
<1>1. /\ requests' = [requests EXCEPT ![r].status = "FINISHED_ABORTED"]
      /\ requests[r].status \in {"WAITING", "RUNNING", "PREEMPTED"}
      /\ running' = IF requests[r].status = "RUNNING" THEN Without(running, r) ELSE running
      /\ waiting' = IF requests[r].status = "RUNNING" THEN waiting ELSE Without(waiting, r)
      /\ manager' = free(manager, r) /\ step' = step
      /\ phase' = phase /\ batch_queue' = batch_queue /\ phase # "schedule"
  BY DEF Abort, finish_requests, engineVars
<1>2. DOMAIN requests = Request /\ \A s \in Request : IsRequest(requests[s])
  BY DEF IInv, RequestsOK
<1>3. /\ DOMAIN requests' = Request
      /\ \A s \in Request : s # r => requests'[s] = requests[s]
      /\ requests'[r] = [requests[r] EXCEPT !.status = "FINISHED_ABORTED"]
  BY <1>1, <1>2
<1>4. IsRequest(requests'[r]) /\ requests'[r].status = "FINISHED_ABORTED"
  BY <1>2, <1>3 DEF IsRequest, Status
<1>5. RequestsOK'
  BY <1>2, <1>3, <1>4 DEF RequestsOK
<1>6. Changed(requests, requests', r)
  BY <1>3 DEF Changed
<1>7. QueuesOK'
  <2>1. Placed(waiting, running, requests)
    BY DEF IInv, QueuesOK
  <2>2. /\ requests[r].status = "RUNNING" => Placed(waiting, Without(running, r), requests')
        /\ requests[r].status # "RUNNING" => Placed(Without(waiting, r), running, requests')
    BY <1>1, <1>4, <1>6, <2>1, PlacedFinish
  <2> QED BY <1>1, <2>2 DEF QueuesOK
<1>8. BlocksOK'
  BY <1>1, <1>6, HeldFree DEF IInv, BlocksOK
<1>9. StepOK' /\ BatchesOK'
  BY <1>1 DEF IInv, StepOK, BatchesOK, NoStep
<1> QED BY <1>5, <1>7, <1>8, <1>9 DEF IInv

(***************************************************************************)
(* reset_prefix_cache preserves the invariant.                             *)
(***************************************************************************)
LEMMA ResetIdleKeeps ==
    ASSUME IInv, ResetIdle, UNCHANGED <<phase, batch_queue>>
    PROVE  IInv'
<1>1. /\ manager' = reset_prefix_cache(manager) /\ requests' = requests
      /\ waiting' = waiting /\ running' = running /\ step' = step
      /\ phase' = phase /\ batch_queue' = batch_queue
  BY DEF ResetIdle
<1>2. ManagerOK(manager') /\ manager'.req_to_blocks = manager.req_to_blocks
  BY <1>1, ResetOK DEF IInv, BlocksOK, Held
<1>3. BlocksOK'
  BY <1>1, <1>2 DEF IInv, BlocksOK, Held
<1> QED BY <1>1, <1>3 DEF IInv, RequestsOK, QueuesOK, StepOK, BatchesOK

(***************************************************************************)
(* reset_prefix_cache with reset_running_requests preserves the invariant. *)
(***************************************************************************)
LEMMA ResetRunningKeeps ==
    ASSUME IInv, ResetRunning, UNCHANGED <<phase, batch_queue>>, phase = "input"
    PROVE  IInv'
<1> DEFINE left == PreemptAll(manager, waiting, running)
           m == left.manager
           After(r) == [requests[r] EXCEPT !.status = "PREEMPTED", !.num_computed_tokens = 0,
                                           !.num_output_placeholders = 0,
                                           !.discard_latest_async_tokens = TRUE]
<1>1. /\ manager' = IF CanReset(m.pool) THEN reset_prefix_cache(m)
                    ELSE [m EXCEPT !.pool = Fail(@, "reset_prefix_cache: RuntimeError")]
      /\ waiting' = left.waiting /\ running' = <<>>
      /\ requests' = [r \in Request |-> IF r \in Range(running) THEN After(r) ELSE requests[r]]
      /\ step' = step /\ phase' = phase /\ batch_queue' = batch_queue
  BY DEF ResetRunning
<1>2. /\ ManagerOK(m) /\ \A r \in Request : m.req_to_blocks[r] = <<>>
      /\ left.waiting \in Seq(Request) /\ IsInjective(left.waiting)
      /\ \A r : r \in Range(left.waiting) <=> (r \in Range(waiting) \/ r \in Range(running))
  BY PreemptAllFacts DEF IInv, QueuesOK, BlocksOK
<1> HIDE DEF left
<1>3. \A r \in Request : IsRequest(requests[r])
  BY DEF IInv, RequestsOK
<1>4. \A r \in Request : IsRequest(After(r)) /\ After(r).status = "PREEMPTED"
  BY <1>3 DEF IsRequest, Status
<1> HIDE DEF After
<1>5. RequestsOK'
  BY <1>1, <1>3, <1>4 DEF RequestsOK
<1>6. QueuesOK'
  <2>1. /\ \A r \in Request : r \in Range(running) <=> requests[r].status = "RUNNING"
        /\ \A r \in Request : r \in Range(waiting) <=> requests[r].status \in Queued
    BY DEF IInv, QueuesOK, Placed
  <2>2. /\ running' \in Seq(Request) /\ IsInjective(running') /\ Range(running') = {}
        /\ Len(running') = 0
    <3>1. <<>> \in Seq(Request) /\ Range(<<>>) = {} /\ IsInjective(<<>>) /\ Len(<<>>) = 0
      BY DEF Range, IsInjective
    <3> QED BY <1>1, <3>1
  <2>3. Len(running') <= MaxNumRunningReqs
    BY <2>2, SchedulerAssumption
  <2>4. \A r \in Request : r \in Range(running') <=> requests'[r].status = "RUNNING"
    BY <1>1, <1>4, <2>1, <2>2
  <2>5. \A r \in Request : r \in Range(waiting') <=> requests'[r].status \in Queued
    BY <1>1, <1>2, <1>4, <2>1 DEF Queued
  <2> QED BY <1>1, <1>2, <2>2, <2>3, <2>4, <2>5 DEF QueuesOK, Placed
<1>7. ManagerOK(manager') /\ manager'.req_to_blocks = m.req_to_blocks
  <2>1. CASE CanReset(m.pool)
    BY <1>1, <1>2, <2>1, ResetOK
  <2>2. CASE ~CanReset(m.pool)
    <3> HIDE DEF m
    <3>1. manager' = [m EXCEPT !.pool = Fail(@, "reset_prefix_cache: RuntimeError")]
      BY <1>1, <2>2
    <3>2. ManagerOK(manager')
      BY <1>2, <3>1, FailOK, Zenon
    <3>3. manager'.req_to_blocks = m.req_to_blocks
      BY <1>2, <3>1 DEF ManagerOK, IsManager
    <3> QED BY <3>2, <3>3
  <2> QED BY <2>1, <2>2
<1>8. BlocksOK'
  BY <1>2, <1>7 DEF BlocksOK, Held
<1>9. StepOK'
  <2>1. IsStep(step) /\ step = NoStep
    BY DEF IInv, StepOK
  <2>2. step.request = NoRequest
    BY <2>1 DEF NoStep
  <2> QED BY <1>1, <2>1, <2>2 DEF StepOK
<1>10. BatchesOK'
  BY <1>1 DEF IInv, BatchesOK
<1> QED BY <1>5, <1>6, <1>8, <1>9, <1>10 DEF IInv

-----------------------------------------------------------------------------
(* The busy loop: schedule() *)

(***************************************************************************)
(* The state of the locals outside schedule().                             *)
(***************************************************************************)
LEMMA NoStepOK == IsStep(NoStep) /\ NoStep.request = NoRequest
<1>1. <<>> \in Seq({}) /\ DOMAIN <<>> = {} /\ Len(<<>>) = 0
  OBVIOUS
<1>2. IsSeq(<<>>)
  BY <1>1, SeqIs
<1> QED BY <1>1, <1>2 DEF IsStep, NoStep

(***************************************************************************)
(* The start of a step preserves the invariant.                            *)
(***************************************************************************)
LEMMA StepStartKeeps ==
    ASSUME IInv, StepStart
    PROVE  IInv'
<1>1. batch_queue' = batch_queue
  BY DEF StepStart
<1>2. CASE schedule_start /\ phase' = "schedule"
  <2>1. /\ requests' = requests /\ waiting' = waiting /\ running' = running
        /\ manager' = manager
        /\ step' = [NoStep EXCEPT !.loop = "running", !.token_budget = MaxNumScheduledTokens]
    BY <1>2 DEF schedule_start
  <2>2. /\ DOMAIN step' = DOMAIN NoStep /\ step'.req_index = 1 /\ step'.num_new_tokens = 0
        /\ step'.token_budget = MaxNumScheduledTokens /\ step'.scheduled = <<>>
        /\ step'.request = NoRequest
    BY <2>1 DEF NoStep
  <2>3. Len(<<>>) = 0 /\ NoStep.scheduled = <<>>
    BY DEF NoStep
  <2>4. IsStep(step')
    BY <2>2, <2>3, NoStepOK, SchedulerAssumption DEF IsStep
  <2>5. StepOK'
    BY <1>2, <2>2, <2>4 DEF StepOK
  <2> QED BY <1>1, <1>2, <2>1, <2>5 DEF IInv, RequestsOK, QueuesOK, BlocksOK, BatchesOK
<1>3. CASE phase = "input" /\ batch_queue # <<>> /\ phase' = "output" /\ UNCHANGED schedulerVars
  <2>1. /\ requests' = requests /\ waiting' = waiting /\ running' = running
        /\ manager' = manager /\ step' = step
    BY <1>3 DEF schedulerVars
  <2>2. StepOK'
    BY <1>3, <2>1 DEF IInv, StepOK
  <2> QED BY <1>1, <1>3, <2>1, <2>2 DEF IInv, RequestsOK, QueuesOK, BlocksOK, BatchesOK
<1> QED BY <1>2, <1>3 DEF StepStart

\* What a step of schedule() has to show, for the batch queue is left alone.
LEMMA StepLeft ==
    ASSUME IInv, RequestsOK', QueuesOK', BlocksOK', IsStep(step'),
           step'.request # NoRequest => step'.request \in Range(running'),
           phase = "schedule", UNCHANGED <<phase, batch_queue>>
    PROVE  IInv'
<1>1. phase' = phase /\ batch_queue' = batch_queue
  OBVIOUS
<1>2. StepOK'
  BY <1>1 DEF StepOK
<1>3. BatchesOK'
  BY <1>1 DEF IInv, BatchesOK
<1> QED BY <1>2, <1>3 DEF IInv

(***************************************************************************)
(* Token counts are integers.                                              *)
(***************************************************************************)
LEMMA NumNewTokensInt ==
    ASSUME IInv, NEW r \in Request, NEW n \in Int
    PROVE  Chunk(n) \in Int /\ NumNewTokens(r) \in Int
<1>1. step.token_budget \in Int
  BY DEF IInv, StepOK, IsStep
<1>2. \A k \in Int : Chunk(k) \in Int
  BY <1>1, SchedulerAssumption DEF Chunk, LesserOf
<1>3. /\ Len(requests[r].tokens) \in Nat /\ requests[r].num_output_placeholders \in Int
      /\ requests[r].num_computed_tokens \in Int
  BY DEF IInv, RequestsOK, IsRequest, IsSeq
<1> DEFINE k == Len(requests[r].tokens) + requests[r].num_output_placeholders
                  - requests[r].num_computed_tokens
           l == MaxModelLen - 1 - requests[r].num_computed_tokens
<1>4. k \in Int /\ l \in Int
  BY <1>3, SizesAssumption
<1>5. NumNewTokens(r) = LesserOf(Chunk(k), l)
  BY DEF NumNewTokens
<1> HIDE DEF k, l
<1> QED BY <1>2, <1>4, <1>5 DEF LesserOf

(***************************************************************************)
(* schedule() moving along self.running preserves the invariant. The       *)
(* request it takes up is in the list because the index is at least 1: it  *)
(* is past as many requests as the batch has entries.                      *)
(***************************************************************************)
LEMMA WalkKeeps ==
    ASSUME IInv, phase = "schedule", UNCHANGED <<phase, batch_queue>>,
           SkipRunning \/ EnterRunning \/ RunningDone
    PROVE  IInv'
<1> DEFINE r == running[step.req_index]
<1>1. /\ requests' = requests /\ waiting' = waiting /\ running' = running /\ manager' = manager
  BY DEF SkipRunning, EnterRunning, RunningDone
<1>2. RequestsOK' /\ QueuesOK' /\ BlocksOK'
  BY <1>1 DEF IInv, RequestsOK, QueuesOK, BlocksOK
<1>3. /\ IsStep(step) /\ (step.request # NoRequest => step.request \in Range(running))
      /\ Len(step.scheduled) \in Nat /\ running \in Seq(Request)
  BY DEF IInv, StepOK, IsStep, IsSeq, QueuesOK, Placed
<1>4. /\ IsStep(step')
      /\ step'.request # NoRequest => step'.request \in Range(running)
  <2>1. CASE SkipRunning
    <3>1. step' = [step EXCEPT !.req_index = @ + 1]
      BY <2>1 DEF SkipRunning
    <3>2. /\ DOMAIN step' = DOMAIN step /\ step'.req_index = step.req_index + 1
          /\ step'.token_budget = step.token_budget /\ step'.scheduled = step.scheduled
          /\ step'.num_new_tokens = step.num_new_tokens /\ step'.loop = step.loop
          /\ step'.request = step.request
      BY <1>3, <3>1 DEF IsStep
    <3> QED BY <1>3, <3>2 DEF IsStep
  <2>2. CASE EnterRunning
    <3>1. step' = [step EXCEPT !.request = r, !.num_new_tokens = NumNewTokens(r)] /\ RunningLeft
      BY <2>2 DEF EnterRunning
    <3>2. step.req_index \in 1 .. Len(running)
      BY <1>3, <3>1 DEF RunningLeft, IsStep
    <3>3. r \in Request /\ r \in Range(running)
      BY <1>3, <3>2 DEF Range
    <3>4. NumNewTokens(r) \in Int
      BY <3>3, NumNewTokensInt
    <3> HIDE DEF r
    <3>5. /\ DOMAIN step' = DOMAIN step /\ step'.req_index = step.req_index
          /\ step'.token_budget = step.token_budget /\ step'.scheduled = step.scheduled
          /\ step'.num_new_tokens = NumNewTokens(r) /\ step'.loop = step.loop
          /\ step'.request = r
      BY <1>3, <3>1 DEF IsStep
    <3> QED BY <1>3, <3>3, <3>4, <3>5 DEF IsStep
  <2>3. CASE RunningDone
    <3>1. step' = [step EXCEPT !.loop = "waiting"]
      BY <2>3 DEF RunningDone
    <3>2. /\ DOMAIN step' = DOMAIN step /\ step'.req_index = step.req_index
          /\ step'.token_budget = step.token_budget /\ step'.scheduled = step.scheduled
          /\ step'.num_new_tokens = step.num_new_tokens /\ step'.loop = "waiting"
          /\ step'.request = step.request
      BY <1>3, <3>1 DEF IsStep
    <3> QED BY <1>3, <3>2 DEF IsStep
  <2> QED BY <2>1, <2>2, <2>3
<1> QED BY <1>1, <1>2, <1>4, StepLeft

(***************************************************************************)
(* schedule() giving slots to a running request preserves the invariant.   *)
(***************************************************************************)
LEMMA ScheduleRunningKeeps ==
    ASSUME IInv, phase = "schedule", UNCHANGED <<phase, batch_queue>>, ScheduleRunning
    PROVE  IInv'
<1> DEFINE r == step.request
           q == requests[r]
           k == step.num_new_tokens
           m == allocate_slots(manager, r, q.tokens, q.num_computed_tokens, k, <<>>)
           e == Scheduled(r, "running", k,
                          SubSeq(m.req_to_blocks[r], Len(manager.req_to_blocks[r]) + 1,
                                 Len(m.req_to_blocks[r])))
<1>1. /\ requests' = requests /\ waiting' = waiting /\ running' = running
      /\ manager' = m /\ r # NoRequest
      /\ step' = [step EXCEPT !.scheduled = Append(@, e), !.token_budget = @ - k,
                              !.req_index = @ + 1, !.request = NoRequest, !.num_new_tokens = 0]
  BY DEF ScheduleRunning, InnerLoop
<1>2. RequestsOK' /\ QueuesOK'
  BY <1>1 DEF IInv, RequestsOK, QueuesOK
<1>3. IsStep(step) /\ r \in Range(running) /\ running \in Seq(Request) /\ k \in Int
  BY <1>1 DEF IInv, StepOK, QueuesOK, Placed, IsStep
<1>4. r \in Request /\ requests[r].status = "RUNNING"
  <2>1. r \in Request
    BY <1>3 DEF Range
  <2> QED BY <1>3, <2>1 DEF IInv, QueuesOK, Placed
<1>5. e.id \in Request /\ e.num_scheduled_tokens \in Int
  BY <1>3, <1>4 DEF Scheduled
<1> HIDE DEF e, k
<1>6. BlocksOK'
  <2>1. q.tokens \in Seq(Range(q.tokens)) /\ q.num_computed_tokens \in Int
    BY <1>4 DEF IInv, RequestsOK, IsRequest, IsSeq
  <2>2. ManagerOK(manager) /\ \A s \in Request : manager.req_to_blocks[s] # <<>>
                                => requests[s].status = "RUNNING"
    BY DEF IInv, BlocksOK, Held
  <2>3. <<>> \in Seq(RealBlock) /\ IsInjective(<<>>)
    BY DEF IsInjective
  <2>4. ManagerOK(m) /\ \A s \in Request : s # r => m.req_to_blocks[s] = manager.req_to_blocks[s]
    <3> DEFINE none == <<>>
               tokens == q.tokens
               computed == q.num_computed_tokens
               T == Range(q.tokens)
    <3>1. tokens \in Seq(T) /\ computed \in Int /\ k \in Int /\ r \in Request
      BY <1>3, <1>4, <2>1
    <3>2. none \in Seq(RealBlock) /\ IsInjective(none)
      BY <2>3
    <3>3. none = <<>> \/ manager.req_to_blocks[r] = <<>>
      OBVIOUS
    <3>4. m = allocate_slots(manager, r, tokens, computed, k, none)
      OBVIOUS
    <3> HIDE DEF none, tokens, computed, T, m, r
    <3> QED BY <2>2, <3>1, <3>2, <3>3, <3>4, AllocateSlotsOK
  <2> HIDE DEF q, r
  <2> HIDE DEF m
  <2> QED BY <1>1, <1>4, <2>2, <2>4 DEF BlocksOK, Held
<1> HIDE DEF r, m
<1>7. /\ DOMAIN step' = DOMAIN step /\ step'.req_index = step.req_index + 1
      /\ step'.token_budget = step.token_budget - k
      /\ step'.scheduled = Append(step.scheduled, e)
      /\ step'.num_new_tokens = 0 /\ step'.loop = step.loop
      /\ step'.request = NoRequest
  BY <1>1, <1>3 DEF IsStep
<1>8. IsStep(step')
  <2>1. /\ IsSeq(step'.scheduled) /\ Len(step'.scheduled) = Len(step.scheduled) + 1
        /\ Len(step.scheduled) \in Nat /\ DOMAIN step.scheduled = 1 .. Len(step.scheduled)
        /\ DOMAIN step'.scheduled = 1 .. (Len(step.scheduled) + 1)
        /\ step'.scheduled[Len(step.scheduled) + 1] = e
        /\ \A i \in DOMAIN step.scheduled : step'.scheduled[i] = step.scheduled[i]
    BY <1>3, <1>7, SeqAppend DEF IsStep
  <2>2. \A i \in DOMAIN step'.scheduled : IsEntry(step'.scheduled[i])
    <3>1. \A i \in DOMAIN step'.scheduled : i \in DOMAIN step.scheduled \/ i = Len(step.scheduled) + 1
      BY <2>1
    <3> QED BY <1>3, <1>5, <2>1, <3>1 DEF IsStep, IsEntry
  <2> QED BY <1>3, <1>7, <2>1, <2>2 DEF IsStep
<1> QED BY <1>1, <1>2, <1>6, <1>7, <1>8, StepLeft

\* The batch without the victim: the index moves back by one only when the
\* batch loses an entry, so it stays past the entries.
LEMMA UnscheduledFacts ==
    ASSUME IsStep(step), NEW v
    PROVE  /\ IsStep(Unscheduled(v))
           /\ Unscheduled(v).request = step.request
           /\ Unscheduled(v).num_new_tokens = step.num_new_tokens
<1> DEFINE s == step.scheduled
           taken == {i \in DOMAIN s : s[i].id = v}
           back == IF taken = {} THEN 0 ELSE s[CHOOSE i \in taken : TRUE].num_scheduled_tokens
           S == {e \in Range(s) : e.id # v}
           n == Unscheduled(v)
<1>1. n = [step EXCEPT !.scheduled = Keep(s, S), !.token_budget = @ + back,
                       !.req_index = StepBack(@, taken)]
  BY DEF Unscheduled
<1>2. /\ DOMAIN step = {"loop", "req_index", "token_budget", "request", "num_new_tokens",
                        "scheduled", "preempted"}
      /\ IsSeq(s) /\ \A i \in DOMAIN s : IsEntry(s[i])
      /\ step.req_index \in Int /\ step.token_budget \in Int /\ step.num_new_tokens \in Int
      /\ step.loop = "running" => step.req_index > Len(s)
  BY DEF IsStep
<1>3. back \in Int
  <2>1. CASE taken = {}
    BY <2>1
  <2>2. CASE taken # {}
    <3>1. (CHOOSE i \in taken : TRUE) \in taken
      BY <2>2
    <3> QED BY <1>2, <2>2, <3>1 DEF IsEntry
  <2> QED BY <2>1, <2>2
<1> HIDE DEF n, back
<1>4. /\ DOMAIN n = DOMAIN step /\ n.scheduled = Keep(s, S)
      /\ n.token_budget = step.token_budget + back
      /\ n.req_index = StepBack(step.req_index, taken)
      /\ n.loop = step.loop /\ n.request = step.request
      /\ n.num_new_tokens = step.num_new_tokens
  BY <1>1, <1>2
<1>5. /\ IsSeq(Keep(s, S)) /\ Range(Keep(s, S)) = Range(s) \cap S
      /\ Len(Keep(s, S)) <= Len(s) /\ Len(Keep(s, S)) \in Nat /\ Len(s) \in Nat
      /\ (\E j \in DOMAIN s : s[j] \notin S) => Len(Keep(s, S)) < Len(s)
  BY <1>2, SeqKeep
<1>6. n.req_index \in Int /\ (n.loop = "running" => n.req_index > Len(n.scheduled))
  <2>1. CASE taken = {}
    BY <1>2, <1>4, <1>5, <2>1 DEF StepBack
  <2>2. CASE taken # {}
    <3>1. \E j \in DOMAIN s : s[j] \notin S
      BY <2>2
    <3>2. n.req_index = step.req_index - 1
      BY <1>4, <2>2 DEF StepBack
    <3> HIDE DEF S, s, taken
    <3> QED BY <1>2, <1>4, <1>5, <3>1, <3>2
  <2> QED BY <2>1, <2>2
<1>7. \A i \in DOMAIN Keep(s, S) : IsEntry(Keep(s, S)[i])
  <2>1. ASSUME NEW i \in DOMAIN Keep(s, S) PROVE IsEntry(Keep(s, S)[i])
    <3>1. Keep(s, S)[i] \in Range(Keep(s, S))
      BY DEF Range
    <3>2. Keep(s, S)[i] \in Range(s)
      BY <1>5, <3>1
    <3> QED BY <1>2, <3>2 DEF Range
  <2> QED BY <2>1
<1> HIDE DEF S, s, taken
<1>8. IsStep(n)
  <2>1. n.token_budget \in Int
    BY <1>2, <1>3, <1>4
  <2> QED BY <1>2, <1>4, <1>5, <1>6, <1>7, <2>1 DEF IsStep
<1> QED BY <1>4, <1>8 DEF n

(***************************************************************************)
(* schedule() preempting a request preserves the invariant, be the victim  *)
(* the request that asks for slots, one further on, or (priority policy)   *)
(* one already scheduled in this step.                                     *)
(***************************************************************************)
LEMMA PreemptKeeps ==
    ASSUME IInv, phase = "schedule", UNCHANGED <<phase, batch_queue>>, PreemptForRunning
    PROVE  IInv'
<1> DEFINE v == Victim
           s == Unscheduled(v)
<1>1. /\ manager' = free(manager, v)
      /\ requests' = [requests EXCEPT ![v].status = "PREEMPTED", ![v].num_computed_tokens = 0]
      /\ waiting' = Prepend(waiting, v) /\ running' = Without(running, v)
      /\ step.request # NoRequest
      /\ step' = [s EXCEPT !.loop = IF v = step.request THEN "waiting" ELSE @,
                           !.request = IF v = step.request THEN NoRequest ELSE @,
                           !.num_new_tokens = IF v = step.request THEN 0 ELSE @,
                           !.preempted = TRUE]
  BY DEF PreemptForRunning, Preempt, InnerLoop
<1>2. IsStep(step) /\ step.request \in Range(running) /\ running \in Seq(Request)
  BY <1>1 DEF IInv, StepOK, QueuesOK, Placed
<1>3. v \in Range(running) /\ v \in Request
  <2>1. running # <<>>
    BY <1>2 DEF Range
  <2>2. v \in Range(running)
    BY <1>2, <2>1, VictimRuns
  <2> HIDE DEF v
  <2> QED BY <1>2, <2>2 DEF Range
<1>4. /\ IsStep(s) /\ s.request = step.request /\ s.num_new_tokens = step.num_new_tokens
  BY <1>2, UnscheduledFacts
<1> HIDE DEF v, s
<1>5. DOMAIN requests = Request /\ \A r \in Request : IsRequest(requests[r])
  BY DEF IInv, RequestsOK
<1>6. /\ DOMAIN requests' = Request
      /\ \A r \in Request : r # v => requests'[r] = requests[r]
      /\ requests'[v] = [requests[v] EXCEPT !.status = "PREEMPTED", !.num_computed_tokens = 0]
  BY <1>1, <1>3, <1>5
<1>7. IsRequest(requests'[v]) /\ requests'[v].status = "PREEMPTED"
  BY <1>3, <1>5, <1>6 DEF IsRequest, Status
<1>8. RequestsOK'
  BY <1>5, <1>6, <1>7 DEF RequestsOK
<1>9. Changed(requests, requests', v)
  BY <1>6 DEF Changed
<1>10. QueuesOK'
  <2>1. Placed(waiting, running, requests)
    BY DEF IInv, QueuesOK
  <2>2. Placed(Prepend(waiting, v), Without(running, v), requests')
    BY <1>3, <1>7, <1>9, <2>1, PlacedPreempt
  <2> QED BY <1>1, <2>2 DEF QueuesOK
<1>11. BlocksOK'
  BY <1>1, <1>3, <1>9, HeldFree DEF IInv, BlocksOK
<1>12. /\ DOMAIN step' = DOMAIN s /\ step'.req_index = s.req_index
       /\ step'.token_budget = s.token_budget /\ step'.scheduled = s.scheduled
       /\ step'.num_new_tokens = IF v = step.request THEN 0 ELSE s.num_new_tokens
       /\ step'.loop = IF v = step.request THEN "waiting" ELSE s.loop
       /\ step'.request = IF v = step.request THEN NoRequest ELSE s.request
  BY <1>1, <1>4 DEF IsStep
<1>13. IsStep(step')
  BY <1>4, <1>12 DEF IsStep
<1>14. step'.request # NoRequest => step'.request \in Range(running')
  <2>1. \A r : r \in Range(Without(running, v)) <=> (r \in Range(running) /\ r # v)
    BY <1>2, <1>3, WithoutFacts
  <2> QED BY <1>1, <1>2, <1>4, <1>12, <2>1
<1> QED BY <1>8, <1>10, <1>11, <1>13, <1>14, StepLeft

(***************************************************************************)
(* schedule() admitting a waiting request preserves the invariant: the     *)
(* request holds no block, so its prefix cache hits, all different, become *)
(* its table.                                                              *)
(***************************************************************************)
LEMMA ScheduleWaitingKeeps ==
    ASSUME IInv, phase = "schedule", UNCHANGED <<phase, batch_queue>>, ScheduleWaiting
    PROVE  IInv'
<1> DEFINE r == Head(waiting)
           q == requests[r]
           tokens == q.tokens
           hits == get_computed_blocks(manager, tokens)
           computed == Len(hits) * BlockSize
           n == Chunk(Len(tokens) - computed)
           m == allocate_slots(manager, r, tokens, computed, n, hits)
           kind == IF q.status = "WAITING" THEN "new" ELSE "resumed"
           e == Scheduled(r, kind, n, m.req_to_blocks[r])
<1>1. /\ manager' = m /\ waiting' = Tail(waiting) /\ running' = Append(running, r)
      /\ requests' = [requests EXCEPT ![r].status = "RUNNING", ![r].num_computed_tokens = computed]
      /\ step' = [step EXCEPT !.scheduled = Append(@, e), !.token_budget = @ - n]
      /\ waiting # <<>> /\ Len(running) # MaxNumRunningReqs
  BY DEF ScheduleWaiting, CanAdmit
<1>2. /\ waiting \in Seq(Request) /\ running \in Seq(Request)
      /\ \A s \in Request : s \in Range(waiting) <=> requests[s].status \in Queued
      /\ IsStep(step) /\ (step.request # NoRequest => step.request \in Range(running))
  BY DEF IInv, QueuesOK, Placed, StepOK
<1>3. r \in Request /\ r \in Range(waiting)
  BY <1>1, <1>2, TailFacts
<1>4. requests[r].status # "RUNNING"
  BY <1>2, <1>3 DEF Queued
<1>5. /\ tokens \in Seq(Range(tokens)) /\ tokens # <<>> /\ Len(tokens) \in Nat
      /\ DOMAIN requests = Request /\ \A s \in Request : IsRequest(requests[s])
  BY <1>3 DEF IInv, RequestsOK, IsRequest, IsSeq
<1>6. /\ ManagerOK(manager)
      /\ \A s \in Request : manager.req_to_blocks[s] # <<>> => requests[s].status = "RUNNING"
  BY DEF IInv, BlocksOK, Held
<1> HIDE DEF tokens
<1>7. hits \in Seq(RealBlock) /\ IsInjective(hits) /\ Len(hits) \in Nat
  <2>1. IsPool(manager.pool) /\ Indexed(manager.pool)
    BY <1>6 DEF ManagerOK, IsManager
  <2>2. hits = find_longest_cache_hit(manager.pool, block_hashes(tokens), Len(tokens) - 1)
    BY DEF get_computed_blocks
  <2>3. hits \in Seq(RealBlock) /\ IsInjective(hits)
    BY <1>5, <2>1, <2>2, HitFacts
  <2> HIDE DEF hits
  <2> QED BY <2>3
<1> HIDE DEF hits
<1>8. computed \in Int
  BY <1>7, SizesAssumption
<1> HIDE DEF computed
<1>9. n \in Int
  <2>1. Len(tokens) - computed \in Int
    BY <1>5, <1>8
  <2> QED BY <1>3, <2>1, NumNewTokensInt
<1> HIDE DEF n, r
<1>10. /\ ManagerOK(m)
       /\ \A s \in Request : s # r => m.req_to_blocks[s] = manager.req_to_blocks[s]
  <2>1. hits = <<>> \/ manager.req_to_blocks[r] = <<>>
    BY <1>3, <1>4, <1>6
  <2> QED BY <1>3, <1>5, <1>6, <1>7, <1>8, <1>9, <2>1, AllocateSlotsOK
<1> HIDE DEF m, kind
<1>11. e.id \in Request /\ e.num_scheduled_tokens \in Int
  BY <1>3, <1>9 DEF Scheduled
<1> HIDE DEF e
<1>12. /\ DOMAIN requests' = Request
       /\ \A s \in Request : s # r => requests'[s] = requests[s]
       /\ requests'[r] = [requests[r] EXCEPT !.status = "RUNNING", !.num_computed_tokens = computed]
  BY <1>1, <1>3, <1>5
<1>13. IsRequest(requests'[r]) /\ requests'[r].status = "RUNNING"
  BY <1>3, <1>5, <1>8, <1>12 DEF IsRequest, Status
<1>14. RequestsOK'
  BY <1>5, <1>12, <1>13 DEF RequestsOK
<1>15. Changed(requests, requests', r)
  BY <1>12 DEF Changed
<1>16. QueuesOK'
  <2>1. Placed(waiting, running, requests)
    BY DEF IInv, QueuesOK
  <2>2. Placed(Tail(waiting), Append(running, Head(waiting)), requests')
    BY <1>1, <1>13, <1>15, <2>1, PlacedAdmit DEF r
  <2> QED BY <1>1, <2>2 DEF QueuesOK, r
<1>17. BlocksOK'
  BY <1>1, <1>6, <1>10, <1>12, <1>13 DEF BlocksOK, Held
<1>18. /\ DOMAIN step' = DOMAIN step /\ step'.req_index = step.req_index
       /\ step'.token_budget = step.token_budget - n
       /\ step'.scheduled = Append(step.scheduled, e)
       /\ step'.num_new_tokens = step.num_new_tokens /\ step'.loop = step.loop
       /\ step'.request = step.request
  BY <1>1, <1>2 DEF IsStep
<1>19. step.loop = "waiting"
  BY DEF ScheduleWaiting, CanAdmit
<1>20. IsStep(step')
  <2>1. /\ IsSeq(step'.scheduled)
        /\ Len(step.scheduled) \in Nat /\ DOMAIN step.scheduled = 1 .. Len(step.scheduled)
        /\ DOMAIN step'.scheduled = 1 .. (Len(step.scheduled) + 1)
        /\ step'.scheduled[Len(step.scheduled) + 1] = e
        /\ \A i \in DOMAIN step.scheduled : step'.scheduled[i] = step.scheduled[i]
    BY <1>2, <1>18, SeqAppend DEF IsStep
  <2>2. \A i \in DOMAIN step'.scheduled : IsEntry(step'.scheduled[i])
    <3>1. \A i \in DOMAIN step'.scheduled : i \in DOMAIN step.scheduled \/ i = Len(step.scheduled) + 1
      BY <2>1
    <3> QED BY <1>2, <1>11, <2>1, <3>1 DEF IsStep, IsEntry
  <2> QED BY <1>2, <1>9, <1>18, <1>19, <2>1, <2>2 DEF IsStep
<1>21. step'.request # NoRequest => step'.request \in Range(running')
  <2>1. Range(running') = Range(running) \cup {r}
    BY <1>1, <1>2, <1>3, AppendFacts
  <2> QED BY <1>2, <1>18, <2>1
<1> QED BY <1>14, <1>16, <1>17, <1>20, <1>21, StepLeft

(***************************************************************************)
(* The end of schedule() and the submission of the batch preserve the      *)
(* invariant.                                                              *)
(***************************************************************************)
LEMMA SubmitKeeps ==
    ASSUME IInv, Submit
    PROVE  IInv'
<1> DEFINE s == step.scheduled
           ids == {s[i].id : i \in DOMAIN s}
           tokens(r) == s[CHOOSE j \in DOMAIN s : s[j].id = r].num_scheduled_tokens
           batch == [out |-> SchedulerOutput, done |-> FALSE, sampled |-> <<>>, reads_ok |-> TRUE]
<1>1. /\ requests' = [r \in Request |-> IF r \in ids THEN AfterSchedule(r, tokens(r))
                                        ELSE requests[r]]
      /\ manager' = manager \/ manager' = [manager EXCEPT !.pool = Fail(@, "schedule: AssertionError")]
      /\ step' = NoStep /\ waiting' = waiting /\ running' = running
  BY DEF Submit, schedule_end
<1>2. /\ batch_queue' = Append(batch_queue, batch)
  BY DEF Submit
<1>3. IsSeq(s) /\ \A i \in DOMAIN s : IsEntry(s[i])
  BY DEF IInv, StepOK, IsStep
<1>4. \A r \in Request : IsRequest(requests[r])
  BY DEF IInv, RequestsOK
<1>5. ASSUME NEW r \in Request, r \in ids
      PROVE  /\ IsRequest(AfterSchedule(r, tokens(r)))
             /\ AfterSchedule(r, tokens(r)).status = requests[r].status
  <2>1. tokens(r) \in Int
    <3>1. \E j \in DOMAIN s : s[j].id = r
      BY <1>5
    <3>2. (CHOOSE j \in DOMAIN s : s[j].id = r) \in DOMAIN s
      BY <3>1
    <3> QED BY <1>3, <3>2 DEF IsEntry
  <2> DEFINE k == tokens(r)
             q == requests[r]
             c == q.num_computed_tokens + k
             o == IF AsyncScheduling /\ ~(c < Len(q.tokens) + q.num_output_placeholders)
                  THEN q.num_output_placeholders + 1 ELSE q.num_output_placeholders
             p == AfterSchedule(r, k)
  <2>2. p = [q EXCEPT !.num_computed_tokens = c, !.num_output_placeholders = o]
    BY DEF AfterSchedule
  <2>3. IsRequest(q)
    BY <1>4
  <2> HIDE DEF k, q, p
  <2>4. c \in Int /\ o \in Int
    BY <2>1, <2>3 DEF IsRequest, k
  <2> HIDE DEF c, o
  <2>5. IsRequest(p) /\ p.status = q.status
    BY <2>2, <2>3, <2>4 DEF IsRequest
  <2> QED BY <2>5 DEF p, q, k
<1> HIDE DEF ids, tokens
<1>6. RequestsOK'
  BY <1>1, <1>4, <1>5 DEF RequestsOK
<1>7. \A r \in Request : requests'[r].status = requests[r].status
  BY <1>1, <1>5
<1>8. QueuesOK'
  <2>1. Placed(waiting, running, requests')
    BY <1>7, PlacedSame DEF IInv, QueuesOK
  <2> QED BY <1>1, <2>1 DEF QueuesOK
<1>9. BlocksOK'
  <2>1. ManagerOK(manager)
    BY DEF IInv, BlocksOK, Held
  <2>2. ManagerOK(manager') /\ manager'.req_to_blocks = manager.req_to_blocks
    <3>1. CASE manager' = manager
      BY <2>1, <3>1
    <3>2. CASE manager' = [manager EXCEPT !.pool = Fail(@, "schedule: AssertionError")]
      <4>1. ManagerOK(manager')
        BY <2>1, <3>2, FailOK, Zenon
      <4>2. manager'.req_to_blocks = manager.req_to_blocks
        BY <2>1, <3>2 DEF ManagerOK, IsManager
      <4> QED BY <4>1, <4>2
    <3> QED BY <1>1, <3>1, <3>2
  <2> QED BY <1>7, <2>2 DEF IInv, BlocksOK, Held
<1>10. StepOK'
  BY <1>1, NoStepOK DEF StepOK
<1>11. BatchesOK'
  <2>1. IsBatch(batch)
    <3> DEFINE T == {OutputOf(s[i]) : i \in DOMAIN s}
               reqs == [i \in DOMAIN s |-> OutputOf(s[i])]
    <3>1. batch.out.reqs = reqs /\ DOMAIN batch.out = {"reqs", "finished_req_ids"}
      BY DEF SchedulerOutput
    <3>2. DOMAIN s = 1 .. Len(s) /\ Len(s) \in Nat
      BY <1>3 DEF IsSeq
    <3>3. reqs \in Seq(T)
      BY <3>2
    <3>4. IsSeq(reqs)
      BY <3>3, SeqIs
    <3>5. \A i \in DOMAIN s : OutputOf(s[i]).id \in Request
      BY <1>3 DEF OutputOf, IsEntry
    <3>6. \A i \in DOMAIN reqs : reqs[i].id \in Request
      BY <3>5
    <3>7. DOMAIN batch = {"out", "done", "sampled", "reads_ok"} /\ batch.done = FALSE
      OBVIOUS
    <3> HIDE DEF reqs, batch
    <3> QED BY <3>1, <3>4, <3>6, <3>7 DEF IsBatch
  <2> HIDE DEF batch
  <2> DEFINE k == Len(batch_queue)
  <2>2. IsSeq(batch_queue) /\ \A i \in DOMAIN batch_queue : IsBatch(batch_queue[i])
    BY DEF IInv, BatchesOK
  <2>3. /\ IsSeq(batch_queue') /\ DOMAIN batch_queue = 1 .. k /\ k \in Nat
        /\ DOMAIN batch_queue' = 1 .. (k + 1) /\ batch_queue'[k + 1] = batch
        /\ \A i \in DOMAIN batch_queue : batch_queue'[i] = batch_queue[i]
    BY <1>2, <2>2, SeqAppend
  <2> HIDE DEF k
  <2>4. \A i \in DOMAIN batch_queue' : i \in DOMAIN batch_queue \/ i = k + 1
    BY <2>3
  <2>5. \A i \in DOMAIN batch_queue' : IsBatch(batch_queue'[i])
    BY <2>1, <2>2, <2>3, <2>4
  <2>6. batch_queue' # <<>>
    <3>1. k + 1 \in DOMAIN batch_queue'
      BY <2>3
    <3> QED BY <3>1
  <2> QED BY <2>3, <2>5, <2>6 DEF BatchesOK
<1> QED BY <1>6, <1>8, <1>9, <1>10, <1>11 DEF IInv

-----------------------------------------------------------------------------
(* The busy loop: update_from_output() *)

(***************************************************************************)
(* update_from_output for a request that is gone, that sampled nothing, or *)
(* whose token is discarded changes no queue and no block.                 *)
(***************************************************************************)
LEMMA IgnoreOutputKeeps ==
    ASSUME IInv, NEW r \in Request, NEW sampled, IgnoreOutput(r, sampled)
    PROVE  RequestsOK' /\ QueuesOK' /\ BlocksOK'
<1> DEFINE d == requests[r].discard_latest_async_tokens
                /\ ~ (requests[r].status \in {"WAITING", "RUNNING", "PREEMPTED"}
                      /\ sampled # <<>> /\ AsyncScheduling)
<1>1. /\ requests' = [requests EXCEPT ![r].discard_latest_async_tokens = d]
      /\ waiting' = waiting /\ running' = running /\ manager' = manager
  BY DEF IgnoreOutput
<1> HIDE DEF d
<1>2. DOMAIN requests = Request /\ \A s \in Request : IsRequest(requests[s])
  BY DEF IInv, RequestsOK
<1>3. /\ DOMAIN requests' = Request
      /\ \A s \in Request : s # r => requests'[s] = requests[s]
      /\ requests'[r] = [requests[r] EXCEPT !.discard_latest_async_tokens = d]
  BY <1>1, <1>2
<1>4. IsRequest(requests'[r]) /\ requests'[r].status = requests[r].status
  BY <1>2, <1>3 DEF IsRequest
<1>5. RequestsOK'
  BY <1>2, <1>3, <1>4 DEF RequestsOK
<1>6. \A s \in Request : requests'[s].status = requests[s].status
  BY <1>3, <1>4
<1>7. QueuesOK'
  <2>1. Placed(waiting, running, requests')
    BY <1>6, PlacedSame DEF IInv, QueuesOK
  <2> QED BY <1>1, <2>1 DEF QueuesOK
<1>8. BlocksOK'
  BY <1>1, <1>6 DEF IInv, BlocksOK, Held
<1> QED BY <1>5, <1>7, <1>8

(***************************************************************************)
(* update_from_output for a request that gets its token, and may stop with *)
(* it while running, waiting or preempted, keeps queues and blocks right.  *)
(***************************************************************************)
LEMMA ApplyOutputKeeps ==
    ASSUME IInv, NEW r \in Request, NEW sampled, IsSeq(sampled), ApplyOutput(r, sampled)
    PROVE  RequestsOK' /\ QueuesOK' /\ BlocksOK'
<1> DEFINE q == requests[r]
           tokens == q.tokens \o sampled
           placeholders == q.num_output_placeholders - (IF AsyncScheduling THEN 1 ELSE 0)
           cached == CachedWithOutput(r, tokens, placeholders)
           m == IF placeholders >= 0 THEN cached
                ELSE [cached EXCEPT !.pool = Fail(@, "num_output_placeholders < 0")]
           stopped == check_stop(r, tokens)
<1>1. /\ requests' = [requests EXCEPT ![r].tokens = tokens,
                                      ![r].num_output_placeholders = placeholders,
                                      ![r].status = IF stopped THEN "FINISHED" ELSE @]
      /\ manager' = IF stopped THEN free(m, r) ELSE m
      /\ IF stopped THEN RemoveStopped(r) ELSE running' = running /\ waiting' = waiting
      /\ q.status \in {"WAITING", "RUNNING", "PREEMPTED"}
  BY DEF ApplyOutput
<1>2. DOMAIN requests = Request /\ \A s \in Request : IsRequest(requests[s])
  BY DEF IInv, RequestsOK
<1>3. IsRequest(q) /\ q.num_output_placeholders \in Int /\ q.num_computed_tokens \in Int
  BY <1>2 DEF IsRequest
<1>4. IsSeq(tokens) /\ tokens # <<>>
  BY <1>3, SeqConcat DEF IsRequest
<1>5. placeholders \in Int
  BY <1>3
<1> HIDE DEF tokens, placeholders, stopped
<1>6. /\ DOMAIN requests' = Request
      /\ \A s \in Request : s # r => requests'[s] = requests[s]
      /\ requests'[r] = [requests[r] EXCEPT !.tokens = tokens,
                                            !.num_output_placeholders = placeholders,
                                            !.status = IF stopped THEN "FINISHED" ELSE @]
  BY <1>1, <1>2
<1>7. /\ IsRequest(requests'[r])
      /\ requests'[r].status = IF stopped THEN "FINISHED" ELSE requests[r].status
  BY <1>3, <1>4, <1>5, <1>6 DEF IsRequest, Status
<1>8. RequestsOK'
  BY <1>2, <1>6, <1>7 DEF RequestsOK
<1>9. Changed(requests, requests', r)
  BY <1>6 DEF Changed
<1>10. QueuesOK'
  <2>1. Placed(waiting, running, requests)
    BY DEF IInv, QueuesOK
  <2>2. CASE stopped
    <3>1. requests'[r].status = "FINISHED"
      BY <1>7, <2>2
    <3>2. /\ q.status = "RUNNING" => Placed(waiting, Without(running, r), requests')
          /\ q.status # "RUNNING" => Placed(Without(waiting, r), running, requests')
      BY <1>1, <1>9, <2>1, <3>1, PlacedFinish
    <3>3. RemoveStopped(r)
      BY <1>1, <2>2
    <3>4. /\ q.status = "RUNNING" => running' = Without(running, r) /\ waiting' = waiting
          /\ q.status # "RUNNING" => waiting' = Without(waiting, r) /\ running' = running
      BY <3>3 DEF RemoveStopped
    <3> QED BY <3>2, <3>4 DEF QueuesOK
  <2>3. CASE ~stopped
    <3>1. \A s \in Request : requests'[s].status = requests[s].status
      BY <1>6, <1>7, <2>3
    <3>2. Placed(waiting, running, requests')
      BY <2>1, <3>1, PlacedSame
    <3> QED BY <1>1, <2>3, <3>2 DEF QueuesOK
  <2> QED BY <2>2, <2>3
<1>11. Held(m, requests)
  <2>1. Held(manager, requests)
    BY DEF IInv, BlocksOK
  <2>2. Held(cached, requests)
    <3>1. CASE AsyncScheduling /\ q.status = "RUNNING"
      <4> DEFINE k == q.num_computed_tokens - placeholders
      <4>1. k \in Int
        BY <1>3, <1>5
      <4>2. cached = cache_blocks(manager, r, tokens, k)
        BY <3>1 DEF CachedWithOutput
      <4> HIDE DEF k, cached
      <4>3. ManagerOK(cached) /\ cached.req_to_blocks = manager.req_to_blocks
        BY <1>4, <2>1, <4>1, <4>2, CacheBlocksOK DEF Held, IsSeq
      <4> QED BY <2>1, <4>3 DEF Held
    <3>2. CASE ~(AsyncScheduling /\ q.status = "RUNNING")
      <4>1. cached = manager
        BY <3>2 DEF CachedWithOutput
      <4> QED BY <2>1, <4>1
    <3> QED BY <3>1, <3>2
  <2> HIDE DEF cached
  <2>3. CASE placeholders >= 0
    BY <2>2, <2>3
  <2>4. CASE ~(placeholders >= 0)
    <3>1. m = [cached EXCEPT !.pool = Fail(@, "num_output_placeholders < 0")]
      BY <2>4
    <3> HIDE DEF m
    <3>2. ManagerOK(cached)
      BY <2>2 DEF Held
    <3>3. ManagerOK(m)
      BY <3>1, <3>2, FailOK, Zenon
    <3>4. m.req_to_blocks = cached.req_to_blocks
      BY <3>1, <3>2 DEF ManagerOK, IsManager
    <3> QED BY <2>2, <3>3, <3>4 DEF Held
  <2> QED BY <2>3, <2>4
<1> HIDE DEF m
<1>12. BlocksOK'
  <2>1. CASE stopped
    <3>1. Held(free(m, r), requests')
      BY <1>9, <1>11, HeldFree
    <3> QED BY <1>1, <2>1, <3>1 DEF BlocksOK
  <2>2. CASE ~stopped
    <3>1. \A s \in Request : requests'[s].status = requests[s].status
      BY <1>6, <1>7, <2>2
    <3>2. Held(m, requests')
      BY <1>11, <3>1 DEF Held
    <3> QED BY <1>1, <2>2, <3>2 DEF BlocksOK
  <2> QED BY <2>1, <2>2
<1> QED BY <1>8, <1>10, <1>12

(***************************************************************************)
(* update_from_output for one request of the oldest batch preserves the    *)
(* invariant.                                                              *)
(***************************************************************************)
LEMMA UpdateRequestKeeps ==
    ASSUME IInv, UpdateRequest
    PROVE  IInv'
<1> DEFINE batch == batch_queue[1]
           e == batch.out.reqs[1]
<1>1. /\ phase \in {"output", "update"} /\ batch.done /\ batch.out.reqs # <<>>
      /\ update_request(e.id, batch.sampled[1])
      /\ batch_queue' = [batch_queue EXCEPT ![1].out.reqs = Tail(@), ![1].sampled = Tail(@)]
      /\ phase' = "update"
  BY DEF UpdateRequest
<1>2. /\ IsSeq(batch_queue) /\ batch_queue # <<>>
      /\ \A i \in DOMAIN batch_queue : IsBatch(batch_queue[i])
  BY <1>1 DEF IInv, BatchesOK
<1>3. 1 \in DOMAIN batch_queue /\ DOMAIN batch_queue = 1 .. Len(batch_queue) /\ IsBatch(batch)
  BY <1>2, SeqTail
<1>4. /\ IsSeq(batch.out.reqs) /\ IsSeq(batch.sampled)
      /\ Len(batch.sampled) = Len(batch.out.reqs)
      /\ \A k \in DOMAIN batch.out.reqs : batch.out.reqs[k].id \in Request
      /\ \A k \in DOMAIN batch.sampled : IsSeq(batch.sampled[k])
  BY <1>1, <1>3 DEF IsBatch
<1> DEFINE reqs == batch.out.reqs
           sampled == batch.sampled
<1>5. /\ IsSeq(Tail(reqs)) /\ Len(Tail(reqs)) = Len(reqs) - 1 /\ 1 \in DOMAIN reqs
      /\ \A i \in DOMAIN Tail(reqs) : i + 1 \in DOMAIN reqs /\ Tail(reqs)[i] = reqs[i + 1]
      /\ DOMAIN reqs = 1 .. Len(reqs)
  BY <1>1, <1>4, SeqTail
<1>6. sampled # <<>>
  <2>1. Len(reqs) # 0
    BY <1>5
  <2> QED BY <1>4, <2>1
<1>7. /\ IsSeq(Tail(sampled)) /\ Len(Tail(sampled)) = Len(sampled) - 1 /\ 1 \in DOMAIN sampled
      /\ \A i \in DOMAIN Tail(sampled) :
            i + 1 \in DOMAIN sampled /\ Tail(sampled)[i] = sampled[i + 1]
  BY <1>4, <1>6, SeqTail
<1>8. e.id \in Request /\ IsSeq(sampled[1])
  BY <1>4, <1>5, <1>7
<1>9. RequestsOK' /\ QueuesOK' /\ BlocksOK'
  <2> DEFINE r == e.id
             t == sampled[1]
  <2>1. r \in Request /\ IsSeq(t) /\ (IgnoreOutput(r, t) \/ ApplyOutput(r, t))
    BY <1>1, <1>8 DEF update_request
  <2> HIDE DEF r, t
  <2> QED BY <2>1, IgnoreOutputKeeps, ApplyOutputKeeps
<1>10. StepOK'
  <2>1. step = NoStep
    BY <1>1 DEF IInv, StepOK
  <2>2. step' = step
    BY <1>1 DEF update_request, IgnoreOutput, ApplyOutput
  <2> QED BY <2>1, <2>2, NoStepOK DEF StepOK
<1>11. BatchesOK'
  <2> DEFINE new == batch_queue'[1]
  <2>1. /\ DOMAIN batch_queue' = DOMAIN batch_queue
        /\ \A i \in DOMAIN batch_queue : i # 1 => batch_queue'[i] = batch_queue[i]
        /\ new = [batch EXCEPT !.out.reqs = Tail(@), !.sampled = Tail(@)]
    BY <1>1, <1>3
  <2>2. /\ DOMAIN new = DOMAIN batch /\ new.done = batch.done
        /\ new.sampled = Tail(sampled) /\ new.out = [batch.out EXCEPT !.reqs = Tail(@)]
    BY <1>3, <2>1 DEF IsBatch
  <2>3. DOMAIN new.out = DOMAIN batch.out /\ new.out.reqs = Tail(reqs)
    BY <1>3, <2>2 DEF IsBatch
  <2> HIDE DEF new, reqs, sampled, batch
  <2>4. /\ \A i \in DOMAIN Tail(reqs) : Tail(reqs)[i].id \in Request
        /\ \A i \in DOMAIN Tail(sampled) : IsSeq(Tail(sampled)[i])
    BY <1>4, <1>5, <1>7 DEF reqs, sampled
  <2>5. Len(Tail(sampled)) = Len(Tail(reqs))
    BY <1>4, <1>5, <1>7 DEF reqs, sampled
  <2>6. IsBatch(new)
    BY <1>3, <1>5, <1>7, <2>2, <2>3, <2>4, <2>5 DEF IsBatch
  <2>7. \A i \in DOMAIN batch_queue' : IsBatch(batch_queue'[i])
    BY <1>2, <2>1, <2>6 DEF new
  <2>8. IsSeq(batch_queue') /\ batch_queue' # <<>>
    <3>1. batch_queue' = [i \in 1 .. Len(batch_queue) |-> batch_queue'[i]]
      BY <1>1, <1>3
    <3>2. Len(batch_queue) \in Nat
      BY <1>2 DEF IsSeq
    <3> DEFINE T == {batch_queue'[i] : i \in 1 .. Len(batch_queue)}
    <3>3. batch_queue' \in Seq(T)
      BY <3>1, <3>2
    <3>4. IsSeq(batch_queue')
      BY <3>3, SeqIs
    <3>5. batch_queue' # <<>>
      BY <1>3, <2>1
    <3> QED BY <3>4, <3>5
  <2> QED BY <2>7, <2>8 DEF BatchesOK
<1> QED BY <1>9, <1>10, <1>11 DEF IInv

(***************************************************************************)
(* The end of a step preserves the invariant.                              *)
(***************************************************************************)
LEMMA StepEndKeeps ==
    ASSUME IInv, StepEnd
    PROVE  IInv'
<1>1. /\ phase \in {"output", "update"} /\ batch_queue' = Tail(batch_queue) /\ phase' = "input"
      /\ requests' = requests /\ waiting' = waiting /\ running' = running
      /\ manager' = manager /\ step' = step
  BY DEF StepEnd, schedulerVars
<1>2. /\ IsSeq(batch_queue) /\ batch_queue # <<>>
      /\ \A i \in DOMAIN batch_queue : IsBatch(batch_queue[i])
  BY <1>1 DEF IInv, BatchesOK
<1>3. /\ IsSeq(Tail(batch_queue))
      /\ \A i \in DOMAIN Tail(batch_queue) :
            i + 1 \in DOMAIN batch_queue /\ Tail(batch_queue)[i] = batch_queue[i + 1]
  BY <1>2, SeqTail
<1>4. BatchesOK'
  BY <1>1, <1>2, <1>3 DEF BatchesOK
<1>5. StepOK'
  BY <1>1 DEF IInv, StepOK
<1> QED BY <1>1, <1>4, <1>5 DEF IInv, RequestsOK, QueuesOK, BlocksOK

(***************************************************************************)
(* The worker finishing a batch preserves the invariant: it returns a      *)
(* sequence of tokens for every scheduled request.                         *)
(***************************************************************************)
LEMMA ExecuteKeeps ==
    ASSUME IInv, Execute
    PROVE  IInv'
<1>1. PICK i \in DOMAIN batch_queue :
        /\ \E value \in [ScheduledIds(batch_queue[i].out) -> SampledValues] :
             batch_queue' =
               [batch_queue EXCEPT
                  ![i].done = TRUE,
                  ![i].sampled = [k \in DOMAIN batch_queue[i].out.reqs |->
                                    SampledToken(batch_queue[i].out, batch_queue[i].out.reqs[k], value)],
                  ![i].reads_ok = ReadsOwnPrefix(batch_queue[i].out)]
        /\ UNCHANGED <<schedulerVars, phase, resets>>
  BY DEF Execute
<1>2. PICK value : 
             batch_queue' =
               [batch_queue EXCEPT
                  ![i].done = TRUE,
                  ![i].sampled = [k \in DOMAIN batch_queue[i].out.reqs |->
                                    SampledToken(batch_queue[i].out, batch_queue[i].out.reqs[k], value)],
                  ![i].reads_ok = ReadsOwnPrefix(batch_queue[i].out)]
  BY <1>1
<1>3. /\ requests' = requests /\ waiting' = waiting /\ running' = running
      /\ manager' = manager /\ step' = step /\ phase' = phase
  BY <1>1 DEF schedulerVars
<1> DEFINE batch == batch_queue[i]
           reqs == batch.out.reqs
           tok(k) == SampledToken(batch.out, reqs[k], value)
           sampled == [k \in DOMAIN reqs |-> tok(k)]
           new == batch_queue'[i]
<1>4. /\ IsSeq(batch_queue) /\ batch_queue # <<>>
      /\ \A j \in DOMAIN batch_queue : IsBatch(batch_queue[j])
      /\ DOMAIN batch_queue = 1 .. Len(batch_queue) /\ Len(batch_queue) \in Nat
  BY DEF IInv, BatchesOK, IsSeq
<1>5. /\ DOMAIN batch_queue' = DOMAIN batch_queue
      /\ \A j \in DOMAIN batch_queue : j # i => batch_queue'[j] = batch_queue[j]
      /\ new = [batch EXCEPT !.done = TRUE, !.sampled = sampled,
                             !.reads_ok = ReadsOwnPrefix(batch.out)]
  BY <1>2, <1>4
<1>6. IsBatch(batch)
  BY <1>4
<1>7. /\ IsSeq(sampled) /\ Len(sampled) = Len(reqs)
      /\ \A k \in DOMAIN sampled : IsSeq(sampled[k])
  <2>1. DOMAIN reqs = 1 .. Len(reqs) /\ Len(reqs) \in Nat
    BY <1>6 DEF IsBatch, IsSeq
  <2>2. \A k \in DOMAIN reqs : IsSeq(tok(k))
    <3> SUFFICES ASSUME NEW k \in DOMAIN reqs PROVE IsSeq(tok(k))
      OBVIOUS
    <3> DEFINE t == <<SeqLen(reqs[k]) + 1, value[reqs[k].id]>>
    <3>1. tok(k) = <<>> \/ tok(k) = <<t>>
      BY DEF SampledToken
    <3> HIDE DEF tok, t
    <3>2. <<>> \in Seq({t}) /\ <<t>> \in Seq({t})
      OBVIOUS
    <3>3. tok(k) \in Seq({t})
      BY <3>1, <3>2
    <3> QED BY <3>3, SeqIs
  <2> HIDE DEF tok, reqs
  <2> DEFINE T == {tok(k) : k \in DOMAIN reqs}
  <2>3. sampled \in Seq(T) /\ Len(sampled) = Len(reqs)
    BY <2>1
  <2>4. IsSeq(sampled)
    BY <2>3, SeqIs
  <2> QED BY <2>2, <2>3, <2>4
<1> HIDE DEF sampled, new
<1>8. /\ DOMAIN new = DOMAIN batch /\ new.out = batch.out /\ new.sampled = sampled
  BY <1>5, <1>6 DEF IsBatch
<1> HIDE DEF batch
<1>9. IsBatch(new)
  BY <1>6, <1>7, <1>8 DEF IsBatch
<1>10. \A j \in DOMAIN batch_queue' : IsBatch(batch_queue'[j])
  BY <1>4, <1>5, <1>9 DEF new
<1>11. IsSeq(batch_queue') /\ batch_queue' # <<>>
  <2>1. batch_queue' = [j \in 1 .. Len(batch_queue) |-> batch_queue'[j]]
    BY <1>2, <1>4
  <2> DEFINE T == {batch_queue'[j] : j \in 1 .. Len(batch_queue)}
  <2>2. batch_queue' \in Seq(T)
    BY <1>4, <2>1
  <2>3. IsSeq(batch_queue')
    BY <2>2, SeqIs
  <2>4. batch_queue' # <<>>
    BY <1>5
  <2> QED BY <2>3, <2>4
<1>12. BatchesOK'
  BY <1>10, <1>11 DEF BatchesOK
<1> QED BY <1>3, <1>12 DEF IInv, RequestsOK, QueuesOK, BlocksOK, StepOK

-----------------------------------------------------------------------------
(* The theorems *)

(***************************************************************************)
(* The engine starts with everything empty and every block free.           *)
(***************************************************************************)
LEMMA InitHolds ==
    ASSUME Init
    PROVE  IInv
<1>1. /\ requests = [r \in Request |-> NewRequest(r, "NONE")]
      /\ waiting = <<>> /\ running = <<>> /\ manager = InitManager /\ step = NoStep
      /\ phase = "input" /\ batch_queue = <<>>
  BY DEF Init, InitScheduler
<1>2. \A r \in Request : /\ IsRequest(NewRequest(r, "NONE"))
                         /\ NewRequest(r, "NONE").status = "NONE"
  BY NewRequestOK DEF Status
<1>3. RequestsOK
  BY <1>1, <1>2 DEF RequestsOK
<1>4. <<>> \in Seq(Request) /\ Range(<<>>) = {} /\ IsInjective(<<>>) /\ Len(<<>>) = 0
  BY DEF Range, IsInjective
<1>5. QueuesOK
  <2>1. Len(<<>>) <= MaxNumRunningReqs
    BY <1>4, SchedulerAssumption
  <2> QED BY <1>1, <1>2, <1>4, <2>1 DEF QueuesOK, Placed, Queued
<1>6. BlocksOK
  <2>1. InitManager.req_to_blocks = [r \in Request |-> <<>>]
    BY DEF InitManager
  <2> QED BY <1>1, <2>1, InitOK DEF BlocksOK, Held
<1>7. StepOK
  BY <1>1, NoStepOK DEF StepOK
<1>8. BatchesOK
  <2>1. IsSeq(<<>>)
    BY <1>4, SeqIs
  <2>2. DOMAIN <<>> = {}
    OBVIOUS
  <2> QED BY <1>1, <2>1, <2>2 DEF BatchesOK
<1> QED BY <1>3, <1>5, <1>6, <1>7, <1>8 DEF IInv

(***************************************************************************)
(* Every step of the engine, its client and its worker preserves the       *)
(* invariant.                                                              *)
(***************************************************************************)
LEMMA NextKeeps ==
    ASSUME IInv, [Next]_vars
    PROVE  IInv'
<1>1. CASE Client
  <2>1. CASE \E r \in Request : Add(r)
    BY <2>1, AddKeeps
  <2>2. CASE \E r \in Request : Abort(r)
    BY <2>2, AbortKeeps
  <2>3. CASE \E b \in {FALSE, ResetRunningAllowed} : Reset(b)
    <3>1. PICK b \in {FALSE, ResetRunningAllowed} : Reset(b)
      BY <2>3
    <3>2. /\ phase = "input" /\ UNCHANGED <<phase, batch_queue>>
          /\ ResetRunning \/ ResetIdle
      BY <3>1 DEF Reset
    <3> QED BY <3>2, ResetRunningKeeps, ResetIdleKeeps
  <2> QED BY <1>1, <2>1, <2>2, <2>3 DEF Client
<1>2. CASE Engine
  <2>1. CASE Schedule
    <3>1. phase = "schedule" /\ UNCHANGED <<phase, batch_queue>>
      BY <2>1 DEF Schedule, engineVars
    <3>2. CASE SkipRunning \/ EnterRunning \/ RunningDone
      BY <3>1, <3>2, WalkKeeps
    <3>3. CASE ScheduleRunning
      BY <3>1, <3>3, ScheduleRunningKeeps
    <3>4. CASE PreemptForRunning
      BY <3>1, <3>4, PreemptKeeps
    <3>5. CASE ScheduleWaiting
      BY <3>1, <3>5, ScheduleWaitingKeeps
    <3> QED BY <2>1, <3>2, <3>3, <3>4, <3>5 DEF Schedule
  <2> QED BY <1>2, <2>1, StepStartKeeps, SubmitKeeps, UpdateRequestKeeps, StepEndKeeps DEF Engine
<1>3. CASE Execute
  BY <1>3, ExecuteKeeps
<1>4. CASE UNCHANGED vars
  <2>1. /\ requests' = requests /\ waiting' = waiting /\ running' = running
        /\ manager' = manager /\ step' = step /\ phase' = phase /\ batch_queue' = batch_queue
    BY <1>4 DEF vars, schedulerVars, engineVars
  <2> QED BY <2>1 DEF IInv, RequestsOK, QueuesOK, BlocksOK, StepOK, BatchesOK
<1> QED BY <1>1, <1>2, <1>3, <1>4 DEF Next

(***************************************************************************)
(* The inductive invariant holds in every reachable state, for any         *)
(* requests, prompts, block counts and sizes, budgets, policies and        *)
(* numbers of batches in flight, with and without async scheduling.        *)
(***************************************************************************)
THEOREM Inductive == Spec => []IInv
<1>1. Init => IInv
  BY InitHolds
<1>2. IInv /\ [Next]_vars => IInv'
  BY NextKeeps
<1> QED BY <1>1, <1>2, PTL DEF Spec

(***************************************************************************)
(* No block leaks and none is freed twice, through preemption, aborts,     *)
(* stops, prefix cache hits, evictions and resets, with any number of      *)
(* batches in flight: every block's ref_cnt is the number of requests that *)
(* hold it, the free queue has exactly the blocks nobody holds, once, and  *)
(* only running requests hold blocks.                                      *)
(***************************************************************************)
THEOREM BlocksAlwaysAccountedFor == Spec => []BlocksAccountedFor
<1>1. IInv => BlocksAccountedFor
  <2> SUFFICES ASSUME IInv PROVE BlocksAccountedFor
    OBVIOUS
  <2>1. /\ Accounted(manager)
        /\ \A r \in Request : manager.req_to_blocks[r] # <<>> => requests[r].status = "RUNNING"
    BY DEF IInv, BlocksOK, Held, ManagerOK
  <2>2. \A b \in Block \ {NullBlock} :
           /\ manager.pool.ref_cnt[b] =
                 Cardinality({r \in Request : b \in Range(manager.req_to_blocks[r])})
           /\ b \in Range(manager.pool.free)
                 <=> {r \in Request : b \in Range(manager.req_to_blocks[r])} = {}
    BY <2>1 DEF Accounted, Counted, Holders, RealBlock
  <2>3. /\ IsInjective(manager.pool.free)
        /\ \A r \in Request : IsInjective(manager.req_to_blocks[r])
    BY <2>1 DEF Accounted
  <2> QED BY <2>1, <2>2, <2>3 DEF BlocksAccountedFor
<1> QED BY <1>1, Inductive, PTL

(***************************************************************************)
(* BlockPool: at all times a block is in the prefix cache under exactly    *)
(* the hash it carries, and no hash has an empty entry, so a lookup never  *)
(* returns a block that was evicted or given another content.              *)
(***************************************************************************)
THEOREM CacheIndexAlwaysConsistent == Spec => []CacheIndexConsistent
<1>1. IInv => CacheIndexConsistent
  BY DEF IInv, BlocksOK, Held, ManagerOK, Indexed, CacheIndexConsistent
<1> QED BY <1>1, Inductive, PTL

(***************************************************************************)
(* Scheduler: at all times a request is in self.running if its status is   *)
(* RUNNING, in self.waiting if it is WAITING or PREEMPTED, once, and in no *)
(* queue otherwise, and at most max_num_running_reqs requests run.         *)
(***************************************************************************)
THEOREM QueuesAlwaysMatchStatus == Spec => []QueuesMatchStatus
<1>1. IInv => QueuesMatchStatus
  BY DEF IInv, QueuesOK, Placed, Queued, QueuesMatchStatus
<1> QED BY <1>1, Inductive, PTL

-----------------------------------------------------------------------------
(* Where schedule() is in self.running *)

\* x is among the first k requests of u.
Passed(u, x, k) == \E i \in DOMAIN u : i <= k /\ u[i] = x

(***************************************************************************)
(* A request that schedule() is past stays so when another one is taken    *)
(* out of self.running, and when schedule() was past that one too the      *)
(* index may move back by one.                                             *)
(***************************************************************************)
LEMMA WithoutPassed ==
    ASSUME NEW u \in Seq(Request), NEW v \in Request, NEW x, x # v, NEW k \in Int,
           Passed(u, x, k)
    PROVE  /\ Passed(Without(u, v), x, k)
           /\ Passed(u, v, k) => Passed(Without(u, v), x, k - 1)
<1> DEFINE n == IF k <= Len(u) THEN k ELSE Len(u)
           S == Request \ {v}
           w == Keep(u, S)
<1>1. Len(u) \in Nat /\ DOMAIN u = 1 .. Len(u) /\ \A i \in 1 .. Len(u) : u[i] \in Request
  OBVIOUS
<1>2. PICK i \in DOMAIN u : i <= k /\ u[i] = x
  BY DEF Passed
<1>3. n \in 0 .. Len(u) /\ n <= k /\ i \in 1 .. n
  BY <1>1, <1>2
<1>4. w \in Seq(Request) /\ w = Without(u, v)
  <2>1. Keep(u, S) \in Seq(Request)
    <3> HIDE DEF S
    <3> QED BY KeepFacts
  <2> QED BY <2>1 DEF Without
<1>5. \A j \in DOMAIN u : j <= k => j \in 1 .. n
  BY <1>1
<1>6. x \in {u[j] : j \in 1 .. n} \cap S
  BY <1>1, <1>2, <1>3
<1>7. Passed(u, v, k) => \E j \in 1 .. n : u[j] \notin S
  BY <1>5 DEF Passed
<1> HIDE DEF n, S
<1>8. PICK p \in Seq(Request) : Begins(p, Keep(u, S), u, S, n)
  BY <1>3, KeepPrefix
<1> HIDE DEF w
<1>9. /\ Len(p) <= n /\ Len(p) <= Len(w) /\ x \in Range(p)
      /\ (\E j \in 1 .. n : u[j] \notin S) => Len(p) < n
      /\ \A j \in 1 .. Len(p) : w[j] = p[j]
  BY <1>6, <1>8 DEF Begins, w
<1>10. PICK j \in 1 .. Len(p) : p[j] = x
  BY <1>9 DEF Range
<1>11. j \in DOMAIN w /\ w[j] = x /\ j <= Len(p) /\ Len(p) \in Nat /\ n \in Int
  BY <1>3, <1>4, <1>9, <1>10
<1>12. Passed(w, x, k)
  <2>1. j <= k
    BY <1>3, <1>9, <1>11
  <2> QED BY <1>11, <2>1 DEF Passed
<1>13. Passed(u, v, k) => Passed(w, x, k - 1)
  <2> SUFFICES ASSUME Passed(u, v, k) PROVE Passed(w, x, k - 1)
    OBVIOUS
  <2>1. Len(p) < n
    BY <1>7, <1>9
  <2>2. j <= k - 1
    BY <1>3, <1>11, <2>1
  <2> QED BY <1>11, <2>2 DEF Passed
<1> QED BY <1>4, <1>12, <1>13

-----------------------------------------------------------------------------
(* The second invariant *)

Alive == {"WAITING", "RUNNING", "PREEMPTED"}

\* The tokens that the blocks of r have room for.
Slots(m, r) == Len(m.req_to_blocks[r]) * BlockSize

\* The token counts of request q: what is computed fits its blocks and the
\* tokens it has or has in flight.
Counts(q, slots) ==
    /\ q.num_computed_tokens \in 0 .. (MaxModelLen - 1)
    /\ q.num_output_placeholders \in Nat
    /\ q.num_output_placeholders = 0 \/ AsyncScheduling
    /\ q.status \in Alive => /\ Len(q.tokens) < MaxModelLen
                             /\ q.num_computed_tokens <= Len(q.tokens) + q.num_output_placeholders
                             /\ q.num_computed_tokens <= slots

\* Request q may be scheduled for n more tokens.
Reaches(q, n) ==
    /\ n \in Nat
    /\ q.num_computed_tokens + n < MaxModelLen
    /\ q.num_computed_tokens + n <= Len(q.tokens) + q.num_output_placeholders

\* What schedule(), at s, has decided for the request of entry e.
EntryOK(e, s, u, q, m, previous) ==
    /\ e.id \in Range(u) /\ (s.request # NoRequest => e.id # s.request)
    /\ Reaches(q[e.id], e.num_scheduled_tokens)
    /\ q[e.id].num_computed_tokens + e.num_scheduled_tokens <= Slots(m, e.id)
    /\ e.kind = "resumed" => e.id \notin previous
    /\ s.loop = "running" => Passed(u, e.id, s.req_index - 1)

\* The batch that schedule() is making has each request once.
Once(s) == \A i, j \in DOMAIN s.scheduled : s.scheduled[i].id = s.scheduled[j].id => i = j

\* The request that schedule() is looking for slots for.
Asking(s, u, q) ==
    s.request # NoRequest =>
        /\ s.loop = "running"
        /\ Reaches(q[s.request], s.num_new_tokens)
        /\ Passed(u, s.request, s.req_index)

EntriesOf(s, u, q, m, previous) ==
    /\ Once(s) /\ Asking(s, u, q)
    /\ \A i \in DOMAIN s.scheduled : EntryOK(s.scheduled[i], s, u, q, m, previous)

Entries == EntriesOf(step, running, requests, manager, prev_step_scheduled_req_ids)

CountsOf(q, m) == \A r \in Request : Counts(q[r], Slots(m, r))

TokensCounted == CountsOf(requests, manager)

\* A request that was in the last batch and is preempted was preempted just
\* now, by this schedule().
PreemptedNow ==
    \A r \in Request :
        (requests[r].status = "PREEMPTED" /\ r \in prev_step_scheduled_req_ids) =>
            (phase = "schedule" /\ step.preempted)

OneToken(b) == \A k \in DOMAIN b.sampled : Len(b.sampled[k]) <= 1

OneEach == \A i \in DOMAIN batch_queue : batch_queue[i].done => OneToken(batch_queue[i])

Sound == Linked(manager, requests) /\ TokensCounted /\ Entries /\ PreemptedNow /\ OneEach

Underflow == "num_output_placeholders < 0"

\* update_from_output comes to a token that no placeholder stands for.
Missing ==
    LET batch == batch_queue[1]
        r == batch.out.reqs[1].id
    IN /\ AsyncScheduling /\ batch_queue # <<>>
       /\ batch.done /\ batch.out.reqs # <<>> /\ batch.sampled[1] # <<>>
       /\ requests[r].status \in Alive /\ requests[r].num_output_placeholders = 0

\* Only AsyncScheduler decrements num_output_placeholders.
SoundUnlessUnderflow == (AsyncScheduling /\ manager.pool.error = Underflow) \/ Sound

(***************************************************************************)
(* What the first invariant says of the manager and the requests.          *)
(***************************************************************************)
LEMMA Basics ==
    ASSUME IInv
    PROVE  /\ ManagerOK(manager) /\ HasTokens(requests) /\ DOMAIN requests = Request
           /\ \A r \in Request : IsRequest(requests[r])
           /\ IsStep(step) /\ (phase # "schedule" => step = NoStep)
<1> QED BY DEF IInv, RequestsOK, IsRequest, BlocksOK, Held, StepOK, HasTokens

(***************************************************************************)
(* The slots of a request are a number, none when it has no blocks.        *)
(***************************************************************************)
LEMMA SlotsFacts ==
    ASSUME NEW m, ManagerOK(m), NEW r \in Request
    PROVE  Slots(m, r) \in Nat /\ (m.req_to_blocks[r] = <<>> => Slots(m, r) = 0)
<1>1. Len(m.req_to_blocks[r]) \in Nat
  BY DEF ManagerOK, IsManager
<1>2. Len(<<>>) = 0
  OBVIOUS
<1>3. 0 * BlockSize = 0
  BY SizesAssumption
<1>4. \A k \in Nat : k * BlockSize \in Nat
  BY SizesAssumption
<1> QED BY <1>1, <1>2, <1>3, <1>4 DEF Slots

(***************************************************************************)
(* Outside schedule() there is no batch being made.                        *)
(***************************************************************************)
LEMMA NoEntries ==
    ASSUME NEW s, s.request = NoRequest, s.scheduled = <<>>, NEW u, NEW q, NEW m, NEW previous
    PROVE  EntriesOf(s, u, q, m, previous)
<1>1. DOMAIN s.scheduled = {}
  OBVIOUS
<1> QED BY <1>1 DEF EntriesOf, Once, Asking

(***************************************************************************)
(* Outside schedule() the part of the invariant about its batch is vacuous. *)
(***************************************************************************)
LEMMA AfterStep ==
    ASSUME IInv'
    PROVE  /\ ManagerOK(manager') /\ HasTokens(requests')
           /\ phase' # "schedule" => Entries'
<1>1. phase' # "schedule" => step'.request = NoRequest /\ step'.scheduled = <<>>
  BY DEF IInv, StepOK, NoStep
<1>2. phase' # "schedule" => Entries'
  BY <1>1, NoEntries DEF Entries
<1>3. ManagerOK(manager') /\ HasTokens(requests')
  BY DEF IInv, RequestsOK, IsRequest, BlocksOK, Held, HasTokens
<1> QED BY <1>2, <1>3

(***************************************************************************)
(* A new request has no more tokens than the model takes.                  *)
(***************************************************************************)
LEMMA NewRequestCounts ==
    ASSUME NEW r \in Request, NEW status, NEW slots \in Nat
    PROVE  Counts(NewRequest(r, status), slots)
<1> DEFINE n == Len(Prompt[r])
           T == {<<i, Prompt[r][i]>> : i \in 1 .. n}
           s == PromptTokens(r)
<1>1. n \in Nat /\ n < MaxModelLen
  BY SchedulerAssumption, SizesAssumption
<1>2. s = [i \in 1 .. n |-> <<i, Prompt[r][i]>>]
  BY DEF PromptTokens
<1> HIDE DEF n, s
<1>3. s \in Seq(T) /\ Len(s) = n
  BY <1>1, <1>2
<1> HIDE DEF T
<1>5. NewRequest(r, status) =
        [status |-> status, tokens |-> s, num_computed_tokens |-> 0,
         num_output_placeholders |-> 0, discard_latest_async_tokens |-> FALSE]
  BY DEF NewRequest, s
<1> QED BY <1>1, <1>3, <1>5, SizesAssumption DEF Counts

-----------------------------------------------------------------------------
(* The client's calls *)

(***************************************************************************)
(* EngineCore.add_request keeps the second invariant: the id's old blocks  *)
(* are gone, so no block is tagged with tokens it no longer has.           *)
(***************************************************************************)
LEMMA AddSound ==
    ASSUME IInv, IInv', Sound, NEW r \in Request, Add(r)
    PROVE  Sound'
<1>1. /\ requests' = [requests EXCEPT ![r] = NewRequest(r, "WAITING")]
      /\ manager' = manager /\ step' = step /\ phase = "input"
      /\ prev_step_scheduled_req_ids' = prev_step_scheduled_req_ids
      /\ phase' = phase /\ batch_queue' = batch_queue
      /\ requests[r].status \notin {"WAITING", "RUNNING", "PREEMPTED"}
  BY DEF Add, add_request, Fresh, engineVars
<1>2. /\ ManagerOK(manager) /\ HasTokens(requests) /\ DOMAIN requests = Request
  BY Basics
<1>3. HasTokens(requests')
  BY AfterStep
<1>4. /\ \A s \in Request : s # r => requests'[s] = requests[s]
      /\ requests'[r] = NewRequest(r, "WAITING")
  BY <1>1, <1>2
<1>5. Linked(manager, requests')
  <2>1. SameTokens(requests, requests', r)
    BY <1>3, <1>4 DEF SameTokens
  <2>2. manager.req_to_blocks[r] = <<>>
    BY <1>1 DEF IInv, BlocksOK, Held
  <2> QED BY <1>2, <2>1, <2>2, NoBlocksLinked DEF Sound
<1>6. TokensCounted'
  <2>1. Counts(requests'[r], Slots(manager, r))
    BY <1>2, <1>4, SlotsFacts, NewRequestCounts
  <2> QED BY <1>1, <1>4, <2>1 DEF Sound, TokensCounted, CountsOf
<1>7. Entries'
  BY <1>1, AfterStep
<1>8. PreemptedNow'
  <2>1. requests'[r].status = "WAITING"
    BY <1>4 DEF NewRequest
  <2> QED BY <1>1, <1>4, <2>1 DEF Sound, PreemptedNow
<1>9. OneEach'
  BY <1>1 DEF Sound, OneEach
<1> QED BY <1>1, <1>5, <1>6, <1>7, <1>8, <1>9 DEF Sound

(***************************************************************************)
(* The counts of a request whose blocks are given back.                    *)
(***************************************************************************)
LEMMA FreeCounts ==
    ASSUME NEW m, ManagerOK(m), NEW q, CountsOf(q, m), NEW r \in Request, NEW p,
           \A s \in Request : s # r => p[s] = q[s], Counts(p[r], 0)
    PROVE  CountsOf(p, free(m, r))
<1> DEFINE n == free(m, r)
<1>1. ManagerOK(n) /\ n.req_to_blocks = [m.req_to_blocks EXCEPT ![r] = <<>>]
  BY FreeOK
<1>2. DOMAIN m.req_to_blocks = Request
  BY DEF ManagerOK, IsManager
<1> HIDE DEF n
<1>3. \A s \in Request : s # r => Slots(n, s) = Slots(m, s)
  BY <1>1, <1>2 DEF Slots
<1>4. Slots(n, r) = 0
  <2>1. n.req_to_blocks[r] = <<>>
    BY <1>1, <1>2
  <2> QED BY <1>1, <2>1, SlotsFacts
<1> QED BY <1>3, <1>4 DEF CountsOf, n

(***************************************************************************)
(* finish_requests keeps the second invariant.                             *)
(***************************************************************************)
LEMMA AbortSound ==
    ASSUME IInv, IInv', Sound, NEW r \in Request, Abort(r)
    PROVE  Sound'
<1>1. /\ requests' = [requests EXCEPT ![r].status = "FINISHED_ABORTED"]
      /\ manager' = free(manager, r) /\ step' = step /\ phase # "schedule"
      /\ prev_step_scheduled_req_ids' = prev_step_scheduled_req_ids
      /\ phase' = phase /\ batch_queue' = batch_queue
  BY DEF Abort, finish_requests, engineVars
<1>2. /\ ManagerOK(manager) /\ HasTokens(requests) /\ DOMAIN requests = Request
      /\ \A s \in Request : IsRequest(requests[s])
  BY Basics
<1>3. HasTokens(requests')
  BY AfterStep
<1>4. /\ \A s \in Request : s # r => requests'[s] = requests[s]
      /\ requests'[r] = [requests[r] EXCEPT !.status = "FINISHED_ABORTED"]
  BY <1>1, <1>2
<1>5. /\ requests'[r].status = "FINISHED_ABORTED"
      /\ requests'[r].num_computed_tokens = requests[r].num_computed_tokens
      /\ requests'[r].num_output_placeholders = requests[r].num_output_placeholders
  BY <1>2, <1>4 DEF IsRequest
<1>6. Linked(manager', requests')
  <2>1. SameTokens(requests, requests', r)
    BY <1>3, <1>4 DEF SameTokens
  <2> QED BY <1>1, <1>2, <2>1, FreeLinked DEF Sound
<1>7. TokensCounted'
  <2>1. Counts(requests[r], Slots(manager, r)) /\ CountsOf(requests, manager)
    BY DEF Sound, TokensCounted, CountsOf
  <2>2. Counts(requests'[r], 0)
    BY <1>5, <2>1 DEF Counts, Alive
  <2>3. CountsOf(requests', free(manager, r))
    BY <1>2, <1>4, <2>1, <2>2, FreeCounts
  <2> QED BY <1>1, <2>3 DEF TokensCounted
<1>8. Entries'
  BY <1>1, AfterStep
<1>9. PreemptedNow'
  BY <1>1, <1>4, <1>5 DEF Sound, PreemptedNow
<1>10. OneEach'
  BY <1>1 DEF Sound, OneEach
<1> QED BY <1>6, <1>7, <1>8, <1>9, <1>10 DEF Sound

(***************************************************************************)
(* reset_prefix_cache keeps the second invariant.                          *)
(***************************************************************************)
LEMMA ResetIdleSound ==
    ASSUME IInv, IInv', Sound, ResetIdle, UNCHANGED <<phase, batch_queue>>, phase = "input"
    PROVE  Sound'
<1>1. /\ manager' = reset_prefix_cache(manager) /\ requests' = requests
      /\ prev_step_scheduled_req_ids' = prev_step_scheduled_req_ids
      /\ step' = step /\ phase' = phase /\ batch_queue' = batch_queue
  BY DEF ResetIdle
<1>2. ManagerOK(manager) /\ HasTokens(requests)
  BY Basics
<1>3. Linked(manager', requests')
  BY <1>1, <1>2, ResetLinked DEF Sound
<1>4. TokensCounted'
  <2>1. manager'.req_to_blocks = manager.req_to_blocks
    BY <1>1, <1>2, ResetOK
  <2> QED BY <1>1, <2>1 DEF Sound, TokensCounted, CountsOf, Slots
<1>5. Entries'
  BY <1>1, AfterStep
<1>6. PreemptedNow' /\ OneEach'
  BY <1>1 DEF Sound, PreemptedNow, OneEach
<1> QED BY <1>3, <1>4, <1>5, <1>6 DEF Sound

(***************************************************************************)
(* reset_prefix_cache with reset_running_requests keeps the second         *)
(* invariant: with every running request preempted all blocks are free, so *)
(* the reset succeeds, and no request counts as scheduled last.            *)
(***************************************************************************)
LEMMA ResetRunningSound ==
    ASSUME IInv, IInv', Sound, ResetRunning, UNCHANGED <<phase, batch_queue>>, phase = "input"
    PROVE  Sound'
<1> DEFINE left == PreemptAll(manager, waiting, running)
           m == left.manager
           After(r) == [requests[r] EXCEPT !.status = "PREEMPTED", !.num_computed_tokens = 0,
                                           !.num_output_placeholders = 0,
                                           !.discard_latest_async_tokens = TRUE]
<1>1. /\ manager' = IF CanReset(m.pool) THEN reset_prefix_cache(m)
                    ELSE [m EXCEPT !.pool = Fail(@, "reset_prefix_cache: RuntimeError")]
      /\ requests' = [r \in Request |-> IF r \in Range(running) THEN After(r) ELSE requests[r]]
      /\ prev_step_scheduled_req_ids' = {}
      /\ step' = step /\ phase' = phase /\ batch_queue' = batch_queue
  BY DEF ResetRunning, ForgetPrevStep
<1>2. /\ ManagerOK(manager) /\ HasTokens(requests)
      /\ \A r \in Request : IsRequest(requests[r])
  BY Basics
<1>3. ManagerOK(manager') /\ HasTokens(requests')
  BY AfterStep
<1>4. /\ ManagerOK(m) /\ \A r \in Request : m.req_to_blocks[r] = <<>>
      /\ (HasTokens(requests) /\ Linked(manager, requests)) => Linked(m, requests)
  BY PreemptAllFacts DEF IInv, QueuesOK, BlocksOK
<1> HIDE DEF left
<1>5. Linked(m, requests)
  BY <1>2, <1>4 DEF Sound
<1> HIDE DEF m
<1>6. /\ manager' = reset_prefix_cache(m) /\ manager'.req_to_blocks = m.req_to_blocks
      /\ Linked(manager', requests)
  <2>1. manager' = reset_prefix_cache(m)
    BY <1>1, <1>4, ResetWhenFree
  <2> QED BY <1>2, <1>4, <1>5, <2>1, ResetOK, ResetLinked
<1>7. \A r \in Request : /\ After(r).tokens = requests[r].tokens
                         /\ After(r).num_computed_tokens = 0
                         /\ After(r).num_output_placeholders = 0
  BY <1>2 DEF IsRequest
<1> HIDE DEF After
<1>8. Linked(manager', requests')
  <2>1. \A r \in Request : requests'[r].tokens = requests[r].tokens
    BY <1>1, <1>7
  <2> QED BY <1>6, <2>1 DEF Linked
<1>9. TokensCounted'
  <2>1. \A r \in Request : manager'.req_to_blocks[r] = <<>>
    BY <1>4, <1>6
  <2>2. \A r \in Request : Slots(manager', r) = 0
    BY <1>3, <2>1, SlotsFacts
  <2>3. ASSUME NEW r \in Request PROVE Counts(requests'[r], 0)
    <3>1. Counts(requests[r], Slots(manager, r)) /\ Slots(manager, r) \in Nat
      BY <1>2, SlotsFacts DEF Sound, TokensCounted, CountsOf
    <3>2. CASE r \in Range(running)
      <4>1. requests[r].status = "RUNNING" /\ Len(requests[r].tokens) \in Nat
        BY <1>2, <3>2 DEF IInv, QueuesOK, Placed, IsRequest, IsSeq
      <4>2. Counts(After(r), 0)
        BY <1>7, <3>1, <4>1, SizesAssumption DEF Counts, Alive
      <4> QED BY <1>1, <3>2, <4>2
    <3>3. CASE r \notin Range(running)
      <4>1. manager.req_to_blocks[r] = <<>>
        BY <3>3 DEF IInv, BlocksOK, Held, QueuesOK, Placed
      <4>2. Slots(manager, r) = 0
        BY <1>2, <4>1, SlotsFacts
      <4> QED BY <1>1, <3>1, <3>3, <4>2
    <3> QED BY <3>2, <3>3
  <2> QED BY <2>2, <2>3 DEF TokensCounted, CountsOf
<1>10. Entries'
  BY <1>1, AfterStep
<1>11. PreemptedNow' /\ OneEach'
  BY <1>1 DEF Sound, PreemptedNow, OneEach
<1> QED BY <1>8, <1>9, <1>10, <1>11 DEF Sound

-----------------------------------------------------------------------------
(* The busy loop: schedule() *)

(***************************************************************************)
(* The start of a step keeps the second invariant.                         *)
(***************************************************************************)
LEMMA StepStartSound ==
    ASSUME IInv, IInv', Sound, StepStart
    PROVE  Sound'
<1>1. /\ requests' = requests /\ manager' = manager /\ phase = "input"
      /\ prev_step_scheduled_req_ids' = prev_step_scheduled_req_ids
      /\ batch_queue' = batch_queue
  BY DEF StepStart, schedule_start, schedulerVars
<1>2. Linked(manager', requests') /\ TokensCounted' /\ OneEach'
  BY <1>1 DEF Sound, TokensCounted, OneEach
<1>3. Entries'
  <2>1. CASE schedule_start
    <3>1. step' = [NoStep EXCEPT !.loop = "running", !.token_budget = MaxNumScheduledTokens]
      BY <2>1 DEF schedule_start
    <3>2. step'.request = NoRequest /\ step'.scheduled = <<>>
      BY <3>1 DEF NoStep
    <3> QED BY <3>2, NoEntries DEF Entries
  <2>2. CASE phase' # "schedule"
    BY <2>2, AfterStep
  <2> QED BY <2>1, <2>2 DEF StepStart
<1>4. PreemptedNow'
  BY <1>1 DEF Sound, PreemptedNow
<1> QED BY <1>2, <1>3, <1>4 DEF Sound

(***************************************************************************)
(* The token counts schedule() gives are never negative, nor past what the *)
(* request has or the model takes.                                         *)
(***************************************************************************)
LEMMA ChunkFacts ==
    ASSUME step.token_budget \in Nat, NEW n \in Nat
    PROVE  Chunk(n) \in Nat /\ Chunk(n) <= n
<1> QED BY SchedulerAssumption DEF Chunk, LesserOf

(***************************************************************************)
(* The number of tokens that schedule() asks for stays within what the     *)
(* request has or has in flight, and within the model length.              *)
(***************************************************************************)
LEMMA NumNewTokensReaches ==
    ASSUME IInv, NEW r \in Request, step.token_budget \in Nat, NEW slots,
           Counts(requests[r], slots), requests[r].status \in Alive
    PROVE  Reaches(requests[r], NumNewTokens(r))
<1> DEFINE q == requests[r]
           a == Len(q.tokens)
           o == q.num_output_placeholders
           c == q.num_computed_tokens
           k == a + o - c
           l == MaxModelLen - 1 - c
           n == NumNewTokens(r)
<1>1. a \in Nat
  BY Basics DEF IsRequest, IsSeq
<1>2. c \in Nat /\ c <= MaxModelLen - 1 /\ o \in Nat /\ c <= a + o
  BY SizesAssumption DEF Counts
<1>3. n = LesserOf(Chunk(k), l)
  BY DEF NumNewTokens
<1>4. (n \in Nat /\ c + n < MaxModelLen /\ c + n <= a + o) => Reaches(q, n)
  BY DEF Reaches
<1> HIDE DEF a, o, c, n
<1>5. k \in Nat /\ l \in Nat
  BY <1>1, <1>2, SizesAssumption
<1>6. Chunk(k) \in Nat /\ Chunk(k) <= k
  <2> HIDE DEF k
  <2> QED BY <1>5, ChunkFacts
<1>7. n \in Nat /\ n <= k /\ n <= l
  <2> HIDE DEF k, l
  <2> QED BY <1>3, <1>5, <1>6 DEF LesserOf
<1>8. c + n < MaxModelLen /\ c + n <= a + o
  BY <1>1, <1>2, <1>7, SizesAssumption
<1> QED BY <1>4, <1>7, <1>8 DEF n

(***************************************************************************)
(* A larger index is past what a smaller one is past.                      *)
(***************************************************************************)
LEMMA PassedMore ==
    ASSUME NEW u \in Seq(Request), NEW x, NEW k \in Int, Passed(u, x, k)
    PROVE  Passed(u, x, k + 1)
<1>1. PICK i \in DOMAIN u : i <= k /\ u[i] = x
  BY DEF Passed
<1>2. i \in Int
  OBVIOUS
<1>3. i <= k + 1
  BY <1>1, <1>2
<1> QED BY <1>1, <1>3 DEF Passed

(***************************************************************************)
(* schedule() moving along self.running keeps the second invariant: the    *)
(* request it takes up is not in the batch, for it is past those.          *)
(***************************************************************************)
LEMMA WalkSound ==
    ASSUME IInv, IInv', Sound, phase = "schedule", UNCHANGED <<phase, batch_queue>>,
           SkipRunning \/ EnterRunning \/ RunningDone
    PROVE  Sound'
<1> DEFINE r == running[step.req_index]
           prev == prev_step_scheduled_req_ids
           s == step.scheduled
<1>1. /\ requests' = requests /\ running' = running /\ manager' = manager
      /\ prev' = prev /\ phase' = phase /\ batch_queue' = batch_queue
      /\ step.loop = "running" /\ step.request = NoRequest
  BY DEF SkipRunning, EnterRunning, RunningDone, RunningLeft, InnerLoop
<1>2. Linked(manager', requests') /\ TokensCounted' /\ OneEach'
  BY <1>1 DEF Sound, TokensCounted, OneEach
<1>3. /\ running \in Seq(Request) /\ IsInjective(running) /\ step.req_index \in Int
      /\ step.token_budget \in Int /\ Len(s) \in Nat
      /\ \A x \in Request : x \in Range(running) <=> requests[x].status = "RUNNING"
      /\ DOMAIN step = {"loop", "req_index", "token_budget", "request", "num_new_tokens",
                        "scheduled", "preempted"}
      /\ step.req_index > Len(s)
  BY <1>1 DEF IInv, QueuesOK, Placed, StepOK, IsStep, IsSeq
<1>4. /\ Once(step)
      /\ \A i \in DOMAIN s : EntryOK(s[i], step, running, requests, manager, prev)
  BY DEF Sound, Entries, EntriesOf
<1>5. \A i \in DOMAIN s : Passed(running, s[i].id, step.req_index - 1)
  BY <1>1, <1>4 DEF EntryOK
<1>6. Entries' /\ step'.preempted = step.preempted
  <2>1. CASE SkipRunning
    <3>1. step' = [step EXCEPT !.req_index = @ + 1]
      BY <2>1 DEF SkipRunning
    <3>2. /\ step'.req_index = step.req_index + 1 /\ step'.scheduled = s
          /\ step'.loop = step.loop /\ step'.request = NoRequest
          /\ step'.preempted = step.preempted
      BY <1>1, <1>3, <3>1
    <3>3. ASSUME NEW i \in DOMAIN s PROVE EntryOK(s[i], step', running, requests, manager, prev)
      <4>1. Passed(running, s[i].id, (step.req_index - 1) + 1)
        BY <1>3, <1>5, PassedMore
      <4>2. (step.req_index - 1) + 1 = step'.req_index - 1
        BY <1>3, <3>2
      <4>3. Passed(running, s[i].id, step'.req_index - 1)
        BY <4>1, <4>2
      <4> QED BY <1>4, <3>2, <4>3 DEF EntryOK
    <3>4. Once(step') /\ Asking(step', running, requests)
      BY <1>4, <3>2 DEF Once, Asking
    <3> QED BY <1>1, <3>2, <3>3, <3>4 DEF Entries, EntriesOf
  <2>2. CASE EnterRunning
    <3>1. step' = [step EXCEPT !.request = r, !.num_new_tokens = NumNewTokens(r)] /\ RunningLeft
      BY <2>2 DEF EnterRunning
    <3>2. step.req_index \in 1 .. Len(running) /\ step.token_budget \in Nat
      BY <1>3, <3>1 DEF RunningLeft
    <3>3. r \in Request /\ r \in Range(running) /\ Passed(running, r, step.req_index)
      BY <1>3, <3>2 DEF Range, Passed
    <3>4. Reaches(requests[r], NumNewTokens(r))
      <4>1. Counts(requests[r], Slots(manager, r)) /\ requests[r].status \in Alive
        BY <1>3, <3>3 DEF Sound, TokensCounted, CountsOf, Alive
      <4> QED BY <3>2, <3>3, <4>1, NumNewTokensReaches
    <3>5. ASSUME NEW i \in DOMAIN s PROVE s[i].id # r
      <4>1. PICK j \in DOMAIN running : j <= step.req_index - 1 /\ running[j] = s[i].id
        BY <1>5 DEF Passed
      <4>2. j # step.req_index /\ step.req_index \in DOMAIN running
        BY <1>3, <3>2, <4>1
      <4> QED BY <1>3, <4>1, <4>2 DEF IsInjective
    <3> HIDE DEF r
    <3>6. /\ step'.req_index = step.req_index /\ step'.scheduled = s
          /\ step'.loop = step.loop /\ step'.request = r /\ step'.num_new_tokens = NumNewTokens(r)
          /\ step'.preempted = step.preempted
      BY <1>3, <3>1
    <3>7. ASSUME NEW i \in DOMAIN s PROVE EntryOK(s[i], step', running, requests, manager, prev)
      BY <1>4, <3>5, <3>6 DEF EntryOK
    <3>8. Once(step') /\ Asking(step', running, requests)
      BY <1>1, <1>4, <3>3, <3>4, <3>6 DEF Once, Asking
    <3> QED BY <1>1, <3>6, <3>7, <3>8 DEF Entries, EntriesOf
  <2>3. CASE RunningDone
    <3>1. step' = [step EXCEPT !.loop = "waiting"]
      BY <2>3 DEF RunningDone
    <3>2. /\ step'.scheduled = s /\ step'.loop = "waiting" /\ step'.request = NoRequest
          /\ step'.preempted = step.preempted
      BY <1>1, <1>3, <3>1
    <3>3. ASSUME NEW i \in DOMAIN s PROVE EntryOK(s[i], step', running, requests, manager, prev)
      BY <1>4, <3>2 DEF EntryOK
    <3>4. Once(step') /\ Asking(step', running, requests)
      BY <1>4, <3>2 DEF Once, Asking
    <3> QED BY <1>1, <3>2, <3>3, <3>4 DEF Entries, EntriesOf
  <2> QED BY <2>1, <2>2, <2>3
<1>7. PreemptedNow'
  BY <1>1, <1>6 DEF Sound, PreemptedNow
<1> QED BY <1>2, <1>6, <1>7 DEF Sound

\* What allocate_slots makes of manager m for request r: room for k tokens, and
\* the other requests keep what they had.
Grown(n, m, q, r, k) ==
    /\ Linked(n, q)
    /\ k <= Slots(n, r)
    /\ \A s \in Request : s # r => Slots(n, s) = Slots(m, s)

(***************************************************************************)
(* allocate_slots leaves the other requests their slots and has made room  *)
(* for the new tokens of r.                                                *)
(***************************************************************************)
LEMMA AllocateGrown ==
    ASSUME NEW m, ManagerOK(m), NEW q, HasTokens(q), Linked(m, q), NEW r \in Request,
           NEW computed \in Nat, NEW num_new \in Nat, computed + num_new <= MaxModelLen,
           NEW hits, MayHit(m, q, r, hits), CanAllocate(m, r, computed, num_new, hits)
    PROVE  Grown(allocate_slots(m, r, q[r].tokens, computed, num_new, hits), m, q, r,
                 computed + num_new)
<1> DEFINE s == q[r].tokens
           T == Range(s)
           n == allocate_slots(m, r, s, computed, num_new, hits)
           k == computed + num_new
<1>1. Served(n, q, r, k)
  BY AllocateLinked
<1>2. s \in Seq(T)
  BY DEF HasTokens, IsSeq
<1>3. hits \in Seq(RealBlock) /\ IsInjective(hits) /\ (hits = <<>> \/ m.req_to_blocks[r] = <<>>)
  <2>1. <<>> \in Seq(RealBlock) /\ IsInjective(<<>>)
    BY DEF IsInjective
  <2> QED BY <2>1 DEF MayHit, AreHits
<1>4. computed \in Int /\ num_new \in Int
  OBVIOUS
<1> HIDE DEF s, T
<1>5. \A x \in Request : x # r => n.req_to_blocks[x] = m.req_to_blocks[x]
  BY <1>2, <1>3, <1>4, AllocateSlotsOK
<1> HIDE DEF n, k
<1>6. Grown(n, m, q, r, k)
  BY <1>1, <1>5 DEF Served, Grown, Slots
<1> QED BY <1>6 DEF n, s, k

(***************************************************************************)
(* schedule() giving slots to a running request keeps the second           *)
(* invariant.                                                              *)
(***************************************************************************)
LEMMA ScheduleRunningSound ==
    ASSUME IInv, IInv', Sound, phase = "schedule", UNCHANGED <<phase, batch_queue>>,
           ScheduleRunning
    PROVE  Sound'
<1> DEFINE r == step.request
           q == requests[r]
           k == step.num_new_tokens
           c == q.num_computed_tokens
           m == allocate_slots(manager, r, q.tokens, c, k, <<>>)
           e == Scheduled(r, "running", k,
                          SubSeq(m.req_to_blocks[r], Len(manager.req_to_blocks[r]) + 1,
                                 Len(m.req_to_blocks[r])))
           prev == prev_step_scheduled_req_ids
           s == step.scheduled
           n == Len(s)
<1>1. /\ requests' = requests /\ running' = running /\ prev' = prev
      /\ manager' = m /\ r # NoRequest /\ phase' = phase /\ batch_queue' = batch_queue
      /\ step' = [step EXCEPT !.scheduled = Append(@, e), !.token_budget = @ - k,
                              !.req_index = @ + 1, !.request = NoRequest, !.num_new_tokens = 0]
      /\ CanAllocate(manager, r, c, k, <<>>)
  BY DEF ScheduleRunning, InnerLoop, CanAllocateRunning
<1>2. /\ ManagerOK(manager) /\ HasTokens(requests) /\ IsStep(step) /\ IsSeq(s)
      /\ running \in Seq(Request)
  BY Basics DEF IsStep, IInv, QueuesOK, Placed
<1>3. r \in Range(running) /\ r \in Request
  <2>1. r \in Range(running)
    BY <1>1 DEF IInv, StepOK
  <2> QED BY <1>2, <2>1 DEF Range
<1>4. /\ Once(step) /\ step.loop = "running" /\ Reaches(q, k) /\ Passed(running, r, step.req_index)
      /\ \A i \in DOMAIN s : EntryOK(s[i], step, running, requests, manager, prev)
  BY <1>1 DEF Sound, Entries, EntriesOf, Asking
<1>5. e.id = r /\ e.num_scheduled_tokens = k /\ e.kind = "running"
  BY DEF Scheduled
<1> HIDE DEF e
<1>6. c \in Nat /\ k \in Nat /\ c + k <= MaxModelLen
  <2>1. c \in Nat
    BY <1>3, SizesAssumption DEF Sound, TokensCounted, CountsOf, Counts
  <2> QED BY <1>4, <2>1, SizesAssumption DEF Reaches
<1>7. Grown(m, manager, requests, r, c + k)
  <2>1. MayHit(manager, requests, r, <<>>) /\ Linked(manager, requests)
    BY DEF MayHit, Sound
  <2> HIDE DEF c, k, r
  <2> QED BY <1>1, <1>2, <1>3, <1>6, <2>1, AllocateGrown DEF m, q
<1> HIDE DEF m, r, k
<1>8. Linked(manager', requests')
  BY <1>1, <1>7 DEF Grown
<1>9. TokensCounted'
  <2>1. CountsOf(requests, manager)
    BY DEF Sound, TokensCounted
  <2>2. Counts(q, Slots(m, r))
    <3>1. Counts(q, Slots(manager, r)) /\ Slots(m, r) \in Nat
      BY <1>1, <1>3, <2>1, AfterStep, SlotsFacts DEF CountsOf
    <3>2. c <= Slots(m, r)
      BY <1>6, <1>7, <3>1 DEF Grown
    <3> QED BY <3>1, <3>2 DEF Counts
  <2>3. CountsOf(requests, m)
    BY <1>7, <2>1, <2>2 DEF CountsOf, Grown
  <2> QED BY <1>1, <2>3 DEF TokensCounted
<1>10. /\ step'.req_index = step.req_index + 1 /\ step'.scheduled = Append(s, e)
       /\ step'.loop = step.loop /\ step'.request = NoRequest
       /\ step'.preempted = step.preempted
  BY <1>1, <1>2 DEF IsStep
<1>11. /\ DOMAIN s = 1 .. n /\ n \in Nat /\ DOMAIN step'.scheduled = 1 .. (n + 1)
       /\ step'.scheduled[n + 1] = e
       /\ \A i \in DOMAIN s : step'.scheduled[i] = s[i]
  BY <1>2, <1>10, SeqAppend
<1> HIDE DEF n
<1>12. \A i \in DOMAIN step'.scheduled : i \in DOMAIN s \/ i = n + 1
  BY <1>11
<1>13. step.req_index \in Int /\ step'.req_index - 1 = (step.req_index - 1) + 1
  BY <1>2, <1>10 DEF IsStep
<1>14. ASSUME NEW i \in DOMAIN s PROVE EntryOK(s[i], step', running, requests, m, prev)
  <2>1. EntryOK(s[i], step, running, requests, manager, prev) /\ s[i].id # r
    BY <1>1, <1>4 DEF EntryOK, r
  <2>2. s[i].id \in Request
    BY <1>2, <2>1 DEF EntryOK, Range
  <2>3. Passed(running, s[i].id, step'.req_index - 1)
    <3>1. Passed(running, s[i].id, step.req_index - 1)
      BY <1>4, <2>1 DEF EntryOK
    <3> QED BY <1>2, <1>13, <3>1, PassedMore
  <2>4. Slots(m, s[i].id) = Slots(manager, s[i].id)
    BY <1>7, <2>1, <2>2 DEF Grown
  <2> QED BY <1>10, <2>1, <2>3, <2>4 DEF EntryOK
<1>15. EntryOK(e, step', running, requests, m, prev)
  <2>1. step'.req_index - 1 = step.req_index
    BY <1>10, <1>13
  <2> QED BY <1>3, <1>4, <1>5, <1>7, <1>10, <2>1 DEF EntryOK, Grown
<1>16. Once(step')
  <2>1. \A i \in DOMAIN s : s[i].id # r
    BY <1>1, <1>4 DEF EntryOK, r
  <2> QED BY <1>4, <1>5, <1>11, <1>12, <2>1 DEF Once
<1>17. Entries'
  <2>1. Asking(step', running, requests)
    BY <1>10 DEF Asking
  <2>2. \A i \in DOMAIN step'.scheduled :
           EntryOK(step'.scheduled[i], step', running, requests, m, prev)
    BY <1>11, <1>12, <1>14, <1>15
  <2> QED BY <1>1, <1>16, <2>1, <2>2 DEF Entries, EntriesOf
<1>18. PreemptedNow' /\ OneEach'
  BY <1>1, <1>10 DEF Sound, PreemptedNow, OneEach
<1> QED BY <1>8, <1>9, <1>17, <1>18 DEF Sound

(***************************************************************************)
(* The batch without the victim: the entries of the others, each once, and *)
(* schedule() is past them still.                                          *)
(***************************************************************************)
LEMMA UnscheduledEntries ==
    ASSUME IsStep(step), Once(step), NEW v
    PROVE  LET s == Unscheduled(v)
           IN  /\ Once(s) /\ s.loop = step.loop
               /\ \A i \in DOMAIN s.scheduled :
                     \E j \in DOMAIN step.scheduled :
                        s.scheduled[i] = step.scheduled[j] /\ step.scheduled[j].id # v
               /\ \/ s.req_index = step.req_index
                  \/ /\ s.req_index = step.req_index - 1
                     /\ \E j \in DOMAIN step.scheduled : step.scheduled[j].id = v
<1> DEFINE s == step.scheduled
           taken == {i \in DOMAIN s : s[i].id = v}
           back == IF taken = {} THEN 0 ELSE s[CHOOSE i \in taken : TRUE].num_scheduled_tokens
           S == {e \in Range(s) : e.id # v}
           k == Keep(s, S)
           n == Unscheduled(v)
<1>1. n = [step EXCEPT !.scheduled = Keep(s, S), !.token_budget = @ + back,
                       !.req_index = StepBack(@, taken)]
  BY DEF Unscheduled
<1>2. /\ DOMAIN step = {"loop", "req_index", "token_budget", "request", "num_new_tokens",
                        "scheduled", "preempted"}
      /\ IsSeq(s)
  BY DEF IsStep
<1> HIDE DEF n, back
<1>3. /\ n.scheduled = k /\ n.req_index = StepBack(step.req_index, taken) /\ n.loop = step.loop
  BY <1>1, <1>2
<1>4. \A i, j \in DOMAIN s : s[i].id = s[j].id => i = j
  BY DEF Once
<1>5. IsInjective(s)
  BY <1>4 DEF IsInjective
<1>6. IsInjective(k) /\ Range(k) = Range(s) \cap S
  <2> DEFINE T == Range(s)
  <2>1. s \in Seq(T)
    BY <1>2 DEF IsSeq
  <2> HIDE DEF T, S, s
  <2> QED BY <1>5, <2>1, KeepFacts DEF T
<1>7. ASSUME NEW i \in DOMAIN k PROVE \E j \in DOMAIN s : k[i] = s[j] /\ s[j].id # v
  <2>1. k[i] \in Range(k)
    BY DEF Range
  <2>2. k[i] \in Range(s) /\ k[i].id # v
    BY <1>6, <2>1
  <2> HIDE DEF k
  <2> QED BY <2>2 DEF Range
<1>8. ASSUME NEW i \in DOMAIN k, NEW j \in DOMAIN k, k[i].id = k[j].id PROVE i = j
  <2>1. PICK x \in DOMAIN s : k[i] = s[x]
    BY <1>7
  <2>2. PICK y \in DOMAIN s : k[j] = s[y]
    BY <1>7
  <2>3. x = y
    BY <1>4, <1>8, <2>1, <2>2
  <2>4. k[i] = k[j]
    BY <2>1, <2>2, <2>3
  <2> HIDE DEF k
  <2> QED BY <1>6, <2>4 DEF IsInjective
<1> HIDE DEF k
<1>9. Once(n)
  BY <1>3, <1>8 DEF Once
<1>10. \/ n.req_index = step.req_index
       \/ /\ n.req_index = step.req_index - 1
          /\ \E j \in DOMAIN s : s[j].id = v
  BY <1>3 DEF StepBack
<1> QED BY <1>3, <1>7, <1>9, <1>10 DEF n

(***************************************************************************)
(* schedule() preempting a request keeps the second invariant: whoever the *)
(* victim is, the index still stands past the requests in the batch.       *)
(***************************************************************************)
LEMMA PreemptSound ==
    ASSUME IInv, IInv', Sound, phase = "schedule", UNCHANGED <<phase, batch_queue>>,
           PreemptForRunning
    PROVE  Sound'
<1> DEFINE v == Victim
           s == Unscheduled(v)
           u == running
           w == Without(running, v)
           prev == prev_step_scheduled_req_ids
<1>1. /\ manager' = free(manager, v)
      /\ requests' = [requests EXCEPT ![v].status = "PREEMPTED", ![v].num_computed_tokens = 0]
      /\ running' = w /\ prev' = prev /\ phase' = phase /\ batch_queue' = batch_queue
      /\ step.request # NoRequest
      /\ step' = [s EXCEPT !.loop = IF v = step.request THEN "waiting" ELSE @,
                           !.request = IF v = step.request THEN NoRequest ELSE @,
                           !.num_new_tokens = IF v = step.request THEN 0 ELSE @,
                           !.preempted = TRUE]
  BY DEF PreemptForRunning, Preempt, InnerLoop
<1>2. /\ IsStep(step) /\ step.request \in Range(u) /\ u \in Seq(Request)
      /\ \A r \in Request : r \in Range(u) <=> requests[r].status = "RUNNING"
      /\ ManagerOK(manager) /\ HasTokens(requests) /\ DOMAIN requests = Request
      /\ \A r \in Request : IsRequest(requests[r])
  BY <1>1, Basics DEF IInv, StepOK, QueuesOK, Placed
<1>3. v \in Range(u) /\ v \in Request
  <2>1. running # <<>>
    BY <1>2 DEF Range
  <2>2. v \in Range(running)
    BY <1>2, <2>1, VictimRuns
  <2> HIDE DEF v
  <2> QED BY <1>2, <2>2 DEF Range
<1>4. /\ Once(step) /\ Asking(step, u, requests)
      /\ \A i \in DOMAIN step.scheduled :
            EntryOK(step.scheduled[i], step, u, requests, manager, prev)
  BY DEF Sound, Entries, EntriesOf
<1>5. step.loop = "running" /\ Reaches(requests[step.request], step.num_new_tokens)
      /\ Passed(u, step.request, step.req_index)
  BY <1>1, <1>4 DEF Asking
<1>6. /\ IsStep(s) /\ s.request = step.request /\ s.num_new_tokens = step.num_new_tokens
  BY <1>2, UnscheduledFacts
<1>7. /\ Once(s) /\ s.loop = step.loop
      /\ \A i \in DOMAIN s.scheduled :
            \E j \in DOMAIN step.scheduled :
               s.scheduled[i] = step.scheduled[j] /\ step.scheduled[j].id # v
      /\ \/ s.req_index = step.req_index
         \/ /\ s.req_index = step.req_index - 1
            /\ \E j \in DOMAIN step.scheduled : step.scheduled[j].id = v
  BY <1>2, <1>4, UnscheduledEntries
<1> HIDE DEF v, s
<1>8. /\ \A r \in Request : r # v => requests'[r] = requests[r]
      /\ requests'[v] = [requests[v] EXCEPT !.status = "PREEMPTED", !.num_computed_tokens = 0]
  BY <1>1, <1>2, <1>3
<1>9. /\ requests'[v].num_computed_tokens = 0 /\ requests'[v].tokens = requests[v].tokens
      /\ requests'[v].num_output_placeholders = requests[v].num_output_placeholders
  BY <1>2, <1>3, <1>8 DEF IsRequest
<1>10. /\ step'.req_index = s.req_index /\ step'.scheduled = s.scheduled
       /\ step'.num_new_tokens = IF v = step.request THEN 0 ELSE step.num_new_tokens
       /\ step'.loop = IF v = step.request THEN "waiting" ELSE "running"
       /\ step'.request = IF v = step.request THEN NoRequest ELSE step.request
       /\ step'.preempted = TRUE
  BY <1>1, <1>5, <1>6, <1>7 DEF IsStep
<1>11. Linked(manager', requests')
  <2>1. SameTokens(requests, requests', v)
    BY <1>8, AfterStep DEF SameTokens
  <2> QED BY <1>1, <1>2, <1>3, <2>1, FreeLinked DEF Sound
<1>12. TokensCounted'
  <2>1. CountsOf(requests, manager) /\ Counts(requests[v], Slots(manager, v))
    BY <1>3 DEF Sound, TokensCounted, CountsOf
  <2>2. Counts(requests'[v], 0)
    <3>1. requests[v].status \in Alive /\ Len(requests[v].tokens) \in Nat
      BY <1>2, <1>3 DEF Alive, IsRequest, IsSeq
    <3> QED BY <1>9, <2>1, <3>1, SizesAssumption DEF Counts
  <2>3. CountsOf(requests', free(manager, v))
    BY <1>2, <1>3, <1>8, <2>1, <2>2, FreeCounts
  <2> QED BY <1>1, <2>3 DEF TokensCounted
<1>13. step.req_index \in Int
  BY <1>2 DEF IsStep
<1>14. ASSUME NEW x, x # v, NEW k \in Int, Passed(u, x, k)
       PROVE  Passed(w, x, k) /\ (Passed(u, v, k) => Passed(w, x, k - 1))
  BY <1>2, <1>3, <1>14, WithoutPassed
<1>15. (\E j \in DOMAIN step.scheduled : step.scheduled[j].id = v)
          => Passed(u, v, step.req_index - 1) /\ Passed(u, v, step.req_index)
  <2> SUFFICES ASSUME NEW j \in DOMAIN step.scheduled, step.scheduled[j].id = v
               PROVE  Passed(u, v, step.req_index - 1) /\ Passed(u, v, step.req_index)
    OBVIOUS
  <2>1. Passed(u, v, step.req_index - 1)
    BY <1>4, <1>5 DEF EntryOK
  <2>2. Passed(u, v, (step.req_index - 1) + 1)
    BY <1>2, <1>13, <2>1, PassedMore
  <2>3. (step.req_index - 1) + 1 = step.req_index
    BY <1>13
  <2> QED BY <2>1, <2>2, <2>3
<1>16. ASSUME NEW j \in DOMAIN step.scheduled, step.scheduled[j].id # v
       PROVE  EntryOK(step.scheduled[j], step', w, requests', manager', prev)
  <2> DEFINE e == step.scheduled[j]
  <2>1. EntryOK(e, step, u, requests, manager, prev) /\ e.id # v
    BY <1>4, <1>16
  <2> HIDE DEF e
  <2>2. e.id \in Range(w) /\ e.id \in Request
    <3>1. e.id \in Range(u)
      BY <2>1 DEF EntryOK
    <3>2. e.id \in Range(w)
      BY <1>2, <1>3, <2>1, <3>1, WithoutFacts
    <3> QED BY <1>2, <3>1, <3>2 DEF Range
  <2>3. requests'[e.id] = requests[e.id] /\ Slots(manager', e.id) = Slots(manager, e.id)
    <3>1. manager'.req_to_blocks = [manager.req_to_blocks EXCEPT ![v] = <<>>]
      BY <1>1, <1>2, <1>3, FreeOK
    <3>2. DOMAIN manager.req_to_blocks = Request
      BY <1>2 DEF ManagerOK, IsManager
    <3> QED BY <1>8, <2>1, <2>2, <3>1, <3>2 DEF Slots
  <2>4. Passed(w, e.id, step'.req_index - 1)
    <3> DEFINE k == step.req_index - 1
    <3>1. Passed(u, e.id, k) /\ k \in Int
      BY <1>5, <1>13, <2>1 DEF EntryOK
    <3>2. Passed(w, e.id, k) /\ (Passed(u, v, k) => Passed(w, e.id, k - 1))
      <4> HIDE DEF k
      <4> QED BY <1>14, <2>1, <3>1
    <3>3. CASE s.req_index = step.req_index
      BY <1>10, <3>2, <3>3
    <3>4. CASE /\ s.req_index = step.req_index - 1
               /\ \E i \in DOMAIN step.scheduled : step.scheduled[i].id = v
      <4>1. Passed(u, v, k)
        BY <1>15, <3>4
      <4> QED BY <1>10, <3>2, <3>4, <4>1
    <3> QED BY <1>7, <3>3, <3>4
  <2>5. EntryOK(e, step', w, requests', manager', prev)
    BY <1>1, <1>10, <2>1, <2>2, <2>3, <2>4 DEF EntryOK
  <2> QED BY <2>5 DEF e
<1>17. Asking(step', w, requests')
  <2> SUFFICES ASSUME step'.request # NoRequest
               PROVE  /\ step'.loop = "running"
                      /\ Reaches(requests'[step'.request], step'.num_new_tokens)
                      /\ Passed(w, step'.request, step'.req_index)
    BY DEF Asking
  <2>1. /\ v # step.request /\ step'.request = step.request /\ step'.loop = "running"
        /\ step'.num_new_tokens = step.num_new_tokens
    BY <1>10
  <2>2. requests'[step.request] = requests[step.request]
    <3>1. step.request \in Request
      BY <1>2 DEF Range
    <3> QED BY <1>8, <2>1, <3>1
  <2>3. Passed(w, step.request, step'.req_index)
    <3>1. /\ Passed(w, step.request, step.req_index)
          /\ Passed(u, v, step.req_index) => Passed(w, step.request, step.req_index - 1)
      BY <1>5, <1>13, <1>14, <2>1
    <3> QED BY <1>7, <1>10, <1>15, <3>1
  <2> QED BY <1>5, <2>1, <2>2, <2>3
<1>18. Entries'
  <2>1. \A i \in DOMAIN step'.scheduled :
           EntryOK(step'.scheduled[i], step', w, requests', manager', prev)
    BY <1>7, <1>10, <1>16
  <2>2. Once(step')
    BY <1>7, <1>10 DEF Once
  <2> QED BY <1>1, <1>17, <2>1, <2>2 DEF Entries, EntriesOf
<1>19. PreemptedNow' /\ OneEach'
  BY <1>1, <1>10 DEF Sound, PreemptedNow, OneEach
<1> QED BY <1>11, <1>12, <1>18, <1>19 DEF Sound

(***************************************************************************)
(* schedule() admitting a waiting request keeps the second invariant: a    *)
(* request that resumes was not in the last batch, for nothing is admitted *)
(* in a step that preempts.                                                *)
(***************************************************************************)
LEMMA ScheduleWaitingSound ==
    ASSUME IInv, IInv', Sound, phase = "schedule", UNCHANGED <<phase, batch_queue>>,
           ScheduleWaiting
    PROVE  Sound'
<1> DEFINE r == Head(waiting)
           q == requests[r]
           tokens == q.tokens
           hits == get_computed_blocks(manager, tokens)
           c == Len(hits) * BlockSize
           k == Chunk(Len(tokens) - c)
           m == allocate_slots(manager, r, tokens, c, k, hits)
           kind == IF q.status = "WAITING" THEN "new" ELSE "resumed"
           e == Scheduled(r, kind, k, m.req_to_blocks[r])
           prev == prev_step_scheduled_req_ids
           s == step.scheduled
           n == Len(s)
           u == Append(running, r)
<1>1. /\ manager' = m /\ running' = u /\ prev' = prev
      /\ phase' = phase /\ batch_queue' = batch_queue
      /\ requests' = [requests EXCEPT ![r].status = "RUNNING", ![r].num_computed_tokens = c]
      /\ step' = [step EXCEPT !.scheduled = Append(@, e), !.token_budget = @ - k]
      /\ waiting # <<>> /\ ~ step.preempted /\ step.loop = "waiting" /\ step.token_budget > 0
      /\ CanAllocate(manager, r, c, k, hits)
  BY DEF ScheduleWaiting, CanAdmit
<1>2. /\ waiting \in Seq(Request) /\ running \in Seq(Request)
      /\ \A x \in Request : x \in Range(waiting) <=> requests[x].status \in Queued
      /\ \A x \in Request : x \in Range(running) <=> requests[x].status = "RUNNING"
      /\ IsStep(step) /\ IsSeq(s) /\ step.token_budget \in Int
      /\ ManagerOK(manager) /\ HasTokens(requests) /\ DOMAIN requests = Request
      /\ \A x \in Request : IsRequest(requests[x])
  BY Basics DEF IInv, QueuesOK, Placed, IsStep
<1>3. r \in Request /\ r \in Range(waiting)
  BY <1>1, <1>2, TailFacts
<1>4. requests[r].status \in Queued /\ r \notin Range(running) /\ manager.req_to_blocks[r] = <<>>
  BY <1>2, <1>3 DEF Queued, IInv, BlocksOK, Held
<1>5. /\ IsSeq(tokens) /\ tokens # <<>> /\ Len(tokens) \in Nat
      /\ Counts(requests[r], Slots(manager, r)) /\ Len(tokens) < MaxModelLen
      /\ requests[r].num_output_placeholders \in Nat
  BY <1>2, <1>3, <1>4 DEF IsRequest, IsSeq, Sound, TokensCounted, CountsOf, Counts, Queued, Alive
<1>6. AreHits(hits, manager.pool, tokens) /\ c <= Len(tokens) - 1
  <2> HIDE DEF tokens
  <2> QED BY <1>2, <1>5, ComputedBlocksFacts
<1>7. c \in Nat
  <2>1. Len(hits) \in Nat
    BY <1>6 DEF AreHits
  <2> HIDE DEF hits
  <2> QED BY <2>1, SizesAssumption
<1>8. MayHit(manager, requests, r, hits)
  BY <1>4, <1>6 DEF MayHit
<1> HIDE DEF hits, c
<1>9. k \in Nat /\ c + k <= Len(tokens)
  <2>1. step.token_budget \in Nat /\ Len(tokens) - c \in Nat
    BY <1>1, <1>2, <1>5, <1>6, <1>7
  <2>2. k \in Nat /\ k <= Len(tokens) - c
    BY <2>1, ChunkFacts
  <2> HIDE DEF k, tokens
  <2> QED BY <1>5, <1>7, <2>2
<1> HIDE DEF k
<1>10. Grown(m, manager, requests, r, c + k)
  <2>1. c + k <= MaxModelLen
    <3> HIDE DEF tokens
    <3> QED BY <1>5, <1>7, <1>9, SizesAssumption
  <2> HIDE DEF r
  <2> QED BY <1>1, <1>2, <1>3, <1>7, <1>8, <1>9, <2>1, AllocateGrown DEF Sound, m, q, tokens
<1>11. e.id = r /\ e.num_scheduled_tokens = k /\ e.kind = kind
  BY DEF Scheduled
<1> HIDE DEF m, e, r
<1>12. /\ \A x \in Request : x # r => requests'[x] = requests[x]
       /\ requests'[r] = [requests[r] EXCEPT !.status = "RUNNING", !.num_computed_tokens = c]
  BY <1>1, <1>2, <1>3
<1>13. /\ requests'[r].status = "RUNNING" /\ requests'[r].num_computed_tokens = c
       /\ requests'[r].tokens = tokens
       /\ requests'[r].num_output_placeholders = requests[r].num_output_placeholders
  BY <1>2, <1>3, <1>12 DEF IsRequest
<1>14. Linked(manager', requests')
  <2>1. \A x \in Request : requests'[x].tokens = requests[x].tokens
    BY <1>12, <1>13
  <2> QED BY <1>1, <1>10, <2>1 DEF Grown, Linked
<1>15. Reaches(requests'[r], k)
  <2>1. c + k < MaxModelLen /\ c + k <= Len(tokens) + requests[r].num_output_placeholders
    <3> DEFINE o == requests[r].num_output_placeholders
               a == Len(tokens)
    <3>1. a \in Nat /\ o \in Nat /\ c + k <= a /\ a < MaxModelLen
      BY <1>5, <1>9
    <3> HIDE DEF o, a
    <3>2. c + k < MaxModelLen /\ c + k <= a + o
      BY <1>7, <1>9, <3>1, SizesAssumption
    <3> QED BY <3>2 DEF o, a
  <2> QED BY <1>9, <1>13, <2>1 DEF Reaches
<1>16. TokensCounted'
  <2>1. CountsOf(requests, manager)
    BY DEF Sound, TokensCounted
  <2>2. Counts(requests'[r], Slots(m, r))
    <3>1. Slots(m, r) \in Nat
      BY <1>1, <1>3, AfterStep, SlotsFacts
    <3>2. c <= Slots(m, r)
      BY <1>7, <1>9, <1>10, <3>1 DEF Grown
    <3>3. c < MaxModelLen /\ c <= Len(tokens) + requests[r].num_output_placeholders
      <4> DEFINE o == requests[r].num_output_placeholders
                 a == Len(tokens)
      <4>1. a \in Nat /\ o \in Nat /\ c + k <= a /\ a < MaxModelLen
        BY <1>5, <1>9
      <4> HIDE DEF o, a
      <4>2. c < MaxModelLen /\ c <= a + o
        BY <1>7, <1>9, <4>1, SizesAssumption
      <4> QED BY <4>2 DEF o, a
    <3>4. requests[r].num_output_placeholders = 0 \/ AsyncScheduling
      BY <1>5 DEF Counts
    <3>5. c \in 0 .. (MaxModelLen - 1)
      BY <1>7, <3>3, SizesAssumption
    <3> HIDE DEF tokens
    <3> QED BY <1>5, <1>13, <3>2, <3>3, <3>4, <3>5 DEF Counts
  <2>3. CountsOf(requests', m)
    BY <1>10, <1>12, <2>1, <2>2 DEF CountsOf, Grown
  <2> QED BY <1>1, <2>3 DEF TokensCounted
<1>17. /\ step'.scheduled = Append(s, e) /\ step'.req_index = step.req_index
       /\ step'.loop = step.loop /\ step'.request = step.request
       /\ step'.preempted = step.preempted
  BY <1>1, <1>2 DEF IsStep
<1>18. /\ DOMAIN s = 1 .. n /\ n \in Nat /\ DOMAIN step'.scheduled = 1 .. (n + 1)
       /\ step'.scheduled[n + 1] = e
       /\ \A i \in DOMAIN s : step'.scheduled[i] = s[i]
  BY <1>2, <1>17, SeqAppend
<1> HIDE DEF n
<1>19. \A i \in DOMAIN step'.scheduled : i \in DOMAIN s \/ i = n + 1
  BY <1>18
<1>20. /\ Once(step) /\ Asking(step, running, requests)
       /\ \A i \in DOMAIN s : EntryOK(s[i], step, running, requests, manager, prev)
  BY DEF Sound, Entries, EntriesOf
<1>21. step.request = NoRequest
  BY <1>1, <1>20 DEF Asking
<1>22. Range(u) = Range(running) \cup {r}
  BY <1>2, <1>3, AppendFacts
<1> HIDE DEF u
<1>23. ASSUME NEW i \in DOMAIN s PROVE EntryOK(s[i], step', u, requests', m, prev) /\ s[i].id # r
  <2>1. EntryOK(s[i], step, running, requests, manager, prev)
    BY <1>20
  <2>2. s[i].id \in Range(running) /\ s[i].id \in Request /\ s[i].id # r
    BY <1>2, <1>4, <2>1 DEF EntryOK, Range
  <2>3. Slots(m, s[i].id) = Slots(manager, s[i].id) /\ requests'[s[i].id] = requests[s[i].id]
    BY <1>10, <1>12, <2>2 DEF Grown
  <2> QED BY <1>1, <1>17, <1>21, <1>22, <2>1, <2>2, <2>3 DEF EntryOK
<1>24. EntryOK(e, step', u, requests', m, prev)
  <2>1. kind = "resumed" => r \notin prev
    <3>1. kind = "resumed" => requests[r].status = "PREEMPTED"
      BY <1>4 DEF Queued
    <3> QED BY <1>1, <1>3, <3>1 DEF Sound, PreemptedNow
  <2> QED BY <1>1, <1>10, <1>11, <1>13, <1>15, <1>17, <1>21, <1>22, <2>1 DEF EntryOK, Grown
<1>25. Once(step')
  BY <1>11, <1>18, <1>19, <1>20, <1>23 DEF Once
<1>26. Entries'
  <2>1. Asking(step', u, requests')
    BY <1>17, <1>21 DEF Asking
  <2>2. \A i \in DOMAIN step'.scheduled :
           EntryOK(step'.scheduled[i], step', u, requests', m, prev)
    BY <1>18, <1>19, <1>23, <1>24
  <2> QED BY <1>1, <1>25, <2>1, <2>2 DEF Entries, EntriesOf
<1>27. PreemptedNow'
  BY <1>1, <1>12, <1>13, <1>17 DEF Sound, PreemptedNow
<1>28. OneEach'
  BY <1>1 DEF Sound, OneEach
<1> QED BY <1>14, <1>16, <1>26, <1>27, <1>28 DEF Sound

(***************************************************************************)
(* The batch has no more requests than are running.                        *)
(***************************************************************************)
LEMMA BatchFits ==
    ASSUME IsStep(step), Once(step), running \in Seq(Request), IsInjective(running),
           \A i \in DOMAIN step.scheduled : step.scheduled[i].id \in Range(running)
    PROVE  Len(step.scheduled) <= Len(running)
<1> DEFINE s == step.scheduled
           ids == [i \in DOMAIN s |-> s[i].id]
           R == Range(running)
<1>1. DOMAIN s = 1 .. Len(s) /\ Len(s) \in Nat
  BY DEF IsStep, IsSeq
<1>2. \A i, j \in DOMAIN s : s[i].id = s[j].id => i = j
  BY DEF Once
<1>3. ids \in Seq(R) /\ Len(ids) = Len(s)
  BY <1>1
<1>4. IsInjective(ids) /\ Range(ids) \subseteq R
  <2>1. DOMAIN ids = DOMAIN s /\ \A i \in DOMAIN s : ids[i] = s[i].id
    OBVIOUS
  <2>2. \A i \in DOMAIN s : s[i].id \in R
    OBVIOUS
  <2> HIDE DEF ids, R, s
  <2>3. IsInjective(ids)
    BY <1>2, <2>1 DEF IsInjective
  <2> QED BY <2>1, <2>2, <2>3 DEF Range
<1> HIDE DEF ids
<1>5. IsFiniteSet(Range(ids)) /\ Cardinality(Range(ids)) = Len(ids)
  BY <1>3, <1>4, InjectiveLen
<1>6. IsFiniteSet(R) /\ Cardinality(R) = Len(running)
  BY InjectiveLen
<1>7. Cardinality(Range(ids)) <= Cardinality(R)
  BY <1>4, <1>6, FS_Subset
<1> QED BY <1>3, <1>5, <1>6, <1>7

(***************************************************************************)
(* _update_after_schedule keeps the counts: the tokens scheduled are ones  *)
(* the request has slots for.                                              *)
(***************************************************************************)
LEMMA AfterScheduleCounts ==
    ASSUME NEW r \in Request, IsRequest(requests[r]), NEW n, Reaches(requests[r], n),
           NEW slots \in Nat, Counts(requests[r], slots), requests[r].status \in Alive,
           requests[r].num_computed_tokens + n <= slots
    PROVE  /\ Counts(AfterSchedule(r, n), slots)
           /\ AfterSchedule(r, n).tokens = requests[r].tokens
           /\ AfterSchedule(r, n).status = requests[r].status
<1> DEFINE q == requests[r]
           a == Len(q.tokens)
           o == q.num_output_placeholders
           d == q.num_computed_tokens
           c == d + n
           x == IF AsyncScheduling /\ ~(c < a + o) THEN o + 1 ELSE o
           p == AfterSchedule(r, n)
<1>1. p = [q EXCEPT !.num_computed_tokens = c, !.num_output_placeholders = x]
  BY DEF AfterSchedule
<1>2. /\ a \in Nat /\ n \in Nat
      /\ c < MaxModelLen /\ c <= a + o /\ c <= slots
  BY DEF IsRequest, IsSeq, Reaches
<1>3. /\ d \in 0 .. (MaxModelLen - 1) /\ o \in Nat /\ a < MaxModelLen
      /\ o = 0 \/ AsyncScheduling
  BY DEF Counts
<1> HIDE DEF p, a, o, d
<1>4. c \in Nat
  BY <1>2, <1>3, SizesAssumption
<1> HIDE DEF c
<1>5. x \in Nat /\ (x = 0 \/ AsyncScheduling) /\ c <= a + x
  BY <1>2, <1>3, <1>4
<1>6. c \in 0 .. (MaxModelLen - 1)
  BY <1>2, <1>4, SizesAssumption
<1> HIDE DEF x
<1>7. /\ p.num_computed_tokens = c /\ p.num_output_placeholders = x /\ p.status = q.status
      /\ p.tokens = q.tokens
  BY <1>1 DEF IsRequest
<1> QED BY <1>2, <1>3, <1>5, <1>6, <1>7 DEF Counts, p, a

(***************************************************************************)
(* The end of schedule() and the submission of the batch keep the second   *)
(* invariant: the assertions at its end hold.                              *)
(***************************************************************************)
LEMMA SubmitSound ==
    ASSUME IInv, IInv', Sound, Submit
    PROVE  Sound'
<1> DEFINE s == step.scheduled
           ids == {s[i].id : i \in DOMAIN s}
           index(r) == CHOOSE j \in DOMAIN s : s[j].id = r
           tokens(r) == s[index(r)].num_scheduled_tokens
           resumed == {s[i].id : i \in {j \in DOMAIN s : s[j].kind = "resumed"}}
           prev == prev_step_scheduled_req_ids
           batch == [out |-> SchedulerOutput, done |-> FALSE, sampled |-> <<>>, reads_ok |-> TRUE]
<1>1. /\ requests' = [r \in Request |-> IF r \in ids THEN AfterSchedule(r, tokens(r))
                                        ELSE requests[r]]
      /\ manager' = IF /\ Len(s) <= Len(running) /\ Len(running) <= MaxNumRunningReqs
                       /\ resumed \cap prev = {}
                    THEN manager
                    ELSE [manager EXCEPT !.pool = Fail(@, "schedule: AssertionError")]
      /\ prev' = ids /\ phase' # "schedule"
  BY DEF Submit, schedule_end
<1>2. batch_queue' = Append(batch_queue, batch)
  BY DEF Submit
<1>3. /\ IsStep(step) /\ running \in Seq(Request) /\ IsInjective(running)
      /\ \A r \in Request : r \in Range(running) <=> requests[r].status = "RUNNING"
      /\ Len(running) <= MaxNumRunningReqs
      /\ ManagerOK(manager) /\ HasTokens(requests)
      /\ \A r \in Request : IsRequest(requests[r])
      /\ IsSeq(batch_queue)
  BY Basics DEF IInv, QueuesOK, Placed, BatchesOK
<1>4. /\ Once(step)
      /\ \A i \in DOMAIN s : EntryOK(s[i], step, running, requests, manager, prev)
  BY DEF Sound, Entries, EntriesOf
<1>5. \A i \in DOMAIN s : s[i].id \in Range(running)
  BY <1>4 DEF EntryOK
<1>6. manager' = manager
  <2>1. Len(s) <= Len(running)
    BY <1>3, <1>4, <1>5, BatchFits
  <2>2. resumed \cap prev = {}
    BY <1>4 DEF EntryOK
  <2> QED BY <1>1, <1>3, <2>1, <2>2
<1>7. ASSUME NEW r \in Request, r \in ids
      PROVE  /\ Counts(requests'[r], Slots(manager, r))
             /\ requests'[r].tokens = requests[r].tokens
             /\ requests'[r].status = "RUNNING"
  <2>1. \E j \in DOMAIN s : s[j].id = r
    BY <1>7
  <2>2. index(r) \in DOMAIN s /\ s[index(r)].id = r
    BY <2>1
  <2> DEFINE n == tokens(r)
  <2> HIDE DEF index
  <2>3. /\ r \in Range(running) /\ Reaches(requests[r], n)
        /\ requests[r].num_computed_tokens + n <= Slots(manager, r)
    BY <1>4, <2>2 DEF EntryOK
  <2>4. requests[r].status = "RUNNING" /\ requests'[r] = AfterSchedule(r, n)
    BY <1>1, <1>3, <1>7, <2>3
  <2> HIDE DEF n, ids
  <2>5. Counts(requests[r], Slots(manager, r)) /\ Slots(manager, r) \in Nat
    BY <1>3, SlotsFacts DEF Sound, TokensCounted, CountsOf
  <2>6. requests[r].status \in Alive
    BY <2>4 DEF Alive
  <2> QED BY <1>3, <2>3, <2>4, <2>5, <2>6, AfterScheduleCounts
<1> HIDE DEF ids, tokens
<1>8. \A r \in Request : r \notin ids => requests'[r] = requests[r]
  BY <1>1
<1>9. Linked(manager', requests')
  <2>1. \A r \in Request : requests'[r].tokens = requests[r].tokens
    BY <1>7, <1>8
  <2> QED BY <1>6, <2>1 DEF Sound, Linked
<1>10. TokensCounted'
  BY <1>6, <1>7, <1>8 DEF Sound, TokensCounted, CountsOf
<1>11. Entries'
  BY <1>1, AfterStep
<1>12. PreemptedNow'
  BY <1>1, <1>7 DEF PreemptedNow
<1>13. OneEach'
  <2> DEFINE n == Len(batch_queue)
  <2>1. batch.done = FALSE
    OBVIOUS
  <2> HIDE DEF batch
  <2>2. /\ DOMAIN batch_queue = 1 .. n /\ n \in Nat
        /\ DOMAIN batch_queue' = 1 .. (n + 1) /\ batch_queue'[n + 1] = batch
        /\ \A i \in DOMAIN batch_queue : batch_queue'[i] = batch_queue[i]
    BY <1>2, <1>3, SeqAppend
  <2> HIDE DEF n
  <2>3. \A i \in DOMAIN batch_queue' : i \in DOMAIN batch_queue \/ i = n + 1
    BY <2>2
  <2> QED BY <2>1, <2>2, <2>3 DEF Sound, OneEach
<1> QED BY <1>9, <1>10, <1>11, <1>12, <1>13 DEF Sound

-----------------------------------------------------------------------------
(* The busy loop: update_from_output() *)

(***************************************************************************)
(* update_from_output for a request that is gone, that sampled nothing, or *)
(* whose token is discarded keeps the second invariant.                    *)
(***************************************************************************)
LEMMA IgnoreOutputSound ==
    ASSUME IInv, Sound, phase # "schedule", NEW r \in Request, NEW sampled,
           IgnoreOutput(r, sampled)
    PROVE  Linked(manager', requests') /\ TokensCounted' /\ PreemptedNow'
<1> DEFINE d == requests[r].discard_latest_async_tokens
                /\ ~ (requests[r].status \in {"WAITING", "RUNNING", "PREEMPTED"}
                      /\ sampled # <<>> /\ AsyncScheduling)
<1>1. /\ requests' = [requests EXCEPT ![r].discard_latest_async_tokens = d]
      /\ manager' = manager /\ prev_step_scheduled_req_ids' = prev_step_scheduled_req_ids
  BY DEF IgnoreOutput
<1> HIDE DEF d
<1>2. DOMAIN requests = Request /\ \A s \in Request : IsRequest(requests[s])
  BY Basics
<1>3. /\ \A s \in Request : s # r => requests'[s] = requests[s]
      /\ requests'[r] = [requests[r] EXCEPT !.discard_latest_async_tokens = d]
  BY <1>1, <1>2
<1>4. /\ requests'[r].status = requests[r].status
      /\ requests'[r].tokens = requests[r].tokens
      /\ requests'[r].num_computed_tokens = requests[r].num_computed_tokens
      /\ requests'[r].num_output_placeholders = requests[r].num_output_placeholders
  BY <1>2, <1>3 DEF IsRequest
<1>5. \A s \in Request : requests'[s].tokens = requests[s].tokens
  BY <1>3, <1>4
<1>6. Linked(manager', requests')
  BY <1>1, <1>5 DEF Sound, Linked
<1>7. TokensCounted'
  <2>1. CountsOf(requests, manager)
    BY DEF Sound, TokensCounted
  <2>2. Counts(requests'[r], Slots(manager, r))
    BY <1>4, <2>1 DEF CountsOf, Counts
  <2> QED BY <1>1, <1>3, <2>1, <2>2 DEF TokensCounted, CountsOf
<1>8. PreemptedNow'
  BY <1>1, <1>3, <1>4 DEF Sound, PreemptedNow
<1> QED BY <1>6, <1>7, <1>8

(***************************************************************************)
(* AsyncScheduler caching the blocks a token completes: the tokens that    *)
(* are computed and not placeholders are tokens the request has and has    *)
(* blocks for.                                                             *)
(***************************************************************************)
LEMMA CachedWithOutputLinked ==
    ASSUME NEW r \in Request, NEW q, ManagerOK(manager), HasTokens(q), Linked(manager, q),
           NEW k \in Int,
           requests[r].num_computed_tokens - k \in Int,
           requests[r].num_computed_tokens - k <= Len(q[r].tokens)
    PROVE  LET m == CachedWithOutput(r, q[r].tokens, k)
           IN  /\ ManagerOK(m) /\ m.pool.error = "none"
               /\ m.req_to_blocks = manager.req_to_blocks
               /\ requests[r].num_computed_tokens - k <= Slots(manager, r) => Linked(m, q)
<1> DEFINE s == q[r].tokens
           n == requests[r].num_computed_tokens - k
           m == CachedWithOutput(r, s, k)
<1>1. manager.pool.error = "none" /\ Tagged(manager, r, s) /\ IsSeq(s)
  BY DEF Linked, HasTokens
<1>2. CASE AsyncScheduling /\ requests[r].status = "RUNNING"
  <2>1. m = cache_blocks(manager, r, s, n)
    BY <1>2 DEF CachedWithOutput
  <2> HIDE DEF n, m
  <2>2. n \in Int /\ n <= Len(s)
    BY DEF n
  <2>3. ManagerOK(m) /\ m.req_to_blocks = manager.req_to_blocks
    BY <1>1, <2>1, <2>2, CacheBlocksOK DEF IsSeq
  <2>4. m.pool.error = "none"
    <3> DEFINE full == n \div BlockSize
    <3>1. IF NumCached(manager, r) >= full THEN m = manager
          ELSE GivenHashes(m, manager, r, s, full)
      <4> HIDE DEF s
      <4> QED BY <1>1, <2>1, <2>2, CacheFacts
    <3> HIDE DEF full
    <3> QED BY <1>1, <3>1 DEF GivenHashes
  <2>5. n <= Slots(manager, r) => Linked(m, q)
    BY <2>1, <2>2, CacheLinked DEF Slots
  <2> QED BY <2>3, <2>4, <2>5 DEF m, n
<1>3. CASE ~(AsyncScheduling /\ requests[r].status = "RUNNING")
  <2>1. m = manager
    BY <1>3 DEF CachedWithOutput
  <2> HIDE DEF m
  <2> QED BY <1>1, <2>1 DEF m
<1> QED BY <1>2, <1>3

(***************************************************************************)
(* update_from_output for a request that gets its token keeps the second   *)
(* invariant, or the placeholder it stands for was not there.              *)
(***************************************************************************)
LEMMA ApplyOutputSound ==
    ASSUME IInv, IInv', Sound, phase # "schedule", NEW r \in Request, NEW sampled,
           IsSeq(sampled), Len(sampled) <= 1, ApplyOutput(r, sampled)
    PROVE  \/ /\ AsyncScheduling /\ manager'.pool.error = Underflow
              /\ sampled # <<>> /\ requests[r].status \in Alive
              /\ requests[r].num_output_placeholders = 0
           \/ Linked(manager', requests') /\ TokensCounted' /\ PreemptedNow'
<1> DEFINE q == requests[r]
           tokens == q.tokens \o sampled
           placeholders == q.num_output_placeholders - (IF AsyncScheduling THEN 1 ELSE 0)
           cached == CachedWithOutput(r, tokens, placeholders)
           m == IF placeholders >= 0 THEN cached
                ELSE [cached EXCEPT !.pool = Fail(@, Underflow)]
           stopped == check_stop(r, tokens)
           c == q.num_computed_tokens
           o == q.num_output_placeholders
           a == Len(q.tokens)
<1>1. /\ requests' = [requests EXCEPT ![r].tokens = tokens,
                                      ![r].num_output_placeholders = placeholders,
                                      ![r].status = IF stopped THEN "FINISHED" ELSE @]
      /\ manager' = IF stopped THEN free(m, r) ELSE m
      /\ q.status \in Alive /\ sampled # <<>>
      /\ prev_step_scheduled_req_ids' = prev_step_scheduled_req_ids
  BY DEF ApplyOutput, Alive, Underflow
<1>2. /\ ManagerOK(manager) /\ HasTokens(requests) /\ DOMAIN requests = Request
      /\ \A s \in Request : IsRequest(requests[s])
  BY Basics
<1>3. HasTokens(requests')
  BY AfterStep
<1>4. /\ c \in Nat /\ c < MaxModelLen /\ o \in Nat /\ (o = 0 \/ AsyncScheduling)
      /\ c <= a + o /\ c <= Slots(manager, r) /\ a \in Nat
  <2>1. Counts(q, Slots(manager, r))
    BY DEF Sound, TokensCounted, CountsOf
  <2>2. a \in Nat
    BY <1>2 DEF IsRequest, IsSeq
  <2>3. /\ c \in 0 .. (MaxModelLen - 1) /\ o \in Nat /\ (o = 0 \/ AsyncScheduling)
        /\ c <= a + o /\ c <= Slots(manager, r)
    BY <1>1, <2>1 DEF Counts
  <2> HIDE DEF c, o, a
  <2>4. c \in Nat /\ c < MaxModelLen
    BY <2>3, SizesAssumption
  <2> QED BY <2>2, <2>3, <2>4
<1>5. IsSeq(tokens) /\ Len(tokens) = a + 1
  <2>1. Len(sampled) = 1
    <3>1. Len(sampled) \in Nat /\ Len(sampled) # 0
      BY <1>1 DEF IsSeq
    <3> QED BY <3>1
  <2> DEFINE T == Range(q.tokens) \cup Range(sampled)
             t == q.tokens
  <2>2. t \in Seq(T) /\ sampled \in Seq(T)
    <3>1. IsSeq(t)
      BY <1>2 DEF IsRequest
    <3> HIDE DEF t
    <3> QED BY <3>1 DEF IsSeq, Range, t
  <2> HIDE DEF T, t
  <2>3. t \o sampled \in Seq(T) /\ Len(t \o sampled) = Len(t) + Len(sampled)
    BY <2>2
  <2>4. IsSeq(t \o sampled)
    BY <2>3, SeqIs
  <2> QED BY <2>1, <2>3, <2>4 DEF t
<1>6. /\ placeholders \in Int /\ c - placeholders \in Int /\ c - placeholders <= a + 1
      /\ placeholders >= 0 => c - placeholders <= c
      /\ c <= (a + 1) + placeholders
      /\ placeholders = 0 \/ AsyncScheduling
      /\ placeholders >= 0 \/ o = 0
  <2> HIDE DEF c, a
  <2>1. placeholders = IF AsyncScheduling THEN o - 1 ELSE o
    BY <1>4
  <2> HIDE DEF placeholders, o
  <2> QED BY <1>4, <2>1
<1> HIDE DEF placeholders, stopped
<1>7. /\ \A s \in Request : s # r => requests'[s] = requests[s]
      /\ requests'[r] = [requests[r] EXCEPT !.tokens = tokens,
                                            !.num_output_placeholders = placeholders,
                                            !.status = IF stopped THEN "FINISHED" ELSE @]
  BY <1>1, <1>2
<1>8. /\ requests'[r].tokens = tokens /\ requests'[r].num_output_placeholders = placeholders
      /\ requests'[r].status = IF stopped THEN "FINISHED" ELSE q.status
      /\ requests'[r].num_computed_tokens = c
  <2> HIDE DEF tokens
  <2> QED BY <1>2, <1>7 DEF IsRequest
<1>9. Linked(manager, requests')
  <2>1. SameTokens(requests, requests', r)
    BY <1>3, <1>7 DEF SameTokens
  <2>2. requests'[r].tokens = requests[r].tokens \o sampled
    BY <1>8
  <2> QED BY <1>2, <2>1, <2>2, AppendLinked DEF Sound
<1> HIDE DEF tokens, c, o, a
<1>10. /\ ManagerOK(cached) /\ cached.pool.error = "none"
       /\ cached.req_to_blocks = manager.req_to_blocks
       /\ c - placeholders <= Slots(manager, r) => Linked(cached, requests')
  <2> DEFINE p == requests'
  <2>1. /\ HasTokens(p) /\ Linked(manager, p) /\ p[r].tokens = tokens
        /\ requests[r].num_computed_tokens - placeholders \in Int
        /\ requests[r].num_computed_tokens - placeholders <= Len(p[r].tokens)
    BY <1>3, <1>5, <1>6, <1>8, <1>9 DEF c
  <2> HIDE DEF p, cached
  <2>2. cached = CachedWithOutput(r, p[r].tokens, placeholders)
    BY <2>1 DEF cached
  <2>3. /\ ManagerOK(cached) /\ cached.pool.error = "none"
        /\ cached.req_to_blocks = manager.req_to_blocks
        /\ requests[r].num_computed_tokens - placeholders <= Slots(manager, r) => Linked(cached, p)
    BY <1>2, <1>6, <2>1, <2>2, CachedWithOutputLinked
  <2> QED BY <2>3 DEF c, p
<1> HIDE DEF cached
<1>11. CASE ~(placeholders >= 0)
  <2>1. m = [cached EXCEPT !.pool = Fail(@, Underflow)]
    BY <1>11
  <2>2. ManagerOK(m)
    BY <1>10, <2>1, FailOK, Zenon
  <2>3. m.pool.error = Underflow
    <3>1. /\ "pool" \in DOMAIN cached /\ "error" \in DOMAIN cached.pool
      BY <1>10 DEF ManagerOK, IsManager, IsPool
    <3> QED BY <1>10, <2>1, <3>1 DEF Fail
  <2> HIDE DEF m
  <2>4. GivenBack(free(m, r), m, r)
    BY <2>2, FreeFacts
  <2>5. AsyncScheduling /\ o = 0
    BY <1>6, <1>11
  <2> QED BY <1>1, <2>3, <2>4, <2>5 DEF GivenBack, o
<1>12. CASE placeholders >= 0
  <2>1. m = cached
    BY <1>12
  <2> HIDE DEF m
  <2>2. Linked(m, requests') /\ ManagerOK(m) /\ m.req_to_blocks = manager.req_to_blocks
    <3>1. Slots(manager, r) \in Nat
      BY <1>2, SlotsFacts
    <3>2. c - placeholders <= Slots(manager, r)
      BY <1>4, <1>6, <1>12, <3>1
    <3> QED BY <1>10, <2>1, <3>2
  <2>3. \A s \in Request : Slots(m, s) = Slots(manager, s)
    BY <2>2 DEF Slots
  <2>4. CountsOf(requests, m)
    BY <2>3 DEF Sound, TokensCounted, CountsOf
  <2>5. c \in 0 .. (MaxModelLen - 1) /\ placeholders \in Nat
    BY <1>4, <1>6, <1>12, SizesAssumption
  <2>6. CASE stopped
    <3>1. manager' = free(m, r) /\ requests'[r].status = "FINISHED"
      BY <1>1, <1>8, <2>6
    <3>2. Linked(manager', requests')
      <4>1. SameTokens(requests', requests', r)
        BY <1>3 DEF SameTokens
      <4> QED BY <1>3, <2>2, <3>1, <4>1, FreeLinked
    <3>3. Counts(requests'[r], 0)
      BY <1>6, <1>8, <2>5, <3>1 DEF Counts, Alive
    <3>4. TokensCounted'
      <4>1. CountsOf(requests', free(m, r))
        BY <1>7, <2>2, <2>4, <3>3, FreeCounts
      <4> QED BY <3>1, <4>1 DEF TokensCounted
    <3>5. PreemptedNow'
      BY <1>1, <1>7, <3>1 DEF Sound, PreemptedNow
    <3> QED BY <3>2, <3>4, <3>5
  <2>7. CASE ~stopped
    <3>1. manager' = m /\ requests'[r].status = q.status
      BY <1>1, <1>8, <2>7
    <3>2. Len(tokens) < MaxModelLen
      <4>1. ~(Len(tokens) >= MaxModelLen)
        BY <2>7 DEF stopped, check_stop
      <4> QED BY <1>4, <1>5, <4>1, SizesAssumption
    <3>3. Counts(requests'[r], Slots(m, r))
      BY <1>4, <1>5, <1>6, <1>8, <2>3, <2>5, <3>2 DEF Counts
    <3>4. TokensCounted'
      BY <1>7, <2>4, <3>1, <3>3 DEF TokensCounted, CountsOf
    <3>5. PreemptedNow'
      BY <1>1, <1>7, <3>1 DEF Sound, PreemptedNow
    <3> QED BY <2>2, <3>1, <3>4, <3>5
  <2> QED BY <2>6, <2>7
<1> QED BY <1>11, <1>12

(***************************************************************************)
(* update_from_output for the next request of the oldest batch keeps the   *)
(* second invariant, unless a placeholder is missing.                      *)
(***************************************************************************)
LEMMA UpdateRequestSound ==
    ASSUME IInv, IInv', Sound, UpdateRequest
    PROVE  \/ Missing /\ manager'.pool.error = Underflow
           \/ Sound'
<1> DEFINE batch == batch_queue[1]
           r == batch.out.reqs[1].id
           sampled == batch.sampled
           t == sampled[1]
<1>1. /\ phase \in {"output", "update"} /\ batch.done /\ batch.out.reqs # <<>>
      /\ update_request(r, t)
      /\ batch_queue' = [batch_queue EXCEPT ![1].out.reqs = Tail(@), ![1].sampled = Tail(@)]
      /\ phase' = "update"
  BY DEF UpdateRequest
<1>2. /\ IsSeq(batch_queue) /\ batch_queue # <<>>
      /\ \A i \in DOMAIN batch_queue : IsBatch(batch_queue[i])
  BY <1>1 DEF IInv, BatchesOK
<1>3. 1 \in DOMAIN batch_queue /\ IsBatch(batch)
  BY <1>2, SeqTail
<1>4. /\ IsSeq(batch.out.reqs) /\ IsSeq(sampled) /\ Len(sampled) = Len(batch.out.reqs)
      /\ \A k \in DOMAIN batch.out.reqs : batch.out.reqs[k].id \in Request
      /\ \A k \in DOMAIN sampled : IsSeq(sampled[k])
  BY <1>1, <1>3 DEF IsBatch
<1>5. 1 \in DOMAIN batch.out.reqs /\ Len(batch.out.reqs) \in Nat /\ Len(batch.out.reqs) # 0
  <2> DEFINE reqs == batch.out.reqs
  <2>1. IsSeq(reqs) /\ reqs # <<>>
    BY <1>1, <1>4
  <2> HIDE DEF reqs
  <2>2. 1 \in DOMAIN reqs /\ Len(reqs) \in Nat /\ Len(reqs) # 0
    BY <2>1, SeqTail DEF IsSeq
  <2> QED BY <2>2 DEF reqs
<1>6. sampled # <<>>
  BY <1>4, <1>5
<1>7. /\ 1 \in DOMAIN sampled
      /\ \A i \in DOMAIN Tail(sampled) :
            i + 1 \in DOMAIN sampled /\ Tail(sampled)[i] = sampled[i + 1]
  <2> HIDE DEF sampled
  <2> QED BY <1>4, <1>6, SeqTail
<1>8. \A k \in DOMAIN sampled : Len(sampled[k]) <= 1
  BY <1>1, <1>3 DEF Sound, OneEach, OneToken
<1>9. r \in Request /\ IsSeq(t) /\ Len(t) <= 1
  BY <1>4, <1>5, <1>7, <1>8
<1>10. \/ /\ AsyncScheduling /\ manager'.pool.error = Underflow
          /\ t # <<>> /\ requests[r].status \in Alive
          /\ requests[r].num_output_placeholders = 0
       \/ Linked(manager', requests') /\ TokensCounted' /\ PreemptedNow'
  <2>1. phase # "schedule" /\ (IgnoreOutput(r, t) \/ ApplyOutput(r, t))
    BY <1>1 DEF update_request
  <2> HIDE DEF r, t
  <2> QED BY <1>9, <2>1, IgnoreOutputSound, ApplyOutputSound
<1>11. Entries'
  BY <1>1, AfterStep
<1>12. OneEach'
  <2>1. /\ DOMAIN batch_queue' = DOMAIN batch_queue
        /\ \A i \in DOMAIN batch_queue : i # 1 => batch_queue'[i] = batch_queue[i]
        /\ batch_queue'[1] = [batch EXCEPT !.out.reqs = Tail(@), !.sampled = Tail(@)]
    BY <1>1, <1>3
  <2>2. batch_queue'[1].sampled = Tail(sampled)
    BY <1>3, <2>1 DEF IsBatch
  <2> HIDE DEF batch, sampled
  <2>3. OneToken(batch_queue'[1])
    BY <1>7, <1>8, <2>2 DEF OneToken
  <2> QED BY <2>1, <2>3 DEF Sound, OneEach
<1>13. CASE Linked(manager', requests') /\ TokensCounted' /\ PreemptedNow'
  BY <1>11, <1>12, <1>13 DEF Sound
<1> QED BY <1>1, <1>2, <1>10, <1>13 DEF Missing

(***************************************************************************)
(* The end of a step keeps the second invariant.                           *)
(***************************************************************************)
LEMMA StepEndSound ==
    ASSUME IInv, IInv', Sound, StepEnd
    PROVE  Sound'
<1>1. /\ phase \in {"output", "update"} /\ batch_queue' = Tail(batch_queue) /\ phase' = "input"
      /\ requests' = requests /\ manager' = manager
      /\ prev_step_scheduled_req_ids' = prev_step_scheduled_req_ids
  BY DEF StepEnd, schedulerVars
<1>2. IsSeq(batch_queue) /\ batch_queue # <<>>
  BY <1>1 DEF IInv, BatchesOK
<1>3. \A i \in DOMAIN Tail(batch_queue) :
         i + 1 \in DOMAIN batch_queue /\ Tail(batch_queue)[i] = batch_queue[i + 1]
  BY <1>2, SeqTail
<1>4. OneEach'
  BY <1>1, <1>3 DEF Sound, OneEach
<1>5. Linked(manager', requests') /\ TokensCounted' /\ PreemptedNow'
  BY <1>1 DEF Sound, TokensCounted, PreemptedNow
<1>6. Entries'
  BY <1>1, AfterStep
<1> QED BY <1>4, <1>5, <1>6 DEF Sound

(***************************************************************************)
(* The worker finishing a batch keeps the second invariant: it samples at  *)
(* most one token for a request.                                           *)
(***************************************************************************)
LEMMA ExecuteSound ==
    ASSUME IInv, IInv', Sound, Execute
    PROVE  Sound'
<1>1. PICK i \in DOMAIN batch_queue :
        /\ \E value \in [ScheduledIds(batch_queue[i].out) -> SampledValues] :
             batch_queue' =
               [batch_queue EXCEPT
                  ![i].done = TRUE,
                  ![i].sampled = [k \in DOMAIN batch_queue[i].out.reqs |->
                                    SampledToken(batch_queue[i].out, batch_queue[i].out.reqs[k], value)],
                  ![i].reads_ok = ReadsOwnPrefix(batch_queue[i].out)]
        /\ UNCHANGED <<schedulerVars, phase, resets>>
  BY DEF Execute
<1>2. PICK value :
             batch_queue' =
               [batch_queue EXCEPT
                  ![i].done = TRUE,
                  ![i].sampled = [k \in DOMAIN batch_queue[i].out.reqs |->
                                    SampledToken(batch_queue[i].out, batch_queue[i].out.reqs[k], value)],
                  ![i].reads_ok = ReadsOwnPrefix(batch_queue[i].out)]
  BY <1>1
<1>3. /\ requests' = requests /\ running' = running /\ manager' = manager /\ step' = step
      /\ prev_step_scheduled_req_ids' = prev_step_scheduled_req_ids /\ phase' = phase
  BY <1>1 DEF schedulerVars
<1> DEFINE batch == batch_queue[i]
           reqs == batch.out.reqs
           tok(k) == SampledToken(batch.out, reqs[k], value)
           sampled == [k \in DOMAIN reqs |-> tok(k)]
           new == batch_queue'[i]
<1>4. IsBatch(batch)
  BY DEF IInv, BatchesOK
<1>5. /\ DOMAIN batch_queue' = DOMAIN batch_queue
      /\ \A j \in DOMAIN batch_queue : j # i => batch_queue'[j] = batch_queue[j]
      /\ new = [batch EXCEPT !.done = TRUE, !.sampled = sampled,
                             !.reads_ok = ReadsOwnPrefix(batch.out)]
  BY <1>2
<1>6. \A k \in DOMAIN sampled : Len(sampled[k]) <= 1
  <2> SUFFICES ASSUME NEW k \in DOMAIN reqs PROVE Len(tok(k)) <= 1
    OBVIOUS
  <2> DEFINE t == <<SeqLen(reqs[k]) + 1, value[reqs[k].id]>>
  <2>1. tok(k) = <<>> \/ tok(k) = <<t>>
    BY DEF SampledToken
  <2> HIDE DEF tok, t
  <2>2. Len(<<>>) = 0 /\ Len(<<t>>) = 1
    OBVIOUS
  <2> DEFINE n == Len(tok(k))
  <2>3. n = 0 \/ n = 1
    BY <2>1, <2>2
  <2> HIDE DEF n
  <2>4. n <= 1
    BY <2>3
  <2> QED BY <2>4 DEF n
<1> HIDE DEF sampled, new
<1>7. new.sampled = sampled
  BY <1>4, <1>5 DEF IsBatch
<1>8. OneEach'
  <2>1. OneToken(new)
    BY <1>6, <1>7 DEF OneToken
  <2> QED BY <1>5, <2>1 DEF Sound, OneEach, new
<1>9. Linked(manager', requests') /\ TokensCounted' /\ PreemptedNow' /\ Entries'
  BY <1>3 DEF Sound, TokensCounted, PreemptedNow, Entries
<1> QED BY <1>8, <1>9 DEF Sound

-----------------------------------------------------------------------------
(* A failed assertion *)

(***************************************************************************)
(* The first error stays on record, whatever the engine does next.         *)
(***************************************************************************)
LEMMA ErrorStays ==
    ASSUME IInv, [Next]_vars, NEW e, manager.pool.error = e, e # "none"
    PROVE  manager'.pool.error = e
<1>1. ManagerOK(manager)
  BY Basics
<1>2. \A m : ManagerOK(m) => "pool" \in DOMAIN m /\ "error" \in DOMAIN m.pool
  BY DEF ManagerOK, IsManager, IsPool
<1>3. Broken(manager, e)
  BY <1>1, <1>2 DEF Broken, PoolBroken
<1>4. \A r \in Request : \A m : (ManagerOK(m) /\ Broken(m, e)) => Broken(free(m, r), e)
  <2> SUFFICES ASSUME NEW r \in Request, NEW m, ManagerOK(m), Broken(m, e)
               PROVE  Broken(free(m, r), e)
    OBVIOUS
  <2>1. GivenBack(free(m, r), m, r) /\ ManagerOK(free(m, r))
    BY FreeFacts, FreeOK
  <2> QED BY <1>2, <2>1 DEF GivenBack, Broken, PoolBroken
<1>5. \A m, f : Broken(m, e) => Broken([m EXCEPT !.pool = Fail(@, f)], e)
  BY StaysBroken
<1>6. Broken(manager', e)
  <2>1. CASE manager' = manager
    BY <1>3, <2>1
  <2>2. CASE \E r \in Request : Abort(r)
    BY <1>1, <1>3, <1>4, <2>2 DEF Abort, finish_requests
  <2>3. CASE ResetIdle
    BY <1>3, <2>3, StaysBroken DEF ResetIdle
  <2>4. CASE ResetRunning
    <3> DEFINE m == PreemptAll(manager, waiting, running).manager
    <3>1. ManagerOK(m) /\ m.pool.error = manager.pool.error
      BY PreemptAllFacts DEF IInv, QueuesOK, BlocksOK
    <3>2. manager' = IF CanReset(m.pool) THEN reset_prefix_cache(m)
                     ELSE [m EXCEPT !.pool = Fail(@, "reset_prefix_cache: RuntimeError")]
      BY <2>4 DEF ResetRunning
    <3> HIDE DEF m
    <3>3. Broken(m, e)
      BY <1>2, <3>1 DEF Broken, PoolBroken
    <3>4. Broken(reset_prefix_cache(m), e)
      BY <3>3, StaysBroken
    <3>5. CASE CanReset(m.pool)
      BY <3>2, <3>4, <3>5
    <3>6. CASE ~CanReset(m.pool)
      <4>1. manager' = [m EXCEPT !.pool = Fail(@, "reset_prefix_cache: RuntimeError")]
        BY <3>2, <3>6
      <4> QED BY <1>5, <3>3, <4>1
    <3> QED BY <3>5, <3>6
  <2>5. CASE ScheduleRunning
    BY <1>3, <2>5, AllocateBroken DEF ScheduleRunning
  <2>6. CASE ScheduleWaiting
    BY <1>3, <2>6, AllocateBroken DEF ScheduleWaiting
  <2>7. CASE PreemptForRunning
    <3>1. Victim \in Request
      <4>1. running \in Seq(Request) /\ running # <<>>
        BY <2>7 DEF PreemptForRunning, InnerLoop, IInv, StepOK, QueuesOK, Placed, Range
      <4>2. Victim \in Range(running)
        BY <4>1, VictimRuns
      <4> QED BY <4>1, <4>2 DEF Range
    <3>2. manager' = free(manager, Victim)
      BY <2>7 DEF PreemptForRunning, Preempt
    <3> QED BY <1>1, <1>3, <1>4, <3>1, <3>2
  <2>8. CASE schedule_end
    <3>1. manager' = manager \/ manager' = [manager EXCEPT !.pool = Fail(@, "schedule: AssertionError")]
      BY <2>8 DEF schedule_end
    <3>2. CASE manager' = [manager EXCEPT !.pool = Fail(@, "schedule: AssertionError")]
      BY <1>3, <1>5, <3>2
    <3> QED BY <2>1, <3>1, <3>2
  <2>9. ASSUME NEW r \in Request, NEW sampled, IsSeq(sampled), ApplyOutput(r, sampled)
        PROVE  Broken(manager', e)
    <3> DEFINE tokens == requests[r].tokens \o sampled
               placeholders == requests[r].num_output_placeholders
                                 - (IF AsyncScheduling THEN 1 ELSE 0)
               cached == CachedWithOutput(r, tokens, placeholders)
               m == IF placeholders >= 0 THEN cached
                    ELSE [cached EXCEPT !.pool = Fail(@, "num_output_placeholders < 0")]
    <3>1. manager' = free(m, r) \/ manager' = m
      BY <2>9 DEF ApplyOutput
    <3>2. IsRequest(requests[r])
      BY Basics
    <3>3. IsSeq(tokens)
      BY <2>9, <3>2, SeqConcat DEF IsRequest
    <3>4. placeholders \in Int /\ requests[r].num_computed_tokens - placeholders \in Int
      BY <3>2 DEF IsRequest
    <3> HIDE DEF tokens, placeholders
    <3>5. Broken(cached, e) /\ ManagerOK(cached)
      <4>1. CASE cached = manager
        BY <1>1, <1>3, <4>1
      <4>2. CASE cached = cache_blocks(manager, r, tokens,
                                       requests[r].num_computed_tokens - placeholders)
        <5>1. Broken(cached, e)
          <6> DEFINE k == requests[r].num_computed_tokens - placeholders
          <6>1. cached = cache_blocks(manager, r, tokens, k)
            BY <4>2
          <6> HIDE DEF cached, k
          <6>2. Broken(cache_blocks(manager, r, tokens, k), e)
            BY <1>3, StaysBroken
          <6> QED BY <6>1, <6>2
        <5>2. ManagerOK(cached)
          BY <1>1, <3>3, <3>4, <4>2, CacheBlocksOK DEF IsSeq
        <5> QED BY <5>1, <5>2
      <4> QED BY <4>1, <4>2 DEF CachedWithOutput
    <3> HIDE DEF cached
    <3>6. Broken(m, e) /\ ManagerOK(m)
      <4>1. CASE placeholders >= 0
        BY <3>5, <4>1
      <4>2. CASE ~(placeholders >= 0)
        <5>1. m = [cached EXCEPT !.pool = Fail(@, "num_output_placeholders < 0")]
          BY <4>2
        <5>2. ManagerOK(m)
          BY <3>5, <5>1, FailOK, Zenon
        <5> QED BY <1>5, <3>5, <5>1, <5>2
      <4> QED BY <4>1, <4>2
    <3> HIDE DEF m
    <3> QED BY <1>4, <3>1, <3>6
  <2>10. CASE UpdateRequest
    <3> DEFINE r == batch_queue[1].out.reqs[1].id
               t == batch_queue[1].sampled[1]
    <3>1. /\ phase \in {"output", "update"} /\ batch_queue[1].done
          /\ batch_queue[1].out.reqs # <<>> /\ update_request(r, t)
      BY <2>10 DEF UpdateRequest
    <3>2. IsBatch(batch_queue[1])
      BY <3>1, SeqTail DEF IInv, BatchesOK
    <3> DEFINE reqs == batch_queue[1].out.reqs
               sampled == batch_queue[1].sampled
    <3>3. /\ IsSeq(reqs) /\ reqs # <<>> /\ IsSeq(sampled) /\ Len(sampled) = Len(reqs)
          /\ \A k \in DOMAIN reqs : reqs[k].id \in Request
          /\ \A k \in DOMAIN sampled : IsSeq(sampled[k])
      BY <3>1, <3>2 DEF IsBatch
    <3> HIDE DEF reqs, sampled
    <3>4. 1 \in DOMAIN reqs /\ 1 \in DOMAIN sampled
      <4>1. 1 \in DOMAIN reqs
        BY <3>3, SeqTail
      <4>2. sampled # <<>>
        BY <3>3, <4>1 DEF IsSeq
      <4> QED BY <3>3, <4>1, <4>2, SeqTail
    <3>5. r \in Request /\ IsSeq(t)
      BY <3>3, <3>4 DEF reqs, sampled
    <3>6. IgnoreOutput(r, t) \/ ApplyOutput(r, t)
      BY <3>1 DEF update_request
    <3> HIDE DEF r, t
    <3>7. IgnoreOutput(r, t) => manager' = manager
      BY DEF IgnoreOutput
    <3> QED BY <2>1, <2>9, <3>5, <3>6, <3>7
  <2>11. CASE Client
    BY <2>1, <2>2, <2>3, <2>4, <2>11 DEF Client, Add, add_request, Reset
  <2>12. CASE Engine
    <3>1. CASE StepStart \/ StepEnd
      BY <2>1, <3>1 DEF StepStart, schedule_start, schedulerVars, StepEnd
    <3>2. CASE Schedule
      BY <2>1, <2>5, <2>6, <2>7, <3>2 DEF Schedule, SkipRunning, EnterRunning, RunningDone
    <3>3. CASE Submit
      BY <2>8, <3>3 DEF Submit
    <3> QED BY <2>10, <2>12, <3>1, <3>2, <3>3 DEF Engine
  <2>13. CASE Execute
    BY <2>1, <2>13 DEF Execute, schedulerVars
  <2>14. CASE UNCHANGED vars
    BY <2>1, <2>14 DEF vars, schedulerVars
  <2> QED BY <2>11, <2>12, <2>13, <2>14 DEF Next
<1> QED BY <1>6 DEF Broken, PoolBroken

-----------------------------------------------------------------------------
(* The theorems about the prefix cache and the assertions *)

(***************************************************************************)
(* The engine starts with an empty cache.                                  *)
(***************************************************************************)
LEMMA InitSound ==
    ASSUME Init
    PROVE  Sound
<1>1. /\ requests = [r \in Request |-> NewRequest(r, "NONE")]
      /\ manager = InitManager /\ step = NoStep /\ prev_step_scheduled_req_ids = {}
      /\ batch_queue = <<>>
  BY DEF Init, InitScheduler
<1>2. IInv
  BY InitHolds
<1>3. ManagerOK(manager) /\ HasTokens(requests)
  BY <1>2, Basics
<1>4. Linked(manager, requests)
  BY <1>1, <1>3, InitLinked
<1>5. TokensCounted
  BY <1>1, <1>3, SlotsFacts, NewRequestCounts DEF TokensCounted, CountsOf
<1>6. Entries
  <2>1. step.request = NoRequest /\ step.scheduled = <<>>
    BY <1>1 DEF NoStep
  <2> QED BY <2>1, NoEntries DEF Entries
<1>7. PreemptedNow
  BY <1>1 DEF PreemptedNow
<1>8. OneEach
  <2>1. DOMAIN batch_queue = {}
    BY <1>1
  <2> QED BY <2>1 DEF OneEach
<1> QED BY <1>4, <1>5, <1>6, <1>7, <1>8 DEF Sound

(***************************************************************************)
(* Every step of the engine, its client and its worker keeps the second    *)
(* invariant, unless it comes to a token without a placeholder.            *)
(***************************************************************************)
LEMMA StepSound ==
    ASSUME IInv, IInv', Sound, [Next]_vars
    PROVE  \/ Missing /\ manager'.pool.error = Underflow
           \/ Sound'
<1>1. CASE Client
  <2>1. CASE \E r \in Request : Add(r)
    BY <2>1, AddSound
  <2>2. CASE \E r \in Request : Abort(r)
    BY <2>2, AbortSound
  <2>3. CASE \E b \in {FALSE, ResetRunningAllowed} : Reset(b)
    <3>1. PICK b \in {FALSE, ResetRunningAllowed} : Reset(b)
      BY <2>3
    <3>2. /\ phase = "input" /\ UNCHANGED <<phase, batch_queue>>
          /\ ResetRunning \/ ResetIdle
      BY <3>1 DEF Reset
    <3> QED BY <3>2, ResetRunningSound, ResetIdleSound
  <2> QED BY <1>1, <2>1, <2>2, <2>3 DEF Client
<1>2. CASE Engine
  <2>1. CASE Schedule
    <3>1. phase = "schedule" /\ UNCHANGED <<phase, batch_queue>>
      BY <2>1 DEF Schedule, engineVars
    <3>2. CASE SkipRunning \/ EnterRunning \/ RunningDone
      BY <3>1, <3>2, WalkSound
    <3>3. CASE ScheduleRunning
      BY <3>1, <3>3, ScheduleRunningSound
    <3>4. CASE PreemptForRunning
      BY <3>1, <3>4, PreemptSound
    <3>5. CASE ScheduleWaiting
      BY <3>1, <3>5, ScheduleWaitingSound
    <3> QED BY <2>1, <3>2, <3>3, <3>4, <3>5 DEF Schedule
  <2>2. CASE UpdateRequest
    BY <2>2, UpdateRequestSound
  <2> QED BY <1>2, <2>1, <2>2, StepStartSound, SubmitSound, StepEndSound
          DEF Engine
<1>3. CASE Execute
  BY <1>3, ExecuteSound
<1>4. CASE UNCHANGED vars
  <2>1. /\ requests' = requests /\ running' = running /\ manager' = manager /\ step' = step
        /\ prev_step_scheduled_req_ids' = prev_step_scheduled_req_ids
        /\ phase' = phase /\ batch_queue' = batch_queue
    BY <1>4 DEF vars, schedulerVars, engineVars
  <2> QED BY <2>1
          DEF Sound, TokensCounted, Entries, PreemptedNow, OneEach
<1> QED BY <1>1, <1>2, <1>3, <1>4 DEF Next

(***************************************************************************)
(* Every step keeps the second invariant as long as it can.                *)
(***************************************************************************)
LEMMA NextSound ==
    ASSUME IInv, IInv', SoundUnlessUnderflow, [Next]_vars
    PROVE  SoundUnlessUnderflow'
<1>1. CASE AsyncScheduling /\ manager.pool.error = Underflow
  <2>1. Underflow # "none"
    BY DEF Underflow
  <2>2. manager'.pool.error = Underflow
    BY <1>1, <2>1, ErrorStays
  <2> QED BY <1>1, <2>2 DEF SoundUnlessUnderflow, Underflow
<1>2. CASE Sound
  <2>1. Missing => AsyncScheduling
    BY DEF Missing
  <2> QED BY <1>2, <2>1, StepSound DEF SoundUnlessUnderflow, Underflow
<1> QED BY <1>1, <1>2 DEF SoundUnlessUnderflow

(***************************************************************************)
(* The second invariant holds in every reachable state, as long as no      *)
(* placeholder was missing.                                                *)
(***************************************************************************)
THEOREM SecondInductive == Spec => []SoundUnlessUnderflow
<1>1. Init => SoundUnlessUnderflow
  BY InitSound DEF SoundUnlessUnderflow
<1>2. IInv /\ IInv' /\ SoundUnlessUnderflow /\ [Next]_vars => SoundUnlessUnderflow'
  BY NextSound
<1> QED BY <1>1, <1>2, Inductive, PTL DEF Spec

(***************************************************************************)
(* What the two invariants say of the properties.                          *)
(***************************************************************************)
LEMMA SoundFacts ==
    ASSUME IInv, SoundUnlessUnderflow
    PROVE  /\ NoAssertionFails => ChainClosed
           /\ manager.pool.error \in {"none", Underflow}
           /\ AsyncScheduling \/ NoAssertionFails
<1>1. CASE AsyncScheduling /\ manager.pool.error = Underflow
  BY <1>1 DEF NoAssertionFails, Underflow
<1>2. CASE Sound
  <2>1. ManagerOK(manager) /\ HasTokens(requests) /\ Linked(manager, requests)
    BY <1>2, Basics DEF Sound
  <2>2. Closed(manager.pool)
    BY <2>1, LinkedClosed
  <2>3. ChainClosed
    BY <2>2 DEF Closed, ChainClosed
  <2>4. manager.pool.error = "none"
    BY <2>1 DEF Linked
  <2> QED BY <2>3, <2>4 DEF NoAssertionFails
<1> QED BY <1>1, <1>2 DEF SoundUnlessUnderflow

(***************************************************************************)
(* Scheduler, KVCacheManager and BlockPool, sync or async, with any number *)
(* of batches in flight: the one assertion that can fail is that of        *)
(* AsyncScheduler on num_output_placeholders.  A block handed out is       *)
(* unreferenced, a block that is cached was not cached before, a revived   *)
(* block is in the free queue, schedule() makes no batch larger than       *)
(* self.running, and a resumed request was not in the last step.           *)
(***************************************************************************)
THEOREM OnlyPlaceholdersMayFail == Spec => [](manager.pool.error \in {"none", Underflow})
<1>1. IInv /\ SoundUnlessUnderflow => manager.pool.error \in {"none", Underflow}
  BY SoundFacts
<1> QED BY <1>1, Inductive, SecondInductive, PTL

(***************************************************************************)
(* BlockPool: while no assertion has failed, whenever a block is in the    *)
(* prefix cache so is every block before it in its chain, so that          *)
(* find_longest_cache_hit, which stops at the first miss, misses none.     *)
(***************************************************************************)
THEOREM ChainsClosedUntilFailure == Spec => [](NoAssertionFails => ChainClosed)
<1>1. IInv /\ SoundUnlessUnderflow => (NoAssertionFails => ChainClosed)
  BY SoundFacts
<1> QED BY <1>1, Inductive, SecondInductive, PTL

(***************************************************************************)
(* Without async scheduling no assertion of the scheduler, the KV cache    *)
(* manager or the block pool ever fails.                                   *)
(***************************************************************************)
THEOREM SyncNeverFails ==
    ASSUME ~AsyncScheduling
    PROVE  Spec => []NoAssertionFails
<1>1. IInv /\ SoundUnlessUnderflow => NoAssertionFails
  BY SoundFacts
<1> QED BY <1>1, Inductive, SecondInductive, PTL

(***************************************************************************)
(* Without async scheduling every prefix of a cached block's chain is      *)
(* cached, at all times.                                                   *)
(***************************************************************************)
THEOREM SyncChainsClosed ==
    ASSUME ~AsyncScheduling
    PROVE  Spec => []ChainClosed
<1>1. IInv /\ SoundUnlessUnderflow => ChainClosed
  BY SoundFacts
<1> QED BY <1>1, Inductive, SecondInductive, PTL
=============================================================================
