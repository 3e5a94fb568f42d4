--------------------------- MODULE ShmRingBuffer ---------------------------
(***************************************************************************)
(* class MessageQueue over class ShmRingBuffer                             *)
(* (vllm/distributed/device_communicators/shm_broadcast.py): the queue     *)
(* from the engine to its workers (and back), with one writer and NReader  *)
(* local readers in different processes.                                   *)
(*                                                                         *)
(* A chunk of shared memory has a written flag and a read flag for each    *)
(* reader.  No lock protects them: the processes interleave between any    *)
(* two accesses to a flag, in the order the memory fences enforce.  A      *)
(* message that does not fit a chunk (overflow) goes through a socket, and *)
(* a reader that has been idle for a while sleeps until it is pinged.      *)
(*                                                                         *)
(* Messages are numbered in the order of the enqueue calls.                *)
(***************************************************************************)
EXTENDS Integers, Sequences

CONSTANTS
    NReader,            \* n_local_reader
    MaxChunks,          \* max_chunks
    MaxMessages,        \* bound on the messages enqueued
    Kinds,              \* the kinds of messages sent, a subset of Kind
    TimeoutsAllowed,    \* whether the callers pass a timeout
    FailuresAllowed,    \* whether copying into or out of a chunk may raise
    ShutdownAllowed     \* the readers that may be shut down

\* A message is pickled into its chunk; or it is, and has large buffers, which
\* the unpickled object refers to in place; or it does not fit.
Kind == {"inline", "buffers", "overflow"}

ASSUME RingAssumption ==
    /\ NReader \in Nat \ {0}
    /\ MaxChunks \in Nat \ {0}
    /\ MaxMessages \in Nat
    /\ Kinds \subseteq Kind
    /\ TimeoutsAllowed \in BOOLEAN /\ FailuresAllowed \in BOOLEAN

Reader == 0 .. (NReader - 1)
Chunk == 0 .. (MaxChunks - 1)

ASSUME ShutdownAssumption == ShutdownAllowed \subseteq Reader

VARIABLES
    \* the shared memory
    written_flag,   \* of each chunk
    read_flag,      \* of each chunk and reader
    data,           \* the message each chunk holds
    \* the sockets
    local_socket,   \* overflowing messages on their way to each reader
    notified,       \* whether a ping waits for the reader
    cancelled,      \* whether a cancellation waits for the reader
    \* the writer
    wpc,            \* where it is in enqueue
    widx,           \* current_idx
    rank,           \* the reader whose flag it counts or resets next
    read_count,     \* read flags counted so far
    message,        \* the message being enqueued
    sent,           \* messages enqueued so far
    \* the readers
    rpc,            \* where each is in dequeue
    ridx,           \* current_idx
    seen,           \* the read flag as it was loaded
    held,           \* the last object dequeued, and the chunk it came in
    received,       \* the messages dequeued
    shutting_down,
    gave_up         \* history: a dequeue raised with its chunk marked as read

memoryVars == <<written_flag, read_flag, data>>
socketVars == <<local_socket, notified, cancelled>>
writerVars == <<wpc, widx, rank, read_count, message, sent>>
readerVars == <<rpc, ridx, seen, held, received, shutting_down, gave_up>>
vars == <<memoryVars, socketVars, writerVars, readerVars>>

NoMessage == [number |-> 0, kind |-> "inline"]
Message == [number : Nat, kind : Kind]

Init ==
    /\ written_flag = [c \in Chunk |-> 0]
    /\ read_flag = [c \in Chunk |-> [r \in Reader |-> 0]]
    /\ data = [c \in Chunk |-> NoMessage]
    /\ local_socket = [r \in Reader |-> <<>>]
    /\ notified = [r \in Reader |-> FALSE]
    /\ cancelled = [r \in Reader |-> FALSE]
    /\ wpc = "idle" /\ widx = 0 /\ rank = 0 /\ read_count = 0
    /\ message = NoMessage /\ sent = 0
    /\ rpc = [r \in Reader |-> "idle"]
    /\ ridx = [r \in Reader |-> 0]
    /\ seen = [r \in Reader |-> 0]
    /\ held = [r \in Reader |-> [chunk |-> 0, message |-> NoMessage]]
    /\ received = [r \in Reader |-> <<>>]
    /\ shutting_down = [r \in Reader |-> FALSE]
    /\ gave_up = [r \in Reader |-> FALSE]

\* (current_idx + 1) % max_chunks
Successor(c) == IF c + 1 = MaxChunks THEN 0 ELSE c + 1

-----------------------------------------------------------------------------
\* The writer: enqueue, and acquire_write inside it.

enqueue(kind) ==
    /\ wpc = "idle"
    /\ sent < MaxMessages
    /\ wpc' = "count" /\ rank' = 0 /\ read_count' = 0
    /\ message' = [number |-> sent + 1, kind |-> kind]
    /\ UNCHANGED <<memoryVars, socketVars, readerVars, widx, sent>>

\* sum(metadata_buffer[1:]), one flag at a time.
CountFlag ==
    /\ wpc = "count"
    /\ rank < NReader
    /\ read_count' = read_count + read_flag[widx][rank]
    /\ rank' = rank + 1
    /\ UNCHANGED <<memoryVars, socketVars, readerVars, wpc, widx, message, sent>>

\* Mutant of CanWrite: one reader that has read is enough.
CanWrite_AnyReader == written_flag[widx] = 0 \/ read_count > 0

CanWrite == written_flag[widx] = 0 \/ read_count = NReader

\* The chunk is still being read: look again, or give up.
WriteWait ==
    /\ wpc = "count"
    /\ rank = NReader
    /\ ~ CanWrite
    /\ \/ wpc' = "count"
       \/ TimeoutsAllowed /\ wpc' = "idle"
    /\ rank' = 0 /\ read_count' = 0
    /\ UNCHANGED <<memoryVars, socketVars, readerVars, widx, message, sent>>

AcquireChunk ==
    /\ wpc = "count"
    /\ rank = NReader
    /\ CanWrite
    /\ written_flag' = [written_flag EXCEPT ![widx] = 0]
    /\ wpc' = "fill"
    /\ UNCHANGED <<read_flag, data, socketVars, readerVars, widx, rank, read_count, message, sent>>

\* The caller's copy into the chunk; it takes effect some time while wpc is
\* "fill".
FillChunk ==
    /\ wpc = "fill"
    /\ data' = [data EXCEPT ![widx] = message]
    /\ wpc' = "reset" /\ rank' = 0
    /\ UNCHANGED <<written_flag, read_flag, socketVars, readerVars, widx, read_count, message, sent>>

\* The copy raises, perhaps with the old contents half overwritten: the chunk
\* stays unwritten and is used again.
FillFails ==
    /\ FailuresAllowed
    /\ wpc = "fill"
    /\ \E m \in {data[widx], NoMessage} : data' = [data EXCEPT ![widx] = m]
    /\ wpc' = "idle"
    /\ UNCHANGED <<written_flag, read_flag, socketVars, readerVars, widx, rank, read_count, message, sent>>

ResetFlag ==
    /\ wpc = "reset"
    /\ rank < NReader
    /\ read_flag' = [read_flag EXCEPT ![widx] = [@ EXCEPT ![rank] = 0]]
    /\ rank' = rank + 1
    /\ UNCHANGED <<written_flag, data, socketVars, readerVars, wpc, widx, read_count, message, sent>>

Publish ==
    /\ wpc = "reset"
    /\ rank = NReader
    /\ written_flag' = [written_flag EXCEPT ![widx] = 1]
    /\ widx' = Successor(widx)
    /\ sent' = sent + 1
    /\ wpc' = IF message.kind = "overflow" THEN "send" ELSE "notify"
    /\ UNCHANGED <<read_flag, data, socketVars, readerVars, rank, read_count, message>>

\* local_socket.send_multipart
SendOverflow ==
    /\ wpc = "send"
    /\ local_socket' = [r \in Reader |-> Append(local_socket[r], message.number)]
    /\ wpc' = "notify"
    /\ UNCHANGED <<memoryVars, notified, cancelled, readerVars, widx, rank, read_count, message, sent>>

\* Mutant of notify: the first reader only.
notify_FirstReader ==
    /\ wpc = "notify"
    /\ notified' = [notified EXCEPT ![0] = TRUE]
    /\ wpc' = "idle"
    /\ UNCHANGED <<memoryVars, local_socket, cancelled, readerVars, widx, rank, read_count, message, sent>>

\* SpinCondition.notify: the sockets keep one ping.
notify ==
    /\ wpc = "notify"
    /\ notified' = [r \in Reader |-> TRUE]
    /\ wpc' = "idle"
    /\ UNCHANGED <<memoryVars, local_socket, cancelled, readerVars, widx, rank, read_count, message, sent>>

Writer ==
    \/ \E kind \in Kinds : enqueue(kind)
    \/ CountFlag \/ WriteWait \/ AcquireChunk
    \/ FillChunk \/ FillFails
    \/ ResetFlag \/ Publish
    \/ SendOverflow \/ notify

-----------------------------------------------------------------------------
\* A reader: dequeue, and acquire_read inside it.

GoTo(r, pc) == rpc' = [rpc EXCEPT ![r] = pc]

dequeue(r) ==
    /\ rpc[r] = "idle"
    /\ GoTo(r, "load")
    /\ UNCHANGED <<memoryVars, socketVars, writerVars, ridx, seen, held, received, shutting_down, gave_up>>

LoadReadFlag(r) ==
    /\ rpc[r] = "load"
    /\ seen' = [seen EXCEPT ![r] = read_flag[ridx[r]][r]]
    /\ GoTo(r, "test")
    /\ UNCHANGED <<memoryVars, socketVars, writerVars, ridx, held, received, shutting_down, gave_up>>

\* Mutant of CanRead: the reader's own flag is not looked at.
CanRead_Ignoring(r) == written_flag[ridx[r]] = 1

CanRead(r) == written_flag[ridx[r]] = 1 /\ seen[r] = 0

TestWrittenFlag(r) ==
    /\ rpc[r] = "test"
    /\ GoTo(r, IF CanRead(r) THEN "read" ELSE "wait")
    /\ UNCHANGED <<memoryVars, socketVars, writerVars, ridx, seen, held, received, shutting_down, gave_up>>

\* Mutant of Awake: shutting_down is not looked at.
Awake_Ignoring(r) == GoTo(r, "load")

\* After SpinCondition.wait: a shut down reader gives up.
Awake(r) == GoTo(r, IF shutting_down[r] THEN "stopped" ELSE "load")

\* SpinCondition.wait: yield if there was a read lately, otherwise poll the
\* sockets.  Past its deadline the reader raises TimeoutError instead.
wait(r) ==
    /\ rpc[r] = "wait"
    /\ \/ Awake(r)
       \/ GoTo(r, "poll")
       \/ TimeoutsAllowed /\ GoTo(r, "idle")
    /\ UNCHANGED <<memoryVars, socketVars, writerVars, ridx, seen, held, received, shutting_down, gave_up>>

\* A ping is taken out of its socket, a cancellation stays; without a timeout
\* nothing else ends the poll.
Poll(r) ==
    /\ rpc[r] = "poll"
    /\ notified[r] \/ cancelled[r] \/ TimeoutsAllowed
    /\ notified' = [notified EXCEPT ![r] = @ /\ cancelled[r]]
    /\ Awake(r)
    /\ UNCHANGED <<memoryVars, local_socket, cancelled, writerVars, ridx, seen, held, received,
                   shutting_down, gave_up>>

\* Copying out of the chunk, or unpickling, raises: the chunk is not marked.
ReadFails(r) ==
    /\ FailuresAllowed
    /\ rpc[r] = "read"
    /\ GoTo(r, "idle")
    /\ UNCHANGED <<memoryVars, socketVars, writerVars, ridx, seen, held, received, shutting_down, gave_up>>

\* The object is unpickled while rpc[r] is "read"; then the chunk is marked.
MarkRead(r) ==
    LET m == data[ridx[r]] IN
    /\ rpc[r] = "read"
    /\ read_flag' = [read_flag EXCEPT ![ridx[r]] = [@ EXCEPT ![r] = 1]]
    /\ ridx' = [ridx EXCEPT ![r] = Successor(@)]
    /\ IF m.kind = "overflow"
       THEN GoTo(r, "recv") /\ UNCHANGED <<held, received>>
       ELSE /\ GoTo(r, "idle")
            /\ held' = [held EXCEPT ![r] = [chunk |-> ridx[r], message |-> m]]
            /\ received' = [received EXCEPT ![r] = Append(@, m.number)]
    /\ UNCHANGED <<written_flag, data, socketVars, writerVars, seen, shutting_down, gave_up>>

\* MessageQueue.recv: the overflowing message, or a timeout.
RecvOverflow(r) ==
    /\ rpc[r] = "recv"
    /\ local_socket[r] # <<>>
    /\ local_socket' = [local_socket EXCEPT ![r] = Tail(@)]
    /\ received' = [received EXCEPT ![r] = Append(@, Head(local_socket[r]))]
    /\ held' = [held EXCEPT ![r] =
                  [chunk |-> 0, message |-> [number |-> Head(local_socket[r]), kind |-> "overflow"]]]
    /\ GoTo(r, "idle")
    /\ UNCHANGED <<memoryVars, notified, cancelled, writerVars, ridx, seen, shutting_down, gave_up>>

RecvTimeout(r) ==
    /\ TimeoutsAllowed
    /\ rpc[r] = "recv"
    /\ local_socket[r] = <<>>
    /\ gave_up' = [gave_up EXCEPT ![r] = TRUE]
    /\ GoTo(r, "idle")
    /\ UNCHANGED <<memoryVars, socketVars, writerVars, ridx, seen, held, received, shutting_down>>

\* Unpickling the payload raises: it is taken and lost.
RecvFails(r) ==
    /\ FailuresAllowed
    /\ rpc[r] = "recv"
    /\ local_socket[r] # <<>>
    /\ local_socket' = [local_socket EXCEPT ![r] = Tail(@)]
    /\ gave_up' = [gave_up EXCEPT ![r] = TRUE]
    /\ GoTo(r, "idle")
    /\ UNCHANGED <<memoryVars, notified, cancelled, writerVars, ridx, seen, held, received,
                   shutting_down>>

ReaderStep(r) ==
    \/ dequeue(r) \/ LoadReadFlag(r) \/ TestWrittenFlag(r)
    \/ wait(r) \/ Poll(r)
    \/ MarkRead(r) \/ ReadFails(r)
    \/ RecvOverflow(r) \/ RecvTimeout(r) \/ RecvFails(r)

\* shutdown, called by another thread of the reader's process.
SetShuttingDown(r) ==
    /\ r \in ShutdownAllowed
    /\ ~ shutting_down[r]
    /\ shutting_down' = [shutting_down EXCEPT ![r] = TRUE]
    /\ UNCHANGED <<memoryVars, socketVars, writerVars, rpc, ridx, seen, held, received, gave_up>>

cancel(r) ==
    /\ shutting_down[r]
    /\ ~ cancelled[r]
    /\ cancelled' = [cancelled EXCEPT ![r] = TRUE]
    /\ UNCHANGED <<memoryVars, local_socket, notified, writerVars, readerVars>>

Next == Writer \/ \E r \in Reader : ReaderStep(r) \/ SetShuttingDown(r) \/ cancel(r)

Spec == Init /\ [][Next]_vars

\* The writer, every reader and the thread that shuts a reader down run.
Fairness ==
    /\ WF_vars(Writer)
    /\ \A r \in Reader : WF_vars(ReaderStep(r)) /\ WF_vars(cancel(r))

FairSpec == Spec /\ Fairness

-----------------------------------------------------------------------------
\* Types: indices are chunks, flags are 0 or 1, and the program counters are
\* places in enqueue and dequeue.
TypeOK ==
    /\ written_flag \in [Chunk -> {0, 1}]
    /\ read_flag \in [Chunk -> [Reader -> {0, 1}]]
    /\ data \in [Chunk -> Message]
    /\ wpc \in {"idle", "count", "fill", "reset", "send", "notify"}
    /\ widx \in Chunk
    /\ rank \in 0 .. NReader /\ read_count \in Nat
    /\ message \in Message /\ sent \in Nat
    /\ rpc \in [Reader -> {"idle", "load", "test", "wait", "poll", "read", "recv", "stopped"}]
    /\ ridx \in [Reader -> Chunk]
    /\ seen \in [Reader -> {0, 1}]
    /\ shutting_down \in [Reader -> BOOLEAN] /\ gave_up \in [Reader -> BOOLEAN]

\* The writer never writes a chunk, nor resets its flags, while a reader reads
\* it, although neither takes a lock.
ExclusiveAccess ==
    \A r \in Reader : rpc[r] = "read" => ~ (wpc \in {"fill", "reset"} /\ widx = ridx[r])

\* Every reader dequeues every message once, in the order they were enqueued,
\* whether they came in a chunk or through the socket, as long as it has not
\* given up on one in between.
DeliveredInOrder ==
    \A r \in Reader : ~ gave_up[r] => \A i \in DOMAIN received[r] : received[r][i] = i

\* No reader dequeues a message twice, whatever timed out or raised before.
DeliveredOnce ==
    \A r \in Reader : \A i, j \in DOMAIN received[r] :
        received[r][i] = received[r][j] => i = j

\* The object a reader holds is the one that was sent, until it dequeues the
\* next one.
ObjectsIntact ==
    \A r \in Reader :
        held[r].message.kind = "buffers" => data[held[r].chunk] = held[r].message

\* Every message that is enqueued arrives at every reader that is not shut
\* down: no reader sleeps through the ping.
EveryMessageArrives ==
    \A r \in Reader : \A k \in 1 .. MaxMessages :
        sent >= k ~> (Len(received[r]) >= k \/ rpc[r] = "stopped")

\* A reader that is shut down stops once there is nothing left to read, also
\* when it sleeps.
ShutdownEnds == \A r \in Reader : shutting_down[r] ~> rpc[r] = "stopped"
=============================================================================
