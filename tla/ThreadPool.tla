----------------------------- MODULE ThreadPool -----------------------------
(***************************************************************************)
(* The worker pool of the animation server (threadpool.c), driven as       *)
(* server_main.c drives it: the main thread registers clients, submits     *)
(* their lines as requests, closes clients and finally destroys the pool;  *)
(* the workers dequeue one request at a time, run its handler and send the *)
(* responses of each client in request order through a ring of             *)
(* MAX_PENDING_RESPONSES slots.                                            *)
(*                                                                         *)
(* pool->mutex is held for one atomic step each time, except across        *)
(* pthread_cond_wait, so every critical section on it is one action.       *)
(* client->output_mutex is held across the flush loop, where other threads *)
(* run: it is a variable.  The handler is opaque here; it always returns.  *)
(* Allocation failures are not modelled.                                   *)
(***************************************************************************)
EXTENDS Integers, Sequences, SequencesExt, FiniteSets

CONSTANTS
    Clients,              \* the clients that may connect (client_state_t)
    Workers,              \* the threads started by threadpool_create
    MaxPendingResponses,  \* MAX_PENDING_RESPONSES
    MaxRequests,          \* bound: lines submitted per client
    NoClient,             \* a NULL client pointer
    NoWorker,             \* an unlocked output_mutex
    NotReady              \* a slot whose ready flag is false

ASSUME ClientsAssumption == NoClient \notin Clients /\ IsFiniteSet(Clients)
ASSUME WorkersAssumption ==
    NoWorker \notin Workers /\ IsFiniteSet(Workers) /\ Workers # {}
ASSUME WindowAssumption == MaxPendingResponses \in Nat \ {0}
ASSUME BoundAssumption == MaxRequests \in Nat
ASSUME NotReadyAssumption == NotReady \notin Nat

VARIABLES
    \* struct threadpool, protected by pool->mutex
    clients,        \* the list clients_head .. clients_tail
    nextClient,     \* next_client, NoClient for NULL
    queue,          \* each client's list of queued sequence numbers
    pending,        \* pending_requests
    shuttingDown,   \* shutting_down
    \* client_state_t
    received,       \* requests_received
    outputLock,     \* the worker that holds output_mutex
    responsesSent,  \* responses_sent
    slots,          \* pending_responses: a sequence number or NotReady
    disconnected,   \* disconnected
    s2c,            \* fifo_s2c_fd: "none", "open" or "closed" (-1)
    fifo,           \* the responses written to the S2C FIFO, oldest first
    \* the threads
    worker,         \* where each worker is in worker_main
    job,            \* the request each worker holds
    main,           \* where the main thread is
    closing         \* the client close_client works on, and its next step

listVars   == <<clients, nextClient>>
poolVars   == <<listVars, queue, pending, shuttingDown>>
outputVars == <<outputLock, responsesSent, slots, fifo>>
clientVars == <<received, disconnected, s2c, outputVars>>
threadVars == <<worker, job, main, closing>>
vars       == <<poolVars, clientVars, threadVars>>

NoJob == [client |-> NoClient, seq |-> 0]
Jobs == [client : Clients, seq : Nat]
NotClosing == [client |-> NoClient, step |-> "none"]
Slots == 0 .. MaxPendingResponses - 1
Slot(seq) == seq % MaxPendingResponses

WorkerPlaces == {"lock", "asleep", "handling", "deliver", "flush", "exited"}
MainPlaces == {"serving", "stopping", "joining", "freed"}

At(place) == {w \in Workers : worker[w] = place}
Registered(c) == \E i \in DOMAIN clients : clients[i] = c
Position(c) == CHOOSE i \in DOMAIN clients : clients[i] = c
Idle == closing = NotClosing

Init ==
    /\ clients = <<>>
    /\ nextClient = NoClient
    /\ queue = [c \in Clients |-> <<>>]
    /\ pending = 0
    /\ shuttingDown = FALSE
    /\ received = [c \in Clients |-> 0]
    /\ outputLock = [c \in Clients |-> NoWorker]
    /\ responsesSent = [c \in Clients |-> 0]
    /\ slots = [c \in Clients |-> [k \in Slots |-> NotReady]]
    /\ disconnected = [c \in Clients |-> FALSE]
    /\ s2c = [c \in Clients |-> "none"]
    /\ fifo = [c \in Clients |-> <<>>]
    /\ worker = [w \in Workers |-> "lock"]
    /\ job = [w \in Workers |-> NoJob]
    /\ main = "serving"
    /\ closing = NotClosing

-----------------------------------------------------------------------------
(* The main thread: accepting, reading and closing clients.                *)

\* accept_client ends by registering the client at the tail of the list.
Register(c) ==
    /\ main = "serving" /\ Idle
    /\ s2c[c] = "none"
    /\ clients' = Append(clients, c)
    /\ nextClient' = IF nextClient = NoClient THEN c ELSE nextClient
    /\ s2c' = [s2c EXCEPT ![c] = "open"]
    /\ UNCHANGED <<queue, pending, shuttingDown, received, disconnected,
                   outputVars, threadVars>>

\* pthread_cond_signal wakes one waiter when there is one (mutant: it, or the
\* broadcast of threadpool_destroy, is missing).
NoSignal == UNCHANGED worker
SignalOne ==
    IF At("asleep") = {}
    THEN UNCHANGED worker
    ELSE \E w \in At("asleep") : worker' = [worker EXCEPT ![w] = "lock"]

\* What threadpool_submit checks (mutant: all but client->disconnected).
SubmittableUnchecked(c) == ~shuttingDown /\ Registered(c)
Submittable(c) == ~shuttingDown /\ Registered(c) /\ ~disconnected[c]

\* submit_line hands a complete line to threadpool_submit.
Submit(c) ==
    /\ main = "serving" /\ Idle
    /\ Submittable(c)
    /\ received[c] < MaxRequests
    /\ received' = [received EXCEPT ![c] = @ + 1]
    /\ queue' = [queue EXCEPT ![c] = Append(@, received[c])]
    /\ pending' = pending + 1
    /\ SignalOne
    /\ UNCHANGED <<listVars, shuttingDown, disconnected, s2c, outputVars,
                   job, main, closing>>

\* client->disconnected = true (mutant: the assignment is missing).
KeepConnected(c) == UNCHANGED disconnected
GiveUp(c) == disconnected' = [disconnected EXCEPT ![c] = TRUE]

\* close_client returns at once for a client already marked disconnected.
BeginClose(c) ==
    /\ main \in {"serving", "stopping"} /\ Idle
    /\ s2c[c] = "open"
    /\ ~disconnected[c]
    /\ closing' = [client |-> c, step |-> "mark"]
    /\ UNCHANGED <<poolVars, clientVars, worker, job, main>>

MarkDisconnected(c) ==
    /\ closing = [client |-> c, step |-> "mark"]
    /\ GiveUp(c)
    /\ closing' = [client |-> c, step |-> "remove"]
    /\ UNCHANGED <<poolVars, received, s2c, outputVars, worker, job, main>>

\* next_client once c, which it points to, is unlinked: the client that follows
\* c, else the new head, which is NULL when c was alone (mutants: it is left on
\* the freed queue; it always goes back to the head).
NextUnlinked(c) == c
NextRestarts(c) ==
    IF Len(clients) = 1 THEN NoClient
    ELSE IF clients[1] = c THEN clients[2]
    ELSE clients[1]
NextAfterUnlink(c) ==
    LET i == Position(c) IN
    IF i < Len(clients) THEN clients[i + 1]
    ELSE IF i > 1 THEN clients[1]
    ELSE NoClient

\* How much pending_requests falls when the queue of c is dropped (mutants: the
\* requests stay counted; one too many is uncounted).
DroppedUncounted(c) == 0
DroppedOvercounted(c) == Len(queue[c]) + 1
Dropped(c) == Len(queue[c])

\* threadpool_remove_client: unlink the queue and drop what it still holds.
RemoveClient(c) ==
    /\ closing = [client |-> c, step |-> "remove"]
    /\ Registered(c)
    /\ clients' = RemoveAt(clients, Position(c))
    /\ nextClient' = IF nextClient = c THEN NextAfterUnlink(c) ELSE nextClient
    /\ queue' = [queue EXCEPT ![c] = <<>>]
    /\ pending' = pending - Dropped(c)
    /\ closing' = [client |-> c, step |-> "fds"]
    /\ UNCHANGED <<shuttingDown, clientVars, worker, job, main>>

\* The descriptors are closed without taking output_mutex.
CloseFds(c) ==
    /\ closing = [client |-> c, step |-> "fds"]
    /\ s2c' = [s2c EXCEPT ![c] = "closed"]
    /\ closing' = NotClosing
    /\ UNCHANGED <<poolVars, received, disconnected, outputVars, worker, job,
                   main>>

\* select fails with an error other than EINTR: the main loop is left.
StopServing ==
    /\ main = "serving" /\ Idle
    /\ main' = "stopping"
    /\ UNCHANGED <<poolVars, clientVars, worker, job, closing>>

\* pthread_cond_broadcast.
WakeAll ==
    worker' = [w \in Workers |-> IF worker[w] = "asleep" THEN "lock"
                                 ELSE worker[w]]

\* threadpool_destroy, up to the joins, once close_client ran on everyone.
BeginDestroy ==
    /\ main = "stopping" /\ Idle
    /\ \A c \in Clients : s2c[c] = "open" => disconnected[c]
    /\ shuttingDown' = TRUE
    /\ WakeAll
    /\ main' = "joining"
    /\ UNCHANGED <<listVars, queue, pending, clientVars, job, closing>>

FinishDestroy ==
    /\ main = "joining"
    /\ At("exited") = Workers
    /\ clients' = <<>>
    /\ nextClient' = NoClient
    /\ queue' = [c \in Clients |-> <<>>]
    /\ main' = "freed"
    /\ UNCHANGED <<pending, shuttingDown, clientVars, worker, job, closing>>

-----------------------------------------------------------------------------
(* The workers: worker_main.                                               *)

Sleep(w) ==
    /\ worker[w] = "lock"
    /\ ~shuttingDown
    /\ pending = 0
    /\ worker' = [worker EXCEPT ![w] = "asleep"]
    /\ UNCHANGED <<poolVars, clientVars, job, main, closing>>

\* pthread_cond_wait may return without a signal.
SpuriousWake(w) ==
    /\ worker[w] = "asleep"
    /\ worker' = [worker EXCEPT ![w] = "lock"]
    /\ UNCHANGED <<poolVars, clientVars, job, main, closing>>

\* When a worker leaves its loop (mutant: as soon as the pool shuts down).
FinishedEarly == shuttingDown
Finished == shuttingDown /\ pending = 0

Exit(w) ==
    /\ worker[w] = "lock"
    /\ Finished
    /\ worker' = [worker EXCEPT ![w] = "exited"]
    /\ UNCHANGED <<poolVars, clientVars, job, main, closing>>

\* In the circular scan that starts at next_client, b is visited before d.
ScannedBefore(b, d) ==
    LET n == Position(nextClient)
        i == Position(b)
        j == Position(d)
    IN  \/ n <= i /\ i < j
        \/ i < j /\ j < n
        \/ j < n /\ n <= i

\* The client the round-robin scan stops at: it has a request, and no client
\* the scan visits earlier has one.
FairChoice(c) ==
    /\ queue[c] # <<>>
    /\ \A b \in Clients :
         Registered(b) /\ queue[b] # <<>> /\ b # c => ~ScannedBefore(b, c)

\* The client after c in the list, the head after the tail (mutant: the next
\* scan starts at c itself).
NoRotation(c) == c
Successor(c) ==
    LET i == Position(c)
    IN  IF i < Len(clients) THEN clients[i + 1] ELSE clients[1]

Dequeue(w, c) ==
    /\ worker[w] = "lock"
    /\ pending # 0
    /\ Registered(c)
    /\ FairChoice(c)
    /\ queue' = [queue EXCEPT ![c] = Tail(@)]
    /\ pending' = pending - 1
    /\ nextClient' = Successor(c)
    /\ worker' = [worker EXCEPT ![w] = "handling"]
    /\ job' = [job EXCEPT ![w] = [client |-> c, seq |-> Head(queue[c])]]
    /\ UNCHANGED <<clients, shuttingDown, clientVars, main, closing>>

\* pool->handler returns; a NULL response has been replaced by "-1".
HandlerReturn(w) ==
    /\ worker[w] = "handling"
    /\ worker' = [worker EXCEPT ![w] = "deliver"]
    /\ UNCHANGED <<poolVars, clientVars, job, main, closing>>

-----------------------------------------------------------------------------
(* The workers: send_ordered_response.                                     *)

Unreachable(c) == disconnected[c] \/ s2c[c] # "open"

\* output_mutex can be taken (mutant: it is not taken).
NoLocking(c) == TRUE
LockFree(c) == outputLock[c] = NoWorker

\* The response fits the ring: it lies in the window and its slot is free
\* (mutants: the end of the window is not checked; its start is off by one).
AcceptsBeyond(c, seq) ==
    seq >= responsesSent[c] /\ slots[c][Slot(seq)] = NotReady
AcceptsAhead(c, seq) ==
    /\ seq > responsesSent[c]
    /\ seq < responsesSent[c] + MaxPendingResponses
    /\ slots[c][Slot(seq)] = NotReady
Accepts(c, seq) ==
    /\ seq >= responsesSent[c]
    /\ seq < responsesSent[c] + MaxPendingResponses
    /\ slots[c][Slot(seq)] = NotReady

\* The lock is taken and released with the response freed.
DiscardResponse(w, c) ==
    /\ worker[w] = "deliver"
    /\ job[w].client = c
    /\ LockFree(c)
    /\ Unreachable(c) \/ ~Accepts(c, job[w].seq)
    /\ worker' = [worker EXCEPT ![w] = "lock"]
    /\ job' = [job EXCEPT ![w] = NoJob]
    /\ UNCHANGED <<poolVars, clientVars, main, closing>>

StoreResponse(w, c) ==
    /\ worker[w] = "deliver"
    /\ job[w].client = c
    /\ LockFree(c)
    /\ ~Unreachable(c)
    /\ Accepts(c, job[w].seq)
    /\ slots' = [slots EXCEPT ![c][Slot(job[w].seq)] = job[w].seq]
    /\ outputLock' = [outputLock EXCEPT ![c] = w]
    /\ worker' = [worker EXCEPT ![w] = "flush"]
    /\ UNCHANGED <<poolVars, received, disconnected, s2c, responsesSent, fifo,
                   job, main, closing>>

\* The response to send next is ready (mutant: some response is).
SomethingReady(c) == \E k \in Slots : slots[c][k] # NotReady
FlushReady(c) == slots[c][Slot(responsesSent[c])] = responsesSent[c]

\* write_all succeeds: the response is in the FIFO and the ring advances.
WriteResponse(w, c) ==
    /\ worker[w] = "flush"
    /\ job[w].client = c
    /\ FlushReady(c)
    /\ s2c[c] = "open"
    /\ fifo' = [fifo EXCEPT ![c] = Append(@, slots[c][Slot(responsesSent[c])])]
    /\ slots' = [slots EXCEPT ![c][Slot(responsesSent[c])] = NotReady]
    /\ responsesSent' = [responsesSent EXCEPT ![c] = @ + 1]
    /\ UNCHANGED <<poolVars, received, disconnected, s2c, outputLock,
                   threadVars>>

Unlock(w, c) ==
    /\ outputLock' = [outputLock EXCEPT ![c] = NoWorker]
    /\ worker' = [worker EXCEPT ![w] = "lock"]
    /\ job' = [job EXCEPT ![w] = NoJob]

\* write_all fails (a full FIFO, a descriptor closed meanwhile).
WriteFails(w, c) ==
    /\ worker[w] = "flush"
    /\ job[w].client = c
    /\ FlushReady(c)
    /\ GiveUp(c)
    /\ slots' = [slots EXCEPT ![c][Slot(responsesSent[c])] = NotReady]
    /\ Unlock(w, c)
    /\ UNCHANGED <<poolVars, received, s2c, responsesSent, fifo, main, closing>>

FlushDone(w, c) ==
    /\ worker[w] = "flush"
    /\ job[w].client = c
    /\ ~FlushReady(c)
    /\ Unlock(w, c)
    /\ UNCHANGED <<poolVars, received, disconnected, s2c, responsesSent, slots,
                   fifo, main, closing>>

-----------------------------------------------------------------------------
CloseStep(c) == MarkDisconnected(c) \/ RemoveClient(c) \/ CloseFds(c)

Send(w, c) ==
    \/ DiscardResponse(w, c)
    \/ StoreResponse(w, c)
    \/ WriteResponse(w, c)
    \/ WriteFails(w, c)
    \/ FlushDone(w, c)

WorkerStep(w) ==
    \/ Sleep(w)
    \/ Exit(w)
    \/ HandlerReturn(w)
    \/ \E c \in Clients : Dequeue(w, c) \/ Send(w, c)

\* The process ends after threadpool_destroy.
Terminated == main = "freed" /\ UNCHANGED vars

Next ==
    \/ \E c \in Clients : Register(c) \/ Submit(c) \/ BeginClose(c)
    \/ \E c \in Clients : CloseStep(c)
    \/ StopServing
    \/ BeginDestroy
    \/ FinishDestroy
    \/ \E w \in Workers : WorkerStep(w) \/ SpuriousWake(w)
    \/ Terminated

Spec == Init /\ [][Next]_vars

\* Every thread that can take a step of its code takes it.  Nothing obliges a
\* client to connect, to send, or to be closed while the server serves.
Fairness ==
    /\ \A w \in Workers : WF_vars(WorkerStep(w))
    /\ \A c \in Clients : WF_vars(CloseStep(c))
    /\ \A c \in Clients : WF_vars(main = "stopping" /\ BeginClose(c))
    /\ WF_vars(BeginDestroy)
    /\ WF_vars(FinishDestroy)

FairSpec == Spec /\ Fairness
-----------------------------------------------------------------------------
(* Properties.                                                             *)

\* The types of the variables, but for the sign of pending_requests.
Types ==
    /\ clients \in Seq(Clients)
    /\ nextClient \in Clients \cup {NoClient}
    /\ queue \in [Clients -> Seq(Nat)]
    /\ pending \in Int
    /\ shuttingDown \in BOOLEAN
    /\ received \in [Clients -> Nat]
    /\ outputLock \in [Clients -> Workers \cup {NoWorker}]
    /\ responsesSent \in [Clients -> Nat]
    /\ slots \in [Clients -> [Slots -> Nat \cup {NotReady}]]
    /\ disconnected \in [Clients -> BOOLEAN]
    /\ s2c \in [Clients -> {"none", "open", "closed"}]
    /\ fifo \in [Clients -> Seq(Nat)]
    /\ worker \in [Workers -> WorkerPlaces]
    /\ job \in [Workers -> Jobs \cup {NoJob}]
    /\ main \in MainPlaces
    /\ closing \in [client : Clients \cup {NoClient},
                    step : {"none", "mark", "remove", "fds"}]

\* Every variable has its type: slots, queues and jobs hold request numbers, and
\* pending_requests, a size_t, is never decremented below zero.
TypeOK == Types /\ pending \in Nat

\* next_client never dangles: it points into the list, and is NULL only when
\* the list is empty; no client is listed twice and only a listed client has
\* queued requests (unlink_client_queue, threadpool_remove_client).
NextClientValid ==
    /\ \A i, j \in DOMAIN clients : clients[i] = clients[j] => i = j
    /\ IF clients = <<>> THEN nextClient = NoClient ELSE Registered(nextClient)
    /\ \A c \in Clients : queue[c] # <<>> => Registered(c)

\* The queued requests, each by its client and its place in the queue.
QueuedRequests == UNION {{c} \X DOMAIN queue[c] : c \in Clients}

\* pending_requests, kept apart from the lists, counts exactly the queued
\* requests of all clients, whichever of them are removed meanwhile.
PendingExact == pending = Cardinality(QueuedRequests)

\* No request is queued while every worker that could take it sleeps: if some
\* worker waits on work_available, the pool is not shutting down and a worker
\* on its way to the mutex exists for each queued request.
NoLostWakeup ==
    At("asleep") # {} =>
        ~shuttingDown /\ pending <= Cardinality(At("lock"))

\* The ring of pending responses is sound: a ready slot holds a request of the
\* current window that belongs in it, and while nobody holds output_mutex the
\* response to send next is not among the ready ones of a live client.
RingSound ==
    \A c \in Clients :
        /\ \A k \in Slots :
             slots[c][k] # NotReady =>
                /\ Slot(slots[c][k]) = k
                /\ slots[c][k] >= responsesSent[c]
                /\ slots[c][k] < responsesSent[c] + MaxPendingResponses
        /\ outputLock[c] = NoWorker /\ ~disconnected[c] => ~FlushReady(c)

\* A worker holds output_mutex exactly while it flushes that client's ring.
LockHeldWhileFlushing ==
    \A c \in Clients, w \in Workers :
        outputLock[c] = w <=> worker[w] = "flush" /\ job[w].client = c

\* The places where request s of client c, or its response, can be.
InQueue(c, s) == \E i \in DOMAIN queue[c] : queue[c][i] = s
Holders(c, s) ==
    {w \in Workers : /\ worker[w] \in {"handling", "deliver"}
                     /\ job[w] = [client |-> c, seq |-> s]}
InRing(c, s) == \E k \in Slots : slots[c][k] = s
Sent(c, s) == \E i \in DOMAIN fifo[c] : fifo[c][i] = s

\* Until its client is given up, each accepted request is in one place: queued,
\* held by one worker, complete and waiting in the ring, or answered.
RequestConservation ==
    \A c \in Clients : ~disconnected[c] =>
        \A s \in 0 .. received[c] - 1 :
            (IF InQueue(c, s) THEN 1 ELSE 0) + Cardinality(Holders(c, s))
            + (IF InRing(c, s) THEN 1 ELSE 0)
            + (IF Sent(c, s) THEN 1 ELSE 0) = 1

\* A worker leaves only when nothing is queued and nothing more can be: what
\* was accepted from clients whose close_client was skipped is drained first.
DrainedBeforeExit ==
    At("exited") # {} =>
        shuttingDown /\ \A c \in Clients : queue[c] = <<>>

\* Refinement: to each client the pool is a queue of ordered replies.
Replies == INSTANCE OrderedReplies
    WITH accepted <- received,
         replies  <- fifo,
         open     <- [c \in Clients |-> ~disconnected[c]]

RepliesSpec == Replies!Spec
RepliesFairSpec == Replies!FairSpec

\* Every accepted request is answered, or its client is given up.
EveryRequestAnswered ==
    \A c \in Clients : \A s \in 0 .. MaxRequests - 1 :
        received[c] > s ~> responsesSent[c] > s \/ disconnected[c]

\* Once the main loop is left, every worker is joined and the pool freed.
ShutdownCompletes == main = "stopping" ~> main = "freed"
=============================================================================
