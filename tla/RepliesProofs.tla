--------------------------- MODULE RepliesProofs ----------------------------
(***************************************************************************)
(* Proofs that ThreadPool implements OrderedReplies, that the ring of      *)
(* pending responses stays sound, and that no request of a client that     *)
(* does not run ahead of its ring is lost or repeated, for every set of    *)
(* clients and workers, every ring size and every number of requests.      *)
(***************************************************************************)
EXTENDS ThreadPoolProofs

-----------------------------------------------------------------------------
(* output_mutex.                                                           *)

\* The steps that neither enter nor leave a flush.
LEMMA LockUnchanged ==
    ASSUME Types, LockHeldWhileFlushing, UNCHANGED outputLock,
           \A w \in Workers :
             \/ worker'[w] = worker[w] /\ job'[w] = job[w]
             \/ worker[w] # "flush" /\ worker'[w] # "flush"
    PROVE  LockHeldWhileFlushing'
BY DEF LockHeldWhileFlushing

\* A worker that starts to flush held no lock before.
LEMMA LockTaken ==
    ASSUME Types, LockHeldWhileFlushing, NEW w \in Workers, NEW c \in Clients,
           StoreResponse(w, c)
    PROVE  LockHeldWhileFlushing'
<1>1. /\ outputLock[c] = NoWorker
      /\ outputLock' = [outputLock EXCEPT ![c] = w]
      /\ worker[w] = "deliver"
      /\ worker' = [worker EXCEPT ![w] = "flush"]
      /\ job' = job /\ job[w].client = c
  BY DEF StoreResponse, LockFree
<1>2. ASSUME NEW d \in Clients, NEW v \in Workers
      PROVE  outputLock'[d] = v <=> worker'[v] = "flush" /\ job'[v].client = d
  <2>1. outputLock[d] = v <=> worker[v] = "flush" /\ job[v].client = d
    BY DEF LockHeldWhileFlushing
  <2>2. outputLock \in [Clients -> Workers \cup {NoWorker}]
        /\ worker \in [Workers -> WorkerPlaces]
    BY DEF Types
  <2>3. CASE v = w
    BY <2>1, <2>2, <2>3, <1>1
  <2>4. CASE v # w
    BY <2>1, <2>2, <2>4, <1>1, WorkersAssumption
  <2> QED  BY <2>3, <2>4
<1> QED  BY <1>2 DEF LockHeldWhileFlushing

\* A worker that stops flushing held the lock of its client and no other.
LEMMA LockReleased ==
    ASSUME Types, LockHeldWhileFlushing, NEW w \in Workers, NEW c \in Clients,
           worker[w] = "flush", job[w].client = c, Unlock(w, c)
    PROVE  LockHeldWhileFlushing'
<1>1. /\ outputLock' = [outputLock EXCEPT ![c] = NoWorker]
      /\ worker' = [worker EXCEPT ![w] = "lock"]
      /\ job' = [job EXCEPT ![w] = NoJob]
  BY DEF Unlock
<1>2. ASSUME NEW d \in Clients, NEW v \in Workers
      PROVE  outputLock'[d] = v <=> worker'[v] = "flush" /\ job'[v].client = d
  <2>1. /\ outputLock[d] = v <=> worker[v] = "flush" /\ job[v].client = d
        /\ outputLock[d] = w <=> worker[w] = "flush" /\ job[w].client = d
        /\ outputLock[c] = w
    BY DEF LockHeldWhileFlushing
  <2>2. /\ outputLock \in [Clients -> Workers \cup {NoWorker}]
        /\ worker \in [Workers -> WorkerPlaces]
        /\ job \in [Workers -> Jobs \cup {NoJob}]
    BY DEF Types
  <2>3. CASE v = w
    BY <2>1, <2>2, <2>3, <1>1, WorkersAssumption
  <2>4. CASE v # w
    BY <2>1, <2>2, <2>4, <1>1, WorkersAssumption
  <2> QED  BY <2>3, <2>4
<1> QED  BY <1>2 DEF LockHeldWhileFlushing

\* Every step takes the lock, releases it, or leaves it with its holder.
LEMMA LockStep ==
    Types /\ LockHeldWhileFlushing /\ [Next]_vars => LockHeldWhileFlushing'
<1> SUFFICES ASSUME Types, LockHeldWhileFlushing, [Next]_vars
             PROVE  LockHeldWhileFlushing'
  OBVIOUS
<1>1. ASSUME NEW c \in Clients,
             Register(c) \/ Submit(c) \/ BeginClose(c) \/ CloseStep(c)
      PROVE  LockHeldWhileFlushing'
  <2>1. UNCHANGED <<outputLock, job>> /\ (UNCHANGED worker \/ SignalOne)
    BY <1>1 DEF Register, Submit, BeginClose, CloseStep, MarkDisconnected,
                RemoveClient, CloseFds, clientVars, outputVars, threadVars
  <2>2. \A w \in Workers :
          \/ worker'[w] = worker[w]
          \/ worker[w] = "asleep" /\ worker'[w] = "lock"
    BY <2>1 DEF SignalOne, At, Types
  <2> QED  BY <2>1, <2>2, LockUnchanged
<1>2. CASE StopServing \/ BeginDestroy \/ FinishDestroy
  <2>1. UNCHANGED <<outputLock, job>> /\ (UNCHANGED worker \/ WakeAll)
    BY <1>2 DEF StopServing, BeginDestroy, FinishDestroy, clientVars,
                outputVars
  <2>2. \A w \in Workers :
          \/ worker'[w] = worker[w]
          \/ worker[w] = "asleep" /\ worker'[w] = "lock"
    BY <2>1 DEF WakeAll, Types
  <2> QED  BY <2>1, <2>2, LockUnchanged
<1>3. ASSUME NEW w \in Workers,
             \/ Sleep(w) \/ SpuriousWake(w) \/ Exit(w) \/ HandlerReturn(w)
             \/ \E c \in Clients : Dequeue(w, c) \/ DiscardResponse(w, c)
      PROVE  LockHeldWhileFlushing'
  <2>1. /\ UNCHANGED outputLock
        /\ worker[w] # "flush" /\ worker'[w] # "flush"
        /\ \A v \in Workers \ {w} : worker'[v] = worker[v] /\ job'[v] = job[v]
    BY <1>3 DEF Sleep, SpuriousWake, Exit, HandlerReturn, Dequeue,
                DiscardResponse, clientVars, outputVars, Types
  <2> QED  BY <2>1, LockUnchanged
<1>4. ASSUME NEW w \in Workers, NEW c \in Clients, WriteResponse(w, c)
      PROVE  LockHeldWhileFlushing'
  BY <1>4, LockUnchanged DEF WriteResponse, threadVars
<1>5. ASSUME NEW w \in Workers, NEW c \in Clients,
             WriteFails(w, c) \/ FlushDone(w, c)
      PROVE  LockHeldWhileFlushing'
  BY <1>5, LockReleased DEF WriteFails, FlushDone
<1>6. CASE UNCHANGED vars
  BY <1>6, LockUnchanged DEF vars, clientVars, outputVars, threadVars
<1> QED  BY <1>1, <1>2, <1>3, <1>4, <1>5, <1>6, LockTaken
         DEF Next, WorkerStep, Send, Terminated

\* output_mutex is held exactly by the worker that flushes the client's ring
\* (send_ordered_response).
THEOREM LockTheorem == Spec => []LockHeldWhileFlushing
<1>1. Init => Types /\ LockHeldWhileFlushing
  BY TypesInit, WorkersAssumption DEF Init, LockHeldWhileFlushing
<1>2. Types /\ LockHeldWhileFlushing /\ [Next]_vars
        => (Types /\ LockHeldWhileFlushing)'
  BY TypesStep, LockStep
<1> QED  BY <1>1, <1>2, PTL DEF Spec

-----------------------------------------------------------------------------
(* The ring of pending responses.                                          *)

\* The steps that leave the ring alone, but for giving clients up.
LEMMA RingUnchanged ==
    ASSUME Types, RingSound, UNCHANGED outputVars,
           \A c \in Clients : disconnected[c] => disconnected'[c]
    PROVE  RingSound'
BY DEF RingSound, FlushReady, outputVars

\* What the steps of a flush do to the ring of client c, and to no other.
LEMMA RingOthers ==
    ASSUME Types, RingSound, NEW c \in Clients, NEW d \in Clients, d # c,
           slots'[d] = slots[d], responsesSent'[d] = responsesSent[d],
           outputLock'[d] = outputLock[d],
           disconnected'[d] = disconnected[d]
    PROVE  /\ \A k \in Slots :
                slots'[d][k] # NotReady =>
                   /\ Slot(slots'[d][k]) = k
                   /\ slots'[d][k] >= responsesSent'[d]
                   /\ slots'[d][k] < responsesSent'[d] + MaxPendingResponses
           /\ outputLock'[d] = NoWorker /\ ~disconnected'[d]
                => ~(slots'[d][Slot(responsesSent'[d])] = responsesSent'[d])
BY DEF RingSound, FlushReady

\* A stored response is in the window, in the slot of its number.
LEMMA RingStore ==
    ASSUME Types, RingSound, NEW w \in Workers, NEW c \in Clients,
           StoreResponse(w, c)
    PROVE  RingSound'
<1> DEFINE n == job[w].seq
           sent == responsesSent[c]
<1>1. /\ n \in Nat /\ sent \in Nat
      /\ Slot(n) \in Slots
      /\ n >= sent /\ n < sent + MaxPendingResponses
  <2>1. job[w] \in Jobs
    BY ClientsAssumption DEF StoreResponse, NoJob, Types
  <2>2. n \in Nat
    BY <2>1 DEF Jobs
  <2> QED  BY <2>2, SlotInRing DEF StoreResponse, Accepts, Types
<1>2. /\ slots' = [slots EXCEPT ![c][Slot(n)] = n]
      /\ outputLock' = [outputLock EXCEPT ![c] = w]
      /\ UNCHANGED <<responsesSent, disconnected>>
  BY DEF StoreResponse
<1>3. /\ slots \in [Clients -> [Slots -> Nat \cup {NotReady}]]
      /\ outputLock \in [Clients -> Workers \cup {NoWorker}]
  BY DEF Types
<1>4. outputLock'[c] # NoWorker
  BY <1>2, <1>3, WorkersAssumption
<1>5. ASSUME NEW k \in Slots, slots'[c][k] # NotReady
      PROVE  /\ Slot(slots'[c][k]) = k
             /\ slots'[c][k] >= sent
             /\ slots'[c][k] < sent + MaxPendingResponses
  <2>1. CASE k = Slot(n)
    <3>1. slots'[c][k] = n
      BY <2>1, <1>2, <1>3
    <3> QED  BY <3>1, <2>1, <1>1
  <2>2. CASE k # Slot(n)
    <3>1. slots'[c][k] = slots[c][k]
      BY <2>2, <1>2, <1>3
    <3> QED  BY <3>1, <1>5 DEF RingSound
  <2> QED  BY <2>1, <2>2
<1>6. ASSUME NEW d \in Clients, d # c
      PROVE  /\ slots'[d] = slots[d] /\ outputLock'[d] = outputLock[d]
             /\ responsesSent'[d] = responsesSent[d]
             /\ disconnected'[d] = disconnected[d]
  BY <1>2, <1>3, <1>6
<1> QED  BY <1>2, <1>4, <1>5, <1>6, RingOthers DEF RingSound, FlushReady

\* A written response leaves its slot and moves the window past itself.
LEMMA RingWrite ==
    ASSUME Types, RingSound, LockHeldWhileFlushing,
           NEW w \in Workers, NEW c \in Clients, WriteResponse(w, c)
    PROVE  RingSound'
<1> DEFINE sent == responsesSent[c]
<1>1. sent \in Nat /\ Slot(sent) \in Slots /\ MaxPendingResponses \in Nat
  BY SlotInRing, WindowAssumption DEF Types
<1>2. /\ slots' = [slots EXCEPT ![c][Slot(sent)] = NotReady]
      /\ responsesSent' = [responsesSent EXCEPT ![c] = sent + 1]
      /\ UNCHANGED <<outputLock, disconnected>>
  BY DEF WriteResponse
<1>3. /\ slots \in [Clients -> [Slots -> Nat \cup {NotReady}]]
      /\ responsesSent \in [Clients -> Nat]
  BY DEF Types
<1>4. outputLock'[c] # NoWorker
  BY <1>2, WorkersAssumption DEF LockHeldWhileFlushing, WriteResponse
<1>5. responsesSent'[c] = sent + 1
  BY <1>2, <1>3
<1>6. ASSUME NEW k \in Slots, slots'[c][k] # NotReady
      PROVE  /\ Slot(slots'[c][k]) = k
             /\ slots'[c][k] >= sent + 1
             /\ slots'[c][k] < sent + 1 + MaxPendingResponses
  <2>1. k # Slot(sent) /\ slots'[c][k] = slots[c][k]
    BY <1>2, <1>3, <1>6
  <2>2. /\ Slot(slots[c][k]) = k
        /\ slots[c][k] >= sent
        /\ slots[c][k] < sent + MaxPendingResponses
    BY <2>1, <1>6 DEF RingSound
  <2>3. slots[c][k] \in Nat /\ slots[c][k] # sent
    BY <2>1, <2>2, <1>3, <1>6
  <2> QED  BY <2>1, <2>2, <2>3, <1>1
<1>7. ASSUME NEW d \in Clients, d # c
      PROVE  /\ slots'[d] = slots[d] /\ outputLock'[d] = outputLock[d]
             /\ responsesSent'[d] = responsesSent[d]
             /\ disconnected'[d] = disconnected[d]
  BY <1>2, <1>3, <1>7
<1> QED  BY <1>4, <1>5, <1>6, <1>7, RingOthers DEF RingSound, FlushReady

\* A response that could not be written leaves its slot; its client is given up.
LEMMA RingFail ==
    ASSUME Types, RingSound, NEW w \in Workers, NEW c \in Clients,
           WriteFails(w, c)
    PROVE  RingSound'
<1> DEFINE sent == responsesSent[c]
<1>1. Slot(sent) \in Slots
  BY SlotInRing DEF Types
<1>2. /\ slots' = [slots EXCEPT ![c][Slot(sent)] = NotReady]
      /\ outputLock' = [outputLock EXCEPT ![c] = NoWorker]
      /\ disconnected' = [disconnected EXCEPT ![c] = TRUE]
      /\ responsesSent' = responsesSent
  BY DEF WriteFails, Unlock, GiveUp
<1>3. /\ slots \in [Clients -> [Slots -> Nat \cup {NotReady}]]
      /\ outputLock \in [Clients -> Workers \cup {NoWorker}]
      /\ disconnected \in [Clients -> BOOLEAN]
  BY DEF Types
<1>4. disconnected'[c]
  BY <1>2, <1>3
<1>5. ASSUME NEW k \in Slots, slots'[c][k] # NotReady
      PROVE  slots'[c][k] = slots[c][k]
  BY <1>2, <1>3, <1>5
<1>6. ASSUME NEW d \in Clients, d # c
      PROVE  /\ slots'[d] = slots[d] /\ outputLock'[d] = outputLock[d]
             /\ responsesSent'[d] = responsesSent[d]
             /\ disconnected'[d] = disconnected[d]
  BY <1>2, <1>3, <1>6
<1> QED  BY <1>2, <1>4, <1>5, <1>6, RingOthers DEF RingSound, FlushReady

\* The flush ends when the response to send next is not there.
LEMMA RingDone ==
    ASSUME Types, RingSound, NEW w \in Workers, NEW c \in Clients,
           FlushDone(w, c)
    PROVE  RingSound'
<1>1. /\ outputLock' = [outputLock EXCEPT ![c] = NoWorker]
      /\ UNCHANGED <<slots, responsesSent, disconnected>>
      /\ ~FlushReady(c)
  BY DEF FlushDone, Unlock
<1>2. ASSUME NEW d \in Clients, d # c PROVE outputLock'[d] = outputLock[d]
  BY <1>1, <1>2 DEF Types
<1> QED  BY <1>1, <1>2 DEF RingSound, FlushReady

\* Every step is one of those above.
LEMMA RingStep ==
    Types /\ LockHeldWhileFlushing /\ RingSound /\ [Next]_vars => RingSound'
<1> SUFFICES ASSUME Types, LockHeldWhileFlushing, RingSound, [Next]_vars
             PROVE  RingSound'
  OBVIOUS
<1>1. ASSUME NEW c \in Clients,
             Register(c) \/ Submit(c) \/ BeginClose(c) \/ CloseStep(c)
      PROVE  RingSound'
  BY <1>1, RingUnchanged
     DEF Register, Submit, BeginClose, CloseStep, MarkDisconnected, GiveUp,
         RemoveClient, CloseFds, clientVars, Types
<1>2. CASE StopServing \/ BeginDestroy \/ FinishDestroy
  BY <1>2, RingUnchanged
     DEF StopServing, BeginDestroy, FinishDestroy, clientVars
<1>3. ASSUME NEW w \in Workers,
             \/ Sleep(w) \/ SpuriousWake(w) \/ Exit(w) \/ HandlerReturn(w)
             \/ \E c \in Clients : Dequeue(w, c) \/ DiscardResponse(w, c)
      PROVE  RingSound'
  BY <1>3, RingUnchanged
     DEF Sleep, SpuriousWake, Exit, HandlerReturn, Dequeue, DiscardResponse,
         clientVars
<1>4. CASE UNCHANGED vars
  BY <1>4, RingUnchanged DEF vars, clientVars
<1> QED  BY <1>1, <1>2, <1>3, <1>4, RingStore, RingWrite, RingFail, RingDone
         DEF Next, WorkerStep, Send, Terminated

\* The ring of pending responses is sound: each slot holds the response of the
\* current window that belongs in it, and the one to send next is never left
\* waiting with output_mutex free (send_ordered_response).
THEOREM RingTheorem == Spec => []RingSound
<1>1. Init => Types /\ LockHeldWhileFlushing /\ RingSound
  <2>1. Init => \A c \in Clients :
          /\ slots[c] = [k \in Slots |-> NotReady]
          /\ responsesSent[c] = 0
    BY DEF Init
  <2>2. 0 # NotReady /\ Slot(0) \in Slots
    BY NotReadyAssumption, SlotInRing
  <2>3. Init => RingSound
    BY <2>1, <2>2 DEF RingSound, FlushReady
  <2>4. Init => LockHeldWhileFlushing
    BY WorkersAssumption DEF Init, LockHeldWhileFlushing
  <2> QED  BY <2>3, <2>4, TypesInit
<1>2. Types /\ LockHeldWhileFlushing /\ RingSound /\ [Next]_vars
        => (Types /\ LockHeldWhileFlushing /\ RingSound)'
  BY TypesStep, LockStep, RingStep
<1> QED  BY <1>1, <1>2, PTL DEF Spec

-----------------------------------------------------------------------------
(* ThreadPool implements OrderedReplies.                                   *)

\* The numbers the pool carries are those of accepted requests, and
\* responses_sent counts what is in the FIFO.
Numbers ==
    \A c \in Clients :
        /\ Len(fifo[c]) = responsesSent[c]
        /\ \A i \in DOMAIN queue[c] : queue[c][i] < received[c]
        /\ \A w \in Workers : job[w].client = c => job[w].seq < received[c]
        /\ \A k \in Slots :
             slots[c][k] # NotReady => slots[c][k] < received[c]

\* At first there is no request and no reply.
LEMMA NumbersInit == Init => Numbers
BY ClientsAssumption DEF Init, Numbers, NoJob

\* The steps that carry nothing on.
LEMMA NumbersUnchanged ==
    ASSUME Types, Numbers,
           UNCHANGED <<received, queue, job, slots, responsesSent, fifo>>
    PROVE  Numbers'
BY DEF Numbers

\* The new request takes the number that requests_received had.
LEMMA NumbersSubmit ==
    ASSUME Types, Numbers, NEW c \in Clients, Submit(c)
    PROVE  Numbers'
<1>1. /\ received' = [received EXCEPT ![c] = @ + 1]
      /\ queue' = [queue EXCEPT ![c] = Append(@, received[c])]
      /\ UNCHANGED <<job, slots, responsesSent, fifo>>
  BY DEF Submit, outputVars
<1>2. /\ received \in [Clients -> Nat] /\ queue \in [Clients -> Seq(Nat)]
      /\ job \in [Workers -> Jobs \cup {NoJob}]
      /\ slots \in [Clients -> [Slots -> Nat \cup {NotReady}]]
  BY DEF Types
<1>3. ASSUME NEW d \in Clients, NEW i \in DOMAIN queue'[d]
      PROVE  queue'[d][i] < received'[d]
  <2>1. CASE d = c
    <3>1. /\ queue[c] \in Seq(Nat) /\ Len(queue[c]) \in Nat
          /\ DOMAIN queue[c] = 1 .. Len(queue[c])
          /\ received[c] \in Nat /\ received'[c] = received[c] + 1
          /\ queue'[c] = Append(queue[c], received[c])
      BY <1>1, <1>2
    <3>2. i \in 1 .. Len(queue[c]) + 1
      BY <2>1, <3>1, <1>3
    <3>3. CASE i = Len(queue[c]) + 1
      BY <2>1, <3>1, <3>3
    <3>4. CASE i # Len(queue[c]) + 1
      <4>1. i \in DOMAIN queue[c] /\ queue'[c][i] = queue[c][i]
        BY <3>1, <3>2, <3>4
      <4>2. queue[c][i] < received[c] /\ queue[c][i] \in Nat
        BY <3>1, <4>1 DEF Numbers
      <4> QED  BY <2>1, <3>1, <4>1, <4>2
    <3> QED  BY <3>3, <3>4
  <2>2. CASE d # c
    <3>1. queue'[d] = queue[d] /\ received'[d] = received[d]
      BY <2>2, <1>1, <1>2
    <3> QED  BY <3>1, <1>3 DEF Numbers
  <2> QED  BY <2>1, <2>2
<1>4. \A d \in Clients : received[d] \in Nat /\ received[d] <= received'[d]
  BY <1>1, <1>2
<1>5. ASSUME NEW d \in Clients, NEW w \in Workers, job[w].client = d
      PROVE  job[w].seq < received'[d]
  <2>1. job[w].seq \in Nat
    BY <1>2 DEF Jobs, NoJob
  <2> QED  BY <2>1, <1>4, <1>5, <1>1 DEF Numbers
<1>6. ASSUME NEW d \in Clients, NEW k \in Slots, slots[d][k] # NotReady
      PROVE  slots[d][k] < received'[d]
  BY <1>2, <1>4, <1>6, <1>1 DEF Numbers
<1> QED  BY <1>1, <1>3, <1>5, <1>6 DEF Numbers

\* The number at the head of a queue passes to the worker that takes it.
LEMMA NumbersDequeue ==
    ASSUME Types, Numbers, NEW w \in Workers, NEW c \in Clients, Dequeue(w, c)
    PROVE  Numbers'
<1>1. /\ queue' = [queue EXCEPT ![c] = Tail(@)]
      /\ job' = [job EXCEPT ![w] = [client |-> c, seq |-> Head(queue[c])]]
      /\ UNCHANGED <<received, slots, responsesSent, fifo>>
  BY DEF Dequeue, clientVars, outputVars
<1>2. /\ queue[c] \in Seq(Nat) /\ queue[c] # <<>>
      /\ DOMAIN queue[c] = 1 .. Len(queue[c]) /\ Len(queue[c]) \in Nat
  BY DEF Types, Dequeue, FairChoice
<1>3. Head(queue[c]) < received[c]
  <2>1. 1 \in DOMAIN queue[c] /\ Head(queue[c]) = queue[c][1]
    BY <1>2
  <2> QED  BY <2>1 DEF Numbers
<1>4. \A i \in DOMAIN Tail(queue[c]) :
        i + 1 \in DOMAIN queue[c] /\ Tail(queue[c])[i] = queue[c][i + 1]
  <2>1. /\ Tail(queue[c]) \in Seq(Nat)
        /\ Len(Tail(queue[c])) = Len(queue[c]) - 1
        /\ \A i \in 1 .. Len(Tail(queue[c])) :
             Tail(queue[c])[i] = queue[c][i + 1]
    BY <1>2, HeadTailProperties
  <2>2. DOMAIN Tail(queue[c]) = 1 .. Len(queue[c]) - 1
    BY <2>1
  <2> QED  BY <2>1, <2>2, <1>2
<1>5. ASSUME NEW d \in Clients, NEW i \in DOMAIN queue'[d]
      PROVE  queue'[d][i] < received[d]
  <2>1. CASE d = c
    <3>1. queue'[c] = Tail(queue[c])
      BY <1>1 DEF Types
    <3> QED  BY <2>1, <3>1, <1>4, <1>5 DEF Numbers
  <2>2. CASE d # c
    <3>1. queue'[d] = queue[d]
      BY <2>2, <1>1 DEF Types
    <3> QED  BY <3>1, <1>5 DEF Numbers
  <2> QED  BY <2>1, <2>2
<1>6. ASSUME NEW d \in Clients, NEW v \in Workers, job'[v].client = d
      PROVE  job'[v].seq < received[d]
  <2>1. CASE v = w
    <3>1. job'[v] = [client |-> c, seq |-> Head(queue[c])]
      BY <2>1, <1>1 DEF Types
    <3> QED  BY <3>1, <1>3, <1>6
  <2>2. CASE v # w
    <3>1. job'[v] = job[v]
      BY <2>2, <1>1 DEF Types
    <3> QED  BY <3>1, <1>6 DEF Numbers
  <2> QED  BY <2>1, <2>2
<1> QED  BY <1>1, <1>5, <1>6 DEF Numbers

\* The steps that drop queued requests, jobs or slots.
LEMMA NumbersDrop ==
    ASSUME Types, Numbers, UNCHANGED <<received, responsesSent, fifo>>,
           \A c \in Clients : queue'[c] = queue[c] \/ queue'[c] = <<>>,
           \A w \in Workers : job'[w] = job[w] \/ job'[w] = NoJob,
           \A c \in Clients, k \in Slots :
             slots'[c][k] = slots[c][k] \/ slots'[c][k] = NotReady
    PROVE  Numbers'
<1>1. \A c \in Clients : NoJob.client # c
  BY ClientsAssumption DEF NoJob
<1> QED  BY <1>1 DEF Numbers

\* The number of a stored response passes from its worker to its slot.
LEMMA NumbersStore ==
    ASSUME Types, Numbers, NEW w \in Workers, NEW c \in Clients,
           StoreResponse(w, c)
    PROVE  Numbers'
<1>1. /\ slots' = [slots EXCEPT ![c][Slot(job[w].seq)] = job[w].seq]
      /\ job[w].client = c
      /\ UNCHANGED <<received, queue, job, responsesSent, fifo>>
  BY DEF StoreResponse, poolVars
<1>2. job[w].seq < received[c]
  BY <1>1 DEF Numbers
<1>3. ASSUME NEW d \in Clients, NEW k \in Slots, slots'[d][k] # NotReady
      PROVE  slots'[d][k] < received[d]
  <2>1. \/ slots'[d][k] = slots[d][k]
        \/ d = c /\ slots'[d][k] = job[w].seq
    BY <1>1 DEF Types
  <2> QED  BY <2>1, <1>2, <1>3 DEF Numbers
<1> QED  BY <1>1, <1>3 DEF Numbers

\* The response written is the next number the client waits for.
LEMMA NumbersWrite ==
    ASSUME Types, Numbers, NEW w \in Workers, NEW c \in Clients,
           WriteResponse(w, c)
    PROVE  Numbers'
<1> DEFINE sent == responsesSent[c]
<1>1. /\ fifo' = [fifo EXCEPT ![c] = Append(@, slots[c][Slot(sent)])]
      /\ slots' = [slots EXCEPT ![c][Slot(sent)] = NotReady]
      /\ responsesSent' = [responsesSent EXCEPT ![c] = @ + 1]
      /\ UNCHANGED <<received, queue, job>>
  BY DEF WriteResponse, poolVars, threadVars
<1>2. ASSUME NEW d \in Clients PROVE Len(fifo'[d]) = responsesSent'[d]
  <2>1. /\ fifo \in [Clients -> Seq(Nat)] /\ responsesSent \in [Clients -> Nat]
        /\ Len(fifo[d]) = responsesSent[d]
    BY DEF Types, Numbers
  <2>2. slots[c][Slot(sent)] \in Nat
    BY <2>1 DEF WriteResponse, FlushReady
  <2>3. CASE d = c
    <3>1. /\ fifo'[d] = Append(fifo[d], slots[c][Slot(sent)])
          /\ responsesSent'[d] = responsesSent[d] + 1
      BY <2>1, <2>3, <1>1
    <3> QED  BY <3>1, <2>1, <2>2
  <2>4. CASE d # c
    BY <2>1, <2>4, <1>1
  <2> QED  BY <2>3, <2>4
<1>3. \A d \in Clients, k \in Slots :
        slots'[d][k] = slots[d][k] \/ slots'[d][k] = NotReady
  BY <1>1, SlotInRing DEF Types
<1> QED  BY <1>1, <1>2, <1>3 DEF Numbers

\* Every step is one of those above.
LEMMA NumbersStep == Types /\ Numbers /\ [Next]_vars => Numbers'
<1> SUFFICES ASSUME Types, Numbers, [Next]_vars PROVE Numbers'
  OBVIOUS
<1>1. ASSUME NEW c \in Clients, Register(c) \/ BeginClose(c) \/ CloseStep(c)
      PROVE  Numbers'
  BY <1>1, NumbersDrop
     DEF Register, BeginClose, CloseStep, MarkDisconnected, RemoveClient,
         CloseFds, Types, poolVars, clientVars, outputVars, threadVars
<1>2. CASE StopServing \/ BeginDestroy
  BY <1>2, NumbersUnchanged
     DEF StopServing, BeginDestroy, poolVars, clientVars, outputVars
<1>3. CASE FinishDestroy
  BY <1>3, NumbersDrop DEF FinishDestroy, clientVars, outputVars
<1>4. ASSUME NEW w \in Workers,
             Sleep(w) \/ SpuriousWake(w) \/ Exit(w) \/ HandlerReturn(w)
      PROVE  Numbers'
  BY <1>4, NumbersUnchanged
     DEF Sleep, SpuriousWake, Exit, HandlerReturn, poolVars, clientVars,
         outputVars
<1>5. ASSUME NEW w \in Workers, NEW c \in Clients,
             DiscardResponse(w, c) \/ WriteFails(w, c) \/ FlushDone(w, c)
      PROVE  Numbers'
  <2>1. UNCHANGED <<received, responsesSent, fifo, queue>>
    BY <1>5 DEF DiscardResponse, WriteFails, FlushDone, poolVars, clientVars,
                outputVars
  <2>2. \A v \in Workers : job'[v] = job[v] \/ job'[v] = NoJob
    BY <1>5 DEF DiscardResponse, WriteFails, FlushDone, Unlock, Types
  <2>3. \A d \in Clients, k \in Slots :
          slots'[d][k] = slots[d][k] \/ slots'[d][k] = NotReady
    BY <1>5, SlotInRing DEF DiscardResponse, WriteFails, FlushDone, Types,
                            clientVars, outputVars
  <2> QED  BY <2>1, <2>2, <2>3, NumbersDrop
<1>6. CASE UNCHANGED vars
  BY <1>6, NumbersUnchanged
     DEF vars, poolVars, clientVars, outputVars, threadVars
<1> QED  BY <1>1, <1>2, <1>3, <1>4, <1>5, <1>6, NumbersSubmit, NumbersDequeue,
            NumbersStore, NumbersWrite
         DEF Next, WorkerStep, Send, Terminated

\* A client that is given up hangs up, unless it had been before.
LEMMA GiveUpImplements ==
    ASSUME Types, NEW c \in Clients, GiveUp(c), UNCHANGED <<received, fifo>>
    PROVE  [Replies!Next]_Replies!vars
<1> DEFINE open == [d \in Clients |-> ~disconnected[d]]
<1>1. open' = [open EXCEPT ![c] = FALSE]
  BY DEF GiveUp, Types
<1>2. CASE disconnected[c]
  <2>1. open' = open
    BY <1>2 DEF GiveUp, Types
  <2> QED  BY <2>1 DEF Replies!vars
<1>3. CASE ~disconnected[c]
  <2>1. Replies!HangUp(c)
    BY <1>1, <1>3 DEF Replies!HangUp
  <2> QED  BY <2>1 DEF Replies!Next
<1>4. disconnected[c] \in BOOLEAN
  BY DEF Types
<1> QED  BY <1>2, <1>3, <1>4

\* A submitted request is accepted.
LEMMA SubmitImplements ==
    ASSUME Types, NEW c \in Clients, Submit(c)
    PROVE  Replies!Accept(c)
BY DEF Submit, Submittable, outputVars, Replies!Accept

\* The response written is the one the client is waiting for.
LEMMA WriteImplements ==
    ASSUME Types, Numbers, NEW w \in Workers, NEW c \in Clients,
           WriteResponse(w, c)
    PROVE  Replies!Reply(c)
<1>1. /\ slots[c][Slot(responsesSent[c])] = responsesSent[c]
      /\ fifo' = [fifo EXCEPT ![c] =
                     Append(@, slots[c][Slot(responsesSent[c])])]
      /\ UNCHANGED <<received, disconnected>>
  BY DEF WriteResponse, FlushReady
<1>2. /\ Len(fifo[c]) = responsesSent[c]
      /\ responsesSent[c] \in Nat
      /\ Slot(responsesSent[c]) \in Slots
  BY SlotInRing DEF Numbers, Types
<1>3. responsesSent[c] < received[c]
  BY <1>1, <1>2, NotReadyAssumption DEF Numbers
<1>4. fifo' = [fifo EXCEPT ![c] = Append(@, Len(fifo[c]))]
  BY <1>1, <1>2
<1> QED  BY <1>1, <1>2, <1>3, <1>4 DEF Replies!Reply

\* Every step of the pool is a step of the promise, or a stutter.
LEMMA StepImplements ==
    Types /\ Numbers /\ [Next]_vars => [Replies!Next]_Replies!vars
<1> SUFFICES ASSUME Types, Numbers, [Next]_vars
             PROVE  [Replies!Next]_Replies!vars
  OBVIOUS
<1>1. ASSUME UNCHANGED <<received, fifo, disconnected>>
      PROVE  UNCHANGED Replies!vars
  BY <1>1 DEF Replies!vars
<1>2. ASSUME NEW c \in Clients, Submit(c) PROVE [Replies!Next]_Replies!vars
  BY <1>2, SubmitImplements DEF Replies!Next
<1>3. ASSUME NEW c \in Clients, MarkDisconnected(c)
      PROVE  [Replies!Next]_Replies!vars
  BY <1>3, GiveUpImplements DEF MarkDisconnected, outputVars
<1>4. ASSUME NEW w \in Workers, NEW c \in Clients, WriteFails(w, c)
      PROVE  [Replies!Next]_Replies!vars
  BY <1>4, GiveUpImplements DEF WriteFails
<1>5. ASSUME NEW w \in Workers, NEW c \in Clients, WriteResponse(w, c)
      PROVE  [Replies!Next]_Replies!vars
  BY <1>5, WriteImplements DEF Replies!Next
<1>6. ASSUME NEW c \in Clients,
             Register(c) \/ BeginClose(c) \/ RemoveClient(c) \/ CloseFds(c)
      PROVE  UNCHANGED Replies!vars
  BY <1>6, <1>1
     DEF Register, BeginClose, RemoveClient, CloseFds, clientVars, outputVars
<1>7. CASE StopServing \/ BeginDestroy \/ FinishDestroy
  BY <1>7, <1>1
     DEF StopServing, BeginDestroy, FinishDestroy, clientVars, outputVars
<1>8. ASSUME NEW w \in Workers,
             \/ Sleep(w) \/ SpuriousWake(w) \/ Exit(w) \/ HandlerReturn(w)
             \/ \E c \in Clients : \/ Dequeue(w, c) \/ DiscardResponse(w, c)
                                   \/ StoreResponse(w, c) \/ FlushDone(w, c)
      PROVE  UNCHANGED Replies!vars
  BY <1>8, <1>1
     DEF Sleep, SpuriousWake, Exit, HandlerReturn, Dequeue, DiscardResponse,
         StoreResponse, FlushDone, clientVars, outputVars
<1>9. CASE UNCHANGED vars
  BY <1>9, <1>1 DEF vars, clientVars, outputVars
<1> QED  BY <1>2, <1>3, <1>4, <1>5, <1>6, <1>7, <1>8, <1>9
         DEF Next, CloseStep, WorkerStep, Send, Terminated

\* However its workers interleave, the pool answers each client's requests on
\* its FIFO in the order they were accepted, none twice and none it did not
\* accept (threadpool_submit, send_ordered_response): it is a queue of ordered
\* replies.
THEOREM RepliesTheorem == Spec => RepliesSpec
<1>1. Init => Types /\ Numbers
  BY TypesInit, NumbersInit
<1>2. Types /\ Numbers /\ [Next]_vars => (Types /\ Numbers)'
  BY TypesStep, NumbersStep
<1>3. Init => Replies!Init
  BY DEF Init, Replies!Init
<1>4. Types /\ Numbers /\ [Next]_vars => [Replies!Next]_Replies!vars
  BY StepImplements
<1> QED  BY <1>1, <1>2, <1>3, <1>4, PTL DEF Spec, RepliesSpec, Replies!Spec

-----------------------------------------------------------------------------
(* Conservation: the inductive invariant.                                  *)

\* Only clients given up are removed and have their descriptors closed, and
\* only those with open descriptors submit.
ClosedGivenUp ==
    /\ closing.step \in {"remove", "fds"} =>
           closing.client \in Clients /\ disconnected[closing.client]
    /\ \A c \in Clients :
         /\ s2c[c] = "closed" => disconnected[c]
         /\ received[c] > 0 => s2c[c] # "none"

\* What has been sent to a client is the first of its requests, in order.
SentInOrder ==
    \A c \in Clients :
        /\ \A i \in DOMAIN fifo[c] : fifo[c][i] = i - 1
        /\ responsesSent[c] <= received[c]

Holds(w, c, s) ==
    /\ worker[w] \in {"handling", "deliver"}
    /\ job[w] = [client |-> c, seq |-> s]

\* RequestConservation for client c, said without counting.
OnePlace(c) ==
    /\ Distinct(queue[c])
    /\ \A s \in 0 .. received[c] - 1 :
         \/ InQueue(c, s) \/ InRing(c, s) \/ s < responsesSent[c]
         \/ \E w \in Workers : Holds(w, c, s)
    /\ \A s \in Nat :
         InQueue(c, s) => /\ s >= responsesSent[c] /\ ~InRing(c, s)
                          /\ \A w \in Workers : ~Holds(w, c, s)
    /\ \A s \in Nat, w \in Workers :
         Holds(w, c, s) => /\ s >= responsesSent[c] /\ ~InRing(c, s)
                           /\ \A v \in Workers : Holds(v, c, s) => v = w

Conserved == \A c \in Clients : ~disconnected[c] => OnePlace(c)

\* The client does not have more requests in progress than the ring has slots.
RingSuffices ==
    \A c \in Clients :
        ~disconnected[c] => received[c] <= responsesSent[c] + MaxPendingResponses

ConservationInvariant ==
    /\ Types /\ ListInv /\ CountInv
    /\ LockHeldWhileFlushing /\ RingSound /\ Numbers
    /\ ClosedGivenUp /\ SentInOrder /\ Conserved

-----------------------------------------------------------------------------
(* Queues and slots.                                                       *)

\* The queue once a request has been taken from its head.
LEMMA TailListed ==
    ASSUME NEW S, NEW q \in Seq(S), q # <<>>, Distinct(q)
    PROVE  /\ Distinct(Tail(q)) /\ Listed(q, Head(q))
           /\ \A x : Listed(Tail(q), x) <=> Listed(q, x) /\ x # Head(q)
<1>1. /\ Tail(q) \in Seq(S) /\ Len(Tail(q)) = Len(q) - 1 /\ Len(q) \in Nat
      /\ \A i \in 1 .. Len(q) - 1 : Tail(q)[i] = q[i + 1]
      /\ Len(q) >= 1 /\ Head(q) = q[1]
  BY HeadTailProperties
<1>2. DOMAIN q = 1 .. Len(q) /\ DOMAIN Tail(q) = 1 .. Len(q) - 1
  BY <1>1
<1> DEFINE n == Len(q)
           r == Tail(q)
<1>3. /\ n \in Nat /\ n >= 1 /\ Head(q) = q[1]
      /\ DOMAIN q = 1 .. n /\ DOMAIN r = 1 .. n - 1
      /\ \A i \in 1 .. n - 1 : r[i] = q[i + 1]
  BY <1>1, <1>2
<1> HIDE DEF n, r
<1>4. Distinct(r) /\ Listed(q, Head(q))
  <2>1. ASSUME NEW i \in 1 .. n - 1, NEW j \in 1 .. n - 1, r[i] = r[j]
        PROVE  i = j
    <3>1. i + 1 \in 1 .. n /\ j + 1 \in 1 .. n /\ q[i + 1] = q[j + 1]
      BY <1>3, <2>1
    <3>2. i + 1 = j + 1
      BY <1>3, <3>1 DEF Distinct
    <3> QED  BY <3>2
  <2>2. Listed(q, Head(q))
    <3>1. 1 \in 1 .. n
      BY <1>3
    <3> QED  BY <1>3, <3>1 DEF Listed
  <2> QED  BY <1>3, <2>1, <2>2 DEF Distinct
<1>5. ASSUME NEW x
      PROVE  Listed(r, x) <=> Listed(q, x) /\ x # Head(q)
  <2>1. ASSUME Listed(r, x) PROVE Listed(q, x) /\ x # Head(q)
    <3>1. PICK i \in 1 .. n - 1 : r[i] = x
      BY <1>3, <2>1 DEF Listed
    <3>2. i + 1 \in 1 .. n /\ i + 1 # 1 /\ q[i + 1] = x
      BY <1>3, <3>1
    <3> QED  BY <1>3, <3>2 DEF Distinct, Listed
  <2>2. ASSUME Listed(q, x), x # Head(q) PROVE Listed(r, x)
    <3>1. PICK i \in 1 .. n : q[i] = x
      BY <1>3, <2>2 DEF Listed
    <3>2. i - 1 \in 1 .. n - 1 /\ q[(i - 1) + 1] = x
      BY <1>3, <2>2, <3>1
    <3>3. r[i - 1] = x
      BY <1>3, <3>2
    <3> QED  BY <1>3, <3>2, <3>3 DEF Listed
  <2> QED  BY <2>1, <2>2
<1> QED  BY <1>4, <1>5 DEF r

\* Two numbers of the same window have different slots.
LEMMA SlotsApart ==
    ASSUME NEW x \in Nat, NEW y \in Nat, Slot(x) = Slot(y),
           x < y + MaxPendingResponses, y < x + MaxPendingResponses
    PROVE  x = y
<1> DEFINE M == MaxPendingResponses
           a == x \div M
           b == y \div M
<1>1. /\ M \in Nat /\ M > 0
      /\ a \in Nat /\ b \in Nat
      /\ x = M * a + (x % M) /\ y = M * b + (y % M)
  BY WindowAssumption
<1>2. x % M = y % M /\ x % M \in Int
  BY <1>1 DEF Slot
<1> HIDE DEF M, a, b
<1>3. x - y = M * a - M * b
  <2>1. M * a \in Int /\ M * b \in Int
    BY <1>1
  <2> QED  BY <1>1, <1>2, <2>1
<1>4. ASSUME NEW p \in Nat, NEW q \in Nat, p > q
      PROVE  M * p - M * q >= M
  <2>1. M * p - M * q = M * (p - q)
    BY <1>1
  <2>2. M * (p - q) >= M
    BY <1>1, <1>4
  <2> QED  BY <2>1, <2>2
<1>5. ~(a > b)
  BY <1>1, <1>3, <1>4 DEF M
<1>6. ~(b > a)
  <2>1. M * a \in Int /\ M * b \in Int
    BY <1>1
  <2> QED  BY <1>1, <1>3, <1>4, <2>1 DEF M
<1>7. a = b
  BY <1>1, <1>5, <1>6
<1> QED  BY <1>1, <1>3, <1>7

-----------------------------------------------------------------------------
(* Clients given up.                                                       *)

LEMMA GivenUpKept ==
    ASSUME Types, ClosedGivenUp, UNCHANGED <<closing, s2c, received>>,
           \A c \in Clients : disconnected[c] => disconnected'[c]
    PROVE  ClosedGivenUp'
BY DEF ClosedGivenUp

LEMMA GivenUpStep ==
    ASSUME Types, ListInv, ClosedGivenUp, [Next]_vars
    PROVE  ClosedGivenUp'
<1>1. ASSUME NEW c \in Clients, Register(c)
      PROVE  ClosedGivenUp'
  BY <1>1 DEF Register, threadVars, Types, ClosedGivenUp
<1>2. ASSUME NEW c \in Clients, Submit(c)
      PROVE  ClosedGivenUp'
  <2>1. s2c[c] # "none"
    BY <1>2 DEF Submit, Submittable, Registered, ListInv, Listed
  <2>2. /\ UNCHANGED <<s2c, disconnected, closing>>
        /\ \A d \in Clients \ {c} : received'[d] = received[d]
    BY <1>2 DEF Submit, Types
  <2> QED  BY <2>1, <2>2 DEF ClosedGivenUp
<1>3. ASSUME NEW c \in Clients, BeginClose(c)
      PROVE  ClosedGivenUp'
  BY <1>3 DEF BeginClose, clientVars, ClosedGivenUp
<1>4. ASSUME NEW c \in Clients, CloseStep(c)
      PROVE  ClosedGivenUp'
  <2>1. CASE MarkDisconnected(c)
    BY <2>1 DEF MarkDisconnected, GiveUp, Types, ClosedGivenUp
  <2>2. CASE RemoveClient(c)
    BY <2>2 DEF RemoveClient, clientVars, ClosedGivenUp
  <2>3. CASE CloseFds(c)
    BY <2>3 DEF CloseFds, NotClosing, Types, ClosedGivenUp
  <2> QED  BY <1>4, <2>1, <2>2, <2>3 DEF CloseStep
<1>5. CASE StopServing \/ BeginDestroy \/ FinishDestroy \/ UNCHANGED vars
  BY <1>5, GivenUpKept DEF StopServing, BeginDestroy, FinishDestroy, vars,
                           clientVars, threadVars
<1>6. ASSUME NEW w \in Workers,
             \/ Sleep(w) \/ SpuriousWake(w) \/ Exit(w) \/ HandlerReturn(w)
             \/ \E c \in Clients : Dequeue(w, c)
      PROVE  ClosedGivenUp'
  BY <1>6, GivenUpKept DEF Sleep, SpuriousWake, Exit, HandlerReturn, Dequeue,
                           clientVars
<1>7. ASSUME NEW w \in Workers, NEW c \in Clients, Send(w, c)
      PROVE  ClosedGivenUp'
  <2>1. UNCHANGED <<closing, s2c, received>>
    BY <1>7 DEF Send, DiscardResponse, StoreResponse, WriteResponse,
                WriteFails, FlushDone, clientVars, threadVars
  <2>2. UNCHANGED disconnected \/ GiveUp(c)
    BY <1>7 DEF Send, DiscardResponse, StoreResponse, WriteResponse,
                WriteFails, FlushDone, clientVars
  <2>3. \A d \in Clients : disconnected[d] => disconnected'[d]
    BY <2>2 DEF GiveUp, Types
  <2> QED  BY <2>1, <2>3, GivenUpKept
<1> QED  BY <1>1, <1>2, <1>3, <1>4, <1>5, <1>6, <1>7
         DEF Next, WorkerStep, Terminated

-----------------------------------------------------------------------------
(* What has been sent.                                                     *)

\* The steps of the pool are those of the promise OrderedReplies, whose replies
\* are in order.
LEMMA SentStep ==
    ASSUME Types, Numbers, Types', Numbers', SentInOrder, [Next]_vars
    PROVE  SentInOrder'
<1>1. [Replies!Next]_Replies!vars
  BY StepImplements
<1>2. /\ fifo \in [Clients -> Seq(Nat)] /\ received \in [Clients -> Nat]
      /\ \A c \in Clients : /\ Len(fifo[c]) = responsesSent[c]
                            /\ Len(fifo'[c]) = responsesSent'[c]
  BY DEF Types, Numbers
<1>3. CASE UNCHANGED <<received, fifo>>
  BY <1>2, <1>3 DEF SentInOrder
<1>4. ASSUME NEW e \in Clients, Replies!Accept(e)
      PROVE  SentInOrder'
  <2>1. /\ fifo' = fifo
        /\ received' = [received EXCEPT ![e] = @ + 1]
    BY <1>2, <1>4 DEF Replies!Accept
  <2>2. ASSUME NEW c \in Clients
        PROVE  responsesSent'[c] <= received'[c]
    <3>1. /\ responsesSent'[c] = responsesSent[c]
          /\ responsesSent[c] \in Nat /\ received[c] \in Nat
      BY <1>2, <2>1 DEF Types
    <3>2. received'[c] = received[c] \/ received'[c] = received[c] + 1
      BY <1>2, <2>1
    <3> QED  BY <3>1, <3>2 DEF SentInOrder
  <2> QED  BY <2>1, <2>2 DEF SentInOrder
<1>5. ASSUME NEW e \in Clients, Replies!Reply(e)
      PROVE  SentInOrder'
  <2>1. /\ fifo' = [fifo EXCEPT ![e] = Append(@, Len(fifo[e]))]
        /\ received' = received /\ Len(fifo[e]) < received[e]
    BY <1>5 DEF Replies!Reply
  <2>2. ASSUME NEW c \in Clients
        PROVE  /\ \A i \in DOMAIN fifo'[c] : fifo'[c][i] = i - 1
               /\ Len(fifo'[c]) <= received'[c]
    <3>1. CASE c = e
      <4>1. /\ fifo[c] \in Seq(Nat) /\ Len(fifo[c]) \in Nat
            /\ fifo'[c] = Append(fifo[c], Len(fifo[c]))
            /\ \A i \in 1 .. Len(fifo[c]) : fifo[c][i] = i - 1
        BY <1>2, <2>1, <3>1 DEF SentInOrder
      <4>2. Len(fifo'[c]) = Len(fifo[c]) + 1
        BY <4>1
      <4>3. \A i \in 1 .. Len(fifo[c]) + 1 : fifo'[c][i] = i - 1
        BY <4>1
      <4>4. DOMAIN fifo'[c] = 1 .. Len(fifo[c]) + 1
        BY <4>1
      <4> QED  BY <1>2, <2>1, <3>1, <4>1, <4>2, <4>3, <4>4
    <3>2. CASE c # e
      BY <1>2, <2>1, <3>2 DEF SentInOrder
    <3> QED  BY <3>1, <3>2
  <2> QED  BY <1>2, <2>2 DEF SentInOrder
<1>6. \A e \in Clients : Replies!HangUp(e) => UNCHANGED <<received, fifo>>
  BY DEF Replies!HangUp
<1> QED  BY <1>1, <1>3, <1>4, <1>5, <1>6 DEF Replies!Next, Replies!vars

-----------------------------------------------------------------------------
(* Where a request is.                                                     *)

\* What moves neither a request of c nor its response.
LEMMA PlaceKept ==
    ASSUME NEW c \in Clients, OnePlace(c),
           queue'[c] = queue[c], received'[c] = received[c],
           slots'[c] = slots[c], responsesSent'[c] = responsesSent[c],
           \A w \in Workers, s \in Nat : Holds(w, c, s)' <=> Holds(w, c, s)
    PROVE  OnePlace(c)'
<1>1. 0 .. received[c] - 1 \subseteq Nat
  OBVIOUS
<1>2. \A s : (InQueue(c, s)' <=> InQueue(c, s)) /\ (InRing(c, s)' <=> InRing(c, s))
  BY DEF InQueue, InRing
<1> QED  BY <1>1, <1>2 DEF OnePlace

\* A worker that holds no request of c before nor after.
LEMMA OtherHolders ==
    ASSUME NEW c \in Clients, NEW w \in Workers,
           \A v \in Workers \ {w} : worker'[v] = worker[v] /\ job'[v] = job[v],
           \A s \in Nat : ~Holds(w, c, s) /\ ~Holds(w, c, s)'
    PROVE  \A v \in Workers, s \in Nat : Holds(v, c, s)' <=> Holds(v, c, s)
BY DEF Holds

\* The main thread, and workers with nothing to do, move no request.
LEMMA PlacesOfMain ==
    ASSUME Types, UNCHANGED <<job, slots, responsesSent>>,
           \A w \in Workers :
               \/ worker'[w] = worker[w]
               \/ /\ worker[w] \notin {"handling", "deliver"}
                  /\ worker'[w] \notin {"handling", "deliver"},
           NEW c \in Clients, OnePlace(c),
           queue'[c] = queue[c], received'[c] = received[c]
    PROVE  OnePlace(c)'
<1>1. \A w \in Workers, s \in Nat : Holds(w, c, s)' <=> Holds(w, c, s)
  BY DEF Holds
<1> QED  BY <1>1, PlaceKept

\* A request that is accepted gets a number that nothing has yet, and is queued.
LEMMA PlaceSubmit ==
    ASSUME Types, Types', Numbers, SentInOrder, NEW c \in Clients, Submit(c),
           OnePlace(c)
    PROVE  OnePlace(c)'
<1> DEFINE n == received[c]
<1>1. /\ n \in Nat /\ queue[c] \in Seq(Nat)
      /\ received'[c] = n + 1 /\ queue'[c] = Append(queue[c], n)
      /\ UNCHANGED <<job, slots, responsesSent>>
      /\ responsesSent[c] \in Nat /\ responsesSent[c] <= n
  BY DEF Submit, outputVars, Types, SentInOrder
<1>2. /\ ~InQueue(c, n) /\ ~InRing(c, n)
      /\ \A w \in Workers : ~Holds(w, c, n)
  <2>1. ~InQueue(c, n)
    BY <1>1 DEF Numbers, InQueue
  <2>2. ~InRing(c, n)
    BY <1>1, NotReadyAssumption DEF Numbers, InRing
  <2>3. \A w \in Workers : ~Holds(w, c, n)
    BY <1>1 DEF Numbers, Holds
  <2> QED  BY <2>1, <2>2, <2>3
<1>3. /\ Distinct(queue'[c])
      /\ \A s : InQueue(c, s)' <=> InQueue(c, s) \/ s = n
  <2>1. Distinct(queue[c]) /\ ~Listed(queue[c], n)
    BY <1>2 DEF OnePlace, InQueue, Listed
  <2>2. /\ Distinct(Append(queue[c], n))
        /\ \A s : Listed(Append(queue[c], n), s) <=> Listed(queue[c], s) \/ s = n
    BY <1>1, <2>1, AppendListed
  <2> QED  BY <1>1, <2>2 DEF InQueue, Listed
<1>4. \A w \in Workers : \/ worker'[w] = worker[w]
                         \/ worker[w] = "asleep" /\ worker'[w] = "lock"
  BY DEF Submit, SignalOne, At, Types
<1>5. \A w \in Workers, s \in Nat : Holds(w, c, s)' <=> Holds(w, c, s)
  BY <1>1, <1>4 DEF Holds
<1>6. \A s : InRing(c, s)' <=> InRing(c, s)
  BY <1>1 DEF InRing
<1>7. \A s \in 0 .. n + 1 - 1 : s \in Nat /\ (s \in 0 .. n - 1 \/ s = n)
  BY <1>1
<1> HIDE DEF n
<1>8. ASSUME NEW s \in 0 .. n + 1 - 1
      PROVE  \/ InQueue(c, s)' \/ InRing(c, s)' \/ s < responsesSent[c]
             \/ \E w \in Workers : Holds(w, c, s)'
  BY <1>3, <1>5, <1>6, <1>7 DEF OnePlace, n
<1>9. ASSUME NEW s \in Nat, InQueue(c, s)'
      PROVE  /\ s >= responsesSent[c] /\ ~InRing(c, s)'
             /\ \A w \in Workers : ~Holds(w, c, s)'
  BY <1>1, <1>2, <1>3, <1>5, <1>6, <1>9 DEF OnePlace, n
<1>10. ASSUME NEW s \in Nat, NEW w \in Workers, Holds(w, c, s)'
       PROVE  /\ s >= responsesSent[c] /\ ~InRing(c, s)'
              /\ \A v \in Workers : Holds(v, c, s)' => v = w
  BY <1>5, <1>6, <1>10 DEF OnePlace
<1> QED  BY <1>1, <1>3, <1>8, <1>9, <1>10 DEF OnePlace, n

\* The request at the head of the queue passes to the worker that takes it.
LEMMA PlaceDequeue ==
    ASSUME Types, NEW w \in Workers, NEW c \in Clients, Dequeue(w, c), OnePlace(c)
    PROVE  OnePlace(c)'
<1> DEFINE n == Head(queue[c])
<1>1. /\ queue[c] \in Seq(Nat) /\ queue[c] # <<>>
      /\ queue'[c] = Tail(queue[c])
      /\ worker[w] = "lock" /\ worker'[w] = "handling"
      /\ job'[w] = [client |-> c, seq |-> n]
      /\ \A v \in Workers \ {w} : worker'[v] = worker[v] /\ job'[v] = job[v]
      /\ UNCHANGED <<received, slots, responsesSent>>
  BY DEF Dequeue, FairChoice, clientVars, outputVars, Types
<1>2. n \in Nat
  BY <1>1
<1>3. /\ Distinct(queue'[c])
      /\ InQueue(c, n)
      /\ \A s : InQueue(c, s)' <=> InQueue(c, s) /\ s # n
  <2>1. Distinct(queue[c])
    BY DEF OnePlace
  <2>2. /\ Distinct(Tail(queue[c])) /\ Listed(queue[c], n)
        /\ \A s : Listed(Tail(queue[c]), s) <=> Listed(queue[c], s) /\ s # n
    BY <1>1, <2>1, TailListed
  <2> HIDE DEF n
  <2>3. queue'[c] = Tail(queue[c])
    BY <1>1
  <2>4. /\ Distinct(queue'[c]) /\ Listed(queue[c], n)
        /\ \A s : Listed(queue'[c], s) <=> Listed(queue[c], s) /\ s # n
    BY <2>2, <2>3
  <2>5. InQueue(c, n)
    BY <2>4 DEF InQueue, Listed
  <2>6. ASSUME NEW s
        PROVE  InQueue(c, s)' <=> InQueue(c, s) /\ s # n
    BY <2>4 DEF InQueue, Listed
  <2> QED  BY <2>4, <2>5, <2>6
<1>4. /\ \A s \in Nat : Holds(w, c, s)' <=> s = n
      /\ \A s \in Nat : ~Holds(w, c, s)
      /\ \A v \in Workers \ {w}, s \in Nat : Holds(v, c, s)' <=> Holds(v, c, s)
  BY <1>1, <1>2 DEF Holds
<1>5. \A s : InRing(c, s)' <=> InRing(c, s)
  BY <1>1 DEF InRing
<1>6. /\ n >= responsesSent[c] /\ ~InRing(c, n)
      /\ \A v \in Workers : ~Holds(v, c, n)
  BY <1>2, <1>3 DEF OnePlace
<1>7. 0 .. received[c] - 1 \subseteq Nat
  OBVIOUS
<1> HIDE DEF n
<1>8. ASSUME NEW s \in 0 .. received[c] - 1
      PROVE  \/ InQueue(c, s)' \/ InRing(c, s)' \/ s < responsesSent[c]
             \/ \E v \in Workers : Holds(v, c, s)'
  <2>1. CASE s = n
    BY <1>2, <1>4, <2>1
  <2>2. CASE s # n
    BY <1>3, <1>4, <1>5, <1>7, <2>2 DEF OnePlace
  <2> QED  BY <2>1, <2>2
<1>9. ASSUME NEW s \in Nat, InQueue(c, s)'
      PROVE  /\ s >= responsesSent[c] /\ ~InRing(c, s)'
             /\ \A v \in Workers : ~Holds(v, c, s)'
  BY <1>3, <1>4, <1>5, <1>9 DEF OnePlace
<1>10. ASSUME NEW s \in Nat, NEW u \in Workers, Holds(u, c, s)'
       PROVE  /\ s >= responsesSent[c] /\ ~InRing(c, s)'
              /\ \A v \in Workers : Holds(v, c, s)' => v = u
  <2>1. CASE s = n
    BY <1>4, <1>5, <1>6, <1>10, <2>1
  <2>2. CASE s # n
    BY <1>4, <1>5, <1>10, <2>2 DEF OnePlace
  <2> QED  BY <2>1, <2>2
<1> QED  BY <1>1, <1>3, <1>8, <1>9, <1>10 DEF OnePlace

\* A worker's response is never discarded: it has its slot in the ring.
LEMMA NeverDiscarded ==
    ASSUME Types, ListInv, Numbers, RingSound, ClosedGivenUp, RingSuffices,
           NEW w \in Workers, NEW c \in Clients, worker[w] = "deliver",
           job[w].client = c, ~disconnected[c], OnePlace(c)
    PROVE  ~Unreachable(c) /\ Accepts(c, job[w].seq)
<1> DEFINE n == job[w].seq
<1>1. /\ n \in Nat /\ job[w] = [client |-> c, seq |-> n]
      /\ received[c] \in Nat /\ responsesSent[c] \in Nat
      /\ n < received[c]
  BY ClientsAssumption DEF Types, Jobs, NoJob, Numbers
<1>2. s2c[c] = "open"
  BY <1>1 DEF ClosedGivenUp, Types
<1>3. n >= responsesSent[c] /\ ~InRing(c, n)
  BY <1>1 DEF OnePlace, Holds
<1>4. n < responsesSent[c] + MaxPendingResponses
  BY <1>1, WindowAssumption DEF RingSuffices
<1>5. slots[c][Slot(n)] = NotReady
  <2> SUFFICES ASSUME slots[c][Slot(n)] # NotReady PROVE FALSE
    OBVIOUS
  <2> DEFINE x == slots[c][Slot(n)]
  <2>1. Slot(n) \in Slots /\ x \in Nat /\ MaxPendingResponses \in Nat
    BY <1>1, SlotInRing, WindowAssumption DEF Types
  <2>2. /\ Slot(x) = Slot(n) /\ x >= responsesSent[c]
        /\ x < responsesSent[c] + MaxPendingResponses
    BY <2>1 DEF RingSound
  <2>3. InRing(c, x)
    BY <2>1 DEF InRing
  <2> HIDE DEF x, n
  <2>4. x = n
    BY <1>1, <1>3, <1>4, <2>1, <2>2, SlotsApart
  <2> QED  BY <1>3, <2>3, <2>4
<1> QED  BY <1>2, <1>3, <1>4, <1>5 DEF Unreachable, Accepts

\* A response passes from its worker to a free slot of the ring.
LEMMA PlaceStore ==
    ASSUME Types, NEW w \in Workers, NEW c \in Clients, StoreResponse(w, c),
           OnePlace(c)
    PROVE  OnePlace(c)'
<1> DEFINE n == job[w].seq
<1>1. /\ n \in Nat /\ job[w] = [client |-> c, seq |-> n]
      /\ worker[w] = "deliver" /\ worker'[w] = "flush"
      /\ Slot(n) \in Slots /\ slots[c][Slot(n)] = NotReady
      /\ slots'[c] = [slots[c] EXCEPT ![Slot(n)] = n]
      /\ slots[c] \in [Slots -> Nat \cup {NotReady}]
  BY ClientsAssumption, SlotInRing DEF StoreResponse, Accepts, Types, Jobs, NoJob
<1>2. /\ \A v \in Workers \ {w} : worker'[v] = worker[v] /\ job'[v] = job[v]
      /\ UNCHANGED <<queue, received, responsesSent>>
  BY DEF StoreResponse, poolVars, Types
<1>3. \A s \in Nat : InRing(c, s)' <=> InRing(c, s) \/ s = n
  <2> SUFFICES ASSUME NEW s \in Nat
               PROVE  InRing(c, s)' <=> InRing(c, s) \/ s = n
    OBVIOUS
  <2>1. \A k \in Slots : slots'[c][k] = IF k = Slot(n) THEN n ELSE slots[c][k]
    BY <1>1
  <2> HIDE DEF n
  <2> QED  BY <1>1, <2>1, NotReadyAssumption DEF InRing
<1>4. Holds(w, c, n)
  BY <1>1 DEF Holds
<1>5. /\ \A s \in Nat : ~Holds(w, c, s)'
      /\ \A v \in Workers \ {w}, s \in Nat : Holds(v, c, s)' <=> Holds(v, c, s)
      /\ \A s \in Nat : Holds(w, c, s) => s = n
  BY <1>1, <1>2 DEF Holds
<1>6. \A s : InQueue(c, s)' <=> InQueue(c, s)
  BY <1>2 DEF InQueue
<1>7. /\ n >= responsesSent[c] /\ ~InQueue(c, n)
      /\ \A v \in Workers \ {w} : ~Holds(v, c, n)
  BY <1>1, <1>4 DEF OnePlace
<1>8. 0 .. received[c] - 1 \subseteq Nat
  OBVIOUS
<1> HIDE DEF n
<1>9. ASSUME NEW s \in 0 .. received[c] - 1
      PROVE  \/ InQueue(c, s)' \/ InRing(c, s)' \/ s < responsesSent[c]
             \/ \E v \in Workers : Holds(v, c, s)'
  BY <1>3, <1>5, <1>6, <1>8 DEF OnePlace
<1>10. ASSUME NEW s \in Nat, InQueue(c, s)'
       PROVE  /\ s >= responsesSent[c] /\ ~InRing(c, s)'
              /\ \A v \in Workers : ~Holds(v, c, s)'
  BY <1>3, <1>5, <1>6, <1>7, <1>10 DEF OnePlace
<1>11. ASSUME NEW s \in Nat, NEW u \in Workers, Holds(u, c, s)'
       PROVE  /\ s >= responsesSent[c] /\ ~InRing(c, s)'
              /\ \A v \in Workers : Holds(v, c, s)' => v = u
  <2>1. u # w /\ Holds(u, c, s)
    BY <1>5, <1>11
  <2>2. s # n
    BY <1>7, <2>1
  <2> QED  BY <1>3, <1>5, <2>1, <2>2 DEF OnePlace
<1> QED  BY <1>2, <1>9, <1>10, <1>11 DEF OnePlace

\* The response written leaves the ring, and counts as sent.
LEMMA PlaceWrite ==
    ASSUME Types, RingSound, NEW w \in Workers, NEW c \in Clients,
           WriteResponse(w, c), OnePlace(c)
    PROVE  OnePlace(c)'
<1> DEFINE n == responsesSent[c]
<1>1. /\ n \in Nat /\ Slot(n) \in Slots /\ slots[c][Slot(n)] = n
      /\ slots'[c] = [slots[c] EXCEPT ![Slot(n)] = NotReady]
      /\ slots[c] \in [Slots -> Nat \cup {NotReady}]
      /\ responsesSent'[c] = n + 1
      /\ UNCHANGED <<queue, received, worker, job>>
  BY SlotInRing DEF WriteResponse, FlushReady, poolVars, threadVars, Types
<1>2. /\ InRing(c, n)
      /\ \A s \in Nat : InRing(c, s)' <=> InRing(c, s) /\ s # n
  <2>1. InRing(c, n)
    BY <1>1 DEF InRing
  <2> SUFFICES ASSUME NEW s \in Nat
               PROVE  InRing(c, s)' <=> InRing(c, s) /\ s # n
    BY <2>1
  <2>2. \A k \in Slots : slots'[c][k] = IF k = Slot(n) THEN NotReady ELSE slots[c][k]
    BY <1>1
  <2>3. \A k \in Slots : slots[c][k] = n => k = Slot(n)
    BY <1>1, NotReadyAssumption DEF RingSound
  <2> HIDE DEF n
  <2> QED  BY <1>1, <2>2, <2>3, NotReadyAssumption DEF InRing
<1>3. \A v \in Workers, s \in Nat : Holds(v, c, s)' <=> Holds(v, c, s)
  BY <1>1 DEF Holds
<1>4. \A s : InQueue(c, s)' <=> InQueue(c, s)
  BY <1>1 DEF InQueue
<1>5. ~InQueue(c, n) /\ \A v \in Workers : ~Holds(v, c, n)
  BY <1>1, <1>2 DEF OnePlace
<1>6. 0 .. received[c] - 1 \subseteq Nat
  OBVIOUS
<1>7. /\ \A s \in Nat : s < n \/ s = n => s < n + 1
      /\ \A s \in Nat : s >= n /\ s # n => s >= n + 1
  BY <1>1
<1>8. ASSUME NEW s \in 0 .. received[c] - 1
      PROVE  \/ InQueue(c, s)' \/ InRing(c, s)' \/ s < n + 1
             \/ \E v \in Workers : Holds(v, c, s)'
  BY <1>2, <1>3, <1>4, <1>6, <1>7 DEF OnePlace
<1>9. ASSUME NEW s \in Nat, InQueue(c, s)'
      PROVE  /\ s >= n + 1 /\ ~InRing(c, s)'
             /\ \A v \in Workers : ~Holds(v, c, s)'
  BY <1>2, <1>3, <1>4, <1>5, <1>7, <1>9 DEF OnePlace
<1>10. ASSUME NEW s \in Nat, NEW u \in Workers, Holds(u, c, s)'
       PROVE  /\ s >= n + 1 /\ ~InRing(c, s)'
              /\ \A v \in Workers : Holds(v, c, s)' => v = u
  BY <1>2, <1>3, <1>5, <1>7, <1>10 DEF OnePlace
<1> QED  BY <1>1, <1>8, <1>9, <1>10 DEF OnePlace

\* The steps of the main thread, and of workers that hold no request.
LEMMA ConservedMain ==
    ASSUME Types, Types', Numbers, CountInv, SentInOrder, ClosedGivenUp,
           NEW c \in Clients, OnePlace(c), ~disconnected[c],
           \/ \E e \in Clients : \/ Register(e) \/ Submit(e) \/ BeginClose(e)
                                 \/ CloseStep(e)
           \/ StopServing \/ BeginDestroy \/ FinishDestroy
           \/ \E w \in Workers : Sleep(w) \/ SpuriousWake(w) \/ Exit(w)
           \/ UNCHANGED vars
    PROVE  OnePlace(c)'
<1>1. ASSUME NEW e \in Clients,
             Register(e) \/ BeginClose(e) \/ MarkDisconnected(e) \/ CloseFds(e)
      PROVE  OnePlace(c)'
  BY <1>1, PlacesOfMain
     DEF Register, BeginClose, MarkDisconnected, CloseFds, poolVars, clientVars,
         outputVars, threadVars
<1>2. ASSUME NEW e \in Clients, Submit(e)
      PROVE  OnePlace(c)'
  <2>1. CASE e = c
    BY <1>2, <2>1, PlaceSubmit
  <2>2. CASE e # c
    <3>1. \A w \in Workers : \/ worker'[w] = worker[w]
                             \/ worker[w] = "asleep" /\ worker'[w] = "lock"
      BY <1>2 DEF Submit, SignalOne, At, Types
    <3>2. /\ queue'[c] = queue[c] /\ received'[c] = received[c]
          /\ UNCHANGED <<job, slots, responsesSent>>
      BY <1>2, <2>2 DEF Submit, outputVars, Types
    <3> QED  BY <3>1, <3>2, PlacesOfMain
  <2> QED  BY <2>1, <2>2
<1>3. ASSUME NEW e \in Clients, RemoveClient(e)
      PROVE  OnePlace(c)'
  <2>1. e # c
    BY <1>3 DEF RemoveClient, ClosedGivenUp
  <2>2. /\ queue'[c] = queue[c]
        /\ UNCHANGED <<worker, job, slots, responsesSent, received>>
    BY <1>3, <2>1 DEF RemoveClient, clientVars, outputVars, Types
  <2> QED  BY <2>2, PlacesOfMain
<1>4. CASE StopServing \/ UNCHANGED vars
  BY <1>4, PlacesOfMain DEF StopServing, vars, poolVars, clientVars, outputVars,
                            threadVars
<1>5. CASE BeginDestroy
  <2>1. \A w \in Workers : \/ worker'[w] = worker[w]
                           \/ worker[w] = "asleep" /\ worker'[w] = "lock"
    BY <1>5 DEF BeginDestroy, WakeAll
  <2> QED  BY <1>5, <2>1, PlacesOfMain DEF BeginDestroy, clientVars, outputVars
<1>6. CASE FinishDestroy
  <2>1. queue[c] = <<>>
    BY <1>6, WorkersAssumption DEF FinishDestroy, CountInv, DrainedBeforeExit
  <2>2. /\ queue'[c] = queue[c]
        /\ UNCHANGED <<worker, job, slots, responsesSent, received>>
    BY <1>6, <2>1 DEF FinishDestroy, clientVars, outputVars
  <2> QED  BY <2>2, PlacesOfMain
<1>7. ASSUME NEW w \in Workers, Sleep(w) \/ SpuriousWake(w) \/ Exit(w)
      PROVE  OnePlace(c)'
  <2>1. \A v \in Workers : \/ worker'[v] = worker[v]
                           \/ /\ worker[v] \notin {"handling", "deliver"}
                              /\ worker'[v] \notin {"handling", "deliver"}
    BY <1>7 DEF Sleep, SpuriousWake, Exit, Types
  <2>2. UNCHANGED <<queue, received, job, slots, responsesSent>>
    BY <1>7 DEF Sleep, SpuriousWake, Exit, poolVars, clientVars, outputVars
  <2> QED  BY <2>1, <2>2, PlacesOfMain
<1> QED  BY <1>1, <1>2, <1>3, <1>4, <1>5, <1>6, <1>7 DEF CloseStep

\* What worker w does with a request of client e leaves the other clients'
\* requests where they are.
LEMMA OtherPlaces ==
    ASSUME Types, Types', NEW w \in Workers, NEW e \in Clients,
           Dequeue(w, e) \/ Send(w, e),
           NEW c \in Clients \ {e}, OnePlace(c)
    PROVE  OnePlace(c)'
<1>1. /\ queue'[c] = queue[c] /\ received'[c] = received[c]
      /\ slots'[c] = slots[c] /\ responsesSent'[c] = responsesSent[c]
  BY DEF Dequeue, Send, DiscardResponse, StoreResponse, WriteResponse,
         WriteFails, FlushDone, poolVars, clientVars, outputVars, Types
<1>2. \A v \in Workers \ {w} : worker'[v] = worker[v] /\ job'[v] = job[v]
  <2>1. CASE Dequeue(w, e)
    BY <2>1 DEF Dequeue, Types
  <2>2. CASE DiscardResponse(w, e)
    BY <2>2 DEF DiscardResponse, Types
  <2>3. CASE StoreResponse(w, e) \/ WriteResponse(w, e)
    BY <2>3 DEF StoreResponse, WriteResponse, threadVars, Types
  <2>4. CASE WriteFails(w, e) \/ FlushDone(w, e)
    BY <2>4 DEF WriteFails, FlushDone, Unlock, Types
  <2> QED  BY <2>1, <2>2, <2>3, <2>4 DEF Send
<1>3. worker[w] = "lock" \/ job[w].client = e
  BY DEF Dequeue, Send, DiscardResponse, StoreResponse, WriteResponse,
         WriteFails, FlushDone
<1>4. worker'[w] = "lock" \/ job'[w].client = e
  <2>1. CASE Dequeue(w, e)
    <3>1. job'[w] = [client |-> e, seq |-> Head(queue[e])]
      BY <2>1 DEF Dequeue, Types
    <3> QED  BY <3>1
  <2>2. CASE Send(w, e)
    BY <2>2 DEF Send, DiscardResponse, StoreResponse, WriteResponse,
                WriteFails, FlushDone, Unlock, threadVars, Types
  <2> QED  BY <2>1, <2>2
<1>5. \A s \in Nat : ~Holds(w, c, s) /\ ~Holds(w, c, s)'
  BY <1>3, <1>4 DEF Holds
<1> QED  BY <1>1, <1>2, <1>5, OtherHolders, PlaceKept

\* No step loses a request of a client that is not given up, or puts it in two
\* places.
LEMMA ConservedStep ==
    ASSUME ConservationInvariant, Types', RingSuffices, [Next]_vars
    PROVE  Conserved'
<1> SUFFICES ASSUME NEW c \in Clients, ~disconnected'[c] PROVE OnePlace(c)'
  BY DEF Conserved
<1> USE DEF ConservationInvariant
<1>1. ~disconnected[c]
  <2>1. ASSUME NEW e \in Clients, GiveUp(e)
        PROVE  disconnected[c] => disconnected'[c]
    BY <2>1 DEF GiveUp, Types
  <2>2. UNCHANGED disconnected \/ \E e \in Clients : GiveUp(e)
    BY DEF Next, Register, Submit, BeginClose, CloseStep, MarkDisconnected,
           RemoveClient, CloseFds, StopServing, BeginDestroy, FinishDestroy,
           WorkerStep, Sleep, Exit, HandlerReturn, SpuriousWake, Dequeue, Send,
           DiscardResponse, StoreResponse, WriteResponse, WriteFails, FlushDone,
           Terminated, vars, clientVars, outputVars
  <2> QED  BY <2>1, <2>2
<1>2. OnePlace(c)
  BY <1>1 DEF Conserved
<1>3. ASSUME NEW w \in Workers, HandlerReturn(w)
      PROVE  OnePlace(c)'
  <2>1. UNCHANGED <<queue, received, job, slots, responsesSent>>
    BY <1>3 DEF HandlerReturn, poolVars, clientVars, outputVars
  <2>2. \A v \in Workers, s \in Nat : Holds(v, c, s)' <=> Holds(v, c, s)
    BY <1>3 DEF HandlerReturn, Holds, Types
  <2> QED  BY <1>2, <2>1, <2>2, PlaceKept
<1>4. ASSUME NEW w \in Workers, NEW e \in Clients, Dequeue(w, e) \/ Send(w, e)
      PROVE  OnePlace(c)'
  <2>1. CASE e # c
    BY <1>2, <1>4, <2>1, OtherPlaces
  <2>2. CASE Dequeue(w, c)
    BY <1>2, <2>2, PlaceDequeue
  <2>3. CASE DiscardResponse(w, c)
    BY <1>1, <1>2, <2>3, NeverDiscarded DEF DiscardResponse
  <2>4. CASE StoreResponse(w, c)
    BY <1>2, <2>4, PlaceStore
  <2>5. CASE WriteResponse(w, c)
    BY <1>2, <2>5, PlaceWrite
  <2>6. CASE WriteFails(w, c)
    BY <2>6 DEF WriteFails, GiveUp, Types
  <2>7. CASE FlushDone(w, c)
    <3>1. UNCHANGED <<queue, received, slots, responsesSent>>
      BY <2>7 DEF FlushDone, poolVars
    <3>2. /\ \A v \in Workers \ {w} : worker'[v] = worker[v] /\ job'[v] = job[v]
          /\ worker[w] = "flush" /\ worker'[w] = "lock"
      BY <2>7 DEF FlushDone, Unlock, Types
    <3>3. \A s \in Nat : ~Holds(w, c, s) /\ ~Holds(w, c, s)'
      BY <3>2 DEF Holds
    <3> QED  BY <1>2, <3>1, <3>2, <3>3, OtherHolders, PlaceKept
  <2> QED  BY <1>4, <2>1, <2>2, <2>3, <2>4, <2>5, <2>6, <2>7 DEF Send
<1> QED  BY <1>1, <1>2, <1>3, <1>4, ConservedMain
         DEF Next, WorkerStep, Terminated

\* At first there is no request.
LEMMA ConservationInit == Init => ConservationInvariant
<1> SUFFICES ASSUME Init PROVE ConservationInvariant
  OBVIOUS
<1>1. LockHeldWhileFlushing /\ RingSound
  <2>1. \A c \in Clients :
          /\ slots[c] = [k \in Slots |-> NotReady]
          /\ responsesSent[c] = 0
    BY DEF Init
  <2>2. 0 # NotReady /\ Slot(0) \in Slots
    BY NotReadyAssumption, SlotInRing
  <2>3. RingSound
    BY <2>1, <2>2 DEF RingSound, FlushReady
  <2> QED  BY <2>3, WorkersAssumption DEF Init, LockHeldWhileFlushing
<1>2. ClosedGivenUp /\ SentInOrder
  BY DEF Init, NotClosing, ClosedGivenUp, SentInOrder
<1>3. ASSUME NEW c \in Clients PROVE OnePlace(c)
  <2>1. /\ queue[c] = <<>> /\ received[c] = 0
        /\ \A w \in Workers : worker[w] = "lock"
    BY <1>3 DEF Init
  <2>2. \A s : ~InQueue(c, s) /\ \A w \in Workers : ~Holds(w, c, s)
    BY <2>1 DEF InQueue, Holds
  <2> QED  BY <2>1, <2>2 DEF OnePlace, Distinct
<1> QED  BY <1>1, <1>2, <1>3, TypesInit, ListInvInit, CountInvInit, NumbersInit
         DEF ConservationInvariant, Conserved

LEMMA ConservationStep ==
    ConservationInvariant /\ RingSuffices /\ [Next]_vars
      => ConservationInvariant'
<1> SUFFICES ASSUME ConservationInvariant, RingSuffices, [Next]_vars
             PROVE  ConservationInvariant'
  OBVIOUS
<1>1. Types' /\ ListInv' /\ CountInv' /\ Numbers'
  BY TypesStep, ListInvStep, CountInvStep, NumbersStep DEF ConservationInvariant
<1>2. LockHeldWhileFlushing' /\ RingSound'
  BY LockStep, RingStep DEF ConservationInvariant
<1>3. ClosedGivenUp' /\ SentInOrder'
  BY <1>1, GivenUpStep, SentStep DEF ConservationInvariant
<1>4. Conserved'
  BY <1>1, ConservedStep
<1> QED  BY <1>1, <1>2, <1>3, <1>4 DEF ConservationInvariant

\* Counting the places where a request is.
LEMMA PlacesCounted == ConservationInvariant => RequestConservation
<1> SUFFICES ASSUME ConservationInvariant,
                    NEW c \in Clients, ~disconnected[c],
                    NEW s \in 0 .. received[c] - 1
             PROVE  (IF InQueue(c, s) THEN 1 ELSE 0) + Cardinality(Holders(c, s))
                    + (IF InRing(c, s) THEN 1 ELSE 0)
                    + (IF Sent(c, s) THEN 1 ELSE 0) = 1
  BY DEF RequestConservation
<1>1. OnePlace(c) /\ s \in Nat
  BY DEF ConservationInvariant, Conserved
<1>2. Sent(c, s) <=> s < responsesSent[c]
  <2>1. /\ fifo[c] \in Seq(Nat) /\ Len(fifo[c]) = responsesSent[c]
        /\ responsesSent[c] \in Nat
        /\ \A i \in DOMAIN fifo[c] : fifo[c][i] = i - 1
    BY DEF ConservationInvariant, Types, Numbers, SentInOrder
  <2>2. DOMAIN fifo[c] = 1 .. responsesSent[c]
    BY <2>1
  <2>3. ASSUME s < responsesSent[c] PROVE Sent(c, s)
    <3>1. s + 1 \in DOMAIN fifo[c]
      BY <1>1, <2>1, <2>2, <2>3
    <3>2. fifo[c][s + 1] = s
      BY <1>1, <2>1, <3>1
    <3> QED  BY <3>1, <3>2 DEF Sent
  <2>4. ASSUME Sent(c, s) PROVE s < responsesSent[c]
    <3>1. PICK i \in DOMAIN fifo[c] : fifo[c][i] = s
      BY <2>4 DEF Sent
    <3> QED  BY <2>1, <2>2, <3>1
  <2> QED  BY <2>3, <2>4
<1>3. /\ (\E w \in Workers : Holds(w, c, s)) => Cardinality(Holders(c, s)) = 1
      /\ ~(\E w \in Workers : Holds(w, c, s)) => Cardinality(Holders(c, s)) = 0
  <2>1. Holders(c, s) = {w \in Workers : Holds(w, c, s)}
    BY DEF Holders, Holds
  <2>2. ASSUME NEW w \in Workers, Holds(w, c, s)
        PROVE  Cardinality(Holders(c, s)) = 1
    <3>1. Holders(c, s) = {w}
      BY <1>1, <2>1, <2>2 DEF OnePlace
    <3> QED  BY <3>1, FS_Singleton
  <2>3. ASSUME ~(\E w \in Workers : Holds(w, c, s))
        PROVE  Cardinality(Holders(c, s)) = 0
    <3>1. Holders(c, s) = {}
      BY <2>1, <2>3
    <3> QED  BY <3>1, FS_EmptySet
  <2> QED  BY <2>2, <2>3
<1>4. InRing(c, s) => s >= responsesSent[c]
  BY <1>1, NotReadyAssumption DEF ConservationInvariant, RingSound, InRing
<1>5. CASE s < responsesSent[c]
  <2>1. /\ ~InQueue(c, s) /\ ~InRing(c, s)
        /\ ~(\E w \in Workers : Holds(w, c, s))
    BY <1>1, <1>4, <1>5 DEF OnePlace, ConservationInvariant, Types
  <2> QED  BY <1>2, <1>3, <1>5, <2>1
<1>6. CASE ~(s < responsesSent[c]) /\ \E w \in Workers : Holds(w, c, s)
  <2>1. ~InQueue(c, s) /\ ~InRing(c, s)
    BY <1>1, <1>6 DEF OnePlace
  <2> QED  BY <1>2, <1>3, <1>6, <2>1
<1>7. CASE ~(s < responsesSent[c]) /\ ~(\E w \in Workers : Holds(w, c, s))
  <2>1. InQueue(c, s) \/ InRing(c, s)
    BY <1>1, <1>7 DEF OnePlace
  <2>2. ~(InQueue(c, s) /\ InRing(c, s))
    BY <1>1 DEF OnePlace
  <2> QED  BY <1>2, <1>3, <1>7, <2>1, <2>2
<1> QED  BY <1>5, <1>6, <1>7

\* Until its client is given up, an accepted request is queued, held by one
\* worker, complete in the ring or answered, and never in two of these places
\* (threadpool_submit, worker_main, send_ordered_response), as long as no client
\* has more requests in progress than its ring has slots: then the responses
\* that do not fit are discarded.
THEOREM ConservationTheorem == Spec /\ []RingSuffices => []RequestConservation
<1>1. Init => ConservationInvariant
  BY ConservationInit
<1>2. ConservationInvariant /\ RingSuffices /\ [Next]_vars
        => ConservationInvariant'
  BY ConservationStep
<1>3. ConservationInvariant => RequestConservation
  BY PlacesCounted
<1> QED  BY <1>1, <1>2, <1>3, PTL DEF Spec
=============================================================================
