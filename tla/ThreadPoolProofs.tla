-------------------------- MODULE ThreadPoolProofs --------------------------
(***************************************************************************)
(* Proofs about ThreadPool for every set of clients and workers, every     *)
(* ring size and every number of requests.                                 *)
(***************************************************************************)
EXTENDS ThreadPool, FiniteSetTheorems, SequenceTheorems, TLAPS

-----------------------------------------------------------------------------
(* Sequences and slots.                                                    *)

\* What is left of a sequence when the element at i is unlinked.
LEMMA RemoveAtFacts ==
    ASSUME NEW S, NEW s \in Seq(S), NEW i \in 1 .. Len(s)
    PROVE  /\ RemoveAt(s, i) \in Seq(S)
           /\ Len(RemoveAt(s, i)) = Len(s) - 1
           /\ \A j \in 1 .. Len(s) - 1 :
                RemoveAt(s, i)[j] = IF j < i THEN s[j] ELSE s[j + 1]
<1> DEFINE front == SubSeq(s, 1, i - 1)
           back  == SubSeq(s, i + 1, Len(s))
<1>1. /\ front \in Seq(S)
      /\ Len(front) = i - 1
      /\ \A j \in 1 .. i - 1 : front[j] = s[j]
  BY SubSeqProperties
<1>2. /\ back \in Seq(S)
      /\ Len(back) = Len(s) - i
      /\ \A j \in 1 .. Len(s) - i : back[j] = s[j + i]
  BY SubSeqProperties
<1> HIDE DEF front, back
<1>3. /\ front \o back \in Seq(S)
      /\ Len(front \o back) = Len(front) + Len(back)
      /\ \A j \in 1 .. Len(front) + Len(back) :
           (front \o back)[j] = IF j <= Len(front) THEN front[j]
                                ELSE back[j - Len(front)]
  BY <1>1, <1>2, ConcatProperties
<1>4. RemoveAt(s, i) = front \o back
  BY DEF RemoveAt, front, back
<1>5. Len(front) + Len(back) = Len(s) - 1
  BY <1>1, <1>2
<1>6. ASSUME NEW j \in 1 .. Len(s) - 1
      PROVE  (front \o back)[j] = IF j < i THEN s[j] ELSE s[j + 1]
  <2>1. CASE j < i
    BY <2>1, <1>1, <1>3, <1>5
  <2>2. CASE j >= i
    <3>1. j - Len(front) \in 1 .. Len(s) - i
      BY <2>2, <1>1
    <3>2. back[j - Len(front)] = s[j - Len(front) + i]
      BY <3>1, <1>2
    <3> QED  BY <2>2, <3>1, <3>2, <1>1, <1>3, <1>5
  <2>3. j < i \/ j >= i
    <3>1. Len(s) \in Nat
      OBVIOUS
    <3> QED  BY <3>1
  <2> QED  BY <2>1, <2>2, <2>3
<1> QED  BY <1>3, <1>4, <1>5, <1>6

\* A request number modulo the size of the ring is one of its slots.
LEMMA SlotInRing == \A n \in Nat : Slot(n) \in Slots
BY WindowAssumption DEF Slot, Slots

-----------------------------------------------------------------------------
(* Types.                                                                  *)

\* A registered client is found at its position in the list.
LEMMA PositionFacts ==
    ASSUME Types, NEW c, Registered(c)
    PROVE  Position(c) \in 1 .. Len(clients) /\ clients[Position(c)] = c
<1>1. Position(c) \in DOMAIN clients /\ clients[Position(c)] = c
  BY DEF Registered, Position
<1>2. DOMAIN clients = 1 .. Len(clients)
  BY DEF Types
<1> QED  BY <1>1, <1>2

\* The neighbours of a registered client are clients.
LEMMA NeighbourFacts ==
    ASSUME Types, NEW c, Registered(c)
    PROVE  /\ Successor(c) \in Clients
           /\ NextAfterUnlink(c) \in Clients \cup {NoClient}
<1>1. clients \in Seq(Clients) /\ Len(clients) \in Nat
  BY DEF Types
<1>2. Position(c) \in 1 .. Len(clients)
  BY PositionFacts
<1>3. clients[1] \in Clients
  BY <1>1, <1>2
<1>4. Position(c) < Len(clients) => clients[Position(c) + 1] \in Clients
  BY <1>1, <1>2
<1> QED  BY <1>3, <1>4 DEF Successor, NextAfterUnlink

\* The initial values have their types.
LEMMA TypesInit == Init => Types
<1> SUFFICES ASSUME Init PROVE Types
  OBVIOUS
<1> USE DEF Init
<1>1. clients \in Seq(Clients) /\ nextClient \in Clients \cup {NoClient}
  OBVIOUS
<1>2. queue \in [Clients -> Seq(Nat)] /\ fifo \in [Clients -> Seq(Nat)]
  OBVIOUS
<1>3. slots \in [Clients -> [Slots -> Nat \cup {NotReady}]]
  OBVIOUS
<1>4. /\ pending \in Int
      /\ received \in [Clients -> Nat]
      /\ responsesSent \in [Clients -> Nat]
      /\ outputLock \in [Clients -> Workers \cup {NoWorker}]
  OBVIOUS
<1>5. /\ worker \in [Workers -> WorkerPlaces]
      /\ job \in [Workers -> Jobs \cup {NoJob}]
      /\ main \in MainPlaces
      /\ closing \in [client : Clients \cup {NoClient},
                      step : {"none", "mark", "remove", "fds"}]
  BY DEF WorkerPlaces, MainPlaces, NotClosing
<1>6. /\ shuttingDown \in BOOLEAN
      /\ disconnected \in [Clients -> BOOLEAN]
      /\ s2c \in [Clients -> {"none", "open", "closed"}]
  OBVIOUS
<1> QED  BY <1>1, <1>2, <1>3, <1>4, <1>5, <1>6 DEF Types

\* The steps of the main thread while it serves keep the types.
LEMMA TypesMain ==
    ASSUME Types, NEW c \in Clients,
           Register(c) \/ Submit(c) \/ BeginClose(c) \/ CloseStep(c)
    PROVE  Types'
<1>1. CASE Register(c)
  BY <1>1 DEF Types, Register, outputVars, threadVars
<1>2. CASE Submit(c)
  <2>1. received[c] \in Nat /\ queue[c] \in Seq(Nat)
    BY DEF Types
  <2>2. received' \in [Clients -> Nat] /\ queue' \in [Clients -> Seq(Nat)]
    BY <1>2, <2>1 DEF Types, Submit
  <2>3. worker' \in [Workers -> WorkerPlaces]
    BY <1>2 DEF Types, Submit, SignalOne, At, WorkerPlaces
  <2> QED  BY <1>2, <2>2, <2>3 DEF Types, Submit, listVars, outputVars
<1>3. CASE BeginClose(c)
  BY <1>3 DEF Types, BeginClose, poolVars, listVars, clientVars, outputVars
<1>4. CASE MarkDisconnected(c)
  BY <1>4 DEF Types, MarkDisconnected, GiveUp, poolVars, listVars, outputVars
<1>5. CASE RemoveClient(c)
  <2>1. Position(c) \in 1 .. Len(clients)
    BY <1>5, PositionFacts DEF RemoveClient
  <2>2. clients' \in Seq(Clients)
    BY <1>5, <2>1, RemoveAtFacts DEF RemoveClient, Types
  <2>3. nextClient' \in Clients \cup {NoClient}
    BY <1>5, NeighbourFacts DEF RemoveClient, Types
  <2>4. queue' \in [Clients -> Seq(Nat)]
    BY <1>5 DEF RemoveClient, Types
  <2>5. pending' \in Int
    BY <1>5 DEF RemoveClient, Dropped, Types
  <2> QED  BY <1>5, <2>2, <2>3, <2>4, <2>5
              DEF RemoveClient, Types, clientVars, outputVars
<1>6. CASE CloseFds(c)
  BY <1>6 DEF Types, CloseFds, NotClosing, poolVars, listVars, outputVars
<1> QED  BY <1>1, <1>2, <1>3, <1>4, <1>5, <1>6 DEF CloseStep

\* So do the steps that stop the main loop and destroy the pool.
LEMMA TypesShutdown ==
    ASSUME Types, StopServing \/ BeginDestroy \/ FinishDestroy
    PROVE  Types'
<1>1. CASE StopServing
  BY <1>1 DEF Types, StopServing, MainPlaces, poolVars, listVars, clientVars,
              outputVars
<1>2. CASE BeginDestroy
  BY <1>2 DEF Types, BeginDestroy, WakeAll, MainPlaces, WorkerPlaces,
              listVars, clientVars, outputVars
<1>3. CASE FinishDestroy
  BY <1>3 DEF Types, FinishDestroy, MainPlaces, clientVars, outputVars
<1> QED  BY <1>1, <1>2, <1>3

\* So do the steps of worker_main.
LEMMA TypesWorker ==
    ASSUME Types, NEW w \in Workers,
           \/ Sleep(w) \/ SpuriousWake(w) \/ Exit(w) \/ HandlerReturn(w)
           \/ \E c \in Clients : Dequeue(w, c)
    PROVE  Types'
<1>1. CASE Sleep(w) \/ SpuriousWake(w) \/ Exit(w) \/ HandlerReturn(w)
  BY <1>1 DEF Types, Sleep, SpuriousWake, Exit, HandlerReturn, WorkerPlaces,
              poolVars, listVars, clientVars, outputVars
<1>2. ASSUME NEW c \in Clients, Dequeue(w, c) PROVE Types'
  <2>1. queue[c] \in Seq(Nat) /\ queue[c] # <<>>
    BY <1>2 DEF Types, Dequeue, FairChoice
  <2>2. Head(queue[c]) \in Nat /\ Tail(queue[c]) \in Seq(Nat)
    BY <2>1
  <2>3. queue' \in [Clients -> Seq(Nat)] /\ pending' \in Int
    BY <1>2, <2>2 DEF Types, Dequeue
  <2>4. nextClient' \in Clients
    BY <1>2, NeighbourFacts DEF Dequeue
  <2>5. worker' \in [Workers -> WorkerPlaces]
        /\ job' \in [Workers -> Jobs \cup {NoJob}]
    BY <1>2, <2>2 DEF Types, Dequeue, Jobs, WorkerPlaces
  <2> QED  BY <1>2, <2>3, <2>4, <2>5
              DEF Types, Dequeue, clientVars, outputVars
<1> QED  BY <1>1, <1>2

\* So do the steps of send_ordered_response.
LEMMA TypesSend ==
    ASSUME Types, NEW w \in Workers, NEW c \in Clients, Send(w, c)
    PROVE  Types'
<1> USE DEF Types, WorkerPlaces
<1>1. CASE DiscardResponse(w, c)
  BY <1>1 DEF DiscardResponse, poolVars, listVars, clientVars, outputVars
<1>2. CASE StoreResponse(w, c)
  <2>1. job[w] \in Jobs
    BY <1>2, ClientsAssumption DEF StoreResponse, NoJob
  <2>2. job[w].seq \in Nat
    BY <2>1 DEF Jobs
  <2>3. slots' \in [Clients -> [Slots -> Nat \cup {NotReady}]]
    BY <1>2, <2>2, SlotInRing DEF StoreResponse
  <2> QED  BY <1>2, <2>3 DEF StoreResponse, poolVars, listVars
<1>3. CASE WriteResponse(w, c)
  <2>1. slots[c][Slot(responsesSent[c])] = responsesSent[c]
    BY <1>3 DEF WriteResponse, FlushReady
  <2>2. /\ fifo' \in [Clients -> Seq(Nat)]
        /\ responsesSent' \in [Clients -> Nat]
    BY <1>3, <2>1 DEF WriteResponse
  <2>3. slots' \in [Clients -> [Slots -> Nat \cup {NotReady}]]
    BY <1>3, SlotInRing DEF WriteResponse
  <2> QED  BY <1>3, <2>2, <2>3 DEF WriteResponse, poolVars, listVars, threadVars
<1>4. CASE WriteFails(w, c)
  BY <1>4, SlotInRing DEF WriteFails, GiveUp, Unlock, poolVars, listVars
<1>5. CASE FlushDone(w, c)
  BY <1>5 DEF FlushDone, Unlock, poolVars, listVars
<1> QED  BY <1>1, <1>2, <1>3, <1>4, <1>5 DEF Send

\* Every step is one of the four kinds above, or a stutter.
LEMMA TypesStep == Types /\ [Next]_vars => Types'
<1> SUFFICES ASSUME Types, [Next]_vars PROVE Types'
  OBVIOUS
<1>1. CASE UNCHANGED vars
  BY <1>1 DEF Types, vars, poolVars, listVars, clientVars, outputVars,
              threadVars
<1>2. CASE Next
  BY <1>1, <1>2, TypesMain, TypesShutdown, TypesWorker, TypesSend
     DEF Next, WorkerStep, Terminated
<1> QED  BY <1>1, <1>2

-----------------------------------------------------------------------------
(* The list of clients and next_client.                                    *)

Listed(s, x) == \E i \in DOMAIN s : s[i] = x
Distinct(s) == \A i, j \in DOMAIN s : s[i] = s[j] => i = j

\* Appending a new element keeps a sequence free of repetitions.
LEMMA AppendListed ==
    ASSUME NEW S, NEW s \in Seq(S), NEW e \in S
    PROVE  /\ \A x : Listed(Append(s, e), x) <=> Listed(s, x) \/ x = e
           /\ Distinct(s) /\ ~Listed(s, e) => Distinct(Append(s, e))
<1> DEFINE t == Append(s, e)
           n == Len(s)
<1>1. /\ n \in Nat
      /\ DOMAIN s = 1 .. n
      /\ DOMAIN t = 1 .. n + 1
      /\ \A j \in 1 .. n : t[j] = s[j]
      /\ t[n + 1] = e
  OBVIOUS
<1> HIDE DEF t, n
<1>2. ASSUME NEW x PROVE Listed(t, x) <=> Listed(s, x) \/ x = e
  <2>1. Listed(t, x) => Listed(s, x) \/ x = e
    BY <1>1 DEF Listed
  <2>2. Listed(s, x) => Listed(t, x)
    BY <1>1 DEF Listed
  <2>3. x = e => Listed(t, x)
    <3>1. n + 1 \in DOMAIN t
      BY <1>1
    <3> QED  BY <3>1, <1>1 DEF Listed
  <2> QED  BY <2>1, <2>2, <2>3
<1>3. Distinct(s) /\ ~Listed(s, e) => Distinct(t)
  BY <1>1 DEF Distinct, Listed
<1> QED  BY <1>2, <1>3 DEF t

\* Unlinking an element of a sequence without repetitions removes that element
\* and no other.
LEMMA RemoveListed ==
    ASSUME NEW S, NEW s \in Seq(S), Distinct(s), NEW p \in 1 .. Len(s)
    PROVE  /\ Distinct(RemoveAt(s, p))
           /\ \A x : Listed(RemoveAt(s, p), x) <=> Listed(s, x) /\ x # s[p]
<1> DEFINE t == RemoveAt(s, p)
           n == Len(s)
<1>1. /\ n \in Nat
      /\ p \in 1 .. n
      /\ DOMAIN s = 1 .. n
      /\ t \in Seq(S)
      /\ Len(t) = n - 1
      /\ \A j \in 1 .. n - 1 : t[j] = IF j < p THEN s[j] ELSE s[j + 1]
  BY RemoveAtFacts
<1>2. DOMAIN t = 1 .. n - 1
  BY <1>1
<1> HIDE DEF t, n
<1>3. \A i, j \in 1 .. n : s[i] = s[j] => i = j
  BY <1>1 DEF Distinct
<1> DEFINE from(j) == IF j < p THEN j ELSE j + 1
<1>4. \A j \in 1 .. n - 1 : from(j) \in 1 .. n /\ from(j) # p /\ t[j] = s[from(j)]
  BY <1>1
<1>5. \A i, j \in 1 .. n - 1 : from(i) = from(j) => i = j
  BY <1>1
<1>6. \A i \in 1 .. n : i # p => \E j \in 1 .. n - 1 : from(j) = i
  <2>1. SUFFICES ASSUME NEW i \in 1 .. n, i # p
                 PROVE  \E j \in 1 .. n - 1 : from(j) = i
    OBVIOUS
  <2>2. CASE i < p
    <3>1. i \in 1 .. n - 1 /\ from(i) = i
      BY <2>2, <1>1
    <3> QED  BY <3>1
  <2>3. CASE i > p
    <3>1. i - 1 \in 1 .. n - 1 /\ from(i - 1) = i
      BY <2>3, <1>1
    <3> QED  BY <3>1
  <2> QED  BY <2>1, <2>2, <2>3, <1>1
<1> HIDE DEF from
<1>7. Distinct(t)
  <2>1. SUFFICES ASSUME NEW i \in 1 .. n - 1, NEW j \in 1 .. n - 1, t[i] = t[j]
                 PROVE  i = j
    BY <1>2 DEF Distinct
  <2>2. s[from(i)] = s[from(j)]
    BY <2>1, <1>4
  <2>3. from(i) = from(j)
    BY <2>2, <1>3, <1>4
  <2> QED  BY <2>3, <1>5
<1>8. ASSUME NEW x PROVE Listed(t, x) <=> Listed(s, x) /\ x # s[p]
  <2>1. ASSUME Listed(t, x) PROVE Listed(s, x) /\ x # s[p]
    <3>1. PICK j \in 1 .. n - 1 : t[j] = x
      BY <2>1, <1>2 DEF Listed
    <3>2. from(j) \in 1 .. n /\ from(j) # p /\ s[from(j)] = x
      BY <3>1, <1>4
    <3> QED  BY <3>2, <1>1, <1>3 DEF Listed
  <2>2. ASSUME Listed(s, x), x # s[p] PROVE Listed(t, x)
    <3>1. PICK i \in 1 .. n : s[i] = x
      BY <2>2, <1>1 DEF Listed
    <3>2. PICK j \in 1 .. n - 1 : from(j) = i
      BY <3>1, <2>2, <1>6
    <3> QED  BY <3>1, <3>2, <1>2, <1>4 DEF Listed
  <2> QED  BY <2>1, <2>2
<1> QED  BY <1>7, <1>8 DEF t

\* NextClientValid is inductive once a listed client is known not to be able
\* to connect again.
ListInv ==
    /\ Distinct(clients)
    /\ clients = <<>> => nextClient = NoClient
    /\ clients # <<>> => Listed(clients, nextClient)
    /\ \A c \in Clients : queue[c] # <<>> => Listed(clients, c)
    /\ \A c \in Clients : Listed(clients, c) => s2c[c] # "none"

\* The strengthened invariant of the list implies the stated one.
LEMMA ListInvImplies == ListInv => NextClientValid
BY DEF ListInv, NextClientValid, Distinct, Listed, Registered

\* The list is empty at first.
LEMMA ListInvInit == Init => ListInv
BY DEF Init, ListInv, Distinct, Listed

\* A client that registers was not listed: its descriptor was not yet open.
LEMMA ListInvRegister ==
    ASSUME Types, ListInv, NEW c \in Clients, Register(c)
    PROVE  ListInv'
<1>1. clients \in Seq(Clients) /\ clients' = Append(clients, c)
  BY DEF Types, Register
<1>2. ~Listed(clients, c)
  BY DEF ListInv, Register
<1>3. /\ Distinct(clients')
      /\ \A x : Listed(clients', x) <=> Listed(clients, x) \/ x = c
  BY <1>1, <1>2, AppendListed DEF ListInv
<1>4. clients' # <<>>
  BY <1>1
<1>5. Listed(clients', nextClient')
  <2>1. CASE nextClient = NoClient
    BY <2>1, <1>3 DEF Register
  <2>2. CASE nextClient # NoClient
    <3>1. Listed(clients, nextClient)
      BY <2>2 DEF ListInv
    <3> QED  BY <2>2, <3>1, <1>3 DEF Register
  <2> QED  BY <2>1, <2>2
<1>6. \A d \in Clients : queue'[d] # <<>> => Listed(clients', d)
  BY <1>3 DEF Register, ListInv
<1>7. \A d \in Clients : Listed(clients', d) => s2c'[d] # "none"
  BY <1>3 DEF Register, ListInv, Types
<1> QED  BY <1>3, <1>4, <1>5, <1>6, <1>7 DEF ListInv

\* The successor of the client that is unlinked is another listed client.
LEMMA NextAfterUnlinkFacts ==
    ASSUME Types, Distinct(clients), NEW c, Registered(c)
    PROVE  /\ Len(clients) = 1 => NextAfterUnlink(c) = NoClient
           /\ Len(clients) # 1 => /\ Listed(clients, NextAfterUnlink(c))
                                  /\ NextAfterUnlink(c) # c
<1> DEFINE p == Position(c)
           n == Len(clients)
           q == IF p < n THEN p + 1 ELSE 1
<1>1. clients \in Seq(Clients) /\ DOMAIN clients = 1 .. n /\ n \in Nat
  BY DEF Types
<1>2. p \in 1 .. n /\ clients[p] = c
  BY PositionFacts
<1> HIDE DEF p, n
<1>3. n = 1 => NextAfterUnlink(c) = NoClient
  BY <1>1, <1>2 DEF NextAfterUnlink, p, n
<1>4. n # 1 => q \in 1 .. n /\ q # p /\ NextAfterUnlink(c) = clients[q]
  <2>1. n # 1 => q \in 1 .. n /\ q # p
    BY <1>1, <1>2
  <2>2. n # 1 => NextAfterUnlink(c) = clients[q]
    BY <1>1, <1>2 DEF NextAfterUnlink, p, n
  <2> QED  BY <2>1, <2>2
<1>5. n # 1 => NextAfterUnlink(c) # c
  BY <1>1, <1>2, <1>4 DEF Distinct
<1> QED  BY <1>1, <1>3, <1>4, <1>5 DEF Listed, n

\* A client that is removed leaves a sound list and an empty queue.
LEMMA ListInvRemove ==
    ASSUME Types, ListInv, NEW c \in Clients, RemoveClient(c)
    PROVE  ListInv'
<1>1. /\ clients \in Seq(Clients) /\ Len(clients) \in Nat
      /\ Position(c) \in 1 .. Len(clients) /\ clients[Position(c)] = c
      /\ clients' = RemoveAt(clients, Position(c))
      /\ Registered(c) /\ Distinct(clients)
  <2>1. clients \in Seq(Clients) /\ Len(clients) \in Nat
    BY DEF Types
  <2>2. Registered(c) /\ clients' = RemoveAt(clients, Position(c))
    BY DEF RemoveClient
  <2> QED  BY <2>1, <2>2, PositionFacts DEF ListInv
<1>2. /\ Distinct(clients')
      /\ \A x : Listed(clients', x) <=> Listed(clients, x) /\ x # c
  BY <1>1, RemoveListed
<1>3. clients' \in Seq(Clients) /\ Len(clients') = Len(clients) - 1
  BY <1>1, RemoveAtFacts
<1>4. Listed(clients, nextClient)
  BY <1>1 DEF ListInv
<1>5. CASE Len(clients) = 1
  <2>1. clients' = <<>>
    BY <1>3, <1>5
  <2>2. ~Listed(clients', nextClient)
    BY <2>1 DEF Listed
  <2>3. nextClient = c
    BY <2>2, <1>2, <1>4
  <2>4. nextClient' = NoClient
    BY <2>3, <1>1, <1>5, NextAfterUnlinkFacts DEF RemoveClient
  <2>5. \A d \in Clients : queue'[d] # <<>> => Listed(clients', d)
    BY <1>2 DEF RemoveClient, ListInv, Types
  <2>6. \A d \in Clients : Listed(clients', d) => s2c'[d] # "none"
    BY <1>2 DEF RemoveClient, ListInv, clientVars
  <2> QED  BY <2>1, <2>4, <2>5, <2>6, <1>2 DEF ListInv
<1>6. CASE Len(clients) # 1
  <2>1. clients' # <<>>
    BY <1>1, <1>3, <1>6
  <2>2. Listed(clients', nextClient')
    <3>1. CASE nextClient = c
      BY <3>1, <1>1, <1>2, <1>6, NextAfterUnlinkFacts DEF RemoveClient
    <3>2. CASE nextClient # c
      BY <3>2, <1>2, <1>4 DEF RemoveClient
    <3> QED  BY <3>1, <3>2
  <2>3. \A d \in Clients : queue'[d] # <<>> => Listed(clients', d)
    BY <1>2 DEF RemoveClient, ListInv, Types
  <2>4. \A d \in Clients : Listed(clients', d) => s2c'[d] # "none"
    BY <1>2 DEF RemoveClient, ListInv, clientVars
  <2> QED  BY <2>1, <2>2, <2>3, <2>4, <1>2 DEF ListInv
<1> QED  BY <1>5, <1>6

\* A dequeue moves next_client to the successor, which is listed.
LEMMA ListInvDequeue ==
    ASSUME Types, ListInv, NEW w \in Workers, NEW c \in Clients, Dequeue(w, c)
    PROVE  ListInv'
<1>1. /\ clients \in Seq(Clients) /\ Len(clients) \in Nat
      /\ DOMAIN clients = 1 .. Len(clients)
      /\ Position(c) \in 1 .. Len(clients)
  BY PositionFacts DEF Types, Dequeue
<1>2. clients # <<>> /\ Listed(clients, Successor(c))
  BY <1>1 DEF Successor, Listed
<1>3. \A d \in Clients : queue'[d] # <<>> => queue[d] # <<>>
  BY DEF Dequeue, FairChoice, Types
<1>4. clients' = clients /\ nextClient' = Successor(c) /\ s2c' = s2c
  BY DEF Dequeue, clientVars
<1> QED  BY <1>2, <1>3, <1>4 DEF ListInv

\* The steps that leave the list and the queues alone.
LEMMA ListInvUnchanged ==
    ASSUME ListInv, UNCHANGED <<clients, nextClient, queue, s2c>>
    PROVE  ListInv'
BY DEF ListInv

\* Every step is one of those above, or frees the whole list.
LEMMA ListInvStep == Types /\ ListInv /\ [Next]_vars => ListInv'
<1> SUFFICES ASSUME Types, ListInv, [Next]_vars PROVE ListInv'
  OBVIOUS
<1> USE DEF poolVars, listVars
<1>1. ASSUME NEW c \in Clients, Submit(c) PROVE ListInv'
  <2>1. Listed(clients, c)
    BY <1>1 DEF Submit, Submittable, Registered, Listed
  <2>2. /\ clients' = clients /\ nextClient' = nextClient /\ s2c' = s2c
        /\ \A d \in Clients : d # c => queue'[d] = queue[d]
    BY <1>1 DEF Submit, Types
  <2> QED  BY <2>1, <2>2 DEF ListInv
<1>2. ASSUME NEW c \in Clients, BeginClose(c) \/ MarkDisconnected(c)
      PROVE  ListInv'
  BY <1>2, ListInvUnchanged DEF BeginClose, MarkDisconnected, clientVars
<1>3. ASSUME NEW c \in Clients, CloseFds(c) PROVE ListInv'
  <2>1. /\ clients' = clients /\ nextClient' = nextClient /\ queue' = queue
        /\ \A d \in Clients : s2c[d] # "none" => s2c'[d] # "none"
    BY <1>3 DEF CloseFds, Types
  <2> QED  BY <2>1 DEF ListInv
<1>4. CASE StopServing \/ BeginDestroy
  BY <1>4, ListInvUnchanged DEF StopServing, BeginDestroy, clientVars
<1>5. CASE FinishDestroy
  BY <1>5 DEF FinishDestroy, ListInv, Distinct, Listed
<1>6. ASSUME NEW w \in Workers,
             Sleep(w) \/ SpuriousWake(w) \/ Exit(w) \/ HandlerReturn(w)
      PROVE  ListInv'
  BY <1>6, ListInvUnchanged
     DEF Sleep, SpuriousWake, Exit, HandlerReturn, clientVars
<1>7. ASSUME NEW w \in Workers, NEW c \in Clients, Send(w, c) PROVE ListInv'
  BY <1>7, ListInvUnchanged
     DEF Send, DiscardResponse, StoreResponse, WriteResponse, WriteFails,
         FlushDone, clientVars
<1>8. CASE UNCHANGED vars
  BY <1>8, ListInvUnchanged DEF vars, clientVars
<1> QED  BY <1>1, <1>2, <1>3, <1>4, <1>5, <1>6, <1>7, <1>8, ListInvRegister,
            ListInvRemove, ListInvDequeue
         DEF Next, CloseStep, WorkerStep, Terminated

\* next_client never dangles, the list repeats no client and no request is
\* queued for an unlisted one (unlink_client_queue, threadpool_remove_client).
THEOREM NextClientTheorem == Spec => []NextClientValid
<1>1. Init => Types /\ ListInv
  BY TypesInit, ListInvInit
<1>2. Types /\ ListInv /\ [Next]_vars => (Types /\ ListInv)'
  BY TypesStep, ListInvStep
<1>3. Types /\ ListInv => NextClientValid
  BY ListInvImplies
<1> QED  BY <1>1, <1>2, <1>3, PTL DEF Spec

-----------------------------------------------------------------------------
(* pending_requests and the queues.                                        *)

\* The queued requests when the queues are q.
Places(q) == UNION {{c} \X DOMAIN q[c] : c \in Clients}

\* A place is a client and a position in its queue.
LEMMA PlacesMembers ==
    ASSUME NEW q, NEW x
    PROVE  x \in Places(q) <=>
             \E c \in Clients : \E i \in DOMAIN q[c] : x = <<c, i>>
BY DEF Places

\* A queue that gains or loses one request: the longer one has one place more.
LEMMA PlacesLonger ==
    ASSUME NEW q \in [Clients -> Seq(Nat)], NEW r \in [Clients -> Seq(Nat)],
           NEW c \in Clients,
           Len(r[c]) = Len(q[c]) + 1,
           \A d \in Clients : d # c => r[d] = q[d]
    PROVE  /\ Places(r) = Places(q) \cup {<<c, Len(r[c])>>}
           /\ <<c, Len(r[c])>> \notin Places(q)
<1> DEFINE n == Len(q[c])
           new == <<c, n + 1>>
<1>1. /\ n \in Nat
      /\ DOMAIN q[c] = 1 .. n
      /\ DOMAIN r[c] = 1 .. n + 1
  BY LenProperties
<1> HIDE DEF n
<1>2. new \notin Places(q)
  BY <1>1, PlacesMembers
<1>3. new \in Places(r)
  <2>1. n + 1 \in DOMAIN r[c]
    BY <1>1
  <2> QED  BY <2>1, PlacesMembers
<1>4. \A x : x \in Places(q) => x \in Places(r)
  <2>1. SUFFICES ASSUME NEW x, x \in Places(q) PROVE x \in Places(r)
    OBVIOUS
  <2>1a. PICK d \in Clients : \E i \in DOMAIN q[d] : x = <<d, i>>
    BY <2>1, PlacesMembers
  <2>2. PICK i \in DOMAIN q[d] : x = <<d, i>>
    BY <2>1a
  <2>3. i \in DOMAIN r[d]
    <3>1. CASE d = c
      BY <3>1, <1>1
    <3>2. CASE d # c
      BY <3>2
    <3> QED  BY <3>1, <3>2
  <2> QED  BY <2>2, <2>3, PlacesMembers
<1>5. \A x : x \in Places(r) => x \in Places(q) \/ x = new
  <2>1. SUFFICES ASSUME NEW x, x \in Places(r), x # new PROVE x \in Places(q)
    OBVIOUS
  <2>1a. PICK d \in Clients : \E i \in DOMAIN r[d] : x = <<d, i>>
    BY <2>1, PlacesMembers
  <2>2. PICK i \in DOMAIN r[d] : x = <<d, i>>
    BY <2>1a
  <2>3. i \in DOMAIN q[d]
    <3>1. CASE d = c
      BY <2>1, <2>2, <3>1, <1>1
    <3>2. CASE d # c
      BY <3>2, <2>2
    <3> QED  BY <3>1, <3>2
  <2> QED  BY <2>2, <2>3, PlacesMembers
<1>6. Len(r[c]) = n + 1
  BY DEF n
<1> QED  BY <1>2, <1>3, <1>4, <1>5, <1>6

\* Taking the head of a queue removes one place.
LEMMA PlacesShorter ==
    ASSUME NEW q \in [Clients -> Seq(Nat)], NEW r \in [Clients -> Seq(Nat)],
           NEW c \in Clients,
           Len(q[c]) = Len(r[c]) + 1,
           \A d \in Clients : d # c => r[d] = q[d]
    PROVE  /\ Places(r) = Places(q) \ {<<c, Len(q[c])>>}
           /\ <<c, Len(q[c])>> \in Places(q)
<1>1. \A d \in Clients : d # c => q[d] = r[d]
  OBVIOUS
<1>2. /\ Places(q) = Places(r) \cup {<<c, Len(q[c])>>}
      /\ <<c, Len(q[c])>> \notin Places(r)
  BY <1>1, PlacesLonger
<1> QED  BY <1>2

\* Emptying a queue removes as many places as it had requests.
LEMMA PlacesEmptied ==
    ASSUME NEW q \in [Clients -> Seq(Nat)], NEW r \in [Clients -> Seq(Nat)],
           NEW c \in Clients,
           r[c] = <<>>,
           \A d \in Clients : d # c => r[d] = q[d],
           IsFiniteSet(Places(q))
    PROVE  /\ IsFiniteSet(Places(r))
           /\ Cardinality(Places(r)) = Cardinality(Places(q)) - Len(q[c])
<1> DEFINE n == Len(q[c])
           own == {c} \X (1 .. n)
<1>1. n \in Nat /\ DOMAIN q[c] = 1 .. n
  BY LenProperties
<1> HIDE DEF n
<1>2. Places(r) = Places(q) \ own
  <2>1. \A x : x \in Places(r) => x \in Places(q) /\ x \notin own
    <3>1. SUFFICES ASSUME NEW x, x \in Places(r)
                   PROVE  x \in Places(q) /\ x \notin own
      OBVIOUS
    <3>1a. PICK d \in Clients : \E i \in DOMAIN r[d] : x = <<d, i>>
      BY <3>1, PlacesMembers
    <3>2. PICK i \in DOMAIN r[d] : x = <<d, i>>
      BY <3>1a
    <3>3. d # c
      BY <3>2
    <3>4. x \in Places(q)
      BY <3>2, <3>3, PlacesMembers
    <3> QED  BY <3>2, <3>3, <3>4
  <2>2. \A x : x \in Places(q) /\ x \notin own => x \in Places(r)
    <3>1. SUFFICES ASSUME NEW x, x \in Places(q), x \notin own
                   PROVE  x \in Places(r)
      OBVIOUS
    <3>1a. PICK d \in Clients : \E i \in DOMAIN q[d] : x = <<d, i>>
      BY <3>1, PlacesMembers
    <3>2. PICK i \in DOMAIN q[d] : x = <<d, i>>
      BY <3>1a
    <3>3. d # c
      BY <3>1, <3>2, <1>1
    <3> QED  BY <3>2, <3>3, PlacesMembers
  <2> QED  BY <2>1, <2>2
<1>3. IsFiniteSet(own) /\ Cardinality(own) = n
  <2>1. IsFiniteSet({c}) /\ Cardinality({c}) = 1
    BY FS_Singleton
  <2>2. IsFiniteSet(1 .. n) /\ Cardinality(1 .. n) = n
    BY <1>1, FS_Interval
  <2>3. /\ IsFiniteSet({c} \X (1 .. n))
        /\ Cardinality({c} \X (1 .. n)) = Cardinality({c}) * Cardinality(1 .. n)
    BY <2>1, <2>2, FS_Product
  <2> QED  BY <2>1, <2>2, <2>3, <1>1
<1>4. Places(q) \cap own = own
  <2>1. \A x : x \in own => x \in Places(q)
    BY <1>1, PlacesMembers
  <2> QED  BY <2>1
<1>5. /\ IsFiniteSet(Places(q) \ own)
      /\ Cardinality(Places(q) \ own)
           = Cardinality(Places(q)) - Cardinality(Places(q) \cap own)
  BY FS_Difference
<1> QED  BY <1>2, <1>3, <1>4, <1>5 DEF n

\* What the counter and the queues satisfy together: the count is exact, and
\* nothing is queued any more when a worker has left.
CountInv ==
    /\ IsFiniteSet(QueuedRequests)
    /\ PendingExact
    /\ DrainedBeforeExit

\* At first nothing is queued, nothing is counted and nobody has left.
LEMMA CountInvInit == Init => CountInv
<1> SUFFICES ASSUME Init PROVE CountInv
  OBVIOUS
<1>1. \A x : x \notin Places(queue)
  BY PlacesMembers DEF Init
<1>2. QueuedRequests = {}
  BY <1>1 DEF QueuedRequests, Places
<1>3. At("exited") = {}
  BY DEF Init, At
<1> QED  BY <1>2, <1>3, FS_EmptySet DEF Init, CountInv, PendingExact,
            DrainedBeforeExit

\* Workers do not leave in the other steps than Exit.
LEMMA ExitedUnchanged ==
    ASSUME Types,
           \/ UNCHANGED worker
           \/ SignalOne
           \/ WakeAll
           \/ \E w \in Workers, p \in WorkerPlaces \ {"exited"} :
                worker' = [worker EXCEPT ![w] = p]
    PROVE  At("exited")' \subseteq At("exited")
BY DEF Types, At, SignalOne, WakeAll, WorkerPlaces

\* The steps that leave the queues and pending_requests alone.
LEMMA CountInvUnchanged ==
    ASSUME Types, CountInv, UNCHANGED <<queue, pending>>,
           shuttingDown => shuttingDown',
           At("exited")' \subseteq At("exited")
    PROVE  CountInv'
BY DEF CountInv, QueuedRequests, PendingExact, DrainedBeforeExit

\* A submitted request is queued and counted, and nobody has left by then.
LEMMA CountInvSubmit ==
    ASSUME Types, Types', CountInv, NEW c \in Clients, Submit(c)
    PROVE  CountInv'
<1>1. /\ Len(queue'[c]) = Len(queue[c]) + 1
      /\ \A d \in Clients : d # c => queue'[d] = queue[d]
  <2>1. received[c] \in Nat /\ queue[c] \in Seq(Nat)
    BY DEF Types
  <2>2. queue'[c] = Append(queue[c], received[c])
    BY DEF Submit, Types
  <2>3. \A d \in Clients : d # c => queue'[d] = queue[d]
    BY DEF Submit, Types
  <2> QED  BY <2>1, <2>2, <2>3
<1>2. queue \in [Clients -> Seq(Nat)] /\ queue' \in [Clients -> Seq(Nat)]
  BY DEF Types
<1> DEFINE new == <<c, Len(queue'[c])>>
<1>3. /\ Places(queue') = Places(queue) \cup {new}
      /\ new \notin Places(queue)
  BY <1>1, <1>2, PlacesLonger
<1>4. IsFiniteSet(Places(queue)) /\ pending = Cardinality(Places(queue))
  BY DEF CountInv, PendingExact, QueuedRequests, Places
<1> HIDE DEF new
<1>5. /\ IsFiniteSet(Places(queue'))
      /\ Cardinality(Places(queue')) = Cardinality(Places(queue)) + 1
  BY <1>3, <1>4, FS_AddElement
<1>6. pending' = Cardinality(Places(queue'))
  BY <1>4, <1>5 DEF Submit
<1>7. At("exited")' = {}
  <2>1. At("exited") = {}
    BY DEF Submit, Submittable, CountInv, DrainedBeforeExit
  <2> QED  BY <2>1, ExitedUnchanged DEF Submit
<1> QED  BY <1>5, <1>6, <1>7
         DEF CountInv, PendingExact, QueuedRequests, Places, DrainedBeforeExit

\* A dequeued request is uncounted.
LEMMA CountInvDequeue ==
    ASSUME Types, Types', CountInv, NEW w \in Workers, NEW c \in Clients,
           Dequeue(w, c)
    PROVE  CountInv'
<1>1. /\ Len(queue[c]) = Len(queue'[c]) + 1
      /\ \A d \in Clients : d # c => queue'[d] = queue[d]
  <2>1. queue[c] \in Seq(Nat) /\ queue[c] # <<>>
    BY DEF Types, Dequeue, FairChoice
  <2>2. queue'[c] = Tail(queue[c])
    BY DEF Dequeue, Types
  <2>3. \A d \in Clients : d # c => queue'[d] = queue[d]
    BY DEF Dequeue, Types
  <2>4. Len(queue[c]) \in Nat /\ Len(Tail(queue[c])) = Len(queue[c]) - 1
    BY <2>1, HeadTailProperties
  <2> QED  BY <2>2, <2>3, <2>4
<1>2. queue \in [Clients -> Seq(Nat)] /\ queue' \in [Clients -> Seq(Nat)]
  BY DEF Types
<1> DEFINE last == <<c, Len(queue[c])>>
<1>3. /\ Places(queue') = Places(queue) \ {last}
      /\ last \in Places(queue)
  BY <1>1, <1>2, PlacesShorter
<1>4. IsFiniteSet(Places(queue)) /\ pending = Cardinality(Places(queue))
  BY DEF CountInv, PendingExact, QueuedRequests, Places
<1> HIDE DEF last
<1>5. /\ IsFiniteSet(Places(queue'))
      /\ Cardinality(Places(queue')) = Cardinality(Places(queue)) - 1
  BY <1>3, <1>4, FS_RemoveElement
<1>6. pending' = Cardinality(Places(queue'))
  BY <1>4, <1>5 DEF Dequeue
<1>7. At("exited")' = {}
  <2>1. At("exited") = {}
    BY DEF Dequeue, FairChoice, CountInv, DrainedBeforeExit
  <2> QED  BY <2>1, ExitedUnchanged DEF Dequeue, WorkerPlaces
<1> QED  BY <1>5, <1>6, <1>7
         DEF CountInv, PendingExact, QueuedRequests, Places, DrainedBeforeExit

\* The requests dropped with a client are uncounted.
LEMMA CountInvRemove ==
    ASSUME Types, Types', CountInv, NEW c \in Clients, RemoveClient(c)
    PROVE  CountInv'
<1>1. /\ queue'[c] = <<>>
      /\ \A d \in Clients : d # c => queue'[d] = queue[d]
  BY DEF RemoveClient, Types
<1>2. queue \in [Clients -> Seq(Nat)] /\ queue' \in [Clients -> Seq(Nat)]
  BY DEF Types
<1>3. IsFiniteSet(Places(queue)) /\ pending = Cardinality(Places(queue))
  BY DEF CountInv, PendingExact, QueuedRequests, Places
<1>4. /\ IsFiniteSet(Places(queue'))
      /\ Cardinality(Places(queue'))
           = Cardinality(Places(queue)) - Len(queue[c])
  BY <1>1, <1>2, <1>3, PlacesEmptied
<1>5. pending' = Cardinality(Places(queue'))
  BY <1>3, <1>4 DEF RemoveClient, Dropped
<1>6. \A d \in Clients : queue[d] = <<>> => queue'[d] = <<>>
  BY <1>1
<1>7. At("exited")' = At("exited") /\ shuttingDown' = shuttingDown
  BY DEF RemoveClient, At
<1> QED  BY <1>4, <1>5, <1>6, <1>7
         DEF CountInv, PendingExact, QueuedRequests, Places, DrainedBeforeExit

\* A worker leaves with nothing pending, so with every queue empty.
LEMMA CountInvExit ==
    ASSUME Types, CountInv, NEW w \in Workers, Exit(w)
    PROVE  CountInv'
<1>1. QueuedRequests = {}
  <2>1. IsFiniteSet(QueuedRequests) /\ Cardinality(QueuedRequests) = 0
    BY DEF CountInv, PendingExact, Exit, Finished
  <2> QED  BY <2>1, FS_EmptySet
<1>2. ASSUME NEW c \in Clients PROVE queue[c] = <<>>
  <2>1. SUFFICES ASSUME queue[c] # <<>> PROVE FALSE
    OBVIOUS
  <2>2. queue[c] \in Seq(Nat)
    BY DEF Types
  <2>3. 1 \in DOMAIN queue[c]
    BY <2>1, <2>2, EmptySeq, LenProperties
  <2>4. <<c, 1>> \in Places(queue)
    BY <2>3, PlacesMembers
  <2> QED  BY <2>4, <1>1 DEF Places, QueuedRequests
<1> QED  BY <1>2 DEF Exit, Finished, CountInv, PendingExact, QueuedRequests,
            DrainedBeforeExit, poolVars, listVars

\* Once everyone has left, freeing the queues drops no request.
LEMMA CountInvFree ==
    ASSUME Types, CountInv, FinishDestroy
    PROVE  CountInv'
<1>1. At("exited") # {}
  BY WorkersAssumption DEF FinishDestroy
<1>2. \A c \in Clients : queue[c] = <<>>
  BY <1>1 DEF CountInv, DrainedBeforeExit
<1>3. queue' = queue
  BY <1>2 DEF FinishDestroy, Types
<1>4. At("exited")' = At("exited")
  BY DEF FinishDestroy, At
<1> QED  BY <1>3, <1>4, CountInvUnchanged DEF FinishDestroy

\* Every step is one of those above.
LEMMA CountInvStep == Types /\ CountInv /\ [Next]_vars => CountInv'
<1> SUFFICES ASSUME Types, Types', CountInv, [Next]_vars PROVE CountInv'
  BY TypesStep
<1>1. ASSUME NEW c \in Clients,
             \/ Register(c) \/ BeginClose(c)
             \/ MarkDisconnected(c) \/ CloseFds(c)
      PROVE  CountInv'
  <2>1. UNCHANGED <<queue, pending, shuttingDown, worker>>
    BY <1>1 DEF Register, BeginClose, MarkDisconnected, CloseFds, poolVars,
                threadVars
  <2> QED  BY <2>1, ExitedUnchanged, CountInvUnchanged
<1>2. CASE StopServing \/ BeginDestroy
  <2>1. UNCHANGED <<queue, pending>> /\ (shuttingDown => shuttingDown')
    BY <1>2 DEF StopServing, BeginDestroy, poolVars
  <2>2. UNCHANGED worker \/ WakeAll
    BY <1>2 DEF StopServing, BeginDestroy
  <2> QED  BY <2>1, <2>2, ExitedUnchanged, CountInvUnchanged
<1>3. ASSUME NEW w \in Workers,
             Sleep(w) \/ SpuriousWake(w) \/ HandlerReturn(w)
      PROVE  CountInv'
  <2>1. UNCHANGED <<queue, pending, shuttingDown>>
    BY <1>3 DEF Sleep, SpuriousWake, HandlerReturn, poolVars
  <2>2. \E p \in WorkerPlaces \ {"exited"} : worker' = [worker EXCEPT ![w] = p]
    BY <1>3 DEF Sleep, SpuriousWake, HandlerReturn, WorkerPlaces
  <2> QED  BY <2>1, <2>2, ExitedUnchanged, CountInvUnchanged
<1>4. ASSUME NEW w \in Workers, NEW c \in Clients, Send(w, c) PROVE CountInv'
  <2>1. UNCHANGED <<queue, pending, shuttingDown>>
    BY <1>4 DEF Send, DiscardResponse, StoreResponse, WriteResponse,
                WriteFails, FlushDone, poolVars
  <2>2. \/ UNCHANGED worker
        \/ \E p \in WorkerPlaces \ {"exited"} :
             worker' = [worker EXCEPT ![w] = p]
    BY <1>4 DEF Send, DiscardResponse, StoreResponse, WriteResponse,
                WriteFails, FlushDone, Unlock, threadVars, WorkerPlaces
  <2> QED  BY <2>1, <2>2, ExitedUnchanged, CountInvUnchanged
<1>5. CASE UNCHANGED vars
  <2>1. UNCHANGED <<queue, pending, shuttingDown, worker>>
    BY <1>5 DEF vars, poolVars, threadVars
  <2> QED  BY <2>1, ExitedUnchanged, CountInvUnchanged
<1> QED  BY <1>1, <1>2, <1>3, <1>4, <1>5, CountInvSubmit, CountInvDequeue,
            CountInvRemove, CountInvExit, CountInvFree
         DEF Next, CloseStep, WorkerStep, Terminated

\* The types and the count together are an invariant of the specification.
LEMMA CountAlways == Spec => [](Types /\ CountInv)
<1>1. Init => Types /\ CountInv
  BY TypesInit, CountInvInit
<1>2. Types /\ CountInv /\ [Next]_vars => (Types /\ CountInv)'
  BY TypesStep, CountInvStep
<1> QED  BY <1>1, <1>2, PTL DEF Spec

\* Every variable keeps its type; pending_requests, a size_t, does not wrap
\* below zero (threadpool_remove_client, dequeue_fair_request).
THEOREM TypeTheorem == Spec => []TypeOK
<1>1. Types /\ CountInv => TypeOK
  BY FS_CardinalityType DEF TypeOK, CountInv, PendingExact
<1> QED  BY <1>1, CountAlways, PTL

\* pending_requests counts exactly the requests in the queues
\* (threadpool_submit, dequeue_fair_request, threadpool_remove_client).
THEOREM PendingTheorem == Spec => []PendingExact
<1>1. Types /\ CountInv => PendingExact
  BY DEF CountInv
<1> QED  BY <1>1, CountAlways, PTL

\* Workers leave only with every queue empty (worker_main's loop exit), so
\* threadpool_destroy frees no request.
THEOREM DrainedTheorem == Spec => []DrainedBeforeExit
<1>1. Types /\ CountInv => DrainedBeforeExit
  BY DEF CountInv
<1> QED  BY <1>1, CountAlways, PTL

-----------------------------------------------------------------------------
(* work_available.                                                         *)

\* How many workers are on their way to the mutex when one of them comes or
\* leaves.
LEMMA AwakeCount ==
    ASSUME NEW w \in Workers
    PROVE  /\ Cardinality(At("lock")) \in Nat
           /\ At("lock")' = At("lock") \cup {w} /\ w \notin At("lock")
                => Cardinality(At("lock")') = Cardinality(At("lock")) + 1
           /\ At("lock")' = At("lock") \ {w} /\ w \in At("lock")
                => Cardinality(At("lock")') = Cardinality(At("lock")) - 1
<1>1. IsFiniteSet(At("lock"))
  BY WorkersAssumption, FS_Subset DEF At
<1> QED  BY <1>1, FS_CardinalityType, FS_AddElement, FS_RemoveElement

\* The steps of workers that do not sleep, and of those that stop sleeping.
LEMMA WakeupKept ==
    ASSUME Types, NoLostWakeup, UNCHANGED shuttingDown,
           pending' \in Int, pending' <= pending,
           At("asleep")' \subseteq At("asleep"),
           \/ At("lock")' = At("lock")
           \/ \E w \in Workers : /\ w \notin At("lock")
                                 /\ At("lock")' = At("lock") \cup {w}
    PROVE  NoLostWakeup'
<1>1. \A w \in Workers : /\ w \notin At("lock")
                         /\ At("lock")' = At("lock") \cup {w}
        => Cardinality(At("lock")') = Cardinality(At("lock")) + 1
  BY AwakeCount
<1>2. Cardinality(At("lock")) \in Nat
  BY AwakeCount, WorkersAssumption
<1>3. Cardinality(At("lock")') >= Cardinality(At("lock"))
  BY <1>1, <1>2
<1>4. Cardinality(At("lock")') \in Int
  BY <1>1, <1>2
<1>5. pending \in Int
  BY DEF Types
<1> QED  BY <1>2, <1>3, <1>4, <1>5 DEF NoLostWakeup

\* One request more, and one sleeper less unless nobody sleeps.
LEMMA WakeupSubmit ==
    ASSUME Types, NoLostWakeup, NEW c \in Clients, Submit(c)
    PROVE  NoLostWakeup'
<1>1. pending \in Int /\ pending' = pending + 1 /\ ~shuttingDown'
  BY DEF Submit, Submittable, Types
<1>2. CASE At("asleep") = {}
  BY <1>2 DEF Submit, SignalOne, NoLostWakeup, At
<1>3. CASE At("asleep") # {}
  <2>1. PICK w \in At("asleep") : worker' = [worker EXCEPT ![w] = "lock"]
    BY <1>3 DEF Submit, SignalOne
  <2>2. w \in Workers /\ w \notin At("lock")
    BY <2>1 DEF At
  <2>3. At("lock")' = At("lock") \cup {w}
    BY <2>1, <2>2 DEF At, Types
  <2>4. /\ Cardinality(At("lock")) \in Nat
        /\ Cardinality(At("lock")') = Cardinality(At("lock")) + 1
    BY <2>2, <2>3, AwakeCount
  <2> QED  BY <1>1, <1>3, <2>4 DEF NoLostWakeup
<1> QED  BY <1>2, <1>3

\* One request less, and one worker less on its way.
LEMMA WakeupDequeue ==
    ASSUME Types, NoLostWakeup, NEW w \in Workers, NEW c \in Clients,
           Dequeue(w, c)
    PROVE  NoLostWakeup'
<1>1. /\ pending \in Int /\ pending' = pending - 1
      /\ shuttingDown' = shuttingDown
      /\ worker[w] = "lock" /\ worker' = [worker EXCEPT ![w] = "handling"]
  BY DEF Dequeue, Types
<1>2. /\ At("lock")' = At("lock") \ {w} /\ w \in At("lock")
      /\ At("asleep")' = At("asleep")
  BY <1>1 DEF At, Types
<1>3. /\ Cardinality(At("lock")) \in Nat
      /\ Cardinality(At("lock")') = Cardinality(At("lock")) - 1
  BY <1>2, AwakeCount
<1> QED  BY <1>1, <1>2, <1>3 DEF NoLostWakeup

\* Every step is one of those above, or wakes or stops everyone.
LEMMA WakeupStep == Types /\ NoLostWakeup /\ [Next]_vars => NoLostWakeup'
<1> SUFFICES ASSUME Types, NoLostWakeup, [Next]_vars PROVE NoLostWakeup'
  OBVIOUS
<1> USE DEF poolVars, threadVars
<1>1. ASSUME UNCHANGED <<pending, shuttingDown, worker>> PROVE NoLostWakeup'
  BY <1>1 DEF NoLostWakeup, At
<1>2. ASSUME NEW c \in Clients,
             \/ Register(c) \/ BeginClose(c)
             \/ MarkDisconnected(c) \/ CloseFds(c)
      PROVE  NoLostWakeup'
  BY <1>1, <1>2 DEF Register, BeginClose, MarkDisconnected, CloseFds
<1>3. ASSUME NEW c \in Clients, RemoveClient(c) PROVE NoLostWakeup'
  <2>1. pending \in Int /\ Len(queue[c]) \in Nat
    BY DEF Types
  <2>2. pending' = pending - Len(queue[c])
        /\ UNCHANGED <<shuttingDown, worker>>
    BY <1>3 DEF RemoveClient, Dropped
  <2> QED  BY <2>1, <2>2, WakeupKept DEF At
<1>4. CASE StopServing \/ FinishDestroy
  BY <1>1, <1>4 DEF StopServing, FinishDestroy
<1>5. CASE BeginDestroy
  <2>1. At("asleep")' = {}
    BY <1>5 DEF BeginDestroy, WakeAll, At, Types
  <2> QED  BY <2>1 DEF NoLostWakeup
<1>6. ASSUME NEW w \in Workers, Sleep(w) PROVE NoLostWakeup'
  <2>1. pending' = 0 /\ ~shuttingDown'
    BY <1>6 DEF Sleep
  <2>2. At("lock")' = At("lock") \ {w} /\ w \in At("lock")
    BY <1>6 DEF Sleep, At, Types
  <2>3. /\ IsFiniteSet(At("lock") \ {w})
        /\ Cardinality(At("lock") \ {w}) \in Nat
    BY WorkersAssumption, FS_Subset, FS_CardinalityType DEF At
  <2> QED  BY <2>1, <2>2, <2>3 DEF NoLostWakeup
<1>7. ASSUME NEW w \in Workers, SpuriousWake(w) PROVE NoLostWakeup'
  <2>1. /\ At("lock")' = At("lock") \cup {w} /\ w \notin At("lock")
        /\ At("asleep")' \subseteq At("asleep")
        /\ UNCHANGED <<pending, shuttingDown>> /\ pending \in Int
    BY <1>7 DEF SpuriousWake, At, Types
  <2> QED  BY <2>1, WakeupKept
<1>8. ASSUME NEW w \in Workers, Exit(w) PROVE NoLostWakeup'
  <2>1. At("asleep") = {}
    BY <1>8 DEF Exit, Finished, NoLostWakeup
  <2>2. At("asleep")' = {}
    BY <1>8, <2>1 DEF Exit, At, Types
  <2> QED  BY <2>2 DEF NoLostWakeup
<1>9. ASSUME NEW w \in Workers, NEW c \in Clients,
             StoreResponse(w, c) \/ WriteResponse(w, c)
      PROVE  NoLostWakeup'
  <2>1. /\ At("lock")' = At("lock") /\ At("asleep")' = At("asleep")
        /\ UNCHANGED <<pending, shuttingDown>> /\ pending \in Int
    BY <1>9 DEF StoreResponse, WriteResponse, At, Types
  <2> QED  BY <2>1, WakeupKept
<1>10. ASSUME NEW w \in Workers, NEW c \in Clients,
              \/ DiscardResponse(w, c) \/ WriteFails(w, c) \/ FlushDone(w, c)
       PROVE  NoLostWakeup'
  <2>1. /\ worker[w] \in {"deliver", "flush"}
        /\ worker' = [worker EXCEPT ![w] = "lock"]
        /\ UNCHANGED <<pending, shuttingDown>>
    BY <1>10 DEF DiscardResponse, WriteFails, FlushDone, Unlock
  <2>2. /\ At("lock")' = At("lock") \cup {w} /\ w \notin At("lock")
        /\ At("asleep")' \subseteq At("asleep")
        /\ pending \in Int
    BY <2>1 DEF At, Types
  <2> QED  BY <2>1, <2>2, WakeupKept
<1>11. CASE UNCHANGED vars
  BY <1>1, <1>11 DEF vars
<1>12. ASSUME NEW w \in Workers, HandlerReturn(w) PROVE NoLostWakeup'
  <2>1. /\ At("lock")' = At("lock") /\ At("asleep")' = At("asleep")
        /\ UNCHANGED <<pending, shuttingDown>> /\ pending \in Int
    BY <1>12 DEF HandlerReturn, At, Types
  <2> QED  BY <2>1, WakeupKept
<1> QED  BY <1>2, <1>3, <1>4, <1>5, <1>6, <1>7, <1>8, <1>9, <1>10, <1>11,
            <1>12, WakeupSubmit, WakeupDequeue
         DEF Next, CloseStep, WorkerStep, Send, Terminated

\* No wakeup is lost: while a worker waits on work_available, each queued
\* request has a worker on its way to it (threadpool_submit's
\* pthread_cond_signal, threadpool_destroy's broadcast, worker_main's loop).
THEOREM WakeupTheorem == Spec => []NoLostWakeup
<1>1. Init => Types /\ NoLostWakeup
  BY TypesInit DEF Init, NoLostWakeup, At
<1>2. Types /\ NoLostWakeup /\ [Next]_vars => (Types /\ NoLostWakeup)'
  BY TypesStep, WakeupStep
<1> QED  BY <1>1, <1>2, PTL DEF Spec

=============================================================================
