-------------------------- MODULE SchedulingProofs --------------------------
(***************************************************************************)
(* The proof of the pool's scheduling promise, FairScheduling, for every   *)
(* set of clients and workers and every number of requests.                *)
(***************************************************************************)
EXTENDS FairScheduling, ThreadPoolProofs

-----------------------------------------------------------------------------
(* The circular scan.                                                      *)

\* Position i is visited before position j in a scan that starts at n.
Before(n, i, j) ==
    \/ n <= i /\ i < j
    \/ i < j /\ j < n
    \/ j < n /\ n <= i

\* A scan that starts after k visits k last, and leaves the order of those that
\* the scan from n visits after k.
LEMMA Rotated ==
    ASSUME NEW len \in Nat, NEW n \in 1 .. len, NEW k \in 1 .. len,
           NEW i \in 1 .. len \ {k}
    PROVE  LET m == IF k < len THEN k + 1 ELSE 1 IN
           /\ Before(m, i, k)
           /\ \A j \in 1 .. len \ {k} :
                  Before(n, i, j) /\ ~Before(n, i, k) => Before(m, i, j)
BY DEF Before

\* Where position i is once position k is gone.
Shifted(i, k) == IF i < k THEN i ELSE i - 1

\* Without position k the others are visited in the same order, if a scan that
\* started there starts at the next one.
LEMMA Closed ==
    ASSUME NEW len \in Nat, NEW n \in 1 .. len, NEW k \in 1 .. len,
           NEW i \in 1 .. len \ {k}, NEW j \in 1 .. len \ {k}, Before(n, i, j)
    PROVE  LET m == IF n # k THEN n ELSE IF k < len THEN k + 1 ELSE 1 IN
           /\ m \in 1 .. len \ {k}
           /\ Before(Shifted(m, k), Shifted(i, k), Shifted(j, k))
BY DEF Before, Shifted

\* An element of a list without repetitions has one position.
LEMMA OnePosition ==
    ASSUME Types, Distinct(clients), NEW i \in 1 .. Len(clients)
    PROVE  Registered(clients[i]) /\ Position(clients[i]) = i
<1>1. DOMAIN clients = 1 .. Len(clients)
  BY DEF Types
<1>2. Registered(clients[i])
  BY <1>1 DEF Registered
<1> QED  BY <1>1, <1>2, PositionFacts DEF Distinct

\* The scan of the pool, by positions.
LEMMA ScanPositions ==
    ASSUME NEW c, NEW d
    PROVE  ScannedBefore(c, d)
               <=> Before(Position(nextClient), Position(c), Position(d))
BY DEF ScannedBefore, Before

\* Where clients are once one is unlinked.
LEMMA RemovedPosition ==
    ASSUME Types, Types', ListInv, ListInv', NEW e \in Clients, RemoveClient(e),
           NEW x, Registered(x), x # e
    PROVE  Position(x)' = Shifted(Position(x), Position(e))
<1> DEFINE n == Len(clients)
           k == Position(e)
           i == Position(x)
<1>1. /\ k \in 1 .. n /\ clients[k] = e /\ i \in 1 .. n /\ clients[i] = x
      /\ clients' = RemoveAt(clients, k) /\ clients \in Seq(Clients) /\ n \in Nat
  BY PositionFacts DEF RemoveClient, Types
<1> HIDE DEF n, k, i
<1>2. /\ Len(clients') = n - 1
      /\ \A j \in 1 .. n - 1 :
             clients'[j] = IF j < k THEN clients[j] ELSE clients[j + 1]
  BY <1>1, RemoveAtFacts DEF n
<1>3. i # k
  BY <1>1
<1>4. /\ Shifted(i, k) \in 1 .. n - 1
      /\ IF Shifted(i, k) < k THEN Shifted(i, k) = i ELSE Shifted(i, k) + 1 = i
  BY <1>1, <1>3 DEF Shifted
<1>5. clients'[Shifted(i, k)] = x
  BY <1>1, <1>2, <1>4
<1>6. Shifted(i, k) \in 1 .. Len(clients')
  BY <1>2, <1>4
<1>7. \A j \in 1 .. Len(clients') : Position(clients[j])' = j
  <2>1. Distinct(clients')
    BY DEF ListInv
  <2>2. DOMAIN clients' = 1 .. Len(clients')
    BY DEF Types
  <2> QED  BY <2>1, <2>2 DEF Distinct, Position
<1> QED  BY <1>5, <1>6, <1>7 DEF i, k

-----------------------------------------------------------------------------
(* The inductive invariant.                                                *)

\* ServedIsBehind and BoundedBypass are inductive once a client that has been
\* served is known not to register again, at the tail of the list.
BypassSound ==
    /\ bypass \in [Clients -> [Clients -> Nat]]
    /\ \A c, d \in Clients :
         /\ bypass[c][d] <= 1
         /\ bypass[c][d] > 0 => /\ queue[c] # <<>>
                                /\ s2c[d] # "none"
                                /\ Registered(d) => ScannedBefore(c, d)

\* A step that serves nobody counts nothing.
LEMMA NobodyServed ==
    ASSUME BypassSound, CountBypass, \A d \in Clients : ~Serves(d)
    PROVE  /\ bypass' \in [Clients -> [Clients -> Nat]]
           /\ \A c, d \in Clients :
                /\ bypass'[c][d] <= 1
                /\ bypass'[c][d] > 0 => /\ bypass[c][d] > 0
                                        /\ queue[c] # <<>> /\ queue'[c] # <<>>
<1>1. \A c, d \in Clients :
          /\ bypass'[c][d] \in {0, bypass[c][d]}
          /\ queue[c] = <<>> \/ queue'[c] = <<>> => bypass'[c][d] = 0
  BY DEF CountBypass
<1>2. \A c, d \in Clients : bypass[c][d] \in Nat
  BY DEF BypassSound
<1>3. bypass' \in [Clients -> [Clients -> Nat]]
  BY <1>2 DEF CountBypass
<1> QED  BY <1>1, <1>2, <1>3 DEF BypassSound

\* So it keeps the invariant when it keeps the order of the scan for those
\* listed, and lists no client again.
LEMMA OrderKept ==
    ASSUME BypassSound, CountBypass, \A d \in Clients : ~Serves(d),
           \A d \in Clients : s2c[d] # "none" => s2c'[d] # "none",
           \A c, d \in Clients :
               /\ queue[c] # <<>> /\ queue'[c] # <<>>
               /\ s2c[d] # "none" /\ Registered(d)'
               /\ Registered(d) => ScannedBefore(c, d)
               => ScannedBefore(c, d)'
    PROVE  BypassSound'
BY NobodyServed DEF BypassSound

LEMMA BypassUnchanged ==
    ASSUME BypassSound, CountBypass, \A d \in Clients : ~Serves(d),
           UNCHANGED <<clients, nextClient>>,
           \A d \in Clients : s2c[d] # "none" => s2c'[d] # "none"
    PROVE  BypassSound'
<1>1. ASSUME NEW c \in Clients, NEW d \in Clients, Registered(d)'
      PROVE  Registered(d) /\ (ScannedBefore(c, d) => ScannedBefore(c, d)')
  BY <1>1 DEF Registered, ScannedBefore, Position
<1> QED  BY <1>1, OrderKept

\* A dequeue serves its client and no other.
LEMMA DequeueServes ==
    ASSUME Types, NEW w \in Workers, NEW e \in Clients, Dequeue(w, e), NEW d
    PROVE  Serves(d) <=> d = e
BY DEF Serves, Dequeue, Types

\* The client served goes to the end of the scan, which keeps the order of the
\* others that wait: all of them come after it.
LEMMA BypassDequeue ==
    ASSUME Types, ListInv, BypassSound, CountBypass,
           NEW w \in Workers, NEW e \in Clients, Dequeue(w, e)
    PROVE  BypassSound'
<1>1. /\ Registered(e) /\ FairChoice(e) /\ nextClient' = Successor(e)
      /\ UNCHANGED <<clients, s2c>>
      /\ \A c \in Clients : c # e => queue'[c] = queue[c]
      /\ \A d \in Clients : Serves(d) <=> d = e
  BY DequeueServes DEF Dequeue, Types, clientVars
<1>2. \A c, d \in Clients : bypass[c][d] \in Nat
  BY DEF BypassSound
<1>3. bypass' \in [Clients -> [Clients -> Nat]]
  BY <1>2 DEF CountBypass
<1>4. \A c, d \in Clients :
          bypass'[c][d] > 0 =>
              /\ c # e /\ queue[c] # <<>> /\ queue'[c] # <<>>
              /\ bypass'[c][d] = IF d = e THEN bypass[c][d] + 1 ELSE bypass[c][d]
  BY <1>1 DEF CountBypass
<1>5. s2c[e] # "none"
  BY <1>1 DEF ListInv, Registered, Listed
<1>6. ASSUME NEW c \in Clients, c # e, queue[c] # <<>>
      PROVE  /\ bypass[c][e] = 0
             /\ ScannedBefore(c, e)'
             /\ \A d \in Clients : d # e /\ Registered(d) /\ ScannedBefore(c, d)
                    => ScannedBefore(c, d)'
  <2>1. Registered(c) /\ Registered(nextClient)
    <3>1. clients # <<>>
      BY <1>1 DEF Registered
    <3>2. Listed(clients, c) /\ Listed(clients, nextClient)
      BY <1>6, <3>1 DEF ListInv
    <3> QED  BY <3>2 DEF Listed, Registered
  <2>2. ~ScannedBefore(c, e)
    BY <1>1, <1>6, <2>1 DEF FairChoice
  <2>3. bypass[c][e] = 0
    BY <1>1, <1>2, <2>2 DEF BypassSound
  <2> DEFINE n == Len(clients)
             p == Position(nextClient)
             i == Position(c)
             k == Position(e)
             m == IF k < n THEN k + 1 ELSE 1
  <2>4. /\ n \in Nat /\ p \in 1 .. n /\ i \in 1 .. n /\ k \in 1 .. n
        /\ clients[i] = c /\ clients[k] = e
    <3>1. n \in Nat
      BY DEF Types
    <3> QED  BY <1>1, <2>1, <3>1, PositionFacts
  <2>5. i # k /\ m \in 1 .. n
    BY <1>6, <2>4
  <2>6. nextClient' = clients[m]
    BY <1>1 DEF Successor
  <2>7. Position(nextClient)' = m
    BY <1>1, <2>5, <2>6, OnePosition DEF ListInv, Position
  <2>8. \A x : Position(x)' = Position(x)
    BY <1>1 DEF Position
  <2>9. \A d \in Clients : ScannedBefore(c, d)' <=> Before(m, i, Position(d))
    BY <2>7, <2>8 DEF ScannedBefore, Before
  <2>10. ~Before(p, i, k)
    BY <2>2, ScanPositions
  <2>11. \A d \in Clients : d # e /\ Registered(d) =>
             Position(d) \in 1 .. n /\ Position(d) # k
    BY <2>4, PositionFacts
  <2> HIDE DEF n, p, i, k
  <2>12. Before(m, i, k)
    BY <2>4, <2>5, Rotated
  <2>13. ASSUME NEW j \in 1 .. n, j # k, Before(p, i, j) PROVE Before(m, i, j)
    BY <2>4, <2>5, <2>10, <2>13, Rotated
  <2>14. ASSUME NEW d \in Clients, d # e, Registered(d), ScannedBefore(c, d)
         PROVE  ScannedBefore(c, d)'
    <3>1. Before(p, i, Position(d))
      BY <2>14, ScanPositions DEF p, i
    <3> QED  BY <2>9, <2>11, <2>13, <2>14, <3>1
  <2> QED  BY <2>3, <2>9, <2>12, <2>14 DEF k
<1>7. \A d \in Clients : Registered(d)' <=> Registered(d)
  BY <1>1 DEF Registered
<1>8. ASSUME NEW c \in Clients, NEW d \in Clients, bypass'[c][d] > 0
      PROVE  /\ bypass'[c][d] <= 1 /\ queue'[c] # <<>> /\ s2c'[d] # "none"
             /\ Registered(d)' => ScannedBefore(c, d)'
  <2>1. CASE d = e
    BY <1>1, <1>4, <1>5, <1>6, <1>8, <2>1
  <2>2. CASE d # e
    BY <1>1, <1>4, <1>6, <1>7, <1>8, <2>2 DEF BypassSound
  <2> QED  BY <2>1, <2>2
<1>9. \A c, d \in Clients : bypass'[c][d] <= 1
  <2>1. \A c, d \in Clients : bypass'[c][d] \in Nat
    BY <1>3
  <2> QED  BY <1>8, <2>1
<1> QED  BY <1>3, <1>8, <1>9 DEF BypassSound

\* A client that registers has never been served, and is put where it does not
\* come between two others.
LEMMA BypassRegister ==
    ASSUME Types, Types', ListInv, ListInv', BypassSound, CountBypass,
           NEW e \in Clients, Register(e)
    PROVE  BypassSound'
<1>1. /\ clients \in Seq(Clients) /\ clients' = Append(clients, e)
      /\ s2c[e] = "none" /\ s2c' = [s2c EXCEPT ![e] = "open"]
      /\ UNCHANGED <<queue, worker>>
  BY DEF Register, threadVars, Types
<1>2. \A d \in Clients : ~Serves(d)
  BY <1>1 DEF Serves
<1>3. \A d \in Clients : s2c[d] # "none" => s2c'[d] # "none"
  BY <1>1 DEF Types
<1>4. \A x : Registered(x) => Registered(x)' /\ Position(x)' = Position(x)
  <2> SUFFICES ASSUME NEW x, Registered(x)
               PROVE  Registered(x)' /\ Position(x)' = Position(x)
    OBVIOUS
  <2> DEFINE i == Position(x)
  <2>1. i \in 1 .. Len(clients) /\ clients[i] = x
    BY PositionFacts
  <2> HIDE DEF i
  <2>2. i \in 1 .. Len(clients') /\ clients'[i] = x
    BY <1>1, <2>1
  <2>3. DOMAIN clients' = 1 .. Len(clients')
    BY DEF Types
  <2>4. Distinct(clients')
    BY DEF ListInv
  <2> QED  BY <2>2, <2>3, <2>4 DEF Registered, Position, Distinct, i
<1>5. ASSUME NEW c \in Clients, NEW d \in Clients, queue[c] # <<>>,
             s2c[d] # "none", Registered(d)', Registered(d) => ScannedBefore(c, d)
      PROVE  ScannedBefore(c, d)'
  <2>1. Registered(d)
    <3>1. \A x : Listed(clients', x) => Listed(clients, x) \/ x = e
      BY <1>1, AppendListed
    <3>2. d # e
      BY <1>1, <1>5
    <3> QED  BY <1>5, <3>1, <3>2 DEF Registered, Listed
  <2>2. Registered(c) /\ Registered(nextClient) /\ nextClient' = nextClient
    <3>1. Listed(clients, c) /\ clients # <<>>
      BY <1>5 DEF ListInv, Listed
    <3>2. Listed(clients, nextClient)
      BY <3>1 DEF ListInv
    <3>3. nextClient # NoClient
      BY <1>1, <3>2, ClientsAssumption DEF Listed
    <3> QED  BY <3>1, <3>2, <3>3 DEF Register, Listed, Registered
  <2>3. Position(nextClient)' = Position(nextClient)
    BY <1>4, <2>2
  <2>4. Position(c)' = Position(c) /\ Position(d)' = Position(d)
    BY <1>4, <2>1, <2>2
  <2> QED  BY <1>5, <2>1, <2>3, <2>4 DEF ScannedBefore
<1> QED  BY <1>2, <1>3, <1>5, OrderKept

\* The client that is removed leaves the others in their order, and next_client
\* moves on from it.
LEMMA BypassRemove ==
    ASSUME Types, Types', ListInv, ListInv', BypassSound, CountBypass,
           NEW e \in Clients, RemoveClient(e)
    PROVE  BypassSound'
<1>1. /\ Registered(e) /\ queue'[e] = <<>> /\ UNCHANGED <<worker, s2c>>
      /\ nextClient' = IF nextClient = e THEN NextAfterUnlink(e) ELSE nextClient
      /\ clients' = RemoveAt(clients, Position(e))
  BY DEF RemoveClient, Types, clientVars
<1>2. \A d \in Clients : ~Serves(d)
  BY <1>1 DEF Serves
<1>3. ASSUME NEW c \in Clients, NEW d \in Clients, queue[c] # <<>>,
             queue'[c] # <<>>, Registered(d)',
             Registered(d) => ScannedBefore(c, d)
      PROVE  ScannedBefore(c, d)'
  <2>1. c # e
    BY <1>1, <1>3
  <2>2. Registered(d) /\ d # e
    <3>1. Position(e) \in 1 .. Len(clients) /\ clients[Position(e)] = e
      BY <1>1, PositionFacts
    <3>2. clients \in Seq(Clients)
      BY DEF Types
    <3>3. Listed(clients', d) => Listed(clients, d) /\ d # e
      BY <1>1, <3>1, <3>2, RemoveListed DEF ListInv
    <3> QED  BY <1>3, <3>3 DEF Listed, Registered
  <2>3. Registered(c) /\ Registered(nextClient)
    <3>1. clients # <<>>
      BY <1>1 DEF Registered
    <3>2. Listed(clients, c) /\ Listed(clients, nextClient)
      BY <1>3, <3>1 DEF ListInv
    <3> QED  BY <3>2 DEF Listed, Registered
  <2> DEFINE len == Len(clients)
             n == Position(nextClient)
             i == Position(c)
             j == Position(d)
             k == Position(e)
             m == IF n # k THEN n ELSE IF k < len THEN k + 1 ELSE 1
  <2>4. /\ len \in Nat /\ n \in 1 .. len /\ k \in 1 .. len
        /\ i \in 1 .. len /\ j \in 1 .. len
        /\ clients[n] = nextClient /\ clients[k] = e
        /\ clients[i] = c /\ clients[j] = d
    <3>1. len \in Nat
      BY DEF Types
    <3> QED  BY <1>1, <2>2, <2>3, <3>1, PositionFacts
  <2>5. i # k /\ j # k
    BY <2>1, <2>2, <2>4
  <2>6. Before(n, i, j)
    BY <1>3, <2>2, ScanPositions
  <2>7. nextClient' = clients[m]
    <3>1. CASE n = k
      <4>1. nextClient = e /\ (k # 1 \/ k < len)
        BY <2>4, <2>5, <3>1
      <4> QED  BY <1>1, <2>4, <3>1, <4>1 DEF NextAfterUnlink
    <3>2. CASE n # k
      BY <1>1, <2>4, <3>2
    <3> QED  BY <3>1, <3>2
  <2> HIDE DEF len, n, i, j, k
  <2>8. /\ m \in 1 .. len /\ m # k
        /\ Before(Shifted(m, k), Shifted(i, k), Shifted(j, k))
    BY <2>4, <2>5, <2>6, Closed
  <2> HIDE DEF m
  <2>9. Registered(nextClient') /\ nextClient' # e /\ Position(clients[m]) = m
    <3>1. Registered(clients[m]) /\ Position(clients[m]) = m
      BY <2>8, OnePosition DEF ListInv, len
    <3> QED  BY <2>4, <2>7, <2>8, <3>1 DEF k
  <2>10. Position(nextClient)' = Shifted(m, k)
    <3>1. \A x : Registered(x) /\ x # e =>
              (CHOOSE q \in DOMAIN clients' : clients'[q] = x)
                  = Shifted(Position(x), k)
      BY RemovedPosition DEF Position, k
    <3> QED  BY <2>7, <2>9, <3>1 DEF Position
  <2>11. Position(c)' = Shifted(i, k) /\ Position(d)' = Shifted(j, k)
    BY <2>1, <2>2, <2>3, RemovedPosition DEF i, j, k
  <2> QED  BY <2>8, <2>10, <2>11 DEF ScannedBefore, Before
<1> QED  BY <1>1, <1>2, <1>3, OrderKept

LEMMA BypassStep ==
    ASSUME Types, ListInv, BypassSound, [FairNext]_fairVars
    PROVE  BypassSound'
<1>1. CASE UNCHANGED fairVars
  <2>1. UNCHANGED <<clients, nextClient, queue, s2c, bypass>>
    BY <1>1 DEF fairVars, vars, poolVars, listVars, clientVars
  <2>2. \A c, d \in Clients : (Registered(d) => ScannedBefore(c, d))
                             => (Registered(d) => ScannedBefore(c, d))'
    BY <2>1 DEF Registered, ScannedBefore, Position
  <2>3. ASSUME NEW c \in Clients, NEW d \in Clients, bypass[c][d] > 0
        PROVE  /\ queue'[c] # <<>> /\ s2c'[d] # "none"
               /\ (Registered(d) => ScannedBefore(c, d))'
    BY <2>1, <2>2, <2>3 DEF BypassSound
  <2> QED  BY <2>1, <2>3 DEF BypassSound
<1>2. CASE FairNext
  <2> USE <1>2 DEF FairNext
  <2>1. CountBypass /\ Next /\ Types' /\ ListInv'
    BY TypesStep, ListInvStep
  <2>2. ASSUME UNCHANGED <<listVars, s2c>>,
               \A w \in Workers : worker[w] = "lock" => worker'[w] # "handling"
        PROVE  BypassSound'
    <3>1. \A d \in Clients : ~Serves(d)
      BY <2>2 DEF Serves
    <3> QED  BY <2>1, <2>2, <3>1, BypassUnchanged DEF listVars
  <2>3. ASSUME NEW c \in Clients,
               BeginClose(c) \/ Submit(c) \/ MarkDisconnected(c)
        PROVE  BypassSound'
    BY <2>2, <2>3 DEF BeginClose, Submit, SignalOne, At, MarkDisconnected,
                      poolVars, clientVars, Types
  <2>4. ASSUME NEW c \in Clients, CloseFds(c)
        PROVE  BypassSound'
    <3>1. UNCHANGED <<listVars, worker>>
      BY <2>4 DEF CloseFds, poolVars
    <3>2. \A d \in Clients : s2c[d] # "none" => s2c'[d] # "none"
      BY <2>4 DEF CloseFds, Types
    <3>3. \A d \in Clients : ~Serves(d)
      BY <3>1 DEF Serves
    <3> QED  BY <2>1, <3>1, <3>2, <3>3, BypassUnchanged DEF listVars
  <2>5. CASE StopServing \/ BeginDestroy
    BY <2>2, <2>5 DEF StopServing, BeginDestroy, WakeAll, poolVars, clientVars
  <2>6. CASE FinishDestroy
    <3>1. \A c \in Clients : queue'[c] = <<>> /\ ~Serves(c)
      BY <2>6 DEF FinishDestroy, Serves
    <3> QED  BY <2>1, <3>1, NobodyServed DEF BypassSound
  <2>7. ASSUME NEW w \in Workers,
               Sleep(w) \/ SpuriousWake(w) \/ Exit(w) \/ HandlerReturn(w)
        PROVE  BypassSound'
    BY <2>2, <2>7 DEF Sleep, SpuriousWake, Exit, HandlerReturn, poolVars,
                      clientVars, Types
  <2>8. ASSUME NEW w \in Workers, NEW c \in Clients, Send(w, c)
        PROVE  BypassSound'
    <3>1. UNCHANGED <<listVars, s2c>>
      BY <2>8 DEF Send, DiscardResponse, StoreResponse, WriteResponse,
                  WriteFails, FlushDone, poolVars, clientVars
    <3>2. \/ UNCHANGED worker
          \/ \E p : worker' = [worker EXCEPT ![w] = p] /\ p # "handling"
      BY <2>8 DEF Send, DiscardResponse, StoreResponse, WriteResponse,
                  WriteFails, FlushDone, Unlock, threadVars
    <3>3. \A v \in Workers : worker[v] = "lock" => worker'[v] # "handling"
      BY <3>2 DEF Types
    <3> QED  BY <2>2, <3>1, <3>3
  <2>9. CASE UNCHANGED vars
    BY <2>2, <2>9 DEF vars, poolVars, clientVars, threadVars
  <2> QED
    BY <2>1, <2>3, <2>4, <2>5, <2>6, <2>7, <2>8, <2>9, BypassRegister,
       BypassRemove, BypassDequeue
       DEF Next, CloseStep, WorkerStep, Terminated
<1> QED  BY <1>1, <1>2

-----------------------------------------------------------------------------
(* The theorems.                                                           *)

LEMMA BypassAlways == SchedulingSpec => [](Types /\ ListInv /\ BypassSound)
<1> DEFINE Inv == Types /\ ListInv /\ BypassSound
<1>1. FairInit => Inv
  <2>1. FairInit => BypassSound
    BY DEF FairInit, BypassSound
  <2> QED  BY <2>1, TypesInit, ListInvInit DEF FairInit
<1>2. Inv /\ [FairNext]_fairVars => Inv'
  <2>1. [FairNext]_fairVars => [Next]_vars
    BY DEF FairNext, fairVars
  <2> QED  BY <2>1, TypesStep, ListInvStep, BypassStep
<1> QED  BY <1>1, <1>2, PTL DEF SchedulingSpec

\* A client that was served while another waits comes after it in the scan from
\* next_client, whichever clients register, submit or are removed meanwhile
\* (threadpool.c, dequeue_fair_request and threadpool_remove_client).
THEOREM ServedIsBehindTheorem == SchedulingSpec => []ServedIsBehind
<1>1. BypassSound => ServedIsBehind
  BY DEF BypassSound, ServedIsBehind
<1> QED  BY <1>1, BypassAlways, PTL

\* No client is served twice while another has a request queued (threadpool.c:
\* "one busy client cannot starve the others").
THEOREM BypassTheorem == SchedulingSpec => []BoundedBypass
<1>1. BypassSound => BoundedBypass
  BY DEF BypassSound, BoundedBypass
<1> QED  BY <1>1, BypassAlways, PTL

=============================================================================
