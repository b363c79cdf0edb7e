-------------------------- MODULE ConnectionProofs --------------------------
(***************************************************************************)
(* Proofs about Connection for every set of clients, commands, crashing    *)
(* clients and reused PIDs, whether or not SIGPIPE ends the server.        *)
(***************************************************************************)
EXTENDS Connection, TLAPS

-----------------------------------------------------------------------------
(* The inductive invariant.                                                *)

\* The server keeps a name or an end of a FIFO of c.
Held(c) == c \in names \/ ends[c] \cap ServerEnds # {}

\* Where accept_client works on a client it has no record of, and where it may
\* hold something of it.
Accepting == {"create", "signal", "openC2S", "openS2C", "abandon", "unlink"}
Acquiring == Accepting \ {"create"}

Types ==
    /\ names \subseteq Clients
    /\ ends \in [Clients -> SUBSET (ServerEnds \cup ClientEnds)]
    /\ client \in [Clients -> Records]
    /\ sigusr1 \in Clients \cup {NoClient}
    /\ pending \in Clients \cup {NoClient}
    /\ accepting \in Clients \cup {NoClient}
    /\ main \in MainPlaces

\* accept_client works on a client without a record, and outside of it there is
\* no such client.
AcceptingIsNew ==
    /\ main \in Accepting =>
           accepting \in Clients /\ client[accepting].state = "none"
    /\ main \in {"take", "cleanup", "select", "read"} => accepting = NoClient

\* What is held is held for the client being accepted, from the creation of its
\* FIFOs on, or for one with a record that the main thread has not closed.
HeldForAReason ==
    main # "killed" =>
        \A c \in Clients :
            Held(c) => \/ main \in Acquiring /\ accepting = c
                       \/ client[c].state \in {"open", "lost"}

LeakInvariant == Types /\ AcceptingIsNew /\ HeldForAReason

-----------------------------------------------------------------------------
(* The steps of the clients.                                               *)

\* A step that leaves the records and the main thread alone, removes no name
\* and gives the server no new end, but to the client whose open it waits in.
LEMMA ClientKeeps ==
    ASSUME LeakInvariant, UNCHANGED <<serverVars, names>>,
           sigusr1' \in Clients \cup {NoClient},
           ends' \in [Clients -> SUBSET (ServerEnds \cup ClientEnds)],
           \A c \in Clients :
               Opening(c) \/ ends'[c] \cap ServerEnds \subseteq ends[c]
    PROVE  LeakInvariant'
<1>1. Types' /\ AcceptingIsNew'
  BY DEF LeakInvariant, Types, AcceptingIsNew, serverVars
<1>2. ASSUME main # "killed", NEW c \in Clients, Held(c)'
      PROVE  \/ main \in Acquiring /\ accepting = c
             \/ client[c].state \in {"open", "lost"}
  <2>1. CASE Opening(c)
    BY <2>1 DEF Opening, Acquiring, Accepting
  <2>2. CASE ends'[c] \cap ServerEnds \subseteq ends[c]
    <3>1. Held(c)
      BY <1>2, <2>2 DEF Held
    <3> QED  BY <1>2, <3>1 DEF LeakInvariant, HeldForAReason
  <2> QED  BY <2>1, <2>2
<1>3. HeldForAReason'
  BY <1>2 DEF HeldForAReason, serverVars
<1> QED  BY <1>1, <1>3 DEF LeakInvariant

LEMMA ClientSide ==
    ASSUME LeakInvariant, NEW c \in Clients, UNCHANGED serverVars,
           ClientStep(c, Opening(c)) \/ UserStep(c)
    PROVE  LeakInvariant'
<1> DEFINE Keeps ==
      /\ names' = names
      /\ sigusr1' \in Clients \cup {NoClient}
      /\ ends' \in [Clients -> SUBSET (ServerEnds \cup ClientEnds)]
      /\ \A d \in Clients :
             Opening(d) \/ ends'[d] \cap ServerEnds \subseteq ends[d]
<1> USE DEF LeakInvariant, Types
<1>1. UNCHANGED <<names, sigusr1, ends>> => Keeps
  OBVIOUS
<1>2. names' = names /\ sigusr1' = sigusr1 /\ Ended(c) => Keeps
  BY DEF Ended, ServerEnds, ClientEnds
<1>3. OpenC2S(c) => Keeps
  BY DEF OpenC2S, Open, ServerEnds, ClientEnds
<1>4. OpenS2C(c, Opening(c)) => Keeps
  BY DEF OpenS2C, Open, ServerEnds, ClientEnds
<1>5. ASSUME NEW command, NEW where, names' = names, sigusr1' = sigusr1,
             Send(c, command, where)
      PROVE  Keeps
  BY <1>1, <1>2, <1>5 DEF Send
<1>6. RequestConnection(c) => Keeps
  BY DEF RequestConnection, SendSigusr1
<1>7. ClientStep(c, Opening(c)) => Keeps
  <2>1. SeeReady(c) \/ ReadReply(c) \/ ReadEnd(c) => Keeps
    BY <1>1 DEF SeeReady, ReadReply, ReadEnd
  <2>2. TimeOut(c) \/ NotFound(c) \/ CloseFifos(c) => Keeps
    BY <1>2 DEF TimeOut, NotFound, CloseFifos
  <2>3. SayGoodbye(c) => Keeps
    BY <1>5 DEF SayGoodbye
  <2> QED  BY <1>3, <1>4, <2>1, <2>2, <2>3 DEF ClientStep
<1>8. UserStep(c) => Keeps
  <2>1. EndOfInput(c) \/ ReusePid(c) => Keeps
    BY <1>1 DEF EndOfInput, ReusePid
  <2>2. TypeCommand(c) => Keeps
    BY <1>5 DEF TypeCommand
  <2>3. Crash(c) => Keeps
    BY <1>2 DEF Crash
  <2> QED  BY <1>6, <2>1, <2>2, <2>3 DEF UserStep
<1> QED  BY <1>7, <1>8, ClientKeeps DEF serverVars

-----------------------------------------------------------------------------
(* The steps of the main thread and of the workers.                        *)

\* accept_client takes a PID and looks for its record.
LEMMA TakeStep ==
    ASSUME LeakInvariant, TakePending \/ ResetPending
    PROVE  LeakInvariant'
<1> USE DEF LeakInvariant, Types, MainPlaces, Proceed, recordVars, channels
<1>1. CASE TakePending
  BY <1>1 DEF TakePending, AcceptingIsNew, HeldForAReason, Held, Accepting,
              Acquiring
<1>2. CASE ResetPending /\ accepting # NoClient /\ NewClient(accepting)
  BY <1>2 DEF ResetPending, EmptyMailbox, NewClient, AcceptingIsNew,
              HeldForAReason, Held, Accepting, Acquiring
<1>3. CASE ResetPending /\ ~(accepting # NoClient /\ NewClient(accepting))
  BY <1>3 DEF ResetPending, EmptyMailbox, AcceptingIsNew, HeldForAReason, Held,
              Accepting, Acquiring
<1> QED  BY <1>1, <1>2, <1>3

\* A step of accept_client that goes on with the client and holds nothing of
\* another one.
LEMMA AcceptingGoesOn ==
    ASSUME LeakInvariant, main \in Accepting, main' \in Acquiring,
           UNCHANGED <<pending, accepting, recordVars>>,
           sigusr1' \in Clients \cup {NoClient},
           names' \subseteq names \cup {accepting},
           ends' \in [Clients -> SUBSET (ServerEnds \cup ClientEnds)],
           \A c \in Clients \ {accepting} :
               ends'[c] \cap ServerEnds \subseteq ends[c]
    PROVE  LeakInvariant'
<1>1. Types'
  BY DEF LeakInvariant, Types, AcceptingIsNew, recordVars, MainPlaces,
         Acquiring, Accepting
<1>2. AcceptingIsNew'
  BY DEF LeakInvariant, AcceptingIsNew, recordVars, Acquiring, Accepting
<1>3. HeldForAReason'
  <2>1. ASSUME NEW c \in Clients, Held(c)', c # accepting
        PROVE  client[c].state \in {"open", "lost"}
    BY <2>1 DEF LeakInvariant, HeldForAReason, Held, Accepting
  <2> QED  BY <2>1 DEF HeldForAReason, recordVars
<1> QED  BY <1>1, <1>2, <1>3 DEF LeakInvariant

\* A step of accept_client that gives the client up, and everything held of it.
LEMMA AcceptingGivesUp ==
    ASSUME LeakInvariant, main \in Accepting, GiveUpAccepting,
           UNCHANGED <<sigusr1, pending, client>>,
           names' = names \ {accepting},
           ends' \in [Clients -> SUBSET (ServerEnds \cup ClientEnds)],
           ends'[accepting] \cap ServerEnds = {},
           \A c \in Clients \ {accepting} : ends'[c] = ends[c]
    PROVE  LeakInvariant'
<1>1. Types' /\ AcceptingIsNew'
  BY DEF LeakInvariant, Types, AcceptingIsNew, GiveUpAccepting, Proceed,
         MainPlaces, Accepting
<1>2. HeldForAReason'
  <2>1. ASSUME NEW c \in Clients, Held(c)'
        PROVE  client[c].state \in {"open", "lost"}
    BY <2>1 DEF LeakInvariant, HeldForAReason, Held, Accepting
  <2> QED  BY <2>1 DEF HeldForAReason
<1> QED  BY <1>1, <1>2 DEF LeakInvariant

LEMMA AcceptStep ==
    ASSUME LeakInvariant,
           \/ CreateFifos \/ SignalReady \/ OpenForReading \/ Abandon \/ Unlink
    PROVE  LeakInvariant'
<1>1. accepting \in Clients /\ main \in Accepting
  BY DEF LeakInvariant, AcceptingIsNew, Accepting, CreateFifos, SignalReady,
         OpenForReading, Abandon, Unlink
<1>2. main = "create" => ends[accepting] \cap ServerEnds = {}
  BY <1>1 DEF LeakInvariant, AcceptingIsNew, HeldForAReason, Held, Accepting,
              Acquiring
<1> USE DEF LeakInvariant, Types, Proceed
<1>3. CASE CreateFifos
  <2>1. CASE GiveUpAccepting
    BY <1>1, <1>2, <1>3, <2>1, AcceptingGivesUp
       DEF CreateFifos, GiveUpAccepting, recordVars
  <2>2. CASE Proceed("signal") /\ UNCHANGED accepting
    BY <1>1, <1>3, <2>2, AcceptingGoesOn
       DEF CreateFifos, GiveUpAccepting, Acquiring, Accepting, recordVars
  <2> QED  BY <1>3, <2>1, <2>2 DEF CreateFifos
<1>4. CASE SignalReady
  <2>1. CASE Exists(accepting)
    BY <1>1, <1>4, <2>1, AcceptingGoesOn
       DEF SignalReady, Ended, ServerEnds, ClientEnds, Acquiring, Accepting, recordVars
  <2>2. CASE ~Exists(accepting)
    BY <1>1, <1>4, <2>2, AcceptingGivesUp
       DEF SignalReady, UnlinkFifos, Unlinked, recordVars
  <2> QED  BY <2>1, <2>2
<1>5. CASE OpenForReading
  <2>1. /\ ends' \in [Clients -> SUBSET (ServerEnds \cup ClientEnds)]
        /\ \A c \in Clients \ {accepting} : ends'[c] = ends[c]
    BY <1>1, <1>5 DEF OpenForReading, Open, ServerEnds, ClientEnds
  <2> QED
    BY <1>1, <1>5, <2>1, AcceptingGoesOn
       DEF OpenForReading, Acquiring, Accepting, recordVars
<1>6. CASE Abandon
  BY <1>1, <1>6, AcceptingGoesOn
     DEF Abandon, Acquiring, Accepting, recordVars
<1>7. CASE Unlink
  BY <1>1, <1>7, AcceptingGivesUp
     DEF Unlink, UnlinkFifos, Unlinked, recordVars
<1> QED  BY <1>3, <1>4, <1>5, <1>6, <1>7

\* The client is registered: its record takes over what is held.
LEMMA RegisterStep ==
    ASSUME LeakInvariant, OpenForWriting
    PROVE  LeakInvariant'
<1>1. accepting \in Clients /\ client[accepting].state = "none"
  BY DEF LeakInvariant, AcceptingIsNew, Accepting, OpenForWriting
<1>2. /\ client' \in [Clients -> Records]
      /\ client'[accepting].state = "open"
      /\ \A c \in Clients \ {accepting} : client'[c] = client[c]
  BY <1>1 DEF LeakInvariant, Types, OpenForWriting, Records
<1>3. /\ ends' \in [Clients -> SUBSET (ServerEnds \cup ClientEnds)]
      /\ \A c \in Clients \ {accepting} : ends'[c] = ends[c]
  BY <1>1 DEF LeakInvariant, Types, OpenForWriting, Open, ServerEnds,
              ClientEnds
<1>4. Types' /\ AcceptingIsNew'
  BY <1>2, <1>3 DEF LeakInvariant, Types, AcceptingIsNew, OpenForWriting,
                    GiveUpAccepting, Proceed, MainPlaces, Accepting
<1>5. HeldForAReason'
  <2>1. ASSUME NEW c \in Clients, Held(c)', c # accepting
        PROVE  client[c].state \in {"open", "lost"}
    BY <1>3, <2>1 DEF LeakInvariant, HeldForAReason, Held, OpenForWriting
  <2> QED  BY <1>2, <2>1 DEF HeldForAReason
<1> QED  BY <1>4, <1>5 DEF LeakInvariant

\* A step that closes clients while none is being accepted.
LEMMA CloseKeeps ==
    ASSUME LeakInvariant, NEW cs \in SUBSET Clients, CloseClients(cs),
           UNCHANGED <<sigusr1, pending, accepting>>,
           main \in {"cleanup", "read"}, main' \in {"select", "take"}
    PROVE  LeakInvariant'
<1>1. /\ client' \in [Clients -> Records]
      /\ \A c \in Clients \ cs : client'[c] = client[c]
  BY DEF LeakInvariant, Types, CloseClients, Records
<1>2. /\ ends' \in [Clients -> SUBSET (ServerEnds \cup ClientEnds)]
      /\ \A c \in cs : ends'[c] \cap ServerEnds = {}
      /\ \A c \in Clients \ cs : ends'[c] = ends[c]
  BY DEF LeakInvariant, Types, CloseClients
<1>3. Types' /\ AcceptingIsNew'
  BY <1>1, <1>2 DEF LeakInvariant, Types, AcceptingIsNew, CloseClients,
                    MainPlaces, Accepting
<1>4. HeldForAReason'
  <2>1. ASSUME NEW c \in Clients, Held(c)'
        PROVE  client'[c].state \in {"open", "lost"}
    BY <1>1, <1>2, <2>1
       DEF LeakInvariant, HeldForAReason, Held, CloseClients, Acquiring,
           Accepting
  <2> QED  BY <2>1 DEF HeldForAReason
<1> QED  BY <1>3, <1>4 DEF LeakInvariant

LEMMA ServeStep ==
    ASSUME LeakInvariant,
           CleanupInactiveClients \/ SelectAndRead \/ CloseAtEnd
    PROVE  LeakInvariant'
<1>1. CASE CleanupInactiveClients
  BY <1>1, CloseKeeps DEF CleanupInactiveClients, Proceed
<1>2. CASE CloseAtEnd
  BY <1>2, CloseKeeps DEF CloseAtEnd, Proceed
<1>3. CASE SelectAndRead
  BY <1>3 DEF SelectAndRead, Proceed, LeakInvariant, Types, MainPlaces,
              AcceptingIsNew, HeldForAReason, Held, Accepting, Acquiring
<1> QED  BY <1>1, <1>2, <1>3

\* SIGUSR1 may interrupt the open, and the client is given up from there.
LEMMA SignalStep ==
    ASSUME LeakInvariant, Sigusr1Handler
    PROVE  LeakInvariant'
<1> USE DEF LeakInvariant, Types, MainPlaces, Sigusr1Handler, Proceed,
            recordVars
<1>1. CASE UNCHANGED main
  BY <1>1 DEF AcceptingIsNew, HeldForAReason, Held
<1>2. CASE main = "openS2C" /\ main' = "abandon"
  BY <1>2 DEF AcceptingIsNew, HeldForAReason, Held, Accepting, Acquiring
<1>3. CASE main = "select" /\ main' = "take"
  BY <1>3 DEF AcceptingIsNew, HeldForAReason, Held, Accepting, Acquiring
<1> QED  BY <1>1, <1>2, <1>3

\* A step that changes records, but makes or closes none.
LEMMA RecordsKept ==
    ASSUME LeakInvariant,
           UNCHANGED <<names, ends, sigusr1, pending, accepting, main>>,
           client' \in [Clients -> Records],
           \A c \in Clients :
               \/ client'[c].state = client[c].state
               \/ client[c].state = "open" /\ client'[c].state = "lost"
    PROVE  LeakInvariant'
<1>1. Types' /\ AcceptingIsNew'
  BY DEF LeakInvariant, Types, AcceptingIsNew
<1>2. HeldForAReason'
  BY DEF LeakInvariant, HeldForAReason, Held
<1> QED  BY <1>1, <1>2 DEF LeakInvariant

\* A worker's write may mark a client disconnected, or end the server.
LEMMA WorkerSide ==
    ASSUME LeakInvariant, NEW c \in Clients, TimePasses(c) \/ WorkerStep(c)
    PROVE  LeakInvariant'
<1> USE DEF channels
<1>1. CASE TimePasses(c)
  <2>1. /\ client' \in [Clients -> Records]
        /\ \A d \in Clients : client'[d].state = client[d].state
    BY <1>1 DEF TimePasses, LeakInvariant, Types, Records
  <2> QED  BY <1>1, <2>1, RecordsKept DEF TimePasses
<1>2. CASE HandleRequest(c)
  <2>1. ASSUME NEW command
        PROVE  /\ After(c, command) \in Records
               /\ After(c, command).state = client[c].state
    BY DEF After, LeakInvariant, Types, Records
  <2>2. /\ client' \in [Clients -> Records]
        /\ \A d \in Clients : client'[d].state = client[d].state
    BY <1>2, <2>1 DEF HandleRequest, LeakInvariant, Types
  <2> QED  BY <1>2, <2>2, RecordsKept DEF HandleRequest
<1>3. CASE SendResponse(c) /\ main' = main
  <2>1. UNCHANGED <<names, ends, sigusr1, pending, accepting, main>>
    BY <1>3 DEF SendResponse, LeakInvariant, HeldForAReason
  <2>2. /\ client' \in [Clients -> Records]
        /\ \A d \in Clients :
               \/ client'[d].state = client[d].state
               \/ client[d].state = "open" /\ client'[d].state = "lost"
    BY <1>3 DEF SendResponse, LeakInvariant, Types, Records
  <2> QED  BY <2>1, <2>2, RecordsKept
<1>4. CASE SendResponse(c) /\ main' # main
  BY <1>4 DEF SendResponse, LeakInvariant, Types, MainPlaces, AcceptingIsNew,
              HeldForAReason, Accepting
<1> QED  BY <1>1, <1>2, <1>3, <1>4 DEF WorkerStep

-----------------------------------------------------------------------------
LEMMA LeakInit == Init => LeakInvariant
BY DEF Init, ChannelsInit, ServerInit, NoRecord, LeakInvariant, Types,
       AcceptingIsNew, HeldForAReason, Held, Records, MainPlaces, Accepting

LEMMA LeakStep ==
    ASSUME LeakInvariant, [Next]_vars
    PROVE  LeakInvariant'
<1>1. CASE UNCHANGED vars
  BY <1>1 DEF vars, channels, serverVars, LeakInvariant, Types,
              AcceptingIsNew, HeldForAReason, Held
<1>2. CASE MainStep
  BY <1>2, TakeStep, AcceptStep, RegisterStep, ServeStep DEF MainStep
<1> QED  BY <1>1, <1>2, ClientSide, WorkerSide, SignalStep DEF Next

\* The server keeps FIFO names and descriptors only for a client being
\* accepted, served or given up by a worker: every path through accept_client,
\* close_client and cleanup_inactive_clients releases what it has to
\* (server_main.c), whatever the clients, the signals and the workers do.
THEOREM LeakTheorem == Spec => []NothingLeaks
<1>1. LeakInvariant /\ [Next]_vars => LeakInvariant'
  BY LeakStep
<1>2. LeakInvariant => NothingLeaks
  BY DEF LeakInvariant, HeldForAReason, NothingLeaks, Held
<1> QED  BY LeakInit, <1>1, <1>2, PTL DEF Spec

=============================================================================
