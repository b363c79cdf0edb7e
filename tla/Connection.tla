----------------------------- MODULE Connection -----------------------------
(***************************************************************************)
(* Clients and server together, from the first signal to the last FIFO     *)
(* name: the client processes, the main thread and the workers run         *)
(* concurrently, and a client may die at any moment.                       *)
(***************************************************************************)
EXTENDS ClientProgram, MainLoop

vars == <<channels, clientVars, serverVars>>

Init == ChannelsInit /\ ClientInit /\ ServerInit

\* The main thread is in its open of the S2C FIFO of c.
Opening(c) == main = "openS2C" /\ accepting = c

Next ==
    \/ \E c \in Clients :
        \/ (ClientStep(c, Opening(c)) \/ UserStep(c)) /\ UNCHANGED serverVars
        \/ (TimePasses(c) \/ WorkerStep(c)) /\ UNCHANGED clientVars
    \/ (MainStep \/ Sigusr1Handler) /\ UNCHANGED clientVars

Spec == Init /\ [][Next]_vars

\* Processes and threads that can go on do, signals are delivered and time
\* passes.  Nothing obliges a user to do anything.
FairSpec ==
    /\ Spec
    /\ \A c \in Clients :
        /\ WF_vars(ClientStep(c, Opening(c)) /\ UNCHANGED serverVars)
        /\ WF_vars(WorkerStep(c) /\ UNCHANGED clientVars)
        /\ WF_vars(TimePasses(c) /\ UNCHANGED clientVars)
    /\ WF_vars(MainStep /\ UNCHANGED clientVars)
    /\ WF_vars(Sigusr1Handler /\ UNCHANGED clientVars)

-----------------------------------------------------------------------------
(* Properties.                                                             *)

Replies == {"balance", "reject", "ok", "error"}
Records ==
    [state : {"none", "open", "lost", "closed"}, loggedIn : BOOLEAN,
     due : {"no", "set", "past"}]
Lines == {<<command, Newline>> : command \in Commands \cup {"Disconnect"}}

\* Every variable has its type; what is submitted for a client is one of the
\* lines it wrote, and the read buffer is empty in between.
TypeOK ==
    /\ process \in [Clients -> ProcessPlaces]
    /\ sigusr1 \in Clients \cup {NoClient}
    /\ sigusr2 \in [Clients -> BOOLEAN]
    /\ names \subseteq Clients
    /\ ends \in [Clients -> SUBSET (ServerEnds \cup ClientEnds)]
    /\ \A c \in Clients : c2s[c] = <<>> \/ c2s[c] \in Lines
    /\ \A c \in Clients : s2c[c] = <<>> \/ s2c[c] \in {<<r>> : r \in Replies}
    /\ session \in [Clients -> {"out", "in", "misled"}]
    /\ second \subseteq ReusedPids
    /\ main \in MainPlaces
    /\ pending \in Clients \cup {NoClient}
    /\ accepting \in Clients \cup {NoClient}
    /\ client \in [Clients -> Records]
    /\ buffer \in [Clients -> {<<>>}]
    /\ \A c \in Clients : requests[c] = <<>> \/ requests[c] \in {<<l>> : l \in Lines}
    /\ response \in [Clients -> Replies \cup {NoReply}]

\* Who has a connection is served: a client that prompts or waits for a reply
\* has an open record, or one about to be made, unless its login was rejected
\* more than a second ago (close_client, on an end of file or a disconnect_after
\* that is due).  A PID that is used again is left out: it can be accepted twice.
ConnectedIsServed ==
    \A c \in Clients \ second :
        process[c] \in {"prompt", "login", "reply"} /\ main # "killed" =>
            \/ client[c].state = "open"
            \/ client[c].state = "none" /\ Opening(c)
            \/ process[c] = "login" /\ client[c].due # "no"

\* A client that prompts as logged in has a session in the server, unless it
\* took an error reply for its balance (client_main.c: "Successful Login replies
\* are balances").
SessionsAgree ==
    \A c \in Clients \ second :
        process[c] = "prompt" /\ session[c] = "in" /\ main # "killed" =>
            client[c].loggedIn

\* A client that waits is owed exactly one reply, and one that prompts none: no
\* reply is ever taken for that of another request, whichever process has the
\* PID.
InFlight(c) ==
    Len(c2s[c]) \div 2 + Len(requests[c]) + Len(s2c[c])
        + IF response[c] = NoReply THEN 0 ELSE 1
OneReplyOwed ==
    \A c \in Clients :
        /\ process[c] = "prompt" => InFlight(c) = 0
        /\ process[c] \in AwaitingReply /\ client[c].state \in {"none", "open"} =>
               InFlight(c) = 1

\* FIFO names and descriptors are kept only for a client being accepted, served
\* or given up by a worker: every other path through accept_client and
\* close_client has released them.
NothingLeaks ==
    \A c \in Clients :
        c \in names \/ ends[c] \cap ServerEnds # {} =>
            main = "killed" \/ accepting = c \/ client[c].state \in {"open", "lost"}

\* A client that was told the server is ready is connected, or dies, unless the
\* server gives it up in accept_client (an open that failed or was interrupted),
\* which may leave it in its own open for ever.  Two processes that open two FIFOs
\* in turn do not wait for each other.
GivingUp(c) == main = "unlink" /\ accepting = c
ReadyIsConnected ==
    \A c \in Clients :
        []~GivingUp(c) =>
            (process[c] \in Connecting ~> process[c] = "prompt" \/ ~Exists(c))

\* The main thread waits for a client to open its FIFO only as long as the
\* client exists; it may wait for ever for one that has gone.
WaitsOnlyForTheGone ==
    \A c \in Clients :
        Opening(c) /\ c \notin second ~> ~Opening(c) \/ ~Exists(c) \/ c \in second

\* The main thread is never kept for ever by a client that has gone.
MainGoesOn == []<>(main # "openS2C")

\* Then every command is answered, or the client told of the end ...
EveryCommandAnswered ==
    MainGoesOn =>
        \A c \in Clients :
            process[c] \in AwaitingReply ~> process[c] \notin AwaitingReply

\* ... and whoever has gone is closed, unless a worker has given it up first
\* (rpc.c: the main thread is to "close FIFOs/unlink resources").
GoneIsClosed ==
    MainGoesOn =>
        \A c \in Clients :
            ~Exists(c) /\ client[c].state = "open" ~> client[c].state # "open"

\* The server outlives its clients (rpc.c: a disconnect "lets the main thread
\* detect the disconnect and close FIFOs/unlink resources").
ServerSurvives == main # "killed"
=============================================================================
