--------------------------- MODULE ClientProgram ----------------------------
(***************************************************************************)
(* The client (client_main.c, client_connection.c): it asks the server for *)
(* a connection, opens its FIFOs, then sends one command at a time and     *)
(* waits for the reply of each.  What a user types is any command that     *)
(* passes the client's checks; the others send nothing.                    *)
(***************************************************************************)
EXTENDS Channels, LineFraming

CONSTANTS
    Commands,   \* bound: the commands the users type
    Crashing,   \* bound: the clients that may be killed at any moment
    ReusedPids  \* bound: the clients whose PID a second process gets

ASSUME CommandsAssumption == Newline \notin Commands \cup {"Disconnect"}

\* A command and its newline fit the server's read buffer.
ASSUME LinesFit == BufferSize >= 2

VARIABLES
    session,   \* logged_in, and whether an error reply is the reason
    second     \* the clients whose process is the second with its PID

clientVars == <<session, second>>

LoginCommands == {"Login", "LoginUnknown", "LoginMalformed"}

Connecting == {"openC2S", "openS2C"} \cup Blocked
Handshake == {"asking"} \cup Connecting
AwaitingReply == {"login", "reply", "farewell"}
ProcessPlaces ==
    {"start", "prompt", "hangup", "closing", "gone"}
        \cup Handshake \cup AwaitingReply

ClientInit ==
    /\ session = [c \in Clients |-> "out"]
    /\ second = {}

GoOn(c, where) == process' = [process EXCEPT ![c] = where]

-----------------------------------------------------------------------------
(* Connecting.                                                             *)

\* The SIGUSR2 handler is installed and SIGUSR1 sent.
RequestConnection(c) ==
    /\ process[c] = "start"
    /\ SendSigusr1(c)
    /\ GoOn(c, "asking")
    /\ UNCHANGED <<sigusr2, names, ends, c2s, s2c, clientVars>>

SeeReady(c) ==
    /\ process[c] = "asking"
    /\ sigusr2[c]
    /\ GoOn(c, "openC2S")
    /\ UNCHANGED <<sigusr1, sigusr2, names, ends, c2s, s2c, clientVars>>

\* The last sleep is over.  The flag is not tested again: a SIGUSR2 that came
\* during that sleep is not seen.
TimeOut(c) ==
    /\ process[c] = "asking"
    /\ Ended(c)
    /\ UNCHANGED <<sigusr1, sigusr2, names, c2s, clientVars>>

\* The FIFO is not found: the client gives up.
NotFound(c) ==
    /\ process[c] \in {"openC2S", "openS2C"}
    /\ c \notin names
    /\ Ended(c)
    /\ UNCHANGED <<sigusr1, sigusr2, names, c2s, clientVars>>

\* open of the C2S FIFO for writing returns once somebody reads it ...
OpenC2S(c) ==
    /\ process[c] = "openC2S"
    /\ c \in names
    /\ IF "c2sReader" \in ends[c]
       THEN GoOn(c, "openS2C") /\ Open(c, {"c2sWriter"})
       ELSE GoOn(c, "blockedC2S") /\ UNCHANGED ends
    /\ UNCHANGED <<sigusr1, sigusr2, names, c2s, s2c, clientVars>>

\* ... and open of the S2C FIFO for reading once somebody writes it; opening
\* tells whether the server is blocked in its open of the other end.
OpenS2C(c, opening) ==
    /\ process[c] = "openS2C"
    /\ c \in names
    /\ IF opening
       THEN GoOn(c, "prompt") /\ Open(c, {"s2cReader", "s2cWriter"})
       ELSE GoOn(c, "blockedS2C") /\ UNCHANGED ends
    /\ UNCHANGED <<sigusr1, sigusr2, names, c2s, s2c, clientVars>>

-----------------------------------------------------------------------------
(* The main loop.                                                          *)

\* write_all of a line: SIGPIPE ends the client when nobody reads its FIFO.
Send(c, command, where) ==
    IF {"c2sReader", "c2sWriter"} \subseteq ends[c]
    THEN /\ c2s' = [c2s EXCEPT ![c] = @ \o <<command, Newline>>]
         /\ GoOn(c, where)
         /\ UNCHANGED <<ends, s2c>>
    ELSE Ended(c) /\ UNCHANGED c2s

\* Only Login and Disconnect are sent before a login.
MaySend(c, command) ==
    session[c] # "out" \/ command \in LoginCommands \cup {"Disconnect"}

\* Disconnect is the one command whose reply is not read (mutant: the client
\* prompts again instead of leaving).
AfterSendingStays(command) ==
    IF command = "Disconnect" THEN "prompt"
    ELSE IF command \in LoginCommands THEN "login"
    ELSE "reply"
AfterSending(command) ==
    IF command = "Disconnect" THEN "closing"
    ELSE IF command \in LoginCommands THEN "login"
    ELSE "reply"

TypeCommand(c) ==
    /\ process[c] = "prompt"
    /\ \E command \in Commands :
        /\ MaySend(c, command)
        /\ Send(c, command, AfterSending(command))
    /\ UNCHANGED <<sigusr1, sigusr2, names, clientVars>>

EndOfInput(c) ==
    /\ process[c] = "prompt"
    /\ GoOn(c, "hangup")
    /\ UNCHANGED <<sigusr1, sigusr2, names, ends, c2s, s2c, clientVars>>

\* After the loop, a Disconnect is sent unless one was, or the login rejected.
SayGoodbye(c) ==
    /\ process[c] = "hangup"
    /\ Send(c, "Disconnect", "farewell")
    /\ UNCHANGED <<sigusr1, sigusr2, names, clientVars>>

\* Where the client goes with a reply (mutant: a rejected client stays).
StaysRejected(c, reply) ==
    IF process[c] = "farewell" THEN "closing" ELSE "prompt"
AfterReply(c, reply) ==
    IF process[c] = "farewell" \/ (process[c] = "login" /\ reply = "reject")
    THEN "closing" ELSE "prompt"

\* Every integer reply to Login logs in, the error codes too.
SessionAfter(c, reply) ==
    IF process[c] = "login" /\ reply # "reject"
    THEN IF reply = "balance" THEN "in" ELSE "misled"
    ELSE session[c]

ReadReply(c) ==
    /\ process[c] \in AwaitingReply
    /\ s2c[c] # <<>>
    /\ s2c' = [s2c EXCEPT ![c] = Tail(@)]
    /\ session' = [session EXCEPT ![c] = SessionAfter(c, Head(s2c[c]))]
    /\ GoOn(c, AfterReply(c, Head(s2c[c])))
    /\ UNCHANGED <<sigusr1, sigusr2, names, ends, c2s, second>>

\* The server has closed its end: the loop is left.
ReadEnd(c) ==
    /\ process[c] \in AwaitingReply
    /\ s2c[c] = <<>>
    /\ "s2cWriter" \notin ends[c]
    /\ GoOn(c, IF process[c] = "farewell" THEN "closing" ELSE "hangup")
    /\ UNCHANGED <<sigusr1, sigusr2, names, ends, c2s, s2c, clientVars>>

CloseFifos(c) ==
    /\ process[c] = "closing"
    /\ Ended(c)
    /\ UNCHANGED <<sigusr1, sigusr2, names, c2s, clientVars>>

-----------------------------------------------------------------------------
(* The environment.                                                        *)

Crash(c) ==
    /\ c \in Crashing
    /\ process[c] \notin {"start", "gone"}
    /\ Ended(c)
    /\ UNCHANGED <<sigusr1, sigusr2, names, c2s, clientVars>>

\* A new process gets the PID; it has not run yet.
ReusePid(c) ==
    /\ process[c] = "gone"
    /\ c \in ReusedPids \ second
    /\ second' = second \cup {c}
    /\ GoOn(c, "start")
    /\ sigusr2' = [sigusr2 EXCEPT ![c] = FALSE]
    /\ session' = [session EXCEPT ![c] = "out"]
    /\ UNCHANGED <<sigusr1, names, ends, c2s, s2c>>

\* What the program does by itself, once started and not kept from it.
ClientStep(c, opening) ==
    \/ SeeReady(c) \/ TimeOut(c) \/ NotFound(c)
    \/ OpenC2S(c) \/ OpenS2C(c, opening)
    \/ SayGoodbye(c) \/ ReadReply(c) \/ ReadEnd(c) \/ CloseFifos(c)

\* What its user, or the system, makes of it.
UserStep(c) ==
    \/ RequestConnection(c) \/ TypeCommand(c) \/ EndOfInput(c)
    \/ Crash(c) \/ ReusePid(c)
=============================================================================
