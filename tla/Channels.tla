------------------------------ MODULE Channels ------------------------------
(***************************************************************************)
(* What the operating system keeps between the server and its clients: the *)
(* client processes, the signals, and for each client the two FIFOs, their *)
(* names and their open ends.  External to the repository; connection.c,   *)
(* client_connection.c and server_main.c are its only users.               *)
(*                                                                         *)
(* A client stands for its PID.  A FIFO is the sequence of what has been   *)
(* written to it and not yet read; replies are read whole, so the S2C FIFO *)
(* holds replies, the C2S FIFO characters.                                 *)
(***************************************************************************)
EXTENDS Sequences

CONSTANTS
    Clients,
    NoClient     \* PID 0

ASSUME ClientsAssumption == NoClient \notin Clients

VARIABLES
    process,   \* where each client process is in its program
    sigusr1,   \* the sender of the SIGUSR1 the server has still to handle
    sigusr2,   \* sigusr2_received of each client
    names,     \* the clients whose FIFO names exist
    ends,      \* the open ends of each client's FIFOs of these names
    c2s,       \* the characters in each C2S FIFO
    s2c        \* the replies in each S2C FIFO

channels == <<process, sigusr1, sigusr2, names, ends, c2s, s2c>>

ServerEnds == {"c2sReader", "s2cWriter"}
ClientEnds == {"c2sWriter", "s2cReader"}

ChannelsInit ==
    /\ process = [c \in Clients |-> "start"]
    /\ sigusr1 = NoClient
    /\ sigusr2 = [c \in Clients |-> FALSE]
    /\ names = {}
    /\ ends = [c \in Clients |-> {}]
    /\ c2s = [c \in Clients |-> <<>>]
    /\ s2c = [c \in Clients |-> <<>>]

\* A process blocked in open is let on by whoever opens the other end.
Open(c, new) == ends' = [ends EXCEPT ![c] = @ \cup new]

Blocked == {"blockedC2S", "blockedS2C", "blockedUnlinked"}

\* The names are removed.  An end that is still open no longer belongs to a FIFO
\* of that name, and who is blocked in an open stays so, in a FIFO nobody finds.
Unlinked(c) ==
    /\ names' = names \ {c}
    /\ ends' = [ends EXCEPT ![c] = {}]
    /\ process' = IF process[c] \in Blocked
                  THEN [process EXCEPT ![c] = "blockedUnlinked"] ELSE process

\* SIGUSR1 is a standard signal: while one is pending, others are lost.
SendSigusr1(c) == sigusr1' = IF sigusr1 = NoClient THEN c ELSE sigusr1

\* The process is gone: its ends are closed, and what it had still to read of
\* the S2C FIFO is lost.
Ended(c) ==
    /\ process' = [process EXCEPT ![c] = "gone"]
    /\ ends' = [ends EXCEPT ![c] = @ \ ClientEnds]
    /\ s2c' = [s2c EXCEPT ![c] = <<>>]

Exists(c) == process[c] # "gone"
=============================================================================
