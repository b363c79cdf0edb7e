------------------------------ MODULE MainLoop ------------------------------
(***************************************************************************)
(* The main thread of the server (server_main.c, connection.c): it takes   *)
(* the PID that SIGUSR1 left, opens the client's FIFOs, cleans up, waits   *)
(* in select, and reads.  The workers are reduced to one request of each   *)
(* client at a time, as the client program waits for every reply; ThreadPool *)
(* has the pool itself.  Allocation failures are not modelled.             *)
(***************************************************************************)
EXTENDS Channels, LineFraming

CONSTANTS
    NoReply,
    SigpipeKills   \* a write to a FIFO nobody reads ends the server, the
                   \* default; it fails with EPIPE if started with it ignored

\* No response is the absence of one.
ASSUME NoReplyAssumption == NoReply \notin {"balance", "reject", "ok", "error"}

VARIABLES
    main,      \* where the main thread is in its loop
    pending,   \* pending_client_pid
    accepting, \* the client_pid that accept_client works on
    client,    \* the client_state_t of each client
    buffer,    \* read_buffer, the first read_len characters
    requests,  \* the lines submitted and not yet handled
    response   \* the response a worker is about to write

serverVars == <<main, pending, accepting, client, buffer, requests, response>>

MainPlaces ==
    {"take", "reset", "create", "signal", "openC2S", "openS2C", "abandon",
     "unlink", "cleanup", "select", "read", "killed"}

\* A record is not made yet, open, marked disconnected by a worker ("lost"), or
\* closed by the main thread.  due is disconnect_after: not set, set, past.
NoRecord == [state |-> "none", loggedIn |-> FALSE, due |-> "no"]

ServerInit ==
    /\ main = "take"
    /\ pending = NoClient
    /\ accepting = NoClient
    /\ client = [c \in Clients |-> NoRecord]
    /\ buffer = [c \in Clients |-> <<>>]
    /\ requests = [c \in Clients |-> <<>>]
    /\ response = [c \in Clients |-> NoReply]

recordVars == <<client, buffer, requests, response>>

Proceed(where) == main' = where

-----------------------------------------------------------------------------
(* Accepting a client.                                                     *)

\* The S2C FIFO of the client being accepted has found its reader.
Met == accepting \in Clients /\ "s2cWriter" \in ends[accepting]

\* The handler of SIGUSR1 interrupts an open that waits, or select; or it ran
\* before the call was entered, or in a worker: the signals are unblocked before
\* the workers are created, who inherit the mask.
Sigusr1Handler ==
    /\ main # "killed"
    /\ sigusr1 # NoClient
    /\ pending' = sigusr1
    /\ sigusr1' = NoClient
    /\ \/ UNCHANGED main
       \/ main = "openS2C" /\ ~Met /\ Proceed("abandon")
       \/ main = "select" /\ Proceed("take")
    /\ UNCHANGED <<process, sigusr2, names, ends, c2s, s2c, accepting,
                   recordVars>>

\* server_take_pending_client reads the PID and then resets it.
TakePending ==
    /\ main = "take"
    /\ accepting' = pending
    /\ Proceed("reset")
    /\ UNCHANGED <<channels, pending, recordVars>>

\* find_client finds no record of the PID (mutant: it is not asked).
AnyClient(c) == TRUE
NewClient(c) == client[c].state = "none"

EmptyMailbox == pending' = NoClient

ResetPending ==
    /\ main = "reset"
    /\ EmptyMailbox
    /\ IF accepting # NoClient /\ NewClient(accepting)
       THEN Proceed("create") /\ UNCHANGED accepting
       ELSE Proceed("cleanup") /\ accepting' = NoClient
    /\ UNCHANGED <<channels, recordVars>>

GiveUpAccepting == Proceed("cleanup") /\ accepting' = NoClient

\* create_fifos makes both FIFOs anew, or fails and leaves neither.
CreateFifos ==
    /\ main = "create"
    /\ \/ /\ names' = names \cup {accepting}
          /\ c2s' = [c2s EXCEPT ![accepting] = <<>>]
          /\ s2c' = [s2c EXCEPT ![accepting] = <<>>]
          /\ Proceed("signal")
          /\ UNCHANGED accepting
       \/ /\ names' = names \ {accepting}
          /\ GiveUpAccepting
          /\ UNCHANGED <<c2s, s2c>>
    /\ UNCHANGED <<process, sigusr1, sigusr2, ends, pending, recordVars>>

\* unlink_fifos of a client given up (mutant: it is missing).
NamesLeft(c) == UNCHANGED <<names, ends, process>>
UnlinkFifos(c) == Unlinked(c)

\* SIGUSR2 sets the client's flag.  It ends a process that has not installed its
\* handler yet, and interrupts an open that waits, of a client already signalled:
\* that client gives up.
SignalReady ==
    /\ main = "signal"
    /\ IF Exists(accepting)
       THEN /\ Proceed("openC2S")
            /\ IF process[accepting] \in {"start"} \cup Blocked
               THEN Ended(accepting) /\ UNCHANGED sigusr2
               ELSE /\ sigusr2' = [sigusr2 EXCEPT ![accepting] = TRUE]
                    /\ UNCHANGED <<process, ends, s2c>>
            /\ UNCHANGED <<names, accepting>>
       ELSE /\ UnlinkFifos(accepting)
            /\ GiveUpAccepting
            /\ UNCHANGED <<sigusr2, s2c>>
    /\ UNCHANGED <<sigusr1, c2s, pending, recordVars>>

\* The C2S FIFO is opened without waiting for its writer; either open may fail
\* for want of descriptors, the next one before it waits (mutant: the C2S FIFO
\* is opened only after the S2C FIFO).
OpenForReadingLater ==
    /\ main = "openC2S"
    /\ Proceed("openS2C")
    /\ UNCHANGED <<channels, pending, accepting, recordVars>>
OpenForReading ==
    /\ main = "openC2S"
    /\ \/ /\ main' \in {"openS2C", "abandon"}
          /\ IF process[accepting] = "blockedC2S"
             THEN /\ Open(accepting, {"c2sReader", "c2sWriter"})
                  /\ process' = [process EXCEPT ![accepting] = "openS2C"]
             ELSE Open(accepting, {"c2sReader"}) /\ UNCHANGED process
       \/ Proceed("unlink") /\ UNCHANGED <<process, ends>>
    /\ UNCHANGED <<sigusr1, sigusr2, names, c2s, s2c, pending, accepting,
                   recordVars>>

\* The S2C FIFO is opened for writing, which waits for its reader.  The client
\* is registered.
OpenForWriting ==
    /\ main = "openS2C"
    /\ \/ /\ process[accepting] = "blockedS2C"
          /\ Open(accepting, {"s2cReader", "s2cWriter"})
          /\ process' = [process EXCEPT ![accepting] = "prompt"]
       \/ Met /\ UNCHANGED <<process, ends>>
    /\ client' = [client EXCEPT ![accepting].state = "open"]
    /\ GiveUpAccepting
    /\ UNCHANGED <<sigusr1, sigusr2, names, c2s, s2c, pending, buffer,
                   requests, response>>

\* open was interrupted, or failed: the C2S FIFO is closed, then both names are
\* removed.
Abandon ==
    /\ main = "abandon"
    /\ ends' = [ends EXCEPT ![accepting] = @ \ ServerEnds]
    /\ Proceed("unlink")
    /\ UNCHANGED <<process, sigusr1, sigusr2, names, c2s, s2c, pending,
                   accepting, recordVars>>

Unlink ==
    /\ main = "unlink"
    /\ UnlinkFifos(accepting)
    /\ GiveUpAccepting
    /\ UNCHANGED <<sigusr1, sigusr2, c2s, s2c, pending, recordVars>>

-----------------------------------------------------------------------------
(* Closing clients and reading from them.                                  *)

\* close_client of the clients cs, with what rpc_client_disconnected and
\* threadpool_remove_client do of it: queued requests are dropped (mutant: it
\* returns at once, as for a client already disconnected).
ReturnAtOnce(cs) == UNCHANGED <<client, requests, ends, names>>
CloseClients(cs) ==
    /\ client' = [c \in Clients |->
           IF c \notin cs THEN client[c]
           ELSE [state |-> "closed", loggedIn |-> FALSE,
                 due |-> IF client[c].loggedIn THEN "set" ELSE client[c].due]]
    /\ requests' = [c \in Clients |-> IF c \in cs THEN <<>> ELSE requests[c]]
    /\ ends' = [c \in Clients |->
                   IF c \in cs THEN ends[c] \ ServerEnds ELSE ends[c]]
    /\ names' = names \ cs

\* cleanup_inactive_clients: kill(pid, 0) finds whether the process exists.
CleanupInactiveClients ==
    /\ main = "cleanup"
    /\ CloseClients({c \in Clients : /\ client[c].state = "open"
                                     /\ client[c].due = "past" \/ ~Exists(c)})
    /\ Proceed("select")
    /\ UNCHANGED <<process, sigusr1, sigusr2, c2s, s2c, pending, accepting,
                   buffer, response>>

\* The second after which a client is to be disconnected is over.
TimePasses(c) ==
    /\ client[c].state = "open"
    /\ client[c].due = "set"
    /\ client' = [client EXCEPT ![c].due = "past"]
    /\ UNCHANGED <<channels, main, pending, accepting, buffer, requests,
                   response>>

\* Every writer has closed the C2S FIFO (mutant: an empty FIFO is taken for one
\* at its end).
EmptyIsEnd(c) == TRUE
AtEnd(c) == "c2sWriter" \notin ends[c]

\* select returns, after a second if nothing can be read, and what the FIFOs
\* hold is read and submitted.
SelectAndRead ==
    /\ main = "select"
    /\ LET ready == {c \in Clients : client[c].state = "open" /\ c2s[c] # <<>>}
           read  == [c \in ready |-> ReadUntilEmpty(buffer[c], c2s[c])]
       IN  /\ buffer' = [c \in Clients |->
                  IF c \in ready THEN read[c].buffer ELSE buffer[c]]
           /\ requests' = [c \in Clients |->
                  IF c \in ready THEN requests[c] \o read[c].submitted
                  ELSE requests[c]]
           /\ c2s' = [c \in Clients |->
                  IF c \in ready THEN read[c].unread ELSE c2s[c]]
    /\ Proceed("read")
    /\ UNCHANGED <<process, sigusr1, sigusr2, names, ends, s2c, pending,
                   accepting, client, response>>

\* A read that returns zero closes the client.
CloseAtEnd ==
    /\ main = "read"
    /\ CloseClients({c \in Clients : /\ client[c].state = "open"
                                     /\ c2s[c] = <<>> /\ AtEnd(c)})
    /\ Proceed("take")
    /\ UNCHANGED <<process, sigusr1, sigusr2, c2s, s2c, pending, accepting,
                   buffer, response>>

-----------------------------------------------------------------------------
(* The workers: the handlers of rpc.c as far as the session goes, and the  *)
(* write of the response.                                                  *)

\* Login without a valid name is answered by an error code, with an unknown
\* name or no balance by Reject; everything but Disconnect needs a login
\* (mutant: Disconnect is not answered).
ReplyButDisconnect(c, command) ==
    CASE command = "Login" -> "balance"
      [] command = "LoginUnknown" -> "reject"
      [] command = "Disconnect" -> NoReply
      [] command = "LoginMalformed" -> "error"
      [] OTHER -> IF client[c].loggedIn THEN "ok" ELSE "error"
Reply(c, command) ==
    CASE command = "Login" -> "balance"
      [] command = "LoginUnknown" -> "reject"
      [] command = "Disconnect" -> "ok"
      [] command = "LoginMalformed" -> "error"
      [] OTHER -> IF client[c].loggedIn THEN "ok" ELSE "error"

\* disconnect_after is set by a rejected login and by a Disconnect that finds
\* the client logged in.
After(c, command) ==
    CASE command = "Login" -> [client[c] EXCEPT !.loggedIn = TRUE]
      [] command = "LoginUnknown" -> [client[c] EXCEPT !.due = "set"]
      [] command = "Disconnect" /\ client[c].loggedIn ->
             [client[c] EXCEPT !.loggedIn = FALSE, !.due = "set"]
      [] OTHER -> client[c]

\* A line is a command and its newline; any other is refused.
Command(line) ==
    IF Len(line) = 2 /\ line[2] = Newline THEN line[1] ELSE "unknown"

HandleRequest(c) ==
    /\ main # "killed"
    /\ requests[c] # <<>>
    /\ response[c] = NoReply
    /\ LET command == Command(Head(requests[c])) IN
        /\ response' = [response EXCEPT ![c] = Reply(c, command)]
        /\ client' = [client EXCEPT ![c] = After(c, command)]
    /\ requests' = [requests EXCEPT ![c] = Tail(@)]
    /\ UNCHANGED <<channels, main, pending, accepting, buffer>>

\* send_ordered_response: the response is dropped if the client is marked
\* disconnected, else written.  Writing to a FIFO without reader raises SIGPIPE.
SendResponse(c) ==
    /\ main # "killed"
    /\ response[c] # NoReply
    /\ response' = [response EXCEPT ![c] = NoReply]
    /\ \/ /\ client[c].state # "open"
          /\ UNCHANGED <<ends, s2c, client, main>>
       \/ /\ client[c].state = "open" /\ "s2cReader" \in ends[c]
          /\ s2c' = [s2c EXCEPT ![c] = Append(@, response[c])]
          /\ UNCHANGED <<ends, client, main>>
       \/ /\ client[c].state = "open" /\ "s2cReader" \notin ends[c]
          /\ IF SigpipeKills
             THEN /\ main' = "killed"
                  /\ ends' = [d \in Clients |-> ends[d] \ ServerEnds]
                  /\ UNCHANGED client
             ELSE /\ client' = [client EXCEPT ![c].state = "lost"]
                  /\ UNCHANGED <<ends, main>>
          /\ UNCHANGED s2c
    /\ UNCHANGED <<process, sigusr1, sigusr2, names, c2s, pending, accepting,
                   buffer, requests>>

-----------------------------------------------------------------------------
MainStep ==
    \/ TakePending \/ ResetPending \/ CreateFifos \/ SignalReady
    \/ OpenForReading \/ OpenForWriting \/ Abandon \/ Unlink
    \/ CleanupInactiveClients \/ SelectAndRead \/ CloseAtEnd

WorkerStep(c) == HandleRequest(c) \/ SendResponse(c)
=============================================================================
