--------------------------- MODULE OrderedReplies ---------------------------
(***************************************************************************)
(* What the server promises each client, whatever its worker pool does:    *)
(* the requests it accepts from a client are answered on the client's FIFO *)
(* in the order they were accepted, each at most once, and each one        *)
(* unless the connection is given up (server_common.h: a complete response *)
(* waits "for previous responses to be sent first, to maintain per-client  *)
(* ordering").  A request is named by its number among the client's.       *)
(***************************************************************************)
EXTENDS Naturals, Sequences

CONSTANT Clients

VARIABLES
    accepted,   \* how many requests of each client were accepted
    replies,    \* the requests answered on each client's FIFO, oldest first
    open        \* whether the connection of each client is kept up

vars == <<accepted, replies, open>>

Init ==
    /\ accepted = [c \in Clients |-> 0]
    /\ replies = [c \in Clients |-> <<>>]
    /\ open = [c \in Clients |-> TRUE]

Accept(c) ==
    /\ open[c]
    /\ accepted' = [accepted EXCEPT ![c] = @ + 1]
    /\ UNCHANGED <<replies, open>>

\* The oldest unanswered request is answered; a reply already under way when
\* the connection is given up may still be written.
Reply(c) ==
    /\ Len(replies[c]) < accepted[c]
    /\ replies' = [replies EXCEPT ![c] = Append(@, Len(replies[c]))]
    /\ UNCHANGED <<accepted, open>>

HangUp(c) ==
    /\ open[c]
    /\ open' = [open EXCEPT ![c] = FALSE]
    /\ UNCHANGED <<accepted, replies>>

Next == \E c \in Clients : Accept(c) \/ Reply(c) \/ HangUp(c)

Spec == Init /\ [][Next]_vars

\* An open connection with an unanswered request gets a reply.
FairSpec == Spec /\ \A c \in Clients : WF_vars(open[c] /\ Reply(c))
=============================================================================
