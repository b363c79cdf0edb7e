--------------------------- MODULE FairScheduling ---------------------------
(***************************************************************************)
(* The scheduling promise of the pool (threadpool.c: workers dequeue "at   *)
(* most one request from a client before rotating to the next active       *)
(* client, so one busy client cannot starve the others"), stated over      *)
(* ThreadPool with a history variable that counts how often a waiting      *)
(* client has been passed over.                                            *)
(***************************************************************************)
EXTENDS ThreadPool

VARIABLE
    bypass  \* bypass[c][d]: requests of d dequeued since c began to wait

fairVars == <<vars, bypass>>

\* This step dequeues a request of client d.
Serves(d) ==
    \E w \in Workers : /\ worker[w] = "lock" /\ worker'[w] = "handling"
                       /\ job'[w].client = d

\* A client waits from the step that queues a request of its own while none is
\* queued, or that serves it and leaves more, to the step that serves it next.
CountBypass ==
    bypass' = [c \in Clients |-> [d \in Clients |->
                 IF queue[c] = <<>> \/ queue'[c] = <<>> \/ Serves(c) THEN 0
                 ELSE IF Serves(d) THEN bypass[c][d] + 1
                 ELSE bypass[c][d]]]

FairInit == Init /\ bypass = [c \in Clients |-> [d \in Clients |-> 0]]

FairNext == Next /\ CountBypass

SchedulingSpec == FairInit /\ [][FairNext]_fairVars

-----------------------------------------------------------------------------

\* While a client has a request queued, no other client is served twice:
\* whoever registers, leaves or submits meanwhile.
BoundedBypass == \A c, d \in Clients : bypass[c][d] <= 1

\* Why: a client that has been served since c began to wait is behind c in the
\* circular scan from next_client, which starts at c or reaches it first.
ServedIsBehind ==
    \A c, d \in Clients :
        bypass[c][d] > 0 => /\ queue[c] # <<>>
                            /\ Registered(d) => ScannedBefore(c, d)
=============================================================================
