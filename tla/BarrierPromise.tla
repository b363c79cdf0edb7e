--------------------------- MODULE BarrierPromise ---------------------------
(***************************************************************************)
(* What a barrier on a canvas promises its callers, stated over            *)
(* CanvasStore with a history variable: nobody goes on while another user, *)
(* connected to the canvas since before the caller came, has not come.     *)
(***************************************************************************)
EXTENDS CanvasStore

VARIABLE
    owed  \* owed[t]: the users whose arrival the waiting thread t is owed

promiseVars == <<vars, owed>>

\* User u reaches the barrier of canvas h in this step.
Arrives(u, h) ==
    \E t \in Workers :
        /\ place[t] = "locking" /\ User(t) = u
        /\ canvases' # canvases
        /\ \/ place'[t] = "asleep" /\ frame'[t].op = "barrier"
                                   /\ frame'[t].canvas = h
           \/ place'[t] = "idle" /\ h \in DOMAIN canvases
              /\ canvases[h].waiting # {} /\ canvases'[h].waiting = {}
              /\ u \in canvases'[h].connected

\* A user owes its arrival to those who were waiting before it, until it
\* arrives or leaves the canvas; who leaves while waiting is owed nothing.
CountOwed ==
    owed' = [t \in Threads |->
        LET h == frame'[t].canvas
            u == frame'[t].user
        IN  IF ~Waits(t)' \/ u \notin canvases'[h].connected THEN {}
            ELSE IF ~Waits(t)
                 THEN canvases'[h].connected \ canvases'[h].waiting
            ELSE {v \in owed[t] : v \in canvases'[h].connected
                                  /\ ~Arrives(v, h)}]

PromiseInit == Init /\ owed = [t \in Threads |-> {}]

PromiseNext == Next /\ CountOwed

PromiseSpec == PromiseInit /\ [][PromiseNext]_promiseVars

-----------------------------------------------------------------------------

\* A thread is let through the barrier only when nobody owes it an arrival.
PassedTogether ==
    \A t \in Threads : Waits(t) /\ ~Held(t) => owed[t] = {}
=============================================================================
