---------------------------- MODULE CanvasStore -----------------------------
(***************************************************************************)
(* The canvases, sprites and placements of the server (handles.c) and the  *)
(* RPC handlers that use them (rpc.c), run by the worker threads while the *)
(* main thread closes clients.  store->mutex is released only inside       *)
(* pthread_cond_wait and between the critical sections of place_sprite,    *)
(* generate and rpc_client_disconnected, so each critical section is one   *)
(* action.  A client's username and logged_in are not protected by it:     *)
(* they are read where the code reads them, once per critical section.     *)
(*                                                                         *)
(* What a request asks for is chosen when its critical section runs; one   *)
(* refused before that changes nothing and is not modelled.  libanimate is *)
(* external: an object of its own is live or not, and its calls may fail   *)
(* where the handlers expect it.                                           *)
(***************************************************************************)
EXTENDS Integers, FiniteSets

CONSTANTS
    Users,           \* the usernames of users.txt
    Clients,         \* the connections
    Workers,         \* the worker threads
    MainThread,      \* the thread that runs close_client
    NoClient,        \* the client of a thread that runs no handler
    Anonymous,       \* the empty username of a client not logged in
    Accounts,        \* the <<client, user>> pairs that log in, of users with
                     \* a positive balance
    Operations,      \* bound: the operations the clients ask for
    MaxHandle,       \* bound: the last handle given out
    MaxOutstanding   \* bound: requests of one client in progress

ASSUME UsersAssumption == Anonymous \notin Users
ASSUME ClientsAssumption == NoClient \notin Clients
ASSUME ThreadsAssumption == MainThread \notin Workers
ASSUME AccountsAssumption == Accounts \subseteq Clients \X Users
ASSUME BoundsAssumption == MaxHandle \in Nat /\ MaxOutstanding \in Nat

VARIABLES
    nextId,       \* store->next_id
    canvases,     \* the canvas records, by handle
    sprites,      \* the sprite records, by handle
    placements,   \* the placement records, by handle
    username,     \* client->username
    loggedIn,     \* client->logged_in
    closed,       \* close_client has removed the client from the pool
    place,        \* where each thread is in its handler
    frame         \* the local variables of each thread's handler

storeVars  == <<nextId, canvases, sprites, placements>>
clientVars == <<username, loggedIn, closed>>
vars       == <<storeVars, clientVars, place, frame>>

Names == Users \cup {Anonymous}
Threads == Workers \cup {MainThread}
Places ==
    {"idle", "started", "locking", "asleep", "awake", "recording", "frames",
     "leaving", "clearing", "forgetting", "removing"}

\* Each user of a canvas is connected or not, and barrier_waiting or not; a
\* record is live while it points to an object of libanimate.
CanvasRecords ==
    [users : SUBSET Names, connected : SUBSET Names, waiting : SUBSET Names,
     deleted : BOOLEAN, live : BOOLEAN]
SpriteRecords == [owner : Names, live : BOOLEAN]
PlacementRecords == [owner : Names, canvas : Nat, live : BOOLEAN]

NoHandle == 0
NoFrame ==
    [client |-> NoClient, op |-> "none", user |-> Anonymous,
     canvas |-> NoHandle, object |-> NoHandle]

Init ==
    /\ nextId = 1
    /\ canvases = [h \in {} |-> {}]
    /\ sprites = [h \in {} |-> {}]
    /\ placements = [h \in {} |-> {}]
    /\ username = [c \in Clients |-> Anonymous]
    /\ loggedIn = [c \in Clients |-> FALSE]
    /\ closed = [c \in Clients |-> FALSE]
    /\ place = [t \in Threads |-> "idle"]
    /\ frame = [t \in Threads |-> NoFrame]

-----------------------------------------------------------------------------
(* The handle tables.                                                      *)

\* next_id is taken and advanced under the mutex (mutant: not advanced).
HandleKept == UNCHANGED nextId
HandleTaken == nextId' = nextId + 1

Insert(table, record) ==
    [h \in DOMAIN table \cup {nextId} |->
        IF h = nextId THEN record ELSE table[h]]

\* handles_get_canvas finds the canvas for the user ...
Finds(h, u) ==
    /\ canvases[h].live
    /\ ~canvases[h].deleted
    /\ u \in canvases[h].users

\* ... and marks the user connected.
Joined(h, u) == [canvases[h] EXCEPT !.connected = @ \cup {u}]

Owns(table, h, u) == table[h].live /\ table[h].owner = u

\* The user is connected and barrier_waiting no more (mutant: still waiting).
DepartedWaiting(record, u) == [record EXCEPT !.connected = @ \ {u}]
Departed(record, u) ==
    [record EXCEPT !.connected = @ \ {u}, !.waiting = @ \ {u}]

\* maybe_destroy_canvas.
MaybeDestroyed(record) ==
    IF record.deleted /\ record.connected = {}
    THEN [record EXCEPT !.live = FALSE] ELSE record

\* pthread_cond_broadcast on the barrier_cond of the canvases hs (mutant: it
\* is missing).
NotBroadcast(hs) == place
Broadcast(hs) ==
    [t \in Threads |-> IF place[t] = "asleep" /\ frame[t].canvas \in hs
                       THEN "awake" ELSE place[t]]

-----------------------------------------------------------------------------
(* The threads.                                                            *)

\* The handler of t returns; at gives the places of the threads by then.
ReturnFrom(t, at) ==
    /\ place' = [at EXCEPT ![t] = "idle"]
    /\ frame' = [frame EXCEPT ![t] = NoFrame]
Return(t) == ReturnFrom(t, place)

GoTo(t, where, f) ==
    /\ place' = [place EXCEPT ![t] = where]
    /\ frame' = [frame EXCEPT ![t] = f]

Outstanding(c) == {t \in Workers : frame[t].client = c}

\* An idle worker takes a request of c from the pool.
Begin(t, c) ==
    /\ t \in Workers
    /\ place[t] = "idle"
    /\ ~closed[c]
    /\ Cardinality(Outstanding(c)) < MaxOutstanding
    /\ GoTo(t, "started", [NoFrame EXCEPT !.client = c])
    /\ UNCHANGED <<storeVars, clientVars>>

\* Login, accepted.
Login(t) ==
    LET c == frame[t].client IN
    /\ place[t] = "started"
    /\ \E u \in Users :
        /\ <<c, u>> \in Accounts
        /\ username' = [username EXCEPT ![c] = u]
        /\ loggedIn' = [loggedIn EXCEPT ![c] = TRUE]
    /\ Return(t)
    /\ UNCHANGED <<storeVars, closed>>

\* Any other operation goes on to lock the store.
RequireLogin(t) ==
    /\ place[t] = "started"
    /\ loggedIn[frame[t].client]
    /\ place' = [place EXCEPT ![t] = "locking"]
    /\ UNCHANGED <<storeVars, clientVars, frame>>

Runs(t, op) == place[t] = "locking" /\ op \in Operations

\* The username the handler of t reads.
User(t) == username[frame[t].client]

\* The operation fails: Login is rejected, require_login or the arguments are
\* refused, a handle is not found, or libanimate reports an error.
Refuse(t) ==
    /\ place[t] \in {"started", "locking"}
    /\ Return(t)
    /\ UNCHANGED <<storeVars, clientVars>>

-----------------------------------------------------------------------------
(* Operations with one critical section.                                   *)

CreateCanvas(t) ==
    /\ Runs(t, "create_canvas")
    /\ nextId <= MaxHandle
    /\ canvases' = Insert(canvases,
           [users |-> {User(t)}, connected |-> {User(t)}, waiting |-> {},
            deleted |-> FALSE, live |-> TRUE])
    /\ HandleTaken
    /\ Return(t)
    /\ UNCHANGED <<sprites, placements, clientVars>>

\* create_sprite, create_rectangle and create_circle.
CreateSprite(t) ==
    /\ Runs(t, "create_sprite")
    /\ nextId <= MaxHandle
    /\ sprites' = Insert(sprites, [owner |-> User(t), live |-> TRUE])
    /\ HandleTaken
    /\ Return(t)
    /\ UNCHANGED <<canvases, placements, clientVars>>

\* The user leaves the canvas; the last one connected destroys it.
DestroyCanvas(t) ==
    /\ Runs(t, "destroy_canvas")
    /\ \E h \in DOMAIN canvases :
        LET left == Departed(Joined(h, User(t)), User(t)) IN
        /\ Finds(h, User(t))
        /\ canvases' = [canvases EXCEPT ![h] =
               MaybeDestroyed([left EXCEPT !.deleted = left.connected = {}])]
        /\ ReturnFrom(t, Broadcast({h}))
    /\ UNCHANGED <<nextId, sprites, placements, clientVars>>

DestroySprite(t) ==
    /\ Runs(t, "destroy_sprite")
    /\ \E s \in DOMAIN sprites :
        /\ Owns(sprites, s, User(t))
        /\ sprites' = [sprites EXCEPT ![s].live = FALSE]
    /\ Return(t)
    /\ UNCHANGED <<nextId, canvases, placements, clientVars>>

DestroyPlacement(t) ==
    /\ Runs(t, "destroy_placement")
    /\ \E p \in DOMAIN placements :
        /\ Owns(placements, p, User(t))
        /\ placements' = [placements EXCEPT ![p].live = FALSE]
    /\ Return(t)
    /\ UNCHANGED <<nextId, canvases, sprites, clientVars>>

\* The canvas gets a user who is not connected until its first operation.
ShareCanvas(t) ==
    /\ Runs(t, "share_canvas")
    /\ \E h \in DOMAIN canvases, v \in Users :
        /\ Finds(h, User(t))
        /\ canvases' = [canvases EXCEPT ![h] =
               [Joined(h, User(t)) EXCEPT !.users = @ \cup {v}]]
    /\ Return(t)
    /\ UNCHANGED <<nextId, sprites, placements, clientVars>>

-----------------------------------------------------------------------------
(* The barrier, and the operations it holds back.                          *)

\* canvas_barrier_complete: every connected user waits (mutants: all but one
\* do; every user does, connected or not).
CompleteButOne(record) ==
    Cardinality(record.connected \ record.waiting) <= 1
CompleteForAll(record) == record.users \subseteq record.waiting
Complete(record) == record.connected \subseteq record.waiting

\* The caller waits on the barrier_cond of canvas h while its flag is set.
Wait(t, op, h, object) ==
    GoTo(t, "asleep",
         [client |-> frame[t].client, op |-> op, user |-> User(t),
          canvas |-> h, object |-> object])

Barrier(t) ==
    /\ Runs(t, "barrier")
    /\ \E h \in DOMAIN canvases :
        LET arrived == [Joined(h, User(t)) EXCEPT !.waiting = @ \cup {User(t)}]
        IN  /\ Finds(h, User(t))
            /\ \/ /\ Complete(arrived)
                  /\ canvases' = [canvases EXCEPT ![h] =
                                     [arrived EXCEPT !.waiting = {}]]
                  /\ ReturnFrom(t, Broadcast({h}))
               \/ /\ ~Complete(arrived)
                  /\ canvases' = [canvases EXCEPT ![h] = arrived]
                  /\ Wait(t, "barrier", h, NoHandle)
    /\ UNCHANGED <<nextId, sprites, placements, clientVars>>

\* pthread_cond_wait may return without a broadcast.
SpuriousWake(t) ==
    /\ place[t] = "asleep"
    /\ place' = [place EXCEPT ![t] = "awake"]
    /\ UNCHANGED <<storeVars, clientVars, frame>>

\* In pthread_cond_wait, or woken and about to test the flag again.
Waits(t) == place[t] \in {"asleep", "awake"}

\* The flag of the user for whom t waits.
Held(t) == frame[t].user \in canvases[frame[t].canvas].waiting

SleepAgain(t) ==
    /\ place[t] = "awake"
    /\ Held(t)
    /\ place' = [place EXCEPT ![t] = "asleep"]
    /\ UNCHANGED <<storeVars, clientVars, frame>>

Passes(t, op) == place[t] = "awake" /\ ~Held(t) /\ frame[t].op = op

PassBarrier(t) ==
    /\ Passes(t, "barrier")
    /\ Return(t)
    /\ UNCHANGED <<storeVars, clientVars>>

\* animate_place_sprite makes a placement, recorded in a second critical
\* section, or fails.
PlaceOn(t, h, s) ==
    \/ GoTo(t, "recording",
            [client |-> frame[t].client, op |-> "place_sprite",
             user |-> User(t), canvas |-> h, object |-> s])
    \/ Return(t)

\* The canvas is looked up before the sprite: a sprite that is not found
\* leaves the user connected.
PlaceSprite(t) ==
    /\ Runs(t, "place_sprite")
    /\ \E h \in DOMAIN canvases :
        /\ Finds(h, User(t))
        /\ canvases' = [canvases EXCEPT ![h] = Joined(h, User(t))]
        /\ \/ Return(t)
           \/ \E s \in DOMAIN sprites :
                /\ Owns(sprites, s, User(t))
                /\ IF User(t) \in canvases[h].waiting
                   THEN Wait(t, "place_sprite", h, s)
                   ELSE PlaceOn(t, h, s)
    /\ UNCHANGED <<nextId, sprites, placements, clientVars>>

PassPlaceSprite(t) ==
    /\ Passes(t, "place_sprite")
    /\ PlaceOn(t, frame[t].canvas, frame[t].object)
    /\ UNCHANGED <<storeVars, clientVars>>

RecordPlacement(t) ==
    /\ place[t] = "recording"
    /\ nextId <= MaxHandle
    /\ placements' = Insert(placements,
           [owner |-> User(t), canvas |-> frame[t].canvas, live |-> TRUE])
    /\ HandleTaken
    /\ Return(t)
    /\ UNCHANGED <<canvases, sprites, clientVars>>

\* placement_up, _down, _top, _bottom and set_animation_params: the placement
\* is used even when its canvas is not found.
UsePlacement(t) ==
    /\ Runs(t, "use_placement")
    /\ \E p \in DOMAIN placements :
        LET h == placements[p].canvas IN
        /\ Owns(placements, p, User(t))
        /\ IF Finds(h, User(t))
           THEN /\ canvases' = [canvases EXCEPT ![h] = Joined(h, User(t))]
                /\ IF User(t) \in canvases[h].waiting
                   THEN Wait(t, "use_placement", h, p)
                   ELSE Return(t)
           ELSE UNCHANGED canvases /\ Return(t)
    /\ UNCHANGED <<nextId, sprites, placements, clientVars>>

PassUsePlacement(t) ==
    /\ Passes(t, "use_placement")
    /\ Return(t)
    /\ UNCHANGED <<storeVars, clientVars>>

-----------------------------------------------------------------------------
(* generate: a lookup, then one for each frame.                            *)

Generate(t) ==
    /\ Runs(t, "generate")
    /\ \E h \in DOMAIN canvases :
        /\ Finds(h, User(t))
        /\ canvases' = [canvases EXCEPT ![h] = Joined(h, User(t))]
        /\ IF User(t) \in canvases[h].waiting
           THEN Wait(t, "generate", h, NoHandle)
           ELSE GoTo(t, "frames",
                     [client |-> frame[t].client, op |-> "generate",
                      user |-> User(t), canvas |-> h, object |-> NoHandle])
    /\ UNCHANGED <<nextId, sprites, placements, clientVars>>

PassGenerate(t) ==
    /\ Passes(t, "generate")
    /\ place' = [place EXCEPT ![t] = "frames"]
    /\ UNCHANGED <<storeVars, clientVars, frame>>

GenerateFrame(t) ==
    /\ place[t] = "frames"
    /\ Finds(frame[t].canvas, User(t))
    /\ canvases' = [canvases EXCEPT ![frame[t].canvas] =
                       Joined(frame[t].canvas, User(t))]
    /\ UNCHANGED <<nextId, sprites, placements, clientVars, place, frame>>

\* The canvas is not found any more, a file operation fails, or the last frame
\* is written and the movie made.
GenerateDone(t) ==
    /\ place[t] = "frames"
    /\ Return(t)
    /\ UNCHANGED <<storeVars, clientVars>>

-----------------------------------------------------------------------------
(* rpc_client_disconnected, run by a worker for a Disconnect request and by *)
(* the main thread in close_client.                                        *)

Disconnect(t) ==
    /\ "Disconnect" \in Operations
    /\ place[t] = "started"
    /\ IF loggedIn[frame[t].client]
       THEN place' = [place EXCEPT ![t] = "leaving"] /\ UNCHANGED frame
       ELSE Return(t)
    /\ UNCHANGED <<storeVars, clientVars>>

\* The client is found dead, has closed its FIFO, or its disconnect_after is
\* due.
Close(c) ==
    /\ "close" \in Operations
    /\ place[MainThread] = "idle"
    /\ ~closed[c]
    /\ GoTo(MainThread, IF loggedIn[c] THEN "leaving" ELSE "removing",
            [NoFrame EXCEPT !.client = c])
    /\ UNCHANGED <<storeVars, clientVars>>

\* handles_disconnect_user: the user leaves every canvas.
LeaveCanvases(t) ==
    /\ place[t] = "leaving"
    /\ LET u == User(t)
           left == IF u = Anonymous THEN {}
                   ELSE {h \in DOMAIN canvases : u \in canvases[h].users}
       IN  /\ canvases' = [h \in DOMAIN canvases |->
                  IF h \in left THEN MaybeDestroyed(Departed(canvases[h], u))
                  ELSE canvases[h]]
           /\ place' = [Broadcast(left) EXCEPT ![t] = "clearing"]
    /\ UNCHANGED <<nextId, sprites, placements, clientVars, frame>>

ClearLoggedIn(t) ==
    /\ place[t] = "clearing"
    /\ loggedIn' = [loggedIn EXCEPT ![frame[t].client] = FALSE]
    /\ place' = [place EXCEPT ![t] = "forgetting"]
    /\ UNCHANGED <<storeVars, username, closed, frame>>

ClearUsername(t) ==
    /\ place[t] = "forgetting"
    /\ username' = [username EXCEPT ![frame[t].client] = Anonymous]
    /\ IF t = MainThread
       THEN place' = [place EXCEPT ![t] = "removing"] /\ UNCHANGED frame
       ELSE Return(t)
    /\ UNCHANGED <<storeVars, loggedIn, closed>>

\* close_client goes on to mark the client disconnected and remove it.
RemoveClient ==
    /\ place[MainThread] = "removing"
    /\ closed' = [closed EXCEPT ![frame[MainThread].client] = TRUE]
    /\ Return(MainThread)
    /\ UNCHANGED <<storeVars, username, loggedIn>>

-----------------------------------------------------------------------------
Operate(t) ==
    \/ Login(t) \/ RequireLogin(t) \/ Disconnect(t) \/ Refuse(t)
    \/ CreateCanvas(t) \/ CreateSprite(t) \/ DestroyCanvas(t)
    \/ DestroySprite(t) \/ DestroyPlacement(t) \/ ShareCanvas(t)
    \/ Barrier(t) \/ PlaceSprite(t) \/ UsePlacement(t) \/ Generate(t)

Continue(t) ==
    \/ SleepAgain(t) \/ PassBarrier(t) \/ PassPlaceSprite(t)
    \/ PassUsePlacement(t) \/ PassGenerate(t) \/ RecordPlacement(t)
    \/ GenerateDone(t) \/ LeaveCanvases(t) \/ ClearLoggedIn(t)
    \/ ClearUsername(t)

Next ==
    \/ \E t \in Workers, c \in Clients : Begin(t, c)
    \/ \E t \in Threads :
        Operate(t) \/ Continue(t) \/ GenerateFrame(t) \/ SpuriousWake(t)
    \/ \E c \in Clients : Close(c)
    \/ RemoveClient

Spec == Init /\ [][Next]_vars

\* A thread that has begun a handler carries it on whenever it can.  Nothing
\* obliges a client to ask for anything, a barrier above all.
FairSpec ==
    /\ Spec
    /\ \A t \in Threads : WF_vars(Operate(t)) /\ WF_vars(Continue(t))
    /\ WF_vars(RemoveClient)
-----------------------------------------------------------------------------
(* Properties.                                                             *)

\* Every variable has its type, and the records of the three tables have
\* distinct handles below next_id.
TypeOK ==
    /\ nextId \in Nat \ {0}
    /\ \A table \in {canvases, sprites, placements} :
         DOMAIN table \subseteq 1 .. nextId - 1
    /\ DOMAIN canvases \cap DOMAIN sprites = {}
    /\ (DOMAIN canvases \cup DOMAIN sprites) \cap DOMAIN placements = {}
    /\ canvases \in [DOMAIN canvases -> CanvasRecords]
    /\ sprites \in [DOMAIN sprites -> SpriteRecords]
    /\ placements \in [DOMAIN placements -> PlacementRecords]
    /\ username \in [Clients -> Names]
    /\ loggedIn \in [Clients -> BOOLEAN]
    /\ closed \in [Clients -> BOOLEAN]
    /\ place \in [Threads -> Places]
    /\ frame \in [Threads ->
           [client : Clients \cup {NoClient},
            op : {"none", "barrier", "place_sprite", "use_placement",
                  "generate"},
            user : Names, canvas : Nat, object : Nat]]

\* Who waits at a barrier is connected to the canvas and who is connected is
\* one of its users; a canvas is destroyed only once it is marked deleted and
\* nobody is connected to it, and it stays so.
CanvasesSound ==
    \A h \in DOMAIN canvases : LET r == canvases[h] IN
        /\ r.waiting \subseteq r.connected
        /\ r.connected \subseteq r.users
        /\ r.deleted => r.connected = {}
        /\ r.deleted <=> ~r.live

\* No thread sleeps through its release: one that sleeps at a barrier waits for
\* a flag that is still set, of a canvas that still exists.
SleepersHeld ==
    \A t \in Threads : place[t] = "asleep" =>
        /\ Held(t)
        /\ canvases[frame[t].canvas].live

\* A barrier someone waits at is held by a connected user still to arrive
\* (server_common.h keeps BARRIER_TIMEOUT_SEC "for detecting dead clients").
BarrierHeldByAbsentee ==
    \A h \in DOMAIN canvases :
        canvases[h].waiting # {} =>
            ~(canvases[h].connected \subseteq canvases[h].waiting)

\* An operation held back at the barrier finds its objects when it goes on
\* (rpc.c: until its user "can safely interact with the canvas again").
SafeAfterBarrier ==
    \A t \in Threads : place[t] = "awake" /\ ~Held(t) =>
        CASE frame[t].op = "place_sprite" ->
               /\ canvases[frame[t].canvas].live
               /\ sprites[frame[t].object].live
          [] frame[t].op = "use_placement" -> placements[frame[t].object].live
          [] frame[t].op = "generate" -> canvases[frame[t].canvas].live
          [] frame[t].op = "barrier" -> TRUE

\* Only users with a session, or with one just being cleaned up, are connected
\* to a canvas (rpc.c: a disconnect "performs necessary cleanup of server-side
\* state related to the client").
NoGhosts ==
    \A h \in DOMAIN canvases : \A u \in canvases[h].connected :
        \E c \in Clients : username[c] = u

\* A thread released from a barrier, by the last arrival or by the departure of
\* its own user, leaves it.  The empty username is left out: all clients whose
\* name was cleared share its flag.
ReleasedLeaves ==
    \A t \in Threads :
        Waits(t) /\ frame[t].user \in Users /\ ~Held(t) ~> ~Waits(t)
=============================================================================
