----------------------------- MODULE StoreProofs -----------------------------
(***************************************************************************)
(* Proofs about CanvasStore for every set of users, clients and workers,   *)
(* every choice of operations and every number of handles and requests.    *)
(***************************************************************************)
EXTENDS CanvasStore, TLAPS

-----------------------------------------------------------------------------
(* The inductive invariant.                                                *)

\* A canvas record that keeps what CanvasesSound says of it.
RecordSound(r) ==
    /\ r.waiting \subseteq r.connected
    /\ r.connected \subseteq r.users
    /\ r.deleted => r.connected = {}
    /\ r.deleted <=> ~r.live

SoundRecords == {r \in CanvasRecords : RecordSound(r)}

\* The tables: types, distinct handles, sound canvases, and a canvas for each
\* placement.
TablesSound ==
    /\ nextId \in Nat \ {0}
    /\ \A table \in {canvases, sprites, placements} :
         DOMAIN table \subseteq 1 .. nextId - 1
    /\ DOMAIN canvases \cap DOMAIN sprites = {}
    /\ (DOMAIN canvases \cup DOMAIN sprites) \cap DOMAIN placements = {}
    /\ canvases \in [DOMAIN canvases -> SoundRecords]
    /\ sprites \in [DOMAIN sprites -> SpriteRecords]
    /\ placements \in [DOMAIN placements -> PlacementRecords]
    /\ \A p \in DOMAIN placements : placements[p].canvas \in DOMAIN canvases

SessionsTyped ==
    /\ username \in [Clients -> Names]
    /\ loggedIn \in [Clients -> BOOLEAN]
    /\ closed \in [Clients -> BOOLEAN]

Frames ==
    [client : Clients \cup {NoClient},
     op : {"none", "barrier", "place_sprite", "use_placement", "generate"},
     user : Names, canvas : Nat, object : Nat]

\* A handler in progress has a client, and where it goes on with a canvas it
\* looked up, this is the handle of one.
FrameFits(where, f) ==
    /\ where # "idle" => f.client \in Clients
    /\ where \in {"asleep", "awake", "recording", "frames"} =>
           f.canvas \in DOMAIN canvases

ThreadsFit ==
    /\ place \in [Threads -> Places]
    /\ frame \in [Threads -> Frames]
    /\ \A t \in Threads : FrameFits(place[t], frame[t])

\* Who sleeps waits for a flag that is set.
SleepersWait == \A t \in Threads : place[t] = "asleep" => Held(t)

StoreInvariant == TablesSound /\ SessionsTyped /\ ThreadsFit /\ SleepersWait

-----------------------------------------------------------------------------
(* Canvas records.                                                         *)

\* A canvas found for a user is sound with the user connected, and nobody's
\* flag has changed.
LEMMA JoinedSound ==
    ASSUME TablesSound, NEW h \in DOMAIN canvases, NEW u \in Names, Finds(h, u)
    PROVE  /\ Joined(h, u) \in SoundRecords
           /\ Joined(h, u).waiting = canvases[h].waiting
           /\ Joined(h, u).connected = canvases[h].connected \cup {u}
           /\ Joined(h, u).users = canvases[h].users
           /\ Joined(h, u).live /\ ~Joined(h, u).deleted
<1>1. canvases[h] \in SoundRecords
  BY DEF TablesSound
<1> QED
  BY <1>1 DEF Joined, Finds, SoundRecords, CanvasRecords, RecordSound, Names

\* The departure of a user keeps a canvas sound, whether or not it is destroyed.
LEMMA DepartedSound ==
    ASSUME NEW r \in SoundRecords, NEW u
    PROVE  MaybeDestroyed(Departed(r, u)) \in SoundRecords
<1> DEFINE left == Departed(r, u)
<1>1. /\ left \in SoundRecords
      /\ left.deleted = r.deleted /\ left.live = r.live
  BY DEF Departed, SoundRecords, CanvasRecords, RecordSound
<1> QED
  BY <1>1 DEF MaybeDestroyed, SoundRecords, CanvasRecords, RecordSound

\* So does destroy_canvas, which marks the canvas that its last user leaves.
LEMMA DestroyedSound ==
    ASSUME NEW r \in SoundRecords, ~r.deleted, NEW u
    PROVE  LET left == Departed(r, u) IN
           MaybeDestroyed([left EXCEPT !.deleted = left.connected = {}])
               \in SoundRecords
<1> DEFINE left == Departed(r, u)
           marked == [left EXCEPT !.deleted = left.connected = {}]
<1>1. left \in SoundRecords /\ left.live
  BY DEF Departed, SoundRecords, CanvasRecords, RecordSound
<1> HIDE DEF left
<1>2. /\ marked \in CanvasRecords
      /\ marked.waiting = left.waiting /\ marked.connected = left.connected
      /\ marked.users = left.users /\ marked.live
      /\ marked.deleted <=> marked.connected = {}
  BY <1>1 DEF SoundRecords, CanvasRecords
<1>3. RecordSound([marked EXCEPT !.live = FALSE]) \/ ~marked.deleted
  BY <1>1, <1>2 DEF SoundRecords, CanvasRecords, RecordSound
<1> HIDE DEF marked
<1>4. MaybeDestroyed(marked) \in SoundRecords
  BY <1>1, <1>2, <1>3
     DEF MaybeDestroyed, SoundRecords, CanvasRecords, RecordSound
<1> QED  BY <1>4 DEF marked, left

-----------------------------------------------------------------------------
(* The tables.                                                             *)

\* A step that changes the records of some canvases.
LEMMA CanvasesChange ==
    ASSUME TablesSound, UNCHANGED <<nextId, sprites, placements>>,
           canvases' \in [DOMAIN canvases -> SoundRecords]
    PROVE  TablesSound' /\ DOMAIN canvases' = DOMAIN canvases
<1>1. DOMAIN canvases' = DOMAIN canvases
  OBVIOUS
<1> QED  BY <1>1 DEF TablesSound

LEMMA OneCanvasChanges ==
    ASSUME TablesSound, NEW h \in DOMAIN canvases, NEW r \in SoundRecords,
           canvases' = [canvases EXCEPT ![h] = r],
           UNCHANGED <<nextId, sprites, placements>>
    PROVE  TablesSound' /\ DOMAIN canvases' = DOMAIN canvases
<1>1. canvases' \in [DOMAIN canvases -> SoundRecords]
  BY DEF TablesSound
<1> QED  BY <1>1, CanvasesChange

\* A handle just taken is in no table.
LEMMA InsertFacts ==
    ASSUME TablesSound, NEW table \in {canvases, sprites, placements},
           NEW R, table \in [DOMAIN table -> R], NEW record \in R
    PROVE  /\ Insert(table, record) \in [DOMAIN table \cup {nextId} -> R]
           /\ DOMAIN Insert(table, record) = DOMAIN table \cup {nextId}
           /\ \A other \in {canvases, sprites, placements} :
                /\ nextId \notin DOMAIN other
                /\ DOMAIN other \cup {nextId} \subseteq 1 .. nextId + 1 - 1
           /\ \A h \in DOMAIN table : Insert(table, record)[h] = table[h]
           /\ Insert(table, record)[nextId] = record
<1>1. \A other \in {canvases, sprites, placements} :
          DOMAIN other \subseteq 1 .. nextId - 1
  BY DEF TablesSound
<1>2. nextId \in Nat \ {0}
  BY DEF TablesSound
<1>3. \A other \in {canvases, sprites, placements} :
          /\ nextId \notin DOMAIN other
          /\ DOMAIN other \cup {nextId} \subseteq 1 .. nextId + 1 - 1
  <2>1. nextId \notin 1 .. nextId - 1
    BY <1>2
  <2>2. (1 .. nextId - 1) \cup {nextId} \subseteq 1 .. nextId + 1 - 1
    BY <1>2
  <2> QED  BY <1>1, <2>1, <2>2
<1> QED  BY <1>3 DEF Insert

\* The user that a handler reads is a name.
LEMMA UserTyped ==
    ASSUME SessionsTyped, ThreadsFit, NEW t \in Threads, place[t] # "idle"
    PROVE  User(t) \in Names /\ frame[t].client \in Clients
BY DEF SessionsTyped, ThreadsFit, FrameFits, User

\* The operations that make an object.
LEMMA TablesCreate ==
    ASSUME StoreInvariant, NEW t \in Threads,
           CreateCanvas(t) \/ CreateSprite(t) \/ RecordPlacement(t)
    PROVE  TablesSound' /\ DOMAIN canvases \subseteq DOMAIN canvases'
<1> USE DEF StoreInvariant
<1>1. User(t) \in Names
  BY UserTyped DEF CreateCanvas, CreateSprite, RecordPlacement, Runs
<1>2. nextId' \in Nat \ {0} /\ nextId' = nextId + 1
  BY DEF TablesSound, CreateCanvas, CreateSprite, RecordPlacement, HandleTaken
<1>3. \A table \in {canvases, sprites, placements} :
          /\ nextId \notin DOMAIN table
          /\ DOMAIN table \subseteq 1 .. nextId'
  BY InsertFacts, <1>2 DEF TablesSound
<1>4. CASE CreateCanvas(t)
  <2> DEFINE new == [users |-> {User(t)}, connected |-> {User(t)},
                     waiting |-> {}, deleted |-> FALSE, live |-> TRUE]
  <2>1. new \in SoundRecords
    BY <1>1 DEF SoundRecords, CanvasRecords, RecordSound
  <2>2. canvases' = Insert(canvases, new) /\ UNCHANGED <<sprites, placements>>
    BY <1>4 DEF CreateCanvas
  <2> HIDE DEF new
  <2>3. /\ canvases' \in [DOMAIN canvases \cup {nextId} -> SoundRecords]
        /\ DOMAIN canvases' = DOMAIN canvases \cup {nextId}
    BY <2>1, <2>2, InsertFacts DEF TablesSound
  <2> QED  BY <1>2, <1>3, <2>2, <2>3, InsertFacts DEF TablesSound
<1>5. CASE CreateSprite(t)
  <2> DEFINE new == [owner |-> User(t), live |-> TRUE]
  <2>1. new \in SpriteRecords
    BY <1>1 DEF SpriteRecords
  <2>2. sprites' = Insert(sprites, new) /\ UNCHANGED <<canvases, placements>>
    BY <1>5 DEF CreateSprite
  <2> HIDE DEF new
  <2>3. /\ sprites' \in [DOMAIN sprites \cup {nextId} -> SpriteRecords]
        /\ DOMAIN sprites' = DOMAIN sprites \cup {nextId}
    BY <2>1, <2>2, InsertFacts DEF TablesSound
  <2> QED  BY <1>2, <1>3, <2>2, <2>3, InsertFacts DEF TablesSound
<1>6. CASE RecordPlacement(t)
  <2> DEFINE new == [owner |-> User(t), canvas |-> frame[t].canvas,
                     live |-> TRUE]
  <2>1. new \in PlacementRecords /\ new.canvas \in DOMAIN canvases
    BY <1>1, <1>6 DEF RecordPlacement, PlacementRecords, ThreadsFit, FrameFits,
                      Frames
  <2>2. placements' = Insert(placements, new) /\ UNCHANGED <<canvases, sprites>>
    BY <1>6 DEF RecordPlacement
  <2> HIDE DEF new
  <2>3. /\ placements' \in [DOMAIN placements \cup {nextId} -> PlacementRecords]
        /\ DOMAIN placements' = DOMAIN placements \cup {nextId}
        /\ \A p \in DOMAIN placements : placements'[p] = placements[p]
        /\ placements'[nextId] = new
    <3>1. placements \in [DOMAIN placements -> PlacementRecords]
      BY DEF TablesSound
    <3>2. TablesSound /\ new \in PlacementRecords
      BY <2>1
    <3>3. ASSUME NEW p \in DOMAIN placements
          PROVE  Insert(placements, new)[p] = placements[p]
      BY <3>1, <3>2, InsertFacts
    <3>4. /\ Insert(placements, new)
                \in [DOMAIN placements \cup {nextId} -> PlacementRecords]
          /\ DOMAIN Insert(placements, new) = DOMAIN placements \cup {nextId}
          /\ Insert(placements, new)[nextId] = new
      BY <3>1, <3>2, InsertFacts
    <3> QED  BY <2>2, <3>3, <3>4
  <2>4. \A p \in DOMAIN placements' : placements'[p].canvas \in DOMAIN canvases
    BY <2>1, <2>3 DEF TablesSound
  <2> QED  BY <1>2, <1>3, <2>2, <2>3, <2>4 DEF TablesSound
<1> QED  BY <1>4, <1>5, <1>6

\* The operations that look a canvas up, and so connect the user to it.
LEMMA TablesLookup ==
    ASSUME StoreInvariant, NEW t \in Threads,
           \/ ShareCanvas(t) \/ PlaceSprite(t) \/ UsePlacement(t)
           \/ Generate(t) \/ GenerateFrame(t)
    PROVE  TablesSound' /\ DOMAIN canvases' = DOMAIN canvases
<1> USE DEF StoreInvariant
<1>1. User(t) \in Names
  BY UserTyped DEF ShareCanvas, PlaceSprite, UsePlacement, Generate,
                   GenerateFrame, Runs
<1>2. UNCHANGED <<nextId, sprites, placements>>
  BY DEF ShareCanvas, PlaceSprite, UsePlacement, Generate, GenerateFrame
<1>3. ASSUME NEW h \in DOMAIN canvases, Finds(h, User(t)),
             canvases' = [canvases EXCEPT ![h] = Joined(h, User(t))]
      PROVE  TablesSound' /\ DOMAIN canvases' = DOMAIN canvases
  BY <1>1, <1>2, <1>3, JoinedSound, OneCanvasChanges
<1>4. CASE UNCHANGED canvases
  BY <1>2, <1>4 DEF TablesSound
<1>5. CASE ShareCanvas(t)
  <2>1. PICK h \in DOMAIN canvases, v \in Users :
          /\ Finds(h, User(t))
          /\ canvases' = [canvases EXCEPT ![h] =
                 [Joined(h, User(t)) EXCEPT !.users = @ \cup {v}]]
    BY <1>5 DEF ShareCanvas
  <2> DEFINE joined == Joined(h, User(t))
  <2>2. joined \in SoundRecords
    BY <1>1, <2>1, JoinedSound
  <2> HIDE DEF joined
  <2>3. [joined EXCEPT !.users = @ \cup {v}] \in SoundRecords
    BY <2>2 DEF SoundRecords, CanvasRecords, RecordSound, Names
  <2> QED  BY <1>2, <2>1, <2>3, OneCanvasChanges DEF joined
<1>6. CASE PlaceSprite(t)
  BY <1>3, <1>6 DEF PlaceSprite
<1>7. CASE UsePlacement(t)
  <2>1. PICK p \in DOMAIN placements :
          LET h == placements[p].canvas IN
          \/ /\ Finds(h, User(t))
             /\ canvases' = [canvases EXCEPT ![h] = Joined(h, User(t))]
          \/ UNCHANGED canvases
    BY <1>7 DEF UsePlacement
  <2>2. placements[p].canvas \in DOMAIN canvases
    BY DEF TablesSound
  <2> QED  BY <1>3, <1>4, <2>1, <2>2
<1>8. CASE Generate(t)
  BY <1>3, <1>8 DEF Generate
<1>9. CASE GenerateFrame(t)
  <2>1. frame[t].canvas \in DOMAIN canvases
    BY <1>9 DEF GenerateFrame, ThreadsFit, FrameFits
  <2> QED  BY <1>3, <1>9, <2>1 DEF GenerateFrame
<1> QED  BY <1>5, <1>6, <1>7, <1>8, <1>9

\* The barrier, and the operations that leave canvases.
LEMMA TablesBarrier ==
    ASSUME StoreInvariant, NEW t \in Threads, Barrier(t)
    PROVE  TablesSound' /\ DOMAIN canvases' = DOMAIN canvases
<1> USE DEF StoreInvariant
<1>1. PICK h \in DOMAIN canvases :
        /\ Finds(h, User(t))
        /\ LET arrived == [Joined(h, User(t)) EXCEPT !.waiting = @ \cup {User(t)}]
           IN  \/ canvases' = [canvases EXCEPT ![h] =
                                  [arrived EXCEPT !.waiting = {}]]
               \/ canvases' = [canvases EXCEPT ![h] = arrived]
  BY DEF Barrier
<1> DEFINE joined  == Joined(h, User(t))
           arrived == [joined EXCEPT !.waiting = @ \cup {User(t)}]
<1>2. joined \in SoundRecords /\ User(t) \in joined.connected
  BY <1>1, JoinedSound, UserTyped DEF Barrier, Runs
<1> HIDE DEF joined
<1>3. arrived \in SoundRecords
  BY <1>2 DEF SoundRecords, CanvasRecords, RecordSound
<1> HIDE DEF arrived
<1>4. [arrived EXCEPT !.waiting = {}] \in SoundRecords
  BY <1>3 DEF SoundRecords, CanvasRecords, RecordSound
<1>5. UNCHANGED <<nextId, sprites, placements>>
  BY DEF Barrier
<1> QED  BY <1>1, <1>3, <1>4, <1>5, OneCanvasChanges DEF arrived, joined

LEMMA TablesLeave ==
    ASSUME StoreInvariant, NEW t \in Threads,
           DestroyCanvas(t) \/ LeaveCanvases(t)
    PROVE  TablesSound' /\ DOMAIN canvases' = DOMAIN canvases
<1> USE DEF StoreInvariant
<1>1. UNCHANGED <<nextId, sprites, placements>>
  BY DEF DestroyCanvas, LeaveCanvases
<1>2. CASE DestroyCanvas(t)
  <2>1. PICK h \in DOMAIN canvases :
          /\ Finds(h, User(t))
          /\ LET left == Departed(Joined(h, User(t)), User(t)) IN
             canvases' = [canvases EXCEPT ![h] =
                 MaybeDestroyed([left EXCEPT !.deleted = left.connected = {}])]
    BY <1>2 DEF DestroyCanvas
  <2>2. Joined(h, User(t)) \in SoundRecords /\ ~Joined(h, User(t)).deleted
    BY <1>2, <2>1, JoinedSound, UserTyped DEF DestroyCanvas, Runs
  <2> QED  BY <1>1, <2>1, <2>2, DestroyedSound, OneCanvasChanges
<1>3. CASE LeaveCanvases(t)
  <2>1. \A h \in DOMAIN canvases :
            /\ canvases[h] \in SoundRecords
            /\ MaybeDestroyed(Departed(canvases[h], User(t))) \in SoundRecords
    BY DepartedSound DEF TablesSound
  <2>2. canvases' \in [DOMAIN canvases -> SoundRecords]
    BY <1>3, <2>1 DEF LeaveCanvases
  <2> QED  BY <1>1, <2>2, CanvasesChange
<1> QED  BY <1>2, <1>3

\* What the handlers do that changes no canvas.
StoreQuiet(t) ==
    \/ Login(t) \/ RequireLogin(t) \/ Disconnect(t) \/ Refuse(t)
    \/ SleepAgain(t) \/ PassBarrier(t) \/ PassPlaceSprite(t)
    \/ PassUsePlacement(t) \/ PassGenerate(t) \/ GenerateDone(t)
    \/ ClearLoggedIn(t) \/ ClearUsername(t) \/ SpuriousWake(t)

LEMMA TablesDestroy ==
    ASSUME StoreInvariant, NEW t \in Threads,
           DestroySprite(t) \/ DestroyPlacement(t)
    PROVE  TablesSound' /\ UNCHANGED canvases
<1> USE DEF StoreInvariant
<1>1. CASE DestroySprite(t)
  <2>1. PICK s \in DOMAIN sprites : sprites' = [sprites EXCEPT ![s].live = FALSE]
    BY <1>1 DEF DestroySprite
  <2>2. /\ sprites' \in [DOMAIN sprites -> SpriteRecords]
        /\ DOMAIN sprites' = DOMAIN sprites
    BY <2>1 DEF TablesSound, SpriteRecords
  <2> QED  BY <1>1, <2>2 DEF DestroySprite, TablesSound
<1>2. CASE DestroyPlacement(t)
  <2>1. PICK p \in DOMAIN placements :
          placements' = [placements EXCEPT ![p].live = FALSE]
    BY <1>2 DEF DestroyPlacement
  <2>2. /\ placements' \in [DOMAIN placements -> PlacementRecords]
        /\ DOMAIN placements' = DOMAIN placements
        /\ \A q \in DOMAIN placements :
               placements'[q].canvas = placements[q].canvas
    BY <2>1 DEF TablesSound, PlacementRecords
  <2> QED  BY <1>2, <2>2 DEF DestroyPlacement, TablesSound
<1> QED  BY <1>1, <1>2

LEMMA TablesStep ==
    ASSUME StoreInvariant, [Next]_vars
    PROVE  TablesSound' /\ DOMAIN canvases \subseteq DOMAIN canvases'
<1>1. UNCHANGED storeVars => TablesSound' /\ UNCHANGED canvases
  BY DEF StoreInvariant, TablesSound, storeVars
<1>2. ASSUME NEW t \in Threads, StoreQuiet(t)
      PROVE  UNCHANGED storeVars
  BY <1>2 DEF StoreQuiet, Login, RequireLogin, Disconnect, Refuse, SleepAgain,
              PassBarrier, PassPlaceSprite, PassUsePlacement, PassGenerate,
              GenerateDone, ClearLoggedIn, ClearUsername, SpuriousWake
<1>3. ASSUME NEW t \in Threads, NEW c \in Clients,
             Begin(t, c) \/ Close(c) \/ RemoveClient \/ UNCHANGED vars
      PROVE  UNCHANGED storeVars
  BY <1>3 DEF Begin, Close, RemoveClient, vars
<1>4. CASE UNCHANGED vars \/ RemoveClient
  BY <1>1, <1>4 DEF vars, RemoveClient
<1>5. ASSUME NEW t \in Threads,
             Operate(t) \/ Continue(t) \/ GenerateFrame(t) \/ SpuriousWake(t)
      PROVE  TablesSound' /\ DOMAIN canvases \subseteq DOMAIN canvases'
  <2>1. CASE StoreQuiet(t)
    BY <1>1, <1>2, <2>1
  <2>2. CASE CreateCanvas(t) \/ CreateSprite(t) \/ RecordPlacement(t)
    BY <2>2, TablesCreate
  <2>3. CASE \/ ShareCanvas(t) \/ PlaceSprite(t) \/ UsePlacement(t)
             \/ Generate(t) \/ GenerateFrame(t)
    BY <2>3, TablesLookup
  <2>4. CASE Barrier(t) \/ DestroyCanvas(t) \/ LeaveCanvases(t)
    BY <2>4, TablesBarrier, TablesLeave
  <2>5. CASE DestroySprite(t) \/ DestroyPlacement(t)
    BY <2>5, TablesDestroy
  <2> QED
    BY <1>5, <2>1, <2>2, <2>3, <2>4, <2>5 DEF Operate, Continue, StoreQuiet
<1> QED  BY <1>1, <1>3, <1>4, <1>5 DEF Next, Threads

-----------------------------------------------------------------------------
(* The sessions and the threads.                                           *)

LEMMA SessionsStep ==
    ASSUME StoreInvariant, [Next]_vars
    PROVE  SessionsTyped'
<1> USE DEF StoreInvariant, SessionsTyped
<1>1. CASE UNCHANGED clientVars
  BY <1>1 DEF clientVars
<1>2. ASSUME NEW t \in Threads, Login(t)
      PROVE  SessionsTyped'
  BY <1>2, UserTyped DEF Login, Names
<1>3. ASSUME NEW t \in Threads, ClearLoggedIn(t) \/ ClearUsername(t)
      PROVE  SessionsTyped'
  BY <1>3, UserTyped DEF ClearLoggedIn, ClearUsername, Names
<1>4. CASE RemoveClient
  BY <1>4 DEF RemoveClient
<1>5. ASSUME NEW t \in Threads, NEW c \in Clients, Begin(t, c) \/ Close(c)
      PROVE  UNCHANGED clientVars
  BY <1>5 DEF Begin, Close
<1>6. ASSUME NEW t \in Threads,
             Operate(t) \/ Continue(t) \/ GenerateFrame(t) \/ SpuriousWake(t)
      PROVE  \/ Login(t) \/ ClearLoggedIn(t) \/ ClearUsername(t)
             \/ UNCHANGED clientVars
  <2>1. CASE StoreQuiet(t)
    BY <2>1 DEF StoreQuiet, RequireLogin, Disconnect, Refuse, SleepAgain,
                PassBarrier, PassPlaceSprite, PassUsePlacement, PassGenerate,
                GenerateDone, SpuriousWake
  <2>2. CASE \/ CreateCanvas(t) \/ CreateSprite(t) \/ RecordPlacement(t)
             \/ ShareCanvas(t) \/ PlaceSprite(t) \/ UsePlacement(t)
    BY <2>2 DEF CreateCanvas, CreateSprite, RecordPlacement, ShareCanvas,
                PlaceSprite, UsePlacement
  <2>3. CASE \/ Generate(t) \/ GenerateFrame(t) \/ Barrier(t)
             \/ DestroyCanvas(t) \/ LeaveCanvases(t) \/ DestroySprite(t)
             \/ DestroyPlacement(t)
    BY <2>3 DEF Generate, GenerateFrame, Barrier, DestroyCanvas,
                LeaveCanvases, DestroySprite, DestroyPlacement
  <2> QED  BY <1>6, <2>1, <2>2, <2>3 DEF Operate, Continue, StoreQuiet
<1> QED
  BY <1>1, <1>2, <1>3, <1>4, <1>5, <1>6 DEF Next, vars, Threads

\* Where the threads are once some of those asleep have been woken.
Woken(at) ==
    /\ at \in [Threads -> Places]
    /\ \A s \in Threads : \/ at[s] = place[s]
                          \/ place[s] = "asleep" /\ at[s] = "awake"

LEMMA WokenFacts ==
    ASSUME ThreadsFit
    PROVE  Woken(place) /\ \A hs : Woken(Broadcast(hs))
<1>1. Woken(place)
  BY DEF ThreadsFit, Woken
<1>2. ASSUME NEW hs
      PROVE  Woken(Broadcast(hs))
  <2>1. ASSUME NEW s \in Threads
        PROVE  /\ Broadcast(hs)[s] \in Places
               /\ \/ Broadcast(hs)[s] = place[s]
                  \/ place[s] = "asleep" /\ Broadcast(hs)[s] = "awake"
    BY DEF ThreadsFit, Broadcast, Places
  <2>2. Broadcast(hs) \in [Threads -> Places]
    BY <2>1 DEF Broadcast
  <2> QED  BY <2>1, <2>2 DEF Woken
<1> QED  BY <1>1, <1>2

\* A thread goes on, others may have been woken.
LEMMA ThreadsGoOn ==
    ASSUME ThreadsFit, DOMAIN canvases \subseteq DOMAIN canvases',
           NEW t \in Threads, NEW at, Woken(at),
           NEW where \in Places, NEW f \in Frames, FrameFits(where, f),
           place' = [at EXCEPT ![t] = where],
           frame' = [frame EXCEPT ![t] = f]
    PROVE  ThreadsFit'
<1>1. place' \in [Threads -> Places] /\ frame' \in [Threads -> Frames]
  BY DEF ThreadsFit, Woken
<1>2. ASSUME NEW s \in Threads
      PROVE  FrameFits(place[s], frame[s])'
  <2>1. CASE s = t
    BY <2>1 DEF FrameFits, ThreadsFit, Woken
  <2>2. CASE s # t
    BY <2>2 DEF FrameFits, ThreadsFit, Woken
  <2> QED  BY <2>1, <2>2
<1> QED  BY <1>1, <1>2 DEF ThreadsFit

LEMMA ThreadsReturn ==
    ASSUME ThreadsFit, DOMAIN canvases \subseteq DOMAIN canvases',
           NEW t \in Threads, NEW at, Woken(at), ReturnFrom(t, at)
    PROVE  ThreadsFit'
<1>1. "idle" \in Places /\ NoFrame \in Frames /\ FrameFits("idle", NoFrame)
  BY DEF Places, NoFrame, Frames, FrameFits, NoHandle, Names
<1> QED  BY <1>1, ThreadsGoOn DEF ReturnFrom

\* The thread goes to a place where the frame it keeps is good.
LEMMA ThreadsMove ==
    ASSUME ThreadsFit, DOMAIN canvases \subseteq DOMAIN canvases',
           NEW t \in Threads, NEW at, Woken(at),
           NEW where \in Places, FrameFits(where, frame[t]),
           place' = [at EXCEPT ![t] = where], UNCHANGED frame
    PROVE  ThreadsFit'
<1>1. frame[t] \in Frames /\ frame' = [frame EXCEPT ![t] = frame[t]]
  BY DEF ThreadsFit
<1> QED  BY <1>1, ThreadsGoOn

\* The frame of a handler that goes on with the canvas it looked up.
LEMMA FrameWithCanvas ==
    ASSUME StoreInvariant, NEW t \in Threads, place[t] # "idle",
           NEW op \in {"barrier", "place_sprite", "use_placement", "generate"},
           NEW h \in DOMAIN canvases, NEW object \in Nat
    PROVE  LET f == [client |-> frame[t].client, op |-> op, user |-> User(t),
                     canvas |-> h, object |-> object]
           IN  /\ f \in Frames
               /\ \A where \in Places : FrameFits(where, f)
<1>1. User(t) \in Names /\ frame[t].client \in Clients
  BY UserTyped DEF StoreInvariant
<1>2. h \in Nat
  BY DEF StoreInvariant, TablesSound
<1> QED  BY <1>1, <1>2 DEF Frames, FrameFits

\* The handles of sprites and placements are numbers.
LEMMA HandlesAreNumbers ==
    ASSUME StoreInvariant
    PROVE  DOMAIN sprites \subseteq Nat /\ DOMAIN placements \subseteq Nat
BY DEF StoreInvariant, TablesSound

LEMMA ThreadsLookup ==
    ASSUME StoreInvariant, DOMAIN canvases \subseteq DOMAIN canvases',
           NEW t \in Threads,
           Barrier(t) \/ PlaceSprite(t) \/ UsePlacement(t) \/ Generate(t)
    PROVE  ThreadsFit'
<1> USE DEF StoreInvariant
<1>1. place[t] # "idle" /\ {"asleep", "recording", "frames"} \subseteq Places
  BY DEF Barrier, PlaceSprite, UsePlacement, Generate, Runs, Places
<1>2. ASSUME NEW hs, ReturnFrom(t, Broadcast(hs)) \/ Return(t)
      PROVE  ThreadsFit'
  BY <1>2, WokenFacts, ThreadsReturn DEF Return
<1>3. ASSUME NEW op \in {"barrier", "place_sprite", "use_placement", "generate"},
             NEW h \in DOMAIN canvases, NEW object \in Nat,
             NEW where \in Places,
             GoTo(t, where,
                  [client |-> frame[t].client, op |-> op, user |-> User(t),
                   canvas |-> h, object |-> object])
      PROVE  ThreadsFit'
  <2> DEFINE f == [client |-> frame[t].client, op |-> op, user |-> User(t),
                   canvas |-> h, object |-> object]
  <2>1. f \in Frames /\ FrameFits(where, f)
    BY <1>1, FrameWithCanvas
  <2>2. place' = [place EXCEPT ![t] = where] /\ frame' = [frame EXCEPT ![t] = f]
    BY <1>3 DEF GoTo
  <2> HIDE DEF f
  <2> QED  BY <2>1, <2>2, WokenFacts, ThreadsGoOn
<1>4. ASSUME NEW op \in {"barrier", "place_sprite", "use_placement", "generate"},
             NEW h \in DOMAIN canvases, NEW object \in Nat,
             Wait(t, op, h, object)
      PROVE  ThreadsFit'
  BY <1>1, <1>3, <1>4 DEF Wait
<1>5. ASSUME NEW h \in DOMAIN canvases, NEW s \in Nat, PlaceOn(t, h, s)
      PROVE  ThreadsFit'
  BY <1>1, <1>2, <1>3, <1>5 DEF PlaceOn
<1>6. CASE Barrier(t)
  BY <1>2, <1>4, <1>6 DEF Barrier, NoHandle
<1>7. CASE PlaceSprite(t)
  BY <1>2, <1>4, <1>5, <1>7, HandlesAreNumbers DEF PlaceSprite
<1>8. CASE UsePlacement(t)
  <2>1. \A p \in DOMAIN placements : placements[p].canvas \in DOMAIN canvases
    BY DEF TablesSound
  <2> QED  BY <1>2, <1>4, <1>8, <2>1, HandlesAreNumbers DEF UsePlacement
<1>9. CASE Generate(t)
  BY <1>1, <1>3, <1>4, <1>9 DEF Generate, NoHandle
<1> QED  BY <1>6, <1>7, <1>8, <1>9

\* The steps that keep the frame, or start one.
LEMMA ThreadsKeepFrame ==
    ASSUME StoreInvariant, DOMAIN canvases \subseteq DOMAIN canvases',
           NEW t \in Threads,
           \/ RequireLogin(t) \/ SleepAgain(t) \/ SpuriousWake(t)
           \/ PassGenerate(t) \/ ClearLoggedIn(t) \/ LeaveCanvases(t)
           \/ ClearUsername(t) /\ UNCHANGED frame
           \/ Disconnect(t) /\ UNCHANGED frame
    PROVE  ThreadsFit'
<1> USE DEF StoreInvariant
<1>1. FrameFits(place[t], frame[t])
  BY DEF ThreadsFit
<1>2. PICK where \in Places :
        /\ FrameFits(where, frame[t])
        /\ frame' = frame
        /\ \/ place' = [place EXCEPT ![t] = where]
           \/ \E hs : place' = [Broadcast(hs) EXCEPT ![t] = where]
  <2> USE <1>1 DEF FrameFits, Places
  <2>1. CASE RequireLogin(t)
    BY <2>1 DEF RequireLogin
  <2>2. CASE SleepAgain(t) \/ SpuriousWake(t)
    BY <2>2 DEF SleepAgain, SpuriousWake
  <2>3. CASE PassGenerate(t)
    BY <2>3 DEF PassGenerate, Passes
  <2>4. CASE ClearLoggedIn(t)
    BY <2>4 DEF ClearLoggedIn
  <2>5. CASE LeaveCanvases(t)
    BY <2>5 DEF LeaveCanvases
  <2>6. CASE ClearUsername(t) /\ UNCHANGED frame
    <3>1. CASE t = MainThread
      BY <2>6, <3>1 DEF ClearUsername
    <3>2. CASE t # MainThread
      BY <2>6, <3>2 DEF ClearUsername, Return, ReturnFrom
    <3> QED  BY <3>1, <3>2
  <2>7. CASE Disconnect(t) /\ UNCHANGED frame
    <3>1. CASE loggedIn[frame[t].client]
      BY <2>7, <3>1 DEF Disconnect
    <3>2. CASE ~loggedIn[frame[t].client]
      BY <2>7, <3>2 DEF Disconnect, Return, ReturnFrom
    <3> QED  BY <3>1, <3>2
  <2> QED  BY <2>1, <2>2, <2>3, <2>4, <2>5, <2>6, <2>7
<1> QED  BY <1>2, WokenFacts, ThreadsMove

LEMMA ThreadsBegin ==
    ASSUME StoreInvariant, UNCHANGED canvases,
           NEW t \in Threads, NEW c \in Clients,
           Begin(t, c) \/ (t = MainThread /\ Close(c))
    PROVE  ThreadsFit'
<1> DEFINE f == [NoFrame EXCEPT !.client = c]
<1>1. /\ f \in Frames
      /\ \A where \in {"started", "leaving", "removing"} :
             where \in Places /\ FrameFits(where, f)
  BY DEF NoFrame, Frames, FrameFits, NoHandle, Names, Places
<1>2. \E where \in {"started", "leaving", "removing"} : GoTo(t, where, f)
  BY DEF Begin, Close
<1> HIDE DEF f
<1> QED  BY <1>1, <1>2, WokenFacts, ThreadsGoOn DEF GoTo, StoreInvariant

\* The steps by which a handler returns.
LEMMA ThreadsEnd ==
    ASSUME StoreInvariant, DOMAIN canvases \subseteq DOMAIN canvases',
           NEW t \in Threads, NEW hs, Return(t) \/ ReturnFrom(t, Broadcast(hs))
    PROVE  ThreadsFit'
BY WokenFacts, ThreadsReturn DEF Return, StoreInvariant

LEMMA ThreadsStep ==
    ASSUME StoreInvariant, [Next]_vars
    PROVE  ThreadsFit'
<1>1. DOMAIN canvases \subseteq DOMAIN canvases'
  BY TablesStep
<1>2. CASE UNCHANGED vars
  BY <1>2 DEF vars, storeVars, StoreInvariant, ThreadsFit, FrameFits
<1>3. CASE RemoveClient
  BY <1>1, <1>3, ThreadsEnd DEF RemoveClient, Threads
<1>4. ASSUME NEW c \in Clients
      PROVE  Close(c) \/ (\E t \in Workers : Begin(t, c)) => ThreadsFit'
  BY ThreadsBegin DEF Begin, Close, storeVars, Threads
<1>5. ASSUME NEW t \in Threads,
             Operate(t) \/ Continue(t) \/ GenerateFrame(t) \/ SpuriousWake(t)
      PROVE  ThreadsFit'
  <2>1. Return(t) => ThreadsFit'
    BY <1>1, ThreadsEnd
  <2>2. CASE Login(t) \/ Refuse(t) \/ PassBarrier(t) \/ PassUsePlacement(t)
    BY <2>1, <2>2 DEF Login, Refuse, PassBarrier, PassUsePlacement
  <2>3. CASE \/ CreateCanvas(t) \/ CreateSprite(t) \/ RecordPlacement(t)
             \/ DestroySprite(t) \/ DestroyPlacement(t) \/ ShareCanvas(t)
             \/ GenerateDone(t)
    BY <2>1, <2>3 DEF CreateCanvas, CreateSprite, RecordPlacement, ShareCanvas,
                      DestroySprite, DestroyPlacement, GenerateDone
  <2>4. CASE DestroyCanvas(t)
    BY <1>1, <2>4, ThreadsEnd DEF DestroyCanvas
  <2>5. CASE Barrier(t) \/ PlaceSprite(t) \/ UsePlacement(t) \/ Generate(t)
    BY <1>1, <2>5, ThreadsLookup
  <2>6. CASE \/ RequireLogin(t) \/ SleepAgain(t) \/ SpuriousWake(t)
             \/ PassGenerate(t) \/ ClearLoggedIn(t) \/ LeaveCanvases(t)
    BY <1>1, <2>6, ThreadsKeepFrame
  <2>7. CASE ClearUsername(t) \/ Disconnect(t)
    <3>1. Return(t) \/ UNCHANGED frame
      BY <2>7 DEF ClearUsername, Disconnect
    <3> QED  BY <1>1, <2>1, <2>7, <3>1, ThreadsKeepFrame
  <2>8. CASE PassPlaceSprite(t)
    <3>1. CASE Return(t)
      BY <2>1, <3>1
    <3>2. CASE ~Return(t)
      <4> DEFINE f == [client |-> frame[t].client, op |-> "place_sprite",
                       user |-> User(t), canvas |-> frame[t].canvas,
                       object |-> frame[t].object]
      <4>1. GoTo(t, "recording", f) /\ place[t] = "awake"
        BY <2>8, <3>2 DEF PassPlaceSprite, Passes, PlaceOn
      <4>2. /\ frame[t].canvas \in DOMAIN canvases
            /\ frame[t].object \in Nat
        BY <4>1 DEF StoreInvariant, ThreadsFit, FrameFits, Frames
      <4>3. "recording" \in Places
        BY DEF Places
      <4>4. f \in Frames /\ FrameFits("recording", f)
        BY <4>1, <4>2, <4>3, FrameWithCanvas
      <4> HIDE DEF f
      <4> QED
        BY <1>1, <4>1, <4>3, <4>4, WokenFacts, ThreadsGoOn
           DEF GoTo, StoreInvariant
    <3> QED  BY <3>1, <3>2
  <2>9. CASE GenerateFrame(t)
    BY <1>1, <2>9
       DEF GenerateFrame, StoreInvariant, ThreadsFit, FrameFits
  <2> QED
    BY <1>5, <2>2, <2>3, <2>4, <2>5, <2>6, <2>7, <2>8, <2>9
       DEF Operate, Continue
<1> QED  BY <1>2, <1>3, <1>4, <1>5 DEF Next

-----------------------------------------------------------------------------
(* Those asleep at a barrier.                                              *)

\* Who still sleeps finds the flags of its canvas no fewer, and who falls asleep
\* has its flag set.
LEMMA SleepersKept ==
    ASSUME StoreInvariant,
           \A s \in Threads : place'[s] = "asleep" =>
               \/ Held(s)'
               \/ /\ place[s] = "asleep" /\ frame'[s] = frame[s]
                  /\ canvases[frame[s].canvas].waiting
                         \subseteq canvases'[frame[s].canvas].waiting
    PROVE  SleepersWait'
BY DEF StoreInvariant, SleepersWait, Held

\* The canvas of a sleeper exists.
LEMMA SleepersCanvas ==
    ASSUME StoreInvariant, NEW s \in Threads, place[s] = "asleep"
    PROVE  frame[s].canvas \in DOMAIN canvases
BY DEF StoreInvariant, ThreadsFit, FrameFits

\* The thread does not fall asleep, and others may have been woken.
NoneFallsAsleep ==
    \A s \in Threads : place'[s] = "asleep" =>
        place[s] = "asleep" /\ frame'[s] = frame[s]

LEMMA AwakeGoesOn ==
    ASSUME ThreadsFit, NEW t \in Threads, NEW at, Woken(at),
           NEW where, where # "asleep", NEW f,
           place' = [at EXCEPT ![t] = where],
           frame' = [frame EXCEPT ![t] = f] \/ UNCHANGED frame
    PROVE  NoneFallsAsleep
BY DEF ThreadsFit, Woken, NoneFallsAsleep

LEMMA QuietSleep ==
    ASSUME StoreInvariant, NEW t \in Threads, StoreQuiet(t), ~SleepAgain(t)
    PROVE  NoneFallsAsleep
<1> USE DEF StoreInvariant
<1>1. Return(t) => NoneFallsAsleep
  BY WokenFacts, AwakeGoesOn DEF Return, ReturnFrom
<1>2. ASSUME NEW where, where # "asleep", NEW f, GoTo(t, where, f)
      PROVE  NoneFallsAsleep
  BY <1>2, WokenFacts, AwakeGoesOn DEF GoTo
<1>3. ASSUME NEW where, where # "asleep",
             place' = [place EXCEPT ![t] = where], UNCHANGED frame
      PROVE  NoneFallsAsleep
  BY <1>3, WokenFacts, AwakeGoesOn
<1>4. CASE \/ Login(t) \/ Refuse(t) \/ PassBarrier(t) \/ PassUsePlacement(t)
           \/ GenerateDone(t)
  BY <1>1, <1>4 DEF Login, Refuse, PassBarrier, PassUsePlacement, GenerateDone
<1>5. CASE \/ RequireLogin(t) \/ SpuriousWake(t) \/ PassGenerate(t)
           \/ ClearLoggedIn(t)
  BY <1>3, <1>5 DEF RequireLogin, SpuriousWake, PassGenerate, ClearLoggedIn
<1>6. CASE Disconnect(t)
  BY <1>1, <1>3, <1>6 DEF Disconnect
<1>7. CASE ClearUsername(t)
  BY <1>1, <1>3, <1>7 DEF ClearUsername
<1>8. CASE PassPlaceSprite(t)
  BY <1>1, <1>2, <1>8 DEF PassPlaceSprite, PlaceOn
<1> QED  BY <1>4, <1>5, <1>6, <1>7, <1>8 DEF StoreQuiet

\* The steps that clear no flag.
LEMMA SleepersUndisturbed ==
    ASSUME StoreInvariant, NoneFallsAsleep,
           \A h \in DOMAIN canvases :
               canvases[h].waiting \subseteq canvases'[h].waiting
    PROVE  SleepersWait'
BY SleepersKept, SleepersCanvas DEF NoneFallsAsleep

\* A canvas looked up for the user gets it connected, and nobody's flag changes.
LEMMA JoinedFlags ==
    ASSUME StoreInvariant, NEW t \in Threads, place[t] # "idle",
           NEW h \in DOMAIN canvases, Finds(h, User(t)),
           canvases' = [canvases EXCEPT ![h] = Joined(h, User(t))]
    PROVE  \A g \in DOMAIN canvases :
               /\ canvases'[g].waiting = canvases[g].waiting
               /\ canvases[g].connected \subseteq canvases'[g].connected
BY JoinedSound, UserTyped DEF StoreInvariant, TablesSound

\* So no operation that looks a canvas up changes a flag or disconnects a user.
LEMMA LookupFlags ==
    ASSUME StoreInvariant, NEW t \in Threads,
           \/ ShareCanvas(t) \/ PlaceSprite(t) \/ UsePlacement(t)
           \/ Generate(t) \/ GenerateFrame(t)
    PROVE  \A g \in DOMAIN canvases :
               /\ canvases'[g].waiting = canvases[g].waiting
               /\ canvases[g].connected \subseteq canvases'[g].connected
<1> USE DEF StoreInvariant
<1>1. place[t] # "idle"
  BY DEF ShareCanvas, PlaceSprite, UsePlacement, Generate, GenerateFrame, Runs
<1>2. CASE ShareCanvas(t)
  <2>1. PICK h \in DOMAIN canvases, v \in Users :
          /\ Finds(h, User(t))
          /\ canvases' = [canvases EXCEPT ![h] =
                 [Joined(h, User(t)) EXCEPT !.users = @ \cup {v}]]
    BY <1>2 DEF ShareCanvas
  <2> DEFINE joined == Joined(h, User(t))
  <2>2. /\ joined \in SoundRecords
        /\ joined.waiting = canvases[h].waiting
        /\ canvases[h].connected \subseteq joined.connected
    BY <1>1, <2>1, JoinedSound, UserTyped
  <2> HIDE DEF joined
  <2>3. /\ [joined EXCEPT !.users = @ \cup {v}].waiting = joined.waiting
        /\ [joined EXCEPT !.users = @ \cup {v}].connected = joined.connected
    BY <2>2 DEF SoundRecords, CanvasRecords
  <2> QED  BY <2>1, <2>2, <2>3 DEF joined, TablesSound
<1>3. CASE PlaceSprite(t)
  BY <1>1, <1>3, JoinedFlags DEF PlaceSprite
<1>4. CASE UsePlacement(t)
  <2>1. PICK p \in DOMAIN placements :
          LET h == placements[p].canvas IN
          IF Finds(h, User(t))
          THEN canvases' = [canvases EXCEPT ![h] = Joined(h, User(t))]
          ELSE UNCHANGED canvases
    BY <1>4 DEF UsePlacement
  <2>2. placements[p].canvas \in DOMAIN canvases
    BY DEF TablesSound
  <2> QED  BY <1>1, <2>1, <2>2, JoinedFlags
<1>5. CASE Generate(t)
  BY <1>1, <1>5, JoinedFlags DEF Generate
<1>6. CASE GenerateFrame(t)
  BY <1>1, <1>6, JoinedFlags DEF GenerateFrame, ThreadsFit, FrameFits
<1> QED  BY <1>2, <1>3, <1>4, <1>5, <1>6

\* Who falls asleep has its flag set, and no flag is cleared.
LEMMA FallsAsleep ==
    ASSUME StoreInvariant, NEW t \in Threads, NEW op, NEW object,
           NEW h \in DOMAIN canvases, Wait(t, op, h, object),
           User(t) \in canvases'[h].waiting,
           \A g \in DOMAIN canvases :
               canvases[g].waiting \subseteq canvases'[g].waiting
    PROVE  SleepersWait'
<1>1. \A s \in Threads \ {t} :
          place'[s] = place[s] /\ frame'[s] = frame[s]
  BY DEF Wait, GoTo, StoreInvariant, ThreadsFit
<1>2. frame'[t].user = User(t) /\ frame'[t].canvas = h
  BY DEF Wait, GoTo, StoreInvariant, ThreadsFit
<1>3. Held(t)'
  BY <1>2 DEF Held
<1> QED  BY <1>1, <1>3, SleepersKept, SleepersCanvas

LEMMA SleepersLookup ==
    ASSUME StoreInvariant, NEW t \in Threads,
           \/ ShareCanvas(t) \/ PlaceSprite(t) \/ UsePlacement(t)
           \/ Generate(t) \/ GenerateFrame(t)
    PROVE  SleepersWait'
<1> USE DEF StoreInvariant
<1>1. \A g \in DOMAIN canvases : canvases'[g].waiting = canvases[g].waiting
  BY LookupFlags
<1>2. ASSUME NEW h \in DOMAIN canvases, NEW op, NEW object,
             User(t) \in canvases[h].waiting, Wait(t, op, h, object)
      PROVE  SleepersWait'
  BY <1>1, <1>2, FallsAsleep
<1>3. CASE NoneFallsAsleep
  BY <1>1, <1>3, SleepersUndisturbed
<1>4. Return(t) => NoneFallsAsleep
  BY WokenFacts, AwakeGoesOn DEF Return, ReturnFrom
<1>5. ASSUME NEW where, where # "asleep", NEW f, GoTo(t, where, f)
      PROVE  NoneFallsAsleep
  BY <1>5, WokenFacts, AwakeGoesOn DEF GoTo
<1>6. CASE ShareCanvas(t)
  BY <1>3, <1>4, <1>6 DEF ShareCanvas
<1>7. CASE PlaceSprite(t)
  BY <1>2, <1>3, <1>4, <1>5, <1>7 DEF PlaceSprite, PlaceOn
<1>8. CASE UsePlacement(t)
  <2>1. \A p \in DOMAIN placements : placements[p].canvas \in DOMAIN canvases
    BY DEF TablesSound
  <2> QED  BY <1>2, <1>3, <1>4, <1>8, <2>1 DEF UsePlacement
<1>9. CASE Generate(t)
  BY <1>2, <1>3, <1>5, <1>9 DEF Generate
<1>10. CASE GenerateFrame(t)
  BY <1>3, <1>10 DEF GenerateFrame, NoneFallsAsleep
<1> QED  BY <1>6, <1>7, <1>8, <1>9, <1>10

\* The last to arrive clears every flag and wakes who sleeps at the canvas; who
\* comes earlier sets its own and sleeps.
LEMMA SleepersBarrier ==
    ASSUME StoreInvariant, NEW t \in Threads, Barrier(t)
    PROVE  SleepersWait'
<1> USE DEF StoreInvariant
<1>1. PICK h \in DOMAIN canvases :
        LET arrived == [Joined(h, User(t)) EXCEPT !.waiting = @ \cup {User(t)}]
        IN  /\ Finds(h, User(t))
            /\ \/ /\ canvases' = [canvases EXCEPT ![h] =
                                     [arrived EXCEPT !.waiting = {}]]
                  /\ ReturnFrom(t, Broadcast({h}))
               \/ /\ canvases' = [canvases EXCEPT ![h] = arrived]
                  /\ Wait(t, "barrier", h, NoHandle)
  BY DEF Barrier
<1> DEFINE joined  == Joined(h, User(t))
           arrived == [joined EXCEPT !.waiting = @ \cup {User(t)}]
<1>2. /\ joined \in SoundRecords
      /\ joined.waiting = canvases[h].waiting
  BY <1>1, JoinedSound, UserTyped DEF Barrier, Runs
<1>3. CASE canvases' = [canvases EXCEPT ![h] = arrived]
           /\ Wait(t, "barrier", h, NoHandle)
  <2> HIDE DEF joined
  <2>1. arrived.waiting = canvases[h].waiting \cup {User(t)}
    BY <1>2 DEF SoundRecords, CanvasRecords
  <2> HIDE DEF arrived
  <2>2. canvases'[h] = arrived /\ \A g \in DOMAIN canvases \ {h} : canvases'[g] = canvases[g]
    BY <1>3 DEF TablesSound
  <2> QED  BY <1>3, <2>1, <2>2, FallsAsleep
<1>4. CASE canvases' = [canvases EXCEPT ![h] = [arrived EXCEPT !.waiting = {}]]
           /\ ReturnFrom(t, Broadcast({h}))
  <2>1. \A g \in DOMAIN canvases \ {h} : canvases'[g] = canvases[g]
    BY <1>4 DEF TablesSound
  <2>2. \A s \in Threads : place'[s] = "asleep" =>
            /\ place[s] = "asleep" /\ frame'[s] = frame[s]
            /\ frame[s].canvas # h
    BY <1>4 DEF ReturnFrom, Broadcast, ThreadsFit
  <2> QED  BY <2>1, <2>2, SleepersKept, SleepersCanvas
<1> QED  BY <1>1, <1>3, <1>4

\* The departure of a user clears its flag, and wakes who sleeps at the canvas.
LEMMA SleepersLeave ==
    ASSUME StoreInvariant, NEW t \in Threads,
           DestroyCanvas(t) \/ LeaveCanvases(t)
    PROVE  SleepersWait'
<1> USE DEF StoreInvariant
<1>1. PICK hs :
        /\ \A g \in DOMAIN canvases : g \notin hs => canvases'[g] = canvases[g]
        /\ \A s \in Threads : place'[s] = "asleep" =>
               /\ place[s] = "asleep" /\ frame'[s] = frame[s]
               /\ frame[s].canvas \notin hs
  <2>1. CASE DestroyCanvas(t)
    <3>1. PICK h \in DOMAIN canvases :
            /\ \A g \in DOMAIN canvases \ {h} : canvases'[g] = canvases[g]
            /\ ReturnFrom(t, Broadcast({h}))
      BY <2>1 DEF DestroyCanvas, TablesSound
    <3>2. \A s \in Threads : place'[s] = "asleep" =>
              /\ place[s] = "asleep" /\ frame'[s] = frame[s]
              /\ frame[s].canvas \notin {h}
      BY <3>1 DEF ReturnFrom, Broadcast, ThreadsFit
    <3>3. \A g \in DOMAIN canvases : g \notin {h} => canvases'[g] = canvases[g]
      BY <3>1
    <3> QED  BY <3>2, <3>3
  <2>2. CASE LeaveCanvases(t)
    <3> DEFINE left == IF User(t) = Anonymous THEN {}
                       ELSE {h \in DOMAIN canvases : User(t) \in canvases[h].users}
    <3>1. \A g \in DOMAIN canvases : g \notin left => canvases'[g] = canvases[g]
      BY <2>2 DEF LeaveCanvases
    <3>2. place' = [Broadcast(left) EXCEPT ![t] = "clearing"] /\ frame' = frame
      BY <2>2 DEF LeaveCanvases
    <3> HIDE DEF left
    <3>3. \A s \in Threads : place'[s] = "asleep" =>
              /\ place[s] = "asleep" /\ frame'[s] = frame[s]
              /\ frame[s].canvas \notin left
      BY <3>2 DEF Broadcast, ThreadsFit
    <3> QED  BY <3>1, <3>3
  <2> QED  BY <2>1, <2>2
<1> QED  BY <1>1, SleepersKept, SleepersCanvas

\* The canvases that a handler neither looks up nor leaves stay as they are.
LEMMA QuietCanvases ==
    ASSUME NEW t, StoreQuiet(t)
    PROVE  UNCHANGED canvases
BY DEF StoreQuiet, Login, RequireLogin, Disconnect, Refuse, SleepAgain,
       PassBarrier, PassPlaceSprite, PassUsePlacement, PassGenerate,
       GenerateDone, ClearLoggedIn, ClearUsername, SpuriousWake, storeVars

LEMMA CanvasesUntouched ==
    ASSUME StoreInvariant, NEW t \in Threads,
           \/ CreateCanvas(t) \/ CreateSprite(t) \/ RecordPlacement(t)
           \/ DestroySprite(t) \/ DestroyPlacement(t)
    PROVE  \A h \in DOMAIN canvases : canvases'[h] = canvases[h]
<1>1. CASE CreateCanvas(t)
  <2>1. nextId \notin DOMAIN canvases
    BY DEF StoreInvariant, TablesSound
  <2> QED  BY <1>1, <2>1 DEF CreateCanvas, Insert
<1>2. CASE ~CreateCanvas(t)
  BY <1>2 DEF CreateSprite, RecordPlacement, DestroySprite, DestroyPlacement
<1> QED  BY <1>1, <1>2

LEMMA SleepersStep ==
    ASSUME StoreInvariant, [Next]_vars
    PROVE  SleepersWait'
<1> USE DEF StoreInvariant
<1>1. Return(MainThread) => NoneFallsAsleep
  BY WokenFacts, AwakeGoesOn DEF Return, ReturnFrom, Threads
<1>2. UNCHANGED canvases /\ NoneFallsAsleep => SleepersWait'
  BY SleepersUndisturbed
<1>3. CASE UNCHANGED vars
  BY <1>2, <1>3 DEF vars, storeVars, NoneFallsAsleep
<1>4. CASE RemoveClient
  BY <1>1, <1>2, <1>4 DEF RemoveClient, storeVars
<1>5. ASSUME NEW c \in Clients
      PROVE  Close(c) \/ (\E t \in Workers : Begin(t, c)) => SleepersWait'
  <2>1. ASSUME NEW t \in Threads, NEW where, where # "asleep", NEW f,
               GoTo(t, where, f)
        PROVE  NoneFallsAsleep
    BY <2>1, WokenFacts, AwakeGoesOn DEF GoTo
  <2> QED  BY <1>2, <2>1 DEF Begin, Close, storeVars, Threads
<1>6. ASSUME NEW t \in Threads,
             Operate(t) \/ Continue(t) \/ GenerateFrame(t) \/ SpuriousWake(t)
      PROVE  SleepersWait'
  <2>1. CASE StoreQuiet(t) /\ ~SleepAgain(t)
    BY <1>2, <2>1, QuietSleep, QuietCanvases
  <2>2. CASE SleepAgain(t)
    <3>1. Held(t)' /\ UNCHANGED <<canvases, frame>>
      BY <2>2 DEF SleepAgain, Held, storeVars
    <3>2. \A s \in Threads : s # t => place'[s] = place[s]
      BY <2>2 DEF SleepAgain, ThreadsFit
    <3> QED  BY <3>1, <3>2, SleepersKept
  <2>3. CASE \/ CreateCanvas(t) \/ CreateSprite(t) \/ RecordPlacement(t)
             \/ DestroySprite(t) \/ DestroyPlacement(t)
    <3>1. Return(t)
      BY <2>3 DEF CreateCanvas, CreateSprite, RecordPlacement, DestroySprite,
                  DestroyPlacement
    <3>2. NoneFallsAsleep
      BY <3>1, WokenFacts, AwakeGoesOn DEF Return, ReturnFrom
    <3>3. \A h \in DOMAIN canvases : canvases'[h] = canvases[h]
      BY <2>3, CanvasesUntouched
    <3> QED  BY <3>2, <3>3, SleepersUndisturbed
  <2>4. CASE \/ ShareCanvas(t) \/ PlaceSprite(t) \/ UsePlacement(t)
             \/ Generate(t) \/ GenerateFrame(t)
    BY <2>4, SleepersLookup
  <2>5. CASE Barrier(t) \/ DestroyCanvas(t) \/ LeaveCanvases(t)
    BY <2>5, SleepersBarrier, SleepersLeave
  <2> QED
    BY <1>6, <2>1, <2>2, <2>3, <2>4, <2>5 DEF Operate, Continue, StoreQuiet
<1> QED  BY <1>3, <1>4, <1>5, <1>6 DEF Next

-----------------------------------------------------------------------------
(* The theorems.                                                           *)

LEMMA StoreInit == Init => StoreInvariant
<1> SUFFICES ASSUME Init PROVE StoreInvariant
  OBVIOUS
<1>1. TablesSound
  BY DEF Init, TablesSound
<1>2. SessionsTyped
  BY DEF Init, SessionsTyped, Names
<1>3. ThreadsFit
  BY DEF Init, ThreadsFit, FrameFits, NoFrame, Frames, NoHandle, Names, Places
<1>4. SleepersWait
  BY DEF Init, SleepersWait
<1> QED  BY <1>1, <1>2, <1>3, <1>4 DEF StoreInvariant

LEMMA StoreAlways == Spec => []StoreInvariant
<1>1. StoreInvariant /\ [Next]_vars => StoreInvariant'
  BY TablesStep, SessionsStep, ThreadsStep, SleepersStep DEF StoreInvariant
<1> QED  BY <1>1, StoreInit, PTL DEF Spec

\* Every variable of the store keeps its type, and the records of the three
\* tables have distinct handles, taken one by one from next_id (handles.c).
THEOREM StoreTypeTheorem == Spec => []TypeOK
<1>1. StoreInvariant => TypeOK
  BY DEF StoreInvariant, TablesSound, SessionsTyped, ThreadsFit, Frames,
         SoundRecords, TypeOK
<1> QED  BY <1>1, StoreAlways, PTL

\* Whatever users share, leave, return, destroy and wait, who waits at a canvas
\* is connected to it, who is connected is one of its users, and a canvas is
\* destroyed exactly when it is marked deleted and nobody is connected to it
\* (handles.c, maybe_destroy_canvas and its callers).
THEOREM CanvasesTheorem == Spec => []CanvasesSound
<1>1. StoreInvariant => CanvasesSound
  BY DEF StoreInvariant, TablesSound, SoundRecords, RecordSound, CanvasesSound
<1> QED  BY <1>1, StoreAlways, PTL

\* No thread sleeps through its release: every step that clears a flag wakes
\* all who sleep at its canvas (handles.c, the broadcasts on barrier_cond), and
\* nobody goes to sleep with its flag clear.
THEOREM SleepersTheorem == Spec => []SleepersHeld
<1>1. ASSUME StoreInvariant, NEW t \in Threads, place[t] = "asleep"
      PROVE  Held(t) /\ canvases[frame[t].canvas].live
  <2>1. Held(t) /\ frame[t].canvas \in DOMAIN canvases
    BY <1>1 DEF StoreInvariant, SleepersWait, ThreadsFit, FrameFits
  <2>2. RecordSound(canvases[frame[t].canvas])
    BY <1>1, <2>1 DEF StoreInvariant, TablesSound, SoundRecords
  <2>3. canvases[frame[t].canvas] \in CanvasRecords
    BY <1>1, <2>1 DEF StoreInvariant, TablesSound, SoundRecords
  <2> QED  BY <2>1, <2>2, <2>3 DEF Held, RecordSound, CanvasRecords
<1>2. StoreInvariant => SleepersHeld
  BY <1>1 DEF SleepersHeld
<1> QED  BY <1>2, StoreAlways, PTL

=============================================================================
