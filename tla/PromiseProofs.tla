--------------------------- MODULE PromiseProofs ----------------------------
(***************************************************************************)
(* The proof of the barrier's promise, BarrierPromise, and of who holds a  *)
(* barrier, for every set of users, clients and workers.                   *)
(***************************************************************************)
EXTENDS BarrierPromise, StoreProofs

\* The main thread runs no request: it closes clients.
MainCloses ==
    place[MainThread]
        \in {"idle", "leaving", "clearing", "forgetting", "removing"}

\* A waiting thread is owed only arrivals still to come, and nothing any more
\* once it has been let through.
OwedSound ==
    \A t \in Threads : Waits(t) =>
        LET r == canvases[frame[t].canvas]
        IN  /\ owed[t] \subseteq r.connected \ r.waiting
            /\ ~Held(t) => owed[t] = {}

-----------------------------------------------------------------------------
(* The threads.                                                            *)

\* Who waits on has been waiting with the same frame, or has just gone to sleep.
WaitersStay ==
    \A s \in Threads : Waits(s)' =>
        IF Waits(s) THEN frame'[s] = frame[s] ELSE place'[s] = "asleep"

LEMMA OneThreadMoves ==
    ASSUME ThreadsFit, MainCloses,
           NEW t \in Threads, NEW at, Woken(at), NEW where, NEW f,
           place' = [at EXCEPT ![t] = where],
           frame' = [frame EXCEPT ![t] = f] \/ UNCHANGED frame,
           where \in {"asleep", "awake"} =>
               IF Waits(t) THEN UNCHANGED frame ELSE where = "asleep",
           t = MainThread =>
               where \in {"idle", "leaving", "clearing", "forgetting", "removing"}
    PROVE  WaitersStay /\ MainCloses'
<1>1. ASSUME NEW s \in Threads, Waits(s)'
      PROVE  IF Waits(s) THEN frame'[s] = frame[s] ELSE place'[s] = "asleep"
  <2>1. CASE s = t
    BY <1>1, <2>1 DEF ThreadsFit, Woken, Waits
  <2>2. CASE s # t
    BY <1>1, <2>2 DEF ThreadsFit, Woken, Waits
  <2> QED  BY <2>1, <2>2
<1>2. MainCloses'
  BY DEF MainCloses, ThreadsFit, Woken, Threads
<1> QED  BY <1>1, <1>2 DEF WaitersStay

LEMMA ReturnMoves ==
    ASSUME ThreadsFit, MainCloses, NEW t \in Threads, NEW at, Woken(at),
           ReturnFrom(t, at)
    PROVE  WaitersStay /\ MainCloses'
BY OneThreadMoves DEF ReturnFrom

LEMMA GoToMoves ==
    ASSUME ThreadsFit, MainCloses, NEW t \in Threads, NEW where, NEW f,
           GoTo(t, where, f), where # "awake", ~Waits(t),
           t = MainThread => where \in {"leaving", "removing"}
    PROVE  WaitersStay /\ MainCloses'
BY OneThreadMoves, WokenFacts DEF GoTo

\* The requests are run by workers.
LEMMA OperateMoves ==
    ASSUME StoreInvariant, MainCloses, NEW t \in Threads, Operate(t)
    PROVE  WaitersStay /\ MainCloses'
<1> USE DEF StoreInvariant
<1>1. place[t] \in {"started", "locking"} /\ t # MainThread /\ ~Waits(t)
  BY DEF Operate, Login, RequireLogin, Disconnect, Refuse, CreateCanvas,
         CreateSprite, DestroyCanvas, DestroySprite, DestroyPlacement,
         ShareCanvas, Barrier, PlaceSprite, UsePlacement, Generate, Runs,
         MainCloses, Waits
<1>2. ASSUME NEW hs, Return(t) \/ ReturnFrom(t, Broadcast(hs))
      PROVE  WaitersStay /\ MainCloses'
  BY <1>2, ReturnMoves, WokenFacts DEF Return
<1>3. ASSUME NEW where, where # "awake", NEW f, GoTo(t, where, f)
      PROVE  WaitersStay /\ MainCloses'
  BY <1>1, <1>3, GoToMoves
<1>4. ASSUME NEW where, where # "awake", UNCHANGED frame,
             place' = [place EXCEPT ![t] = where]
      PROVE  WaitersStay /\ MainCloses'
  BY <1>1, <1>4, OneThreadMoves, WokenFacts
<1>5. CASE Login(t) \/ RequireLogin(t) \/ Disconnect(t) \/ Refuse(t)
  BY <1>2, <1>4, <1>5 DEF Login, RequireLogin, Disconnect, Refuse
<1>6. CASE \/ CreateCanvas(t) \/ CreateSprite(t) \/ DestroyCanvas(t)
           \/ DestroySprite(t) \/ DestroyPlacement(t) \/ ShareCanvas(t)
  BY <1>2, <1>6 DEF CreateCanvas, CreateSprite, DestroyCanvas, DestroySprite,
                    DestroyPlacement, ShareCanvas
<1>7. CASE Barrier(t) \/ UsePlacement(t) \/ Generate(t)
  BY <1>2, <1>3, <1>7 DEF Barrier, UsePlacement, Generate, Wait
<1>8. CASE PlaceSprite(t)
  BY <1>2, <1>3, <1>8 DEF PlaceSprite, PlaceOn, Wait
<1> QED  BY <1>5, <1>6, <1>7, <1>8 DEF Operate

LEMMA ContinueMoves ==
    ASSUME StoreInvariant, MainCloses, NEW t \in Threads,
           Continue(t) \/ GenerateFrame(t) \/ SpuriousWake(t)
    PROVE  WaitersStay /\ MainCloses'
<1> USE DEF StoreInvariant
<1>1. Return(t) => WaitersStay /\ MainCloses'
  BY ReturnMoves, WokenFacts DEF Return
<1>2. ASSUME NEW at, Woken(at), NEW where, UNCHANGED frame,
             place' = [at EXCEPT ![t] = where],
             where = "asleep" => Waits(t),
             where = "awake" => Waits(t),
             \/ t # MainThread
             \/ where \in {"idle", "leaving", "clearing", "forgetting",
                           "removing"}
      PROVE  WaitersStay /\ MainCloses'
  BY <1>2, OneThreadMoves
<1>3. CASE PassBarrier(t) \/ PassUsePlacement(t) \/ RecordPlacement(t)
           \/ GenerateDone(t)
  BY <1>1, <1>3 DEF PassBarrier, PassUsePlacement, RecordPlacement, GenerateDone
<1>4. CASE SleepAgain(t) \/ SpuriousWake(t)
  BY <1>2, <1>4, WokenFacts DEF SleepAgain, SpuriousWake, Waits, MainCloses
<1>5. CASE PassPlaceSprite(t)
  <2>1. CASE Return(t)
    BY <1>1, <2>1
  <2>2. CASE ~Return(t)
    BY <1>5, <2>2, OneThreadMoves, WokenFacts
       DEF PassPlaceSprite, Passes, PlaceOn, GoTo, MainCloses
  <2> QED  BY <2>1, <2>2
<1>6. CASE PassGenerate(t)
  BY <1>2, <1>6, WokenFacts DEF PassGenerate, Passes, MainCloses
<1>7. CASE LeaveCanvases(t)
  BY <1>2, <1>7, WokenFacts DEF LeaveCanvases
<1>8. CASE ClearLoggedIn(t)
  BY <1>2, <1>8, WokenFacts DEF ClearLoggedIn
<1>9. CASE ClearUsername(t)
  BY <1>1, <1>2, <1>9, WokenFacts DEF ClearUsername
<1>10. CASE GenerateFrame(t)
  BY <1>10 DEF GenerateFrame, WaitersStay, MainCloses, Waits
<1> QED
  BY <1>3, <1>4, <1>5, <1>6, <1>7, <1>8, <1>9, <1>10 DEF Continue

LEMMA ThreadsMoveOn ==
    ASSUME StoreInvariant, MainCloses, [Next]_vars
    PROVE  WaitersStay /\ MainCloses'
<1> USE DEF StoreInvariant
<1>1. CASE UNCHANGED vars
  BY <1>1 DEF vars, WaitersStay, MainCloses, Waits
<1>2. CASE RemoveClient
  BY <1>2, ReturnMoves, WokenFacts DEF RemoveClient, Return, Threads
<1>3. ASSUME NEW t \in Workers, NEW c \in Clients, Begin(t, c)
      PROVE  WaitersStay /\ MainCloses'
  BY <1>3, GoToMoves, ThreadsAssumption DEF Begin, Waits, Threads
<1>4. ASSUME NEW c \in Clients, Close(c)
      PROVE  WaitersStay /\ MainCloses'
  BY <1>4, GoToMoves DEF Close, Waits, Threads
<1> QED  BY <1>1, <1>2, <1>3, <1>4, OperateMoves, ContinueMoves DEF Next

-----------------------------------------------------------------------------
(* The flags.                                                              *)

\* Whose flag gets set at canvas h arrives there; and when the flag of a user
\* who stays connected is cleared, all who were still to come arrive.
FlagsMove(h) ==
    /\ \A v \in canvases'[h].waiting \ canvases[h].waiting : Arrives(v, h)
    /\ \A u \in canvases[h].waiting \ canvases'[h].waiting :
           \/ u \notin canvases'[h].connected
           \/ \A v \in canvases[h].connected \ canvases[h].waiting : Arrives(v, h)

LEMMA BarrierFlags ==
    ASSUME StoreInvariant, MainCloses, NEW t \in Threads, Barrier(t),
           NEW g \in DOMAIN canvases
    PROVE  FlagsMove(g)
<1> USE DEF StoreInvariant
<1>1. place[t] = "locking" /\ t \in Workers
  BY DEF Barrier, Runs, MainCloses, Threads
<1>2. PICK h \in DOMAIN canvases :
        LET arrived == [Joined(h, User(t)) EXCEPT !.waiting = @ \cup {User(t)}]
        IN  /\ Finds(h, User(t))
            /\ \/ /\ Complete(arrived)
                  /\ canvases' = [canvases EXCEPT ![h] =
                                     [arrived EXCEPT !.waiting = {}]]
                  /\ ReturnFrom(t, Broadcast({h}))
               \/ /\ canvases' = [canvases EXCEPT ![h] = arrived]
                  /\ Wait(t, "barrier", h, NoHandle)
  BY DEF Barrier
<1> DEFINE joined  == Joined(h, User(t))
           arrived == [joined EXCEPT !.waiting = @ \cup {User(t)}]
<1>3. /\ joined \in SoundRecords
      /\ joined.waiting = canvases[h].waiting
      /\ joined.connected = canvases[h].connected \cup {User(t)}
  BY <1>1, <1>2, JoinedSound, UserTyped
<1> HIDE DEF joined
<1>4. /\ arrived \in CanvasRecords
      /\ arrived.waiting = canvases[h].waiting \cup {User(t)}
      /\ arrived.connected = canvases[h].connected \cup {User(t)}
  BY <1>1, <1>3, UserTyped DEF SoundRecords, CanvasRecords, RecordSound
<1> HIDE DEF arrived
<1>5. CASE canvases' = [canvases EXCEPT ![h] = arrived]
           /\ Wait(t, "barrier", h, NoHandle)
  <2>1. /\ canvases'[h] = arrived
        /\ \A k \in DOMAIN canvases \ {h} : canvases'[k] = canvases[k]
    BY <1>5 DEF TablesSound
  <2>2. /\ place'[t] = "asleep" /\ frame'[t].op = "barrier"
        /\ frame'[t].canvas = h
    BY <1>5 DEF Wait, GoTo, ThreadsFit
  <2>3. User(t) \notin canvases[h].waiting => canvases' # canvases
    BY <1>4, <2>1
  <2> QED  BY <1>1, <1>4, <2>1, <2>2, <2>3 DEF FlagsMove, Arrives
<1>6. CASE /\ Complete(arrived)
           /\ canvases' = [canvases EXCEPT ![h] = [arrived EXCEPT !.waiting = {}]]
           /\ ReturnFrom(t, Broadcast({h}))
  <2>1. /\ canvases'[h].waiting = {}
        /\ canvases'[h].connected = canvases[h].connected \cup {User(t)}
        /\ \A k \in DOMAIN canvases \ {h} : canvases'[k] = canvases[k]
    BY <1>4, <1>6 DEF TablesSound, CanvasRecords
  <2>2. place'[t] = "idle"
    BY <1>6, WokenFacts DEF ReturnFrom, Woken
  <2>3. \A v \in canvases[h].connected \ canvases[h].waiting : v = User(t)
    BY <1>4, <1>6 DEF Complete
  <2>4. canvases[h].waiting # {} => Arrives(User(t), h)
    BY <1>1, <2>1, <2>2 DEF Arrives
  <2> QED  BY <2>1, <2>3, <2>4 DEF FlagsMove
<1> QED  BY <1>2, <1>5, <1>6 DEF arrived, joined

\* Who leaves a canvas is the only one whose flag is cleared.
LEMMA LeaveFlags ==
    ASSUME StoreInvariant, NEW t \in Threads,
           DestroyCanvas(t) \/ LeaveCanvases(t), NEW g \in DOMAIN canvases
    PROVE  FlagsMove(g)
<1> USE DEF StoreInvariant
<1>1. ASSUME NEW r \in SoundRecords, NEW u
      PROVE  LET left == Departed(r, u)
                 marked == [left EXCEPT !.deleted = left.connected = {}]
             IN \A s \in {left, marked} :
                  /\ MaybeDestroyed(s).waiting = r.waiting \ {u}
                  /\ MaybeDestroyed(s).connected = r.connected \ {u}
  <2> DEFINE left   == Departed(r, u)
             marked == [left EXCEPT !.deleted = left.connected = {}]
  <2>1. /\ left \in CanvasRecords
        /\ left.waiting = r.waiting \ {u} /\ left.connected = r.connected \ {u}
    BY DEF Departed, SoundRecords, CanvasRecords
  <2> HIDE DEF left
  <2>2. /\ marked \in CanvasRecords
        /\ marked.waiting = left.waiting /\ marked.connected = left.connected
    BY <2>1 DEF CanvasRecords
  <2> HIDE DEF marked
  <2>3. \A s \in CanvasRecords :
          /\ MaybeDestroyed(s).waiting = s.waiting
          /\ MaybeDestroyed(s).connected = s.connected
    BY DEF MaybeDestroyed, CanvasRecords
  <2> QED  BY <2>1, <2>2, <2>3 DEF left, marked
<1>2. PICK u : \/ canvases'[g] = canvases[g]
               \/ /\ canvases'[g].waiting = canvases[g].waiting \ {u}
                  /\ canvases'[g].connected \subseteq
                         (canvases[g].connected \cup {u}) \ {u}
  <2>1. CASE DestroyCanvas(t)
    <3>1. PICK h \in DOMAIN canvases :
            /\ Finds(h, User(t))
            /\ LET left == Departed(Joined(h, User(t)), User(t)) IN
               canvases' = [canvases EXCEPT ![h] =
                   MaybeDestroyed([left EXCEPT !.deleted = left.connected = {}])]
      BY <2>1 DEF DestroyCanvas
    <3>2. /\ Joined(h, User(t)) \in SoundRecords
          /\ Joined(h, User(t)).waiting = canvases[h].waiting
          /\ Joined(h, User(t)).connected = canvases[h].connected \cup {User(t)}
      BY <2>1, <3>1, JoinedSound, UserTyped DEF DestroyCanvas, Runs
    <3>3. /\ canvases'[h].waiting = canvases[h].waiting \ {User(t)}
          /\ canvases'[h].connected
                 = (canvases[h].connected \cup {User(t)}) \ {User(t)}
      BY <1>1, <3>1, <3>2 DEF TablesSound
    <3>4. g # h => canvases'[g] = canvases[g]
      BY <3>1 DEF TablesSound
    <3> QED  BY <3>3, <3>4
  <2>2. CASE LeaveCanvases(t)
    <3>1. \/ canvases'[g] = canvases[g]
          \/ canvases'[g] = MaybeDestroyed(Departed(canvases[g], User(t)))
      BY <2>2 DEF LeaveCanvases
    <3>2. canvases[g] \in SoundRecords
      BY DEF TablesSound
    <3> QED  BY <1>1, <3>1, <3>2
  <2> QED  BY <2>1, <2>2
<1> QED  BY <1>2 DEF FlagsMove

LEMMA FlagsStep ==
    ASSUME StoreInvariant, MainCloses, [Next]_vars, NEW h \in DOMAIN canvases
    PROVE  FlagsMove(h)
<1>1. canvases'[h].waiting = canvases[h].waiting => FlagsMove(h)
  BY DEF FlagsMove
<1>2. ASSUME NEW t \in Threads,
             Operate(t) \/ Continue(t) \/ GenerateFrame(t) \/ SpuriousWake(t)
      PROVE  FlagsMove(h)
  <2>1. CASE StoreQuiet(t)
    BY <1>1, <2>1, QuietCanvases
  <2>2. CASE \/ CreateCanvas(t) \/ CreateSprite(t) \/ RecordPlacement(t)
             \/ DestroySprite(t) \/ DestroyPlacement(t)
    BY <1>1, <2>2, CanvasesUntouched
  <2>3. CASE \/ ShareCanvas(t) \/ PlaceSprite(t) \/ UsePlacement(t)
             \/ Generate(t) \/ GenerateFrame(t)
    BY <1>1, <2>3, LookupFlags
  <2>4. CASE Barrier(t) \/ DestroyCanvas(t) \/ LeaveCanvases(t)
    BY <2>4, BarrierFlags, LeaveFlags
  <2> QED
    BY <1>2, <2>1, <2>2, <2>3, <2>4 DEF Operate, Continue, StoreQuiet
<1>3. CASE UNCHANGED vars \/ RemoveClient
           \/ \E c \in Clients : Close(c) \/ \E t \in Workers : Begin(t, c)
  BY <1>1, <1>3 DEF vars, storeVars, RemoveClient, Close, Begin
<1> QED  BY <1>2, <1>3 DEF Next

-----------------------------------------------------------------------------
(* The promise.                                                            *)

LEMMA OwedStep ==
    ASSUME StoreInvariant, StoreInvariant', MainCloses, OwedSound, [Next]_vars,
           CountOwed
    PROVE  OwedSound'
<1> SUFFICES ASSUME NEW s \in Threads, Waits(s)'
             PROVE  LET r == canvases'[frame'[s].canvas]
                    IN  /\ owed'[s] \subseteq r.connected \ r.waiting
                        /\ ~Held(s)' => owed'[s] = {}
  BY DEF OwedSound
<1> DEFINE h == frame'[s].canvas
           u == frame'[s].user
<1>1. CASE u \notin canvases'[h].connected
  BY <1>1 DEF CountOwed
<1>2. CASE u \in canvases'[h].connected /\ ~Waits(s)
  <2>1. Held(s)'
    BY <1>2, ThreadsMoveOn DEF WaitersStay, StoreInvariant, SleepersWait
  <2> QED  BY <1>2, <2>1 DEF CountOwed
<1>3. CASE u \in canvases'[h].connected /\ Waits(s)
  <2>1. frame'[s] = frame[s] /\ h \in DOMAIN canvases
    BY <1>3, ThreadsMoveOn DEF WaitersStay, StoreInvariant, ThreadsFit,
                               FrameFits, Waits
  <2>2. FlagsMove(h)
    BY <2>1, FlagsStep
  <2>3. /\ owed[s] \subseteq canvases[h].connected \ canvases[h].waiting
        /\ u \notin canvases[h].waiting => owed[s] = {}
    BY <1>3, <2>1 DEF OwedSound, Held
  <2>4. owed'[s] = {v \in owed[s] : v \in canvases'[h].connected
                                    /\ ~Arrives(v, h)}
    BY <1>3 DEF CountOwed
  <2>5. u \notin canvases'[h].waiting => owed'[s] = {}
    BY <1>3, <2>2, <2>3, <2>4 DEF FlagsMove
  <2>6. owed'[s] \subseteq canvases'[h].connected \ canvases'[h].waiting
    BY <2>2, <2>3, <2>4 DEF FlagsMove
  <2> QED  BY <2>5, <2>6 DEF Held
<1> QED  BY <1>1, <1>2, <1>3

\* Whatever else users and clients do, a thread that waits at a barrier, or for
\* one, goes on only when each user connected to its canvas since before it came
\* has arrived there or left (handles.c, handles_barrier with
\* canvas_barrier_complete, and the waits of rpc.c on barrier_cond).
THEOREM PromiseTheorem == PromiseSpec => []PassedTogether
<1> DEFINE Inv == StoreInvariant /\ MainCloses /\ OwedSound
<1>1. PromiseInit => Inv
  <2>1. Init => MainCloses /\ \A t \in Threads : ~Waits(t)
    BY DEF Init, MainCloses, Waits, Threads
  <2> QED  BY <2>1, StoreInit DEF PromiseInit, OwedSound
<1>2. Inv /\ [PromiseNext]_promiseVars => Inv'
  <2> SUFFICES ASSUME Inv, [PromiseNext]_promiseVars PROVE Inv'
    OBVIOUS
  <2>1. [Next]_vars
    BY DEF PromiseNext, promiseVars
  <2>2. StoreInvariant'
    BY <2>1, TablesStep, SessionsStep, ThreadsStep, SleepersStep
       DEF StoreInvariant
  <2>3. MainCloses'
    BY <2>1, ThreadsMoveOn
  <2>4. CASE PromiseNext
    BY <2>1, <2>2, <2>3, <2>4, OwedStep DEF PromiseNext
  <2>5. CASE UNCHANGED promiseVars
    <3>1. OwedSound'
      BY <2>5 DEF promiseVars, vars, storeVars, OwedSound, Waits, Held
    <3> QED  BY <2>2, <2>3, <3>1
  <2> QED  BY <2>4, <2>5
<1>3. Inv => PassedTogether
  BY DEF OwedSound, PassedTogether
<1> QED  BY <1>1, <1>2, <1>3, PTL DEF PromiseSpec

-----------------------------------------------------------------------------
(* Who the barrier waits for.                                              *)

\* A thread begins to leave the canvases only for a Disconnect request or for
\* close_client.
LEMMA LeavingBegins ==
    ASSUME StoreInvariant, [Next]_vars, Operations \cap {"Disconnect", "close"} = {},
           NEW s \in Threads, place'[s] = "leaving"
    PROVE  place[s] = "leaving"
<1> USE DEF StoreInvariant
<1>1. ASSUME NEW t \in Threads, NEW at, Woken(at), NEW where, where # "leaving",
             place' = [at EXCEPT ![t] = where]
      PROVE  place[s] = "leaving"
  BY <1>1 DEF Woken
<1>2. ASSUME NEW t \in Threads,
             \/ Return(t) \/ \E hs : ReturnFrom(t, Broadcast(hs))
             \/ \E where : /\ where # "leaving"
                           /\ \/ place' = [place EXCEPT ![t] = where]
                              \/ \E f : GoTo(t, where, f)
      PROVE  place[s] = "leaving"
  BY <1>1, <1>2, WokenFacts DEF Return, ReturnFrom, GoTo
<1>3. CASE \/ UNCHANGED vars \/ RemoveClient
           \/ \E t \in Workers, c \in Clients : Begin(t, c)
           \/ \E c \in Clients : Close(c)
  BY <1>2, <1>3 DEF vars, RemoveClient, Begin, Close, Threads
<1>4. ASSUME NEW t \in Threads, Operate(t)
      PROVE  place[s] = "leaving"
  <2>1. CASE Login(t) \/ RequireLogin(t) \/ Refuse(t)
    BY <1>2, <2>1 DEF Login, RequireLogin, Refuse
  <2>2. CASE \/ CreateCanvas(t) \/ CreateSprite(t) \/ DestroyCanvas(t)
             \/ DestroySprite(t) \/ DestroyPlacement(t) \/ ShareCanvas(t)
    BY <1>2, <2>2 DEF CreateCanvas, CreateSprite, DestroyCanvas,
                      DestroySprite, DestroyPlacement, ShareCanvas
  <2>3. CASE Barrier(t) \/ UsePlacement(t) \/ Generate(t)
    BY <1>2, <2>3 DEF Barrier, UsePlacement, Generate, Wait
  <2>4. CASE PlaceSprite(t)
    BY <1>2, <2>4 DEF PlaceSprite, PlaceOn, Wait
  <2> QED  BY <1>4, <2>1, <2>2, <2>3, <2>4 DEF Operate, Disconnect
<1>5. ASSUME NEW t \in Threads,
             Continue(t) \/ GenerateFrame(t) \/ SpuriousWake(t)
      PROVE  place[s] = "leaving"
  <2>1. CASE \/ SleepAgain(t) \/ PassBarrier(t) \/ PassUsePlacement(t)
             \/ PassGenerate(t) \/ RecordPlacement(t) \/ GenerateDone(t)
    BY <1>2, <2>1 DEF SleepAgain, PassBarrier, PassUsePlacement, PassGenerate,
                      RecordPlacement, GenerateDone
  <2>2. CASE PassPlaceSprite(t)
    BY <1>2, <2>2 DEF PassPlaceSprite, PlaceOn
  <2>3. CASE LeaveCanvases(t)
    BY <1>1, <2>3, WokenFacts DEF LeaveCanvases
  <2>4. CASE ClearLoggedIn(t) \/ ClearUsername(t)
    BY <1>2, <2>4 DEF ClearLoggedIn, ClearUsername
  <2>5. CASE GenerateFrame(t) \/ SpuriousWake(t)
    BY <1>2, <2>5 DEF GenerateFrame, SpuriousWake
  <2> QED  BY <1>5, <2>1, <2>2, <2>3, <2>4, <2>5 DEF Continue
<1> QED  BY <1>3, <1>4, <1>5 DEF Next

\* The barrier sets the flag of its caller unless all connected users wait.
LEMMA AbsenteeBarrier ==
    ASSUME StoreInvariant, BarrierHeldByAbsentee, NEW t \in Threads, Barrier(t)
    PROVE  BarrierHeldByAbsentee'
<1> USE DEF StoreInvariant
<1>1. PICK h \in DOMAIN canvases :
        LET arrived == [Joined(h, User(t)) EXCEPT !.waiting = @ \cup {User(t)}]
        IN  /\ Finds(h, User(t))
            /\ \/ canvases' = [canvases EXCEPT ![h] =
                                  [arrived EXCEPT !.waiting = {}]]
               \/ /\ ~Complete(arrived)
                  /\ canvases' = [canvases EXCEPT ![h] = arrived]
  BY DEF Barrier
<1> DEFINE arrived == [Joined(h, User(t)) EXCEPT !.waiting = @ \cup {User(t)}]
<1>2. /\ Joined(h, User(t)) \in SoundRecords
      /\ User(t) \in Names
  BY <1>1, JoinedSound, UserTyped DEF Barrier, Runs
<1>3. arrived \in CanvasRecords
  BY <1>2 DEF SoundRecords, CanvasRecords
<1>4. /\ \/ canvases'[h] = [arrived EXCEPT !.waiting = {}]
         \/ canvases'[h] = arrived /\ ~Complete(arrived)
      /\ \A g \in DOMAIN canvases \ {h} : canvases'[g] = canvases[g]
      /\ DOMAIN canvases' = DOMAIN canvases
  BY <1>1 DEF TablesSound
<1> HIDE DEF arrived
<1> QED  BY <1>3, <1>4 DEF BarrierHeldByAbsentee, Complete, CanvasRecords

LEMMA AbsenteeStep ==
    ASSUME StoreInvariant, BarrierHeldByAbsentee, [Next]_vars,
           "destroy_canvas" \notin Operations,
           \A t \in Threads : place[t] # "leaving"
    PROVE  BarrierHeldByAbsentee'
<1> USE DEF StoreInvariant
<1>1. ASSUME \A h \in DOMAIN canvases :
                 /\ canvases'[h].waiting = canvases[h].waiting
                 /\ canvases[h].connected \subseteq canvases'[h].connected,
             \A h \in DOMAIN canvases' :
                 h \in DOMAIN canvases \/ canvases'[h].waiting = {}
      PROVE  BarrierHeldByAbsentee'
  BY <1>1 DEF BarrierHeldByAbsentee
<1>2. UNCHANGED canvases => BarrierHeldByAbsentee'
  BY <1>1
<1>3. ASSUME NEW t \in Threads,
             Operate(t) \/ Continue(t) \/ GenerateFrame(t) \/ SpuriousWake(t)
      PROVE  BarrierHeldByAbsentee'
  <2>1. CASE StoreQuiet(t)
    BY <1>2, <2>1, QuietCanvases
  <2>2. CASE CreateCanvas(t)
    <3>1. /\ DOMAIN canvases' = DOMAIN canvases \cup {nextId}
          /\ canvases'[nextId].waiting = {}
      BY <2>2 DEF CreateCanvas, Insert
    <3> QED  BY <1>1, <2>2, <3>1, CanvasesUntouched
  <2>3. CASE \/ CreateSprite(t) \/ RecordPlacement(t)
             \/ DestroySprite(t) \/ DestroyPlacement(t)
    BY <1>2, <2>3 DEF CreateSprite, RecordPlacement, DestroySprite,
                      DestroyPlacement
  <2>4. CASE \/ ShareCanvas(t) \/ PlaceSprite(t) \/ UsePlacement(t)
             \/ Generate(t) \/ GenerateFrame(t)
    BY <1>1, <2>4, LookupFlags, TablesLookup
  <2>5. CASE DestroyCanvas(t) \/ LeaveCanvases(t)
    BY <2>5 DEF DestroyCanvas, Runs, LeaveCanvases
  <2> QED
    BY <1>3, <2>1, <2>2, <2>3, <2>4, <2>5, AbsenteeBarrier
       DEF Operate, Continue, StoreQuiet
<1>4. CASE UNCHANGED vars \/ RemoveClient
           \/ \E c \in Clients : Close(c) \/ \E t \in Workers : Begin(t, c)
  BY <1>2, <1>4 DEF vars, storeVars, RemoveClient, Close, Begin
<1> QED  BY <1>3, <1>4 DEF Next

\* As long as nobody leaves a canvas, a barrier somebody waits at is held by a
\* connected user who has not come: it does not forget to open (handles.c,
\* handles_barrier).  Departures break this, which the run StoreDeparture shows.
THEOREM AbsenteeTheorem ==
    ASSUME Operations \cap {"destroy_canvas", "Disconnect", "close"} = {}
    PROVE  Spec => []BarrierHeldByAbsentee
<1> DEFINE NobodyLeaves == \A t \in Threads : place[t] # "leaving"
<1>1. Init => NobodyLeaves /\ BarrierHeldByAbsentee
  BY DEF Init, BarrierHeldByAbsentee
<1>2. StoreInvariant /\ NobodyLeaves /\ [Next]_vars => NobodyLeaves'
  BY LeavingBegins
<1>3. /\ StoreInvariant /\ NobodyLeaves /\ BarrierHeldByAbsentee /\ [Next]_vars
      => BarrierHeldByAbsentee'
  BY AbsenteeStep
<1> QED  BY <1>1, <1>2, <1>3, StoreAlways, PTL DEF Spec

=============================================================================
