# Verification of the animation server

TLA+ models of the client/server animation program in `src/`, TLC configurations
that check them, and TLAPS proofs. Each module is translated from the C code;
`PROJECT.json` maps every definition to the lines it stands for, lists the
hazards of the code, the runs, the findings and the theorems.

## The system

A server process (`server_main.c`) serves client processes (`client_main.c`) on
one host. A client announces itself with SIGUSR1; the server creates two named
FIFOs for it and answers with SIGUSR2. Requests are lines on the C2S FIFO,
replies are lines on the S2C FIFO. The main thread multiplexes the C2S FIFOs and
hands each line to a pool of worker threads; a worker runs the RPC handler and
sends the reply. Handlers share one table of canvases, sprites and placements.

| Part | State | Operations | Correct when |
| --- | --- | --- | --- |
| Worker pool (`threadpool.c`) | list of client queues, `next_client`, `pending_requests`, `shutting_down`; the mutex and `work_available` | register, remove, submit, dequeue (round robin), sleep, exit, destroy | no lost wakeup, exact counts, no dangling `next_client`, no starvation, shutdown drains and joins |
| Ordered responses (`send_ordered_response`) | per client: `requests_received`, `responses_sent`, the ring `pending_responses`, `output_mutex`, `disconnected` | store, flush, drop, give up | replies leave in request order without gaps or repetitions; every request is answered |
| Canvas store (`handles.c`) | three lists of records, `next_id`, the users of each canvas with `connected` and `barrier_waiting`, one condition variable for each canvas | add, look up, destroy, share, barrier, disconnect | handles unique, canvases destroyed only when nobody is connected, objects not used after destruction |
| Barrier (`handles.c`, `rpc.c`) | the flags above | arrive, wait, release, depart | nobody passes early, nobody released stays asleep, nobody waits for nobody |
| RPC handlers (`rpc.c`) | `username`, `logged_in`, `disconnect_after` | Login, Disconnect, the canvas operations, generate | operations need a login; cleanup is complete |
| Main loop (`server_main.c`) | the list of clients, their descriptors and read buffers | accept, read, submit, clean up, close, stop | every dead client is cleaned up once |
| Line framing (`process_buffered_lines`) | `read_buffer`, `read_len` | append, cut lines | the lines submitted are the lines sent |
| Handshake (`connection.c`, `client_connection.c`) | `pending_client_pid`, `sigusr2_received`, the FIFOs | signal, take, create, open, time out | every client is accepted or told |
| Client program (`client_main.c`) | `logged_in`, `sent_disconnect` | request, read a reply, disconnect | its session agrees with the server's |
| User database (`auth.c`) | the list of users, immutable | load, look up | |

The parts meet like this. The main thread calls the pool (register, submit,
remove) and, in `close_client`, the store (`rpc_client_disconnected`). Workers
run the handlers, which call the store under its one mutex; a handler that waits
at a barrier keeps its worker. Workers and the main thread share each
`client_state_t`: the pool's mutex protects `requests_received`, `output_mutex`
protects the ring, and nothing protects `username`, `logged_in`, `disconnected`
and the descriptors.

What is hard: workers finish requests of one client out of order; waiting,
signalling and shutdown on two kinds of condition variables; departures at any
point of a handler; failed writes in the middle of a flush; pointers kept across
a wait; handshake and shutdown timing. `PROJECT.json` lists each hazard at its
line with the properties that cover it, or why none does yet.

## Modules

| Module | What it is |
| --- | --- |
| `ThreadPool` | `threadpool.c` and the main thread's use of it, with the properties of the pool |
| `OrderedReplies` | abstract: the FIFO of replies each client is promised |
| `FairScheduling` | `ThreadPool` with a history variable that counts how often a waiting client is passed over |
| `CanvasStore` | `handles.c` and the handlers of `rpc.c` that use it, run by workers while the main thread closes clients |
| `BarrierPromise` | `CanvasStore` with a history variable for the arrivals each waiter is owed |
| `LineFraming` | how the main thread cuts a stream into requests, with a reference definition |
| `Channels` | external: processes, signals, FIFO names, their ends and contents |
| `ClientProgram` | `client_main.c` and `client_connection.c` |
| `MainLoop` | `server_main.c` and `connection.c`, with workers reduced to one request of each client at a time |
| `Connection` | clients, channels and server composed, with their properties |
| `UserDatabase` | `auth.c` and the replies to Login |
| `MCThreadPool`, `MCFairScheduling`, `MCCanvasStore`, `MCBarrierPromise`, `MCConnection` | symmetry sets and constants for TLC; `MCConnection` also holds the checks of `LineFraming` and `UserDatabase` |
| `ThreadPoolProofs`, `RepliesProofs` | the proofs about `ThreadPool`: counts and wakeups; ring, lock and refinement, no request lost |
| `SchedulingProofs` | the proofs about `FairScheduling` |
| `StoreProofs` | the proofs about `CanvasStore` |
| `PromiseProofs` | the proofs about `BarrierPromise`, and about barriers nobody leaves |
| `ConnectionProofs`, `SessionProofs` | the proofs about `Connection`: what the server keeps; what clients are owed, and how long they are served |
| `InputProofs` | the proofs about `LineFraming` and `UserDatabase`, for input of any length |

### ThreadPool

Every critical section on `pool->mutex` is one action: the mutex is released
only inside `pthread_cond_wait`. `output_mutex` is a variable, as the flush loop
holds it across writes while other threads run. Variables keep the names of the
structure fields (`clients` is the list from `clients_head` to `clients_tail`,
`pending` is `pending_requests`). A worker is at `lock` (about to take the
pool's mutex), `asleep` (in `pthread_cond_wait`), `handling`, `deliver` (before
`output_mutex`), `flush` or `exited`. `close_client` is three further actions of
the main thread, `MarkDisconnected`, `RemoveClient` and `CloseFds`, after
`BeginClose`; the main thread does nothing else meanwhile (`Idle`).

Abstractions. A request is its sequence number; a response is the number it
answers. The handler is opaque and returns. A write succeeds or fails: a failure
stands for `EAGAIN` on a full FIFO or a closed descriptor, including after a
partial write; death by SIGPIPE is modelled in `MainLoop`. `disconnected` is
written by the main thread and read by workers without a lock: the model has the
interleavings of whole accesses, which a `bool` gives on the supported builds.
Allocation failures are not modelled.

`OrderedReplies` says what a client may rely on: a request is accepted while the
connection is kept up, replies are numbered consecutively, the connection may be
given up. The refinement maps `received`, `fifo` and `disconnected`. A reply
under way may still be written after the client is marked disconnected, as the
worker tests the flag once.

`FairScheduling` counts, for each pair of clients, how often the second is
served while the first has requests queued; `BoundedBypass` says at most once.
`ServedIsBehind` is the reason: who has been served is behind in the circular
scan. It depends on where `unlink_client_queue` leaves `next_client`.

### CanvasStore

Every critical section on `store->mutex` is one action, so `place_sprite` is two
(place, record), `generate` one for the lookup and one for each frame, and
`rpc_client_disconnected` is `LeaveCanvases`, then the unlocked writes
`ClearLoggedIn` and `ClearUsername`. A thread's local variables are its `frame`.
Canvases, sprites and placements are functions from handles to records; a record
is `live` while its pointer is not NULL. `connected` and `waiting` are the sets
of users whose flags are set. `asleep` is a thread in `pthread_cond_wait`,
`awake` one that has been woken and not yet run.

Abstractions. What a request asks for is chosen when its critical section runs;
a request refused earlier changes nothing (`Refuse`). The username is read once
in a critical section, and Login writes username and login flag in one step.
A client may be closed at any time (`MainLoop` says when). libanimate
is external: its objects are live or not, creation and placing may fail.
`Users` are the names of `users.txt`, with whom a canvas may be shared;
`Accounts` says which client may log in as which of them, as `auth_lookup` lets
only a user with a positive balance.

`BarrierPromise` gives each thread that starts to wait the set of users who are
then connected and have not arrived; `PassedTogether` says it is let through
only when all of them have arrived or left.

### Connection

A connection goes through three programs at once. `ClientProgram` follows `main`
of the client: `process[c]` is where it is (`asking` in
`send_connection_request`, `openC2S` and `openS2C` before the two opens,
`blockedC2S` and `blockedS2C` in them, `blockedUnlinked` in one whose FIFO has
been unlinked, `prompt` in `fgets`, `login`, `reply` and `farewell` in
`read_response_line`, `hangup` after the loop, `closing`, `gone`). `session` is
`logged_in`, with `misled` for a client that took an error code for its balance:
`parse_integer_reply` takes any integer (`client_main.c:307`), and a Login with
two names, or none, is answered by -1 (`rpc.c:355`). `SessionsAgree` leaves that
client out. A client may be killed at any moment (`Crash`), and a second process
may get its PID (`ReusePid`).

`MainLoop` follows the loop of the server's main thread; `main` is its place.
`server_take_pending_client` is two actions, as the signal handler can run
between its read and its reset. `accept_client` is one action for each call that
others can see: create, signal, open for reading, open for writing, and the ways
out of each. A signal that reaches a client before it has installed its handler
ends it, and one that reaches it in an open makes that open fail (neither
program uses SA_RESTART). `CleanupInactiveClients`, `SelectAndRead` and
`CloseAtEnd` are the rest of the loop. `client[c]` is the record: not made,
open, marked disconnected by a worker (`lost`), or closed; `due` is
`disconnect_after`. Workers are `HandleRequest` (the handler's effect on the
session and its reply) and `SendResponse`. `SendResponse` ends the server when
it writes to a FIFO without reader, or marks the client, depending on
`SigpipeKills`.

`Channels` is what the operating system keeps between them. One SIGUSR1 can be
pending; a PID stands for its process. Comments in `server_main.c` (256, 269) say
that only the main thread handles SIGUSR1, but the mask is open again when the
workers are created: `Sigusr1Handler` may run without interrupting anything. An
open that waits for the other end is a place of the process, and whoever opens
the other end lets it go on. Unlinking takes names and ends away: a process then
blocked in an open stays blocked, in a FIFO nobody can open any more
(`blockedUnlinked`); only a signal ends it.

`LineFraming` has the cutting of a stream as operators that `SelectAndRead` uses,
and `Pieces`, which goes through it one character at a time. A character is a
newline or not; in `MainLoop` a command is one character.

Abstractions. `close_client` is one action here; `ThreadPool` and `CanvasStore`
take it apart. A client has one request in progress, so the pool's queue and ring
are at most one response. select and the reads after it are one step, the end of
a stream another. What commands other than Login and Disconnect do is left to
`CanvasStore`: they are `Operation`. Time is an action (`TimePasses`, `TimeOut`)
that may come at any moment. Descriptors are open ends, not numbers.

`UserDatabase` loads the lines of `users.txt`, already split into words, and
looks names up. `LoginsSound` compares it with the rule that the last line that
can be loaded for a name counts.

## Runs

| Run | Question | Bounds | Distinct states |
| --- | --- | --- | --- |
| `PoolReplies` | wakeups, shutdown, ring, lock and the refinement of `OrderedReplies` | 2 clients, 3 workers, ring of 2, 3 requests each | about 645,000 |
| `PoolScheduling` | types, `next_client`, counts, fairness of the scan | 3 clients, 1 worker, 2 requests each | about 300,000 |
| `PoolLiveness` | conservation, the fair refinement, every request answered, shutdown completes | 2 clients, 2 workers, ring of 2, 2 requests each | about 147,000 |
| `StoreBarrier` | canvases, sleepers and the barrier's promise, with departures | 2 users, 2 clients that log in as either, 2 workers, 1 canvas | about 1,600,000 |
| `StoreObjects` | handle tables, and barriers without departures | 2 users, 3 workers, 3 handles, 2 requests in progress each | about 270,000 |
| `StoreLiveness` | a released waiter leaves, departures included | 2 users, one request in progress each, 1 canvas | about 145,000 |
| `StoreDeparture` (violation) | does the departure of the last absentee release the others | 2 users, 1 canvas | |
| `StoreStale` (violation) | are pointers kept across a barrier wait still good | 2 users, 3 clients with one request in progress each, 2 handles | |
| `StoreGhosts` (violation) | is every connected user cleaned up | 2 users, 1 canvas | |
| `Connection` | types, framing, accounts, service, sessions, replies and leaks | 2 clients that may be killed, one PID used twice, 5 kinds of command, streams of 7 characters and a buffer of 3, files of 3 lines | about 2,776,000 |
| `ConnectionLiveness` | does every connection, wait, command and departure come to its end | 2 clients, one of which may be killed, a server whose opens may fail, Login and the Disconnect at the end of input | about 23,000 |
| `ConnectionSigpipe` (violation) | does the server outlive its clients | 1 client that is never killed | |

Why the bounds are enough. A ring of two slots wraps around twice with three
requests, overflows, and has a response ahead of the one that is due; three
workers let two deliver while one flushes. Three clients are the fewest in which
the unlinked client, its successor and a client passed over differ. One worker
is enough for the scan, which runs under the mutex whatever other workers do.
Two users and one canvas are enough for a barrier with an absentee, and two
clients that log in as either user for a user with two sessions; a canvas never
looks at another one. `MaxRequests`, `MaxHandle` and `MaxOutstanding` are bounds
of the model, not of the code. In `PoolLiveness` requests never exceed the ring:
with more, a response that is complete MAX_PENDING_RESPONSES ahead of the one
that is due is dropped. The client program never has two requests in flight
(`OneReplyOwed`), so neither that, nor two requests of one client handled out of
order, happens with it; both do with a client that does not wait for its replies.

Two clients are enough for `Connection`: the main thread accepts one at a time
and a second one is what interrupts it, takes the mailbox's place or waits for
it. Seven characters fill a buffer of three twice and leave a rest, with newlines
anywhere. Commands of two clients meet only in the main thread, so the liveness
run leaves out those that differ only in their replies. The client that is not
killed still times out, gives up and leaves. In `MaxBalance` and
`LowestBalance` the range of `int32_t` is small.

Deadlock is checked for the pool (`Terminated` is the end of the process) and
switched off for the store, where an idle server, or users who wait for one who
never comes, may stop, and for `Connection`, where the main thread may wait for
ever for a client that has gone.

`BarrierHeldByAbsentee` holds while nobody leaves (`StoreObjects`) and fails when
somebody does (`StoreDeparture`); `RequestConservation` holds while the ring is
large enough and would fail when it is not: the bounds of `PoolLiveness`, and the
hypothesis of `ConservationTheorem`, leave that loss out.

Every property has a mutant in `PROJECT.json`: an operator of the module, named
in a comment as the mutant it is, that replaces a definition as a slip in the
code would, and that makes TLC refute the property.

### Fairness

`FairSpec` of `ThreadPool` asks weak fairness of each worker, of the steps of
`close_client` and of the shutdown path: a thread that can run does, and a mutex
that is contended by finitely many critical sections is obtained. Nothing makes
a client connect, send or be closed while the server serves. `FairSpec` of
`CanvasStore` asks the same of a thread that has begun a handler. Nothing
obliges a user to come to a barrier. `ReleasedLeaves` is checked with one
request in progress for each user on one session: the flag belongs to the user,
not to the waiter, so that another request of the same user, arriving again
before the waiter has run, can set it again, and the waiter stays. For the same
reason it leaves out the empty username: a Login that falls between the two
writes of a cleanup leaves a session that is logged in without a name, and all
such sessions share one flag.

`FairSpec` of `Connection` asks weak fairness of each client program, each
worker, the main thread, the delivery of signals and the passing of time.
Nothing obliges a user to start a client, type or leave. The main thread may
wait for ever for a client that has gone while it was being accepted (nothing
but another SIGUSR1 gets it out), so `EveryCommandAnswered` and `GoneIsClosed`
assume `MainGoesOn`; `WaitsOnlyForTheGone` says that this is the only reason it
does not. `ReadyIsConnected` says of a client that was told the server is ready
that it is connected or dies, unless `accept_client` gives it up: the two opens
of either side do not wait for each other. That hypothesis is needed: when
SIGUSR1 interrupts the server's open, or an open fails, while the client is in
its own, the client is neither connected nor told and waits for ever, in an open
of a FIFO that has lost its name. `ConnectedIsServed` and `SessionsAgree` leave
out a PID that is used a second time: it can be accepted twice, when the second
process asks before the first acceptance has ended, and then finds its FIFOs
replaced.

## Findings

- SIGPIPE ends the server when a reply is written to a client that has gone. The
  client program leaves after Disconnect without reading the reply, so this takes
  no crash (`ConnectionSigpipe`). The other runs of `Connection` are about a
  server started with SIGPIPE ignored.
- When the last absentee of a barrier leaves, the others are woken with their
  flags set and go on waiting; the announced timeout does not exist
  (`StoreDeparture`).
- Operations use pointers looked up before a barrier wait, here in three sessions
  of one user with one request in progress each (`StoreStale`).
- A request in progress when its client is cleaned up reconnects the user, by
  looking a canvas up or by creating one, and nothing disconnects it again
  (`StoreGhosts`).

The models also have what the code does not prevent and no property promises
against; `PROJECT.json` notes each under its hazard.

- A client that is given up while it is in its own open, because SIGUSR1 of
  another client has interrupted the server's, waits for ever.
- The client takes an error code for its balance and goes on as logged in, where
  its comment says "Successful Login replies are balances"
  (`client_main.c:307-308`); `session` is then `misled`.
- A client that times out just when it is signalled keeps the main thread in
  open, until another one signals.
- The mailbox for SIGUSR1 loses PIDs, and a new process with the PID of an
  earlier client is not accepted. Both clients time out.
- A response that is MAX_PENDING_RESPONSES ahead of the one that is due is
  dropped.
- A second Login of a session leaves the first user connected; another session of
  a user can hold back a thread that was just released from a barrier.
- A client that a worker has marked disconnected is never cleaned up.

## Proofs

TLAPS proves, for all sets of clients, users, workers and commands and every
size of the ring:

| Theorem | Says | Module |
| --- | --- | --- |
| `TypeTheorem`, `PendingTheorem`, `NextClientTheorem` | the pool's types, its count of requests, `next_client` | `ThreadPoolProofs` |
| `DrainedTheorem`, `WakeupTheorem` | no worker leaves while a request is queued; none sleeps that is needed | `ThreadPoolProofs` |
| `LockTheorem`, `RingTheorem` | `output_mutex` and the ring | `RepliesProofs` |
| `RepliesTheorem` | `ThreadPool` implements the safety part of `OrderedReplies` | `RepliesProofs` |
| `ConservationTheorem` | an accepted request is in exactly one place until its client is given up | `RepliesProofs` |
| `ServedIsBehindTheorem`, `BypassTheorem` | the scan is fair: nobody is served twice while another waits | `SchedulingProofs` |
| `StoreTypeTheorem`, `CanvasesTheorem`, `SleepersTheorem` | tables and handles, life of a canvas, no lost wakeup at a barrier | `StoreProofs` |
| `PromiseTheorem` | nobody passes a barrier early | `PromiseProofs` |
| `AbsenteeTheorem` | a barrier nobody leaves does not forget to open | `PromiseProofs` |
| `LeakTheorem` | the server keeps names and descriptors only for a reason | `ConnectionProofs` |
| `OwedTheorem`, `SessionTypeTheorem` | one reply is owed to who waits, none to who prompts; lines arrive as they were written | `SessionProofs` |
| `ConnectedTheorem`, `SessionsTheorem` | who is connected is served; client and server agree on the login | `SessionProofs` |
| `FramingTheorem`, `LoginsTheorem` | any stream is cut into its lines; the last loadable line of a name decides | `InputProofs` |

Together they state every safety property that a passing run checks.

### Assumptions

Those of the modules, which TLC evaluates in the runs: sentinels are none of the
values they stand beside; clients and workers of the pool are finite, with at
least one worker and one slot; accounts name clients and users. `Connection` adds
`CommandsAssumption` (a command is no newline) and `LinesFit`: a line, one
character and its newline, fits `BufferSize`, as the 4095 characters that the
client reads with `fgets` into `MAX_INPUT_LEN` fit `CLIENT_READ_BUFFER`. The
theorems of `Connection` hold with and without SIGPIPE, whichever clients crash
and have their PIDs used again.

Two theorems have hypotheses of their own. `ConservationTheorem` holds while no
client has more requests in progress than its ring has slots (`RingSuffices`):
the code discards a response that does not fit, so nothing holds without it.
`OwedTheorem` says that the client program has at most one. `AbsenteeTheorem`
leaves `destroy_canvas`, `Disconnect` and the closing of clients out of
`Operations`, as the run `StoreObjects` does; with them the property is false
(`StoreDeparture`).

### The pool

`Types` is inductive by itself, with `pending` only an integer. `ListInv` adds
that queued clients are listed and that a client not yet connected is not:
without it `Register` could list a client twice and `RemoveClient` leave a second
entry. `CountInv` joins `PendingExact` and `DrainedBeforeExit`, which need each
other: a worker leaves when the count is zero, so the count must be that of the
queues, and freeing the queues keeps the count only because nothing is queued by
then. The sign of `pending` follows. The cardinality of the queued requests is
followed through `PlacesLonger` and `PlacesEmptied`. `NoLostWakeup` is inductive
over `Types`: a submitted request moves one sleeper to the mutex, a worker that
takes one request leaves with it.

`RingSound` rests on `LockHeldWhileFlushing`, since only the holder of
`output_mutex` may find a due response ready. The refinement needs `Numbers`:
every number that is queued, held or in the ring is below `received`, and the
FIFO holds the numbers below `responsesSent` in order; `WriteResponse` then is
`Reply`, `Submit` is `Accept`, marking a client is `HangUp`, and everything else
a stutter. `ConservationInvariant` adds where each number is (`OnePlace`), that
replies were sent in order and that a closed client has been given up: a response
is stored in the slot of its number, which is free because the ring suffices.

`BypassSound` strengthens `BoundedBypass` with `ServedIsBehind` and with the
fact that whoever was served has connected: such a client is not registered a
second time, which would give it another place in the scan. Dequeueing serves
the first in the scan that has requests and moves `next_client` behind it, so
the client served is now behind all that wait; removing a client keeps the order
of the others, because `next_client` goes on to the successor.

### The store

`StoreInvariant` has four parts: the three tables with handles below `next_id`
and canvases whose waiting users are connected and whose connected users are
users (`TablesSound`); the sessions; the threads, with the canvas of a thread
that goes on with one (`ThreadsFit`); and `SleepersWait`, a sleeper's flag is
set. The last is kept by a step that clears flags only because it wakes everybody
who sleeps at that canvas. `PassedTogether` needs `OwedSound`: what a waiter is
owed is among those connected who have not arrived, and once its flag is clear
nothing is owed: a flag is cleared by the last arrival, when nobody is left, or
by its own user's departure. `MainCloses` keeps the main thread out of barriers.
For `AbsenteeTheorem` nobody is in `leaving`, and then only arrivals can complete
a barrier, each of which tests it.

### Clients and server

`NothingLeaks` is not inductive: it allows anything to be held for the client in
`accepting`, also when that client turns out to have a closed record.
`LeakInvariant` says where in `accept_client` the main thread may hold something,
that the client has no record there, and that nobody is being accepted in the
rest of the loop, where clients are closed.

`SessionInvariant` adds, for each client, `Owed` and `Wired`. `Owed` follows the
one command or reply of a client from the C2S FIFO to the queue, the response and
the S2C FIFO, and says at most one of them has something. `Wired` says what keeps
it so: who talks has met the server in the open of the S2C FIFO; a client with a
record, or met already, is not connecting a second time; and the FIFOs of a
client being accepted are empty until it is met. That a line is submitted whole
comes from `ReadLine`: what `ReadUntilEmpty`, a fold, makes of one line is
computed step by step.

`ServedInvariant` adds, for each client whose PID has not been used again:
`OneRequest`, the request for a connection is at one place only, so that the
client is accepted once and its FIFOs are not replaced under it; `Connected`, who
talks holds the C2S FIFO open, so that it is not closed at the end of a stream;
and `InStep`, which relates the command or reply under way to the record:
`disconnect_after` is set for a client that goes on only by a login that is then
rejected, and a balance is on its way only when the record is logged in.
TLC checked these invariants on the instance of the run `Connection` before they
were proved.

### Input

`FramingSound` and `LoginsSound` compare what the code does with a reference
definition, on every stream or file up to a length that is a constant of
`MCConnection`; the theorems hold for every value of it. The induction they need
is not the library's, whose theorems take an operator as a parameter: if a
property of numbers fails, it fails at a least number (`LeastNat`, from the
well-foundedness of the naturals), and at that number the step is refuted.
`FoldExists` shows that `FoldLeft` can be unfolded one element at a time.

For the accounts, `LoadedFrom` says what the database is after the first `n`
lines: the first entry of a name, the one a login finds, is its last loadable
line. For the stream, the newlines of a sequence are listed by exactly one
increasing sequence; one more character in the buffer does what one step of the
reference does (`CutAppend`, `CutStep`); and each read takes a character at
least, because a buffer that was processed has room left (`ReadRound`), so the
rounds come to the end of the stream (`ReadsWhole`). Where the FIFO runs empty
makes no difference, since the reference can be stopped anywhere
(`StreamIsCut`). The only assumption is `BufferAssumption`.

### Only model-checked

Liveness under fairness (`RepliesFairSpec`, `EveryRequestAnswered`,
`ShutdownCompletes`, `ReleasedLeaves`, `ReadyIsConnected`, `WaitsOnlyForTheGone`,
`EveryCommandAnswered`, `GoneIsClosed`), which is out of the prover's reach, as
is ENABLED.

## Not modelled

Parsing of numbers and response texts, splitting of `users.txt` into words,
ffmpeg (whose process inherits the descriptors), libanimate's drawing, build
files, the stub programs, allocation failures. Descriptor numbers: their reuse
between the test and the write of a worker, and FD_SETSIZE, need them as state.
Pool and store are not composed: a barrier that occupies every worker, and a join
that waits for a user connected after its cleanup, are hazards no property covers
by itself (`PROJECT.json` has them at their lines).

## Plan

1. `ThreadPool`, `OrderedReplies`, `FairScheduling` and their proofs; done.
2. `CanvasStore`, `BarrierPromise`; done.
3. `LineFraming`, `Channels`, `ClientProgram`, `MainLoop`, `Connection`,
   `UserDatabase`; done.
4. Proofs of every safety property of the passing runs; done.
5. `Server`, the composition of pool and store, with at least as many workers as
   users: shutdown completes unless a user is connected after its cleanup.
