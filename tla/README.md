# SpaceCube in TLA+

SpaceCube simulates particles in a box and streams the frames to browsers over
WebSocket. The repository holds three programs: a distributed one (a Python
orchestrator, Kafka, and GPU workers that are not in the repository), a
single-process Python one, and a C++/CUDA one. This directory holds
specifications of the parts whose correctness depends on the order of events,
the TLC instances that check them, and proofs for every instance of the most
important results. File names in this document are relative to the repository.

## 1. The system

### 1.1 Inventory

| Component | State | Operations | Interacts with |
|---|---|---|---|
| `Orchestrator` (`src/pipeline/server.py`) | `particles`, `current_step`, `retry_count`, per call `updates` and `chunks_buffer`; `ws_queue` | `purge_topics`, `initialize_simulation`, `distribute_particles`, `_collect_updates`, `_merge_with_bounds_check`, `run_simulation`, `ws_data_sender` | Kafka topics, workers, `WebSocketServer`, `GridManager` |
| `WebSocketServer` (`src/scripts/websocket.py`) | `connected_clients`, `_stop`, `server` | `_handler` per connection, `broadcast`, `run_server`, `shutdown`, signal handler | the library `websockets`, `ws_data_sender`, `Orchestrator.run` |
| `GridManager` (`src/scripts/grid_manager.py`) | `dimensions`, `worker_bounds` | `_optimize_grid_dimensions`, `_calculate_worker_bounds` | start commands of the workers |
| `ParticleInitializer` (`src/scripts/simulation_init.py`) | none | `generate` | `Orchestrator.__init__` |
| Workers' kernel (`src/kernels/particle_kernel.cu`) | particle arrays, shared memory of a block | `update_particles` | sent to the workers as text |
| C++ program (`ci/main.cpp`) | `running`, `connected_clients`, `clients_mutex`, `server_thread` | main loop, `sendFrame`, `on_open`, `on_close`, `signal_handler` | websocketpp, the kernels |
| C++ kernels (`ci/kernel.cu`) | `particles`, `futureParticles` | `updateParticles`, `handleCollisions`, `predictFuture` | main loop |
| Single-process server (`src/pipeline/server_mono.py`, `src/scripts/particle_sim.py`) | `clients`, `running`, GPU arrays | `handler`, `broadcast`, `main`, signal handler | `websockets`, pycuda |
| websocketpp, a server's connection (`ci/websocketpp/websocketpp/impl/connection_impl.hpp`, `transport/asio/connection.hpp`) | `m_state`, `m_internal_state`, timers, `m_send_queue`, `m_write_flag` | handshake, reading, `send`, `write_frame`, closing handshake, `terminate` | handlers and `send` of the C++ program, asio, the peer |
| websocketpp, frames (`processors/hybi13.hpp`) | `m_state`, `m_bytes_needed`, headers, `m_data_msg`, `m_control_msg` | `consume` and what it calls | the connection's read loop |
| the rest of websocketpp, json (`ci/json.hpp`) | | vendored libraries | C++ program |
| Kafka, workers | topics, jobs | external | orchestrator |

### 1.2 What is hard about each, and what makes it correct

*Orchestrator.* Each step is a scatter and gather over an unreliable medium: the
particles are sent to every worker, and each answers with those within its
bounds, in chunks. Answers come late (to a step that is over), twice (a retrying
producer, offsets committed after processing), after a retry has sent the same
job again, in part, or never. Correct means: a step uses whole answers to that
very step or is not done at all; no particle is lost on the way, doubled or older than the
step, while one that gets where no worker's bounds are is gone for good; the retry budget is per step; a step is decided; frames go out in the order
of their steps and at most once.

*WebSocketServer.* Handlers, a broadcast and two calls of `shutdown` share a set
on one event loop and interleave at each `await`, while clients come and go.
Correct means: the set never holds a client nobody will remove, a client is dropped
only when sending to it failed, and a shutdown returns with nothing left open.

*GridManager.* Integer and floating-point arithmetic at the borders: bounds that do
not overlap, stay within the box, and cover it.

*C++ program.* Two threads and a signal handler: the client set must
follow the connections, a frame must reach all of it, and a signal must end the
program from whatever it interrupts.

*Kernels.* Threads of a block share memory between barriers; some threads return
before the barriers. Every force must come from the data of its particle.

*websocketpp connection.* The peer, the network, five timers and the program's own
thread all end a connection, in any order and more than once; a cancelled timer whose
handler is already queued runs all the same; two threads share a queue whose
writer is whoever finds a flag clear. Correct means: each connection has exactly one
open-and-close or one fail handler called for it, no queued frame waits for a writer
that never comes, frames go out in order and none after the last close, and an open
connection is never left unread.

*Frames.* Chunks end anywhere, in a header, a masking key or a character, and control frames
come between the fragments of a message. Correct means: what is delivered depends on the
bytes and not on the chunks, the message limit counts all fragments, and a
text is UTF-8. The last two the code does not keep altogether (section 5).

### 1.3 Plan

Done, in this order:

1. `StepSync`, `Orchestrator` (+ `MCOrchestrator`, `OrchestratorProofs`)
2. `WsServer` (+ `WsServerProofs`)
3. `GridManager` (+ `GridManagerProofs`)
4. `SimServer` (+ `SimServerProofs`)
5. `TileForces` (+ `TileForcesProofs`)
6. `ConnLife`, `WsConnection` (+ `WsConnectionProofs`, `WsQueueProofs`)
7. `FrameReader` (+ `MCFrameReader`, `FrameReaderProofs`)

To come, the most important first:

8. `OrchestratorApp`: `run()` as a whole. It composes the loop, the event loop's
   turns, `WsServer` and the signal handler. Questions: what a signal ends
   (`websocket.py` 28 announces a shutdown, the simulation goes on), whether frames
   reach a client at all when `_collect_updates` never sleeps, and what the cancelled
   `server_task` leaves behind. Abstract specification: frames are shown between
   the start and the end of the service only.
9. `TopicSetup`: `recreate_kafka_topics` against a broker that deletes
   asynchronously, and what the loop may then find in the topics.
10. `Collisions`: the last phase of `update_particles` and of the C++ kernels, where
    threads change each other's particles without atomics, and `handleCollisions`,
    whose threads read shared entries that nobody loaded.
11. `MonoServer`: the single-process server.

## 2. The modules

### 2.1 `Orchestrator`

One variable per variable of the code (`current_step`, `retry_count`, `particles`,
`updates`, `chunks_buffer`, `ws_queue`), `pc` for where `run()` stands, `polls` for the
iterations of the collecting loop, two sets for the topics, and `sender`/`hand` for
`ws_data_sender`. `attempts` and `shown` are history variables on which no guard depends.

| Actions | Code |
|---|---|
| `Purge`, `PurgeFails` | `purge_topics` 146-181; a failure is logged and ignored |
| `Initialize` | `initialize_simulation` with the kernel and start commands |
| `Distribute`, `DistributeFails` | `distribute_particles`; failing, it has sent any part |
| `Poll`, `TimeOut`, `EndBatch`, `Wake` | the while loop of `_collect_updates` |
| `Keep`, `Assemble` | one message of a batch: stored, or the last of an answer |
| `CollectFails` | `poll`, `commit` or decoding raises, or the assembly does (`KeyError`) |
| `Retry`, `Abort`, `StepDone` | `run_simulation` after `_collect_updates` |
| `TakeFrame`, `FrameSent`, `SendFails`, `Resume`, `CancelSender` | `ws_data_sender` |
| `WorkerAnswers` | external |

*Abstractions.* A particle is its id: physics is not modelled, but *where* a particle
is after a step is (`Place[s][p]`, the worker and the chunk), so particles migrate
between workers and between chunks, and out of everybody's bounds (`Covered`). The chunks of one job to one worker are one
message, since a worker can act only on all of them. Commits have no effect on the
loop and are part of the message's action. The clock is `polls`: an iteration takes at
least the 0.1 s of its sleep, so `MaxPolls` iterations fill a timeout, and `TimeOut` may
come after any of them because `poll` may block for 30 s.

*External assumptions.* A worker answers only to a job it was sent, with the particles
of the job that are then within its bounds, and the same chunk again if asked again
(`Answer` is a function of the job and the index). Nothing is assumed of the box being covered: `grid_manager.py` covers it for
cubes only (section 2.4), and the two workers of the instance answer for two of eight cells. A particle that is
within nobody's bounds is in no answer; `_merge_with_bounds_check` puts together what came, so it is lost for good. `LostOnlyOutside`
says that this is the only way to lose one, and that what remains is exactly `Remaining(current_step)`.
`replies` only grows, hence loss, delay, reordering and duplication all come from
which messages a batch picks.

`StepSync` is the abstract promise to the clients: steps advance one at a time, each
with one frame of all particles that geometry has left; frames are shown in order, or lost; the
simulation may give up. `SyncSpec` in `Orchestrator` is the refinement, with the queue and the
frame in hand as the abstract outbox.

### 2.2 `WsServer`

Variables are the set, the state of each connection and of its handler, where the
broadcast stands (with the iterator's memory: the set as it began and those
visited), where `run_server` and the two callers of `shutdown` stand, and whether the simulation
holds the event loop. `raised` is a history variable. An action is what a coroutine does
between two awaits; `Free` says that nothing else runs between two sends that did not
suspend, nor while `run_simulation` blocks in `poll` or puts frames on its unbounded queue, which
never yields. A Python set iterator raises exactly if the size changed; if elements
were exchanged at equal size, it may or may not visit the new ones, so `BroadcastEnds`
allows both. `Dead` is both `except` clauses of `broadcast`: a closed connection makes `send` raise, and anything else
may, so a client whose connection is open can be dropped from the set while its handler waits. `Start`
and `StartFails` are the two outcomes of `websockets.serve`: without a server, or when `run()` is over before there is
one, `shutdown` finds `self.server` still `None`.
The library is external: it accepts while the server is up, starts
handlers, and a closing server closes connections and waits for the handlers.
Not modelled: the cancellation of `run_server` while it is already
leaving, which the code cannot tell from its normal end, and a constructor that raises (`server.py` 189), after which
`run()` has no server to shut down. The task `_broadcast_task` is never started.

### 2.3 `SimServer`

The two threads of `main.cpp` and the signal handler, which interrupts either thread in any
phase after it was installed. `clients_mutex` is not a variable: `on_open` and `on_close` hold it
within one step, `sendFrame` exactly while it iterates (`main` in `send` or `post`).

The signal handler is three steps (`Signal`, then `EnterStop` and `LeaveStop` for line 29), since `io_service::stop` takes the mutex of the
`io_service`, which is not recursive. The loop holds that mutex while it picks its next handler (`Lookup` to `Waits`,
`Opens`, `Closes`, `Terminated`, `RunReturns`), the main thread while it starts accepting (`Accept` to `StartThread`) and while `send` posts a
write (`Send` to `Posted`). A thread that is interrupted there waits for itself (`Stuck`), and the process hangs; the second signal may come
during the handler of the first. The lock of `stdout` is recursive in glibc, so that line 27 waits at most for the other thread; what
it may do to a half-written buffer is not modelled. External: websocketpp opens a connection before `on_open`
and ends it well before `on_close`, one handler at a time.

### 2.4 `GridManager`

Bounds in units of cells, so that they are integers. The cube root is rounded up, so
`Dim(n)` is the least integer whose cube is at least `n`; the floating-point root
agrees for every `n` checked, as the nearest double to 1/3 lies below 1/3. The while
loop that enlarges the dimensions is never entered. Products of cell numbers and cell sizes are taken as exact: neighbours compute a common border by
the same product (`(i + 1) * size` and `j * size` with `j = i + 1`), hence the same double, so exactness matters at the far border of the box only, which
may be off by a rounding error. What follows for the particles when the box is not covered is in `Orchestrator`.

### 2.5 `TileForces`

The threads of one block in the tiled sum of `update_particles`. Particle data is the
particle's index, and a sum is the sequence of pairs (particle meant, particle read). Threads
that returned at line 85 are not waited for, as current hardware does; memory nobody wrote
holds `Garbage`. Block size, number of particles and local flags are constants since the
launch is in the workers.

### 2.6 `ConnLife` and `WsConnection`

`ConnLife` is what a program sees of one connection: open or fail once for an attempt, close
once after open and never otherwise, and an end to every attempt and every closing
handshake. `SimServer` takes exactly this as given of its clients. `WsConnection` is one
connection of a server with the configuration the C++ program uses, and `LifeSpec` the refinement, by the
handlers that were called (`conn`).

| Actions | Code (`connection_impl.hpp` unless named) |
|---|---|
| `Accepted`, `AcceptFails` | `handle_accept` (`server_endpoint.hpp`), `start`, `handle_transport_init` |
| `HandleReadHandshake`, `ReadHandshakeFails` | `read_handshake`, `handle_read_handshake` |
| `Opens`, `ResponseEnds` | `handle_write_http_response` |
| `HandleReadFrame`, `ConsumeFrame`, `ReadFrame`, `ReadFrameFails` | `handle_read_frame`, its loop, `process_control_frame`, `read_frame` |
| `SendCheck`, `SendPush`, `SendDispatch` | `send` and `write_push`, by another thread |
| `WriteFrame`, `FramesWritten`, `WriteFails` | `write_frame`, `handle_write_frame` |
| `Close`; `SendClose`, `GotClose`, `GotBadClose`, `GotGarbage` | `close`, `send_close_frame`, close frames and protocol errors |
| `Terminate`, `HandleTerminate`, `HandleShutdownTimeout` | `terminate`, `handle_terminate`, `async_shutdown` of the transport |
| `Expire`, `HandleTimeout` | the timers of the handshakes, the transport and the shutdown |

*Abstractions.* A handler of the asio loop is one step, as the loop runs one at a time; the loop of
`handle_read_frame` is one step per frame, since the sending thread may act in between; and the call
of the close or fail handler in `terminate` is a step of its own. `send` takes two locks one after the
other and posts `write_frame` outside both, hence three steps. A timer is off, armed, or due: a due timer's
handler is queued and `cancel` does not stop it. A second close frame overwrites
`m_handshake_timer`, so the first timer goes on as `orphan`. Frames are kinds (`FrameIn`,
`FrameOut`): data, ping, close, invalid close, and what `consume` refuses. The response to a plain HTTP request is an error,
because the program has no HTTP handler. A bound on frames in each direction, `Incoming`
and `Outgoing`, is the only one. Not modelled, because nothing here calls them: `ping` and its timer,
pausing and resuming reads, `interrupt`, deferred responses, proxies, and the client role.

### 2.7 `FrameReader`

`hybi13::consume` with the reading loop around it, state by state: basic header, extended
header and key, payload, `READY`. A byte is `<<k, j>>`, the j-th of the k-th frame, so that a
property can say which bytes went where, and a wrong offset is visible; what a frame's header says is a
record. `Unmasked` and `Rotated` have the rotation of the masking key, which must go on at the right place after
a chunk that ended within the payload. A payload is made of a one-byte character `a`, the two bytes `l` `t` of
another, and `x`, which is never UTF-8. The reserved bits are one flag, `rsv`, as all are refused without extensions. Compression is off, as in `config::asio`.
The next chunk may be cut at any byte.

A length has up to 64 bits and its top bit is checked nowhere, so the sum of line 457 may wrap; `SizeSum` counts modulo `SizeT`. Payloads are shorter than `SizeT`, as
a length in a header is a number of 64 bits, and `size_t` is that of a 64-bit build. That a string refuses to grow beyond its `max_size` (`length_error`) is not modelled.

`Meaning` and `Meant` are the reference: what a stream of whole frames comes to, frame by frame, without buffer,
state or chunks. `ChunksDoNotMatter` compares the reader with it. What goes over a sequence (the bytes of all frames, the
validator over a payload, the reference) is a recursive function on a bounded interval of numbers, so that it can be proved about.

## 3. What is checked

| Run | Instance | Shows |
|---|---|---|
| `orchestrator` | 2 workers, 3 particles, 4 steps, 2 retries, 3 polls, answers of 1 to 3 chunks, particles that leave all bounds after steps 1 and 2; 79,531 states | `LostOnlyOutside`, `CollectsThisStep`, `FramesInOrder`, `RetryBudget`, `OnlyWholeSteps`, `StepDecided`, and that the loop implements `StepSync` |
| `orchestrator_stale` | 2 steps, 1 retry, answers of an earlier run to steps 0 and 1, one with another total | violation: frames of the earlier run's particles after a purge that failed (`OnlyThisRun`) |
| `ws_server` | 3 clients; 470,063 states | `NoGhosts`, `ServedWhileOpen`, `NothingLeftOpen`, `ClosedForgotten`, `ShutdownReturns` |
| `ws_server_dead` | 3 clients | violation: dead clients not removed (`DeadClientsRemoved`) |
| `grid_manager` | 1 to 64 workers | `Disjoint`, `CoveredIffCube` |
| `sim_server` | 2 clients, frames 0 to 2; 71,655 states | `SetIsCurrent`, `FrameForAll`, `SignalEnds` |
| `sim_server_signal` | 1 client | violation: a signal ends in `std::terminate` (`GracefulShutdown`) |
| `tile_forces` | 7 particles, block of 4 with 3 live threads, 2 tiles | `ForcesOfLoaded`, `TileInPlace` |
| `tile_forces_last` | 5 particles, last block of 3 with 2 live threads | violation: forces from memory nobody wrote (`ForcesComplete`) |
| `ws_connection` | 2 frames in, 2 messages out; 830,951 states | `NoStall`, `WrittenInOrder`, `NothingAfterClose`, `NeverDeaf`, and that the connection implements `ConnLife` |
| `frame_reader` | 14 kinds of frames, up to 4 of them, chunks of any size, buffer of 9 bytes, limit of 6, `size_t` modulo 12; 3,532,143 states | `ChunksDoNotMatter`, `MessageBounded`, `TextValid` |
| `frame_reader_text` | the same | violation: a text that ends within a character is handed over (`TextIsUtf8`) |

Every passing run also checks its module's `TypeOK`.

*Bounds.* Orchestrator: two workers are needed for partial answers, three chunks for
a count that could be reached without all of them, three particles for one that stays, one that migrates and one that is lost while others remain; four steps let
answers be late by one and by two steps, and have one step with some particles lost and one with none left, and MaxRetries = 2 (10 in the code) lets a
retry be used up and the counter be reset in between. Within three polls a timeout can come before,
between and after the answers of both workers. `WsServer`: with three clients one is
suspended in a send while another leaves and a third comes, the case of equal size.
`SimServer`: one client visited and one still to visit, or one registered and one coming or going. `GridManager`: 64
covers cubes 1, 8, 27, 64 and everything between. `TileForces`: two tiles are what a
thread that runs ahead needs; the theorems have no bound. `WsConnection`: a second frame after a close frame
or an error, in either direction, is what brings a connection to the same step twice; the theorems have no bound.
`FrameReader`: four frames are a message of two fragments with a control frame in between and a
frame after it, and frames are longer or shorter than the buffer, so chunks end in each part of a frame. One
continuation announces 11 bytes, which with one byte or more before it wraps modulo 12 and passes the check.

*Deadlock* is checked in every run; where a program ended or a bound is reached, a named
action (`Ended`, `Done`) stutters.

*Fairness.* `Orchestrator`: `WF_vars(MainLoop)` only, the coroutine keeps running and
batches are finite; nothing is assumed of workers and brokers, so `StepDecided` says that
timeouts alone decide a step. `WsServer`: strong fairness for broadcast and callbacks. asyncio runs its ready callbacks in turn whenever
its loop is free; a ready one is disabled while another coroutine runs or `run_simulation` holds the loop. Nothing makes
`run_simulation` give the loop back: it may hold it for ever, and then fairness gives nothing. `ClosedForgotten` and the part of `ShutdownReturns`
about `run_server` therefore have `LoopIsShared` as their condition, which the code meets whenever `_collect_updates` gets to its sleep again and again, but
which it does not guarantee; the shutdown of `run()` needs no condition, as the simulation is over by then. A suspended send ends by the
peer's reading or by the keepalive (`ping_timeout=30`). No fairness for clients,
signals, or frames. `WsConnection`: weak fairness for the loop of a handler that has begun, strong for timers, which are
disabled while a handler runs: a clock and an event loop that keep running. Nothing is assumed of the peer, the network or
the sending thread, so it is the timers that decide attempts and closing handshakes. `SimServer`: strong fairness for the main thread, for the handlers, for the loop
and for the signal handler on each thread: threads run, and one that waits for a mutex which is free again and again gets it. Neither
standard nor system promises the last part for a mutex, but a thread that is passed over for ever is not what happens under a scheduler with two threads.

*Slips.* Definitions marked `slip` are the plausible mistakes (a lost reset, a count of duplicates,
a missing lock) each property was tried against: put in place of the definition that
follows them, they make the property fail.

## 4. What is proved

For every value of the constants that satisfies the assumptions named in the modules:

| Module | Theorem | Says |
|---|---|---|
| `OrchestratorProofs` | `TypeCorrect` | types |
| | `RetryBudgetHolds` | at most MaxRetries + 1 attempts per step, and all of them before an abort |
| | `CollectsThisStepHolds` (*) | the collector holds parts of this step's answers only, counted once |
| | `LostOnlyOutsideHolds` (*) | each step and each frame has exactly the particles that were never out of all bounds |
| | `FramesInOrderHolds` | frames in the order of their steps, at most once |
| | `OnlyWholeStepsHolds` (*) | only a step for which every worker's whole answer to it is there changes particles and queue |
| | `ImplementsStepSync` (*) | the loop implements the safety part of `StepSync` |
| `WsServerProofs` | `ServerTyped` | types |
| | `NobodyForgotten` | a registered client has a handler that will remove it |
| | `WaitingAreServed` | a waiting client is registered unless a send to it raised, or until a shutdown |
| | `ShutdownLeavesNothing` | after a shutdown nothing is open and no handler runs |
| `SimServerProofs` | `SimServerTyped` | types |
| | `SetCurrent` | the client set follows the handlers |
| | `FrameToAll` | a frame whose loop ended went to all registered clients, in order |
| `TileForcesProofs` | `TileTyped` | types |
| | `TileInPlaceHolds` | the two barriers suffice, for every launch |
| | `ForcesOfLoadedHolds` | each particle is summed exactly once, with its own data if a live thread loaded it |
| `GridManagerProofs` | `GridTyped` | types |
| | `GridDisjoint` | bounds never overlap or leave the box |
| | `GridCovered` | they cover it exactly when the number of workers is a cube |
| `WsConnectionProofs` | `ConnectionConsistent` | the inductive invariant `ConnInv` |
| | `NothingStalls` | no queued frame waits without a writer |
| | `AlwaysReading` | an open connection is read from or processed |
| | `ImplementsLife` | the connection implements the safety part of `ConnLife` |
| `WsQueueProofs` | `QueueInOrder` | what is on the wire is a prefix of what was queued |
| | `ConnectionTyped` | types |
| | `QuietAfterClose` | nothing follows the last close frame |
| `FrameReaderProofs` | `ReaderReads` | the inductive invariant `ReaderInv` |
| | `ReaderTyped` | types |
| | `ChunksHold` | messages and errors are those the whole frames mean, for every way to cut the bytes |
| | `MessageSizeHolds` | no message exceeds the limit unless an announced length can make the sum wrap |
| | `TextHolds` | texts have no invalid byte, and end in a whole character when they came in one frame |

(*) assumes `Leftover = {}`: with old answers `TopicsSound` is false, and `orchestrator_stale`
shows that what the theorems conclude is too.

*Orchestrator.* `TypeInv` is types plus `Counting`, which ties `attempts` to `retry_count` at
each `pc`; `RetryBudget` follows from it, whereas it is not inductive alone, as it
does not say how many attempts a given `retry_count` stands for. `ParticleInv` adds what is in the
topics (`TopicsSound`: every job carries the particles that geometry has left at its step, every answer is the
function `Answer` of its step, worker and index) to `CollectsThisStep` and `LostOnlyOutside`. The key lemma is
`WholeAnswer`: a buffer whose count equals the total holds every index, because it counts indices of an
interval once (`IntervalSize`), and the union of the chunks then is the worker's
particles; `MergedWhole` joins the workers: together their answers are what is left and within somebody's bounds. The three parts need each other: jobs
carry the right particles only because every finished step had them, which rests on whole
answers, which rest on what jobs carried. `OnlyWholeSteps` is a step of the same invariant, since `Complete` counts entries of `updates` and `CollectsThisStep` says what is in them. `FramesInOrder` is inductive with `TypeInv`;
its lemmas treat putting, taking, showing and dropping a frame. `StepRefined` maps each
step to `Advance`, `Show`, `Lose`, `GiveUp` or a stutter.

*WsServer.* `ServerInv` adds two facts to the properties: a client among the dead had a send that raised (`DeadRaised`), so a
broadcast's removal drops no other; and a server that is down, or was never started and will not be, which alone lets `shutdown` return, has nothing
open and accepts nothing again (`DownIsEmpty`). *SimServer.* `SharedInv` adds to `SetIsCurrent` what a handler that waits for `clients_mutex` knows of
its connection (`HandlerKnows`), that visits begin anew with every frame (`VisitsBegin`), and that the main thread holds the `io_service`'s mutex where its code does (`LockKnown`).
`SentInOrder` says which frame each client has: nobody one that is newer than
the loop's, and those visited just this one; with `SetIsCurrent` it gives `FrameForAll`.

*TileForces.* `TileInv` says that the live threads are in one tile, all loading or all
summing, and that an entry is loaded from its thread's load to the end of the tile. `SumInv` adds
that a thread has in its sum exactly the particles below `Reached`, once each; it needs `TileInv` for
whose data was read, and `TilesCover`, that the rounded-up number of tiles reaches the last particle.

*GridManager.* `CellOfNumber` and `NumberOfCell`: numbers below the cube of `Dim` and cells are in one-to-one
correspondence. Two workers thus differ on some axis; and if their number is less than the cube, the
last cell is nobody's. `DimIsLeast` shows that `Dim` is well defined, by the least element
of a set of naturals. The theorems are about the exact cube root, see 2.4.

*WsConnection.* `ConnInv` has five parts that need each other. `HandlersMatch` says which handlers were
called in each state, and which one a running shutdown is yet to call; `ControlOK` that
a shutdown timer runs only in a late shutdown. With these a second `Terminate` and a timer that fires late
find the connection closed and call nothing. `SessionBegun` keeps frames out of the opening handshake, and `FlagOwned` ties
the write flag to an outstanding write, which is why `NoStall` survives the sending thread: between its push and
its dispatch the thread itself is the promised writer. `QueueKept`: every frame queued is on the wire, in the
batch or in the queue, in this order, until a write fails; after that the flag is never given back. `TerminalLast`
(a terminal frame ends its batch, and the flag is kept once it is written) and `QueuedAfterClose` (after the
close frame of `close` the queue gets terminal frames and at most the one message whose `send` had looked before) give
`NothingAfterClose`.

*FrameReader.* `ReaderInv` says that the reader stands behind the j-th byte of some k-th frame. `Place` is what it shares with the stream:
`unread` is exactly what follows that byte, and the messages handed over are those `Meant` has for the first k - 1 frames. The rest depends on
where j is: in the basic header, in the extended header and key, or in the payload (`InBasicHeader`, `InExtendedHeader`, `InPayload`); each time the
headers are the bytes of this frame and the metadata hold the message begun so far with the payload's bytes before j, with the key's rotation and the
validator's state that fit. After an error (`Failed`) it is this frame that is not acceptable after those before it. None of the four invariants is
inductive alone: `ChunksDoNotMatter` is about the ends of chunks only and says nothing of a frame that is half read, and
`TextValid` needs the validator to be that of the payload held.
The steps rest on lemmas about the model's operators: `AtTake` and `AtEnd` (taking n bytes leads n bytes further, and the end of
a frame is the start of the next), `UnmaskedIsPayload` (the payload comes out as it was sent, because header and rotation fit),
`DecodeInParts` and `RejectStays` (the validator over a payload in two parts is that over the whole, and does not recover), `MeantRecursion` and
`GoodMeaning` (what each further frame adds, and that it keeps UTF-8 and, when no sum wraps (`SumFits`), the limit). The recursive functions are
shown to be well defined by `Iterates`, and equal to what they are compared with by `SameRun`, from the least number where they would not be.
The assumption `ReaderAssumption` is about types, that a length in the basic header is minimal (it has no other form), and that lengths and limit are numbers below `SizeT`. `MaxFrames` bounds
the instance and plays no part in the proofs.

*Only model-checked:* liveness (`StepDecided`, the fairness parts of `SyncSpec` and `LifeSpec`,
`ClosedForgotten`, `ShutdownReturns`, `SignalEnds`), which is out of the prover's
reach, as is whatever needs `ENABLED`. Every invariant and every action property of a passing run is a theorem; those of
`Orchestrator` that need clean topics are so under `Leftover = {}`.

## 5. Where code and comments disagree

1. `server.py` 178: a purge that fails is only logged, so the topics are not clean before the
   start as line 186 says (`orchestrator_stale`). Ids are fresh in every run, so the old particles replace the new ones unnoticed.
2. `websocket.py` 72: the set changes during the iteration, which raises, and the disconnected clients
   are not removed as line 85 says (`ws_server_dead`); clients after them miss the frame.
3. `main.cpp` 106: the thread is never joined, so each shutdown by a signal aborts (`sim_server_signal`).
4. `particle_kernel.cu` 85: threads return before they load their entry of the tile (`tile_forces_last`).
5. `hybi13.hpp` 536-541: text messages are to end on a whole character, but the check is made when the last frame's opcode is `TEXT`. A fragmented text ends with
   a `CONTINUATION` and may end within a character (`frame_reader_text`). What holds is `TextValid`: no invalid byte in any text, whole characters in a text of one frame.

Noted while modelling, and shown by the models without a run of their own:

- `connection_impl.hpp` 1389: the timer of the opening handshake, when it has expired already, is not stopped by
  `cancel`, and its handler (1676) does not look at the state: it closes the connection that was just opened. `ConnLife` allows
  this, because the program sees an open and a close.
- `hybi13.hpp` 457: the limit of a message (`processor.hpp` 181, "determines the point at which the processor will fail a connection") is compared with
  a sum in `size_t`. A continuation that announces a length close to 2^64 makes it wrap and is accepted, and its payload is appended beyond the limit. The
  instance has such a frame, `MessageBounded` holds only for streams without (`NoneWraps`).
- `websocket.py` 81-83: a client to whom `send` raised anything is removed from the set, its connection still open; line 85 calls those removed the
  disconnected ones. It gets no more frames and is not closed before the shutdown. `ServedWhileOpen` allows just this.
- `main.cpp` 29: a signal that interrupts a thread while it holds the mutex of the `io_service` hangs the process; `SignalEnds` names it as the exception.
- `grid_manager.py` 33: unless the number of workers is a cube, particles get where no worker answers for them, and the merge drops them silently (`LostOnlyOutside`).

## 6. What is not modelled

Kafka's and the workers' own behaviour beyond section 2.1; physics (floating point); the encoding of
messages and frames to send; schemas, configuration and logging, which keep no state. Not yet modelled, and in the
plan: `run()` as a whole, `recreate_kafka_topics`, the collision phases of the kernels and the single-process server.

By lines, most of the repository is vendored: `ci/json.hpp` alone is 24,596 lines, of which the program uses building
and dumping one object, and websocketpp is most of the rest: client role, TLS, two other transports, older protocol versions,
compression, HTTP parsing, SHA-1 and base64, tests and examples. What of it runs in this program and keeps state over
events is a connection and its frame reader, which are modelled; the rest is not run, or is a
conversion without state. The specifications therefore cover a small share of the repository's lines, and most of the
lines the project's own programs have that decide an order of events.
