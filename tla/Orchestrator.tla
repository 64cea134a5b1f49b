---------------------------- MODULE Orchestrator ----------------------------
(* The simulation loop of src/pipeline/server.py: Orchestrator.run_simulation *)
(* and what it calls (distribute_particles, _collect_updates,                 *)
(* _merge_with_bounds_check, _build_frame_data), the task ws_data_sender that *)
(* shares its event loop, and purge_topics, which run() awaits first.         *)
(*                                                                            *)
(* The workers and Kafka are not part of the repository.  Their actions say   *)
(* what the orchestrator relies on: a worker that was sent the particles of a *)
(* step may publish any chunks of its answer, in any order, any number of     *)
(* times or never, and the consumer may be handed any published message again *)
(* (producers retry and offsets are committed late), so `replies' only grows. *)
EXTENDS Integers, Sequences, FiniteSets

CONSTANTS
  Worker,       \* range(self.num_workers)
  Particle,     \* ids of the particles of this run (uuid4: fresh in every run)
  OldParticle,  \* ids used by earlier runs
  MaxStep,      \* bound of the model on current_step
  MaxRetries,   \* MAX_RETRIES
  MaxPolls,     \* iterations of the collecting loop that fit in its timeout
  Place,        \* Place[s][p]: the worker within whose bounds particle p is after
                \* step s, and the chunk of its answer; no entry when p is
                \* within nobody's bounds
  Total,        \* Total[s][w]: number of chunks of worker w's answer to step s
  Leftover      \* answers an earlier run left in topic particle_updates

Step == 0..MaxStep
Id == Particle \cup OldParticle
Frame == [t : Nat, ids : SUBSET Id]
Job == [worker : Worker, step : Step, particles : SUBSET Id]
Reply == [worker : Worker, step : Step, idx : Nat, total : Nat, particles : SUBSET Id]

ASSUME NumbersAssumption == /\ MaxStep \in Nat
                            /\ MaxRetries \in Nat
                            /\ MaxPolls \in Nat \ {0}
ASSUME SetsAssumption == /\ IsFiniteSet(Worker) /\ Worker # {}
                         /\ Particle # {}
                         /\ Particle \cap OldParticle = {}
(* Bounds do not overlap, but need not cover the box (GridManager), and a worker *)
(* answers with at least one chunk (an empty one when it holds no particle).    *)
Covered == [s \in Step |-> DOMAIN Place[s]]
ASSUME AnswerAssumption ==
  /\ Total \in [Step -> [Worker -> Nat \ {0}]]
  /\ \A s \in Step :
        /\ Covered[s] \subseteq Id
        /\ Place[s] \in [Covered[s] -> Worker \X Nat]
        /\ \A p \in Covered[s] : Place[s][p][2] < Total[s][Place[s][p][1]]
ASSUME LeftoverAssumption ==
  Leftover \subseteq [worker : Worker, step : Step, idx : Nat, total : Nat \ {0},
                      particles : SUBSET OldParticle]

VARIABLES
  pc,             \* where run() stands
  current_step, retry_count,
  particles,      \* self.particles, by id
  updates,        \* worker -> the particles of its whole answer
  chunks_buffer,  \* worker -> the chunks received so far, and their count
  polls,          \* iterations done by this call of _collect_updates
  attempts,       \* times the current step was attempted (history)
  jobs,           \* topic particle_chunks
  replies,        \* topic particle_updates
  ws_queue,       \* frames waiting for ws_data_sender
  sender,         \* where ws_data_sender stands
  hand,           \* the frame ws_data_sender took: no frame or one
  shown           \* frames it finished broadcasting (history)

attempt == <<updates, chunks_buffer, polls>>
main    == <<pc, current_step, retry_count, particles, attempts, attempt>>
topics  == <<jobs, replies>>
output  == <<ws_queue, sender, hand, shown>>
vars    == <<main, topics, output>>

-----------------------------------------------------------------------------
(* A Python dict is a function on the keys it has.                           *)
Empty == [x \in {} |-> {}]
Put(f, k, v) == [x \in DOMAIN f \cup {k} |-> IF x = k THEN v ELSE f[x]]
Del(f, k) == [x \in DOMAIN f \ {k} |-> f[x]]
IsDict(f, S, T) == DOMAIN f \subseteq S /\ \A x \in DOMAIN f : f[x] \in T

(* The chunks received from one worker, by index, and their number.           *)
IsBuffer(b) == /\ b = [chunks |-> b.chunks, received |-> b.received]
               /\ IsDict(b.chunks, Nat, SUBSET Id)
               /\ b.received \in Nat

Stopped == {"aborted", "failed"}
PC == {"purge", "initialize", "distribute", "loop", "batch", "sleep", "evaluate"} \cup Stopped

MainTypes ==
  /\ pc \in PC
  /\ current_step \in Step
  /\ retry_count \in 0..MaxRetries
  /\ attempts \in 0..(MaxRetries + 1)
  /\ particles \subseteq Id

AttemptTypes ==
  /\ polls \in 0..MaxPolls
  /\ IsDict(updates, Worker, SUBSET Id)
  /\ DOMAIN chunks_buffer \subseteq Worker
  /\ \A w \in DOMAIN chunks_buffer : IsBuffer(chunks_buffer[w])

TopicTypes == jobs \subseteq Job /\ replies \subseteq Reply

OutputTypes ==
  /\ ws_queue \in Seq(Frame)
  /\ shown \in Seq(Frame)
  /\ sender \in {"get", "send", "pause", "cancelled"}
  /\ hand \in Seq(Frame) /\ Len(hand) = IF sender = "send" THEN 1 ELSE 0

TypeOK == MainTypes /\ AttemptTypes /\ TopicTypes /\ OutputTypes

Init ==
  /\ pc = "purge"
  /\ current_step = 0 /\ retry_count = 0 /\ attempts = 0 /\ polls = 0
  /\ particles = Particle
  /\ updates = Empty /\ chunks_buffer = Empty
  /\ jobs = {} /\ replies = Leftover
  /\ ws_queue = <<>> /\ sender = "get" /\ hand = <<>> /\ shown = <<>>

-----------------------------------------------------------------------------
(* Before the loop.                                                          *)

(* purge_topics empties the topics; when it fails it logs the error and run() *)
(* goes on with whatever the topics hold.                                     *)
Purge ==
  /\ pc = "purge"
  /\ pc' = "initialize"
  /\ replies' = {}
  /\ UNCHANGED <<current_step, retry_count, particles, attempts, attempt, jobs, output>>

PurgeFails ==
  /\ pc = "purge"
  /\ pc' = "initialize"
  /\ UNCHANGED <<current_step, retry_count, particles, attempts, attempt, topics, output>>

(* initialize_simulation: the kernel and the start commands are sent, or an   *)
(* exception takes run() to its end.                                          *)
Initialize ==
  /\ pc = "initialize"
  /\ pc' \in {"distribute", "failed"}
  /\ UNCHANGED <<current_step, retry_count, particles, attempts, attempt, topics, output>>

-----------------------------------------------------------------------------
(* distribute_particles.  The chunks of one worker's job are one message here: *)
(* a worker can act on the job only when it has all of them.                   *)
JobsOf(s) == {[worker |-> w, step |-> s, particles |-> particles] : w \in Worker}

(* The history of attempts; one above the budget is as good as any more.        *)
CountAttempt == attempts' = IF attempts <= MaxRetries + 1 THEN attempts + 1 ELSE attempts

(* The top of the while loop; nothing is sent when there are no particles.    *)
Distribute ==
  /\ pc = "distribute" /\ current_step < MaxStep
  /\ jobs' = IF particles # {} THEN jobs \cup JobsOf(current_step) ELSE jobs
  /\ CountAttempt
  /\ pc' = "loop"
  /\ UNCHANGED <<current_step, retry_count, particles, attempt, replies, output>>

(* A send or its acknowledgement fails: some jobs are out, and the exception   *)
(* ends run_simulation.                                                        *)
DistributeFails ==
  /\ pc = "distribute" /\ current_step < MaxStep /\ particles # {}
  /\ \E sent \in SUBSET JobsOf(current_step) : jobs' = jobs \cup sent
  /\ CountAttempt
  /\ pc' = "failed"
  /\ UNCHANGED <<current_step, retry_count, particles, attempt, replies, output>>

(* External: worker j.worker publishes chunk i of its answer to job j, namely *)
(* those of the particles it was sent that are now within its bounds.          *)
Answer(j, i) == [worker |-> j.worker, step |-> j.step, idx |-> i,
                 total |-> Total[j.step][j.worker],
                 particles |-> {p \in j.particles \cap Covered[j.step] :
                                   Place[j.step][p] = <<j.worker, i>>}]

WorkerAnswers ==
  /\ \E j \in jobs : \E i \in 0..(Total[j.step][j.worker] - 1) :
        replies' = replies \cup {Answer(j, i)}
  /\ UNCHANGED <<main, jobs, output>>

-----------------------------------------------------------------------------
(* _collect_updates.                                                         *)

(* The while condition holds and poll hands over a batch.  The clock moves at *)
(* least by the sleep of 0.1 s that ends each iteration, so MaxPolls           *)
(* iterations exhaust the timeout, and polls that wait do so sooner.           *)
Poll ==
  /\ pc = "loop" /\ polls < MaxPolls
  /\ polls' = polls + 1
  /\ pc' = "batch"
  /\ UNCHANGED <<current_step, retry_count, particles, attempts, updates, chunks_buffer, topics, output>>

(* The while condition fails.                                                *)
TimeOut ==
  /\ pc = "loop" /\ polls > 0
  /\ pc' = "evaluate"
  /\ UNCHANGED <<current_step, retry_count, particles, attempts, attempt, topics, output>>

(* The buffer of m's worker once m is in it: only a chunk index that is new is *)
(* stored and counted.                                                         *)
BufferedCountingAgain(m) ==  \* slip: counts a chunk each time it arrives
  LET old == IF m.worker \in DOMAIN chunks_buffer
             THEN chunks_buffer[m.worker] ELSE [chunks |-> Empty, received |-> 0]
  IN [chunks |-> Put(old.chunks, m.idx, m.particles), received |-> old.received + 1]
Buffered(m) ==
  LET old == IF m.worker \in DOMAIN chunks_buffer
             THEN chunks_buffer[m.worker] ELSE [chunks |-> Empty, received |-> 0]
  IN IF m.idx \in DOMAIN old.chunks THEN old
     ELSE [chunks |-> Put(old.chunks, m.idx, m.particles), received |-> old.received + 1]

(* The messages of the batch, one by one.  _validate_update skips those of     *)
(* another step, which changes nothing.  The count is compared with the total  *)
(* of the message at hand.                                                     *)
InBatchOfAnyStep(m) == pc = "batch"  \* slip: the step is not compared
InBatch(m) == pc = "batch" /\ m.step = current_step

Keep(m) ==
  /\ InBatch(m) /\ Buffered(m).received # m.total
  /\ chunks_buffer' = Put(chunks_buffer, m.worker, Buffered(m))
  /\ UNCHANGED <<pc, current_step, retry_count, particles, attempts, updates, polls, topics, output>>

Assemble(m) ==
  LET b == Buffered(m) IN
  /\ InBatch(m) /\ b.received = m.total
  /\ 0..(m.total - 1) \subseteq DOMAIN b.chunks
  /\ updates' = Put(updates, m.worker, UNION {b.chunks[i] : i \in 0..(m.total - 1)})
  /\ chunks_buffer' = Del(chunks_buffer, m.worker)
  /\ UNCHANGED <<pc, current_step, retry_count, particles, attempts, polls, topics, output>>

Receive == \E m \in replies : Keep(m) \/ Assemble(m)

(* poll, commit or decoding raises, or the count is right and an index missing    *)
(* (KeyError): nothing on the way catches it but the handler that ends            *)
(* run_simulation.                                                              *)
CollectFails ==
  /\ pc = "batch"
  /\ pc' = "failed"
  /\ UNCHANGED <<current_step, retry_count, particles, attempts, attempt, topics, output>>

CompleteButOne == Cardinality(DOMAIN updates) + 1 >= Cardinality(Worker)  \* slip
Complete == Cardinality(DOMAIN updates) >= Cardinality(Worker)

(* After the batch: break when every worker's answer is whole, otherwise sleep. *)
EndBatch ==
  /\ pc = "batch"
  /\ pc' = IF Complete THEN "evaluate" ELSE "sleep"
  /\ UNCHANGED <<current_step, retry_count, particles, attempts, attempt, topics, output>>

Wake ==
  /\ pc = "sleep"
  /\ pc' = "loop"
  /\ UNCHANGED <<current_step, retry_count, particles, attempts, attempt, topics, output>>

-----------------------------------------------------------------------------
(* run_simulation after _collect_updates; its dictionaries are local to the   *)
(* call and start empty in the next one.                                      *)
Discard == updates' = Empty /\ chunks_buffer' = Empty /\ polls' = 0

MayRetryOnceMore == retry_count <= MaxRetries      \* slip: one too many
MayRetry == retry_count < MaxRetries
CountRetryNot == UNCHANGED retry_count             \* slip
CountRetry == retry_count' = retry_count + 1

Retry ==
  /\ pc = "evaluate" /\ ~Complete /\ MayRetry
  /\ CountRetry
  /\ Discard
  /\ pc' = "distribute"
  /\ UNCHANGED <<current_step, particles, attempts, topics, output>>

Abort ==
  /\ pc = "evaluate" /\ ~Complete /\ ~MayRetry
  /\ Discard
  /\ pc' = "aborted"
  /\ UNCHANGED <<current_step, retry_count, particles, attempts, topics, output>>

(* _merge_with_bounds_check: the answers by particle id; bounds are not checked. *)
Merged == UNION {updates[w] : w \in DOMAIN updates}

ResetRetriesNot == UNCHANGED retry_count           \* slip
ResetRetries == retry_count' = 0

StepDone ==
  /\ pc = "evaluate" /\ Complete
  /\ ws_queue' = Append(ws_queue, [t |-> current_step, ids |-> Merged])
  /\ particles' = Merged
  /\ current_step' = current_step + 1
  /\ ResetRetries /\ attempts' = 0
  /\ Discard
  /\ pc' = "distribute"
  /\ UNCHANGED <<topics, sender, hand, shown>>

-----------------------------------------------------------------------------
(* ws_data_sender.  It runs when the loop above gives the event loop away,     *)
(* which poll and the put on an unbounded queue do not: only in the sleep of   *)
(* _collect_updates and after run_simulation returned.                         *)
Yielded == pc = "sleep" \/ pc \in Stopped

TakeFrameAndKeepIt ==  \* slip: the frame stays in the queue
  /\ Yielded /\ sender = "get" /\ ws_queue # <<>>
  /\ hand' = <<Head(ws_queue)>>
  /\ sender' = "send"
  /\ UNCHANGED <<main, topics, shown, ws_queue>>

TakeFrame ==
  /\ Yielded /\ sender = "get" /\ ws_queue # <<>>
  /\ hand' = <<Head(ws_queue)>>
  /\ ws_queue' = Tail(ws_queue)
  /\ sender' = "send"
  /\ UNCHANGED <<main, topics, shown>>

FrameSent ==
  /\ Yielded /\ sender = "send"
  /\ shown' = Append(shown, Head(hand))
  /\ hand' = <<>>
  /\ sender' = "pause"
  /\ UNCHANGED <<main, topics, ws_queue>>

(* broadcast raised: the error is logged and the frame is gone.               *)
SendFailsAndRequeues ==  \* slip: the frame goes back to the end of the queue
  /\ Yielded /\ sender = "send"
  /\ ws_queue' = ws_queue \o hand
  /\ hand' = <<>>
  /\ sender' = "get"
  /\ UNCHANGED <<main, topics, shown>>

SendFails ==
  /\ Yielded /\ sender = "send"
  /\ hand' = <<>>
  /\ sender' = "get"
  /\ UNCHANGED <<main, topics, ws_queue, shown>>

Resume ==
  /\ Yielded /\ sender = "pause"
  /\ sender' = "get"
  /\ UNCHANGED <<main, topics, ws_queue, hand, shown>>

(* run() is over and asyncio.run cancels the tasks that are left, the sender   *)
(* among them, with whatever is in its queue.                                  *)
CancelSender ==
  /\ pc \in Stopped /\ sender # "cancelled"
  /\ sender' = "cancelled"
  /\ hand' = <<>>
  /\ UNCHANGED <<main, topics, ws_queue, shown>>

(* The program ended, or the model's bound on steps is reached.               *)
Ended ==
  /\ \/ pc \in Stopped /\ sender = "cancelled"
     \/ pc = "distribute" /\ current_step = MaxStep
  /\ UNCHANGED vars

-----------------------------------------------------------------------------
MainLoop == \/ Purge \/ PurgeFails \/ Initialize
            \/ Distribute \/ DistributeFails
            \/ Poll \/ TimeOut \/ EndBatch \/ Wake
            \/ Retry \/ Abort \/ StepDone
Collecting == Receive \/ CollectFails
Sending == TakeFrame \/ FrameSent \/ SendFails \/ Resume \/ CancelSender

Next == MainLoop \/ Collecting \/ WorkerAnswers \/ Sending \/ Ended

(* The coroutine keeps running and a batch is finite, so the main loop's own   *)
(* steps are not postponed for ever.  Nothing is assumed of workers or brokers. *)
Spec == Init /\ [][Next]_vars /\ WF_vars(MainLoop)

-----------------------------------------------------------------------------
(* Properties.                                                               *)

(* The particles that are left when step s begins: those that were within some   *)
(* worker's bounds after each step before it.                                  *)
Remaining(s) == {p \in Particle : \A r \in 0..(s - 1) : p \in Covered[r]}

(* What worker w answers to step s, and chunk i of it.                          *)
AnswerOf(s, w) == {p \in Remaining(s) \cap Covered[s] : Place[s][p][1] = w}
ChunkOf(s, w, i) == {p \in Remaining(s) \cap Covered[s] : Place[s][p] = <<w, i>>}

(* Chunking, retries, duplicates and merging lose no particle and bring none      *)
(* back: the orchestrator and every frame hold exactly those that geometry has     *)
(* left.  A particle is lost for good as soon as it is within nobody's bounds,      *)
(* and never otherwise (run_simulation, lines 456-484).                          *)
LostOnlyOutside ==
  /\ particles = Remaining(current_step)
  /\ \A i \in DOMAIN ws_queue : ws_queue[i].ids = Remaining(ws_queue[i].t + 1)
  /\ \A i \in DOMAIN hand : hand[i].ids = Remaining(hand[i].t + 1)
  /\ \A i \in DOMAIN shown : shown[i].ids = Remaining(shown[i].t + 1)

(* What the collector works on is of the step at hand: an assembled answer is  *)
(* that worker's whole answer to this step, a buffered chunk is part of it and  *)
(* never all of it, although answers to other steps and attempts arrive too     *)
(* (_collect_updates, lines 352-404).                                          *)
CollectsThisStep ==
  /\ \A w \in DOMAIN updates : updates[w] = AnswerOf(current_step, w)
  /\ \A w \in DOMAIN chunks_buffer :
        LET b == chunks_buffer[w] IN
        /\ DOMAIN b.chunks \subseteq 0..(Total[current_step][w] - 1)
        /\ \A i \in DOMAIN b.chunks : b.chunks[i] = ChunkOf(current_step, w, i)
        /\ b.received = Cardinality(DOMAIN b.chunks)
        /\ b.received < Total[current_step][w]

(* Frames leave in the order of their steps, each at most once: the waiting     *)
(* frames are those of the last steps done, without a gap; the frame in hand    *)
(* is older than they are, the frames shown are older still and in order        *)
(* (ws_data_sender, lines 489-505).                                            *)
Ordered(waiting, inHand, seen, now) ==
  LET next == now - Len(waiting) IN  \* time of the first waiting frame
  /\ \A i \in 1..Len(waiting) : waiting[i].t = next + i - 1
  /\ \A i \in 1..Len(inHand) : inHand[i].t < next
  /\ \A i \in 1..Len(seen) : /\ seen[i].t < next
                             /\ \A k \in 1..Len(inHand) : seen[i].t < inHand[k].t
                             /\ \A j \in 1..Len(seen) : i < j => seen[i].t < seen[j].t
FramesInOrder == Ordered(ws_queue, hand, shown, current_step)

(* The retry budget is per step: no step is attempted more than MaxRetries + 1 *)
(* times, and the simulation is not aborted before that (lines 466-473).       *)
RetryBudget ==
  /\ attempts <= MaxRetries + 1
  /\ pc = "aborted" => attempts = MaxRetries + 1

(* The particles change only when a step is done, from the whole answers of all  *)
(* workers to that very step, and then its frame is put in the queue at once: a    *)
(* partial, late or mixed answer never gets out (lines 398-412, 466-484).        *)
OnlyWholeSteps ==
  [][particles' # particles \/ Len(ws_queue') > Len(ws_queue)
       => /\ current_step' = current_step + 1
          /\ DOMAIN updates = Worker
          /\ \A w \in Worker : updates[w] = AnswerOf(current_step, w)
          /\ ws_queue' = Append(ws_queue, [t |-> current_step, ids |-> particles'])]_vars

(* Whatever workers and brokers do, a step is done or given up: the loop of    *)
(* timeouts and retries does not go on for ever.                               *)
StepDecided ==
  \A s \in 0..(MaxStep - 1) :
    (pc = "distribute" /\ current_step = s) ~> (current_step > s \/ pc \in Stopped)

(* Frames show particles of this run only (comment of run(), line 186: the     *)
(* topics are cleaned before the start).                                       *)
OnlyThisRun == \A i \in DOMAIN shown : shown[i].ids \subseteq Particle

-----------------------------------------------------------------------------
(* What makes the properties inductive (proved in OrchestratorProofs).        *)

(* retry_count and the number of attempts go together, and an attempt is made  *)
(* only below the bound.                                                      *)
Counting ==
  /\ pc \in {"loop", "batch", "sleep", "evaluate", "aborted"} => attempts = retry_count + 1
  /\ pc \in {"purge", "initialize", "distribute"} => attempts = retry_count
  /\ pc \in {"loop", "batch", "sleep", "evaluate"} => current_step < MaxStep
  /\ pc = "aborted" => retry_count = MaxRetries

(* What is in the topics: jobs carry the particles of their step, and an answer   *)
(* is what its worker answers to a job of that step.                            *)
TopicsSound ==
  /\ \A j \in jobs : j.particles = Remaining(j.step)
  /\ \A m \in replies :
        /\ m.total = Total[m.step][m.worker]
        /\ m.idx < m.total
        /\ m.particles = ChunkOf(m.step, m.worker, m.idx)

TypeInv == TypeOK /\ Counting
ParticleInv == TypeInv /\ TopicsSound /\ CollectsThisStep /\ LostOnlyOutside

(* The abstract promise.                                                      *)
Sync == INSTANCE StepSync WITH
          step <- current_step,
          outbox <- hand \o ws_queue,
          status <- IF pc \in Stopped THEN "stopped" ELSE "running"
SyncSpec == Sync!Spec
=============================================================================
