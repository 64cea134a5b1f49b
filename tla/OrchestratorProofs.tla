------------------------- MODULE OrchestratorProofs -------------------------
(* Proofs about Orchestrator, for every set of workers and particles, every    *)
(* placement of the particles and every bound.                                *)
EXTENDS Orchestrator, FiniteSetTheorems, SequenceTheorems, TLAPS

(* Expansions every step that leaves a group of variables alone needs.        *)
USE DEF vars, main, topics, output, attempt

-----------------------------------------------------------------------------
(* Python dicts: what storing and deleting a key preserve.                    *)

LEMMA PutDict ==
  ASSUME NEW f, NEW S, NEW T, IsDict(f, S, T), NEW k \in S, NEW v \in T
  PROVE  IsDict(Put(f, k, v), S, T)
BY DEF IsDict, Put

LEMMA DelDict ==
  ASSUME NEW f, NEW S, NEW T, IsDict(f, S, T), NEW k
  PROVE  IsDict(Del(f, k), S, T)
BY DEF IsDict, Del

LEMMA EmptyDict == ASSUME NEW S, NEW T PROVE IsDict(Empty, S, T)
BY DEF IsDict, Empty

(* Storing a chunk in a worker's buffer keeps it one.                         *)
LEMMA BufferedType ==
  ASSUME TypeOK, NEW m \in replies
  PROVE  IsBuffer(Buffered(m))
<1> DEFINE old == IF m.worker \in DOMAIN chunks_buffer
                  THEN chunks_buffer[m.worker] ELSE [chunks |-> Empty, received |-> 0]
<1>1. m.idx \in Nat /\ m.particles \in SUBSET Id
  BY DEF TypeOK, TopicTypes, Reply
<1>2. IsBuffer(old)
  <2>1. CASE m.worker \in DOMAIN chunks_buffer
    BY <2>1 DEF TypeOK, AttemptTypes
  <2>2. CASE m.worker \notin DOMAIN chunks_buffer
    BY <2>2, EmptyDict DEF IsBuffer
  <2> QED BY <2>1, <2>2
<1>3. IsDict(Put(old.chunks, m.idx, m.particles), Nat, SUBSET Id)
  BY <1>1, <1>2, PutDict DEF IsBuffer
<1>4. Buffered(m) = IF m.idx \in DOMAIN old.chunks THEN old
        ELSE [chunks |-> Put(old.chunks, m.idx, m.particles), received |-> old.received + 1]
  BY DEF Buffered
<1> QED BY <1>2, <1>3, <1>4 DEF IsBuffer

-----------------------------------------------------------------------------
(* Type correctness, one group of variables at a time.                        *)

LEMMA TypeInit == Init => TypeInv
<1> SUFFICES ASSUME Init PROVE TypeInv OBVIOUS
<1>1. Leftover \subseteq Reply
  BY LeftoverAssumption DEF Reply, Id
<1>2. MainTypes /\ TopicTypes /\ Counting
  BY <1>1, NumbersAssumption DEF Init, MainTypes, TopicTypes, Counting, Step, PC, Stopped, Id
<1>3. AttemptTypes
  BY NumbersAssumption, EmptyDict DEF Init, AttemptTypes, Empty
<1>4. OutputTypes
  BY DEF Init, OutputTypes
<1> QED BY <1>2, <1>3, <1>4 DEF TypeInv, TypeOK

(* The actions, grouped by what they leave alone.                             *)
Idle == \/ Purge \/ PurgeFails \/ Initialize \/ Distribute \/ DistributeFails
        \/ TimeOut \/ EndBatch \/ Wake \/ CollectFails
Send == TakeFrame \/ FrameSent \/ SendFails \/ Resume \/ CancelSender

LEMMA NextCases ==
  ASSUME [Next]_vars
  PROVE  \/ Idle \/ Send
         \/ Poll \/ Retry \/ Abort \/ StepDone \/ WorkerAnswers
         \/ \E m \in replies : Keep(m) \/ Assemble(m)
         \/ UNCHANGED vars
BY DEF Next, MainLoop, Collecting, Receive, Sending, Ended, Idle, Send

LEMMA MainTypesNext == ASSUME TypeInv, [Next]_vars PROVE MainTypes' /\ Counting'
<1> USE NumbersAssumption DEF MainTypes, Counting, PC, Stopped, Step
<1>0. MainTypes /\ Counting
  BY DEF TypeInv, TypeOK
<1>1. CASE Idle
  BY <1>0, <1>1 DEF CountAttempt, Idle, Purge, PurgeFails, Initialize, Distribute, DistributeFails,
       TimeOut, EndBatch, Wake, CollectFails, InBatch
<1>2. CASE UNCHANGED main
  BY <1>0, <1>2
<1>3. CASE Poll
  BY <1>0, <1>3 DEF Poll
<1>4. CASE Retry \/ Abort
  BY <1>0, <1>4 DEF Retry, Abort, MayRetry, CountRetry
<1>5. CASE StepDone
  <2>1. Merged \subseteq Id
    BY DEF Merged, TypeInv, TypeOK, AttemptTypes, IsDict
  <2> QED BY <1>0, <1>5, <2>1 DEF StepDone, ResetRetries
<1>6. ASSUME NEW m \in replies, Keep(m) \/ Assemble(m) PROVE MainTypes' /\ Counting'
  BY <1>0, <1>6 DEF Keep, Assemble
<1>7. Send \/ WorkerAnswers => UNCHANGED main
  BY DEF Send, WorkerAnswers, TakeFrame, FrameSent, SendFails, Resume, CancelSender
<1> QED BY <1>1, <1>2, <1>3, <1>4, <1>5, <1>6, <1>7, NextCases

LEMMA AttemptTypesNext == ASSUME TypeInv, [Next]_vars PROVE AttemptTypes'
<1> USE DEF AttemptTypes
<1>0. AttemptTypes
  BY DEF TypeInv, TypeOK
<1>1. CASE UNCHANGED attempt
  BY <1>0, <1>1
<1>2. CASE Poll
  BY <1>0, <1>2, NumbersAssumption DEF Poll
<1>3. CASE Retry \/ Abort \/ StepDone
  <2>1. updates' = Empty /\ chunks_buffer' = Empty /\ polls' = 0
    BY <1>3 DEF Retry, Abort, StepDone, Discard
  <2> QED BY <2>1, EmptyDict, NumbersAssumption DEF Empty
<1>4. ASSUME NEW m \in replies, Keep(m) PROVE AttemptTypes'
  <2>1. IsBuffer(Buffered(m)) /\ m.worker \in Worker
    BY BufferedType DEF TypeInv, TypeOK, TopicTypes, Reply
  <2> QED BY <1>0, <1>4, <2>1 DEF Keep, Put
<1>5. ASSUME NEW m \in replies, Assemble(m) PROVE AttemptTypes'
  <2> DEFINE whole == UNION {Buffered(m).chunks[i] : i \in 0..(m.total - 1)}
  <2>1. IsBuffer(Buffered(m)) /\ m.worker \in Worker
    BY BufferedType DEF TypeInv, TypeOK, TopicTypes, Reply
  <2>2. whole \in SUBSET Id
    BY <1>5, <2>1 DEF Assemble, IsBuffer, IsDict
  <2>3. IsDict(updates', Worker, SUBSET Id)
    BY <1>0, <1>5, <2>1, <2>2, PutDict DEF Assemble
  <2> QED BY <1>0, <1>5, <2>3 DEF Assemble, Del
<1>6. Idle \/ Send \/ WorkerAnswers => UNCHANGED attempt
  BY DEF Idle, Send, WorkerAnswers, TakeFrame, FrameSent, SendFails, Resume, CancelSender,
       Purge, PurgeFails, Initialize, Distribute, DistributeFails, TimeOut, EndBatch, Wake,
       CollectFails
<1> QED BY <1>1, <1>2, <1>3, <1>4, <1>5, <1>6, NextCases

LEMMA TopicTypesNext == ASSUME TypeInv, [Next]_vars PROVE TopicTypes'
<1> USE DEF TopicTypes
<1>0. TopicTypes /\ MainTypes
  BY DEF TypeInv, TypeOK
<1>1. CASE UNCHANGED topics
  BY <1>0, <1>1
<1>2. CASE Purge
  BY <1>0, <1>2 DEF Purge
<1>3. CASE Distribute \/ DistributeFails
  <2>1. JobsOf(current_step) \subseteq Job
    BY <1>0 DEF JobsOf, Job, MainTypes
  <2> QED BY <1>0, <1>3, <2>1 DEF Distribute, DistributeFails
<1>4. CASE WorkerAnswers
  <2> PICK j \in jobs : \E i \in 0..(Total[j.step][j.worker] - 1) :
           replies' = replies \cup {Answer(j, i)}
    BY <1>4 DEF WorkerAnswers
  <2>1. PICK i \in 0..(Total[j.step][j.worker] - 1) :
           replies' = replies \cup {Answer(j, i)}
    OBVIOUS
  <2>2. Total[j.step][j.worker] \in Nat \ {0}
    BY <1>0, AnswerAssumption DEF Job
  <2>3. Answer(j, i) \in Reply
    BY <1>0, <2>2 DEF Answer, Reply, Job, Id
  <2> QED BY <1>0, <1>4, <2>1, <2>3 DEF WorkerAnswers
<1>5. ASSUME NEW m \in replies, Keep(m) \/ Assemble(m) PROVE UNCHANGED topics
  BY <1>5 DEF Keep, Assemble
<1>6. Send \/ Poll \/ Retry \/ Abort \/ StepDone => UNCHANGED topics
  BY DEF Send, TakeFrame, FrameSent, SendFails, Resume, CancelSender, Poll, Retry, Abort, StepDone
<1>7. Idle => UNCHANGED topics \/ Purge \/ Distribute \/ DistributeFails
  BY DEF Idle, PurgeFails, Initialize, TimeOut, EndBatch, Wake, CollectFails
<1> QED BY <1>1, <1>2, <1>3, <1>4, <1>5, <1>6, <1>7, NextCases

LEMMA OutputTypesNext == ASSUME TypeInv, [Next]_vars PROVE OutputTypes'
<1> USE DEF OutputTypes
<1>0. OutputTypes /\ MainTypes
  BY DEF TypeInv, TypeOK
<1>1. CASE UNCHANGED output
  BY <1>0, <1>1
<1>2. CASE StepDone
  <2>1. [t |-> current_step, ids |-> Merged] \in Frame
    BY <1>0 DEF Frame, MainTypes, Step, Merged, TypeInv, TypeOK, AttemptTypes, IsDict
  <2> QED BY <1>0, <1>2, <2>1 DEF StepDone
<1>3. CASE TakeFrame
  BY <1>0, <1>3 DEF TakeFrame
<1>4. CASE FrameSent
  <2>1. Len(hand) = 1 /\ hand \in Seq(Frame) /\ shown \in Seq(Frame)
    BY <1>0, <1>4 DEF FrameSent
  <2>2. hand # <<>>
    <3>1. Len(<<>>) = 0
      BY EmptySeq
    <3> QED BY <2>1, <3>1
  <2>3. Head(hand) \in Frame
    BY <2>1, <2>2, HeadTailProperties
  <2>4. shown' \in Seq(Frame)
    BY <1>4, <2>1, <2>3, AppendProperties DEF FrameSent
  <2> QED BY <1>0, <1>4, <2>4, EmptySeq DEF FrameSent
<1>5. CASE SendFails \/ Resume \/ CancelSender
  BY <1>0, <1>5, EmptySeq DEF SendFails, Resume, CancelSender
<1>6. ASSUME NEW m \in replies, Keep(m) \/ Assemble(m) PROVE UNCHANGED output
  BY <1>6 DEF Keep, Assemble
<1>7. Idle \/ Poll \/ Retry \/ Abort \/ WorkerAnswers => UNCHANGED output
  BY DEF Idle, Poll, Retry, Abort, WorkerAnswers, Purge, PurgeFails, Initialize, Distribute,
       DistributeFails, TimeOut, EndBatch, Wake, CollectFails
<1> QED BY <1>1, <1>2, <1>3, <1>4, <1>5, <1>6, <1>7, NextCases DEF Send

LEMMA TypeNext == TypeInv /\ [Next]_vars => TypeInv'
BY MainTypesNext, AttemptTypesNext, TopicTypesNext, OutputTypesNext DEF TypeInv, TypeOK

(* Types, and the bookkeeping of the retries.                                 *)
LEMMA TypeInvHolds == Spec => []TypeInv
BY TypeInit, TypeNext, PTL DEF Spec

(* Type correctness of the orchestrator's loop, for any workers and bounds.    *)
THEOREM TypeCorrect == Spec => []TypeOK
<1>1. TypeInv => TypeOK
  BY DEF TypeInv
<1> QED BY <1>1, TypeInvHolds, PTL

(* The retry budget is per step (run_simulation, lines 466-476): a step is     *)
(* attempted at most MaxRetries + 1 times, and not given up before that.       *)
THEOREM RetryBudgetHolds == Spec => []RetryBudget
<1>1. TypeInv => RetryBudget
  BY NumbersAssumption DEF TypeInv, TypeOK, MainTypes, Counting, RetryBudget
<1> QED BY <1>1, TypeInvHolds, PTL

-----------------------------------------------------------------------------
(* Only geometry loses particles, when no earlier run left answers behind.    *)

(* Remaining is what geometry makes of the particles, step by step.           *)
LEMMA RemainingFirst == Remaining(0) = Particle
BY DEF Remaining

LEMMA RemainingNext ==
  ASSUME NEW s \in Step
  PROVE  Remaining(s + 1) = Remaining(s) \cap Covered[s]
<1>1. s \in Nat /\ 0..((s + 1) - 1) = 0..(s - 1) \cup {s}
  BY NumbersAssumption DEF Step
<1> QED BY <1>1 DEF Remaining

LEMMA RemainingIds == ASSUME NEW s PROVE Remaining(s) \subseteq Id
BY DEF Remaining, Id

LEMMA ParticleInit == ASSUME Leftover = {} PROVE Init => ParticleInv
BY TypeInit, RemainingFirst
   DEF Init, ParticleInv, TopicsSound, CollectsThisStep, LostOnlyOutside, Empty

(* The topics: a job carries the particles that are left, so an answer to it is sound. *)
LEMMA TopicsSoundNext == ASSUME ParticleInv, [Next]_vars PROVE TopicsSound'
<1> USE DEF TopicsSound
<1>0. TopicsSound /\ TypeInv /\ particles = Remaining(current_step)
  BY DEF ParticleInv, LostOnlyOutside
<1>1. CASE UNCHANGED topics
  BY <1>0, <1>1
<1>2. CASE Purge
  BY <1>0, <1>2 DEF Purge
<1>3. CASE Distribute \/ DistributeFails
  <2>1. \A j \in JobsOf(current_step) : j.particles = Remaining(j.step)
    BY <1>0 DEF JobsOf
  <2> QED BY <1>0, <1>3, <2>1 DEF Distribute, DistributeFails
<1>4. CASE WorkerAnswers
  <2> PICK j \in jobs : \E i \in 0..(Total[j.step][j.worker] - 1) :
           replies' = replies \cup {Answer(j, i)}
    BY <1>4 DEF WorkerAnswers
  <2>1. PICK i \in 0..(Total[j.step][j.worker] - 1) :
           replies' = replies \cup {Answer(j, i)}
    OBVIOUS
  <2>2. Total[j.step][j.worker] \in Nat \ {0} /\ j.particles = Remaining(j.step)
    BY <1>0, AnswerAssumption DEF Job, TypeInv, TypeOK, TopicTypes
  <2>3. LET m == Answer(j, i) IN
        /\ m.total = Total[m.step][m.worker]
        /\ m.idx < m.total
        /\ m.particles = ChunkOf(m.step, m.worker, m.idx)
    BY <2>2 DEF Answer, ChunkOf
  <2> QED BY <1>0, <1>4, <2>1, <2>3 DEF WorkerAnswers
<1>5. ASSUME NEW m \in replies, Keep(m) \/ Assemble(m) PROVE UNCHANGED topics
  BY <1>5 DEF Keep, Assemble
<1>6. Send \/ Poll \/ Retry \/ Abort \/ StepDone => UNCHANGED topics
  BY DEF Send, TakeFrame, FrameSent, SendFails, Resume, CancelSender, Poll, Retry, Abort, StepDone
<1>7. Idle => UNCHANGED topics \/ Purge \/ Distribute \/ DistributeFails
  BY DEF Idle, PurgeFails, Initialize, TimeOut, EndBatch, Wake, CollectFails
<1> QED BY <1>1, <1>2, <1>3, <1>4, <1>5, <1>6, <1>7, NextCases

LEMMA IntervalSize ==
  ASSUME NEW n \in Nat \ {0}
  PROVE  IsFiniteSet(0..(n - 1)) /\ Cardinality(0..(n - 1)) = n
<1>1. 0 \in Int /\ n - 1 \in Int /\ ~(0 > n - 1) /\ n - 1 - 0 + 1 = n
  OBVIOUS
<1>2. Cardinality(0..(n - 1)) = n - 1 - 0 + 1
  BY <1>1, FS_Interval
<1> QED BY <1>1, <1>2, FS_Interval

(* A buffer that holds part of the answer to this step still does, after one   *)
(* more message of this step, and may then hold all of it.                     *)
IsPart(b, w) == /\ DOMAIN b.chunks \subseteq 0..(Total[current_step][w] - 1)
                /\ \A i \in DOMAIN b.chunks : b.chunks[i] = ChunkOf(current_step, w, i)
                /\ b.received = Cardinality(DOMAIN b.chunks)

LEMMA BufferedPart ==
  ASSUME ParticleInv, NEW m \in replies, InBatch(m)
  PROVE  /\ m.worker \in Worker /\ m.total = Total[current_step][m.worker] /\ m.total \in Nat \ {0}
         /\ IsPart(Buffered(m), m.worker)
<1> DEFINE w == m.worker
           old == IF w \in DOMAIN chunks_buffer
                  THEN chunks_buffer[w] ELSE [chunks |-> Empty, received |-> 0]
           D == DOMAIN old.chunks
<1>1. /\ w \in Worker /\ m.total = Total[current_step][w] /\ m.total \in Nat \ {0}
      /\ m.idx \in 0..(m.total - 1) /\ m.particles = ChunkOf(current_step, w, m.idx)
  BY AnswerAssumption DEF InBatch, ParticleInv, TopicsSound, TypeInv, TypeOK, MainTypes, TopicTypes, Reply
<1>2. IsPart(old, w)
  <2>1. CASE w \in DOMAIN chunks_buffer
    BY <2>1 DEF ParticleInv, CollectsThisStep, IsPart
  <2>2. CASE w \notin DOMAIN chunks_buffer
    BY <2>2, FS_EmptySet DEF IsPart, Empty
  <2> QED BY <2>1, <2>2
<1>3. CASE m.idx \in D
  BY <1>1, <1>2, <1>3 DEF Buffered
<1>4. CASE m.idx \notin D
  <2> DEFINE new == [chunks |-> Put(old.chunks, m.idx, m.particles), received |-> old.received + 1]
  <2>1. Buffered(m) = new
    BY <1>4 DEF Buffered
  <2>2. DOMAIN new.chunks = D \cup {m.idx}
    BY DEF Put
  <2>3. \A i \in DOMAIN new.chunks : new.chunks[i] = ChunkOf(current_step, w, i)
    BY <1>1, <1>2 DEF Put, IsPart
  <2>4. IsFiniteSet(D)
    <3>1. IsFiniteSet(0..(m.total - 1))
      BY <1>1, FS_Interval
    <3> QED BY <1>1, <1>2, <3>1, FS_Subset DEF IsPart
  <2>5. Cardinality(D \cup {m.idx}) = Cardinality(D) + 1
    BY <1>4, <2>4, FS_AddElement
  <2> HIDE DEF old
  <2> QED BY <1>1, <1>2, <2>1, <2>2, <2>3, <2>5 DEF IsPart
<1> QED BY <1>1, <1>3, <1>4

(* A buffer with as many chunks as the answer has holds the whole answer.     *)
LEMMA WholeAnswer ==
  ASSUME NEW w \in Worker, NEW b, TypeOK, IsPart(b, w), b.received = Total[current_step][w]
  PROVE  UNION {b.chunks[i] : i \in 0..(Total[current_step][w] - 1)} = AnswerOf(current_step, w)
<1> DEFINE n == Total[current_step][w]
           Q == Remaining(current_step) \cap Covered[current_step]
           at == Place[current_step]
<1>1. n \in Nat \ {0} /\ current_step \in Step
  BY AnswerAssumption DEF TypeOK, MainTypes
<1>2. IsFiniteSet(0..(n - 1)) /\ Cardinality(0..(n - 1)) = n
  BY <1>1, IntervalSize
<1>3. DOMAIN b.chunks = 0..(n - 1)
  <2>1. DOMAIN b.chunks \in SUBSET (0..(n - 1))
    BY DEF IsPart
  <2>2. Cardinality(DOMAIN b.chunks) = Cardinality(0..(n - 1))
    BY <1>2 DEF IsPart
  <2> QED BY <1>2, <2>1, <2>2, FS_Subset
<1>4. \A i \in 0..(n - 1) : b.chunks[i] = {p \in Q : at[p] = <<w, i>>}
  BY <1>3 DEF IsPart, ChunkOf
<1>5. \A p \in Q : /\ at[p] = <<at[p][1], at[p][2]>>
                  /\ at[p][2] \in Nat
                  /\ at[p][2] < Total[current_step][at[p][1]]
  BY <1>1, AnswerAssumption
<1>6. \A p \in Q : at[p][1] = w => \E i \in 0..(n - 1) : at[p] = <<w, i>>
  BY <1>1, <1>5
<1> HIDE DEF n, Q, at
<1>7. ASSUME NEW p \in UNION {b.chunks[i] : i \in 0..(n - 1)}
      PROVE  p \in Q /\ at[p][1] = w
  <2> PICK i \in 0..(n - 1) : p \in b.chunks[i]
    OBVIOUS
  <2>1. p \in Q /\ at[p] = <<w, i>>
    BY <1>4
  <2> QED BY <2>1
<1>8. ASSUME NEW p \in Q, at[p][1] = w
      PROVE  p \in UNION {b.chunks[i] : i \in 0..(n - 1)}
  <2> PICK i \in 0..(n - 1) : at[p] = <<w, i>>
    BY <1>6, <1>8
  <2>1. p \in b.chunks[i]
    BY <1>4
  <2> QED BY <2>1
<1>9. UNION {b.chunks[i] : i \in 0..(n - 1)} = {p \in Q : at[p][1] = w}
  BY <1>7, <1>8
<1> QED BY <1>9 DEF n, Q, at, AnswerOf

LEMMA CollectsThisStepNext == ASSUME ParticleInv, [Next]_vars PROVE CollectsThisStep'
<1> USE DEF CollectsThisStep
<1>0. CollectsThisStep /\ TypeOK
  BY DEF ParticleInv, TypeInv
<1>1. CASE UNCHANGED <<current_step, updates, chunks_buffer>>
  BY <1>0, <1>1
<1>2. CASE Retry \/ Abort \/ StepDone
  <2>1. updates' = Empty /\ chunks_buffer' = Empty
    BY <1>2 DEF Retry, Abort, StepDone, Discard
  <2> QED BY <2>1 DEF Empty
<1>3. ASSUME NEW m \in replies, Keep(m) PROVE CollectsThisStep'
  <2> DEFINE b == Buffered(m)
             w == m.worker
  <2>1. /\ w \in Worker /\ m.total = Total[current_step][w] /\ m.total \in Nat \ {0}
        /\ IsPart(b, w)
    BY <1>3, BufferedPart DEF Keep
  <2>2. b.received < m.total
    <3>1. IsFiniteSet(0..(m.total - 1)) /\ Cardinality(0..(m.total - 1)) = m.total
      BY <2>1, IntervalSize
    <3>2. DOMAIN b.chunks \in SUBSET (0..(m.total - 1))
      BY <2>1 DEF IsPart
    <3>3. Cardinality(DOMAIN b.chunks) <= m.total /\ IsFiniteSet(DOMAIN b.chunks)
      BY <3>1, <3>2, FS_Subset
    <3>4. b.received \in Nat /\ b.received <= m.total /\ b.received # m.total
      BY <1>3, <2>1, <3>3, FS_CardinalityType DEF IsPart, Keep
    <3> QED BY <2>1, <3>4
  <2>3. chunks_buffer' = Put(chunks_buffer, w, b) /\ UNCHANGED <<current_step, updates>>
    BY <1>3 DEF Keep
  <2> HIDE DEF b, w
  <2> QED BY <1>0, <2>1, <2>2, <2>3 DEF IsPart, Put
<1>4. ASSUME NEW m \in replies, Assemble(m) PROVE CollectsThisStep'
  <2> DEFINE b == Buffered(m)
             w == m.worker
             whole == UNION {b.chunks[i] : i \in 0..(m.total - 1)}
  <2>1. /\ w \in Worker /\ m.total = Total[current_step][w] /\ m.total \in Nat \ {0}
        /\ IsPart(b, w)
    BY <1>4, BufferedPart DEF Assemble
  <2>2. whole = AnswerOf(current_step, w)
    BY <1>0, <1>4, <2>1, WholeAnswer DEF Assemble
  <2>3. /\ updates' = Put(updates, w, whole) /\ chunks_buffer' = Del(chunks_buffer, w)
        /\ UNCHANGED current_step
    BY <1>4 DEF Assemble
  <2> HIDE DEF b, w, whole
  <2> QED BY <1>0, <2>2, <2>3 DEF Put, Del
<1>5. Idle \/ Send \/ Poll \/ WorkerAnswers => UNCHANGED <<current_step, updates, chunks_buffer>>
  BY DEF Idle, Send, Poll, WorkerAnswers, TakeFrame, FrameSent, SendFails, Resume, CancelSender,
       Purge, PurgeFails, Initialize, Distribute, DistributeFails, TimeOut, EndBatch, Wake,
       CollectFails
<1> QED BY <1>1, <1>2, <1>3, <1>4, <1>5, NextCases

(* As many answers as there are workers are the answers of all workers.       *)
LEMMA AllAnswered == ASSUME TypeInv, Complete PROVE DOMAIN updates = Worker
<1>1. DOMAIN updates \in SUBSET Worker /\ IsFiniteSet(Worker)
  BY SetsAssumption DEF TypeInv, TypeOK, AttemptTypes, IsDict
<1>2. /\ IsFiniteSet(DOMAIN updates) /\ Cardinality(DOMAIN updates) <= Cardinality(Worker)
      /\ (Cardinality(Worker) = Cardinality(DOMAIN updates) => Worker = DOMAIN updates)
  BY <1>1, FS_Subset
<1>3. Cardinality(Worker) \in Nat /\ Cardinality(DOMAIN updates) \in Nat
  BY <1>1, <1>2, FS_CardinalityType
<1> QED BY <1>2, <1>3 DEF Complete

(* When every worker's answer is whole, merging them gives what is left.      *)
LEMMA MergedWhole ==
  ASSUME ParticleInv, Complete
  PROVE  Merged = Remaining(current_step + 1)
<1> DEFINE Q == Remaining(current_step) \cap Covered[current_step]
           at == Place[current_step]
<1>1. current_step \in Step
  BY DEF ParticleInv, TypeInv, TypeOK, MainTypes
<1>2. DOMAIN updates = Worker
  BY AllAnswered DEF ParticleInv
<1>3. \A w \in Worker : updates[w] = {p \in Q : at[p][1] = w}
  BY <1>2 DEF ParticleInv, CollectsThisStep, AnswerOf
<1>4. \A p \in Q : at[p][1] \in Worker
  BY <1>1, AnswerAssumption
<1>5. Remaining(current_step + 1) = Q
  BY <1>1, RemainingNext
<1> HIDE DEF Q, at
<1> QED BY <1>2, <1>3, <1>4, <1>5 DEF Merged

LEMMA LostOnlyOutsideNext == ASSUME ParticleInv, [Next]_vars PROVE LostOnlyOutside'
<1> USE DEF LostOnlyOutside
<1>0. LostOnlyOutside /\ OutputTypes
  BY DEF ParticleInv, TypeInv, TypeOK
<1>1. CASE UNCHANGED <<particles, current_step, output>>
  BY <1>0, <1>1
<1>2. CASE StepDone
  <2> DEFINE f == [t |-> current_step, ids |-> Merged]
  <2>1. Merged = Remaining(current_step + 1) /\ f.ids = Remaining(f.t + 1)
    BY <1>2, MergedWhole DEF StepDone
  <2>2. /\ particles' = Remaining(current_step') /\ UNCHANGED <<hand, shown>>
        /\ ws_queue' = Append(ws_queue, f) /\ ws_queue \in Seq(Frame)
    BY <1>0, <1>2, <2>1 DEF StepDone, OutputTypes
  <2> HIDE DEF f
  <2>3. \A i \in DOMAIN ws_queue' : ws_queue'[i].ids = Remaining(ws_queue'[i].t + 1)
    BY <1>0, <2>1, <2>2
  <2> QED BY <1>0, <2>2, <2>3
<1>3. CASE TakeFrame
  BY <1>0, <1>3 DEF TakeFrame, OutputTypes
<1>4. CASE FrameSent
  <2>1. Head(hand) = hand[1] /\ 1 \in DOMAIN hand
    BY <1>0, <1>4 DEF FrameSent, OutputTypes
  <2> QED BY <1>0, <1>4, <2>1 DEF FrameSent, OutputTypes
<1>5. CASE SendFails \/ Resume \/ CancelSender
  BY <1>0, <1>5 DEF SendFails, Resume, CancelSender
<1>6. ASSUME NEW m \in replies, Keep(m) \/ Assemble(m) PROVE UNCHANGED <<particles, current_step, output>>
  BY <1>6 DEF Keep, Assemble
<1>7. Idle \/ Poll \/ Retry \/ Abort \/ WorkerAnswers => UNCHANGED <<particles, current_step, output>>
  BY DEF Idle, Poll, Retry, Abort, WorkerAnswers, Purge, PurgeFails, Initialize, Distribute,
       DistributeFails, TimeOut, EndBatch, Wake, CollectFails
<1> QED BY <1>1, <1>2, <1>3, <1>4, <1>5, <1>6, <1>7, NextCases DEF Send

LEMMA ParticleNext == ParticleInv /\ [Next]_vars => ParticleInv'
BY TypeNext, TopicsSoundNext, CollectsThisStepNext, LostOnlyOutsideNext DEF ParticleInv

(* When the topics hold no answers of an earlier run, the particles and every    *)
(* frame are exactly what geometry leaves: a particle gets lost in the step after *)
(* which it is within nobody's bounds and in no other, whatever is delayed,       *)
(* reordered, delivered twice or never (lines 352-412 and 456-484).              *)
THEOREM LostOnlyOutsideHolds == ASSUME Leftover = {} PROVE Spec => []LostOnlyOutside
<1>1. ParticleInv => LostOnlyOutside
  BY DEF ParticleInv
<1> QED BY <1>1, ParticleInit, ParticleNext, PTL DEF Spec

(* Under the same condition the collector holds nothing but this step's        *)
(* answers: stale and repeated messages never mix into it (lines 362-396).     *)
THEOREM CollectsThisStepHolds == ASSUME Leftover = {} PROVE Spec => []CollectsThisStep
<1>1. ParticleInv => CollectsThisStep
  BY DEF ParticleInv
<1> QED BY <1>1, ParticleInit, ParticleNext, PTL DEF Spec

-----------------------------------------------------------------------------
(* Frames stay in order.                                                      *)

LEMMA OrderedFrom ==
  ASSUME NEW q, NEW h, NEW s, NEW n, NEW first, first = n - Len(q),
         \A i \in 1..Len(q) : q[i].t = first + i - 1,
         \A i \in 1..Len(h) : h[i].t < first,
         \A i \in 1..Len(s) : /\ s[i].t < first
                              /\ \A k \in 1..Len(h) : s[i].t < h[k].t
                              /\ \A j \in 1..Len(s) : i < j => s[i].t < s[j].t
  PROVE  Ordered(q, h, s, n)
<1>1. \A i \in 1..Len(q) : q[i].t = n - Len(q) + i - 1
  OBVIOUS
<1>2. \A i \in 1..Len(h) : h[i].t < n - Len(q)
  OBVIOUS
<1>3. \A i \in 1..Len(s) : /\ s[i].t < n - Len(q)
                           /\ \A k \in 1..Len(h) : s[i].t < h[k].t
                           /\ \A j \in 1..Len(s) : i < j => s[i].t < s[j].t
  OBVIOUS
<1> QED BY <1>1, <1>2, <1>3, Zenon DEF Ordered

LEMMA OrderedPut ==
  ASSUME NEW q \in Seq(Frame), NEW h \in Seq(Frame), NEW s \in Seq(Frame), NEW n \in Nat,
         NEW f \in Frame, f.t = n, Ordered(q, h, s, n)
  PROVE  Ordered(Append(q, f), h, s, n + 1)
<1>1. /\ Len(q) \in Nat /\ Len(Append(q, f)) = Len(q) + 1
      /\ \A i \in 1..Len(q) : Append(q, f)[i] = q[i]
      /\ Append(q, f)[Len(q) + 1] = f
  BY AppendProperties, LenProperties
<1>2. n + 1 - Len(Append(q, f)) = n - Len(q)
  BY <1>1
<1>3. \A i \in 1..Len(Append(q, f)) : Append(q, f)[i].t = n - Len(q) + i - 1
  <2> SUFFICES ASSUME NEW i \in 1..(Len(q) + 1)
               PROVE  Append(q, f)[i].t = n - Len(q) + i - 1
    BY <1>1
  <2>1. CASE i = Len(q) + 1
    BY <1>1, <2>1
  <2>2. CASE i \in 1..Len(q)
    BY <1>1, <2>2 DEF Ordered
  <2> QED BY <1>1, <2>1, <2>2
<1> DEFINE first == n - Len(q)
           p == Append(q, f)
           m == n + 1
<1>4. \A i \in 1..Len(h) : h[i].t < first
  BY Zenon DEF Ordered
<1>5. \A i \in 1..Len(s) : /\ s[i].t < first
                           /\ \A k \in 1..Len(h) : s[i].t < h[k].t
                           /\ \A j \in 1..Len(s) : i < j => s[i].t < s[j].t
  BY Zenon DEF Ordered
<1>6. \A i \in 1..Len(p) : p[i].t = first + i - 1
  BY <1>3
<1>7. first = m - Len(p)
  BY <1>2
<1>8. Ordered(p, h, s, m)
  <2> HIDE DEF first, p, m
  <2> QED BY <1>4, <1>5, <1>6, <1>7, OrderedFrom, Zenon
<1> QED BY <1>8

LEMMA OrderedTake ==
  ASSUME NEW q \in Seq(Frame), NEW s \in Seq(Frame), NEW n \in Nat,
         q # <<>>, Ordered(q, <<>>, s, n)
  PROVE  Ordered(Tail(q), <<Head(q)>>, s, n)
<1>1. /\ Len(q) \in Nat \ {0} /\ Len(Tail(q)) = Len(q) - 1 /\ Head(q) = q[1]
      /\ \A i \in 1..(Len(q) - 1) : Tail(q)[i] = q[i + 1]
  BY EmptySeq
<1>2. n - Len(Tail(q)) = n - Len(q) + 1 /\ n - Len(q) \in Int
  BY <1>1
<1>3. q[1].t = n - Len(q)
  BY <1>1 DEF Ordered
<1>4. \A i \in 1..Len(Tail(q)) : Tail(q)[i].t = n - Len(q) + 1 + i - 1
  <2> SUFFICES ASSUME NEW i \in 1..(Len(q) - 1) PROVE Tail(q)[i].t = n - Len(q) + 1 + i - 1
    BY <1>1
  <2>1. i + 1 \in 1..Len(q) /\ Tail(q)[i] = q[i + 1]
    BY <1>1
  <2>2. q[i + 1].t = n - Len(q) + (i + 1) - 1
    BY <2>1 DEF Ordered
  <2> QED BY <1>1, <2>1, <2>2
<1>5. Len(<<Head(q)>>) = 1 /\ <<Head(q)>>[1] = q[1]
  BY <1>1
<1>6. \A i \in 1..Len(s) : s[i].t \in Nat
  <2>1. \A i \in 1..Len(s) : s[i] \in Frame
    BY ElementOfSeq
  <2> QED BY <2>1 DEF Frame
<1> HIDE DEF Frame
<1> QED BY <1>2, <1>3, <1>4, <1>5, <1>6 DEF Ordered

LEMMA OrderedShow ==
  ASSUME NEW q \in Seq(Frame), NEW h \in Seq(Frame), NEW s \in Seq(Frame), NEW n \in Nat,
         Len(h) = 1, Ordered(q, h, s, n)
  PROVE  Ordered(q, <<>>, Append(s, Head(h)), n)
<1> DEFINE s2 == Append(s, Head(h))
<1>1. Head(h) = h[1] /\ h[1] \in Frame /\ Len(<<>>) = 0 /\ Len(q) \in Nat
  <2>1. 1 \in 1..Len(h)
    OBVIOUS
  <2>2. h[1] \in Frame
    BY <2>1, ElementOfSeq
  <2>3. Len(<<>>) = 0
    BY EmptySeq
  <2> QED BY <2>2, <2>3, LenProperties
<1>2. /\ Len(s) \in Nat /\ Len(s2) = Len(s) + 1
      /\ \A i \in 1..Len(s) : s2[i] = s[i]
      /\ s2[Len(s) + 1] = h[1]
  BY <1>1, AppendProperties, LenProperties
<1> HIDE DEF s2
<1>3. \A i \in 1..Len(s2) : s2[i].t < n - Len(q)
  BY <1>2 DEF Ordered
<1>4. ASSUME NEW i \in 1..Len(s2), NEW j \in 1..Len(s2), i < j
      PROVE  s2[i].t < s2[j].t
  <2>1. i \in 1..Len(s) /\ s2[i] = s[i]
    BY <1>2, <1>4
  <2>2. CASE j = Len(s) + 1
    BY <1>2, <2>1, <2>2 DEF Ordered
  <2>3. CASE j \in 1..Len(s)
    BY <1>2, <1>4, <2>1, <2>3 DEF Ordered
  <2> QED BY <1>2, <2>2, <2>3
<1> QED BY <1>1, <1>3, <1>4 DEF Ordered, s2

LEMMA OrderedDrop ==
  ASSUME NEW q, NEW h, NEW s, NEW n, Ordered(q, h, s, n)
  PROVE  Ordered(q, <<>>, s, n)
<1>1. Len(<<>>) = 0
  BY EmptySeq
<1> QED BY <1>1 DEF Ordered

LEMMA FramesInOrderNext == ASSUME TypeInv, FramesInOrder, [Next]_vars PROVE FramesInOrder'
<1> USE DEF FramesInOrder
<1>0. /\ ws_queue \in Seq(Frame) /\ shown \in Seq(Frame) /\ hand \in Seq(Frame)
      /\ Len(hand) = IF sender = "send" THEN 1 ELSE 0
      /\ current_step \in Nat
  BY NumbersAssumption DEF TypeInv, TypeOK, MainTypes, OutputTypes, Step
<1>1. CASE UNCHANGED <<current_step, output>>
  BY <1>1
<1>2. CASE StepDone
  <2>1. [t |-> current_step, ids |-> Merged] \in Frame
    BY <1>0 DEF Frame, Merged, TypeInv, TypeOK, AttemptTypes, IsDict
  <2> QED BY <1>0, <1>2, <2>1, OrderedPut DEF StepDone
<1>3. CASE TakeFrame
  <2>1. hand = <<>>
    BY <1>0, <1>3, EmptySeq DEF TakeFrame
  <2> QED BY <1>0, <1>3, <2>1, OrderedTake DEF TakeFrame
<1>4. CASE FrameSent
  BY <1>0, <1>4, OrderedShow DEF FrameSent
<1>5. CASE SendFails \/ CancelSender
  BY <1>5, OrderedDrop DEF SendFails, CancelSender
<1>6. ASSUME NEW m \in replies, Keep(m) \/ Assemble(m) PROVE UNCHANGED <<current_step, output>>
  BY <1>6 DEF Keep, Assemble
<1>7. Idle \/ Poll \/ Retry \/ Abort \/ WorkerAnswers => UNCHANGED <<current_step, output>>
  BY DEF Idle, Poll, Retry, Abort, WorkerAnswers, Purge, PurgeFails, Initialize, Distribute,
       DistributeFails, TimeOut, EndBatch, Wake, CollectFails
<1>8. Resume => UNCHANGED <<current_step, ws_queue, hand, shown>>
  BY DEF Resume
<1> QED BY <1>1, <1>2, <1>3, <1>4, <1>5, <1>6, <1>7, <1>8, NextCases DEF Send

(* Frames reach the clients in the order of their steps, each at most once,    *)
(* also when a broadcast fails or answers are stale (ws_data_sender).          *)
THEOREM FramesInOrderHolds == Spec => []FramesInOrder
<1>1. Init => FramesInOrder
  <2>1. Len(<<>>) = 0
    BY EmptySeq
  <2> QED BY <2>1 DEF Init, FramesInOrder, Ordered
<1>2. TypeInv /\ FramesInOrder /\ [Next]_vars => FramesInOrder'
  BY FramesInOrderNext
<1> QED BY <1>1, <1>2, TypeInvHolds, PTL DEF Spec

(* The particles change, and a frame enters the queue, only in the step that   *)
(* completes the answers of all workers (run_simulation, lines 466-484).       *)
LEMMA OnlyWholeStepsNext ==
  ASSUME ParticleInv, [Next]_vars,
         particles' # particles \/ Len(ws_queue') > Len(ws_queue)
  PROVE  /\ current_step' = current_step + 1
         /\ DOMAIN updates = Worker
         /\ \A w \in Worker : updates[w] = AnswerOf(current_step, w)
         /\ ws_queue' = Append(ws_queue, [t |-> current_step, ids |-> particles'])
<1>0. OutputTypes /\ CollectsThisStep
  BY DEF ParticleInv, TypeInv, TypeOK
<1>1. Len(ws_queue) \in Nat
  BY <1>0 DEF OutputTypes
<1>2. CASE StepDone
  <2>1. DOMAIN updates = Worker
    BY <1>2, AllAnswered DEF StepDone, ParticleInv
  <2>2. \A w \in Worker : updates[w] = AnswerOf(current_step, w)
    BY <1>0, <2>1 DEF CollectsThisStep
  <2> QED BY <1>2, <2>1, <2>2 DEF StepDone
<1>3. CASE UNCHANGED <<particles, ws_queue>>
  BY <1>1, <1>3
<1>4. CASE TakeFrame
  <2>1. UNCHANGED particles /\ ws_queue # <<>> /\ ws_queue' = Tail(ws_queue) /\ ws_queue \in Seq(Frame)
    BY <1>0, <1>4 DEF TakeFrame, main, OutputTypes
  <2>2. Len(ws_queue') = Len(ws_queue) - 1
    BY <2>1, HeadTailProperties
  <2>3. ~(Len(ws_queue') > Len(ws_queue))
    BY <1>1, <2>2
  <2> QED BY <2>1, <2>3
<1>5. ASSUME NEW m \in replies, Keep(m) \/ Assemble(m) PROVE UNCHANGED <<particles, ws_queue>>
  BY <1>5 DEF Keep, Assemble
<1>6. Idle \/ Poll \/ Retry \/ Abort \/ WorkerAnswers \/ FrameSent \/ SendFails \/ Resume \/ CancelSender
        => UNCHANGED <<particles, ws_queue>>
  BY DEF Idle, Poll, Retry, Abort, WorkerAnswers, Purge, PurgeFails, Initialize, Distribute,
       DistributeFails, TimeOut, EndBatch, Wake, CollectFails,
       FrameSent, SendFails, Resume, CancelSender
<1> QED BY <1>2, <1>3, <1>4, <1>5, <1>6, NextCases DEF Send

(* With topics that hold no answers of an earlier run, the particles and the      *)
(* queue change only in a step that every worker answered, and answered whole: a   *)
(* partial answer, or one to another step, never gets out (lines 398-412, 466-484). *)
THEOREM OnlyWholeStepsHolds == ASSUME Leftover = {} PROVE Spec => OnlyWholeSteps
<1>1. ParticleInv /\ [Next]_vars
        => [particles' # particles \/ Len(ws_queue') > Len(ws_queue)
              => /\ current_step' = current_step + 1
                 /\ DOMAIN updates = Worker
                 /\ \A w \in Worker : updates[w] = AnswerOf(current_step, w)
                 /\ ws_queue' = Append(ws_queue, [t |-> current_step, ids |-> particles'])]_vars
  BY OnlyWholeStepsNext
<1> QED BY <1>1, ParticleInit, ParticleNext, PTL DEF Spec, OnlyWholeSteps

-----------------------------------------------------------------------------
(* The loop implements the abstract specification: each of its steps is a step *)
(* of StepSync or changes nothing that StepSync sees.                          *)

(* The frame in hand in front of the waiting ones.                            *)
LEMMA HandQueue ==
  ASSUME OutputTypes
  PROVE  /\ hand = <<>> => hand \o ws_queue = ws_queue
         /\ sender = "send" => /\ hand \o ws_queue # <<>>
                               /\ Head(hand \o ws_queue) = Head(hand)
                               /\ Tail(hand \o ws_queue) = ws_queue
         /\ sender # "send" => hand = <<>>
         /\ \A f \in Frame : hand \o Append(ws_queue, f) = Append(hand \o ws_queue, f)
         /\ ws_queue # <<>> => <<Head(ws_queue)>> \o Tail(ws_queue) = ws_queue
<1>1. hand \in Seq(Frame) /\ ws_queue \in Seq(Frame)
  BY DEF OutputTypes
<1>2. hand = <<>> => hand \o ws_queue = ws_queue
  BY <1>1
<1>3. ASSUME sender = "send"
      PROVE  /\ hand \o ws_queue # <<>>
             /\ Head(hand \o ws_queue) = Head(hand)
             /\ Tail(hand \o ws_queue) = ws_queue
  <2>1. Len(hand) = 1
    BY <1>3 DEF OutputTypes
  <2>2. hand = <<Head(hand)>>
    BY <1>1, <2>1
  <2>3. \A f \in Frame : /\ <<f>> \o ws_queue # <<>>
                        /\ Head(<<f>> \o ws_queue) = f
                        /\ Tail(<<f>> \o ws_queue) = ws_queue
    BY <1>1
  <2>4. Head(hand) \in Frame
    BY <1>1, <2>1
  <2> QED BY <2>2, <2>3, <2>4
<1>4. sender # "send" => hand = <<>>
  BY <1>1 DEF OutputTypes
<1>5. \A f \in Frame : hand \o Append(ws_queue, f) = Append(hand \o ws_queue, f)
  BY <1>1
<1>6. ws_queue # <<>> => <<Head(ws_queue)>> \o Tail(ws_queue) = ws_queue
  BY <1>1
<1> QED BY <1>2, <1>3, <1>4, <1>5, <1>6

LEMMA StepRefined == ParticleInv /\ [Next]_vars => [Sync!Next]_(Sync!vars)
<1> SUFFICES ASSUME ParticleInv, [Next]_vars PROVE [Sync!Next]_(Sync!vars) OBVIOUS
<1> USE DEF Stopped
<1>0. OutputTypes /\ MainTypes /\ Counting /\ LostOnlyOutside
  BY DEF ParticleInv, TypeInv, TypeOK
<1>1. CASE UNCHANGED <<pc, current_step, output>>
  BY <1>1 DEF Sync!vars
<1>2. CASE StepDone
  <2> DEFINE f == [t |-> current_step, ids |-> Sync!Remaining(current_step + 1)]
  <2>0. Sync!Remaining(current_step + 1) = Remaining(current_step + 1)
    BY DEF Sync!Remaining, Remaining
  <2>1. Merged = Sync!Remaining(current_step + 1) /\ f \in Frame
    <3>1. Merged = Sync!Remaining(current_step + 1)
      BY <1>2, <2>0, MergedWhole DEF StepDone
    <3>2. Sync!Remaining(current_step + 1) \in SUBSET Id /\ current_step \in Nat
      BY <1>0, <2>0, RemainingIds, NumbersAssumption DEF MainTypes, Step
    <3> QED BY <3>1, <3>2 DEF Frame
  <2>2. /\ pc = "evaluate" /\ pc' = "distribute" /\ current_step < MaxStep
        /\ current_step' = current_step + 1 /\ UNCHANGED <<shown, hand>>
        /\ ws_queue' = Append(ws_queue, f)
    BY <1>0, <1>2, <2>1 DEF StepDone, Counting
  <2>3. hand' \o ws_queue' = Append(hand \o ws_queue, f)
    BY <1>0, <2>1, <2>2, HandQueue
  <2> QED BY <2>2, <2>3 DEF Sync!Next, Sync!Advance
<1>3. CASE TakeFrame
  <2>1. /\ hand = <<>> /\ ws_queue # <<>> /\ hand' = <<Head(ws_queue)>>
        /\ ws_queue' = Tail(ws_queue) /\ UNCHANGED <<pc, current_step, shown>>
    BY <1>0, <1>3, HandQueue DEF TakeFrame
  <2>2. hand' \o ws_queue' = hand \o ws_queue
    BY <1>0, <2>1, HandQueue
  <2> QED BY <2>1, <2>2 DEF Sync!vars
<1>4. CASE FrameSent
  <2>1. /\ sender = "send" /\ hand' = <<>> /\ shown' = Append(shown, Head(hand))
        /\ UNCHANGED <<pc, current_step, ws_queue>>
    BY <1>4 DEF FrameSent
  <2>2. hand' \o ws_queue' = ws_queue
    BY <1>0, <2>1 DEF OutputTypes
  <2> QED BY <1>0, <2>1, <2>2, HandQueue DEF Sync!Next, Sync!Show
<1>5. CASE SendFails \/ (CancelSender /\ sender = "send")
  <2>1. sender = "send" /\ hand' = <<>> /\ UNCHANGED <<pc, current_step, ws_queue, shown>>
    BY <1>5 DEF SendFails, CancelSender
  <2>2. hand' \o ws_queue' = ws_queue
    BY <1>0, <2>1 DEF OutputTypes
  <2> QED BY <1>0, <2>1, <2>2, HandQueue DEF Sync!Next, Sync!Lose
<1>6. CASE (CancelSender /\ sender # "send") \/ Resume
  <2>1. hand = <<>> /\ hand' = hand /\ UNCHANGED <<pc, current_step, ws_queue, shown>>
    BY <1>0, <1>6, HandQueue DEF CancelSender, Resume
  <2> QED BY <2>1 DEF Sync!vars
<1>7. CASE /\ UNCHANGED <<current_step, output>>
           /\ pc \notin Stopped
  <2>1. CASE pc' \in Stopped
    BY <1>7, <2>1 DEF Sync!Next, Sync!GiveUp
  <2>2. CASE pc' \notin Stopped
    BY <1>7, <2>2 DEF Sync!vars
  <2> QED BY <2>1, <2>2
<1>8. Idle \/ Poll \/ Retry \/ Abort => /\ UNCHANGED <<current_step, output>>
                                        /\ pc \notin Stopped
  BY DEF Idle, Poll, Retry, Abort, Purge, PurgeFails, Initialize, Distribute,
       DistributeFails, TimeOut, EndBatch, Wake, CollectFails, InBatch
<1>9. ASSUME NEW m \in replies, Keep(m) \/ Assemble(m) PROVE UNCHANGED <<pc, current_step, output>>
  BY <1>9 DEF Keep, Assemble
<1>10. WorkerAnswers => UNCHANGED <<pc, current_step, output>>
  BY DEF WorkerAnswers
<1> QED BY <1>1, <1>2, <1>3, <1>4, <1>5, <1>6, <1>7, <1>8, <1>9, <1>10, NextCases DEF Send

(* The clients are shown what StepSync promises, for every run whose topics     *)
(* held no answers of an earlier one (the safety part; TLC checks liveness).    *)
THEOREM ImplementsStepSync ==
  ASSUME Leftover = {}
  PROVE  Spec => Sync!Init /\ [][Sync!Next]_(Sync!vars)
<1>1. Init => Sync!Init
  BY DEF Init, Sync!Init, Stopped
<1> QED BY <1>1, ParticleInit, ParticleNext, StepRefined, PTL DEF Spec
=============================================================================
