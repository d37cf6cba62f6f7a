-------------------------- MODULE IOExecutor_proofs --------------------------
(***************************************************************************)
(* Theorems about IOExecutor, for every number of operations, jobs and     *)
(* timers, every set of delays, and whether or not posts fail and          *)
(* callbacks throw.                                                        *)
(***************************************************************************)
EXTENDS IOExecutor, TLAPS, FiniteSetTheorems

-----------------------------------------------------------------------------
(* The inductive invariant, in named parts.                                *)

\* The types but for the counter, which is a natural number only because it
\* counts (CountMatchesWork).
Types ==
  /\ op \in [Overlappeds -> OpStates]
  /\ overlappedCount \in Int
  /\ completionPort \in Seq(Overlappeds)
  /\ job \in [Jobs -> JobStates]
  /\ timer \in [Timers -> {"idle", "queued", "popped"}]
  /\ timePoint \in [Timers -> Int]
  /\ top \in Timers \cup {None}
  /\ calls \in [Callbacks -> Nat]
  /\ pc \in Outside \cup LoopPcs
  /\ current \in Callbacks \cup {None}
  /\ now \in Nat /\ clock \in 0..MaxClock
  /\ deadline \in {Never} \cup 0..MaxClock
  /\ throws \in 0..MaxThrows

\* A packet in the port belongs to an object that is queued, and to no other packet.
PortHoldsQueued ==
  /\ \A i \in 1..Len(completionPort) : op[completionPort[i]] = "queued"
  /\ \A i, k \in 1..Len(completionPort) :
       completionPort[i] = completionPort[k] => i = k

\* The one object whose callback runs is the one the loop thread dequeued.
RunningIsCurrent ==
  /\ pc = "callback" => current \in Overlappeds /\ op[current] = "running"
  /\ \A o \in Overlappeds : op[o] = "running" => pc = "callback" /\ o = current

\* How far a resolver job's overlapped object is, given the job's progress.
JobsAndObjects ==
  /\ \A o \in Ops : op[o] # "created"
  /\ \A j \in Jobs :
       /\ job[j] \in {"idle", "pooled"} => op[j] = "idle"
       /\ job[j] = "posting" => op[j] = "created"
       /\ job[j] \in {"ending", "done"} => op[j] \in {"queued", "running", "thrown", "done"}
       /\ job[j] = "lost" => op[j] = "rejected"

\* The top of the heap is a queued timer, and no queued timer is earlier.
TopIsEarliest ==
  /\ top = None => Queue = {}
  /\ top # None => top \in Queue /\ \A t \in Queue : timePoint[top] <= timePoint[t]

\* A timer whose callback runs is due and still queued; if it is not on top any
\* more, an earlier one is, pushed by the callback.
FiringIsTop ==
  pc = "timercb" =>
    /\ current \in Queue /\ top # None /\ timePoint[top] <= now
    /\ top # current => timePoint[top] < timePoint[current]

NowIsPast == now <= clock

\* How often a callback has been called, given what became of it.
CallsMatch ==
  /\ \A o \in Overlappeds :
       calls[o] = IF op[o] \in {"running", "thrown", "done"} THEN 1 ELSE 0
  /\ \A t \in Timers :
       /\ timer[t] = "idle" => calls[t] = 0
       /\ timer[t] = "queued" =>
            calls[t] <= throws + Cardinality(Lost)
                        + (IF pc = "timercb" /\ t = current THEN 1 ELSE 0)
       /\ timer[t] = "popped" => calls[t] <= throws + Cardinality(Lost) + 1

\* A timer whose callback runs has been called, one that it put on top has not.
FiringWasCalled ==
  pc = "timercb" => calls[current] > 0 /\ (top # current => calls[top] = 0)

\* Without negative delays nothing comes between a timer and its removal.
NothingLost ==
  NonNegative => Lost = {} /\ (pc = "timercb" => top = current)

IInv ==
  /\ Types /\ CountMatchesWork /\ PortHoldsQueued /\ RunningIsCurrent
  /\ JobsAndObjects /\ TopIsEarliest /\ FiringIsTop /\ NowIsPast
  /\ CallsMatch /\ FiringWasCalled /\ NothingLost

-----------------------------------------------------------------------------
(* Preservation, part by part.                                             *)

\* A post appends one packet to the port.
LEMMA PostAppends ==
  ASSUME completionPort \in Seq(Overlappeds), NEW o \in Overlappeds, Post(o)
  PROVE  /\ completionPort' \in Seq(Overlappeds)
         /\ Len(completionPort') = Len(completionPort) + 1
         /\ \A i \in 1..Len(completionPort) : completionPort'[i] = completionPort[i]
         /\ completionPort'[Len(completionPort) + 1] = o
BY DEF Post

\* A dequeue takes the first packet and moves the others up.
LEMMA DequeueTakes ==
  ASSUME completionPort \in Seq(Overlappeds), completionPort # <<>>,
         completionPort' = Tail(completionPort)
  PROVE  /\ completionPort' \in Seq(Overlappeds)
         /\ Len(completionPort) \in Nat \ {0}
         /\ Len(completionPort') = Len(completionPort) - 1
         /\ \A i \in 1..Len(completionPort') : completionPort'[i] = completionPort[i + 1]
         /\ Head(completionPort) = completionPort[1]
         /\ Head(completionPort) \in Overlappeds
OBVIOUS

\* The milliseconds run() waits are a DWORD, hence a deadline is in range.
LEMMA WaitIsDword ==
  ASSUME Types, ~TimerDue
  PROVE  WaitTimes \subseteq 0..Infinite
<1>1. CASE top = None
  BY <1>1, ClockAssumption DEF WaitTimes
<1>2. CASE top # None
  <2> DEFINE left == timePoint[top] - now
  <2>1. left \in Nat
    BY <1>2 DEF Types, TimerDue
  <2> HIDE DEF left
  <2>2. left \div TicksPerMs \in Nat
    BY <2>1, ClockAssumption
  <2>3. Dword(left \div TicksPerMs) \subseteq 0..Infinite
    BY <2>2, ClockAssumption DEF Dword
  <2> QED BY <1>2, <2>3 DEF WaitTimes, left
<1> QED BY <1>1, <1>2

LEMMA DeadlineInRange ==
  ASSUME clock \in 0..MaxClock, NEW ms \in 0..Infinite
  PROVE  DeadlineOf(ms) \in {Never} \cup 0..MaxClock
<1>1. ms * TicksPerMs \in Nat
  BY ClockAssumption
<1>2. clock + ms * TicksPerMs <= MaxClock => clock + ms * TicksPerMs \in 0..MaxClock
  BY <1>1, ClockAssumption
<1> QED BY <1>2, ClockAssumption DEF DeadlineOf

\* The types of the variables, by cases on the action taken.
LEMMA TypesStep ==
  ASSUME Types, RunningIsCurrent, FiringIsTop, [Next]_vars
  PROVE  Types'
<1> USE DEF Types
<1> DEFINE IOTypes == /\ op \in [Overlappeds -> OpStates]
                      /\ overlappedCount \in Int
                      /\ completionPort \in Seq(Overlappeds)
<1>1. CASE User
  <2>1. ASSUME NEW o \in Ops, StartIO(o) PROVE Types'
    <3>1. o \in Overlappeds /\ o \in Callbacks
      BY DEF Overlappeds, Callbacks
    <3>2. CASE CreateOverlapped(o, "pending") /\ UNCHANGED <<completionPort, calls>>
      <4>1. IOTypes'
        BY <3>1, <3>2 DEF CreateOverlapped, OpStates
      <4> QED BY <2>1, <3>2, <4>1 DEF StartIO, timerVars, loopVars
    <3>3. CASE CreateOverlapped(o, "queued") /\ Post(o) /\ UNCHANGED calls
      <4>1. IOTypes'
        BY <3>1, <3>3, PostAppends DEF CreateOverlapped, OpStates
      <4> QED BY <2>1, <3>3, <4>1 DEF StartIO, timerVars, loopVars
    <3>4. CASE /\ op' = [op EXCEPT ![o] = "done"] /\ Call(o)
               /\ UNCHANGED <<overlappedCount, completionPort>>
      <4>1. IOTypes' /\ calls' \in [Callbacks -> Nat]
        BY <3>1, <3>4 DEF Call, OpStates
      <4> QED BY <2>1, <4>1 DEF StartIO, timerVars, loopVars
    <3> QED BY <2>1, <3>2, <3>3, <3>4 DEF StartIO
  <2>2. ASSUME NEW o \in Ops, Execute(o) PROVE Types'
    <3>0. o \in Overlappeds
      BY DEF Overlappeds
    <3>1. ASSUME CreateOverlapped(o, "queued"), Post(o) PROVE IOTypes'
      BY <3>0, <3>1, PostAppends DEF CreateOverlapped, OpStates
    <3>2. ASSUME op' = [op EXCEPT ![o] = "rejected"], UNCHANGED <<overlappedCount, completionPort>>
          PROVE  IOTypes'
      BY <3>0, <3>2 DEF OpStates
    <3>3. IOTypes'
      BY <2>2, <3>1, <3>2 DEF Execute
    <3> QED BY <2>2, <3>3 DEF Execute, timerVars, loopVars
  <2>3. ASSUME NEW j \in Jobs, Resolve(j) PROVE Types'
    BY <2>3 DEF Resolve, JobStates, timerVars, loopVars
  <2>4. ASSUME NEW t \in Timers, NEW d \in Delays, Wait(t, d) PROVE Types'
    BY <2>4, IntegerDelays, ClockAssumption DEF Wait, ioVars, loopVars
  <2> QED BY <1>1, <2>1, <2>2, <2>3, <2>4 DEF User
<1>2. ASSUME NEW o \in Ops, Complete(o) PROVE Types'
  <2>1. IOTypes'
    BY <1>2, PostAppends DEF Complete, Overlappeds, OpStates
  <2> QED BY <1>2, <2>1 DEF Complete, timerVars, loopVars
<1>3. ASSUME NEW j \in Jobs, Worker(j) PROVE Types'
  <2>1. CASE WorkerCreates(j)
    BY <2>1 DEF WorkerCreates, CreateOverlapped, Overlappeds, OpStates, JobStates,
                timerVars, loopVars
  <2>2. CASE WorkerPosts(j)
    <3>1. j \in Overlappeds
      BY DEF Overlappeds
    <3>2. op' \in [Overlappeds -> OpStates]
      <4>1. \/ op' = [op EXCEPT ![j] = "queued"]
            \/ op' = [op EXCEPT ![j] = "rejected"]
        BY <2>2 DEF WorkerPosts, DestroyOverlapped
      <4> QED BY <3>1, <4>1 DEF OpStates
    <3>5. overlappedCount' \in Int
      BY <2>2 DEF WorkerPosts, DestroyOverlapped
    <3>3. completionPort' \in Seq(Overlappeds)
      BY <2>2, <3>1, PostAppends DEF WorkerPosts
    <3>4. job' \in [Jobs -> JobStates]
      BY <2>2 DEF WorkerPosts, JobStates
    <3> QED BY <2>2, <3>2, <3>3, <3>4, <3>5 DEF WorkerPosts, timerVars, loopVars
  <2>3. CASE WorkerEnds(j)
    BY <2>3 DEF WorkerEnds, JobStates, timerVars, loopVars
  <2> QED BY <1>3, <2>1, <2>2, <2>3 DEF Worker
<1>4. CASE Run
  BY <1>4 DEF Run, LoopPcs, ioVars, timerVars
<1>5. CASE Loop
  <2>1. CASE LoopTest
    BY <2>1 DEF LoopTest, LoopPcs, Outside, ioVars, timerVars
  <2>2. CASE FireTimer
    BY <2>2 DEF FireTimer, TimerDue, Call, Callbacks, LoopPcs, ioVars, timerVars
  <2>3. CASE TimerReturns
    <3>1. timer' \in [Timers -> {"idle", "queued", "popped"}]
      BY <2>3 DEF TimerReturns, Pop, FiringIsTop
    <3>2. top' \in Timers \cup {None}
      BY <2>3 DEF TimerReturns, Pop, Queue
    <3> QED BY <2>3, <3>1, <3>2 DEF TimerReturns, Pop, LoopPcs, ioVars
  <2>4. CASE Poll
    <3>1. deadline' \in {Never} \cup 0..MaxClock
      BY <2>4, WaitIsDword, DeadlineInRange DEF Poll
    <3> QED BY <2>4, <3>1 DEF Poll, LoopPcs, ioVars, timerVars
  <2>5. CASE Dequeue
    <3>1. IOTypes' /\ current' \in Callbacks
      BY <2>5, DequeueTakes DEF Dequeue, Callbacks, OpStates
    <3>2. calls' \in [Callbacks -> Nat]
      BY <2>5, DequeueTakes DEF Dequeue, Call, Callbacks
    <3> QED BY <2>5, <3>1, <3>2 DEF Dequeue, LoopPcs, timerVars
  <2>6. CASE CallbackReturns
    BY <2>6 DEF CallbackReturns, DestroyOverlapped, RunningIsCurrent, OpStates, LoopPcs, timerVars
  <2>7. CASE WaitEnds
    BY <2>7 DEF WaitEnds, LoopPcs, ioVars, timerVars
  <2> QED BY <1>5, <2>1, <2>2, <2>3, <2>4, <2>5, <2>6, <2>7 DEF Loop
<1>6. CASE CallbackThrows
  <2>1. op' \in [Overlappeds -> OpStates]
    BY <1>6 DEF CallbackThrows, RunningIsCurrent, OpStates
  <2>2. throws' \in 0..MaxThrows
    BY <1>6, FailureAssumption DEF CallbackThrows
  <2> QED BY <1>6, <2>1, <2>2 DEF CallbackThrows, Outside, timerVars
<1>7. CASE Tick
  BY <1>7, ClockAssumption DEF Tick, ioVars, timerVars, loopVars
<1>8. CASE UNCHANGED vars
  BY <1>8 DEF vars, ioVars, timerVars, loopVars
<1> QED BY <1>1, <1>2, <1>3, <1>4, <1>5, <1>6, <1>7, <1>8 DEF Next

-----------------------------------------------------------------------------
(* The counter counts.                                                     *)

LEMMA WorkIsFinite ==
  /\ IsFiniteSet(Live) /\ Cardinality(Live) \in Nat
  /\ IsFiniteSet(OpenWork) /\ Cardinality(OpenWork) \in Nat
<1>1. IsFiniteSet(Overlappeds)
  BY FiniteWork, FS_Union DEF Overlappeds
<1>2. Live \subseteq Overlappeds /\ OpenWork \subseteq Jobs
  BY DEF Live, OpenWork
<1> QED BY <1>1, <1>2, FiniteWork, FS_Subset, FS_CardinalityType

\* A finite set gains or loses one element.
LEMMA AddOne ==
  ASSUME NEW S, IsFiniteSet(S), NEW x, x \notin S
  PROVE  Cardinality(S \cup {x}) = Cardinality(S) + 1
BY FS_AddElement

LEMMA RemoveOne ==
  ASSUME NEW S, IsFiniteSet(S), NEW x, x \in S
  PROVE  Cardinality(S \ {x}) = Cardinality(S) - 1
BY FS_RemoveElement

\* The change in the number of live objects when one object changes state.
LEMMA LiveChanges ==
  ASSUME op \in [Overlappeds -> OpStates], NEW o \in Overlappeds, NEW st,
         op' = [op EXCEPT ![o] = st]
  PROVE  /\ op[o] \notin LiveStates /\ st \in LiveStates =>
              Cardinality(Live') = Cardinality(Live) + 1
         /\ op[o] \in LiveStates /\ st \notin LiveStates =>
              Cardinality(Live') = Cardinality(Live) - 1
         /\ (op[o] \in LiveStates <=> st \in LiveStates) =>
              Cardinality(Live') = Cardinality(Live)
<1>1. o \in Live <=> op[o] \in LiveStates
  BY DEF Live
<1>2. Live' = IF st \in LiveStates THEN Live \cup {o} ELSE Live \ {o}
  BY DEF Live
<1>3. CASE op[o] \notin LiveStates /\ st \in LiveStates
  BY <1>1, <1>2, <1>3, WorkIsFinite, AddOne
<1>4. CASE op[o] \in LiveStates /\ st \notin LiveStates
  BY <1>1, <1>2, <1>4, WorkIsFinite, RemoveOne
<1>5. CASE op[o] \in LiveStates <=> st \in LiveStates
  <2>1. Live' = Live
    BY <1>1, <1>2, <1>5
  <2> QED BY <1>5, <2>1
<1> QED BY <1>3, <1>4, <1>5

\* The change in the number of open jobs when one job makes progress.
LEMMA OpenWorkChanges ==
  ASSUME job \in [Jobs -> JobStates], NEW j \in Jobs, NEW st,
         job' = [job EXCEPT ![j] = st]
  PROVE  /\ job[j] \notin OpenStates /\ st \in OpenStates =>
              Cardinality(OpenWork') = Cardinality(OpenWork) + 1
         /\ job[j] \in OpenStates /\ st \notin OpenStates =>
              Cardinality(OpenWork') = Cardinality(OpenWork) - 1
         /\ (job[j] \in OpenStates <=> st \in OpenStates) =>
              Cardinality(OpenWork') = Cardinality(OpenWork)
<1>1. j \in OpenWork <=> job[j] \in OpenStates
  BY DEF OpenWork
<1>2. OpenWork' = IF st \in OpenStates THEN OpenWork \cup {j} ELSE OpenWork \ {j}
  BY DEF OpenWork
<1>3. CASE job[j] \notin OpenStates /\ st \in OpenStates
  BY <1>1, <1>2, <1>3, WorkIsFinite, AddOne
<1>4. CASE job[j] \in OpenStates /\ st \notin OpenStates
  BY <1>1, <1>2, <1>4, WorkIsFinite, RemoveOne
<1>5. CASE job[j] \in OpenStates <=> st \in OpenStates
  <2>1. OpenWork' = OpenWork
    BY <1>1, <1>2, <1>5
  <2> QED BY <1>5, <2>1
<1> QED BY <1>3, <1>4, <1>5

LEMMA SameWork ==
  /\ op' = op => Cardinality(Live') = Cardinality(Live)
  /\ job' = job => Cardinality(OpenWork') = Cardinality(OpenWork)
<1>1. (op' = op => Live' = Live) /\ (job' = job => OpenWork' = OpenWork)
  BY DEF Live, OpenWork
<1> QED BY <1>1

\* Which states count.
LEMMA WhatCounts ==
  /\ {"created", "pending", "queued", "running", "thrown"} \subseteq LiveStates
  /\ "idle" \notin LiveStates /\ "rejected" \notin LiveStates /\ "done" \notin LiveStates
  /\ {"pooled", "posting", "ending", "lost"} \subseteq OpenStates
  /\ "idle" \notin OpenStates /\ "done" \notin OpenStates
BY DEF LiveStates, OpenStates

LEMMA CountStep ==
  ASSUME Types, CountMatchesWork, PortHoldsQueued, RunningIsCurrent,
         JobsAndObjects, [Next]_vars
  PROVE  CountMatchesWork'
<1> DEFINE L == Cardinality(Live)
           W == Cardinality(OpenWork)
<1>0. L \in Nat /\ W \in Nat /\ overlappedCount = L + W
  BY WorkIsFinite DEF CountMatchesWork
<1>a. op \in [Overlappeds -> OpStates] /\ job \in [Jobs -> JobStates]
  BY DEF Types
<1> SUFFICES overlappedCount' = L' + W'
  BY DEF CountMatchesWork
<1> HIDE DEF L, W
<1>1. ASSUME NEW o \in Ops, StartIO(o) PROVE overlappedCount' = L' + W'
  <2>1. o \in Overlappeds /\ op[o] = "idle" /\ W' = W
    BY <1>1, SameWork DEF Overlappeds, StartIO, W
  <2>2. \/ \E st \in {"pending", "queued"} : CreateOverlapped(o, st)
        \/ op' = [op EXCEPT ![o] = "done"] /\ overlappedCount' = overlappedCount
    BY <1>1 DEF StartIO
  <2>3. ASSUME NEW st \in {"pending", "queued"}, CreateOverlapped(o, st)
        PROVE  overlappedCount' = L' + W'
    <3>1. L' = L + 1
      BY <1>a, <2>1, <2>3, LiveChanges, WhatCounts DEF CreateOverlapped, L
    <3> QED BY <1>0, <2>1, <2>3, <3>1 DEF CreateOverlapped
  <2>4. CASE op' = [op EXCEPT ![o] = "done"] /\ overlappedCount' = overlappedCount
    <3>1. L' = L
      BY <1>a, <2>1, <2>4, LiveChanges, WhatCounts DEF L
    <3> QED BY <1>0, <2>1, <2>4, <3>1
  <2> QED BY <2>2, <2>3, <2>4
<1>2. ASSUME NEW o \in Ops, Execute(o) PROVE overlappedCount' = L' + W'
  <2>1. o \in Overlappeds /\ op[o] = "idle" /\ W' = W
    BY <1>2, SameWork DEF Overlappeds, Execute, W
  <2>2. \/ CreateOverlapped(o, "queued")
        \/ op' = [op EXCEPT ![o] = "rejected"] /\ overlappedCount' = overlappedCount
    BY <1>2 DEF Execute
  <2>3. CASE CreateOverlapped(o, "queued")
    <3>1. L' = L + 1
      BY <1>a, <2>1, <2>3, LiveChanges, WhatCounts DEF CreateOverlapped, L
    <3> QED BY <1>0, <2>1, <2>3, <3>1 DEF CreateOverlapped
  <2>4. CASE op' = [op EXCEPT ![o] = "rejected"] /\ overlappedCount' = overlappedCount
    <3>1. L' = L
      BY <1>a, <2>1, <2>4, LiveChanges, WhatCounts DEF L
    <3> QED BY <1>0, <2>1, <2>4, <3>1
  <2> QED BY <2>2, <2>3, <2>4
<1>3. ASSUME NEW j \in Jobs, Resolve(j) PROVE overlappedCount' = L' + W'
  <2>1. L' = L
    BY <1>3, SameWork DEF Resolve, ioVars, L
  <2>2. W' = W + 1
    BY <1>3, <1>a, OpenWorkChanges, WhatCounts DEF Resolve, W
  <2> QED BY <1>0, <1>3, <2>1, <2>2 DEF Resolve
<1>4. ASSUME NEW o \in Ops, Complete(o) PROVE overlappedCount' = L' + W'
  <2>1. o \in Overlappeds /\ W' = W
    BY <1>4, SameWork DEF Overlappeds, Complete, W
  <2>2. L' = L
    BY <1>4, <2>1, <1>a, LiveChanges, WhatCounts DEF Complete, L
  <2> QED BY <1>0, <1>4, <2>1, <2>2 DEF Complete
<1>5. ASSUME NEW j \in Jobs, Worker(j) PROVE overlappedCount' = L' + W'
  <2>0. j \in Overlappeds
    BY DEF Overlappeds
  <2>1. CASE WorkerCreates(j)
    <3>1. op[j] = "idle"
      BY <2>1 DEF WorkerCreates, JobsAndObjects
    <3>2. L' = L + 1
      BY <2>0, <2>1, <3>1, <1>a, LiveChanges, WhatCounts DEF WorkerCreates, CreateOverlapped, L
    <3>3. W' = W
      BY <2>1, <1>a, OpenWorkChanges, WhatCounts DEF WorkerCreates, W
    <3> QED BY <1>0, <2>1, <3>2, <3>3 DEF WorkerCreates, CreateOverlapped
  <2>2. CASE WorkerPosts(j)
    <3>1. op[j] = "created"
      BY <2>2 DEF WorkerPosts, JobsAndObjects
    <3>2. W' = W
      <4>1. \E st \in {"ending", "lost"} : job' = [job EXCEPT ![j] = st]
        BY <2>2 DEF WorkerPosts
      <4> QED BY <2>2, <4>1, <1>a, OpenWorkChanges, WhatCounts DEF WorkerPosts, W
    <3>3. CASE op' = [op EXCEPT ![j] = "queued"] /\ overlappedCount' = overlappedCount
      BY <1>0, <2>0, <3>1, <3>2, <3>3, <1>a, LiveChanges, WhatCounts DEF L
    <3>4. CASE DestroyOverlapped(j, "rejected")
      <4>1. L' = L - 1
        BY <1>a, <2>0, <3>1, <3>4, LiveChanges, WhatCounts DEF DestroyOverlapped, L
      <4> QED BY <1>0, <3>2, <3>4, <4>1 DEF DestroyOverlapped
    <3> QED BY <2>2, <3>3, <3>4 DEF WorkerPosts
  <2>3. CASE WorkerEnds(j)
    <3>1. L' = L
      BY <2>3, SameWork DEF WorkerEnds, L
    <3>2. W' = W - 1
      <4>1. job[j] = "ending" /\ job' = [job EXCEPT ![j] = "done"]
        BY <2>3 DEF WorkerEnds
      <4> QED BY <4>1, <1>a, OpenWorkChanges, WhatCounts DEF W
    <3> QED BY <1>0, <2>3, <3>1, <3>2 DEF WorkerEnds
  <2> QED BY <1>5, <2>1, <2>2, <2>3 DEF Worker
<1>6. CASE Dequeue
  <2> DEFINE o == Head(completionPort)
  <2>1. o \in Overlappeds /\ op[o] = "queued"
    BY <1>6, DequeueTakes DEF Dequeue, PortHoldsQueued, Types
  <2>2. op' = [op EXCEPT ![o] = "running"] /\ overlappedCount' = overlappedCount /\ job' = job
    BY <1>6 DEF Dequeue
  <2> HIDE DEF o
  <2>3. L' = L
    BY <2>1, <2>2, <1>a, LiveChanges, WhatCounts DEF L
  <2>4. W' = W
    BY <2>2, SameWork DEF W
  <2> QED BY <1>0, <2>2, <2>3, <2>4
<1>7. CASE CallbackReturns
  <2>1. current \in Overlappeds /\ op[current] = "running"
    BY <1>7 DEF CallbackReturns, RunningIsCurrent
  <2>2. op' = [op EXCEPT ![current] = "done"]
    BY <1>7 DEF CallbackReturns, DestroyOverlapped
  <2>3. L' = L - 1
    BY <1>a, <2>1, <2>2, LiveChanges, WhatCounts DEF L
  <2>4. W' = W
    BY <1>7, SameWork DEF CallbackReturns, W
  <2> QED BY <1>0, <1>7, <2>3, <2>4 DEF CallbackReturns, DestroyOverlapped
<1>8. CASE CallbackThrows
  <2>1. W' = W
    BY <1>8, SameWork DEF CallbackThrows, W
  <2>2. L' = L
    <3>1. CASE pc = "callback"
      <4>1. current \in Overlappeds /\ op[current] = "running"
        BY <3>1 DEF RunningIsCurrent
      <4> QED BY <1>8, <3>1, <4>1, <1>a, LiveChanges, WhatCounts DEF CallbackThrows, L
    <3>2. CASE pc # "callback"
      BY <1>8, <3>2, SameWork DEF CallbackThrows, L
    <3> QED BY <3>1, <3>2
  <2> QED BY <1>0, <1>8, <2>1, <2>2 DEF CallbackThrows
<1>9. ASSUME UNCHANGED <<op, job, overlappedCount>> PROVE overlappedCount' = L' + W'
  BY <1>0, <1>9, SameWork DEF L, W
<1>10. (\E t \in Timers, d \in Delays : Wait(t, d)) \/ Run \/ LoopTest \/ FireTimer
       \/ TimerReturns \/ Poll \/ WaitEnds \/ Tick \/ UNCHANGED vars
       => UNCHANGED <<op, job, overlappedCount>>
  BY DEF Wait, Run, LoopTest, FireTimer, TimerReturns, Poll, WaitEnds, Tick, vars, ioVars
<1> QED BY <1>1, <1>2, <1>3, <1>4, <1>5, <1>6, <1>7, <1>8, <1>9, <1>10 DEF Next, User, Loop

-----------------------------------------------------------------------------
(* The port, the running callback and the jobs.                            *)

\* Posting an object that had no packet, and that is queued now, is safe.
LEMMA PostIsSafe ==
  ASSUME Types, PortHoldsQueued, NEW o \in Overlappeds, op[o] # "queued",
         op' = [op EXCEPT ![o] = "queued"], Post(o)
  PROVE  PortHoldsQueued'
<1> DEFINE n == Len(completionPort)
<1>1. /\ n \in Nat /\ Len(completionPort') = n + 1
      /\ \A i \in 1..n : completionPort'[i] = completionPort[i] /\ completionPort[i] \in Overlappeds
      /\ completionPort'[n + 1] = o
  BY PostAppends DEF Types
<1> HIDE DEF n
<1>2. \A i \in 1..(n + 1) : op'[completionPort'[i]] = "queued"
  <2>1. \A i \in 1..n : op'[completionPort[i]] = "queued"
    BY <1>1 DEF PortHoldsQueued, Types, n
  <2> QED BY <1>1, <2>1 DEF Types
<1>3. ASSUME NEW i \in 1..(n + 1), NEW k \in 1..(n + 1), completionPort'[i] = completionPort'[k]
      PROVE  i = k
  <2>1. \A m \in 1..n : completionPort[m] # o
    BY DEF PortHoldsQueued, n
  <2>2. CASE i \in 1..n /\ k \in 1..n
    BY <1>1, <1>3, <2>2 DEF PortHoldsQueued, n
  <2>3. CASE i \notin 1..n \/ k \notin 1..n
    BY <1>1, <1>3, <2>1, <2>3
  <2> QED BY <2>2, <2>3
<1> QED BY <1>1, <1>2, <1>3 DEF PortHoldsQueued

\* An object that has no packet may change state.
LEMMA UnqueuedIsSafe ==
  ASSUME Types, PortHoldsQueued, NEW o \in Overlappeds, op[o] # "queued", NEW st,
         op' = [op EXCEPT ![o] = st], UNCHANGED completionPort
  PROVE  PortHoldsQueued'
<1>1. \A i \in 1..Len(completionPort) : completionPort[i] \in Overlappeds
  BY DEF Types
<1> QED BY <1>1 DEF PortHoldsQueued, Types

LEMMA PortStep ==
  ASSUME Types, PortHoldsQueued, RunningIsCurrent, JobsAndObjects, [Next]_vars
  PROVE  PortHoldsQueued'
<1>1. ASSUME NEW o \in Ops, StartIO(o) \/ Execute(o) PROVE PortHoldsQueued'
  <2>1. o \in Overlappeds /\ op[o] = "idle"
    BY <1>1 DEF StartIO, Execute, Overlappeds
  <2>2. \/ op' = [op EXCEPT ![o] = "queued"] /\ Post(o)
        \/ \E st \in {"pending", "done", "rejected"} :
             op' = [op EXCEPT ![o] = st] /\ UNCHANGED completionPort
    BY <1>1 DEF StartIO, Execute, CreateOverlapped
  <2> QED BY <2>1, <2>2, PostIsSafe, UnqueuedIsSafe
<1>2. ASSUME NEW o \in Ops, Complete(o) PROVE PortHoldsQueued'
  BY <1>2, PostIsSafe DEF Complete, Overlappeds
<1>3. ASSUME NEW j \in Jobs, Worker(j) PROVE PortHoldsQueued'
  <2>0. j \in Overlappeds
    BY DEF Overlappeds
  <2>1. CASE WorkerCreates(j)
    <3>1. op[j] = "idle"
      BY <2>1 DEF WorkerCreates, JobsAndObjects
    <3> QED BY <2>0, <2>1, <3>1, UnqueuedIsSafe DEF WorkerCreates, CreateOverlapped
  <2>2. CASE WorkerPosts(j)
    <3>1. op[j] = "created"
      BY <2>2 DEF WorkerPosts, JobsAndObjects
    <3> QED BY <2>0, <2>2, <3>1, PostIsSafe, UnqueuedIsSafe DEF WorkerPosts, DestroyOverlapped
  <2>3. CASE WorkerEnds(j)
    BY <2>3 DEF WorkerEnds, PortHoldsQueued
  <2> QED BY <1>3, <2>1, <2>2, <2>3 DEF Worker
<1>4. CASE Dequeue
  <2> DEFINE n == Len(completionPort)
  <2>1. /\ n \in Nat \ {0} /\ Len(completionPort') = n - 1
        /\ \A i \in 1..(n - 1) : completionPort'[i] = completionPort[i + 1]
        /\ Head(completionPort) = completionPort[1]
        /\ \A i \in 1..n : completionPort[i] \in Overlappeds
        /\ op' = [op EXCEPT ![completionPort[1]] = "running"]
    BY <1>4, DequeueTakes DEF Dequeue, Types
  <2>2. \A i \in 1..n : op[completionPort[i]] = "queued"
    BY DEF PortHoldsQueued
  <2>3. \A i, k \in 1..n : completionPort[i] = completionPort[k] => i = k
    BY DEF PortHoldsQueued
  <2> HIDE DEF n
  <2>4. \A i \in 1..(n - 1) : op'[completionPort'[i]] = "queued"
    <3> TAKE i \in 1..(n - 1)
    <3>1. i + 1 \in 1..n /\ 1 \in 1..n /\ i + 1 # 1
      BY <2>1
    <3>2. completionPort[i + 1] # completionPort[1]
      BY <2>3, <3>1
    <3> QED BY <2>1, <2>2, <3>1, <3>2 DEF Types
  <2>5. \A i, k \in 1..(n - 1) : completionPort'[i] = completionPort'[k] => i = k
    <3> TAKE i, k \in 1..(n - 1)
    <3>1. i + 1 \in 1..n /\ k + 1 \in 1..n
      BY <2>1
    <3>2. completionPort[i + 1] = completionPort[k + 1] => i + 1 = k + 1
      BY <2>3, <3>1
    <3> QED BY <2>1, <3>2
  <2> QED BY <2>1, <2>4, <2>5 DEF PortHoldsQueued
<1>5. CASE CallbackReturns
  BY <1>5, UnqueuedIsSafe DEF CallbackReturns, DestroyOverlapped, RunningIsCurrent
<1>6. CASE CallbackThrows
  <2>1. CASE pc = "callback"
    BY <1>6, <2>1, UnqueuedIsSafe DEF CallbackThrows, RunningIsCurrent
  <2>2. CASE pc # "callback"
    BY <1>6, <2>2 DEF CallbackThrows, PortHoldsQueued
  <2> QED BY <2>1, <2>2
<1>7. ASSUME UNCHANGED <<op, completionPort>> PROVE PortHoldsQueued'
  BY <1>7 DEF PortHoldsQueued
<1>8. (\E j \in Jobs : Resolve(j)) \/ (\E t \in Timers, d \in Delays : Wait(t, d)) \/ Run
      \/ LoopTest \/ FireTimer \/ TimerReturns \/ Poll \/ WaitEnds \/ Tick \/ UNCHANGED vars
      => UNCHANGED <<op, completionPort>>
  BY DEF Resolve, Wait, Run, LoopTest, FireTimer, TimerReturns, Poll, WaitEnds, Tick, vars, ioVars
<1> QED BY <1>1, <1>2, <1>3, <1>4, <1>5, <1>6, <1>7, <1>8 DEF Next, User, Loop

\* No action but Dequeue makes an object running.
LEMMA RunningStep ==
  ASSUME Types, PortHoldsQueued, RunningIsCurrent, JobsAndObjects, [Next]_vars
  PROVE  RunningIsCurrent'
<1>1. CASE Dequeue
  <2>1. Head(completionPort) \in Overlappeds /\ pc = "waiting"
    BY <1>1, DequeueTakes DEF Dequeue, Types
  <2> QED BY <1>1, <2>1 DEF Dequeue, RunningIsCurrent, Types
<1>2. CASE CallbackReturns
  BY <1>2 DEF CallbackReturns, DestroyOverlapped, RunningIsCurrent, Types
<1>3. CASE CallbackThrows
  BY <1>3 DEF CallbackThrows, RunningIsCurrent, Types
<1>4. ASSUME NEW o \in Overlappeds, NEW st, st # "running", op[o] # "running",
             op' = [op EXCEPT ![o] = st], UNCHANGED <<pc, current>>
      PROVE  RunningIsCurrent'
  BY <1>4 DEF RunningIsCurrent, Types
<1>5. ASSUME NEW o \in Ops, StartIO(o) \/ Execute(o) \/ Complete(o) PROVE RunningIsCurrent'
  <2>1. o \in Overlappeds /\ op[o] # "running" /\ UNCHANGED <<pc, current>>
    BY <1>5 DEF StartIO, Execute, Complete, Overlappeds, loopVars
  <2>2. \E st \in {"pending", "queued", "done", "rejected"} : op' = [op EXCEPT ![o] = st]
    BY <1>5 DEF StartIO, Execute, Complete, CreateOverlapped
  <2> QED BY <1>4, <2>1, <2>2
<1>6. ASSUME NEW j \in Jobs, WorkerCreates(j) \/ WorkerPosts(j)
      PROVE  RunningIsCurrent'
  <2>1. j \in Overlappeds /\ op[j] # "running" /\ UNCHANGED <<pc, current>>
    BY <1>6 DEF WorkerCreates, WorkerPosts, Overlappeds, loopVars, JobsAndObjects
  <2>2. \E st \in {"created", "queued", "rejected"} : op' = [op EXCEPT ![j] = st]
    BY <1>6 DEF WorkerCreates, WorkerPosts, CreateOverlapped, DestroyOverlapped
  <2> QED BY <1>4, <2>1, <2>2
<1>7. CASE Run \/ LoopTest \/ FireTimer \/ TimerReturns \/ Poll \/ WaitEnds
  <2>1. op' = op /\ pc # "callback" /\ pc' # "callback"
    BY <1>7 DEF Run, LoopTest, FireTimer, TimerReturns, Poll, WaitEnds, ioVars, Outside
  <2> QED BY <2>1 DEF RunningIsCurrent
<1>8. CASE \/ \E j \in Jobs : Resolve(j) \/ WorkerEnds(j)
           \/ \E t \in Timers, d \in Delays : Wait(t, d)
           \/ Tick \/ UNCHANGED vars
  <2>1. UNCHANGED <<op, pc, current>>
    BY <1>8 DEF Resolve, WorkerEnds, Wait, Tick, vars, ioVars, loopVars
  <2> QED BY <2>1 DEF RunningIsCurrent
<1> QED BY <1>1, <1>2, <1>3, <1>5, <1>6, <1>7, <1>8 DEF Next, User, Loop, Worker

\* Jobs and their objects move together.
LEMMA JobsStep ==
  ASSUME Types, PortHoldsQueued, RunningIsCurrent, JobsAndObjects, [Next]_vars
  PROVE  JobsAndObjects'
<1>1. ASSUME NEW o \in Ops, StartIO(o) \/ Execute(o) \/ Complete(o) PROVE JobsAndObjects'
  <2>1. \E st \in {"pending", "queued", "done", "rejected"} : op' = [op EXCEPT ![o] = st]
    BY <1>1 DEF StartIO, Execute, Complete, CreateOverlapped
  <2>2. job' = job /\ o \notin Jobs
    BY <1>1, DistinctWork DEF StartIO, Execute, Complete
  <2> QED BY <2>1, <2>2 DEF JobsAndObjects, Types, Overlappeds
<1>2. ASSUME NEW j \in Jobs, Resolve(j) \/ WorkerEnds(j) PROVE JobsAndObjects'
  <2>1. \/ job[j] = "idle" /\ job' = [job EXCEPT ![j] = "pooled"]
        \/ job[j] = "ending" /\ job' = [job EXCEPT ![j] = "done"]
    BY <1>2 DEF Resolve, WorkerEnds
  <2>2. op' = op
    BY <1>2 DEF Resolve, WorkerEnds
  <2> QED BY <2>1, <2>2 DEF JobsAndObjects, Types
<1>3. ASSUME NEW j \in Jobs, WorkerCreates(j) PROVE JobsAndObjects'
  BY <1>3, DistinctWork DEF WorkerCreates, CreateOverlapped, JobsAndObjects, Types, Overlappeds
<1>4. ASSUME NEW j \in Jobs, WorkerPosts(j) PROVE JobsAndObjects'
  <2>1. \/ job' = [job EXCEPT ![j] = "ending"] /\ op' = [op EXCEPT ![j] = "queued"]
        \/ job' = [job EXCEPT ![j] = "lost"] /\ op' = [op EXCEPT ![j] = "rejected"]
    BY <1>4 DEF WorkerPosts, DestroyOverlapped
  <2> QED BY <2>1, DistinctWork DEF JobsAndObjects, Types, Overlappeds
<1>5. ASSUME NEW o \in Overlappeds, job' = job,
             \/ op[o] = "queued" /\ op' = [op EXCEPT ![o] = "running"]
             \/ op[o] = "running" /\ \E st \in {"done", "thrown"} : op' = [op EXCEPT ![o] = st]
      PROVE  JobsAndObjects'
  <2>1. ASSUME NEW k \in Overlappeds
        PROVE  \/ op'[k] = op[k]
               \/ /\ op[k] \in {"queued", "running"}
                  /\ op'[k] \in {"running", "done", "thrown"}
    BY <1>5 DEF Types
  <2>2. \A k \in Ops : op'[k] # "created"
    BY <2>1 DEF JobsAndObjects, Overlappeds
  <2>3. ASSUME NEW k \in Jobs
        PROVE  /\ job'[k] \in {"idle", "pooled"} => op'[k] = "idle"
               /\ job'[k] = "posting" => op'[k] = "created"
               /\ job'[k] \in {"ending", "done"} => op'[k] \in {"queued", "running", "thrown", "done"}
               /\ job'[k] = "lost" => op'[k] = "rejected"
    <3>1. k \in Overlappeds
      BY DEF Overlappeds
    <3> QED BY <1>5, <2>1, <3>1 DEF JobsAndObjects
  <2> QED BY <2>2, <2>3 DEF JobsAndObjects
<1>6. CASE Dequeue
  <2>1. Head(completionPort) \in Overlappeds /\ op[Head(completionPort)] = "queued"
    BY <1>6, DequeueTakes DEF Dequeue, PortHoldsQueued, Types
  <2>2. /\ op' = [op EXCEPT ![Head(completionPort)] = "running"]
        /\ job' = job
    BY <1>6 DEF Dequeue
  <2> QED BY <1>5, <2>1, <2>2
<1>7. CASE CallbackReturns
  BY <1>5, <1>7 DEF CallbackReturns, DestroyOverlapped, RunningIsCurrent
<1>8. CASE CallbackThrows
  <2>1. CASE pc = "callback"
    BY <1>5, <1>8, <2>1 DEF CallbackThrows, RunningIsCurrent
  <2>2. CASE pc # "callback"
    BY <1>8, <2>2 DEF CallbackThrows, JobsAndObjects
  <2> QED BY <2>1, <2>2
<1>9. CASE (\E t \in Timers, d \in Delays : Wait(t, d)) \/ Run \/ LoopTest \/ FireTimer
           \/ TimerReturns \/ Poll \/ WaitEnds \/ Tick \/ UNCHANGED vars
  <2>1. UNCHANGED <<op, job>>
    BY <1>9 DEF Wait, Run, LoopTest, FireTimer, TimerReturns, Poll, WaitEnds, Tick, vars, ioVars
  <2> QED BY <2>1 DEF JobsAndObjects
<1> QED BY <1>1, <1>2, <1>3, <1>4, <1>6, <1>7, <1>8, <1>9 DEF Next, User, Loop, Worker

-----------------------------------------------------------------------------
(* Timers.                                                                 *)

\* The heap's top is the earliest queued timer, and popping it leaves another.
LEMMA TopStep ==
  ASSUME Types, TopIsEarliest, FiringIsTop, NowIsPast, [Next]_vars
  PROVE  TopIsEarliest' /\ FiringIsTop' /\ NowIsPast'
<1>1. ASSUME NEW t \in Timers, NEW d \in Delays, Wait(t, d)
      PROVE  TopIsEarliest' /\ FiringIsTop' /\ NowIsPast'
  <2> DEFINE tp == clock + d
  <2>1. tp \in Int
    BY IntegerDelays DEF Types
  <2>2. Queue' = Queue \cup {t} /\ t \notin Queue /\ timePoint'[t] = tp
    BY <1>1 DEF Wait, Queue, Types
  <2>3. \A u \in Queue : timePoint'[u] = timePoint[u]
    BY <1>1, <2>2 DEF Wait, Queue, Types
  <2>4. top' = IF Displaces(t, tp) THEN t ELSE top
    BY <1>1 DEF Wait
  <2> HIDE DEF tp
  <2>5. \A u \in Queue : u \in Timers /\ timePoint[u] \in Int
    BY DEF Queue, Types
  <2>6. TopIsEarliest'
    <3>1. CASE top = None
      BY <2>1, <2>2, <2>4, <3>1, DistinctWork DEF TopIsEarliest, Displaces
    <3>2. CASE top # None /\ tp < timePoint[top]
      BY <2>1, <2>2, <2>3, <2>4, <2>5, <3>2, DistinctWork DEF TopIsEarliest, Displaces
    <3>3. CASE top # None /\ ~(tp < timePoint[top])
      BY <2>1, <2>2, <2>3, <2>4, <2>5, <3>3 DEF TopIsEarliest, Displaces
    <3> QED BY <3>1, <3>2, <3>3
  <2>7. FiringIsTop'
    <3>1. UNCHANGED <<pc, current, now>>
      BY <1>1 DEF Wait, loopVars
    <3> SUFFICES ASSUME pc = "timercb"
                 PROVE  /\ current \in Queue' /\ top' # None /\ timePoint'[top'] <= now
                        /\ top' # current => timePoint'[top'] < timePoint'[current]
      BY <3>1 DEF FiringIsTop
    <3>2. /\ current \in Queue /\ top # None /\ timePoint[top] <= now /\ top \in Queue
          /\ top # current => timePoint[top] < timePoint[current]
      BY DEF FiringIsTop, TopIsEarliest
    <3>3. now \in Nat /\ t # None
      BY DistinctWork DEF Types
    <3>4. CASE Displaces(t, tp)
      <4>1. top' = t /\ tp < timePoint[top]
        BY <2>4, <3>2, <3>4 DEF Displaces
      <4> QED BY <2>1, <2>2, <2>3, <2>5, <3>2, <3>3, <4>1
    <3>5. CASE ~Displaces(t, tp)
      BY <2>2, <2>3, <2>4, <3>2, <3>5
    <3> QED BY <3>4, <3>5
  <2> QED BY <1>1, <2>6, <2>7 DEF Wait, NowIsPast, loopVars
<1>2. CASE TimerReturns
  <2>1. top \in Queue
    BY <1>2 DEF TimerReturns, FiringIsTop, TopIsEarliest
  <2>2. Queue' = Queue \ {top}
    BY <1>2, <2>1 DEF TimerReturns, Pop, Queue, Types
  <2>3. TopIsEarliest'
    BY <1>2, <2>2, DistinctWork DEF TimerReturns, Pop, TopIsEarliest, Queue
  <2> QED BY <1>2, <2>3 DEF TimerReturns, FiringIsTop, NowIsPast
<1>3. CASE UNCHANGED timerVars
  <2>1. TopIsEarliest'
    BY <1>3 DEF timerVars, TopIsEarliest, Queue
  <2>2. NowIsPast'
    <3>1. UNCHANGED <<now, clock>> \/ (now' = clock /\ clock' = clock)
          \/ (now' = now /\ clock' = clock + 1)
      BY <1>3 DEF Next, User, Loop, Worker, StartIO, Execute, Complete, Resolve, WorkerCreates,
         WorkerPosts, WorkerEnds, Wait, Run, LoopTest, FireTimer, TimerReturns, Poll, Dequeue,
         CallbackReturns, WaitEnds, CallbackThrows, Tick, vars, loopVars
    <3> QED BY <3>1 DEF NowIsPast, Types
  <2>3. FiringIsTop'
    <3>1. UNCHANGED <<Queue, top, timePoint>>
      BY <1>3 DEF timerVars, Queue
    <3> QED
    BY <3>1, <1>3 DEF FiringIsTop, TopIsEarliest, TimerDue, Next, User, Loop, Worker, StartIO, Execute,
       Complete, Resolve, WorkerCreates, WorkerPosts, WorkerEnds, Wait, Run, LoopTest, FireTimer,
       TimerReturns, Poll, Dequeue, CallbackReturns, WaitEnds, CallbackThrows, Tick, vars, loopVars
  <2> QED BY <2>1, <2>2, <2>3
<1>4. \/ \E t \in Timers, d \in Delays : Wait(t, d)
      \/ TimerReturns \/ UNCHANGED timerVars
  BY DEF Next, User, Loop, Worker, StartIO, Execute, Complete, Resolve, WorkerCreates,
     WorkerPosts, WorkerEnds, Run, LoopTest, FireTimer, Poll, Dequeue,
     CallbackReturns, WaitEnds, CallbackThrows, Tick, vars
<1> QED BY <1>1, <1>2, <1>3, <1>4

-----------------------------------------------------------------------------
(* How often a callback is called.                                         *)

LEMMA LostIsFinite == IsFiniteSet(Lost) /\ Cardinality(Lost) \in Nat
<1>1. Lost \subseteq Timers
  BY DEF Lost
<1> QED BY <1>1, FiniteWork, FS_Subset, FS_CardinalityType

\* A timer is lost when pop() finds another than the fired one on top.
LEMMA LostStep ==
  ASSUME Types, TopIsEarliest, FiringIsTop, FiringWasCalled, PortHoldsQueued, [Next]_vars
  PROVE  \/ Lost' = Lost
         \/ /\ pc = "timercb" /\ pc' = "timers" /\ top # current
            /\ top \notin Lost /\ Lost' = Lost \cup {top}
<1>c. /\ \A t \in Timers : calls[t] \in Nat /\ t \in Callbacks /\ t \notin Overlappeds
      /\ \A o \in Ops : o \in Overlappeds
  BY DistinctWork DEF Types, Callbacks, Overlappeds
<1>1. CASE TimerReturns
  <2>1. /\ top \in Queue /\ pc = "timercb" /\ pc' = "timers"
        /\ calls[current] > 0 /\ (top # current => calls[top] = 0)
    BY <1>1 DEF TimerReturns, FiringIsTop, TopIsEarliest, FiringWasCalled
  <2>2. timer' = [timer EXCEPT ![top] = "popped"] /\ calls' = calls
    BY <1>1 DEF TimerReturns, Pop
  <2>3. top \in Timers /\ timer[top] = "queued"
    BY <2>1 DEF Queue
  <2>4. CASE top = current
    BY <1>c, <2>1, <2>2, <2>3, <2>4 DEF Lost, Types
  <2>5. CASE top # current
    BY <2>1, <2>2, <2>3, <2>5 DEF Lost, Types
  <2> QED BY <2>4, <2>5
<1>2. CASE FireTimer
  <2>1. top \in Timers /\ timer[top] = "queued"
    BY <1>2 DEF FireTimer, TimerDue, TopIsEarliest, Queue
  <2>2. timer' = timer /\ calls' = [calls EXCEPT ![top] = @ + 1]
    BY <1>2 DEF FireTimer, Call, timerVars
  <2> QED BY <2>1, <2>2 DEF Lost, Types
<1>3. ASSUME NEW t \in Timers, NEW d \in Delays, Wait(t, d) PROVE Lost' = Lost
  BY <1>3 DEF Wait, Lost, Types
<1>4. ASSUME timer' = timer, \A t \in Timers : calls'[t] = calls[t] PROVE Lost' = Lost
  BY <1>4 DEF Lost
<1>5. ASSUME NEW o \in Overlappeds, timer' = timer, Call(o) PROVE Lost' = Lost
  BY <1>c, <1>4, <1>5 DEF Call, Types
<1>6. CASE Dequeue
  BY <1>5, <1>6, DequeueTakes DEF Dequeue, timerVars, Types
<1>7. \/ TimerReturns \/ FireTimer \/ Dequeue
      \/ \E t \in Timers, d \in Delays : Wait(t, d)
      \/ timer' = timer /\ calls' = calls
      \/ \E o \in Ops : timer' = timer /\ Call(o)
  BY DEF Next, User, Loop, Worker, StartIO, Execute, Complete, Resolve, WorkerCreates,
     WorkerPosts, WorkerEnds, Run, LoopTest, Poll, CallbackReturns, WaitEnds,
     CallbackThrows, Tick, vars, timerVars
<1> QED BY <1>c, <1>1, <1>2, <1>3, <1>4, <1>5, <1>6, <1>7

LEMMA CallsStep ==
  ASSUME Types, PortHoldsQueued, RunningIsCurrent, JobsAndObjects, TopIsEarliest,
         FiringIsTop, FiringWasCalled, CallsMatch, [Next]_vars
  PROVE  CallsMatch'
<1> DEFINE N == Cardinality(Lost)
           Called == {"running", "thrown", "done"}
           OpCalls == \A o \in Overlappeds : calls[o] = IF op[o] \in Called THEN 1 ELSE 0
           TimerCalls ==
             \A t \in Timers :
               /\ timer[t] = "idle" => calls[t] = 0
               /\ timer[t] = "queued" =>
                    calls[t] <= throws + N + (IF pc = "timercb" /\ t = current THEN 1 ELSE 0)
               /\ timer[t] = "popped" => calls[t] <= throws + N + 1
<1>0. OpCalls /\ TimerCalls
  BY DEF CallsMatch
<1> SUFFICES OpCalls' /\ TimerCalls'
  BY DEF CallsMatch
<1>n. /\ N \in Nat
      /\ pc # "timercb" \/ pc' # "timers" => N' = N
      /\ pc = "timercb" /\ pc' = "timers" /\ top = current => N' = N
      /\ N' = N \/ (pc = "timercb" /\ pc' = "timers" /\ top # current /\ N' = N + 1)
  BY LostStep, LostIsFinite, AddOne
<1> HIDE DEF N
<1>d. \A t \in Timers : t \notin Overlappeds
  BY DistinctWork DEF Overlappeds
<1>t. \A t \in Timers : calls[t] \in Nat /\ throws \in Nat
  BY DEF Types, Callbacks
\* Timers see no change when their own variables and the loop's stay.
<1>1. ASSUME UNCHANGED <<timer, throws, pc, current>>, \A t \in Timers : calls'[t] = calls[t]
      PROVE  TimerCalls'
  BY <1>0, <1>1, <1>n
\* Nor when the loop moves on without a timer's callback.
<1>2. ASSUME UNCHANGED <<timer, throws>>, pc # "timercb", \A t \in Timers : calls'[t] = calls[t]
      PROVE  TimerCalls'
  <2>1. ASSUME NEW t \in Timers
        PROVE  /\ timer[t] = "idle" => calls[t] = 0
               /\ timer[t] = "queued" => calls[t] <= throws + N
               /\ timer[t] = "popped" => calls[t] <= throws + N + 1
    BY <1>0, <1>2, <1>n, <1>t
  <2> QED BY <1>2, <1>n, <1>t, <2>1
\* One object changes state and is called as the state says.
<1>3. ASSUME NEW o \in Overlappeds, NEW st, op' = [op EXCEPT ![o] = st],
             \/ (op[o] \in Called <=> st \in Called) /\ calls' = calls
             \/ op[o] \notin Called /\ st \in Called /\ Call(o)
      PROVE  OpCalls' /\ \A t \in Timers : calls'[t] = calls[t]
  BY <1>0, <1>3, <1>d DEF Call, Types, Callbacks
<1>4. ASSUME NEW o \in Ops, StartIO(o) \/ Execute(o) \/ Complete(o)
      PROVE  OpCalls' /\ TimerCalls'
  <2>1. o \in Overlappeds /\ op[o] \notin Called
    BY <1>4 DEF StartIO, Execute, Complete, Overlappeds
  <2>2. \/ op' = [op EXCEPT ![o] = "done"] /\ Call(o)
        \/ \E st \in {"pending", "queued", "rejected"} :
             op' = [op EXCEPT ![o] = st] /\ calls' = calls
    BY <1>4 DEF StartIO, Execute, Complete, CreateOverlapped
  <2>3. OpCalls' /\ \A t \in Timers : calls'[t] = calls[t]
    BY <1>3, <2>1, <2>2
  <2>4. UNCHANGED <<timer, throws, pc, current>>
    BY <1>4 DEF StartIO, Execute, Complete, timerVars, loopVars
  <2> QED BY <1>1, <2>3, <2>4
<1>5. ASSUME NEW j \in Jobs, WorkerCreates(j) \/ WorkerPosts(j)
      PROVE  OpCalls' /\ TimerCalls'
  <2>1. j \in Overlappeds /\ op[j] \notin Called /\ calls' = calls
    BY <1>5 DEF WorkerCreates, WorkerPosts, Overlappeds, JobsAndObjects
  <2>2. \E st \in {"created", "queued", "rejected"} : op' = [op EXCEPT ![j] = st]
    BY <1>5 DEF WorkerCreates, WorkerPosts, CreateOverlapped, DestroyOverlapped
  <2>3. OpCalls'
    BY <1>3, <2>1, <2>2
  <2>4. UNCHANGED <<timer, throws, pc, current>>
    BY <1>5 DEF WorkerCreates, WorkerPosts, timerVars, loopVars
  <2> QED BY <1>1, <2>1, <2>3, <2>4
<1>6. CASE Dequeue
  <2>1. Head(completionPort) \in Overlappeds /\ op[Head(completionPort)] = "queued"
    BY <1>6, DequeueTakes DEF Dequeue, PortHoldsQueued, Types
  <2>2. /\ op' = [op EXCEPT ![Head(completionPort)] = "running"]
        /\ Call(Head(completionPort)) /\ UNCHANGED <<timer, throws>> /\ pc = "waiting"
    BY <1>6 DEF Dequeue, timerVars
  <2>3. OpCalls' /\ \A t \in Timers : calls'[t] = calls[t]
    BY <1>3, <2>1, <2>2
  <2> QED BY <1>2, <2>2, <2>3
<1>7. CASE CallbackReturns
  <2>1. /\ current \in Overlappeds /\ op[current] = "running" /\ calls' = calls
        /\ op' = [op EXCEPT ![current] = "done"] /\ UNCHANGED <<timer, throws>> /\ pc = "callback"
    BY <1>7 DEF CallbackReturns, DestroyOverlapped, RunningIsCurrent, timerVars
  <2>2. OpCalls'
    BY <1>3, <2>1
  <2> QED BY <1>2, <2>1, <2>2
<1>8. CASE CallbackThrows
  <2>1. OpCalls'
    <3>1. CASE pc = "callback"
      <4>1. /\ current \in Overlappeds /\ op[current] = "running" /\ calls' = calls
            /\ op' = [op EXCEPT ![current] = "thrown"]
        BY <1>8, <3>1 DEF CallbackThrows, RunningIsCurrent
      <4> QED BY <1>3, <4>1
    <3>2. CASE pc # "callback"
      BY <1>0, <1>8, <3>2 DEF CallbackThrows
    <3> QED BY <3>1, <3>2
  <2>2. calls' = calls /\ timer' = timer /\ throws' = throws + 1 /\ pc' = "threw"
    BY <1>8 DEF CallbackThrows, timerVars
  <2>3. TimerCalls'
    BY <1>0, <1>n, <1>t, <2>2
  <2> QED BY <2>1, <2>3
<1>9. CASE FireTimer
  <2>1. top \in Timers /\ timer[top] = "queued"
    BY <1>9 DEF FireTimer, TimerDue, TopIsEarliest, Queue
  <2>2. /\ calls' = [calls EXCEPT ![top] = @ + 1] /\ UNCHANGED <<op, timer, throws>>
        /\ pc = "timers" /\ pc' = "timercb" /\ current' = top
    BY <1>9 DEF FireTimer, Call, ioVars, timerVars
  <2>3. OpCalls'
    BY <1>0, <1>d, <2>1, <2>2 DEF Types, Callbacks
  <2>4. TimerCalls'
    <3>1. ASSUME NEW t \in Timers
          PROVE  /\ timer[t] = "idle" => calls[t] = 0
                 /\ timer[t] = "queued" => calls[t] <= throws + N
                 /\ timer[t] = "popped" => calls[t] <= throws + N + 1
      BY <1>0, <1>n, <1>t, <2>2
    <3>2. \A t \in Timers : calls'[t] = IF t = top THEN calls[t] + 1 ELSE calls[t]
      BY <2>1, <2>2 DEF Types, Callbacks
    <3> QED BY <1>n, <1>t, <2>1, <2>2, <3>1, <3>2
  <2> QED BY <2>3, <2>4
<1>10. CASE TimerReturns
  <2>1. /\ top \in Timers /\ current \in Timers /\ pc = "timercb" /\ pc' = "timers"
        /\ timer[current] = "queued"
        /\ top # current => calls[top] = 0 /\ N' = N + 1
        /\ top = current => N' = N
    <3>1. pc = "timercb" /\ pc' = "timers"
      BY <1>10 DEF TimerReturns
    <3>2. current \in Queue /\ top \in Queue /\ (top # current => calls[top] = 0)
      BY <3>1 DEF FiringIsTop, FiringWasCalled, TopIsEarliest
    <3>3. top # current => N' = N + 1
      <4>1. top # current => Lost' # Lost
        <5> SUFFICES ASSUME top # current PROVE top \in Lost' /\ top \notin Lost
          OBVIOUS
        <5>1. timer' = [timer EXCEPT ![top] = "popped"] /\ calls' = calls
          BY <1>10 DEF TimerReturns, Pop
        <5> QED BY <3>2, <5>1 DEF Lost, Queue, Types
      <4> QED BY <3>1, <4>1, LostStep, LostIsFinite, AddOne DEF N
    <3> QED BY <1>n, <3>1, <3>2, <3>3 DEF Queue
  <2>2. timer' = [timer EXCEPT ![top] = "popped"] /\ UNCHANGED <<op, calls, throws>>
    BY <1>10 DEF TimerReturns, Pop, ioVars
  <2>3. timer[top] = "queued"
    BY <1>10, <2>1 DEF TimerReturns, FiringIsTop, TopIsEarliest, Queue
  <2>4. TimerCalls'
    BY <1>0, <1>n, <1>t, <2>1, <2>2, <2>3 DEF Types
  <2> QED BY <1>0, <2>2, <2>4
<1>11. ASSUME NEW t \in Timers, NEW d \in Delays, Wait(t, d) PROVE OpCalls' /\ TimerCalls'
  <2>1. /\ timer[t] = "idle" /\ timer' = [timer EXCEPT ![t] = "queued"]
        /\ UNCHANGED <<op, calls, throws, pc, current>>
    BY <1>11 DEF Wait, ioVars, loopVars
  <2>2. calls[t] = 0
    BY <1>0, <2>1
  <2>3. TimerCalls'
    BY <1>0, <1>n, <1>t, <2>1, <2>2 DEF Types
  <2> QED BY <1>0, <2>1, <2>3
<1>12. CASE Run \/ LoopTest \/ Poll \/ WaitEnds
  <2>1. UNCHANGED <<op, timer, throws, calls>> /\ pc # "timercb"
    BY <1>12 DEF Run, LoopTest, Poll, WaitEnds, ioVars, timerVars, Outside
  <2> QED BY <1>0, <1>2, <2>1
<1>13. CASE (\E j \in Jobs : Resolve(j) \/ WorkerEnds(j)) \/ Tick \/ UNCHANGED vars
  <2>1. UNCHANGED <<op, timer, throws, calls, pc, current>>
    BY <1>13 DEF Resolve, WorkerEnds, Tick, vars, ioVars, timerVars, loopVars
  <2> QED BY <1>0, <1>1, <2>1
<1> QED BY <1>4, <1>5, <1>6, <1>7, <1>8, <1>9, <1>10, <1>11, <1>12, <1>13
        DEF Next, User, Loop, Worker

LEMMA FiringStep ==
  ASSUME Types, TopIsEarliest, FiringIsTop, FiringWasCalled, CallsMatch, [Next]_vars
  PROVE  FiringWasCalled'
<1>1. CASE FireTimer
  BY <1>1 DEF FireTimer, TimerDue, Call, FiringWasCalled, Types, Callbacks, timerVars
<1>2. CASE pc' # "timercb"
  BY <1>2 DEF FiringWasCalled
<1>3. CASE pc = "timercb" /\ UNCHANGED <<current, calls, top>>
  BY <1>3 DEF FiringWasCalled
<1>4. ASSUME NEW o \in Ops, Call(o), pc = "timercb", UNCHANGED <<current, top>>
      PROVE  FiringWasCalled'
  <2>1. current \in Timers /\ top \in Timers
    BY <1>4 DEF FiringIsTop, TopIsEarliest, Queue
  <2>2. \A t \in Timers : calls'[t] = calls[t]
    BY <1>4, DistinctWork DEF Call, Types, Callbacks, Overlappeds
  <2> QED BY <1>4, <2>1, <2>2 DEF FiringWasCalled
<1>5. ASSUME NEW t \in Timers, NEW d \in Delays, Wait(t, d), pc = "timercb"
      PROVE  FiringWasCalled'
  <2>1. timer[t] = "idle" /\ (top' = t \/ top' = top) /\ UNCHANGED <<current, calls>>
    BY <1>5 DEF Wait, loopVars
  <2>2. calls[t] = 0
    BY <2>1 DEF CallsMatch
  <2> QED BY <1>5, <2>1, <2>2 DEF FiringWasCalled
<1>6. \/ FireTimer \/ pc' # "timercb"
      \/ pc = "timercb" /\ UNCHANGED <<current, calls, top>>
      \/ \E o \in Ops : Call(o) /\ pc = "timercb" /\ UNCHANGED <<current, top>>
      \/ \E t \in Timers, d \in Delays : Wait(t, d) /\ pc = "timercb"
  BY DEF Next, User, Loop, Worker, UserCode, Outside, StartIO, Execute, Complete, Resolve, Wait,
     WorkerCreates, WorkerPosts, WorkerEnds, Run, LoopTest, TimerReturns, Poll, Dequeue,
     CallbackReturns, WaitEnds, CallbackThrows, Tick, vars, ioVars, timerVars, loopVars
<1> QED BY <1>1, <1>2, <1>3, <1>4, <1>5, <1>6

\* Delays that are not negative put nothing before the timer that is firing.
LEMMA NothingLostStep ==
  ASSUME Types, PortHoldsQueued, TopIsEarliest, FiringIsTop, FiringWasCalled, NowIsPast,
         NothingLost, [Next]_vars
  PROVE  NothingLost'
<1> SUFFICES ASSUME NonNegative PROVE Lost' = {} /\ (pc' = "timercb" => top' = current')
  BY DEF NothingLost, NonNegative
<1>1. Lost = {} /\ (pc = "timercb" => top = current)
  BY DEF NothingLost
<1>2. Lost' = {}
  BY <1>1, LostStep
<1>3. ASSUME NEW t \in Timers, NEW d \in Delays, Wait(t, d), pc = "timercb"
      PROVE  top' = current'
  <2>1. /\ top' = IF Displaces(t, clock + d) THEN t ELSE top
        /\ current' = current
    BY <1>3 DEF Wait, loopVars
  <2>2. top # None /\ top \in Timers /\ timePoint[top] <= now /\ timePoint[top] \in Int
    BY <1>3 DEF FiringIsTop, TopIsEarliest, Queue, Types
  <2>3. clock + d >= now /\ clock + d \in Int /\ now \in Int
    BY DEF NonNegative, NowIsPast, Types
  <2>4. ~Displaces(t, clock + d)
    <3> DEFINE tp == clock + d
    <3> HIDE DEF tp
    <3>1. tp \in Int /\ tp >= now /\ now \in Int
      BY <2>3 DEF tp
    <3>2. ~Displaces(t, tp)
      BY <2>2, <3>1 DEF Displaces
    <3> QED BY <3>2 DEF tp
  <2> QED BY <1>1, <1>3, <2>1, <2>4
<1>4. \/ FireTimer \/ pc' # "timercb"
      \/ pc = "timercb" /\ UNCHANGED <<current, top>>
      \/ \E t \in Timers, d \in Delays : Wait(t, d) /\ pc = "timercb"
  BY DEF Next, User, Loop, Worker, UserCode, Outside, StartIO, Execute, Complete, Resolve, Wait,
     WorkerCreates, WorkerPosts, WorkerEnds, Run, LoopTest, TimerReturns, Poll, Dequeue,
     CallbackReturns, WaitEnds, CallbackThrows, Tick, vars, ioVars, timerVars, loopVars
<1>5. FireTimer => top' = current'
  BY DEF FireTimer, timerVars
<1> QED BY <1>1, <1>2, <1>3, <1>4, <1>5

-----------------------------------------------------------------------------
(* The theorems.                                                           *)

LEMMA InitIInv == Init => IInv
<1> SUFFICES ASSUME Init PROVE IInv
  OBVIOUS
<1>1. Types
  BY ClockAssumption, FailureAssumption
     DEF Init, Types, OpStates, JobStates, Callbacks, Outside, Never
<1>2. Live = {} /\ OpenWork = {}
  BY DEF Init, Live, OpenWork, LiveStates, OpenStates
<1>3. CountMatchesWork
  BY <1>2, FS_EmptySet DEF Init, CountMatchesWork
<1>4. PortHoldsQueued /\ RunningIsCurrent /\ FiringIsTop /\ NowIsPast /\ FiringWasCalled
      /\ NothingLost
  BY DEF Init, PortHoldsQueued, RunningIsCurrent, FiringIsTop, NowIsPast, FiringWasCalled,
         NothingLost, Lost
<1>5. JobsAndObjects
  BY DEF Init, JobsAndObjects, Overlappeds
<1>6. TopIsEarliest
  BY DEF Init, TopIsEarliest, Queue
<1>7. CallsMatch
  BY LostIsFinite DEF Init, CallsMatch, Callbacks, Overlappeds
<1> QED BY <1>1, <1>3, <1>4, <1>5, <1>6, <1>7 DEF IInv

\* IInv is an inductive invariant of IOExecutor.
THEOREM Inductive == Spec => []IInv
<1>1. ASSUME IInv, [Next]_vars PROVE IInv'
  <2>1. Types'
    BY <1>1, TypesStep DEF IInv
  <2>2. CountMatchesWork'
    BY <1>1, CountStep DEF IInv
  <2>3. PortHoldsQueued' /\ RunningIsCurrent' /\ JobsAndObjects'
    BY <1>1, PortStep, RunningStep, JobsStep DEF IInv
  <2>4. TopIsEarliest' /\ FiringIsTop' /\ NowIsPast'
    BY <1>1, TopStep DEF IInv
  <2>5. CallsMatch' /\ FiringWasCalled' /\ NothingLost'
    BY <1>1, CallsStep, FiringStep, NothingLostStep DEF IInv
  <2> QED BY <2>1, <2>2, <2>3, <2>4, <2>5 DEF IInv
<1> QED BY InitIInv, <1>1, PTL DEF Spec

\* Every variable has its type; in particular the counter never goes below
\* zero, where the code's std::size_t would wrap.
THEOREM TypeCorrectness == Spec => []TypeOK
<1>1. IInv => TypeOK
  <2> SUFFICES ASSUME IInv PROVE TypeOK
    OBVIOUS
  <2>1. overlappedCount \in Nat
    BY WorkIsFinite DEF IInv, CountMatchesWork
  <2> QED BY <2>1 DEF IInv, Types, TypeOK
<1> QED BY <1>1, Inductive, PTL

\* overlappedCount is the number of live objects and open jobs, always.
THEOREM CounterIsExact == Spec => []CountMatchesWork
<1>1. IInv => CountMatchesWork
  BY DEF IInv
<1> QED BY <1>1, Inductive, PTL

\* No callback is called a second time, but for a timer for which an exception
\* or a timer lost to pop() pays; whatever delays user code asks for.
THEOREM NoSecondCall == Spec => []CalledAtMostOnce
<1>1. IInv => CalledAtMostOnce
  <2> SUFFICES ASSUME IInv PROVE CalledAtMostOnce
    OBVIOUS
  <2>1. \A o \in Overlappeds : calls[o] <= 1
    BY DEF IInv, CallsMatch
  <2>2. ASSUME NEW t \in Timers PROVE calls[t] <= 1 + throws + Cardinality(Lost)
    <3>1. calls[t] \in Nat /\ throws \in Nat /\ timer[t] \in {"idle", "queued", "popped"}
      BY DEF IInv, Types, Callbacks
    <3> QED BY <3>1, LostIsFinite DEF IInv, CallsMatch
  <2> QED BY <2>1, <2>2 DEF CalledAtMostOnce
<1> QED BY <1>1, Inductive, PTL

\* For every set of delays, negative ones included: timerQueue.pop() removes the
\* timer whose callback has just returned, or one with an earlier time point that
\* the callback pushed; the latter only if some delay is negative.
THEOREM PopsFiredTimer == Spec => []PopsWhatItFired
<1>1. IInv => PopsWhatItFired
  BY DEF IInv, FiringIsTop, FiringWasCalled, NothingLost, PopsWhatItFired
<1> QED BY <1>1, Inductive, PTL

\* What is counted when nothing can wake a wait: leaked counts, jobs at their end.
LEMMA NoWakers ==
  ASSUME IInv, pc = "timers", Wakers = {}, overlappedCount # 0
  PROVE  Leaked \/ \E j \in Jobs : job[j] = "ending"
<1>1. Live # {} \/ OpenWork # {}
  <2>1. Cardinality(Live) + Cardinality(OpenWork) # 0
    BY DEF IInv, CountMatchesWork
  <2> QED BY <2>1, FS_EmptySet
<1>2. ASSUME NEW o \in Live PROVE op[o] = "thrown"
  <2>1. o \in Overlappeds /\ op[o] \in LiveStates /\ op[o] \notin {"pending", "queued"}
    BY DEF Live, Wakers
  <2>2. op[o] # "running"
    BY <2>1 DEF IInv, RunningIsCurrent
  <2>3. op[o] # "created"
    <3>1. ASSUME op[o] = "created" PROVE FALSE
      <4>1. o \in Jobs
        BY <2>1, <3>1 DEF IInv, JobsAndObjects, Overlappeds
      <4>2. job[o] = "posting"
        BY <3>1, <4>1 DEF IInv, JobsAndObjects, Types, JobStates
      <4> QED BY <4>1, <4>2 DEF Wakers
    <3> QED BY <3>1
  <2> QED BY <2>1, <2>2, <2>3 DEF LiveStates
<1>3. ASSUME NEW j \in OpenWork PROVE job[j] \in {"ending", "lost"}
  BY DEF OpenWork, OpenStates, Wakers
<1> QED BY <1>1, <1>2, <1>3 DEF Leaked, Live, OpenWork

\* A wait with no time-out and nothing to wake it comes from a leaked count or
\* from a job caught between execute() and endWork().
THEOREM WakerExists == Spec => WaitHasWaker
<1> DEFINE Strands == Stranded' => Stranded \/ Leaked' \/ \E j \in Jobs : job[j] = "ending"
<1>1. ASSUME IInv, [Next]_vars PROVE Strands
  <2> SUFFICES ASSUME pc' = "waiting", deadline' = Never, Wakers' = {}, ~Stranded
               PROVE  Leaked' \/ \E j \in Jobs : job[j] = "ending"
    BY DEF Stranded
  <2>t. op \in [Overlappeds -> OpStates] /\ job \in [Jobs -> JobStates]
    BY <1>1 DEF IInv, Types
  <2>1. CASE Poll
    <3>1. UNCHANGED <<op, job>> /\ overlappedCount # 0 /\ pc = "timers"
      BY <2>1 DEF Poll, ioVars
    <3>2. Wakers = {} /\ (Leaked => Leaked')
      BY <3>1 DEF Wakers, Leaked
    <3> QED BY <1>1, <3>1, <3>2, NoWakers
  <2>2. CASE pc = "waiting" /\ deadline = Never /\ UNCHANGED <<op, job>>
    BY <2>2 DEF Stranded, Wakers
  <2>3. ASSUME NEW o \in Ops, Complete(o) PROVE FALSE
    <3>1. o \in Overlappeds /\ op' = [op EXCEPT ![o] = "queued"]
      BY <2>3 DEF Complete, Overlappeds
    <3>2. o \in Wakers'
      BY <2>t, <3>1 DEF Wakers
    <3> QED BY <3>2
  <2>4. ASSUME NEW j \in Jobs, WorkerCreates(j) PROVE FALSE
    <3>1. job'[j] = "posting"
      BY <2>4, <2>t DEF WorkerCreates
    <3> QED BY <3>1 DEF Wakers
  <2>5. ASSUME NEW j \in Jobs, WorkerPosts(j) PROVE Leaked'
    <3>1. op'[j] = "queued" \/ job'[j] = "lost"
      BY <2>5, <2>t DEF WorkerPosts, Overlappeds
    <3>2. op'[j] # "queued"
      BY DEF Wakers, Overlappeds
    <3> QED BY <3>1, <3>2 DEF Leaked
  <2>6. ASSUME NEW j \in Jobs, WorkerEnds(j) PROVE job[j] = "ending"
    BY <2>6 DEF WorkerEnds
  <2>7. \/ Poll \/ \E o \in Ops : Complete(o)
        \/ \E j \in Jobs : WorkerCreates(j) \/ WorkerPosts(j) \/ WorkerEnds(j)
        \/ pc = "waiting" /\ deadline = Never /\ UNCHANGED <<op, job>>
    BY <1>1 DEF Next, User, Loop, Worker, UserCode, Outside, StartIO, Execute, Resolve, Wait,
       Run, LoopTest, FireTimer, TimerReturns, Dequeue, CallbackReturns, WaitEnds,
       CallbackThrows, Tick, vars, ioVars, loopVars
  <2> QED BY <2>1, <2>2, <2>3, <2>4, <2>5, <2>6, <2>7
<1>2. IInv /\ [Next]_vars => [Strands]_vars
  BY <1>1
<1> QED BY <1>2, Inductive, PTL DEF Spec, WaitHasWaker

\* When run() returns, no work and no timer is left behind.
THEOREM NothingLeftBehind == Spec => ReturnsOnlyWhenDone
<1>1. ASSUME IInv, [Next]_vars, pc = "test", pc' = "returned"
      PROVE  Live = {} /\ OpenWork = {} /\ Queue = {}
  <2>1. overlappedCount = 0 /\ top = None
    BY <1>1 DEF Next, User, Loop, Worker, UserCode, Outside, StartIO, Execute, Complete,
       Resolve, WorkerCreates, WorkerPosts, WorkerEnds, Wait, Run, LoopTest, FireTimer,
       TimerReturns, Poll, Dequeue, CallbackReturns, WaitEnds, CallbackThrows, Tick,
       LoopCondition, vars, loopVars
  <2>2. Cardinality(Live) = 0 /\ Cardinality(OpenWork) = 0
    BY <1>1, <2>1, WorkIsFinite DEF IInv, CountMatchesWork
  <2> QED BY <1>1, <2>1, <2>2, WorkIsFinite, FS_EmptySet DEF IInv, TopIsEarliest
<1>2. IInv /\ [Next]_vars
      => [pc = "test" /\ pc' = "returned" => Live = {} /\ OpenWork = {} /\ Queue = {}]_vars
  BY <1>1
<1> QED BY <1>2, Inductive, PTL DEF Spec, ReturnsOnlyWhenDone

\* Timers fire in the order of their time points, and not before them.
THEOREM TimersInOrder == Spec => FiresInOrder
<1>1. ASSUME IInv, [Next]_vars, pc = "timers", pc' = "timercb"
      PROVE  /\ timePoint[current'] <= clock
             /\ \A t \in Queue : timePoint[current'] <= timePoint[t]
  <2>1. FireTimer
    BY <1>1 DEF Next, User, Loop, Worker, UserCode, Outside, StartIO, Execute, Complete,
       Resolve, WorkerCreates, WorkerPosts, WorkerEnds, Wait, Run, LoopTest,
       TimerReturns, Poll, Dequeue, CallbackReturns, WaitEnds, CallbackThrows, Tick,
       vars, loopVars
  <2>2. current' = top /\ top \in Timers /\ timePoint[top] <= now
    BY <1>1, <2>1 DEF FireTimer, TimerDue, IInv, TopIsEarliest, Queue
  <2>3. now <= clock /\ timePoint[top] \in Int /\ now \in Nat /\ clock \in Nat
    BY <1>1, <2>2, ClockAssumption DEF IInv, NowIsPast, Types
  <2> QED BY <1>1, <2>2, <2>3, DistinctWork DEF IInv, TopIsEarliest
<1>2. IInv /\ [Next]_vars
      => [pc = "timers" /\ pc' = "timercb" =>
            /\ timePoint[current'] <= clock
            /\ \A t \in Queue : timePoint[current'] <= timePoint[t]]_vars
  BY <1>1
<1> QED BY <1>2, Inductive, PTL DEF Spec, FiresInOrder

\* A quotient times the divisor is at most the dividend.
LEMMA Quotient ==
  ASSUME NEW a \in Nat, NEW b \in Nat \ {0}
  PROVE  a \div b \in Nat /\ (a \div b) * b <= a
BY SMTT(30)

LEMMA Monotone ==
  ASSUME NEW a \in Nat, NEW c \in Nat, NEW b \in Nat \ {0}, a * b < c * b
  PROVE  a < c
BY SMTT(30)

\* A wait that starts with a timer in sight ends in time for it.
THEOREM WakesInTime == Spec => NeverOversleeps
<1> DEFINE Hyp == /\ pc = "timers" /\ pc' \in {"waiting", "sleeping"}
                  /\ top # None /\ timePoint[top] - now < Infinite * TicksPerMs
           Goal == deadline' # Never /\ deadline' - timePoint[top] <= clock - now
<1>1. ASSUME IInv, [Next]_vars, Hyp PROVE Goal
  <2>1. Poll
    BY <1>1 DEF Next, User, Loop, Worker, UserCode, Outside, StartIO, Execute, Complete,
       Resolve, WorkerCreates, WorkerPosts, WorkerEnds, Wait, Run, LoopTest, FireTimer,
       TimerReturns, Dequeue, CallbackReturns, WaitEnds, CallbackThrows, Tick,
       vars, loopVars
  <2> DEFINE left == timePoint[top] - now
             ms == left \div TicksPerMs
  <2>2. /\ left \in Nat /\ timePoint[top] = now + left
        /\ now \in Nat /\ clock \in 0..MaxClock
    <3>1. timePoint[top] \in Int /\ now \in Nat /\ clock \in 0..MaxClock
      BY <1>1 DEF IInv, Types
    <3>2. ~(timePoint[top] <= now)
      BY <1>1, <2>1 DEF Poll, TimerDue
    <3> QED BY <3>1, <3>2
  <2>3. left < Infinite * TicksPerMs /\ WaitTimes = Dword(ms)
    BY <1>1 DEF WaitTimes
  <2>4. \E w \in WaitTimes : deadline' = DeadlineOf(w)
    BY <1>1, <2>1 DEF Poll
  <2> HIDE DEF left, ms
  <2>5. ms \in Nat /\ ms * TicksPerMs <= left
    BY <2>2, ClockAssumption, Quotient DEF ms
  <2>6. ms < Infinite
    <3> DEFINE p == ms * TicksPerMs
               q == Infinite * TicksPerMs
    <3>1. p \in Nat /\ q \in Nat
      BY <2>5, ClockAssumption
    <3>2. p < q
      <4> HIDE DEF p, q
      <4> QED BY <2>2, <2>3, <2>5, <3>1 DEF p, q
    <3> QED BY <2>5, <3>2, ClockAssumption, Monotone
  <2>7. deadline' = DeadlineOf(ms) /\ ms # Infinite
    BY <2>3, <2>4, <2>5, <2>6, ClockAssumption DEF Dword
  <2> DEFINE wait == ms * TicksPerMs
  <2>8. wait \in Nat /\ wait <= left
    BY <2>5, ClockAssumption
  <2>9. deadline' = IF clock + wait <= MaxClock THEN clock + wait ELSE MaxClock
    BY <2>7 DEF DeadlineOf
  <2> HIDE DEF wait
  <2> QED BY <2>2, <2>8, <2>9, ClockAssumption DEF Never
<1>2. IInv /\ [Next]_vars => [Hyp => Goal]_vars
  BY <1>1
<1> QED BY <1>2, Inductive, PTL DEF Spec, NeverOversleeps

-----------------------------------------------------------------------------
(* IOExecutor implements AsyncCompletion.                                  *)

\* Who is outstanding, told from the states of objects, jobs and timers.
LEMMA OutstandingIs ==
  ASSUME NEW c
  PROVE  c \in Outstanding <=>
           \/ c \in Ops /\ op[c] \in {"pending", "queued"}
           \/ c \in Jobs /\ job[c] # "idle" /\ calls[c] = 0
           \/ c \in Timers /\ timer[c] # "idle" /\ calls[c] = 0
BY DEF Outstanding

LEMMA RefinesInit == Init => Completion!AInit
<1> SUFFICES ASSUME Init PROVE Completion!AInit
  OBVIOUS
<1>1. Outstanding = {}
  BY DEF Init, Outstanding, Overlappeds
<1>2. Delivered = {}
  BY DEF Init, Delivered
<1>3. Running = "no"
  BY DEF Init, Running
<1> QED BY <1>1, <1>2, <1>3 DEF Completion!AInit

\* What a step may do to the three abstract variables, in their own terms.
LEMMA RefinesNext ==
  ASSUME NonNegative, IInv, [Next]_vars
  PROVE  [Completion!ANext]_Completion!avars
<1> DEFINE Abstract == [Completion!ANext]_Completion!avars
           SameDelivered == \A c \in Callbacks : (calls'[c] > 0) <=> (calls[c] > 0)
<1>s. ASSUME UNCHANGED <<Outstanding, Delivered, Running>> PROVE Abstract
  BY <1>s DEF Completion!avars
<1>c. \A c \in Callbacks : calls[c] \in Nat
  BY DEF IInv, Types
<1>d. /\ Ops \subseteq Overlappeds /\ Jobs \subseteq Overlappeds
      /\ Overlappeds \subseteq Callbacks /\ Timers \subseteq Callbacks
      /\ Ops \cap Jobs = {} /\ Ops \cap Timers = {} /\ Jobs \cap Timers = {}
  BY DistinctWork DEF Overlappeds, Callbacks
\* A call that is accepted.
<1>1. ASSUME NEW c \in Callbacks, c \notin Outstanding, calls[c] = 0,
             UNCHANGED <<calls, pc>>, Outstanding' = Outstanding \cup {c}
      PROVE  Abstract
  <2>1. c \notin Delivered /\ UNCHANGED <<Delivered, Running>>
    BY <1>1 DEF Delivered, Running
  <2>2. Completion!Submit(c)
    BY <1>1, <2>1 DEF Completion!Submit
  <2> QED BY <2>2 DEF Completion!ANext
\* A callback that is called for the first time, by run() or inline.
<1>2. ASSUME NEW c \in Callbacks, calls[c] = 0, calls' = [calls EXCEPT ![c] = @ + 1]
      PROVE  c \notin Delivered /\ Delivered' = Delivered \cup {c}
  <2>1. \A x \in Callbacks : calls'[x] = IF x = c THEN calls[x] + 1 ELSE calls[x]
    BY <1>2 DEF IInv, Types
  <2> QED BY <1>2, <1>c, <2>1 DEF Delivered
<1>3. ASSUME NEW o \in Ops, StartIO(o) PROVE Abstract
  <2>1. op[o] = "idle" /\ calls[o] = 0 /\ o \in Callbacks /\ o \notin Outstanding
    BY <1>3, <1>d, OutstandingIs DEF StartIO, IInv, CallsMatch
  <2>2. CASE calls' = calls
    <3>1. /\ UNCHANGED <<job, timer, pc>>
          /\ \E st \in {"pending", "queued"} : op' = [op EXCEPT ![o] = st]
      <4>1. \E st \in {"pending", "queued"} : op' = [op EXCEPT ![o] = st]
        <5>1. ~Call(o)
          BY <2>1, <2>2, <1>c DEF Call, IInv, Types
        <5> QED BY <1>3, <5>1 DEF StartIO, CreateOverlapped
      <4> QED BY <1>3, <4>1 DEF StartIO, timerVars, loopVars
    <3>2. Outstanding' = Outstanding \cup {o}
      BY <1>d, <2>2, <3>1 DEF Outstanding, IInv, Types
    <3> QED BY <1>1, <2>1, <2>2, <3>1, <3>2
  <2>3. CASE calls' # calls
    <3>1. op' = [op EXCEPT ![o] = "done"] /\ Call(o) /\ UNCHANGED <<job, timer, pc>>
      BY <1>3, <2>3 DEF StartIO, timerVars, loopVars
    <3>2. \A x \in Jobs \cup Timers : calls'[x] = calls[x]
      BY <1>d, <3>1 DEF Call, IInv, Types
    <3>3. Outstanding' = Outstanding
      BY <1>d, <2>1, <3>1, <3>2 DEF Outstanding, IInv, Types
    <3>4. Running' = Running /\ o \notin Delivered /\ Delivered' = Delivered \cup {o}
      BY <1>2, <2>1, <3>1 DEF Running, Call
    <3>5. Completion!Refuse(o)
      BY <2>1, <3>3, <3>4 DEF Completion!Refuse
    <3> QED BY <2>1, <3>5 DEF Completion!ANext
  <2> QED BY <2>2, <2>3
<1>4. ASSUME NEW o \in Ops, Execute(o) PROVE Abstract
  <2>1. /\ op[o] = "idle" /\ calls[o] = 0 /\ o \in Callbacks /\ o \notin Outstanding
        /\ UNCHANGED <<job, timer, pc, calls>>
    BY <1>4, <1>d, OutstandingIs DEF Execute, IInv, CallsMatch, timerVars, loopVars
  <2>2. CASE op' = [op EXCEPT ![o] = "queued"]
    <3>1. Outstanding' = Outstanding \cup {o}
      BY <1>d, <2>1, <2>2 DEF Outstanding, IInv, Types
    <3> QED BY <1>1, <2>1, <3>1
  <2>3. CASE op' = [op EXCEPT ![o] = "rejected"]
    <3>1. UNCHANGED <<Outstanding, Delivered, Running>>
      BY <1>d, <2>1, <2>3 DEF Outstanding, Delivered, Running, IInv, Types
    <3> QED BY <1>s, <3>1
  <2> QED BY <1>4, <2>2, <2>3 DEF Execute, CreateOverlapped
<1>5. ASSUME NEW o \in Ops, Complete(o) PROVE Abstract
  <2>1. UNCHANGED <<Outstanding, Delivered, Running>>
    BY <1>5, <1>d DEF Complete, timerVars, loopVars, Outstanding, Delivered, Running, IInv, Types
  <2> QED BY <1>s, <2>1
<1>6. ASSUME NEW j \in Jobs, Resolve(j) PROVE Abstract
  <2>1. op[j] = "idle" /\ job[j] = "idle" /\ calls[j] = 0 /\ j \in Callbacks /\ j \notin Outstanding
    BY <1>6, <1>d, OutstandingIs DEF Resolve, IInv, CallsMatch, JobsAndObjects
  <2>2. job' = [job EXCEPT ![j] = "pooled"] /\ UNCHANGED <<op, timer, pc, calls>>
    BY <1>6 DEF Resolve, timerVars, loopVars
  <2>3. Outstanding' = Outstanding \cup {j}
    BY <1>d, <2>1, <2>2 DEF Outstanding, IInv, Types
  <2> QED BY <1>1, <2>1, <2>2, <2>3
<1>7. ASSUME NEW j \in Jobs, Worker(j) PROVE Abstract
  <2>1. UNCHANGED <<timer, pc, calls>>
    BY <1>7 DEF Worker, WorkerCreates, WorkerPosts, WorkerEnds, timerVars, loopVars
  <2>2. \A k \in Jobs : (job[k] = "idle") <=> (job'[k] = "idle")
    BY <1>7 DEF Worker, WorkerCreates, WorkerPosts, WorkerEnds, IInv, Types
  <2>3. \A o \in Ops : op'[o] = op[o]
    BY <1>7, <1>d DEF Worker, WorkerCreates, WorkerPosts, WorkerEnds, CreateOverlapped,
                      DestroyOverlapped, IInv, Types
  <2>4. UNCHANGED <<Outstanding, Delivered, Running>>
    BY <2>1, <2>2, <2>3 DEF Outstanding, Delivered, Running
  <2> QED BY <1>s, <2>4
<1>8. ASSUME NEW t \in Timers, NEW d \in Delays, Wait(t, d) PROVE Abstract
  <2>1. timer[t] = "idle" /\ calls[t] = 0 /\ t \in Callbacks /\ t \notin Outstanding
    BY <1>8, <1>d, OutstandingIs DEF Wait, IInv, CallsMatch
  <2>2. timer' = [timer EXCEPT ![t] = "queued"] /\ UNCHANGED <<op, job, pc, calls>>
    BY <1>8 DEF Wait, ioVars, loopVars
  <2>3. Outstanding' = Outstanding \cup {t}
    BY <1>d, <2>1, <2>2 DEF Outstanding, IInv, Types
  <2> QED BY <1>1, <2>1, <2>2, <2>3
\* run() calls the callback of c.
<1>9. ASSUME NEW c \in Callbacks, c \in Outstanding, calls[c] = 0, Running = "yes", Running' = "yes",
             calls' = [calls EXCEPT ![c] = @ + 1], Outstanding' = Outstanding \ {c}
      PROVE  Abstract
  <2>1. Delivered' = Delivered \cup {c}
    BY <1>2, <1>9
  <2>2. Completion!Deliver(c)
    BY <1>9, <2>1 DEF Completion!Deliver
  <2> QED BY <2>2 DEF Completion!ANext
<1>10. CASE Dequeue
  <2> DEFINE o == Head(completionPort)
  <2>1. o \in Overlappeds /\ op[o] = "queued"
    BY <1>10, DequeueTakes DEF Dequeue, IInv, PortHoldsQueued, Types
  <2>2. /\ op' = [op EXCEPT ![o] = "running"] /\ calls' = [calls EXCEPT ![o] = @ + 1]
        /\ UNCHANGED <<job, timer>> /\ pc = "waiting" /\ pc' = "callback"
    BY <1>10 DEF Dequeue, Call, timerVars
  <2> HIDE DEF o
  <2>3. calls[o] = 0 /\ o \in Callbacks
    BY <1>d, <2>1 DEF IInv, CallsMatch
  <2>4. o \in Outstanding
    <3>1. o \in Jobs => job[o] # "idle"
      BY <2>1 DEF IInv, JobsAndObjects
    <3> QED BY <2>1, <2>3, <3>1, OutstandingIs DEF Overlappeds
  <2>5. \A x \in Callbacks : calls'[x] = IF x = o THEN calls[x] + 1 ELSE calls[x]
    BY <2>2 DEF IInv, Types
  <2>6. Outstanding' = Outstanding \ {o}
    BY <1>d, <2>1, <2>2, <2>3, <2>5 DEF Outstanding, IInv, Types
  <2>7. Running = "yes" /\ Running' = "yes"
    BY <2>2 DEF Running, Outside
  <2> QED BY <1>9, <2>2, <2>3, <2>4, <2>6, <2>7
<1>11. CASE FireTimer
  <2>1. top \in Timers /\ timer[top] = "queued" /\ top \in Callbacks
    BY <1>11, <1>d DEF FireTimer, TimerDue, IInv, TopIsEarliest, Queue
  <2>2. /\ UNCHANGED <<op, job, timer>> /\ calls' = [calls EXCEPT ![top] = @ + 1]
        /\ pc = "timers" /\ pc' = "timercb"
    BY <1>11 DEF FireTimer, Call, ioVars, timerVars
  <2>3. \A x \in Callbacks : calls'[x] = IF x = top THEN calls[x] + 1 ELSE calls[x]
    BY <2>2 DEF IInv, Types
  <2>4. Running = "yes" /\ Running' = "yes"
    BY <2>2 DEF Running, Outside
  <2>5. CASE calls[top] = 0
    <3>1. top \in Outstanding
      BY <2>1, <2>5, OutstandingIs
    <3>2. Outstanding' = Outstanding \ {top}
      BY <1>d, <2>1, <2>2, <2>3, <2>5 DEF Outstanding
    <3> QED BY <1>9, <2>1, <2>2, <2>4, <2>5, <3>1, <3>2
  <2>6. CASE calls[top] # 0
    <3>1. SameDelivered /\ \A x \in Callbacks : (calls'[x] = 0) <=> (calls[x] = 0)
      BY <1>c, <2>1, <2>3, <2>6
    <3>2. Outstanding' = Outstanding /\ Delivered' = Delivered
      BY <1>d, <2>2, <3>1 DEF Outstanding, Delivered
    <3> QED BY <1>s, <2>4, <3>2
  <2> QED BY <2>5, <2>6
<1>12. CASE TimerReturns
  <2>1. top \in Timers /\ timer[top] = "queued" /\ pc = "timercb" /\ pc' = "timers"
    BY <1>12 DEF TimerReturns, IInv, FiringIsTop, TopIsEarliest, Queue
  <2>2. timer' = [timer EXCEPT ![top] = "popped"] /\ UNCHANGED <<op, job, calls>>
    BY <1>12 DEF TimerReturns, Pop, ioVars
  <2>3. UNCHANGED <<Delivered, Running>>
    BY <2>1, <2>2 DEF Delivered, Running, Outside
  <2>4. Outstanding' = Outstanding
    BY <1>d, <2>1, <2>2 DEF Outstanding, IInv, Types
  <2> QED BY <1>s, <2>3, <2>4
<1>13. CASE CallbackReturns
  <2>1. current \in Overlappeds /\ op[current] = "running"
    BY <1>13 DEF CallbackReturns, IInv, RunningIsCurrent
  <2>2. /\ op' = [op EXCEPT ![current] = "done"] /\ UNCHANGED <<job, timer, calls>>
        /\ pc = "callback" /\ pc' = "test"
    BY <1>13 DEF CallbackReturns, DestroyOverlapped, timerVars
  <2>3. Outstanding' = Outstanding
    BY <1>d, <2>1, <2>2 DEF Outstanding, IInv, Types
  <2> QED BY <1>s, <2>2, <2>3 DEF Delivered, Running, Outside
<1>14. CASE CallbackThrows
  <2>1. UNCHANGED <<job, timer, calls>> /\ Running = "yes" /\ Running' = "threw"
    BY <1>14 DEF CallbackThrows, timerVars, Running, Outside
  <2>2. Outstanding' = Outstanding
    <3>1. \A o \in Ops : op[o] \in {"pending", "queued"} <=> op'[o] \in {"pending", "queued"}
      BY <1>14, <1>d DEF CallbackThrows, IInv, RunningIsCurrent, Types
    <3> QED BY <2>1, <3>1 DEF Outstanding
  <2>3. Completion!Throw
    BY <2>1, <2>2 DEF Completion!Throw, Delivered
  <2> QED BY <2>3 DEF Completion!ANext
\* run() starts, returns, or goes on without calling anything.
<1>15. CASE Run
  <2>1. UNCHANGED <<op, job, timer, calls>> /\ pc \in Outside /\ pc' = "test"
    BY <1>15 DEF Run, ioVars, timerVars
  <2>2. UNCHANGED <<Outstanding, Delivered>>
    BY <2>1 DEF Outstanding, Delivered
  <2>3. Running # "yes" /\ Running' = "yes"
    BY <2>1 DEF Running, Outside
  <2>4. Completion!Start
    BY <2>2, <2>3 DEF Completion!Start
  <2> QED BY <2>4 DEF Completion!ANext
<1>16. CASE LoopTest
  <2>1. UNCHANGED <<op, job, timer, calls>> /\ pc = "test"
    BY <1>16 DEF LoopTest, ioVars, timerVars
  <2>2. UNCHANGED <<Outstanding, Delivered>>
    BY <2>1 DEF Outstanding, Delivered
  <2>3. CASE LoopCondition
    BY <1>16, <1>s, <2>1, <2>2, <2>3 DEF LoopTest, Running, Outside
  <2>4. CASE ~LoopCondition
    <3>1. Live = {} /\ OpenWork = {} /\ Queue = {}
      <4>1. overlappedCount = 0 /\ top = None
        BY <2>4 DEF LoopCondition
      <4>2. Cardinality(Live) = 0 /\ Cardinality(OpenWork) = 0
        BY <4>1, WorkIsFinite DEF IInv, CountMatchesWork
      <4> QED BY <4>1, <4>2, WorkIsFinite, FS_EmptySet DEF IInv, TopIsEarliest
    <3>2. \A o \in Ops : op[o] \notin {"pending", "queued"}
      BY <1>d, <3>1 DEF Live, LiveStates
    <3>3. \A j \in Jobs : job[j] = "idle" \/ calls[j] # 0
      <4> SUFFICES ASSUME NEW j \in Jobs, job[j] # "idle" PROVE calls[j] # 0
        OBVIOUS
      <4>1. job[j] = "done"
        BY <3>1 DEF OpenWork, OpenStates, IInv, Types, JobStates
      <4>2. j \in Overlappeds /\ op[j] \in {"queued", "running", "thrown", "done"}
        BY <1>d, <4>1 DEF IInv, JobsAndObjects
      <4>3. op[j] = "done"
        BY <3>1, <4>2 DEF Live, LiveStates
      <4> QED BY <4>2, <4>3 DEF IInv, CallsMatch
    <3>0. \A t \in Timers : timer[t] = "idle" \/ calls[t] # 0
      BY <3>1 DEF IInv, NothingLost, Lost, Queue, Types
    <3>4. Outstanding = {}
      BY <3>0, <3>2, <3>3 DEF Outstanding
    <3>5. Running = "yes" /\ Running' = "returned"
      BY <1>16, <2>4 DEF LoopTest, Running, Outside
    <3>6. Completion!Return
      BY <2>2, <3>4, <3>5 DEF Completion!Return
    <3> QED BY <3>6 DEF Completion!ANext
  <2> QED BY <2>3, <2>4
<1>17. CASE Poll \/ WaitEnds \/ Tick \/ UNCHANGED vars
  <2>1. /\ UNCHANGED <<op, job, timer, calls>>
        /\ pc' = pc \/ (pc \in LoopPcs /\ pc' \in LoopPcs)
    BY <1>17 DEF Poll, WaitEnds, Tick, vars, ioVars, timerVars, loopVars, LoopPcs
  <2>2. UNCHANGED <<Outstanding, Delivered, Running>>
    BY <2>1 DEF Outstanding, Delivered, Running, LoopPcs, Outside
  <2> QED BY <1>s, <2>2
<1> QED BY <1>3, <1>4, <1>5, <1>6, <1>7, <1>8, <1>10, <1>11, <1>12, <1>13, <1>14, <1>15, <1>16,
           <1>17 DEF Next, User, Loop

\* Given delays that are not negative, IOExecutor keeps the promises of
\* AsyncCompletion: every callback at most once and only for what was submitted,
\* and no return before all are called.  (A negative delay may make pop() remove
\* a timer nobody called, and run() then returns without it.)
THEOREM Refinement == ASSUME NonNegative PROVE Spec => ImplementsCompletion
<1>1. IInv /\ [Next]_vars => [Completion!ANext]_Completion!avars
  BY RefinesNext
<1> QED BY <1>1, RefinesInit, Inductive, PTL DEF Spec, ImplementsCompletion, Completion!ASpec
=============================================================================
