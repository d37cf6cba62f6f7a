----------------------------- MODULE IOExecutor -----------------------------
(***************************************************************************)
(* Cats::Netycat::IOExecutor: one thread calls run() and dispatches the    *)
(* packets of a Win32 I/O completion port and the timers of a priority     *)
(* queue, until the counter of unfinished work (overlappedCount) and the   *)
(* timer queue are both exhausted.  The threads of the thread pool run     *)
(* IPResolver::resolve and hand its result back through execute().         *)
(*                                                                         *)
(* Actors: the loop thread (the user's main(), run() and every callback),  *)
(* one pool thread per resolver job, and the operating system, which       *)
(* completes pending I/O and lets time pass.  User code is the arbitrary   *)
(* client: wherever it has control it may start any operation.             *)
(***************************************************************************)
EXTENDS Integers, Sequences, FiniteSets

CONSTANTS
  Ops,          \* overlapped I/O calls and execute() calls made by user code
  Jobs,         \* IPResolver::resolve(name, cb) calls made by user code
  Timers,       \* IOExecutor::wait(time, cb) calls made by user code
  None,         \* no callback, no timer
  Delays,       \* the delays wait() is called with, in clock ticks: any double
  TicksPerMs,   \* clock ticks in a millisecond: time points are finer than DWORDs
  Infinite,     \* INFINITE, the largest DWORD: 2^32 - 1 in the code
  MaxClock,     \* bound: the end of modelled time
  MaxThrows,    \* bound: how many callbacks end by throwing an exception
  PostMayFail   \* may ::PostQueuedCompletionStatus fail?

ASSUME FiniteWork == IsFiniteSet(Ops) /\ IsFiniteSet(Jobs) /\ IsFiniteSet(Timers)
ASSUME DistinctWork ==
  /\ Ops \cap Jobs = {} /\ Ops \cap Timers = {} /\ Jobs \cap Timers = {}
  /\ None \notin Ops \cup Jobs \cup Timers
ASSUME IntegerDelays == Delays \subseteq Int
ASSUME ClockAssumption ==
  /\ TicksPerMs \in Nat \ {0} /\ Infinite \in Nat \ {0} /\ MaxClock \in Nat
ASSUME FailureAssumption == MaxThrows \in Nat /\ PostMayFail \in BOOLEAN

\* A resolver job hands its callback back in an overlapped object of its own.
Overlappeds == Ops \cup Jobs
Never == -1     \* the deadline of a wait for INFINITE milliseconds

VARIABLES
  op,               \* life of each overlapped object
  overlappedCount,  \* std::atomic<size_t> overlappedCount
  completionPort,   \* packets in the completion port, oldest first
  job,              \* progress of each resolver job on its pool thread
  timer,            \* is the timer in timerQueue?
  timePoint,        \* Timer::timePoint
  top,              \* timerQueue.top(), None when the queue is empty
  calls,            \* how often each callback has been called
  pc,               \* where the loop thread is
  current,          \* whose callback it is running
  now,              \* run()'s local variable now
  deadline,         \* when the wait or the sleep it is in will time out
  clock,            \* HighResolutionClock, in ticks
  throws            \* callbacks that have thrown so far

ioVars    == <<op, overlappedCount, completionPort>>
timerVars == <<timer, timePoint, top>>
loopVars  == <<pc, current, now, deadline, throws>>
vars == <<ioVars, timerVars, loopVars, job, calls, clock>>

Callbacks == Overlappeds \cup Timers
OpStates  == {"idle", "created", "pending", "queued", "running",
              "thrown", "rejected", "done"}
JobStates == {"idle", "pooled", "posting", "ending", "lost", "done"}
Outside   == {"main", "returned", "threw"}     \* the user's main(), around run()
LoopPcs   == {"test", "timers", "timercb", "waiting", "callback", "sleeping"}

TypeOK ==
  /\ op \in [Overlappeds -> OpStates]
  /\ overlappedCount \in Nat
  /\ completionPort \in Seq(Overlappeds)
  /\ job \in [Jobs -> JobStates]
  /\ timer \in [Timers -> {"idle", "queued", "popped"}]
  /\ timePoint \in [Timers -> Int]
  /\ top \in Timers \cup {None}
  /\ calls \in [Callbacks -> Nat]
  /\ pc \in Outside \cup LoopPcs
  /\ current \in Callbacks \cup {None}
  /\ now \in Nat /\ clock \in 0..MaxClock
  /\ deadline \in {Never} \cup 0..MaxClock
  /\ throws \in 0..MaxThrows

Init ==
  /\ op = [o \in Overlappeds |-> "idle"] /\ overlappedCount = 0
  /\ completionPort = <<>>
  /\ job = [j \in Jobs |-> "idle"]
  /\ timer = [t \in Timers |-> "idle"] /\ timePoint = [t \in Timers |-> 0]
  /\ top = None
  /\ calls = [c \in Callbacks |-> 0]
  /\ pc = "main" /\ current = None /\ now = 0 /\ deadline = Never
  /\ clock = 0 /\ throws = 0

-----------------------------------------------------------------------------
(* Overlapped objects and the work counter                                 *)

CreateOverlapped(o, state) ==
  /\ op' = [op EXCEPT ![o] = state]
  /\ overlappedCount' = overlappedCount + 1

\* Mutant: --overlappedCount is forgotten.
DestroyUncounted(o, state) ==
  op' = [op EXCEPT ![o] = state] /\ UNCHANGED overlappedCount

DestroyOverlapped(o, state) ==
  /\ op' = [op EXCEPT ![o] = state]
  /\ overlappedCount' = overlappedCount - 1

Post(o) == completionPort' = Append(completionPort, o)

Call(c) == calls' = [calls EXCEPT ![c] = @ + 1]

\* User code has the loop thread: main() outside run(), or a callback in it.
UserCode == pc \in Outside \cup {"callback", "timercb"}

\* Mutant: an immediate success is reported inline, although its packet comes.
StartIOReportsSuccess(o) ==
  /\ UserCode /\ op[o] = "idle"
  /\ CreateOverlapped(o, "queued") /\ Post(o) /\ Call(o)
  /\ UNCHANGED <<timerVars, loopVars, job, clock>>

(* An asynchronous socket call, from createOverlapped to its return.  The  *)
(* OS accepts the operation (it then completes now or later, through the   *)
(* port in either case) or refuses it, and the callback is called inline.  *)
StartIO(o) ==
  /\ UserCode /\ op[o] = "idle"
  /\ \/ CreateOverlapped(o, "pending") /\ UNCHANGED <<completionPort, calls>>
     \/ CreateOverlapped(o, "queued") /\ Post(o) /\ UNCHANGED calls
     \/ /\ op' = [op EXCEPT ![o] = "done"] /\ Call(o)
        /\ UNCHANGED <<overlappedCount, completionPort>>
  /\ UNCHANGED <<timerVars, loopVars, job, clock>>

(* IOExecutor::execute on the loop thread.  When the post fails the        *)
(* overlapped object is destroyed again and the caller gets an exception.  *)
Execute(o) ==
  /\ UserCode /\ op[o] = "idle"
  /\ \/ CreateOverlapped(o, "queued") /\ Post(o)
     \/ /\ PostMayFail
        /\ op' = [op EXCEPT ![o] = "rejected"]
        /\ UNCHANGED <<overlappedCount, completionPort>>
  /\ UNCHANGED <<timerVars, loopVars, job, calls, clock>>

\* The OS finishes, fails or aborts a pending operation: its packet arrives.
Complete(o) ==
  /\ op[o] = "pending"
  /\ op' = [op EXCEPT ![o] = "queued"]
  /\ Post(o)
  /\ UNCHANGED <<overlappedCount, timerVars, loopVars, job, calls, clock>>

-----------------------------------------------------------------------------
(* IPResolver::resolve(name, cb)                                           *)

\* On the loop thread: beginWork() and a task for the thread pool.
Resolve(j) ==
  /\ UserCode /\ job[j] = "idle"
  /\ job' = [job EXCEPT ![j] = "pooled"]
  /\ overlappedCount' = overlappedCount + 1
  /\ UNCHANGED <<op, completionPort, timerVars, loopVars, calls, clock>>

\* On the pool thread: the name is resolved, execute() creates its object ...
WorkerCreates(j) ==
  /\ job[j] = "pooled"
  /\ job' = [job EXCEPT ![j] = "posting"]
  /\ CreateOverlapped(j, "created")
  /\ UNCHANGED <<completionPort, timerVars, loopVars, calls, clock>>

\* Mutant: a failed post does not destroy the overlapped object's count.
WorkerLeaksOnFailure(j) ==
  /\ job[j] = "posting"
  /\ op' = [op EXCEPT ![j] = "rejected"] /\ job' = [job EXCEPT ![j] = "lost"]
  /\ UNCHANGED <<overlappedCount, completionPort, timerVars, loopVars, calls, clock>>

(* ... and posts it.  If the post fails, the exception leaves the task and *)
(* endWork() is never reached.                                             *)
WorkerPosts(j) ==
  /\ job[j] = "posting"
  /\ \/ /\ op' = [op EXCEPT ![j] = "queued"] /\ Post(j)
        /\ job' = [job EXCEPT ![j] = "ending"]
        /\ UNCHANGED overlappedCount
     \/ /\ PostMayFail
        /\ DestroyOverlapped(j, "rejected")
        /\ job' = [job EXCEPT ![j] = "lost"]
        /\ UNCHANGED completionPort
  /\ UNCHANGED <<timerVars, loopVars, calls, clock>>

\* endWork(): the last use the pool thread makes of the executor.
WorkerEnds(j) ==
  /\ job[j] = "ending"
  /\ job' = [job EXCEPT ![j] = "done"]
  /\ overlappedCount' = overlappedCount - 1
  /\ UNCHANGED <<op, completionPort, timerVars, loopVars, calls, clock>>

-----------------------------------------------------------------------------
(* Timers: std::priority_queue<Timer>, earliest time point on top          *)

Queue == {t \in Timers : timer[t] = "queued"}

\* Mutants: equal timers are served last in, first out; the order is reversed.
DisplacesOrEqual(t, tp) == top = None \/ tp <= timePoint[top]
LatestFirst(t, tp) == top = None \/ tp > timePoint[top]

\* Timer::operator<: a pushed timer displaces the top only if strictly earlier.
Displaces(t, tp) == top = None \/ tp < timePoint[top]

\* wait() does not look at the sign of its delay.
Wait(t, d) ==
  /\ UserCode /\ timer[t] = "idle"
  /\ clock + d <= MaxClock
  /\ timer' = [timer EXCEPT ![t] = "queued"]
  /\ timePoint' = [timePoint EXCEPT ![t] = clock + d]
  /\ top' = IF Displaces(t, clock + d) THEN t ELSE top
  /\ UNCHANGED <<ioVars, loopVars, job, calls, clock>>

\* Mutant: the fired timer is not removed.
NoPop == UNCHANGED timerVars

\* timerQueue.pop(): removes the top, whichever timer that is by now; which of
\* several earliest timers comes next is the heap's choice.
Pop ==
  /\ timer' = [timer EXCEPT ![top] = "popped"]
  /\ LET rest == Queue \ {top}
     IN  top' \in IF rest = {} THEN {None}
                  ELSE {t \in rest : \A u \in rest : timePoint[t] <= timePoint[u]}
  /\ UNCHANGED timePoint

-----------------------------------------------------------------------------
(* IOExecutor::run()                                                       *)

LoopCondition == overlappedCount # 0 \/ top # None

TimerDue == top # None /\ timePoint[top] <= now

\* The DWORD conversion of the milliseconds left: exact up to INFINITE and
\* undefined, hence any DWORD, beyond.
Dword(ms) == IF ms <= Infinite THEN {ms} ELSE 0..Infinite

\* Mutant: the time point itself is taken for the time left.
WaitTimesSinceEpoch ==
  IF top = None THEN {Infinite} ELSE Dword(timePoint[top] \div TicksPerMs)

WaitTimes ==
  IF top = None THEN {Infinite}
  ELSE Dword((timePoint[top] - now) \div TicksPerMs)

\* When a wait of so many milliseconds that starts now times out.
DeadlineOf(ms) ==
  IF ms = Infinite THEN Never
  ELSE IF clock + ms * TicksPerMs <= MaxClock
       THEN clock + ms * TicksPerMs ELSE MaxClock

TimedOut == deadline # Never /\ clock >= deadline

Run ==
  /\ pc \in Outside
  /\ pc' = "test"
  /\ UNCHANGED <<ioVars, timerVars, current, now, deadline, throws, job, calls, clock>>

LoopTest ==
  /\ pc = "test"
  /\ IF LoopCondition THEN pc' = "timers" /\ now' = clock
                      ELSE pc' = "returned" /\ UNCHANGED now
  /\ UNCHANGED <<ioVars, timerVars, current, deadline, throws, job, calls, clock>>

FireTimer ==
  /\ pc = "timers" /\ TimerDue
  /\ pc' = "timercb" /\ current' = top
  /\ Call(top)
  /\ UNCHANGED <<ioVars, timerVars, now, deadline, throws, job, clock>>

TimerReturns ==
  /\ pc = "timercb"
  /\ pc' = "timers" /\ current' = None
  /\ Pop
  /\ UNCHANGED <<ioVars, now, deadline, throws, job, calls, clock>>

\* Mutant: without work, run() always sleeps, even when no timer is left.
PollAlwaysSleeps ==
  /\ pc = "timers" /\ ~TimerDue
  /\ \E ms \in WaitTimes :
       /\ pc' = IF overlappedCount # 0 THEN "waiting" ELSE "sleeping"
       /\ deadline' = DeadlineOf(ms)
  /\ UNCHANGED <<ioVars, timerVars, current, now, throws, job, calls, clock>>

(* No timer is due: overlappedCount is read again to choose between        *)
(* waiting on the port, sleeping, and going straight back to the test.     *)
Poll ==
  /\ pc = "timers" /\ ~TimerDue
  /\ \E ms \in WaitTimes :
       \/ /\ overlappedCount # 0
          /\ pc' = "waiting" /\ deadline' = DeadlineOf(ms)
       \/ /\ overlappedCount = 0 /\ ms # Infinite
          /\ pc' = "sleeping" /\ deadline' = DeadlineOf(ms)
       \/ /\ overlappedCount = 0 /\ ms = Infinite
          /\ pc' = "test" /\ UNCHANGED deadline
  /\ UNCHANGED <<ioVars, timerVars, current, now, throws, job, calls, clock>>

\* Mutant: a packet of a failed operation is dropped without its callback.
DequeueDropsFailures ==
  /\ pc = "waiting" /\ completionPort # <<>>
  /\ DestroyOverlapped(Head(completionPort), "done")
  /\ completionPort' = Tail(completionPort)
  /\ pc' = "test"
  /\ UNCHANGED <<timerVars, current, now, deadline, throws, job, calls, clock>>

\* ::GetQueuedCompletionStatus returns a packet, and its callback is called.
Dequeue ==
  /\ pc = "waiting" /\ completionPort # <<>>
  /\ LET o == Head(completionPort)
     IN  /\ op' = [op EXCEPT ![o] = "running"]
         /\ current' = o
         /\ Call(o)
  /\ completionPort' = Tail(completionPort)
  /\ pc' = "callback"
  /\ UNCHANGED <<overlappedCount, timerVars, now, deadline, throws, job, clock>>

\* The callback has returned: destroyOverlapped.
CallbackReturns ==
  /\ pc = "callback"
  /\ DestroyOverlapped(current, "done")
  /\ pc' = "test" /\ current' = None
  /\ UNCHANGED <<completionPort, timerVars, now, deadline, throws, job, calls, clock>>

\* The wait times out without a packet, or the sleep ends.
WaitEnds ==
  /\ \/ pc = "waiting" /\ completionPort = <<>>
     \/ pc = "sleeping"
  /\ TimedOut
  /\ pc' = "test"
  /\ UNCHANGED <<ioVars, timerVars, current, now, deadline, throws, job, calls, clock>>

(* A callback throws: the exception leaves run() past destroyOverlapped    *)
(* and past timerQueue.pop().                                              *)
CallbackThrows ==
  /\ pc \in {"callback", "timercb"} /\ throws < MaxThrows
  /\ throws' = throws + 1
  /\ op' = IF pc = "callback" THEN [op EXCEPT ![current] = "thrown"] ELSE op
  /\ pc' = "threw" /\ current' = None
  /\ UNCHANGED <<overlappedCount, completionPort, timerVars, now, deadline, job, calls, clock>>

Tick ==
  /\ clock < MaxClock
  /\ clock' = clock + 1
  /\ UNCHANGED <<ioVars, timerVars, loopVars, job, calls>>

-----------------------------------------------------------------------------
User ==
  \/ \E o \in Ops : StartIO(o) \/ Execute(o)
  \/ \E j \in Jobs : Resolve(j)
  \/ \E t \in Timers, d \in Delays : Wait(t, d)

\* Mutant: endWork() comes before execute().
WorkerEndsFirst(j) ==
  \/ /\ job[j] = "pooled" /\ job' = [job EXCEPT ![j] = "ending"]
     /\ overlappedCount' = overlappedCount - 1
     /\ UNCHANGED <<op, completionPort, timerVars, loopVars, calls, clock>>
  \/ /\ job[j] = "ending" /\ op[j] = "idle" /\ job' = [job EXCEPT ![j] = "posting"]
     /\ CreateOverlapped(j, "created")
     /\ UNCHANGED <<completionPort, timerVars, loopVars, calls, clock>>
  \/ WorkerPosts(j)

Worker(j) == WorkerCreates(j) \/ WorkerPosts(j) \/ WorkerEnds(j)

\* The steps run() takes by itself.
Loop == LoopTest \/ FireTimer \/ TimerReturns \/ Poll \/ Dequeue
        \/ CallbackReturns \/ WaitEnds

Next ==
  \/ User
  \/ \E o \in Ops : Complete(o)
  \/ \E j \in Jobs : Worker(j)
  \/ Run \/ Loop \/ CallbackThrows
  \/ Tick

Spec == Init /\ [][Next]_vars

(* The loop thread, the pool threads and the clock keep going, main()      *)
(* calls run() while there is work, and a callback that can return returns.*)
Fairness ==
  /\ WF_vars(Loop) /\ WF_vars(Tick)
  /\ WF_vars(LoopCondition /\ Run)
  /\ \A j \in Jobs : WF_vars(Worker(j))

\* In addition every pending operation is completed, failed or aborted.
OSFairness == \A o \in Ops : WF_vars(Complete(o))

FairSpec == Spec /\ Fairness /\ OSFairness
-----------------------------------------------------------------------------
(* Properties                                                              *)

\* Overlapped objects that exist, and resolver work between beginWork() and
\* endWork(): what overlappedCount is meant to count.
LiveStates == {"created", "pending", "queued", "running", "thrown"}
Live       == {o \in Overlappeds : op[o] \in LiveStates}
OpenStates == {"pooled", "posting", "ending", "lost"}
OpenWork   == {j \in Jobs : job[j] \in OpenStates}

\* The atomic counter, incremented and decremented by two kinds of threads in
\* separate steps, is at every moment exactly the number of live overlapped
\* objects plus the number of resolver jobs that have not called endWork().
CountMatchesWork == overlappedCount = Cardinality(Live) + Cardinality(OpenWork)

(* When run() returns normally, nothing is left behind: no timer, no       *)
(* overlapped object (not even one whose callback threw in an earlier      *)
(* run()), and no pool thread that would still touch the executor, which   *)
(* its owner may now destroy.                                              *)
ReturnsOnlyWhenDone ==
  [][pc = "test" /\ pc' = "returned" => Live = {} /\ OpenWork = {} /\ Queue = {}]_vars

\* User code that asks for no delay below zero.
NonNegative == Delays \subseteq Nat

\* Timers that timerQueue.pop() has removed although nobody called them.
Lost == {t \in Timers : timer[t] = "popped" /\ calls[t] = 0}

(* No callback is called twice, but for a timer.  That is called again for *)
(* two reasons only: its callback threw and it stayed in timerQueue, or    *)
(* pop() removed another timer in its place, which is lost; so the         *)
(* exceptions and the lost timers pay for every further call.              *)
CalledAtMostOnce ==
  /\ \A o \in Overlappeds : calls[o] <= 1
  /\ \A t \in Timers : calls[t] <= 1 + throws + Cardinality(Lost)

(* timerQueue.pop(), which runs after the callback, removes the timer that *)
(* was fired, although the callback may have pushed others in between,     *)
(* unless it pushed one with an earlier time point, which only a negative  *)
(* delay gives: then pop() removes that one, uncalled.                     *)
PopsWhatItFired ==
  pc = "timercb" =>
    \/ top = current
    \/ top # None /\ timePoint[top] < timePoint[current] /\ calls[top] = 0 /\ ~NonNegative

\* Timers are fired in the order of their time points, never before them.
FiresInOrder ==
  [][pc = "timers" /\ pc' = "timercb" =>
       /\ timePoint[current'] <= clock
       /\ \A t \in Queue : timePoint[current'] <= timePoint[t]]_vars

(* A timer due within INFINITE milliseconds bounds every wait and sleep:   *)
(* run() does not wait for ever, and it wakes up later than the time point *)
(* by no more than the time its callbacks took since it read now.          *)
NeverOversleeps ==
  [][/\ pc = "timers" /\ pc' \in {"waiting", "sleeping"}
     /\ top # None /\ timePoint[top] - now < Infinite * TicksPerMs
     => deadline' # Never /\ deadline' - timePoint[top] <= clock - now]_vars

\* What will still post a packet and so wake a wait that has no time-out: an
\* operation or a function in flight, a job that has yet to post its result.
Wakers == {o \in Overlappeds : op[o] \in {"pending", "queued"}}
          \cup {j \in Jobs : job[j] \in {"pooled", "posting"}}
Stranded == pc = "waiting" /\ deadline = Never /\ Wakers = {}

\* Counts nobody will take back: a callback that threw, a post that failed.
Leaked == \/ \E o \in Overlappeds : op[o] = "thrown"
          \/ \E j \in Jobs : job[j] = "lost"

(* run() comes to wait with no time-out and nothing that could wake it in  *)
(* two ways only: an exception or a failed post has left a count behind,   *)
(* or at that very step a resolver job was between execute() and endWork(),*)
(* which then decrements the counter and wakes nobody.                     *)
WaitHasWaker ==
  [][Stranded' => Stranded \/ Leaked' \/ \E j \in Jobs : job[j] = "ending"]_vars

\* Whatever is accepted (an operation the OS still works on or has completed at
\* once, a function given to execute(), a timer, a resolver job) has its callback
\* called in the end, provided the post of the resolver's result succeeds.
CallbacksDelivered ==
  /\ \A o \in Ops : op[o] \in {"pending", "queued"} ~> calls[o] > 0
  /\ \A t \in Timers : timer[t] = "queued" ~> calls[t] > 0
  /\ \A j \in Jobs : job[j] = "pooled" ~> calls[j] > 0

\* run() ends once all there was to do is done, as the example programs,
\* which return from main() after it, need.
RunReturns == pc = "test" ~> pc \in Outside

\* If no callback throws and no post fails, run() ends, or all work has ended,
\* the counter is back at zero, and run() is in a wait that nobody told so:
\* endWork() is the only thing that makes it hang.
HangsOnlyWhenDone ==
  pc = "test" ~> pc \in Outside \/ (Stranded /\ overlappedCount = 0)

\* What the clients of the asynchronous calls are promised.
Outstanding ==
  {o \in Ops : op[o] \in {"pending", "queued"}}
  \cup {j \in Jobs : job[j] # "idle" /\ calls[j] = 0}
  \cup {t \in Timers : timer[t] # "idle" /\ calls[t] = 0}
Delivered == {c \in Callbacks : calls[c] > 0}
Running == IF pc = "main" THEN "no" ELSE IF pc \in Outside THEN pc ELSE "yes"

Completion == INSTANCE AsyncCompletion WITH
  outstanding <- Outstanding, delivered <- Delivered, running <- Running

ImplementsCompletion == Completion!ASpec
=============================================================================
