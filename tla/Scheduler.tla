----------------------------- MODULE Scheduler -----------------------------
(***************************************************************************)
(* p2/scheduler.c: cooperative user threads on a ring.  main creates       *)
(* threads and calls scheduler_execute, which switches between them by     *)
(* setjmp and longjmp: a thread runs until it calls scheduler_yield or     *)
(* returns.  A thread is a number; what it computes is abstracted to how   *)
(* often it yields before it returns, and to the threads it creates.       *)
(*                                                                         *)
(* A number stands for the struct of a thread and for its function on its  *)
(* stack.  They part when a running thread creates another one: current is *)
(* then the new struct, self still the function that runs.                 *)
(***************************************************************************)
EXTENDS Naturals, FiniteSets

CONSTANTS
  MaxThreads,  \* bound: threads created in all
  Yields,      \* how often a thread may yield
  MaxBatches,  \* bound: calls of scheduler_execute
  MinThreads   \* threads main creates at least before a call

ASSUME BoundAssumption ==
  MaxThreads \in Nat /\ MaxBatches \in Nat /\ MinThreads \in Nat /\ Yields \subseteq Nat

NULL == 0
Threads == 1 .. MaxThreads

VARIABLES
  phase,      \* "main", "run", or "stopped" by a wild pointer or jump
  created,    \* threads created so far
  ring,       \* next pointers of the threads
  head, current, num_threads, terminate_counter,   \* globals of scheduler.c
  status,     \* status of each thread, "none" before it is created
  ctx,        \* whose scheduler_yield each ctx returns from: NULL when a
              \* setjmp never filled it or that call has returned since
  self,       \* the thread whose function has the processor
  left,       \* how often each thread will still yield
  executed,   \* calls of scheduler_execute so far
  creators,   \* history: current threads when a running one created another
  turns,      \* history: how often each thread got the processor
  yields      \* history: how often each thread yields in all

lists == <<created, ring, head, num_threads, yields>>
vars == <<phase, lists, current, terminate_counter, status, ctx, self, left,
          executed, creators, turns>>

Init ==
  /\ phase = "main" /\ created = 0 /\ executed = 0
  /\ head = NULL /\ current = NULL
  /\ num_threads = 0 /\ terminate_counter = 0
  /\ ring = [t \in Threads |-> NULL]
  /\ status = [t \in Threads |-> "none"]
  /\ ctx = [t \in Threads |-> NULL] /\ self = NULL /\ creators = {}
  /\ left = [t \in Threads |-> 0]
  /\ turns = [t \in Threads |-> 0] /\ yields = [t \in Threads |-> 0]

(***************************************************************************)
(* scheduler_create: the new thread goes behind the current one and closes *)
(* the ring.  Before an execution the current one is the last one created. *)
(* When a thread creates one, what was behind it is cut off, and the new   *)
(* struct takes its place: the creator's next scheduler_yield saves its    *)
(* context there, its return terminates it, and the new function is never  *)
(* called.                                                                 *)
(***************************************************************************)

Link(t) == IF head = NULL THEN [ring EXCEPT ![t] = t]
           ELSE [ring EXCEPT ![t] = head, ![current] = t]

Create ==
  /\ created < MaxThreads
  /\ \/ phase = "main" /\ executed < MaxBatches /\ UNCHANGED creators
     \/ phase = "run" /\ creators' = creators \cup {current}
  /\ LET t == created + 1
     IN  /\ ring' = Link(t)
         /\ head' = IF head = NULL THEN t ELSE head
         /\ current' = t
         /\ created' = t
         /\ status' = [status EXCEPT ![t] = "new"]
         /\ \E y \in Yields : /\ left' = [left EXCEPT ![t] = y]
                              /\ yields' = [yields EXCEPT ![t] = y]
  /\ num_threads' = num_threads + 1
  /\ UNCHANGED <<phase, terminate_counter, ctx, self, executed, turns>>

(***************************************************************************)
(* thread_candidate: the first thread behind the current one that is new   *)
(* or asleep.  The current one itself is never a candidate.                *)
(***************************************************************************)
after[k \in Nat] == IF k = 0 THEN current ELSE ring[after[k - 1]]

\* Slip: only the running thread is passed over.
WaitingAny(t) == status[t] \notin {"none", "running"}

Waiting(t) == status[t] \in {"new", "sleeping"}

\* Slip: the search starts at the head of the ring every time.
CandidateFromHead(t) ==
  /\ t # current /\ Waiting(t)
  /\ \A s \in 1 .. t - 1 : s # current => ~Waiting(s)

\* t is reached before the ring comes round, and no waiting thread before it.
Candidate(t) ==
  /\ t # current /\ Waiting(t)
  /\ \E k \in Threads : /\ after[k] = t
                        /\ \A j \in 1 .. k - 1 : after[j] # current /\ ~Waiting(after[j])

thread_candidate ==
  IF current = NULL THEN head
  ELSE IF \E t \in Threads : Candidate(t) THEN CHOOSE t \in Threads : Candidate(t)
  ELSE NULL

\* schedule() and the jump in scheduler_execute follow a NULL candidate, or
\* jump to a context that was never saved or to one that has been used, whose
\* call of scheduler_yield has returned: from there anything may happen.
Stop == phase' = "stopped" /\ UNCHANGED <<current, self, turns>>
GiveTurn(t, f) ==
  /\ phase' = "run"
  /\ current' = t /\ self' = f
  /\ turns' = [turns EXCEPT ![t] = @ + 1]

\* longjmp into the context of the candidate, the states of the threads being
\* state and their contexts saved.  Nobody is marked as running.
Jump(state, saved) ==
  /\ status' = state
  /\ LET t == thread_candidate
     IN  IF t # NULL /\ saved[t] # NULL
           THEN GiveTurn(t, saved[t]) /\ ctx' = [saved EXCEPT ![t] = NULL]
           ELSE Stop /\ ctx' = saved

(***************************************************************************)
(* schedule: starts a new candidate or resumes one that yielded.  The      *)
(* thread that yields has its status and its context saved already.        *)
(***************************************************************************)
Schedule(state, saved) ==
  LET t == thread_candidate
  IN  IF t # NULL /\ state[t] = "new"
        THEN GiveTurn(t, t) /\ status' = [state EXCEPT ![t] = "running"] /\ ctx' = saved
        ELSE Jump(state, saved)

Execute ==
  /\ phase = "main" /\ executed < MaxBatches /\ num_threads >= MinThreads
  /\ executed' = executed + 1
  /\ Schedule(status, ctx)
  /\ UNCHANGED <<lists, terminate_counter, left, creators>>

\* Slip: the context of a thread that yields is not saved.
SavedNowhere == ctx

Saved == [ctx EXCEPT ![current] = self]

Yield ==
  /\ phase = "run" /\ left[self] > 0
  /\ left' = [left EXCEPT ![self] = @ - 1]
  /\ Schedule([status EXCEPT ![current] = "sleeping"], Saved)
  /\ UNCHANGED <<lists, terminate_counter, executed, creators>>

(***************************************************************************)
(* The end of a thread's function.  scheduler_execute counts it, and       *)
(* jumps into the context of the next candidate without looking whether    *)
(* that thread was ever started; or it frees all threads and returns; or,  *)
(* when the counter has run past num_threads, it just returns.             *)
(***************************************************************************)
\* Slip: the last thread is forgotten.
LastCountedEarly == terminate_counter + 1 >= num_threads - 1

LastCounted == terminate_counter + 1 >= num_threads

Count == terminate_counter' = terminate_counter + 1

Terminate == [status EXCEPT ![current] = "terminated"]

Return ==
  /\ phase = "run" /\ left[self] = 0
  /\ Count
  /\ UNCHANGED <<left, executed, yields, ring, created, creators>>

ReturnNext ==
  /\ Return /\ ~LastCounted
  /\ Jump(Terminate, ctx)
  /\ UNCHANGED <<head, num_threads>>

ReturnLast ==
  /\ Return /\ LastCounted
  /\ phase' = "main" /\ status' = Terminate
  /\ IF terminate_counter + 1 = num_threads
       THEN head' = NULL /\ current' = NULL /\ num_threads' = 0
       ELSE UNCHANGED <<head, current, num_threads>>
  /\ UNCHANGED <<turns, ctx, self>>

Next == Create \/ Execute \/ Yield \/ ReturnNext \/ ReturnLast

Spec == Init /\ [][Next]_vars

\* Threads compute in finite time between two calls of the scheduler.
FairSpec == Spec /\ WF_vars(Yield \/ ReturnNext \/ ReturnLast)

-----------------------------------------------------------------------------
(***************************************************************************)
(*                               Properties                                *)
(***************************************************************************)
Created == 1 .. created

TypeOK ==
  /\ phase \in {"main", "run", "stopped"}
  /\ created \in 0 .. MaxThreads /\ executed \in Nat
  /\ ring \in [Threads -> 0 .. MaxThreads]
  /\ head \in 0 .. MaxThreads /\ current \in 0 .. MaxThreads
  /\ num_threads \in Nat /\ terminate_counter \in Nat
  /\ status \in [Threads -> {"none", "new", "running", "sleeping", "terminated"}]
  /\ ctx \in [Threads -> 0 .. MaxThreads] /\ self \in 0 .. MaxThreads
  /\ creators \subseteq Threads
  /\ left \in [Threads -> Nat] /\ turns \in [Threads -> Nat]
  /\ yields \in [Threads -> Nat]
  /\ phase = "run" => current # NULL /\ self # NULL
  /\ \A t \in Created : ring[t] \in Created

\* scheduler_execute "returns after all user threads (previously created) have
\* terminated" (scheduler.h:39): none is freed or left behind before.
ReturnsAfterAll ==
  [][phase = "run" /\ phase' = "main" =>
       \A t \in Created : status'[t] = "terminated"]_vars

\* In the first batch terminate_counter is the number of terminated threads:
\* the threads are freed neither early nor never.
CounterExact ==
  executed <= 1 =>
    terminate_counter = Cardinality({t \in Threads : status[t] = "terminated"})

\* Every turn goes to a waiting thread that has had the fewest: no thread can
\* be overtaken twice while it waits, whoever terminates in between.  (A thread
\* created by another one comes late, and may cut others off the ring.)
RoundRobin ==
  [][creators = {} =>
       \A t \in Threads : turns'[t] # turns[t] =>
         \A s \in Threads : Waiting(s) => turns[s] >= turns[t]]_vars

\* A thread that sleeps can be resumed, once, where it yielded.  Only one that
\* created a thread is left asleep without a context, for its own is another's.
ContextsKept ==
  \A t \in Threads : status[t] = "sleeping" /\ ~(phase = "run" /\ t = current) =>
    \/ t \in creators
    \/ ctx[t] # NULL /\ (creators = {} => ctx[t] = t)

(***************************************************************************)
(* scheduler.h promises that scheduler_execute, called after 0 or more     *)
(* calls of scheduler_create, returns after all threads have terminated.   *)
(* It does not always return.  The workloads that a first execution        *)
(* survives: at least two threads, all created by main; every thread but   *)
(* the last created yields, for its return jumps to the next one, which    *)
(* has to be started; and the thread that is left last returns without a   *)
(* yield, for there is nobody to yield to.  Last is the one that yields    *)
(* most, the last created among equals.                                    *)
(***************************************************************************)
LastLeft(t) ==
  \A s \in Created : yields[s] < yields[t] \/ (yields[s] = yields[t] /\ s <= t)

Survivable ==
  /\ created >= 2 /\ creators = {}
  /\ \A t \in Created : t < created => yields[t] >= 1
  /\ \E s, t \in Created :
       /\ s # t /\ LastLeft(t)
       /\ \/ yields[s] = yields[t]
          \/ yields[s] + 1 = yields[t] /\ s > t

Returned == phase = "main" /\ \A t \in Created : status[t] = "terminated"

\* Which executions keep the promise: from the call on, the first execution
\* returns with all threads terminated if the workload is survivable; any other
\* one, no thread or a single one included, ends at a wild pointer or jump.
ReturnsIffSurvivable ==
  executed = 1 ~> IF Survivable THEN Returned ELSE phase = "stopped"
=============================================================================
