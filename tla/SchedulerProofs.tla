-------------------------- MODULE SchedulerProofs --------------------------
(***************************************************************************)
(* Proofs about Scheduler for any number of threads and any workload: the  *)
(* first execution returns only when every thread has terminated, a thread *)
(* that sleeps can be resumed unless it created another one, and in the    *)
(* first two executions the threads take turns.                            *)
(***************************************************************************)
EXTENDS Scheduler, ModArith, FiniteSetTheorems, TLAPS

Terminated == {t \in Threads : status[t] = "terminated"}

\* What the pointers and the states of the threads say about each other.
ListInv ==
  /\ head \in Created \cup {NULL} /\ current \in Created \cup {NULL}
  /\ current = NULL => head = NULL
  /\ \A t \in Threads : status[t] = "none" <=> t \notin Created
  /\ \A t \in Threads : ctx[t] # NULL =>
       status[t] = "sleeping" /\ ~(phase = "run" /\ t = current)
  /\ phase = "run" /\ creators = {} => self = current
  /\ ContextsKept

\* Until it returns, the first execution has all created threads on its ring.
FirstInv ==
  /\ executed <= MaxBatches
  /\ executed = 0 =>
       /\ phase = "main" /\ terminate_counter = 0 /\ num_threads = created
       /\ \A t \in Threads : status[t] \in {"none", "new"}
  /\ executed = 1 /\ phase = "run" =>
       /\ num_threads = created /\ terminate_counter < num_threads
       /\ status[current] # "terminated"
  /\ executed <= 1 => IsFiniteSet(Terminated) /\ terminate_counter = Cardinality(Terminated)

IInv == TypeOK /\ ListInv /\ FirstInv

States == {"none", "new", "running", "sleeping", "terminated"}

\* The three outcomes of a look for a candidate: a new thread is started, one
\* that yielded resumed, or the program goes astray.
Starts(t, state, saved) ==
  /\ state[t] = "new" /\ GiveTurn(t, t)
  /\ status' = [state EXCEPT ![t] = "running"] /\ ctx' = saved
Resumes(t, state, saved) ==
  /\ saved[t] # NULL /\ GiveTurn(t, saved[t])
  /\ status' = state /\ ctx' = [saved EXCEPT ![t] = NULL]
Strays(state, saved) == Stop /\ status' = state /\ ctx' = saved

\* A thread the scheduler turns to is another one, and waits.
LEMMA CandidateWaits ==
  ASSUME TypeOK, ListInv, thread_candidate # NULL
  PROVE  /\ thread_candidate \in Threads /\ thread_candidate # current
         /\ Waiting(thread_candidate)
         /\ thread_candidate \in Created /\ Candidate(thread_candidate)
PROOF
  <1>1. current # NULL
    BY DEF thread_candidate, ListInv
  <1>2. \E t \in Threads : Candidate(t)
    BY <1>1 DEF thread_candidate
  <1>3. thread_candidate = CHOOSE t \in Threads : Candidate(t)
    BY <1>1, <1>2 DEF thread_candidate
  <1>4. thread_candidate \in Threads /\ Candidate(thread_candidate)
    BY <1>2, <1>3
  <1>5. thread_candidate # current /\ Waiting(thread_candidate)
    BY <1>4 DEF Candidate
  <1>6. QED
    BY <1>4, <1>5 DEF ListInv, Waiting

\* What schedule does, and what the jump at the end of a thread does.
LEMMA Outcomes ==
  ASSUME TypeOK, ListInv, NEW state, NEW saved, Schedule(state, saved) \/ Jump(state, saved)
  PROVE  \/ \E t \in Created \cap Threads :
              /\ t # current /\ Waiting(t) /\ Candidate(t)
              /\ Starts(t, state, saved) \/ Resumes(t, state, saved)
         \/ Strays(state, saved)
PROOF
  <1>1. PICK t : t = thread_candidate
    OBVIOUS
  <1>2. t # NULL =>
          t \in Created \cap Threads /\ t # current /\ Waiting(t) /\ Candidate(t)
    BY <1>1, CandidateWaits
  <1>3. CASE Jump(state, saved)
    <2>1. CASE t # NULL /\ saved[t] # NULL
      BY <1>1, <1>2, <1>3, <2>1 DEF Jump, Resumes
    <2>2. CASE ~(t # NULL /\ saved[t] # NULL)
      BY <1>1, <1>3, <2>2 DEF Jump, Strays
    <2>3. QED
      BY <2>1, <2>2
  <1>4. CASE Schedule(state, saved) /\ ~Jump(state, saved)
    <2>1. t # NULL /\ Starts(t, state, saved)
      BY <1>1, <1>4 DEF Schedule, Starts
    <2>2. QED
      BY <1>2, <2>1
  <1>5. QED
    BY <1>3, <1>4

\* A turn keeps the types.
LEMMA TurnTypes ==
  ASSUME TypeOK, ListInv, NEW state \in [Threads -> States],
         NEW saved \in [Threads -> 0 .. MaxThreads],
         Schedule(state, saved) \/ Jump(state, saved), phase # "run" \/ self # NULL
  PROVE  /\ phase' \in {"run", "stopped"}
         /\ current' \in 0 .. MaxThreads /\ self' \in 0 .. MaxThreads
         /\ phase' = "run" => current' # NULL /\ self' # NULL
         /\ turns' \in [Threads -> Nat] /\ status' \in [Threads -> States]
         /\ ctx' \in [Threads -> 0 .. MaxThreads]
PROOF
  <1>1. /\ MaxThreads \in Nat /\ NULL \in 0 .. MaxThreads /\ turns \in [Threads -> Nat]
        /\ current \in 0 .. MaxThreads /\ self \in 0 .. MaxThreads
    BY BoundAssumption DEF TypeOK, NULL
  <1>2. CASE Strays(state, saved)
    BY <1>1, <1>2 DEF Strays, Stop
  <1>3. ASSUME NEW t \in Threads, Starts(t, state, saved) \/ Resumes(t, state, saved)
        PROVE  /\ phase' = "run" /\ current' = t /\ t \in 0 .. MaxThreads /\ t # NULL
               /\ self' \in 0 .. MaxThreads /\ self' # NULL
               /\ turns' \in [Threads -> Nat] /\ status' \in [Threads -> States]
               /\ ctx' \in [Threads -> 0 .. MaxThreads]
    <2>1. t \in 0 .. MaxThreads /\ t # NULL /\ saved[t] \in 0 .. MaxThreads
      BY <1>1 DEF Threads, NULL
    <2>2. CASE Starts(t, state, saved)
      BY <1>1, <2>1, <2>2 DEF Starts, GiveTurn, States
    <2>3. CASE Resumes(t, state, saved)
      BY <1>1, <2>1, <2>3 DEF Resumes, GiveTurn
    <2>4. QED
      BY <1>3, <2>1, <2>2, <2>3
  <1>4. QED
    BY <1>2, <1>3, Outcomes

\* The types, ring included.
LEMMA TypeInductive == TypeOK /\ ListInv /\ [Next]_vars => TypeOK'
PROOF
  <1>1. SUFFICES ASSUME TypeOK, ListInv, [Next]_vars PROVE TypeOK'
    OBVIOUS
  <1>0. MaxThreads \in Nat /\ created \in Nat
    BY <1>1, BoundAssumption DEF TypeOK
  <1>2. CASE UNCHANGED vars
    BY <1>1, <1>2 DEF TypeOK, Created, vars, lists
  <1>3. CASE Create
    <2>1. PICK t : t = created + 1
      OBVIOUS
    <2>2. t \in Threads /\ created' = t /\ current' = t /\ head' \in 0 .. MaxThreads
      BY <1>0, <1>1, <1>3, <2>1 DEF Create, Threads, TypeOK
    <2>3. ring' = Link(t) /\ Created = 1 .. created
      BY <1>3, <2>1 DEF Create, Created
    <2>4. head # NULL => head \in Created /\ current \in Created
      BY <1>1 DEF ListInv
    <2>5. Created' = Created \cup {t} /\ t \notin Created /\ Created \subseteq Threads
      <3>1. 1 .. created + 1 = (1 .. created) \cup {created + 1}
        BY <1>0
      <3>2. created + 1 \notin 1 .. created /\ 1 .. created \subseteq 1 .. MaxThreads
        BY <1>0, <1>1 DEF TypeOK
      <3>3. QED
        BY <2>1, <2>2, <3>1, <3>2 DEF Created, Threads
    <2>14. /\ ring \in [Threads -> 0 .. MaxThreads] /\ head \in 0 .. MaxThreads
           /\ t \in 0 .. MaxThreads /\ \A s \in Created : ring[s] \in Created
      BY <1>0, <1>1, <2>2 DEF TypeOK, Threads
    <2>6. ring' \in [Threads -> 0 .. MaxThreads]
      <3>1. CASE head = NULL
        BY <2>3, <2>14, <3>1 DEF Link
      <3>2. CASE head # NULL
        BY <2>3, <2>14, <3>2 DEF Link
      <3>3. QED
        BY <3>1, <3>2
    <2>7. \A s \in Created' : ring'[s] \in Created'
      <3>1. SUFFICES ASSUME NEW s \in Created \cup {t} PROVE ring'[s] \in Created \cup {t}
        BY <2>5
      <3>2. s \in Threads /\ (s # t => ring[s] \in Created)
        BY <2>2, <2>5, <2>14
      <3>3. CASE head = NULL
        <4>1. ring'[s] = IF s = t THEN t ELSE ring[s]
          BY <2>3, <2>14, <3>2, <3>3 DEF Link
        <4>2. QED
          BY <3>2, <4>1
      <3>4. CASE head # NULL
        <4>1. ring' = [[ring EXCEPT ![t] = head] EXCEPT ![current] = t]
          BY <2>3, <3>4 DEF Link
        <4>2. ring'[s] = IF s = current THEN t ELSE IF s = t THEN head ELSE ring[s]
          BY <2>14, <3>2, <4>1
        <4>3. QED
          BY <2>4, <3>2, <3>4, <4>2
      <3>5. QED
        BY <3>3, <3>4
    <2>8. PICK y \in Yields : /\ left' = [left EXCEPT ![t] = y]
                              /\ yields' = [yields EXCEPT ![t] = y]
      BY <1>3, <2>1 DEF Create
    <2>9. left' \in [Threads -> Nat] /\ yields' \in [Threads -> Nat]
      BY <1>1, <2>8, BoundAssumption DEF TypeOK
    <2>10. status' \in [Threads -> {"none", "new", "running", "sleeping", "terminated"}]
      BY <1>1, <1>3 DEF Create, TypeOK
    <2>11. created' \in 0 .. MaxThreads /\ current' \in 0 .. MaxThreads
      BY <1>0, <2>2 DEF Threads
    <2>12. num_threads' \in Nat
      BY <1>1, <1>3 DEF Create, TypeOK
    <2>15. creators' \subseteq Threads
      <3>1. phase = "run" => current \in Threads
        BY <1>1 DEF TypeOK, Threads, NULL
      <3>2. QED
        BY <1>1, <1>3, <3>1 DEF Create, TypeOK
    <2>16. t # NULL
      BY <2>2 DEF Threads, NULL
    <2>13. QED
      BY <1>1, <1>3, <2>2, <2>6, <2>7, <2>9, <2>10, <2>11, <2>12, <2>15, <2>16 DEF Create, TypeOK
  <1>6. /\ phase' \in {"run", "stopped"}
        /\ current' \in 0 .. MaxThreads /\ self' \in 0 .. MaxThreads
        /\ phase' = "run" => current' # NULL /\ self' # NULL
        /\ turns' \in [Threads -> Nat] /\ status' \in [Threads -> States]
        /\ ctx' \in [Threads -> 0 .. MaxThreads]
        => (UNCHANGED <<lists, creators>> /\ terminate_counter' \in Nat /\ executed' \in Nat
            /\ left' \in [Threads -> Nat] => TypeOK')
    BY <1>1 DEF TypeOK, Created, lists, States
  <1>7. CASE Execute
    <2>1. status \in [Threads -> States] /\ ctx \in [Threads -> 0 .. MaxThreads]
      BY <1>1 DEF TypeOK, States
    <2>2. /\ Schedule(status, ctx) /\ phase # "run" /\ executed' = executed + 1
          /\ UNCHANGED <<lists, terminate_counter, left, creators>>
      BY <1>7 DEF Execute
    <2>3. executed' \in Nat /\ terminate_counter' \in Nat /\ left' \in [Threads -> Nat]
      BY <1>1, <2>2 DEF TypeOK
    <2>4. QED
      BY <1>1, <1>6, <2>1, <2>2, <2>3, TurnTypes
  <1>8. CASE Yield
    <2>1. current \in Threads /\ self \in Threads /\ self # NULL
      BY <1>1, <1>8 DEF Yield, TypeOK, Threads, NULL
    <2>2. PICK state, saved : /\ state = [status EXCEPT ![current] = "sleeping"]
                              /\ saved = Saved
      OBVIOUS
    <2>3. state \in [Threads -> States] /\ saved \in [Threads -> 0 .. MaxThreads]
      BY <1>1, <2>1, <2>2 DEF TypeOK, States, Saved
    <2>4. Schedule(state, saved) /\ UNCHANGED <<lists, terminate_counter, executed, creators>>
      BY <1>8, <2>2 DEF Yield
    <2>5. left' \in [Threads -> Nat] /\ executed' \in Nat /\ terminate_counter' \in Nat
      BY <1>1, <1>8, <2>1 DEF Yield, TypeOK
    <2>6. QED
      BY <1>1, <1>6, <2>1, <2>3, <2>4, <2>5, TurnTypes
  <1>9. ASSUME Return
        PROVE  /\ Terminate \in [Threads -> States] /\ self # NULL
               /\ terminate_counter' \in Nat
               /\ UNCHANGED <<left, executed, yields, ring, created, creators>>
    <2>1. /\ terminate_counter' = terminate_counter + 1 /\ phase = "run"
          /\ UNCHANGED <<left, executed, yields, ring, created, creators>>
      BY <1>9 DEF Return, Count
    <2>2. Terminate \in [Threads -> States]
      BY <1>1 DEF Terminate, TypeOK, States
    <2>3. self # NULL /\ terminate_counter' \in Nat
      BY <1>1, <2>1 DEF TypeOK
    <2>4. QED
      BY <2>1, <2>2, <2>3
  <1>10. CASE ReturnNext
    <2>1. Return /\ Jump(Terminate, ctx) /\ UNCHANGED <<head, num_threads>>
      BY <1>10 DEF ReturnNext
    <2>2. ctx \in [Threads -> 0 .. MaxThreads] /\ executed \in Nat /\ left \in [Threads -> Nat]
      BY <1>1 DEF TypeOK
    <2>3. QED
      BY <1>1, <1>6, <1>9, <2>1, <2>2, TurnTypes DEF lists
  <1>11. CASE ReturnLast
    <2>1. Return /\ phase' = "main" /\ UNCHANGED <<turns, ctx, self>> /\ status' = Terminate
      BY <1>11 DEF ReturnLast
    <2>2. head' \in 0 .. MaxThreads /\ current' \in 0 .. MaxThreads /\ num_threads' \in Nat
      BY <1>0, <1>1, <1>11 DEF ReturnLast, TypeOK, NULL
    <2>3. QED
      BY <1>1, <1>9, <2>1, <2>2 DEF TypeOK, Created, States
  <1>12. QED
    BY <1>1, <1>2, <1>3, <1>7, <1>8, <1>10, <1>11 DEF Next

\* A turn keeps what the pointers, states and contexts say about each other.
LEMMA TurnLists ==
  ASSUME TypeOK, ListInv, NEW state \in [Threads -> States],
         NEW saved \in [Threads -> 0 .. MaxThreads],
         Schedule(state, saved) \/ Jump(state, saved),
         UNCHANGED <<created, head, creators>>,
         \A t \in Threads : state[t] = "none" <=> t \notin Created,
         \A t \in Threads : saved[t] # NULL => state[t] = "sleeping",
         \A t \in Threads : state[t] = "sleeping" =>
           t \in creators \/ (saved[t] # NULL /\ (creators = {} => saved[t] = t))
  PROVE  ListInv'
PROOF
  <1>1. /\ head \in Created \cup {NULL} /\ current \in Created \cup {NULL}
        /\ current = NULL => head = NULL
        /\ Created' = Created /\ head' = head /\ creators' = creators
    BY DEF ListInv, Created
  <1>2. CASE Strays(state, saved)
    <2>1. phase' = "stopped" /\ current' = current /\ status' = state /\ ctx' = saved
      BY <1>2 DEF Strays, Stop
    <2>2. ContextsKept'
      BY <2>1 DEF ContextsKept
    <2>3. QED
      BY <1>1, <2>1, <2>2 DEF ListInv
  <1>3. ASSUME NEW t \in Created \cap Threads, Starts(t, state, saved) \/ Resumes(t, state, saved)
        PROVE  ListInv'
    <2>1. phase' = "run" /\ current' = t /\ t # NULL
      BY <1>3 DEF Starts, Resumes, GiveTurn, Threads, NULL
    <2>2. CASE Starts(t, state, saved)
      <3>1. /\ state[t] = "new" /\ self' = t
            /\ status' = [state EXCEPT ![t] = "running"] /\ ctx' = saved
        BY <2>2 DEF Starts, GiveTurn
      <3>2. \A s \in Threads : /\ status'[s] = "none" <=> s \notin Created'
                               /\ status'[s] = "sleeping" <=> state[s] = "sleeping"
        BY <1>1, <3>1
      <3>3. \A s \in Threads : ctx'[s] # NULL => status'[s] = "sleeping" /\ s # t
        BY <3>1, <3>2
      <3>4. ContextsKept'
        BY <2>1, <3>1, <3>2 DEF ContextsKept
      <3>5. QED
        BY <1>1, <2>1, <3>1, <3>2, <3>3, <3>4 DEF ListInv
    <2>3. CASE Resumes(t, state, saved)
      <3>1. /\ saved[t] # NULL /\ self' = saved[t]
            /\ status' = state /\ ctx' = [saved EXCEPT ![t] = NULL]
        BY <2>3 DEF Resumes, GiveTurn
      <3>2. \A s \in Threads : ctx'[s] = IF s = t THEN NULL ELSE saved[s]
        BY <3>1
      <3>3. creators = {} => self' = t
        BY <3>1
      <3>4. ContextsKept'
        BY <2>1, <3>1, <3>2 DEF ContextsKept
      <3>5. QED
        BY <1>1, <2>1, <3>1, <3>2, <3>3, <3>4 DEF ListInv
    <2>4. QED
      BY <1>3, <2>2, <2>3
  <1>4. QED
    BY <1>2, <1>3, Outcomes

LEMMA ListInductive == TypeOK /\ ListInv /\ [Next]_vars => ListInv'
PROOF
  <1>1. SUFFICES ASSUME TypeOK, ListInv, [Next]_vars PROVE ListInv'
    OBVIOUS
  <1>2. CASE UNCHANGED vars
    BY <1>1, <1>2 DEF ListInv, ContextsKept, Created, vars, lists
  <1>3. /\ status \in [Threads -> States] /\ ctx \in [Threads -> 0 .. MaxThreads]
        /\ head \in Created \cup {NULL} /\ current \in Created \cup {NULL}
        /\ current = NULL => head = NULL
        /\ \A t \in Threads : status[t] = "none" <=> t \notin Created
        /\ \A t \in Threads : ctx[t] # NULL =>
             status[t] = "sleeping" /\ ~(phase = "run" /\ t = current)
        /\ phase = "run" /\ creators = {} => self = current
        /\ \A t \in Threads : status[t] = "sleeping" /\ ~(phase = "run" /\ t = current) =>
             t \in creators \/ (ctx[t] # NULL /\ (creators = {} => ctx[t] = t))
    BY <1>1 DEF ListInv, ContextsKept, TypeOK, States
  <1>9. phase = "run" => current \in Created \cap Threads /\ self # NULL /\ self \in 0 .. MaxThreads
    BY <1>1, <1>3 DEF TypeOK, Threads, NULL
  <1>4. CASE Create
    <2>1. PICK t : t = created + 1
      OBVIOUS
    <2>2. t \in Threads /\ created \in Nat
      BY <1>1, <1>4, <2>1, BoundAssumption DEF Create, Threads, TypeOK
    <2>3. Created' = Created \cup {t} /\ t \notin Created /\ t # NULL
      BY <1>4, <2>1, <2>2 DEF Created, Create, NULL
    <2>4. /\ current' = t /\ head' \in {head, t} /\ status' = [status EXCEPT ![t] = "new"]
          /\ UNCHANGED <<phase, ctx, self>>
          /\ \/ phase = "main" /\ creators' = creators
             \/ phase = "run" /\ creators' = creators \cup {current}
      BY <1>4, <2>1 DEF Create
    <2>5. \A s \in Threads : /\ status'[s] = "sleeping" <=> status[s] = "sleeping" /\ s # t
                             /\ status'[s] = "none" <=> s \notin Created'
      BY <1>3, <2>2, <2>3, <2>4
    <2>6. status[t] = "none"
      BY <1>3, <2>2, <2>3
    <2>7. ctx[t] = NULL
      BY <1>3, <2>2, <2>6
    <2>8. \A s \in Threads : ctx'[s] # NULL => status'[s] = "sleeping" /\ s # current'
      BY <1>3, <2>4, <2>5, <2>7
    <2>9. ContextsKept'
      <3>1. CASE phase = "main"
        BY <1>3, <2>4, <2>5, <3>1 DEF ContextsKept
      <3>2. CASE phase = "run"
        BY <1>3, <2>4, <2>5, <3>2 DEF ContextsKept
      <3>3. QED
        BY <2>4, <3>1, <3>2
    <2>10. phase' = "run" => creators' # {}
      BY <2>4
    <2>11. QED
      BY <1>3, <2>3, <2>4, <2>5, <2>8, <2>9, <2>10 DEF ListInv
  <1>5. CASE Execute
    <2>1. Schedule(status, ctx) /\ phase = "main" /\ UNCHANGED <<created, head, creators>>
      BY <1>5 DEF Execute, lists
    <2>2. QED
      BY <1>1, <1>3, <2>1, TurnLists
  <1>6. CASE Yield
    <2>1. PICK state, saved : /\ state = [status EXCEPT ![current] = "sleeping"]
                              /\ saved = [ctx EXCEPT ![current] = self]
      OBVIOUS
    <2>2. /\ Schedule(state, saved) /\ phase = "run"
          /\ UNCHANGED <<created, head, creators>>
      BY <1>6, <2>1 DEF Yield, Saved, lists
    <2>3. state \in [Threads -> States] /\ saved \in [Threads -> 0 .. MaxThreads]
      BY <1>3, <1>9, <2>1, <2>2 DEF States
    <2>4. \A t \in Threads : /\ state[t] = IF t = current THEN "sleeping" ELSE status[t]
                             /\ saved[t] = IF t = current THEN self ELSE ctx[t]
      BY <1>3, <2>1
    <2>5. \A t \in Threads : state[t] = "none" <=> t \notin Created
      BY <1>3, <1>9, <2>2, <2>4
    <2>6. \A t \in Threads : saved[t] # NULL => state[t] = "sleeping"
      BY <1>3, <2>4
    <2>7. \A t \in Threads : state[t] = "sleeping" =>
            t \in creators \/ (saved[t] # NULL /\ (creators = {} => saved[t] = t))
      BY <1>3, <1>9, <2>2, <2>4
    <2>8. QED
      BY <1>1, <2>2, <2>3, <2>5, <2>6, <2>7, TurnLists
  <1>7. ASSUME Return
        PROVE  /\ phase = "run" /\ UNCHANGED <<created, creators>>
               /\ Terminate \in [Threads -> States]
               /\ \A t \in Threads : Terminate[t] = IF t = current THEN "terminated" ELSE status[t]
               /\ \A t \in Threads : Terminate[t] = "none" <=> t \notin Created
               /\ \A t \in Threads : ctx[t] # NULL => Terminate[t] = "sleeping"
               /\ \A t \in Threads : Terminate[t] = "sleeping" =>
                    t \in creators \/ (ctx[t] # NULL /\ (creators = {} => ctx[t] = t))
    <2>1. phase = "run" /\ UNCHANGED <<created, creators>>
      BY <1>7 DEF Return
    <2>2. /\ Terminate \in [Threads -> States]
          /\ \A t \in Threads : Terminate[t] = IF t = current THEN "terminated" ELSE status[t]
      BY <1>3 DEF Terminate, States
    <2>3. \A t \in Threads : Terminate[t] = "none" <=> t \notin Created
      BY <1>3, <1>9, <2>1, <2>2
    <2>4. \A t \in Threads : ctx[t] # NULL => Terminate[t] = "sleeping"
      BY <1>3, <2>1, <2>2
    <2>5. \A t \in Threads : Terminate[t] = "sleeping" =>
            t \in creators \/ (ctx[t] # NULL /\ (creators = {} => ctx[t] = t))
      BY <1>3, <2>2
    <2>6. QED
      BY <2>1, <2>2, <2>3, <2>4, <2>5
  <1>8. CASE ReturnNext
    <2>1. Return /\ Jump(Terminate, ctx) /\ UNCHANGED head
      BY <1>8 DEF ReturnNext
    <2>2. QED
      BY <1>1, <1>3, <1>7, <2>1, TurnLists
  <1>10. CASE ReturnLast
    <2>1. /\ Return /\ phase' = "main" /\ status' = Terminate /\ UNCHANGED <<ctx, self>>
          /\ \/ head' = NULL /\ current' = NULL
             \/ UNCHANGED <<head, current>>
      BY <1>10 DEF ReturnLast
    <2>2. Created' = Created
      BY <1>7, <2>1 DEF Created
    <2>3. ContextsKept'
      BY <1>7, <2>1 DEF ContextsKept
    <2>4. QED
      BY <1>3, <1>7, <2>1, <2>2, <2>3 DEF ListInv
  <1>11. QED
    BY <1>1, <1>2, <1>4, <1>5, <1>6, <1>8, <1>10 DEF Next

\* A step that ends no thread leaves the terminated ones as they are.
LEMMA SameTerminated ==
  ASSUME \A t \in Threads : status'[t] = "terminated" <=> status[t] = "terminated"
  PROVE  Terminated' = Terminated
PROOF
  BY DEF Terminated

\* The thread that returns is one more.
LEMMA OneMoreTerminated ==
  ASSUME TypeOK, current \in Threads, IsFiniteSet(Terminated),
         status[current] # "terminated",
         \A t \in Threads : status'[t] = "terminated" <=> status[t] = "terminated" \/ t = current
  PROVE  IsFiniteSet(Terminated') /\ Cardinality(Terminated') = Cardinality(Terminated) + 1
PROOF
  <1>1. PICK c : c = current
    OBVIOUS
  <1>2. Terminated' = Terminated \cup {c} /\ c \notin Terminated
    BY <1>1 DEF Terminated, TypeOK
  <1>3. QED
    BY <1>2, FS_AddElement

\* A turn terminates nobody and is not given to a terminated thread.
LEMMA TurnTerminates ==
  ASSUME TypeOK, ListInv, NEW state \in [Threads -> States],
         NEW saved \in [Threads -> 0 .. MaxThreads],
         Schedule(state, saved) \/ Jump(state, saved),
         \A t \in Threads : t # current => state[t] = status[t]
  PROVE  /\ \A t \in Threads : status'[t] = "terminated" <=> state[t] = "terminated"
         /\ phase' = "run" =>
              /\ status'[current'] # "terminated"
              /\ \E t \in Created : TRUE
PROOF
  <1>1. CASE Strays(state, saved)
    BY <1>1 DEF Strays, Stop
  <1>2. ASSUME NEW t \in Created \cap Threads, t # current, Waiting(t),
               Starts(t, state, saved) \/ Resumes(t, state, saved)
        PROVE  /\ \A s \in Threads : status'[s] = "terminated" <=> state[s] = "terminated"
               /\ current' = t /\ status'[t] # "terminated"
    <2>1. state[t] = status[t] /\ state[t] \in {"new", "sleeping"} /\ current' = t
      BY <1>2 DEF Waiting, Starts, Resumes, GiveTurn
    <2>2. status' = state \/ status' = [state EXCEPT ![t] = "running"]
      BY <1>2 DEF Starts, Resumes
    <2>3. QED
      BY <2>1, <2>2
  <1>3. QED
    BY <1>1, <1>2, Outcomes

LEMMA FirstInductive == IInv /\ [Next]_vars => FirstInv'
PROOF
  <1>1. SUFFICES ASSUME IInv, [Next]_vars PROVE FirstInv'
    OBVIOUS
  <1>2. TypeOK /\ ListInv /\ FirstInv /\ MaxBatches \in Nat /\ executed \in Nat
        /\ created \in Nat /\ num_threads \in Nat /\ terminate_counter \in Nat
    BY <1>1, BoundAssumption DEF IInv, TypeOK
  <1>3. CASE UNCHANGED vars
    <2>1. UNCHANGED <<executed, phase, terminate_counter, num_threads, created, status, current>>
      BY <1>3 DEF vars, lists
    <2>2. Terminated' = Terminated
      BY <2>1 DEF Terminated
    <2>3. QED
      BY <1>2, <2>1, <2>2 DEF FirstInv
  <1>4. CASE Create
    <2>1. /\ created' = created + 1 /\ num_threads' = num_threads + 1
          /\ phase' = phase /\ executed' = executed /\ current' = created + 1
          /\ terminate_counter' = terminate_counter
          /\ status' = [status EXCEPT ![created + 1] = "new"]
      BY <1>4 DEF Create
    <2>2. created + 1 \in Threads /\ created + 1 \notin Created
      BY <1>2, <1>4, BoundAssumption DEF Create, Threads, Created
    <2>3. status[created + 1] = "none"
      BY <1>2, <2>2 DEF ListInv
    <2>4. Terminated' = Terminated
      BY <1>2, <2>1, <2>3, SameTerminated DEF TypeOK
    <2>5. executed = 0 => \A t \in Threads : status'[t] \in {"none", "new"}
      BY <1>2, <2>1 DEF FirstInv, TypeOK
    <2>6. status'[current'] # "terminated"
      BY <1>2, <2>1, <2>2 DEF TypeOK
    <2>7. QED
      BY <1>2, <2>1, <2>4, <2>5, <2>6 DEF FirstInv
  <1>5. status \in [Threads -> States] /\ ctx \in [Threads -> 0 .. MaxThreads]
    BY <1>2 DEF TypeOK, States
  <1>6. CASE Execute
    <2>1. /\ executed' = executed + 1 /\ executed < MaxBatches /\ Schedule(status, ctx)
          /\ UNCHANGED <<num_threads, created, terminate_counter>>
      BY <1>6 DEF Execute, lists
    <2>2. CASE executed = 0
      <3>1. /\ num_threads = created /\ terminate_counter = 0
            /\ IsFiniteSet(Terminated) /\ terminate_counter = Cardinality(Terminated)
        BY <1>2, <2>2 DEF FirstInv
      <3>2. /\ \A t \in Threads : status'[t] = "terminated" <=> status[t] = "terminated"
            /\ phase' = "run" => /\ status'[current'] # "terminated"
                                 /\ \E t \in Created : TRUE
        BY <1>2, <1>5, <2>1, TurnTerminates
      <3>3. Terminated' = Terminated
        BY <3>2, SameTerminated
      <3>4. phase' = "run" => created >= 1
        BY <1>2, <3>2 DEF Created
      <3>6. QED
        BY <1>2, <2>1, <2>2, <3>1, <3>2, <3>3, <3>4 DEF FirstInv
    <2>3. CASE executed # 0
      BY <1>2, <2>1, <2>3 DEF FirstInv
    <2>4. QED
      BY <2>2, <2>3
  <1>7. CASE Yield
    <2>1. /\ phase = "run" /\ executed' = executed
          /\ UNCHANGED <<num_threads, created, terminate_counter>>
      BY <1>7 DEF Yield, lists
    <2>2. CASE executed = 1
      <3>1. /\ num_threads = created /\ terminate_counter < num_threads
            /\ status[current] # "terminated"
            /\ IsFiniteSet(Terminated) /\ terminate_counter = Cardinality(Terminated)
        BY <1>2, <2>1, <2>2 DEF FirstInv
      <3>2. PICK state, saved : /\ state = [status EXCEPT ![current] = "sleeping"]
                                /\ saved = [ctx EXCEPT ![current] = self]
        OBVIOUS
      <3>3. state \in [Threads -> States] /\ saved \in [Threads -> 0 .. MaxThreads]
        <4>1. self \in 0 .. MaxThreads
          BY <1>2 DEF TypeOK
        <4>2. QED
          BY <1>5, <3>2, <4>1 DEF States
      <3>4. /\ Schedule(state, saved)
            /\ \A t \in Threads : t # current => state[t] = status[t]
            /\ \A t \in Threads : state[t] = "terminated" <=> status[t] = "terminated"
        BY <1>5, <1>7, <3>1, <3>2 DEF Yield, Saved
      <3>5. /\ \A t \in Threads : status'[t] = "terminated" <=> state[t] = "terminated"
            /\ phase' = "run" => status'[current'] # "terminated"
        BY <1>2, <3>3, <3>4, TurnTerminates
      <3>6. Terminated' = Terminated
        BY <3>4, <3>5, SameTerminated
      <3>7. QED
        BY <1>2, <2>1, <2>2, <3>1, <3>5, <3>6 DEF FirstInv
    <2>3. CASE executed # 1
      BY <1>2, <2>1, <2>3 DEF FirstInv
    <2>4. QED
      BY <2>2, <2>3
  <1>8. CASE ReturnNext \/ ReturnLast
    <2>1. /\ phase = "run" /\ executed' = executed /\ created' = created
          /\ terminate_counter' = terminate_counter + 1
      BY <1>8 DEF ReturnNext, ReturnLast, Return, Count
    <2>2. CASE executed = 1
      <3>1. /\ num_threads = created /\ terminate_counter < num_threads
            /\ status[current] # "terminated"
            /\ IsFiniteSet(Terminated) /\ terminate_counter = Cardinality(Terminated)
        BY <1>2, <2>1, <2>2 DEF FirstInv
      <3>2. current \in Threads
        BY <1>2, <2>1 DEF TypeOK, Threads, NULL
      <3>3. PICK state : state = Terminate
        OBVIOUS
      <3>4. /\ state \in [Threads -> States] /\ state = [status EXCEPT ![current] = "terminated"]
            /\ \A t \in Threads : t # current => state[t] = status[t]
        BY <1>5, <3>3 DEF Terminate, States
      <3>5. ASSUME ReturnNext
            PROVE  /\ num_threads' = num_threads /\ terminate_counter' < num_threads
                   /\ phase' = "run" => status'[current'] # "terminated"
        <4>1. /\ Jump(state, ctx) /\ num_threads' = num_threads
              /\ terminate_counter + 1 < num_threads
          BY <1>2, <3>3, <3>5 DEF ReturnNext, LastCounted
        <4>2. phase' = "run" => status'[current'] # "terminated"
          BY <1>2, <1>5, <3>4, <4>1, TurnTerminates
        <4>3. QED
          BY <2>1, <4>1, <4>2
      <3>6. ReturnLast => phase' = "main"
        BY DEF ReturnLast
      <3>7. \A t \in Threads : status'[t] = "terminated" <=> state[t] = "terminated"
        <4>1. CASE ReturnNext
          BY <1>2, <1>5, <3>3, <3>4, <4>1, TurnTerminates DEF ReturnNext
        <4>2. CASE ReturnLast
          BY <3>3, <4>2 DEF ReturnLast
        <4>3. QED
          BY <1>8, <4>1, <4>2
      <3>8. IsFiniteSet(Terminated') /\ terminate_counter' = Cardinality(Terminated')
        BY <1>2, <1>5, <2>1, <3>1, <3>2, <3>4, <3>7, OneMoreTerminated
      <3>9. phase' = "run" => /\ num_threads' = created' /\ terminate_counter' < num_threads'
                              /\ status'[current'] # "terminated"
        BY <1>8, <2>1, <3>1, <3>5, <3>6
      <3>10. QED
        BY <1>2, <2>1, <2>2, <3>8, <3>9 DEF FirstInv
    <2>3. CASE executed # 1
      BY <1>2, <2>1, <2>3 DEF FirstInv
    <2>4. QED
      BY <2>2, <2>3
  <1>9. QED
    BY <1>1, <1>3, <1>4, <1>6, <1>7, <1>8 DEF Next

LEMMA Initially == Init => IInv
PROOF
  <1>1. SUFFICES ASSUME Init PROVE IInv
    OBVIOUS
  <1>2. MaxThreads \in Nat /\ MaxBatches \in Nat /\ Created = {}
    BY <1>1, BoundAssumption DEF Init, Created
  <1>3. TypeOK
    BY <1>1, <1>2 DEF Init, TypeOK, Threads, NULL
  <1>4. ListInv
    BY <1>1, <1>2 DEF Init, ListInv, ContextsKept
  <1>5. Terminated = {}
    BY <1>1 DEF Init, Terminated
  <1>6. FirstInv
    BY <1>1, <1>2, <1>5, FS_EmptySet DEF Init, FirstInv
  <1>7. QED
    BY <1>3, <1>4, <1>6 DEF IInv

THEOREM InvCorrect == Spec => []IInv
PROOF
  <1>1. IInv /\ [Next]_vars => IInv'
    BY TypeInductive, ListInductive, FirstInductive DEF IInv
  <1>2. QED
    BY <1>1, Initially, PTL DEF Spec

\* Every reachable state has its type, and the ring stays among the created
\* threads.
THEOREM TypeCorrect == Spec => []TypeOK
PROOF
  <1>1. IInv => TypeOK
    BY DEF IInv
  <1>2. QED
    BY <1>1, InvCorrect, PTL

\* terminate_counter counts the threads that have returned, whatever they do,
\* until scheduler_execute is called again.
THEOREM CounterCorrect == Spec => []CounterExact
PROOF
  <1>1. IInv => CounterExact
    BY DEF IInv, FirstInv, CounterExact, Terminated
  <1>2. QED
    BY <1>1, InvCorrect, PTL

\* A thread that sleeps can be resumed where it yielded, unless it created
\* another thread, in any number of executions.
THEOREM ContextsCorrect == Spec => []ContextsKept
PROOF
  <1>1. IInv => ContextsKept
    BY DEF IInv, ListInv
  <1>2. QED
    BY <1>1, InvCorrect, PTL

\* The ring of the first execution is empty when it has returned.
LEMMA FirstReturnsAll ==
  ASSUME IInv, IInv', ReturnLast, executed = 1
  PROVE  /\ \A t \in Created : status'[t] = "terminated"
         /\ head' = NULL /\ current' = NULL
PROOF
  <1>1. /\ executed' = 1 /\ created \in Nat /\ num_threads \in Nat /\ terminate_counter \in Nat
        /\ phase = "run"
    BY BoundAssumption DEF IInv, TypeOK, ReturnLast, Return
  <1>2. num_threads = created /\ terminate_counter < num_threads
    BY <1>1 DEF IInv, FirstInv
  <1>3. terminate_counter + 1 = num_threads /\ terminate_counter' = created /\ created' = created
    BY <1>1, <1>2 DEF ReturnLast, Return, Count, LastCounted
  <1>4. head' = NULL /\ current' = NULL
    BY <1>3 DEF ReturnLast
  <1>5. PICK T : T = Terminated'
    OBVIOUS
  <1>6. Cardinality(T) = created
    BY <1>1, <1>3, <1>5 DEF IInv, FirstInv
  <1>7. T \subseteq Created
    <2>1. \A t \in Threads : status'[t] = "none" <=> t \notin Created'
      BY DEF IInv, ListInv
    <2>2. Created' = Created
      BY <1>3 DEF Created
    <2>3. QED
      BY <1>5, <2>1, <2>2 DEF Terminated
  <1>8. IsFiniteSet(Created) /\ Cardinality(Created) = created
    <2>1. 1 \in Int /\ created \in Int
      BY <1>1
    <2>2. IsFiniteSet(1 .. created)
          /\ Cardinality(1 .. created) = IF 1 > created THEN 0 ELSE created - 1 + 1
      BY <2>1, FS_Interval
    <2>3. QED
      BY <1>1, <2>2 DEF Created
  <1>9. T = Created
    BY <1>6, <1>7, <1>8, FS_Subset
  <1>10. QED
    BY <1>4, <1>5, <1>9 DEF Terminated

\* When the program executes one batch of threads, scheduler_execute returns
\* only after every one of them has terminated.
THEOREM ReturnsCorrect == ASSUME MaxBatches = 1 PROVE Spec => ReturnsAfterAll
PROOF
  <1>1. IInv /\ IInv' /\ [Next]_vars =>
          [phase = "run" /\ phase' = "main" =>
             \A t \in Created : status'[t] = "terminated"]_vars
    <2>1. SUFFICES ASSUME IInv, IInv', Next, phase = "run", phase' = "main"
                   PROVE  \A t \in Created : status'[t] = "terminated"
      BY DEF vars
    <2>2. ReturnLast
      <3>1. Schedule(status, ctx) \/ Schedule([status EXCEPT ![current] = "sleeping"], Saved)
              \/ Jump(Terminate, ctx) => phase' # "main"
        BY DEF Schedule, Jump, GiveTurn, Stop
      <3>2. QED
        BY <2>1, <3>1 DEF Next, Create, Execute, Yield, ReturnNext
    <2>3. executed = 1
      BY <2>1, BoundAssumption DEF IInv, TypeOK, FirstInv
    <2>4. QED
      BY <2>1, <2>2, <2>3, FirstReturnsAll
  <1>2. QED
    BY <1>1, InvCorrect, PTL DEF Spec, ReturnsAfterAll

\* Behind the current thread come those behind it in the batch, then the batch
\* from its head on.
LEMMA AfterIs ==
  ASSUME NEW lo \in Nat, NEW n \in Nat \ {0}, NEW c \in 0 .. n - 1, current = lo + c,
         \A t \in lo .. lo + n - 1 : ring[t] = IF t = lo + n - 1 THEN lo ELSE t + 1
  PROVE  \A k \in Nat : after[k] = lo + ((c + k) % n)
PROOF
  <1> DEFINE f == [k \in Nat |-> lo + ((c + k) % n)]
  <1>1. f[0] = current
    <2>1. c + 0 = c /\ c % n = c
      BY ModSmall
    <2>2. QED
      BY <2>1
  <1>2. ASSUME NEW k \in Nat, k # 0 PROVE f[k] = ring[f[k - 1]]
    <2>1. PICK p \in Nat : k = p + 1
      BY <1>2, k - 1 \in Nat, k = (k - 1) + 1
    <2>2. PICK m : m = (c + p) % n
      OBVIOUS
    <2>3. m \in 0 .. n - 1
      BY <2>2, ModDef
    <2>4. f[p] = lo + m /\ lo + m \in lo .. lo + n - 1
      BY <2>2, <2>3
    <2>5. (c + k) % n = (m + 1) % n
      <3>1. (((c + p) % n) + 1) % n = ((c + p) + 1) % n
        <4>1. c + p \in Int /\ 1 \in Int
          OBVIOUS
        <4>2. QED
          BY <4>1, ModAdd
      <3>2. (c + p) + 1 = c + k
        BY <2>1
      <3>3. QED
        BY <2>2, <3>1, <3>2
    <2>6. CASE m = n - 1
      <3>1. (m + 1) % n = 0
        BY <2>6, ModOnce
      <3>2. ring[f[p]] = lo
        BY <2>4, <2>6
      <3>3. QED
        BY <2>1, <2>5, <3>1, <3>2
    <2>7. CASE m # n - 1
      <3>1. (m + 1) % n = m + 1
        BY <2>3, <2>7, ModSmall
      <3>2. ring[f[p]] = lo + m + 1
        BY <2>3, <2>4, <2>7
      <3>3. QED
        BY <2>1, <2>3, <2>5, <3>1, <3>2
    <2>8. QED
      BY <2>6, <2>7
  <1>3. f = [k \in Nat |-> IF k = 0 THEN current ELSE ring[f[k - 1]]]
    BY <1>1, <1>2
  <1>4. after = CHOOSE g : g = [k \in Nat |-> IF k = 0 THEN current ELSE ring[g[k - 1]]]
    BY DEF after
  <1> HIDE DEF f
  <1>5. after = [k \in Nat |-> IF k = 0 THEN current ELSE ring[after[k - 1]]]
    BY <1>3, <1>4
  <1>6. \A k \in Nat : after[k] = IF k = 0 THEN current ELSE ring[after[k - 1]]
    BY ONLY <1>5
  <1> DEFINE Bad == {k \in Nat : after[k] # f[k]}
  <1>7. Bad = {}
    <2>1. SUFFICES ASSUME Bad # {} PROVE FALSE
      OBVIOUS
    <2>2. PICK k \in Bad : \A i \in Bad : k <= i
      BY <2>1, LeastNatural
    <2>3. k \in Nat /\ k # 0
      BY <1>1, <1>6, <2>2
    <2>4. k - 1 \in Nat /\ k - 1 \notin Bad
      BY <2>2, <2>3
    <2>5. after[k - 1] = f[k - 1]
      BY <2>4
    <2>6. after[k] = f[k]
      BY <1>2, <1>6, <2>3, <2>5
    <2>7. QED
      BY <2>2, <2>6
  <1>8. QED
    BY <1>7 DEF f

\* The batch: the threads of the ring, from its head to the last one created.
\* main has not called scheduler_execute yet, or it runs, and no thread created
\* another one.
Orderly == creators = {} /\ (phase = "run" \/ (phase = "main" /\ executed < 2))

\* No thread waits outside the batch; those up to the current one have had as
\* many turns as it, those behind it one less.
Rounds ==
  /\ head <= current
  /\ \A t \in head .. created : ring[t] = IF t = created THEN head ELSE t + 1
  /\ \A s \in Threads : Waiting(s) =>
       /\ s >= head
       /\ IF s > current THEN turns[s] + 1 = turns[current] ELSE turns[s] = turns[current]

RoundInv ==
  Orderly =>
    /\ \A t \in Threads : t > created => turns[t] = 0
    /\ phase = "main" => current = IF head = NULL THEN NULL ELSE created
    /\ phase = "main" /\ head # NULL => \A t \in head .. created : turns[t] = 0
    /\ phase = "run" => head # NULL
    /\ IF head = NULL THEN \A s \in Threads : ~Waiting(s) ELSE Rounds

\* The candidate is the first that waits behind the current one: a waiting
\* thread between them would have been found.
LEMMA FirstInRound ==
  ASSUME TypeOK, ListInv, head # NULL, Rounds, NEW t \in Threads, Candidate(t),
         NEW s \in Threads, Waiting(s)
  PROVE  /\ s > current => (t > current /\ t <= s)
         /\ s < t => (t > current /\ s <= current)
PROOF
  <1>1. /\ MaxThreads \in Nat /\ created \in Nat /\ created <= MaxThreads
        /\ head \in 1 .. created /\ current \in 1 .. created /\ head <= current
    BY BoundAssumption DEF TypeOK, ListInv, Created, Rounds, NULL
  <1>2. \A u \in Threads : Waiting(u) => u \in head .. created
    <2>1. SUFFICES ASSUME NEW u \in Threads, Waiting(u) PROVE u \in head .. created
      OBVIOUS
    <2>2. u \in Created
      BY <2>1 DEF ListInv, Waiting
    <2>3. u >= head
      BY <2>1 DEF Rounds
    <2>4. QED
      BY <1>1, <2>2, <2>3 DEF Created
  <1>3. PICK lo, n, c : lo = head /\ n = created - head + 1 /\ c = current - head
    OBVIOUS
  <1>4. lo \in Nat /\ n \in Nat \ {0} /\ c \in 0 .. n - 1 /\ current = lo + c
        /\ created = lo + n - 1 /\ n <= MaxThreads
    BY <1>1, <1>3
  <1>5. \A u \in lo .. lo + n - 1 : ring[u] = IF u = lo + n - 1 THEN lo ELSE u + 1
    BY <1>3, <1>4 DEF Rounds
  <1>6. \A k \in Nat : after[k] = lo + ((c + k) % n)
    BY <1>4, <1>5, AfterIs
  <1>7. \A k \in 1 .. n : after[k] = IF c + k < n THEN lo + c + k ELSE lo + c + k - n
    <2>1. SUFFICES ASSUME NEW k \in 1 .. n
                   PROVE  after[k] = IF c + k < n THEN lo + c + k ELSE lo + c + k - n
      OBVIOUS
    <2>2. k \in Nat /\ after[k] = lo + ((c + k) % n)
      BY <1>4, <1>6
    <2>3. CASE c + k < n
      <3>1. (c + k) % n = c + k
        BY <1>4, <2>2, <2>3, ModSmall
      <3>2. QED
        BY <1>4, <2>2, <2>3, <3>1
    <2>4. CASE ~(c + k < n)
      <3>1. (c + k) % n = c + k - n
        <4>1. c + k \in n .. 2 * n - 1
          BY <1>4, <2>1, <2>2, <2>4
        <4>2. QED
          BY <1>4, <4>1, ModOnce
      <3>2. QED
        BY <1>4, <2>2, <2>4, <3>1
    <2>5. QED
      BY <2>3, <2>4
  <1>8. after[n] = current
    BY <1>4, <1>7
  <1>9. PICK k \in Threads : /\ after[k] = t
                             /\ \A j \in 1 .. k - 1 : after[j] # current /\ ~Waiting(after[j])
    BY DEF Candidate
  <1>10. t # current /\ Waiting(t) /\ k \in Nat /\ k >= 1
    BY <1>1 DEF Candidate, Threads
  <1>11. k < n
    <2>1. CASE k > n
      <3>1. n \in 1 .. k - 1
        BY <1>4, <1>10, <2>1
      <3>2. QED
        BY <1>8, <1>9, <3>1
    <2>2. k # n
      BY <1>8, <1>9, <1>10
    <2>3. QED
      BY <1>4, <1>10, <2>1, <2>2
  <1>12. t = IF c + k < n THEN lo + c + k ELSE lo + c + k - n
    BY <1>4, <1>7, <1>9, <1>10, <1>11
  <1>13. s \in Nat /\ lo <= s /\ s <= lo + n - 1
    BY <1>1, <1>2, <1>3, <1>4 DEF Threads
  <1>14. ASSUME NEW j \in 1 .. n - 1, after[j] = s PROVE k <= j
    <2>1. j \in 1 .. k - 1 => ~Waiting(after[j])
      BY <1>9
    <2>2. QED
      BY <1>4, <1>10, <1>14, <2>1
  <1>15. s > current => (t > current /\ t <= s)
    <2>1. SUFFICES ASSUME s > current PROVE t > current /\ t <= s
      OBVIOUS
    <2>2. PICK j \in 1 .. n - 1 : s = lo + c + j
      <3>1. s - (lo + c) \in 1 .. n - 1 /\ s = lo + c + (s - (lo + c))
        BY <1>4, <1>13, <2>1
      <3>2. QED
        BY <3>1
    <2>3. c + j < n
      BY <1>4, <1>13, <2>2
    <2>4. after[j] = s
      BY <1>4, <1>7, <2>2, <2>3
    <2>5. k <= j
      BY <1>14, <2>4
    <2>6. QED
      BY <1>4, <1>10, <1>12, <2>2, <2>3, <2>5
  <1>16. s < t => (t > current /\ s <= current)
    <2>1. SUFFICES ASSUME s < t PROVE t > current /\ s <= current
      OBVIOUS
    <2>2. s <= current
      <3>1. SUFFICES ASSUME s > current PROVE FALSE
        BY <1>4, <1>13
      <3>2. t <= s
        BY <1>15, <3>1
      <3>3. QED
        BY <1>13, <2>1, <3>2 DEF Threads
    <2>3. t > current
      <3>1. SUFFICES ASSUME ~(t > current) PROVE FALSE
        OBVIOUS
      <3>2. t < current /\ t \in Nat
        BY <1>1, <1>4, <1>10, <3>1 DEF Threads
      <3>3. c + k >= n /\ t = lo + c + k - n
        BY <1>4, <1>10, <1>12, <3>2
      <3>4. PICK j \in 1 .. n - 1 : s = lo + c + j - n
        <4>1. s - (lo + c) + n \in 1 .. n - 1 /\ s = lo + c + (s - (lo + c) + n) - n
          BY <1>4, <1>13, <2>1, <3>2
        <4>2. QED
          BY <4>1
      <3>5. c + j >= n
        BY <1>4, <1>13, <3>4
      <3>6. after[j] = s
        BY <1>4, <1>7, <3>4, <3>5
      <3>7. k <= j
        BY <1>14, <3>6
      <3>8. QED
        BY <1>4, <1>10, <2>1, <3>3, <3>4, <3>7
    <2>4. QED
      BY <2>2, <2>3
  <1>17. QED
    BY <1>15, <1>16

\* A turn goes to a thread that has had the fewest, and leaves the batch in order.
LEMMA RoundTurn ==
  ASSUME TypeOK, ListInv, head # NULL, Rounds, NEW state \in [Threads -> States],
         NEW saved \in [Threads -> 0 .. MaxThreads],
         Schedule(state, saved) \/ Jump(state, saved),
         UNCHANGED <<created, ring, head>>,
         \A t \in Threads : t # current => state[t] = status[t]
  PROVE  /\ phase' = "run" => Rounds'
         /\ \A t \in Threads : turns'[t] # turns[t] =>
              /\ t <= created
              /\ \A s \in Threads : Waiting(s) => turns[s] >= turns[t]
PROOF
  <1>1. /\ created \in Nat /\ head \in Nat /\ current \in Threads /\ Threads \subseteq Nat
        /\ turns \in [Threads -> Nat] /\ head <= current
    <2>1. current # NULL /\ current \in 0 .. MaxThreads /\ head \in 0 .. MaxThreads
      BY DEF ListInv, TypeOK
    <2>2. current \in Threads /\ head \in Nat
      BY <2>1, BoundAssumption DEF Threads, NULL
    <2>3. QED
      BY <2>2, BoundAssumption DEF TypeOK, Rounds, Threads
  <1>2. CASE Strays(state, saved)
    BY <1>2 DEF Strays, Stop
  <1>3. ASSUME NEW t \in Created \cap Threads, t # current, Waiting(t), Candidate(t),
               Starts(t, state, saved) \/ Resumes(t, state, saved)
        PROVE  /\ Rounds'
               /\ \A u \in Threads : turns'[u] # turns[u] =>
                    /\ u <= created
                    /\ \A s \in Threads : Waiting(s) => turns[s] >= turns[u]
    <2>1. /\ current' = t /\ turns' = [turns EXCEPT ![t] = @ + 1]
          /\ status' = state \/ status' = [state EXCEPT ![t] = "running"]
      BY <1>3 DEF Starts, Resumes, GiveTurn
    <2>2. /\ turns'[t] = turns[t] + 1 /\ \A s \in Threads : s # t => turns'[s] = turns[s]
          /\ t \in Nat /\ t <= created
      BY <1>1, <2>1, t \in 1 .. created DEF Created
    <2>3. \A s \in Threads : Waiting(s) =>
            /\ s >= head
            /\ IF s > current THEN turns[s] + 1 = turns[current] ELSE turns[s] = turns[current]
      BY DEF Rounds
    <2>4. \A s \in Threads : Waiting(s) =>
            /\ s > current => (t > current /\ t <= s)
            /\ s < t => (t > current /\ s <= current)
      BY <1>3, FirstInRound
    <2>5. ASSUME NEW s \in Threads, Waiting(s) PROVE turns[s] >= turns[t]
      <3>1. CASE t > current
        BY <1>1, <1>3, <2>2, <2>3, <2>5, <3>1
      <3>2. CASE ~(t > current)
        <4>1. ~(s > current)
          BY <2>4, <2>5, <3>2
        <4>2. turns[s] = turns[current]
          BY <2>3, <2>5, <4>1
        <4>3. turns[t] = turns[current] /\ turns[current] \in Nat
          BY <1>1, <1>3, <2>3, <3>2
        <4>4. QED
          BY <4>2, <4>3
      <3>3. QED
        BY <3>1, <3>2
    <2>6. \A s \in Threads : s # current /\ s # t /\ Waiting(s)' => Waiting(s)
      BY <2>1 DEF Waiting
    <2>7. ASSUME NEW s \in Threads, Waiting(s)'
          PROVE  /\ s >= head
                 /\ IF s > t THEN turns'[s] + 1 = turns'[t] ELSE turns'[s] = turns'[t]
      <3>1. CASE s = t
        BY <1>1, <1>3, <2>2, <2>3, <3>1
      <3>2. CASE s = current
        <4>1. /\ s >= head /\ turns'[s] = turns[current]
              /\ turns[current] \in Nat /\ turns[t] \in Nat
          BY <1>1, <1>3, <2>2, <3>2
        <4>2. CASE t > current
          BY <1>1, <1>3, <2>2, <2>3, <3>2, <4>1, <4>2
        <4>3. CASE ~(t > current)
          BY <1>1, <1>3, <2>2, <2>3, <3>2, <4>1, <4>3
        <4>4. QED
          BY <4>2, <4>3
      <3>3. CASE s # t /\ s # current
        <4>1. Waiting(s)
          BY <2>6, <2>7, <3>3
        <4>2. /\ turns'[s] = turns[s] /\ turns[s] \in Nat /\ turns[t] \in Nat
              /\ turns[current] \in Nat /\ s \in Nat /\ current \in Nat
          BY <1>1, <2>2, <3>3
        <4>3. /\ s > current => (t > current /\ t <= s)
              /\ s < t => (t > current /\ s <= current)
          BY <2>4, <4>1
        <4>4. /\ s >= head
              /\ IF s > current THEN turns[s] + 1 = turns[current] ELSE turns[s] = turns[current]
          BY <2>3, <4>1
        <4>5. IF t > current THEN turns[t] + 1 = turns[current] ELSE turns[t] = turns[current]
          BY <1>3, <2>3
        <4>6. QED
          BY <2>2, <3>3, <4>2, <4>3, <4>4, <4>5
      <3>4. QED
        BY <3>1, <3>2, <3>3
    <2>8. Rounds'
      <3>1. t >= head /\ head' = head /\ created' = created /\ ring' = ring
        BY <1>3, <2>3
      <3>2. \A u \in head .. created : ring[u] = IF u = created THEN head ELSE u + 1
        BY DEF Rounds
      <3>3. QED
        BY <2>1, <2>7, <3>1, <3>2 DEF Rounds
    <2>9. \A u \in Threads : turns'[u] # turns[u] => u = t
      BY <2>2
    <2>10. QED
      BY <2>2, <2>5, <2>8, <2>9
  <1>4. QED
    BY <1>2, <1>3, Outcomes

\* What RoundRobin says of a step.
FewestFirst ==
  creators = {} =>
    \A t \in Threads : turns'[t] # turns[t] =>
      \A s \in Threads : Waiting(s) => turns[s] >= turns[t]

\* Every operation gives the turn to a thread that has had the fewest and keeps
\* the batch in order; the first execution leaves none behind.
LEMMA RoundInductive ==
  ASSUME MaxBatches <= 2, IInv, IInv', RoundInv, [Next]_vars
  PROVE  RoundInv' /\ FewestFirst
PROOF
  <1>1. /\ TypeOK /\ ListInv /\ FirstInv /\ MaxBatches \in Nat /\ executed \in Nat
        /\ created \in Nat /\ executed <= MaxBatches /\ turns \in [Threads -> Nat]
        /\ status \in [Threads -> States] /\ ctx \in [Threads -> 0 .. MaxThreads]
        /\ self \in 0 .. MaxThreads
    BY BoundAssumption DEF IInv, TypeOK, FirstInv, States
  <1>2. CASE UNCHANGED vars
    BY <1>2 DEF RoundInv, Orderly, Rounds, Waiting, FewestFirst, vars, lists
  <1>3. CASE Create
    <2>1. PICK t : t = created + 1
      OBVIOUS
    <2>2. /\ t \in Threads /\ t \in Nat /\ created' = t /\ current' = t /\ t # NULL
          /\ turns' = turns /\ executed' = executed /\ phase' = phase
          /\ status' = [status EXCEPT ![t] = "new"]
          /\ ring' = Link(t) /\ head' = IF head = NULL THEN t ELSE head
      BY <1>1, <1>3, <2>1, BoundAssumption DEF Create, Threads, NULL
    <2>3. FewestFirst
      BY <2>2 DEF FewestFirst
    <2>4. SUFFICES ASSUME Orderly' PROVE RoundInv'
      BY <2>3 DEF RoundInv
    <2>5. Orderly /\ phase = "main" /\ creators = {}
      BY <1>3, <2>2, <2>4 DEF Orderly, Create
    <2>6. /\ \A u \in Threads : u > created => turns[u] = 0
          /\ current = IF head = NULL THEN NULL ELSE created
          /\ head # NULL => \A u \in head .. created : turns[u] = 0
          /\ IF head = NULL THEN \A s \in Threads : ~Waiting(s) ELSE Rounds
      BY <2>5 DEF RoundInv
    <2>7. turns[t] = 0 /\ \A u \in Threads : u > t => turns[u] = 0
      BY <1>1, <2>1, <2>2, <2>6, BoundAssumption DEF Threads
    <2>8. \A s \in Threads : s # t /\ Waiting(s)' => Waiting(s)
      BY <1>1, <2>2 DEF Waiting
    <2>9. CASE head = NULL
      <3>1. head' = t /\ ring' = [ring EXCEPT ![t] = t]
        BY <2>2, <2>9 DEF Link
      <3>2. ring'[t] = t
        BY <1>1, <2>2, <3>1 DEF TypeOK
      <3>3. \A s \in Threads : Waiting(s)' => s = t
        BY <2>6, <2>8, <2>9
      <3>4. Rounds'
        <4>1. \A u \in head' .. created' : u = t
          BY <2>2, <3>1
        <4>2. QED
          BY <2>2, <3>1, <3>2, <3>3, <4>1 DEF Rounds
      <3>5. \A u \in head' .. created' : turns'[u] = 0
        BY <2>2, <2>7, <3>1
      <3>6. QED
        BY <2>2, <2>5, <2>7, <3>1, <3>4, <3>5 DEF RoundInv
    <2>10. CASE head # NULL
      <3>1. head' = head /\ ring' = [[ring EXCEPT ![t] = head] EXCEPT ![current] = t]
        BY <2>2, <2>10 DEF Link
      <3>2. /\ current = created /\ Rounds /\ head \in Nat /\ head <= created
            /\ created \in Threads /\ head >= 1
        <4>1. current = created /\ Rounds /\ head <= created
          BY <2>6, <2>10 DEF Rounds
        <4>2. head \in Created
          BY <1>1, <2>10 DEF ListInv
        <4>3. QED
          BY <1>1, <2>1, <2>2, <4>1, <4>2, BoundAssumption DEF Created, Threads
      <3>3. \A u \in Threads :
              ring'[u] = IF u = created THEN t ELSE IF u = t THEN head ELSE ring[u]
        BY <1>1, <2>2, <3>1, <3>2 DEF TypeOK
      <3>4. \A u \in head .. t : u \in Threads /\ (u = t \/ u \in head .. created)
        BY <1>1, <2>1, <2>2, <3>2, BoundAssumption DEF Threads
      <3>5. \A u \in head .. created : ring[u] = IF u = created THEN head ELSE u + 1
        BY <3>2 DEF Rounds
      <3>6. \A u \in head .. t : ring'[u] = IF u = t THEN head ELSE u + 1
        BY <1>1, <2>1, <3>2, <3>3, <3>4, <3>5
      <3>7. \A u \in head .. t : turns[u] = 0
        BY <2>6, <2>7, <2>10, <3>4
      <3>8. \A s \in Threads : Waiting(s)' => s \in head .. t
        <4>1. SUFFICES ASSUME NEW s \in Threads, Waiting(s)' PROVE s \in head .. t
          OBVIOUS
        <4>2. s \in Created' /\ Created' = 1 .. t
          <5>1. status'[s] = "none" <=> s \notin Created'
            BY DEF IInv, ListInv
          <5>2. QED
            BY <2>2, <4>1, <5>1 DEF Waiting, Created
        <4>3. s # t => s >= head
          BY <2>8, <3>2, <4>1 DEF Rounds
        <4>4. QED
          <5>1. t >= head /\ s \in Nat /\ s <= t
            BY <1>1, <2>1, <3>2, <4>2
          <5>2. QED
            BY <2>2, <3>2, <4>3, <5>1
      <3>9. Rounds'
        <4>1. \A s \in Threads : Waiting(s)' => s >= head /\ ~(s > t) /\ turns[s] = turns[t]
          <5>1. SUFFICES ASSUME NEW s \in Threads, Waiting(s)'
                         PROVE  s >= head /\ ~(s > t) /\ turns[s] = turns[t]
            OBVIOUS
          <5>2. s \in head .. t
            BY <3>8, <5>1
          <5>3. turns[s] = 0
            BY <3>7, <5>2
          <5>4. QED
            BY <2>2, <2>7, <3>2, <5>2, <5>3
        <4>2. head <= t
          BY <1>1, <2>1, <3>2
        <4>3. QED
          BY <2>2, <3>1, <3>6, <4>1, <4>2 DEF Rounds
      <3>10. QED
        BY <2>2, <2>5, <2>7, <2>10, <3>1, <3>7, <3>9 DEF RoundInv
    <2>11. QED
      BY <2>9, <2>10
  <1>4. ASSUME NEW state \in [Threads -> States], NEW saved \in [Threads -> 0 .. MaxThreads],
               Schedule(state, saved) \/ Jump(state, saved), UNCHANGED <<lists, creators>>,
               \A t \in Threads : t # current => state[t] = status[t],
               creators = {} => Orderly
        PROVE  RoundInv' /\ FewestFirst
    <2>1. created' = created /\ ring' = ring /\ head' = head /\ creators' = creators
      BY <1>4 DEF lists
    <2>2. phase' = "run" \/ phase' = "stopped"
      BY <1>4 DEF Schedule, Jump, GiveTurn, Stop
    <2>3. CASE creators # {}
      BY <2>1, <2>3 DEF RoundInv, Orderly, FewestFirst
    <2>4. CASE creators = {} /\ head = NULL
      <3>1. \A s \in Threads : ~Waiting(s)
        BY <1>4, <2>4 DEF RoundInv
      <3>2. Strays(state, saved)
        BY <1>1, <1>4, <3>1, Outcomes
      <3>3. QED
        BY <3>2 DEF Strays, Stop, RoundInv, Orderly, FewestFirst
    <2>5. CASE creators = {} /\ head # NULL
      <3>1. Rounds /\ \A t \in Threads : t > created => turns[t] = 0
        BY <1>4, <2>5 DEF RoundInv
      <3>2. /\ phase' = "run" => Rounds'
            /\ \A t \in Threads : turns'[t] # turns[t] =>
                 /\ t <= created
                 /\ \A s \in Threads : Waiting(s) => turns[s] >= turns[t]
        BY <1>1, <1>4, <2>1, <2>5, <3>1, RoundTurn
      <3>3. \A t \in Threads : t > created' => turns'[t] = 0
        <4>1. \A t \in Threads : t > created => ~(t <= created)
          BY <1>1, BoundAssumption DEF Threads
        <4>2. QED
          BY <2>1, <3>1, <3>2, <4>1
      <3>4. RoundInv'
        BY <2>1, <2>2, <2>5, <3>2, <3>3 DEF RoundInv, Orderly
      <3>5. QED
        BY <3>2, <3>4 DEF FewestFirst
    <2>6. QED
      BY <2>3, <2>4, <2>5
  <1>5. CASE Execute
    <2>1. /\ Schedule(status, ctx) /\ UNCHANGED <<lists, creators>>
          /\ phase = "main" /\ executed < 2
      BY <1>1, <1>5 DEF Execute
    <2>2. creators = {} => Orderly
      BY <2>1 DEF Orderly
    <2>3. QED
      BY <1>1, <1>4, <2>1, <2>2
  <1>6. phase = "run" /\ creators = {} => Orderly
    BY DEF Orderly
  <1>7. CASE Yield
    <2>1. PICK state, saved : /\ state = [status EXCEPT ![current] = "sleeping"]
                              /\ saved = [ctx EXCEPT ![current] = self]
      OBVIOUS
    <2>2. state \in [Threads -> States] /\ saved \in [Threads -> 0 .. MaxThreads]
      BY <1>1, <2>1 DEF States
    <2>3. /\ Schedule(state, saved) /\ UNCHANGED <<lists, creators>> /\ phase = "run"
          /\ \A t \in Threads : t # current => state[t] = status[t]
      BY <1>1, <1>7, <2>1 DEF Yield, Saved
    <2>4. QED
      BY <1>4, <1>6, <2>2, <2>3
  <1>8. CASE ReturnNext
    <2>1. PICK state : state = Terminate
      OBVIOUS
    <2>2. state \in [Threads -> States]
      BY <1>1, <2>1 DEF Terminate, States
    <2>3. /\ Jump(state, ctx) /\ UNCHANGED <<lists, creators>> /\ phase = "run"
          /\ \A t \in Threads : t # current => state[t] = status[t]
      BY <1>1, <1>8, <2>1 DEF ReturnNext, Return, Terminate, lists
    <2>4. QED
      BY <1>1, <1>4, <1>6, <2>2, <2>3
  <1>9. CASE ReturnLast
    <2>1. /\ phase' = "main" /\ phase = "run" /\ turns' = turns /\ executed' = executed
          /\ created' = created /\ creators' = creators
      BY <1>9 DEF ReturnLast, Return
    <2>2. FewestFirst
      BY <2>1 DEF FewestFirst
    <2>3. SUFFICES ASSUME Orderly' PROVE RoundInv'
      BY <2>2 DEF RoundInv
    <2>4. executed = 1
      <3>1. executed < 2 /\ executed # 0
        BY <1>1, <2>1, <2>3 DEF Orderly, FirstInv
      <3>2. QED
        BY <1>1, <3>1
    <2>5. (\A t \in Created : status'[t] = "terminated") /\ head' = NULL /\ current' = NULL
      BY <1>9, <2>4, FirstReturnsAll
    <2>6. \A s \in Threads : ~Waiting(s)'
      <3>1. \A t \in Threads : status'[t] = "none" <=> t \notin Created'
        BY DEF IInv, ListInv
      <3>2. Created' = Created
        BY <2>1 DEF Created
      <3>3. QED
        BY <2>5, <3>1, <3>2 DEF Waiting
    <2>7. \A t \in Threads : t > created' => turns'[t] = 0
      <3>1. Orderly
        BY <2>1, <2>3 DEF Orderly
      <3>2. QED
        BY <2>1, <3>1 DEF RoundInv
    <2>8. QED
      BY <2>1, <2>5, <2>6, <2>7 DEF RoundInv
  <1>10. QED
    BY <1>2, <1>3, <1>5, <1>7, <1>8, <1>9 DEF Next

\* In a program with at most two executions, every turn goes to a waiting thread
\* that has had the fewest, unless a thread creates another one.
THEOREM RoundRobinCorrect == ASSUME MaxBatches <= 2 PROVE Spec => RoundRobin
PROOF
  <1>1. Init => RoundInv
    BY BoundAssumption DEF Init, RoundInv, Orderly, Waiting
  <1>2. IInv /\ IInv' /\ RoundInv /\ [Next]_vars => RoundInv'
    BY RoundInductive
  <1>3. IInv /\ IInv' /\ RoundInv /\ [Next]_vars =>
          [creators = {} =>
             \A t \in Threads : turns'[t] # turns[t] =>
               \A s \in Threads : Waiting(s) => turns[s] >= turns[t]]_vars
    BY RoundInductive DEF FewestFirst
  <1>4. QED
    BY <1>1, <1>2, <1>3, InvCorrect, PTL DEF Spec, RoundRobin
=============================================================================
