------------------------ MODULE AgentSchedulerProofs ------------------------
(***************************************************************************)
(* The invariants and action properties of AgentScheduler hold for every   *)
(* set of agents, priorities and limits and any number of tasks.           *)
(*                                                                         *)
(* DispatchPending is the loop behind five of the eight actions.  What it  *)
(* guarantees is proved once, in DispatchCorrect, for any queue, slots and *)
(* counts that fit together; each action then has to show only that it     *)
(* starts the loop in such a state.                                        *)
(***************************************************************************)
EXTENDS AgentScheduler, FiniteSetTheorems, TLAPS

Exact(counts, running) ==
    \A a \in Agents : counts[a] = Cardinality(Of(running, a))

Fits(queue, running, counts) ==
    /\ queue \in SUBSET Tasks /\ IsFiniteSet(queue)
    /\ running \in SUBSET Tasks /\ IsFiniteSet(running)
    /\ queue \cap running = {}
    /\ counts \in [Agents -> Nat]
    /\ Exact(counts, running)

\* The tasks of one agent within a finite set are finite in number.
LEMMA OfFinite ==
    ASSUME NEW T, IsFiniteSet(T), NEW a
    PROVE  /\ IsFiniteSet(Of(T, a)) /\ Cardinality(Of(T, a)) \in Nat
           /\ Of(T, a) \subseteq T
<1>1. Of(T, a) \in SUBSET T
  BY DEF Of
<1>2. QED
  BY <1>1, FS_Subset, FS_CardinalityType

\* Slots of an agent add up when disjoint sets of tasks are merged.
LEMMA OfUnion ==
    ASSUME NEW S, IsFiniteSet(S), NEW T, IsFiniteSet(T), S \cap T = {}, NEW a
    PROVE  Cardinality(Of(S \cup T, a)) = Cardinality(Of(S, a)) + Cardinality(Of(T, a))
<1>1. Of(S \cup T, a) = Of(S, a) \cup Of(T, a)
  BY DEF Of
<1>2. Of(S, a) \cap Of(T, a) = {}
  BY DEF Of
<1>3. IsFiniteSet(Of(S, a)) /\ IsFiniteSet(Of(T, a))
       /\ Cardinality(Of(S, a)) \in Nat /\ Cardinality(Of(T, a)) \in Nat
  BY OfFinite
<1>4. Cardinality(Of(S, a) \cap Of(T, a)) = 0
  BY <1>2, FS_EmptySet, Zenon
<1>5. Cardinality(Of(S, a) \cup Of(T, a)) =
        Cardinality(Of(S, a)) + Cardinality(Of(T, a)) - Cardinality(Of(S, a) \cap Of(T, a))
  BY <1>3, FS_Union
<1>6. Cardinality(Of(S \cup T, a)) = Cardinality(Of(S, a) \cup Of(T, a))
  BY <1>1, Zenon
<1>7. QED
  BY <1>3, <1>4, <1>5, <1>6

\* A task that gives its slot back leaves counts that are exact again.
LEMMA DecrementedExact ==
    ASSUME NEW running, running \in SUBSET Tasks, IsFiniteSet(running),
           NEW counts \in [Agents -> Nat], Exact(counts, running),
           NEW t \in running
    PROVE  /\ Decremented(counts, t.agent_id) \in [Agents -> Nat]
           /\ Exact(Decremented(counts, t.agent_id), running \ {t})
<1> DEFINE a == t.agent_id
<1>1. a \in Agents
  BY DEF Tasks
<1>2. /\ IsFiniteSet(Of(running, a)) /\ Cardinality(Of(running, a)) \in Nat
  BY OfFinite
<1>3. Of(running \ {t}, a) = Of(running, a) \ {t} /\ t \in Of(running, a)
  BY DEF Of
<1>4. Cardinality(Of(running \ {t}, a)) = Cardinality(Of(running, a)) - 1
  <2>1. Cardinality(Of(running, a) \ {t}) = Cardinality(Of(running, a)) - 1
    BY <1>2, <1>3, FS_RemoveElement
  <2>2. Cardinality(Of(running \ {t}, a)) = Cardinality(Of(running, a) \ {t})
    BY <1>3, Zenon
  <2>3. QED
    BY <2>1, <2>2
<1>5. Cardinality(Of(running, a)) # 0
  BY <1>2, <1>3, FS_EmptySet
<1>6. Decremented(counts, a)[a] = Cardinality(Of(running \ {t}, a))
  <2>1. counts[a] = Cardinality(Of(running, a))
    BY <1>1 DEF Exact
  <2>2. Decremented(counts, a)[a] = IF counts[a] <= 1 THEN 0 ELSE counts[a] - 1
    BY <1>1 DEF Decremented
  <2>3. QED
    BY <2>1, <2>2, <1>2, <1>4, <1>5
<1>7. ASSUME NEW b \in Agents, b # a
      PROVE  Decremented(counts, a)[b] = Cardinality(Of(running \ {t}, b))
  <2>1. Of(running \ {t}, b) = Of(running, b)
    BY <1>7 DEF Of
  <2>2. Decremented(counts, a)[b] = counts[b]
    BY <1>7 DEF Decremented
  <2>3. QED
    BY <2>1, <2>2 DEF Exact
<1>8. Decremented(counts, a) \in [Agents -> Nat]
  BY <1>1 DEF Decremented
<1>9. QED
  BY <1>6, <1>7, <1>8 DEF Exact

-----------------------------------------------------------------------------
(* What the dispatch loop does to a queue, slots and counts that fit: it   *)
(* moves tasks from the queue to the slots and the pool, keeps the counts  *)
(* exact, stays within the limits, takes tasks in order, and leaves a      *)
(* queue behind only if some slot is held, unless it is paused or a limit  *)
(* is zero.                                                                *)
LEMMA DispatchCorrect ==
    ASSUME NEW queue, NEW running, NEW counts, Fits(queue, running, counts),
           NEW config \in Configs, NEW paused \in BOOLEAN,
           ConstantsAssumption,
           DispatchPending(queue, running, counts, config, paused)
    PROVE  /\ Fits(pending_tasks_', running_tasks_', agent_task_counts_')
           /\ \E D \in SUBSET queue :
                /\ pending_tasks_' = queue \ D
                /\ running_tasks_' = running \cup D
                /\ working' = working \cup D
                /\ \A t \in D :
                      /\ Cardinality(running_tasks_') <= config.max_concurrent_tasks
                      /\ Cardinality(Of(running_tasks_', t.agent_id))
                            <= config.max_per_agent_tasks
                      /\ \A u \in pending_tasks_' : ~Before(u, t)
           /\ pending_tasks_' # {} /\ ~paused /\ config.max_concurrent_tasks > 0
                /\ config.max_per_agent_tasks > 0 => running_tasks_' # {}
<1>1. PICK D \in SUBSET queue :
        /\ IF paused THEN D = {} ELSE LoopTakes(D, queue, running, counts, config)
        /\ pending_tasks_' = queue \ D
        /\ running_tasks_' = running \cup D
        /\ agent_task_counts_' = [a \in Agents |-> counts[a] + Cardinality(Of(D, a))]
        /\ working' = working \cup D
  BY DEF DispatchPending
<1>2. IsFiniteSet(queue \ D) /\ IsFiniteSet(D) /\ D \cap running = {}
  <2>1. queue \ D \in SUBSET queue
    OBVIOUS
  <2>2. QED
    BY <2>1, FS_Subset DEF Fits
<1>3. IsFiniteSet(running \cup D)
      /\ Cardinality(running \cup D) = Cardinality(running) + Cardinality(D)
  <2>1. IsFiniteSet(running) /\ Cardinality(running) \in Nat /\ Cardinality(D) \in Nat
    BY <1>2, FS_CardinalityType DEF Fits
  <2>2. running \cap D = {}
    BY <1>2
  <2>3. IsFiniteSet(running \cup D) /\ Cardinality(running \cup D) =
            Cardinality(running) + Cardinality(D) - Cardinality(running \cap D)
    BY <2>1, <1>2, FS_Union
  <2>4. Cardinality(running \cap D) = 0
    BY <2>2, FS_EmptySet, Zenon
  <2>5. QED
    BY <2>1, <2>3, <2>4
<1>4. ASSUME NEW a \in Agents
      PROVE  /\ agent_task_counts_'[a] = Cardinality(Of(running_tasks_', a))
             /\ agent_task_counts_'[a] = counts[a] + Cardinality(Of(D, a))
             /\ counts[a] \in Nat /\ Cardinality(Of(D, a)) \in Nat
  <2>1. Cardinality(Of(running \cup D, a)) =
            Cardinality(Of(running, a)) + Cardinality(Of(D, a))
    BY <1>2, OfUnion DEF Fits
  <2>2. counts[a] = Cardinality(Of(running, a)) /\ counts[a] \in Nat
    BY DEF Fits, Exact
  <2>3. Cardinality(Of(D, a)) \in Nat
    BY <1>2, OfFinite
  <2>4. agent_task_counts_'[a] = counts[a] + Cardinality(Of(D, a))
    BY <1>1
  <2>5. QED
    BY <1>1, <2>1, <2>2, <2>3, <2>4
<1>5. Fits(pending_tasks_', running_tasks_', agent_task_counts_')
  <2>1. agent_task_counts_' \in [Agents -> Nat]
    <3>1. \A a \in Agents : counts[a] + Cardinality(Of(D, a)) \in Nat
      BY <1>4
    <3>2. QED
      BY <1>1, <3>1
  <2>2. Exact(agent_task_counts_', running_tasks_')
    BY <1>4 DEF Exact
  <2>3. QED
    BY <2>1, <2>2, <1>1, <1>2, <1>3 DEF Fits
<1>6. ASSUME NEW t \in D
      PROVE  /\ Cardinality(running_tasks_') <= config.max_concurrent_tasks
             /\ Cardinality(Of(running_tasks_', t.agent_id)) <= config.max_per_agent_tasks
             /\ \A u \in pending_tasks_' : ~Before(u, t)
  <2>1. LoopTakes(D, queue, running, counts, config) /\ D # {}
    BY <1>1, <1>6
  <2>2. t.agent_id \in Agents
    BY DEF Fits, Tasks
  <2>3. Cardinality(running) + Cardinality(D) <= config.max_concurrent_tasks
    BY <2>1 DEF LoopTakes
  <2>4. counts[t.agent_id] + Cardinality(Of(D, t.agent_id)) <= config.max_per_agent_tasks
    BY <2>1 DEF LoopTakes
  <2>5. \A u \in queue \ D : ~Before(u, t)
    BY <2>1 DEF LoopTakes
  <2>6. QED
    BY <1>1, <1>3, <1>4, <2>2, <2>3, <2>4, <2>5
<1>7. ASSUME pending_tasks_' # {}, ~paused, config.max_concurrent_tasks > 0,
             config.max_per_agent_tasks > 0, running_tasks_' = {}
      PROVE  FALSE
  <2>1. D = {} /\ running = {} /\ queue # {}
    BY <1>1, <1>7
  <2>2. LoopTakes(D, queue, running, counts, config)
    BY <1>1, <1>7
  <2>3. Cardinality(running) = 0 /\ Cardinality(D) = 0
    BY <2>1, FS_EmptySet
  <2>4. ASSUME NEW a \in Agents
        PROVE  counts[a] + Cardinality(Of(D, a)) = 0
    <3>1. Of(running, a) = {} /\ Of(D, a) = {}
      BY <2>1 DEF Of
    <3>2. counts[a] = Cardinality(Of(running, a))
      BY DEF Fits, Exact
    <3>3. QED
      BY <3>1, <3>2, FS_EmptySet
  <2>5. config.max_concurrent_tasks \in Nat /\ config.max_per_agent_tasks \in Nat
    BY DEF Configs, ConstantsAssumption
  <2>6. \A t \in queue : t.agent_id \in Agents
    BY DEF Fits, Tasks
  <2>7. ~(Cardinality(running) + Cardinality(D) >= config.max_concurrent_tasks)
    BY <2>3, <2>5, <1>7
  <2>8. \A t \in queue \ D :
            ~(counts[t.agent_id] + Cardinality(Of(D, t.agent_id))
                    >= config.max_per_agent_tasks)
    BY <2>4, <2>5, <2>6, <1>7
  <2>9. QED
    BY <2>1, <2>2, <2>7, <2>8 DEF LoopTakes
<1>8. QED
  BY <1>1, <1>5, <1>6, <1>7
-----------------------------------------------------------------------------
(* Accounting of ids: one task scheduled, completed, or cancelled.         *)

\* A task with the next id joins the live tasks.
LEMMA AccountedAdd ==
    ASSUME NEW L, NEW n \in Nat \ {0}, NEW d, NEW c, NEW t, t.id = n,
           Accounted(L, n, d, c)
    PROVE  Accounted(L \cup {t}, n + 1, d, c)
<1> SUFFICES ASSUME NEW m, m = n + 1 PROVE Accounted(L \cup {t}, m, d, c)
  OBVIOUS
<1>1. Ids(L \cup {t}) = Ids(L) \cup {n}
  BY DEF Ids
<1>2. 1..(m - 1) = (1..(n - 1)) \cup {n} /\ n \notin 1..(n - 1)
  OBVIOUS
<1>3. \A u \in L : u.id \in 1..(n - 1)
  BY DEF Accounted, Ids
<1>4. 1..(m - 1) = Ids(L \cup {t}) \cup d \cup c
  BY <1>1, <1>2 DEF Accounted
<1>5. Ids(L \cup {t}) \cap (d \cup c) = {} /\ d \cap c = {}
  <2>1. d \cup c \subseteq 1..(n - 1)
    BY DEF Accounted
  <2>2. n \notin d \cup c
    BY <1>2, <2>1
  <2>3. Ids(L) \cap (d \cup c) = {} /\ d \cap c = {}
    BY Zenon DEF Accounted
  <2>4. (Ids(L) \cup {n}) \cap (d \cup c) = {}
    BY <2>2, <2>3
  <2>5. QED
    BY <1>1, <2>3, <2>4
<1>6. \A u, v \in L \cup {t} : u.id = v.id => u = v
  BY <1>2, <1>3 DEF Accounted
<1>7. QED
  BY <1>4, <1>5, <1>6, Zenon DEF Accounted

\* A live task leaves to the done or to the cancelled.
LEMMA AccountedRemove ==
    ASSUME NEW L, NEW n, NEW d, NEW c, NEW t \in L, Accounted(L, n, d, c)
    PROVE  /\ Accounted(L \ {t}, n, d \cup {t.id}, c)
           /\ Accounted(L \ {t}, n, d, c \cup {t.id})
<1>0. Ids(L) \cap (d \cup c) = {} /\ d \cap c = {}
  BY DEF Accounted
<1>1. Ids(L) = Ids(L \ {t}) \cup {t.id} /\ t.id \notin Ids(L \ {t})
  BY DEF Ids, Accounted
<1>2. t.id \notin d /\ t.id \notin c
  BY <1>1 DEF Accounted
<1>3. \A u, v \in L \ {t} : u.id = v.id => u = v
  BY DEF Accounted
<1>4. Accounted(L \ {t}, n, d \cup {t.id}, c)
  <2>1. 1..(n - 1) = Ids(L \ {t}) \cup (d \cup {t.id}) \cup c
    BY <1>1 DEF Accounted
  <2>2. Ids(L \ {t}) \cap ((d \cup {t.id}) \cup c) = {} /\ (d \cup {t.id}) \cap c = {}
    BY <1>0, <1>1, <1>2
  <2>3. QED
    BY <1>3, <2>1, <2>2, Zenon DEF Accounted
<1>5. Accounted(L \ {t}, n, d, c \cup {t.id})
  <2>1. 1..(n - 1) = Ids(L \ {t}) \cup d \cup (c \cup {t.id})
    BY <1>1 DEF Accounted
  <2>2. Ids(L \ {t}) \cap (d \cup (c \cup {t.id})) = {} /\ d \cap (c \cup {t.id}) = {}
    BY <1>0, <1>1, <1>2
  <2>3. QED
    BY <1>3, <2>1, <2>2, Zenon DEF Accounted
<1>6. QED
  BY <1>4, <1>5

-----------------------------------------------------------------------------
(* The inductive invariant.  CountsAreExact is what lets the loop's test   *)
(* of the counts stand for a test of the slots, SlotsAreBusy is what makes *)
(* a completing task the holder of a slot, and NoTaskLost makes the id of  *)
(* a new task fresh, so that it is in no slot.                             *)
IInv == TypeOK /\ SlotsAreBusy /\ CountsAreExact /\ NoTaskLost /\ QueueHasDriver

\* The current state is one from which the dispatch loop can be started.
LEMMA IInvFits ==
    ASSUME IInv
    PROVE  Fits(pending_tasks_, running_tasks_, agent_task_counts_)
  BY DEF IInv, TypeOK, SlotsAreBusy, CountsAreExact, Fits, Exact

\* The empty scheduler satisfies the invariant.
LEMMA InitIInv == Init => IInv
<1> SUFFICES ASSUME Init PROVE IInv
  OBVIOUS
<1>1. TypeOK
  <2>1. IsFiniteSet(pending_tasks_) /\ IsFiniteSet(running_tasks_)
    BY FS_EmptySet, Zenon DEF Init
  <2>2. agent_task_counts_ \in [Agents -> Nat]
    BY DEF Init
  <2>3. next_task_id_ \in Nat \ {0} /\ now \in Nat
    BY DEF Init
  <2>4. QED
    BY <2>1, <2>2, <2>3, Zenon DEF Init, TypeOK
<1>2. SlotsAreBusy /\ QueueHasDriver
  BY DEF Init, SlotsAreBusy, QueueHasDriver
<1>3. CountsAreExact
  <2>1. ASSUME NEW a \in Agents PROVE Cardinality(Of(running_tasks_, a)) = 0
    <3>1. Of(running_tasks_, a) = {}
      BY DEF Init, Of
    <3>2. QED
      BY <3>1, FS_EmptySet, Zenon
  <2>2. QED
    BY <2>1 DEF Init, CountsAreExact
<1>4. NoTaskLost
  BY DEF Init, NoTaskLost, Accounted, Ids
<1>5. QED
  BY <1>1, <1>2, <1>3, <1>4 DEF IInv

(* An action that ends with the dispatch loop keeps the invariant if it    *)
(* starts the loop with a queue, slots and counts that fit, and if the     *)
(* slots are those of the three stages and all ids are accounted for; what *)
(* it starts is within the limits and in order.                            *)
LEMMA DispatchStep ==
    ASSUME NEW queue, NEW running, NEW counts, Fits(queue, running, counts),
           config_' \in Configs, paused_' \in BOOLEAN,
           DispatchPending(queue, running, counts, config_', paused_'),
           running = working \cup replying' \cup completing',
           working \cap replying' = {}, working \cap completing' = {},
           replying' \cap completing' = {},
           Accounted(queue \cup running, next_task_id_', done', cancelled'),
           next_task_id_' \in Nat \ {0}, now' \in Nat,
           done' \in SUBSET Nat, cancelled' \in SUBSET Nat
    PROVE  /\ IInv'
           /\ \A t \in running_tasks_' \ running :
                /\ Cardinality(running_tasks_') <= config_'.max_concurrent_tasks
                /\ Cardinality(Of(running_tasks_', t.agent_id))
                        <= config_'.max_per_agent_tasks
                /\ \A u \in pending_tasks_' : ~Before(u, t)
<1>1. /\ Fits(pending_tasks_', running_tasks_', agent_task_counts_')
      /\ \E D \in SUBSET queue :
            /\ pending_tasks_' = queue \ D
            /\ running_tasks_' = running \cup D
            /\ working' = working \cup D
            /\ \A t \in D :
                  /\ Cardinality(running_tasks_') <= config_'.max_concurrent_tasks
                  /\ Cardinality(Of(running_tasks_', t.agent_id))
                        <= config_'.max_per_agent_tasks
                  /\ \A u \in pending_tasks_' : ~Before(u, t)
      /\ pending_tasks_' # {} /\ ~paused_' /\ config_'.max_concurrent_tasks > 0
            /\ config_'.max_per_agent_tasks > 0 => running_tasks_' # {}
  BY DispatchCorrect, ConstantsAssumption
<1>2. PICK D \in SUBSET queue :
        /\ pending_tasks_' = queue \ D
        /\ running_tasks_' = running \cup D
        /\ working' = working \cup D
        /\ \A t \in D :
              /\ Cardinality(running_tasks_') <= config_'.max_concurrent_tasks
              /\ Cardinality(Of(running_tasks_', t.agent_id))
                    <= config_'.max_per_agent_tasks
              /\ \A u \in pending_tasks_' : ~Before(u, t)
  BY <1>1
<1>3. SlotsAreBusy'
  BY <1>2 DEF SlotsAreBusy, Fits
<1>4. TypeOK'
  <2>1. working' \subseteq running_tasks_' /\ replying' \subseteq running_tasks_'
        /\ completing' \subseteq running_tasks_'
    BY <1>3 DEF SlotsAreBusy
  <2>2. /\ pending_tasks_' \in SUBSET Tasks /\ IsFiniteSet(pending_tasks_')
        /\ running_tasks_' \in SUBSET Tasks /\ IsFiniteSet(running_tasks_')
        /\ agent_task_counts_' \in [Agents -> Nat]
    BY <1>1 DEF Fits
  <2>3. working' \in SUBSET Tasks /\ replying' \in SUBSET Tasks
        /\ completing' \in SUBSET Tasks
    BY <2>1, <2>2
  <2>4. QED
    BY <2>2, <2>3, Zenon DEF TypeOK
<1>5. CountsAreExact'
  BY <1>1 DEF Fits, Exact, CountsAreExact
<1>6. NoTaskLost'
  <2>1. pending_tasks_' \cup running_tasks_' = queue \cup running
    BY <1>2
  <2>2. QED
    BY <2>1, Zenon DEF NoTaskLost
<1>7. QueueHasDriver'
  BY <1>1 DEF QueueHasDriver
<1>8. QED
  BY <1>2, <1>3, <1>4, <1>5, <1>6, <1>7 DEF IInv

\* What an action may start: tasks within the limits, in the queue's order.
GoodStarts ==
    \A t \in running_tasks_' \ running_tasks_ :
        /\ Cardinality(running_tasks_') <= config_'.max_concurrent_tasks
        /\ Cardinality(Of(running_tasks_', t.agent_id)) <= config_'.max_per_agent_tasks
        /\ \A u \in pending_tasks_' : ~Before(u, t)

\* Every step keeps the invariant and starts only what it may.
LEMMA NextIInv ==
    ASSUME IInv, [Next]_vars
    PROVE  IInv' /\ GoodStarts
<1> USE DEF IInv
<1>f. Fits(pending_tasks_, running_tasks_, agent_task_counts_)
  BY IInvFits
<1>s. running_tasks_ = working \cup replying \cup completing
      /\ working \cap replying = {} /\ working \cap completing = {}
      /\ replying \cap completing = {} /\ pending_tasks_ \cap running_tasks_ = {}
  BY DEF SlotsAreBusy
<1>1. ASSUME NEW a \in Agents, NEW p \in Priorities, ScheduleTask(a, p)
      PROVE  IInv' /\ GoodStarts
  <2> DEFINE task == [id |-> next_task_id_, agent_id |-> a, priority |-> p,
                      queued_at |-> now']
             queue == pending_tasks_ \cup {task}
  <2>1. /\ DispatchPending(queue, running_tasks_, agent_task_counts_, config_', paused_')
        /\ config_' \in Configs /\ paused_' \in BOOLEAN
        /\ replying' = replying /\ completing' = completing
        /\ next_task_id_' = next_task_id_ + 1 /\ now' \in Nat
        /\ done' = done /\ cancelled' = cancelled
    BY <1>1 DEF ScheduleTask, TypeOK
  <2>2. task \in Tasks /\ task.id = next_task_id_
    BY <2>1 DEF Tasks, TypeOK
  <2>3. task \notin running_tasks_
    <3>1. \A t \in running_tasks_ : t.id \in 1..(next_task_id_ - 1)
      BY DEF NoTaskLost, Accounted, Ids
    <3>2. QED
      BY <3>1, <2>2 DEF TypeOK
  <2>4. Fits(queue, running_tasks_, agent_task_counts_)
    <3>1. IsFiniteSet(queue)
      BY <1>f, FS_AddElement DEF Fits
    <3>2. QED
      BY <1>f, <2>2, <2>3, <3>1 DEF Fits
  <2>5. Accounted(queue \cup running_tasks_, next_task_id_', done', cancelled')
    <3>1. Accounted((pending_tasks_ \cup running_tasks_) \cup {task},
                    next_task_id_ + 1, done, cancelled)
      BY <2>2, AccountedAdd DEF NoTaskLost, TypeOK
    <3>2. (pending_tasks_ \cup running_tasks_) \cup {task} = queue \cup running_tasks_
      OBVIOUS
    <3>3. QED
      BY <2>1, <3>1, <3>2, Zenon
  <2>6. /\ next_task_id_' \in Nat \ {0}
        /\ done' \in SUBSET Nat /\ cancelled' \in SUBSET Nat
    BY <2>1 DEF TypeOK
  <2> HIDE DEF queue, task
  <2>7. QED
    BY <1>s, <2>1, <2>4, <2>5, <2>6, DispatchStep DEF GoodStarts
<1>2. ASSUME NEW t \in pending_tasks_, CancelTask(t)
      PROVE  IInv' /\ GoodStarts
  <2>1. pending_tasks_' = pending_tasks_ \ {t}
    BY <1>2 DEF CancelTask, NoTaskLost, Accounted
  <2>2. UNCHANGED <<running_tasks_, agent_task_counts_, paused_, config_,
                    next_task_id_, now, working, replying, completing, done>>
        /\ cancelled' = cancelled \cup {t.id}
    BY <1>2 DEF CancelTask, pool
  <2>3. TypeOK'
    <3>1. IsFiniteSet(pending_tasks_ \ {t})
      BY FS_RemoveElement DEF TypeOK
    <3>2. IsFiniteSet(pending_tasks_')
      BY <2>1, <3>1, Zenon
    <3>3. pending_tasks_' \in SUBSET Tasks
      BY <2>1 DEF TypeOK
    <3>4. cancelled' \in SUBSET Nat
      BY <2>2 DEF TypeOK, Tasks
    <3>5. QED
      BY <2>2, <3>2, <3>3, <3>4, Zenon DEF TypeOK
  <2>4. SlotsAreBusy' /\ QueueHasDriver'
    BY <2>1, <2>2 DEF SlotsAreBusy, QueueHasDriver
  <2>5. CountsAreExact'
    BY <2>2, Zenon DEF CountsAreExact
  <2>6. NoTaskLost'
    <3>1. pending_tasks_' \cup running_tasks_' = (pending_tasks_ \cup running_tasks_) \ {t}
      BY <1>s, <2>1, <2>2
    <3>2. Accounted((pending_tasks_ \cup running_tasks_) \ {t}, next_task_id_, done,
                    cancelled \cup {t.id})
      BY AccountedRemove DEF NoTaskLost
    <3>3. QED
      BY <2>2, <3>1, <3>2, Zenon DEF NoTaskLost
  <2>7. GoodStarts
    BY <2>2 DEF GoodStarts
  <2>8. QED
    BY <2>3, <2>4, <2>5, <2>6, <2>7
<1>3. ASSUME Pause
      PROVE  IInv' /\ GoodStarts
  BY <1>3 DEF Pause, pool, TypeOK, SlotsAreBusy, CountsAreExact, NoTaskLost,
              QueueHasDriver, GoodStarts
<1>4. ASSUME Resume
      PROVE  IInv' /\ GoodStarts
  <2>1. /\ DispatchPending(pending_tasks_, running_tasks_, agent_task_counts_, config_', paused_')
        /\ config_' \in Configs /\ paused_' \in BOOLEAN
        /\ replying' = replying /\ completing' = completing
        /\ next_task_id_' = next_task_id_ /\ now' = now
        /\ done' = done /\ cancelled' = cancelled
    BY <1>4 DEF Resume, TypeOK
  <2>2. Accounted(pending_tasks_ \cup running_tasks_, next_task_id_', done', cancelled')
    BY <2>1, Zenon DEF NoTaskLost
  <2>3. next_task_id_' \in Nat \ {0} /\ now' \in Nat
        /\ done' \in SUBSET Nat /\ cancelled' \in SUBSET Nat
    BY <2>1 DEF TypeOK
  <2>4. QED
    BY <1>f, <1>s, <2>1, <2>2, <2>3, DispatchStep DEF GoodStarts
<1>5. ASSUME NEW config \in Configs, SetConfig(config)
      PROVE  IInv' /\ GoodStarts
  <2>1. /\ DispatchPending(pending_tasks_, running_tasks_, agent_task_counts_, config_', paused_')
        /\ config_' \in Configs /\ paused_' \in BOOLEAN
        /\ replying' = replying /\ completing' = completing
        /\ next_task_id_' = next_task_id_ /\ now' = now
        /\ done' = done /\ cancelled' = cancelled
    BY <1>5 DEF SetConfig, TypeOK
  <2>2. Accounted(pending_tasks_ \cup running_tasks_, next_task_id_', done', cancelled')
    BY <2>1, Zenon DEF NoTaskLost
  <2>3. next_task_id_' \in Nat \ {0} /\ now' \in Nat
        /\ done' \in SUBSET Nat /\ cancelled' \in SUBSET Nat
    BY <2>1 DEF TypeOK
  <2>4. QED
    BY <1>f, <1>s, <2>1, <2>2, <2>3, DispatchStep DEF GoodStarts
<1>6. ASSUME NEW t \in working, RunWork(t)
      PROVE  IInv' /\ GoodStarts
  <2>1. SlotsAreBusy'
    BY <1>6, <1>s DEF RunWork, SlotsAreBusy
  <2>2. QED
    BY <1>6, <2>1 DEF RunWork, TypeOK, CountsAreExact, NoTaskLost, QueueHasDriver, GoodStarts
<1>7. ASSUME NEW t \in replying, RunOnComplete(t)
      PROVE  IInv' /\ GoodStarts
  <2>1. SlotsAreBusy'
    BY <1>7, <1>s DEF RunOnComplete, SlotsAreBusy
  <2>2. QED
    BY <1>7, <2>1 DEF RunOnComplete, TypeOK, CountsAreExact, NoTaskLost, QueueHasDriver,
                      GoodStarts
<1>8. ASSUME NEW t \in completing, OnTaskComplete(t)
      PROVE  IInv' /\ GoodStarts
  <2> DEFINE running == running_tasks_ \ {t}
             counts == Decremented(agent_task_counts_, t.agent_id)
  <2>1. /\ DispatchPending(pending_tasks_, running, counts, config_', paused_')
        /\ config_' \in Configs /\ paused_' \in BOOLEAN
        /\ replying' = replying /\ completing' = completing \ {t}
        /\ next_task_id_' = next_task_id_ /\ now' = now
        /\ done' = done \cup {t.id} /\ cancelled' = cancelled
    BY <1>8 DEF OnTaskComplete, TypeOK
  <2>2. t \in running_tasks_ /\ t \in Tasks
    BY <1>s DEF TypeOK
  <2>3. Fits(pending_tasks_, running, counts)
    <3>1. IsFiniteSet(running)
      BY FS_RemoveElement DEF TypeOK
    <3>2. counts \in [Agents -> Nat] /\ Exact(counts, running)
      BY <1>f, <2>2, DecrementedExact DEF Fits
    <3>3. QED
      BY <1>f, <3>1, <3>2 DEF Fits
  <2>4. running = working \cup replying' \cup completing' /\ working \cap replying' = {}
        /\ working \cap completing' = {} /\ replying' \cap completing' = {}
    BY <1>s, <2>1
  <2>5. Accounted(pending_tasks_ \cup running, next_task_id_', done', cancelled')
    <3>1. Accounted((pending_tasks_ \cup running_tasks_) \ {t}, next_task_id_,
                    done \cup {t.id}, cancelled)
      BY <2>2, AccountedRemove DEF NoTaskLost
    <3>2. (pending_tasks_ \cup running_tasks_) \ {t} = pending_tasks_ \cup running
      BY <1>s, <2>2
    <3>3. QED
      BY <2>1, <3>1, <3>2, Zenon
  <2>6. next_task_id_' \in Nat \ {0} /\ now' \in Nat
        /\ done' \in SUBSET Nat /\ cancelled' \in SUBSET Nat
    BY <2>1, <2>2 DEF TypeOK, Tasks
  <2>7. running_tasks_' \ running_tasks_ \subseteq running_tasks_' \ running
    OBVIOUS
  <2> HIDE DEF running, counts
  <2>8. QED
    BY <2>1, <2>3, <2>4, <2>5, <2>6, <2>7, DispatchStep DEF GoodStarts
<1>9. ASSUME UNCHANGED vars
      PROVE  IInv' /\ GoodStarts
  BY <1>9 DEF vars, pool, TypeOK, SlotsAreBusy, CountsAreExact, NoTaskLost,
              QueueHasDriver, GoodStarts
<1>10. QED
  BY <1>1, <1>2, <1>3, <1>4, <1>5, <1>6, <1>7, <1>8, <1>9 DEF Next
-----------------------------------------------------------------------------
(* The inductive invariant holds in every reachable state of the           *)
(* scheduler, whatever the embedder calls and however the pool interleaves *)
(* the tasks.                                                              *)
THEOREM Invariance == Spec => []IInv
<1>1. Init => IInv
  BY InitIInv
<1>2. IInv /\ [Next]_vars => IInv'
  BY NextIInv
<1>3. QED
  BY <1>1, <1>2, PTL DEF Spec

\* The variables keep their types: agent_task_counts_ never underflows.
THEOREM TypeCorrect == Spec => []TypeOK
<1>1. IInv => TypeOK
  BY DEF IInv
<1>2. QED
  BY <1>1, Invariance, PTL

(* The counts the dispatch loop tests are the slots the agents hold, and a *)
(* slot is held by exactly the tasks in the pool or in their reply.        *)
THEOREM BookkeepingExact == Spec => []Bookkeeping
<1>1. IInv => Bookkeeping
  BY DEF IInv, Bookkeeping
<1>2. QED
  BY <1>1, Invariance, PTL

\* Every id that ScheduleTask handed out is accounted for exactly once.
THEOREM TasksAccounted == Spec => []NoTaskLost
<1>1. IInv => NoTaskLost
  BY DEF IInv
<1>2. QED
  BY <1>1, Invariance, PTL

(* A queue that may be served is never left without a running task to      *)
(* drive it, although CancelTask does not dispatch.                        *)
THEOREM QueueDriven == Spec => []QueueHasDriver
<1>1. IInv => QueueHasDriver
  BY DEF IInv
<1>2. QED
  BY <1>1, Invariance, PTL

\* DispatchPending starts no task beyond the limits in force.
THEOREM LimitsRespected == Spec => StartsWithinLimits
<1> DEFINE A == \A t \in running_tasks_' \ running_tasks_ :
                  /\ Cardinality(running_tasks_') <= config_'.max_concurrent_tasks
                  /\ Cardinality(Of(running_tasks_', t.agent_id))
                        <= config_'.max_per_agent_tasks
<1>1. IInv /\ [Next]_vars => [A]_vars
  BY NextIInv DEF GoodStarts
<1>2. QED
  BY <1>1, Invariance, PTL DEF Spec, StartsWithinLimits

\* DispatchPending starts tasks in the comparator's order.
THEOREM OrderRespected == Spec => StartsInOrder
<1> DEFINE A == \A t \in running_tasks_' \ running_tasks_, u \in pending_tasks_' :
                  ~Before(u, t)
<1>1. IInv /\ [Next]_vars => [A]_vars
  BY NextIInv DEF GoodStarts
<1>2. QED
  BY <1>1, Invariance, PTL DEF Spec, StartsInOrder
=============================================================================
