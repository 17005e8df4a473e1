--------------------------- MODULE AgentScheduler ---------------------------
(***************************************************************************)
(* CefAgentScheduler (libcef/browser/agent_scheduler.cc): a priority queue *)
(* of tasks that are posted to the thread pool within a global and a       *)
(* per-agent limit.                                                        *)
(*                                                                         *)
(* Every method holds lock_, so it is one action; the dispatch loop that   *)
(* most of them end with is part of it.  The work of a task, the           *)
(* on_complete closure of its reply and the OnTaskComplete behind it run   *)
(* without the lock and are actions of their own.                          *)
(***************************************************************************)
EXTENDS Integers, FiniteSets

CONSTANTS
    Agents,      \* agent ids
    Priorities,  \* numeric values of the enum Priority
    Limits,      \* values a configuration may give its two limits
    MaxTasks     \* bound: number of ScheduleTask calls

ASSUME ConstantsAssumption ==
    Priorities \subseteq Nat /\ Limits \subseteq Nat /\ MaxTasks \in Nat

Configs == [max_concurrent_tasks : Limits, max_per_agent_tasks : Limits]
Tasks == [id : Nat, agent_id : Agents, priority : Priorities, queued_at : Nat]

VARIABLES
    pending_tasks_,      \* the tasks in the priority queue
    running_tasks_,      \* the tasks that hold a slot
    agent_task_counts_,  \* slots held by each agent; 0 when the map has no entry
    paused_, config_, next_task_id_,
    now,                 \* base::TimeTicks::Now()
    working,             \* tasks whose work is queued or runs in the thread pool
    replying,            \* tasks whose reply is posted but has not run
    completing,          \* tasks whose on_complete has run, OnTaskComplete has not
    done, cancelled      \* history: ids that have left the scheduler

pool == <<working, replying, completing>>
vars == <<pending_tasks_, running_tasks_, agent_task_counts_, paused_, config_,
          next_task_id_, now, pool, done, cancelled>>

Of(T, a) == {t \in T : t.agent_id = a}

\* TaskComparator: t is taken before u.  Tasks of one priority that were
\* queued in the same tick are in no particular order.
Before(t, u) ==
    \/ t.priority > u.priority
    \/ t.priority = u.priority /\ t.queued_at < u.queued_at

-----------------------------------------------------------------------------
\* Mutant: the per-agent count is read once, before the loop.
LoopTakesStaleCount(D, queue, running, counts, config) ==
    LET rest == queue \ D
        slots == Cardinality(running) + Cardinality(D)
    IN  /\ \A t \in D, u \in rest : ~Before(u, t)
        /\ D # {} => slots <= config.max_concurrent_tasks
        /\ \A t \in D : counts[t.agent_id] < config.max_per_agent_tasks
        /\ \/ rest = {}
           \/ slots >= config.max_concurrent_tasks
           \/ \E t \in rest :
                /\ \A u \in rest : ~Before(u, t)
                /\ counts[t.agent_id] >= config.max_per_agent_tasks

\* Mutant: tasks of an agent at its limit are skipped over.
LoopTakesSkipping(D, queue, running, counts, config) ==
    LET rest == queue \ D
        slots == Cardinality(running) + Cardinality(D)
        count(a) == counts[a] + Cardinality(Of(D, a))
    IN  /\ \A t \in D, u \in rest : u.agent_id = t.agent_id => ~Before(u, t)
        /\ D # {} => slots <= config.max_concurrent_tasks
        /\ \A t \in D : count(t.agent_id) <= config.max_per_agent_tasks
        /\ \/ slots >= config.max_concurrent_tasks
           \/ \A t \in rest : count(t.agent_id) >= config.max_per_agent_tasks

(* The while loop of DispatchPending, started with this queue, these slots *)
(* and these counts, moves exactly the tasks D out of the queue: they are  *)
(* on top of it, each found both limits free, and the loop stopped because *)
(* the queue was empty, the slots were full or the agent of the task on    *)
(* top was at its limit.                                                   *)
LoopTakes(D, queue, running, counts, config) ==
    LET rest == queue \ D
        slots == Cardinality(running) + Cardinality(D)
        count(a) == counts[a] + Cardinality(Of(D, a))
    IN  /\ \A t \in D, u \in rest : ~Before(u, t)
        /\ D # {} => slots <= config.max_concurrent_tasks
        /\ \A t \in D : count(t.agent_id) <= config.max_per_agent_tasks
        /\ \/ rest = {}
           \/ slots >= config.max_concurrent_tasks
           \/ \E t \in rest :
                /\ \A u \in rest : ~Before(u, t)
                /\ count(t.agent_id) >= config.max_per_agent_tasks

DispatchPending(queue, running, counts, config, paused) ==
    \E D \in SUBSET queue :
        /\ IF paused THEN D = {} ELSE LoopTakes(D, queue, running, counts, config)
        /\ pending_tasks_' = queue \ D
        /\ running_tasks_' = running \cup D
        /\ agent_task_counts_' = [a \in Agents |-> counts[a] + Cardinality(Of(D, a))]
        /\ working' = working \cup D

ScheduleTask(a, p) ==
    /\ next_task_id_ <= MaxTasks
    /\ now' \in {now, now + 1}
    /\ LET task == [id |-> next_task_id_, agent_id |-> a, priority |-> p,
                    queued_at |-> now']
       IN  DispatchPending(pending_tasks_ \cup {task}, running_tasks_,
                           agent_task_counts_, config_, paused_)
    /\ next_task_id_' = next_task_id_ + 1
    /\ UNCHANGED <<paused_, config_, replying, completing, done, cancelled>>

\* Mutant: the queue is rebuilt without any task of the same agent.
CancelTaskOfAgent(t) ==
    /\ pending_tasks_' = {u \in pending_tasks_ : u.agent_id # t.agent_id}
    /\ cancelled' = cancelled \cup {t.id}
    /\ UNCHANGED <<running_tasks_, agent_task_counts_, paused_, config_,
                   next_task_id_, now, pool, done>>

\* CancelTask finds a task only in the queue, and does not dispatch.
CancelTask(t) ==
    /\ pending_tasks_' = {u \in pending_tasks_ : u.id # t.id}
    /\ cancelled' = cancelled \cup {t.id}
    /\ UNCHANGED <<running_tasks_, agent_task_counts_, paused_, config_,
                   next_task_id_, now, pool, done>>

Pause ==
    /\ paused_' = TRUE
    /\ UNCHANGED <<pending_tasks_, running_tasks_, agent_task_counts_, config_,
                   next_task_id_, now, pool, done, cancelled>>

\* Mutant: Resume only clears the flag.
ResumeWithoutDispatch ==
    /\ paused_' = FALSE
    /\ UNCHANGED <<pending_tasks_, running_tasks_, agent_task_counts_, config_,
                   next_task_id_, now, pool, done, cancelled>>

Resume ==
    /\ paused_' = FALSE
    /\ DispatchPending(pending_tasks_, running_tasks_, agent_task_counts_, config_, FALSE)
    /\ UNCHANGED <<config_, next_task_id_, now, replying, completing, done, cancelled>>

SetConfig(config) ==
    /\ config_' = config
    /\ DispatchPending(pending_tasks_, running_tasks_, agent_task_counts_, config, paused_)
    /\ UNCHANGED <<paused_, next_task_id_, now, replying, completing, done, cancelled>>

\* A thread of the pool runs the work of a task; its reply is posted.
RunWork(t) ==
    /\ t \in working
    /\ working' = working \ {t} /\ replying' = replying \cup {t}
    /\ UNCHANGED <<pending_tasks_, running_tasks_, agent_task_counts_, paused_,
                   config_, next_task_id_, now, completing, done, cancelled>>

\* The reply runs on_complete before it asks for the lock.
RunOnComplete(t) ==
    /\ t \in replying
    /\ replying' = replying \ {t} /\ completing' = completing \cup {t}
    /\ UNCHANGED <<pending_tasks_, running_tasks_, agent_task_counts_, paused_,
                   config_, next_task_id_, now, working, done, cancelled>>

\* Mutant: the count is given back once by the reply and once by OnTaskComplete.
DecrementedTwice(counts, a) == [counts EXCEPT ![a] = @ - 2]

\* Mutant: the map entry is erased while the agent holds other slots.
DecrementedToZero(counts, a) == [counts EXCEPT ![a] = 0]

\* The slot of the agent is given back: the map entry is erased or decremented.
Decremented(counts, a) ==
    [counts EXCEPT ![a] = IF @ <= 1 THEN 0 ELSE @ - 1]

\* Mutant: a completed task does not dispatch the next one.
OnTaskCompleteWithoutDispatch(t) ==
    /\ t \in completing
    /\ completing' = completing \ {t}
    /\ running_tasks_' = running_tasks_ \ {t}
    /\ agent_task_counts_' = Decremented(agent_task_counts_, t.agent_id)
    /\ done' = done \cup {t.id}
    /\ UNCHANGED <<pending_tasks_, paused_, config_, next_task_id_, now, working,
                   replying, cancelled>>

OnTaskComplete(t) ==
    /\ t \in completing
    /\ completing' = completing \ {t}
    /\ DispatchPending(pending_tasks_, running_tasks_ \ {t},
                       Decremented(agent_task_counts_, t.agent_id), config_, paused_)
    /\ done' = done \cup {t.id}
    /\ UNCHANGED <<paused_, config_, next_task_id_, now, replying, cancelled>>

-----------------------------------------------------------------------------
Init ==
    /\ pending_tasks_ = {} /\ running_tasks_ = {}
    /\ agent_task_counts_ = [a \in Agents |-> 0]
    /\ paused_ = FALSE /\ config_ \in Configs
    /\ next_task_id_ = 1 /\ now = 0
    /\ working = {} /\ replying = {} /\ completing = {}
    /\ done = {} /\ cancelled = {}

Next ==
    \/ \E a \in Agents, p \in Priorities : ScheduleTask(a, p)
    \/ \E t \in pending_tasks_ : CancelTask(t)
    \/ Pause
    \/ Resume
    \/ \E config \in Configs : SetConfig(config)
    \/ \E t \in working : RunWork(t)
    \/ \E t \in replying : RunOnComplete(t)
    \/ \E t \in completing : OnTaskComplete(t)

Spec == Init /\ [][Next]_vars

(* The thread pool runs what is posted to it and the reply sequence runs   *)
(* the replies; nothing obliges the embedder to call anything.             *)
PoolStep ==
    \/ \E t \in working : RunWork(t)
    \/ \E t \in replying : RunOnComplete(t)
    \/ \E t \in completing : OnTaskComplete(t)

FairSpec == Spec /\ WF_vars(PoolStep)

-----------------------------------------------------------------------------
TypeOK ==
    /\ pending_tasks_ \in SUBSET Tasks /\ IsFiniteSet(pending_tasks_)
    /\ running_tasks_ \in SUBSET Tasks /\ IsFiniteSet(running_tasks_)
    /\ agent_task_counts_ \in [Agents -> Nat]
    /\ paused_ \in BOOLEAN /\ config_ \in Configs
    /\ next_task_id_ \in Nat \ {0} /\ now \in Nat
    /\ working \in SUBSET Tasks /\ replying \in SUBSET Tasks
    /\ completing \in SUBSET Tasks
    /\ done \in SUBSET Nat /\ cancelled \in SUBSET Nat

Ids(T) == {t.id : t \in T}

(* A task holds a slot of running_tasks_ from its dispatch until its       *)
(* OnTaskComplete: while its work is queued or runs, while its reply is    *)
(* posted, and still when its on_complete has run, since the reply runs    *)
(* on_complete first (agent_scheduler.cc:365).  It is in one of those      *)
(* stages at a time and not in the queue.  Whoever learns from on_complete *)
(* that a task has ended may therefore still find its slot taken: see      *)
(* FreeAfterOnComplete below.                                              *)
SlotsAreBusy ==
    /\ running_tasks_ = working \cup replying \cup completing
    /\ working \cap replying = {} /\ working \cap completing = {}
    /\ replying \cap completing = {}
    /\ pending_tasks_ \cap running_tasks_ = {}

(* agent_task_counts_, which the loop tests in place of the slots, is the  *)
(* number of slots each agent holds: no completion is lost or counted      *)
(* twice, whatever the limits were changed to meanwhile.                   *)
CountsAreExact ==
    \A a \in Agents :
        agent_task_counts_[a] = Cardinality(Of(running_tasks_, a))

(* What the dispatch loop tests is what the pool is busy with: slots and   *)
(* counts are exact through completions that run without the lock, burst   *)
(* dispatches and limits lowered under the slots held.  Exact includes the *)
(* tasks between their on_complete and their OnTaskComplete: a task that   *)
(* on_complete schedules finds the slot of its predecessor still taken.    *)
Bookkeeping == SlotsAreBusy /\ CountsAreExact

\* The ids below n are those of the live tasks, the done and the cancelled.
Accounted(live, n, d, c) ==
    /\ 1..(n - 1) = Ids(live) \cup d \cup c
    /\ Ids(live) \cap (d \cup c) = {} /\ d \cap c = {}
    /\ \A t, u \in live : t.id = u.id => t = u

(* Every id that ScheduleTask returned is queued, holds a slot, has        *)
(* completed or was cancelled, and only one of the four.                   *)
NoTaskLost ==
    Accounted(pending_tasks_ \cup running_tasks_, next_task_id_, done, cancelled)

(* The queue never waits on nobody: CancelTask and Pause do not dispatch,  *)
(* but as long as a task is queued, scheduling is not paused and the       *)
(* limits allow a task at all, some slot is held whose OnTaskComplete      *)
(* will dispatch.                                                          *)
QueueHasDriver ==
    /\ pending_tasks_ # {} /\ ~paused_
    /\ config_.max_concurrent_tasks > 0 /\ config_.max_per_agent_tasks > 0
    => running_tasks_ # {}

(* What agent_scheduler_unittest.cc:308-312 expects: when the on_complete  *)
(* closures of all tasks have run, GetRunningTaskCount returns 0.  The     *)
(* code does not promise it and TLC refutes it: on_complete of the last    *)
(* task wakes the test before OnTaskComplete has taken the lock.           *)
FreeAfterOnComplete ==
    pending_tasks_ = {} /\ working = {} /\ replying = {} => running_tasks_ = {}

(* No step starts a task beyond the limits in force after it, also when a  *)
(* burst of tasks starts at once after Resume or SetConfig, and after      *)
(* limits were lowered under the number of slots held.                     *)
StartsWithinLimits ==
    [][\A t \in running_tasks_' \ running_tasks_ :
            /\ Cardinality(running_tasks_') <= config_'.max_concurrent_tasks
            /\ Cardinality(Of(running_tasks_', t.agent_id))
                    <= config_'.max_per_agent_tasks]_vars

(* A task never starts while a task that the comparator puts before it     *)
(* stays in the queue, also not when that one's agent is at its limit.     *)
StartsInOrder ==
    [][\A t \in running_tasks_' \ running_tasks_, u \in pending_tasks_' :
            ~Before(u, t)]_vars

(* Once the embedder leaves scheduling resumed with limits above zero,     *)
(* every queued task is started or cancelled: slots are given back by the  *)
(* pool alone.                                                             *)
QueueDrains ==
    <>[](~paused_ /\ config_.max_concurrent_tasks > 0
                  /\ config_.max_per_agent_tasks > 0)
    => []<>(pending_tasks_ = {})
=============================================================================
