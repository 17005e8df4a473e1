------------------------------ MODULE EvalLoop ------------------------------
(***************************************************************************)
(* EvalLoopRunner (libcef/browser/agent_scheduler.cc): an evaluation loop  *)
(* runs a list of tasks in the thread pool, at most max_concurrent of them *)
(* at a time, and does so once for every iteration.                        *)
(*                                                                         *)
(* The runner's methods all run on the sequence that started the loop, so  *)
(* each is one action; the work of the tasks runs in the thread pool, in   *)
(* parallel, and its replies come back in any order.                       *)
(***************************************************************************)
EXTENDS Integers, Sequences, FiniteSets

CONSTANTS
    N,           \* number of tasks; RunEvaluationLoop requires one
    Iterations,  \* config.iterations; RunEvaluationLoop requires one
    Limits       \* values of config.max_concurrent

ASSUME ConstantsAssumption ==
    N \in Nat \ {0} /\ Iterations \in Nat \ {0} /\ Limits \subseteq Nat

Indices == 0..(N - 1)

VARIABLES
    max_concurrent, current_iteration_, pending_count_, active_count_,
    next_task_index_,
    current_results_,  \* results of this iteration, in the order they came
    all_summaries_,    \* the results that each summary was made from
    consumed,          \* tasks whose OnceCallback has been run
    pool,              \* tasks posted to the thread pool
    replies,           \* results on their way back to the sequence
    completions        \* times on_complete_ was run

vars == <<max_concurrent, current_iteration_, pending_count_, active_count_,
          next_task_index_, current_results_, all_summaries_, consumed, pool,
          replies, completions>>

-----------------------------------------------------------------------------
\* Mutant: the limit is compared with the tasks of the batch only.
BatchIgnoringActive(next, active) ==
    {i \in Indices : next <= i /\ i < next + max_concurrent}

\* The while loop of DispatchNextBatch, with this many tasks dispatched and
\* active so far, dispatches the tasks with these indices.
Batch(next, active) ==
    {i \in Indices : next <= i /\ i < next + (max_concurrent - active)}

DispatchNextBatch(iteration, next, active) ==
    LET batch == Batch(next, active)
    IN  /\ pool' = pool \union {[iteration |-> iteration, index |-> i] : i \in batch}
        /\ next_task_index_' = next + Cardinality(batch)
        /\ active_count_' = active + Cardinality(batch)

Init ==
    /\ max_concurrent \in Limits
    /\ current_iteration_ = 0 /\ pending_count_ = N
    /\ current_results_ = << >> /\ all_summaries_ = << >>
    /\ consumed = {} /\ replies = {} /\ completions = 0
    /\ LET batch == Batch(0, 0)
       IN  /\ pool = {[iteration |-> 0, index |-> i] : i \in batch}
           /\ next_task_index_ = Cardinality(batch)
           /\ active_count_ = Cardinality(batch)

\* The factory of a task runs its OnceCallback the first time it is called;
\* after that it only reports a failure.
RunFactory(x) ==
    \E success \in BOOLEAN :
        /\ x.index \in consumed => ~success
        /\ consumed' = consumed \union {x.index}
        /\ replies' = replies \union
               {[iteration |-> x.iteration, index |-> x.index,
                 success |-> success]}

\* A thread of the pool runs a task.
RunWork(x) ==
    /\ x \in pool
    /\ pool' = pool \ {x}
    /\ RunFactory(x)
    /\ UNCHANGED <<max_concurrent, current_iteration_, pending_count_,
                   active_count_, next_task_index_, current_results_,
                   all_summaries_, completions>>

\* Mutant: the results of the iteration before are kept.
RunNextIterationKeepsResults ==
    /\ current_iteration_' = current_iteration_ + 1
    /\ UNCHANGED current_results_
    /\ IF current_iteration_' >= Iterations
       THEN /\ completions' = completions + 1
            /\ pending_count_' = 0 /\ active_count_' = active_count_ - 1
            /\ UNCHANGED <<next_task_index_, pool>>
       ELSE /\ pending_count_' = N
            /\ DispatchNextBatch(current_iteration_', 0, 0)
            /\ UNCHANGED completions

\* RunNextIteration after the last task of an iteration: the next one starts
\* from fresh counters, or FinishLoop runs on_complete_.
RunNextIteration ==
    /\ current_iteration_' = current_iteration_ + 1
    /\ current_results_' = << >>
    /\ IF current_iteration_' >= Iterations
       THEN /\ completions' = completions + 1
            /\ pending_count_' = 0 /\ active_count_' = active_count_ - 1
            /\ UNCHANGED <<next_task_index_, pool>>
       ELSE /\ pending_count_' = N
            /\ DispatchNextBatch(current_iteration_', 0, 0)
            /\ UNCHANGED completions

\* OnIterationComplete makes the summary out of the results and moves them.
OnIterationComplete(results) ==
    /\ all_summaries_' = Append(all_summaries_, results)
    /\ RunNextIteration

\* Mutant: the iteration ends with the last dispatch, not the last result.
OnTaskCompleteEarly(r) ==
    LET results == Append(current_results_, r)
    IN  /\ r \in replies
        /\ replies' = replies \ {r}
        /\ IF next_task_index_ < N
           THEN /\ current_results_' = results
                /\ pending_count_' = pending_count_ - 1
                /\ DispatchNextBatch(current_iteration_, next_task_index_,
                                     active_count_ - 1)
                /\ UNCHANGED <<current_iteration_, all_summaries_, completions>>
           ELSE OnIterationComplete(results)
        /\ UNCHANGED <<max_concurrent, consumed>>

\* Mutant: a slot that becomes free is not used.
OnTaskCompleteNoDispatch(r) ==
    LET results == Append(current_results_, r)
    IN  /\ r \in replies
        /\ replies' = replies \ {r}
        /\ IF pending_count_ - 1 > 0
           THEN /\ current_results_' = results
                /\ pending_count_' = pending_count_ - 1
                /\ active_count_' = active_count_ - 1
                /\ UNCHANGED <<current_iteration_, all_summaries_, completions,
                               pool, next_task_index_>>
           ELSE OnIterationComplete(results)
        /\ UNCHANGED <<max_concurrent, consumed>>

\* The reply of a task is run on the sequence of the loop.
OnTaskComplete(r) ==
    LET results == Append(current_results_, r)
    IN  /\ r \in replies
        /\ replies' = replies \ {r}
        /\ IF pending_count_ - 1 > 0
           THEN /\ current_results_' = results
                /\ pending_count_' = pending_count_ - 1
                /\ DispatchNextBatch(current_iteration_, next_task_index_,
                                     active_count_ - 1)
                /\ UNCHANGED <<current_iteration_, all_summaries_, completions>>
           ELSE OnIterationComplete(results)
        /\ UNCHANGED <<max_concurrent, consumed>>

Next == \/ \E x \in pool : RunWork(x)
        \/ \E r \in replies : OnTaskComplete(r)

Spec == Init /\ [][Next]_vars

\* The thread pool runs what is posted to it, and the sequence its replies.
FairSpec == Spec /\ WF_vars(\E x \in pool : RunWork(x))
                 /\ WF_vars(\E r \in replies : OnTaskComplete(r))

-----------------------------------------------------------------------------
(* Properties.                                                             *)

IndicesOf(S) == {x.index : x \in S}
Outstanding == IndicesOf(pool) \union IndicesOf(replies)
Done == {current_results_[i].index : i \in DOMAIN current_results_}
Results == [iteration : Nat, index : Indices, success : BOOLEAN]

\* The counters are natural numbers (they are of type size_t and must not wrap).
TypeOK ==
    /\ max_concurrent \in Limits /\ current_iteration_ \in Nat
    /\ pending_count_ \in Nat /\ active_count_ \in Nat
    /\ next_task_index_ \in 0..N
    /\ current_results_ \in Seq(Results) /\ all_summaries_ \in Seq(Seq(Results))
    /\ consumed \subseteq Indices
    /\ pool \subseteq [iteration : Nat, index : Indices]
    /\ replies \subseteq Results
    /\ completions \in Nat

\* active_count_ is the number of tasks in the pool or on their way back, and
\* these are never more than max_concurrent.
ConcurrencyBounded ==
    /\ Cardinality(pool) + Cardinality(replies) = active_count_
    /\ active_count_ <= max_concurrent

\* No task outlives its iteration: whatever is outstanding was started by this
\* one, and it is counted in it once, as dispatched, outstanding or done.
IterationsDoNotMix ==
    /\ \A x \in pool \union replies : x.iteration = current_iteration_
    /\ \A i \in DOMAIN current_results_ :
         current_results_[i].iteration = current_iteration_
    /\ Outstanding \intersect Done = {}
    /\ completions = 0 => Outstanding \union Done = 0..(next_task_index_ - 1)

\* Every summary has one result for each task, all of its own iteration, and
\* on_complete_ is run once, with a summary for each iteration.
SummariesComplete ==
    /\ \A k \in DOMAIN all_summaries_ :
         /\ Len(all_summaries_[k]) = N
         /\ {all_summaries_[k][i].index : i \in 1..N} = Indices
         /\ \A i \in 1..N : all_summaries_[k][i].iteration = k - 1
    /\ Len(all_summaries_) = current_iteration_
    /\ completions = IF current_iteration_ = Iterations THEN 1 ELSE 0

\* A loop that has not completed has a task outstanding that will drive it,
\* provided that max_concurrent is not zero.
LoopHasDriver == max_concurrent > 0 /\ completions = 0 => Outstanding # {}

\* The loop completes.
LoopCompletes == max_concurrent > 0 ~> completions = 1
=============================================================================
