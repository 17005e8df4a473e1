--------------------------- MODULE EvalLoopProofs ---------------------------
(***************************************************************************)
(* The safety properties of EvalLoop hold for every number of tasks and    *)
(* iterations and every concurrency limit.                                 *)
(*                                                                         *)
(* The invariant is an account of the tasks of the current iteration: each *)
(* dispatched one is in the pool, on its way back or among the results, in *)
(* one of them only, and the counters are the sizes of these parts.  From  *)
(* the account follows the fact that the properties turn on: when the last *)
(* result of an iteration comes, nothing else is outstanding, so that the  *)
(* counters may be reset.                                                  *)
(***************************************************************************)
EXTENDS EvalLoop, FiniteSetTheorems, TLAPS

-----------------------------------------------------------------------------
(* The account of an iteration: P is in the pool, R on its way back, res   *)
(* has come back, and the counters are next and active.                    *)

Typed(it, P, R, res, next, active) ==
    /\ it \in Nat /\ next \in 0..N /\ active \in Nat
    /\ P \in SUBSET [iteration : Nat, index : Indices]
    /\ R \in SUBSET Results /\ res \in Seq(Results)
    /\ IsFiniteSet(P) /\ IsFiniteSet(R)

OneIteration(it, P, R, res) ==
    /\ \A x \in P : x.iteration = it
    /\ \A r \in R : r.iteration = it
    /\ \A i \in 1..Len(res) : res[i].iteration = it

OnePlace(P, R, res) ==
    /\ \A x, y \in P : x.index = y.index => x = y
    /\ \A r, s \in R : r.index = s.index => r = s
    /\ \A x \in P, r \in R : x.index # r.index
    /\ \A i \in 1..Len(res) : /\ \A x \in P : x.index # res[i].index
                              /\ \A r \in R : r.index # res[i].index

SomePlace(P, R, res, next) ==
    /\ \A x \in P : x.index < next
    /\ \A r \in R : r.index < next
    /\ \A i \in 1..Len(res) : res[i].index < next
    /\ \A k \in 0..(next - 1) : \/ \E x \in P : x.index = k
                                \/ \E r \in R : r.index = k
                                \/ \E i \in 1..Len(res) : res[i].index = k

Sizes(P, R, res, next, active) ==
    /\ Cardinality(P) + Cardinality(R) = active
    /\ Len(res) + active = next

Account(it, P, R, res, next, active) ==
    /\ Typed(it, P, R, res, next, active)
    /\ OneIteration(it, P, R, res)
    /\ OnePlace(P, R, res)
    /\ SomePlace(P, R, res, next)
    /\ Sizes(P, R, res, next, active)

Posted(it, S) == {[iteration |-> it, index |-> i] : i \in S}

\* The batch is the next interval of indices, as long as tasks and slots last.
LEMMA BatchIsInterval ==
    ASSUME ConstantsAssumption, NEW next \in 0..N, NEW active \in Nat,
           max_concurrent \in Nat, active <= max_concurrent
    PROVE  /\ IsFiniteSet(Batch(next, active))
           /\ Cardinality(Batch(next, active)) \in Nat
           /\ Batch(next, active) = next..(next + Cardinality(Batch(next, active)) - 1)
           /\ next + Cardinality(Batch(next, active)) <= N
           /\ active + Cardinality(Batch(next, active)) <= max_concurrent
           /\ next + Cardinality(Batch(next, active)) < N
                => active + Cardinality(Batch(next, active)) = max_concurrent
<1> DEFINE slots == max_concurrent - active
           size == IF slots <= N - next THEN slots ELSE N - next
           last == next + size - 1
<1>1. N \in Nat /\ slots \in Nat /\ size \in Nat /\ last \in Int
  BY DEF ConstantsAssumption
<1>2. Batch(next, active) = next..last
  BY <1>1 DEF Batch, Indices, ConstantsAssumption
<1>3. IsFiniteSet(next..last) /\ Cardinality(next..last) = size
  <2>1. /\ IsFiniteSet(next..last)
        /\ Cardinality(next..last) = IF next > last THEN 0 ELSE last - next + 1
    BY <1>1, FS_Interval
  <2>2. QED
    BY <1>1, <2>1
<1>4. IsFiniteSet(Batch(next, active)) /\ Cardinality(Batch(next, active)) = size
  BY <1>2, <1>3, Zenon
<1>5. QED
  BY <1>1, <1>2, <1>4

\* Posting a batch puts one task into the pool for each of its indices.
LEMMA PostedCardinality ==
    ASSUME NEW it, NEW S, IsFiniteSet(S)
    PROVE  IsFiniteSet(Posted(it, S)) /\ Cardinality(Posted(it, S)) = Cardinality(S)
<1> DEFINE f == [i \in S |-> [iteration |-> it, index |-> i]]
<1>1. f \in Bijection(S, Posted(it, S))
  <2>1. f \in [S -> Posted(it, S)]
    BY DEF Posted
  <2>2. \A a, b \in S : f[a] = f[b] => a = b
    <3>1. SUFFICES ASSUME NEW a \in S, NEW b \in S, f[a] = f[b] PROVE a = b
      OBVIOUS
    <3>2. f[a].index = a /\ f[b].index = b
      OBVIOUS
    <3>3. QED
      BY <3>1, <3>2
  <2>3. \A y \in Posted(it, S) : \E a \in S : f[a] = y
    BY DEF Posted
  <2>4. QED
    BY <2>1, <2>2, <2>3, Zenon DEF Bijection, Injection, Surjection, IsInjective
<1>2. ExistsBijection(S, Posted(it, S))
  BY <1>1, Zenon DEF ExistsBijection
<1>3. QED
  BY <1>2, FS_Bijection

-----------------------------------------------------------------------------
(* The account balances at the start and after each of the three moves.    *)

LEMMA EmptyAccount ==
    ASSUME ConstantsAssumption, NEW it \in Nat
    PROVE  Account(it, {}, {}, << >>, 0, 0)
<1>1. IsFiniteSet({}) /\ Cardinality({}) = 0
  BY FS_EmptySet
<1>2. Typed(it, {}, {}, << >>, 0, 0)
  BY <1>1 DEF Typed, ConstantsAssumption
<1>3. OneIteration(it, {}, {}, << >>) /\ OnePlace({}, {}, << >>)
  BY DEF OneIteration, OnePlace
<1>4. SomePlace({}, {}, << >>, 0)
  BY DEF SomePlace
<1>5. Sizes({}, {}, << >>, 0, 0)
  BY <1>1 DEF Sizes
<1>6. QED
  BY <1>2, <1>3, <1>4, <1>5 DEF Account

\* A batch moves tasks from the list into the pool.
LEMMA DispatchedAccount ==
    ASSUME ConstantsAssumption, max_concurrent \in Nat,
           NEW it, NEW P, NEW R, NEW res, NEW next, NEW active,
           Account(it, P, R, res, next, active), active <= max_concurrent,
           NEW B, B = Batch(next, active), NEW c, c = Cardinality(B)
    PROVE  /\ Account(it, P \cup Posted(it, B), R, res, next + c, active + c)
           /\ active + c <= max_concurrent
           /\ next + c < N => active + c = max_concurrent
<1>0. /\ Typed(it, P, R, res, next, active) /\ OneIteration(it, P, R, res)
      /\ OnePlace(P, R, res) /\ SomePlace(P, R, res, next)
      /\ Sizes(P, R, res, next, active)
  BY DEF Account
<1>1. next \in 0..N /\ active \in Nat /\ N \in Nat
  BY <1>0 DEF Typed, ConstantsAssumption
<1>2. /\ IsFiniteSet(B) /\ c \in Nat /\ B = next..(next + c - 1)
      /\ next + c <= N /\ active + c <= max_concurrent
      /\ next + c < N => active + c = max_concurrent
  <2>1. /\ IsFiniteSet(Batch(next, active))
        /\ Cardinality(Batch(next, active)) \in Nat
        /\ Batch(next, active) = next..(next + Cardinality(Batch(next, active)) - 1)
        /\ next + Cardinality(Batch(next, active)) <= N
        /\ active + Cardinality(Batch(next, active)) <= max_concurrent
        /\ next + Cardinality(Batch(next, active)) < N
              => active + Cardinality(Batch(next, active)) = max_concurrent
    BY <1>1, BatchIsInterval
  <2>2. QED
    BY <2>1, Zenon
<1> DEFINE Q == Posted(it, B)
<1>3. IsFiniteSet(Q) /\ Cardinality(Q) = c
  BY <1>2, PostedCardinality
<1>4. /\ \A x \in Q : /\ x.iteration = it /\ x.index \in B
                      /\ x = [iteration |-> it, index |-> x.index]
      /\ \A i \in B : [iteration |-> it, index |-> i] \in Q
  BY DEF Posted
<1>5. /\ \A i \in B : next <= i /\ i < next + c /\ i \in Indices
      /\ next..(next + c - 1) \subseteq B
  <2>1. B \subseteq next..(next + c - 1) /\ next..(next + c - 1) \subseteq B
    BY <1>2, Zenon
  <2>2. ASSUME NEW i \in next..(next + c - 1)
        PROVE  next <= i /\ i < next + c /\ i \in Indices
    <3>1. c \in Nat /\ next + c <= N
      BY <1>2
    <3>2. QED
      BY <1>1, <3>1 DEF Indices
  <2>3. QED
    BY <2>1, <2>2, Zenon
<1>6. /\ \A x \in P : x.index \in Int /\ x.index < next
      /\ \A r \in R : r.index \in Int /\ r.index < next
      /\ \A i \in 1..Len(res) : res[i].index \in Int /\ res[i].index < next
  <2>1. \A i \in 1..Len(res) : res[i] \in Results
    BY <1>0 DEF Typed
  <2>2. Indices \subseteq Int
    BY <1>1 DEF Indices
  <2>3. QED
    BY <1>0, <2>1, <2>2 DEF Typed, SomePlace, Results
<1> HIDE DEF Q
<1>7. Typed(it, P \cup Q, R, res, next + c, active + c)
  <2>1. Q \in SUBSET [iteration : Nat, index : Indices]
    BY <1>0, <1>4, <1>5 DEF Typed
  <2>2. IsFiniteSet(P \cup Q)
    BY <1>0, <1>3, FS_Union DEF Typed
  <2>3. QED
    BY <1>0, <1>1, <1>2, <2>1, <2>2 DEF Typed
<1>8. OneIteration(it, P \cup Q, R, res)
  BY <1>0, <1>4 DEF OneIteration
<1>9. OnePlace(P \cup Q, R, res)
  <2>1. \A x \in Q : x.index \in Int /\ next <= x.index
    BY <1>1, <1>4, <1>5 DEF Indices
  <2>2. \A x, y \in P \cup Q : x.index = y.index => x = y
    <3>1. \A x, y \in Q : x.index = y.index => x = y
      BY <1>4
    <3>2. \A x \in P, y \in Q : x.index # y.index
      BY <1>1, <1>6, <2>1
    <3>3. QED
      BY <1>0, <3>1, <3>2 DEF OnePlace
  <2>3. \A x \in P \cup Q, r \in R : x.index # r.index
    BY <1>0, <1>1, <1>6, <2>1 DEF OnePlace
  <2>4. \A i \in 1..Len(res) : \A x \in P \cup Q : x.index # res[i].index
    BY <1>0, <1>1, <1>6, <2>1 DEF OnePlace
  <2>5. QED
    BY <1>0, <2>2, <2>3, <2>4 DEF OnePlace
<1>10. SomePlace(P \cup Q, R, res, next + c)
  <2>1. \A x \in P \cup Q : x.index < next + c
    BY <1>1, <1>2, <1>4, <1>5, <1>6
  <2>2. /\ \A r \in R : r.index < next + c
        /\ \A i \in 1..Len(res) : res[i].index < next + c
    BY <1>1, <1>2, <1>6
  <2>3. ASSUME NEW k \in 0..((next + c) - 1)
        PROVE  \/ \E x \in P \cup Q : x.index = k
               \/ \E r \in R : r.index = k
               \/ \E i \in 1..Len(res) : res[i].index = k
    <3>1. CASE k < next
      BY <1>0, <1>1, <3>1 DEF SomePlace
    <3>2. CASE next <= k
      <4>1. k \in B
        <5>1. c \in Nat
          BY <1>2
        <5>2. k \in next..(next + c - 1)
          BY <1>1, <5>1, <3>2
        <5>3. QED
          BY <1>5, <5>2
      <4>2. [iteration |-> it, index |-> k] \in P \cup Q
        BY <1>4, <4>1
      <4>3. QED
        BY <4>2
    <3>3. QED
      BY <1>1, <3>1, <3>2
  <2>4. QED
    <3>1. \A k \in 0..((next + c) - 1) : \/ \E x \in P \cup Q : x.index = k
                                         \/ \E r \in R : r.index = k
                                         \/ \E i \in 1..Len(res) : res[i].index = k
      BY <2>3, Zenon
    <3>2. QED
      BY <2>1, <2>2, <3>1, Zenon DEF SomePlace
<1>11. Sizes(P \cup Q, R, res, next + c, active + c)
  <2>1. P \cap Q = {}
    BY <1>1, <1>4, <1>5, <1>6
  <2>2. Cardinality(P \cap Q) = 0
    BY <2>1, FS_EmptySet, Zenon
  <2>3. Cardinality(P \cup Q) = Cardinality(P) + Cardinality(Q) - Cardinality(P \cap Q)
    BY <1>0, <1>3, FS_Union DEF Typed
  <2>4. Cardinality(P) \in Nat /\ Cardinality(R) \in Nat /\ Len(res) \in Nat
    BY <1>0, FS_CardinalityType DEF Typed
  <2>5. Cardinality(P) + Cardinality(R) = active /\ Len(res) + active = next
    BY <1>0 DEF Sizes
  <2>6. c \in Nat
    BY <1>2
  <2>7. /\ Cardinality(P \cup Q) + Cardinality(R) = active + c
        /\ Len(res) + (active + c) = next + c
    BY <1>1, <1>3, <2>2, <2>3, <2>4, <2>5, <2>6
  <2>8. QED
    BY <2>7, Zenon DEF Sizes
<1>12. Account(it, P \cup Q, R, res, next + c, active + c)
  BY <1>7, <1>8, <1>9, <1>10, <1>11 DEF Account
<1>13. QED
  BY <1>2, <1>12 DEF Q

\* The work of a task moves it from the pool to the replies.
LEMMA WorkedAccount ==
    ASSUME NEW it, NEW P, NEW R, NEW res, NEW next, NEW active,
           Account(it, P, R, res, next, active), NEW x \in P,
           NEW y \in Results, y.iteration = x.iteration, y.index = x.index
    PROVE  Account(it, P \ {x}, R \cup {y}, res, next, active)
<1>0. /\ Typed(it, P, R, res, next, active) /\ OneIteration(it, P, R, res)
      /\ OnePlace(P, R, res) /\ SomePlace(P, R, res, next)
      /\ Sizes(P, R, res, next, active)
  BY DEF Account
<1>1. /\ IsFiniteSet(P) /\ IsFiniteSet(R)
      /\ Cardinality(P) \in Nat /\ Cardinality(R) \in Nat
  BY <1>0, FS_CardinalityType DEF Typed
<1>2. IsFiniteSet(P \ {x}) /\ Cardinality(P \ {x}) = Cardinality(P) - 1
  BY <1>1, FS_RemoveElement
<1>3. y \notin R
  BY <1>0 DEF OnePlace
<1>4. IsFiniteSet(R \cup {y}) /\ Cardinality(R \cup {y}) = Cardinality(R) + 1
  BY <1>1, <1>3, FS_AddElement
<1>5. Typed(it, P \ {x}, R \cup {y}, res, next, active)
  BY <1>0, <1>2, <1>4 DEF Typed
<1>6. OneIteration(it, P \ {x}, R \cup {y}, res)
  BY <1>0 DEF OneIteration
<1>7. OnePlace(P \ {x}, R \cup {y}, res)
  BY <1>0 DEF OnePlace
<1>8. SomePlace(P \ {x}, R \cup {y}, res, next)
  BY <1>0 DEF SomePlace
<1>9. Sizes(P \ {x}, R \cup {y}, res, next, active)
  BY <1>0, <1>1, <1>2, <1>4 DEF Sizes
<1>10. QED
  BY <1>5, <1>6, <1>7, <1>8, <1>9 DEF Account

\* OnTaskComplete moves a reply to the results and frees its slot.
LEMMA AnsweredAccount ==
    ASSUME NEW it, NEW P, NEW R, NEW res, NEW next, NEW active,
           Account(it, P, R, res, next, active), NEW r \in R
    PROVE  /\ active > 0
           /\ Account(it, P, R \ {r}, Append(res, r), next, active - 1)
<1>0. /\ Typed(it, P, R, res, next, active) /\ OneIteration(it, P, R, res)
      /\ OnePlace(P, R, res) /\ SomePlace(P, R, res, next)
      /\ Sizes(P, R, res, next, active)
  BY DEF Account
<1>1. /\ IsFiniteSet(P) /\ IsFiniteSet(R) /\ active \in Nat
      /\ Cardinality(P) \in Nat /\ Cardinality(R) \in Nat
  BY <1>0, FS_CardinalityType DEF Typed
<1>2. IsFiniteSet(R \ {r}) /\ Cardinality(R \ {r}) = Cardinality(R) - 1
  BY <1>1, FS_RemoveElement
<1>3. Cardinality(R \ {r}) \in Nat
  BY <1>2, FS_CardinalityType
<1>4. active > 0
  BY <1>0, <1>1, <1>2, <1>3 DEF Sizes
<1>5. res \in Seq(Results) /\ r \in Results
  BY <1>0 DEF Typed
<1> DEFINE new == Append(res, r)
<1>6. /\ new \in Seq(Results) /\ Len(res) \in Nat /\ Len(new) = Len(res) + 1
      /\ \A i \in 1..Len(res) : new[i] = res[i]
      /\ new[Len(res) + 1] = r
  BY <1>5
<1>7. /\ \A i \in 1..Len(new) : i \in 1..Len(res) \/ i = Len(res) + 1
      /\ 1..Len(res) \subseteq 1..Len(new) /\ Len(res) + 1 \in 1..Len(new)
  BY <1>6
<1> HIDE DEF new
<1>8. Typed(it, P, R \ {r}, new, next, active - 1)
  BY <1>0, <1>1, <1>2, <1>4, <1>6 DEF Typed
<1>9. OneIteration(it, P, R \ {r}, new)
  BY <1>0, <1>6, <1>7 DEF OneIteration
<1>10. OnePlace(P, R \ {r}, new)
  BY <1>0, <1>6, <1>7 DEF OnePlace
<1>11. SomePlace(P, R \ {r}, new, next)
  BY <1>0, <1>6, <1>7 DEF SomePlace
<1>12. Sizes(P, R \ {r}, new, next, active - 1)
  <2>1. Len(new) + (active - 1) = next
    BY <1>0, <1>1, <1>6 DEF Sizes
  <2>2. QED
    BY <1>0, <1>1, <1>2, <2>1 DEF Sizes
<1>13. Account(it, P, R \ {r}, new, next, active - 1)
  BY <1>8, <1>9, <1>10, <1>11, <1>12 DEF Account
<1>14. QED
  BY <1>4, <1>13 DEF new

\* An account with a result for every task has nothing outstanding.
LEMMA FullAccount ==
    ASSUME ConstantsAssumption,
           NEW it, NEW P, NEW R, NEW res, NEW next, NEW active,
           Account(it, P, R, res, next, active), Len(res) = N
    PROVE  /\ P = {} /\ R = {} /\ active = 0
           /\ \A i \in 1..N : res[i].iteration = it
           /\ {res[i].index : i \in 1..N} = Indices
<1>0. /\ Typed(it, P, R, res, next, active) /\ OneIteration(it, P, R, res)
      /\ OnePlace(P, R, res) /\ SomePlace(P, R, res, next)
      /\ Sizes(P, R, res, next, active)
  BY DEF Account
<1>1. /\ IsFiniteSet(P) /\ IsFiniteSet(R) /\ active \in Nat /\ next \in 0..N
      /\ Cardinality(P) \in Nat /\ Cardinality(R) \in Nat /\ N \in Nat
  BY <1>0, FS_CardinalityType DEF Typed, ConstantsAssumption
<1>2. active = 0 /\ next = N /\ Cardinality(P) = 0 /\ Cardinality(R) = 0
  BY <1>0, <1>1 DEF Sizes
<1>3. P = {} /\ R = {}
  BY <1>1, <1>2, FS_EmptySet
<1>4. \A k \in 0..(N - 1) : \E i \in 1..N : res[i].index = k
  BY <1>0, <1>2, <1>3 DEF SomePlace
<1>5. \A i \in 1..N : res[i].index \in Indices
  <2>1. \A i \in 1..N : res[i] \in Results
    BY <1>0 DEF Typed
  <2>2. QED
    BY <2>1 DEF Results
<1>6. {res[i].index : i \in 1..N} = Indices
  BY <1>4, <1>5 DEF Indices
<1>7. QED
  BY <1>0, <1>2, <1>3, <1>6 DEF OneIteration

-----------------------------------------------------------------------------
(* The inductive invariant.                                                *)

\* An iteration is under way: its account balances, a result is missing, and
\* tasks wait in the list only while every slot is taken.
Running ==
    /\ completions = 0 /\ current_iteration_ < Iterations
    /\ Account(current_iteration_, pool, replies, current_results_,
               next_task_index_, active_count_)
    /\ active_count_ <= max_concurrent
    /\ next_task_index_ < N => active_count_ = max_concurrent
    /\ pending_count_ = N - Len(current_results_) /\ pending_count_ > 0

\* The loop is complete and nothing of it is left.
Finished ==
    /\ completions = 1 /\ current_iteration_ = Iterations
    /\ pool = {} /\ replies = {} /\ current_results_ = << >>
    /\ active_count_ = 0 /\ pending_count_ = 0 /\ next_task_index_ \in 0..N

Full(res, it) ==
    /\ Len(res) = N
    /\ \A i \in 1..N : res[i].iteration = it
    /\ {res[i].index : i \in 1..N} = Indices

Summarised ==
    /\ all_summaries_ \in Seq(Seq(Results))
    /\ Len(all_summaries_) = current_iteration_
    /\ \A k \in 1..Len(all_summaries_) : Full(all_summaries_[k], k - 1)

Inv ==
    /\ max_concurrent \in Limits /\ consumed \subseteq Indices
    /\ current_iteration_ \in Nat
    /\ Summarised
    /\ Running \/ Finished

\* The first batch of an iteration starts its account.
LEMMA StartedAccount ==
    ASSUME ConstantsAssumption, max_concurrent \in Nat, NEW it \in Nat,
           NEW c, c = Cardinality(Batch(0, 0))
    PROVE  /\ Account(it, Posted(it, Batch(0, 0)), {}, << >>, c, c)
           /\ c <= max_concurrent /\ (c < N => c = max_concurrent)
<1> DEFINE Q == {} \cup Posted(it, Batch(0, 0))
<1>1. Account(it, {}, {}, << >>, 0, 0)
  BY EmptyAccount
<1>2. /\ Account(it, Q, {}, << >>, 0 + c, 0 + c)
      /\ 0 + c <= max_concurrent /\ (0 + c < N => 0 + c = max_concurrent)
  BY <1>1, DispatchedAccount
<1>3. Q = Posted(it, Batch(0, 0))
  OBVIOUS
<1>4. c \in Nat
  BY BatchIsInterval DEF ConstantsAssumption
<1>5. 0 + c = c
  BY <1>4
<1>6. QED
  BY <1>2, <1>3, <1>5, Zenon

LEMMA InitInv == ConstantsAssumption /\ Init => Inv
<1> SUFFICES ASSUME ConstantsAssumption, Init PROVE Inv
  OBVIOUS
<1>1. max_concurrent \in Nat /\ N \in Nat /\ N > 0 /\ Iterations \in Nat /\ Iterations > 0
  BY DEF ConstantsAssumption, Init
<1> DEFINE c == Cardinality(Batch(0, 0))
<1>2. /\ Account(0, Posted(0, Batch(0, 0)), {}, << >>, c, c)
      /\ c <= max_concurrent /\ (c < N => c = max_concurrent)
  BY <1>1, StartedAccount
<1>3. /\ pool = Posted(0, Batch(0, 0)) /\ next_task_index_ = c /\ active_count_ = c
      /\ replies = {} /\ current_results_ = << >> /\ current_iteration_ = 0
  BY DEF Init, Posted
<1>4. Account(current_iteration_, pool, replies, current_results_,
              next_task_index_, active_count_)
  BY <1>2, <1>3, Zenon
<1>5. /\ active_count_ <= max_concurrent
      /\ next_task_index_ < N => active_count_ = max_concurrent
  BY <1>2, <1>3
<1>6. Running
  BY <1>1, <1>3, <1>4, <1>5 DEF Running, Init
<1>7. Summarised
  BY DEF Init, Summarised
<1>8. QED
  BY <1>6, <1>7 DEF Inv, Init

LEMMA RunWorkInv ==
    ASSUME ConstantsAssumption, Inv, NEW x \in pool, RunWork(x)
    PROVE  Inv'
<1>1. Running
  BY DEF Inv, Finished
<1>2. Account(current_iteration_, pool, replies, current_results_,
              next_task_index_, active_count_)
  BY <1>1 DEF Running
<1>3. x \in [iteration : Nat, index : Indices]
  BY <1>2 DEF Account, Typed
<1>4. PICK success \in BOOLEAN :
        /\ consumed' = consumed \union {x.index}
        /\ replies' = replies \union
               {[iteration |-> x.iteration, index |-> x.index,
                 success |-> success]}
  BY DEF RunWork, RunFactory
<1> DEFINE y == [iteration |-> x.iteration, index |-> x.index,
                 success |-> success]
<1>5. y \in Results /\ y.iteration = x.iteration /\ y.index = x.index
  BY <1>3 DEF Results
<1>6. pool' = pool \ {x} /\ replies' = replies \cup {y}
  BY <1>4 DEF RunWork
<1> HIDE DEF y
<1>7. Account(current_iteration_, pool \ {x}, replies \cup {y}, current_results_,
              next_task_index_, active_count_)
  BY <1>2, <1>5, WorkedAccount
<1>8. /\ max_concurrent' = max_concurrent /\ current_iteration_' = current_iteration_
      /\ pending_count_' = pending_count_ /\ active_count_' = active_count_
      /\ next_task_index_' = next_task_index_ /\ current_results_' = current_results_
      /\ all_summaries_' = all_summaries_ /\ completions' = completions
  BY DEF RunWork
<1>9. Account(current_iteration_, pool, replies, current_results_,
              next_task_index_, active_count_)'
  BY <1>6, <1>7, <1>8, Zenon
<1>10. Running'
  BY <1>1, <1>8, <1>9 DEF Running
<1>11. Summarised'
  BY <1>8 DEF Inv, Summarised
<1>12. consumed' \subseteq Indices
  BY <1>3, <1>4 DEF Inv
<1>13. QED
  BY <1>8, <1>10, <1>11, <1>12 DEF Inv

LEMMA OnTaskCompleteInv ==
    ASSUME ConstantsAssumption, Inv, NEW r \in replies, OnTaskComplete(r)
    PROVE  Inv'
<1> DEFINE results == Append(current_results_, r)
           c == Cardinality(Batch(next_task_index_, active_count_ - 1))
           d == Cardinality(Batch(0, 0))
<1>1. Running
  BY DEF Inv, Finished
<1>2. /\ Account(current_iteration_, pool, replies, current_results_,
                 next_task_index_, active_count_)
      /\ current_iteration_ \in Nat /\ current_iteration_ < Iterations
      /\ completions = 0
      /\ active_count_ <= max_concurrent
      /\ pending_count_ = N - Len(current_results_) /\ pending_count_ > 0
  BY <1>1 DEF Running, Inv
<1>3. /\ max_concurrent \in Nat /\ N \in Nat /\ N > 0 /\ Iterations \in Nat
  BY DEF Inv, ConstantsAssumption
<1>4. /\ active_count_ > 0 /\ active_count_ \in Nat
      /\ Account(current_iteration_, pool, replies \ {r}, results,
                 next_task_index_, active_count_ - 1)
  BY <1>2, AnsweredAccount DEF Account, Typed
<1>5. /\ current_results_ \in Seq(Results) /\ r \in Results
  BY <1>2 DEF Account, Typed
<1>6. /\ results \in Seq(Results) /\ Len(current_results_) \in Nat
      /\ Len(results) = Len(current_results_) + 1
  BY <1>5
<1>7. /\ replies' = replies \ {r} /\ max_concurrent' = max_concurrent
      /\ consumed' = consumed
  BY DEF OnTaskComplete
<1>8. CASE pending_count_ - 1 > 0
  <2>1. /\ current_results_' = results /\ pending_count_' = pending_count_ - 1
        /\ DispatchNextBatch(current_iteration_, next_task_index_, active_count_ - 1)
        /\ current_iteration_' = current_iteration_
        /\ all_summaries_' = all_summaries_ /\ completions' = completions
    BY <1>8 DEF OnTaskComplete
  <2> DEFINE B == Batch(next_task_index_, active_count_ - 1)
  <2>2. /\ pool' = pool \cup Posted(current_iteration_, B)
        /\ next_task_index_' = next_task_index_ + c
        /\ active_count_' = (active_count_ - 1) + c
    BY <2>1 DEF DispatchNextBatch, Posted
  <2>3. /\ Account(current_iteration_, pool \cup Posted(current_iteration_, B),
                   replies \ {r}, results,
                   next_task_index_ + c, (active_count_ - 1) + c)
        /\ (active_count_ - 1) + c <= max_concurrent
        /\ next_task_index_ + c < N => (active_count_ - 1) + c = max_concurrent
    <3>1. active_count_ - 1 <= max_concurrent
      BY <1>2, <1>3, <1>4
    <3>2. QED
      BY <1>3, <1>4, <3>1, DispatchedAccount
  <2>4. Account(current_iteration_, pool, replies, current_results_,
                next_task_index_, active_count_)'
    BY <1>7, <2>1, <2>2, <2>3, Zenon
  <2>5. /\ active_count_' <= max_concurrent'
        /\ next_task_index_' < N => active_count_' = max_concurrent'
    BY <1>7, <2>2, <2>3, Zenon
  <2>6. pending_count_' = N - Len(current_results_') /\ pending_count_' > 0
    BY <1>2, <1>3, <1>6, <1>8, <2>1
  <2>7. Running'
    BY <1>2, <2>1, <2>4, <2>5, <2>6 DEF Running
  <2>8. Summarised'
    BY <2>1 DEF Inv, Summarised
  <2>9. QED
    BY <1>7, <2>1, <2>7, <2>8 DEF Inv
<1>9. CASE ~(pending_count_ - 1 > 0)
  <2>1. /\ all_summaries_' = Append(all_summaries_, results) /\ RunNextIteration
    BY <1>9 DEF OnTaskComplete, OnIterationComplete
  <2>2. Len(results) = N
    BY <1>2, <1>3, <1>6, <1>9
  <2>3. /\ pool = {} /\ replies \ {r} = {} /\ active_count_ - 1 = 0
        /\ Full(results, current_iteration_)
    <3>1. /\ pool = {} /\ replies \ {r} = {} /\ active_count_ - 1 = 0
          /\ \A i \in 1..N : results[i].iteration = current_iteration_
          /\ {results[i].index : i \in 1..N} = Indices
      <4> HIDE DEF results
      <4>1. QED
        BY <1>4, <2>2, FullAccount
    <3>2. QED
      BY <2>2, <3>1, Zenon DEF Full
  <2>4. /\ current_iteration_' = current_iteration_ + 1
        /\ current_results_' = << >> /\ current_iteration_' \in Nat
    BY <1>2, <2>1 DEF RunNextIteration
  <2>5. Summarised'
    <3>1. /\ all_summaries_ \in Seq(Seq(Results))
          /\ Len(all_summaries_) = current_iteration_
          /\ \A k \in 1..Len(all_summaries_) : Full(all_summaries_[k], k - 1)
      BY DEF Inv, Summarised
    <3> HIDE DEF results
    <3>2. /\ all_summaries_' \in Seq(Seq(Results))
          /\ Len(all_summaries_') = current_iteration_'
          /\ \A k \in 1..Len(all_summaries_) : all_summaries_'[k] = all_summaries_[k]
          /\ all_summaries_'[current_iteration_ + 1] = results
      BY <1>2, <1>6, <2>1, <2>4, <3>1
    <3>3. ASSUME NEW k \in 1..Len(all_summaries_')
          PROVE  Full(all_summaries_'[k], k - 1)
      <4>1. CASE k \in 1..Len(all_summaries_)
        BY <3>1, <3>2, <4>1
      <4>2. CASE k = current_iteration_ + 1
        <5>1. k - 1 = current_iteration_ /\ all_summaries_'[k] = results
          BY <1>2, <3>2, <4>2
        <5>2. QED
          BY <2>3, <5>1
      <4>3. QED
        BY <1>2, <2>4, <3>1, <3>2, <4>1, <4>2
    <3>4. QED
      BY <3>2, <3>3 DEF Summarised, Full
  <2>6. CASE current_iteration_' >= Iterations
    <3>1. /\ completions' = completions + 1 /\ pending_count_' = 0
          /\ active_count_' = active_count_ - 1
          /\ next_task_index_' = next_task_index_ /\ pool' = pool
      BY <2>1, <2>6 DEF RunNextIteration
    <3>2. next_task_index_ \in 0..N
      BY <1>2 DEF Account, Typed
    <3>3. Finished'
      BY <1>2, <1>3, <1>7, <2>3, <2>4, <2>6, <3>1, <3>2 DEF Finished
    <3>4. QED
      BY <1>7, <2>4, <2>5, <3>3 DEF Inv
  <2>7. CASE ~(current_iteration_' >= Iterations)
    <3>1. /\ completions' = completions /\ pending_count_' = N
          /\ DispatchNextBatch(current_iteration_', 0, 0)
      BY <2>1, <2>7 DEF RunNextIteration
    <3>2. /\ pool' = pool \cup Posted(current_iteration_', Batch(0, 0))
          /\ next_task_index_' = 0 + d /\ active_count_' = 0 + d
      BY <3>1 DEF DispatchNextBatch, Posted
    <3>3. d \in Nat
      BY <1>3, BatchIsInterval DEF ConstantsAssumption
    <3>4. /\ pool' = Posted(current_iteration_', Batch(0, 0))
          /\ next_task_index_' = d /\ active_count_' = d
      BY <2>3, <3>2, <3>3
    <3>5. /\ Account(current_iteration_', Posted(current_iteration_', Batch(0, 0)),
                     {}, << >>, d, d)
          /\ d <= max_concurrent /\ (d < N => d = max_concurrent)
      BY <1>3, <2>4, StartedAccount
    <3>6. replies' = {}
      BY <1>7, <2>3
    <3>7. Account(current_iteration_, pool, replies, current_results_,
                  next_task_index_, active_count_)'
      BY <2>4, <3>4, <3>5, <3>6, Zenon
    <3>8. /\ active_count_' <= max_concurrent'
          /\ next_task_index_' < N => active_count_' = max_concurrent'
      BY <1>7, <3>4, <3>5, Zenon
    <3>9. pending_count_' = N - Len(current_results_') /\ pending_count_' > 0
      BY <1>3, <2>4, <3>1
    <3>10. Running'
      BY <1>2, <1>3, <2>4, <2>7, <3>1, <3>7, <3>8, <3>9 DEF Running
    <3>11. QED
      BY <1>7, <2>4, <2>5, <3>10 DEF Inv
  <2>8. QED
    BY <2>6, <2>7
<1>10. QED
  BY <1>8, <1>9

LEMMA NextInv == ConstantsAssumption /\ Inv /\ [Next]_vars => Inv'
<1> SUFFICES ASSUME ConstantsAssumption, Inv, [Next]_vars PROVE Inv'
  OBVIOUS
<1>1. CASE \E x \in pool : RunWork(x)
  BY <1>1, RunWorkInv
<1>2. CASE \E r \in replies : OnTaskComplete(r)
  BY <1>2, OnTaskCompleteInv
<1>3. CASE UNCHANGED vars
  <2>1. /\ max_concurrent' = max_concurrent /\ current_iteration_' = current_iteration_
        /\ pending_count_' = pending_count_ /\ active_count_' = active_count_
        /\ next_task_index_' = next_task_index_ /\ current_results_' = current_results_
        /\ all_summaries_' = all_summaries_ /\ completions' = completions
        /\ pool' = pool /\ replies' = replies /\ consumed' = consumed
    BY <1>3 DEF vars
  <2>2. Running => Running'
    BY <2>1, Zenon DEF Running
  <2>3. Finished => Finished'
    BY <2>1, Zenon DEF Finished
  <2>4. Summarised => Summarised'
    BY <2>1, Zenon DEF Summarised
  <2>5. QED
    BY <2>1, <2>2, <2>3, <2>4, Zenon DEF Inv
<1>4. QED
  BY <1>1, <1>2, <1>3 DEF Next

\* The account of the tasks holds throughout every run of the loop.
THEOREM InvHolds == Spec => []Inv
<1>1. QED
  BY ConstantsAssumption, InitInv, NextInv, PTL DEF Spec

-----------------------------------------------------------------------------
(* What the account implies.                                               *)

LEMMA InvTypeOK == ConstantsAssumption /\ Inv => TypeOK
<1> SUFFICES ASSUME ConstantsAssumption, Inv PROVE TypeOK
  OBVIOUS
<1>1. N \in Nat
  BY DEF ConstantsAssumption
<1>2. CASE Running
  <2>1. /\ Typed(current_iteration_, pool, replies, current_results_,
                 next_task_index_, active_count_)
        /\ pending_count_ = N - Len(current_results_) /\ pending_count_ > 0
        /\ completions = 0
    BY <1>2 DEF Running, Account
  <2>2. pending_count_ \in Nat
    BY <1>1, <2>1 DEF Typed
  <2>3. QED
    BY <2>1, <2>2 DEF TypeOK, Typed, Inv, Summarised
<1>3. CASE Finished
  BY <1>3 DEF TypeOK, Finished, Inv, Summarised
<1>4. QED
  BY <1>2, <1>3 DEF Inv

LEMMA InvConcurrencyBounded == ConstantsAssumption /\ Inv => ConcurrencyBounded
<1> SUFFICES ASSUME ConstantsAssumption, Inv PROVE ConcurrencyBounded
  OBVIOUS
<1>1. CASE Running
  BY <1>1 DEF Running, Account, Sizes, ConcurrencyBounded
<1>2. CASE Finished
  <2>1. Cardinality(pool) = 0 /\ Cardinality(replies) = 0
    BY <1>2, FS_EmptySet, Zenon DEF Finished
  <2>2. max_concurrent \in Nat
    BY DEF Inv, ConstantsAssumption
  <2>3. QED
    BY <1>2, <2>1, <2>2 DEF Finished, ConcurrencyBounded
<1>3. QED
  BY <1>1, <1>2 DEF Inv

LEMMA InvIterationsDoNotMix == ConstantsAssumption /\ Inv => IterationsDoNotMix
<1> SUFFICES ASSUME ConstantsAssumption, Inv PROVE IterationsDoNotMix
  OBVIOUS
<1>1. CASE Running
  <2>1. /\ OneIteration(current_iteration_, pool, replies, current_results_)
        /\ OnePlace(pool, replies, current_results_)
        /\ SomePlace(pool, replies, current_results_, next_task_index_)
        /\ Typed(current_iteration_, pool, replies, current_results_,
                 next_task_index_, active_count_)
    BY <1>1 DEF Running, Account
  <2>2. DOMAIN current_results_ = 1..Len(current_results_)
    BY <2>1 DEF Typed
  <2>3. /\ \A x \in pool \union replies : x.iteration = current_iteration_
        /\ \A i \in DOMAIN current_results_ :
             current_results_[i].iteration = current_iteration_
    BY <2>1, <2>2 DEF OneIteration
  <2>4. Outstanding \intersect Done = {}
    BY <2>1, <2>2 DEF OnePlace, Outstanding, IndicesOf, Done
  <2>5. Outstanding \union Done = 0..(next_task_index_ - 1)
    <3>1. \A i \in 1..Len(current_results_) : current_results_[i] \in Results
      BY <2>1 DEF Typed
    <3>2. /\ \A x \in pool : x.index \in Nat
          /\ \A r \in replies : r.index \in Nat
          /\ \A i \in 1..Len(current_results_) : current_results_[i].index \in Nat
      BY <2>1, <3>1 DEF Typed, Results, Indices, ConstantsAssumption
    <3>3. next_task_index_ \in Nat
      BY <2>1 DEF Typed, ConstantsAssumption
    <3>4. Outstanding \union Done \subseteq 0..(next_task_index_ - 1)
      BY <2>1, <2>2, <3>2, <3>3 DEF SomePlace, Outstanding, IndicesOf, Done
    <3>5. 0..(next_task_index_ - 1) \subseteq Outstanding \union Done
      BY <2>1, <2>2 DEF SomePlace, Outstanding, IndicesOf, Done
    <3>6. QED
      BY <3>4, <3>5
  <2>6. QED
    BY <2>3, <2>4, <2>5 DEF IterationsDoNotMix
<1>2. CASE Finished
  BY <1>2 DEF Finished, IterationsDoNotMix, Outstanding, IndicesOf, Done
<1>3. QED
  BY <1>1, <1>2 DEF Inv

LEMMA InvSummariesComplete == ConstantsAssumption /\ Inv => SummariesComplete
<1> SUFFICES ASSUME ConstantsAssumption, Inv PROVE SummariesComplete
  OBVIOUS
<1>1. completions = IF current_iteration_ = Iterations THEN 1 ELSE 0
  BY DEF Inv, Running, Finished, ConstantsAssumption
<1>2. /\ Len(all_summaries_) = current_iteration_
      /\ \A k \in DOMAIN all_summaries_ : Full(all_summaries_[k], k - 1)
  BY DEF Inv, Summarised
<1>3. QED
  BY <1>1, <1>2, Zenon DEF SummariesComplete, Full

LEMMA InvLoopHasDriver == ConstantsAssumption /\ Inv => LoopHasDriver
<1> SUFFICES ASSUME ConstantsAssumption, Inv, max_concurrent > 0, completions = 0
             PROVE  Outstanding # {}
  BY DEF LoopHasDriver
<1>1. Running
  BY DEF Inv, Finished
<1>2. /\ Typed(current_iteration_, pool, replies, current_results_,
               next_task_index_, active_count_)
      /\ Sizes(pool, replies, current_results_, next_task_index_, active_count_)
      /\ next_task_index_ < N => active_count_ = max_concurrent
      /\ pending_count_ = N - Len(current_results_) /\ pending_count_ > 0
  BY <1>1 DEF Running, Account
<1>3. N \in Nat /\ max_concurrent \in Nat /\ Len(current_results_) \in Nat
      /\ next_task_index_ \in 0..N /\ active_count_ \in Nat
  BY <1>2 DEF Typed, Inv, ConstantsAssumption
<1>4. active_count_ > 0
  <2>1. CASE next_task_index_ < N
    BY <1>2, <1>3, <2>1
  <2>2. CASE next_task_index_ = N
    BY <1>2, <1>3, <2>2 DEF Sizes
  <2>3. QED
    BY <1>3, <2>1, <2>2
<1>5. ASSUME pool = {}, replies = {} PROVE FALSE
  <2>1. Cardinality(pool) = 0 /\ Cardinality(replies) = 0
    BY <1>5, FS_EmptySet, Zenon
  <2>2. QED
    BY <1>2, <1>4, <2>1 DEF Sizes
<1>6. QED
  BY <1>5 DEF Outstanding, IndicesOf

\* Type correctness; none of the size_t counters of the runner wraps.
THEOREM TypeCorrect == Spec => []TypeOK
<1>1. QED
  BY ConstantsAssumption, InvHolds, InvTypeOK, PTL

\* active_count_ counts the outstanding tasks and stays within max_concurrent.
THEOREM ConcurrencyIsBounded == Spec => []ConcurrencyBounded
<1>1. QED
  BY ConstantsAssumption, InvHolds, InvConcurrencyBounded, PTL

\* Resetting the counters between iterations never orphans a task.
THEOREM IterationsAreSeparate == Spec => []IterationsDoNotMix
<1>1. QED
  BY ConstantsAssumption, InvHolds, InvIterationsDoNotMix, PTL

\* Each summary has one result per task, and on_complete_ is run once, at the
\* end of the last iteration.
THEOREM SummariesAreComplete == Spec => []SummariesComplete
<1>1. QED
  BY ConstantsAssumption, InvHolds, InvSummariesComplete, PTL

\* The loop does not run out of replies before it is complete.
THEOREM LoopIsDriven == Spec => []LoopHasDriver
<1>1. QED
  BY ConstantsAssumption, InvHolds, InvLoopHasDriver, PTL
=============================================================================
