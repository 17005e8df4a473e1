--------------------------- MODULE RefCountProofs ---------------------------
(***************************************************************************)
(* Proofs about RefCount for any number of threads and any finite set of   *)
(* references: the counter is exact, the last release frees the object     *)
(* after all uses of it, and every step is a step of SharedObject.         *)
(***************************************************************************)
EXTENDS RefCount, TLAPS, FiniteSetTheorems

(* The inductive invariant.  The counter is the number of references that  *)
(* exist; one thread at most is on its way to free the object, and then    *)
(* there is no reference.  Only references that exist are lent, and not to *)
(* their holders.  For the memory order: what a thread did with the object *)
(* and nobody has published was seen by the holder of some reference, whose *)
(* Release decrement is therefore still to come, or by one who borrowed it *)
(* and will have to give it back before.                                   *)
Counted == ref_count = Cardinality(Held)

Releasing ==
    /\ \A t \in Threads : pc[t] # "idle" =>
          /\ Held = {} /\ ~freed
          /\ \A u \in Threads : pc[u] # "idle" => u = t
    /\ freed => Held = {}

OwnUsesSeen == \A t \in Threads : t \notin unseen[t]

LoansOfHeld ==
    \A r \in Refs : /\ borrowers[r] # {} => r \in Held
                    /\ holder[r] \notin borrowers[r]

\* The threads that have reference r.
Having(r) == {holder[r]} \union borrowers[r]

HolderHasSeen ==
    \A u \in unpublished : \E r \in Held : \E w \in Having(r) : u \notin unseen[w]

IInv ==
    /\ TypeOK /\ Counted /\ Releasing /\ LoansOfHeld
    /\ OwnUsesSeen /\ HolderHasSeen
    /\ UsesHappenBeforeFree /\ SoleIsAlone

\* A finite set of references, and what it means to hold one.
LEMMA HeldFinite == Held \subseteq Refs /\ IsFiniteSet(Held) /\ Cardinality(Held) \in Nat
<1>1. Held \subseteq Refs
  BY DEF Held
<1>2. IsFiniteSet(Held)
  BY <1>1, ConstantsAssumption, FS_Subset
<1>3. QED
  BY <1>1, <1>2, FS_CardinalityType

\* add_ref: one reference more.
LEMMA HeldGrows ==
    ASSUME TypeOK, NEW t \in Threads, NEW n \in Refs,
           holder[n] = NoThread, holder' = [holder EXCEPT ![n] = t]
    PROVE  n \notin Held /\ Held' = Held \union {n}
BY ConstantsAssumption DEF TypeOK, Held

\* release: one reference less.
LEMMA HeldShrinks ==
    ASSUME TypeOK, NEW r \in Refs, holder' = [holder EXCEPT ![r] = NoThread]
    PROVE  Held' = Held \ {r}
BY DEF TypeOK, Held

\* Handing a reference over changes no reference.
LEMMA HeldMoves ==
    ASSUME TypeOK, NEW r \in Refs, NEW t \in Threads, NEW u \in Threads,
           holder[r] = t, holder' = [holder EXCEPT ![r] = u]
    PROVE  Held' = Held
BY ConstantsAssumption DEF TypeOK, Held

LEMMA HeldSame ==
    ASSUME holder' = holder
    PROVE  Held' = Held
BY DEF Held

\* A thread with a reference is not alone with a freed object.
LEMMA HolderHolds ==
    ASSUME TypeOK, Releasing, LoansOfHeld, NEW t \in Threads, NEW r \in Refs,
           With(t, r) \/ Owns(t, r) \/ t \in borrowers[r]
    PROVE  /\ r \in Held /\ ~freed
           /\ \A u \in Threads : pc[u] = "idle"
<1>1. r \in Held
  BY ConstantsAssumption DEF LoansOfHeld, With, Owns, Held
<1>2. QED
  BY <1>1 DEF TypeOK, Releasing

\* Who has a reference that exists is a thread.
LEMMA HavingThreads ==
    ASSUME TypeOK, NEW r \in Held
    PROVE  r \in Refs /\ holder[r] \in Threads /\ Having(r) \subseteq Threads
BY DEF TypeOK, Held, Having

LEMMA InitIInv == Init => IInv
<1> SUFFICES ASSUME Init PROVE IInv
  OBVIOUS
<1>1. PICK r \in Refs, t \in Threads :
        holder = [x \in Refs |-> IF x = r THEN t ELSE NoThread]
  BY DEF Init
<1>2. Held = {r}
  BY <1>1, ConstantsAssumption DEF Held
<1>3. TypeOK
  BY <1>1 DEF Init, TypeOK
<1>4. Counted
  BY <1>2, FS_Singleton DEF Init, Counted
<1>5. /\ Releasing /\ LoansOfHeld /\ OwnUsesSeen /\ HolderHasSeen
      /\ UsesHappenBeforeFree /\ SoleIsAlone
  BY <1>2 DEF Init, Releasing, LoansOfHeld, OwnUsesSeen, HolderHasSeen,
              UsesHappenBeforeFree, SoleIsAlone
<1>6. QED
  BY <1>3, <1>4, <1>5 DEF IInv


\* Reading or writing the object: the reference used stays as a witness.
LEMMA UseIInv ==
    ASSUME IInv, NEW t \in Threads, NEW r \in Refs, Use(t, r)
    PROVE  IInv'
<1>1. /\ TypeOK /\ Counted /\ Releasing /\ LoansOfHeld /\ OwnUsesSeen /\ HolderHasSeen
      /\ SoleIsAlone
  BY DEF IInv
<1>2. Held' = Held
  BY HeldSame DEF Use
<1>3. /\ r \in Held /\ ~freed
      /\ \A u \in Threads : pc[u] = "idle"
  BY <1>1, HolderHolds DEF Use
<1>4. TypeOK'
  BY <1>1 DEF TypeOK, Use
<1>5. Counted' /\ Releasing' /\ LoansOfHeld' /\ SoleIsAlone'
  BY <1>1, <1>2 DEF Use, Counted, Releasing, LoansOfHeld, SoleIsAlone
<1>6. OwnUsesSeen'
  BY <1>1 DEF Use, OwnUsesSeen, TypeOK
<1>7. HolderHasSeen'
  <2> SUFFICES ASSUME NEW u \in unpublished'
               PROVE  \E x \in Held : \E w \in Having(x) : u \notin unseen'[w]
    BY <1>2 DEF HolderHasSeen, Having, Use
  <2>1. CASE u = t
    <3>1. t \in Having(r)
      BY DEF Use, With, Having
    <3>2. t \notin unseen'[t]
      BY <1>1 DEF Use, OwnUsesSeen
    <3>3. QED
      BY <1>3, <2>1, <3>1, <3>2
  <2>2. CASE u # t
    <3>0. PICK x \in Held : \E w \in Having(x) : u \notin unseen[w]
      BY <1>1, <2>2 DEF Use, HolderHasSeen
    <3>1. PICK w \in Having(x) : u \notin unseen[w]
      BY <3>0
    <3>2. w \in Threads
      BY <1>1, HavingThreads
    <3>3. QED
      BY <2>2, <3>1, <3>2 DEF Use
  <2>3. QED
    BY <2>1, <2>2
<1>8. UsesHappenBeforeFree'
  BY <1>3 DEF Use, UsesHappenBeforeFree
<1>9. QED
  BY <1>4, <1>5, <1>6, <1>7, <1>8 DEF IInv

\* add_ref: the counter and the references grow together.
LEMMA AddRefIInv ==
    ASSUME IInv, NEW t \in Threads, NEW r \in Refs, NEW n \in Refs,
           NEW k \in {"guard", "raw"}, AddRef(t, r, n, k)
    PROVE  IInv'
<1>1. /\ TypeOK /\ Counted /\ Releasing /\ LoansOfHeld /\ OwnUsesSeen /\ HolderHasSeen
      /\ SoleIsAlone
  BY DEF IInv
<1>2. n \notin Held /\ Held' = Held \union {n}
  BY <1>1, HeldGrows DEF AddRef
<1>3. /\ r \in Held /\ ~freed
      /\ \A u \in Threads : pc[u] = "idle"
  BY <1>1, HolderHolds DEF AddRef
<1>4. TypeOK'
  BY <1>1 DEF TypeOK, AddRef, Forget
<1>5. Counted'
  <2>1. Cardinality(Held \union {n}) = Cardinality(Held) + 1
    BY <1>2, HeldFinite, FS_AddElement
  <2>2. ref_count' = ref_count + 1
    BY DEF AddRef
  <2>3. QED
    BY <1>1, <1>2, <2>1, <2>2 DEF Counted
<1>6. /\ Releasing' /\ OwnUsesSeen' /\ UsesHappenBeforeFree'
      /\ LoansOfHeld'
  <2>1. Releasing' /\ OwnUsesSeen' /\ UsesHappenBeforeFree'
    BY <1>1, <1>3 DEF AddRef, Releasing, OwnUsesSeen, UsesHappenBeforeFree
  <2>2. borrowers[n] = {}
    BY <1>1, <1>2 DEF LoansOfHeld
  <2>3. LoansOfHeld'
    BY <1>1, <1>2, <2>2 DEF LoansOfHeld, AddRef, TypeOK
  <2>4. QED
    BY <2>1, <2>3
<1>7. HolderHasSeen'
  <2> SUFFICES ASSUME NEW u \in unpublished
               PROVE  \E x \in Held' : \E w \in Having(x)' : u \notin unseen[w]
    BY DEF HolderHasSeen, AddRef
  <2>0. PICK x \in Held : \E w \in Having(x) : u \notin unseen[w]
    BY <1>1 DEF HolderHasSeen
  <2>1. PICK w \in Having(x) : u \notin unseen[w]
    BY <2>0
  <2>2. x \in Held' /\ x # n
    BY <1>2
  <2>3. Having(x)' = Having(x)
    BY <1>1, <2>2, HeldFinite DEF AddRef, TypeOK, Having
  <2>4. QED
    BY <2>1, <2>2, <2>3
<1>8. SoleIsAlone'
  <2>1. sole # NoThread => sole = t
    BY <1>1, <1>3 DEF SoleIsAlone, AddRef, With
  <2>2. sole' = NoThread
    BY <2>1 DEF AddRef, Forget
  <2>3. QED
    BY <2>2 DEF SoleIsAlone
<1>9. QED
  BY <1>4, <1>5, <1>6, <1>7, <1>8 DEF IInv

\* from_raw and the conversion back change only how a reference is held.
LEMMA ConvertIInv ==
    ASSUME IInv, NEW t \in Threads, NEW r \in Refs, FromRaw(t, r) \/ IntoRaw(t, r)
    PROVE  IInv'
<1>1. /\ holder' = holder /\ ref_count' = ref_count /\ freed' = freed /\ pc' = pc
      /\ borrowers' = borrowers /\ unseen' = unseen /\ unpublished' = unpublished /\ sole' = sole
      /\ TypeOK'
  BY DEF FromRaw, IntoRaw, IInv, TypeOK
<1>2. Held' = Held
  BY <1>1, HeldSame
<1>3. QED
  BY <1>1, <1>2 DEF IInv, Counted, Releasing, LoansOfHeld, OwnUsesSeen, HolderHasSeen,
                    Having, UsesHappenBeforeFree, SoleIsAlone

\* Handing over: the receiver has seen what the giver has seen.
LEMMA SendIInv ==
    ASSUME IInv, NEW t \in Threads, NEW r \in Refs, NEW v \in Threads, Send(t, r, v)
    PROVE  IInv'
<1>1. /\ TypeOK /\ Counted /\ Releasing /\ LoansOfHeld /\ OwnUsesSeen /\ HolderHasSeen
      /\ SoleIsAlone
  BY DEF IInv
<1>2. Held' = Held
  BY <1>1, HeldMoves DEF Send, Owns
<1>3. /\ r \in Held /\ ~freed
      /\ \A u \in Threads : pc[u] = "idle"
  BY <1>1, HolderHolds DEF Send
<1>4. TypeOK'
  BY <1>1 DEF TypeOK, Send, Forget
<1>5. Counted' /\ Releasing' /\ LoansOfHeld' /\ UsesHappenBeforeFree'
  <2>1. LoansOfHeld'
    BY <1>1, <1>2 DEF Send, Owns, LoansOfHeld, TypeOK
  <2>2. QED
    BY <1>1, <1>2, <1>3, <2>1 DEF Send, Counted, Releasing, UsesHappenBeforeFree
<1>6. OwnUsesSeen'
  BY <1>1 DEF Send, OwnUsesSeen, TypeOK
<1>7. HolderHasSeen'
  <2> SUFFICES ASSUME NEW u \in unpublished
               PROVE  \E x \in Held : \E w \in Having(x)' : u \notin unseen'[w]
    BY <1>2 DEF HolderHasSeen, Send
  <2>0. PICK x \in Held : \E w \in Having(x) : u \notin unseen[w]
    BY <1>1 DEF HolderHasSeen
  <2>1. PICK w \in Having(x) : u \notin unseen[w]
    BY <2>0
  <2>2. x \in Refs /\ w \in Threads
    BY <1>1, HavingThreads
  <2>3. CASE x = r
    <3>1. w = t /\ v \in Having(x)'
      BY <1>1, <2>2, <2>3 DEF Send, Owns, Having, TypeOK
    <3>2. u \notin unseen'[v]
      BY <1>1, <2>1, <3>1 DEF Send, TypeOK
    <3>3. QED
      BY <3>1, <3>2
  <2>4. CASE x # r
    <3>1. Having(x)' = Having(x)
      BY <1>1, <2>2, <2>4 DEF Send, Having, TypeOK
    <3>2. u \notin unseen'[w]
      BY <1>1, <2>1, <2>2 DEF Send, TypeOK
    <3>3. QED
      BY <3>1, <3>2
  <2>5. QED
    BY <2>3, <2>4
<1>8. SoleIsAlone'
  <2>1. sole # NoThread => sole = t
    BY <1>1, <1>3 DEF SoleIsAlone, Send, Owns
  <2>2. sole' = NoThread
    BY <2>1 DEF Send, Forget
  <2>3. QED
    BY <2>2 DEF SoleIsAlone
<1>9. QED
  BY <1>4, <1>5, <1>6, <1>7, <1>8 DEF IInv

\* Lending: the borrower has seen what the lender has seen.
LEMMA LendIInv ==
    ASSUME IInv, NEW t \in Threads, NEW r \in Refs, NEW v \in Threads, Lend(t, r, v)
    PROVE  IInv'
<1>1. /\ TypeOK /\ Counted /\ Releasing /\ LoansOfHeld /\ OwnUsesSeen /\ HolderHasSeen
      /\ SoleIsAlone
  BY DEF IInv
<1>2. Held' = Held
  BY HeldSame DEF Lend
<1>3. /\ r \in Held /\ ~freed
      /\ \A u \in Threads : pc[u] = "idle"
  BY <1>1, HolderHolds DEF Lend
<1>4. TypeOK'
  BY <1>1 DEF TypeOK, Lend, Forget
<1>5. Counted' /\ Releasing' /\ UsesHappenBeforeFree'
  BY <1>1, <1>2, <1>3 DEF Lend, Counted, Releasing, UsesHappenBeforeFree
<1>6. LoansOfHeld'
  BY <1>1, <1>2, <1>3 DEF Lend, LoansOfHeld, TypeOK
<1>7. OwnUsesSeen'
  BY <1>1 DEF Lend, OwnUsesSeen, TypeOK
<1>8. HolderHasSeen'
  <2> SUFFICES ASSUME NEW u \in unpublished
               PROVE  \E x \in Held : \E w \in Having(x)' : u \notin unseen'[w]
    BY <1>2 DEF HolderHasSeen, Lend
  <2>0. PICK x \in Held : \E w \in Having(x) : u \notin unseen[w]
    BY <1>1 DEF HolderHasSeen
  <2>1. PICK w \in Having(x) : u \notin unseen[w]
    BY <2>0
  <2>2. x \in Refs /\ w \in Threads
    BY <1>1, HavingThreads
  <2>3. w \in Having(x)'
    BY <1>1, <2>2 DEF Lend, Having, TypeOK
  <2>4. u \notin unseen'[w]
    BY <1>1, <2>1, <2>2 DEF Lend, TypeOK
  <2>5. QED
    BY <2>3, <2>4
<1>9. SoleIsAlone'
  <2>1. sole # NoThread => sole = t
    BY <1>1, <1>3 DEF SoleIsAlone, Lend, With
  <2>2. sole' = NoThread
    BY <2>1 DEF Lend, Forget
  <2>3. QED
    BY <2>2 DEF SoleIsAlone
<1>10. QED
  BY <1>4, <1>5, <1>6, <1>7, <1>8, <1>9 DEF IInv

\* Giving back: what the borrower has seen the holder has seen.
LEMMA GiveBackIInv ==
    ASSUME IInv, NEW t \in Threads, NEW r \in Refs, GiveBack(t, r)
    PROVE  IInv'
<1>1. /\ TypeOK /\ Counted /\ Releasing /\ LoansOfHeld /\ OwnUsesSeen /\ HolderHasSeen
      /\ SoleIsAlone
  BY DEF IInv
<1>2. Held' = Held
  BY HeldSame DEF GiveBack
<1>3. /\ r \in Held /\ ~freed
      /\ \A u \in Threads : pc[u] = "idle"
  BY <1>1, HolderHolds DEF GiveBack
<1>4. holder[r] \in Threads
  BY <1>1, <1>3, HavingThreads
<1>5. TypeOK'
  BY <1>1, <1>4 DEF TypeOK, GiveBack
<1>6. Counted' /\ Releasing' /\ UsesHappenBeforeFree'
  BY <1>1, <1>2, <1>3 DEF GiveBack, Counted, Releasing, UsesHappenBeforeFree
<1>7. LoansOfHeld'
  BY <1>1, <1>2, <1>3 DEF GiveBack, LoansOfHeld, TypeOK
<1>8. OwnUsesSeen'
  BY <1>1 DEF GiveBack, OwnUsesSeen, TypeOK
<1>9. HolderHasSeen'
  <2> SUFFICES ASSUME NEW u \in unpublished
               PROVE  \E x \in Held : \E w \in Having(x)' : u \notin unseen'[w]
    BY <1>2 DEF HolderHasSeen, GiveBack
  <2>0. PICK x \in Held : \E w \in Having(x) : u \notin unseen[w]
    BY <1>1 DEF HolderHasSeen
  <2>1. PICK w \in Having(x) : u \notin unseen[w]
    BY <2>0
  <2>2. x \in Refs /\ w \in Threads
    BY <1>1, HavingThreads
  <2>3. u \notin unseen'[w]
    BY <1>1, <2>1, <2>2 DEF GiveBack, TypeOK
  <2>4. CASE w \in Having(x)'
    BY <2>3, <2>4
  <2>5. CASE w \notin Having(x)'
    <3>1. w = t /\ x = r
      BY <1>1, <2>2, <2>5 DEF GiveBack, Having, TypeOK
    <3>2. holder[r] \in Having(r)'
      BY DEF GiveBack, Having
    <3>3. u \notin unseen'[holder[r]]
      BY <1>1, <1>4, <2>1, <3>1 DEF GiveBack, TypeOK
    <3>4. QED
      BY <3>1, <3>2, <3>3
  <2>6. QED
    BY <2>4, <2>5
<1>10. SoleIsAlone'
  BY <1>1, <1>2, <1>3 DEF SoleIsAlone, GiveBack
<1>11. QED
  BY <1>5, <1>6, <1>7, <1>8, <1>9, <1>10 DEF IInv

\* has_one_ref: a count of one is a set of one.
LEMMA HasOneRefIInv ==
    ASSUME IInv, NEW t \in Threads, NEW r \in Refs, HasOneRef(t, r)
    PROVE  IInv'
<1>1. TypeOK /\ Counted /\ Releasing /\ LoansOfHeld /\ SoleIsAlone
  BY DEF IInv
<1>2. Held' = Held
  BY HeldSame DEF HasOneRef
<1>3. r \in Held
  BY <1>1, HolderHolds DEF HasOneRef
<1>4. Held = {r}
  <2>1. Cardinality(Held) = 1
    BY <1>1 DEF Counted, HasOneRef
  <2>2. PICK x : Held = {x}
    BY <2>1, HeldFinite, FS_Singleton
  <2>3. QED
    BY <1>3, <2>2
<1>5. SoleIsAlone'
  <2>1. CASE Owns(t, r)
    BY <1>2, <1>4, <2>1 DEF SoleIsAlone, HasOneRef, Owns
  <2>2. CASE ~Owns(t, r)
    BY <1>1, <1>2, <2>2 DEF SoleIsAlone, HasOneRef
  <2>3. QED
    BY <2>1, <2>2
<1>6. TypeOK'
  BY <1>1 DEF HasOneRef, TypeOK
<1>7. QED
  BY <1>2, <1>5, <1>6 DEF IInv, HasOneRef, Counted, Releasing, LoansOfHeld, OwnUsesSeen,
                          HolderHasSeen, Having, UsesHappenBeforeFree

\* release: the last one leaves nothing unpublished.
LEMMA ReleaseIInv ==
    ASSUME IInv, NEW t \in Threads, NEW r \in Refs, Release(t, r)
    PROVE  IInv'
<1>1. /\ TypeOK /\ Counted /\ Releasing /\ LoansOfHeld /\ OwnUsesSeen /\ HolderHasSeen
      /\ SoleIsAlone
  BY DEF IInv
<1>2. Held' = Held \ {r}
  BY <1>1, HeldShrinks DEF Release
<1>3. /\ r \in Held /\ ~freed
      /\ \A u \in Threads : pc[u] = "idle"
  BY <1>1, HolderHolds DEF Release
<1>4. /\ Cardinality(Held \ {r}) = Cardinality(Held) - 1
      /\ Cardinality(Held) \in Nat /\ Cardinality(Held \ {r}) \in Nat
  BY <1>3, HeldFinite, FS_RemoveElement, FS_CardinalityType
<1>5. ref_count' = ref_count - 1
  BY DEF Release
<1>6. Counted'
  BY <1>1, <1>2, <1>4, <1>5 DEF Counted
<1>7. ref_count = 1 => Held \ {r} = {}
  <2>1. ref_count = 1 => Cardinality(Held \ {r}) = 0
    BY <1>1, <1>4 DEF Counted
  <2>2. IsFiniteSet(Held \ {r})
    BY HeldFinite, FS_Subset
  <2>3. QED
    BY <2>1, <2>2, FS_EmptySet
<1>8. TypeOK'
  <2>1. ref_count' \in Nat
    BY <1>1, <1>4, <1>5 DEF Counted
  <2>2. QED
    BY <1>1, <2>1 DEF Release, Forget, TypeOK
<1>9. Releasing'
  <2>1. \A u \in Threads : pc'[u] # "idle" => u = t /\ ref_count = 1
    BY <1>1, <1>3 DEF Release, TypeOK
  <2>2. ~freed'
    BY <1>3 DEF Release
  <2>3. QED
    BY <1>2, <1>7, <2>1, <2>2 DEF Releasing
<1>10. OwnUsesSeen'
  BY <1>1 DEF OwnUsesSeen, Release
<1>11. HolderHasSeen'
  <2> SUFFICES ASSUME NEW u \in unpublished, u \in unseen[t]
               PROVE  \E x \in Held \ {r} : \E w \in Having(x)' : u \notin unseen[w]
    BY <1>2 DEF HolderHasSeen, Release
  <2>0. PICK x \in Held : \E w \in Having(x) : u \notin unseen[w]
    BY <1>1 DEF HolderHasSeen
  <2>1. PICK w \in Having(x) : u \notin unseen[w]
    BY <2>0
  <2>2. x # r
    BY <2>1 DEF Release, Owns, Having
  <2>3. Having(x)' = Having(x)
    BY <1>1, <2>2, HeldFinite DEF Release, TypeOK, Having
  <2>4. QED
    BY <2>1, <2>2, <2>3
<1>12. UsesHappenBeforeFree'
  BY <1>1, <1>3 DEF UsesHappenBeforeFree, Release, TypeOK
<1>13. SoleIsAlone'
  <2>1. sole # NoThread => sole = t
    BY <1>1, <1>3 DEF SoleIsAlone, Release, Owns
  <2>2. sole' = NoThread
    BY <2>1 DEF Release, Forget
  <2>3. QED
    BY <2>2 DEF SoleIsAlone
<1>14. LoansOfHeld'
  <2>1. NoThread \notin borrowers[r] /\ borrowers[r] = {}
    BY DEF Release, Owns
  <2>2. QED
    BY <1>1, <1>2, <2>1 DEF LoansOfHeld, Release, TypeOK
<1>15. QED
  BY <1>6, <1>8, <1>9, <1>10, <1>11, <1>12, <1>13, <1>14 DEF IInv

\* fence(Acquire): everything is published, so everything is seen.
LEMMA FenceIInv ==
    ASSUME IInv, NEW t \in Threads, Fence(t)
    PROVE  IInv'
<1>1. /\ TypeOK /\ Counted /\ Releasing /\ LoansOfHeld /\ OwnUsesSeen /\ HolderHasSeen
      /\ SoleIsAlone
      /\ UsesHappenBeforeFree
  BY DEF IInv
<1>2. Held' = Held
  BY HeldSame DEF Fence
<1>3. Held = {} /\ ~freed /\ \A u \in Threads : pc[u] # "idle" => u = t
  BY <1>1 DEF Fence, Releasing
<1>4. unpublished = {}
  BY <1>1, <1>3 DEF HolderHasSeen
<1>5. TypeOK'
  BY <1>1 DEF Fence, TypeOK
<1>6. Counted' /\ SoleIsAlone' /\ LoansOfHeld'
  BY <1>1, <1>2 DEF Fence, Counted, SoleIsAlone, LoansOfHeld
<1>7. Releasing'
  BY <1>1, <1>2, <1>3 DEF Fence, Releasing, TypeOK
<1>8. OwnUsesSeen'
  BY <1>1 DEF Fence, OwnUsesSeen, TypeOK
<1>9. HolderHasSeen'
  BY <1>4 DEF Fence, HolderHasSeen
<1>10. UsesHappenBeforeFree'
  BY <1>1, <1>3, <1>4 DEF Fence, UsesHappenBeforeFree, TypeOK
<1>11. QED
  BY <1>5, <1>6, <1>7, <1>8, <1>9, <1>10 DEF IInv

LEMMA FreeIInv ==
    ASSUME IInv, NEW t \in Threads, Free(t)
    PROVE  IInv'
<1>1. /\ TypeOK /\ Counted /\ Releasing /\ LoansOfHeld /\ OwnUsesSeen /\ HolderHasSeen
      /\ SoleIsAlone
      /\ UsesHappenBeforeFree
  BY DEF IInv
<1>2. Held' = Held
  BY HeldSame DEF Free
<1>3. Held = {} /\ ~freed /\ \A u \in Threads : pc[u] # "idle" => u = t
  BY <1>1 DEF Free, Releasing
<1>4. TypeOK'
  BY <1>1 DEF Free, TypeOK
<1>5. Counted' /\ SoleIsAlone' /\ LoansOfHeld' /\ OwnUsesSeen' /\ HolderHasSeen'
  BY <1>1, <1>2 DEF Free, Counted, SoleIsAlone, LoansOfHeld, OwnUsesSeen,
                    HolderHasSeen, Having
<1>6. \A u \in Threads : pc'[u] = "idle"
  BY <1>1, <1>3 DEF Free, TypeOK
<1>7. Releasing' /\ UsesHappenBeforeFree'
  BY <1>2, <1>3, <1>6 DEF Releasing, UsesHappenBeforeFree
<1>8. QED
  BY <1>4, <1>5, <1>7 DEF IInv

LEMMA NextIInv == IInv /\ [Next]_vars => IInv'
<1> SUFFICES ASSUME IInv, [Next]_vars PROVE IInv'
  OBVIOUS
<1>1. CASE Next
  <2>1. PICK t \in Threads :
          \/ \E r \in Refs :
               \/ Use(t, r) \/ FromRaw(t, r) \/ IntoRaw(t, r)
               \/ HasOneRef(t, r) \/ Release(t, r)
               \/ \E n \in Refs, k \in {"guard", "raw"} : AddRef(t, r, n, k)
               \/ \E u \in Threads : Send(t, r, u) \/ Lend(t, r, u)
               \/ GiveBack(t, r)
          \/ Fence(t) \/ Free(t)
    BY <1>1 DEF Next
  <2>2. QED
    BY <2>1, UseIInv, ConvertIInv, HasOneRefIInv, ReleaseIInv, AddRefIInv, SendIInv,
       LendIInv, GiveBackIInv, FenceIInv, FreeIInv
<1>2. CASE UNCHANGED vars
  <2>1. Held' = Held
    BY <1>2, HeldSame DEF vars
  <2>2. QED
    BY <1>2, <2>1 DEF vars, IInv, TypeOK, Counted, Releasing, LoansOfHeld, OwnUsesSeen,
                      HolderHasSeen, Having, UsesHappenBeforeFree, SoleIsAlone
<1>3. QED
  BY <1>1, <1>2

-----------------------------------------------------------------------------
(* The theorems.                                                           *)

\* Everything above holds of every reachable state.
THEOREM Invariance == Spec => []IInv
<1>1. Init => IInv
  BY InitIInv
<1>2. IInv /\ [Next]_vars => IInv'
  BY NextIInv
<1>3. QED
  BY <1>1, <1>2, PTL DEF Spec

\* The counter never goes below zero (release in rc.rs).
THEOREM TypeCorrect == Spec => []TypeOK
<1>1. IInv => TypeOK
  BY DEF IInv
<1>2. QED
  BY <1>1, Invariance, PTL

\* When the box is dropped every use of the object by any thread happens before:
\* the Release decrements and the one Acquire fence of release suffice.
THEOREM FreeIsSynchronized == Spec => []UsesHappenBeforeFree
<1>1. IInv => UsesHappenBeforeFree
  BY DEF IInv
<1>2. QED
  BY <1>1, Invariance, PTL

\* The Relaxed load of has_one_ref suffices for a thread that has lent its guard
\* to nobody to rely on the answer until it lends, clones or moves it itself.
THEOREM SoleHolds == Spec => []SoleIsAlone
<1>1. IInv => SoleIsAlone
  BY DEF IInv
<1>2. QED
  BY <1>1, Invariance, PTL

\* A step of the counter is a step of SharedObject or changes nothing of it.
LEMMA StepRefines == IInv /\ [Next]_vars => [Ownership!Next]_(Ownership!vars)
<1> SUFFICES ASSUME IInv, [Next]_vars PROVE [Ownership!Next]_(Ownership!vars)
  OBVIOUS
<1>0. TypeOK /\ Releasing /\ LoansOfHeld
  BY DEF IInv
<1>1. ASSUME NEW t \in Threads, NEW r \in Refs, NEW n \in Refs,
             NEW k \in {"guard", "raw"}, AddRef(t, r, n, k)
      PROVE  Ownership!Next
  <2>1. n \in Refs \ Held /\ Held' = Held \union {n} /\ r \in Held /\ freed' = freed
    BY <1>0, <1>1, HeldGrows, HolderHolds DEF AddRef
  <2>2. Ownership!Share(n)
    BY <2>1 DEF Ownership!Share
  <2>3. QED
    BY <2>2 DEF Ownership!Next
<1>2. ASSUME NEW t \in Threads, NEW r \in Refs, Release(t, r)
      PROVE  Ownership!Next
  <2>1. r \in Held /\ Held' = Held \ {r} /\ freed' = freed
    BY <1>0, <1>2, HeldShrinks, HolderHolds DEF Release
  <2>2. Ownership!GiveUp(r)
    BY <2>1 DEF Ownership!GiveUp
  <2>3. QED
    BY <2>2 DEF Ownership!Next
<1>3. ASSUME NEW t \in Threads, Free(t)
      PROVE  Ownership!Next
  <2>1. Held = {} /\ ~freed
    BY <1>0, <1>3 DEF Free, Releasing
  <2>2. Held' = Held /\ freed' = TRUE
    BY <1>3, HeldSame DEF Free
  <2>3. QED
    BY <2>1, <2>2 DEF Ownership!Next, Ownership!Destroy
<1>4. ASSUME NEW t \in Threads, NEW r \in Refs, NEW u \in Threads, Send(t, r, u)
      PROVE  Held' = Held /\ freed' = freed
  BY <1>0, <1>4, HeldMoves DEF Send, Owns
<1>5. ASSUME NEW t \in Threads, NEW r \in Refs,
             \/ Use(t, r) \/ FromRaw(t, r) \/ IntoRaw(t, r) \/ HasOneRef(t, r)
             \/ GiveBack(t, r) \/ \E u \in Threads : Lend(t, r, u)
      PROVE  Held' = Held /\ freed' = freed
  BY <1>5, HeldSame DEF Use, FromRaw, IntoRaw, HasOneRef, GiveBack, Lend
<1>6. ASSUME NEW t \in Threads, Fence(t)
      PROVE  Held' = Held /\ freed' = freed
  BY <1>6, HeldSame DEF Fence
<1>7. ASSUME UNCHANGED vars
      PROVE  Held' = Held /\ freed' = freed
  BY <1>7, HeldSame DEF vars
<1>8. Ownership!Next \/ (Held' = Held /\ freed' = freed)
  BY <1>1, <1>2, <1>3, <1>4, <1>5, <1>6, <1>7 DEF Next
<1>9. QED
  BY <1>8 DEF Ownership!vars

\* The crate implements the safety part of shared ownership (SharedObject): an
\* object is there for as long as a reference is, and is destroyed once.
THEOREM OwnershipSafe == Spec => Ownership!Init /\ [][Ownership!Next]_(Ownership!vars)
<1>1. Init => Ownership!Init
  <2> SUFFICES ASSUME Init PROVE Ownership!Init
    OBVIOUS
  <2>1. PICK r \in Refs, t \in Threads :
          holder = [x \in Refs |-> IF x = r THEN t ELSE NoThread]
    BY DEF Init
  <2>2. Held = {r} /\ ~freed
    BY <2>1, ConstantsAssumption DEF Held, Init
  <2>3. QED
    BY <2>2 DEF Ownership!Init
<1>2. IInv /\ [Next]_vars => [Ownership!Next]_(Ownership!vars)
  BY StepRefines
<1>3. QED
  BY <1>1, <1>2, Invariance, PTL DEF Spec
=============================================================================
