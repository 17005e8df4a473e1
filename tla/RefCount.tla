------------------------------ MODULE RefCount ------------------------------
(***************************************************************************)
(* Reference counting of the objects that the Rust crate implements        *)
(* (rust/cef-rs/cef/src/rc.rs): an RcImpl with its atomic ref_count, the   *)
(* RefGuards that Rust code holds, and the counted raw pointers that the   *)
(* C API holds.  One object is modelled; every access of one is an action  *)
(* on one atomic, and objects do not share state.                          *)
(*                                                                         *)
(* RefGuard is Send and Sync: a guard may be moved to another thread, and  *)
(* other threads may use and clone it through a shared &RefGuard while it  *)
(* stays where it is.  The C API calls add_ref and release on any thread.  *)
(* So the memory order of the counter matters.  unseen[t] is the set of    *)
(* threads that have used the object in a way that does not happen before  *)
(* what t does next; unpublished is the same for a thread that acquires    *)
(* the counter.  Only a Release store, an Acquire fence and the handing    *)
(* over, lending and giving back of a reference (synchronized by whatever  *)
(* carries them out) make these sets smaller.                              *)
(***************************************************************************)
EXTENDS Naturals, FiniteSets

CONSTANTS Threads, Refs,
          NoThread     \* not a thread

ASSUME ConstantsAssumption ==
    /\ NoThread \notin Threads
    /\ IsFiniteSet(Refs)

VARIABLES
    ref_count,
    freed,        \* the Box of the RcImpl has been dropped
    holder,       \* the thread that holds a counted reference, or NoThread
    kind,         \* how it is held: in a RefGuard or as a raw pointer
    borrowers,    \* the other threads that may have a &RefGuard of a guard
    pc,           \* where each thread is in release
    unseen,       \* see above
    unpublished,
    sole          \* the thread that was told by has_one_ref that it is alone
                  \* and had its reference to itself

sync == <<unseen, unpublished>>
vars == <<ref_count, freed, holder, kind, borrowers, pc, unseen, unpublished, sole>>

Held == {r \in Refs : holder[r] # NoThread}

\* RcImpl::new, and the wrap_result of the binding: one reference, in a guard.
Init ==
    /\ ref_count = 1 /\ freed = FALSE
    /\ \E r \in Refs, t \in Threads :
         holder = [x \in Refs |-> IF x = r THEN t ELSE NoThread]
    /\ kind = [r \in Refs |-> "guard"] /\ borrowers = [r \in Refs |-> {}]
    /\ pc = [t \in Threads |-> "idle"]
    /\ unseen = [t \in Threads |-> {}] /\ unpublished = {}
    /\ sole = NoThread

\* Thread t runs code outside release, with a reference it holds or was lent.
With(t, r) == (holder[r] = t \/ t \in borrowers[r]) /\ pc[t] = "idle"

\* Thread t may move or drop the reference: nobody has borrowed it.
Owns(t, r) == holder[r] = t /\ borrowers[r] = {} /\ pc[t] = "idle"

\* The thread does something after which has_one_ref may no longer hold.
Forget(t) == sole' = IF sole = t THEN NoThread ELSE sole

\* Any read or write of the object through a reference.
Use(t, r) ==
    /\ With(t, r)
    /\ unseen' = [u \in Threads |-> IF u = t THEN unseen[u] ELSE unseen[u] \union {t}]
    /\ unpublished' = unpublished \union {t}
    /\ UNCHANGED <<ref_count, freed, holder, kind, borrowers, pc, sole>>

\* Mutant: the reference is made without being counted.
AddRefUncounted(t, r, n, k) ==
    /\ With(t, r) /\ holder[n] = NoThread
    /\ holder' = [holder EXCEPT ![n] = t]
    /\ kind' = [kind EXCEPT ![n] = k]
    /\ Forget(t)
    /\ UNCHANGED <<ref_count, freed, borrowers, pc, unseen, unpublished>>

(* add_ref: a Relaxed increment.  The new reference n is a guard (clone    *)
(* and from_raw_add_ref, which convert uses) or a raw pointer (what a      *)
(* binding passes as a parameter).                                         *)
AddRef(t, r, n, k) ==
    /\ With(t, r) /\ holder[n] = NoThread
    /\ ref_count' = ref_count + 1
    /\ holder' = [holder EXCEPT ![n] = t]
    /\ kind' = [kind EXCEPT ![n] = k]
    /\ Forget(t)
    /\ UNCHANGED <<freed, borrowers, pc, unseen, unpublished>>

\* from_raw: a returned pointer, or the parameter of a callback, becomes a guard.
FromRaw(t, r) ==
    /\ Owns(t, r) /\ kind[r] = "raw"
    /\ kind' = [kind EXCEPT ![r] = "guard"]
    /\ UNCHANGED <<ref_count, freed, holder, borrowers, pc, unseen, unpublished, sole>>

\* The conversion of a guard into the pointer that a callback returns: forget.
IntoRaw(t, r) ==
    /\ Owns(t, r) /\ kind[r] = "guard"
    /\ kind' = [kind EXCEPT ![r] = "raw"]
    /\ UNCHANGED <<ref_count, freed, holder, borrowers, pc, unseen, unpublished, sole>>

\* A reference is handed to another thread, in Rust (Send) or by the C API.
Send(t, r, u) ==
    /\ Owns(t, r) /\ u # t
    /\ holder' = [holder EXCEPT ![r] = u]
    /\ unseen' = [unseen EXCEPT ![u] = @ \intersect unseen[t]]
    /\ Forget(t)
    /\ UNCHANGED <<ref_count, freed, kind, borrowers, pc, unpublished>>

(* Another thread gets a &RefGuard of the guard r (Sync), from its holder  *)
(* or from one who has borrowed it.                                        *)
Lend(t, r, u) ==
    /\ With(t, r) /\ kind[r] = "guard"
    /\ u # holder[r] /\ u \notin borrowers[r]
    /\ borrowers' = [borrowers EXCEPT ![r] = @ \union {u}]
    /\ unseen' = [unseen EXCEPT ![u] = @ \intersect unseen[t]]
    /\ Forget(t)
    /\ UNCHANGED <<ref_count, freed, holder, kind, pc, unpublished>>

\* The holder of r learns that thread u has done with its &RefGuard: only then
\* does the borrow checker let r be moved or dropped.
GiveBack(u, r) ==
    /\ u \in borrowers[r] /\ pc[u] = "idle"
    /\ borrowers' = [borrowers EXCEPT ![r] = @ \ {u}]
    /\ unseen' = [unseen EXCEPT ![holder[r]] = @ \intersect unseen[u]]
    /\ UNCHANGED <<ref_count, freed, holder, kind, pc, unpublished, sole>>

\* Mutant: one reference too many.
HasOneRefLate(t, r) ==
    /\ With(t, r) /\ ref_count <= 2
    /\ sole' = IF Owns(t, r) THEN t ELSE sole
    /\ UNCHANGED <<ref_count, freed, holder, kind, borrowers, pc, unseen, unpublished>>

(* has_one_ref returns 1: a Relaxed load.  It says something about what    *)
(* follows only to a thread that has the reference to itself: with a       *)
(* &RefGuard any thread may clone it at once.  To such a thread the load   *)
(* cannot return an older 1: whatever was made from its reference since    *)
(* happened before it got it, or got it back, or was done by it.           *)
HasOneRef(t, r) ==
    /\ With(t, r) /\ ref_count = 1
    /\ sole' = IF Owns(t, r) THEN t ELSE sole
    /\ UNCHANGED <<ref_count, freed, holder, kind, borrowers, pc, unseen, unpublished>>

\* Mutant: the decrement is Relaxed.
ReleaseRelaxed(t, r) ==
    /\ Owns(t, r)
    /\ ref_count' = ref_count - 1
    /\ holder' = [holder EXCEPT ![r] = NoThread]
    /\ pc' = [pc EXCEPT ![t] = IF ref_count = 1 THEN "last" ELSE "idle"]
    /\ Forget(t)
    /\ UNCHANGED <<freed, kind, borrowers, unseen, unpublished>>

\* release, on the drop of a guard or by the C API: a Release decrement.
Release(t, r) ==
    /\ Owns(t, r)
    /\ ref_count' = ref_count - 1
    /\ holder' = [holder EXCEPT ![r] = NoThread]
    /\ unpublished' = unpublished \intersect unseen[t]
    /\ pc' = [pc EXCEPT ![t] = IF ref_count = 1 THEN "last" ELSE "idle"]
    /\ Forget(t)
    /\ UNCHANGED <<freed, kind, borrowers, unseen>>

\* release read 1: fence(Acquire).
Fence(t) ==
    /\ pc[t] = "last"
    /\ unseen' = [unseen EXCEPT ![t] = @ \intersect unpublished]
    /\ pc' = [pc EXCEPT ![t] = "free"]
    /\ UNCHANGED <<ref_count, freed, holder, kind, borrowers, unpublished, sole>>

\* Box::from_raw: the object and the interface in it are dropped.
Free(t) ==
    /\ pc[t] = "free"
    /\ freed' = TRUE
    /\ pc' = [pc EXCEPT ![t] = "idle"]
    /\ UNCHANGED <<ref_count, holder, kind, borrowers, unseen, unpublished, sole>>

Next ==
    \E t \in Threads :
        \/ \E r \in Refs :
             \/ Use(t, r) \/ FromRaw(t, r) \/ IntoRaw(t, r)
             \/ HasOneRef(t, r) \/ Release(t, r)
             \/ \E n \in Refs, k \in {"guard", "raw"} : AddRef(t, r, n, k)
             \/ \E u \in Threads : Send(t, r, u) \/ Lend(t, r, u)
             \/ GiveBack(t, r)
        \/ Fence(t) \/ Free(t)

\* A thread that has begun to release the object goes on.
Spec == Init /\ [][Next]_vars /\ \A t \in Threads : WF_vars(Fence(t) \/ Free(t))

-----------------------------------------------------------------------------
(* Properties.                                                             *)

\* The counter is a natural number, and a thread is in at most one release.
TypeOK ==
    /\ ref_count \in Nat /\ freed \in BOOLEAN
    /\ holder \in [Refs -> Threads \union {NoThread}]
    /\ kind \in [Refs -> {"guard", "raw"}]
    /\ borrowers \in [Refs -> SUBSET Threads]
    /\ pc \in [Threads -> {"idle", "last", "free"}]
    /\ unseen \in [Threads -> SUBSET Threads] /\ unpublished \subseteq Threads
    /\ sole \in Threads \union {NoThread}

\* The Release decrement and the Acquire fence do their work: when the box is
\* dropped, every use that any thread made of the object happens before.
UsesHappenBeforeFree == \A t \in Threads : pc[t] = "free" => unseen[t] = {}

\* A thread that has its reference to itself, lent to nobody, and is told by
\* has_one_ref that it is the only one may rely on it until it lends, clones or
\* gives away the reference itself: neither a loan that ended nor a reference
\* that other threads had leaves anybody who could make one behind its back.
SoleIsAlone ==
    sole # NoThread =>
        \E r \in Refs : holder[r] = sole /\ Held = {r} /\ borrowers[r] = {}

\* The crate implements shared ownership: a reference that is handed out keeps
\* the object alive, and the last one to be released destroys it, once.
Ownership == INSTANCE SharedObject WITH refs <- Held, alive <- ~freed
OwnershipSpec == Ownership!Spec
=============================================================================
