--------------------------- MODULE ResourceManager ---------------------------
(***************************************************************************)
(* CefResourceManager (libcef_dll/wrapper/cef_resource_manager.cc): an     *)
(* ordered list of providers through which the manager sends each request  *)
(* until one answers it.                                                   *)
(*                                                                         *)
(* All state belongs to the IO thread, but it is spread over stacks and    *)
(* posted tasks: a provider may answer from any thread and at any time,    *)
(* providers are added and removed while requests wait for them, also from *)
(* within OnRequest, and the manager may be destroyed with all that under  *)
(* way.  Two steps of the IO thread interleave only where the code calls a *)
(* provider (sending) or posts a task (queue).                             *)
(*                                                                         *)
(* A Request object is named by its request and the entry it was made for: *)
(* a request never comes to an entry twice (see OfferedInOrder).  URLs,    *)
(* filters, MIME types and the contents of handlers are left out; a        *)
(* handler is named by the entry whose provider made it.  OnRequestCanceled*)
(* is taken not to call the manager.                                       *)
(***************************************************************************)
EXTENDS Integers, Sequences, FiniteSets, FiniteSetsExt, SequencesExt

CONSTANTS
    Requests,       \* requests of the browser, each with its own identifier
    Shapes,         \* arguments of AddProvider: records with the order, the
                    \* identifier and the kind of the provider, "custom" for
                    \* one of the client, "archive" for ArchiveProvider
    MaxEntries,     \* bound: calls of AddProvider
    MaxCalls,       \* bound: answers under way from other threads
    NoRequest

ASSUME BoundsAssumption == MaxEntries \in Nat /\ MaxCalls \in Nat
ASSUME ShapesAssumption ==
    /\ Shapes # {}
    /\ \A s \in Shapes : s.order \in Int /\ s.kind \in {"custom", "archive"}
ASSUME RequestsAssumption == NoRequest \notin Requests

VARIABLES
    providers_,         \* the list, as a sequence of entries
    entry,              \* the fields of each ProviderEntry, or Freed
    pending_requests_,  \* RequestList of each entry
    request,            \* phase and current_entry_pos_ of each RequestState
    sending,            \* the request whose OnRequest is on the stack
    queue,              \* tasks posted to the IO thread
    pending_handlers_,  \* entry whose handler waits for GetResourceHandler, or NoEntry
    canceled,           \* <<request, entry>> for each call of OnRequestCanceled
    added,              \* number of entries made so far
    alive,              \* FALSE once the manager is destroyed
    hung                \* TRUE once a removal does not return

vars == <<providers_, entry, pending_requests_, request, sending, queue,
          pending_handlers_, canceled, added, alive, hung>>

NoEntry == 0
Entries == 1..MaxEntries
Answers == {"handler", "next", "stop"}

Phases == {"new", "held", "posted", "done", "served"}

\* An entry that is not there, yet or any more.
Freed == [shape |-> CHOOSE s \in Shapes : TRUE, deletion_pending_ |-> FALSE, load |-> "none"]

\* What Request::Continue and Request::Stop post: the state with its answer,
\* or, called on another thread, the call itself.
StateTask(r, a) == [what |-> "state", r |-> r, e |-> request[r].pos, answer |-> a]
CallTask(r, a) == [what |-> "call", r |-> r, e |-> request[r].pos, answer |-> a]

Held(r) == request[r].phase = "held"
HeldRequests == {r \in Requests : Held(r)}
Attached(r) == request[r].phase \in {"held", "posted"}

\* The members of S in the list s.
OnlyIn(s, S) == FlattenSeq([i \in 1..Len(s) |-> IF s[i] \in S THEN <<s[i]>> ELSE <<>>])

Init ==
    /\ providers_ = <<>>
    /\ entry = [e \in Entries |-> Freed]
    /\ pending_requests_ = [e \in Entries |-> <<>>]
    /\ request = [r \in Requests |-> [phase |-> "new", pos |-> NoEntry]]
    /\ sending = NoRequest
    /\ queue = <<>>
    /\ pending_handlers_ = [r \in Requests |-> NoEntry]
    /\ canceled = {}
    /\ added = 0
    /\ alive = TRUE
    /\ hung = FALSE

-----------------------------------------------------------------------------
(* Code of the client runs on the IO thread: in a task of its own, or in   *)
(* the OnRequest of a provider of its own.                                 *)
ClientRuns ==
    /\ ~hung
    /\ sending # NoRequest => entry[request[sending].pos].shape.kind = "custom"

IOThreadIdle == ~hung /\ sending = NoRequest

\* Mutant: before the first entry whose order is not lower.
InsertPositionNotLower(order) ==
    LET higher == {i \in 1..Len(providers_) : entry[providers_[i]].shape.order >= order}
    IN  IF higher = {} THEN Len(providers_) + 1 ELSE Min(higher)

\* AddProvider inserts before the first entry with a higher order.
InsertPosition(order) ==
    LET higher == {i \in 1..Len(providers_) : entry[providers_[i]].shape.order > order}
    IN  IF higher = {} THEN Len(providers_) + 1 ELSE Min(higher)

AddProvider(shape) ==
    LET e == added + 1 IN
    /\ ClientRuns /\ alive
    /\ added < MaxEntries
    /\ added' = e
    /\ entry' = [entry EXCEPT ![e] = [shape |-> shape, deletion_pending_ |-> FALSE,
                                      load |-> "none"]]
    /\ providers_' = InsertAt(providers_, InsertPosition(shape.order), e)
    /\ UNCHANGED <<pending_requests_, request, sending, queue, pending_handlers_,
                   canceled, alive, hung>>

-----------------------------------------------------------------------------
\* The entry at or behind place i of the list that is not pending deletion.
GetNextValidProvider(i) ==
    LET valid == {j \in i..Len(providers_) : ~entry[providers_[j]].deletion_pending_}
    IN  IF valid = {} THEN NoEntry ELSE providers_[Min(valid)]

PlaceOf(e) == CHOOSE i \in 1..Len(providers_) : providers_[i] = e

\* Mutant: an entry that is pending deletion goes with its first request.
DetachRequestFromProviderEarly(r) ==
    LET e == request[r].pos IN
    [pending |-> [pending_requests_ EXCEPT ![e] = OnlyIn(@, Requests \ {r})],
     freed |-> IF entry[e].deletion_pending_ THEN {e} ELSE {}]

\* The request lists without r, and the entry that goes with it if it was the
\* last request of an entry that is pending deletion.
DetachRequestFromProvider(r) ==
    LET e == request[r].pos
        rest == OnlyIn(pending_requests_[e], Requests \ {r})
    IN  [pending |-> [pending_requests_ EXCEPT ![e] = rest],
         freed |-> IF entry[e].deletion_pending_ /\ rest = <<>> THEN {e} ELSE {}]

\* Entries leave the list and are deleted, the others become as in kept.
Free(es, kept) ==
    /\ providers_' = OnlyIn(providers_, Entries \ es)
    /\ entry' = [e \in Entries |-> IF e \in es THEN Freed ELSE kept[e]]

\* StopRequest: the callback runs in the destructor of the state.
StopRequest(r) ==
    LET d == DetachRequestFromProvider(r) IN
    /\ Free(d.freed, entry) /\ pending_requests_' = d.pending
    /\ request' = [request EXCEPT ![r] = [phase |-> "done", pos |-> NoEntry]]

\* The Request object that SendRequest makes for r at entry e, about to be
\* given to the provider.
MakeRequest(r, e, lists) ==
    /\ pending_requests_' = [lists EXCEPT ![e] = Append(@, r)]
    /\ request' = [request EXCEPT ![r] = [phase |-> "held", pos |-> e]]
    /\ sending' = r

\* IncrementProvider, and what both its callers do with the result: another
\* round of SendRequest, or StopRequest for a state that is detached already.
IncrementProvider(r) ==
    LET next == GetNextValidProvider(PlaceOf(request[r].pos) + 1)
        d == DetachRequestFromProvider(r)
    IN  \/ /\ next # NoEntry
           /\ Free(d.freed, entry)
           /\ MakeRequest(r, next, d.pending)
        \/ /\ next = NoEntry
           /\ StopRequest(r)
           /\ sending' = NoRequest

(* OnBeforeResourceLoad up to the first OnRequest.  Without a provider it  *)
(* returns RV_CONTINUE, as it does when every provider declines at once.   *)
OnBeforeResourceLoad(r) ==
    LET first == GetNextValidProvider(1) IN
    /\ IOThreadIdle /\ alive
    /\ request[r].phase = "new"
    /\ \/ /\ first = NoEntry
          /\ request' = [request EXCEPT ![r].phase = "done"]
          /\ UNCHANGED <<pending_requests_, sending>>
       \/ /\ first # NoEntry
          /\ MakeRequest(r, first, pending_requests_)
    /\ UNCHANGED <<providers_, entry, queue, pending_handlers_, canceled,
                   added, alive, hung>>

-----------------------------------------------------------------------------
(* Request::Continue and Request::Stop on the IO thread for the requests   *)
(* of rs, one after the other: the state leaves the Request object at once *)
(* and its task goes to the end of the queue.                              *)
PostStates(rs, a) ==
    /\ request' = [r \in Requests |->
            IF r \in ToSet(rs) THEN [request[r] EXCEPT !.phase = "posted"] ELSE request[r]]
    /\ queue' = queue \o [i \in 1..Len(rs) |-> StateTask(rs[i], a)]

\* A provider of the client answers a request, from within OnRequest too.
AnswerOnIOThread(r, a) ==
    /\ ClientRuns
    /\ Held(r) /\ entry[request[r].pos].shape.kind = "custom"
    /\ PostStates(<<r>>, a)
    /\ UNCHANGED <<providers_, entry, pending_requests_, sending, pending_handlers_,
                   canceled, added, alive, hung>>

\* It answers from another thread, perhaps more than once.
AnswerOnOtherThread(r, a) ==
    /\ ~hung
    /\ Held(r) /\ entry[request[r].pos].shape.kind = "custom"
    /\ Cardinality({i \in 1..Len(queue) : queue[i].what = "call"}) < MaxCalls
    /\ queue' = Append(queue, CallTask(r, a))
    /\ UNCHANGED <<providers_, entry, pending_requests_, request, sending,
                   pending_handlers_, canceled, added, alive, hung>>

\* OnRequest of the client's provider returns true: the provider, or nobody
\* any more, has the state.
OnRequestAccepts ==
    /\ ~hung /\ sending # NoRequest
    /\ entry[request[sending].pos].shape.kind = "custom"
    /\ sending' = NoRequest
    /\ UNCHANGED <<providers_, entry, pending_requests_, request, queue,
                   pending_handlers_, canceled, added, alive, hung>>

\* OnRequest returns false.  That means nothing if the state has left.
OnRequestDeclines ==
    /\ ~hung /\ sending # NoRequest
    /\ \/ Held(sending) /\ IncrementProvider(sending)
       \/ /\ ~Held(sending)
          /\ sending' = NoRequest
          /\ UNCHANGED <<providers_, entry, pending_requests_, request>>
    /\ UNCHANGED <<queue, pending_handlers_, canceled, added, alive, hung>>

\* ArchiveProvider::OnRequest for a URL of its own: it queues the request
\* until the archive is loaded, then has the file (or declines, as above).
ArchiveOnRequest ==
    /\ ~hung /\ sending # NoRequest
    /\ LET e == request[sending].pos IN
        /\ entry[e].shape.kind = "archive"
        /\ \/ /\ entry[e].load # "ended"
              /\ entry' = [entry EXCEPT ![e].load = "loading"]
              /\ UNCHANGED <<request, queue>>
           \/ /\ entry[e].load = "ended"
              /\ PostStates(<<sending>>, "handler")
              /\ UNCHANGED entry
    /\ sending' = NoRequest
    /\ UNCHANGED <<providers_, pending_requests_, pending_handlers_, canceled, added, alive, hung>>

(* ArchiveProvider::ContinueOnIOThread, unless the provider is gone.  Its  *)
(* queue has, of the requests with a state, those held at the entry.  The  *)
(* files of some are in the archive; the result for the others is dropped. *)
ArchiveLoaded(e) ==
    /\ IOThreadIdle /\ alive
    /\ e \in ToSet(providers_) /\ entry[e].load = "loading"
    /\ entry' = [entry EXCEPT ![e].load = "ended"]
    /\ \E found \in SUBSET ToSet(pending_requests_[e]) :
          PostStates(OnlyIn(pending_requests_[e], HeldRequests \cap found), "handler")
    /\ UNCHANGED <<providers_, pending_requests_, sending, pending_handlers_, canceled, added, alive, hung>>

-----------------------------------------------------------------------------
\* ContinueRequest and StopRequest for the state r of the first task.
ContinueRequest(r, a) ==
    \/ /\ a = "next"
       /\ IncrementProvider(r)
       /\ UNCHANGED pending_handlers_
    \/ /\ a = "handler"
       /\ pending_handlers_' = [pending_handlers_ EXCEPT
                ![r] = IF @ = NoEntry THEN request[r].pos ELSE @]
       /\ StopRequest(r)
       /\ UNCHANGED sending
    \/ /\ a = "stop"
       /\ StopRequest(r)
       /\ UNCHANGED <<sending, pending_handlers_>>

\* Mutant: without a manager the callback is forgotten.
ContinueOnIOThreadForgets(t) ==
    \/ /\ alive
       /\ ContinueRequest(t.r, t.answer)
    \/ /\ ~alive
       /\ UNCHANGED <<providers_, entry, pending_requests_, sending, pending_handlers_, request>>

\* ContinueOnIOThread and StopOnIOThread: a state that finds the manager gone
\* is destroyed, and so runs its callback.
ContinueOnIOThread(t) ==
    \/ /\ alive
       /\ ContinueRequest(t.r, t.answer)
    \/ /\ ~alive
       /\ request' = [request EXCEPT ![t.r] = [phase |-> "done", pos |-> NoEntry]]
       /\ UNCHANGED <<providers_, entry, pending_requests_, sending, pending_handlers_>>

\* The IO thread runs the first of its tasks.
RunTask ==
    LET t == Head(queue) IN
    /\ IOThreadIdle /\ queue # <<>>
    /\ \/ /\ t.what = "state"
          /\ ContinueOnIOThread(t)
          /\ queue' = Tail(queue)
       \/ /\ t.what = "call"
          /\ \/ /\ Held(t.r) /\ request[t.r].pos = t.e
                /\ request' = [request EXCEPT ![t.r].phase = "posted"]
                /\ queue' = Append(Tail(queue), [t EXCEPT !.what = "state"])
             \/ /\ ~(Held(t.r) /\ request[t.r].pos = t.e)
                /\ queue' = Tail(queue)
                /\ UNCHANGED request
          /\ UNCHANGED <<providers_, entry, pending_requests_, sending, pending_handlers_>>
    /\ UNCHANGED <<canceled, added, alive, hung>>

\* The network stack asks for the handler once the callback has run.
GetResourceHandler(r) ==
    /\ IOThreadIdle /\ alive
    /\ request[r].phase = "done"
    /\ request' = [request EXCEPT ![r].phase = "served"]
    /\ pending_handlers_' = [pending_handlers_ EXCEPT ![r] = NoEntry]
    /\ UNCHANGED <<providers_, entry, pending_requests_, sending, queue, canceled,
                   added, alive, hung>>

-----------------------------------------------------------------------------
\* The requests of the entries in the list es that still have their state.
HeldAt(es) ==
    FlattenSeq([i \in 1..Len(es) |-> OnlyIn(pending_requests_[es[i]], HeldRequests)])

\* Mutant: OnRequestCanceled is called for requests without a state too.
DeleteProvidersCancelsAll(es, a) ==
    /\ PostStates(HeldAt(es), a)
    /\ canceled' = canceled \cup
            UNION {{<<r, e>> : r \in ToSet(pending_requests_[e])} : e \in ToSet(es)}
    /\ Free({e \in ToSet(es) : pending_requests_[e] = <<>>},
            [e \in Entries |-> [entry[e] EXCEPT !.deletion_pending_ = @ \/ e \in ToSet(es)]])

(* DeleteProvider for each of the entries es, none of them pending         *)
(* deletion: an entry without requests goes, one with requests is marked   *)
(* and the requests that still have their state are answered and canceled. *)
DeleteProviders(es, a) ==
    LET cs == HeldAt(es) IN
    /\ PostStates(cs, a)
    /\ canceled' = canceled \cup {<<r, request[r].pos>> : r \in ToSet(cs)}
    /\ Free({e \in ToSet(es) : pending_requests_[e] = <<>>},
            [e \in Entries |-> [entry[e] EXCEPT !.deletion_pending_ = @ \/ e \in ToSet(es)]])

(* The loop of RemoveProviders and RemoveAllProviders.  DeleteProvider     *)
(* returns without moving the iterator when it meets an entry that an      *)
(* earlier removal marked: the loop has deleted the entries before that    *)
(* one and calls DeleteProvider for it for ever.                           *)
BeforeStuck(es) ==
    LET stuck == {i \in 1..Len(es) : entry[es[i]].deletion_pending_}
    IN  IF stuck = {} THEN es ELSE SubSeq(es, 1, Min(stuck) - 1)

RemoveLoop(es, a) ==
    /\ DeleteProviders(BeforeStuck(es), a)
    /\ hung' = \E e \in ToSet(es) : entry[e].deletion_pending_

RemoveProviders(identifier) ==
    /\ ClientRuns /\ alive
    /\ RemoveLoop(OnlyIn(providers_, {e \in Entries : entry[e].shape.identifier = identifier}), "next")
    /\ UNCHANGED <<pending_requests_, sending, pending_handlers_, added, alive>>

RemoveAllProviders ==
    /\ ClientRuns /\ alive
    /\ RemoveLoop(providers_, "stop")
    /\ UNCHANGED <<pending_requests_, sending, pending_handlers_, added, alive>>

(* The last reference to the manager goes.  The destructor removes the     *)
(* providers and, if it comes that far, deletes the entries that wait.     *)
Destroy ==
    /\ IOThreadIdle /\ alive
    /\ \/ /\ \A e \in ToSet(providers_) : ~entry[e].deletion_pending_
          /\ PostStates(HeldAt(providers_), "stop")
          /\ canceled' = canceled \cup
                {<<r, request[r].pos>> : r \in ToSet(HeldAt(providers_))}
          /\ Free(ToSet(providers_), entry)
          /\ pending_requests_' = [e \in Entries |-> <<>>]
          /\ alive' = FALSE
          /\ UNCHANGED hung
       \/ /\ \E e \in ToSet(providers_) : entry[e].deletion_pending_
          /\ RemoveLoop(providers_, "stop")
          /\ UNCHANGED <<pending_requests_, alive>>
    /\ UNCHANGED <<sending, pending_handlers_, added>>

-----------------------------------------------------------------------------
Next ==
    \/ \E s \in Shapes : AddProvider(s)
    \/ \E i \in {s.identifier : s \in Shapes} : RemoveProviders(i)
    \/ RemoveAllProviders
    \/ Destroy
    \/ \E r \in Requests : OnBeforeResourceLoad(r)
    \/ OnRequestAccepts
    \/ OnRequestDeclines
    \/ ArchiveOnRequest
    \/ \E e \in Entries : ArchiveLoaded(e)
    \/ \E r \in Requests, a \in Answers : AnswerOnIOThread(r, a)
    \/ \E r \in Requests, a \in Answers : AnswerOnOtherThread(r, a)
    \/ RunTask
    \/ \E r \in Requests : GetResourceHandler(r)

Spec == Init /\ [][Next]_vars

(* The IO thread runs its tasks, OnRequest returns, archives are loaded on *)
(* the FILE thread, and the client's providers keep the promise of         *)
(* cef_resource_manager.h:196 to answer what they accepted.                *)
Fairness ==
    /\ WF_vars(RunTask)
    /\ WF_vars(OnRequestAccepts \/ OnRequestDeclines \/ ArchiveOnRequest)
    /\ \A e \in Entries : WF_vars(ArchiveLoaded(e))
    /\ \A r \in Requests : WF_vars(\E a \in Answers : AnswerOnIOThread(r, a))

FairSpec == Spec /\ Fairness

-----------------------------------------------------------------------------
Tasks == [what : {"state", "call"}, r : Requests, e : Entries, answer : Answers]

TypeOK ==
    /\ providers_ \in Seq(Entries)
    /\ entry \in [Entries -> [shape : Shapes, deletion_pending_ : BOOLEAN,
                               load : {"none", "loading", "ended"}]]
    /\ pending_requests_ \in [Entries -> Seq(Requests)]
    /\ request \in [Requests -> [phase : Phases, pos : Entries \cup {NoEntry}]]
    /\ \A r \in Requests : Attached(r) <=> request[r].pos # NoEntry
    /\ sending \in Requests \cup {NoRequest}
    /\ queue \in Seq(Tasks)
    /\ pending_handlers_ \in [Requests -> Entries \cup {NoEntry}]
    /\ canceled \subseteq Requests \X Entries
    /\ added \in 0..MaxEntries /\ alive \in BOOLEAN /\ hung \in BOOLEAN

(* The iterators kept in states stay valid: a pending request is in the    *)
(* request list of an entry that is in the list of providers, once and     *)
(* nowhere else, through all removals (cef_resource_manager.cc:719).       *)
NoDanglingPosition ==
    alive => \A r \in Requests : \A e \in Entries :
        LET places == {i \in 1..Len(pending_requests_[e]) : pending_requests_[e][i] = r} IN
        IF Attached(r) /\ request[r].pos = e
            THEN Cardinality(places) = 1 /\ e \in ToSet(providers_)
            ELSE places = {}

(* An entry that was removed stays only as long as answers to its requests *)
(* are in the queue; no provider has a request of it any more, and so none *)
(* can keep it (cef_resource_manager.cc:756).                              *)
RemovedWaitsForTasks ==
    \A e \in ToSet(providers_) : entry[e].deletion_pending_ =>
        /\ pending_requests_[e] # <<>>
        /\ \A r \in ToSet(pending_requests_[e]) :
              /\ ~Held(r)
              /\ \E i \in 1..Len(queue) :
                    queue[i].what = "state" /\ queue[i].r = r /\ queue[i].e = e

(* What a provider says about a request after OnRequestCanceled is ignored *)
(* (cef_resource_manager.h:204): its handler does not reach the map that   *)
(* the network stack is served from, even if the answer was on its way.    *)
CanceledIsIgnored == \A c \in canceled : pending_handlers_[c[1]] # c[2]

\* Ascending by order, and by the time of addition among equal orders.
Before(e, f) == entry[e].shape.order < entry[f].shape.order \/ (entry[e].shape.order = entry[f].shape.order /\ e < f)

(* A request goes from provider to provider in the order of                *)
(* cef_resource_manager.h:256, to none that was removed and past none that *)
(* is there, whatever was inserted and removed while it waited.            *)
OfferedInOrder ==
    [][\A r \in Requests :
        LET e == request[r].pos
            f == request'[r].pos
        IN  e # NoEntry /\ f # NoEntry /\ e # f =>
                /\ Before(e, f) /\ ~entry[f].deletion_pending_
                /\ \A g \in ToSet(providers_) :
                      Before(e, g) /\ Before(g, f) => entry[g].deletion_pending_]_vars

\* An archive was loaded without the file of r, which waited for it.
Stranded(r) ==
    /\ Held(r) /\ entry[request[r].pos].shape.kind = "archive"
    /\ entry[request[r].pos].load = "ended"

(* The callback of every request that went to a provider runs in the end,  *)
(* with providers removed and the manager destroyed on the way, unless a   *)
(* removal hangs or ArchiveProvider loses the request.                     *)
RequestsSettle ==
    \A r \in Requests : Attached(r) ~> (~Attached(r) \/ hung \/ Stranded(r))

(* Removing providers and destroying the manager come to an end: "The      *)
(* removed providers may be deleted immediately or at a later time"        *)
(* (cef_resource_manager.h:275).                                           *)
RemovalReturns == ~hung

(* The iterators that requests keep are valid: the state is well typed, no *)
(* position dangles, and a removed entry stays for as long as requests of  *)
(* its provider are in tasks.                                              *)
PositionsAreValid == TypeOK /\ NoDanglingPosition /\ RemovedWaitsForTasks
=============================================================================
