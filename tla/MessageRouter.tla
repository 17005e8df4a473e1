---------------------------- MODULE MessageRouter ----------------------------
(***************************************************************************)
(* The query router of the Rust crate                                      *)
(* (rust/cef-rs/cef/src/wrapper/message_router.rs): JavaScript calls       *)
(* cefQuery in a V8 context of a renderer process, a handler in the        *)
(* browser process answers through a callback, and either side may cancel. *)
(*                                                                         *)
(* Everything on the browser side runs on the UI thread and everything in  *)
(* a renderer process on its main thread, so that a call is one action;    *)
(* the messages between them are delivered in order, one channel for each  *)
(* context.  success and failure may be called on any thread and only post *)
(* a task, and so does cancel_pending on another thread.  A thread that    *)
(* locks a mutex which it holds already waits for itself, for ever: it is  *)
(* then in "blocked".  The n of a record is the number of the cefQuery     *)
(* call it comes from; the code does not have it and no guard looks at it. *)
(***************************************************************************)
EXTENDS Integers, Sequences, FiniteSets

CONSTANTS
    Contexts,    \* V8 contexts
    BrowserOf,   \* the browser that a context belongs to
    ProcessOf,   \* the renderer process that a context lives in
    UiThread,    \* the browser process, in "blocked"; not a renderer process
    Handlers,    \* objects that may be registered as handlers
    None,        \* not a handler: the place of one that was removed
    MaxQueries,  \* bound: calls of cefQuery
    MaxCalls,    \* bound: calls of success and failure
    MaxEvents    \* bound: handlers changed, cancellations, threads that block

ASSUME ConstantsAssumption ==
    /\ IsFiniteSet(Contexts)
    /\ BrowserOf \in [Contexts -> {BrowserOf[c] : c \in Contexts}]
    /\ ProcessOf \in [Contexts -> {ProcessOf[c] : c \in Contexts}]
    /\ {MaxQueries, MaxCalls, MaxEvents} \subseteq Nat
    /\ None \notin Handlers /\ UiThread \notin {ProcessOf[c] : c \in Contexts}

RESERVED_ID == 0
Browsers == {BrowserOf[c] : c \in Contexts}
Processes == {ProcessOf[c] : c \in Contexts}
Numbers == 1..MaxQueries
HandlerIds == -MaxEvents..(MaxEvents + Cardinality(Handlers))   \* all there can be

VARIABLES
    \* the renderer processes
    live,              \* contexts that have not been released
    context_id,        \* the entry of a context in context_map, or 0
    next_context_id, next_request_id,   \* the generators of each process
    requests,          \* browser_request_info_map of all processes
    blocked,           \* processes whose main or UI thread waits for itself
    \* the channels of each context
    up, down,
    \* the browser process
    handlers,          \* the HandlersDeque
    queries,           \* browser_query_info_map
    next_query_id,
    attached,          \* queries whose callback still has its router
    tasks,             \* tasks posted to the UI thread
    \* history
    asked,             \* number of calls of cefQuery
    replies,           \* what the JavaScript callbacks of a query were called with
    misrouted,         \* a response reached the callbacks of another query
    answered,          \* times the last response to a query was sent
    canceled,          \* times on_query_canceled was called for a query
    failed,            \* persistent queries that a handler has failed
    silenced,          \* queries that the browser ended, or is stuck with, without
                       \* telling the page
    calls, events

renderers == <<live, context_id, next_context_id, next_request_id, requests>>
browser == <<handlers, queries, next_query_id, attached>>
ghosts == <<asked, replies, misrouted, answered, canceled, failed, silenced>>
vars == <<renderers, blocked, up, down, browser, tasks, ghosts, calls, events>>

\* The embedder has registered one handler when the first page is there.
Init ==
    /\ live = Contexts /\ context_id = [c \in Contexts |-> RESERVED_ID]
    /\ next_context_id = [p \in Processes |-> RESERVED_ID]
    /\ next_request_id = [p \in Processes |-> RESERVED_ID]
    /\ requests = {} /\ blocked = {}
    /\ up = [c \in Contexts |-> << >>] /\ down = [c \in Contexts |-> << >>]
    /\ \E h \in Handlers : handlers = [offset |-> 0, deque |-> <<h>>]
    /\ queries = {} /\ next_query_id = RESERVED_ID
    /\ attached = {} /\ tasks = << >>
    /\ asked = 0 /\ replies = [n \in Numbers |-> << >>] /\ misrouted = FALSE
    /\ answered = [q \in Numbers |-> 0] /\ canceled = [q \in Numbers |-> 0]
    /\ failed = {} /\ silenced = {} /\ calls = 0 /\ events = 0

\* Mutant: the generator returns the ID before it advances.
NextIdBefore(id) == id

\* IdGenerator::next; the bounds keep it away from its wrap-around.
NextId(id) == id + 1

Event == events < MaxEvents /\ events' = events + 1

-----------------------------------------------------------------------------
(* The renderer processes.                                                 *)

\* The requests that a lookup in the process of context c finds.
Found(c, cid, rid) ==
    {r \in requests : /\ ProcessOf[r.ctx] = ProcessOf[c]
                      /\ BrowserOf[r.ctx] = BrowserOf[c]
                      /\ r.context_id = cid
                      /\ rid = RESERVED_ID \/ r.request_id = rid}

\* The main thread of the process of context c can run.
Runs(c) == c \in live /\ ProcessOf[c] \notin blocked

ContextId(c) == IF context_id[c] = RESERVED_ID THEN NextId(next_context_id[ProcessOf[c]])
                ELSE context_id[c]

\* The context gets its ID when cefQuery or cefQueryCancel is first called.
GetIdForContext(c) ==
    /\ context_id' = [context_id EXCEPT ![c] = ContextId(c)]
    /\ next_context_id' = [next_context_id EXCEPT
           ![ProcessOf[c]] = IF context_id[c] = RESERVED_ID THEN ContextId(c) ELSE @]

\* cefQuery.
SendQuery(c, persistent) ==
    LET p == ProcessOf[c]
        r == [n |-> asked + 1, ctx |-> c, context_id |-> ContextId(c),
              request_id |-> NextId(next_request_id[p]), persistent |-> persistent]
    IN  /\ Runs(c) /\ asked < MaxQueries
        /\ asked' = asked + 1
        /\ GetIdForContext(c)
        /\ next_request_id' = [next_request_id EXCEPT ![p] = NextId(@)]
        /\ requests' = requests \union {r}
        /\ up' = [up EXCEPT ![c] = Append(@,
                    [type |-> "query", n |-> r.n, context_id |-> r.context_id,
                     request_id |-> r.request_id, persistent |-> persistent])]
        /\ UNCHANGED <<live, blocked, down, browser, tasks, replies, misrouted, answered,
                       canceled, failed, silenced, calls, events>>

\* cefQueryCancel: send_cancel locks browser_request_info_map and calls
\* get_request_info, which locks it again.
CancelFunction(c) ==
    /\ Runs(c) /\ Event
    /\ GetIdForContext(c)
    /\ blocked' = blocked \union {ProcessOf[c]}
    /\ UNCHANGED <<live, next_request_id, requests, up, down, browser, tasks,
                   ghosts, calls>>

\* Mutant: the browser is not told.
SendCancelLocally(c, cid) ==
    /\ requests' = requests \ Found(c, cid, RESERVED_ID)
    /\ UNCHANGED up

\* send_cancel for all requests of a context.
SendCancel(c, cid) ==
    LET found == Found(c, cid, RESERVED_ID)
    IN  /\ requests' = requests \ found
        /\ up' = IF found = {} THEN up
                 ELSE [up EXCEPT ![c] = Append(@,
                         [type |-> "cancel", n |-> 0, context_id |-> cid,
                          request_id |-> RESERVED_ID, persistent |-> FALSE])]

OnContextReleased(c) ==
    /\ Runs(c)
    /\ live' = live \ {c}
    /\ context_id' = [context_id EXCEPT ![c] = RESERVED_ID]
    /\ IF context_id[c] # RESERVED_ID THEN SendCancel(c, context_id[c])
       ELSE UNCHANGED <<requests, up>>
    /\ UNCHANGED <<next_context_id, next_request_id, blocked, down, browser, tasks,
                   ghosts, calls, events>>

\* Mutant: a response leaves the request in the map.
ExecuteCallbackKeepsRequest(c, msg) ==
    LET found == Found(c, msg.context_id, msg.request_id)
    IN  /\ UNCHANGED requests
        /\ replies' = [n \in Numbers |->
                         IF \E r \in found : r.n = n THEN Append(replies[n], msg.success)
                         ELSE replies[n]]
        /\ misrouted' = (misrouted \/ \E r \in found : r.n # msg.n)

\* execute_success_callback and execute_failure_callback.
ExecuteCallback(c, msg) ==
    LET found == Found(c, msg.context_id, msg.request_id)
    IN  /\ requests' = requests \ {r \in found : ~msg.success \/ ~r.persistent}
        /\ replies' = [n \in Numbers |->
                         IF \E r \in found : r.n = n THEN Append(replies[n], msg.success)
                         ELSE replies[n]]
        /\ misrouted' = (misrouted \/ \E r \in found : r.n # msg.n)

\* The frame of a context hands a message of the browser to the router.
RendererReceives(c) ==
    /\ down[c] # << >> /\ ProcessOf[c] \notin blocked
    /\ down' = [down EXCEPT ![c] = Tail(@)]
    /\ ExecuteCallback(c, Head(down[c]))
    /\ UNCHANGED <<live, context_id, next_context_id, next_request_id, blocked, up,
                   browser, tasks, asked, answered, canceled, failed, silenced,
                   calls, events>>

-----------------------------------------------------------------------------
(* The browser process.                                                    *)

Response(q, success) == [context_id |-> q.context_id, request_id |-> q.request_id,
                         success |-> success, n |-> q.n]

\* The queries of S in the order of the map.
InOrder(S) == [i \in 1..Cardinality(S) |->
    CHOOSE q \in S : Cardinality({x \in S : x.query_id < q.query_id}) = i - 1]
Failures(S) == LET s == InOrder(S) IN [i \in DOMAIN s |-> Response(s[i], FALSE)]

\* A message for a context that is gone is dropped with its frame.
Sent(c, s) == IF c \in live THEN down[c] \o s ELSE down[c]

\* Mutant: the Callback keeps its router.
CancelQueriesKeepsRouter(S, notify_renderer) ==
    /\ queries' = queries \ S
    /\ UNCHANGED attached
    /\ canceled' = [i \in Numbers |->
                      canceled[i] + Cardinality({q \in S : q.query_id = i})]
    /\ down' = IF notify_renderer
               THEN [c \in Contexts |-> Sent(c, Failures({q \in S : q.ctx = c}))]
               ELSE down

\* cancel_query for each of S: the renderer is sent a failure if it is to be
\* told, on_query_canceled is called and the callback loses its router.
CancelQueries(S, notify_renderer) ==
    /\ queries' = queries \ S
    /\ attached' = attached \ {q.query_id : q \in S}
    /\ canceled' = [i \in Numbers |->
                      canceled[i] + Cardinality({q \in S : q.query_id = i})]
    /\ down' = IF notify_renderer
               THEN [c \in Contexts |-> Sent(c, Failures({q \in S : q.ctx = c}))]
               ELSE down

\* The UI thread can run.
UiRuns == UiThread \notin blocked

\* The handler that an ID stands for, or None.
HandlerAt(id) ==
    LET i == id + handlers.offset + 1
    IN  IF i \in DOMAIN handlers.deque THEN handlers.deque[i] ELSE None

AddHandler(h, first) ==
    /\ UiRuns /\ Event
    /\ handlers' = IF first
                   THEN [offset |-> handlers.offset + 1, deque |-> <<h>> \o handlers.deque]
                   ELSE [handlers EXCEPT !.deque = Append(@, h)]
    /\ UNCHANGED <<renderers, blocked, up, down, queries, next_query_id, attached,
                   tasks, ghosts, calls>>

\* Mutant: the places in front are given up and the offset stays.
RemovedKeepsOffset(id) ==
    LET d == [handlers.deque EXCEPT ![id + handlers.offset + 1] = None]
        used == {i \in DOMAIN d : d[i] # None}
        lo == CHOOSE i \in used : \A j \in used : i <= j
        hi == CHOOSE i \in used : \A j \in used : i >= j
    IN  IF used = {} THEN [handlers EXCEPT !.deque = << >>]
        ELSE [handlers EXCEPT !.deque = SubSeq(d, lo, hi)]

\* The deque without a handler, and without empty places at its ends.
Removed(id) ==
    LET d == [handlers.deque EXCEPT ![id + handlers.offset + 1] = None]
        used == {i \in DOMAIN d : d[i] # None}
        lo == CHOOSE i \in used : \A j \in used : i <= j
        hi == CHOOSE i \in used : \A j \in used : i >= j
    IN  IF used = {} THEN [offset |-> handlers.offset - Len(d), deque |-> << >>]
        ELSE [offset |-> handlers.offset - (lo - 1), deque |-> SubSeq(d, lo, hi)]

\* remove_handler, of a handler that is there: its queries are canceled.
RemoveHandler(id) ==
    /\ UiRuns /\ Event /\ HandlerAt(id) # None
    /\ handlers' = Removed(id)
    /\ CancelQueries({q \in queries : q.handler_id = id}, TRUE)
    /\ UNCHANGED <<renderers, blocked, up, next_query_id, tasks, asked, replies,
                   misrouted, answered, failed, silenced, calls>>

\* What cancel_pending cancels: the ID is looked up when it is called, and one
\* that stands for no handler counts as none given.
Selected(id) == IF HandlerAt(id) = None THEN HandlerIds ELSE {id}

\* cancel_pending_for, for some browsers and handlers.
CancelPendingFor(B, ids) ==
    CancelQueries({q \in queries : BrowserOf[q.ctx] \in B /\ q.handler_id \in ids}, TRUE)

\* cancel_pending on the UI thread.
CancelPending(B, id) ==
    /\ UiRuns /\ Event
    /\ CancelPendingFor(B, Selected(id))
    /\ UNCHANGED <<renderers, blocked, up, handlers, next_query_id, tasks, asked, replies,
                   misrouted, answered, failed, silenced, calls>>

\* cancel_pending on another thread, and its task.
PostCancelPending(B, id) ==
    /\ Event
    /\ tasks' = Append(tasks, [type |-> "cancel", browsers |-> B, ids |-> Selected(id)])
    /\ UNCHANGED <<renderers, blocked, up, down, browser, ghosts, calls>>

RunCancelTask ==
    /\ UiRuns /\ tasks # << >> /\ Head(tasks).type = "cancel"
    /\ tasks' = Tail(tasks)
    /\ CancelPendingFor(Head(tasks).browsers, Head(tasks).ids)
    /\ UNCHANGED <<renderers, blocked, up, handlers, next_query_id, asked, replies,
                   misrouted, answered, failed, silenced, calls, events>>

\* on_before_browse for the main frame, and on_before_close: the page is
\* expected to go away and is not told.
OnBeforeBrowse(b) ==
    LET S == {q \in queries : BrowserOf[q.ctx] = b}
    IN  /\ UiRuns /\ Event
        /\ CancelQueries(S, FALSE)
        /\ silenced' = silenced \union {q.n : q \in S}
        /\ UNCHANGED <<renderers, blocked, up, handlers, next_query_id, tasks, asked,
                       replies, misrouted, answered, failed, calls>>

\* A renderer process dies with its contexts and what they had under way; the
\* browsers whose pages it held get on_render_process_terminated.
OnRenderProcessTerminated(p) ==
    LET C == {c \in live : ProcessOf[c] = p}
        B == {BrowserOf[c] : c \in {x \in Contexts : ProcessOf[x] = p}}
        S == {q \in queries : BrowserOf[q.ctx] \in B}
    IN  /\ UiRuns /\ Event /\ C # {}
        /\ live' = live \ C /\ blocked' = blocked \ {p}
        /\ context_id' = [c \in Contexts |-> IF c \in C THEN RESERVED_ID ELSE context_id[c]]
        /\ requests' = {r \in requests : ProcessOf[r.ctx] # p}
        /\ up' = [c \in Contexts |-> IF ProcessOf[c] = p THEN << >> ELSE up[c]]
        /\ down' = [c \in Contexts |-> IF ProcessOf[c] = p THEN << >> ELSE down[c]]
        /\ queries' = queries \ S
        /\ attached' = attached \ {q.query_id : q \in S}
        /\ canceled' = [i \in Numbers |->
                          canceled[i] + Cardinality({q \in S : q.query_id = i})]
        /\ silenced' = silenced \union {q.n : q \in S}
        /\ UNCHANGED <<next_context_id, next_request_id, handlers, next_query_id,
                       tasks, asked, replies, misrouted, answered, failed, calls>>

\* A query that one of the handlers, asked one after the other, takes.
OnQuery(c, msg, id) ==
    LET q == [query_id |-> NextId(next_query_id), ctx |-> c, n |-> msg.n,
              context_id |-> msg.context_id, request_id |-> msg.request_id,
              persistent |-> msg.persistent, handler_id |-> id,
              handler |-> HandlerAt(id)]
    IN  /\ HandlerAt(id) # None
        /\ next_query_id' = NextId(next_query_id)
        /\ queries' = queries \union {q}
        /\ attached' = attached \union {q.query_id}
        /\ UNCHANGED down

\* No handler is registered, or none takes the query: cancel_unhandled_query.
OnUnhandledQuery(c, msg) ==
    /\ next_query_id' = IF handlers.deque = << >> THEN next_query_id ELSE NextId(next_query_id)
    /\ down' = [down EXCEPT ![c] = Sent(c, <<Response(msg, FALSE)>>)]
    /\ UNCHANGED <<queries, attached>>

BrowserReceivesQuery(c) ==
    /\ UiRuns /\ up[c] # << >> /\ Head(up[c]).type = "query"
    /\ up' = [up EXCEPT ![c] = Tail(@)]
    /\ \/ \E id \in HandlerIds : OnQuery(c, Head(up[c]), id)
       \/ OnUnhandledQuery(c, Head(up[c]))
    /\ UNCHANGED <<renderers, blocked, handlers, tasks, asked, replies, misrouted,
                   answered, canceled, failed, silenced, calls, events>>

(* A handler that is asked calls remove_handler, cancel_pending or         *)
(* pending_count, which lock the browser_query_info_map that is locked     *)
(* while handlers are asked.  remove_handler has taken the handler out of  *)
(* the deque by then, and not yet canceled its queries.  It also holds the *)
(* mutex of the deque, so that a thread that calls cancel_pending with an  *)
(* ID waits too; here it posts its task, which never runs.                 *)
HandlerReenters(c) ==
    /\ UiRuns /\ up[c] # << >> /\ Head(up[c]).type = "query" /\ handlers.deque # << >>
    /\ Event
    /\ up' = [up EXCEPT ![c] = Tail(@)]
    /\ next_query_id' = NextId(next_query_id)
    /\ \/ UNCHANGED handlers
       \/ \E id \in HandlerIds : HandlerAt(id) # None /\ handlers' = Removed(id)
    /\ blocked' = blocked \union {UiThread}
    /\ silenced' = silenced \union {Head(up[c]).n}
    /\ UNCHANGED <<renderers, down, queries, attached, tasks, asked, replies, misrouted,
                   answered, canceled, failed, calls>>

\* Mutant: a cancellation is taken for one of the whole browser.
CancelPendingRequestAll(c, cid, rid) ==
    CancelQueries({q \in queries : BrowserOf[q.ctx] = BrowserOf[c]}, FALSE)

\* cancel_pending_request: all queries of a context, or the first one with the
\* request ID.  The map is that of the browser; the IDs are those that the
\* renderer process of the message gave.
CancelPendingRequest(c, cid, rid) ==
    LET match == {q \in queries : /\ BrowserOf[q.ctx] = BrowserOf[c]
                                  /\ \/ q.context_id = cid /\ rid = RESERVED_ID
                                     \/ q.request_id = rid}
    IN  CancelQueries(IF rid = RESERVED_ID THEN match
                      ELSE {q \in match : \A x \in match : q.query_id <= x.query_id},
                      FALSE)

BrowserReceivesCancel(c) ==
    /\ UiRuns /\ up[c] # << >> /\ Head(up[c]).type = "cancel"
    /\ up' = [up EXCEPT ![c] = Tail(@)]
    /\ CancelPendingRequest(c, Head(up[c]).context_id, Head(up[c]).request_id)
    /\ UNCHANGED <<renderers, blocked, handlers, next_query_id, tasks, asked, replies,
                   misrouted, answered, failed, silenced, calls, events>>

\* The embedder calls success or failure on the callback of a query that was
\* handed to a handler, at any time and on any thread.
CallCallback(q, success) ==
    /\ calls < MaxCalls
    /\ q \in 1..next_query_id
    /\ q \in attached \/ answered[q] + canceled[q] > 0
    /\ calls' = calls + 1
    /\ tasks' = Append(tasks, [type |-> "reply", query_id |-> q, success |-> success])
    /\ UNCHANGED <<renderers, blocked, up, down, browser, ghosts, events>>

\* The task of success or failure, when the callback has its router:
\* on_callback_success or on_callback_failure.  Both remove the query from the
\* map if it is not persistent; a failure detaches the callback in any case.
RunCallback(t) ==
    LET info == {q \in queries : q.query_id = t.query_id}
        single == {q \in info : ~q.persistent}
        last == IF t.success THEN single ELSE info
    IN  /\ queries' = queries \ single
        /\ attached' = attached \ {q.query_id : q \in last}
        /\ answered' = [answered EXCEPT ![t.query_id] = @ + Cardinality(last)]
        /\ failed' = failed \union {q.query_id : q \in last \ single}
        /\ down' = [c \in Contexts |->
                      IF \E q \in info : q.ctx = c
                      THEN Sent(c, <<Response(CHOOSE q \in info : TRUE, t.success)>>)
                      ELSE down[c]]

RunCallbackTask ==
    /\ UiRuns /\ tasks # << >> /\ Head(tasks).type = "reply"
    /\ tasks' = Tail(tasks)
    /\ IF Head(tasks).query_id \in attached THEN RunCallback(Head(tasks))
       ELSE UNCHANGED <<queries, attached, answered, failed, down>>
    /\ UNCHANGED <<renderers, blocked, up, handlers, next_query_id, asked, replies,
                   misrouted, canceled, silenced, calls, events>>

-----------------------------------------------------------------------------
Next ==
    \/ \E c \in Contexts :
         \/ \E persistent \in BOOLEAN : SendQuery(c, persistent)
         \/ CancelFunction(c) \/ OnContextReleased(c) \/ RendererReceives(c)
         \/ BrowserReceivesQuery(c) \/ BrowserReceivesCancel(c) \/ HandlerReenters(c)
    \/ \E h \in Handlers, first \in BOOLEAN : AddHandler(h, first)
    \/ \E id \in HandlerIds : RemoveHandler(id)
    \/ \E B \in {{b} : b \in Browsers} \union {Browsers}, id \in HandlerIds :
         CancelPending(B, id) \/ PostCancelPending(B, id)
    \/ \E b \in Browsers : OnBeforeBrowse(b)
    \/ \E p \in Processes : OnRenderProcessTerminated(p)
    \/ \E q \in Numbers, success \in BOOLEAN : CallCallback(q, success)
    \/ RunCancelTask \/ RunCallbackTask

Spec == Init /\ [][Next]_vars

-----------------------------------------------------------------------------
(* Properties.                                                             *)

\* The maps, the deque and the counters have their types, the generators stay
\* within what was asked for, and the places at the ends of the deque of
\* handlers are taken.
TypeOK ==
    /\ live \subseteq Contexts
    /\ context_id \in [Contexts -> 0..Cardinality(Contexts)]
    /\ next_context_id \in [Processes -> 0..Cardinality(Contexts)]
    /\ next_request_id \in [Processes -> 0..MaxQueries]
    /\ requests \subseteq [n : Numbers, ctx : Contexts, context_id : Nat,
                           request_id : Numbers, persistent : BOOLEAN]
    /\ blocked \subseteq Processes \union {UiThread}
    /\ queries \subseteq [query_id : Numbers, ctx : Contexts, n : Numbers,
                          context_id : Nat, request_id : Numbers,
                          persistent : BOOLEAN, handler_id : HandlerIds,
                          handler : Handlers]
    /\ handlers.offset \in Int /\ handlers.deque \in Seq(Handlers \union {None})
    /\ \A i \in {1, Len(handlers.deque)} \ {0} : handlers.deque # << >> => handlers.deque[i] # None
    /\ next_query_id \in 0..MaxQueries /\ attached \subseteq Numbers
    /\ asked \in 0..MaxQueries /\ silenced \subseteq Numbers /\ failed \subseteq Numbers
    /\ calls \in 0..MaxCalls /\ events \in 0..MaxEvents

\* The JavaScript callbacks of a query are called with its own responses only,
\* nothing follows a failure, and a query that can still get a response has not
\* failed and has had a success only if it is persistent.
RepliesInProtocol ==
    /\ ~misrouted
    /\ \A n \in Numbers :
         /\ \A i \in DOMAIN replies[n] : ~replies[n][i] => i = Len(replies[n])
         /\ \A r \in requests : r.n = n /\ replies[n] # << >> =>
                r.persistent /\ \A i \in DOMAIN replies[n] : replies[n][i]

\* A handler that took a query is told once how it ended: either its own last
\* response was sent or on_query_canceled was called, never both.
EndsOnce == \A q \in 1..next_query_id : answered[q] + canceled[q] <= 1

\* What holds of that: a query ends once, and is pending with a callback that
\* works until then, unless it is persistent and its handler has failed it.  Such
\* a query stays in the map, its callback does nothing any more, and it may
\* still be canceled, once.
EndsOnceOrFailed ==
    \A q \in 1..next_query_id :
        /\ q \notin failed => /\ answered[q] + canceled[q] <= 1
                              /\ (\E x \in queries : x.query_id = q) <=> q \in attached
        /\ q \in failed => answered[q] = 1 /\ canceled[q] <= 1
        /\ q \in attached => answered[q] + canceled[q] = 0

InUp(c, n) == \E i \in DOMAIN up[c] : up[c][i].type = "query" /\ up[c][i].n = n
InDown(c, n) == \E i \in DOMAIN down[c] : down[c][i].n = n

\* A page that waits for a response has its query under way, pending in the
\* browser or answered, unless the browser canceled all queries of a page that
\* it expects to go away, or waits for itself in a handler that was asked: no
\* other frame can make it wait in vain.
PendingIsAnswerable ==
    \A r \in requests : r.n \notin silenced =>
        \/ InUp(r.ctx, r.n)
        \/ \E q \in queries : q.n = r.n
        \/ InDown(r.ctx, r.n)

\* No query is left in the browser, with its handler, when its page has stopped
\* waiting for it: the message that cancels it is on its way.  The exception is
\* again a persistent query that its handler has failed.
AbandonedIsCanceled ==
    \A q \in queries :
        (\A r \in requests : r.n # q.n) =>
            \/ q.query_id \in failed
            \/ \E i \in DOMAIN up[q.ctx] : LET u == up[q.ctx][i] IN
                    u.type = "cancel" /\ u.context_id = q.context_id

\* The ID under which a handler took a query stands for that handler for as long
\* as the query is pending, whatever is added in front and removed in between:
\* so remove_handler and cancel_pending reach its queries and no others.  Only
\* when remove_handler is called from a handler that is asked, and waits for
\* ever before it cancels them, do queries stay with an ID that stands for none,
\* and even then with none that stands for another handler.
HandlerIsRegistered ==
    \A q \in queries : \/ HandlerAt(q.handler_id) = q.handler
                       \/ ~UiRuns /\ HandlerAt(q.handler_id) = None

\* cefQueryCancel returns: no renderer process waits for itself.
CancelReturns == blocked \intersect Processes = {}
=============================================================================
