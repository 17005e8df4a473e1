-------------------------- MODULE MessageRouterProofs --------------------------
(***************************************************************************)
(* Proofs about MessageRouter for any contexts, browsers, renderer         *)
(* processes and handlers and any number of queries, calls and events: a   *)
(* query ends once, its page hears only its own responses, no query is     *)
(* forgotten on either side, and a handler's ID stays its own.             *)
(***************************************************************************)
EXTENDS MessageRouter, TLAPS, SequenceTheorems, FiniteSetTheorems

(* Types.                                                                  *)

Requests == [n : Numbers, ctx : Contexts, context_id : Nat, request_id : Numbers,
             persistent : BOOLEAN]
Pendings == [query_id : Numbers, ctx : Contexts, n : Numbers, context_id : Nat,
             request_id : Numbers, persistent : BOOLEAN, handler_id : HandlerIds,
             handler : Handlers]
QueryMessages == [type : {"query"}, n : Numbers, context_id : Nat, request_id : Numbers,
                  persistent : BOOLEAN]
CancelMessages == [type : {"cancel"}, n : {0}, context_id : Nat, request_id : {RESERVED_ID},
                   persistent : {FALSE}]
Responses == [context_id : Nat, request_id : Numbers, success : BOOLEAN, n : Numbers]
Tasks == [type : {"reply"}, query_id : Numbers, success : BOOLEAN]
            \cup [type : {"cancel"}, browsers : SUBSET Browsers, ids : SUBSET HandlerIds]

RendererOK ==
    /\ live \subseteq Contexts /\ context_id \in [Contexts -> Nat]
    /\ next_context_id \in [Processes -> Nat] /\ next_request_id \in [Processes -> Nat]
    /\ \A p \in Processes : next_request_id[p] <= asked
    /\ asked \in 0..MaxQueries /\ requests \subseteq Requests
    /\ \A r \in requests : r.n <= asked

ChannelOK ==
    /\ up \in [Contexts -> Seq(QueryMessages \cup CancelMessages)]
    /\ down \in [Contexts -> Seq(Responses)]

BrowserOK ==
    /\ queries \subseteq Pendings /\ IsFiniteSet(queries)
    /\ next_query_id \in Nat /\ attached \subseteq Numbers
    /\ silenced \subseteq Numbers /\ failed \subseteq Numbers
    /\ answered \in [Numbers -> Nat] /\ canceled \in [Numbers -> Nat]

MiscOK ==
    /\ blocked \subseteq Processes \cup {UiThread} /\ tasks \in Seq(Tasks)
    /\ calls \in 0..MaxCalls /\ events \in 0..MaxEvents

-----------------------------------------------------------------------------
(* The invariants.                                                         *)

\* The query messages that are under way from context c, and their numbers.
Asking(c) == {m \in Range(up[c]) : m.type = "query"}
Waiting == {n \in Numbers : \E c \in Contexts : \E m \in Asking(c) : m.n = n}

\* No query is sent twice, and the browser gives no more IDs than it got queries.
CountOK ==
    /\ \A c, d \in Contexts : \A i \in DOMAIN up[c], j \in DOMAIN up[d] :
          up[c][i].type = "query" /\ up[d][j].type = "query" /\ up[c][i].n = up[d][j].n
              => c = d /\ i = j
    /\ \A n \in Waiting : n <= asked
    /\ next_query_id + Cardinality(Waiting) <= asked

\* The context IDs of a process are all different and never used again, and a
\* process gives no more of them than there are contexts.
Unnamed == {c \in live : context_id[c] = RESERVED_ID}
ContextOK ==
    /\ \A c \in Contexts : /\ c \notin live => context_id[c] = RESERVED_ID
                           /\ context_id[c] <= next_context_id[ProcessOf[c]]
    /\ \A c, d \in Contexts : ProcessOf[c] = ProcessOf[d] /\ context_id[c] = context_id[d]
          => c = d \/ context_id[c] = RESERVED_ID
    /\ \A p \in Processes : next_context_id[p] + Cardinality(Unnamed) <= Cardinality(Contexts)

\* The life of a query ID.
EndsOK ==
    /\ \A q \in Numbers : q > next_query_id =>
          q \notin attached /\ q \notin failed /\ answered[q] = 0 /\ canceled[q] = 0
    /\ \A x \in queries : x.query_id <= next_query_id
    /\ \A x, y \in queries : x.query_id = y.query_id => x = y
    /\ \A x \in queries : canceled[x.query_id] = 0
    /\ EndsOnceOrFailed

HandlersOK ==
    /\ handlers \in [offset : Int, deque : Seq(Handlers \cup {None})]
    /\ handlers.deque # << >> =>
          handlers.deque[1] # None /\ handlers.deque[Len(handlers.deque)] # None
    /\ HandlerIsRegistered

(* What is left of one call of cefQuery, in the page, on its way to the    *)
(* browser, there, or on its way back, has the same context and IDs, and   *)
(* those of another call of the process have other IDs.                    *)
Keys == [n : Numbers, ctx : Contexts, context_id : Nat, request_id : Numbers]
KeyOf(m, c) == [n |-> m.n, ctx |-> c, context_id |-> m.context_id, request_id |-> m.request_id]
Traces ==
    {k \in Keys : \/ \E r \in requests : k = KeyOf(r, r.ctx)
                  \/ \E q \in queries : k = KeyOf(q, q.ctx)
                  \/ \E c \in Contexts : \E m \in Asking(c) : k = KeyOf(m, c)
                  \/ \E c \in Contexts : \E x \in Range(down[c]) : k = KeyOf(x, c)}

TraceOK ==
    /\ \A s, t \in Traces : s.n = t.n => s = t
    /\ \A s, t \in Traces :
          ProcessOf[s.ctx] = ProcessOf[t.ctx] /\ s.request_id = t.request_id => s.n = t.n
    /\ \A t \in Traces : /\ t.n <= asked
                         /\ t.request_id <= next_request_id[ProcessOf[t.ctx]]
                         /\ t.context_id <= next_context_id[ProcessOf[t.ctx]]

\* A call has one entry in the map of its page, as long as its context lives.
RequestOK ==
    /\ \A r, s \in requests : r.n = s.n => r = s
    /\ \A r \in requests : /\ r.ctx \in live /\ r.context_id = context_id[r.ctx]
                           /\ r.context_id # RESERVED_ID
                           /\ \A m \in Asking(r.ctx) : m.n = r.n => m.persistent = r.persistent
                           /\ \A q \in queries : q.n = r.n => q.persistent = r.persistent

\* A call is on its way to the browser or has got there, once.
StageOK ==
    /\ \A x, y \in queries : x.n = y.n => x = y
    /\ \A c, d \in Contexts : \A m \in Asking(c) :
          (\A q \in queries : q.n # m.n) /\ (\A x \in Range(down[d]) : x.n # m.n)

RepliesOK ==
    /\ replies \in [Numbers -> Seq(BOOLEAN)]
    /\ \A n \in Numbers : n > asked => replies[n] = << >>
    /\ RepliesInProtocol

\* The last response to a query is not followed by another as long as the query
\* is pending, unless the query is a persistent one that has been failed.
FinalOK ==
    \A q \in queries : \A x \in Range(down[q.ctx]) :
        x.n = q.n /\ (~x.success \/ ~q.persistent) => q.query_id \in failed

\* A context whose queries are canceled is gone, and so is its ID.
CancelOK ==
    \A c \in Contexts : \A m \in Range(up[c]) : m.type = "cancel" =>
        /\ m.context_id # RESERVED_ID /\ m.context_id <= next_context_id[ProcessOf[c]]
        /\ \A d \in Contexts : ProcessOf[d] = ProcessOf[c] => context_id[d] # m.context_id

\* PendingIsAnswerable, with the last response to come.
AnswerOK ==
    \A r \in requests : r.n \notin silenced =>
        \/ \E m \in Asking(r.ctx) : m.n = r.n
        \/ \E q \in queries : q.n = r.n
        \/ \E x \in Range(down[r.ctx]) : x.n = r.n /\ (~x.success \/ ~r.persistent)

\* AbandonedIsCanceled, with the queries that are under way: the cancellation
\* comes after them.
Abandoned(n) == \A r \in requests : r.n # n
AbandonOK ==
    /\ \A q \in queries : Abandoned(q.n) =>
          \/ q.query_id \in failed
          \/ \E m \in Range(up[q.ctx]) : m.type = "cancel" /\ m.context_id = q.context_id
    /\ \A c \in Contexts : \A i \in DOMAIN up[c] :
          up[c][i].type = "query" /\ Abandoned(up[c][i].n) =>
              \E j \in DOMAIN up[c] : /\ j > i /\ up[c][j].type = "cancel"
                                      /\ up[c][j].context_id = up[c][i].context_id

BaseInv ==
    /\ RendererOK /\ ChannelOK /\ BrowserOK /\ MiscOK /\ HandlersOK
    /\ CountOK /\ ContextOK /\ EndsOK

IInv == /\ BaseInv /\ TraceOK /\ RequestOK /\ StageOK /\ RepliesOK /\ FinalOK /\ CancelOK
        /\ AbandonOK

(* The frames of a browser share a renderer process: no site isolation.    *)
SharedProcess ==
    \A c, d \in Contexts : BrowserOf[c] = BrowserOf[d] => ProcessOf[c] = ProcessOf[d]

-----------------------------------------------------------------------------
(* Sequences, as far as only the messages on them matter.                  *)

LEMMA SeqRange ==
    ASSUME NEW T, NEW s \in Seq(T)
    PROVE  /\ DOMAIN s = 1..Len(s) /\ Len(s) \in Nat /\ Range(s) \subseteq T
           /\ \A i \in DOMAIN s : s[i] \in T /\ s[i] \in Range(s)
           /\ s = << >> => Range(s) = {}
BY DEF Range

LEMMA RangeTail ==
    ASSUME NEW T, NEW s \in Seq(T), s # << >>
    PROVE  /\ Head(s) \in T /\ Tail(s) \in Seq(T) /\ Head(s) = s[1] /\ 1 \in DOMAIN s
           /\ Range(s) = {Head(s)} \cup Range(Tail(s))
           /\ \A i \in DOMAIN Tail(s) : i + 1 \in DOMAIN s /\ Tail(s)[i] = s[i + 1] /\ i \in Nat \ {0}
           /\ \A i \in DOMAIN s : i # 1 => i - 1 \in DOMAIN Tail(s) /\ Tail(s)[i - 1] = s[i]
<1>1. /\ Head(s) \in T /\ Tail(s) \in Seq(T) /\ Head(s) = s[1] /\ Len(Tail(s)) = Len(s) - 1
      /\ Len(s) \in Nat \ {0} /\ DOMAIN s = 1..Len(s) /\ DOMAIN Tail(s) = 1..(Len(s) - 1)
      /\ \A i \in 1..(Len(s) - 1) : Tail(s)[i] = s[i + 1]
  BY EmptySeq, HeadTailProperties, LenProperties
<1>2. \A i \in DOMAIN s : i # 1 => i - 1 \in DOMAIN Tail(s) /\ Tail(s)[i - 1] = s[i]
  BY <1>1
<1>3. \A i \in DOMAIN Tail(s) : i + 1 \in DOMAIN s /\ Tail(s)[i] = s[i + 1] /\ i \in Nat \ {0}
  BY <1>1
<1>4. 1 \in DOMAIN s
  BY <1>1
<1>5. Range(s) = {Head(s)} \cup Range(Tail(s))
  <2>1. ASSUME NEW i \in DOMAIN s PROVE s[i] \in {Head(s)} \cup Range(Tail(s))
    BY <1>1, <1>2 DEF Range
  <2>2. ASSUME NEW i \in DOMAIN Tail(s) PROVE Tail(s)[i] \in Range(s)
    BY <1>3 DEF Range
  <2>3. Head(s) \in Range(s)
    BY <1>1, <1>4 DEF Range
  <2>4. QED
    BY <2>1, <2>2, <2>3 DEF Range
<1>6. QED
  BY <1>1, <1>2, <1>3, <1>4, <1>5

LEMMA RangeAppend ==
    ASSUME NEW T, NEW s \in Seq(T), NEW m \in T
    PROVE  /\ Append(s, m) \in Seq(T) /\ Range(Append(s, m)) = Range(s) \cup {m}
           /\ Len(s) + 1 \in DOMAIN Append(s, m) /\ Append(s, m)[Len(s) + 1] = m
           /\ Len(s) \in Nat
           /\ \A i \in DOMAIN s : i \in DOMAIN Append(s, m) /\ Append(s, m)[i] = s[i] /\ i <= Len(s)
           /\ \A i \in DOMAIN Append(s, m) : i \in DOMAIN s \/ i = Len(s) + 1
<1>1. /\ Append(s, m) \in Seq(T) /\ DOMAIN Append(s, m) = 1..(Len(s) + 1) /\ Len(s) \in Nat
      /\ DOMAIN s = 1..Len(s) /\ Append(s, m)[Len(s) + 1] = m
      /\ \A i \in 1..Len(s) : Append(s, m)[i] = s[i]
  BY AppendProperties, LenProperties
<1>2. /\ Len(s) + 1 \in DOMAIN Append(s, m)
      /\ \A i \in DOMAIN s : i \in DOMAIN Append(s, m) /\ Append(s, m)[i] = s[i] /\ i <= Len(s)
      /\ \A i \in DOMAIN Append(s, m) : i \in DOMAIN s \/ i = Len(s) + 1
  BY <1>1
<1>3. Range(Append(s, m)) = Range(s) \cup {m}
  BY <1>1, <1>2 DEF Range
<1>4. QED
  BY <1>1, <1>2, <1>3

LEMMA RangeConcat ==
    ASSUME NEW T, NEW s \in Seq(T), NEW t \in Seq(T)
    PROVE  s \o t \in Seq(T) /\ Range(s \o t) = Range(s) \cup Range(t)
BY ConcatProperties, RangeConcatenation

LEMMA Least ==
    ASSUME NEW S, S \subseteq Nat, S # {}
    PROVE  \E m \in S : \A n \in S : m <= n
<1> DEFINE R == {ss \in Nat \X Nat : ss[1] < ss[2]}
<1>1. IsWellFoundedOn(R, Nat)
  BY NatLessThanWellFounded DEF OpToRel
<1> HIDE DEF R
<1>2. PICK x \in S : \A y \in S : ~(<<y, x>> \in R)
  BY <1>1, WFMin
<1>3. \A y \in S : ~(y < x)
  BY <1>2 DEF R
<1>4. QED
  BY <1>3

LEMMA Greatest ==
    ASSUME NEW k \in Nat, NEW S, S \subseteq 1..k, S # {}
    PROVE  \E m \in S : \A n \in S : m >= n
<1> DEFINE D == {d \in Nat : \E i \in S : d = k - i}
<1>1. D \subseteq Nat /\ D # {}
  <2>1. PICK i : i \in S
    OBVIOUS
  <2>2. k - i \in D
    BY <2>1
  <2>3. QED
    BY <2>2
<1>2. PICK d \in D : \A e \in D : d <= e
  <2> HIDE DEF D
  <2>1. QED
    BY <1>1, Least
<1>3. PICK m \in S : d = k - m
  BY <1>2
<1>4. \A n \in S : k - n \in D
  OBVIOUS
<1> HIDE DEF D
<1>5. \A n \in S : k - m <= k - n
  BY <1>2, <1>3, <1>4
<1>6. \A n \in S : n \in Int /\ m \in Int
  OBVIOUS
<1>7. QED
  BY <1>3, <1>5, <1>6

-----------------------------------------------------------------------------
(* The steps, by what they do to pages, channels and queries.              *)

\* The router cancels queries and tells their pages.
NotifiedCancel ==
    \E S \in SUBSET queries :
        /\ CancelQueries(S, TRUE)
        /\ UNCHANGED <<renderers, up, next_query_id, asked, replies, misrouted, answered,
                       failed, silenced>>

Quiet == UNCHANGED <<renderers, up, down, queries, next_query_id, attached, ghosts>>

LEMMA StepKinds ==
    ASSUME [Next]_vars
    PROVE  \/ \E c \in Contexts, persistent \in BOOLEAN : SendQuery(c, persistent)
           \/ \E c \in Contexts : CancelFunction(c)
           \/ \E c \in Contexts : OnContextReleased(c)
           \/ \E c \in Contexts : RendererReceives(c)
           \/ \E c \in Contexts : BrowserReceivesQuery(c)
           \/ \E c \in Contexts : BrowserReceivesCancel(c)
           \/ \E b \in Browsers : OnBeforeBrowse(b)
           \/ \E p \in Processes : OnRenderProcessTerminated(p)
           \/ \E c \in Contexts : HandlerReenters(c)
           \/ RunCallbackTask \/ NotifiedCancel \/ Quiet
<1>1. CASE \E h \in Handlers, first \in BOOLEAN : AddHandler(h, first)
  BY <1>1 DEF AddHandler, Quiet
<1>2. CASE \E B \in {{b} : b \in Browsers} \union {Browsers}, id \in HandlerIds :
             PostCancelPending(B, id)
  BY <1>2 DEF PostCancelPending, Quiet, browser
<1>3. CASE \E q \in Numbers, success \in BOOLEAN : CallCallback(q, success)
  BY <1>3 DEF CallCallback, Quiet, browser
<1>4. CASE UNCHANGED vars
  BY <1>4 DEF vars, Quiet, browser
<1>5. CASE \E id \in HandlerIds : RemoveHandler(id)
  <2>1. PICK id \in HandlerIds : RemoveHandler(id)
    BY <1>5
  <2>2. {q \in queries : q.handler_id = id} \in SUBSET queries
    OBVIOUS
  <2>3. QED
    BY <2>1, <2>2 DEF RemoveHandler, NotifiedCancel
<1>6. ASSUME NEW B, NEW ids, CancelPendingFor(B, ids),
             UNCHANGED <<renderers, up, next_query_id, asked, replies, misrouted, answered,
                         failed, silenced>>
      PROVE  NotifiedCancel
  <2>1. {q \in queries : BrowserOf[q.ctx] \in B /\ q.handler_id \in ids} \in SUBSET queries
    OBVIOUS
  <2>2. QED
    BY <1>6, <2>1 DEF CancelPendingFor, NotifiedCancel
<1>7. CASE \E B \in {{b} : b \in Browsers} \union {Browsers}, id \in HandlerIds :
             CancelPending(B, id)
  BY <1>6, <1>7 DEF CancelPending
<1>8. CASE RunCancelTask
  BY <1>6, <1>8 DEF RunCancelTask
<1>9. QED
  BY <1>1, <1>2, <1>3, <1>4, <1>5, <1>7, <1>8 DEF Next

-----------------------------------------------------------------------------
(* The tasks, the counters and the deque of handlers.                      *)

LEMMA SelectedIds ==
    ASSUME NEW id \in HandlerIds
    PROVE  Selected(id) \in SUBSET HandlerIds
BY DEF Selected

LEMMA MiscStep ==
    ASSUME MiscOK, [Next]_vars
    PROVE  MiscOK'
<1> USE ConstantsAssumption
<1>1. ASSUME UNCHANGED <<blocked, tasks, calls, events>> PROVE MiscOK'
  BY <1>1 DEF MiscOK
<1>2. ASSUME UNCHANGED <<blocked, tasks, calls>>, Event PROVE MiscOK'
  BY <1>2 DEF MiscOK, Event
<1>3. ASSUME NEW c \in Contexts, CancelFunction(c) \/ HandlerReenters(c) PROVE MiscOK'
  <2>1. ProcessOf[c] \in Processes
    BY DEF Processes
  <2>2. blocked' \subseteq Processes \cup {UiThread}
    BY <1>3, <2>1 DEF MiscOK, CancelFunction, HandlerReenters
  <2>3. QED
    BY <1>3, <2>2 DEF MiscOK, CancelFunction, HandlerReenters, Event
<1>4. ASSUME NEW p \in Processes, OnRenderProcessTerminated(p) PROVE MiscOK'
  BY <1>4 DEF MiscOK, OnRenderProcessTerminated, Event
<1>5. ASSUME tasks # << >>, tasks' = Tail(tasks), UNCHANGED <<blocked, calls, events>> PROVE MiscOK'
  <2>1. tasks' \in Seq(Tasks)
    BY <1>5, RangeTail DEF MiscOK
  <2>2. QED
    BY <1>5, <2>1 DEF MiscOK
<1>6. ASSUME NEW B \in SUBSET Browsers, NEW id \in HandlerIds, PostCancelPending(B, id) PROVE MiscOK'
  <2>1. [type |-> "cancel", browsers |-> B, ids |-> Selected(id)] \in Tasks
    BY SelectedIds DEF Tasks
  <2>2. tasks' \in Seq(Tasks)
    BY <1>6, <2>1, RangeAppend DEF MiscOK, PostCancelPending
  <2>3. QED
    BY <1>6, <2>2 DEF MiscOK, PostCancelPending, Event
<1>7. ASSUME NEW q \in Numbers, NEW success \in BOOLEAN, CallCallback(q, success) PROVE MiscOK'
  <2>1. [type |-> "reply", query_id |-> q, success |-> success] \in Tasks
    BY DEF Tasks
  <2>2. tasks' \in Seq(Tasks)
    BY <1>7, <2>1, RangeAppend DEF MiscOK, CallCallback
  <2>3. QED
    BY <1>7, <2>2 DEF MiscOK, CallCallback
<1>8. CASE \E c \in Contexts : \/ \E persistent \in BOOLEAN : SendQuery(c, persistent)
                               \/ OnContextReleased(c) \/ RendererReceives(c)
                               \/ BrowserReceivesQuery(c) \/ BrowserReceivesCancel(c)
  BY <1>1, <1>8 DEF SendQuery, OnContextReleased, RendererReceives, BrowserReceivesQuery,
                    BrowserReceivesCancel
<1>9. CASE \/ \E h \in Handlers, first \in BOOLEAN : AddHandler(h, first)
           \/ \E id \in HandlerIds : RemoveHandler(id)
           \/ \E b \in Browsers : OnBeforeBrowse(b)
  BY <1>2, <1>9 DEF AddHandler, RemoveHandler, OnBeforeBrowse
<1>10. CASE RunCancelTask \/ RunCallbackTask
  BY <1>5, <1>10 DEF RunCancelTask, RunCallbackTask
<1>11. ASSUME NEW B \in {{b} : b \in Browsers} \union {Browsers}, NEW id \in HandlerIds,
              CancelPending(B, id) \/ PostCancelPending(B, id)
       PROVE  MiscOK'
  <2>1. B \in SUBSET Browsers
    OBVIOUS
  <2>2. QED
    BY <1>2, <1>6, <1>11, <2>1 DEF CancelPending
<1>12. CASE UNCHANGED vars
  BY <1>1, <1>12 DEF vars
<1>13. QED
  BY <1>3, <1>4, <1>7, <1>8, <1>9, <1>10, <1>11, <1>12 DEF Next

\* Where the handlers of the IDs are.
Place(id) == id + handlers.offset + 1

LEMMA Placed ==
    ASSUME HandlersOK, NEW id \in Int, HandlerAt(id) # None
    PROVE  /\ Place(id) \in 1..Len(handlers.deque) /\ handlers.deque[Place(id)] = HandlerAt(id)
           /\ handlers.deque \in Seq(Handlers \cup {None}) /\ handlers.offset \in Int
           /\ Len(handlers.deque) \in Nat /\ DOMAIN handlers.deque = 1..Len(handlers.deque)
<1>1. handlers.deque \in Seq(Handlers \cup {None}) /\ handlers.offset \in Int
  BY DEF HandlersOK
<1>2. Len(handlers.deque) \in Nat /\ DOMAIN handlers.deque = 1..Len(handlers.deque)
  BY <1>1, SeqRange
<1>3. QED
  BY <1>1, <1>2 DEF HandlerAt, Place

\* While the UI thread runs, a pending query has its handler.
LEMMA PendingHandler ==
    ASSUME BrowserOK, HandlersOK, UiRuns, NEW q \in queries
    PROVE  /\ q.handler_id \in Int /\ q.handler \in Handlers /\ q.handler # None
           /\ HandlerAt(q.handler_id) = q.handler
<1>1. q.handler_id \in HandlerIds /\ q.handler \in Handlers
  BY DEF BrowserOK, Pendings
<1>2. HandlerIds \subseteq Int
  BY ConstantsAssumption DEF HandlerIds
<1>3. QED
  BY <1>1, <1>2, ConstantsAssumption DEF HandlersOK, HandlerIsRegistered

LEMMA AddHandlerStep ==
    ASSUME BrowserOK, HandlersOK, NEW h \in Handlers, NEW first \in BOOLEAN, AddHandler(h, first)
    PROVE  HandlersOK'
<1> DEFINE d == handlers.deque
           T == Handlers \cup {None}
           k == Len(d)
<1>1. d \in Seq(T) /\ handlers.offset \in Int /\ h \in T /\ h # None
      /\ handlers = [offset |-> handlers.offset, deque |-> d]
  BY ConstantsAssumption DEF HandlersOK
<1>2. k \in Nat /\ DOMAIN d = 1..k /\ (d = << >> <=> k = 0)
  BY <1>1, SeqRange, EmptySeq
<1>3. queries' = queries /\ UiRuns
  BY DEF AddHandler
<1>4. CASE first
  <2> DEFINE e == <<h>> \o d
  <2>1. handlers' = [offset |-> handlers.offset + 1, deque |-> e]
    BY <1>4 DEF AddHandler
  <2>2. /\ e \in Seq(T) /\ Len(e) = 1 + k /\ DOMAIN e = 1..(1 + k)
        /\ \A i \in 1..(1 + k) : e[i] = IF i <= 1 THEN <<h>>[i] ELSE d[i - 1]
    <3>1. <<h>> \in Seq(T) /\ Len(<<h>>) = 1
      BY <1>1
    <3>2. QED
      BY <1>1, <3>1, ConcatProperties, LenProperties
  <2>3. e[1] = h /\ \A i \in 1..k : e[i + 1] = d[i] /\ i + 1 \in DOMAIN e
    BY <1>2, <2>2
  <2>4. k # 0 => e[1 + k] = d[k]
    BY <1>2, <2>3
  <2> HIDE DEF e
  <2>5. HandlersOK!1'
    BY <1>1, <2>1, <2>2
  <2>6. handlers'.deque # << >> =>
          handlers'.deque[1] # None /\ handlers'.deque[Len(handlers'.deque)] # None
    BY <1>1, <1>2, <2>1, <2>2, <2>3, <2>4 DEF HandlersOK
  <2>7. ASSUME NEW q \in queries' PROVE HandlerAt(q.handler_id)' = q.handler
    <3>1. /\ q.handler_id \in Int /\ HandlerAt(q.handler_id) = q.handler /\ q.handler # None
      BY <1>3, PendingHandler
    <3>2. Place(q.handler_id) \in 1..k /\ d[Place(q.handler_id)] = q.handler
      BY <3>1, Placed
    <3>3. q.handler_id + (handlers.offset + 1) + 1 = Place(q.handler_id) + 1
      BY <1>1, <3>1 DEF Place
    <3>4. e[Place(q.handler_id) + 1] = q.handler /\ Place(q.handler_id) + 1 \in DOMAIN e
      BY <2>3, <3>2
    <3>5. QED
      BY <2>1, <3>3, <3>4 DEF HandlerAt
  <2>8. QED
    BY <2>5, <2>6, <2>7 DEF HandlersOK, HandlerIsRegistered
<1>5. CASE ~first
  <2> DEFINE e == Append(d, h)
  <2>1. handlers' = [offset |-> handlers.offset, deque |-> e]
    BY <1>1, <1>5 DEF AddHandler
  <2>2. /\ e \in Seq(T) /\ Len(e) = k + 1 /\ DOMAIN e = 1..(k + 1) /\ e[k + 1] = h
        /\ \A i \in 1..k : e[i] = d[i] /\ i \in DOMAIN e
    BY <1>1, <1>2, AppendProperties, LenProperties
  <2> HIDE DEF e
  <2>3. HandlersOK!1'
    BY <1>1, <2>1, <2>2
  <2>4. e[1] = IF k = 0 THEN h ELSE d[1]
    BY <1>2, <2>2
  <2>5. handlers'.deque # << >> =>
          handlers'.deque[1] # None /\ handlers'.deque[Len(handlers'.deque)] # None
    BY <1>1, <1>2, <2>1, <2>2, <2>4 DEF HandlersOK
  <2>6. ASSUME NEW q \in queries' PROVE HandlerAt(q.handler_id)' = q.handler
    <3>1. /\ q.handler_id \in Int /\ HandlerAt(q.handler_id) = q.handler /\ q.handler # None
      BY <1>3, PendingHandler
    <3>2. Place(q.handler_id) \in 1..k /\ d[Place(q.handler_id)] = q.handler
      BY <3>1, Placed
    <3>3. QED
      BY <2>1, <2>2, <3>2 DEF HandlerAt, Place
  <2>7. QED
    BY <2>3, <2>5, <2>6 DEF HandlersOK, HandlerIsRegistered
<1>6. QED
  BY <1>4, <1>5

\* The places that are taken, and the first and the last of them.
Used(d) == {i \in DOMAIN d : d[i] # None}
FirstOf(S) == CHOOSE i \in S : \A j \in S : i <= j
LastOf(S) == CHOOSE i \in S : \A j \in S : i >= j

\* What remains when a handler is removed and empty ends are given up.
LEMMA RemovedPlaces ==
    ASSUME NEW T, None \in T, NEW d \in Seq(T), Used(d) # {}
    PROVE  LET used == Used(d)
               lo == FirstOf(used)
               hi == LastOf(used)
               e == SubSeq(d, lo, hi)
           IN  /\ lo \in used /\ hi \in used /\ lo \in Int /\ e \in Seq(T) /\ e # << >>
               /\ e[1] = d[lo] /\ e[Len(e)] = d[hi]
               /\ \A i \in used : i - lo + 1 \in DOMAIN e /\ e[i - lo + 1] = d[i]
               /\ \A i \in Int : i - lo + 1 \in DOMAIN e => i \in DOMAIN d /\ e[i - lo + 1] = d[i]
<1> DEFINE used == Used(d)
           lo == FirstOf(used)
           hi == LastOf(used)
           e == SubSeq(d, lo, hi)
           k == Len(d)
<1>1. k \in Nat /\ DOMAIN d = 1..k /\ used \subseteq 1..k /\ \A i \in 1..k : d[i] \in T
  BY SeqRange, ElementOfSeq DEF Used
<1>2. used \subseteq Nat
  BY <1>1
<1>3. lo \in used /\ \A j \in used : lo <= j
  BY <1>2, Least DEF FirstOf
<1>4. hi \in used /\ \A j \in used : hi >= j
  BY <1>1, Greatest DEF LastOf
<1> HIDE DEF lo, hi
<1>5. lo \in 1..k /\ hi \in 1..k /\ lo <= hi /\ lo \in Int /\ hi \in Int
  BY <1>1, <1>3, <1>4
<1>6. \A i \in lo..hi : d[i] \in T
  BY <1>1, <1>5
<1>7. /\ e \in Seq(T) /\ Len(e) = hi - lo + 1 /\ DOMAIN e = 1..(hi - lo + 1)
      /\ \A i \in 1..(hi - lo + 1) : e[i] = d[lo + i - 1]
  BY <1>5, <1>6, SubSeqProperties, LenProperties
<1> HIDE DEF e
<1>8. e # << >>
  <2>1. Len(<< >>) = 0 /\ hi - lo + 1 # 0
    BY <1>5
  <2>2. QED
    BY <1>7, <2>1
<1>9. e[1] = d[lo] /\ e[hi - lo + 1] = d[hi]
  <2>1. 1 \in 1..(hi - lo + 1) /\ hi - lo + 1 \in 1..(hi - lo + 1)
        /\ lo + 1 - 1 = lo /\ lo + (hi - lo + 1) - 1 = hi
    BY <1>5
  <2>2. QED
    BY <1>7, <2>1
<1>10. ASSUME NEW i \in used PROVE i - lo + 1 \in DOMAIN e /\ e[i - lo + 1] = d[i]
  <2>1. i \in Int /\ lo <= i /\ i <= hi
    BY <1>1, <1>3, <1>4
  <2>2. i - lo + 1 \in 1..(hi - lo + 1) /\ lo + (i - lo + 1) - 1 = i
    BY <1>5, <2>1
  <2>3. QED
    BY <1>7, <2>2
<1>11. ASSUME NEW i \in Int, i - lo + 1 \in DOMAIN e PROVE i \in DOMAIN d /\ e[i - lo + 1] = d[i]
  <2>1. i - lo + 1 \in 1..(hi - lo + 1)
    BY <1>7, <1>11
  <2>2. lo + (i - lo + 1) - 1 = i /\ i \in 1..k
    BY <1>1, <1>5, <2>1
  <2>3. QED
    BY <1>1, <1>7, <2>1, <2>2
<1>12. QED
  BY <1>3, <1>4, <1>5, <1>7, <1>8, <1>9, <1>10, <1>11 DEF lo, hi, e

\* A handler is taken out of the deque.  Its queries are canceled, or the UI
\* thread waits from then on.
LEMMA RemovedStep ==
    ASSUME BrowserOK, HandlersOK, UiRuns, NEW id \in HandlerIds, HandlerAt(id) # None,
           handlers' = Removed(id), queries' \subseteq queries,
           \A q \in queries' : q.handler_id = id => ~UiRuns'
    PROVE  HandlersOK'
<1> DEFINE T == Handlers \cup {None}
           k == Place(id)
           d == [handlers.deque EXCEPT ![k] = None]
           used == Used(d)
           lo == FirstOf(used)
           hi == LastOf(used)
<1>1. id \in Int
  BY ConstantsAssumption DEF HandlerIds
<1>2. /\ k \in 1..Len(handlers.deque) /\ handlers.deque \in Seq(T) /\ handlers.offset \in Int
      /\ Len(handlers.deque) \in Nat /\ DOMAIN handlers.deque = 1..Len(handlers.deque)
  BY <1>1, Placed
<1>3. /\ d \in Seq(T) /\ Len(d) \in Nat /\ DOMAIN d = DOMAIN handlers.deque
      /\ \A i \in DOMAIN d : d[i] = IF i = k THEN None ELSE handlers.deque[i]
  <2>1. None \in T
    OBVIOUS
  <2>2. QED
    BY <1>2, <2>1, ExceptSeq, LenProperties
<1>4. handlers' = IF used = {} THEN [offset |-> handlers.offset - Len(d), deque |-> << >>]
                  ELSE [offset |-> handlers.offset - (lo - 1), deque |-> SubSeq(d, lo, hi)]
  BY DEF Removed, Place, Used, FirstOf, LastOf
<1>5. ASSUME NEW q \in queries', q.handler_id # id
      PROVE  /\ q.handler_id \in Int /\ Place(q.handler_id) \in used
             /\ d[Place(q.handler_id)] = q.handler
  <2>1. q \in queries /\ q.handler_id # id
    BY <1>5
  <2>2. /\ q.handler_id \in Int /\ HandlerAt(q.handler_id) = q.handler /\ q.handler # None
    BY <2>1, PendingHandler
  <2>3. Place(q.handler_id) \in DOMAIN d /\ handlers.deque[Place(q.handler_id)] = q.handler
    BY <1>3, <2>2, Placed
  <2>4. Place(q.handler_id) # k
    BY <1>1, <1>2, <2>1, <2>2 DEF Place
  <2>5. QED
    BY <1>3, <2>2, <2>3, <2>4 DEF Used
<1>6. CASE used = {}
  <2>1. handlers' = [offset |-> handlers.offset - Len(d), deque |-> << >>]
    BY <1>4, <1>6
  <2>2. HandlersOK!1'
    BY <1>2, <1>3, <2>1
  <2>3. \A q \in queries' : q.handler_id = id
    BY <1>5, <1>6
  <2>4. \A q \in queries' : HandlerAt(q.handler_id)' = None
    BY <2>1 DEF HandlerAt
  <2>5. handlers'.deque = << >>
    BY <2>1
  <2>6. QED
    BY <2>2, <2>3, <2>4, <2>5 DEF HandlersOK, HandlerIsRegistered
<1>7. CASE used # {}
  <2> DEFINE e == SubSeq(d, lo, hi)
  <2>1. /\ lo \in used /\ hi \in used /\ lo \in Int /\ e \in Seq(T) /\ e # << >>
        /\ e[1] = d[lo] /\ e[Len(e)] = d[hi]
        /\ \A i \in used : i - lo + 1 \in DOMAIN e /\ e[i - lo + 1] = d[i]
        /\ \A i \in Int : i - lo + 1 \in DOMAIN e => i \in DOMAIN d /\ e[i - lo + 1] = d[i]
    <3>1. None \in T
      OBVIOUS
    <3>2. d \in Seq(T) /\ Used(d) # {}
      BY <1>3, <1>7
    <3> HIDE DEF T, d
    <3>3. QED
      BY <3>1, <3>2, RemovedPlaces
  <2>2. d[lo] # None /\ d[hi] # None
    BY <2>1 DEF Used
  <2> HIDE DEF lo, e, d
  <2>3. handlers' = [offset |-> handlers.offset - (lo - 1), deque |-> e]
    BY <1>4, <1>7 DEF e
  <2>4. HandlersOK!1'
    BY <1>2, <2>1, <2>3
  <2>5. handlers'.deque # << >> =>
          handlers'.deque[1] # None /\ handlers'.deque[Len(handlers'.deque)] # None
    BY <2>1, <2>2, <2>3
  <2>6. ASSUME NEW q \in queries', q.handler_id # id PROVE HandlerAt(q.handler_id)' = q.handler
    <3>1. q.handler_id \in Int /\ Place(q.handler_id) \in used /\ d[Place(q.handler_id)] = q.handler
      BY <1>5, <2>6
    <3>2. q.handler_id + (handlers.offset - (lo - 1)) + 1 = Place(q.handler_id) - lo + 1
      <4>1. lo \in Int /\ handlers.offset \in Int /\ q.handler_id \in Int
        BY <1>2, <2>1, <3>1
      <4>2. QED
        BY <4>1 DEF Place
    <3>3. /\ Place(q.handler_id) - lo + 1 \in DOMAIN e
          /\ e[Place(q.handler_id) - lo + 1] = q.handler
      BY <2>1, <3>1
    <3>4. QED
      BY <2>3, <3>2, <3>3 DEF HandlerAt
  <2>7. HandlerAt(id)' = None
    <3>1. k \in Int /\ id + (handlers.offset - (lo - 1)) + 1 = k - lo + 1
      <4>1. lo \in Int /\ handlers.offset \in Int /\ id \in Int
        BY <1>1, <1>2, <2>1
      <4>2. QED
        BY <4>1 DEF Place
    <3>2. k \in DOMAIN d => d[k] = None
      BY <1>3
    <3> HIDE DEF k
    <3>3. k - lo + 1 \in DOMAIN e => e[k - lo + 1] = None
      BY <2>1, <3>1, <3>2
    <3>4. HandlerAt(id)' = IF k - lo + 1 \in DOMAIN e THEN e[k - lo + 1] ELSE None
      BY <2>3, <3>1 DEF HandlerAt
    <3>5. QED
      BY <3>3, <3>4
  <2>8. HandlerIsRegistered'
    BY <2>6, <2>7 DEF HandlerIsRegistered
  <2>9. QED
    BY <2>4, <2>5, <2>8 DEF HandlersOK
<1>8. QED
  BY <1>6, <1>7

LEMMA RemoveHandlerStep ==
    ASSUME BrowserOK, HandlersOK, NEW id \in HandlerIds, RemoveHandler(id)
    PROVE  HandlersOK'
BY RemovedStep DEF RemoveHandler, CancelQueries

\* A query that is taken is recorded with the handler that took it; all other
\* steps leave the deque alone and take no query.
LEMMA OtherHandlersStep ==
    ASSUME BrowserOK, HandlersOK, handlers' = handlers, UiRuns' => UiRuns,
           \A q \in queries' : q \in queries \/ HandlerAt(q.handler_id) = q.handler
    PROVE  HandlersOK'
BY DEF HandlersOK, HandlerIsRegistered, HandlerAt

LEMMA ReentersHandlers ==
    ASSUME BrowserOK, HandlersOK, NEW c \in Contexts, HandlerReenters(c)
    PROVE  HandlersOK'
<1>1. queries' = queries /\ UiRuns /\ ~UiRuns'
  BY DEF HandlerReenters, UiRuns
<1>2. CASE handlers' = handlers
  BY <1>1, <1>2, OtherHandlersStep
<1>3. ASSUME NEW id \in HandlerIds, HandlerAt(id) # None, handlers' = Removed(id)
      PROVE  HandlersOK'
  BY <1>1, <1>3, RemovedStep
<1>4. QED
  BY <1>2, <1>3 DEF HandlerReenters

LEMMA HandlersStep ==
    ASSUME BrowserOK, HandlersOK, [Next]_vars
    PROVE  HandlersOK'
<1>1. ASSUME NEW c \in Contexts, BrowserReceivesQuery(c) PROVE HandlersOK'
  <2>1. handlers' = handlers /\ blocked' = blocked
    BY <1>1 DEF BrowserReceivesQuery
  <2>2. \A q \in queries' : q \in queries \/ HandlerAt(q.handler_id) = q.handler
    BY <1>1 DEF BrowserReceivesQuery, OnQuery, OnUnhandledQuery
  <2>3. QED
    BY <2>1, <2>2, OtherHandlersStep DEF UiRuns
<1>2. ASSUME handlers' = handlers, queries' \subseteq queries,
             UiThread \in blocked => UiThread \in blocked'
      PROVE  HandlersOK'
  BY <1>2, OtherHandlersStep DEF UiRuns
<1>3. CASE \E c \in Contexts : \/ \E persistent \in BOOLEAN : SendQuery(c, persistent)
                               \/ CancelFunction(c) \/ OnContextReleased(c) \/ RendererReceives(c)
  BY <1>2, <1>3 DEF SendQuery, CancelFunction, OnContextReleased, RendererReceives, browser
<1>4. CASE \/ \E c \in Contexts : BrowserReceivesCancel(c)
           \/ \E B \in {{b} : b \in Browsers} \union {Browsers}, id \in HandlerIds :
                 CancelPending(B, id)
           \/ \E b \in Browsers : OnBeforeBrowse(b)
           \/ RunCancelTask
  BY <1>2, <1>4 DEF BrowserReceivesCancel, CancelPendingRequest, CancelPending, CancelPendingFor,
                    CancelQueries, OnBeforeBrowse, RunCancelTask
<1>5. CASE \/ \E B \in {{b} : b \in Browsers} \union {Browsers}, id \in HandlerIds :
                 PostCancelPending(B, id)
           \/ \E q \in Numbers, success \in BOOLEAN : CallCallback(q, success)
           \/ UNCHANGED vars
  BY <1>2, <1>5 DEF PostCancelPending, CallCallback, vars, browser
<1>6. CASE \E p \in Processes : OnRenderProcessTerminated(p)
  BY <1>2, <1>6 DEF OnRenderProcessTerminated, UiRuns
<1>7. CASE RunCallbackTask
  BY <1>2, <1>7 DEF RunCallbackTask, RunCallback
<1>8. QED
  BY <1>1, <1>3, <1>4, <1>5, <1>6, <1>7, AddHandlerStep, RemoveHandlerStep,
     ReentersHandlers DEF Next

-----------------------------------------------------------------------------
(* What a cancellation sends.                                              *)

Rank(S, q) == Cardinality({x \in S : x.query_id < q.query_id})

LEMMA RankIsOrder ==
    ASSUME NEW S, IsFiniteSet(S), \A q \in S : q.query_id \in Nat,
           \A q, x \in S : q.query_id = x.query_id => q = x
    PROVE  /\ Cardinality(S) \in Nat
           /\ \A q \in S : Rank(S, q) \in 0..(Cardinality(S) - 1)
           /\ \A q, x \in S : Rank(S, q) = Rank(S, x) => q = x
           /\ \A i \in 0..(Cardinality(S) - 1) : \E q \in S : Rank(S, q) = i
<1> DEFINE k == Cardinality(S)
           below(q) == {x \in S : x.query_id < q.query_id}
           f == [q \in S |-> Rank(S, q)]
<1>1. k \in Nat
  BY FS_CardinalityType
<1>2. ASSUME NEW q \in S PROVE IsFiniteSet(below(q)) /\ Rank(S, q) \in 0..(k - 1)
  <2>1. below(q) \in SUBSET S /\ q \notin below(q)
    OBVIOUS
  <2>2. IsFiniteSet(below(q)) /\ Cardinality(below(q)) <= k /\ (k = Cardinality(below(q)) => S = below(q))
    BY <2>1, FS_Subset
  <2>3. Cardinality(below(q)) \in Nat
    BY <2>2, FS_CardinalityType
  <2>4. Rank(S, q) = Cardinality(below(q))
    BY DEF Rank
  <2> HIDE DEF below
  <2>5. Cardinality(below(q)) # k
    BY <2>1, <2>2
  <2>6. QED
    BY <1>1, <2>2, <2>3, <2>4, <2>5
<1>3. ASSUME NEW q \in S, NEW x \in S, q.query_id < x.query_id PROVE Rank(S, q) # Rank(S, x)
  <2>1. below(q) \in SUBSET below(x) /\ q \in below(x) /\ q \notin below(q)
    BY <1>3
  <2>2. IsFiniteSet(below(x))
    BY <1>2
  <2>3. Cardinality(below(x)) = Cardinality(below(q)) => below(x) = below(q)
    BY <2>1, <2>2, FS_Subset
  <2>4. QED
    BY <2>1, <2>3 DEF Rank
<1>4. ASSUME NEW q \in S, NEW x \in S, Rank(S, q) = Rank(S, x) PROVE q = x
  <2>1. ~(q.query_id < x.query_id) /\ ~(x.query_id < q.query_id)
    BY <1>3, <1>4
  <2>2. q.query_id = x.query_id
    BY <2>1
  <2>3. QED
    BY <2>2
<1>5. f \in Injection(S, 0..(k - 1))
  BY <1>2, <1>4 DEF Injection, IsInjective
<1>6. IsFiniteSet(0..(k - 1)) /\ Cardinality(0..(k - 1)) = k
  <2>1. 0 \in Int /\ k - 1 \in Int /\ (0 > k - 1 => k = 0) /\ k - 1 - 0 + 1 = k
    BY <1>1
  <2>2. QED
    BY <2>1, FS_Interval
<1>7. f \in Surjection(S, 0..(k - 1))
  BY <1>5, <1>6, FS_Injection
<1>8. \A i \in 0..(k - 1) : \E q \in S : f[q] = i
  BY <1>7 DEF Surjection
<1>9. QED
  BY <1>1, <1>2, <1>4, <1>8

LEMMA FailuresSent ==
    ASSUME NEW S \in SUBSET Pendings, IsFiniteSet(S),
           \A q, x \in S : q.query_id = x.query_id => q = x
    PROVE  /\ Failures(S) \in Seq(Responses)
           /\ Range(Failures(S)) = {Response(q, FALSE) : q \in S}
<1> DEFINE k == Cardinality(S)
           s == InOrder(S)
           w == Failures(S)
<1>1. \A q \in S : q.query_id \in Nat /\ Response(q, FALSE) \in Responses
  BY ConstantsAssumption DEF Pendings, Response, Responses, Numbers
<1>2. /\ k \in Nat /\ \A q \in S : Rank(S, q) \in 0..(k - 1)
      /\ \A q, x \in S : Rank(S, q) = Rank(S, x) => q = x
      /\ \A i \in 0..(k - 1) : \E q \in S : Rank(S, q) = i
  BY <1>1, RankIsOrder
<1>3. /\ s = [i \in 1..k |-> CHOOSE q \in S : Rank(S, q) = i - 1]
      /\ DOMAIN s = 1..k
  BY DEF InOrder, Rank
<1>4. w = [i \in 1..k |-> Response(s[i], FALSE)]
  BY <1>3 DEF Failures
<1>5. ASSUME NEW i \in 1..k PROVE s[i] \in S /\ Rank(S, s[i]) = i - 1
  <2>1. i - 1 \in 0..(k - 1)
    BY <1>2
  <2>2. \E q \in S : Rank(S, q) = i - 1
    BY <1>2, <2>1
  <2>3. s[i] = CHOOSE q \in S : Rank(S, q) = i - 1
    BY <1>3
  <2> HIDE DEF s
  <2>4. QED
    BY <2>2, <2>3
<1>6. ASSUME NEW q \in S PROVE \E i \in 1..k : s[i] = q
  <2>1. Rank(S, q) + 1 \in 1..k /\ (Rank(S, q) + 1) - 1 = Rank(S, q)
    BY <1>2
  <2>2. s[Rank(S, q) + 1] = q
    BY <1>2, <1>5, <2>1
  <2>3. QED
    BY <2>1, <2>2
<1> HIDE DEF s, w
<1>7. w \in [1..k -> Responses]
  BY <1>1, <1>4, <1>5
<1>8. w \in Seq(Responses)
  BY <1>2, <1>7, SeqDef
<1>9. Range(w) = {Response(q, FALSE) : q \in S}
  <2>1. DOMAIN w = 1..k /\ \A i \in 1..k : w[i] = Response(s[i], FALSE)
    BY <1>4
  <2>2. ASSUME NEW m \in Range(w) PROVE \E q \in S : m = Response(q, FALSE)
    BY <1>5, <2>1 DEF Range
  <2>3. ASSUME NEW q \in S PROVE Response(q, FALSE) \in Range(w)
    <3>1. PICK i \in 1..k : s[i] = q
      BY <1>6
    <3>2. w[i] = Response(q, FALSE) /\ i \in DOMAIN w
      BY <2>1, <3>1
    <3>3. QED
      BY <3>2 DEF Range
  <2>4. QED
    BY <2>2, <2>3
<1>10. QED
  BY <1>8, <1>9 DEF w

\* The IDs of queries are all different.
Distinct == \A x, y \in queries : x.query_id = y.query_id => x = y

\* on_query_canceled is called once for each query that is canceled.
LEMMA CanceledOnce ==
    ASSUME BrowserOK, Distinct, NEW S \in SUBSET queries,
           canceled' = [i \in Numbers |-> canceled[i] + Cardinality({q \in S : q.query_id = i})]
    PROVE  /\ S \in SUBSET Pendings /\ IsFiniteSet(S)
           /\ \A x, y \in S : x.query_id = y.query_id => x = y
           /\ canceled' \in [Numbers -> Nat]
           /\ \A i \in Numbers :
                canceled'[i] = canceled[i] + IF \E q \in S : q.query_id = i THEN 1 ELSE 0
<1>1. S \in SUBSET Pendings /\ IsFiniteSet(S) /\ \A x, y \in S : x.query_id = y.query_id => x = y
  BY FS_Subset DEF BrowserOK, Distinct
<1>2. ASSUME NEW i \in Numbers
      PROVE  Cardinality({q \in S : q.query_id = i}) = IF \E q \in S : q.query_id = i THEN 1 ELSE 0
  <2>1. CASE \E q \in S : q.query_id = i
    <3>1. PICK q \in S : {x \in S : x.query_id = i} = {q}
      BY <1>1, <2>1
    <3>2. QED
      BY <2>1, <3>1, FS_Singleton
  <2>2. CASE ~(\E q \in S : q.query_id = i)
    <3>1. {x \in S : x.query_id = i} = {}
      BY <2>2
    <3>2. QED
      BY <2>2, <3>1, FS_EmptySet
  <2>3. QED
    BY <2>1, <2>2
<1>3. /\ canceled' \in [Numbers -> Nat]
      /\ \A i \in Numbers : canceled'[i] = canceled[i] + IF \E q \in S : q.query_id = i THEN 1 ELSE 0
  <2>1. canceled' = [i \in Numbers |-> canceled[i] + Cardinality({q \in S : q.query_id = i})]
    OBVIOUS
  <2>2. \A i \in Numbers : canceled'[i] = canceled[i] + IF \E q \in S : q.query_id = i THEN 1 ELSE 0
    BY <1>2, <2>1
  <2>3. \A i \in Numbers : canceled[i] \in Nat
    BY DEF BrowserOK
  <2>4. \A i \in Numbers : canceled'[i] \in Nat
    BY <2>2, <2>3
  <2>5. QED
    BY <2>1, <2>2, <2>4
<1>4. QED
  BY <1>1, <1>3

LEMMA CancelEffect ==
    ASSUME ChannelOK, BrowserOK, Distinct, NEW S \in SUBSET queries, NEW notify \in BOOLEAN,
           CancelQueries(S, notify)
    PROVE  /\ queries' = queries \ S /\ attached' = attached \ {q.query_id : q \in S}
           /\ canceled' \in [Numbers -> Nat]
           /\ \A i \in Numbers :
                canceled'[i] = canceled[i] + IF \E q \in S : q.query_id = i THEN 1 ELSE 0
           /\ down' \in [Contexts -> Seq(Responses)]
           /\ \A c \in Contexts : Range(down'[c]) =
                Range(down[c]) \cup {Response(q, FALSE) : q \in {x \in S : notify /\ x.ctx = c /\ c \in live}}
<1>1. S \in SUBSET Pendings /\ IsFiniteSet(S) /\ \A x, y \in S : x.query_id = y.query_id => x = y
  BY FS_Subset DEF BrowserOK, Distinct
<1>2. canceled' = [i \in Numbers |-> canceled[i] + Cardinality({q \in S : q.query_id = i})]
  BY DEF CancelQueries
<1>3. /\ canceled' \in [Numbers -> Nat]
      /\ \A i \in Numbers : canceled'[i] = canceled[i] + IF \E q \in S : q.query_id = i THEN 1 ELSE 0
  BY <1>2, CanceledOnce
<1>4. /\ down' \in [Contexts -> Seq(Responses)]
      /\ \A c \in Contexts : Range(down'[c]) =
           Range(down[c]) \cup {Response(q, FALSE) : q \in {x \in S : notify /\ x.ctx = c /\ c \in live}}
  <2>1. CASE ~notify
    BY <2>1 DEF CancelQueries, ChannelOK
  <2>2. CASE notify
    <3>1. down' = [c \in Contexts |-> Sent(c, Failures({q \in S : q.ctx = c}))]
      BY <2>2 DEF CancelQueries
    <3>2. ASSUME NEW c \in Contexts
          PROVE  /\ down'[c] \in Seq(Responses)
                 /\ Range(down'[c]) =
                      Range(down[c]) \cup {Response(q, FALSE) : q \in {x \in S : notify /\ x.ctx = c /\ c \in live}}
      <4> DEFINE P == {q \in S : q.ctx = c}
      <4>1. P \in SUBSET Pendings /\ IsFiniteSet(P) /\ \A x, y \in P : x.query_id = y.query_id => x = y
        BY <1>1, FS_Subset
      <4>2. down[c] \in Seq(Responses)
        BY DEF ChannelOK
      <4>3. down'[c] = IF c \in live THEN down[c] \o Failures(P) ELSE down[c]
        BY <3>1 DEF Sent
      <4>4. Failures(P) \in Seq(Responses) /\ Range(Failures(P)) = {Response(q, FALSE) : q \in P}
        <5> HIDE DEF P
        <5>1. QED
          BY <4>1, FailuresSent
      <4>5. /\ down[c] \o Failures(P) \in Seq(Responses)
            /\ Range(down[c] \o Failures(P)) = Range(down[c]) \cup {Response(q, FALSE) : q \in P}
        <5> DEFINE F == Failures(P)
                   s == down[c]
        <5>1. F \in Seq(Responses) /\ s \in Seq(Responses)
          BY <4>2, <4>4
        <5> HIDE DEF F, s
        <5>2. s \o F \in Seq(Responses) /\ Range(s \o F) = Range(s) \cup Range(F)
          BY <5>1, RangeConcat
        <5>3. QED
          BY <4>4, <5>2 DEF F, s
      <4>6. {x \in S : notify /\ x.ctx = c /\ c \in live} = IF c \in live THEN P ELSE {}
        BY <2>2
      <4> HIDE DEF P
      <4>7. CASE c \in live
        BY <4>3, <4>5, <4>6, <4>7
      <4>8. CASE c \notin live
        BY <4>2, <4>3, <4>6, <4>8
      <4>9. QED
        BY <4>7, <4>8
    <3>3. QED
      BY <3>1, <3>2
  <2>3. QED
    BY <2>1, <2>2
<1>5. QED
  BY <1>3, <1>4 DEF CancelQueries

\* The response that a callback's task sends, and what becomes of the query.
LEMMA CallbackEffect ==
    ASSUME ChannelOK, BrowserOK, EndsOK, MiscOK, RunCallbackTask
    PROVE  \/ UNCHANGED <<queries, attached, answered, failed, down>>
           \/ \E x \in queries, success \in BOOLEAN :
                /\ x.query_id \in attached
                /\ queries' = IF x.persistent THEN queries ELSE queries \ {x}
                /\ attached' = IF success /\ x.persistent THEN attached ELSE attached \ {x.query_id}
                /\ failed' = IF ~success /\ x.persistent THEN failed \cup {x.query_id} ELSE failed
                /\ answered' = [answered EXCEPT ![x.query_id] =
                                  @ + IF success /\ x.persistent THEN 0 ELSE 1]
                /\ down' \in [Contexts -> Seq(Responses)]
                /\ \A c \in Contexts : Range(down'[c]) =
                      Range(down[c]) \cup
                        IF c = x.ctx /\ c \in live THEN {Response(x, success)} ELSE {}
<1> DEFINE t == Head(tasks)
           id == t.query_id
           info == {q \in queries : q.query_id = id}
           single == {q \in info : ~q.persistent}
           last == IF t.success THEN single ELSE info
<1>1. SUFFICES ASSUME id \in attached
               PROVE  \E x \in queries, success \in BOOLEAN :
                /\ x.query_id \in attached
                /\ queries' = IF x.persistent THEN queries ELSE queries \ {x}
                /\ attached' = IF success /\ x.persistent THEN attached ELSE attached \ {x.query_id}
                /\ failed' = IF ~success /\ x.persistent THEN failed \cup {x.query_id} ELSE failed
                /\ answered' = [answered EXCEPT ![x.query_id] =
                                  @ + IF success /\ x.persistent THEN 0 ELSE 1]
                /\ down' \in [Contexts -> Seq(Responses)]
                /\ \A c \in Contexts : Range(down'[c]) =
                      Range(down[c]) \cup
                        IF c = x.ctx /\ c \in live THEN {Response(x, success)} ELSE {}
  BY DEF RunCallbackTask
<1>2. RunCallback(t)
  BY <1>1 DEF RunCallbackTask
<1>3. t.success \in BOOLEAN
  <2>1. t \in Tasks
    BY RangeTail DEF MiscOK, RunCallbackTask
  <2>2. t.type = "reply"
    BY DEF RunCallbackTask
  <2> HIDE DEF t
  <2>3. QED
    BY <2>1, <2>2 DEF Tasks
<1>4. id \in 1..next_query_id
  <2>1. id \in Numbers /\ next_query_id \in Nat
    BY <1>1 DEF BrowserOK
  <2>2. ~(id > next_query_id)
    BY <1>1, <2>1 DEF EndsOK
  <2> HIDE DEF id
  <2>3. QED
    BY <2>1, <2>2, ConstantsAssumption DEF Numbers
<1>5. PICK x \in queries : x.query_id = id
  <2>1. answered[id] + canceled[id] = 0
    BY <1>1, <1>4 DEF EndsOK, EndsOnceOrFailed
  <2>2. id \in failed => answered[id] = 1 /\ canceled[id] <= 1
    BY <1>4 DEF EndsOK, EndsOnceOrFailed
  <2>3. answered[id] \in Nat /\ canceled[id] \in Nat
    BY <1>1 DEF BrowserOK
  <2>4. id \notin failed
    <3> HIDE DEF id
    <3>1. QED
      BY <2>1, <2>2, <2>3
  <2>5. QED
    BY <1>1, <1>4, <2>4 DEF EndsOK, EndsOnceOrFailed
<1>6. info = {x}
  BY <1>5 DEF EndsOK
<1> HIDE DEF t, id, info
<1>7. single = IF x.persistent THEN {} ELSE {x}
  BY <1>6
<1>8. /\ queries' = queries \ single /\ attached' = attached \ {q.query_id : q \in last}
      /\ answered' = [answered EXCEPT ![id] = @ + Cardinality(last)]
      /\ failed' = failed \cup {q.query_id : q \in last \ single}
      /\ down' = [c \in Contexts |-> IF \E q \in info : q.ctx = c
                    THEN Sent(c, <<Response(CHOOSE q \in info : TRUE, t.success)>>) ELSE down[c]]
  BY <1>2 DEF RunCallback, info, id
<1> HIDE DEF single
<1>9. last = IF t.success /\ x.persistent THEN {} ELSE {x}
  BY <1>3, <1>6, <1>7
<1> HIDE DEF last
<1>10. Cardinality(last) = IF t.success /\ x.persistent THEN 0 ELSE 1
  BY <1>9, FS_EmptySet, FS_Singleton
<1>11. x \in Pendings /\ Response(x, t.success) \in Responses
  BY <1>3, ConstantsAssumption DEF BrowserOK, Pendings, Response, Responses
<1>12. ASSUME NEW c \in Contexts
       PROVE  /\ down'[c] \in Seq(Responses)
              /\ Range(down'[c]) = Range(down[c]) \cup
                   IF c = x.ctx /\ c \in live THEN {Response(x, t.success)} ELSE {}
  <2>1. down[c] \in Seq(Responses)
    BY DEF ChannelOK
  <2>2. (CHOOSE q \in info : TRUE) = x
    BY <1>6
  <2>3. down'[c] = IF c = x.ctx /\ c \in live THEN down[c] \o <<Response(x, t.success)>>
                   ELSE down[c]
    BY <1>6, <1>8, <2>2 DEF Sent
  <2>4. /\ down[c] \o <<Response(x, t.success)>> \in Seq(Responses)
        /\ Range(down[c] \o <<Response(x, t.success)>>) = Range(down[c]) \cup {Response(x, t.success)}
    <3> DEFINE m == Response(x, t.success)
    <3>1. m \in Responses
      BY <1>11
    <3> HIDE DEF m
    <3>2. <<m>> \in Seq(Responses) /\ Range(<<m>>) = {m}
      BY <3>1 DEF Range
    <3>3. QED
      BY <2>1, <3>2, RangeConcat DEF m
  <2>5. QED
    BY <2>1, <2>3, <2>4
<1>13. down' \in [Contexts -> Seq(Responses)]
  BY <1>8, <1>12
<1>14. /\ queries' = IF x.persistent THEN queries ELSE queries \ {x}
       /\ attached' = IF t.success /\ x.persistent THEN attached ELSE attached \ {x.query_id}
       /\ failed' = IF ~t.success /\ x.persistent THEN failed \cup {x.query_id} ELSE failed
  BY <1>3, <1>7, <1>8, <1>9
<1>15. answered' = [answered EXCEPT ![x.query_id] =
                      @ + IF t.success /\ x.persistent THEN 0 ELSE 1]
  BY <1>5, <1>8, <1>10
<1>16. x.query_id \in attached
  BY <1>1, <1>5
<1>17. QED
  BY <1>3, <1>12, <1>13, <1>14, <1>15, <1>16

-----------------------------------------------------------------------------
(* The numbers of the queries that are under way to the browser.           *)

LEMMA NumbersFinite == IsFiniteSet(Numbers)
<1>1. 1 \in Int /\ MaxQueries \in Int
  BY ConstantsAssumption
<1>2. QED
  BY <1>1, FS_Interval DEF Numbers

LEMMA WaitingFinite ==
    Waiting \in SUBSET Numbers /\ IsFiniteSet(Waiting) /\ Cardinality(Waiting) \in Nat
<1>1. Waiting \in SUBSET Numbers
  BY DEF Waiting
<1>2. IsFiniteSet(Numbers)
  BY NumbersFinite
<1>3. QED
  BY <1>1, <1>2, FS_Subset, FS_CardinalityType

LEMMA UpMessage ==
    ASSUME ChannelOK, NEW c \in Contexts, NEW i \in DOMAIN up[c]
    PROVE  /\ up[c][i] \in Range(up[c]) /\ up[c][i] \in QueryMessages \cup CancelMessages
           /\ up[c][i].type \in {"query", "cancel"}
           /\ up[c][i].type = "query" => up[c][i] \in QueryMessages /\ up[c][i].n \in Waiting
                                         /\ up[c][i] \in Asking(c)
           /\ up[c][i].type = "cancel" => up[c][i] \in CancelMessages
<1>1. up[c][i] \in Range(up[c]) /\ up[c][i] \in QueryMessages \cup CancelMessages
  BY SeqRange DEF ChannelOK
<1>2. up[c][i].type = "query" => up[c][i] \in QueryMessages
  BY <1>1 DEF CancelMessages
<1>3. up[c][i].type = "cancel" => up[c][i] \in CancelMessages
  BY <1>1 DEF QueryMessages
<1>4. up[c][i].type \in {"query", "cancel"}
  BY <1>1 DEF QueryMessages, CancelMessages
<1>5. up[c][i].type = "query" => up[c][i].n \in Waiting /\ up[c][i] \in Asking(c)
  BY <1>1, <1>2 DEF Waiting, Asking, QueryMessages
<1>6. QED
  BY <1>1, <1>2, <1>3, <1>4, <1>5

LEMMA WaitingSmaller ==
    ASSUME CountOK, NEW W, W \subseteq Waiting
    PROVE  IsFiniteSet(W) /\ Cardinality(W) \in Nat /\ Cardinality(W) <= Cardinality(Waiting)
BY WaitingFinite, FS_Subset, FS_CardinalityType

\* The oldest message of a channel is taken.
LEMMA CountPop ==
    ASSUME RendererOK, ChannelOK, BrowserOK, CountOK, NEW c \in Contexts, up[c] # << >>,
           up' = [up EXCEPT ![c] = Tail(@)], asked' = asked, next_query_id' \in Nat,
           next_query_id' <= next_query_id + (IF Head(up[c]).type = "query" THEN 1 ELSE 0)
    PROVE  CountOK' /\ up' \in [Contexts -> Seq(QueryMessages \cup CancelMessages)]
<1> DEFINE T == QueryMessages \cup CancelMessages
           h == Head(up[c])
<1>1. up[c] \in Seq(T) /\ up \in [Contexts -> Seq(T)]
  BY DEF ChannelOK
<1>2. /\ h \in T /\ Tail(up[c]) \in Seq(T) /\ h = up[c][1] /\ 1 \in DOMAIN up[c]
      /\ \A i \in DOMAIN Tail(up[c]) :
            i + 1 \in DOMAIN up[c] /\ Tail(up[c])[i] = up[c][i + 1] /\ i \in Nat \ {0}
  <2> HIDE DEF T
  <2>1. QED
    BY <1>1, RangeTail
<1>3. /\ up' \in [Contexts -> Seq(T)] /\ up'[c] = Tail(up[c])
      /\ \A d \in Contexts : d # c => up'[d] = up[d]
  BY <1>1, <1>2
<1>4. ASSUME NEW d \in Contexts, NEW i \in DOMAIN up'[d]
      PROVE  LET j == IF d = c THEN i + 1 ELSE i IN
               j \in DOMAIN up[d] /\ up'[d][i] = up[d][j] /\ (d = c => i \in Nat \ {0})
  BY <1>2, <1>3
<1>5. ASSUME NEW d \in Contexts, NEW e \in Contexts, NEW i \in DOMAIN up'[d], NEW j \in DOMAIN up'[e],
             up'[d][i].type = "query", up'[e][j].type = "query", up'[d][i].n = up'[e][j].n
      PROVE  d = e /\ i = j
  <2> DEFINE k == IF d = c THEN i + 1 ELSE i
             l == IF e = c THEN j + 1 ELSE j
  <2>1. /\ k \in DOMAIN up[d] /\ up'[d][i] = up[d][k] /\ (d = c => i \in Nat \ {0})
        /\ l \in DOMAIN up[e] /\ up'[e][j] = up[e][l] /\ (e = c => j \in Nat \ {0})
    BY <1>4
  <2>2. d = e /\ k = l
    <3> HIDE DEF k, l
    <3>1. QED
      BY <1>5, <2>1 DEF CountOK
  <2>3. d = c => i + 1 = j + 1
    BY <2>2
  <2>4. QED
    BY <2>1, <2>2, <2>3
<1>6. ASSUME NEW n \in Waiting' PROVE n \in Waiting /\ (h.type = "query" => n # h.n)
  <2>1. PICK d \in Contexts : \E m \in Range(up'[d]) : m.type = "query" /\ m.n = n
    BY DEF Waiting, Asking
  <2>2. PICK i \in DOMAIN up'[d] : up'[d][i].type = "query" /\ up'[d][i].n = n
    BY <2>1 DEF Range
  <2> DEFINE m == up'[d][i]
  <2> DEFINE k == IF d = c THEN i + 1 ELSE i
  <2>3. k \in DOMAIN up[d] /\ up[d][k] = m /\ (d = c => i \in Nat \ {0})
    BY <1>4, <2>2
  <2>4. n \in Waiting
    <3> HIDE DEF k
    <3>1. QED
      BY <2>1, <2>2, <2>3, UpMessage
  <2>5. d = c => k # 1
    BY <2>3
  <2>6. h.type = "query" => n # h.n
    <3> HIDE DEF k
    <3>1. QED
      BY <1>2, <2>1, <2>2, <2>3, <2>5 DEF CountOK
  <2>7. QED
    BY <2>4, <2>6
<1>7. \A n \in Waiting' : n <= asked'
  BY <1>6 DEF CountOK
<1>8. next_query_id' + Cardinality(Waiting') <= asked'
  <2>1. Waiting' \subseteq Waiting /\ IsFiniteSet(Waiting') /\ Cardinality(Waiting') \in Nat
        /\ Cardinality(Waiting') <= Cardinality(Waiting)
    BY <1>6, WaitingSmaller
  <2>2. /\ Cardinality(Waiting) \in Nat /\ next_query_id \in Nat /\ asked \in Nat
        /\ next_query_id + Cardinality(Waiting) <= asked
    BY WaitingFinite, ConstantsAssumption DEF CountOK, BrowserOK, RendererOK
  <2>3. CASE h.type = "query"
    <3>1. h.n \in Waiting
      BY <1>2, <2>3, UpMessage
    <3>2. Waiting' \subseteq Waiting \ {h.n}
      BY <1>6, <2>3
    <3>3. IsFiniteSet(Waiting \ {h.n}) /\ Cardinality(Waiting \ {h.n}) = Cardinality(Waiting) - 1
      <4> DEFINE x == h.n
                 W == Waiting
      <4>1. x \in W /\ IsFiniteSet(W)
        BY <3>1, WaitingFinite
      <4> HIDE DEF x, W
      <4>2. IsFiniteSet(W \ {x}) /\ Cardinality(W \ {x}) = Cardinality(W) - 1
        BY <4>1, FS_RemoveElement
      <4>3. QED
        BY <4>2 DEF x, W
    <3>4. Cardinality(Waiting') <= Cardinality(Waiting) - 1
      BY <3>2, <3>3, FS_Subset
    <3> HIDE DEF h
    <3>5. next_query_id' <= next_query_id + 1
      BY <2>3 DEF h
    <3>6. QED
      BY <2>1, <2>2, <3>4, <3>5
  <2>4. CASE h.type # "query"
    <3>1. next_query_id' <= next_query_id + 0
      BY <2>4
    <3>2. QED
      BY <2>1, <2>2, <3>1
  <2>5. QED
    BY <2>3, <2>4
<1>9. QED
  BY <1>3, <1>5, <1>7, <1>8 DEF CountOK

\* A message is sent, or none: a query has a new number.
LEMMA CountSend ==
    ASSUME RendererOK, ChannelOK, BrowserOK, CountOK, NEW c \in Contexts,
           NEW m \in QueryMessages \cup CancelMessages,
           up' = [up EXCEPT ![c] = Append(@, m)], next_query_id' = next_query_id,
           \/ m.type = "query" /\ m.n = asked + 1 /\ asked' = asked + 1
           \/ m.type = "cancel" /\ asked' = asked
    PROVE  CountOK' /\ up' \in [Contexts -> Seq(QueryMessages \cup CancelMessages)]
<1> DEFINE T == QueryMessages \cup CancelMessages
           k == Len(up[c]) + 1
<1>1. up[c] \in Seq(T) /\ up \in [Contexts -> Seq(T)]
  BY DEF ChannelOK
<1>2. /\ Append(up[c], m) \in Seq(T) /\ Range(Append(up[c], m)) = Range(up[c]) \cup {m}
      /\ k \in DOMAIN Append(up[c], m) /\ Append(up[c], m)[k] = m
      /\ \A i \in DOMAIN up[c] : i \in DOMAIN Append(up[c], m) /\ Append(up[c], m)[i] = up[c][i]
      /\ \A i \in DOMAIN Append(up[c], m) : i \in DOMAIN up[c] \/ i = k
  <2> HIDE DEF T
  <2>1. m \in T
    BY DEF T
  <2>2. QED
    BY <1>1, <2>1, RangeAppend
<1>3. /\ up' \in [Contexts -> Seq(T)] /\ up'[c] = Append(up[c], m)
      /\ \A d \in Contexts : d # c => up'[d] = up[d]
  BY <1>1, <1>2
<1>4. ASSUME NEW d \in Contexts, NEW i \in DOMAIN up'[d]
      PROVE  \/ i \in DOMAIN up[d] /\ up'[d][i] = up[d][i]
             \/ d = c /\ i = k /\ up'[d][i] = m
  BY <1>2, <1>3
<1>5. asked \in Nat /\ \A n \in Waiting : n # asked + 1
  <2>1. asked \in Nat
    BY ConstantsAssumption DEF RendererOK
  <2>2. \A n \in Waiting : n \in Nat /\ n <= asked
    BY WaitingFinite, ConstantsAssumption DEF CountOK, Numbers
  <2>3. QED
    BY <2>1, <2>2
<1> HIDE DEF k
<1>6. ASSUME NEW d \in Contexts, NEW e \in Contexts, NEW i \in DOMAIN up'[d], NEW j \in DOMAIN up'[e],
             up'[d][i].type = "query", up'[e][j].type = "query", up'[d][i].n = up'[e][j].n
      PROVE  d = e /\ i = j
  <2>1. \/ i \in DOMAIN up[d] /\ up'[d][i] = up[d][i] /\ up[d][i].n \in Waiting
        \/ d = c /\ i = k /\ up'[d][i].n = asked + 1
    BY <1>4, <1>6, UpMessage
  <2>2. \/ j \in DOMAIN up[e] /\ up'[e][j] = up[e][j] /\ up[e][j].n \in Waiting
        \/ e = c /\ j = k /\ up'[e][j].n = asked + 1
    BY <1>4, <1>6, UpMessage
  <2>3. QED
    BY <1>5, <1>6, <2>1, <2>2 DEF CountOK
<1>7. \A d \in Contexts : Range(up'[d]) = Range(up[d]) \cup IF d = c THEN {m} ELSE {}
  BY <1>2, <1>3
<1>8. Waiting' \subseteq Waiting \cup IF m.type = "query" THEN {m.n} ELSE {}
  BY <1>7 DEF Waiting, Asking
<1>9. /\ Cardinality(Waiting) \in Nat /\ next_query_id \in Nat /\ asked \in Nat
      /\ next_query_id + Cardinality(Waiting) <= asked /\ IsFiniteSet(Waiting)
  BY WaitingFinite, ConstantsAssumption DEF CountOK, BrowserOK, RendererOK
<1>10. CASE m.type = "query"
  <2>1. /\ IsFiniteSet(Waiting \cup {m.n})
        /\ Cardinality(Waiting \cup {m.n}) = Cardinality(Waiting) + 1
    BY <1>5, <1>9, <1>10, FS_AddElement
  <2>2. Waiting' \in SUBSET (Waiting \cup {m.n})
    BY <1>8, <1>10
  <2>3. IsFiniteSet(Waiting') /\ Cardinality(Waiting') <= Cardinality(Waiting) + 1
    BY <2>1, <2>2, FS_Subset
  <2>4. Cardinality(Waiting') \in Nat
    BY <2>3, FS_CardinalityType
  <2>5. next_query_id' + Cardinality(Waiting') <= asked'
    BY <1>9, <1>10, <2>3, <2>4
  <2>6. \A n \in Waiting' : n <= asked'
    <3>1. TAKE n \in Waiting'
    <3>2. CASE n \in Waiting
      BY <1>5, <1>10, <3>2, WaitingFinite, ConstantsAssumption DEF CountOK, Numbers
    <3>3. CASE n = m.n
      BY <1>5, <1>10, <3>3
    <3>4. QED
      BY <2>2, <3>2, <3>3
  <2>7. QED
    BY <1>3, <1>6, <2>5, <2>6 DEF CountOK
<1>11. CASE m.type = "cancel"
  <2>1. Waiting' \subseteq Waiting
    BY <1>8, <1>11
  <2>2. Cardinality(Waiting') \in Nat /\ Cardinality(Waiting') <= Cardinality(Waiting)
    BY <2>1, WaitingSmaller
  <2>3. next_query_id' + Cardinality(Waiting') <= asked'
    BY <1>9, <1>11, <2>2
  <2>4. \A n \in Waiting' : n <= asked'
    BY <1>11, <2>1 DEF CountOK
  <2>5. QED
    BY <1>3, <1>6, <2>3, <2>4 DEF CountOK
<1>12. QED
  BY <1>10, <1>11

\* Channels are cut, or left alone.
LEMMA CountCut ==
    ASSUME RendererOK, ChannelOK, BrowserOK, CountOK,
           up' \in [Contexts -> Seq(QueryMessages \cup CancelMessages)],
           \A c \in Contexts : up'[c] = up[c] \/ up'[c] = << >>,
           asked' = asked, next_query_id' = next_query_id
    PROVE  CountOK'
<1>1. ASSUME NEW d \in Contexts, NEW i \in DOMAIN up'[d]
      PROVE  i \in DOMAIN up[d] /\ up'[d][i] = up[d][i]
  OBVIOUS
<1>2. Waiting' \subseteq Waiting
  <2>1. ASSUME NEW d \in Contexts PROVE Range(up'[d]) \subseteq Range(up[d])
    BY <1>1 DEF Range
  <2>2. QED
    BY <2>1 DEF Waiting, Asking
<1>3. Cardinality(Waiting') \in Nat /\ Cardinality(Waiting') <= Cardinality(Waiting)
  BY <1>2, WaitingSmaller
<1>4. /\ Cardinality(Waiting) \in Nat /\ next_query_id \in Nat /\ asked \in Nat
      /\ next_query_id + Cardinality(Waiting) <= asked
  BY WaitingFinite, ConstantsAssumption DEF CountOK, BrowserOK, RendererOK
<1>5. next_query_id' + Cardinality(Waiting') <= asked'
  BY <1>3, <1>4
<1>6. \A n \in Waiting' : n <= asked'
  BY <1>2 DEF CountOK
<1>7. \A c, d \in Contexts : \A i \in DOMAIN up'[c], j \in DOMAIN up'[d] :
          up'[c][i].type = "query" /\ up'[d][j].type = "query" /\ up'[c][i].n = up'[d][j].n
              => c = d /\ i = j
  BY <1>1 DEF CountOK
<1>8. QED
  BY <1>5, <1>6, <1>7 DEF CountOK

-----------------------------------------------------------------------------
(* The IDs of contexts.                                                    *)

LEMMA ProcessOfContext ==
    ASSUME NEW c \in Contexts
    PROVE  ProcessOf[c] \in Processes /\ BrowserOf[c] \in Browsers
BY DEF Processes, Browsers

LEMMA UnnamedFinite ==
    ASSUME RendererOK
    PROVE  IsFiniteSet(Unnamed) /\ Cardinality(Unnamed) \in Nat /\ Cardinality(Contexts) \in Nat
<1>1. Unnamed \in SUBSET Contexts /\ IsFiniteSet(Contexts)
  BY ConstantsAssumption DEF RendererOK, Unnamed
<1>2. QED
  BY <1>1, FS_Subset, FS_CardinalityType

LEMMA ContextNamed ==
    ASSUME RendererOK, ContextOK, NEW c \in live, GetIdForContext(c), live' = live
    PROVE  /\ ContextOK' /\ context_id' \in [Contexts -> Nat] /\ next_context_id' \in [Processes -> Nat]
           /\ context_id'[c] = ContextId(c) /\ ContextId(c) \in Nat \ {0}
           /\ \A d \in Contexts : d # c => context_id'[d] = context_id[d]
           /\ \A p \in Processes : next_context_id[p] <= next_context_id'[p]
           /\ context_id[c] # RESERVED_ID => context_id'[c] = context_id[c]
           /\ context_id[c] = RESERVED_ID => context_id'[c] = next_context_id[ProcessOf[c]] + 1
<1> DEFINE p == ProcessOf[c]
           id == ContextId(c)
<1>1. c \in Contexts /\ p \in Processes /\ context_id[c] \in Nat /\ next_context_id[p] \in Nat
  BY ProcessOfContext DEF RendererOK
<1>2. context_id \in [Contexts -> Nat] /\ next_context_id \in [Processes -> Nat]
  BY DEF RendererOK
<1>3. CASE context_id[c] # RESERVED_ID
  <2>1. id = context_id[c]
    BY <1>3 DEF ContextId
  <2>2. context_id' = context_id /\ next_context_id' = next_context_id
    BY <1>1, <1>2, <1>3, <2>1 DEF GetIdForContext
  <2>3. id \in Nat \ {0}
    BY <1>1, <1>3, <2>1 DEF RESERVED_ID
  <2>4. ContextOK'
    BY <2>2 DEF ContextOK, Unnamed
  <2>5. \A q \in Processes : next_context_id[q] <= next_context_id'[q]
    BY <1>2, <2>2
  <2>6. QED
    BY <1>2, <1>3, <2>1, <2>2, <2>3, <2>4, <2>5
<1>4. CASE context_id[c] = RESERVED_ID
  <2>1. id = next_context_id[p] + 1 /\ id \in Nat \ {0}
    BY <1>1, <1>4 DEF ContextId, NextId
  <2>2. context_id' = [context_id EXCEPT ![c] = id] /\ next_context_id' = [next_context_id EXCEPT ![p] = id]
    BY <1>4 DEF GetIdForContext
  <2> HIDE DEF id
  <2>3. /\ context_id' \in [Contexts -> Nat] /\ next_context_id' \in [Processes -> Nat]
        /\ context_id'[c] = id /\ next_context_id'[p] = id
        /\ \A d \in Contexts : d # c => context_id'[d] = context_id[d]
        /\ \A q \in Processes : q # p => next_context_id'[q] = next_context_id[q]
    BY <1>1, <1>2, <2>1, <2>2
  <2>4. \A q \in Processes : next_context_id[q] <= next_context_id'[q] /\ next_context_id[q] \in Nat
    BY <1>1, <1>2, <2>1, <2>3
  <2>5. Unnamed' = Unnamed \ {c} /\ c \in Unnamed
    BY <1>4, <2>1, <2>3 DEF Unnamed, RESERVED_ID, RendererOK
  <2>6. /\ Cardinality(Unnamed') = Cardinality(Unnamed) - 1 /\ Cardinality(Unnamed) \in Nat
        /\ Cardinality(Contexts) \in Nat
    BY <2>5, UnnamedFinite, FS_RemoveElement
  <2>7. ASSUME NEW q \in Processes
        PROVE  next_context_id'[q] + Cardinality(Unnamed') <= Cardinality(Contexts)
    <3>1. next_context_id[q] + Cardinality(Unnamed) <= Cardinality(Contexts)
      BY DEF ContextOK
    <3>2. next_context_id'[q] <= next_context_id[q] + 1 /\ next_context_id'[q] \in Nat
      BY <2>1, <2>3, <2>4
    <3>3. QED
      BY <2>4, <2>6, <3>1, <3>2
  <2>8. ASSUME NEW d \in Contexts
        PROVE  /\ d \notin live' => context_id'[d] = RESERVED_ID
               /\ context_id'[d] <= next_context_id'[ProcessOf[d]]
               /\ ProcessOf[d] = p /\ d # c => context_id'[d] # id
    <3>1. /\ ProcessOf[d] \in Processes /\ context_id[d] \in Nat
          /\ context_id[d] <= next_context_id[ProcessOf[d]]
          /\ next_context_id[ProcessOf[d]] \in Nat
      BY <2>4, ProcessOfContext DEF ContextOK, RendererOK
    <3>2. CASE d = c
      BY <1>1, <2>1, <2>3, <3>2
    <3>3. CASE d # c
      <4>1. context_id'[d] = context_id[d]
        BY <2>3, <3>3
      <4>2. next_context_id[ProcessOf[d]] <= next_context_id'[ProcessOf[d]]
            /\ next_context_id'[ProcessOf[d]] \in Nat
        BY <2>3, <2>4, <3>1
      <4>3. context_id'[d] <= next_context_id'[ProcessOf[d]]
        BY <3>1, <4>1, <4>2
      <4>4. ProcessOf[d] = p => context_id'[d] # id
        BY <2>1, <3>1, <4>1
      <4>5. d \notin live' => context_id'[d] = RESERVED_ID
        BY <4>1 DEF ContextOK
      <4>6. QED
        BY <4>3, <4>4, <4>5
    <3>4. QED
      BY <3>2, <3>3
  <2>9. ASSUME NEW d \in Contexts, NEW e \in Contexts, ProcessOf[d] = ProcessOf[e],
               context_id'[d] = context_id'[e]
        PROVE  d = e \/ context_id'[d] = RESERVED_ID
    <3>1. CASE d # c /\ e # c
      BY <2>3, <2>9, <3>1 DEF ContextOK
    <3>2. CASE d = c \/ e = c
      BY <2>3, <2>8, <2>9, <3>2
    <3>3. QED
      BY <3>1, <3>2
  <2>10. ContextOK'
    BY <2>7, <2>8, <2>9 DEF ContextOK
  <2>11. QED
    BY <1>4, <2>1, <2>3, <2>4, <2>10 DEF id
<1>5. QED
  BY <1>3, <1>4

LEMMA ContextGone ==
    ASSUME RendererOK, ContextOK, NEW C \in SUBSET Contexts, live' = live \ C,
           context_id' = [c \in Contexts |-> IF c \in C THEN RESERVED_ID ELSE context_id[c]],
           next_context_id' = next_context_id
    PROVE  ContextOK' /\ context_id' \in [Contexts -> Nat]
<1>1. context_id' \in [Contexts -> Nat]
  BY DEF RendererOK, RESERVED_ID
<1>2. Unnamed' \in SUBSET Unnamed
  BY DEF Unnamed, RendererOK
<1>3. Cardinality(Unnamed') <= Cardinality(Unnamed) /\ Cardinality(Unnamed') \in Nat
      /\ Cardinality(Unnamed) \in Nat /\ Cardinality(Contexts) \in Nat
  BY <1>2, UnnamedFinite, FS_Subset, FS_CardinalityType
<1>4. ASSUME NEW p \in Processes
      PROVE  next_context_id'[p] + Cardinality(Unnamed') <= Cardinality(Contexts)
  <2>1. next_context_id[p] + Cardinality(Unnamed) <= Cardinality(Contexts) /\ next_context_id[p] \in Nat
    BY DEF ContextOK, RendererOK
  <2>2. QED
    BY <1>3, <2>1
<1>5. ASSUME NEW c \in Contexts
      PROVE  /\ c \notin live' => context_id'[c] = RESERVED_ID
             /\ context_id'[c] <= next_context_id'[ProcessOf[c]]
             /\ context_id'[c] = RESERVED_ID \/ context_id'[c] = context_id[c]
  <2>1. /\ context_id[c] <= next_context_id[ProcessOf[c]] /\ next_context_id[ProcessOf[c]] \in Nat
        /\ c \notin live => context_id[c] = RESERVED_ID
    BY ProcessOfContext DEF ContextOK, RendererOK
  <2>2. QED
    BY <2>1 DEF RESERVED_ID
<1>6. ASSUME NEW d \in Contexts, NEW e \in Contexts, ProcessOf[d] = ProcessOf[e],
             context_id'[d] = context_id'[e]
      PROVE  d = e \/ context_id'[d] = RESERVED_ID
  BY <1>5, <1>6 DEF ContextOK
<1>7. QED
  BY <1>1, <1>4, <1>5, <1>6 DEF ContextOK

-----------------------------------------------------------------------------
(* The life of a query ID.                                                 *)

LEMMA NextBound ==
    ASSUME RendererOK, BrowserOK, CountOK
    PROVE  next_query_id \in Nat /\ next_query_id <= asked /\ asked \in Nat /\ next_query_id <= MaxQueries
           /\ 1..next_query_id \subseteq Numbers /\ MaxQueries \in Nat
<1>1. next_query_id \in Nat /\ asked \in Nat /\ asked <= MaxQueries /\ MaxQueries \in Nat
      /\ Cardinality(Waiting) \in Nat /\ next_query_id + Cardinality(Waiting) <= asked
  BY WaitingFinite, ConstantsAssumption DEF RendererOK, BrowserOK, CountOK
<1>2. QED
  BY <1>1 DEF Numbers

LEMMA EndsFacts ==
    ASSUME RendererOK, BrowserOK, CountOK, EndsOK, NEW q \in 1..next_query_id
    PROVE  /\ q \in Numbers /\ answered[q] \in Nat /\ canceled[q] \in Nat
           /\ q \notin failed => /\ answered[q] + canceled[q] <= 1
                                 /\ (\E x \in queries : x.query_id = q) <=> q \in attached
           /\ q \in failed => answered[q] = 1 /\ canceled[q] <= 1 /\ q \notin attached
           /\ q \in attached => /\ answered[q] = 0 /\ canceled[q] = 0
                                /\ \E x \in queries : x.query_id = q
           /\ (\E x \in queries : x.query_id = q) => canceled[q] = 0
<1>1. q \in Numbers /\ answered[q] \in Nat /\ canceled[q] \in Nat
  BY NextBound DEF BrowserOK
<1>2. /\ q \notin failed => /\ answered[q] + canceled[q] <= 1
                            /\ (\E x \in queries : x.query_id = q) <=> q \in attached
      /\ q \in failed => answered[q] = 1 /\ canceled[q] <= 1
      /\ q \in attached => answered[q] + canceled[q] = 0
  BY DEF EndsOK, EndsOnceOrFailed
<1>3. q \in attached => answered[q] = 0 /\ canceled[q] = 0
  BY <1>1, <1>2
<1>4. q \in failed => q \notin attached
  BY <1>1, <1>2
<1>5. (\E x \in queries : x.query_id = q) => canceled[q] = 0
  BY DEF EndsOK
<1>6. QED
  BY <1>1, <1>2, <1>3, <1>4, <1>5

LEMMA EndsCancel ==
    ASSUME RendererOK, BrowserOK, CountOK, EndsOK, NEW S \in SUBSET queries,
           queries' = queries \ S, attached' = attached \ {q.query_id : q \in S},
           \A i \in Numbers :
                canceled'[i] = canceled[i] + IF \E q \in S : q.query_id = i THEN 1 ELSE 0,
           next_query_id' = next_query_id, answered' = answered, failed' = failed
    PROVE  EndsOK'
<1>1. ASSUME NEW q \in Numbers, ~\E x \in S : x.query_id = q
      PROVE  canceled'[q] = canceled[q] /\ (q \in attached' <=> q \in attached)
             /\ ((\E x \in queries' : x.query_id = q) <=> (\E x \in queries : x.query_id = q))
  <2>1. canceled[q] \in Nat
    BY DEF BrowserOK
  <2>2. QED
    BY <1>1, <2>1
<1>2. \A x \in queries : x.query_id \in 1..next_query_id /\ x.query_id \in Numbers
  <2>1. \A x \in queries : x.query_id \in Numbers /\ x.query_id <= next_query_id
    BY DEF BrowserOK, Pendings, EndsOK
  <2>2. QED
    BY <2>1, NextBound DEF Numbers
<1>3. ASSUME NEW q \in Numbers, q > next_query_id'
      PROVE  q \notin attached' /\ q \notin failed' /\ answered'[q] = 0 /\ canceled'[q] = 0
  <2>1. ~\E x \in S : x.query_id = q
    BY <1>2, <1>3, NextBound DEF Numbers
  <2>2. QED
    BY <1>1, <1>3, <2>1 DEF EndsOK
<1>4. ASSUME NEW x \in queries' PROVE canceled'[x.query_id] = 0
  <2>1. x \in queries /\ ~\E y \in S : y.query_id = x.query_id
    BY DEF EndsOK
  <2>2. QED
    BY <1>1, <1>2, <2>1 DEF EndsOK
<1>5. ASSUME NEW q \in 1..next_query_id', NEW x \in S, x.query_id = q
      PROVE  /\ q \in Numbers /\ canceled[q] = 0 /\ canceled'[q] = 1 /\ q \notin attached'
             /\ ~\E y \in queries' : y.query_id = q
             /\ q \notin failed => answered[q] = 0
  <2>1. /\ q \in Numbers /\ canceled[q] = 0 /\ (q \notin failed => answered[q] = 0)
    BY <1>5, EndsFacts
  <2>2. canceled'[q] = 1
    BY <1>5, <2>1
  <2>3. ~\E y \in queries' : y.query_id = q
    BY <1>5 DEF EndsOK
  <2>4. QED
    BY <1>5, <2>1, <2>2, <2>3
<1>6. EndsOnceOrFailed'
  <2>1. ASSUME NEW q \in 1..next_query_id'
        PROVE  /\ q \notin failed' => /\ answered'[q] + canceled'[q] <= 1
                                      /\ (\E x \in queries' : x.query_id = q) <=> q \in attached'
               /\ q \in failed' => answered'[q] = 1 /\ canceled'[q] <= 1
               /\ q \in attached' => answered'[q] + canceled'[q] = 0
    <3>1. CASE \E x \in S : x.query_id = q
      BY <1>5, <3>1, EndsFacts
    <3>2. CASE ~\E x \in S : x.query_id = q
      BY <1>1, <3>2, EndsFacts
    <3>3. QED
      BY <3>1, <3>2
  <2>2. QED
    BY <2>1 DEF EndsOnceOrFailed
<1>7. QED
  BY <1>3, <1>4, <1>6 DEF EndsOK

\* A query gets an ID, and is taken by a handler or not.
LEMMA EndsTaken ==
    ASSUME RendererOK, BrowserOK, CountOK, EndsOK,
           next_query_id' = next_query_id + 1, next_query_id + 1 \in Numbers,
           UNCHANGED <<answered, canceled, failed>>,
           \/ UNCHANGED <<queries, attached>>
           \/ \E x : /\ x.query_id = next_query_id + 1
                     /\ queries' = queries \cup {x} /\ attached' = attached \cup {x.query_id}
    PROVE  EndsOK'
<1> DEFINE k == next_query_id + 1
<1>1. next_query_id \in Nat /\ k \in Numbers /\ k > next_query_id
  BY NextBound
<1>2. k \notin attached /\ k \notin failed /\ answered[k] = 0 /\ canceled[k] = 0
  BY <1>1 DEF EndsOK
<1>3. \A x \in queries : x.query_id \in Nat /\ x.query_id <= next_query_id /\ x.query_id # k
  <2>1. \A x \in queries : x.query_id \in Numbers /\ x.query_id <= next_query_id
    BY DEF BrowserOK, Pendings, EndsOK
  <2>2. QED
    BY <1>1, <2>1, ConstantsAssumption DEF Numbers
<1>4. /\ \A x \in queries' : x \in queries \/ x.query_id = k
      /\ queries \subseteq queries' /\ attached \subseteq attached'
      /\ \A x, y \in queries' : x.query_id = k /\ y.query_id = k => x = y
      /\ attached' \subseteq attached \cup {k}
      /\ k \in attached' <=> \E x \in queries' : x.query_id = k
  BY <1>2, <1>3
<1> HIDE DEF k
<1>5. next_query_id' = k /\ k = next_query_id + 1
  BY DEF k
<1>6. ASSUME NEW q \in Numbers, q > next_query_id'
      PROVE  q \notin attached' /\ q \notin failed' /\ answered'[q] = 0 /\ canceled'[q] = 0
  <2>1. q > next_query_id /\ q # k
    BY <1>1, <1>5, <1>6 DEF Numbers
  <2>2. QED
    BY <1>4, <2>1 DEF EndsOK
<1>7. ASSUME NEW x \in queries' PROVE x.query_id <= next_query_id' /\ canceled'[x.query_id] = 0
  <2>1. CASE x \in queries
    BY <1>1, <1>3, <1>5, <2>1 DEF EndsOK
  <2>2. CASE x.query_id = k
    BY <1>1, <1>2, <1>5, <2>2 DEF Numbers
  <2>3. QED
    BY <1>4, <2>1, <2>2
<1>8. ASSUME NEW x \in queries', NEW y \in queries', x.query_id = y.query_id PROVE x = y
  BY <1>3, <1>4, <1>8 DEF EndsOK
<1>9. EndsOnceOrFailed'
  <2>1. ASSUME NEW q \in 1..next_query_id'
        PROVE  /\ q \notin failed' => /\ answered'[q] + canceled'[q] <= 1
                                      /\ (\E x \in queries' : x.query_id = q) <=> q \in attached'
               /\ q \in failed' => answered'[q] = 1 /\ canceled'[q] <= 1
               /\ q \in attached' => answered'[q] + canceled'[q] = 0
    <3>1. CASE q = k
      BY <1>2, <1>4, <3>1
    <3>2. CASE q # k
      <4>1. q \in 1..next_query_id
        BY <1>1, <1>5, <3>2
      <4>2. /\ (\E x \in queries' : x.query_id = q) <=> (\E x \in queries : x.query_id = q)
            /\ q \in attached' <=> q \in attached
        BY <1>4, <3>2
      <4>3. QED
        BY <4>1, <4>2, EndsFacts
    <3>3. QED
      BY <3>1, <3>2
  <2>2. QED
    BY <2>1 DEF EndsOnceOrFailed
<1>10. QED
  BY <1>6, <1>7, <1>8, <1>9 DEF EndsOK

\* A response is sent.
LEMMA EndsCallback ==
    ASSUME RendererOK, BrowserOK, CountOK, EndsOK, NEW x \in queries, NEW success \in BOOLEAN,
           x.query_id \in attached,
           queries' = IF x.persistent THEN queries ELSE queries \ {x},
           attached' = IF success /\ x.persistent THEN attached ELSE attached \ {x.query_id},
           failed' = IF ~success /\ x.persistent THEN failed \cup {x.query_id} ELSE failed,
           answered' = [answered EXCEPT ![x.query_id] = @ + IF success /\ x.persistent THEN 0 ELSE 1],
           UNCHANGED <<canceled, next_query_id>>
    PROVE  EndsOK'
<1> DEFINE k == x.query_id
<1>1. k \in Numbers /\ k <= next_query_id /\ k \in 1..next_query_id /\ x.persistent \in BOOLEAN
  <2>1. k \in Numbers /\ k <= next_query_id /\ x.persistent \in BOOLEAN
    BY DEF BrowserOK, Pendings, EndsOK
  <2>2. QED
    BY <2>1, NextBound DEF Numbers
<1>2. answered[k] = 0 /\ canceled[k] = 0 /\ k \notin failed
  BY <1>1, EndsFacts
<1>3. /\ answered'[k] = IF success /\ x.persistent THEN 0 ELSE 1
      /\ \A q \in Numbers : q # k => answered'[q] = answered[q]
  BY <1>1, <1>2 DEF BrowserOK
<1>4. /\ \A y \in queries' : y \in queries
      /\ \A y \in queries : y.query_id # k => y \in queries'
      /\ (\E y \in queries' : y.query_id = k) <=> x.persistent
  BY DEF EndsOK
<1>5. \A q \in Numbers : q # k => (q \in attached' <=> q \in attached) /\ (q \in failed' <=> q \in failed)
  OBVIOUS
<1>6. ASSUME NEW q \in Numbers, q > next_query_id'
      PROVE  q \notin attached' /\ q \notin failed' /\ answered'[q] = 0 /\ canceled'[q] = 0
  <2>1. q # k
    BY <1>1, <1>6, NextBound DEF Numbers
  <2>2. QED
    BY <1>3, <1>5, <1>6, <2>1 DEF EndsOK
<1>7. EndsOnceOrFailed'
  <2>1. ASSUME NEW q \in 1..next_query_id'
        PROVE  /\ q \notin failed' => /\ answered'[q] + canceled'[q] <= 1
                                      /\ (\E y \in queries' : y.query_id = q) <=> q \in attached'
               /\ q \in failed' => answered'[q] = 1 /\ canceled'[q] <= 1
               /\ q \in attached' => answered'[q] + canceled'[q] = 0
    <3>1. CASE q = k
      BY <1>1, <1>2, <1>3, <1>4, <3>1
    <3>2. CASE q # k
      <4>1. q \in Numbers
        BY NextBound
      <4>2. /\ (\E y \in queries' : y.query_id = q) <=> (\E y \in queries : y.query_id = q)
            /\ answered'[q] = answered[q] /\ (q \in attached' <=> q \in attached)
            /\ (q \in failed' <=> q \in failed)
        BY <1>3, <1>4, <1>5, <3>2, <4>1
      <4>3. QED
        BY <4>2, EndsFacts
    <3>3. QED
      BY <3>1, <3>2
  <2>2. QED
    BY <2>1 DEF EndsOnceOrFailed
<1>8. QED
  BY <1>4, <1>6, <1>7 DEF EndsOK

-----------------------------------------------------------------------------
(* Every kind of step keeps the base invariant.                            *)

LEMMA DistinctQueries ==
    ASSUME EndsOK
    PROVE  Distinct
BY DEF EndsOK, Distinct

LEMMA RendererSame ==
    ASSUME RendererOK, ContextOK, UNCHANGED <<renderers, asked>>
    PROVE  RendererOK' /\ ContextOK'
BY DEF RendererOK, ContextOK, Unnamed, renderers

LEMMA BrowserSame ==
    ASSUME BrowserOK, EndsOK,
           UNCHANGED <<queries, next_query_id, attached, silenced, failed, answered, canceled>>
    PROVE  BrowserOK' /\ EndsOK'
BY DEF BrowserOK, EndsOK, EndsOnceOrFailed

\* Queries are canceled, whatever happens to the pages.
LEMMA CancelBrowser ==
    ASSUME RendererOK, BrowserOK, CountOK, EndsOK, NEW S \in SUBSET queries,
           queries' = queries \ S, attached' = attached \ {q.query_id : q \in S},
           canceled' \in [Numbers -> Nat],
           \A i \in Numbers :
                canceled'[i] = canceled[i] + IF \E q \in S : q.query_id = i THEN 1 ELSE 0,
           next_query_id' = next_query_id, answered' = answered, failed' = failed,
           silenced' = silenced \/ silenced' = silenced \cup {q.n : q \in S}
    PROVE  BrowserOK' /\ EndsOK'
<1>1. EndsOK'
  BY EndsCancel
<1>2. silenced' \subseteq Numbers
  BY DEF BrowserOK, Pendings
<1>3. IsFiniteSet(queries') /\ queries' \subseteq Pendings
  BY FS_Subset DEF BrowserOK
<1>4. QED
  BY <1>1, <1>2, <1>3 DEF BrowserOK

Core == RendererOK /\ ChannelOK /\ BrowserOK /\ CountOK /\ ContextOK /\ EndsOK

LEMMA NotifiedCancelCore ==
    ASSUME Core, NotifiedCancel
    PROVE  Core'
<1>1. PICK S \in SUBSET queries : CancelQueries(S, TRUE)
  BY DEF NotifiedCancel
<1>2. UNCHANGED <<renderers, up, next_query_id, asked, replies, misrouted, answered,
                  failed, silenced>>
  BY DEF NotifiedCancel
<1>3. /\ queries' = queries \ S /\ attached' = attached \ {q.query_id : q \in S}
      /\ canceled' \in [Numbers -> Nat]
      /\ \A i \in Numbers :
           canceled'[i] = canceled[i] + IF \E q \in S : q.query_id = i THEN 1 ELSE 0
      /\ down' \in [Contexts -> Seq(Responses)]
  BY <1>1, CancelEffect, DistinctQueries DEF Core
<1>4. BrowserOK' /\ EndsOK'
  BY <1>2, <1>3, CancelBrowser DEF Core
<1>5. RendererOK' /\ ContextOK'
  BY <1>2, RendererSame DEF Core
<1>6. ChannelOK'
  BY <1>2, <1>3 DEF Core, ChannelOK
<1>7. CountOK'
  BY <1>2 DEF Core, CountOK, Waiting, Asking
<1>8. QED
  BY <1>4, <1>5, <1>6, <1>7 DEF Core

LEMMA OnBeforeBrowseCore ==
    ASSUME Core, NEW b \in Browsers, OnBeforeBrowse(b)
    PROVE  Core'
<1> DEFINE S == {q \in queries : BrowserOf[q.ctx] = b}
<1>1. /\ S \in SUBSET queries /\ CancelQueries(S, FALSE)
      /\ silenced' = silenced \cup {q.n : q \in S}
      /\ UNCHANGED <<renderers, up, next_query_id, asked, answered, failed>>
  BY DEF OnBeforeBrowse
<1> HIDE DEF S
<1>2. /\ queries' = queries \ S /\ attached' = attached \ {q.query_id : q \in S}
      /\ canceled' \in [Numbers -> Nat]
      /\ \A i \in Numbers :
           canceled'[i] = canceled[i] + IF \E q \in S : q.query_id = i THEN 1 ELSE 0
      /\ down' \in [Contexts -> Seq(Responses)]
  BY <1>1, CancelEffect, DistinctQueries DEF Core
<1>3. BrowserOK' /\ EndsOK'
  BY <1>1, <1>2, CancelBrowser DEF Core
<1>4. RendererOK' /\ ContextOK'
  BY <1>1, RendererSame DEF Core
<1>5. ChannelOK'
  BY <1>1, <1>2 DEF Core, ChannelOK
<1>6. CountOK'
  BY <1>1 DEF Core, CountOK, Waiting, Asking
<1>7. QED
  BY <1>3, <1>4, <1>5, <1>6 DEF Core

\* The queries that a cancellation from a page is about.
LEMMA CancelTarget ==
    ASSUME NEW c \in Contexts, BrowserReceivesCancel(c)
    PROVE  \E S \in SUBSET queries :
             /\ CancelQueries(S, FALSE)
             /\ \A q \in S : BrowserOf[q.ctx] = BrowserOf[c]
             /\ Head(up[c]).request_id = RESERVED_ID =>
                  S = {q \in queries : /\ BrowserOf[q.ctx] = BrowserOf[c]
                                       /\ \/ q.context_id = Head(up[c]).context_id
                                          \/ q.request_id = RESERVED_ID}
<1> DEFINE cid == Head(up[c]).context_id
           rid == Head(up[c]).request_id
           match == {q \in queries : /\ BrowserOf[q.ctx] = BrowserOf[c]
                                     /\ \/ q.context_id = cid /\ rid = RESERVED_ID
                                        \/ q.request_id = rid}
           S == IF rid = RESERVED_ID THEN match
                ELSE {q \in match : \A x \in match : q.query_id <= x.query_id}
<1>1. CancelQueries(S, FALSE)
  BY DEF BrowserReceivesCancel, CancelPendingRequest
<1>2. S \in SUBSET queries /\ \A q \in S : BrowserOf[q.ctx] = BrowserOf[c]
  OBVIOUS
<1>3. rid = RESERVED_ID =>
        S = {q \in queries : /\ BrowserOf[q.ctx] = BrowserOf[c]
                             /\ q.context_id = cid \/ q.request_id = RESERVED_ID}
  OBVIOUS
<1> HIDE DEF S
<1>4. QED
  BY <1>1, <1>2, <1>3

LEMMA BrowserReceivesCancelCore ==
    ASSUME Core, NEW c \in Contexts, BrowserReceivesCancel(c)
    PROVE  Core'
<1>1. PICK S \in SUBSET queries : CancelQueries(S, FALSE)
  BY CancelTarget
<1>2. /\ up[c] # << >> /\ Head(up[c]).type = "cancel" /\ up' = [up EXCEPT ![c] = Tail(@)]
      /\ UNCHANGED <<renderers, next_query_id, asked, answered, failed, silenced>>
  BY DEF BrowserReceivesCancel
<1>3. /\ queries' = queries \ S /\ attached' = attached \ {q.query_id : q \in S}
      /\ canceled' \in [Numbers -> Nat]
      /\ \A i \in Numbers :
           canceled'[i] = canceled[i] + IF \E q \in S : q.query_id = i THEN 1 ELSE 0
      /\ down' \in [Contexts -> Seq(Responses)]
  BY <1>1, CancelEffect, DistinctQueries DEF Core
<1>4. BrowserOK' /\ EndsOK'
  BY <1>2, <1>3, CancelBrowser DEF Core
<1>5. RendererOK' /\ ContextOK'
  BY <1>2, RendererSame DEF Core
<1>6. next_query_id' \in Nat
      /\ next_query_id' <= next_query_id + (IF Head(up[c]).type = "query" THEN 1 ELSE 0)
  BY <1>2 DEF Core, BrowserOK
<1>7. CountOK' /\ up' \in [Contexts -> Seq(QueryMessages \cup CancelMessages)]
  BY <1>2, <1>6, CountPop DEF Core
<1>8. ChannelOK'
  BY <1>3, <1>7 DEF ChannelOK
<1>9. QED
  BY <1>4, <1>5, <1>7, <1>8 DEF Core

LEMMA RunCallbackCore ==
    ASSUME Core, MiscOK, RunCallbackTask
    PROVE  Core'
<1>1. UNCHANGED <<renderers, up, next_query_id, asked, canceled, silenced>>
  BY DEF RunCallbackTask
<1>2. RendererOK' /\ ContextOK'
  BY <1>1, RendererSame DEF Core
<1>3. CountOK'
  BY <1>1 DEF Core, CountOK, Waiting, Asking
<1>4. CASE UNCHANGED <<queries, attached, answered, failed, down>>
  <2>1. BrowserOK' /\ EndsOK'
    BY <1>1, <1>4, BrowserSame DEF Core
  <2>2. ChannelOK'
    BY <1>1, <1>4 DEF Core, ChannelOK
  <2>3. QED
    BY <1>2, <1>3, <2>1, <2>2 DEF Core
<1>5. ASSUME NEW x \in queries, NEW success \in BOOLEAN,
             x.query_id \in attached,
             queries' = IF x.persistent THEN queries ELSE queries \ {x},
             attached' = IF success /\ x.persistent THEN attached ELSE attached \ {x.query_id},
             failed' = IF ~success /\ x.persistent THEN failed \cup {x.query_id} ELSE failed,
             answered' = [answered EXCEPT ![x.query_id] = @ + IF success /\ x.persistent THEN 0 ELSE 1],
             down' \in [Contexts -> Seq(Responses)]
      PROVE  Core'
  <2>1. EndsOK'
    BY <1>1, <1>5, EndsCallback DEF Core
  <2>2. ChannelOK'
    BY <1>1, <1>5 DEF Core, ChannelOK
  <2>3. x.query_id \in Numbers
    BY DEF Core, BrowserOK, Pendings
  <2>4. attached' \subseteq Numbers /\ failed' \subseteq Numbers
    BY <1>5, <2>3 DEF Core, BrowserOK
  <2>5. IsFiniteSet(queries') /\ queries' \subseteq Pendings
    BY <1>5, FS_Subset DEF Core, BrowserOK
  <2>6. answered' \in [Numbers -> Nat]
    <3>1. answered[x.query_id] + (IF success /\ x.persistent THEN 0 ELSE 1) \in Nat
      BY <2>3 DEF Core, BrowserOK
    <3>2. answered \in [Numbers -> Nat]
      BY DEF Core, BrowserOK
    <3>3. QED
      BY <1>5, <2>3, <3>1, <3>2
  <2>7. BrowserOK'
    BY <1>1, <2>4, <2>5, <2>6 DEF Core, BrowserOK
  <2>8. QED
    BY <1>2, <1>3, <2>1, <2>2, <2>7 DEF Core
<1>6. ChannelOK /\ BrowserOK /\ EndsOK
  BY DEF Core
<1>7. QED
  BY <1>4, <1>5, <1>6, CallbackEffect

LEMMA TerminatedCore ==
    ASSUME Core, NEW p \in Processes, OnRenderProcessTerminated(p)
    PROVE  Core'
<1> DEFINE C == {c \in live : ProcessOf[c] = p}
           B == {BrowserOf[c] : c \in {x \in Contexts : ProcessOf[x] = p}}
           S == {q \in queries : BrowserOf[q.ctx] \in B}
<1>1. /\ live' = live \ C
      /\ context_id' = [c \in Contexts |-> IF c \in C THEN RESERVED_ID ELSE context_id[c]]
      /\ requests' = {r \in requests : ProcessOf[r.ctx] # p}
      /\ up' = [c \in Contexts |-> IF ProcessOf[c] = p THEN << >> ELSE up[c]]
      /\ down' = [c \in Contexts |-> IF ProcessOf[c] = p THEN << >> ELSE down[c]]
      /\ queries' = queries \ S
      /\ attached' = attached \ {q.query_id : q \in S}
      /\ canceled' = [i \in Numbers |-> canceled[i] + Cardinality({q \in S : q.query_id = i})]
      /\ silenced' = silenced \cup {q.n : q \in S}
      /\ UNCHANGED <<next_context_id, next_request_id, next_query_id, asked, answered, failed>>
  BY DEF OnRenderProcessTerminated
<1>2. S \in SUBSET queries
  OBVIOUS
<1>3. C \in SUBSET Contexts
  BY DEF Core, RendererOK
<1> HIDE DEF S, C
<1>4. /\ canceled' \in [Numbers -> Nat]
      /\ \A i \in Numbers :
           canceled'[i] = canceled[i] + IF \E q \in S : q.query_id = i THEN 1 ELSE 0
  BY <1>1, <1>2, CanceledOnce, DistinctQueries DEF Core
<1>5. BrowserOK' /\ EndsOK'
  BY <1>1, <1>2, <1>4, CancelBrowser DEF Core
<1>6. ContextOK' /\ context_id' \in [Contexts -> Nat]
  BY <1>1, <1>3, ContextGone DEF Core
<1>7. RendererOK'
  BY <1>1, <1>6 DEF Core, RendererOK
<1>8. /\ up' \in [Contexts -> Seq(QueryMessages \cup CancelMessages)]
      /\ \A c \in Contexts : up'[c] = up[c] \/ up'[c] = << >>
  BY <1>1 DEF Core, ChannelOK
<1>9. ChannelOK'
  BY <1>1, <1>8 DEF Core, ChannelOK
<1>10. CountOK'
  BY <1>1, <1>8, CountCut DEF Core
<1>11. QED
  BY <1>5, <1>6, <1>7, <1>9, <1>10 DEF Core

LEMMA RendererReceivesCore ==
    ASSUME Core, NEW c \in Contexts, RendererReceives(c)
    PROVE  Core'
<1>1. /\ down[c] # << >> /\ down' = [down EXCEPT ![c] = Tail(@)]
      /\ ExecuteCallback(c, Head(down[c]))
      /\ UNCHANGED <<live, context_id, next_context_id, next_request_id, up, queries, next_query_id,
                     attached, asked, answered, canceled, failed, silenced>>
  BY DEF RendererReceives, browser
<1>2. requests' \subseteq requests
  BY <1>1 DEF ExecuteCallback
<1>3. RendererOK' /\ ContextOK'
  BY <1>1, <1>2 DEF Core, RendererOK, ContextOK, Unnamed
<1>4. BrowserOK' /\ EndsOK'
  BY <1>1, BrowserSame DEF Core
<1>5. CountOK'
  BY <1>1 DEF Core, CountOK, Waiting, Asking
<1>6. down[c] \in Seq(Responses) /\ down \in [Contexts -> Seq(Responses)]
  BY DEF Core, ChannelOK
<1>7. Tail(down[c]) \in Seq(Responses)
  BY <1>1, <1>6, RangeTail
<1>8. ChannelOK'
  BY <1>1, <1>6, <1>7 DEF Core, ChannelOK
<1>9. QED
  BY <1>3, <1>4, <1>5, <1>8 DEF Core

\* A query that reaches the browser: it gets an ID when there is a handler to
\* ask, and is pending then, or its page is sent a failure.
LEMMA QueryEffect ==
    ASSUME Core, NEW c \in Contexts, BrowserReceivesQuery(c)
    PROVE  LET m == Head(up[c]) IN
           /\ m \in QueryMessages /\ m \in Asking(c) /\ up[c] # << >> /\ m = up[c][1]
           /\ \/ /\ next_query_id' = NextId(next_query_id) /\ down' = down
                 /\ \E id \in HandlerIds :
                      LET x == [query_id |-> NextId(next_query_id), ctx |-> c, n |-> m.n,
                                context_id |-> m.context_id, request_id |-> m.request_id,
                                persistent |-> m.persistent, handler_id |-> id,
                                handler |-> HandlerAt(id)]
                      IN  /\ HandlerAt(id) # None /\ queries' = queries \cup {x}
                          /\ attached' = attached \cup {x.query_id}
              \/ /\ UNCHANGED <<queries, attached>>
                 /\ next_query_id' \in {next_query_id, NextId(next_query_id)}
                 /\ down' \in [Contexts -> Seq(Responses)]
                 /\ \A d \in Contexts : Range(down'[d]) = Range(down[d]) \cup
                      IF d = c /\ c \in live THEN {Response(m, FALSE)} ELSE {}
<1> DEFINE m == Head(up[c])
           T == QueryMessages \cup CancelMessages
<1>1. up[c] # << >> /\ m.type = "query"
      /\ ((\E id \in HandlerIds : OnQuery(c, m, id)) \/ OnUnhandledQuery(c, m))
  BY DEF BrowserReceivesQuery
<1>2. m = up[c][1] /\ 1 \in DOMAIN up[c]
  <2>1. up[c] \in Seq(T)
    BY DEF Core, ChannelOK
  <2> HIDE DEF T
  <2>2. QED
    BY <1>1, <2>1, RangeTail
<1>3. m \in QueryMessages /\ m \in Asking(c)
  BY <1>1, <1>2, UpMessage DEF Core
<1> HIDE DEF m
<1>4. CASE \E id \in HandlerIds : OnQuery(c, m, id)
  BY <1>1, <1>2, <1>3, <1>4 DEF OnQuery, m
<1>5. CASE OnUnhandledQuery(c, m)
  <2> DEFINE x == Response(m, FALSE)
  <2>1. /\ next_query_id' \in {next_query_id, NextId(next_query_id)}
        /\ down' = [down EXCEPT ![c] = Sent(c, <<x>>)] /\ UNCHANGED <<queries, attached>>
    BY <1>5 DEF OnUnhandledQuery
  <2>2. x \in Responses
    BY <1>3 DEF QueryMessages, Response, Responses
  <2> HIDE DEF x
  <2>3. <<x>> \in Seq(Responses) /\ Range(<<x>>) = {x}
    BY <2>2 DEF Range
  <2>4. down \in [Contexts -> Seq(Responses)] /\ down[c] \in Seq(Responses)
    BY DEF Core, ChannelOK
  <2>5. down[c] \o <<x>> \in Seq(Responses) /\ Range(down[c] \o <<x>>) = Range(down[c]) \cup {x}
    <3> DEFINE s == down[c]
               t == <<x>>
    <3>1. s \in Seq(Responses) /\ t \in Seq(Responses) /\ Range(t) = {x}
      BY <2>3, <2>4
    <3> HIDE DEF s, t
    <3>2. s \o t \in Seq(Responses) /\ Range(s \o t) = Range(s) \cup {x}
      BY <3>1, RangeConcat
    <3>3. QED
      BY <3>2 DEF s, t
  <2>6. Sent(c, <<x>>) \in Seq(Responses)
        /\ Range(Sent(c, <<x>>)) = Range(down[c]) \cup IF c \in live THEN {x} ELSE {}
    BY <2>4, <2>5 DEF Sent
  <2>7. /\ down' \in [Contexts -> Seq(Responses)]
        /\ down'[c] = Sent(c, <<x>>) /\ \A d \in Contexts : d # c => down'[d] = down[d]
    BY <2>1, <2>4, <2>6
  <2>8. \A d \in Contexts : Range(down'[d]) = Range(down[d]) \cup
                              IF d = c /\ c \in live THEN {x} ELSE {}
    BY <2>6, <2>7
  <2>9. QED
    BY <1>1, <1>2, <1>3, <2>1, <2>7, <2>8 DEF m, x
<1>6. QED
  BY <1>1, <1>4, <1>5

LEMMA BrowserReceivesQueryCore ==
    ASSUME Core, HandlersOK, NEW c \in Contexts, BrowserReceivesQuery(c)
    PROVE  Core'
<1> DEFINE m == Head(up[c])
<1>1. /\ up[c] # << >> /\ m.type = "query" /\ up' = [up EXCEPT ![c] = Tail(@)]
      /\ UNCHANGED <<renderers, asked, answered, canceled, failed, silenced>>
  BY DEF BrowserReceivesQuery
<1>2. RendererOK' /\ ContextOK'
  BY <1>1, RendererSame DEF Core
<1>3. next_query_id \in Nat /\ next_query_id' \in {next_query_id, next_query_id + 1}
  BY QueryEffect DEF NextId, Core, BrowserOK
<1>4. next_query_id' \in Nat /\ next_query_id' <= next_query_id + (IF m.type = "query" THEN 1 ELSE 0)
  BY <1>1, <1>3
<1>5. CountOK' /\ up' \in [Contexts -> Seq(QueryMessages \cup CancelMessages)]
  BY <1>1, <1>4, CountPop DEF Core
<1>6. next_query_id' <= MaxQueries /\ MaxQueries \in Nat
  <2>1. next_query_id' + Cardinality(Waiting') <= asked' /\ asked' \in Nat /\ asked' <= MaxQueries
        /\ MaxQueries \in Nat
    BY <1>2, <1>5, ConstantsAssumption DEF CountOK, RendererOK
  <2>2. Cardinality(Waiting') \in Nat
    <3>1. Waiting' \in SUBSET Numbers
      BY DEF Waiting
    <3>2. IsFiniteSet(Numbers)
      BY NumbersFinite
    <3>3. QED
      BY <3>1, <3>2, FS_Subset, FS_CardinalityType
  <2>3. QED
    BY <1>4, <2>1, <2>2
<1>7. next_query_id' = next_query_id + 1 => next_query_id + 1 \in Numbers
  BY <1>3, <1>6 DEF Numbers
<1>8. CASE UNCHANGED <<queries, attached>> /\ down' \in [Contexts -> Seq(Responses)]
  <2>1. EndsOK'
    <3>1. CASE next_query_id' = next_query_id
      BY <1>1, <1>8, <3>1, BrowserSame DEF Core
    <3>2. CASE next_query_id' = next_query_id + 1
      BY <1>1, <1>7, <1>8, <3>2, EndsTaken DEF Core
    <3>3. QED
      BY <1>3, <3>1, <3>2
  <2>2. BrowserOK'
    BY <1>1, <1>4, <1>8 DEF Core, BrowserOK
  <2>3. ChannelOK'
    BY <1>5, <1>8 DEF ChannelOK
  <2>4. QED
    BY <1>2, <1>5, <2>1, <2>2, <2>3 DEF Core
<1>9. ASSUME NEW id \in HandlerIds, HandlerAt(id) # None, NEW x,
             x = [query_id |-> NextId(next_query_id), ctx |-> c, n |-> m.n,
                  context_id |-> m.context_id, request_id |-> m.request_id,
                  persistent |-> m.persistent, handler_id |-> id, handler |-> HandlerAt(id)],
             queries' = queries \cup {x}, attached' = attached \cup {x.query_id},
             next_query_id' = NextId(next_query_id), down' = down
      PROVE  Core'
  <2>1. x.query_id = next_query_id + 1 /\ next_query_id + 1 \in Numbers
        /\ next_query_id' = next_query_id + 1
    BY <1>7, <1>9 DEF NextId
  <2>2. HandlerAt(id) \in Handlers
    <3>1. id \in Int
      BY ConstantsAssumption DEF HandlerIds
    <3>2. QED
      BY <1>9, <3>1, Placed
  <2>3. x \in Pendings
    <3>1. m \in QueryMessages
      BY QueryEffect
    <3>2. NextId(next_query_id) \in Numbers
      BY <2>1 DEF NextId
    <3> HIDE DEF m
    <3>3. QED
      BY <1>9, <2>2, <3>1, <3>2 DEF QueryMessages, Pendings
  <2>4. EndsOK'
    BY <1>1, <1>9, <2>1, EndsTaken DEF Core
  <2>5. BrowserOK'
    BY <1>1, <1>4, <1>9, <2>1, <2>3, FS_AddElement DEF Core, BrowserOK
  <2>6. ChannelOK'
    BY <1>5, <1>9 DEF ChannelOK, Core
  <2>7. QED
    BY <1>2, <1>5, <2>4, <2>5, <2>6 DEF Core
<1>10. QED
  BY <1>8, <1>9, QueryEffect

\* A handler that is asked makes the UI thread wait: the query has got an ID.
LEMMA HandlerReentersCore ==
    ASSUME Core, NEW c \in Contexts, HandlerReenters(c)
    PROVE  Core'
<1> DEFINE m == Head(up[c])
<1>1. /\ up[c] # << >> /\ m.type = "query" /\ up' = [up EXCEPT ![c] = Tail(@)]
      /\ next_query_id' = next_query_id + 1 /\ silenced' = silenced \cup {m.n}
      /\ UNCHANGED <<renderers, down, queries, attached, asked, answered, canceled, failed>>
  BY DEF HandlerReenters, NextId
<1>2. RendererOK' /\ ContextOK'
  BY <1>1, RendererSame DEF Core
<1>3. next_query_id \in Nat /\ next_query_id' \in Nat
      /\ next_query_id' <= next_query_id + (IF m.type = "query" THEN 1 ELSE 0)
  BY <1>1 DEF Core, BrowserOK
<1>4. CountOK' /\ up' \in [Contexts -> Seq(QueryMessages \cup CancelMessages)]
  BY <1>1, <1>3, CountPop DEF Core
<1>5. next_query_id + 1 \in Numbers
  <2>1. next_query_id' + Cardinality(Waiting') <= asked' /\ asked' \in Nat /\ asked' <= MaxQueries
        /\ MaxQueries \in Nat
    BY <1>2, <1>4, ConstantsAssumption DEF CountOK, RendererOK
  <2>2. Cardinality(Waiting') \in Nat
    <3>1. Waiting' \in SUBSET Numbers
      BY DEF Waiting
    <3>2. QED
      BY <3>1, NumbersFinite, FS_Subset, FS_CardinalityType
  <2>3. next_query_id' <= MaxQueries
    BY <1>3, <2>1, <2>2
  <2>4. QED
    BY <1>1, <1>3, <2>1, <2>3 DEF Numbers
<1>6. EndsOK'
  BY <1>1, <1>5, EndsTaken DEF Core
<1>7. m.n \in Numbers
  <2>1. m \in QueryMessages \cup CancelMessages
    <3>1. up[c] \in Seq(QueryMessages \cup CancelMessages)
      BY DEF Core, ChannelOK
    <3>2. QED
      BY <1>1, <3>1, RangeTail
  <2> HIDE DEF m
  <2>2. QED
    BY <1>1, <2>1 DEF QueryMessages, CancelMessages
<1> HIDE DEF m
<1>8. BrowserOK'
  BY <1>1, <1>3, <1>7 DEF Core, BrowserOK
<1>9. ChannelOK'
  BY <1>1, <1>4 DEF Core, ChannelOK
<1>10. QED
  BY <1>2, <1>4, <1>6, <1>8, <1>9 DEF Core

\* A page calls cefQuery: the entry r in its map and the message m it sends.
Sending(c, r, m) ==
    /\ c \in live /\ asked + 1 \in Numbers /\ asked' = asked + 1
    /\ r.n = asked + 1 /\ r.ctx = c /\ r.context_id = context_id'[c] /\ r.context_id # RESERVED_ID
    /\ r.request_id = next_request_id[ProcessOf[c]] + 1
    /\ next_request_id' = [next_request_id EXCEPT ![ProcessOf[c]] = @ + 1]
    /\ m.n = r.n /\ m.context_id = r.context_id /\ m.request_id = r.request_id
    /\ m.persistent = r.persistent /\ m.type = "query"
    /\ requests' = requests \cup {r} /\ up' = [up EXCEPT ![c] = Append(@, m)]
    /\ \A d \in Contexts : Range(up'[d]) = Range(up[d]) \cup IF d = c THEN {m} ELSE {}

LEMMA SendEffect ==
    ASSUME Core, NEW c \in Contexts, NEW persistent \in BOOLEAN, SendQuery(c, persistent)
    PROVE  \E r \in Requests, m \in QueryMessages : Sending(c, r, m)
<1> DEFINE p == ProcessOf[c]
           rid == next_request_id[p] + 1
           cid == ContextId(c)
           r == [n |-> asked + 1, ctx |-> c, context_id |-> cid, request_id |-> rid,
                 persistent |-> persistent]
           m == [type |-> "query", n |-> asked + 1, context_id |-> cid, request_id |-> rid,
                 persistent |-> persistent]
           T == QueryMessages \cup CancelMessages
<1>1. /\ c \in live /\ asked < MaxQueries /\ asked' = asked + 1 /\ GetIdForContext(c)
      /\ next_request_id' = [next_request_id EXCEPT ![p] = @ + 1]
      /\ requests' = requests \cup {r} /\ up' = [up EXCEPT ![c] = Append(@, m)]
      /\ live' = live
  BY DEF SendQuery, Runs, NextId
<1>2. context_id'[c] = cid /\ cid \in Nat \ {0}
  BY <1>1, ContextNamed DEF Core
<1>3. p \in Processes /\ next_request_id[p] \in Nat /\ next_request_id[p] <= asked
      /\ asked \in Nat /\ MaxQueries \in Nat
  BY ProcessOfContext, ConstantsAssumption DEF Core, RendererOK
<1>4. asked + 1 \in Numbers /\ rid \in Numbers
  BY <1>1, <1>3 DEF Numbers
<1> HIDE DEF rid, cid
<1>5. r \in Requests /\ m \in QueryMessages
  BY <1>2, <1>4 DEF Requests, QueryMessages
<1>6. /\ r.n = asked + 1 /\ r.ctx = c /\ r.context_id = cid /\ r.request_id = rid
      /\ r.persistent = persistent /\ m.n = asked + 1 /\ m.context_id = cid /\ m.request_id = rid
      /\ m.persistent = persistent /\ m.type = "query"
  OBVIOUS
<1> HIDE DEF r, m
<1>7. \A d \in Contexts : Range(up'[d]) = Range(up[d]) \cup IF d = c THEN {m} ELSE {}
  <2>1. up[c] \in Seq(T) /\ up \in [Contexts -> Seq(T)] /\ m \in T
    BY <1>5 DEF Core, ChannelOK
  <2> HIDE DEF T
  <2>2. Range(Append(up[c], m)) = Range(up[c]) \cup {m}
    BY <2>1, RangeAppend
  <2>3. up'[c] = Append(up[c], m) /\ \A d \in Contexts : d # c => up'[d] = up[d]
    BY <1>1, <2>1
  <2>4. QED
    BY <2>2, <2>3
<1>8. rid = next_request_id[ProcessOf[c]] + 1 /\ cid # RESERVED_ID
  BY <1>2 DEF rid, RESERVED_ID
<1>9. Sending(c, r, m)
  BY <1>1, <1>2, <1>4, <1>6, <1>7, <1>8 DEF Sending
<1>10. QED
  BY <1>5, <1>9

LEMMA SendQueryCore ==
    ASSUME Core, NEW c \in Contexts, NEW persistent \in BOOLEAN, SendQuery(c, persistent)
    PROVE  Core'
<1> DEFINE p == ProcessOf[c]
<1>1. PICK r \in Requests, m \in QueryMessages : Sending(c, r, m)
  BY SendEffect
<1> USE DEF Sending
<1>2. /\ GetIdForContext(c)
      /\ UNCHANGED <<live, down, queries, next_query_id, attached, answered, canceled, failed, silenced>>
  BY DEF SendQuery, browser
<1>3. ContextOK' /\ context_id' \in [Contexts -> Nat] /\ next_context_id' \in [Processes -> Nat]
  BY <1>1, <1>2, ContextNamed DEF Core
<1>4. CountOK' /\ up' \in [Contexts -> Seq(QueryMessages \cup CancelMessages)]
  BY <1>1, <1>2, CountSend DEF Core
<1>5. BrowserOK' /\ EndsOK'
  BY <1>2, BrowserSame DEF Core
<1>6. ChannelOK'
  BY <1>2, <1>4 DEF ChannelOK, Core
<1>7. asked \in Nat /\ asked' \in 0..MaxQueries
  BY <1>1, ConstantsAssumption DEF Core, RendererOK, Numbers
<1>8. next_request_id' \in [Processes -> Nat] /\ \A q \in Processes : next_request_id'[q] <= asked'
  <2>1. p \in Processes /\ next_request_id \in [Processes -> Nat]
        /\ \A q \in Processes : next_request_id[q] \in Nat /\ next_request_id[q] <= asked
    BY ProcessOfContext DEF Core, RendererOK
  <2>2. /\ next_request_id' \in [Processes -> Nat]
        /\ \A q \in Processes : next_request_id'[q] = next_request_id[q] \/ next_request_id'[q] = next_request_id[q] + 1
    BY <1>1, <2>1
  <2>3. QED
    BY <1>1, <1>7, <2>1, <2>2
<1>9. \A x \in requests' : x \in Requests /\ x.n <= asked'
  <2>1. \A x \in requests : x \in Requests /\ x.n \in Nat /\ x.n <= asked
    BY ConstantsAssumption DEF Core, RendererOK, Requests, Numbers
  <2>2. QED
    BY <1>1, <1>7, <2>1
<1>10. RendererOK'
  BY <1>2, <1>3, <1>7, <1>8, <1>9 DEF Core, RendererOK
<1>11. QED
  BY <1>3, <1>4, <1>5, <1>6, <1>10 DEF Core

LEMMA CancelFunctionCore ==
    ASSUME Core, NEW c \in Contexts, CancelFunction(c)
    PROVE  Core'
<1>1. /\ c \in live /\ GetIdForContext(c)
      /\ UNCHANGED <<live, next_request_id, requests, up, down, queries, next_query_id, attached,
                     asked, answered, canceled, failed, silenced>>
  BY DEF CancelFunction, Runs, browser, ghosts
<1>2. ContextOK' /\ context_id' \in [Contexts -> Nat] /\ next_context_id' \in [Processes -> Nat]
  BY <1>1, ContextNamed DEF Core
<1>3. BrowserOK' /\ EndsOK'
  BY <1>1, BrowserSame DEF Core
<1>4. RendererOK'
  BY <1>1, <1>2 DEF Core, RendererOK
<1>5. CountOK'
  BY <1>1 DEF Core, CountOK, Waiting, Asking
<1>6. ChannelOK'
  BY <1>1 DEF Core, ChannelOK
<1>7. QED
  BY <1>2, <1>3, <1>4, <1>5, <1>6 DEF Core

\* A context goes: its requests are dropped, and if there were any the browser
\* is sent a cancellation of all of them.
LEMMA ReleaseEffect ==
    ASSUME Core, NEW c \in Contexts, OnContextReleased(c)
    PROVE  /\ c \in live /\ live' = live \ {c} /\ context_id' = [context_id EXCEPT ![c] = RESERVED_ID]
           /\ \/ context_id[c] = RESERVED_ID /\ UNCHANGED <<requests, up>>
              \/ /\ context_id[c] # RESERVED_ID
                 /\ requests' = requests \ Found(c, context_id[c], RESERVED_ID)
                 /\ \/ up' = up /\ Found(c, context_id[c], RESERVED_ID) = {}
                    \/ \E m \in CancelMessages :
                         /\ m.context_id = context_id[c]
                         /\ up' = [up EXCEPT ![c] = Append(@, m)]
                         /\ \A d \in Contexts : Range(up'[d]) = Range(up[d]) \cup IF d = c THEN {m} ELSE {}
<1>1. /\ c \in live /\ live' = live \ {c} /\ context_id' = [context_id EXCEPT ![c] = RESERVED_ID]
      /\ IF context_id[c] # RESERVED_ID THEN SendCancel(c, context_id[c]) ELSE UNCHANGED <<requests, up>>
  BY DEF OnContextReleased, Runs
<1>2. CASE context_id[c] = RESERVED_ID
  BY <1>1, <1>2
<1>3. CASE context_id[c] # RESERVED_ID
  <2> DEFINE found == Found(c, context_id[c], RESERVED_ID)
             m == [type |-> "cancel", n |-> 0, context_id |-> context_id[c],
                   request_id |-> RESERVED_ID, persistent |-> FALSE]
             T == QueryMessages \cup CancelMessages
  <2>1. requests' = requests \ found /\ up' = IF found = {} THEN up ELSE [up EXCEPT ![c] = Append(@, m)]
    BY <1>1, <1>3 DEF SendCancel
  <2>2. CASE found = {}
    BY <1>1, <1>3, <2>1, <2>2
  <2>3. CASE found # {}
    <3>1. m \in CancelMessages /\ m.context_id = context_id[c]
      BY DEF CancelMessages, Core, RendererOK
    <3>2. up[c] \in Seq(T) /\ up \in [Contexts -> Seq(T)] /\ m \in T
      BY <3>1 DEF Core, ChannelOK
    <3>3. up' = [up EXCEPT ![c] = Append(@, m)]
      BY <2>1, <2>3
    <3> HIDE DEF m, T
    <3>4. Range(Append(up[c], m)) = Range(up[c]) \cup {m}
      BY <3>2, RangeAppend
    <3>5. up'[c] = Append(up[c], m) /\ \A d \in Contexts : d # c => up'[d] = up[d]
      BY <3>2, <3>3
    <3>6. \A d \in Contexts : Range(up'[d]) = Range(up[d]) \cup IF d = c THEN {m} ELSE {}
      BY <3>4, <3>5
    <3>7. QED
      BY <1>1, <1>3, <2>1, <3>1, <3>3, <3>6
  <2>4. QED
    BY <2>2, <2>3
<1>4. QED
  BY <1>2, <1>3

LEMMA OnContextReleasedCore ==
    ASSUME Core, NEW c \in Contexts, OnContextReleased(c)
    PROVE  Core'
<1>1. UNCHANGED <<next_context_id, next_request_id, down, queries, next_query_id, attached,
                  asked, answered, canceled, failed, silenced>>
  BY DEF OnContextReleased, browser, ghosts
<1>2. BrowserOK' /\ EndsOK'
  BY <1>1, BrowserSame DEF Core
<1>3. ContextOK' /\ context_id' \in [Contexts -> Nat] /\ live' \subseteq live
  <2> DEFINE C == {c}
  <2>1. live' = live \ C /\ C \in SUBSET Contexts
    BY ReleaseEffect
  <2>2. context_id' = [d \in Contexts |-> IF d \in C THEN RESERVED_ID ELSE context_id[d]]
    BY ReleaseEffect DEF Core, RendererOK
  <2> HIDE DEF C
  <2>3. QED
    BY <1>1, <2>1, <2>2, ContextGone DEF Core
<1>4. requests' \subseteq requests
  BY ReleaseEffect
<1>5. RendererOK'
  BY <1>1, <1>3, <1>4 DEF Core, RendererOK
<1>6. CountOK' /\ up' \in [Contexts -> Seq(QueryMessages \cup CancelMessages)]
  <2>1. CASE up' = up
    BY <1>1, <2>1 DEF Core, CountOK, Waiting, Asking, ChannelOK
  <2>2. ASSUME NEW m \in CancelMessages, up' = [up EXCEPT ![c] = Append(@, m)]
        PROVE  CountOK' /\ up' \in [Contexts -> Seq(QueryMessages \cup CancelMessages)]
    <3>1. m.type = "cancel"
      BY DEF CancelMessages
    <3>2. QED
      BY <1>1, <2>2, <3>1, CountSend DEF Core
  <2>3. QED
    BY <2>1, <2>2, ReleaseEffect
<1>7. ChannelOK'
  BY <1>1, <1>6 DEF Core, ChannelOK
<1>8. QED
  BY <1>2, <1>3, <1>5, <1>6, <1>7 DEF Core

LEMMA QuietCore ==
    ASSUME Core, Quiet
    PROVE  Core'
<1>1. UNCHANGED <<renderers, asked, up, down, queries, next_query_id, attached, silenced, failed,
                  answered, canceled>>
  BY DEF Quiet, ghosts
<1>2. RendererOK' /\ ContextOK' /\ BrowserOK' /\ EndsOK'
  BY <1>1, RendererSame, BrowserSame DEF Core
<1>3. CountOK' /\ ChannelOK'
  BY <1>1 DEF Core, CountOK, Waiting, Asking, ChannelOK
<1>4. QED
  BY <1>2, <1>3 DEF Core

LEMMA BaseInit ==
    ASSUME Init
    PROVE  BaseInv
<1>1. RendererOK
  BY ConstantsAssumption DEF Init, RendererOK, RESERVED_ID
<1>2. ChannelOK
  BY DEF Init, ChannelOK
<1>3. IsFiniteSet({}) /\ Cardinality({}) = 0
  BY FS_EmptySet
<1>4. BrowserOK
  BY <1>3 DEF Init, BrowserOK, RESERVED_ID
<1>5. MiscOK
  BY ConstantsAssumption DEF Init, MiscOK
<1>6. HandlersOK
  <2>1. PICK h \in Handlers : handlers = [offset |-> 0, deque |-> <<h>>]
    BY DEF Init
  <2>2. h # None
    BY ConstantsAssumption
  <2>3. queries = {}
    BY DEF Init
  <2>4. QED
    BY <2>1, <2>2, <2>3 DEF HandlersOK, HandlerIsRegistered
<1>7. CountOK
  <2>1. \A c \in Contexts : up[c] = << >>
    BY DEF Init
  <2>2. \A c \in Contexts : DOMAIN up[c] = {} /\ Range(up[c]) = {}
    BY <2>1 DEF Range
  <2>3. Waiting = {}
    BY <2>2 DEF Waiting, Asking
  <2>4. next_query_id = 0 /\ asked = 0
    BY DEF Init, RESERVED_ID
  <2>5. QED
    BY <1>3, <2>2, <2>3, <2>4 DEF CountOK
<1>8. ContextOK
  <2>1. /\ live = Contexts /\ \A c \in Contexts : context_id[c] = 0
        /\ \A p \in Processes : next_context_id[p] = 0
    BY DEF Init, RESERVED_ID
  <2>2. Unnamed = Contexts
    BY <2>1 DEF Unnamed, RESERVED_ID
  <2>3. Cardinality(Contexts) \in Nat
    BY <1>1, UnnamedFinite
  <2>4. QED
    BY <2>1, <2>2, <2>3, ProcessOfContext DEF ContextOK, RESERVED_ID
<1>9. EndsOK
  BY DEF Init, EndsOK, EndsOnceOrFailed, RESERVED_ID
<1>10. QED
  BY <1>1, <1>2, <1>4, <1>5, <1>6, <1>7, <1>8, <1>9 DEF BaseInv

LEMMA BaseStep ==
    ASSUME BaseInv, [Next]_vars
    PROVE  BaseInv'
<1>1. Core /\ MiscOK /\ HandlersOK
  BY DEF BaseInv, Core
<1>2. Core'
  BY <1>1, StepKinds, SendQueryCore, CancelFunctionCore, OnContextReleasedCore,
     RendererReceivesCore, BrowserReceivesQueryCore, BrowserReceivesCancelCore,
     OnBeforeBrowseCore, TerminatedCore, RunCallbackCore, NotifiedCancelCore, QuietCore,
     HandlerReentersCore
<1>3. MiscOK'
  BY <1>1, MiscStep
<1>4. HandlersOK'
  BY <1>1, HandlersStep DEF Core
<1>5. QED
  BY <1>2, <1>3, <1>4 DEF BaseInv, Core

(* The base invariant holds in every reachable state: the types, the counts  *)
(* of queries and of context IDs, the deque of handlers and the life of a    *)
(* query ID.                                                                 *)
THEOREM BaseInvariance == Spec => []BaseInv
<1>1. BaseInv /\ [Next]_vars => BaseInv'
  BY BaseStep
<1>2. QED
  BY <1>1, BaseInit, PTL DEF Spec

LEMMA BaseImpliesType ==
    ASSUME BaseInv
    PROVE  TypeOK
<1>1. /\ RendererOK /\ BrowserOK /\ MiscOK /\ HandlersOK /\ CountOK /\ ContextOK
  BY DEF BaseInv
<1>2. /\ live \subseteq Contexts /\ asked \in 0..MaxQueries /\ requests \subseteq Requests
  BY <1>1 DEF RendererOK
<1>3. next_context_id \in [Processes -> 0..Cardinality(Contexts)]
  <2>1. next_context_id \in [Processes -> Nat]
    BY <1>1 DEF RendererOK
  <2>2. Cardinality(Unnamed) \in Nat /\ Cardinality(Contexts) \in Nat
    BY <1>1, UnnamedFinite
  <2>3. ASSUME NEW p \in Processes PROVE next_context_id[p] \in 0..Cardinality(Contexts)
    <3>1. next_context_id[p] + Cardinality(Unnamed) <= Cardinality(Contexts) /\ next_context_id[p] \in Nat
      BY <1>1, <2>1 DEF ContextOK
    <3>2. QED
      BY <2>2, <3>1
  <2>4. QED
    BY <2>1, <2>3
<1>4. context_id \in [Contexts -> 0..Cardinality(Contexts)]
  <2>1. context_id \in [Contexts -> Nat] /\ Cardinality(Contexts) \in Nat
    BY <1>1, UnnamedFinite DEF RendererOK
  <2>2. ASSUME NEW c \in Contexts PROVE context_id[c] \in 0..Cardinality(Contexts)
    <3>1. context_id[c] <= next_context_id[ProcessOf[c]] /\ context_id[c] \in Nat
      BY <1>1, <2>1 DEF ContextOK
    <3>2. next_context_id[ProcessOf[c]] \in 0..Cardinality(Contexts)
      BY <1>3, ProcessOfContext
    <3>3. QED
      BY <2>1, <3>1, <3>2
  <2>3. QED
    BY <2>1, <2>2
<1>5. next_request_id \in [Processes -> 0..MaxQueries]
  <2>1. next_request_id \in [Processes -> Nat] /\ asked \in Nat /\ asked <= MaxQueries /\ MaxQueries \in Nat
    BY <1>1, ConstantsAssumption DEF RendererOK
  <2>2. \A p \in Processes : next_request_id[p] \in Nat /\ next_request_id[p] <= asked
    BY <1>1, <2>1 DEF RendererOK
  <2>3. \A p \in Processes : next_request_id[p] \in 0..MaxQueries
    BY <2>1, <2>2
  <2>4. QED
    BY <2>1, <2>3
<1>6. next_query_id \in 0..MaxQueries
  BY <1>1, NextBound
<1>7. /\ handlers.offset \in Int /\ handlers.deque \in Seq(Handlers \union {None})
      /\ \A i \in {1, Len(handlers.deque)} \ {0} :
            handlers.deque # << >> => handlers.deque[i] # None
  BY <1>1 DEF HandlersOK
<1>8. /\ queries \subseteq Pendings /\ attached \subseteq Numbers /\ silenced \subseteq Numbers
      /\ failed \subseteq Numbers
  BY <1>1 DEF BrowserOK
<1>9. blocked \subseteq Processes \union {UiThread} /\ calls \in 0..MaxCalls /\ events \in 0..MaxEvents
  BY <1>1 DEF MiscOK
<1>10. QED
  BY <1>2, <1>3, <1>4, <1>5, <1>6, <1>7, <1>8, <1>9 DEF TypeOK, Requests, Pendings

(* The maps, channels and generators of the router have their types, and     *)
(* the generators stay within what the pages ask for, however many           *)
(* contexts, processes and handlers there are.                               *)
THEOREM TypeCorrectness == Spec => []TypeOK
BY BaseInvariance, BaseImpliesType, PTL

(* A handler that took a query is told once how it ended, with the exception *)
(* of a persistent query that it has failed, whatever the order of answers,  *)
(* cancellations from either side, navigations and crashes                   *)
(* (on_callback_success, on_callback_failure, cancel_query).                 *)
THEOREM EndsOnceOrFailedHolds == Spec => []EndsOnceOrFailed
<1>1. BaseInv => EndsOnceOrFailed
  BY DEF BaseInv, EndsOK
<1>2. QED
  BY <1>1, BaseInvariance, PTL

(* The ID under which a handler took a query stands for that handler as long *)
(* as the query is pending, for any sequence of add_handler at either end    *)
(* and remove_handler; once remove_handler waits for itself it may stand for *)
(* none, but never for another handler.                                      *)
THEOREM HandlerIsRegisteredHolds == Spec => []HandlerIsRegistered
<1>1. BaseInv => HandlerIsRegistered
  BY DEF BaseInv, HandlersOK
<1>2. QED
  BY <1>1, BaseInvariance, PTL

-----------------------------------------------------------------------------
(* What is left of a call of cefQuery.                                     *)

LEMMA TraceTypes ==
    ASSUME Core
    PROVE  \A c \in Contexts : Asking(c) \subseteq QueryMessages /\ Range(down[c]) \subseteq Responses
                               /\ Range(up[c]) \subseteq QueryMessages \cup CancelMessages
<1>1. \A c \in Contexts : Range(up[c]) \subseteq QueryMessages \cup CancelMessages
                          /\ Range(down[c]) \subseteq Responses
  <2>1. TAKE c \in Contexts
  <2>2. up[c] \in Seq(QueryMessages \cup CancelMessages) /\ down[c] \in Seq(Responses)
    BY DEF Core, ChannelOK
  <2>3. QED
    BY <2>2, SeqRange
<1>2. \A c \in Contexts : Asking(c) \subseteq QueryMessages
  BY <1>1 DEF Asking, CancelMessages
<1>3. QED
  BY <1>1, <1>2

LEMMA TraceMembers ==
    ASSUME Core
    PROVE  /\ \A r \in requests : KeyOf(r, r.ctx) \in Traces
           /\ \A q \in queries : KeyOf(q, q.ctx) \in Traces
           /\ \A c \in Contexts : \A m \in Asking(c) : KeyOf(m, c) \in Traces
           /\ \A c \in Contexts : \A x \in Range(down[c]) : KeyOf(x, c) \in Traces
<1>1. \A r \in requests : KeyOf(r, r.ctx) \in Keys
  BY DEF Core, RendererOK, Requests, KeyOf, Keys
<1>2. \A q \in queries : KeyOf(q, q.ctx) \in Keys
  BY DEF Core, BrowserOK, Pendings, KeyOf, Keys
<1>3. \A c \in Contexts : \A m \in Asking(c) : KeyOf(m, c) \in Keys
  BY TraceTypes DEF QueryMessages, KeyOf, Keys
<1>4. \A c \in Contexts : \A x \in Range(down[c]) : KeyOf(x, c) \in Keys
  BY TraceTypes DEF Responses, KeyOf, Keys
<1>5. QED
  BY <1>1, <1>2, <1>3, <1>4 DEF Traces

\* Two traces of the same call.
LEMMA SameCall ==
    ASSUME TraceOK, NEW a, NEW b, NEW c, NEW d, KeyOf(a, c) \in Traces, KeyOf(b, d) \in Traces,
           a.n = b.n
    PROVE  c = d /\ a.context_id = b.context_id /\ a.request_id = b.request_id
<1>1. KeyOf(a, c) = KeyOf(b, d)
  BY DEF TraceOK, KeyOf
<1>2. QED
  BY <1>1 DEF KeyOf

\* Two traces in the same process with the same request ID.
LEMMA SameRequest ==
    ASSUME TraceOK, NEW a, NEW b, NEW c, NEW d, KeyOf(a, c) \in Traces, KeyOf(b, d) \in Traces,
           ProcessOf[c] = ProcessOf[d], a.request_id = b.request_id
    PROVE  a.n = b.n
BY DEF TraceOK, KeyOf

LEMMA OldCall ==
    ASSUME Core, TraceOK, NEW a, NEW c, KeyOf(a, c) \in Traces
    PROVE  /\ a.n \in Numbers /\ c \in Contexts /\ a.n <= asked /\ a.n # asked + 1
           /\ a.request_id # next_request_id[ProcessOf[c]] + 1
<1>1. KeyOf(a, c) \in Keys
  BY DEF Traces
<1>2. a.n \in Numbers /\ c \in Contexts /\ a.request_id \in Numbers
  BY <1>1 DEF KeyOf, Keys
<1>3. a.n <= asked /\ a.request_id <= next_request_id[ProcessOf[c]]
  BY DEF TraceOK, KeyOf
<1>4. asked \in Nat /\ next_request_id[ProcessOf[c]] \in Nat /\ a.n \in Nat /\ a.request_id \in Nat
  BY <1>2, ProcessOfContext, ConstantsAssumption DEF Core, RendererOK, Numbers
<1>5. QED
  BY <1>2, <1>3, <1>4

LEMMA TracesIn ==
    ASSUME NEW K,
           \A r \in requests' : KeyOf(r, r.ctx) \in K,
           \A q \in queries' : KeyOf(q, q.ctx) \in K,
           \A c \in Contexts : \A m \in Range(up'[c]) : m.type = "query" => KeyOf(m, c) \in K,
           \A c \in Contexts : \A x \in Range(down'[c]) : KeyOf(x, c) \in K
    PROVE  Traces' \subseteq K
<1>1. SUFFICES ASSUME NEW k \in Traces' PROVE k \in K
  OBVIOUS
<1>2. \/ \E r \in requests' : k = KeyOf(r, r.ctx)
      \/ \E q \in queries' : k = KeyOf(q, q.ctx)
      \/ \E c \in Contexts : \E m \in Range(up'[c]) : m.type = "query" /\ k = KeyOf(m, c)
      \/ \E c \in Contexts : \E x \in Range(down'[c]) : k = KeyOf(x, c)
  BY DEF Traces, Asking, KeyOf
<1>3. QED
  BY <1>2

\* The messages that are left when the oldest one is taken.
LEMMA UpPopped ==
    ASSUME Core, NEW c \in Contexts, up[c] # << >>, up' = [up EXCEPT ![c] = Tail(@)]
    PROVE  /\ Head(up[c]) \in Range(up[c]) /\ Head(up[c]) \in QueryMessages \cup CancelMessages
           /\ \A d \in Contexts : Range(up'[d]) \subseteq Range(up[d])
           /\ \A d \in Contexts : \A x \in Range(up[d]) :
                x \in Range(up'[d]) \/ (d = c /\ x = Head(up[c]))
<1> DEFINE T == QueryMessages \cup CancelMessages
<1>1. up[c] \in Seq(T) /\ up'[c] = Tail(up[c]) /\ \A d \in Contexts : d # c => up'[d] = up[d]
  BY DEF Core, ChannelOK
<1> HIDE DEF T
<1>2. Range(up[c]) = {Head(up[c])} \cup Range(Tail(up[c])) /\ Head(up[c]) \in T
  BY <1>1, RangeTail
<1>3. QED
  BY <1>1, <1>2 DEF T

LEMMA DownPopped ==
    ASSUME Core, NEW c \in Contexts, down[c] # << >>, down' = [down EXCEPT ![c] = Tail(@)]
    PROVE  /\ Head(down[c]) \in Range(down[c]) /\ Head(down[c]) \in Responses
           /\ \A d \in Contexts : Range(down'[d]) \subseteq Range(down[d])
           /\ \A d \in Contexts : \A x \in Range(down[d]) :
                x \in Range(down'[d]) \/ (d = c /\ x = Head(down[c]))
<1> DEFINE T == Responses
<1>1. down[c] \in Seq(T) /\ down'[c] = Tail(down[c]) /\ \A d \in Contexts : d # c => down'[d] = down[d]
  BY DEF Core, ChannelOK
<1> HIDE DEF T
<1>2. Range(down[c]) = {Head(down[c])} \cup Range(Tail(down[c])) /\ Head(down[c]) \in T
  BY <1>1, RangeTail
<1>3. QED
  BY <1>1, <1>2 DEF T

LEMMA NextContextSame ==
    ASSUME Core, next_context_id' = next_context_id
    PROVE  \A p \in Processes : next_context_id[p] <= next_context_id'[p]
BY DEF Core, RendererOK

\* The failures that pages are sent have the keys of their queries.
LEMMA ResponseKey ==
    ASSUME NEW q, NEW success, NEW c
    PROVE  KeyOf(Response(q, success), c) = KeyOf(q, c)
           /\ Response(q, success).n = q.n /\ Response(q, success).success = success
BY DEF KeyOf, Response

-----------------------------------------------------------------------------
(* Steps that bring calls further.                                         *)

Calls == TraceOK /\ RequestOK /\ StageOK /\ FinalOK

(* No call is new and none gets to the browser: requests and queries only  *)
(* go, and what is new on the way to a page is about a pending query, its  *)
(* last response if it is no longer pending.                               *)
Settles ==
    /\ requests' \subseteq requests /\ queries' \subseteq queries /\ failed \subseteq failed'
    /\ asked' = asked /\ next_request_id' = next_request_id
    /\ \A p \in Processes : next_context_id[p] <= next_context_id'[p]
    /\ \A r \in requests' : r.ctx \in live' /\ context_id'[r.ctx] = context_id[r.ctx]
    /\ \A c \in Contexts : \A m \in Range(up'[c]) : m.type = "query" => m \in Range(up[c])
    /\ \A c \in Contexts : \A x \in Range(down'[c]) :
          \/ x \in Range(down[c])
          \/ \E q \in queries : /\ q.ctx = c /\ KeyOf(x, c) = KeyOf(q, c) /\ x.n = q.n
                                /\ q \in queries' => \/ x.success /\ q.persistent
                                                     \/ q.query_id \in failed'

LEMMA SettlesTrace ==
    ASSUME Core, Core', TraceOK, Settles
    PROVE  TraceOK'
<1>1. Traces' \subseteq Traces
  <2>1. \A r \in requests' : KeyOf(r, r.ctx) \in Traces
    BY TraceMembers DEF Settles
  <2>2. \A q \in queries' : KeyOf(q, q.ctx) \in Traces
    BY TraceMembers DEF Settles
  <2>3. \A c \in Contexts : \A m \in Range(up'[c]) : m.type = "query" => KeyOf(m, c) \in Traces
    BY TraceMembers DEF Settles, Asking
  <2>4. \A c \in Contexts : \A x \in Range(down'[c]) : KeyOf(x, c) \in Traces
    BY TraceMembers DEF Settles
  <2>5. QED
    BY <2>1, <2>2, <2>3, <2>4, TracesIn
<1>2. ASSUME NEW t \in Traces'
      PROVE  /\ t.n <= asked' /\ t.request_id <= next_request_id'[ProcessOf[t.ctx]]
             /\ t.context_id <= next_context_id'[ProcessOf[t.ctx]]
  <2>1. t \in Traces /\ t \in Keys
    BY <1>1 DEF Traces
  <2>2. /\ t.n <= asked /\ t.request_id <= next_request_id[ProcessOf[t.ctx]]
        /\ t.context_id <= next_context_id[ProcessOf[t.ctx]]
    BY <2>1 DEF TraceOK
  <2>3. t.context_id \in Nat /\ ProcessOf[t.ctx] \in Processes
    BY <2>1, ProcessOfContext DEF Keys
  <2>4. /\ next_context_id[ProcessOf[t.ctx]] \in Nat /\ next_context_id'[ProcessOf[t.ctx]] \in Nat
        /\ next_context_id[ProcessOf[t.ctx]] <= next_context_id'[ProcessOf[t.ctx]]
    BY <2>3 DEF Core, RendererOK, Settles
  <2>5. t.context_id <= next_context_id'[ProcessOf[t.ctx]]
    BY <2>2, <2>3, <2>4
  <2>6. QED
    BY <2>2, <2>5 DEF Settles
<1>3. QED
  BY <1>1, <1>2 DEF TraceOK

LEMMA SettlesCalls ==
    ASSUME Core, Core', Calls, Settles
    PROVE  Calls'
<1>1. TraceOK'
  BY SettlesTrace DEF Calls
<1>2. \A c \in Contexts : Asking(c)' \subseteq Asking(c)
  BY DEF Settles, Asking
<1>3. RequestOK'
  <2>1. \A r, s \in requests' : r.n = s.n => r = s
    BY DEF Calls, RequestOK, Settles
  <2>2. ASSUME NEW r \in requests'
        PROVE  /\ r.ctx \in live' /\ r.context_id = context_id'[r.ctx] /\ r.context_id # RESERVED_ID
    BY DEF Calls, RequestOK, Settles
  <2>3. ASSUME NEW r \in requests', NEW m \in Asking(r.ctx)', m.n = r.n
        PROVE  m.persistent = r.persistent
    <3>1. r \in requests /\ r.ctx \in Contexts
      BY DEF Settles, Core, RendererOK, Requests
    <3>2. QED
      BY <1>2, <2>3, <3>1 DEF Calls, RequestOK
  <2>4. ASSUME NEW r \in requests', NEW q \in queries', q.n = r.n
        PROVE  q.persistent = r.persistent
    BY <2>4 DEF Calls, RequestOK, Settles
  <2>5. QED
    BY <2>1, <2>2, <2>3, <2>4 DEF RequestOK
<1>4. StageOK'
  <2>1. \A x, y \in queries' : x.n = y.n => x = y
    BY DEF Calls, StageOK, Settles
  <2>2. ASSUME NEW c \in Contexts, NEW d \in Contexts, NEW m \in Asking(c)'
        PROVE  (\A q \in queries' : q.n # m.n) /\ (\A x \in Range(down'[d]) : x.n # m.n)
    BY <1>2 DEF Calls, StageOK, Settles
  <2>3. QED
    BY <2>1, <2>2 DEF StageOK
<1>5. FinalOK'
  <2>1. ASSUME NEW q \in queries', NEW x \in Range(down'[q.ctx]), x.n = q.n,
               ~x.success \/ ~q.persistent
        PROVE  q.query_id \in failed'
    <3>1. q \in queries /\ q.ctx \in Contexts
      BY DEF Settles, Core, BrowserOK, Pendings
    <3>2. CASE x \in Range(down[q.ctx])
      BY <2>1, <3>1, <3>2 DEF Calls, FinalOK, Settles
    <3>3. CASE \E y \in queries : /\ x.n = y.n
                                  /\ y \in queries' => \/ x.success /\ y.persistent
                                                       \/ y.query_id \in failed'
      BY <2>1, <3>1, <3>3 DEF Calls, StageOK
    <3>4. QED
      BY <3>1, <3>2, <3>3 DEF Settles
  <2>2. QED
    BY <2>1 DEF FinalOK
<1>6. QED
  BY <1>1, <1>3, <1>4, <1>5 DEF Calls

LEMMA NotifiedCancelSettles ==
    ASSUME Core, RequestOK, NotifiedCancel
    PROVE  Settles
<1>1. PICK S \in SUBSET queries : CancelQueries(S, TRUE)
  BY DEF NotifiedCancel
<1>2. UNCHANGED <<live, context_id, next_context_id, next_request_id, requests, up, asked, failed>>
  BY DEF NotifiedCancel, renderers
<1>3. /\ queries' = queries \ S
      /\ \A c \in Contexts : Range(down'[c]) =
           Range(down[c]) \cup {Response(q, FALSE) : q \in {x \in S : TRUE /\ x.ctx = c /\ c \in live}}
  BY <1>1, CancelEffect, DistinctQueries DEF Core
<1>4. ASSUME NEW c \in Contexts, NEW x \in Range(down'[c]), x \notin Range(down[c])
      PROVE  \E q \in queries : /\ q.ctx = c /\ KeyOf(x, c) = KeyOf(q, c) /\ x.n = q.n
                                /\ q \notin queries'
  <2>1. x \in {Response(q, FALSE) : q \in {y \in S : TRUE /\ y.ctx = c /\ c \in live}}
    BY <1>3, <1>4
  <2>2. PICK q \in S : q.ctx = c /\ x = Response(q, FALSE)
    BY <2>1
  <2>3. KeyOf(x, c) = KeyOf(q, c) /\ x.n = q.n
    BY <2>2 DEF KeyOf, Response
  <2>4. QED
    BY <1>3, <2>2, <2>3
<1>5. QED
  BY <1>2, <1>3, <1>4, NextContextSame DEF Settles, RequestOK

LEMMA OnBeforeBrowseSettles ==
    ASSUME Core, RequestOK, NEW b \in Browsers, OnBeforeBrowse(b)
    PROVE  Settles
<1>1. /\ UNCHANGED <<live, context_id, next_context_id, next_request_id, requests, up, asked, failed>>
      /\ down' = down /\ queries' \subseteq queries
  BY DEF OnBeforeBrowse, CancelQueries, renderers
<1>2. QED
  BY <1>1, NextContextSame DEF Settles, RequestOK

LEMMA BrowserReceivesCancelSettles ==
    ASSUME Core, RequestOK, NEW c \in Contexts, BrowserReceivesCancel(c)
    PROVE  Settles
<1>1. /\ UNCHANGED <<live, context_id, next_context_id, next_request_id, requests, asked, failed>>
      /\ up' = [up EXCEPT ![c] = Tail(@)] /\ up[c] # << >>
      /\ down' = down /\ queries' \subseteq queries
  BY DEF BrowserReceivesCancel, CancelPendingRequest, CancelQueries, renderers
<1>2. \A d \in Contexts : Range(up'[d]) \subseteq Range(up[d])
  BY <1>1, UpPopped
<1>3. QED
  BY <1>1, <1>2, NextContextSame DEF Settles, RequestOK

LEMMA HandlerReentersSettles ==
    ASSUME Core, RequestOK, NEW c \in Contexts, HandlerReenters(c)
    PROVE  Settles
<1>1. /\ UNCHANGED <<live, context_id, next_context_id, next_request_id, requests, asked, failed>>
      /\ up' = [up EXCEPT ![c] = Tail(@)] /\ up[c] # << >>
      /\ down' = down /\ queries' = queries
  BY DEF HandlerReenters, renderers
<1>2. \A d \in Contexts : Range(up'[d]) \subseteq Range(up[d])
  BY <1>1, UpPopped
<1>3. QED
  BY <1>1, <1>2, NextContextSame DEF Settles, RequestOK

LEMMA RunCallbackSettles ==
    ASSUME Core, MiscOK, RequestOK, RunCallbackTask
    PROVE  Settles
<1>1. UNCHANGED <<live, context_id, next_context_id, next_request_id, requests, up, asked>>
  BY DEF RunCallbackTask, renderers
<1>2. CASE UNCHANGED <<queries, attached, answered, failed, down>>
  BY <1>1, <1>2, NextContextSame DEF Settles, RequestOK
<1>3. ASSUME NEW x \in queries, NEW success \in BOOLEAN,
             queries' = IF x.persistent THEN queries ELSE queries \ {x},
             failed' = IF ~success /\ x.persistent THEN failed \cup {x.query_id} ELSE failed,
             \A c \in Contexts : Range(down'[c]) =
                Range(down[c]) \cup IF c = x.ctx /\ c \in live THEN {Response(x, success)} ELSE {}
      PROVE  Settles
  <2>1. ASSUME NEW c \in Contexts, NEW y \in Range(down'[c]), y \notin Range(down[c])
        PROVE  /\ x.ctx = c /\ KeyOf(y, c) = KeyOf(x, c) /\ y.n = x.n
               /\ x \in queries' => \/ y.success /\ x.persistent
                                    \/ x.query_id \in failed'
    <3>1. c = x.ctx /\ y = Response(x, success)
      BY <1>3, <2>1
    <3>2. x \in queries' => x.persistent
      BY <1>3
    <3>3. QED
      BY <1>3, <3>1, <3>2, ResponseKey
  <2>2. queries' \subseteq queries /\ failed \subseteq failed'
    BY <1>3
  <2>3. QED
    BY <1>1, <2>1, <2>2, NextContextSame DEF Settles, RequestOK
<1>4. QED
  BY <1>2, <1>3, CallbackEffect DEF Core

LEMMA RendererReceivesSettles ==
    ASSUME Core, RequestOK, NEW c \in Contexts, RendererReceives(c)
    PROVE  Settles
<1>1. /\ UNCHANGED <<live, context_id, next_context_id, next_request_id, up, asked, failed, queries>>
      /\ down' = [down EXCEPT ![c] = Tail(@)] /\ down[c] # << >> /\ requests' \subseteq requests
  BY DEF RendererReceives, ExecuteCallback, browser
<1>2. \A d \in Contexts : Range(down'[d]) \subseteq Range(down[d])
  BY <1>1, DownPopped
<1>3. QED
  BY <1>1, <1>2, NextContextSame DEF Settles, RequestOK

LEMMA CancelFunctionSettles ==
    ASSUME Core, RequestOK, NEW c \in Contexts, CancelFunction(c)
    PROVE  Settles
<1>1. /\ UNCHANGED <<live, next_request_id, requests, up, down, asked, failed, queries>>
      /\ c \in live /\ GetIdForContext(c)
  BY DEF CancelFunction, Runs, browser, ghosts
<1>2. /\ \A d \in Contexts : d # c => context_id'[d] = context_id[d]
      /\ \A p \in Processes : next_context_id[p] <= next_context_id'[p]
      /\ context_id[c] # RESERVED_ID => context_id'[c] = context_id[c]
  BY <1>1, ContextNamed DEF Core
<1>3. \A r \in requests' : r.ctx \in live' /\ context_id'[r.ctx] = context_id[r.ctx]
  BY <1>1, <1>2 DEF RequestOK, Core, RendererOK, Requests
<1>4. QED
  BY <1>1, <1>2, <1>3 DEF Settles

\* The requests that go with a context are those of the context.
LEMMA FoundOfContext ==
    ASSUME Core, RequestOK, NEW c \in Contexts, context_id[c] # RESERVED_ID
    PROVE  Found(c, context_id[c], RESERVED_ID) = {r \in requests : r.ctx = c}
<1>1. ASSUME NEW r \in requests, r.ctx = c PROVE r \in Found(c, context_id[c], RESERVED_ID)
  BY <1>1 DEF RequestOK, Found
<1>2. ASSUME NEW r \in Found(c, context_id[c], RESERVED_ID) PROVE r \in requests /\ r.ctx = c
  <2>1. r \in requests /\ ProcessOf[r.ctx] = ProcessOf[c] /\ r.context_id = context_id[c]
    BY DEF Found
  <2>2. r.ctx \in Contexts /\ context_id[r.ctx] = context_id[c]
    BY <2>1 DEF RequestOK, Core, RendererOK, Requests
  <2>3. QED
    BY <2>1, <2>2 DEF Core, ContextOK
<1>3. QED
  BY <1>1, <1>2

LEMMA ReleasedRequests ==
    ASSUME Core, RequestOK, NEW c \in Contexts, OnContextReleased(c)
    PROVE  requests' = {r \in requests : r.ctx # c}
<1>1. CASE context_id[c] = RESERVED_ID
  <2>1. requests' = requests
    BY <1>1, ReleaseEffect
  <2>2. \A r \in requests : r.ctx # c
    BY <1>1 DEF RequestOK
  <2>3. QED
    BY <2>1, <2>2
<1>2. CASE context_id[c] # RESERVED_ID
  BY <1>2, ReleaseEffect, FoundOfContext
<1>3. QED
  BY <1>1, <1>2

LEMMA OnContextReleasedSettles ==
    ASSUME Core, RequestOK, NEW c \in Contexts, OnContextReleased(c)
    PROVE  Settles
<1>1. UNCHANGED <<next_context_id, next_request_id, down, asked, failed, queries>>
  BY DEF OnContextReleased, browser, ghosts
<1>2. requests' = {r \in requests : r.ctx # c}
  BY ReleasedRequests
<1>3. live' = live \ {c} /\ context_id' = [context_id EXCEPT ![c] = RESERVED_ID]
  BY ReleaseEffect
<1>4. \A r \in requests' : r.ctx \in live' /\ context_id'[r.ctx] = context_id[r.ctx]
  BY <1>2, <1>3 DEF RequestOK, Core, RendererOK
<1>5. \A d \in Contexts : \A m \in Range(up'[d]) : m.type = "query" => m \in Range(up[d])
  <2>1. \A m \in CancelMessages : m.type # "query"
    BY DEF CancelMessages
  <2>2. QED
    BY ZenonT(40), <2>1, ReleaseEffect
<1>6. QED
  BY <1>1, <1>2, <1>4, <1>5, NextContextSame DEF Settles

LEMMA TerminatedSettles ==
    ASSUME Core, RequestOK, NEW p \in Processes, OnRenderProcessTerminated(p)
    PROVE  Settles
<1>1. /\ live' = live \ {c \in live : ProcessOf[c] = p}
      /\ context_id' = [c \in Contexts |-> IF c \in {d \in live : ProcessOf[d] = p} THEN RESERVED_ID
                                          ELSE context_id[c]]
      /\ requests' = {r \in requests : ProcessOf[r.ctx] # p}
      /\ up' = [c \in Contexts |-> IF ProcessOf[c] = p THEN << >> ELSE up[c]]
      /\ down' = [c \in Contexts |-> IF ProcessOf[c] = p THEN << >> ELSE down[c]]
      /\ queries' \subseteq queries
      /\ UNCHANGED <<next_context_id, next_request_id, asked, failed>>
  BY DEF OnRenderProcessTerminated
<1>2. \A r \in requests' : r.ctx \in live' /\ context_id'[r.ctx] = context_id[r.ctx]
  BY <1>1 DEF RequestOK, Core, RendererOK
<1>3. Range(<< >>) = {}
  BY DEF Range
<1>4. \A c \in Contexts : Range(up'[c]) \subseteq Range(up[c]) /\ Range(down'[c]) \subseteq Range(down[c])
  BY <1>1, <1>3
<1>5. QED
  BY <1>1, <1>2, <1>4, NextContextSame DEF Settles

LEMMA QuietSettles ==
    ASSUME Core, RequestOK, Quiet
    PROVE  Settles
<1>1. UNCHANGED <<live, context_id, next_context_id, next_request_id, requests, up, down, asked, failed,
                  queries>>
  BY DEF Quiet, renderers, ghosts
<1>2. QED
  BY <1>1, NextContextSame DEF Settles, RequestOK

\* A new call has a number, and in its process a request ID, of its own.
LEMMA SendQueryCalls ==
    ASSUME Core, Core', Calls, NEW c \in Contexts, NEW persistent \in BOOLEAN, SendQuery(c, persistent)
    PROVE  Calls'
<1> DEFINE p == ProcessOf[c]
<1>1. PICK r \in Requests, m \in QueryMessages : Sending(c, r, m)
  BY SendEffect
<1> USE DEF Sending
<1>2. GetIdForContext(c) /\ UNCHANGED <<live, down, queries, failed>>
  BY DEF SendQuery, browser
<1>3. /\ \A d \in Contexts : d # c => context_id'[d] = context_id[d]
      /\ \A q \in Processes : next_context_id[q] <= next_context_id'[q]
      /\ context_id[c] # RESERVED_ID => context_id'[c] = context_id[c]
  BY <1>1, <1>2, ContextNamed DEF Core
<1> DEFINE k == KeyOf(r, c)
<1>4. Traces' \subseteq Traces \cup {k}
  <2> DEFINE K == Traces \cup {k}
  <2>1. \A x \in requests' : KeyOf(x, x.ctx) \in K
    BY <1>1, TraceMembers
  <2>2. \A q \in queries' : KeyOf(q, q.ctx) \in K
    BY <1>2, TraceMembers
  <2>3. KeyOf(m, c) = k
    BY <1>1 DEF KeyOf
  <2>4. \A d \in Contexts : \A x \in Range(up'[d]) : x.type = "query" => KeyOf(x, d) \in K
    BY <1>1, <2>3, TraceMembers DEF Asking
  <2>5. \A d \in Contexts : \A x \in Range(down'[d]) : KeyOf(x, d) \in K
    BY <1>2, TraceMembers
  <2> HIDE DEF K
  <2>6. Traces' \subseteq K
    BY <2>1, <2>2, <2>4, <2>5, TracesIn
  <2>7. QED
    BY <2>6 DEF K
<1>5. /\ k.n = asked + 1 /\ k.ctx = c /\ k.request_id = next_request_id[p] + 1
      /\ k.context_id = context_id'[c]
  BY <1>1 DEF KeyOf
<1> HIDE DEF k
<1>6. asked \in Nat /\ p \in Processes /\ next_request_id \in [Processes -> Nat]
      /\ next_request_id[p] \in Nat
  BY ProcessOfContext, ConstantsAssumption DEF Core, RendererOK
<1>7. ASSUME NEW t \in Traces
      PROVE  /\ t.n <= asked /\ t.n \in Nat /\ t.n # k.n
             /\ ProcessOf[t.ctx] = p => t.request_id # k.request_id
             /\ t.request_id \in Nat /\ t.request_id <= next_request_id[ProcessOf[t.ctx]]
             /\ t.context_id \in Nat /\ t.context_id <= next_context_id[ProcessOf[t.ctx]]
             /\ ProcessOf[t.ctx] \in Processes
  <2>1. t \in Keys
    BY DEF Traces
  <2>2. t.n \in Nat /\ t.request_id \in Nat /\ t.context_id \in Nat /\ ProcessOf[t.ctx] \in Processes
    BY <2>1, ProcessOfContext, ConstantsAssumption DEF Keys, Numbers
  <2>3. /\ t.n <= asked /\ t.request_id <= next_request_id[ProcessOf[t.ctx]]
        /\ t.context_id <= next_context_id[ProcessOf[t.ctx]]
    BY DEF Calls, TraceOK
  <2>4. QED
    BY <1>5, <1>6, <2>2, <2>3
<1>8. TraceOK'
  <2>1. \A s, t \in Traces' : s.n = t.n => s = t
    BY <1>4, <1>7 DEF Calls, TraceOK
  <2>2. \A s, t \in Traces' :
          ProcessOf[s.ctx] = ProcessOf[t.ctx] /\ s.request_id = t.request_id => s.n = t.n
    BY <1>4, <1>5, <1>7 DEF Calls, TraceOK
  <2>3. ASSUME NEW t \in Traces'
        PROVE  /\ t.n <= asked' /\ t.request_id <= next_request_id'[ProcessOf[t.ctx]]
               /\ t.context_id <= next_context_id'[ProcessOf[t.ctx]]
    <3>1. CASE t \in Traces
      <4>1. /\ t.n <= asked /\ t.n \in Nat
            /\ t.request_id \in Nat /\ t.request_id <= next_request_id[ProcessOf[t.ctx]]
            /\ t.context_id \in Nat /\ t.context_id <= next_context_id[ProcessOf[t.ctx]]
            /\ ProcessOf[t.ctx] \in Processes
        BY <1>7, <3>1
      <4> DEFINE q == ProcessOf[t.ctx]
      <4>2. /\ next_request_id[q] \in Nat /\ next_request_id'[q] \in Nat
            /\ next_request_id[q] <= next_request_id'[q]
        BY <1>1, <1>6, <4>1
      <4>3. /\ next_context_id[q] \in Nat /\ next_context_id'[q] \in Nat
            /\ next_context_id[q] <= next_context_id'[q]
        BY <1>3, <4>1 DEF Core, RendererOK
      <4> HIDE DEF q
      <4>4. t.n <= asked'
        BY <1>1, <1>6, <4>1
      <4>5. t.request_id <= next_request_id'[q] /\ t.context_id <= next_context_id'[q]
        BY <4>1, <4>2, <4>3 DEF q
      <4>6. QED
        BY <4>4, <4>5 DEF q
    <3>2. CASE t = k
      <4>1. next_request_id'[p] = next_request_id[p] + 1
        BY <1>1, <1>6
      <4>2. context_id'[c] <= next_context_id'[p]
        BY DEF Core, ContextOK
      <4>3. k.n <= asked' /\ k.request_id <= next_request_id'[p]
        BY <1>1, <1>5, <1>6, <4>1
      <4>4. QED
        BY <1>5, <3>2, <4>2, <4>3
    <3>3. QED
      BY <1>4, <3>1, <3>2
  <2>4. QED
    BY <2>1, <2>2, <2>3 DEF TraceOK
<1>9. /\ \A x \in requests : x.n # asked + 1
      /\ \A q \in queries : q.n # asked + 1
      /\ \A d \in Contexts : \A x \in Asking(d) : x.n # asked + 1
      /\ \A d \in Contexts : \A x \in Range(down[d]) : x.n # asked + 1
  BY TraceMembers, OldCall DEF Calls
<1>10. /\ \A d \in Contexts : Asking(d)' = Asking(d) \cup IF d = c THEN {m} ELSE {}
  BY <1>1 DEF Asking
<1>11. RequestOK'
  <2>1. \A x, y \in requests' : x.n = y.n => x = y
    BY <1>1, <1>9 DEF Calls, RequestOK
  <2>2. ASSUME NEW x \in requests'
        PROVE  x.ctx \in live' /\ x.context_id = context_id'[x.ctx] /\ x.context_id # RESERVED_ID
    <3>1. CASE x \in requests
      BY <1>2, <1>3, <3>1 DEF Calls, RequestOK, Core, RendererOK
    <3>2. CASE x = r
      BY <1>1, <1>2, <3>2
    <3>3. QED
      BY <1>1, <3>1, <3>2
  <2>3. ASSUME NEW x \in requests', NEW y \in Asking(x.ctx)', y.n = x.n
        PROVE  y.persistent = x.persistent
    <3>1. x.ctx \in Contexts
      BY DEF Core, RendererOK, Requests
    <3>2. CASE x \in requests
      <4>1. y \in Asking(x.ctx)
        BY <1>1, <1>9, <1>10, <2>3, <3>1, <3>2
      <4>2. QED
        BY <2>3, <3>2, <4>1 DEF Calls, RequestOK
    <3>3. CASE x = r
      BY <1>1, <1>9, <1>10, <2>3, <3>1, <3>3
    <3>4. QED
      BY <1>1, <3>2, <3>3
  <2>4. ASSUME NEW x \in requests', NEW q \in queries', q.n = x.n
        PROVE  q.persistent = x.persistent
    BY <1>1, <1>2, <1>9, <2>4 DEF Calls, RequestOK
  <2>5. QED
    BY <2>1, <2>2, <2>3, <2>4 DEF RequestOK
<1>12. StageOK'
  <2>1. \A x, y \in queries' : x.n = y.n => x = y
    BY <1>2 DEF Calls, StageOK
  <2>2. ASSUME NEW e \in Contexts, NEW d \in Contexts, NEW x \in Asking(e)'
        PROVE  (\A q \in queries' : q.n # x.n) /\ (\A y \in Range(down'[d]) : y.n # x.n)
    <3>1. CASE x \in Asking(e)
      BY <1>2, <3>1 DEF Calls, StageOK
    <3>2. CASE x = m
      BY <1>1, <1>2, <1>9, <3>2
    <3>3. QED
      BY <1>10, <3>1, <3>2
  <2>3. QED
    BY <2>1, <2>2 DEF StageOK
<1>13. FinalOK'
  BY <1>2 DEF Calls, FinalOK
<1>14. QED
  BY <1>8, <1>11, <1>12, <1>13 DEF Calls

\* The messages left when a query is taken are about other calls.
LEMMA OthersAsk ==
    ASSUME Core, Core', NEW c \in Contexts, BrowserReceivesQuery(c)
    PROVE  /\ up[c] # << >> /\ up' = [up EXCEPT ![c] = Tail(@)]
           /\ Head(up[c]) \in Asking(c) /\ Head(up[c]) \in QueryMessages
           /\ \A d \in Contexts : \A m \in Asking(d)' : m \in Asking(d) /\ m.n # Head(up[c]).n
<1> DEFINE T == QueryMessages \cup CancelMessages
           h == Head(up[c])
<1>1. up[c] # << >> /\ h.type = "query" /\ up' = [up EXCEPT ![c] = Tail(@)]
  BY DEF BrowserReceivesQuery
<1>2. h \in QueryMessages /\ h \in Asking(c)
  BY QueryEffect
<1>3. up \in [Contexts -> Seq(T)] /\ up[c] \in Seq(T)
  BY DEF Core, ChannelOK
<1>4. /\ h = up[c][1] /\ 1 \in DOMAIN up[c]
      /\ \A i \in DOMAIN Tail(up[c]) :
            i + 1 \in DOMAIN up[c] /\ Tail(up[c])[i] = up[c][i + 1] /\ i \in Nat \ {0}
  <2> HIDE DEF T
  <2>1. QED
    BY <1>1, <1>3, RangeTail
<1>5. up'[c] = Tail(up[c]) /\ \A d \in Contexts : d # c => up'[d] = up[d]
  BY <1>1, <1>3
<1>6. ASSUME NEW d \in Contexts, NEW m \in Range(up'[d]), m.type = "query"
      PROVE  m \in Range(up[d]) /\ m.n # h.n
  <2>1. PICK i \in DOMAIN up'[d] : m = up'[d][i]
    BY DEF Range
  <2>2. CASE d = c
    <3>1. i + 1 \in DOMAIN up[c] /\ up[c][i + 1] = m /\ i + 1 # 1
      <4>1. i \in DOMAIN Tail(up[c]) /\ m = Tail(up[c])[i]
        BY <1>5, <2>1, <2>2
      <4>2. i + 1 \in DOMAIN up[c] /\ up[c][i + 1] = m /\ i \in Nat \ {0}
        BY <1>4, <4>1
      <4>3. QED
        BY <4>2
    <3>2. m \in Range(up[c])
      BY <3>1 DEF Range
    <3> DEFINE j == i + 1
    <3>3. j \in DOMAIN up[c] /\ up[c][j] = m /\ j # 1
      BY <3>1
    <3> HIDE DEF j
    <3>4. m.n # h.n
      BY <1>1, <1>4, <1>6, <3>3 DEF Core, CountOK
    <3>5. QED
      BY <2>2, <3>2, <3>4
  <2>3. CASE d # c
    <3>1. i \in DOMAIN up[d] /\ up[d][i] = m
      BY <1>5, <2>1, <2>3
    <3>2. m.n # h.n
      BY <1>1, <1>4, <1>6, <2>3, <3>1 DEF Core, CountOK
    <3>3. QED
      BY <3>1, <3>2 DEF Range
  <2>4. QED
    BY <2>2, <2>3
<1>7. \A d \in Contexts : \A m \in Asking(d)' : m \in Asking(d) /\ m.n # h.n
  BY <1>6 DEF Asking
<1>8. QED
  BY <1>1, <1>2, <1>7

LEMMA BrowserReceivesQueryCalls ==
    ASSUME Core, Core', Calls, NEW c \in Contexts, BrowserReceivesQuery(c)
    PROVE  Calls'
<1> DEFINE m == Head(up[c])
<1>1. UNCHANGED <<live, context_id, next_context_id, next_request_id, requests, asked, failed>>
  BY DEF BrowserReceivesQuery, renderers
<1>2. m \in Asking(c) /\ m \in QueryMessages
      /\ \A d \in Contexts : \A x \in Asking(d)' : x \in Asking(d) /\ x.n # m.n
  BY OthersAsk
<1>3. KeyOf(m, c) \in Traces
  BY <1>2, TraceMembers
\* what is new: the query or the response
<1>4. \/ /\ down' = down
         /\ \E x : /\ queries' = queries \cup {x} /\ x.ctx = c /\ KeyOf(x, c) = KeyOf(m, c)
                   /\ x.n = m.n /\ x.persistent = m.persistent
      \/ /\ queries' = queries
         /\ \A d \in Contexts : \A x \in Range(down'[d]) :
               x \in Range(down[d]) \/ (d = c /\ KeyOf(x, c) = KeyOf(m, c) /\ x.n = m.n)
  <2> HIDE DEF m
  <2>1. ASSUME NEW id, NEW x,
               x = [query_id |-> NextId(next_query_id), ctx |-> c, n |-> m.n,
                    context_id |-> m.context_id, request_id |-> m.request_id,
                    persistent |-> m.persistent, handler_id |-> id, handler |-> HandlerAt(id)],
               queries' = queries \cup {x}, down' = down
        PROVE  /\ down' = down
               /\ \E y : /\ queries' = queries \cup {y} /\ y.ctx = c /\ KeyOf(y, c) = KeyOf(m, c)
                         /\ y.n = m.n /\ y.persistent = m.persistent
    <3>1. x.ctx = c /\ KeyOf(x, c) = KeyOf(m, c) /\ x.n = m.n /\ x.persistent = m.persistent
      BY <2>1 DEF KeyOf
    <3>2. QED
      BY <2>1, <3>1
  <2>2. ASSUME \A d \in Contexts : Range(down'[d]) = Range(down[d]) \cup
                      IF d = c /\ c \in live THEN {Response(m, FALSE)} ELSE {}
        PROVE  \A d \in Contexts : \A x \in Range(down'[d]) :
                  x \in Range(down[d]) \/ (d = c /\ KeyOf(x, c) = KeyOf(m, c) /\ x.n = m.n)
    <3>1. SUFFICES ASSUME NEW d \in Contexts, NEW x \in Range(down'[d])
                   PROVE  x \in Range(down[d]) \/ (d = c /\ KeyOf(x, c) = KeyOf(m, c) /\ x.n = m.n)
      OBVIOUS
    <3>2. CASE x = Response(m, FALSE) /\ d = c
      BY <3>2 DEF KeyOf, Response
    <3>3. QED
      BY <2>2, <3>2
  <2>3. QED
    BY ZenonT(40), <2>1, <2>2, QueryEffect DEF m
<1> HIDE DEF m
<1>5. /\ \A q \in queries : q.n # m.n
      /\ \A d \in Contexts : \A x \in Range(down[d]) : x.n # m.n
  BY <1>2 DEF Calls, StageOK
<1>6. TraceOK'
  <2>1. Traces' \subseteq Traces
    <3>1. \A r \in requests' : KeyOf(r, r.ctx) \in Traces
      BY <1>1, TraceMembers
    <3>2. \A q \in queries' : KeyOf(q, q.ctx) \in Traces
      BY <1>3, <1>4, TraceMembers
    <3>3. \A d \in Contexts : \A x \in Range(up'[d]) : x.type = "query" => KeyOf(x, d) \in Traces
      BY <1>2, TraceMembers DEF Asking
    <3>4. \A d \in Contexts : \A x \in Range(down'[d]) : KeyOf(x, d) \in Traces
      BY <1>3, <1>4, TraceMembers
    <3>5. QED
      BY <3>1, <3>2, <3>3, <3>4, TracesIn
  <2>2. QED
    BY <1>1, <2>1 DEF Calls, TraceOK
<1>7. RequestOK'
  <2>1. \A x, y \in requests' : x.n = y.n => x = y
    BY <1>1 DEF Calls, RequestOK
  <2>2. \A x \in requests' :
          x.ctx \in live' /\ x.context_id = context_id'[x.ctx] /\ x.context_id # RESERVED_ID
    BY <1>1 DEF Calls, RequestOK
  <2>3. ASSUME NEW r \in requests', NEW x \in Asking(r.ctx)', x.n = r.n
        PROVE  x.persistent = r.persistent
    <3>1. r \in requests /\ r.ctx \in Contexts
      BY <1>1 DEF Core, RendererOK, Requests
    <3>2. QED
      BY <1>2, <2>3, <3>1 DEF Calls, RequestOK
  <2>4. ASSUME NEW r \in requests', NEW q \in queries', q.n = r.n
        PROVE  q.persistent = r.persistent
    <3>1. CASE q \in queries
      BY <1>1, <2>4, <3>1 DEF Calls, RequestOK
    <3>2. CASE q \notin queries
      <4>1. q.n = m.n /\ q.persistent = m.persistent
        BY <1>4, <2>4, <3>2
      <4>2. r \in requests /\ KeyOf(r, r.ctx) \in Traces
        BY <1>1, TraceMembers
      <4>3. r.ctx = c
        <5>1. r.n = m.n /\ TraceOK
          BY <2>4, <4>1 DEF Calls
        <5>2. QED
          BY <1>3, <4>2, <5>1, SameCall
      <4>4. QED
        BY <1>2, <2>4, <4>1, <4>2, <4>3 DEF Calls, RequestOK
    <3>3. QED
      BY <3>1, <3>2
  <2>5. QED
    BY <2>1, <2>2, <2>3, <2>4 DEF RequestOK
<1>8. StageOK'
  <2>1. \A x, y \in queries' : x.n = y.n => x = y
    BY <1>4, <1>5 DEF Calls, StageOK
  <2>2. ASSUME NEW e \in Contexts, NEW d \in Contexts, NEW x \in Asking(e)'
        PROVE  (\A q \in queries' : q.n # x.n) /\ (\A y \in Range(down'[d]) : y.n # x.n)
    <3>1. x \in Asking(e) /\ x.n # m.n
      BY <1>2
    <3>2. (\A q \in queries : q.n # x.n) /\ (\A y \in Range(down[d]) : y.n # x.n)
      BY <3>1 DEF Calls, StageOK
    <3>3. QED
      BY <1>4, <3>1, <3>2
  <2>3. QED
    BY <2>1, <2>2 DEF StageOK
<1>9. FinalOK'
  <2>1. ASSUME NEW q \in queries', NEW x \in Range(down'[q.ctx]), x.n = q.n,
               ~x.success \/ ~q.persistent
        PROVE  q.query_id \in failed'
    <3>1. q.ctx \in Contexts
      BY DEF Core, BrowserOK, Pendings
    <3>2. q \in queries /\ x \in Range(down[q.ctx])
      BY <1>4, <1>5, <2>1, <3>1
    <3>3. QED
      BY <1>1, <2>1, <3>2 DEF Calls, FinalOK
  <2>2. QED
    BY <2>1 DEF FinalOK
<1>10. QED
  BY <1>6, <1>7, <1>8, <1>9 DEF Calls

LEMMA CallsInit ==
    ASSUME Init
    PROVE  Calls /\ RepliesOK
<1>1. requests = {} /\ queries = {} /\ \A c \in Contexts : up[c] = << >> /\ down[c] = << >>
  BY DEF Init
<1>2. \A c \in Contexts : Asking(c) = {} /\ Range(down[c]) = {}
  BY <1>1 DEF Asking, Range
<1>3. Traces = {}
  BY <1>1, <1>2 DEF Traces
<1>4. Calls
  BY <1>1, <1>2, <1>3 DEF Calls, TraceOK, RequestOK, StageOK, FinalOK
<1>5. replies = [n \in Numbers |-> << >>] /\ ~misrouted
  BY DEF Init
<1>6. RepliesOK
  <2>1. \A n \in Numbers : replies[n] = << >> /\ DOMAIN replies[n] = {}
    BY <1>5
  <2>2. replies \in [Numbers -> Seq(BOOLEAN)]
    BY <1>5
  <2>3. QED
    BY <1>1, <1>5, <2>1, <2>2 DEF RepliesOK, RepliesInProtocol
<1>7. QED
  BY <1>4, <1>6

LEMMA CallsStep ==
    ASSUME Core, Core', MiscOK, Calls, [Next]_vars
    PROVE  Calls'
<1>1. RequestOK
  BY DEF Calls
<1>2. CASE \E c \in Contexts, persistent \in BOOLEAN : SendQuery(c, persistent)
  BY <1>2, SendQueryCalls
<1>3. CASE \E c \in Contexts : BrowserReceivesQuery(c)
  BY <1>3, BrowserReceivesQueryCalls
<1>4. CASE Settles
  BY <1>4, SettlesCalls
<1>5. QED
  BY <1>1, <1>2, <1>3, <1>4, StepKinds, CancelFunctionSettles, OnContextReleasedSettles,
     RendererReceivesSettles, BrowserReceivesCancelSettles, OnBeforeBrowseSettles,
     TerminatedSettles, RunCallbackSettles, NotifiedCancelSettles, QuietSettles,
     HandlerReentersSettles

-----------------------------------------------------------------------------
(* What the JavaScript callbacks hear.                                     *)

\* The requests that a response from the browser is for are those of its call.
LEMMA FoundIsOwn ==
    ASSUME Core, Calls, NEW c \in Contexts, NEW msg \in Range(down[c])
    PROVE  Found(c, msg.context_id, msg.request_id) = {r \in requests : r.n = msg.n}
<1>1. msg \in Responses /\ KeyOf(msg, c) \in Traces /\ TraceOK
  BY TraceTypes, TraceMembers DEF Calls
<1>2. msg.request_id # RESERVED_ID
  BY <1>1, ConstantsAssumption DEF Responses, Numbers, RESERVED_ID
<1>3. ASSUME NEW r \in requests, r.n = msg.n
      PROVE  r \in Found(c, msg.context_id, msg.request_id)
  <2>1. KeyOf(r, r.ctx) \in Traces
    BY TraceMembers
  <2>2. r.ctx = c /\ r.context_id = msg.context_id /\ r.request_id = msg.request_id
    BY <1>1, <1>3, <2>1, SameCall
  <2>3. QED
    BY <2>2 DEF Found
<1>4. ASSUME NEW r \in Found(c, msg.context_id, msg.request_id)
      PROVE  r \in requests /\ r.n = msg.n
  <2>1. r \in requests /\ ProcessOf[r.ctx] = ProcessOf[c] /\ r.request_id = msg.request_id
    BY <1>2 DEF Found
  <2>2. KeyOf(r, r.ctx) \in Traces
    BY <2>1, TraceMembers
  <2>3. QED
    BY <1>1, <2>1, <2>2, SameRequest
<1>5. QED
  BY <1>3, <1>4

\* A response that is handed to a page.
LEMMA ReceiveEffect ==
    ASSUME Core, Calls, NEW c \in Contexts, RendererReceives(c)
    PROVE  LET msg == Head(down[c])
               own == {r \in requests : r.n = msg.n}
           IN  /\ msg \in Range(down[c]) /\ msg \in Responses
               /\ requests' = requests \ {r \in own : ~msg.success \/ ~r.persistent}
               /\ replies' = [n \in Numbers |-> IF \E r \in own : r.n = n
                                                THEN Append(replies[n], msg.success) ELSE replies[n]]
               /\ misrouted' = (misrouted \/ \E r \in own : r.n # msg.n)
<1> DEFINE msg == Head(down[c])
<1>1. down[c] # << >> /\ down' = [down EXCEPT ![c] = Tail(@)] /\ ExecuteCallback(c, msg)
  BY DEF RendererReceives
<1>2. msg \in Range(down[c]) /\ msg \in Responses
  BY <1>1, DownPopped
<1> HIDE DEF msg
<1>3. Found(c, msg.context_id, msg.request_id) = {r \in requests : r.n = msg.n}
  BY <1>2, FoundIsOwn
<1>4. QED
  BY <1>1, <1>2, <1>3 DEF ExecuteCallback, msg

LEMMA RepliesSame ==
    ASSUME RepliesOK, UNCHANGED <<replies, misrouted, asked>>, requests' \subseteq requests
    PROVE  RepliesOK'
BY DEF RepliesOK, RepliesInProtocol

LEMMA SendQueryReplies ==
    ASSUME Core, RepliesOK, NEW c \in Contexts, NEW persistent \in BOOLEAN, SendQuery(c, persistent)
    PROVE  RepliesOK'
<1>1. PICK r \in Requests, m \in QueryMessages : Sending(c, r, m)
  BY SendEffect
<1>2. UNCHANGED <<replies, misrouted>>
  BY DEF SendQuery
<1>3. asked \in Nat /\ asked' = asked + 1 /\ r.n = asked + 1 /\ asked + 1 \in Numbers
      /\ requests' = requests \cup {r}
  BY <1>1, ConstantsAssumption DEF Sending, Core, RendererOK
<1>4. \A n \in Numbers : n \in Nat
  BY ConstantsAssumption DEF Numbers
<1>5. replies[asked + 1] = << >>
  <2>1. asked + 1 > asked
    BY <1>3
  <2>2. QED
    BY <1>3, <2>1 DEF RepliesOK
<1>6. \A n \in Numbers : n > asked' => replies'[n] = << >>
  <2>1. \A n \in Numbers : n > asked' => n > asked
    BY <1>3, <1>4
  <2>2. QED
    BY <1>2, <2>1 DEF RepliesOK
<1>7. RepliesInProtocol'
  <2>1. ASSUME NEW n \in Numbers, NEW x \in requests', x.n = n, replies'[n] # << >>
        PROVE  x.persistent /\ \A i \in DOMAIN replies'[n] : replies'[n][i]
    <3>1. x # r
      BY <1>2, <1>3, <1>5, <2>1
    <3>2. QED
      BY <1>2, <1>3, <2>1, <3>1 DEF RepliesOK, RepliesInProtocol
  <2>2. ~misrouted' /\ \A n \in Numbers : \A i \in DOMAIN replies'[n] :
            ~replies'[n][i] => i = Len(replies'[n])
    BY <1>2 DEF RepliesOK, RepliesInProtocol
  <2>3. QED
    BY <2>1, <2>2 DEF RepliesInProtocol
<1>8. QED
  BY <1>2, <1>6, <1>7 DEF RepliesOK

LEMMA RendererReceivesReplies ==
    ASSUME Core, Calls, RepliesOK, NEW c \in Contexts, RendererReceives(c)
    PROVE  RepliesOK'
<1> DEFINE msg == Head(down[c])
           own == {r \in requests : r.n = msg.n}
<1>1. /\ msg \in Responses
      /\ requests' = requests \ {r \in own : ~msg.success \/ ~r.persistent}
      /\ replies' = [n \in Numbers |-> IF \E r \in own : r.n = n
                                       THEN Append(replies[n], msg.success) ELSE replies[n]]
      /\ misrouted' = (misrouted \/ \E r \in own : r.n # msg.n)
  BY ReceiveEffect
<1>2. asked' = asked
  BY DEF RendererReceives
<1> DEFINE ok == msg.success
<1>3. msg.n \in Numbers /\ ok \in BOOLEAN
  BY <1>1 DEF Responses
<1> HIDE DEF msg, ok
<1>4. ~misrouted'
  BY <1>1 DEF RepliesOK, RepliesInProtocol
<1>5. CASE own = {}
  <2>1. replies' = replies
    BY <1>1, <1>5 DEF RepliesOK
  <2>2. requests' \subseteq requests
    BY <1>1
  <2>3. QED
    BY <1>2, <1>4, <2>1, <2>2 DEF RepliesOK, RepliesInProtocol
<1>6. CASE own # {}
  <2>1. PICK r \in requests : r.n = msg.n
    BY <1>6
  <2> DEFINE k == msg.n
             s == replies[k]
             t == replies'[k]
  <2>2. own = {r}
    BY <2>1 DEF Calls, RequestOK
  <2>3. /\ t = Append(s, ok) /\ \A n \in Numbers : n # k => replies'[n] = replies[n]
    BY <1>1, <1>3, <2>1, <2>2 DEF ok
  <2>4. s \in Seq(BOOLEAN) /\ replies \in [Numbers -> Seq(BOOLEAN)]
    BY <1>3 DEF RepliesOK
  <2>5. s # << >> => r.persistent /\ \A i \in DOMAIN s : s[i]
    BY <1>3, <2>1 DEF RepliesOK, RepliesInProtocol
  <2> HIDE DEF s
  <2>6. /\ Append(s, ok) \in Seq(BOOLEAN) /\ Len(s) \in Nat /\ Append(s, ok)[Len(s) + 1] = ok
        /\ \A i \in DOMAIN s : Append(s, ok)[i] = s[i]
        /\ \A i \in DOMAIN Append(s, ok) : i \in DOMAIN s \/ i = Len(s) + 1
    BY <1>3, <2>4, RangeAppend
  <2>7. Len(Append(s, ok)) = Len(s) + 1
    BY <1>3, <2>4, AppendProperties
  <2>8. \A i \in DOMAIN s : s[i]
    <3>1. CASE s = << >>
      BY <3>1
    <3>2. CASE s # << >>
      BY <2>5, <3>2
    <3>3. QED
      BY <3>1, <3>2
  <2>9. \A i \in DOMAIN t : ~t[i] => i = Len(t)
    BY <2>3, <2>6, <2>7, <2>8
  <2>10. ok => \A i \in DOMAIN t : t[i]
    BY <2>3, <2>6, <2>8
  <2>11. replies' \in [Numbers -> Seq(BOOLEAN)]
    <3>1. \A n \in Numbers : replies'[n] \in Seq(BOOLEAN)
      BY <2>3, <2>4, <2>6
    <3>2. QED
      BY <1>1, <3>1
  <2> HIDE DEF t
  <2>12. r.n <= asked /\ asked \in Nat /\ r.n \in Nat
    BY ConstantsAssumption DEF Core, RendererOK, Requests, Numbers
  <2>13. \A n \in Numbers : n > asked => n # k
    BY <2>1, <2>12
  <2>14. \A n \in Numbers : n > asked' => replies'[n] = << >>
    BY <1>2, <2>3, <2>13 DEF RepliesOK
  <2>15. ASSUME NEW n \in Numbers PROVE \A i \in DOMAIN replies'[n] : ~replies'[n][i] => i = Len(replies'[n])
    <3>1. CASE n = k
      BY <2>9, <3>1 DEF t
    <3>2. CASE n # k
      BY <2>3, <3>2 DEF RepliesOK, RepliesInProtocol
    <3>3. QED
      BY <3>1, <3>2
  <2>16. ASSUME NEW n \in Numbers, NEW x \in requests', x.n = n, replies'[n] # << >>
         PROVE  x.persistent /\ \A i \in DOMAIN replies'[n] : replies'[n][i]
    <3>1. CASE n = k
      <4>1. x = r
        BY <1>1, <2>1, <2>16, <3>1 DEF Calls, RequestOK
      <4>2. ok /\ x.persistent
        BY <1>1, <2>2, <4>1 DEF ok
      <4>3. QED
        BY <2>10, <3>1, <4>2 DEF t
    <3>2. CASE n # k
      <4>1. x \in requests /\ replies'[n] = replies[n]
        BY <1>1, <2>3, <3>2
      <4>2. QED
        BY <2>16, <4>1 DEF RepliesOK, RepliesInProtocol
    <3>3. QED
      BY <3>1, <3>2
  <2>17. RepliesInProtocol'
    BY <1>4, <2>15, <2>16 DEF RepliesInProtocol
  <2>18. QED
    BY <2>11, <2>14, <2>17 DEF RepliesOK
<1>7. QED
  BY <1>5, <1>6

LEMMA RepliesStep ==
    ASSUME Core, MiscOK, Calls, RepliesOK, [Next]_vars
    PROVE  RepliesOK'
<1>1. CASE \E c \in Contexts, persistent \in BOOLEAN : SendQuery(c, persistent)
  BY <1>1, SendQueryReplies
<1>2. CASE \E c \in Contexts : RendererReceives(c)
  BY <1>2, RendererReceivesReplies
<1>3. CASE \E c \in Contexts : BrowserReceivesQuery(c)
  BY <1>3, RepliesSame DEF BrowserReceivesQuery, renderers
<1>4. CASE \E c \in Contexts : CancelFunction(c)
  BY <1>4, RepliesSame DEF CancelFunction, ghosts
<1>5. CASE \E c \in Contexts : OnContextReleased(c)
  <2>1. PICK c \in Contexts : OnContextReleased(c)
    BY <1>5
  <2>2. requests' \subseteq requests
    BY <2>1, ReleaseEffect
  <2>3. QED
    BY <2>1, <2>2, RepliesSame DEF OnContextReleased, ghosts
<1>6. CASE \E c \in Contexts : BrowserReceivesCancel(c)
  BY <1>6, RepliesSame DEF BrowserReceivesCancel, renderers
<1>7. CASE \E b \in Browsers : OnBeforeBrowse(b)
  BY <1>7, RepliesSame DEF OnBeforeBrowse, renderers
<1>8. CASE \E p \in Processes : OnRenderProcessTerminated(p)
  BY <1>8, RepliesSame DEF OnRenderProcessTerminated
<1>9. CASE RunCallbackTask
  BY <1>9, RepliesSame DEF RunCallbackTask, renderers
<1>10. CASE NotifiedCancel
  BY <1>10, RepliesSame DEF NotifiedCancel, renderers
<1>11. CASE Quiet
  BY <1>11, RepliesSame DEF Quiet, renderers, ghosts
<1>12. CASE \E c \in Contexts : HandlerReenters(c)
  BY <1>12, RepliesSame DEF HandlerReenters, renderers
<1>13. QED
  BY <1>1, <1>2, <1>3, <1>4, <1>5, <1>6, <1>7, <1>8, <1>9, <1>10, <1>11, <1>12, StepKinds

-----------------------------------------------------------------------------
(* Cancellations that are under way.                                       *)

LEMMA CancelSame ==
    ASSUME CancelOK, UNCHANGED <<context_id, next_context_id>>,
           \A c \in Contexts : \A m \in Range(up'[c]) : m.type = "cancel" => m \in Range(up[c])
    PROVE  CancelOK'
BY DEF CancelOK

LEMMA CancelFacts ==
    ASSUME Core, CancelOK, NEW c \in Contexts, NEW m \in Range(up[c]), m.type = "cancel"
    PROVE  /\ m.context_id \in Nat \ {0} /\ ProcessOf[c] \in Processes
           /\ m.context_id <= next_context_id[ProcessOf[c]] /\ next_context_id[ProcessOf[c]] \in Nat
           /\ \A d \in Contexts : ProcessOf[d] = ProcessOf[c] => context_id[d] # m.context_id
<1>1. m \in CancelMessages
  BY TraceTypes DEF QueryMessages
<1>2. m.context_id \in Nat
  BY <1>1 DEF CancelMessages
<1>3. ProcessOf[c] \in Processes /\ next_context_id[ProcessOf[c]] \in Nat
  BY ProcessOfContext DEF Core, RendererOK
<1>4. QED
  BY <1>2, <1>3 DEF CancelOK, RESERVED_ID

\* A context gets an ID: no cancellation under way is about it.
LEMMA CancelNamed ==
    ASSUME Core, Core', CancelOK, NEW c \in live, GetIdForContext(c), live' = live,
           \A d \in Contexts : \A m \in Range(up'[d]) : m.type = "cancel" => m \in Range(up[d])
    PROVE  CancelOK'
<1>1. /\ \A d \in Contexts : d # c => context_id'[d] = context_id[d]
      /\ \A q \in Processes : next_context_id[q] <= next_context_id'[q]
      /\ context_id[c] # RESERVED_ID => context_id'[c] = context_id[c]
      /\ context_id[c] = RESERVED_ID => context_id'[c] = next_context_id[ProcessOf[c]] + 1
  BY ContextNamed DEF Core
<1>2. ASSUME NEW d \in Contexts, NEW m \in Range(up'[d]), m.type = "cancel"
      PROVE  /\ m.context_id # RESERVED_ID /\ m.context_id <= next_context_id'[ProcessOf[d]]
             /\ \A e \in Contexts : ProcessOf[e] = ProcessOf[d] => context_id'[e] # m.context_id
  <2> DEFINE id == m.context_id
             p == ProcessOf[d]
  <2>1. /\ id \in Nat \ {0} /\ p \in Processes /\ id <= next_context_id[p] /\ next_context_id[p] \in Nat
        /\ \A e \in Contexts : ProcessOf[e] = p => context_id[e] # id
    BY <1>2, CancelFacts
  <2>2. next_context_id'[p] \in Nat /\ next_context_id[p] <= next_context_id'[p]
    BY <1>1, <2>1 DEF Core, RendererOK
  <2> HIDE DEF id
  <2>3. id <= next_context_id'[p] /\ id # RESERVED_ID
    BY <2>1, <2>2 DEF RESERVED_ID
  <2>4. ASSUME NEW e \in Contexts, ProcessOf[e] = p PROVE context_id'[e] # id
    <3>1. CASE e # c
      BY <1>1, <2>1, <2>4, <3>1
    <3>2. CASE e = c /\ context_id[c] # RESERVED_ID
      BY <1>1, <2>1, <2>4, <3>2
    <3>3. CASE e = c /\ context_id[c] = RESERVED_ID
      <4>1. context_id'[e] = next_context_id[p] + 1
        BY <1>1, <2>4, <3>3
      <4>2. QED
        BY <2>1, <4>1
    <3>4. QED
      BY <3>1, <3>2, <3>3
  <2>5. QED
    BY <2>3, <2>4 DEF id
<1>3. QED
  BY <1>2 DEF CancelOK

\* Contexts go: an ID that is canceled is not in use.
LEMMA CancelReleased ==
    ASSUME Core, CancelOK, NEW c \in Contexts, OnContextReleased(c)
    PROVE  CancelOK'
<1>1. next_context_id' = next_context_id /\ context_id' = [context_id EXCEPT ![c] = RESERVED_ID]
  BY ReleaseEffect DEF OnContextReleased
<1>2. context_id \in [Contexts -> Nat]
  BY DEF Core, RendererOK
<1>3. \A d \in Contexts : context_id'[d] = IF d = c THEN RESERVED_ID ELSE context_id[d]
  BY <1>1, <1>2
<1>4. ASSUME NEW d \in Contexts, NEW m \in Range(up'[d]), m.type = "cancel"
      PROVE  \/ m \in Range(up[d])
             \/ d = c /\ m.context_id = context_id[c] /\ context_id[c] # RESERVED_ID
  BY SMTT(30), ReleaseEffect
<1>5. ASSUME NEW d \in Contexts, NEW m \in Range(up'[d]), m.type = "cancel"
      PROVE  /\ m.context_id # RESERVED_ID /\ m.context_id <= next_context_id'[ProcessOf[d]]
             /\ \A e \in Contexts : ProcessOf[e] = ProcessOf[d] => context_id'[e] # m.context_id
  <2>1. CASE m \in Range(up[d])
    BY <1>1, <1>3, <1>5, <2>1 DEF CancelOK
  <2>2. CASE d = c /\ m.context_id = context_id[c] /\ context_id[c] # RESERVED_ID
    BY <1>1, <1>3, <2>2 DEF Core, ContextOK
  <2>3. QED
    BY <1>4, <1>5, <2>1, <2>2
<1>6. QED
  BY <1>5 DEF CancelOK

LEMMA CancelTerminated ==
    ASSUME Core, CancelOK, NEW p \in Processes, OnRenderProcessTerminated(p)
    PROVE  CancelOK'
<1>1. /\ \A c \in Contexts : context_id'[c] = RESERVED_ID \/ context_id'[c] = context_id[c]
      /\ next_context_id' = next_context_id
      /\ \A c \in Contexts : up'[c] = << >> \/ up'[c] = up[c]
  BY DEF OnRenderProcessTerminated
<1>2. \A c \in Contexts : Range(up'[c]) \subseteq Range(up[c])
  BY <1>1 DEF Range
<1>3. QED
  BY <1>1, <1>2 DEF CancelOK

LEMMA CancelStep ==
    ASSUME Core, Core', CancelOK, [Next]_vars
    PROVE  CancelOK'
<1>1. CASE \E c \in Contexts, persistent \in BOOLEAN : SendQuery(c, persistent)
  <2>1. PICK c \in Contexts, persistent \in BOOLEAN : SendQuery(c, persistent)
    BY <1>1
  <2>2. PICK r \in Requests, m \in QueryMessages : Sending(c, r, m)
    BY <2>1, SendEffect
  <2>3. \A d \in Contexts : \A x \in Range(up'[d]) : x.type = "cancel" => x \in Range(up[d])
    BY <2>2 DEF Sending
  <2>4. c \in live /\ GetIdForContext(c) /\ live' = live
    BY <2>1 DEF SendQuery, Runs
  <2>5. QED
    BY <2>3, <2>4, CancelNamed
<1>2. CASE \E c \in Contexts : CancelFunction(c)
  <2>1. PICK c \in Contexts : CancelFunction(c)
    BY <1>2
  <2>2. c \in live /\ GetIdForContext(c) /\ live' = live /\ up' = up
    BY <2>1 DEF CancelFunction, Runs
  <2>3. \A d \in Contexts : \A x \in Range(up'[d]) : x.type = "cancel" => x \in Range(up[d])
    BY <2>2
  <2>4. QED
    BY <2>2, <2>3, CancelNamed
<1>3. CASE \E c \in Contexts : \/ BrowserReceivesQuery(c) \/ BrowserReceivesCancel(c)
                               \/ HandlerReenters(c)
  <2>1. PICK c \in Contexts : \/ BrowserReceivesQuery(c) \/ BrowserReceivesCancel(c)
                              \/ HandlerReenters(c)
    BY <1>3
  <2>2. up[c] # << >> /\ up' = [up EXCEPT ![c] = Tail(@)] /\ UNCHANGED <<context_id, next_context_id>>
    BY <2>1 DEF BrowserReceivesQuery, BrowserReceivesCancel, HandlerReenters, renderers
  <2>3. \A d \in Contexts : Range(up'[d]) \subseteq Range(up[d])
    BY <2>2, UpPopped
  <2>4. QED
    BY <2>2, <2>3, CancelSame
<1>4. CASE UNCHANGED <<context_id, next_context_id, up>>
  BY <1>4, CancelSame
<1>5. CASE \E c \in Contexts : RendererReceives(c)
  BY <1>4, <1>5 DEF RendererReceives
<1>6. CASE \E b \in Browsers : OnBeforeBrowse(b)
  BY <1>4, <1>6 DEF OnBeforeBrowse, renderers
<1>7. CASE RunCallbackTask
  BY <1>4, <1>7 DEF RunCallbackTask, renderers
<1>8. CASE NotifiedCancel
  BY <1>4, <1>8 DEF NotifiedCancel, renderers
<1>9. CASE Quiet
  BY <1>4, <1>9 DEF Quiet, renderers
<1>10. QED
  BY <1>1, <1>2, <1>3, <1>5, <1>6, <1>7, <1>8, <1>9, StepKinds, CancelReleased, CancelTerminated

-----------------------------------------------------------------------------
(* Queries that no page waits for.                                         *)

\* Abandoned, in the next state.
AbandonedThen(n) == \A r \in requests' : r.n # n

LEMMA AbandonSame ==
    ASSUME AbandonOK, requests' = requests, up' = up, queries' \subseteq queries, failed \subseteq failed'
    PROVE  AbandonOK'
BY DEF AbandonOK, Abandoned

\* The positions on a channel after a message is sent.
LEMMA UpAppended ==
    ASSUME Core, NEW c \in Contexts, NEW m \in QueryMessages \cup CancelMessages,
           up' = [up EXCEPT ![c] = Append(@, m)]
    PROVE  /\ \A d \in Contexts : \A i \in DOMAIN up[d] : i \in DOMAIN up'[d] /\ up'[d][i] = up[d][i]
           /\ \A d \in Contexts : \A i \in DOMAIN up'[d] :
                i \in DOMAIN up[d] \/ (d = c /\ up'[d][i] = m)
           /\ \E k \in DOMAIN up'[c] : up'[c][k] = m /\ \A i \in DOMAIN up[c] : k > i
<1> DEFINE T == QueryMessages \cup CancelMessages
           s == up[c]
<1>1. s \in Seq(T) /\ m \in T
  BY DEF Core, ChannelOK
<1>2. up'[c] = Append(s, m) /\ \A d \in Contexts : d # c => up'[d] = up[d]
  BY DEF Core, ChannelOK
<1> HIDE DEF T, s
<1>3. /\ Len(s) + 1 \in DOMAIN Append(s, m) /\ Append(s, m)[Len(s) + 1] = m
      /\ Len(s) \in Nat
      /\ \A i \in DOMAIN s : i \in DOMAIN Append(s, m) /\ Append(s, m)[i] = s[i] /\ i <= Len(s)
      /\ \A i \in DOMAIN Append(s, m) : i \in DOMAIN s \/ i = Len(s) + 1
  BY <1>1, RangeAppend
<1>4. DOMAIN s \subseteq Nat
  BY <1>1, SeqRange
<1>5. \A i \in DOMAIN s : Len(s) + 1 > i
  BY <1>3, <1>4
<1> DEFINE k == Len(s) + 1
<1> HIDE DEF k
<1>6. k \in DOMAIN up'[c] /\ up'[c][k] = m /\ \A i \in DOMAIN s : k > i
  BY <1>2, <1>3, <1>5 DEF k
<1>7. \A d \in Contexts : \A i \in DOMAIN up[d] : i \in DOMAIN up'[d] /\ up'[d][i] = up[d][i]
  BY <1>2, <1>3 DEF s
<1>8. \A d \in Contexts : \A i \in DOMAIN up'[d] : i \in DOMAIN up[d] \/ (d = c /\ up'[d][i] = m)
  BY <1>2, <1>3 DEF s
<1>9. QED
  BY <1>6, <1>7, <1>8 DEF s

\* The positions on a channel after its oldest message is taken.
LEMMA UpShifted ==
    ASSUME Core, NEW c \in Contexts, up[c] # << >>, up' = [up EXCEPT ![c] = Tail(@)]
    PROVE  /\ \A d \in Contexts : d # c => up'[d] = up[d]
           /\ \A i \in DOMAIN up'[c] : i + 1 \in DOMAIN up[c] /\ up'[c][i] = up[c][i + 1] /\ i \in Nat \ {0}
           /\ \A i \in DOMAIN up[c] : i # 1 => i - 1 \in DOMAIN up'[c] /\ up'[c][i - 1] = up[c][i]
           /\ \A i \in DOMAIN up[c] : i \in Nat
           /\ Head(up[c]) = up[c][1]
<1> DEFINE T == QueryMessages \cup CancelMessages
           s == up[c]
<1>1. s \in Seq(T) /\ s # << >>
  BY DEF Core, ChannelOK
<1>2. up'[c] = Tail(s) /\ \A d \in Contexts : d # c => up'[d] = up[d]
  BY DEF Core, ChannelOK
<1> HIDE DEF T, s
<1>3. /\ Head(s) = s[1]
      /\ \A i \in DOMAIN Tail(s) : i + 1 \in DOMAIN s /\ Tail(s)[i] = s[i + 1] /\ i \in Nat \ {0}
      /\ \A i \in DOMAIN s : i # 1 => i - 1 \in DOMAIN Tail(s) /\ Tail(s)[i - 1] = s[i]
  BY <1>1, RangeTail
<1>4. \A i \in DOMAIN s : i \in Nat
  BY <1>1, SeqRange
<1>5. QED
  BY <1>2, <1>3, <1>4 DEF s

LEMMA SendQueryAbandon ==
    ASSUME Core, Calls, AbandonOK, NEW c \in Contexts, NEW persistent \in BOOLEAN, SendQuery(c, persistent)
    PROVE  AbandonOK'
<1>1. PICK r \in Requests, m \in QueryMessages : Sending(c, r, m)
  BY SendEffect
<1>2. UNCHANGED <<queries, failed>>
  BY DEF SendQuery, browser
<1>3. requests' = requests \cup {r} /\ m.n = r.n /\ m.type = "query"
      /\ up' = [up EXCEPT ![c] = Append(@, m)]
      /\ \A d \in Contexts : Range(up[d]) \subseteq Range(up'[d])
  BY <1>1 DEF Sending
<1>4. \A n : AbandonedThen(n) => Abandoned(n) /\ n # r.n
  BY <1>3 DEF Abandoned, AbandonedThen
<1>5. /\ \A d \in Contexts : \A i \in DOMAIN up[d] : i \in DOMAIN up'[d] /\ up'[d][i] = up[d][i]
      /\ \A d \in Contexts : \A i \in DOMAIN up'[d] : i \in DOMAIN up[d] \/ (d = c /\ up'[d][i] = m)
  BY <1>3, UpAppended
<1>6. ASSUME NEW q \in queries', AbandonedThen(q.n)
      PROVE  \/ q.query_id \in failed'
             \/ \E x \in Range(up'[q.ctx]) : x.type = "cancel" /\ x.context_id = q.context_id
  <2>1. q.ctx \in Contexts /\ q \in queries /\ Abandoned(q.n)
    BY <1>2, <1>4, <1>6 DEF Core, BrowserOK, Pendings
  <2>2. QED
    BY <1>2, <1>3, <2>1 DEF AbandonOK
<1>7. ASSUME NEW d \in Contexts, NEW i \in DOMAIN up'[d], up'[d][i].type = "query", AbandonedThen(up'[d][i].n)
      PROVE  \E j \in DOMAIN up'[d] : /\ j > i /\ up'[d][j].type = "cancel"
                                      /\ up'[d][j].context_id = up'[d][i].context_id
  <2>1. Abandoned(up'[d][i].n) /\ up'[d][i].n # r.n
    BY <1>4, <1>7
  <2>2. i \in DOMAIN up[d] /\ up'[d][i] = up[d][i]
    BY <1>3, <1>5, <2>1
  <2>3. PICK j \in DOMAIN up[d] : /\ j > i /\ up[d][j].type = "cancel"
                                  /\ up[d][j].context_id = up[d][i].context_id
    BY <1>7, <2>1, <2>2 DEF AbandonOK
  <2>4. QED
    BY <1>5, <2>2, <2>3
<1>8. QED
  BY <1>6, <1>7 DEF AbandonOK, Abandoned, AbandonedThen

\* A context goes: what it asked is canceled by the message it sends last.
LEMMA ReleasedAbandon ==
    ASSUME Core, Calls, AbandonOK, NEW c \in Contexts, OnContextReleased(c)
    PROVE  AbandonOK'
<1>1. UNCHANGED <<queries, failed>>
  BY DEF OnContextReleased, browser, ghosts
<1>2. requests' = {r \in requests : r.ctx # c} /\ RequestOK /\ TraceOK
  BY ReleasedRequests DEF Calls
<1>3. CASE requests' = requests /\ up' = up
  BY <1>1, <1>3, AbandonSame
<1>4. ASSUME NEW m \in CancelMessages, m.context_id = context_id[c],
             up' = [up EXCEPT ![c] = Append(@, m)],
             \A d \in Contexts : Range(up'[d]) = Range(up[d]) \cup IF d = c THEN {m} ELSE {}
      PROVE  AbandonOK'
  <2>1. m.type = "cancel"
    BY DEF CancelMessages
  <2>2. /\ \A d \in Contexts : \A i \in DOMAIN up[d] : i \in DOMAIN up'[d] /\ up'[d][i] = up[d][i]
        /\ \A d \in Contexts : \A i \in DOMAIN up'[d] : i \in DOMAIN up[d] \/ (d = c /\ up'[d][i] = m)
        /\ \E k \in DOMAIN up'[c] : up'[c][k] = m /\ \A i \in DOMAIN up[c] : k > i
    BY ZenonT(40), <1>4, UpAppended
  \* a trace of a call that is abandoned now is one of the context
  <2>3. ASSUME NEW a, NEW d, KeyOf(a, d) \in Traces, AbandonedThen(a.n), ~Abandoned(a.n)
        PROVE  d = c /\ a.context_id = m.context_id
    <3>1. PICK r \in requests : r.n = a.n
      BY <2>3 DEF Abandoned
    <3>2. r.ctx = c
      BY <1>2, <2>3, <3>1 DEF AbandonedThen
    <3>3. KeyOf(r, c) \in Traces
      BY <3>2, TraceMembers
    <3>4. d = c /\ a.context_id = r.context_id
      BY <1>2, <2>3, <3>1, <3>3, SameCall
    <3>5. r.context_id = context_id[c]
      BY <1>2, <3>2 DEF RequestOK
    <3>6. QED
      BY <1>4, <3>4, <3>5
  <2>4. ASSUME NEW q \in queries', AbandonedThen(q.n)
        PROVE  \/ q.query_id \in failed'
               \/ \E x \in Range(up'[q.ctx]) : x.type = "cancel" /\ x.context_id = q.context_id
    <3>1. q.ctx \in Contexts /\ q \in queries /\ KeyOf(q, q.ctx) \in Traces
      BY <1>1, TraceMembers DEF Core, BrowserOK, Pendings
    <3>2. CASE Abandoned(q.n)
      <4>1. \/ q.query_id \in failed
            \/ \E x \in Range(up[q.ctx]) : x.type = "cancel" /\ x.context_id = q.context_id
        BY <3>1, <3>2 DEF AbandonOK
      <4>2. Range(up[q.ctx]) \subseteq Range(up'[q.ctx])
        BY <1>4, <3>1
      <4>3. QED
        BY <1>1, <4>1, <4>2
    <3>3. CASE ~Abandoned(q.n)
      <4>1. q.ctx = c /\ q.context_id = m.context_id
        BY <2>3, <2>4, <3>1, <3>3
      <4>2. m \in Range(up'[q.ctx])
        BY <1>4, <4>1
      <4>3. QED
        BY <2>1, <4>1, <4>2
    <3>4. QED
      BY <3>2, <3>3
  <2>5. ASSUME NEW d \in Contexts, NEW i \in DOMAIN up'[d], up'[d][i].type = "query",
               AbandonedThen(up'[d][i].n)
        PROVE  \E j \in DOMAIN up'[d] : /\ j > i /\ up'[d][j].type = "cancel"
                                        /\ up'[d][j].context_id = up'[d][i].context_id
    <3>1. i \in DOMAIN up[d] /\ up'[d][i] = up[d][i]
      BY <2>1, <2>2, <2>5
    <3>2. CASE Abandoned(up[d][i].n)
      <4>1. PICK j \in DOMAIN up[d] : /\ j > i /\ up[d][j].type = "cancel"
                                      /\ up[d][j].context_id = up[d][i].context_id
        BY <2>5, <3>1, <3>2 DEF AbandonOK
      <4>2. QED
        BY <2>2, <3>1, <4>1
    <3>3. CASE ~Abandoned(up[d][i].n)
      <4> DEFINE a == up[d][i]
      <4>1. a \in Asking(d)
        BY <2>5, <3>1, UpMessage DEF Core
      <4>2. KeyOf(a, d) \in Traces
        BY <4>1, TraceMembers
      <4>3. AbandonedThen(a.n)
        BY <2>5, <3>1
      <4>4. d = c /\ a.context_id = m.context_id
        <5> HIDE DEF a
        <5>1. ~Abandoned(a.n)
          BY <3>3 DEF a
        <5>2. QED
          BY <2>3, <4>2, <4>3, <5>1
      <4>5. PICK k \in DOMAIN up'[c] : up'[c][k] = m /\ \A l \in DOMAIN up[c] : k > l
        BY <2>2
      <4>6. QED
        BY <2>1, <3>1, <4>4, <4>5
    <3>4. QED
      BY <3>2, <3>3
  <2>6. QED
    BY <2>4, <2>5 DEF AbandonOK, Abandoned, AbandonedThen
<1>5. QED
  BY <1>3, <1>4, ReleaseEffect

\* A page stops waiting for a query with its last response: the query is no
\* longer pending, or has been failed.
LEMMA ReceivesAbandon ==
    ASSUME Core, Calls, AbandonOK, NEW c \in Contexts, RendererReceives(c)
    PROVE  AbandonOK'
<1> DEFINE msg == Head(down[c])
           own == {r \in requests : r.n = msg.n}
<1>1. UNCHANGED <<queries, failed, up>>
  BY DEF RendererReceives, browser
<1>2. /\ msg \in Range(down[c])
      /\ requests' = requests \ {r \in own : ~msg.success \/ ~r.persistent}
  BY ReceiveEffect
<1> HIDE DEF msg
<1>3. KeyOf(msg, c) \in Traces /\ TraceOK
  BY <1>2, TraceMembers DEF Calls
<1>4. ASSUME NEW n, AbandonedThen(n), ~Abandoned(n)
      PROVE  \E r \in requests : r.n = n /\ n = msg.n /\ (~msg.success \/ ~r.persistent)
  BY <1>2, <1>4 DEF Abandoned, AbandonedThen
<1>5. ASSUME NEW q \in queries, AbandonedThen(q.n), ~Abandoned(q.n) PROVE q.query_id \in failed
  <2>1. PICK r \in requests : r.n = q.n /\ q.n = msg.n /\ (~msg.success \/ ~r.persistent)
    BY <1>4, <1>5
  <2>2. q.persistent = r.persistent
    BY <2>1 DEF Calls, RequestOK
  <2>3. KeyOf(q, q.ctx) \in Traces
    BY TraceMembers
  <2>4. q.ctx = c
    BY <1>3, <2>1, <2>3, SameCall
  <2>5. QED
    BY <1>2, <2>1, <2>2, <2>4 DEF Calls, FinalOK
<1>6. ASSUME NEW d \in Contexts, NEW m \in Asking(d), AbandonedThen(m.n) PROVE Abandoned(m.n)
  <2>1. m.n # msg.n
    BY <1>2 DEF Calls, StageOK
  <2>2. QED
    BY <1>4, <1>6, <2>1
<1>7. ASSUME NEW q \in queries', AbandonedThen(q.n)
      PROVE  \/ q.query_id \in failed'
             \/ \E x \in Range(up'[q.ctx]) : x.type = "cancel" /\ x.context_id = q.context_id
  BY <1>1, <1>5, <1>7 DEF AbandonOK
<1>8. ASSUME NEW d \in Contexts, NEW i \in DOMAIN up'[d], up'[d][i].type = "query",
             AbandonedThen(up'[d][i].n)
      PROVE  \E j \in DOMAIN up'[d] : /\ j > i /\ up'[d][j].type = "cancel"
                                      /\ up'[d][j].context_id = up'[d][i].context_id
  <2>1. i \in DOMAIN up[d] /\ up[d][i].type = "query" /\ AbandonedThen(up[d][i].n)
    BY <1>1, <1>8
  <2>2. up[d][i] \in Asking(d)
    BY <2>1, UpMessage DEF Core
  <2>3. Abandoned(up[d][i].n)
    BY <1>6, <2>1, <2>2
  <2>4. QED
    BY <1>1, <2>1, <2>3 DEF AbandonOK
<1>9. QED
  BY <1>7, <1>8 DEF AbandonOK, Abandoned, AbandonedThen

\* What is left on a channel keeps its order.
LEMMA ShiftedAbandon ==
    ASSUME Core, AbandonOK, NEW c \in Contexts, up[c] # << >>, up' = [up EXCEPT ![c] = Tail(@)],
           requests' = requests,
           NEW d \in Contexts, NEW i \in DOMAIN up'[d], up'[d][i].type = "query",
           AbandonedThen(up'[d][i].n)
    PROVE  \E j \in DOMAIN up'[d] : /\ j > i /\ up'[d][j].type = "cancel"
                                    /\ up'[d][j].context_id = up'[d][i].context_id
<1>1. Abandoned(up'[d][i].n)
  BY DEF Abandoned, AbandonedThen
<1>2. /\ \A e \in Contexts : e # c => up'[e] = up[e]
      /\ \A k \in DOMAIN up'[c] : k + 1 \in DOMAIN up[c] /\ up'[c][k] = up[c][k + 1] /\ k \in Nat \ {0}
      /\ \A k \in DOMAIN up[c] : k # 1 => k - 1 \in DOMAIN up'[c] /\ up'[c][k - 1] = up[c][k]
      /\ \A k \in DOMAIN up[c] : k \in Nat
  BY UpShifted
<1>3. CASE d # c
  BY <1>1, <1>2, <1>3 DEF AbandonOK
<1>4. CASE d = c
  <2>1. i \in DOMAIN up'[c] /\ i + 1 \in DOMAIN up[c] /\ up'[c][i] = up[c][i + 1] /\ i \in Nat \ {0}
    BY <1>2, <1>4
  <2> DEFINE k == i + 1
  <2>2. k \in DOMAIN up[c] /\ up[c][k] = up'[c][i]
    BY <2>1
  <2> HIDE DEF k
  <2>3. PICK j \in DOMAIN up[c] : j > k /\ up[c][j].type = "cancel" /\ up[c][j].context_id = up[c][k].context_id
    BY <1>1, <1>4, <2>2 DEF AbandonOK
  <2>4. j \in Nat /\ j > i + 1 /\ j # 1 /\ j - 1 > i
    BY <1>2, <2>1, <2>3 DEF k
  <2>5. j - 1 \in DOMAIN up'[c] /\ up'[c][j - 1] = up[c][j]
    BY <1>2, <2>4
  <2> DEFINE l == j - 1
  <2>6. l \in DOMAIN up'[c] /\ up'[c][l] = up[c][j] /\ l > i
    BY <2>4, <2>5
  <2> HIDE DEF l
  <2>7. QED
    BY <1>4, <2>2, <2>3, <2>6
<1>5. QED
  BY <1>3, <1>4

LEMMA QueryAbandon ==
    ASSUME Core, Calls, AbandonOK, NEW c \in Contexts, BrowserReceivesQuery(c)
    PROVE  AbandonOK'
<1> DEFINE m == Head(up[c])
<1>1. /\ UNCHANGED <<requests, failed>> /\ up[c] # << >> /\ up' = [up EXCEPT ![c] = Tail(@)]
      /\ m.type = "query"
  BY DEF BrowserReceivesQuery, renderers
<1>2. ASSUME NEW d \in Contexts, NEW x \in Range(up[d]), x.type = "cancel" PROVE x \in Range(up'[d])
  BY <1>1, <1>2, UpPopped
<1>3. ASSUME NEW q \in queries', q \notin queries
      PROVE  q.ctx = c /\ q.n = m.n /\ q.context_id = m.context_id
  <2>1. ASSUME NEW id, NEW x,
               x = [query_id |-> NextId(next_query_id), ctx |-> c, n |-> m.n,
                    context_id |-> m.context_id, request_id |-> m.request_id,
                    persistent |-> m.persistent, handler_id |-> id, handler |-> HandlerAt(id)],
               queries' = queries \cup {x}
        PROVE  q.ctx = c /\ q.n = m.n /\ q.context_id = m.context_id
    BY <1>3, <2>1
  <2>2. CASE queries' = queries
    BY <1>3, <2>2
  <2>3. QED
    BY <2>1, <2>2, QueryEffect
<1>4. m = up[c][1] /\ 1 \in DOMAIN up[c]
  <2> DEFINE T == QueryMessages \cup CancelMessages
  <2>1. up[c] \in Seq(T)
    BY DEF Core, ChannelOK
  <2> HIDE DEF T
  <2>2. QED
    BY <1>1, <2>1, RangeTail
<1> HIDE DEF m
<1>5. ASSUME NEW q \in queries', AbandonedThen(q.n)
      PROVE  \/ q.query_id \in failed'
             \/ \E x \in Range(up'[q.ctx]) : x.type = "cancel" /\ x.context_id = q.context_id
  <2>1. Abandoned(q.n)
    BY <1>1, <1>5 DEF Abandoned, AbandonedThen
  <2>2. CASE q \in queries
    <3>1. q.ctx \in Contexts
      BY <2>2 DEF Core, BrowserOK, Pendings
    <3>2. QED
      BY <1>1, <1>2, <2>1, <2>2, <3>1 DEF AbandonOK
  <2>3. CASE q \notin queries
    <3>1. q.ctx = c /\ q.n = m.n /\ q.context_id = m.context_id
      BY <1>3, <2>3
    <3>2. PICK j \in DOMAIN up[c] : up[c][j].type = "cancel" /\ up[c][j].context_id = m.context_id
      BY <1>1, <1>4, <2>1, <3>1 DEF AbandonOK
    <3>3. up[c][j] \in Range(up[c])
      BY DEF Range
    <3>4. QED
      BY <1>2, <3>1, <3>2, <3>3
  <2>4. QED
    BY <2>2, <2>3
<1>6. ASSUME NEW d \in Contexts, NEW i \in DOMAIN up'[d], up'[d][i].type = "query",
             AbandonedThen(up'[d][i].n)
      PROVE  \E j \in DOMAIN up'[d] : /\ j > i /\ up'[d][j].type = "cancel"
                                      /\ up'[d][j].context_id = up'[d][i].context_id
  BY <1>1, <1>6, ShiftedAbandon
<1>7. QED
  BY <1>5, <1>6 DEF AbandonOK, Abandoned, AbandonedThen

LEMMA ReentersAbandon ==
    ASSUME Core, Calls, AbandonOK, NEW c \in Contexts, HandlerReenters(c)
    PROVE  AbandonOK'
<1>1. /\ UNCHANGED <<requests, failed, queries>> /\ up[c] # << >>
      /\ up' = [up EXCEPT ![c] = Tail(@)] /\ Head(up[c]).type = "query"
  BY DEF HandlerReenters, renderers
<1>2. ASSUME NEW d \in Contexts, NEW x \in Range(up[d]), x.type = "cancel" PROVE x \in Range(up'[d])
  BY <1>1, <1>2, UpPopped
<1>3. ASSUME NEW q \in queries', AbandonedThen(q.n)
      PROVE  \/ q.query_id \in failed'
             \/ \E x \in Range(up'[q.ctx]) : x.type = "cancel" /\ x.context_id = q.context_id
  <2>1. Abandoned(q.n)
    BY <1>1, <1>3 DEF Abandoned, AbandonedThen
  <2>2. q.ctx \in Contexts
    BY <1>1 DEF Core, BrowserOK, Pendings
  <2>3. QED
    BY <1>1, <1>2, <2>1, <2>2 DEF AbandonOK
<1>4. ASSUME NEW d \in Contexts, NEW i \in DOMAIN up'[d], up'[d][i].type = "query",
             AbandonedThen(up'[d][i].n)
      PROVE  \E j \in DOMAIN up'[d] : /\ j > i /\ up'[d][j].type = "cancel"
                                      /\ up'[d][j].context_id = up'[d][i].context_id
  BY <1>1, <1>4, ShiftedAbandon
<1>5. QED
  BY <1>3, <1>4 DEF AbandonOK, Abandoned, AbandonedThen

LEMMA CancelAbandon ==
    ASSUME Core, Calls, AbandonOK, NEW c \in Contexts, BrowserReceivesCancel(c)
    PROVE  AbandonOK'
<1> DEFINE m == Head(up[c])
<1>1. /\ UNCHANGED <<requests, failed>> /\ up[c] # << >> /\ up' = [up EXCEPT ![c] = Tail(@)]
      /\ m.type = "cancel"
  BY DEF BrowserReceivesCancel, renderers
<1>2. m \in CancelMessages /\ m \in Range(up[c])
  <2>1. m \in QueryMessages \cup CancelMessages /\ m \in Range(up[c])
    BY <1>1, UpPopped
  <2>2. QED
    BY <1>1, <2>1 DEF QueryMessages
<1>3. PICK S \in SUBSET queries :
        /\ CancelQueries(S, FALSE)
        /\ S = {q \in queries : /\ BrowserOf[q.ctx] = BrowserOf[c]
                                /\ q.context_id = m.context_id \/ q.request_id = RESERVED_ID}
  <2>1. m.request_id = RESERVED_ID
    BY <1>2 DEF CancelMessages
  <2>2. QED
    BY <2>1, CancelTarget
<1>4. queries' = queries \ S
  BY <1>3 DEF CancelQueries
<1>5. ASSUME NEW q \in queries', AbandonedThen(q.n)
      PROVE  \/ q.query_id \in failed'
             \/ \E x \in Range(up'[q.ctx]) : x.type = "cancel" /\ x.context_id = q.context_id
  <2>1. Abandoned(q.n) /\ q \in queries /\ q \notin S /\ q.ctx \in Contexts
    BY <1>1, <1>4, <1>5 DEF Abandoned, AbandonedThen, Core, BrowserOK, Pendings
  <2>2. CASE q.query_id \in failed
    BY <1>1, <2>2
  <2>3. CASE q.query_id \notin failed
    <3>1. PICK x \in Range(up[q.ctx]) : x.type = "cancel" /\ x.context_id = q.context_id
      BY <2>1, <2>3 DEF AbandonOK
    <3>2. ~(q.ctx = c /\ x = m)
      BY <1>3, <2>1, <3>1
    <3>3. x \in Range(up'[q.ctx])
      BY <1>1, <2>1, <3>2, UpPopped
    <3>4. QED
      BY <3>1, <3>3
  <2>4. QED
    BY <2>2, <2>3
<1>6. ASSUME NEW d \in Contexts, NEW i \in DOMAIN up'[d], up'[d][i].type = "query",
             AbandonedThen(up'[d][i].n)
      PROVE  \E j \in DOMAIN up'[d] : /\ j > i /\ up'[d][j].type = "cancel"
                                      /\ up'[d][j].context_id = up'[d][i].context_id
  BY <1>1, <1>6, ShiftedAbandon
<1>7. QED
  BY <1>5, <1>6 DEF AbandonOK, Abandoned, AbandonedThen

LEMMA TerminatedAbandon ==
    ASSUME Core, Calls, AbandonOK, NEW p \in Processes, OnRenderProcessTerminated(p)
    PROVE  AbandonOK'
<1> DEFINE B == {BrowserOf[c] : c \in {x \in Contexts : ProcessOf[x] = p}}
<1>1. /\ requests' = {r \in requests : ProcessOf[r.ctx] # p}
      /\ up' = [c \in Contexts |-> IF ProcessOf[c] = p THEN << >> ELSE up[c]]
      /\ queries' = queries \ {q \in queries : BrowserOf[q.ctx] \in B}
      /\ failed' = failed
  BY DEF OnRenderProcessTerminated
<1>2. \A q \in queries' : q \in queries /\ q.ctx \in Contexts /\ ProcessOf[q.ctx] # p
  <2>1. \A q \in queries : q.ctx \in Contexts
    BY DEF Core, BrowserOK, Pendings
  <2>2. \A c \in Contexts : ProcessOf[c] = p => BrowserOf[c] \in B
    OBVIOUS
  <2> HIDE DEF B
  <2>3. QED
    BY <1>1, <2>1, <2>2
<1>3. ASSUME NEW a, NEW c, KeyOf(a, c) \in Traces, ProcessOf[c] # p, AbandonedThen(a.n)
      PROVE  Abandoned(a.n)
  <2>1. SUFFICES ASSUME NEW r \in requests, r.n = a.n PROVE FALSE
    BY DEF Abandoned
  <2>2. KeyOf(r, r.ctx) \in Traces /\ TraceOK
    BY TraceMembers DEF Calls
  <2>3. r.ctx = c
    BY <1>3, <2>1, <2>2, SameCall
  <2>4. QED
    BY <1>1, <1>3, <2>1, <2>3 DEF AbandonedThen
<1>4. ASSUME NEW q \in queries', AbandonedThen(q.n)
      PROVE  \/ q.query_id \in failed'
             \/ \E x \in Range(up'[q.ctx]) : x.type = "cancel" /\ x.context_id = q.context_id
  <2>1. q \in queries /\ q.ctx \in Contexts /\ ProcessOf[q.ctx] # p /\ KeyOf(q, q.ctx) \in Traces
    BY <1>2, TraceMembers
  <2>2. Abandoned(q.n)
    BY <1>3, <1>4, <2>1
  <2>3. up'[q.ctx] = up[q.ctx]
    BY <1>1, <2>1
  <2>4. QED
    BY <1>1, <2>1, <2>2, <2>3 DEF AbandonOK
<1>5. ASSUME NEW d \in Contexts, NEW i \in DOMAIN up'[d], up'[d][i].type = "query",
             AbandonedThen(up'[d][i].n)
      PROVE  \E j \in DOMAIN up'[d] : /\ j > i /\ up'[d][j].type = "cancel"
                                      /\ up'[d][j].context_id = up'[d][i].context_id
  <2>1. ProcessOf[d] # p /\ up'[d] = up[d]
    BY <1>1
  <2>2. up[d][i] \in Asking(d)
    BY <1>5, <2>1, UpMessage DEF Core
  <2>3. KeyOf(up[d][i], d) \in Traces
    BY <2>2, TraceMembers
  <2>4. Abandoned(up[d][i].n)
    BY <1>3, <1>5, <2>1, <2>3
  <2>5. QED
    BY <1>5, <2>1, <2>4 DEF AbandonOK
<1>6. QED
  BY <1>4, <1>5 DEF AbandonOK, Abandoned, AbandonedThen

LEMMA AbandonStep ==
    ASSUME Core, MiscOK, Calls, AbandonOK, [Next]_vars
    PROVE  AbandonOK'
<1>1. CASE NotifiedCancel
  BY <1>1, AbandonSame DEF NotifiedCancel, CancelQueries, renderers
<1>2. CASE \E b \in Browsers : OnBeforeBrowse(b)
  BY <1>2, AbandonSame DEF OnBeforeBrowse, CancelQueries, renderers
<1>3. CASE RunCallbackTask
  <2>1. requests' = requests /\ up' = up
    BY <1>3 DEF RunCallbackTask, renderers
  <2>2. queries' \subseteq queries /\ failed \subseteq failed'
    BY <1>3, RunCallbackSettles DEF Settles, Calls
  <2>3. QED
    BY <2>1, <2>2, AbandonSame
<1>4. CASE \E c \in Contexts : CancelFunction(c)
  BY <1>4, AbandonSame DEF CancelFunction, browser, ghosts
<1>5. CASE Quiet
  BY <1>5, AbandonSame DEF Quiet, renderers, ghosts
<1>6. QED
  BY <1>1, <1>2, <1>3, <1>4, <1>5, StepKinds, SendQueryAbandon, ReleasedAbandon, ReceivesAbandon,
     QueryAbandon, CancelAbandon, TerminatedAbandon, ReentersAbandon

-----------------------------------------------------------------------------
(* Pages that wait.                                                        *)

\* What a request r that is not silenced waits for.
Coming(r) == \/ \E m \in Asking(r.ctx) : m.n = r.n
             \/ \E q \in queries : q.n = r.n
             \/ \E x \in Range(down[r.ctx]) : x.n = r.n /\ (~x.success \/ ~r.persistent)
ComingThen(r) == \/ \E m \in Range(up'[r.ctx]) : m.type = "query" /\ m.n = r.n
                 \/ \E q \in queries' : q.n = r.n
                 \/ \E x \in Range(down'[r.ctx]) : x.n = r.n /\ (~x.success \/ ~r.persistent)

\* Nothing that a page waits for is lost but with the query it is about.
LEMMA AnswerKept ==
    ASSUME Core, AnswerOK, requests' \subseteq requests, silenced \subseteq silenced',
           \A r \in requests' : Coming(r) => ComingThen(r) \/ r.n \in silenced'
    PROVE  AnswerOK'
<1>1. \A r \in requests' : r.n \notin silenced' => Coming(r)
  BY DEF AnswerOK, Coming
<1>2. \A r \in requests' : r.n \notin silenced' => ComingThen(r)
  BY <1>1
<1>3. QED
  BY <1>2 DEF AnswerOK, ComingThen, Asking

LEMMA SendQueryAnswer ==
    ASSUME Core, AnswerOK, NEW c \in Contexts, NEW persistent \in BOOLEAN, SendQuery(c, persistent)
    PROVE  AnswerOK'
<1>1. PICK r \in Requests, m \in QueryMessages : Sending(c, r, m)
  BY SendEffect
<1>2. UNCHANGED <<queries, down, silenced>>
  BY DEF SendQuery, browser
<1>3. /\ requests' = requests \cup {r} /\ m.n = r.n /\ m.type = "query" /\ r.ctx = c
      /\ m \in Range(up'[c]) /\ \A d \in Contexts : Range(up[d]) \subseteq Range(up'[d])
  BY <1>1 DEF Sending
<1>4. ASSUME NEW x \in requests', x.n \notin silenced' PROVE ComingThen(x)
  <2>1. CASE x = r
    BY <1>3, <2>1 DEF ComingThen
  <2>2. CASE x \in requests
    <3>1. x.ctx \in Contexts
      BY <2>2 DEF Core, RendererOK, Requests
    <3>2. Coming(x)
      BY <1>2, <1>4, <2>2 DEF AnswerOK, Coming
    <3>3. QED
      BY <1>2, <1>3, <3>1, <3>2 DEF Coming, ComingThen, Asking
  <2>3. QED
    BY <1>3, <2>1, <2>2
<1>5. QED
  BY <1>4 DEF AnswerOK, ComingThen, Asking

\* The last response reaches the request that waits for it, which goes.
LEMMA ReceivesAnswer ==
    ASSUME Core, Calls, AnswerOK, NEW c \in Contexts, RendererReceives(c)
    PROVE  AnswerOK'
<1> DEFINE msg == Head(down[c])
           own == {r \in requests : r.n = msg.n}
<1>1. /\ UNCHANGED <<queries, up, silenced>> /\ down[c] # << >> /\ down' = [down EXCEPT ![c] = Tail(@)]
  BY DEF RendererReceives, browser
<1>2. requests' = requests \ {r \in own : ~msg.success \/ ~r.persistent}
  BY ReceiveEffect
<1>3. \A d \in Contexts : \A x \in Range(down[d]) : x \in Range(down'[d]) \/ (d = c /\ x = msg)
  BY <1>1, DownPopped
<1> HIDE DEF msg
<1>4. ASSUME NEW r \in requests', Coming(r) PROVE ComingThen(r)
  <2>1. r \in requests /\ r.ctx \in Contexts
    BY <1>2 DEF Core, RendererOK, Requests
  <2>2. CASE \E x \in Range(down[r.ctx]) : x.n = r.n /\ (~x.success \/ ~r.persistent)
    <3>1. PICK x \in Range(down[r.ctx]) : x.n = r.n /\ (~x.success \/ ~r.persistent)
      BY <2>2
    <3>2. x # msg
      BY <1>2, <2>1, <3>1
    <3>3. x \in Range(down'[r.ctx])
      BY <1>3, <2>1, <3>2
    <3>4. QED
      BY <3>1, <3>3 DEF ComingThen
  <2>3. CASE (\E m \in Asking(r.ctx) : m.n = r.n) \/ (\E q \in queries : q.n = r.n)
    BY <1>1, <2>3 DEF ComingThen, Asking
  <2>4. QED
    BY <1>4, <2>2, <2>3 DEF Coming
<1>5. QED
  BY <1>1, <1>2, <1>4, AnswerKept

LEMMA QueryAnswer ==
    ASSUME Core, Calls, AnswerOK, NEW c \in Contexts, BrowserReceivesQuery(c)
    PROVE  AnswerOK'
<1> DEFINE m == Head(up[c])
<1>1. /\ UNCHANGED <<requests, silenced>> /\ up[c] # << >> /\ up' = [up EXCEPT ![c] = Tail(@)]
  BY DEF BrowserReceivesQuery, renderers
<1>2. \A d \in Contexts : \A x \in Range(up[d]) : x \in Range(up'[d]) \/ (d = c /\ x = m)
  BY <1>1, UpPopped
<1>3. \/ \E q \in queries' : q.n = m.n
      \/ c \in live => \E x \in Range(down'[c]) : x.n = m.n /\ ~x.success
  <2> HIDE DEF m
  <2>1. ASSUME NEW id, NEW x,
               x = [query_id |-> NextId(next_query_id), ctx |-> c, n |-> m.n,
                    context_id |-> m.context_id, request_id |-> m.request_id,
                    persistent |-> m.persistent, handler_id |-> id, handler |-> HandlerAt(id)],
               queries' = queries \cup {x}
        PROVE  \E q \in queries' : q.n = m.n
    BY <2>1
  <2>2. ASSUME \A d \in Contexts : Range(down'[d]) = Range(down[d]) \cup
                      IF d = c /\ c \in live THEN {Response(m, FALSE)} ELSE {}
        PROVE  c \in live => \E x \in Range(down'[c]) : x.n = m.n /\ ~x.success
    <3>1. SUFFICES ASSUME c \in live PROVE \E x \in Range(down'[c]) : x.n = m.n /\ ~x.success
      OBVIOUS
    <3>2. Response(m, FALSE) \in Range(down'[c])
      BY <2>2, <3>1
    <3>3. Response(m, FALSE).n = m.n /\ ~Response(m, FALSE).success
      BY DEF Response
    <3>4. QED
      BY <3>2, <3>3
  <2>3. QED
    BY <2>1, <2>2, QueryEffect DEF m
<1>4. /\ queries \subseteq queries' /\ \A d \in Contexts : Range(down[d]) \subseteq Range(down'[d])
  BY QueryEffect
<1> HIDE DEF m
<1>5. ASSUME NEW r \in requests', Coming(r) PROVE ComingThen(r)
  <2>1. r \in requests /\ r.ctx \in Contexts /\ r.ctx \in live
    BY <1>1 DEF Core, RendererOK, Requests, Calls, RequestOK
  <2>2. CASE \E x \in Asking(r.ctx) : x.n = r.n
    <3>1. PICK x \in Asking(r.ctx) : x.n = r.n
      BY <2>2
    <3>2. CASE x \in Range(up'[r.ctx])
      BY <3>1, <3>2 DEF Asking, ComingThen
    <3>3. CASE r.ctx = c /\ x = m
      BY <1>3, <2>1, <3>1, <3>3 DEF ComingThen
    <3>4. QED
      BY <1>2, <2>1, <3>2, <3>3 DEF Asking
  <2>3. CASE \E q \in queries : q.n = r.n
    BY <1>4, <2>3 DEF ComingThen
  <2>4. CASE \E x \in Range(down[r.ctx]) : x.n = r.n /\ (~x.success \/ ~r.persistent)
    BY <1>4, <2>1, <2>4 DEF ComingThen
  <2>5. QED
    BY <1>5, <2>2, <2>3, <2>4 DEF Coming
<1>6. QED
  BY <1>1, <1>5, AnswerKept

\* The queries that a page's last message cancels are those of a context that
\* is gone: no page waits for them.  It takes that the frames of a browser
\* share a process, which gives the context IDs.
LEMMA CancelAnswer ==
    ASSUME Core, Calls, CancelOK, AnswerOK, SharedProcess, NEW c \in Contexts, BrowserReceivesCancel(c)
    PROVE  AnswerOK'
<1> DEFINE m == Head(up[c])
<1>1. /\ UNCHANGED <<requests, silenced>> /\ up[c] # << >> /\ up' = [up EXCEPT ![c] = Tail(@)]
      /\ m.type = "cancel"
  BY DEF BrowserReceivesCancel, renderers
<1>2. m \in CancelMessages /\ m \in Range(up[c])
  <2>1. m \in QueryMessages \cup CancelMessages /\ m \in Range(up[c])
    BY <1>1, UpPopped
  <2>2. QED
    BY <1>1, <2>1 DEF QueryMessages
<1>3. PICK S \in SUBSET queries :
        /\ CancelQueries(S, FALSE)
        /\ S = {q \in queries : /\ BrowserOf[q.ctx] = BrowserOf[c]
                                /\ q.context_id = m.context_id \/ q.request_id = RESERVED_ID}
  <2>1. m.request_id = RESERVED_ID
    BY <1>2 DEF CancelMessages
  <2>2. QED
    BY <2>1, CancelTarget
<1>4. queries' = queries \ S /\ down' = down
  BY <1>3 DEF CancelQueries
<1>5. ASSUME NEW q \in S, NEW r \in requests PROVE q.n # r.n
  <2>1. SUFFICES ASSUME q.n = r.n PROVE FALSE
    OBVIOUS
  <2>2. q.ctx \in Contexts /\ q.request_id # RESERVED_ID
    BY ConstantsAssumption DEF Core, BrowserOK, Pendings, Numbers, RESERVED_ID
  <2>3. q.context_id = m.context_id /\ BrowserOf[q.ctx] = BrowserOf[c]
    BY <1>3, <2>2
  <2>4. ProcessOf[q.ctx] = ProcessOf[c]
    BY <2>2, <2>3 DEF SharedProcess
  <2>5. KeyOf(q, q.ctx) \in Traces /\ KeyOf(r, r.ctx) \in Traces /\ TraceOK
    BY TraceMembers DEF Calls
  <2>6. r.ctx = q.ctx /\ r.context_id = q.context_id
    BY <2>1, <2>5, SameCall
  <2>7. context_id[q.ctx] = m.context_id
    BY <2>3, <2>6 DEF Calls, RequestOK
  <2>8. QED
    BY <1>1, <1>2, <2>2, <2>4, <2>7 DEF CancelOK
<1>6. \A d \in Contexts : \A x \in Range(up[d]) : x \in Range(up'[d]) \/ (d = c /\ x = m)
  BY <1>1, UpPopped
<1>7. ASSUME NEW r \in requests', Coming(r) PROVE ComingThen(r)
  <2>1. r \in requests /\ r.ctx \in Contexts
    BY <1>1 DEF Core, RendererOK, Requests
  <2>2. CASE \E x \in Asking(r.ctx) : x.n = r.n
    BY <1>1, <1>6, <2>1, <2>2 DEF Asking, ComingThen
  <2>3. CASE \E q \in queries : q.n = r.n
    BY <1>4, <1>5, <2>1, <2>3 DEF ComingThen
  <2>4. CASE \E x \in Range(down[r.ctx]) : x.n = r.n /\ (~x.success \/ ~r.persistent)
    BY <1>4, <2>4 DEF ComingThen
  <2>5. QED
    BY <1>7, <2>2, <2>3, <2>4 DEF Coming
<1>8. QED
  BY <1>1, <1>7, AnswerKept

\* Queries are canceled and their pages told, or they are silenced.
LEMMA NotifiedAnswer ==
    ASSUME Core, Calls, AnswerOK, NotifiedCancel
    PROVE  AnswerOK'
<1>1. PICK S \in SUBSET queries : CancelQueries(S, TRUE)
  BY DEF NotifiedCancel
<1>2. UNCHANGED <<requests, up, silenced>>
  BY DEF NotifiedCancel, renderers
<1>3. /\ queries' = queries \ S
      /\ \A c \in Contexts : Range(down'[c]) =
           Range(down[c]) \cup {Response(q, FALSE) : q \in {x \in S : TRUE /\ x.ctx = c /\ c \in live}}
  BY <1>1, CancelEffect, DistinctQueries DEF Core
<1>4. ASSUME NEW r \in requests', Coming(r) PROVE ComingThen(r)
  <2>1. r \in requests /\ r.ctx \in Contexts /\ r.ctx \in live
    BY <1>2 DEF Core, RendererOK, Requests, Calls, RequestOK
  <2>2. CASE \E x \in Asking(r.ctx) : x.n = r.n
    BY <1>2, <2>2 DEF Asking, ComingThen
  <2>3. ASSUME NEW q \in queries, q.n = r.n PROVE ComingThen(r)
    <3>1. CASE q \in queries'
      BY <2>3, <3>1 DEF ComingThen
    <3>2. CASE q \notin queries'
      <4>1. KeyOf(q, q.ctx) \in Traces /\ KeyOf(r, r.ctx) \in Traces /\ TraceOK
        BY <2>1, TraceMembers DEF Calls
      <4>2. q.ctx = r.ctx /\ q \in S
        BY <1>3, <2>3, <3>2, <4>1, SameCall
      <4>3. Response(q, FALSE) \in Range(down'[r.ctx])
        BY <1>3, <2>1, <4>2
      <4>4. Response(q, FALSE).n = r.n /\ ~Response(q, FALSE).success
        BY <2>3 DEF Response
      <4>5. QED
        BY <4>3, <4>4 DEF ComingThen
    <3>3. QED
      BY <3>1, <3>2
  <2>4. CASE \E x \in Range(down[r.ctx]) : x.n = r.n /\ (~x.success \/ ~r.persistent)
    BY <1>3, <2>1, <2>4 DEF ComingThen
  <2>5. QED
    BY <1>4, <2>2, <2>3, <2>4 DEF Coming
<1>5. QED
  BY <1>2, <1>4, AnswerKept

LEMMA SilencedAnswer ==
    ASSUME Core, Calls, AnswerOK, NEW S \in SUBSET queries, queries' = queries \ S,
           silenced' = silenced \cup {q.n : q \in S}, requests' \subseteq requests,
           \A r \in requests' : up'[r.ctx] = up[r.ctx] /\ down'[r.ctx] = down[r.ctx]
    PROVE  AnswerOK'
<1>1. ASSUME NEW r \in requests', Coming(r) PROVE ComingThen(r) \/ r.n \in silenced'
  <2>1. up'[r.ctx] = up[r.ctx] /\ down'[r.ctx] = down[r.ctx]
    OBVIOUS
  <2>2. CASE \E x \in Asking(r.ctx) : x.n = r.n
    BY <2>1, <2>2 DEF Asking, ComingThen
  <2>3. CASE \E q \in queries : q.n = r.n
    BY <2>3 DEF ComingThen
  <2>4. CASE \E x \in Range(down[r.ctx]) : x.n = r.n /\ (~x.success \/ ~r.persistent)
    BY <2>1, <2>4 DEF ComingThen
  <2>5. QED
    BY <1>1, <2>2, <2>3, <2>4 DEF Coming
<1>2. silenced \subseteq silenced'
  OBVIOUS
<1>3. QED
  BY <1>1, <1>2, AnswerKept

LEMMA ReentersAnswer ==
    ASSUME Core, Calls, AnswerOK, NEW c \in Contexts, HandlerReenters(c)
    PROVE  AnswerOK'
<1> DEFINE m == Head(up[c])
<1>1. /\ UNCHANGED <<requests, queries, down>> /\ up[c] # << >> /\ up' = [up EXCEPT ![c] = Tail(@)]
      /\ silenced' = silenced \cup {m.n}
  BY DEF HandlerReenters, renderers
<1>2. \A d \in Contexts : \A x \in Range(up[d]) : x \in Range(up'[d]) \/ (d = c /\ x = m)
  BY <1>1, UpPopped
<1> HIDE DEF m
<1>3. ASSUME NEW r \in requests', Coming(r) PROVE ComingThen(r) \/ r.n \in silenced'
  <2>1. r.ctx \in Contexts
    BY <1>1 DEF Core, RendererOK, Requests
  <2>2. CASE \E x \in Asking(r.ctx) : x.n = r.n
    BY <1>1, <1>2, <2>1, <2>2 DEF Asking, ComingThen
  <2>3. CASE \E q \in queries : q.n = r.n
    BY <1>1, <2>3 DEF ComingThen
  <2>4. CASE \E x \in Range(down[r.ctx]) : x.n = r.n /\ (~x.success \/ ~r.persistent)
    BY <1>1, <2>4 DEF ComingThen
  <2>5. QED
    BY <1>3, <2>2, <2>3, <2>4 DEF Coming
<1>4. requests' \subseteq requests /\ silenced \subseteq silenced'
  BY <1>1
<1>5. QED
  BY <1>3, <1>4, AnswerKept

LEMMA CallbackAnswer ==
    ASSUME Core, MiscOK, Calls, AnswerOK, RunCallbackTask
    PROVE  AnswerOK'
<1>1. UNCHANGED <<requests, up, silenced, live>>
  BY DEF RunCallbackTask, renderers
<1>2. CASE UNCHANGED <<queries, attached, answered, failed, down>>
  BY <1>1, <1>2 DEF AnswerOK, Asking
<1>3. ASSUME NEW x \in queries, NEW success \in BOOLEAN,
             queries' = IF x.persistent THEN queries ELSE queries \ {x},
             \A c \in Contexts : Range(down'[c]) =
                Range(down[c]) \cup IF c = x.ctx /\ c \in live THEN {Response(x, success)} ELSE {}
      PROVE  AnswerOK'
  <2>1. ASSUME NEW r \in requests', Coming(r) PROVE ComingThen(r)
    <3>1. r \in requests /\ r.ctx \in Contexts /\ r.ctx \in live
      BY <1>1 DEF Core, RendererOK, Requests, Calls, RequestOK
    <3>2. CASE \E m \in Asking(r.ctx) : m.n = r.n
      BY <1>1, <3>2 DEF Asking, ComingThen
    <3>3. ASSUME NEW q \in queries, q.n = r.n PROVE ComingThen(r)
      <4>1. CASE q \in queries'
        BY <3>3, <4>1 DEF ComingThen
      <4>2. CASE q \notin queries'
        <5>1. q = x /\ ~x.persistent
          BY <1>3, <4>2
        <5>2. KeyOf(x, x.ctx) \in Traces /\ KeyOf(r, r.ctx) \in Traces /\ TraceOK
          BY <3>1, TraceMembers DEF Calls
        <5>3. x.ctx = r.ctx
          BY <3>3, <5>1, <5>2, SameCall
        <5>4. ~r.persistent
          BY <3>1, <3>3, <5>1 DEF Calls, RequestOK
        <5>5. Response(x, success) \in Range(down'[r.ctx])
          BY <1>3, <3>1, <5>3
        <5>6. Response(x, success).n = r.n
          BY <3>3, <5>1 DEF Response
        <5>7. QED
          BY <5>4, <5>5, <5>6 DEF ComingThen
      <4>3. QED
        BY <4>1, <4>2
    <3>4. CASE \E y \in Range(down[r.ctx]) : y.n = r.n /\ (~y.success \/ ~r.persistent)
      BY <1>3, <3>1, <3>4 DEF ComingThen
    <3>5. QED
      BY <2>1, <3>2, <3>3, <3>4 DEF Coming
  <2>2. QED
    BY <1>1, <2>1, AnswerKept
<1>4. QED
  BY <1>2, <1>3, CallbackEffect DEF Core

LEMMA AnswerStep ==
    ASSUME Core, MiscOK, Calls, CancelOK, SharedProcess, AnswerOK, [Next]_vars
    PROVE  AnswerOK'
<1>1. CASE UNCHANGED <<queries, up, down, silenced>> /\ requests' = requests
  BY <1>1 DEF AnswerOK, Asking
<1>2. CASE \E c \in Contexts : CancelFunction(c)
  BY <1>1, <1>2 DEF CancelFunction, browser, ghosts
<1>3. CASE Quiet
  BY <1>1, <1>3 DEF Quiet, renderers, ghosts
<1>4. CASE \E c \in Contexts : OnContextReleased(c)
  <2>1. PICK c \in Contexts : OnContextReleased(c)
    BY <1>4
  <2>2. UNCHANGED <<queries, down, silenced>>
    BY <2>1 DEF OnContextReleased, browser, ghosts
  <2>3. requests' \subseteq requests /\ \A d \in Contexts : Range(up[d]) \subseteq Range(up'[d])
    BY <2>1, ReleaseEffect
  <2>4. \A r \in requests' : r.ctx \in Contexts
    BY <2>3 DEF Core, RendererOK, Requests
  <2>5. \A r \in requests' : Coming(r) => ComingThen(r)
    BY <2>2, <2>3, <2>4 DEF Coming, ComingThen, Asking
  <2>6. QED
    BY <2>2, <2>3, <2>5, AnswerKept
<1>5. CASE \E b \in Browsers : OnBeforeBrowse(b)
  <2>1. PICK b \in Browsers : OnBeforeBrowse(b)
    BY <1>5
  <2> DEFINE S == {q \in queries : BrowserOf[q.ctx] = b}
  <2>2. /\ S \in SUBSET queries /\ queries' = queries \ S /\ silenced' = silenced \cup {q.n : q \in S}
        /\ UNCHANGED <<requests, up, down>>
    BY <2>1 DEF OnBeforeBrowse, CancelQueries, renderers
  <2> HIDE DEF S
  <2>3. QED
    BY <2>2, SilencedAnswer
<1>6. CASE \E p \in Processes : OnRenderProcessTerminated(p)
  <2>1. PICK p \in Processes : OnRenderProcessTerminated(p)
    BY <1>6
  <2> DEFINE B == {BrowserOf[c] : c \in {x \in Contexts : ProcessOf[x] = p}}
             S == {q \in queries : BrowserOf[q.ctx] \in B}
  <2>2. /\ S \in SUBSET queries /\ queries' = queries \ S /\ silenced' = silenced \cup {q.n : q \in S}
        /\ requests' = {r \in requests : ProcessOf[r.ctx] # p}
        /\ up' = [c \in Contexts |-> IF ProcessOf[c] = p THEN << >> ELSE up[c]]
        /\ down' = [c \in Contexts |-> IF ProcessOf[c] = p THEN << >> ELSE down[c]]
    BY <2>1 DEF OnRenderProcessTerminated
  <2> HIDE DEF S
  <2>3. \A r \in requests' : r.ctx \in Contexts
    BY <2>2 DEF Core, RendererOK, Requests
  <2>4. \A r \in requests' : up'[r.ctx] = up[r.ctx] /\ down'[r.ctx] = down[r.ctx]
    BY <2>2, <2>3
  <2>5. requests' \subseteq requests
    BY <2>2
  <2>6. QED
    BY <2>2, <2>4, <2>5, SilencedAnswer
<1>7. QED
  BY <1>2, <1>3, <1>4, <1>5, <1>6, StepKinds, SendQueryAnswer, ReceivesAnswer, QueryAnswer,
     CancelAnswer, CallbackAnswer, NotifiedAnswer, ReentersAnswer

-----------------------------------------------------------------------------
(* The invariant and what follows from it.                                 *)

LEMMA IInvCore ==
    IInv <=> Core /\ MiscOK /\ HandlersOK /\ Calls /\ RepliesOK /\ CancelOK /\ AbandonOK
BY DEF IInv, BaseInv, Core, Calls

LEMMA IInvInit ==
    ASSUME Init
    PROVE  IInv
<1>1. BaseInv /\ Calls /\ RepliesOK
  BY BaseInit, CallsInit
<1>2. queries = {} /\ \A c \in Contexts : up[c] = << >>
  BY DEF Init
<1>3. \A c \in Contexts : Range(up[c]) = {} /\ DOMAIN up[c] = {}
  BY <1>2 DEF Range
<1>4. CancelOK /\ AbandonOK
  BY <1>2, <1>3 DEF CancelOK, AbandonOK
<1>5. QED
  BY <1>1, <1>4 DEF IInv, Calls

LEMMA IInvStep ==
    ASSUME IInv, [Next]_vars
    PROVE  IInv'
<1>1. Core /\ MiscOK /\ HandlersOK /\ Calls /\ RepliesOK /\ CancelOK /\ AbandonOK
  BY IInvCore
<1>2. BaseInv'
  BY BaseStep DEF IInv
<1>3. Core'
  BY <1>2 DEF BaseInv, Core
<1>4. Calls' /\ RepliesOK' /\ CancelOK' /\ AbandonOK'
  BY <1>1, <1>3, CallsStep, RepliesStep, CancelStep, AbandonStep
<1>5. QED
  BY <1>2, <1>4 DEF IInv, Calls

(* The whole invariant holds in every reachable state: with the base, what   *)
(* is left of a call in the page, on the channels and in the browser agrees. *)
THEOREM Invariance == Spec => []IInv
<1>1. IInv /\ [Next]_vars => IInv'
  BY IInvStep
<1>2. QED
  BY <1>1, IInvInit, PTL DEF Spec

(* The JavaScript callbacks of a query are called with its own responses     *)
(* only, and nothing follows a failure (execute_success_callback,            *)
(* execute_failure_callback), for any number of contexts that share a        *)
(* process and whatever the order of responses and cancellations.            *)
THEOREM RepliesInProtocolHolds == Spec => []RepliesInProtocol
<1>1. IInv => RepliesInProtocol
  BY DEF IInv, RepliesOK
<1>2. QED
  BY <1>1, Invariance, PTL

(* No query is left pending, with its handler, when its page has stopped     *)
(* waiting for it: on_context_released's message that cancels it is on its   *)
(* way, or it is a persistent query that its handler has failed.             *)
THEOREM AbandonedIsCanceledHolds == Spec => []AbandonedIsCanceled
<1>1. ASSUME IInv PROVE AbandonedIsCanceled
  <2>1. ASSUME NEW q \in queries, \A r \in requests : r.n # q.n, q.query_id \notin failed
        PROVE  \E i \in DOMAIN up[q.ctx] : up[q.ctx][i].type = "cancel"
                                           /\ up[q.ctx][i].context_id = q.context_id
    <3>1. PICK m \in Range(up[q.ctx]) : m.type = "cancel" /\ m.context_id = q.context_id
      BY <1>1, <2>1 DEF IInv, AbandonOK, Abandoned
    <3>2. QED
      BY <3>1 DEF Range
  <2>2. QED
    BY <2>1 DEF AbandonedIsCanceled
<1>2. IInv => AbandonedIsCanceled
  BY <1>1
<1>3. QED
  BY <1>2, Invariance, PTL

LEMMA AnswerInit ==
    ASSUME Init
    PROVE  AnswerOK
BY DEF Init, AnswerOK

LEMMA AnswerableFromAnswer ==
    ASSUME IInv, AnswerOK
    PROVE  PendingIsAnswerable
<1>1. ASSUME NEW r \in requests, r.n \notin silenced
      PROVE  InUp(r.ctx, r.n) \/ (\E q \in queries : q.n = r.n) \/ InDown(r.ctx, r.n)
  <2>1. CASE \E m \in Asking(r.ctx) : m.n = r.n
    BY <2>1 DEF Asking, InUp, Range
  <2>2. CASE \E x \in Range(down[r.ctx]) : x.n = r.n
    BY <2>2 DEF InDown, Range
  <2>3. QED
    BY <1>1, <2>1, <2>2 DEF AnswerOK
<1>2. QED
  BY <1>1 DEF PendingIsAnswerable

(* Without site isolation, a page that waits has its query under way,        *)
(* pending or answered, unless the browser silenced it: no cancellation of   *)
(* another frame (cancel_pending_request) takes its query away.  With two    *)
(* processes in a browser this fails, as run router_isolated_frames shows.   *)
THEOREM PendingIsAnswerableHolds == SharedProcess => (Spec => []PendingIsAnswerable)
<1>1. SUFFICES ASSUME SharedProcess PROVE Spec => []PendingIsAnswerable
  OBVIOUS
<1>2. IInv /\ AnswerOK /\ [Next]_vars => (IInv /\ AnswerOK)'
  BY <1>1, IInvStep, IInvCore, AnswerStep
<1>3. Init => IInv /\ AnswerOK
  BY IInvInit, AnswerInit
<1>4. IInv /\ AnswerOK => PendingIsAnswerable
  BY AnswerableFromAnswer
<1>5. QED
  BY <1>2, <1>3, <1>4, PTL DEF Spec
===============================================================================
