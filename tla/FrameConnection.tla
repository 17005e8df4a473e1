--------------------------- MODULE FrameConnection ---------------------------
(***************************************************************************)
(* The Mojo connection between a frame of a renderer process, CefFrameImpl *)
(* (libcef/renderer/frame_impl.cc), and its host in the browser process,   *)
(* CefFrameHostImpl (libcef/browser/frame_host_impl.cc), reached through   *)
(* CefBrowserFrame (libcef/browser/browser_frame.cc).                      *)
(*                                                                         *)
(* One frame connects again and again; attempt n has two pipes of its own. *)
(* On the BrowserFrame pipe the renderer sends FrameAttached, with the     *)
(* remote end of the RenderFrame pipe, and then its messages.  On the      *)
(* RenderFrame pipe the browser sends FrameAttachedAck and then its        *)
(* messages.  A pipe delivers in order, what was sent before the closure   *)
(* of the pipe first; two pipes are not ordered with respect to each       *)
(* other.  The renderer opens and closes the two ends it has together.     *)
(***************************************************************************)
EXTENDS Integers, Sequences, FiniteSets

CONSTANTS
    Kinds,      \* the kinds of frames: a subset of {"main", "sub", "excluded"}
    RetryMax,   \* kConnectionRetryMaxCt
    MaxConn,    \* bound: connection attempts of the frame
    MaxSends,   \* bound: messages sent in each direction
    MaxEvents   \* bound: changes made to the page from outside

ASSUME ConstantsAssumption ==
    /\ Kinds \subseteq {"main", "sub", "excluded"}
    /\ {RetryMax, MaxConn, MaxSends, MaxEvents} \subseteq Nat

Attempts == 1..MaxConn

\* What travels on the pipes besides the messages 1..MaxSends.
FrameAttachedMsg == 0
AckAllow == 0
AckDeny == -1

VARIABLES
    kind,                     \* the kind of this frame; never changes
    \* CefFrameImpl
    frame_,                   \* whether the frame is still in the view
    browser_connection_state_, browser_connect_retry_ct_, attach_denied_,
    ever_connected_, did_commit_provisional_load_, queued_browser_actions_,
    conn,                     \* the attempt that the renderer's ends belong to
    in_bfcache,               \* blink_glue::IsInBackForwardCache(frame_)
    crashed,                  \* LOG(FATAL) at the end of OnDisconnect
    \* the pipes of each attempt
    browser_frame,            \* the browser's end of the BrowserFrame pipe
    up,                       \* what is on its way to the browser
    render_frame,             \* the browser's end of the RenderFrame pipe
    down,                     \* what is on its way to the renderer
    \* CefFrameHostImpl and CefBrowserInfo
    registered,               \* whether GetFrameHost finds the host
    browser_info_,            \* whether browser_info_ is set
    render_frame_host_,       \* whether render_frame_host_ is set
    render_frame_,            \* the attempt render_frame_ is bound to, or 0
    queued_renderer_actions_,
    cached,                   \* the page is in the BackForwardCache
    \* the rest of the world
    page_msgs,                \* lifecycle messages on their way to the renderer
    sent_up, sent_down, got_up, got_down,  \* messages sent, times received
    events

renderer == <<frame_, browser_connection_state_, browser_connect_retry_ct_,
              attach_denied_, ever_connected_, did_commit_provisional_load_,
              queued_browser_actions_, conn, in_bfcache, crashed>>
pipes == <<browser_frame, up, render_frame, down>>
host == <<registered, browser_info_, render_frame_host_, render_frame_,
          queued_renderer_actions_, cached>>
messages == <<sent_up, sent_down, got_up, got_down>>
vars == <<kind, renderer, pipes, host, page_msgs, messages, events>>

States == {"DISCONNECTED", "CONNECTION_PENDING", "CONNECTION_ACKED",
           "RECONNECT_PENDING"}

\* The renderer's ends of the pipes of attempt n are open.
Open(n) == /\ n = conn
           /\ browser_connection_state_ \in {"CONNECTION_PENDING", "CONNECTION_ACKED"}

Event == events < MaxEvents /\ events' = events + 1

Init ==
    /\ kind \in Kinds
    /\ frame_ = TRUE /\ browser_connection_state_ = "DISCONNECTED"
    /\ browser_connect_retry_ct_ = 0 /\ attach_denied_ = FALSE
    /\ ever_connected_ = FALSE /\ did_commit_provisional_load_ = FALSE
    /\ queued_browser_actions_ = << >> /\ conn = 0
    /\ in_bfcache = FALSE /\ crashed = FALSE
    /\ browser_frame = [n \in Attempts |-> "none"]
    /\ render_frame = [n \in Attempts |-> "none"]
    /\ up = [n \in Attempts |-> << >>] /\ down = [n \in Attempts |-> << >>]
    /\ registered = (kind # "excluded") /\ browser_info_ = registered
    /\ render_frame_host_ = registered /\ render_frame_ = 0
    /\ queued_renderer_actions_ = << >> /\ cached = FALSE
    /\ page_msgs = << >> /\ sent_up = 0 /\ sent_down = 0
    /\ got_up = [i \in 1..MaxSends |-> 0] /\ got_down = [i \in 1..MaxSends |-> 0]
    /\ events = 0

-----------------------------------------------------------------------------
(* The renderer process.                                                   *)

(* Requests a BrowserFrame pipe from the broker and sends FrameAttached on *)
(* it.  Assumption on time: this happens three seconds after a connection  *)
(* was lost, or when the page is shown or commits once more, and by then   *)
(* the browser has seen that the RenderFrame pipe before was closed.       *)
ConnectBrowserFrame ==
    IF ~frame_ \/ attach_denied_ \/ in_bfcache'
    THEN /\ browser_connection_state_' = "DISCONNECTED"
         /\ UNCHANGED <<conn, browser_frame, up>>
    ELSE /\ conn < MaxConn /\ render_frame_ = 0
         /\ conn' = conn + 1
         /\ browser_connection_state_' = "CONNECTION_PENDING"
         /\ browser_frame' = [browser_frame EXCEPT ![conn + 1] = "requested"]
         /\ up' = [up EXCEPT ![conn + 1] = <<FrameAttachedMsg>>]

OnDidCommitProvisionalLoad ==
    /\ frame_ /\ ~crashed
    /\ IF did_commit_provisional_load_ THEN Event ELSE UNCHANGED events
    /\ did_commit_provisional_load_' = TRUE
    /\ UNCHANGED in_bfcache
    /\ IF browser_connection_state_ = "DISCONNECTED"
       THEN ConnectBrowserFrame
       ELSE UNCHANGED <<browser_connection_state_, conn, browser_frame, up>>
    /\ UNCHANGED <<kind, frame_, browser_connect_retry_ct_, attach_denied_,
                   ever_connected_, queued_browser_actions_, crashed,
                   render_frame, down, host, page_msgs, messages>>

OnWasShown ==
    IF browser_connection_state_ = "DISCONNECTED" /\ did_commit_provisional_load_
    THEN ConnectBrowserFrame
    ELSE UNCHANGED <<browser_connection_state_, conn, browser_frame, up>>

\* The view is shown without having been in the BackForwardCache.
WasShown ==
    /\ frame_ /\ ~crashed /\ Event
    /\ UNCHANGED in_bfcache
    /\ OnWasShown
    /\ UNCHANGED <<kind, frame_, browser_connect_retry_ct_, attach_denied_,
                   ever_connected_, did_commit_provisional_load_,
                   queued_browser_actions_, crashed, render_frame, down, host,
                   page_msgs, messages>>

\* The renderer learns that the page entered or left the BackForwardCache;
\* a page that left it is shown.
PageLifecycle ==
    /\ frame_ /\ ~crashed /\ page_msgs # << >>
    /\ page_msgs' = Tail(page_msgs)
    /\ in_bfcache' = (Head(page_msgs) = "cached")
    /\ IF in_bfcache'
       THEN UNCHANGED <<browser_connection_state_, conn, browser_frame, up>>
       ELSE OnWasShown
    /\ UNCHANGED <<kind, frame_, browser_connect_retry_ct_, attach_denied_,
                   ever_connected_, did_commit_provisional_load_,
                   queued_browser_actions_, crashed, render_frame, down, host,
                   messages, events>>

\* The timer that OnDisconnect starts.
RetryTimer ==
    /\ ~crashed
    /\ browser_connection_state_ = "RECONNECT_PENDING"
    /\ UNCHANGED in_bfcache
    /\ ConnectBrowserFrame
    /\ UNCHANGED <<kind, frame_, browser_connect_retry_ct_, attach_denied_,
                   ever_connected_, did_commit_provisional_load_,
                   queued_browser_actions_, crashed, render_frame, down, host,
                   page_msgs, messages, events>>

(* Both ends are reset.  The frame reconnects after a delay unless it is   *)
(* gone or denied or the browser closed the pipe on purpose.  The handlers *)
(* of both pipes pass MOJO_RESULT_OK, so that connection_binding_declined  *)
(* is false and giving up crashes a main frame, whatever its past.  (An    *)
(* excluded frame stands for the main frame of a print preview dialog.)    *)
OnDisconnect(intentional) ==
    IF \/ frame_' /\ browser_connection_state_ = "RECONNECT_PENDING"
       \/ browser_connection_state_ = "DISCONNECTED"
    THEN UNCHANGED <<browser_connection_state_, browser_connect_retry_ct_,
                     crashed, down>>
    ELSE /\ down' = [down EXCEPT ![conn] = << >>]
         /\ IF ~frame_' \/ attach_denied_ \/ intentional
            THEN /\ browser_connection_state_' = "DISCONNECTED"
                 /\ UNCHANGED <<browser_connect_retry_ct_, crashed>>
            ELSE /\ browser_connect_retry_ct_' = browser_connect_retry_ct_ + 1
                 /\ browser_connection_state_' =
                        IF browser_connect_retry_ct_ < RetryMax
                        THEN "RECONNECT_PENDING" ELSE "DISCONNECTED"
                 /\ crashed' = (kind # "sub"
                                 /\ browser_connect_retry_ct_ >= RetryMax)

\* The browser's end of the BrowserFrame pipe was closed, without a reason.
OnBrowserFrameDisconnect ==
    /\ ~crashed /\ Open(conn)
    /\ browser_frame[conn] \in {"declined", "closed"}
    /\ UNCHANGED frame_
    /\ OnDisconnect(FALSE)
    /\ UNCHANGED <<kind, attach_denied_, ever_connected_,
                   did_commit_provisional_load_, queued_browser_actions_, conn,
                   in_bfcache, browser_frame, up, render_frame, host,
                   page_msgs, messages, events>>

\* The browser's end of the RenderFrame pipe was closed or dropped.
OnRenderFrameDisconnect ==
    /\ ~crashed /\ Open(conn)
    /\ render_frame[conn] \in {"dropped", "kDetached", "kExcluded"}
    /\ down[conn] = << >>
    /\ UNCHANGED frame_
    /\ OnDisconnect(render_frame[conn] # "dropped")
    /\ UNCHANGED <<kind, attach_denied_, ever_connected_,
                   did_commit_provisional_load_, queued_browser_actions_, conn,
                   in_bfcache, browser_frame, up, render_frame, host,
                   page_msgs, messages, events>>

OnDetached ==
    /\ frame_ /\ ~crashed /\ Event
    /\ frame_' = FALSE
    /\ OnDisconnect(FALSE)
    /\ queued_browser_actions_' = << >>
    /\ UNCHANGED <<kind, attach_denied_, ever_connected_,
                   did_commit_provisional_load_, conn, in_bfcache,
                   browser_frame, up, render_frame, host, page_msgs, messages>>

\* Mutant: the queue is flushed but not emptied.
FrameAttachedAckKeepsQueue ==
    /\ ~crashed /\ Open(conn) /\ down[conn] # << >>
    /\ Head(down[conn]) \in {AckAllow, AckDeny}
    /\ browser_connection_state_' = "CONNECTION_ACKED"
    /\ browser_connect_retry_ct_' = 0
    /\ down' = [down EXCEPT ![conn] = Tail(@)]
    /\ attach_denied_' = (attach_denied_ \/ Head(down[conn]) = AckDeny)
    /\ ever_connected_' = (ever_connected_ \/ Head(down[conn]) = AckAllow)
    /\ up' = [up EXCEPT ![conn] =
                IF Head(down[conn]) = AckAllow /\ browser_frame[conn] # "closed"
                THEN @ \o queued_browser_actions_ ELSE @]
    /\ UNCHANGED queued_browser_actions_
    /\ UNCHANGED <<kind, frame_, did_commit_provisional_load_, conn,
                   in_bfcache, crashed, browser_frame, render_frame, host,
                   page_msgs, messages, events>>

FrameAttachedAck ==
    /\ ~crashed /\ Open(conn) /\ down[conn] # << >>
    /\ Head(down[conn]) \in {AckAllow, AckDeny}
    /\ browser_connection_state_' = "CONNECTION_ACKED"
    /\ browser_connect_retry_ct_' = 0
    /\ down' = [down EXCEPT ![conn] = Tail(@)]
    /\ attach_denied_' = (attach_denied_ \/ Head(down[conn]) = AckDeny)
    /\ ever_connected_' = (ever_connected_ \/ Head(down[conn]) = AckAllow)
    /\ up' = [up EXCEPT ![conn] =
                IF Head(down[conn]) = AckAllow /\ browser_frame[conn] # "closed"
                THEN @ \o queued_browser_actions_ ELSE @]
    /\ queued_browser_actions_' = << >>
    /\ UNCHANGED <<kind, frame_, did_commit_provisional_load_, conn,
                   in_bfcache, crashed, browser_frame, render_frame, host,
                   page_msgs, messages, events>>

SendToBrowserFrame ==
    /\ ~crashed /\ sent_up < MaxSends
    /\ sent_up' = sent_up + 1
    /\ \/ /\ ~frame_ \/ attach_denied_
          /\ UNCHANGED <<queued_browser_actions_, up>>
       \/ /\ frame_ /\ ~attach_denied_
          /\ browser_connection_state_ # "CONNECTION_ACKED"
          /\ queued_browser_actions_' = Append(queued_browser_actions_, sent_up')
          /\ UNCHANGED up
       \/ /\ frame_ /\ ~attach_denied_
          /\ browser_connection_state_ = "CONNECTION_ACKED"
          /\ up' = IF browser_frame[conn] = "closed" THEN up
                   ELSE [up EXCEPT ![conn] = Append(@, sent_up')]
          /\ UNCHANGED queued_browser_actions_
    /\ UNCHANGED <<kind, frame_, browser_connection_state_,
                   browser_connect_retry_ct_, attach_denied_, ever_connected_,
                   did_commit_provisional_load_, conn, in_bfcache, crashed,
                   browser_frame, render_frame, down, host, page_msgs,
                   sent_down, got_up, got_down, events>>

\* CefFrameImpl::SendMessage: a message of the browser arrives.
RendererReceives ==
    /\ ~crashed /\ Open(conn) /\ down[conn] # << >>
    /\ Head(down[conn]) \notin {AckAllow, AckDeny}
    /\ got_down' = [got_down EXCEPT ![Head(down[conn])] = @ + 1]
    /\ down' = [down EXCEPT ![conn] = Tail(@)]
    /\ UNCHANGED <<kind, renderer, browser_frame, up, render_frame, host,
                   page_msgs, sent_up, sent_down, got_up, events>>

-----------------------------------------------------------------------------
(* The browser process.                                                    *)

\* The broker binds the request to a new CefBrowserFrame.
BindBrowserFrame(n) ==
    /\ browser_frame[n] = "requested"
    /\ browser_frame' = [browser_frame EXCEPT ![n] = "bound"]
    /\ UNCHANGED <<kind, renderer, up, render_frame, down, host, page_msgs,
                   messages, events>>

\* The browser's ends of the BrowserFrame pipes in S are closed.  What they
\* had not delivered is lost, with it a RenderFrame end still in FrameAttached.
Closed(S, as) ==
    /\ browser_frame' = [n \in Attempts |-> IF n \in S THEN as ELSE browser_frame[n]]
    /\ up' = [n \in Attempts |-> IF n \in S THEN << >> ELSE up[n]]
    /\ render_frame' = [n \in Attempts |->
                          IF n \in S /\ render_frame[n] = "none"
                          THEN "dropped" ELSE render_frame[n]]

\* A navigation resets the broker before the request arrives.
ResetBroker(n) ==
    /\ Event /\ browser_frame[n] = "requested"
    /\ Closed({n}, "declined")
    /\ UNCHANGED <<kind, renderer, down, host, page_msgs, messages>>

\* A new document commits in the same RenderFrameHost: the CefBrowserFrame,
\* a service of the old one, is deleted.
ResetDocument(n) ==
    /\ Event /\ browser_frame[n] = "bound"
    /\ Closed({n}, "closed")
    /\ UNCHANGED <<kind, renderer, down, host, page_msgs, messages>>

\* A CefBrowserFrame sees that the renderer closed the pipe.
BrowserFrameDone(n) ==
    /\ browser_frame[n] = "bound" /\ ~Open(n) /\ up[n] = << >>
    /\ Closed({n}, "closed")
    /\ UNCHANGED <<kind, renderer, down, host, page_msgs, messages, events>>

\* Puts the answer to FrameAttached on the RenderFrame pipe, if it is open.
Answer(n, seq) == down' = IF Open(n) THEN [down EXCEPT ![n] = seq] ELSE down

BindRemote(n) ==
    /\ render_frame' = [render_frame EXCEPT ![n] = "bound"]
    /\ render_frame_' = n
    /\ Answer(n, <<AckAllow>> \o queued_renderer_actions_)
    /\ queued_renderer_actions_' = << >>

DropRemote(n) ==
    /\ render_frame' = [render_frame EXCEPT ![n] = "dropped"]
    /\ UNCHANGED <<down, render_frame_, queued_renderer_actions_>>

\* Mutant: the ack is sent before browser_info_ is looked at.
HostFrameAttachedAcksFirst(n) ==
    \/ browser_info_ /\ BindRemote(n)
    \/ /\ ~browser_info_
       /\ render_frame' = [render_frame EXCEPT ![n] = "dropped"]
       /\ Answer(n, <<AckAllow>>)
       /\ UNCHANGED <<render_frame_, queued_renderer_actions_>>

\* Mutant: a detached host keeps the remote end without binding it.
HostFrameAttachedKeepsRemote(n) ==
    \/ browser_info_ /\ BindRemote(n)
    \/ /\ ~browser_info_
       /\ UNCHANGED <<render_frame, down, render_frame_, queued_renderer_actions_>>

\* CefFrameHostImpl::FrameAttached binds the remote end, acks and flushes the
\* queue; a host that was detached drops the remote end.
HostFrameAttached(n) ==
    \/ browser_info_ /\ BindRemote(n)
    \/ ~browser_info_ /\ DropRemote(n)

\* CefBrowserFrame::FrameAttached.  An excluded frame is denied and the pipe
\* closed; without a host the remote end is dropped.
FrameAttached(n) ==
    /\ browser_frame[n] = "bound" /\ up[n] # << >> /\ Head(up[n]) = FrameAttachedMsg
    /\ up' = [up EXCEPT ![n] = Tail(@)]
    /\ \/ registered /\ HostFrameAttached(n)
       \/ /\ ~registered /\ kind = "excluded"
          /\ render_frame' = [render_frame EXCEPT ![n] = "kExcluded"]
          /\ Answer(n, <<AckDeny>>)
          /\ UNCHANGED <<render_frame_, queued_renderer_actions_>>
       \/ ~registered /\ kind # "excluded" /\ DropRemote(n)
    /\ UNCHANGED <<kind, renderer, browser_frame, registered, browser_info_,
                   render_frame_host_, cached, page_msgs, messages, events>>

\* CefBrowserFrame::SendMessage: passed to the client unless the host is gone.
BrowserReceives(n) ==
    /\ browser_frame[n] = "bound" /\ up[n] # << >> /\ Head(up[n]) # FrameAttachedMsg
    /\ up' = [up EXCEPT ![n] = Tail(@)]
    /\ got_up' = IF registered /\ browser_info_
                 THEN [got_up EXCEPT ![Head(up[n])] = @ + 1] ELSE got_up
    /\ UNCHANGED <<kind, renderer, browser_frame, render_frame, down, host,
                   page_msgs, sent_up, sent_down, got_down, events>>

\* CefFrameHostImpl::OnRenderFrameDisconnect: the renderer closed the pipe.
HostOnRenderFrameDisconnect ==
    /\ render_frame_ # 0 /\ ~Open(render_frame_)
    /\ render_frame_' = 0
    /\ render_frame' = [render_frame EXCEPT ![render_frame_] = "dropped"]
    /\ UNCHANGED <<kind, renderer, browser_frame, up, down, registered,
                   browser_info_, render_frame_host_, queued_renderer_actions_,
                   cached, page_msgs, messages, events>>

SendToRenderFrame ==
    /\ kind # "excluded" /\ sent_down < MaxSends
    /\ sent_down' = sent_down + 1
    /\ \/ /\ ~render_frame_host_
          /\ UNCHANGED <<queued_renderer_actions_, down>>
       \/ /\ render_frame_host_ /\ render_frame_ = 0
          /\ queued_renderer_actions_' = Append(queued_renderer_actions_, sent_down')
          /\ UNCHANGED down
       \/ /\ render_frame_host_ /\ render_frame_ # 0
          /\ down' = IF Open(render_frame_)
                     THEN [down EXCEPT ![render_frame_] = Append(@, sent_down')]
                     ELSE down
          /\ UNCHANGED queued_renderer_actions_
    /\ UNCHANGED <<kind, renderer, browser_frame, up, render_frame, registered,
                   browser_info_, render_frame_host_, render_frame_, cached,
                   page_msgs, sent_up, got_up, got_down, events>>

\* Mutant: the pipe is closed without a reason.
DetachWithoutReason(is_current_main_frame) ==
    /\ render_frame_' = 0
    /\ render_frame' = [n \in Attempts |->
                          IF n = render_frame_ THEN "dropped" ELSE render_frame[n]]
    /\ render_frame_host_' = FALSE
    /\ IF is_current_main_frame
       THEN UNCHANGED <<browser_info_, queued_renderer_actions_>>
       ELSE /\ browser_info_' = FALSE
            /\ queued_renderer_actions_' = << >>

Detach(is_current_main_frame) ==
    /\ render_frame_' = 0
    /\ render_frame' = [n \in Attempts |->
                          IF n = render_frame_ THEN "kDetached" ELSE render_frame[n]]
    /\ render_frame_host_' = FALSE
    /\ IF is_current_main_frame
       THEN UNCHANGED <<browser_info_, queued_renderer_actions_>>
       ELSE /\ browser_info_' = FALSE
            /\ queued_renderer_actions_' = << >>

\* The page enters the BackForwardCache.  A new main frame takes over, which
\* detaches the host of the old one; the hosts of its sub-frames stay.
EnterBackForwardCache ==
    /\ Event /\ registered /\ ~cached
    /\ cached' = TRUE
    /\ page_msgs' = Append(page_msgs, "cached")
    /\ IF kind = "main" THEN Detach(FALSE)
       ELSE UNCHANGED <<render_frame, browser_info_, render_frame_host_,
                        render_frame_, queued_renderer_actions_>>
    /\ UNCHANGED <<kind, renderer, browser_frame, up, down, registered, messages>>

\* FrameHostStateChanged: the page is active again, its host is attached.
MaybeAttach ==
    /\ Event /\ registered /\ cached
    /\ cached' = FALSE
    /\ page_msgs' = Append(page_msgs, "active")
    /\ browser_info_' = TRUE /\ render_frame_host_' = TRUE
    /\ UNCHANGED <<kind, renderer, pipes, registered, render_frame_,
                   queued_renderer_actions_, messages>>

\* RemoveFrame: the RenderFrameHost is deleted, with it its CefBrowserFrames.
RemoveFrame ==
    /\ Event /\ registered
    /\ registered' = FALSE
    /\ LET gone == {n \in Attempts : browser_frame[n] \in {"requested", "bound"}}
       IN  /\ browser_frame' = [n \in Attempts |-> IF n \in gone THEN "closed"
                                                   ELSE browser_frame[n]]
           /\ up' = [n \in Attempts |-> IF n \in gone THEN << >> ELSE up[n]]
    /\ Detach(kind = "main" /\ ~cached)
    /\ UNCHANGED <<kind, renderer, down, cached, page_msgs, messages>>

-----------------------------------------------------------------------------
RendererNext ==
    \/ OnDidCommitProvisionalLoad \/ WasShown \/ PageLifecycle \/ RetryTimer
    \/ OnBrowserFrameDisconnect \/ OnRenderFrameDisconnect \/ OnDetached
    \/ FrameAttachedAck \/ SendToBrowserFrame \/ RendererReceives

BrowserNext ==
    \/ \E n \in Attempts : \/ BindBrowserFrame(n) \/ ResetBroker(n)
                           \/ ResetDocument(n) \/ BrowserFrameDone(n)
                           \/ FrameAttached(n) \/ BrowserReceives(n)
    \/ HostOnRenderFrameDisconnect \/ SendToRenderFrame
    \/ EnterBackForwardCache \/ MaybeAttach \/ RemoveFrame

Next == RendererNext \/ BrowserNext
Spec == Init /\ [][Next]_vars

\* Pipes deliver, tasks that were posted run and timers fire; nothing else is
\* certain to happen.
Fairness ==
    /\ WF_vars(PageLifecycle) /\ WF_vars(RetryTimer)
    /\ WF_vars(OnBrowserFrameDisconnect) /\ WF_vars(OnRenderFrameDisconnect)
    /\ WF_vars(FrameAttachedAck) /\ WF_vars(RendererReceives)
    /\ WF_vars(HostOnRenderFrameDisconnect)
    /\ \A n \in Attempts : /\ WF_vars(BindBrowserFrame(n))
                           /\ WF_vars(FrameAttached(n))
                           /\ WF_vars(BrowserReceives(n))
FairSpec == Spec /\ Fairness

-----------------------------------------------------------------------------
(* Properties.                                                             *)

RendererTypes ==
    /\ frame_ \in BOOLEAN /\ browser_connection_state_ \in States
    /\ browser_connect_retry_ct_ \in Nat /\ attach_denied_ \in BOOLEAN
    /\ ever_connected_ \in BOOLEAN /\ did_commit_provisional_load_ \in BOOLEAN
    /\ queued_browser_actions_ \in Seq(1..MaxSends)
    /\ conn \in 0..MaxConn /\ in_bfcache \in BOOLEAN /\ crashed \in BOOLEAN

PipeTypes ==
    /\ browser_frame \in [Attempts -> {"none", "requested", "bound", "declined", "closed"}]
    /\ render_frame \in [Attempts -> {"none", "bound", "dropped", "kDetached", "kExcluded"}]
    /\ up \in [Attempts -> Seq(0..MaxSends)] /\ down \in [Attempts -> Seq(-1..MaxSends)]

HostTypes ==
    /\ registered \in BOOLEAN /\ browser_info_ \in BOOLEAN
    /\ render_frame_host_ \in BOOLEAN /\ render_frame_ \in 0..MaxConn
    /\ queued_renderer_actions_ \in Seq(1..MaxSends) /\ cached \in BOOLEAN

MessageTypes ==
    /\ page_msgs \in Seq({"cached", "active"})
    /\ sent_up \in 0..MaxSends /\ sent_down \in 0..MaxSends
    /\ got_up \in [1..MaxSends -> Nat] /\ got_down \in [1..MaxSends -> Nat]
    /\ events \in 0..MaxEvents

\* The variables of both processes and of the pipes have their types.
TypeOK == kind \in Kinds /\ RendererTypes /\ PipeTypes /\ HostTypes /\ MessageTypes

\* What the renderer receives on an open pipe fits its state: the first thing
\* is the ack, which finds CONNECTION_PENDING (the CHECK_EQ of
\* FrameAttachedAck), and there is no second one.
AckComesFirst ==
    Open(conn) => \A i \in DOMAIN down[conn] :
        down[conn][i] \in {AckAllow, AckDeny}
            <=> i = 1 /\ browser_connection_state_ = "CONNECTION_PENDING"

\* Both processes agree on the connection: a renderer that sends without
\* queueing has a host bound to the other end of this very attempt, or the
\* news that it has not is on its way.
NoHalfOpenConnection ==
    browser_connection_state_ = "CONNECTION_ACKED" =>
        \/ render_frame_ = conn
        \/ render_frame[conn] \in {"kDetached", "kExcluded"}
        \/ browser_frame[conn] = "closed"

\* A host is never bound while it is detached (the CHECK of MaybeAttach) and
\* never keeps actions in its queue once it is bound.
BoundHostIsAttached ==
    render_frame_ # 0 => /\ render_frame_host_ /\ browser_info_ /\ registered
                         /\ render_frame[render_frame_] = "bound"
                         /\ queued_renderer_actions_ = << >>

\* An excluded frame is told so once and never asks again, and only excluded
\* frames are denied.
DenialIsFinal ==
    /\ attach_denied_ => kind = "excluded" /\ render_frame[conn] = "kExcluded"
    /\ kind = "excluded" => render_frame_ = 0 /\ ~ever_connected_

Positions(f, i) == {p \in Attempts \X (1..MaxSends + 1) :
                      p[2] \in DOMAIN f[p[1]] /\ f[p[1]][p[2]] = i}
Copies(queue, f, got, i) ==
    Cardinality({k \in DOMAIN queue : queue[k] = i})
        + Cardinality(Positions(f, i)) + got[i]

\* A message is queued, under way or received, and received at most once, over
\* any number of reconnects.
AtMostOnce ==
    \A i \in 1..MaxSends :
        /\ Copies(queued_browser_actions_, up, got_up, i) <= 1
        /\ Copies(queued_renderer_actions_, down, got_down, i) <= 1

\* A connection that the browser answered is retried only when its
\* CefBrowserFrame is gone.  As long as that lives, the renderer gives up
\* quietly when the host is detached or the frame denied, for it reads the
\* reason from the only pipe that was closed; it does so acked or still
\* pending, the ack unread.  This covers a page that enters the
\* BackForwardCache, not one that is deleted: see NoRetryAfterDeletion.
RetriedOnlyAfterClosure ==
    [][/\ Open(conn)
       /\ \/ browser_connection_state_ = "CONNECTION_ACKED"
          \/ render_frame[conn] \in {"kDetached", "kExcluded"}
       /\ browser_connection_state_' = "RECONNECT_PENDING"
       => browser_frame[conn] = "closed"]_vars

\* frame_impl.cc: there is no retry "if the browser process has intentionally
\* detached".  A deletion closes the BrowserFrame pipe too, without a reason,
\* and a renderer that hears of that closure first does retry.
NoRetryAfterDeletion ==
    [][Open(conn) /\ render_frame[conn] = "kDetached"
        => browser_connection_state_' # "RECONNECT_PENDING"]_vars

\* Every attempt is answered or given up: a frame does not stay pending, and
\* what it queued leaves the queue unless the frame is disconnected.
AttemptsSettle ==
    /\ browser_connection_state_ = "CONNECTION_PENDING"
         ~> browser_connection_state_ # "CONNECTION_PENDING"
    /\ queued_browser_actions_ # << >>
         ~> \/ queued_browser_actions_ = << >>
            \/ browser_connection_state_ = "DISCONNECTED"

\* frame_impl.cc: giving up does not crash a frame whose connection the browser
\* declined and that had never been connected.
NoCrashWhenDeclined ==
    crashed => ever_connected_ \/ browser_frame[conn] # "declined"

\* frame_impl.cc: a frame that returns from the BackForwardCache to active
\* status is reconnected.
ReconnectsAfterRestore ==
    (~cached /\ registered /\ did_commit_provisional_load_ /\ ~crashed /\ frame_)
        ~> \/ browser_connection_state_ = "CONNECTION_ACKED"
           \/ cached \/ ~registered \/ ~frame_ \/ crashed

\* The two ends of a frame's connection fit together at every moment: the state
\* is well typed, acks find the state they CHECK for, an acked renderer and a
\* bound host belong to each other, and a denied frame stays denied.
EndsAgree ==
    TypeOK /\ AckComesFirst /\ NoHalfOpenConnection /\ BoundHostIsAttached /\ DenialIsFinal
=============================================================================
