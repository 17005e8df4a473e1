------------------------ MODULE FrameConnectionProofs ------------------------
(***************************************************************************)
(* Proofs about FrameConnection for any number of attempts, retries,       *)
(* messages and events: the two ends of a connection agree, messages are   *)
(* delivered at most once and an intentional detach is not retried.        *)
(***************************************************************************)
EXTENDS FrameConnection, TLAPS, SequenceTheorems, FiniteSetTheorems

(* The inductive invariant behind EndsAgree.                               *)

Asks(n) == up[n] # << >> /\ up[n][1] = FrameAttachedMsg

\* FrameAttached is the first message of an attempt, and while it is under way
\* the browser has not touched the remote end that it carries.
AttachOK ==
    \A n \in Attempts :
        /\ \A i \in DOMAIN up[n] : up[n][i] = FrameAttachedMsg => i = 1
        /\ Asks(n) => render_frame[n] = "none" /\ browser_frame[n] \in {"requested", "bound"}
        /\ browser_frame[n] = "requested" => render_frame[n] = "none"
        /\ browser_frame[n] = "declined" => render_frame[n] = "dropped"

\* Attempts to come have left no trace, and what the renderer has closed
\* delivers nothing to it.
FreshOK ==
    /\ \A n \in Attempts : n > conn =>
          browser_frame[n] = "none" /\ render_frame[n] = "none" /\ up[n] = << >>
    /\ \A n \in Attempts : ~Open(n) => down[n] = << >>
    /\ render_frame_ <= conn
    /\ conn = 0 => browser_connection_state_ = "DISCONNECTED" /\ ~attach_denied_

\* Only the latest attempt can still ask, while the host is bound to none; as
\* long as the frame lives it does so only if the renderer's ends are open.
LatestAsks ==
    \A n \in Attempts : Asks(n) => n = conn /\ render_frame_ = 0 /\ (frame_ => Open(n))

\* The answer is on its way to the renderer exactly when the browser has given
\* one, and it is the right one.
AnswerOK ==
    Open(conn) =>
        /\ down[conn] # << >> \/ browser_connection_state_ = "CONNECTION_ACKED" =>
              render_frame_ = conn \/ render_frame[conn] \in {"kDetached", "kExcluded"}
        /\ render_frame_ = conn /\ browser_connection_state_ = "CONNECTION_PENDING" =>
              down[conn] # << >>
        /\ \A i \in DOMAIN down[conn] :
              /\ down[conn][i] = AckDeny =>
                    kind = "excluded" /\ render_frame[conn] = "kExcluded"
              /\ down[conn][i] = AckAllow => kind # "excluded"

\* A host that can be found is attached to both or to none.
HostOK ==
    /\ registered => (browser_info_ <=> render_frame_host_)
    /\ kind = "excluded" => ~registered
    /\ \A n \in Attempts : render_frame[n] = "bound" => n = render_frame_

IInv ==
    /\ TypeOK /\ AttachOK /\ FreshOK /\ LatestAsks /\ AnswerOK /\ HostOK
    /\ AckComesFirst /\ BoundHostIsAttached /\ DenialIsFinal

-----------------------------------------------------------------------------
(* Type correctness, one lemma for each group of actions.                  *)

\* What the provers need to know about the queues and the pipes.
LEMMA EmptyQueues ==
    /\ << >> \in Seq(1..MaxSends) /\ << >> \in Seq(0..MaxSends)
    /\ << >> \in Seq(-1..MaxSends) /\ << >> \in Seq({"cached", "active"})
OBVIOUS

LEMMA WiderQueues ==
    ASSUME NEW q \in Seq(1..MaxSends)
    PROVE  q \in Seq(0..MaxSends) /\ q \in Seq(-1..MaxSends)
<1>1. 1..MaxSends \subseteq 0..MaxSends /\ 1..MaxSends \subseteq -1..MaxSends
  BY ConstantsAssumption
<1>2. QED
  BY <1>1, SeqMonotonic

LEMMA SendKeepsType ==
    ASSUME NEW T, NEW f \in [Attempts -> Seq(T)], NEW m \in T, NEW k
    PROVE  [f EXCEPT ![k] = Append(@, m)] \in [Attempts -> Seq(T)]
<1>1. \A n \in Attempts : Append(f[n], m) \in Seq(T)
  BY AppendProperties
<1>2. QED
  BY <1>1

LEMMA AppendPlaces ==
    ASSUME NEW T, NEW s \in Seq(T), NEW m \in T
    PROVE  /\ DOMAIN s \subseteq DOMAIN Append(s, m) /\ Append(s, m) # << >>
           /\ \A i \in DOMAIN Append(s, m) :
                 \/ i \in DOMAIN s /\ Append(s, m)[i] = s[i]
                 \/ Append(s, m)[i] = m /\ i = Len(s) + 1 /\ (s # << >> => i # 1)
<1>1. /\ DOMAIN s = 1..Len(s) /\ Len(s) \in Nat /\ (s # << >> => Len(s) # 0)
  OBVIOUS
<1>2. /\ DOMAIN Append(s, m) = 1..(Len(s) + 1) /\ Append(s, m)[Len(s) + 1] = m
      /\ \A i \in 1..Len(s) : Append(s, m)[i] = s[i]
  OBVIOUS
<1>3. QED
  BY <1>1, <1>2

LEMMA SendEffect ==
    ASSUME NEW T, NEW f \in [Attempts -> Seq(T)], NEW m, NEW k, NEW n \in Attempts
    PROVE  LET g == [f EXCEPT ![k] = Append(@, m)]
           IN  (n = k => g[n] = Append(f[n], m)) /\ (n # k => g[n] = f[n])
OBVIOUS

\* The messages that a pipe delivers first.
LEMMA FirstMessage ==
    ASSUME PipeTypes, NEW n \in Attempts
    PROVE  /\ up[n] # << >> => /\ Head(up[n]) \in 0..MaxSends /\ Head(up[n]) = up[n][1]
                               /\ Tail(up[n]) \in Seq(0..MaxSends)
           /\ down[n] # << >> => /\ Head(down[n]) \in -1..MaxSends /\ Head(down[n]) = down[n][1]
                                 /\ Tail(down[n]) \in Seq(-1..MaxSends)
<1>1. up[n] \in Seq(0..MaxSends) /\ down[n] \in Seq(-1..MaxSends)
  BY DEF PipeTypes
<1>2. ASSUME up[n] # << >>
      PROVE  /\ Head(up[n]) \in 0..MaxSends /\ Head(up[n]) = up[n][1]
             /\ Tail(up[n]) \in Seq(0..MaxSends)
  <2>1. Head(up[n]) = up[n][1]
    BY <1>1, <1>2
  <2>2. QED
    BY <1>1, <1>2, <2>1, HeadTailProperties
<1>3. ASSUME down[n] # << >>
      PROVE  /\ Head(down[n]) \in -1..MaxSends /\ Head(down[n]) = down[n][1]
             /\ Tail(down[n]) \in Seq(-1..MaxSends)
  <2>1. Head(down[n]) = down[n][1]
    BY <1>1, <1>3
  <2>2. QED
    BY <1>1, <1>3, <2>1, HeadTailProperties
<1>4. QED
  BY <1>2, <1>3

LEMMA InitIInv == Init => IInv
<1> SUFFICES ASSUME Init PROVE IInv
  OBVIOUS
<1> USE ConstantsAssumption
<1>1. TypeOK
  <2>1. << >> \in Seq(0..MaxSends) /\ << >> \in Seq(-1..MaxSends) /\ << >> \in Seq(1..MaxSends)
        /\ << >> \in Seq({"cached", "active"})
    OBVIOUS
  <2>2. /\ registered \in BOOLEAN /\ browser_info_ \in BOOLEAN /\ render_frame_host_ \in BOOLEAN
    BY DEF Init
  <2>3. QED
    <3>1. RendererTypes
      <4>1. /\ frame_ \in BOOLEAN /\ attach_denied_ \in BOOLEAN /\ ever_connected_ \in BOOLEAN
            /\ did_commit_provisional_load_ \in BOOLEAN /\ in_bfcache \in BOOLEAN
            /\ crashed \in BOOLEAN
        BY Zenon DEF Init
      <4>2. /\ queued_browser_actions_ = << >> /\ conn = 0 /\ browser_connect_retry_ct_ = 0
            /\ browser_connection_state_ = "DISCONNECTED"
        BY DEF Init
      <4>3. QED
        BY <2>1, <4>1, <4>2 DEF RendererTypes, States
    <3>2. HostTypes
      <4>1. cached \in BOOLEAN
        BY Zenon DEF Init
      <4>2. queued_renderer_actions_ = << >> /\ render_frame_ = 0
        BY DEF Init
      <4>3. QED
        BY <2>1, <2>2, <4>1, <4>2 DEF HostTypes
    <3>3. PipeTypes
      BY <2>1 DEF Init, PipeTypes
    <3>4. MessageTypes
      BY <2>1 DEF Init, MessageTypes
    <3>5. QED
      BY <3>1, <3>2, <3>3, <3>4 DEF TypeOK, Init
<1>2. AttachOK /\ FreshOK
  BY DEF Init, AttachOK, FreshOK, Asks
<1>3. LatestAsks /\ AnswerOK
  BY DEF Init, LatestAsks, AnswerOK, Asks, Open
<1>4. HostOK /\ AckComesFirst /\ BoundHostIsAttached /\ DenialIsFinal
  BY DEF Init, HostOK, AckComesFirst, BoundHostIsAttached, DenialIsFinal, Open
<1>5. QED
  BY <1>1, <1>2, <1>3, <1>4 DEF IInv

LEMMA ConnectType ==
    ASSUME TypeOK, ConnectBrowserFrame
    PROVE  /\ browser_connection_state_' \in States /\ conn' \in 0..MaxConn
           /\ browser_frame' \in [Attempts -> {"none", "requested", "bound", "declined", "closed"}]
           /\ up' \in [Attempts -> Seq(0..MaxSends)]
<1> USE ConstantsAssumption
<1>1. CASE ~frame_ \/ attach_denied_ \/ in_bfcache'
  BY <1>1 DEF TypeOK, RendererTypes, PipeTypes, ConnectBrowserFrame, States
<1>2. CASE ~(~frame_ \/ attach_denied_ \/ in_bfcache')
  <2>1. <<FrameAttachedMsg>> \in Seq(0..MaxSends)
    BY DEF FrameAttachedMsg
  <2>2. conn \in 0..MaxConn /\ conn < MaxConn /\ conn' = conn + 1 /\ conn + 1 \in Attempts
    BY <1>2 DEF TypeOK, RendererTypes, PipeTypes, ConnectBrowserFrame, Attempts
  <2>3. /\ browser_connection_state_' = "CONNECTION_PENDING"
        /\ browser_frame' = [browser_frame EXCEPT ![conn + 1] = "requested"]
        /\ up' = [up EXCEPT ![conn + 1] = <<FrameAttachedMsg>>]
    BY <1>2 DEF ConnectBrowserFrame
  <2>4. QED
    BY <2>1, <2>2, <2>3 DEF TypeOK, RendererTypes, PipeTypes, States
<1>3. QED
  BY <1>1, <1>2

LEMMA ConnectingType ==
    ASSUME TypeOK,
           OnDidCommitProvisionalLoad \/ WasShown \/ PageLifecycle \/ RetryTimer
    PROVE  TypeOK'
<1> USE ConstantsAssumption
<1>1. CASE OnDidCommitProvisionalLoad
  <2>1. RendererTypes'
    BY <1>1, ConnectType DEF OnDidCommitProvisionalLoad, TypeOK, RendererTypes
  <2>2. PipeTypes'
    BY <1>1, ConnectType DEF OnDidCommitProvisionalLoad, TypeOK, PipeTypes
  <2>3. HostTypes'
    BY <1>1 DEF OnDidCommitProvisionalLoad, TypeOK, HostTypes, host
  <2>4. MessageTypes'
    BY <1>1 DEF OnDidCommitProvisionalLoad, TypeOK, MessageTypes, messages, Event
  <2>5. QED
    BY <1>1, <2>1, <2>2, <2>3, <2>4 DEF OnDidCommitProvisionalLoad, TypeOK
<1>2. CASE WasShown
  <2>1. RendererTypes'
    BY <1>2, ConnectType DEF WasShown, TypeOK, RendererTypes, OnWasShown
  <2>2. PipeTypes'
    BY <1>2, ConnectType DEF WasShown, TypeOK, PipeTypes, OnWasShown
  <2>3. HostTypes'
    BY <1>2 DEF WasShown, TypeOK, HostTypes, host
  <2>4. MessageTypes'
    BY <1>2 DEF WasShown, TypeOK, MessageTypes, messages, Event
  <2>5. QED
    BY <1>2, <2>1, <2>2, <2>3, <2>4 DEF WasShown, TypeOK
<1>3. CASE PageLifecycle
  <2>1. RendererTypes'
    BY <1>3, ConnectType DEF PageLifecycle, TypeOK, RendererTypes, OnWasShown
  <2>2. PipeTypes'
    BY <1>3, ConnectType DEF PageLifecycle, TypeOK, PipeTypes, OnWasShown
  <2>3. HostTypes'
    BY <1>3 DEF PageLifecycle, TypeOK, HostTypes, host
  <2>4. MessageTypes'
    BY <1>3 DEF PageLifecycle, TypeOK, MessageTypes, messages
  <2>5. QED
    BY <1>3, <2>1, <2>2, <2>3, <2>4 DEF PageLifecycle, TypeOK
<1>4. CASE RetryTimer
  <2>1. RendererTypes'
    BY <1>4, ConnectType DEF RetryTimer, TypeOK, RendererTypes
  <2>2. PipeTypes'
    BY <1>4, ConnectType DEF RetryTimer, TypeOK, PipeTypes
  <2>3. HostTypes'
    BY <1>4 DEF RetryTimer, TypeOK, HostTypes, host
  <2>4. MessageTypes'
    BY <1>4 DEF RetryTimer, TypeOK, MessageTypes, messages
  <2>5. QED
    BY <1>4, <2>1, <2>2, <2>3, <2>4 DEF RetryTimer, TypeOK
<1>5. QED
  BY <1>1, <1>2, <1>3, <1>4

LEMMA DisconnectType ==
    ASSUME TypeOK, NEW intentional \in BOOLEAN, OnDisconnect(intentional)
    PROVE  /\ browser_connection_state_' \in States /\ browser_connect_retry_ct_' \in Nat
           /\ crashed' \in BOOLEAN /\ down' \in [Attempts -> Seq(-1..MaxSends)]
<1> USE ConstantsAssumption
<1>1. down' \in [Attempts -> Seq(-1..MaxSends)]
  BY EmptyQueues DEF TypeOK, PipeTypes, OnDisconnect
<1>2. browser_connect_retry_ct_' \in Nat /\ browser_connection_state_' \in States
  BY DEF TypeOK, RendererTypes, OnDisconnect, States
<1>3. crashed' \in BOOLEAN
  BY Zenon DEF TypeOK, RendererTypes, OnDisconnect
<1>4. QED
  BY <1>1, <1>2, <1>3

LEMMA DisconnectingType ==
    ASSUME TypeOK,
           OnBrowserFrameDisconnect \/ OnRenderFrameDisconnect \/ OnDetached
    PROVE  TypeOK'
<1> USE ConstantsAssumption
<1>1. CASE OnBrowserFrameDisconnect
  <2>1. RendererTypes'
    BY <1>1, DisconnectType DEF OnBrowserFrameDisconnect, TypeOK, RendererTypes
  <2>2. PipeTypes'
    BY <1>1, DisconnectType DEF OnBrowserFrameDisconnect, TypeOK, PipeTypes
  <2>3. HostTypes'
    BY <1>1 DEF OnBrowserFrameDisconnect, TypeOK, HostTypes, host
  <2>4. MessageTypes'
    BY <1>1 DEF OnBrowserFrameDisconnect, TypeOK, MessageTypes, messages
  <2>5. QED
    BY <1>1, <2>1, <2>2, <2>3, <2>4 DEF OnBrowserFrameDisconnect, TypeOK
<1>2. CASE OnRenderFrameDisconnect
  <2>1. RendererTypes'
    BY <1>2, DisconnectType DEF OnRenderFrameDisconnect, TypeOK, RendererTypes
  <2>2. PipeTypes'
    BY <1>2, DisconnectType DEF OnRenderFrameDisconnect, TypeOK, PipeTypes
  <2>3. HostTypes'
    BY <1>2 DEF OnRenderFrameDisconnect, TypeOK, HostTypes, host
  <2>4. MessageTypes'
    BY <1>2 DEF OnRenderFrameDisconnect, TypeOK, MessageTypes, messages
  <2>5. QED
    BY <1>2, <2>1, <2>2, <2>3, <2>4 DEF OnRenderFrameDisconnect, TypeOK
<1>3. CASE OnDetached
  <2>1. RendererTypes'
    BY <1>3, DisconnectType, EmptyQueues DEF OnDetached, TypeOK, RendererTypes
  <2>2. PipeTypes'
    BY <1>3, DisconnectType DEF OnDetached, TypeOK, PipeTypes
  <2>3. HostTypes'
    BY <1>3 DEF OnDetached, TypeOK, HostTypes, host
  <2>4. MessageTypes'
    BY <1>3 DEF OnDetached, TypeOK, MessageTypes, messages, Event
  <2>5. QED
    BY <1>3, <2>1, <2>2, <2>3, <2>4 DEF OnDetached, TypeOK
<1>4. QED
  BY <1>1, <1>2, <1>3

\* An open end belongs to an attempt.
LEMMA OpenIsAttempt ==
    ASSUME TypeOK, FreshOK, Open(conn)
    PROVE  conn \in Attempts
BY ConstantsAssumption DEF TypeOK, RendererTypes, FreshOK, Open, Attempts

LEMMA RendererMessageType ==
    ASSUME TypeOK, FreshOK,
           FrameAttachedAck \/ SendToBrowserFrame \/ RendererReceives
    PROVE  TypeOK'
<1> USE ConstantsAssumption
<1>1. CASE FrameAttachedAck
  <2>1. RendererTypes'
    BY <1>1 DEF FrameAttachedAck, TypeOK, RendererTypes, States
  <2>2. PipeTypes'
    <3>1. conn \in Attempts
      BY <1>1, OpenIsAttempt DEF FrameAttachedAck
    <3>2. up[conn] \o queued_browser_actions_ \in Seq(0..MaxSends)
      BY <3>1, WiderQueues, ConcatProperties DEF TypeOK, PipeTypes, RendererTypes
    <3>3. Tail(down[conn]) \in Seq(-1..MaxSends)
      BY <1>1, <3>1, FirstMessage DEF FrameAttachedAck, TypeOK
    <3>4. QED
      BY <1>1, <3>1, <3>2, <3>3 DEF FrameAttachedAck, TypeOK, PipeTypes
  <2>3. HostTypes'
    BY <1>1 DEF FrameAttachedAck, TypeOK, HostTypes, host
  <2>4. MessageTypes'
    BY <1>1 DEF FrameAttachedAck, TypeOK, MessageTypes, messages
  <2>5. QED
    BY <1>1, <2>1, <2>2, <2>3, <2>4 DEF FrameAttachedAck, TypeOK
<1>2. CASE SendToBrowserFrame
  <2>1. RendererTypes'
    <3>1. sent_up' \in 1..MaxSends
      BY <1>2 DEF SendToBrowserFrame, TypeOK, MessageTypes
    <3>2. Append(queued_browser_actions_, sent_up') \in Seq(1..MaxSends)
      BY <3>1, AppendProperties DEF TypeOK, RendererTypes
    <3>3. QED
      BY <1>2, <3>2 DEF SendToBrowserFrame, TypeOK, RendererTypes
  <2>2. PipeTypes'
    <3>1. sent_up' \in 0..MaxSends
      BY <1>2 DEF SendToBrowserFrame, TypeOK, MessageTypes
    <3>2. [up EXCEPT ![conn] = Append(@, sent_up')] \in [Attempts -> Seq(0..MaxSends)]
      BY <3>1, SendKeepsType DEF TypeOK, PipeTypes
    <3>3. QED
      <4>1. up' = up \/ up' = [up EXCEPT ![conn] = Append(@, sent_up')]
        BY <1>2 DEF SendToBrowserFrame
      <4>2. UNCHANGED <<browser_frame, render_frame, down>>
        BY <1>2 DEF SendToBrowserFrame
      <4>3. up' \in [Attempts -> Seq(0..MaxSends)]
        BY <3>2, <4>1 DEF TypeOK, PipeTypes
      <4>4. QED
        BY <4>2, <4>3 DEF TypeOK, PipeTypes
  <2>3. HostTypes'
    BY <1>2 DEF SendToBrowserFrame, TypeOK, HostTypes, host
  <2>4. MessageTypes'
    BY <1>2 DEF SendToBrowserFrame, TypeOK, MessageTypes
  <2>5. QED
    BY <1>2, <2>1, <2>2, <2>3, <2>4 DEF SendToBrowserFrame, TypeOK
<1>3. CASE RendererReceives
  <2>1. RendererTypes'
    BY <1>3 DEF RendererReceives, TypeOK, RendererTypes, renderer
  <2>2. PipeTypes'
    <3>1. Tail(down[conn]) \in Seq(-1..MaxSends)
      BY <1>3, OpenIsAttempt, FirstMessage DEF RendererReceives, TypeOK
    <3>2. QED
      BY <1>3, <3>1 DEF RendererReceives, TypeOK, PipeTypes
  <2>3. HostTypes'
    BY <1>3 DEF RendererReceives, TypeOK, HostTypes, host
  <2>4. MessageTypes'
    <3>1. Head(down[conn]) \in 1..MaxSends
      BY SMTT(30), <1>3, OpenIsAttempt, FirstMessage DEF RendererReceives, TypeOK, AckAllow, AckDeny
    <3>2. QED
      BY SMTT(30), <1>3, <3>1 DEF RendererReceives, TypeOK, MessageTypes
  <2>5. QED
    BY <1>3, <2>1, <2>2, <2>3, <2>4 DEF RendererReceives, TypeOK
<1>4. QED
  BY <1>1, <1>2, <1>3

LEMMA ClosedType ==
    ASSUME PipeTypes, NEW S, NEW as \in {"declined", "closed"}, Closed(S, as)
    PROVE  /\ browser_frame' \in [Attempts -> {"none", "requested", "bound", "declined", "closed"}]
           /\ render_frame' \in [Attempts -> {"none", "bound", "dropped", "kDetached", "kExcluded"}]
           /\ up' \in [Attempts -> Seq(0..MaxSends)]
<1>1. browser_frame' \in [Attempts -> {"none", "requested", "bound", "declined", "closed"}]
  BY DEF PipeTypes, Closed
<1>2. render_frame' \in [Attempts -> {"none", "bound", "dropped", "kDetached", "kExcluded"}]
  BY DEF PipeTypes, Closed
<1>3. up' \in [Attempts -> Seq(0..MaxSends)]
  BY EmptyQueues DEF PipeTypes, Closed
<1>4. QED
  BY <1>1, <1>2, <1>3

LEMMA BrowserFrameType ==
    ASSUME TypeOK,
           NEW n \in Attempts,
           \/ BindBrowserFrame(n) \/ ResetBroker(n) \/ ResetDocument(n)
           \/ BrowserFrameDone(n) \/ BrowserReceives(n)
    PROVE  TypeOK'
<1> USE ConstantsAssumption
<1>1. CASE BindBrowserFrame(n)
  <2>1. RendererTypes'
    BY <1>1 DEF BindBrowserFrame, TypeOK, RendererTypes, renderer
  <2>2. PipeTypes'
    BY <1>1 DEF BindBrowserFrame, TypeOK, PipeTypes
  <2>3. HostTypes'
    BY <1>1 DEF BindBrowserFrame, TypeOK, HostTypes, host
  <2>4. MessageTypes'
    BY <1>1 DEF BindBrowserFrame, TypeOK, MessageTypes, messages
  <2>5. QED
    BY <1>1, <2>1, <2>2, <2>3, <2>4 DEF BindBrowserFrame, TypeOK
<1>2. CASE ResetBroker(n)
  <2>1. RendererTypes'
    BY <1>2 DEF ResetBroker, TypeOK, RendererTypes, renderer
  <2>2. PipeTypes'
    BY <1>2, ClosedType DEF ResetBroker, TypeOK, PipeTypes
  <2>3. HostTypes'
    BY <1>2 DEF ResetBroker, TypeOK, HostTypes, host
  <2>4. MessageTypes'
    BY <1>2 DEF ResetBroker, TypeOK, MessageTypes, messages, Event
  <2>5. QED
    BY <1>2, <2>1, <2>2, <2>3, <2>4 DEF ResetBroker, TypeOK
<1>3. CASE ResetDocument(n)
  <2>1. RendererTypes'
    BY <1>3 DEF ResetDocument, TypeOK, RendererTypes, renderer
  <2>2. PipeTypes'
    BY <1>3, ClosedType DEF ResetDocument, TypeOK, PipeTypes
  <2>3. HostTypes'
    BY <1>3 DEF ResetDocument, TypeOK, HostTypes, host
  <2>4. MessageTypes'
    BY <1>3 DEF ResetDocument, TypeOK, MessageTypes, messages, Event
  <2>5. QED
    BY <1>3, <2>1, <2>2, <2>3, <2>4 DEF ResetDocument, TypeOK
<1>4. CASE BrowserFrameDone(n)
  <2>1. RendererTypes'
    BY <1>4 DEF BrowserFrameDone, TypeOK, RendererTypes, renderer
  <2>2. PipeTypes'
    BY <1>4, ClosedType DEF BrowserFrameDone, TypeOK, PipeTypes
  <2>3. HostTypes'
    BY <1>4 DEF BrowserFrameDone, TypeOK, HostTypes, host
  <2>4. MessageTypes'
    BY <1>4 DEF BrowserFrameDone, TypeOK, MessageTypes, messages
  <2>5. QED
    BY <1>4, <2>1, <2>2, <2>3, <2>4 DEF BrowserFrameDone, TypeOK
<1>5. CASE BrowserReceives(n)
  <2>1. RendererTypes'
    BY <1>5 DEF BrowserReceives, TypeOK, RendererTypes, renderer
  <2>2. PipeTypes'
    BY <1>5 DEF BrowserReceives, TypeOK, PipeTypes
  <2>3. HostTypes'
    BY <1>5 DEF BrowserReceives, TypeOK, HostTypes, host
  <2>4. MessageTypes'
    <3>1. Head(up[n]) \in 1..MaxSends
      BY <1>5, FirstMessage DEF BrowserReceives, TypeOK, FrameAttachedMsg
    <3>2. QED
      <4>1. got_up' = got_up \/ got_up' = [got_up EXCEPT ![Head(up[n])] = @ + 1]
        BY <1>5 DEF BrowserReceives
      <4>2. UNCHANGED <<page_msgs, sent_up, sent_down, got_down, events>>
        BY <1>5 DEF BrowserReceives
      <4>3. QED
        BY SMTT(60), <3>1, <4>1, <4>2 DEF TypeOK, MessageTypes
  <2>5. QED
    BY <1>5, <2>1, <2>2, <2>3, <2>4 DEF BrowserReceives, TypeOK
<1>6. QED
  BY <1>1, <1>2, <1>3, <1>4, <1>5

LEMMA FrameAttachedType ==
    ASSUME TypeOK, NEW n \in Attempts, FrameAttached(n)
    PROVE  TypeOK'
<1> USE ConstantsAssumption
<1>1. RendererTypes' /\ MessageTypes'
  BY DEF TypeOK, RendererTypes, MessageTypes, FrameAttached, renderer, messages
<1>2. <<AckAllow>> \o queued_renderer_actions_ \in Seq(-1..MaxSends)
      /\ <<AckDeny>> \in Seq(-1..MaxSends) /\ << >> \in Seq(1..MaxSends)
  BY DEF TypeOK, HostTypes, AckAllow, AckDeny
<1>3. n \in 0..MaxConn
  BY DEF Attempts
<1>4. PipeTypes'
  <2>1. up' \in [Attempts -> Seq(0..MaxSends)]
    BY FirstMessage DEF TypeOK, PipeTypes, FrameAttached
  <2>2. down' \in [Attempts -> Seq(-1..MaxSends)]
    BY <1>2 DEF TypeOK, PipeTypes, FrameAttached, HostFrameAttached, BindRemote, DropRemote, Answer
  <2>3. render_frame' \in [Attempts -> {"none", "bound", "dropped", "kDetached", "kExcluded"}]
    BY DEF TypeOK, PipeTypes, FrameAttached, HostFrameAttached, BindRemote, DropRemote
  <2>4. QED
    BY <2>1, <2>2, <2>3 DEF TypeOK, PipeTypes, FrameAttached
<1>5. HostTypes'
  BY <1>2, <1>3 DEF TypeOK, HostTypes, FrameAttached, HostFrameAttached, BindRemote, DropRemote
<1>6. QED
  BY <1>1, <1>4, <1>5 DEF TypeOK, FrameAttached

LEMMA HostType ==
    ASSUME TypeOK,
           \/ HostOnRenderFrameDisconnect \/ SendToRenderFrame
           \/ EnterBackForwardCache \/ MaybeAttach \/ RemoveFrame
    PROVE  TypeOK'
<1> USE ConstantsAssumption
<1>1. CASE HostOnRenderFrameDisconnect
  <2>1. RendererTypes'
    BY <1>1 DEF HostOnRenderFrameDisconnect, TypeOK, RendererTypes, renderer
  <2>2. PipeTypes'
    BY <1>1 DEF HostOnRenderFrameDisconnect, TypeOK, PipeTypes
  <2>3. HostTypes'
    BY <1>1 DEF HostOnRenderFrameDisconnect, TypeOK, HostTypes
  <2>4. MessageTypes'
    BY <1>1 DEF HostOnRenderFrameDisconnect, TypeOK, MessageTypes, messages
  <2>5. QED
    BY <1>1, <2>1, <2>2, <2>3, <2>4 DEF HostOnRenderFrameDisconnect, TypeOK
<1>2. CASE SendToRenderFrame
  <2>1. RendererTypes'
    BY <1>2 DEF SendToRenderFrame, TypeOK, RendererTypes, renderer
  <2>2. PipeTypes'
    <3>1. sent_down' \in -1..MaxSends
      BY <1>2 DEF SendToRenderFrame, TypeOK, MessageTypes
    <3>2. [down EXCEPT ![render_frame_] = Append(@, sent_down')] \in [Attempts -> Seq(-1..MaxSends)]
      BY <3>1, SendKeepsType DEF TypeOK, PipeTypes
    <3>3. QED
      <4>1. down' = down \/ down' = [down EXCEPT ![render_frame_] = Append(@, sent_down')]
        BY <1>2 DEF SendToRenderFrame
      <4>2. UNCHANGED <<browser_frame, render_frame, up>>
        BY <1>2 DEF SendToRenderFrame
      <4>3. down' \in [Attempts -> Seq(-1..MaxSends)]
        BY <3>2, <4>1 DEF TypeOK, PipeTypes
      <4>4. QED
        BY <4>2, <4>3 DEF TypeOK, PipeTypes
  <2>3. HostTypes'
    <3>1. sent_down' \in 1..MaxSends
      BY <1>2 DEF SendToRenderFrame, TypeOK, MessageTypes
    <3>2. Append(queued_renderer_actions_, sent_down') \in Seq(1..MaxSends)
      BY <3>1, AppendProperties DEF TypeOK, HostTypes
    <3>3. QED
      BY <1>2, <3>2 DEF SendToRenderFrame, TypeOK, HostTypes
  <2>4. MessageTypes'
    BY <1>2 DEF SendToRenderFrame, TypeOK, MessageTypes
  <2>5. QED
    BY <1>2, <2>1, <2>2, <2>3, <2>4 DEF SendToRenderFrame, TypeOK
<1>3. CASE EnterBackForwardCache
  <2>1. RendererTypes'
    BY <1>3 DEF EnterBackForwardCache, TypeOK, RendererTypes, renderer
  <2>2. PipeTypes'
    BY <1>3 DEF EnterBackForwardCache, TypeOK, PipeTypes, Detach
  <2>3. HostTypes'
    <3>1. /\ registered' \in BOOLEAN /\ browser_info_' \in BOOLEAN
          /\ render_frame_host_' \in BOOLEAN /\ cached' \in BOOLEAN
      BY <1>3, Zenon DEF EnterBackForwardCache, TypeOK, HostTypes, Detach
    <3>2. render_frame_' \in {0, render_frame_}
          /\ queued_renderer_actions_' \in {<< >>, queued_renderer_actions_}
      BY <1>3 DEF EnterBackForwardCache, Detach
    <3>3. render_frame_' \in 0..MaxConn
      BY <3>2 DEF TypeOK, HostTypes
    <3>4. queued_renderer_actions_' \in Seq(1..MaxSends)
      BY <3>2, EmptyQueues DEF TypeOK, HostTypes
    <3>5. QED
      BY <3>1, <3>3, <3>4 DEF HostTypes
  <2>4. MessageTypes'
    BY <1>3 DEF EnterBackForwardCache, TypeOK, MessageTypes, messages, Event
  <2>5. QED
    BY <1>3, <2>1, <2>2, <2>3, <2>4 DEF EnterBackForwardCache, TypeOK
<1>4. CASE MaybeAttach
  <2>1. RendererTypes'
    BY <1>4 DEF MaybeAttach, TypeOK, RendererTypes, renderer
  <2>2. PipeTypes'
    BY <1>4 DEF MaybeAttach, TypeOK, PipeTypes, pipes
  <2>3. HostTypes'
    BY <1>4 DEF MaybeAttach, TypeOK, HostTypes
  <2>4. MessageTypes'
    BY <1>4 DEF MaybeAttach, TypeOK, MessageTypes, messages, Event
  <2>5. QED
    BY <1>4, <2>1, <2>2, <2>3, <2>4 DEF MaybeAttach, TypeOK
<1>5. CASE RemoveFrame
  <2>1. RendererTypes'
    BY <1>5 DEF RemoveFrame, TypeOK, RendererTypes, renderer
  <2>2. PipeTypes'
    <3>1. up' \in [Attempts -> Seq(0..MaxSends)]
      BY <1>5, EmptyQueues DEF RemoveFrame, TypeOK, PipeTypes
    <3>2. QED
      BY <1>5, <3>1 DEF RemoveFrame, TypeOK, PipeTypes, Detach
  <2>3. HostTypes'
    <3>1. /\ registered' \in BOOLEAN /\ browser_info_' \in BOOLEAN
          /\ render_frame_host_' \in BOOLEAN /\ cached' \in BOOLEAN
      BY <1>5, Zenon DEF RemoveFrame, TypeOK, HostTypes, Detach
    <3>2. render_frame_' \in {0, render_frame_}
          /\ queued_renderer_actions_' \in {<< >>, queued_renderer_actions_}
      BY <1>5 DEF RemoveFrame, Detach
    <3>3. render_frame_' \in 0..MaxConn
      BY <3>2 DEF TypeOK, HostTypes
    <3>4. queued_renderer_actions_' \in Seq(1..MaxSends)
      BY <3>2, EmptyQueues DEF TypeOK, HostTypes
    <3>5. QED
      BY <3>1, <3>3, <3>4 DEF HostTypes
  <2>4. MessageTypes'
    BY <1>5 DEF RemoveFrame, TypeOK, MessageTypes, messages, Event
  <2>5. QED
    BY <1>5, <2>1, <2>2, <2>3, <2>4 DEF RemoveFrame, TypeOK
<1>6. QED
  BY <1>1, <1>2, <1>3, <1>4, <1>5

-----------------------------------------------------------------------------
(* The two ends agree.  The steps of the renderer that may connect.        *)

ConnectStep ==
    /\ UNCHANGED <<kind, frame_, attach_denied_, ever_connected_, render_frame, down, host>>
    /\ \/ UNCHANGED <<browser_connection_state_, conn, browser_frame, up>>
       \/ /\ browser_connection_state_ \in {"DISCONNECTED", "RECONNECT_PENDING"}
          /\ ConnectBrowserFrame

LEMMA ConnectIInv ==
    ASSUME IInv, TypeOK', ConnectStep
    PROVE  IInv'
<1> USE ConstantsAssumption
<1>1. CASE UNCHANGED <<browser_connection_state_, conn, browser_frame, up>>
  BY <1>1 DEF ConnectStep, host, IInv, AttachOK, FreshOK, LatestAsks, AnswerOK, HostOK,
     AckComesFirst, BoundHostIsAttached, DenialIsFinal, Asks, Open
<1>2. CASE /\ browser_connection_state_ \in {"DISCONNECTED", "RECONNECT_PENDING"}
           /\ browser_connection_state_' = "DISCONNECTED"
           /\ UNCHANGED <<conn, browser_frame, up>>
  BY <1>2 DEF ConnectStep, host, IInv, AttachOK, FreshOK, LatestAsks, AnswerOK, HostOK,
     AckComesFirst, BoundHostIsAttached, DenialIsFinal, Asks, Open
<1>3. CASE /\ browser_connection_state_ \in {"DISCONNECTED", "RECONNECT_PENDING"}
           /\ frame_ /\ ~attach_denied_ /\ conn < MaxConn /\ render_frame_ = 0
           /\ conn' = conn + 1
           /\ browser_connection_state_' = "CONNECTION_PENDING"
           /\ browser_frame' = [browser_frame EXCEPT ![conn + 1] = "requested"]
           /\ up' = [up EXCEPT ![conn + 1] = <<FrameAttachedMsg>>]
  <2>1. conn \in 0..MaxConn /\ conn' \in Attempts /\ conn' = conn + 1 /\ conn' > conn
    BY <1>3 DEF IInv, TypeOK, RendererTypes, Attempts
  <2>2. \A n \in Attempts : ~Open(n) /\ down[n] = << >>
    BY <1>3 DEF IInv, FreshOK, Open
  <2>3. \A n \in Attempts : ~Asks(n)
    BY <1>3, <2>2 DEF IInv, LatestAsks
  <2>4. /\ browser_frame'[conn'] = "requested" /\ up'[conn'] = <<FrameAttachedMsg>>
        /\ \A n \in Attempts : n # conn' => browser_frame'[n] = browser_frame[n] /\ up'[n] = up[n]
    BY <1>3, <2>1 DEF IInv, TypeOK, PipeTypes
  <2>5. /\ UNCHANGED <<kind, frame_, attach_denied_, ever_connected_, render_frame, down>>
        /\ UNCHANGED <<registered, browser_info_, render_frame_host_, render_frame_,
                       queued_renderer_actions_>>
    BY DEF ConnectStep, host
  <2>6. render_frame[conn'] = "none"
    BY <2>1 DEF IInv, FreshOK
  <2>7. AttachOK'
    BY <2>1, <2>3, <2>4, <2>5, <2>6 DEF IInv, AttachOK, Asks
  <2>8. FreshOK'
    BY <1>3, <2>1, <2>2, <2>4, <2>5 DEF IInv, FreshOK, Open, TypeOK, HostTypes, Attempts
  <2>9. LatestAsks'
    BY <1>3, <2>1, <2>3, <2>4, <2>5 DEF LatestAsks, Asks, Open
  <2>10. AnswerOK' /\ AckComesFirst'
    BY <1>3, <2>1, <2>2, <2>5 DEF AnswerOK, AckComesFirst, Open
  <2>11. HostOK' /\ BoundHostIsAttached'
    BY <1>3, <2>5 DEF IInv, HostOK, BoundHostIsAttached
  <2>12. DenialIsFinal'
    BY <1>3, <2>5 DEF IInv, DenialIsFinal
  <2>13. QED
    BY <2>7, <2>8, <2>9, <2>10, <2>11, <2>12 DEF IInv
<1>4. QED
  BY <1>1, <1>2, <1>3 DEF ConnectStep, ConnectBrowserFrame

LEMMA ConnectingIInv ==
    ASSUME IInv,
           OnDidCommitProvisionalLoad \/ WasShown \/ PageLifecycle \/ RetryTimer
    PROVE  IInv'
<1>1. TypeOK'
  BY ConnectingType DEF IInv
<1>2. ConnectStep
  BY DEF ConnectStep, OnDidCommitProvisionalLoad, WasShown, PageLifecycle, RetryTimer, OnWasShown
<1>3. QED
  BY <1>1, <1>2, ConnectIInv

\* A connection is lost or was already lost: the renderer's ends are closed.
DisconnectStep ==
    /\ UNCHANGED <<kind, attach_denied_, ever_connected_, conn, browser_frame, up,
                   render_frame, host>>
    /\ frame_' => frame_ /\ \/ browser_frame[conn] \in {"declined", "closed"}
                             \/ render_frame[conn] # "none"
    /\ \/ ~Open(conn) /\ UNCHANGED <<browser_connection_state_, down>>
       \/ /\ browser_connection_state_ # "DISCONNECTED"
          /\ browser_connection_state_' \in {"DISCONNECTED", "RECONNECT_PENDING"}
          /\ down' = [down EXCEPT ![conn] = << >>]

LEMMA DisconnectIInv ==
    ASSUME IInv, TypeOK', DisconnectStep
    PROVE  IInv'
<1> USE ConstantsAssumption
<1>1. /\ UNCHANGED <<kind, attach_denied_, ever_connected_, conn, browser_frame, up, render_frame>>
      /\ UNCHANGED <<registered, browser_info_, render_frame_host_, render_frame_,
                     queued_renderer_actions_>>
  BY DEF DisconnectStep, host
<1>2. \A n \in Attempts : ~Open(n)'
  BY DEF DisconnectStep, Open
<1>3. \A n \in Attempts : down'[n] = << >>
  <2>1. \A n \in Attempts : n # conn => down[n] = << >>
    BY DEF IInv, FreshOK, Open
  <2>2. QED
    BY ZenonT(40), <2>1 DEF DisconnectStep, IInv, FreshOK, Open, TypeOK, PipeTypes
<1>4. AttachOK' /\ HostOK' /\ BoundHostIsAttached' /\ DenialIsFinal'
  BY <1>1 DEF IInv, AttachOK, Asks, HostOK, BoundHostIsAttached, DenialIsFinal
<1>5. FreshOK'
  BY <1>1, <1>2, <1>3 DEF IInv, FreshOK, DisconnectStep
<1>6. LatestAsks'
  <2>1. ASSUME NEW n \in Attempts, Asks(n)' PROVE n = conn' /\ render_frame_' = 0 /\ ~frame_'
    <3>1. Asks(n) /\ n = conn /\ render_frame_ = 0
      BY <1>1, <2>1 DEF Asks, IInv, LatestAsks
    <3>2. ~frame_'
      BY <3>1 DEF DisconnectStep, IInv, AttachOK
    <3>3. QED
      BY <1>1, <3>1, <3>2
  <2>2. QED
    BY <2>1 DEF LatestAsks
<1>7. AnswerOK' /\ AckComesFirst'
  BY <1>2 DEF AnswerOK, AckComesFirst, Open, DisconnectStep
<1>8. QED
  BY <1>4, <1>5, <1>6, <1>7 DEF IInv

LEMMA DisconnectingIInv ==
    ASSUME IInv,
           OnBrowserFrameDisconnect \/ OnRenderFrameDisconnect \/ OnDetached
    PROVE  IInv'
<1>1. TypeOK'
  BY DisconnectingType DEF IInv
<1>2. DisconnectStep
  BY DEF DisconnectStep, OnBrowserFrameDisconnect, OnRenderFrameDisconnect, OnDetached,
     OnDisconnect, Open
<1>3. QED
  BY <1>1, <1>2, DisconnectIInv

LEMMA AckIInv ==
    ASSUME IInv, FrameAttachedAck
    PROVE  IInv'
<1> USE ConstantsAssumption
<1>1. TypeOK'
  BY RendererMessageType DEF IInv
<1>2. conn \in Attempts /\ Open(conn) /\ down[conn] # << >>
  BY OpenIsAttempt DEF FrameAttachedAck, IInv
<1>3. Head(down[conn]) = down[conn][1] /\ 1 \in DOMAIN down[conn]
  BY <1>2, FirstMessage DEF IInv, TypeOK, PipeTypes
<1>4. browser_connection_state_ = "CONNECTION_PENDING"
  BY <1>2, <1>3 DEF FrameAttachedAck, IInv, AckComesFirst
<1>5. /\ UNCHANGED <<kind, frame_, conn, browser_frame, render_frame>>
      /\ UNCHANGED <<registered, browser_info_, render_frame_host_, render_frame_,
                     queued_renderer_actions_>>
      /\ browser_connection_state_' = "CONNECTION_ACKED"
  BY DEF FrameAttachedAck, host
<1>6. /\ down'[conn] = Tail(down[conn])
      /\ \A n \in Attempts : n # conn => down'[n] = down[n]
      /\ \A i \in DOMAIN down'[conn] : i + 1 \in DOMAIN down[conn] /\ i + 1 # 1
                                       /\ down'[conn][i] = down[conn][i + 1]
  <2>1. /\ down'[conn] = Tail(down[conn])
        /\ \A n \in Attempts : n # conn => down'[n] = down[n]
    BY <1>2 DEF FrameAttachedAck, IInv, TypeOK, PipeTypes
  <2>2. down[conn] \in Seq(-1..MaxSends)
    BY <1>2 DEF IInv, TypeOK, PipeTypes
  <2>3. \A i \in DOMAIN Tail(down[conn]) : i + 1 \in DOMAIN down[conn] /\ i + 1 # 1
                                       /\ Tail(down[conn])[i] = down[conn][i + 1]
    BY SMTT(30), <1>2, <2>2
  <2>4. QED
    BY <2>1, <2>3
<1>7. render_frame_ = conn \/ render_frame[conn] \in {"kDetached", "kExcluded"}
  BY <1>2 DEF IInv, AnswerOK
<1>8. render_frame[conn] # "none"
  BY <1>2, <1>7 DEF IInv, BoundHostIsAttached, Attempts
<1>9. \A n \in Attempts : up'[n] = up[n] \/ (n = conn /\ up'[n] = up[n] \o queued_browser_actions_)
  <2>1. PICK s : /\ s = up[conn] \/ s = up[conn] \o queued_browser_actions_
                 /\ up' = [up EXCEPT ![conn] = s]
    BY Zenon DEF FrameAttachedAck
  <2>2. up'[conn] = s /\ \A n \in Attempts : n # conn => up'[n] = up[n]
    BY <1>2, <2>1 DEF IInv, TypeOK, PipeTypes
  <2>3. QED
    BY <2>1, <2>2, Zenon
<1>10. /\ \A n \in Attempts : ~Asks(n)' /\ ~Asks(n)
       /\ \A n \in Attempts : \A i \in DOMAIN up'[n] : up'[n][i] # FrameAttachedMsg
  <2>1. \A n \in Attempts : ~Asks(n)
    BY <1>8 DEF IInv, LatestAsks, AttachOK
  <2>2. \A n \in Attempts : \A i \in DOMAIN up[n] : up[n][i] # FrameAttachedMsg
    BY <2>1 DEF IInv, AttachOK, Asks
  <2>3. \A i \in DOMAIN queued_browser_actions_ : queued_browser_actions_[i] # FrameAttachedMsg
    BY DEF IInv, TypeOK, RendererTypes, FrameAttachedMsg
  <2>4. ASSUME NEW n \in Attempts, NEW i \in DOMAIN up'[n] PROVE up'[n][i] # FrameAttachedMsg
    <3>1. up[n] \in Seq(0..MaxSends) /\ queued_browser_actions_ \in Seq(1..MaxSends)
      BY DEF IInv, TypeOK, RendererTypes, PipeTypes
    <3>2. CASE up'[n] = up[n]
      BY <2>2, <2>4, <3>2
    <3>3. CASE up'[n] = up[n] \o queued_browser_actions_
      BY SMTT(30), <2>2, <2>3, <2>4, <3>1, <3>3
    <3>4. QED
      BY <1>9, <3>2, <3>3
  <2>5. QED
    <3>1. \A n \in Attempts : up'[n] \in Seq(0..MaxSends)
      BY <1>1 DEF TypeOK, PipeTypes
    <3>2. \A n \in Attempts : up'[n] # << >> => 1 \in DOMAIN up'[n]
      BY <3>1
    <3>3. QED
      BY <2>1, <2>4, <3>2 DEF Asks
<1>11. AttachOK'
  BY <1>5, <1>10 DEF IInv, AttachOK
<1>12. FreshOK'
  <2>1. \A n \in Attempts : n > conn => up'[n] = << >>
    BY <1>2, <1>9 DEF IInv, FreshOK, Attempts
  <2>2. QED
    BY <1>2, <1>5, <1>6, <2>1 DEF IInv, FreshOK, Open, Attempts
<1>13. LatestAsks'
  BY <1>10 DEF LatestAsks
<1>14. AnswerOK'
  BY <1>2, <1>5, <1>6, <1>7 DEF IInv, AnswerOK, Open
<1>15. AckComesFirst'
  BY <1>2, <1>5, <1>6 DEF IInv, AckComesFirst, Open
<1>16. HostOK' /\ BoundHostIsAttached'
  BY <1>5 DEF IInv, HostOK, BoundHostIsAttached
<1>17. DenialIsFinal'
  <2>1. /\ Head(down[conn]) = AckDeny => kind = "excluded" /\ render_frame[conn] = "kExcluded"
        /\ Head(down[conn]) = AckAllow => kind # "excluded"
    BY <1>2, <1>3 DEF IInv, AnswerOK
  <2>2. /\ attach_denied_' => attach_denied_ \/ Head(down[conn]) = AckDeny
        /\ ever_connected_' => ever_connected_ \/ Head(down[conn]) = AckAllow
    BY Zenon DEF FrameAttachedAck
  <2>3. QED
    BY <1>5, <2>1, <2>2 DEF IInv, DenialIsFinal
<1>18. QED
  BY <1>1, <1>11, <1>12, <1>13, <1>14, <1>15, <1>16, <1>17 DEF IInv

LEMMA SendUpIInv ==
    ASSUME IInv, SendToBrowserFrame
    PROVE  IInv'
<1> USE ConstantsAssumption
<1>1. TypeOK'
  BY RendererMessageType DEF IInv
<1>2. /\ UNCHANGED <<kind, frame_, attach_denied_, ever_connected_, conn, browser_frame,
                     render_frame, down, browser_connection_state_>>
      /\ UNCHANGED <<registered, browser_info_, render_frame_host_, render_frame_,
                     queued_renderer_actions_>>
  BY DEF SendToBrowserFrame, host
<1>3. sent_up' \in 0..MaxSends /\ sent_up' # FrameAttachedMsg
  BY DEF SendToBrowserFrame, IInv, TypeOK, MessageTypes, FrameAttachedMsg
<1>4. \A n \in Attempts : up'[n] = up[n] \/ (n = conn /\ up'[n] = Append(up[n], sent_up'))
  <2>1. up' = up \/ up' = [up EXCEPT ![conn] = Append(@, sent_up')]
    BY DEF SendToBrowserFrame
  <2>2. QED
    BY <2>1, SendEffect DEF IInv, TypeOK, PipeTypes
<1>5. \A n \in Attempts :
          /\ \A i \in DOMAIN up'[n] :
                up'[n][i] = FrameAttachedMsg => i \in DOMAIN up[n] /\ up[n][i] = FrameAttachedMsg
          /\ Asks(n)' => Asks(n)
  <2>1. SUFFICES ASSUME NEW n \in Attempts, up'[n] = Append(up[n], sent_up')
                 PROVE  /\ \A i \in DOMAIN up'[n] : up'[n][i] = FrameAttachedMsg
                              => i \in DOMAIN up[n] /\ up[n][i] = FrameAttachedMsg
                        /\ Asks(n)' => Asks(n)
    BY <1>4 DEF Asks
  <2>2. up[n] \in Seq(0..MaxSends)
    BY DEF IInv, TypeOK, PipeTypes
  <2>3. \A i \in DOMAIN up'[n] : up'[n][i] = FrameAttachedMsg
                              => i \in DOMAIN up[n] /\ up[n][i] = FrameAttachedMsg
    BY <1>3, <2>1, <2>2
  <2>4. 1 \in DOMAIN up'[n]
    BY <1>3, <2>1, <2>2
  <2>5. 1 \in DOMAIN up[n] => up[n] # << >>
    BY <2>2
  <2>6. QED
    BY <2>3, <2>4, <2>5 DEF Asks
<1>6. AttachOK' /\ LatestAsks'
  BY <1>2, <1>5 DEF IInv, AttachOK, LatestAsks, Open
<1>7. FreshOK'
  <2>1. \A n \in Attempts : n > conn => up'[n] = << >>
    BY <1>4 DEF IInv, FreshOK, TypeOK, RendererTypes
  <2>2. QED
    BY <1>2, <2>1 DEF IInv, FreshOK, Open
<1>8. AnswerOK' /\ AckComesFirst' /\ HostOK' /\ BoundHostIsAttached' /\ DenialIsFinal'
  BY <1>2 DEF IInv, AnswerOK, AckComesFirst, HostOK, BoundHostIsAttached, DenialIsFinal, Open
<1>9. QED
  BY <1>1, <1>6, <1>7, <1>8 DEF IInv

LEMMA ReceivesIInv ==
    ASSUME IInv, RendererReceives
    PROVE  IInv'
<1> USE ConstantsAssumption
<1>1. TypeOK'
  BY RendererMessageType DEF IInv
<1>2. conn \in Attempts /\ Open(conn) /\ down[conn] # << >>
  BY OpenIsAttempt DEF RendererReceives, IInv
<1>3. Head(down[conn]) = down[conn][1] /\ 1 \in DOMAIN down[conn]
  BY <1>2, FirstMessage DEF IInv, TypeOK, PipeTypes
<1>4. browser_connection_state_ = "CONNECTION_ACKED"
  BY <1>2, <1>3 DEF RendererReceives, IInv, AckComesFirst, Open
<1>5. /\ UNCHANGED <<kind, frame_, attach_denied_, ever_connected_, conn, browser_frame, up,
                     render_frame, browser_connection_state_>>
      /\ UNCHANGED <<registered, browser_info_, render_frame_host_, render_frame_,
                     queued_renderer_actions_>>
  BY DEF RendererReceives, host, renderer
<1>6. /\ down'[conn] = Tail(down[conn])
      /\ \A n \in Attempts : n # conn => down'[n] = down[n]
      /\ \A i \in DOMAIN down'[conn] : i + 1 \in DOMAIN down[conn] /\ i + 1 # 1
                                       /\ down'[conn][i] = down[conn][i + 1]
  <2>1. /\ down'[conn] = Tail(down[conn])
        /\ \A n \in Attempts : n # conn => down'[n] = down[n]
    BY <1>2 DEF RendererReceives, IInv, TypeOK, PipeTypes
  <2>2. down[conn] \in Seq(-1..MaxSends)
    BY <1>2 DEF IInv, TypeOK, PipeTypes
  <2>3. \A i \in DOMAIN Tail(down[conn]) : i + 1 \in DOMAIN down[conn] /\ i + 1 # 1
                                       /\ Tail(down[conn])[i] = down[conn][i + 1]
    BY SMTT(30), <1>2, <2>2
  <2>4. QED
    BY <2>1, <2>3
<1>7. AttachOK' /\ LatestAsks' /\ HostOK' /\ BoundHostIsAttached' /\ DenialIsFinal'
  BY <1>5 DEF IInv, AttachOK, LatestAsks, HostOK, BoundHostIsAttached, DenialIsFinal, Asks, Open
<1>8. FreshOK'
  BY <1>2, <1>5, <1>6 DEF IInv, FreshOK, Open
<1>9. AnswerOK'
  BY <1>2, <1>4, <1>5, <1>6 DEF IInv, AnswerOK, Open
<1>10. AckComesFirst'
  BY <1>2, <1>4, <1>5, <1>6 DEF IInv, AckComesFirst, Open
<1>11. QED
  BY <1>1, <1>7, <1>8, <1>9, <1>10 DEF IInv

-----------------------------------------------------------------------------
(* The two ends agree.  The steps of the browser.                          *)

\* The browser's ends of some BrowserFrame pipes that were requested or bound
\* are closed; a remote end that nobody had picked up may be dropped with them.
CloseStep(S) ==
    /\ UNCHANGED <<kind, renderer, down, host>>
    /\ \A n \in Attempts :
          /\ n \in S => /\ browser_frame[n] \in {"requested", "bound"} /\ up'[n] = << >>
                        /\ \/ browser_frame'[n] = "closed"
                           \/ browser_frame[n] = "requested" /\ browser_frame'[n] = "declined"
                        /\ render_frame'[n] =
                              IF render_frame[n] = "none" THEN "dropped" ELSE render_frame[n]
          /\ n \notin S => /\ browser_frame'[n] = browser_frame[n] /\ up'[n] = up[n]
                           /\ render_frame'[n] = render_frame[n]

LEMMA CloseIInv ==
    ASSUME IInv, TypeOK', NEW S, CloseStep(S)
    PROVE  IInv'
<1> USE ConstantsAssumption
<1>1. /\ UNCHANGED <<kind, frame_, attach_denied_, ever_connected_, conn, down,
                     browser_connection_state_>>
      /\ UNCHANGED <<registered, browser_info_, render_frame_host_, render_frame_,
                     queued_renderer_actions_>>
  BY DEF CloseStep, renderer, host
<1>2. \A n \in Attempts : Asks(n)' => Asks(n) /\ n \notin S
  BY DEF CloseStep, Asks
<1>3. /\ \A n \in Attempts : render_frame[n] # "none" => render_frame'[n] = render_frame[n]
      /\ \A n \in Attempts : render_frame'[n] = "bound" => render_frame[n] = "bound"
  BY DEF CloseStep
<1>4. AttachOK'
  BY <1>2 DEF CloseStep, IInv, AttachOK
<1>5. FreshOK'
  BY <1>1 DEF CloseStep, IInv, FreshOK, Open
<1>6. LatestAsks'
  BY <1>1, <1>2 DEF IInv, LatestAsks, Open
<1>7. AnswerOK'
  <2>1. Open(conn) => conn \in Attempts
    BY OpenIsAttempt DEF IInv
  <2>2. QED
    BY <1>1, <1>3, <2>1 DEF IInv, AnswerOK, Open
<1>8. AckComesFirst'
  BY <1>1 DEF IInv, AckComesFirst, Open
<1>9. HostOK' /\ BoundHostIsAttached'
  BY <1>1, <1>3 DEF IInv, HostOK, BoundHostIsAttached, TypeOK, HostTypes, Attempts
<1>10. DenialIsFinal'
  <2>1. ASSUME attach_denied_ PROVE conn \in Attempts
    BY <2>1 DEF IInv, TypeOK, RendererTypes, FreshOK, Attempts
  <2>2. QED
    BY <1>1, <1>3, <2>1 DEF IInv, DenialIsFinal
<1>11. QED
  BY <1>4, <1>5, <1>6, <1>7, <1>8, <1>9, <1>10 DEF IInv

LEMMA BrowserFrameIInv ==
    ASSUME IInv, NEW n \in Attempts,
           ResetBroker(n) \/ ResetDocument(n) \/ BrowserFrameDone(n)
    PROVE  IInv'
<1>1. TypeOK'
  BY BrowserFrameType DEF IInv
<1>2. UNCHANGED <<kind, renderer, down, host>>
  BY DEF ResetBroker, ResetDocument, BrowserFrameDone
<1>3. \/ Closed({n}, "closed") /\ browser_frame[n] = "bound"
      \/ Closed({n}, "declined") /\ browser_frame[n] = "requested"
  BY DEF ResetBroker, ResetDocument, BrowserFrameDone
<1>4. CloseStep({n})
  <2>1. CASE Closed({n}, "closed") /\ browser_frame[n] = "bound"
    BY <1>2, <2>1 DEF CloseStep, Closed
  <2>2. CASE Closed({n}, "declined") /\ browser_frame[n] = "requested"
    BY <1>2, <2>2 DEF CloseStep, Closed
  <2>3. QED
    BY <1>3, <2>1, <2>2
<1>5. QED
  BY <1>1, <1>4, CloseIInv

LEMMA BindIInv ==
    ASSUME IInv, NEW n \in Attempts, BindBrowserFrame(n)
    PROVE  IInv'
<1> USE ConstantsAssumption
<1>1. TypeOK'
  BY BrowserFrameType DEF IInv
<1>2. /\ UNCHANGED <<kind, frame_, attach_denied_, ever_connected_, conn, down, up, render_frame,
                     browser_connection_state_>>
      /\ UNCHANGED <<registered, browser_info_, render_frame_host_, render_frame_,
                     queued_renderer_actions_>>
  BY DEF BindBrowserFrame, renderer, host
<1>3. /\ browser_frame[n] = "requested" /\ browser_frame'[n] = "bound"
      /\ \A m \in Attempts : m # n => browser_frame'[m] = browser_frame[m]
  BY DEF BindBrowserFrame, IInv, TypeOK, PipeTypes
<1>4. AttachOK' /\ FreshOK' /\ LatestAsks'
  BY <1>2, <1>3 DEF IInv, AttachOK, FreshOK, LatestAsks, Asks, Open
<1>5. AnswerOK' /\ AckComesFirst' /\ HostOK' /\ BoundHostIsAttached' /\ DenialIsFinal'
  BY <1>2 DEF IInv, AnswerOK, AckComesFirst, HostOK, BoundHostIsAttached, DenialIsFinal, Open
<1>6. QED
  BY <1>1, <1>4, <1>5 DEF IInv

\* What is left of a BrowserFrame pipe asks for nothing.
LEMMA NextAsksNothing ==
    ASSUME IInv, NEW n \in Attempts, up[n] # << >>, up' = [up EXCEPT ![n] = Tail(@)]
    PROVE  /\ \A i \in DOMAIN up'[n] : up'[n][i] # FrameAttachedMsg
           /\ ~Asks(n)'
           /\ \A m \in Attempts : m # n => up'[m] = up[m] /\ (Asks(m)' <=> Asks(m))
<1>1. /\ up'[n] = Tail(up[n])
      /\ \A m \in Attempts : m # n => up'[m] = up[m]
  BY DEF IInv, TypeOK, PipeTypes
<1>2. up[n] \in Seq(0..MaxSends)
  BY DEF IInv, TypeOK, PipeTypes
<1>3. \A i \in DOMAIN Tail(up[n]) : i + 1 \in DOMAIN up[n] /\ i + 1 # 1
                                    /\ Tail(up[n])[i] = up[n][i + 1]
  BY <1>2
<1>4. \A i \in DOMAIN up'[n] : up'[n][i] # FrameAttachedMsg
  <2>1. \A j \in DOMAIN up[n] : j # 1 => up[n][j] # FrameAttachedMsg
    BY DEF IInv, AttachOK
  <2>2. \A i \in DOMAIN Tail(up[n]) : Tail(up[n])[i] # FrameAttachedMsg
    BY <1>3, <2>1
  <2>3. QED
    BY <1>1, <2>2
<1>5. Tail(up[n]) # << >> => 1 \in DOMAIN Tail(up[n])
  BY <1>2
<1>6. QED
  BY <1>1, <1>4, <1>5 DEF Asks

LEMMA BrowserReceivesIInv ==
    ASSUME IInv, NEW n \in Attempts, BrowserReceives(n)
    PROVE  IInv'
<1> USE ConstantsAssumption
<1>1. TypeOK'
  BY BrowserFrameType DEF IInv
<1>2. /\ UNCHANGED <<kind, frame_, attach_denied_, ever_connected_, conn, down, browser_frame,
                     render_frame, browser_connection_state_>>
      /\ UNCHANGED <<registered, browser_info_, render_frame_host_, render_frame_,
                     queued_renderer_actions_>>
  BY DEF BrowserReceives, renderer, host
<1>3. /\ \A i \in DOMAIN up'[n] : up'[n][i] # FrameAttachedMsg
      /\ ~Asks(n)'
      /\ \A m \in Attempts : m # n => up'[m] = up[m] /\ (Asks(m)' <=> Asks(m))
  BY NextAsksNothing DEF BrowserReceives
<1>4. AttachOK' /\ LatestAsks'
  BY <1>2, <1>3 DEF IInv, AttachOK, LatestAsks, Open
<1>5. FreshOK'
  BY <1>2, <1>3 DEF IInv, FreshOK, Open, BrowserReceives
<1>6. AnswerOK' /\ AckComesFirst' /\ HostOK' /\ BoundHostIsAttached' /\ DenialIsFinal'
  BY <1>2 DEF IInv, AnswerOK, AckComesFirst, HostOK, BoundHostIsAttached, DenialIsFinal, Open
<1>7. QED
  BY <1>1, <1>4, <1>5, <1>6 DEF IInv

LEMMA FrameAttachedIInv ==
    ASSUME IInv, NEW n \in Attempts, FrameAttached(n)
    PROVE  IInv'
<1> USE ConstantsAssumption
<1>1. TypeOK'
  BY FrameAttachedType DEF IInv
<1>2. /\ UNCHANGED <<kind, frame_, attach_denied_, ever_connected_, conn, browser_frame,
                     browser_connection_state_>>
      /\ UNCHANGED <<registered, browser_info_, render_frame_host_>>
  BY DEF FrameAttached, renderer
<1>3. Asks(n)
  BY FirstMessage DEF FrameAttached, Asks, IInv, TypeOK
<1>4. n = conn /\ render_frame_ = 0 /\ render_frame[n] = "none" /\ conn # 0
  BY <1>3 DEF IInv, LatestAsks, AttachOK, Attempts
<1>5. Open(conn) => browser_connection_state_ = "CONNECTION_PENDING" /\ down[conn] = << >>
  BY <1>4 DEF IInv, AnswerOK, Open
<1>6. ~attach_denied_
  BY <1>4 DEF IInv, DenialIsFinal
<1>7. /\ \A i \in DOMAIN up'[n] : up'[n][i] # FrameAttachedMsg
      /\ \A m \in Attempts : ~Asks(m)' /\ (m # n => up'[m] = up[m])
  <2>1. \A m \in Attempts : m # n => ~Asks(m)
    BY <1>4 DEF IInv, LatestAsks
  <2>2. QED
    BY <2>1, NextAsksNothing DEF FrameAttached
<1>8. \A m \in Attempts : m # n => render_frame'[m] = render_frame[m] /\ render_frame[m] # "bound"
  <2>1. \A m \in Attempts : render_frame[m] # "bound"
    BY <1>4 DEF IInv, HostOK, Attempts
  <2>2. QED
    BY <2>1 DEF FrameAttached, HostFrameAttached, BindRemote, DropRemote, IInv, TypeOK, PipeTypes
<1>9. \A m \in Attempts : ~Open(m) => down'[m] = << >>
  <2>1. \A m \in Attempts : m # n => down'[m] = down[m]
    BY DEF FrameAttached, HostFrameAttached, BindRemote, DropRemote, Answer, IInv, TypeOK, PipeTypes
  <2>2. ~Open(n) => down' = down
    BY DEF FrameAttached, HostFrameAttached, BindRemote, DropRemote, Answer
  <2>3. QED
    BY <2>1, <2>2 DEF IInv, FreshOK
<1>10. LatestAsks'
  BY <1>7 DEF LatestAsks
<1>11. render_frame'[n] \in {"bound", "dropped", "kExcluded"}
  BY DEF FrameAttached, HostFrameAttached, BindRemote, DropRemote, IInv, TypeOK, PipeTypes
<1>12. AttachOK'
  <2>1. browser_frame[n] = "bound"
    BY DEF FrameAttached
  <2>2. QED
    BY <1>2, <1>7, <1>8, <2>1 DEF IInv, AttachOK
<1>13. FreshOK'
  <2>1. render_frame_' \in {0, n}
    BY <1>4 DEF FrameAttached, HostFrameAttached, BindRemote, DropRemote
  <2>2. render_frame_' <= conn'
    BY <1>2, <1>4, <2>1 DEF Attempts
  <2>3. \A m \in Attempts : m > conn => m # n
    BY <1>4 DEF Attempts
  <2>4. QED
    BY <1>2, <1>7, <1>8, <1>9, <2>2, <2>3 DEF IInv, FreshOK, Open
<1>14. CASE registered /\ browser_info_ /\ BindRemote(n)
  <2>1. /\ render_frame'[n] = "bound" /\ render_frame_' = n /\ queued_renderer_actions_' = << >>
    BY <1>14 DEF BindRemote, IInv, TypeOK, PipeTypes
  <2>2. Open(n) => down'[n] = <<AckAllow>> \o queued_renderer_actions_
    BY <1>14 DEF BindRemote, Answer, IInv, TypeOK, PipeTypes
  <2>3. LET s == <<AckAllow>> \o queued_renderer_actions_
        IN  /\ s # << >> /\ s[1] = AckAllow
            /\ \A i \in DOMAIN s : i # 1 => s[i] \in 1..MaxSends
    <3>1. queued_renderer_actions_ \in Seq(1..MaxSends)
      BY DEF IInv, TypeOK, HostTypes
    <3>2. QED
      BY <3>1 DEF AckAllow
  <2>4. Open(conn)' => /\ down'[conn] # << >> /\ down'[conn][1] = AckAllow
                       /\ \A i \in DOMAIN down'[conn] : i # 1 => down'[conn][i] \in 1..MaxSends
    BY <1>2, <1>4, <2>2, <2>3 DEF Open
  <2>5. kind' # "excluded" /\ render_frame_' = conn' /\ conn' = conn
    BY <1>2, <1>4, <1>14, <2>1 DEF IInv, HostOK
  <2>6. AnswerOK'
    BY <2>4, <2>5 DEF AnswerOK, AckAllow, AckDeny
  <2>7. AckComesFirst'
    <3>1. Open(conn)' => browser_connection_state_' = "CONNECTION_PENDING"
      BY <1>2, <1>5 DEF Open
    <3>2. QED
      BY <2>4, <2>5, <3>1 DEF AckComesFirst, AckAllow, AckDeny
  <2>8. HostOK' /\ BoundHostIsAttached' /\ DenialIsFinal'
    BY <1>2, <1>4, <1>6, <1>8, <1>14, <2>1
       DEF IInv, HostOK, BoundHostIsAttached, DenialIsFinal
  <2>9. QED
    BY <1>1, <1>10, <1>12, <1>13, <2>6, <2>7, <2>8 DEF IInv
<1>15. CASE DropRemote(n)
  <2>1. /\ render_frame'[n] = "dropped" /\ UNCHANGED <<down, render_frame_, queued_renderer_actions_>>
    BY <1>15 DEF DropRemote, IInv, TypeOK, PipeTypes
  <2>2. AnswerOK' /\ AckComesFirst'
    BY <1>2, <1>4, <1>5, <2>1 DEF AnswerOK, AckComesFirst, Open
  <2>3. HostOK' /\ BoundHostIsAttached' /\ DenialIsFinal'
    BY <1>2, <1>4, <1>6, <1>8, <2>1 DEF IInv, HostOK, BoundHostIsAttached, DenialIsFinal
  <2>4. QED
    BY <1>1, <1>10, <1>12, <1>13, <2>2, <2>3 DEF IInv
<1>16. CASE /\ kind = "excluded"
            /\ render_frame' = [render_frame EXCEPT ![n] = "kExcluded"]
            /\ Answer(n, <<AckDeny>>)
            /\ UNCHANGED <<render_frame_, queued_renderer_actions_>>
  <2>1. /\ render_frame'[n] = "kExcluded"
    BY <1>16 DEF IInv, TypeOK, PipeTypes
  <2>2. Open(n) => down'[n] = <<AckDeny>>
    BY <1>16 DEF Answer, IInv, TypeOK, PipeTypes
  <2>3. AnswerOK' /\ AckComesFirst'
    BY <1>2, <1>4, <1>5, <1>16, <2>1, <2>2 DEF AnswerOK, AckComesFirst, Open, AckAllow, AckDeny
  <2>4. HostOK' /\ BoundHostIsAttached' /\ DenialIsFinal'
    BY <1>2, <1>4, <1>6, <1>8, <1>16, <2>1 DEF IInv, HostOK, BoundHostIsAttached, DenialIsFinal
  <2>5. QED
    BY <1>1, <1>10, <1>12, <1>13, <2>3, <2>4 DEF IInv
<1>17. QED
  BY <1>14, <1>15, <1>16 DEF FrameAttached, HostFrameAttached

LEMMA HostDisconnectIInv ==
    ASSUME IInv, HostOnRenderFrameDisconnect
    PROVE  IInv'
<1> USE ConstantsAssumption
<1>1. TypeOK'
  BY HostType DEF IInv
<1>2. /\ UNCHANGED <<kind, frame_, attach_denied_, ever_connected_, conn, down, up, browser_frame,
                     browser_connection_state_>>
      /\ UNCHANGED <<registered, browser_info_, render_frame_host_, queued_renderer_actions_>>
      /\ render_frame_' = 0
  BY DEF HostOnRenderFrameDisconnect, renderer
<1>3. render_frame_ \in Attempts /\ ~Open(render_frame_) /\ render_frame[render_frame_] = "bound"
  BY DEF HostOnRenderFrameDisconnect, IInv, TypeOK, HostTypes, Attempts, BoundHostIsAttached
<1>4. /\ render_frame'[render_frame_] = "dropped"
      /\ \A n \in Attempts : n # render_frame_ => render_frame'[n] = render_frame[n]
  BY <1>3 DEF HostOnRenderFrameDisconnect, IInv, TypeOK, PipeTypes
<1>5. \A n \in Attempts : ~Asks(n)' /\ ~Asks(n)
  BY <1>2, <1>3 DEF IInv, LatestAsks, Asks, Attempts
<1>6. AttachOK' /\ LatestAsks'
  BY <1>2, <1>3, <1>4, <1>5 DEF IInv, AttachOK, LatestAsks
<1>7. FreshOK'
  BY <1>2, <1>3, <1>4 DEF IInv, FreshOK, Open, TypeOK, RendererTypes
<1>8. AnswerOK'
  <2>1. Open(conn) => conn # render_frame_ /\ conn \in Attempts
    BY <1>3, OpenIsAttempt DEF Open, IInv
  <2>2. QED
    BY <1>2, <1>3, <1>4, <2>1 DEF IInv, AnswerOK, Open, Attempts
<1>9. AckComesFirst' /\ HostOK' /\ BoundHostIsAttached'
  BY <1>2, <1>4 DEF IInv, AckComesFirst, HostOK, BoundHostIsAttached, Open
<1>10. DenialIsFinal'
  <2>1. attach_denied_ => conn \in Attempts /\ conn # render_frame_
    BY <1>3 DEF IInv, TypeOK, RendererTypes, FreshOK, Attempts, DenialIsFinal
  <2>2. QED
    BY <1>2, <1>4, <2>1 DEF IInv, DenialIsFinal
<1>11. QED
  BY <1>1, <1>6, <1>7, <1>8, <1>9, <1>10 DEF IInv

LEMMA SendDownIInv ==
    ASSUME IInv, SendToRenderFrame
    PROVE  IInv'
<1> USE ConstantsAssumption
<1>1. TypeOK'
  BY HostType DEF IInv
<1>2. /\ UNCHANGED <<kind, frame_, attach_denied_, ever_connected_, conn, up, browser_frame,
                     render_frame, browser_connection_state_>>
      /\ UNCHANGED <<registered, browser_info_, render_frame_host_, render_frame_>>
  BY DEF SendToRenderFrame, renderer
<1>3. sent_down' \in 1..MaxSends
  BY DEF SendToRenderFrame, IInv, TypeOK, MessageTypes
<1>4. render_frame_ # 0 => UNCHANGED queued_renderer_actions_
  BY DEF SendToRenderFrame, IInv, BoundHostIsAttached
<1>5. AttachOK' /\ LatestAsks' /\ HostOK' /\ BoundHostIsAttached' /\ DenialIsFinal'
  BY <1>2, <1>4 DEF IInv, AttachOK, LatestAsks, HostOK, BoundHostIsAttached, DenialIsFinal, Asks, Open
<1>6. CASE down' = down
  BY <1>1, <1>2, <1>5, <1>6 DEF IInv, FreshOK, AnswerOK, AckComesFirst, Open
<1>7. CASE /\ render_frame_ # 0 /\ Open(render_frame_)
           /\ down' = [down EXCEPT ![render_frame_] = Append(@, sent_down')]
  <2>1. render_frame_ = conn /\ conn \in Attempts /\ Open(conn)
    BY <1>7, OpenIsAttempt DEF Open, IInv
  <2>2. /\ down'[conn] = Append(down[conn], sent_down')
        /\ \A n \in Attempts : n # conn => down'[n] = down[n]
    BY <1>7, <2>1, SendEffect DEF IInv, TypeOK, PipeTypes
  <2>3. down[conn] \in Seq(-1..MaxSends)
    BY <2>1 DEF IInv, TypeOK, PipeTypes
  <2>4. /\ DOMAIN down[conn] \subseteq DOMAIN Append(down[conn], sent_down')
        /\ Append(down[conn], sent_down') # << >>
        /\ \A i \in DOMAIN Append(down[conn], sent_down') :
              \/ i \in DOMAIN down[conn] /\ Append(down[conn], sent_down')[i] = down[conn][i]
              \/ /\ Append(down[conn], sent_down')[i] = sent_down'
                 /\ down[conn] # << >> => i # 1
    BY SMTT(30), <1>3, <2>3, AppendPlaces
  <2>5. /\ down'[conn] # << >>
        /\ \A i \in DOMAIN down'[conn] :
              \/ i \in DOMAIN down[conn] /\ down'[conn][i] = down[conn][i]
              \/ /\ down'[conn][i] = sent_down'
                 /\ down[conn] # << >> => i # 1
    BY <2>2, <2>4
  <2>6. FreshOK'
    BY <1>2, <2>1, <2>2 DEF IInv, FreshOK, Open
  <2>7. AnswerOK'
    BY <1>2, <1>3, <2>1, <2>5 DEF IInv, AnswerOK, Open, AckAllow, AckDeny
  <2>8. AckComesFirst'
    <3>1. browser_connection_state_ = "CONNECTION_PENDING" => down[conn] # << >>
      BY <2>1 DEF IInv, AnswerOK
    <3>2. sent_down' \notin {AckAllow, AckDeny}
      BY <1>3 DEF AckAllow, AckDeny
    <3>3. SUFFICES ASSUME NEW i \in DOMAIN down'[conn]
                   PROVE  down'[conn][i] \in {AckAllow, AckDeny}
                            <=> i = 1 /\ browser_connection_state_ = "CONNECTION_PENDING"
      BY <1>2 DEF AckComesFirst
    <3>4. CASE i \in DOMAIN down[conn] /\ down'[conn][i] = down[conn][i]
      BY <2>1, <3>4 DEF IInv, AckComesFirst
    <3>5. CASE down'[conn][i] = sent_down' /\ (down[conn] # << >> => i # 1)
      BY <3>1, <3>2, <3>5
    <3>6. QED
      BY <2>5, <3>4, <3>5
  <2>9. QED
    BY <1>1, <1>5, <2>6, <2>7, <2>8 DEF IInv
<1>8. QED
  BY <1>6, <1>7 DEF SendToRenderFrame

\* The host lets go of its end of the RenderFrame pipe on purpose; ends of
\* BrowserFrame pipes may be closed in the same step.
DetachStep ==
    /\ UNCHANGED <<kind, renderer, down>>
    /\ render_frame_' = 0
    /\ render_frame' = [n \in Attempts |->
                          IF n = render_frame_ THEN "kDetached" ELSE render_frame[n]]
    /\ registered' => registered /\ ~browser_info_' /\ ~render_frame_host_'
    /\ \A n \in Attempts :
          \/ UNCHANGED <<browser_frame[n], up[n]>>
          \/ /\ browser_frame[n] \in {"requested", "bound"}
             /\ browser_frame'[n] = "closed" /\ up'[n] = << >>

LEMMA DetachIInv ==
    ASSUME IInv, TypeOK', DetachStep
    PROVE  IInv'
<1> USE ConstantsAssumption
<1>1. /\ UNCHANGED <<kind, frame_, attach_denied_, ever_connected_, conn, down,
                     browser_connection_state_>>
      /\ render_frame_' = 0
  BY DEF DetachStep, renderer
<1>2. /\ \A n \in Attempts : n # render_frame_ => render_frame'[n] = render_frame[n]
      /\ \A n \in Attempts : n = render_frame_ =>
            render_frame[n] = "bound" /\ render_frame'[n] = "kDetached"
  BY DEF DetachStep, IInv, BoundHostIsAttached, Attempts
<1>3. \A n \in Attempts : Asks(n)' => Asks(n) /\ n # render_frame_
  BY DEF DetachStep, Asks, IInv, LatestAsks, Attempts
<1>4. AttachOK'
  BY <1>2, <1>3 DEF DetachStep, IInv, AttachOK, Asks
<1>5. FreshOK'
  BY <1>1, <1>2 DEF DetachStep, IInv, FreshOK, Open, TypeOK, RendererTypes
<1>6. LatestAsks'
  BY <1>1, <1>3 DEF IInv, LatestAsks, Open
<1>7. AnswerOK'
  <2>1. Open(conn) => conn \in Attempts
    BY OpenIsAttempt DEF IInv
  <2>2. Open(conn)' <=> Open(conn)
    BY <1>1 DEF Open
  <2>3. Open(conn) /\ (down[conn] # << >> \/ browser_connection_state_ = "CONNECTION_ACKED")
          => render_frame'[conn] \in {"kDetached", "kExcluded"}
    BY <1>2, <2>1 DEF IInv, AnswerOK
  <2>4. Open(conn) => render_frame_' # conn
    BY <1>1, <2>1 DEF Attempts
  <2>5. Open(conn) => \A i \in DOMAIN down[conn] :
              /\ down[conn][i] = AckDeny => kind = "excluded" /\ render_frame'[conn] = "kExcluded"
              /\ down[conn][i] = AckAllow => kind # "excluded"
    BY <1>2, <2>1 DEF IInv, AnswerOK
  <2>6. QED
    BY <1>1, <2>2, <2>3, <2>4, <2>5 DEF AnswerOK
<1>8. AckComesFirst' /\ BoundHostIsAttached'
  BY <1>1 DEF IInv, AckComesFirst, BoundHostIsAttached, Open
<1>9. HostOK'
  BY <1>1, <1>2 DEF DetachStep, IInv, HostOK
<1>10. DenialIsFinal'
  <2>1. attach_denied_ => conn \in Attempts /\ conn # render_frame_
    BY <1>2 DEF IInv, TypeOK, RendererTypes, FreshOK, Attempts, DenialIsFinal
  <2>2. QED
    BY <1>1, <1>2, <2>1 DEF IInv, DenialIsFinal
<1>11. QED
  BY <1>4, <1>5, <1>6, <1>7, <1>8, <1>9, <1>10 DEF IInv

LEMMA HostIInv ==
    ASSUME IInv, EnterBackForwardCache \/ MaybeAttach \/ RemoveFrame
    PROVE  IInv'
<1>1. TypeOK'
  BY HostType DEF IInv
<1>2. CASE EnterBackForwardCache /\ kind = "main"
  <2>1. DetachStep
    BY <1>2 DEF EnterBackForwardCache, Detach, DetachStep
  <2>2. QED
    BY <1>1, <2>1, DetachIInv
<1>3. CASE EnterBackForwardCache /\ kind # "main"
  <2>1. /\ UNCHANGED <<kind, frame_, attach_denied_, ever_connected_, conn, down, up, browser_frame,
                       render_frame, browser_connection_state_>>
        /\ UNCHANGED <<registered, browser_info_, render_frame_host_, render_frame_,
                       queued_renderer_actions_>>
    BY <1>3 DEF EnterBackForwardCache, renderer
  <2>2. QED
    BY <1>1, <2>1 DEF IInv, AttachOK, FreshOK, LatestAsks, AnswerOK, HostOK, AckComesFirst,
       BoundHostIsAttached, DenialIsFinal, Asks, Open
<1>4. CASE MaybeAttach
  <2>1. /\ UNCHANGED <<kind, frame_, attach_denied_, ever_connected_, conn, down, up, browser_frame,
                       render_frame, browser_connection_state_>>
        /\ UNCHANGED <<registered, render_frame_, queued_renderer_actions_>>
        /\ browser_info_' = TRUE /\ render_frame_host_' = TRUE
    BY <1>4 DEF MaybeAttach, renderer, pipes
  <2>2. AttachOK' /\ FreshOK' /\ LatestAsks' /\ AnswerOK' /\ AckComesFirst' /\ DenialIsFinal'
    BY <2>1 DEF IInv, AttachOK, FreshOK, LatestAsks, AnswerOK, AckComesFirst, DenialIsFinal, Asks, Open
  <2>3. HostOK' /\ BoundHostIsAttached'
    BY <2>1 DEF IInv, HostOK, BoundHostIsAttached
  <2>4. QED
    BY <1>1, <2>2, <2>3 DEF IInv
<1>5. CASE RemoveFrame
  <2>1. DetachStep
    BY <1>5 DEF RemoveFrame, Detach, DetachStep
  <2>2. QED
    BY <1>1, <2>1, DetachIInv
<1>6. QED
  BY <1>2, <1>3, <1>4, <1>5

LEMMA NextIInv == IInv /\ [Next]_vars => IInv'
<1> SUFFICES ASSUME IInv, [Next]_vars PROVE IInv'
  OBVIOUS
<1>1. CASE RendererNext
  BY <1>1, ConnectingIInv, DisconnectingIInv, AckIInv, SendUpIInv, ReceivesIInv DEF RendererNext
<1>2. CASE BrowserNext
  BY <1>2, BindIInv, BrowserFrameIInv, FrameAttachedIInv, BrowserReceivesIInv, HostDisconnectIInv,
     SendDownIInv, HostIInv DEF BrowserNext
<1>3. CASE UNCHANGED vars
  <2>1. TypeOK'
    BY <1>3 DEF vars, renderer, pipes, host, messages, IInv, TypeOK, RendererTypes, PipeTypes,
       HostTypes, MessageTypes
  <2>2. QED
    BY <1>3, <2>1 DEF vars, renderer, pipes, host, IInv, AttachOK, FreshOK, LatestAsks, AnswerOK,
       HostOK, AckComesFirst, BoundHostIsAttached, DenialIsFinal, Asks, Open
<1>4. QED
  BY <1>1, <1>2, <1>3 DEF Next

\* The inductive invariant holds for any number of attempts, messages and events.
THEOREM Invariance == Spec => []IInv
<1>1. QED
  BY InitIInv, NextIInv, PTL DEF Spec

\* The two ends of a connection fit together at every moment: acks find the
\* state they CHECK for, an acked renderer and a bound host belong to each
\* other or the news of the contrary is on its way, and a denial is final.
THEOREM EndsAgreeHolds == Spec => []EndsAgree
<1>1. IInv => EndsAgree
  BY DEF IInv, EndsAgree, NoHalfOpenConnection, AnswerOK, Open
<1>2. QED
  BY <1>1, Invariance, PTL

\* A renderer whose host was detached, or that was denied, starts no retry as
\* long as its CefBrowserFrame lives, whether or not it has read the ack.
THEOREM RetriedOnlyAfterClosureHolds == Spec => RetriedOnlyAfterClosure
<1> DEFINE Answered == \/ browser_connection_state_ = "CONNECTION_ACKED"
                       \/ render_frame[conn] \in {"kDetached", "kExcluded"}
           A == /\ Open(conn) /\ Answered
                /\ browser_connection_state_' = "RECONNECT_PENDING"
                => browser_frame[conn] = "closed"
<1>1. ASSUME IInv, [Next]_vars PROVE A
  <2>1. SUFFICES ASSUME Open(conn), Answered,
                        browser_connection_state_' = "RECONNECT_PENDING"
                 PROVE  browser_frame[conn] = "closed"
    OBVIOUS
  <2>2. OnBrowserFrameDisconnect \/ OnRenderFrameDisconnect \/ OnDetached
    <3>1. ~UNCHANGED browser_connection_state_
      BY <2>1 DEF Open
    <3>2. RendererNext
      BY <1>1, <3>1 DEF Next, BrowserNext, vars, renderer, BindBrowserFrame, ResetBroker,
         ResetDocument, BrowserFrameDone, FrameAttached, BrowserReceives,
         HostOnRenderFrameDisconnect, SendToRenderFrame, EnterBackForwardCache, MaybeAttach,
         RemoveFrame
    <3>3. QED
      BY <2>1, <3>2 DEF RendererNext, OnDidCommitProvisionalLoad, WasShown, PageLifecycle,
         RetryTimer, OnWasShown, ConnectBrowserFrame, FrameAttachedAck, SendToBrowserFrame,
         RendererReceives, renderer, Open
  <2>3. render_frame_ = conn \/ render_frame[conn] \in {"kDetached", "kExcluded"}
    BY <1>1, <2>1 DEF IInv, AnswerOK, Open
  <2>4. conn \in Attempts
    BY <1>1, <2>1, OpenIsAttempt DEF IInv, Open
  <2>5. render_frame[conn] \in {"bound", "kDetached", "kExcluded"}
    BY <1>1, <2>3, <2>4 DEF IInv, BoundHostIsAttached, Attempts
  <2>6. CASE OnBrowserFrameDisconnect
    BY <1>1, <2>4, <2>5, <2>6 DEF OnBrowserFrameDisconnect, IInv, AttachOK
  <2>7. CASE OnRenderFrameDisconnect
    BY <2>1, <2>5, <2>7 DEF OnRenderFrameDisconnect, OnDisconnect, Open
  <2>8. CASE OnDetached
    BY <2>1, <2>8 DEF OnDetached, OnDisconnect, Open
  <2>9. QED
    BY <2>2, <2>6, <2>7, <2>8
<1>2. IInv /\ [Next]_vars => [A]_vars
  BY <1>1
<1>3. QED
  BY <1>2, Invariance, PTL DEF Spec, RetriedOnlyAfterClosure

-----------------------------------------------------------------------------
(* Messages are delivered at most once.  In either direction the messages  *)
(* in the queue, on the pipes and among those received are different ones. *)

InQueue(q, got, sent) == \A k \in DOMAIN q : q[k] <= sent /\ got[q[k]] = 0

InPipes(f, got, sent) ==
    \A n \in Attempts : \A k \in DOMAIN f[n] :
        f[n][k] > 0 => f[n][k] <= sent /\ got[f[n][k]] = 0

QueueOnce(q) == \A j, k \in DOMAIN q : q[j] = q[k] => j = k

PipesOnce(f) ==
    \A n, m \in Attempts : \A j \in DOMAIN f[n], k \in DOMAIN f[m] :
        f[n][j] > 0 /\ f[n][j] = f[m][k] => n = m /\ j = k

Apart(q, f) ==
    \A j \in DOMAIN q : \A n \in Attempts : \A k \in DOMAIN f[n] : q[j] # f[n][k]

Received(got, sent) ==
    \A i \in 1..MaxSends : got[i] <= 1 /\ (i > sent => got[i] = 0)

Once(q, f, got, sent) ==
    /\ InQueue(q, got, sent) /\ InPipes(f, got, sent) /\ QueueOnce(q) /\ PipesOnce(f)
    /\ Apart(q, f) /\ Received(got, sent)

OnceUp == Once(queued_browser_actions_, up, got_up, sent_up)
OnceDown == Once(queued_renderer_actions_, down, got_down, sent_down)

\* The types of one direction.
Direction(q, f, got, sent) ==
    /\ q \in Seq(1..MaxSends) /\ f \in [Attempts -> Seq(-1..MaxSends)]
    /\ got \in [1..MaxSends -> Nat] /\ sent \in 0..MaxSends

LEMMA Directions ==
    ASSUME TypeOK
    PROVE  /\ Direction(queued_browser_actions_, up, got_up, sent_up)
           /\ Direction(queued_renderer_actions_, down, got_down, sent_down)
<1>1. \A n \in Attempts : up[n] \in Seq(-1..MaxSends)
  <2>1. 0..MaxSends \subseteq -1..MaxSends
    BY ConstantsAssumption
  <2>2. \A n \in Attempts : up[n] \in Seq(0..MaxSends)
    BY DEF TypeOK, PipeTypes
  <2>3. QED
    BY <2>1, <2>2, SeqMonotonic
<1>2. up = [n \in Attempts |-> up[n]]
  BY DEF TypeOK, PipeTypes
<1>3. QED
  BY <1>1, <1>2 DEF TypeOK, RendererTypes, PipeTypes, HostTypes, MessageTypes, Direction

LEMMA DirectionsNext ==
    TypeOK' => /\ Direction(queued_browser_actions_, up, got_up, sent_up)'
               /\ Direction(queued_renderer_actions_, down, got_down, sent_down)'
<1>1. TypeOK => /\ Direction(queued_browser_actions_, up, got_up, sent_up)
                /\ Direction(queued_renderer_actions_, down, got_down, sent_down)
  BY Directions
<1>2. QED
  BY <1>1, PTL

LEMMA SeqValues ==
    ASSUME NEW T, NEW s \in Seq(T)
    PROVE  \A k \in DOMAIN s : s[k] \in T
OBVIOUS

LEMMA DirectionValues ==
    ASSUME NEW q, NEW f, NEW got, NEW sent, Direction(q, f, got, sent)
    PROVE  /\ sent \in Int
           /\ \A k \in DOMAIN q : q[k] \in 1..MaxSends
           /\ \A n \in Attempts : \A k \in DOMAIN f[n] : f[n][k] \in -1..MaxSends
<1>1. sent \in Int /\ \A k \in DOMAIN q : q[k] \in 1..MaxSends
  <2>1. sent \in 0..MaxSends /\ q \in Seq(1..MaxSends)
    BY DEF Direction
  <2>2. sent \in Int
    BY <2>1, ConstantsAssumption
  <2>3. QED
    BY <2>1, <2>2, SeqValues
<1>2. ASSUME NEW n \in Attempts PROVE \A k \in DOMAIN f[n] : f[n][k] \in -1..MaxSends
  <2>1. f[n] \in Seq(-1..MaxSends)
    BY DEF Direction
  <2>2. QED
    BY <2>1, SeqValues
<1>3. QED
  BY <1>1, <1>2

\* What the pipes and the queue hold is what they held before, or less.
LEMMA OnceLess ==
    ASSUME NEW q, NEW f, NEW got, NEW sent, Direction(q, f, got, sent), Once(q, f, got, sent),
           NEW q2, NEW f2, NEW sent2, Direction(q2, f2, got, sent2), sent2 >= sent,
           q2 = q \/ q2 = << >>,
           \A n \in Attempts : \A k \in DOMAIN f2[n] :
               f2[n][k] > 0 => k \in DOMAIN f[n] /\ f[n][k] = f2[n][k]
    PROVE  Once(q2, f2, got, sent2)
<1> USE ConstantsAssumption
<1>1. /\ sent \in Int /\ sent2 \in Int
      /\ \A k \in DOMAIN q : q[k] \in 1..MaxSends
      /\ \A n \in Attempts : \A k \in DOMAIN f[n] : f[n][k] \in -1..MaxSends
      /\ \A n \in Attempts : \A k \in DOMAIN f2[n] : f2[n][k] \in -1..MaxSends
  BY DirectionValues
<1>2. \A k \in DOMAIN q2 : k \in DOMAIN q /\ q2[k] = q[k]
  OBVIOUS
<1>3. InQueue(q2, got, sent2) /\ QueueOnce(q2)
  BY <1>1, <1>2 DEF Once, InQueue, QueueOnce
<1>4. InPipes(f2, got, sent2)
  BY <1>1 DEF Once, InPipes
<1>5. PipesOnce(f2)
  BY <1>1 DEF Once, PipesOnce
<1>6. Apart(q2, f2)
  BY <1>1, <1>2 DEF Once, Apart
<1>7. Received(got, sent2)
  BY <1>1 DEF Once, Received
<1>8. QED
  BY <1>3, <1>4, <1>5, <1>6, <1>7 DEF Once

\* A new message is put at the end of the queue.
LEMMA OnceQueued ==
    ASSUME NEW q, NEW f, NEW got, NEW sent, Direction(q, f, got, sent), Once(q, f, got, sent),
           sent < MaxSends
    PROVE  Once(Append(q, sent + 1), f, got, sent + 1)
<1> USE ConstantsAssumption
<1> DEFINE q2 == Append(q, sent + 1)
<1>1. /\ sent \in Int /\ sent + 1 \in 1..MaxSends
      /\ \A k \in DOMAIN q : q[k] \in 1..MaxSends
      /\ \A n \in Attempts : \A k \in DOMAIN f[n] : f[n][k] \in -1..MaxSends
  BY SMTT(30), DirectionValues DEF Direction
<1>2. \A k \in DOMAIN q2 :
          \/ k \in DOMAIN q /\ q2[k] = q[k]
          \/ k = Len(q) + 1 /\ q2[k] = sent + 1
  BY <1>1, AppendPlaces DEF Direction
<1>3. /\ \A k \in DOMAIN q : q[k] <= sent
      /\ \A n \in Attempts : \A k \in DOMAIN f[n] : f[n][k] <= sent
  BY <1>1 DEF Once, InQueue, InPipes, Direction
<1>4. got[sent + 1] = 0
  BY <1>1 DEF Once, Received
<1> HIDE DEF q2
<1>5. InQueue(q2, got, sent + 1)
  BY <1>1, <1>2, <1>4 DEF Once, InQueue
<1>6. QueueOnce(q2)
  BY <1>1, <1>2, <1>3 DEF Once, QueueOnce
<1>7. InPipes(f, got, sent + 1) /\ PipesOnce(f)
  BY <1>1 DEF Once, InPipes
<1>8. Apart(q2, f)
  BY <1>1, <1>2, <1>3 DEF Once, Apart
<1>9. Received(got, sent + 1)
  BY <1>1 DEF Once, Received
<1>10. QED
  BY <1>5, <1>6, <1>7, <1>8, <1>9 DEF Once, q2

\* A new message is sent on a pipe.
LEMMA OnceSent ==
    ASSUME NEW q, NEW f, NEW got, NEW sent, Direction(q, f, got, sent), Once(q, f, got, sent),
           sent < MaxSends, NEW c
    PROVE  Once(q, [f EXCEPT ![c] = Append(@, sent + 1)], got, sent + 1)
<1> USE ConstantsAssumption
<1> DEFINE f2 == [f EXCEPT ![c] = Append(@, sent + 1)]
<1>1. /\ sent \in Int /\ sent + 1 \in 1..MaxSends
      /\ \A k \in DOMAIN q : q[k] \in 1..MaxSends
      /\ \A n \in Attempts : \A k \in DOMAIN f[n] : f[n][k] \in -1..MaxSends
  BY SMTT(30), DirectionValues DEF Direction
<1>2. \A n \in Attempts : \A k \in DOMAIN f2[n] :
          \/ k \in DOMAIN f[n] /\ f2[n][k] = f[n][k]
          \/ n = c /\ k = Len(f[c]) + 1 /\ f2[n][k] = sent + 1
  <2>1. \A n \in Attempts : n # c => f2[n] = f[n]
    BY DEF Direction
  <2>2. c \in Attempts => f2[c] = Append(f[c], sent + 1) /\ f[c] \in Seq(-1..MaxSends)
    BY DEF Direction
  <2>3. sent + 1 \in -1..MaxSends
    BY <1>1
  <2> HIDE DEF f2
  <2>4. c \in Attempts => \A k \in DOMAIN f2[c] :
            \/ k \in DOMAIN f[c] /\ f2[c][k] = f[c][k]
            \/ k = Len(f[c]) + 1 /\ f2[c][k] = sent + 1
    BY SMTT(30), <2>2, <2>3, AppendPlaces
  <2>5. QED
    BY <2>1, <2>4
<1>3. /\ \A k \in DOMAIN q : q[k] <= sent
      /\ \A n \in Attempts : \A k \in DOMAIN f[n] : f[n][k] <= sent
  BY <1>1 DEF Once, InQueue, InPipes, Direction
<1>4. got[sent + 1] = 0
  BY <1>1 DEF Once, Received
<1> HIDE DEF f2
<1>5. InQueue(q, got, sent + 1) /\ QueueOnce(q)
  BY <1>1 DEF Once, InQueue
<1>6. InPipes(f2, got, sent + 1)
  BY <1>1, <1>2, <1>4 DEF Once, InPipes
<1>7. PipesOnce(f2)
  BY <1>1, <1>2, <1>3 DEF Once, PipesOnce
<1>8. Apart(q, f2)
  BY <1>1, <1>2, <1>3 DEF Once, Apart
<1>9. Received(got, sent + 1)
  BY <1>1 DEF Once, Received
<1>10. QED
  BY <1>5, <1>6, <1>7, <1>8, <1>9 DEF Once, f2

\* The queue is flushed onto a pipe behind s: what the pipe held, or an ack.
LEMMA OnceFlushed ==
    ASSUME NEW q, NEW f, NEW got, NEW sent, Direction(q, f, got, sent), Once(q, f, got, sent),
           NEW c \in Attempts, NEW s \in Seq(-1..MaxSends),
           \A k \in DOMAIN s : s[k] > 0 => k \in DOMAIN f[c] /\ f[c][k] = s[k]
    PROVE  Once(<< >>, [f EXCEPT ![c] = s \o q], got, sent)
<1> USE ConstantsAssumption
<1> DEFINE f2 == [f EXCEPT ![c] = s \o q]
<1>1. /\ sent \in Int
      /\ \A k \in DOMAIN q : q[k] \in 1..MaxSends
      /\ \A n \in Attempts : \A k \in DOMAIN f[n] : f[n][k] \in -1..MaxSends
      /\ \A k \in DOMAIN s : s[k] \in -1..MaxSends
  BY DirectionValues
<1>2. \A n \in Attempts : \A k \in DOMAIN f2[n] :
          \/ f2[n][k] \in {-1, 0}
          \/ k \in DOMAIN f[n] /\ f2[n][k] = f[n][k]
          \/ n = c /\ k - Len(s) \in DOMAIN q /\ f2[n][k] = q[k - Len(s)]
  <2>1. \A n \in Attempts : n # c => f2[n] = f[n]
    BY DEF Direction
  <2>2. f2[c] = s \o q
    BY DEF Direction
  <2>3. \A k \in DOMAIN (s \o q) :
            \/ k \in DOMAIN s /\ (s \o q)[k] = s[k]
            \/ k - Len(s) \in DOMAIN q /\ (s \o q)[k] = q[k - Len(s)]
    BY SMTT(30) DEF Direction
  <2> HIDE DEF f2
  <2>4. \A k \in DOMAIN s : s[k] \in {-1, 0} \/ (k \in DOMAIN f[c] /\ f[c][k] = s[k])
    BY <1>1
  <2>5. \A k \in DOMAIN f2[c] :
            \/ k \in DOMAIN s /\ f2[c][k] = s[k]
            \/ k - Len(s) \in DOMAIN q /\ f2[c][k] = q[k - Len(s)]
    BY <2>2, <2>3
  <2>6. QED
    BY <2>1, <2>4, <2>5, Zenon
<1>3. \A n \in Attempts : \A k \in DOMAIN f2[n] : k \in Int
  <2>1. f2 \in [Attempts -> Seq(-1..MaxSends)]
    <3>1. q \in Seq(-1..MaxSends)
      BY WiderQueues DEF Direction
    <3>2. s \o q \in Seq(-1..MaxSends)
      BY <3>1, ConcatProperties
    <3>3. QED
      BY <3>2 DEF Direction
  <2> HIDE DEF f2
  <2>2. QED
    BY <2>1
<1>4. Len(s) \in Int
  OBVIOUS
<1> HIDE DEF f2
<1>5. InPipes(f2, got, sent)
  BY <1>1, <1>2 DEF Once, InPipes, InQueue
<1>6. PipesOnce(f2)
  <2>1. SUFFICES ASSUME NEW n \in Attempts, NEW m \in Attempts,
                        NEW j \in DOMAIN f2[n], NEW k \in DOMAIN f2[m],
                        f2[n][j] > 0, f2[n][j] = f2[m][k]
                 PROVE  n = m /\ j = k
    BY DEF PipesOnce
  <2>2. CASE j \in DOMAIN f[n] /\ f2[n][j] = f[n][j]
    <3>1. CASE k \in DOMAIN f[m] /\ f2[m][k] = f[m][k]
      <4>1. f[n][j] > 0 /\ f[n][j] = f[m][k]
        BY <2>1, <2>2, <3>1
      <4>2. QED
        BY <2>2, <3>1, <4>1 DEF Once, PipesOnce
    <3>2. CASE k - Len(s) \in DOMAIN q /\ f2[m][k] = q[k - Len(s)]
      BY ZenonT(40), <2>1, <2>2, <3>2 DEF Once, Apart
    <3>3. QED
      BY <1>2, <2>1, <3>1, <3>2
  <2>3. CASE n = c /\ j - Len(s) \in DOMAIN q /\ f2[n][j] = q[j - Len(s)]
    <3>1. m = c /\ k - Len(s) \in DOMAIN q /\ f2[m][k] = q[k - Len(s)]
      BY <1>1, <1>2, <2>1, <2>3 DEF Once, Apart
    <3>2. j - Len(s) = k - Len(s)
      BY <2>1, <2>3, <3>1 DEF Once, QueueOnce
    <3>3. QED
      BY <1>3, <1>4, <2>1, <2>3, <3>1, <3>2
  <2>4. QED
    BY <1>2, <2>1, <2>2, <2>3
<1>7. InQueue(<< >>, got, sent) /\ QueueOnce(<< >>) /\ Apart(<< >>, f2)
  BY DEF InQueue, QueueOnce, Apart
<1>8. QED
  BY <1>5, <1>6, <1>7 DEF Once, f2

\* The first message of a pipe is taken off it, and received or ignored.
LEMMA OnceTaken ==
    ASSUME NEW q, NEW f, NEW got, NEW sent, Direction(q, f, got, sent), Once(q, f, got, sent),
           NEW c \in Attempts, f[c] # << >>, NEW got2,
           \/ got2 = got
           \/ Head(f[c]) > 0 /\ got2 = [got EXCEPT ![Head(f[c])] = @ + 1]
    PROVE  Once(q, [f EXCEPT ![c] = Tail(@)], got2, sent)
<1> USE ConstantsAssumption
<1> DEFINE f2 == [f EXCEPT ![c] = Tail(@)]
<1>1. /\ sent \in Int
      /\ \A k \in DOMAIN q : q[k] \in 1..MaxSends
      /\ \A n \in Attempts : \A k \in DOMAIN f[n] : f[n][k] \in -1..MaxSends
  BY DirectionValues
<1>2. f[c] \in Seq(-1..MaxSends)
  BY DEF Direction
<1>3. Head(f[c]) = f[c][1] /\ 1 \in DOMAIN f[c]
  BY <1>2
<1>4. /\ \A n \in Attempts : n # c => f2[n] = f[n]
      /\ \A k \in DOMAIN f2[c] : /\ k \in Int /\ k + 1 \in DOMAIN f[c] /\ k + 1 # 1
                                 /\ f2[c][k] = f[c][k + 1]
  <2>1. f2[c] = Tail(f[c]) /\ \A n \in Attempts : n # c => f2[n] = f[n]
    BY DEF Direction
  <2>2. \A k \in DOMAIN Tail(f[c]) : /\ k \in Int /\ k + 1 \in DOMAIN f[c] /\ k + 1 # 1
                                     /\ Tail(f[c])[k] = f[c][k + 1]
    BY SMTT(30), <1>2
  <2> HIDE DEF f2
  <2>3. QED
    BY <2>1, <2>2
<1> HIDE DEF f2
<1>5. \A n \in Attempts : \A k \in DOMAIN f2[n] :
          \E j \in DOMAIN f[n] : f[n][j] = f2[n][k] /\ (n = c => j # 1)
  BY <1>4
<1>6. \A n \in Attempts : \A k \in DOMAIN f2[n] : f2[n][k] > 0 => f2[n][k] # f[c][1]
  BY <1>3, <1>5 DEF Once, PipesOnce
<1>7. \A k \in DOMAIN q : q[k] # f[c][1]
  BY <1>3 DEF Once, Apart
<1>8. /\ \A i \in 1..MaxSends : i # f[c][1] => got2[i] = got[i]
      /\ \A i \in 1..MaxSends : got2[i] = got[i] \/ (i = f[c][1] /\ got2[i] = got[i] + 1)
  BY <1>3 DEF Direction
<1>9. InQueue(q, got2, sent) /\ QueueOnce(q)
  BY <1>1, <1>7, <1>8 DEF Once, InQueue
<1>10. InPipes(f2, got2, sent)
  <2>1. SUFFICES ASSUME NEW n \in Attempts, NEW k \in DOMAIN f2[n], f2[n][k] > 0
                 PROVE  f2[n][k] <= sent /\ got2[f2[n][k]] = 0
    BY DEF InPipes
  <2>2. PICK j \in DOMAIN f[n] : f[n][j] = f2[n][k]
    BY <1>5
  <2>3. f2[n][k] \in 1..MaxSends /\ f2[n][k] <= sent /\ got[f2[n][k]] = 0
    BY <1>1, <2>1, <2>2 DEF Once, InPipes
  <2>4. QED
    BY <1>6, <1>8, <2>1, <2>3
<1>11. PipesOnce(f2)
  <2>1. SUFFICES ASSUME NEW n \in Attempts, NEW m \in Attempts,
                        NEW j \in DOMAIN f2[n], NEW k \in DOMAIN f2[m],
                        f2[n][j] > 0, f2[n][j] = f2[m][k]
                 PROVE  n = m /\ j = k
    BY DEF PipesOnce
  <2>2. PICK i \in DOMAIN f[n] : f[n][i] = f2[n][j] /\ (n = c => i = j + 1) /\ (n # c => i = j)
    BY <1>4
  <2>3. PICK l \in DOMAIN f[m] : f[m][l] = f2[m][k] /\ (m = c => l = k + 1) /\ (m # c => l = k)
    BY <1>4
  <2>4. n = m /\ i = l
    BY <2>1, <2>2, <2>3 DEF Once, PipesOnce
  <2>5. CASE n = c
    <3>1. j \in Int /\ k \in Int /\ j + 1 = k + 1
      BY <1>4, <2>2, <2>3, <2>4, <2>5
    <3>2. QED
      BY <2>4, <3>1
  <2>6. QED
    BY <2>2, <2>3, <2>4, <2>5
<1>12. Apart(q, f2)
  BY <1>5 DEF Once, Apart
<1>13. Received(got2, sent)
  <2>1. f[c][1] > 0 => f[c][1] <= sent /\ got[f[c][1]] = 0
    BY <1>3 DEF Once, InPipes
  <2>2. \A i \in 1..MaxSends : got[i] \in Nat
    BY DEF Direction
  <2>3. QED
    BY <1>1, <1>8, <2>1, <2>2 DEF Once, Received
<1>14. QED
  BY <1>9, <1>10, <1>11, <1>12, <1>13 DEF Once, f2

\* A step that puts no message on the pipes and none in the queue.
LessStep(q, f, q2, f2) ==
    /\ q2 = q \/ q2 = << >>
    /\ \A n \in Attempts : f2[n] \in {f[n], << >>, <<0>>, <<-1>>}

LEMMA LessOnce ==
    ASSUME NEW q, NEW f, NEW got, NEW sent, Direction(q, f, got, sent), Once(q, f, got, sent),
           NEW q2, NEW f2, NEW sent2, Direction(q2, f2, got, sent2), sent2 >= sent,
           LessStep(q, f, q2, f2)
    PROVE  Once(q2, f2, got, sent2)
<1>1. ASSUME NEW n \in Attempts, NEW k \in DOMAIN f2[n], f2[n][k] > 0
      PROVE  k \in DOMAIN f[n] /\ f[n][k] = f2[n][k]
  <2>1. CASE f2[n] = f[n]
    BY <1>1, <2>1
  <2>2. CASE f2[n] = << >>
    BY <1>1, <2>2
  <2>3. CASE f2[n] = <<0>>
    BY <1>1, <2>3
  <2>4. CASE f2[n] = <<-1>>
    BY <1>1, <2>4
  <2>5. QED
    BY <2>1, <2>2, <2>3, <2>4 DEF LessStep
<1>2. QED
  BY <1>1, OnceLess DEF LessStep

LEMMA OnceUpRenderer ==
    ASSUME IInv, TypeOK', OnceUp, RendererNext
    PROVE  OnceUp'
<1> USE ConstantsAssumption
<1> DEFINE q == queued_browser_actions_
<1>1. Direction(q, up, got_up, sent_up) /\ Direction(q, up, got_up, sent_up)'
  BY Directions, DirectionsNext DEF IInv
<1>2. sent_up \in Int
  BY <1>1, DirectionValues
<1>3. ASSUME LessStep(q, up, q', up'), got_up' = got_up, sent_up' >= sent_up
      PROVE  OnceUp'
  <2>1. Once(q', up', got_up, sent_up')
    BY <1>1, <1>3, LessOnce DEF OnceUp
  <2>2. QED
    BY <1>3, <2>1 DEF OnceUp
<1>4. CASE OnDidCommitProvisionalLoad \/ WasShown \/ PageLifecycle \/ RetryTimer
  <2>1. UNCHANGED <<queued_browser_actions_, got_up, sent_up>>
    BY <1>4 DEF OnDidCommitProvisionalLoad, WasShown, PageLifecycle, RetryTimer, messages
  <2>2. up' = up \/ up' = [up EXCEPT ![conn + 1] = <<FrameAttachedMsg>>]
    BY <1>4 DEF OnDidCommitProvisionalLoad, WasShown, PageLifecycle, RetryTimer, OnWasShown,
       ConnectBrowserFrame
  <2>3. \A n \in Attempts : up'[n] \in {up[n], <<0>>}
    BY <2>2 DEF IInv, TypeOK, PipeTypes, FrameAttachedMsg
  <2>4. QED
    BY <1>2, <1>3, <2>1, <2>3 DEF LessStep
<1>5. CASE OnBrowserFrameDisconnect \/ OnRenderFrameDisconnect \/ OnDetached
  <2>1. q' \in {q, << >>} /\ UNCHANGED <<up, got_up, sent_up>>
    BY <1>5 DEF OnBrowserFrameDisconnect, OnRenderFrameDisconnect, OnDetached, messages
  <2>2. QED
    BY <1>2, <1>3, <2>1 DEF LessStep
<1>6. CASE FrameAttachedAck
  <2>1. q' = << >> /\ UNCHANGED <<got_up, sent_up>>
    BY <1>6 DEF FrameAttachedAck, messages
  <2>2. conn \in Attempts
    BY <1>6, OpenIsAttempt DEF FrameAttachedAck, IInv
  <2>3. up' = [up EXCEPT ![conn] = up[conn]] \/ up' = [up EXCEPT ![conn] = up[conn] \o q]
    BY <1>6, Zenon DEF FrameAttachedAck
  <2>4. CASE up' = [up EXCEPT ![conn] = up[conn]]
    <3>1. up' = up
      BY <2>4 DEF IInv, TypeOK, PipeTypes
    <3>2. QED
      BY <1>2, <1>3, <2>1, <3>1 DEF LessStep
  <2>5. CASE up' = [up EXCEPT ![conn] = up[conn] \o q]
    <3>1. up[conn] \in Seq(-1..MaxSends)
      BY <1>1, <2>2 DEF Direction
    <3>2. \A k \in DOMAIN up[conn] : up[conn][k] > 0
              => k \in DOMAIN up[conn] /\ up[conn][k] = up[conn][k]
      OBVIOUS
    <3>3. Once(<< >>, up', got_up, sent_up)
      BY <1>1, <2>2, <2>5, <3>1, <3>2, OnceFlushed DEF OnceUp
    <3>4. QED
      BY <2>1, <3>3 DEF OnceUp
  <2>6. QED
    BY <2>3, <2>4, <2>5
<1>7. CASE SendToBrowserFrame
  <2>1. sent_up < MaxSends /\ sent_up' = sent_up + 1 /\ got_up' = got_up
    BY <1>7 DEF SendToBrowserFrame
  <2>2. \/ UNCHANGED <<queued_browser_actions_, up>>
        \/ q' = Append(q, sent_up + 1) /\ up' = up
        \/ q' = q /\ up' = [up EXCEPT ![conn] = Append(@, sent_up + 1)]
    BY <1>7, Zenon DEF SendToBrowserFrame
  <2>3. CASE UNCHANGED <<queued_browser_actions_, up>>
    BY <1>2, <1>3, <2>1, <2>3 DEF LessStep
  <2>4. CASE q' = Append(q, sent_up + 1) /\ up' = up
    <3>1. Once(Append(q, sent_up + 1), up, got_up, sent_up + 1)
      BY <1>1, <2>1, OnceQueued DEF OnceUp
    <3>2. QED
      BY <2>1, <2>4, <3>1 DEF OnceUp
  <2>5. CASE q' = q /\ up' = [up EXCEPT ![conn] = Append(@, sent_up + 1)]
    <3>1. Once(q, [up EXCEPT ![conn] = Append(@, sent_up + 1)], got_up, sent_up + 1)
      BY <1>1, <2>1, OnceSent DEF OnceUp
    <3>2. QED
      BY <2>1, <2>5, <3>1 DEF OnceUp
  <2>6. QED
    BY <2>2, <2>3, <2>4, <2>5
<1>8. CASE RendererReceives
  BY <1>8 DEF RendererReceives, renderer, OnceUp
<1>9. QED
  BY <1>4, <1>5, <1>6, <1>7, <1>8 DEF RendererNext

LEMMA OnceUpBrowser ==
    ASSUME IInv, TypeOK', OnceUp, BrowserNext
    PROVE  OnceUp'
<1> USE ConstantsAssumption
<1> DEFINE q == queued_browser_actions_
<1>1. Direction(q, up, got_up, sent_up) /\ Direction(q, up, got_up, sent_up)'
  BY Directions, DirectionsNext DEF IInv
<1>2. sent_up \in Int
  BY <1>1, DirectionValues
<1>3. ASSUME \A n \in Attempts : up'[n] \in {up[n], << >>},
             UNCHANGED <<queued_browser_actions_, got_up, sent_up>>
      PROVE  OnceUp'
  <2>1. LessStep(q, up, q', up') /\ sent_up' >= sent_up
    BY <1>2, <1>3 DEF LessStep
  <2>2. Once(q', up', got_up, sent_up')
    BY <1>1, <1>3, <2>1, LessOnce DEF OnceUp
  <2>3. QED
    BY <1>3, <2>2 DEF OnceUp
<1>4. ASSUME NEW n \in Attempts,
             \/ BindBrowserFrame(n) \/ ResetBroker(n) \/ ResetDocument(n) \/ BrowserFrameDone(n)
      PROVE  OnceUp'
  <2>1. UNCHANGED <<queued_browser_actions_, got_up, sent_up>>
    BY <1>4 DEF BindBrowserFrame, ResetBroker, ResetDocument, BrowserFrameDone, renderer, messages
  <2>2. \A m \in Attempts : up'[m] \in {up[m], << >>}
    BY <1>4 DEF BindBrowserFrame, ResetBroker, ResetDocument, BrowserFrameDone, Closed
  <2>3. QED
    BY <1>3, <2>1, <2>2
<1>5. ASSUME NEW n \in Attempts, FrameAttached(n) \/ BrowserReceives(n)
      PROVE  OnceUp'
  <2>1. /\ UNCHANGED <<queued_browser_actions_, sent_up>> /\ up[n] # << >>
        /\ up' = [up EXCEPT ![n] = Tail(@)]
    BY <1>5 DEF FrameAttached, BrowserReceives, renderer, messages
  <2>2. \/ got_up' = got_up
        \/ Head(up[n]) > 0 /\ got_up' = [got_up EXCEPT ![Head(up[n])] = @ + 1]
    <3>1. CASE FrameAttached(n)
      BY <3>1 DEF FrameAttached, messages
    <3>2. CASE BrowserReceives(n)
      <4>1. Head(up[n]) > 0
        BY <2>1, <3>2, FirstMessage DEF BrowserReceives, FrameAttachedMsg, IInv, TypeOK
      <4>2. QED
        BY <3>2, <4>1 DEF BrowserReceives
    <3>3. QED
      BY <1>5, <3>1, <3>2
  <2>3. Once(q, [up EXCEPT ![n] = Tail(@)], got_up', sent_up)
    BY <1>1, <2>1, <2>2, OnceTaken DEF OnceUp
  <2>4. QED
    BY <2>1, <2>3 DEF OnceUp
<1>6. CASE \/ HostOnRenderFrameDisconnect \/ SendToRenderFrame \/ EnterBackForwardCache
           \/ MaybeAttach \/ RemoveFrame
  <2>1. UNCHANGED <<queued_browser_actions_, got_up, sent_up>>
    BY <1>6 DEF HostOnRenderFrameDisconnect, SendToRenderFrame, EnterBackForwardCache, MaybeAttach,
       RemoveFrame, renderer, messages
  <2>2. \A m \in Attempts : up'[m] \in {up[m], << >>}
    BY <1>6 DEF HostOnRenderFrameDisconnect, SendToRenderFrame, EnterBackForwardCache, MaybeAttach,
       RemoveFrame, pipes
  <2>3. QED
    BY <1>3, <2>1, <2>2
<1>7. QED
  BY <1>4, <1>5, <1>6 DEF BrowserNext

LEMMA OnceDownRenderer ==
    ASSUME IInv, TypeOK', OnceDown, RendererNext
    PROVE  OnceDown'
<1> USE ConstantsAssumption
<1> DEFINE q == queued_renderer_actions_
<1>1. Direction(q, down, got_down, sent_down) /\ Direction(q, down, got_down, sent_down)'
  BY Directions, DirectionsNext DEF IInv
<1>2. sent_down \in Int
  BY <1>1, DirectionValues
<1>3. UNCHANGED <<queued_renderer_actions_, sent_down>>
  BY DEF RendererNext, OnDidCommitProvisionalLoad, WasShown, PageLifecycle, RetryTimer,
     OnBrowserFrameDisconnect, OnRenderFrameDisconnect, OnDetached, FrameAttachedAck,
     SendToBrowserFrame, RendererReceives, host, messages
<1>4. CASE \/ OnDidCommitProvisionalLoad \/ WasShown \/ PageLifecycle \/ RetryTimer
           \/ SendToBrowserFrame
  <2>1. UNCHANGED <<down, got_down>>
    BY <1>4 DEF OnDidCommitProvisionalLoad, WasShown, PageLifecycle, RetryTimer,
       SendToBrowserFrame, messages
  <2>2. QED
    BY <1>3, <2>1 DEF OnceDown
<1>5. CASE OnBrowserFrameDisconnect \/ OnRenderFrameDisconnect \/ OnDetached
  <2>1. got_down' = got_down /\ (down' = down \/ down' = [down EXCEPT ![conn] = << >>])
    BY <1>5 DEF OnBrowserFrameDisconnect, OnRenderFrameDisconnect, OnDetached, OnDisconnect, messages
  <2>2. \A n \in Attempts : down'[n] \in {down[n], << >>}
    BY <2>1 DEF IInv, TypeOK, PipeTypes
  <2>3. LessStep(q, down, q', down') /\ sent_down' >= sent_down
    BY <1>2, <1>3, <2>2 DEF LessStep
  <2>4. Once(q', down', got_down, sent_down')
    BY <1>1, <2>1, <2>3, LessOnce DEF OnceDown
  <2>5. QED
    BY <2>1, <2>4 DEF OnceDown
<1>6. CASE FrameAttachedAck \/ RendererReceives
  <2>1. conn \in Attempts /\ down[conn] # << >> /\ down' = [down EXCEPT ![conn] = Tail(@)]
    BY <1>6, OpenIsAttempt DEF FrameAttachedAck, RendererReceives, IInv
  <2>2. \/ got_down' = got_down
        \/ Head(down[conn]) > 0 /\ got_down' = [got_down EXCEPT ![Head(down[conn])] = @ + 1]
    <3>1. CASE FrameAttachedAck
      BY <3>1 DEF FrameAttachedAck, messages
    <3>2. CASE RendererReceives
      <4>1. Head(down[conn]) > 0
        BY <2>1, <3>2, FirstMessage DEF RendererReceives, AckAllow, AckDeny, IInv, TypeOK
      <4>2. QED
        BY <3>2, <4>1 DEF RendererReceives
    <3>3. QED
      BY <1>6, <3>1, <3>2
  <2>3. Once(q, [down EXCEPT ![conn] = Tail(@)], got_down', sent_down)
    BY <1>1, <2>1, <2>2, OnceTaken DEF OnceDown
  <2>4. QED
    BY <1>3, <2>1, <2>3 DEF OnceDown
<1>7. QED
  BY <1>4, <1>5, <1>6 DEF RendererNext

LEMMA OnceDownBrowser ==
    ASSUME IInv, TypeOK', OnceDown, BrowserNext
    PROVE  OnceDown'
<1> USE ConstantsAssumption
<1> DEFINE q == queued_renderer_actions_
<1>1. Direction(q, down, got_down, sent_down) /\ Direction(q, down, got_down, sent_down)'
  BY Directions, DirectionsNext DEF IInv
<1>2. sent_down \in Int
  BY <1>1, DirectionValues
<1>3. ASSUME LessStep(q, down, q', down'), got_down' = got_down, sent_down' >= sent_down
      PROVE  OnceDown'
  <2>1. Once(q', down', got_down, sent_down')
    BY <1>1, <1>3, LessOnce DEF OnceDown
  <2>2. QED
    BY <1>3, <2>1 DEF OnceDown
<1>4. ASSUME NEW n \in Attempts,
             \/ BindBrowserFrame(n) \/ ResetBroker(n) \/ ResetDocument(n) \/ BrowserFrameDone(n)
             \/ BrowserReceives(n)
      PROVE  OnceDown'
  BY <1>4 DEF BindBrowserFrame, ResetBroker, ResetDocument, BrowserFrameDone, BrowserReceives, host,
     messages, OnceDown
<1>5. ASSUME NEW n \in Attempts, FrameAttached(n)
      PROVE  OnceDown'
  <2>1. UNCHANGED <<got_down, sent_down>>
    BY <1>5 DEF FrameAttached, messages
  <2>2. \/ q' \in {q, << >>} /\ down' = down
        \/ q' = q /\ down' = [down EXCEPT ![n] = <<-1>>]
        \/ q' = << >> /\ down' = [down EXCEPT ![n] = <<0>> \o q]
    BY <1>5, Zenon DEF FrameAttached, HostFrameAttached, BindRemote, DropRemote, Answer, AckAllow,
       AckDeny
  <2>3. CASE q' \in {q, << >>} /\ down' = down
    BY <1>2, <1>3, <2>1, <2>3 DEF LessStep
  <2>4. CASE q' = q /\ down' = [down EXCEPT ![n] = <<-1>>]
    <3>1. \A m \in Attempts : down'[m] \in {down[m], <<-1>>}
      BY <2>4 DEF IInv, TypeOK, PipeTypes
    <3>2. QED
      BY <1>2, <1>3, <2>1, <2>4, <3>1 DEF LessStep
  <2>5. CASE q' = << >> /\ down' = [down EXCEPT ![n] = <<0>> \o q]
    <3>1. <<0>> \in Seq(-1..MaxSends) /\ \A k \in DOMAIN <<0>> : ~(<<0>>[k] > 0)
      OBVIOUS
    <3>2. Once(<< >>, [down EXCEPT ![n] = <<0>> \o q], got_down, sent_down)
      BY <1>1, <3>1, OnceFlushed DEF OnceDown
    <3>3. QED
      BY <2>1, <2>5, <3>2 DEF OnceDown
  <2>6. QED
    BY <2>2, <2>3, <2>4, <2>5
<1>6. CASE SendToRenderFrame
  <2>1. sent_down < MaxSends /\ sent_down' = sent_down + 1 /\ got_down' = got_down
    BY <1>6 DEF SendToRenderFrame
  <2>2. \/ UNCHANGED <<queued_renderer_actions_, down>>
        \/ q' = Append(q, sent_down + 1) /\ down' = down
        \/ q' = q /\ down' = [down EXCEPT ![render_frame_] = Append(@, sent_down + 1)]
    BY <1>6, Zenon DEF SendToRenderFrame
  <2>3. CASE UNCHANGED <<queued_renderer_actions_, down>>
    BY <1>2, <1>3, <2>1, <2>3 DEF LessStep
  <2>4. CASE q' = Append(q, sent_down + 1) /\ down' = down
    <3>1. Once(Append(q, sent_down + 1), down, got_down, sent_down + 1)
      BY <1>1, <2>1, OnceQueued DEF OnceDown
    <3>2. QED
      BY <2>1, <2>4, <3>1 DEF OnceDown
  <2>5. CASE q' = q /\ down' = [down EXCEPT ![render_frame_] = Append(@, sent_down + 1)]
    <3>1. Once(q, [down EXCEPT ![render_frame_] = Append(@, sent_down + 1)], got_down, sent_down + 1)
      BY <1>1, <2>1, OnceSent DEF OnceDown
    <3>2. QED
      BY <2>1, <2>5, <3>1 DEF OnceDown
  <2>6. QED
    BY <2>2, <2>3, <2>4, <2>5
<1>7. CASE HostOnRenderFrameDisconnect \/ EnterBackForwardCache \/ MaybeAttach \/ RemoveFrame
  <2>1. q' \in {q, << >>} /\ UNCHANGED <<down, got_down, sent_down>>
    BY <1>7 DEF HostOnRenderFrameDisconnect, EnterBackForwardCache, MaybeAttach, RemoveFrame,
       Detach, messages, pipes
  <2>2. QED
    BY <1>2, <1>3, <2>1 DEF LessStep
<1>8. QED
  BY <1>4, <1>5, <1>6, <1>7 DEF BrowserNext

\* Different places, different messages: at most one copy of each.
LEMMA OnceCopies ==
    ASSUME NEW q, NEW f, NEW got, NEW sent, Direction(q, f, got, sent), Once(q, f, got, sent),
           NEW i \in 1..MaxSends
    PROVE  Copies(q, f, got, i) <= 1
<1> USE ConstantsAssumption
<1> DEFINE Q == {k \in DOMAIN q : q[k] = i}
           P == Positions(f, i)
<1>1. i > 0
  OBVIOUS
<1>2. Q = {} \/ \E k : Q = {k}
  BY DEF Once, QueueOnce
<1>3. P = {} \/ \E p : P = {p}
  <2>1. SUFFICES ASSUME NEW p \in P, NEW r \in P PROVE p = r
    OBVIOUS
  <2>2. /\ p = <<p[1], p[2]>> /\ r = <<r[1], r[2]>> /\ p[1] \in Attempts /\ r[1] \in Attempts
        /\ p[2] \in DOMAIN f[p[1]] /\ r[2] \in DOMAIN f[r[1]]
        /\ f[p[1]][p[2]] = i /\ f[r[1]][r[2]] = i
    BY <2>1 DEF Positions
  <2>3. p[1] = r[1] /\ p[2] = r[2]
    BY <1>1, <2>2 DEF Once, PipesOnce
  <2>4. QED
    BY <2>2, <2>3
<1>4. Q = {} \/ P = {}
  BY DEF Positions, Once, Apart
<1>5. got[i] \in {0, 1} /\ (got[i] # 0 => Q = {} /\ P = {})
  <2>1. got[i] \in {0, 1}
    BY SMTT(30) DEF Once, Received, Direction
  <2>2. Q # {} => got[i] = 0
    BY DEF Once, InQueue
  <2>3. P # {} => got[i] = 0
    BY <1>1 DEF Positions, Once, InPipes
  <2>4. QED
    BY <2>1, <2>2, <2>3
<1>6. /\ Cardinality({}) = 0 /\ \A x : Cardinality({x}) = 1
  BY FS_EmptySet, FS_Singleton
<1>7. Copies(q, f, got, i) = Cardinality(Q) + Cardinality(P) + got[i]
  BY DEF Copies
<1> HIDE DEF Q, P
<1>8. Cardinality(Q) \in {0, 1} /\ (Q = {} => Cardinality(Q) = 0)
  BY <1>2, <1>6
<1>9. Cardinality(P) \in {0, 1} /\ (P = {} => Cardinality(P) = 0)
  BY <1>3, <1>6
<1>10. QED
  BY <1>4, <1>5, <1>7, <1>8, <1>9

\* A message is in the queue, on its way or received, and received at most
\* once, in both directions and over any number of reconnects.
THEOREM AtMostOnceHolds == Spec => []AtMostOnce
<1>1. Init => OnceUp /\ OnceDown
  <2>1. SUFFICES ASSUME Init PROVE OnceUp /\ OnceDown
    OBVIOUS
  <2>2. OnceUp
    BY <2>1 DEF Init, OnceUp, Once, InQueue, InPipes, QueueOnce, PipesOnce, Apart, Received
  <2>3. OnceDown
    BY <2>1 DEF Init, OnceDown, Once, InQueue, InPipes, QueueOnce, PipesOnce, Apart, Received
  <2>4. QED
    BY <2>2, <2>3
<1>2. IInv /\ IInv' /\ OnceUp /\ OnceDown /\ [Next]_vars => OnceUp' /\ OnceDown'
  <2>1. SUFFICES ASSUME IInv, TypeOK', OnceUp, OnceDown, [Next]_vars PROVE OnceUp' /\ OnceDown'
    BY DEF IInv
  <2>2. CASE UNCHANGED vars
    BY <2>1, <2>2 DEF vars, renderer, pipes, host, messages, OnceUp, OnceDown
  <2>3. QED
    BY <2>1, <2>2, OnceUpRenderer, OnceUpBrowser, OnceDownRenderer, OnceDownBrowser DEF Next
<1>3. IInv /\ OnceUp /\ OnceDown => AtMostOnce
  BY Directions, OnceCopies DEF IInv, OnceUp, OnceDown, AtMostOnce
<1>4. QED
  BY <1>1, <1>2, <1>3, Invariance, PTL DEF Spec
=============================================================================
