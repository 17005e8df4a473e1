------------------------ MODULE ResourceManagerProofs ------------------------
(***************************************************************************)
(* Proofs about ResourceManager for any requests, providers and number of  *)
(* entries: the positions that requests keep stay valid, what a canceled   *)
(* provider answers is ignored, and requests go through the list in order. *)
(***************************************************************************)
EXTENDS ResourceManager, TLAPS, WellFoundedInduction, SequenceTheorems, FiniteSetTheorems

\* The list is sorted, and has no entry that is still to be added.
OrderOK ==
    /\ \A i \in 1..Len(providers_) : providers_[i] <= added
    /\ \A i, j \in 1..Len(providers_) : i < j => Before(providers_[i], providers_[j])

\* A request is in the list of an entry once, and only while it is there.
ListOK ==
    \A e \in Entries :
        /\ \A i \in 1..Len(pending_requests_[e]) : request[pending_requests_[e][i]].pos = e
        /\ \A i, j \in 1..Len(pending_requests_[e]) :
              pending_requests_[e][i] = pending_requests_[e][j] => i = j

\* Every request that is somewhere is in the lists, until the manager goes.
PlaceOK ==
    /\ alive => \A r \in Requests : request[r].pos # NoEntry =>
            /\ \E i \in 1..Len(pending_requests_[request[r].pos]) :
                  pending_requests_[request[r].pos][i] = r
            /\ \E k \in 1..Len(providers_) : providers_[k] = request[r].pos
    /\ ~alive => /\ \A r \in Requests : ~Held(r)
                 /\ \A e \in Entries : pending_requests_[e] = <<>>

\* An entry that was removed has requests, and none that has its state.
RemovedOK ==
    \A k \in 1..Len(providers_) : entry[providers_[k]].deletion_pending_ =>
        /\ pending_requests_[providers_[k]] # <<>>
        /\ \A i \in 1..Len(pending_requests_[providers_[k]]) :
              ~Held(pending_requests_[providers_[k]][i])

\* The states that are in tasks are those that no Request object has.
QueueOK ==
    /\ \A i \in 1..Len(queue) : queue[i].what = "state" =>
          request[queue[i].r].phase = "posted" /\ queue[i].e = request[queue[i].r].pos
    /\ \A i, j \in 1..Len(queue) :
          queue[i].what = "state" /\ queue[j].what = "state" /\ queue[i].r = queue[j].r => i = j
    /\ \A r \in Requests : request[r].phase = "posted" =>
          \E i \in 1..Len(queue) : queue[i].what = "state" /\ queue[i].r = r

\* OnRequest is called for a request that has its position; nothing of the
\* client runs in the OnRequest of an ArchiveProvider.
SendingOK ==
    sending # NoRequest =>
        /\ alive /\ request[sending].pos # NoEntry
        /\ entry[request[sending].pos].shape.kind = "archive" => Held(sending)

\* A request has no handler before it is done.
HandlerOK ==
    \A r \in Requests : request[r].phase \in {"new", "held", "posted"} =>
        pending_handlers_[r] = NoEntry

\* A request that was canceled at an entry leaves it without a handler and
\* does not come back: the entry is on its way out of the list.
CancelOK ==
    \A r \in Requests : \A e \in Entries : <<r, e>> \in canceled =>
        /\ e <= added /\ pending_handlers_[r] # e
        /\ \A k \in 1..Len(providers_) : providers_[k] = e => entry[e].deletion_pending_
        /\ request[r].pos = e => ~Held(r)
        /\ \A i \in 1..Len(queue) :
              queue[i].what = "state" /\ queue[i].r = r /\ queue[i].e = e =>
                  queue[i].answer \in {"next", "stop"}

IInv == /\ TypeOK /\ OrderOK /\ ListOK /\ PlaceOK /\ RemovedOK
        /\ QueueOK /\ SendingOK /\ HandlerOK /\ CancelOK

-----------------------------------------------------------------------------
(* Induction over the places of a list, as a statement about sets: a set   *)
(* of numbers that is not empty has a least element.                       *)

LEMMA LeastPlace ==
    ASSUME NEW S, S \subseteq Nat, S # {}
    PROVE  \E m \in S : \A n \in S : m <= n
<1> DEFINE R == {ss \in Nat \X Nat : ss[1] < ss[2]}
<1>1. IsWellFoundedOn(R, Nat)
  BY NatLessThanWellFounded DEF OpToRel
<1> HIDE DEF R
<1>2. PICK x \in S : \A y \in S : ~(<<y, x>> \in R)
  BY <1>1, WFMin
<1>3. \A y \in S : ~(y < x)
  BY <1>2 DEF R
<1>4. QED
  BY <1>3

LEMMA PlaceInduction ==
    ASSUME NEW S, 0 \in S, \A n \in Nat : n \in S => n + 1 \in S
    PROVE  \A n \in Nat : n \in S
<1>1. SUFFICES ASSUME NEW n \in Nat, n \notin S PROVE FALSE
  OBVIOUS
<1>2. PICK m \in Nat \ S : \A k \in Nat \ S : m <= k
  BY <1>1, LeastPlace
<1>3. m # 0 /\ m - 1 \in Nat
  BY <1>2
<1>4. m - 1 \in S /\ m = (m - 1) + 1
  BY <1>2, <1>3
<1>5. QED
  BY <1>2, <1>3, <1>4

\* Min of FiniteSetsExt is the least element.
LEMMA MinIsLeast ==
    ASSUME NEW S, S \subseteq Nat, S # {}
    PROVE  Min(S) \in S /\ \A n \in S : Min(S) <= n
  BY LeastPlace DEF Min

-----------------------------------------------------------------------------
(* What FlattenSeq of SequencesExt computes: where each place of the       *)
(* result comes from, in order, and that nothing is left out.              *)

IsFlattening(f, ss, n) ==
    f = [i \in 1..n |-> IF i = 1 THEN ss[i] ELSE f[i - 1] \o ss[i]]

LEMMA FlatteningExists ==
    ASSUME NEW ss, NEW n \in Nat
    PROVE  \E f : IsFlattening(f, ss, n)
<1> DEFINE S == {m \in Nat : \E f : IsFlattening(f, ss, m)}
<1>1. 0 \in S
  <2> DEFINE g == [i \in 1..0 |-> << >>]
  <2>1. g = [i \in 1..0 |-> IF i = 1 THEN ss[i] ELSE g[i - 1] \o ss[i]]
    OBVIOUS
  <2> HIDE DEF g
  <2>2. QED
    BY <2>1 DEF IsFlattening
<1>2. ASSUME NEW m \in Nat, m \in S PROVE m + 1 \in S
  <2>1. PICK f : IsFlattening(f, ss, m)
    BY <1>2
  <2> DEFINE last == IF m = 0 THEN ss[1] ELSE f[m] \o ss[m + 1]
             g == [i \in 1..(m + 1) |-> IF i = m + 1 THEN last ELSE f[i]]
  <2>2. \A i \in 1..m : f[i] = IF i = 1 THEN ss[i] ELSE f[i - 1] \o ss[i]
    BY <2>1 DEF IsFlattening
  <2> HIDE DEF last
  <2>3. /\ \A i \in 1..m : g[i] = f[i]
        /\ g[m + 1] = last
    OBVIOUS
  <2>4. g = [i \in 1..(m + 1) |-> g[i]]
    OBVIOUS
  <2> HIDE DEF g
  <2>5. \A i \in 1..(m + 1) : g[i] = IF i = 1 THEN ss[i] ELSE g[i - 1] \o ss[i]
    <3>1. TAKE i \in 1..(m + 1)
    <3>2. CASE i = m + 1
      <4>1. CASE m = 0
        BY <2>3, <3>2, <4>1 DEF last
      <4>2. CASE m # 0
        <5>1. m \in 1..m /\ i # 1 /\ i - 1 = m
          BY <3>2, <4>2
        <5>2. QED
          BY <2>3, <3>2, <4>2, <5>1 DEF last
      <4>3. QED
        BY <4>1, <4>2
    <3>3. CASE i # m + 1
      <4>1. i \in 1..m /\ (i # 1 => i - 1 \in 1..m)
        BY <3>3
      <4>2. QED
        BY <2>2, <2>3, <4>1
    <3>4. QED
      BY <3>2, <3>3
  <2>6. IsFlattening(g, ss, m + 1)
    BY <2>4, <2>5 DEF IsFlattening
  <2>7. QED
    BY <2>6
<1> HIDE DEF S
<1>3. n \in S
  BY <1>1, <1>2, PlaceInduction
<1>4. QED
  BY <1>3 DEF S

\* The place k of t is the place g[k] of the list h[k], the first n lists.
Spreads(t, ss, n, h, g) ==
    /\ h \in [1..Len(t) -> 1..n] /\ g \in [1..Len(t) -> Nat]
    /\ \A k \in 1..Len(t) : g[k] \in 1..Len(ss[h[k]]) /\ t[k] = ss[h[k]][g[k]]
    /\ \A k, l \in 1..Len(t) : k < l => h[k] < h[l] \/ (h[k] = h[l] /\ g[k] < g[l])
    /\ \A i \in 1..n : \A j \in 1..Len(ss[i]) : \E k \in 1..Len(t) : h[k] = i /\ g[k] = j

LEMMA SpreadsMore ==
    ASSUME NEW X, NEW n \in Nat, NEW ss, NEW t \in Seq(X), NEW s \in Seq(X),
           s = ss[n + 1], NEW h, NEW g, Spreads(t, ss, n, h, g)
    PROVE  \E h2, g2 : Spreads(t \o s, ss, n + 1, h2, g2)
<1> DEFINE u == t \o s
           h2 == [k \in 1..Len(u) |-> IF k <= Len(t) THEN h[k] ELSE n + 1]
           g2 == [k \in 1..Len(u) |-> IF k <= Len(t) THEN g[k] ELSE k - Len(t)]
<1>1. /\ u \in Seq(X) /\ Len(u) = Len(t) + Len(s) /\ Len(t) \in Nat /\ Len(s) \in Nat
      /\ \A k \in 1..Len(t) : u[k] = t[k]
      /\ \A k \in 1..Len(u) : ~(k <= Len(t)) => k - Len(t) \in 1..Len(s) /\ u[k] = s[k - Len(t)]
  OBVIOUS
<1>2. /\ \A k \in 1..Len(t) : h[k] \in 1..n /\ g[k] \in Nat
      /\ \A k \in 1..Len(t) : g[k] \in 1..Len(ss[h[k]]) /\ t[k] = ss[h[k]][g[k]]
      /\ \A k, l \in 1..Len(t) : k < l => h[k] < h[l] \/ (h[k] = h[l] /\ g[k] < g[l])
      /\ \A i \in 1..n : \A j \in 1..Len(ss[i]) : \E k \in 1..Len(t) : h[k] = i /\ g[k] = j
  BY DEF Spreads
<1> HIDE DEF u
<1>3. /\ \A k \in 1..Len(u) : k <= Len(t) => k \in 1..Len(t) /\ h2[k] = h[k] /\ g2[k] = g[k]
      /\ \A k \in 1..Len(u) : ~(k <= Len(t)) => h2[k] = n + 1 /\ g2[k] = k - Len(t)
  BY <1>1
<1>4. h2 \in [1..Len(u) -> 1..(n + 1)] /\ g2 \in [1..Len(u) -> Nat]
  <2>1. \A k \in 1..Len(u) : h2[k] \in 1..(n + 1) /\ g2[k] \in Nat
    BY <1>1, <1>2, <1>3
  <2>2. QED
    BY <2>1
<1> HIDE DEF h2, g2
<1>5. \A k \in 1..Len(u) : g2[k] \in 1..Len(ss[h2[k]]) /\ u[k] = ss[h2[k]][g2[k]]
  <2>1. TAKE k \in 1..Len(u)
  <2>2. CASE k <= Len(t)
    <3>1. k \in 1..Len(t) /\ h2[k] = h[k] /\ g2[k] = g[k] /\ u[k] = t[k]
      BY <1>1, <1>3, <2>2
    <3>2. QED
      BY <1>2, <3>1
  <2>3. CASE ~(k <= Len(t))
    <3>1. k - Len(t) \in 1..Len(s) /\ u[k] = s[k - Len(t)] /\ h2[k] = n + 1 /\ g2[k] = k - Len(t)
      BY <1>1, <1>3, <2>3
    <3>2. QED
      BY <3>1
  <2>4. QED
    BY <2>2, <2>3
<1>6. \A k, l \in 1..Len(u) : k < l => h2[k] < h2[l] \/ (h2[k] = h2[l] /\ g2[k] < g2[l])
  <2>1. TAKE k, l \in 1..Len(u)
  <2>2. HAVE k < l
  <2>3. CASE l <= Len(t)
    BY <1>1, <1>2, <1>3, <2>2, <2>3
  <2>4. CASE ~(l <= Len(t)) /\ k <= Len(t)
    <3>1. h2[k] = h[k] /\ h[k] \in 1..n /\ h2[l] = n + 1
      BY <1>2, <1>3, <2>4
    <3>2. QED
      BY <3>1
  <2>5. CASE ~(k <= Len(t))
    <3>1. ~(l <= Len(t))
      BY <1>1, <2>2, <2>5
    <3>2. QED
      BY <1>1, <1>3, <2>2, <2>5, <3>1
  <2>6. QED
    BY <2>3, <2>4, <2>5
<1>7. ASSUME NEW i \in 1..(n + 1), NEW j \in 1..Len(ss[i])
      PROVE  \E k \in 1..Len(u) : h2[k] = i /\ g2[k] = j
  <2>1. CASE i = n + 1
    <3>1. j + Len(t) \in 1..Len(u) /\ ~(j + Len(t) <= Len(t)) /\ (j + Len(t)) - Len(t) = j
      BY <1>1, <2>1
    <3>2. QED
      BY <1>3, <2>1, <3>1
  <2>2. CASE i # n + 1
    <3>1. i \in 1..n
      BY <2>2
    <3>2. PICK k \in 1..Len(t) : h[k] = i /\ g[k] = j
      BY <1>2, <3>1
    <3>3. k \in 1..Len(u) /\ k <= Len(t)
      BY <1>1
    <3>4. QED
      BY <1>3, <3>2, <3>3
  <2>3. QED
    BY <2>1, <2>2
<1>8. Spreads(u, ss, n + 1, h2, g2)
  BY <1>4, <1>5, <1>6, <1>7 DEF Spreads
<1>9. QED
  BY <1>8 DEF u

LEMMA FlattenSpreads ==
    ASSUME NEW X, NEW ss \in Seq(Seq(X))
    PROVE  /\ FlattenSeq(ss) \in Seq(X)
           /\ \E h, g : Spreads(FlattenSeq(ss), ss, Len(ss), h, g)
<1>1. CASE Len(ss) = 0
  <2>1. ss = << >> /\ FlattenSeq(ss) = << >>
    BY <1>1 DEF FlattenSeq
  <2> DEFINE h == [k \in 1..0 |-> 0]
  <2>2. Spreads(<< >>, ss, 0, h, h)
    BY DEF Spreads
  <2> HIDE DEF h
  <2>3. << >> \in Seq(X)
    OBVIOUS
  <2>4. QED
    BY <1>1, <2>1, <2>2, <2>3
<1>2. CASE Len(ss) # 0
  <2> DEFINE n == Len(ss)
             f == CHOOSE f : f = [i \in 1..n |-> IF i = 1 THEN ss[i] ELSE f[i - 1] \o ss[i]]
  <2>1. n \in Nat /\ n # 0 /\ \A i \in 1..n : ss[i] \in Seq(X)
    BY <1>2
  <2>2. FlattenSeq(ss) = f[n]
    BY <1>2 DEF FlattenSeq
  <2>3. IsFlattening(f, ss, n)
    BY <2>1, FlatteningExists DEF IsFlattening
  <2> HIDE DEF n, f
  <2>4. \A i \in 1..n : f[i] = IF i = 1 THEN ss[i] ELSE f[i - 1] \o ss[i]
    BY <2>3 DEF IsFlattening
  <2> DEFINE Good(i) == f[i] \in Seq(X) /\ \E h, g : Spreads(f[i], ss, i, h, g)
             S == {i \in Nat : i \in 1..n => Good(i)}
  <2>5. 0 \in S
    OBVIOUS
  <2>6. ASSUME NEW i \in Nat, i \in S, i + 1 \in 1..n PROVE Good(i + 1)
    <3>1. CASE i = 0
      <4>1. f[i + 1] = ss[1] /\ ss[1] \in Seq(X) /\ << >> \o ss[1] = ss[1]
        BY <2>1, <2>4, <2>6, <3>1
      <4> DEFINE h == [k \in 1..0 |-> 0]
      <4>2. Spreads(<< >>, ss, 0, h, h)
        BY DEF Spreads
      <4>3. \E h2, g2 : Spreads(<< >> \o ss[1], ss, 0 + 1, h2, g2)
        <5> HIDE DEF h
        <5>1. << >> \in Seq(X) /\ 0 \in Nat /\ ss[1] = ss[0 + 1]
          OBVIOUS
        <5>2. QED
          BY <4>1, <4>2, <5>1, SpreadsMore
      <4>4. QED
        BY <3>1, <4>1, <4>3
    <3>2. CASE i # 0
      <4>1. i \in 1..n /\ i + 1 # 1 /\ (i + 1) - 1 = i
        BY <2>6, <3>2, <2>1
      <4>2. f[i + 1] = f[i] \o ss[i + 1] /\ ss[i + 1] \in Seq(X)
        BY <2>1, <2>4, <2>6, <4>1
      <4>3. f[i] \in Seq(X) /\ \E h, g : Spreads(f[i], ss, i, h, g)
        BY <2>6, <4>1
      <4>4. \E h2, g2 : Spreads(f[i] \o ss[i + 1], ss, i + 1, h2, g2)
        BY <4>2, <4>3, SpreadsMore
      <4>5. f[i] \o ss[i + 1] \in Seq(X)
        BY <4>2, <4>3
      <4>6. QED
        BY <4>2, <4>4, <4>5
    <3>3. QED
      BY <3>1, <3>2
  <2> HIDE DEF Good
  <2>7. \A i \in Nat : i \in S => i + 1 \in S
    BY <2>6
  <2> HIDE DEF S
  <2>8. n \in S
    BY <2>1, <2>5, <2>7, PlaceInduction
  <2>9. Good(n)
    BY <2>1, <2>8 DEF S
  <2>10. QED
    BY <2>2, <2>9 DEF n, Good
<1>3. QED
  BY <1>1, <1>2

-----------------------------------------------------------------------------
(* What is left of a list: OnlyIn keeps the members of a set, in order.    *)

\* Place k of t is place h[k] of s; the places of s with members of S remain.
Picks(t, s, S, h) ==
    /\ h \in [1..Len(t) -> 1..Len(s)]
    /\ \A k \in 1..Len(t) : t[k] = s[h[k]] /\ s[h[k]] \in S
    /\ \A k, l \in 1..Len(t) : k < l => h[k] < h[l]
    /\ \A i \in 1..Len(s) : s[i] \in S => \E k \in 1..Len(t) : h[k] = i

LEMMA OnlyInPicks ==
    ASSUME NEW X, NEW s \in Seq(X), NEW S
    PROVE  OnlyIn(s, S) \in Seq(X) /\ \E h : Picks(OnlyIn(s, S), s, S, h)
<1> DEFINE ss == [i \in 1..Len(s) |-> IF s[i] \in S THEN <<s[i]>> ELSE << >>]
           t == OnlyIn(s, S)
<1>1. /\ ss \in Seq(Seq(X)) /\ Len(ss) = Len(s) /\ Len(s) \in Nat
      /\ \A i \in 1..Len(s) : /\ s[i] \in S => Len(ss[i]) = 1 /\ ss[i][1] = s[i]
                              /\ s[i] \notin S => Len(ss[i]) = 0
  <2>1. Len(s) \in Nat /\ \A i \in 1..Len(s) : s[i] \in X
    OBVIOUS
  <2>2. \A i \in 1..Len(s) : ss[i] = (IF s[i] \in S THEN <<s[i]>> ELSE << >>) /\ ss[i] \in Seq(X)
    BY <2>1
  <2>3. ss \in [1..Len(s) -> Seq(X)]
    BY <2>2
  <2>4. ss \in Seq(Seq(X)) /\ Len(ss) = Len(s)
    BY <2>1, <2>3
  <2>5. QED
    BY <2>1, <2>2, <2>4
<1>2. t = FlattenSeq(ss)
  BY DEF OnlyIn
<1> HIDE DEF ss, t
<1>3. t \in Seq(X) /\ \E h, g : Spreads(t, ss, Len(ss), h, g)
  BY <1>1, <1>2, FlattenSpreads
<1>4. PICK h, g : Spreads(t, ss, Len(s), h, g)
  BY <1>1, <1>3
<1>5. /\ h \in [1..Len(t) -> 1..Len(s)]
      /\ \A k \in 1..Len(t) : g[k] \in 1..Len(ss[h[k]]) /\ t[k] = ss[h[k]][g[k]]
      /\ \A k, l \in 1..Len(t) : k < l => h[k] < h[l] \/ (h[k] = h[l] /\ g[k] < g[l])
      /\ \A i \in 1..Len(s) : \A j \in 1..Len(ss[i]) : \E k \in 1..Len(t) : h[k] = i /\ g[k] = j
  BY <1>4 DEF Spreads
<1>6. \A k \in 1..Len(t) : /\ s[h[k]] \in S /\ t[k] = s[h[k]] /\ g[k] = 1
                           /\ h[k] \in 1..Len(s)
  <2>1. TAKE k \in 1..Len(t)
  <2>2. h[k] \in 1..Len(s) /\ g[k] \in 1..Len(ss[h[k]]) /\ t[k] = ss[h[k]][g[k]]
    BY <1>5
  <2>3. s[h[k]] \in S
    BY <1>1, <2>2
  <2>4. QED
    BY <1>1, <2>2, <2>3
<1>7. \A k, l \in 1..Len(t) : k < l => h[k] < h[l]
  <2>1. TAKE k, l \in 1..Len(t)
  <2>2. HAVE k < l
  <2>3. g[k] = 1 /\ g[l] = 1
    BY <1>6
  <2>4. h[k] < h[l] \/ (h[k] = h[l] /\ g[k] < g[l])
    BY <1>5, <2>2
  <2>5. QED
    BY <2>3, <2>4
<1>8. \A i \in 1..Len(s) : s[i] \in S => \E k \in 1..Len(t) : h[k] = i
  <2>1. TAKE i \in 1..Len(s)
  <2>2. HAVE s[i] \in S
  <2>3. 1 \in 1..Len(ss[i])
    BY <1>1, <2>2
  <2>4. QED
    BY <1>5, <2>3
<1>9. Picks(t, s, S, h)
  BY <1>5, <1>6, <1>7, <1>8 DEF Picks
<1>10. QED
  BY <1>3, <1>9 DEF t

LEMMA OnlyInMembers ==
    ASSUME NEW X, NEW s \in Seq(X), NEW S
    PROVE  /\ OnlyIn(s, S) \in Seq(X)
           /\ \A k \in 1..Len(OnlyIn(s, S)) : /\ OnlyIn(s, S)[k] \in S
                                              /\ \E i \in 1..Len(s) : OnlyIn(s, S)[k] = s[i]
           /\ \A i \in 1..Len(s) : s[i] \in S =>
                 \E k \in 1..Len(OnlyIn(s, S)) : OnlyIn(s, S)[k] = s[i]
<1>1. PICK h : Picks(OnlyIn(s, S), s, S, h)
  BY OnlyInPicks
<1>2. OnlyIn(s, S) \in Seq(X)
  BY OnlyInPicks
<1>3. \A k \in 1..Len(OnlyIn(s, S)) : h[k] \in 1..Len(s)
  BY <1>1 DEF Picks
<1>4. QED
  BY <1>1, <1>2, <1>3 DEF Picks

LEMMA OnlyInOnce ==
    ASSUME NEW X, NEW s \in Seq(X), NEW S,
           \A i, j \in 1..Len(s) : s[i] = s[j] => i = j
    PROVE  \A k, l \in 1..Len(OnlyIn(s, S)) : OnlyIn(s, S)[k] = OnlyIn(s, S)[l] => k = l
<1>1. PICK h : Picks(OnlyIn(s, S), s, S, h)
  BY OnlyInPicks
<1>2. OnlyIn(s, S) \in Seq(X)
  BY OnlyInPicks
<1> DEFINE t == OnlyIn(s, S)
<1>3. /\ \A k \in 1..Len(t) : h[k] \in 1..Len(s) /\ t[k] = s[h[k]]
      /\ \A k, l \in 1..Len(t) : k < l => h[k] < h[l]
  BY <1>1 DEF Picks
<1> HIDE DEF t
<1>4. SUFFICES ASSUME NEW k \in 1..Len(t), NEW l \in 1..Len(t), t[k] = t[l] PROVE k = l
  BY DEF t
<1>5. h[k] = h[l] /\ h[k] \in Nat
  BY <1>3, <1>4
<1>6. k \in Int /\ l \in Int /\ ~(k < l) /\ ~(l < k)
  BY <1>3, <1>5
<1>7. QED
  BY <1>6

LEMMA InsertPlaces ==
    ASSUME NEW X, NEW s \in Seq(X), NEW x \in X, NEW p \in 1..(Len(s) + 1)
    PROVE  /\ InsertAt(s, p, x) \in Seq(X) /\ Len(InsertAt(s, p, x)) = Len(s) + 1
           /\ \A j \in 1..(Len(s) + 1) :
                 InsertAt(s, p, x)[j] = IF j < p THEN s[j] ELSE IF j = p THEN x ELSE s[j - 1]
<1> DEFINE a == SubSeq(s, 1, p - 1)
           b == SubSeq(s, p, Len(s))
<1>1. /\ a \in Seq(X) /\ Len(a) = p - 1
      /\ \A j \in 1..(p - 1) : a[j] = s[j]
  OBVIOUS
<1>2. /\ b \in Seq(X) /\ Len(b) = Len(s) - p + 1
      /\ \A j \in 1..(Len(s) - p + 1) : b[j] = s[p + j - 1]
  OBVIOUS
<1>3. InsertAt(s, p, x) = (a \o <<x>>) \o b
  BY DEF InsertAt
<1> HIDE DEF a, b
<1> DEFINE c == a \o <<x>>
<1>4. /\ c \in Seq(X) /\ Len(c) = p
      /\ \A j \in 1..p : c[j] = IF j = p THEN x ELSE a[j]
  BY <1>1
<1>5. InsertAt(s, p, x) = c \o b
  BY <1>3
<1> HIDE DEF c
<1> DEFINE u == c \o b
<1>6. /\ u \in Seq(X) /\ Len(u) = Len(s) + 1
      /\ \A j \in 1..(Len(s) + 1) : u[j] = IF j <= p THEN c[j] ELSE b[j - p]
  <2>1. c \in Seq(X) /\ b \in Seq(X)
    BY <1>2, <1>4
  <2>2. u \in Seq(X) /\ Len(u) = Len(c) + Len(b)
    BY <2>1
  <2>3. \A j \in 1..(Len(c) + Len(b)) : u[j] = IF j <= Len(c) THEN c[j] ELSE b[j - Len(c)]
    BY <2>1
  <2> HIDE DEF u
  <2>4. Len(c) + Len(b) = Len(s) + 1
    BY <1>2, <1>4
  <2>5. QED
    BY <1>4, <2>2, <2>3, <2>4
<1> HIDE DEF u
<1>7. \A j \in 1..(Len(s) + 1) : u[j] = IF j < p THEN s[j] ELSE IF j = p THEN x ELSE s[j - 1]
  <2>1. TAKE j \in 1..(Len(s) + 1)
  <2>2. CASE j < p
    BY <1>1, <1>4, <1>6, <2>2
  <2>3. CASE j = p
    BY <1>4, <1>6, <2>3
  <2>4. CASE j > p
    <3>1. j - p \in 1..(Len(s) - p + 1) /\ p + (j - p) - 1 = j - 1 /\ ~(j <= p)
      BY <2>4
    <3>2. b[j - p] = s[j - 1]
      BY <1>2, <3>1
    <3>3. QED
      BY <1>6, <2>4, <3>1, <3>2
  <2>5. QED
    BY <2>2, <2>3, <2>4
<1>8. QED
  BY <1>5, <1>6, <1>7 DEF u

-----------------------------------------------------------------------------
(* The requests that a removal answers for the providers it removes.       *)

LEMMA HeldAtMembers ==
    ASSUME TypeOK, ListOK, NEW es \in Seq(Entries),
           \A i, j \in 1..Len(es) : es[i] = es[j] => i = j
    PROVE  /\ HeldAt(es) \in Seq(Requests)
           /\ \A k \in 1..Len(HeldAt(es)) :
                 /\ Held(HeldAt(es)[k])
                 /\ \E i \in 1..Len(es) : request[HeldAt(es)[k]].pos = es[i]
           /\ \A k, l \in 1..Len(HeldAt(es)) : HeldAt(es)[k] = HeldAt(es)[l] => k = l
           /\ \A i \in 1..Len(es) : \A j \in 1..Len(pending_requests_[es[i]]) :
                 Held(pending_requests_[es[i]][j]) =>
                     \E k \in 1..Len(HeldAt(es)) : HeldAt(es)[k] = pending_requests_[es[i]][j]
<1> DEFINE list == [i \in 1..Len(es) |-> pending_requests_[es[i]]]
           ss == [i \in 1..Len(es) |-> OnlyIn(pending_requests_[es[i]], HeldRequests)]
           t == HeldAt(es)
<1>1. /\ Len(es) \in Nat
      /\ \A i \in 1..Len(es) : es[i] \in Entries /\ list[i] \in Seq(Requests)
  BY DEF TypeOK
<1>2. \A i \in 1..Len(es) : ss[i] = OnlyIn(list[i], HeldRequests)
  OBVIOUS
<1>3. t = FlattenSeq(ss)
  BY DEF HeldAt
<1>4. ASSUME NEW i \in 1..Len(es)
      PROVE  /\ ss[i] \in Seq(Requests)
             /\ \A k \in 1..Len(ss[i]) : /\ ss[i][k] \in HeldRequests
                                         /\ \E j \in 1..Len(list[i]) : ss[i][k] = list[i][j]
             /\ \A j \in 1..Len(list[i]) : list[i][j] \in HeldRequests =>
                   \E k \in 1..Len(ss[i]) : ss[i][k] = list[i][j]
             /\ \A k, l \in 1..Len(ss[i]) : ss[i][k] = ss[i][l] => k = l
  <2>1. list[i] \in Seq(Requests) /\ es[i] \in Entries
    BY <1>1
  <2>2. \A j, k \in 1..Len(list[i]) : list[i][j] = list[i][k] => j = k
    BY <2>1 DEF ListOK
  <2> HIDE DEF list, ss
  <2> DEFINE s == list[i]
  <2>3. s \in Seq(Requests) /\ \A j, k \in 1..Len(s) : s[j] = s[k] => j = k
    BY <2>1, <2>2
  <2>4. ss[i] = OnlyIn(s, HeldRequests)
    BY <1>2
  <2> HIDE DEF s
  <2>5. /\ OnlyIn(s, HeldRequests) \in Seq(Requests)
        /\ \A k \in 1..Len(OnlyIn(s, HeldRequests)) :
              /\ OnlyIn(s, HeldRequests)[k] \in HeldRequests
              /\ \E j \in 1..Len(s) : OnlyIn(s, HeldRequests)[k] = s[j]
        /\ \A j \in 1..Len(s) : s[j] \in HeldRequests =>
              \E k \in 1..Len(OnlyIn(s, HeldRequests)) : OnlyIn(s, HeldRequests)[k] = s[j]
    BY <2>3, OnlyInMembers
  <2>6. \A k, l \in 1..Len(OnlyIn(s, HeldRequests)) :
            OnlyIn(s, HeldRequests)[k] = OnlyIn(s, HeldRequests)[l] => k = l
    BY <2>3, OnlyInOnce
  <2>7. QED
    BY <2>4, <2>5, <2>6 DEF s
<1>5. /\ \A i \in 1..Len(es) : \A k \in 1..Len(ss[i]) :
            /\ ss[i][k] \in HeldRequests
            /\ \E j \in 1..Len(list[i]) : ss[i][k] = list[i][j]
      /\ \A i \in 1..Len(es) : \A k, l \in 1..Len(ss[i]) : ss[i][k] = ss[i][l] => k = l
  <2> HIDE DEF ss, list
  <2>1. QED
    BY <1>4
<1>6. ss \in Seq(Seq(Requests)) /\ Len(ss) = Len(es)
  <2>1. ss \in [1..Len(es) -> Seq(Requests)]
    <3>1. \A i \in 1..Len(es) : ss[i] \in Seq(Requests)
      BY <1>4
    <3>2. QED
      BY <3>1
  <2> HIDE DEF ss
  <2>2. QED
    BY <1>1, <2>1
<1>7. \A i \in 1..Len(es) : \A j \in 1..Len(list[i]) : request[list[i][j]].pos = es[i]
  BY <1>1 DEF ListOK
<1> HIDE DEF ss, t
<1>8. t \in Seq(Requests) /\ \E h, g : Spreads(t, ss, Len(ss), h, g)
  BY <1>3, <1>6, FlattenSpreads
<1>9. PICK h, g : Spreads(t, ss, Len(es), h, g)
  BY <1>6, <1>8
<1>10. /\ \A k \in 1..Len(t) : h[k] \in 1..Len(es) /\ g[k] \in Nat
       /\ \A k \in 1..Len(t) : g[k] \in 1..Len(ss[h[k]]) /\ t[k] = ss[h[k]][g[k]]
       /\ \A k, l \in 1..Len(t) : k < l => h[k] < h[l] \/ (h[k] = h[l] /\ g[k] < g[l])
       /\ \A i \in 1..Len(es) : \A j \in 1..Len(ss[i]) : \E k \in 1..Len(t) : h[k] = i /\ g[k] = j
  BY <1>9 DEF Spreads
<1> HIDE DEF list
<1>11. \A k \in 1..Len(t) : t[k] \in HeldRequests /\ request[t[k]].pos = es[h[k]]
  <2>1. TAKE k \in 1..Len(t)
  <2>2. h[k] \in 1..Len(es) /\ g[k] \in 1..Len(ss[h[k]]) /\ t[k] = ss[h[k]][g[k]]
    BY <1>10
  <2>3. h[k] \in 1..Len(es)
    BY <2>2
  <2>4. \A m \in 1..Len(ss[h[k]]) : \E j \in 1..Len(list[h[k]]) : ss[h[k]][m] = list[h[k]][j]
    BY <1>5, <2>3
  <2>5. g[k] \in 1..Len(ss[h[k]])
    BY <2>2
  <2>6. PICK j \in 1..Len(list[h[k]]) : t[k] = list[h[k]][j]
    BY <2>4, <2>2, <2>5
  <2>7. request[t[k]].pos = es[h[k]]
    BY <1>7, <2>3, <2>6
  <2>8. \A m \in 1..Len(ss[h[k]]) : ss[h[k]][m] \in HeldRequests
    BY <1>5, <2>3
  <2>9. QED
    BY <2>2, <2>5, <2>7, <2>8
<1>12. \A k, l \in 1..Len(t) : t[k] = t[l] => k = l
  <2>1. SUFFICES ASSUME NEW k \in 1..Len(t), NEW l \in 1..Len(t), t[k] = t[l] PROVE k = l
    OBVIOUS
  <2>2. h[k] \in 1..Len(es) /\ h[l] \in 1..Len(es) /\ es[h[k]] = es[h[l]]
    BY SMTT(30), <1>10, <1>11, <2>1
  <2>3. h[k] = h[l]
    BY <2>2
  <2>4. g[k] = g[l]
    <3>1. \A m, n \in 1..Len(ss[h[k]]) : ss[h[k]][m] = ss[h[k]][n] => m = n
      BY <1>5, <2>2
    <3>2. g[k] \in 1..Len(ss[h[k]]) /\ t[k] = ss[h[k]][g[k]]
      BY <1>10
    <3>3. g[l] \in 1..Len(ss[h[l]]) /\ t[l] = ss[h[l]][g[l]]
      BY <1>10
    <3>4. g[l] \in 1..Len(ss[h[k]]) /\ t[l] = ss[h[k]][g[l]]
      BY <2>3, <3>3
    <3>5. QED
      BY <2>1, <3>1, <3>2, <3>4
  <2>5. k \in Int /\ l \in Int /\ h[k] \in Int /\ g[k] \in Int
    BY <1>10, <2>2
  <2>6. ~(k < l) /\ ~(l < k)
    BY <1>10, <2>3, <2>4, <2>5
  <2>7. QED
    BY <2>5, <2>6
<1>13. ASSUME NEW i \in 1..Len(es), NEW j \in 1..Len(list[i]), Held(list[i][j])
       PROVE  \E k \in 1..Len(t) : t[k] = list[i][j]
  <2>1. list[i][j] \in HeldRequests
    BY <1>1, <1>13 DEF HeldRequests
  <2>2. PICK m \in 1..Len(ss[i]) : ss[i][m] = list[i][j]
    BY <1>4, <2>1
  <2>3. PICK k \in 1..Len(t) : h[k] = i /\ g[k] = m
    BY <1>10
  <2>4. QED
    BY <1>10, <2>2, <2>3
<1>14. \A k \in 1..Len(t) : /\ Held(t[k])
                            /\ \E i \in 1..Len(es) : request[t[k]].pos = es[i]
  BY <1>10, <1>11 DEF HeldRequests
<1>15. QED
  BY <1>8, <1>12, <1>13, <1>14 DEF t, list

-----------------------------------------------------------------------------
(* Effects of the parts that actions are made of.                          *)

EntryFields == [shape : Shapes, deletion_pending_ : BOOLEAN, load : {"none", "loading", "ended"}]
States == [phase : Phases, pos : Entries \cup {NoEntry}]

LEMMA NoEntryIsNone == Entries \subseteq Nat /\ NoEntry \notin Entries /\ 0 \notin Entries
  BY BoundsAssumption DEF Entries, NoEntry

LEMMA FreedType == Freed \in EntryFields /\ ~Freed.deletion_pending_
<1>1. (CHOOSE s \in Shapes : TRUE) \in Shapes
  BY ShapesAssumption
<1>2. QED
  BY <1>1 DEF Freed, EntryFields

\* Before, after a step.
BeforeThen(e, f) ==
    \/ entry'[e].shape.order < entry'[f].shape.order
    \/ entry'[e].shape.order = entry'[f].shape.order /\ e < f

\* Two entries of the list are not the same.
LEMMA ListedOnce ==
    ASSUME TypeOK, OrderOK
    PROVE  \A i, j \in 1..Len(providers_) : providers_[i] = providers_[j] => i = j
<1>1. SUFFICES ASSUME NEW i \in 1..Len(providers_), NEW j \in 1..Len(providers_),
                      providers_[i] = providers_[j], i < j
               PROVE  FALSE
  OBVIOUS
<1> DEFINE e == providers_[i]
<1>2. e \in Entries /\ e \in Nat
  <2>1. e \in Entries
    BY DEF TypeOK
  <2>2. QED
    BY <2>1, NoEntryIsNone
<1>3. entry[e].shape.order \in Int
  BY <1>2, ShapesAssumption DEF TypeOK
<1>4. Before(e, e)
  BY <1>1 DEF OrderOK
<1> HIDE DEF e
<1>5. QED
  BY <1>2, <1>3, <1>4 DEF Before

\* Entries leave the list, the order of the others stays.
LEMMA FreeEffect ==
    ASSUME TypeOK, OrderOK, NEW es, NEW kept, kept \in [Entries -> EntryFields],
           \A e \in Entries : kept[e].shape = entry[e].shape,
           Free(es, kept), added' = added
    PROVE  /\ providers_' \in Seq(Entries) /\ entry' \in [Entries -> EntryFields]
           /\ \A k \in 1..Len(providers_') :
                 /\ providers_'[k] \in Entries /\ providers_'[k] \notin es
                 /\ \E i \in 1..Len(providers_) : providers_[i] = providers_'[k]
           /\ \A i \in 1..Len(providers_) : providers_[i] \notin es =>
                 \E k \in 1..Len(providers_') : providers_'[k] = providers_[i]
           /\ \A e \in Entries : e \notin es => entry'[e] = kept[e]
           /\ \A e \in es \cap Entries : entry'[e] = Freed
           /\ OrderOK'
<1>1. /\ providers_ \in Seq(Entries) /\ Len(providers_) \in Nat
      /\ \A i \in 1..Len(providers_) : providers_[i] \in Entries
      /\ \A i, j \in 1..Len(providers_) : i < j => Before(providers_[i], providers_[j])
      /\ \A i \in 1..Len(providers_) : providers_[i] <= added
  BY DEF TypeOK, OrderOK
<1>2. /\ providers_' = OnlyIn(providers_, Entries \ es)
      /\ entry' = [e \in Entries |-> IF e \in es THEN Freed ELSE kept[e]]
  BY DEF Free
<1>3. /\ entry' \in [Entries -> EntryFields]
      /\ \A e \in Entries : e \notin es => entry'[e] = kept[e]
      /\ \A e \in es \cap Entries : entry'[e] = Freed
  <2>1. \A e \in Entries : (IF e \in es THEN Freed ELSE kept[e]) \in EntryFields
    BY FreedType
  <2>2. QED
    BY <1>2, <2>1
<1>4. PICK h : Picks(providers_', providers_, Entries \ es, h)
  BY <1>1, <1>2, OnlyInPicks
<1>5. providers_' \in Seq(Entries)
  BY <1>1, <1>2, OnlyInPicks
<1>6. /\ \A k \in 1..Len(providers_') : /\ h[k] \in 1..Len(providers_)
                                        /\ providers_'[k] = providers_[h[k]]
                                        /\ providers_'[k] \in Entries \ es
      /\ \A k, l \in 1..Len(providers_') : k < l => h[k] < h[l]
      /\ \A i \in 1..Len(providers_) : providers_[i] \in Entries \ es =>
            \E k \in 1..Len(providers_') : h[k] = i
  BY <1>4 DEF Picks
<1>7. \A i \in 1..Len(providers_) : providers_[i] \notin es =>
                 \E k \in 1..Len(providers_') : providers_'[k] = providers_[i]
  BY <1>1, <1>6
<1>8. \A e \in Entries \ es : entry'[e].shape = entry[e].shape
  BY <1>3
<1>9. \A e, f \in Entries \ es : Before(e, f) => BeforeThen(e, f)
  BY <1>8 DEF Before, BeforeThen
<1>10. OrderOK'
  <2>1. \A k \in 1..Len(providers_') : providers_'[k] <= added'
    BY <1>1, <1>6
  <2>2. \A k, l \in 1..Len(providers_') : k < l => BeforeThen(providers_'[k], providers_'[l])
    <3>1. TAKE k, l \in 1..Len(providers_')
    <3>2. HAVE k < l
    <3>3. /\ h[k] \in 1..Len(providers_) /\ h[l] \in 1..Len(providers_) /\ h[k] < h[l]
          /\ providers_'[k] = providers_[h[k]] /\ providers_'[l] = providers_[h[l]]
          /\ providers_'[k] \in Entries \ es /\ providers_'[l] \in Entries \ es
      BY <1>6, <3>2
    <3>4. Before(providers_[h[k]], providers_[h[l]])
      BY <1>1, <3>3
    <3>5. QED
      BY <1>9, <3>3, <3>4
  <2>3. QED
    BY <2>1, <2>2 DEF OrderOK, Before, BeforeThen
<1>11. QED
  BY <1>3, <1>5, <1>6, <1>7, <1>10

\* L are the lists of requests without r, which is at e; F is freed with it.
Detached(r, e, L, F) ==
    /\ e \in Entries /\ L \in [Entries -> Seq(Requests)]
    /\ \A f \in Entries : f # e => L[f] = pending_requests_[f]
    /\ \A i \in 1..Len(L[e]) : /\ L[e][i] \in Requests /\ L[e][i] # r
                               /\ request[L[e][i]].pos = e
                               /\ \E j \in 1..Len(pending_requests_[e]) :
                                     L[e][i] = pending_requests_[e][j]
    /\ \A i, j \in 1..Len(L[e]) : L[e][i] = L[e][j] => i = j
    /\ \A q \in Requests : q # r /\ request[q].pos = e =>
          \E i \in 1..Len(L[e]) : L[e][i] = q
    /\ F \subseteq {e} /\ (e \in F => L[e] = <<>>)
    /\ entry[e].deletion_pending_ => e \in F \/ L[e] # <<>>

LEMMA DetachEffect ==
    ASSUME TypeOK, OrderOK, ListOK, PlaceOK, RemovedOK, alive, NEW r \in Requests,
           request[r].pos # NoEntry, NEW e, e = request[r].pos,
           NEW L, L = DetachRequestFromProvider(r).pending,
           NEW F, F = DetachRequestFromProvider(r).freed
    PROVE  Detached(r, e, L, F)
<1> DEFINE s == pending_requests_[e]
           S == Requests \ {r}
<1>1. e \in Entries /\ s \in Seq(Requests) /\ pending_requests_ \in [Entries -> Seq(Requests)]
  BY DEF TypeOK
<1>2. /\ \A i \in 1..Len(s) : s[i] \in Requests /\ request[s[i]].pos = e
      /\ \A i, j \in 1..Len(s) : s[i] = s[j] => i = j
  BY <1>1 DEF ListOK
<1>3. \A q \in Requests : request[q].pos = e => \E i \in 1..Len(s) : s[i] = q
  BY <1>1 DEF PlaceOK
<1>4. /\ L = [pending_requests_ EXCEPT ![e] = OnlyIn(s, S)]
      /\ F = IF entry[e].deletion_pending_ /\ OnlyIn(s, S) = <<>> THEN {e} ELSE {}
  BY DEF DetachRequestFromProvider
<1> HIDE DEF s, S
<1> DEFINE t == OnlyIn(s, S)
<1>5. /\ t \in Seq(Requests)
      /\ \A k \in 1..Len(t) : t[k] \in S /\ \E i \in 1..Len(s) : t[k] = s[i]
      /\ \A i \in 1..Len(s) : s[i] \in S => \E k \in 1..Len(t) : t[k] = s[i]
  BY <1>1, OnlyInMembers
<1>6. \A k, l \in 1..Len(t) : t[k] = t[l] => k = l
  BY <1>1, <1>2, OnlyInOnce
<1> HIDE DEF t
<1>7. L[e] = t /\ L \in [Entries -> Seq(Requests)]
      /\ \A f \in Entries : f # e => L[f] = pending_requests_[f]
  BY <1>1, <1>4, <1>5 DEF t
<1>8. \A i \in 1..Len(t) : /\ t[i] \in Requests /\ t[i] # r /\ request[t[i]].pos = e
                           /\ \E j \in 1..Len(s) : t[i] = s[j]
  BY <1>2, <1>5 DEF S
<1>9. \A q \in Requests : q # r /\ request[q].pos = e => \E i \in 1..Len(t) : t[i] = q
  <2>1. SUFFICES ASSUME NEW q \in Requests, q # r, request[q].pos = e
                 PROVE  \E i \in 1..Len(t) : t[i] = q
    OBVIOUS
  <2>2. PICK i \in 1..Len(s) : s[i] = q
    BY <1>3, <2>1
  <2>3. s[i] \in S
    BY <2>1, <2>2 DEF S
  <2>4. QED
    BY <1>5, <2>2, <2>3
<1>10. F \subseteq {e} /\ (e \in F => t = <<>>) /\ (entry[e].deletion_pending_ => e \in F \/ t # <<>>)
  BY <1>4 DEF t
<1>11. QED
  BY <1>1, <1>6, <1>7, <1>8, <1>9, <1>10 DEF s, Detached

-----------------------------------------------------------------------------
(* The lists and the positions in them.                                    *)

ListTypes ==
    /\ providers_ \in Seq(Entries) /\ entry \in [Entries -> EntryFields]
    /\ pending_requests_ \in [Entries -> Seq(Requests)]
    /\ request \in [Requests -> States]
    /\ \A r \in Requests : Attached(r) <=> request[r].pos # NoEntry

Lists == ListTypes /\ OrderOK /\ ListOK /\ PlaceOK /\ RemovedOK

LEMMA TypesOfLists == TypeOK => ListTypes
  BY DEF TypeOK, ListTypes, EntryFields, States

\* No entry came into the list, and those in it are as they were.
OnlyFewer ==
    \A k \in 1..Len(providers_') :
        /\ \E i \in 1..Len(providers_) : providers_[i] = providers_'[k]
        /\ entry'[providers_'[k]] = entry[providers_'[k]]

\* L are the lists of the requests other than r, after entries were freed.
Without(r, L) ==
    /\ providers_' \in Seq(Entries) /\ entry' \in [Entries -> EntryFields] /\ OrderOK'
    /\ L \in [Entries -> Seq(Requests)]
    /\ \A f \in Entries :
          /\ \A i \in 1..Len(L[f]) : L[f][i] # r /\ request[L[f][i]].pos = f
          /\ \A i, j \in 1..Len(L[f]) : L[f][i] = L[f][j] => i = j
    /\ \A q \in Requests : q # r /\ request[q].pos # NoEntry =>
          /\ \E i \in 1..Len(L[request[q].pos]) : L[request[q].pos][i] = q
          /\ \E k \in 1..Len(providers_') : providers_'[k] = request[q].pos
    /\ \A k \in 1..Len(providers_') : entry'[providers_'[k]].deletion_pending_ =>
          /\ L[providers_'[k]] # <<>>
          /\ \A i \in 1..Len(L[providers_'[k]]) : request[L[providers_'[k]][i]].phase # "held"

LEMMA DetachLists ==
    ASSUME TypeOK, Lists, alive, NEW r \in Requests, request[r].pos # NoEntry,
           NEW L, L = DetachRequestFromProvider(r).pending,
           NEW F, F = DetachRequestFromProvider(r).freed,
           Free(F, entry), added' = added
    PROVE  Without(r, L) /\ OnlyFewer
<1> DEFINE e == request[r].pos
<1>1. e = request[r].pos
  OBVIOUS
<1> HIDE DEF e
<1>2. Detached(r, e, L, F)
  BY <1>1, DetachEffect DEF Lists
<1>3. /\ e \in Entries /\ L \in [Entries -> Seq(Requests)]
      /\ \A f \in Entries : f # e => L[f] = pending_requests_[f]
      /\ \A i \in 1..Len(L[e]) : /\ L[e][i] \in Requests /\ L[e][i] # r
                                 /\ request[L[e][i]].pos = e
                                 /\ \E j \in 1..Len(pending_requests_[e]) :
                                       L[e][i] = pending_requests_[e][j]
      /\ \A i, j \in 1..Len(L[e]) : L[e][i] = L[e][j] => i = j
      /\ \A q \in Requests : q # r /\ request[q].pos = e => \E i \in 1..Len(L[e]) : L[e][i] = q
      /\ F \subseteq {e} /\ (e \in F => L[e] = <<>>)
      /\ entry[e].deletion_pending_ => e \in F \/ L[e] # <<>>
  BY <1>2 DEF Detached
<1>4. /\ providers_' \in Seq(Entries) /\ entry' \in [Entries -> EntryFields]
      /\ \A k \in 1..Len(providers_') :
            /\ providers_'[k] \in Entries /\ providers_'[k] \notin F
            /\ \E i \in 1..Len(providers_) : providers_[i] = providers_'[k]
      /\ \A i \in 1..Len(providers_) : providers_[i] \notin F =>
            \E k \in 1..Len(providers_') : providers_'[k] = providers_[i]
      /\ \A f \in Entries : f \notin F => entry'[f] = entry[f]
      /\ OrderOK'
  <2>1. OrderOK /\ entry \in [Entries -> EntryFields]
    BY DEF Lists, ListTypes
  <2>2. QED
    BY <2>1, FreeEffect
<1>5. ASSUME NEW f \in Entries
      PROVE  /\ \A i \in 1..Len(L[f]) : L[f][i] # r /\ request[L[f][i]].pos = f
             /\ \A i, j \in 1..Len(L[f]) : L[f][i] = L[f][j] => i = j
  <2>1. CASE f = e
    BY <1>3, <2>1
  <2>2. CASE f # e
    <3>1. /\ L[f] = pending_requests_[f]
          /\ \A i \in 1..Len(L[f]) : L[f][i] \in Requests /\ request[L[f][i]].pos = f
          /\ \A i, j \in 1..Len(L[f]) : L[f][i] = L[f][j] => i = j
      BY <1>3, <2>2 DEF Lists, ListTypes, ListOK
    <3>2. \A i \in 1..Len(L[f]) : L[f][i] # r
      BY <1>1, <2>2, <3>1
    <3>3. QED
      BY <3>1, <3>2
  <2>3. QED
    BY <2>1, <2>2
<1>6. ASSUME NEW q \in Requests, q # r, request[q].pos # NoEntry
      PROVE  /\ \E i \in 1..Len(L[request[q].pos]) : L[request[q].pos][i] = q
             /\ \E k \in 1..Len(providers_') : providers_'[k] = request[q].pos
  <2> DEFINE f == request[q].pos
  <2>1. f \in Entries
    BY <1>6 DEF Lists, ListTypes, States
  <2>2. /\ \E i \in 1..Len(pending_requests_[f]) : pending_requests_[f][i] = q
        /\ \E i \in 1..Len(providers_) : providers_[i] = f
    BY <1>6 DEF Lists, PlaceOK
  <2>3. \E i \in 1..Len(L[f]) : L[f][i] = q
    BY SMTT(30), <1>3, <1>6, <2>1, <2>2
  <2>4. f \notin F
    BY <1>3, <2>3
  <2>5. \E k \in 1..Len(providers_') : providers_'[k] = f
    BY ZenonT(40), <1>4, <2>2, <2>4
  <2>6. QED
    BY <2>3, <2>5
<1>7. ASSUME NEW k \in 1..Len(providers_'), entry'[providers_'[k]].deletion_pending_
      PROVE  /\ L[providers_'[k]] # <<>>
             /\ \A i \in 1..Len(L[providers_'[k]]) : request[L[providers_'[k]][i]].phase # "held"
  <2> DEFINE f == providers_'[k]
  <2>1. /\ f \in Entries /\ f \notin F /\ entry'[f] = entry[f] /\ entry[f].deletion_pending_
        /\ \E i \in 1..Len(providers_) : providers_[i] = f
    BY <1>4, <1>7
  <2> HIDE DEF f
  <2>2. /\ pending_requests_[f] # <<>>
        /\ \A i \in 1..Len(pending_requests_[f]) : request[pending_requests_[f][i]].phase # "held"
    BY <2>1 DEF Lists, RemovedOK, Held
  <2>3. L[f] # <<>>
    BY <1>3, <2>1, <2>2
  <2>4. \A i \in 1..Len(L[f]) : request[L[f][i]].phase # "held"
    <3>1. CASE f = e
      BY <1>3, <2>2, <3>1
    <3>2. CASE f # e
      <4>1. L[f] = pending_requests_[f]
        BY <1>3, <2>1, <3>2
      <4>2. QED
        BY <2>2, <4>1
    <3>3. QED
      BY <3>1, <3>2
  <2>5. QED
    BY <2>3, <2>4 DEF f
<1>8. OnlyFewer
  BY <1>4 DEF OnlyFewer
<1>9. QED
  BY <1>3, <1>4, <1>5, <1>6, <1>7, <1>8 DEF Without

LEMMA StopLists ==
    ASSUME Lists, NEW r \in Requests, NEW L, Without(r, L),
           pending_requests_' = L, alive, alive' = alive,
           request' = [request EXCEPT ![r] = [phase |-> "done", pos |-> NoEntry]]
    PROVE  Lists'
<1>1. /\ request' \in [Requests -> States]
      /\ request'[r].phase = "done" /\ request'[r].pos = NoEntry
      /\ \A q \in Requests : q # r => request'[q] = request[q]
  BY DEF Lists, ListTypes, States, Phases
<1>2. \A f \in Entries : \A i \in 1..Len(L[f]) : L[f][i] \in Requests /\ L[f][i] # r
  BY DEF Without
<1>3. ListTypes'
  <2>1. \A q \in Requests : Attached(q)' <=> request'[q].pos # NoEntry
    BY <1>1 DEF Lists, ListTypes, Attached
  <2>2. QED
    BY <1>1, <2>1 DEF ListTypes, Without
<1>4. ListOK'
  BY <1>1, <1>2 DEF ListOK, Without
<1>5. PlaceOK'
  <2>1. ASSUME NEW q \in Requests, request'[q].pos # NoEntry
        PROVE  /\ \E i \in 1..Len(L[request'[q].pos]) : L[request'[q].pos][i] = q
               /\ \E k \in 1..Len(providers_') : providers_'[k] = request'[q].pos
    <3>1. q # r /\ request'[q].pos = request[q].pos /\ request[q].pos # NoEntry
      BY <1>1, <2>1
    <3>2. \A f \in Requests : f # r /\ request[f].pos # NoEntry =>
            /\ \E i \in 1..Len(L[request[f].pos]) : L[request[f].pos][i] = f
            /\ \E k \in 1..Len(providers_') : providers_'[k] = request[f].pos
      BY DEF Without
    <3>3. QED
      BY <3>1, <3>2
  <2>2. QED
    BY <2>1 DEF PlaceOK
<1>6. RemovedOK'
  <2>1. \A k \in 1..Len(providers_') : providers_'[k] \in Entries
    BY DEF Without
  <2>2. ASSUME NEW k \in 1..Len(providers_'), entry'[providers_'[k]].deletion_pending_
        PROVE  /\ L[providers_'[k]] # <<>>
               /\ \A i \in 1..Len(L[providers_'[k]]) : request'[L[providers_'[k]][i]].phase # "held"
    <3> DEFINE f == providers_'[k]
    <3>1. /\ f \in Entries /\ L[f] # <<>>
          /\ \A i \in 1..Len(L[f]) : request[L[f][i]].phase # "held"
      BY <2>1, <2>2 DEF Without
    <3> HIDE DEF f
    <3>2. \A i \in 1..Len(L[f]) : request'[L[f][i]] = request[L[f][i]]
      BY <1>1, <1>2, <3>1
    <3>3. L[f] # <<>> /\ \A i \in 1..Len(L[f]) : request'[L[f][i]].phase # "held"
      BY <3>1, <3>2
    <3>4. QED
      BY <3>3 DEF f
  <2>3. QED
    BY <2>2 DEF RemovedOK, Held
<1>7. QED
  BY <1>3, <1>4, <1>5, <1>6 DEF Lists, Without

LEMMA MakeLists ==
    ASSUME Lists, NEW r \in Requests, NEW L, Without(r, L), alive, alive' = alive,
           NEW n \in Entries, \E k \in 1..Len(providers_') : providers_'[k] = n,
           ~entry'[n].deletion_pending_, MakeRequest(r, n, L)
    PROVE  Lists'
<1> DEFINE M == [L EXCEPT ![n] = Append(@, r)]
<1>1. /\ request' \in [Requests -> States]
      /\ request'[r].phase = "held" /\ request'[r].pos = n
      /\ \A q \in Requests : q # r => request'[q] = request[q]
  BY DEF MakeRequest, Lists, ListTypes, States, Phases
<1>2. pending_requests_' = M /\ L \in [Entries -> Seq(Requests)]
  BY DEF MakeRequest, Without
<1>3. /\ \A f \in Entries : f # n => M[f] = L[f]
      /\ M[n] = Append(L[n], r) /\ L[n] \in Seq(Requests)
      /\ M \in [Entries -> Seq(Requests)]
  BY <1>2
<1>4. \A f \in Entries : \A i \in 1..Len(L[f]) : L[f][i] \in Requests /\ L[f][i] # r
  BY DEF Without
<1> HIDE DEF M
<1>5. /\ Len(M[n]) = Len(L[n]) + 1 /\ Len(L[n]) \in Nat /\ M[n][Len(L[n]) + 1] = r
      /\ \A i \in 1..Len(L[n]) : i \in 1..Len(M[n]) /\ M[n][i] = L[n][i]
      /\ \A i \in 1..Len(M[n]) : i \in 1..Len(L[n]) \/ i = Len(L[n]) + 1
  BY <1>3
<1>6. ListTypes'
  <2>1. \A q \in Requests : Attached(q)' <=> request'[q].pos # NoEntry
    BY <1>1, NoEntryIsNone DEF Lists, ListTypes, Attached
  <2>2. QED
    BY <1>1, <1>2, <1>3, <2>1 DEF ListTypes, Without
<1>7. ListOK'
  <2>1. ASSUME NEW f \in Entries
        PROVE  /\ \A i \in 1..Len(M[f]) : request'[M[f][i]].pos = f
               /\ \A i, j \in 1..Len(M[f]) : M[f][i] = M[f][j] => i = j
    <3>1. /\ \A i \in 1..Len(L[f]) : request'[L[f][i]].pos = f
          /\ \A i, j \in 1..Len(L[f]) : L[f][i] = L[f][j] => i = j
      <4>1. /\ \A i \in 1..Len(L[f]) : request[L[f][i]].pos = f
            /\ \A i, j \in 1..Len(L[f]) : L[f][i] = L[f][j] => i = j
        BY DEF Without
      <4>2. \A i \in 1..Len(L[f]) : request'[L[f][i]] = request[L[f][i]]
        BY <1>1, <1>4
      <4>3. QED
        BY <4>1, <4>2
    <3>2. CASE f # n
      BY <1>3, <3>1, <3>2
    <3>3. CASE f = n
      <4>1. \A i \in 1..Len(M[f]) : request'[M[f][i]].pos = f
        BY SMTT(30), <1>1, <1>5, <3>1, <3>3
      <4>2. \A i, j \in 1..Len(M[f]) : M[f][i] = M[f][j] => i = j
        <5>1. \A i \in 1..Len(L[n]) : M[n][i] # r
          BY <1>4, <1>5
        <5>2. SUFFICES ASSUME NEW i \in 1..Len(M[n]), NEW j \in 1..Len(M[n]), M[n][i] = M[n][j]
                       PROVE  i = j
          BY <3>3
        <5>3. CASE i \in 1..Len(L[n]) /\ j \in 1..Len(L[n])
          BY <1>5, <3>1, <3>3, <5>2, <5>3
        <5>4. CASE i = Len(L[n]) + 1 \/ j = Len(L[n]) + 1
          BY <1>5, <5>1, <5>2, <5>4
        <5>5. QED
          BY <1>5, <5>3, <5>4
      <4>3. QED
        BY <4>1, <4>2
    <3>4. QED
      BY <3>2, <3>3
  <2>2. QED
    BY <1>2, <2>1 DEF ListOK
<1>8. PlaceOK'
  <2>1. ASSUME NEW q \in Requests, request'[q].pos # NoEntry
        PROVE  /\ \E i \in 1..Len(M[request'[q].pos]) : M[request'[q].pos][i] = q
               /\ \E k \in 1..Len(providers_') : providers_'[k] = request'[q].pos
    <3>1. CASE q = r
      BY <1>1, <1>5, <3>1
    <3>2. CASE q # r
      <4> DEFINE f == request[q].pos
      <4>1. request'[q].pos = f /\ f # NoEntry /\ f \in Entries
        BY <1>1, <2>1, <3>2 DEF Lists, ListTypes, States
      <4>2. /\ \E i \in 1..Len(L[f]) : L[f][i] = q
            /\ \E k \in 1..Len(providers_') : providers_'[k] = f
        BY <3>2, <4>1 DEF Without
      <4> HIDE DEF f
      <4>3. \E i \in 1..Len(M[f]) : M[f][i] = q
        BY <1>3, <1>5, <4>1, <4>2
      <4>4. QED
        BY <4>1, <4>2, <4>3
    <3>3. QED
      BY <3>1, <3>2
  <2>2. QED
    BY <1>2, <2>1 DEF PlaceOK
<1>9. RemovedOK'
  <2>1. ASSUME NEW k \in 1..Len(providers_'), entry'[providers_'[k]].deletion_pending_
        PROVE  /\ M[providers_'[k]] # <<>>
               /\ \A i \in 1..Len(M[providers_'[k]]) : request'[M[providers_'[k]][i]].phase # "held"
    <3> DEFINE f == providers_'[k]
    <3>1. f \in Entries /\ f # n
      BY <2>1 DEF Without
    <3>2. L[f] # <<>> /\ \A i \in 1..Len(L[f]) : request[L[f][i]].phase # "held"
      BY <2>1 DEF Without
    <3> HIDE DEF f
    <3>3. QED
      <4>1. M[f] = L[f]
        BY <1>3, <3>1
      <4>2. \A i \in 1..Len(L[f]) : request'[L[f][i]] = request[L[f][i]]
        BY <1>1, <1>4, <3>1
      <4>3. M[f] # <<>> /\ \A i \in 1..Len(M[f]) : request'[M[f][i]].phase # "held"
        BY <3>2, <4>1, <4>2
      <4>4. QED
        BY <4>3 DEF f
  <2>2. QED
    BY <1>2, <2>1 DEF RemovedOK, Held
<1>10. QED
  BY <1>6, <1>7, <1>8, <1>9 DEF Lists, Without

LEMMA NextValid ==
    ASSUME TypeOK, NEW p \in Nat \ {0}, GetNextValidProvider(p) # NoEntry
    PROVE  \E j \in p..Len(providers_) :
              /\ GetNextValidProvider(p) = providers_[j]
              /\ ~entry[providers_[j]].deletion_pending_
              /\ \A m \in p..(j - 1) : entry[providers_[m]].deletion_pending_
<1> DEFINE V == {j \in p..Len(providers_) : ~entry[providers_[j]].deletion_pending_}
<1>1. V # {} /\ GetNextValidProvider(p) = providers_[Min(V)]
  BY DEF GetNextValidProvider
<1>2. V \subseteq Nat /\ Len(providers_) \in Nat
  BY DEF TypeOK
<1> DEFINE j == Min(V)
<1>3. j \in V /\ \A m \in V : j <= m
  BY <1>1, <1>2, MinIsLeast
<1> HIDE DEF j
<1>4. ASSUME NEW m \in p..(j - 1) PROVE entry[providers_[m]].deletion_pending_
  BY <1>2, <1>3
<1>5. QED
  BY <1>1, <1>3, <1>4 DEF j

LEMMA PlaceOfEntry ==
    ASSUME NEW e, \E k \in 1..Len(providers_) : providers_[k] = e
    PROVE  PlaceOf(e) \in 1..Len(providers_) /\ providers_[PlaceOf(e)] = e
  BY DEF PlaceOf

\* A request ends without another provider.
Ends(r) ==
    /\ request' = [request EXCEPT ![r] = [phase |-> "done", pos |-> NoEntry]]
    /\ sending' = NoRequest

\* A request goes to the next place of the list whose entry was not removed.
Moves(r, j) ==
    /\ PlaceOf(request[r].pos) < j /\ ~entry[providers_[j]].deletion_pending_
    /\ \A m \in (PlaceOf(request[r].pos) + 1)..(j - 1) : entry[providers_[m]].deletion_pending_
    /\ request' = [request EXCEPT ![r] = [phase |-> "held", pos |-> providers_[j]]]
    /\ sending' = r

LEMMA StopEffect ==
    ASSUME TypeOK, Lists, alive, NEW r \in Requests, request[r].pos # NoEntry,
           StopRequest(r), UNCHANGED <<added, alive>>
    PROVE  Lists' /\ OnlyFewer
<1> DEFINE L == DetachRequestFromProvider(r).pending
           F == DetachRequestFromProvider(r).freed
<1>1. /\ Free(F, entry) /\ pending_requests_' = L
      /\ request' = [request EXCEPT ![r] = [phase |-> "done", pos |-> NoEntry]]
  BY DEF StopRequest
<1> HIDE DEF L, F
<1>2. Without(r, L) /\ OnlyFewer
  BY <1>1, DetachLists DEF L, F
<1>3. QED
  BY <1>1, <1>2, StopLists

LEMMA IncrementEffect ==
    ASSUME TypeOK, Lists, alive, NEW r \in Requests, request[r].pos # NoEntry,
           IncrementProvider(r), UNCHANGED <<added, alive>>
    PROVE  /\ Lists' /\ OnlyFewer
           /\ Ends(r) \/ \E j \in 1..Len(providers_) : Moves(r, j)
<1> DEFINE q == PlaceOf(request[r].pos)
           n == GetNextValidProvider(q + 1)
           L == DetachRequestFromProvider(r).pending
           F == DetachRequestFromProvider(r).freed
<1>1. CASE n = NoEntry
  <2>1. StopRequest(r) /\ sending' = NoRequest
    BY <1>1 DEF IncrementProvider
  <2>2. Ends(r)
    BY <2>1 DEF Ends, StopRequest
  <2>3. QED
    BY <2>1, <2>2, StopEffect
<1>2. CASE n # NoEntry
  <2>1. Free(F, entry) /\ MakeRequest(r, n, L)
    BY <1>2 DEF IncrementProvider
  <2>2. \E k \in 1..Len(providers_) : providers_[k] = request[r].pos
    BY DEF Lists, PlaceOK
  <2>3. q \in 1..Len(providers_) /\ providers_[q] = request[r].pos /\ Len(providers_) \in Nat
    <3>1. /\ PlaceOf(request[r].pos) \in 1..Len(providers_)
          /\ providers_[PlaceOf(request[r].pos)] = request[r].pos
      BY <2>2, PlaceOfEntry
    <3>2. QED
      BY <3>1 DEF TypeOK
  <2> HIDE DEF n, L, F, q
  <2>4. q + 1 \in Nat \ {0}
    BY <2>3
  <2>5. PICK j \in (q + 1)..Len(providers_) :
              /\ n = providers_[j] /\ ~entry[providers_[j]].deletion_pending_
              /\ \A m \in (q + 1)..(j - 1) : entry[providers_[m]].deletion_pending_
    BY <1>2, <2>4, NextValid DEF n
  <2>6. Without(r, L) /\ OnlyFewer
    BY <2>1, DetachLists DEF L, F
  <2>7. j \in 1..Len(providers_) /\ q < j
    BY <2>3
  <2>8. n \in Entries /\ n # request[r].pos
    <3>1. \A i, k \in 1..Len(providers_) : providers_[i] = providers_[k] => i = k
      BY ListedOnce DEF Lists
    <3>2. n \in Entries
      BY <2>5, <2>7 DEF TypeOK
    <3>3. QED
      BY <2>3, <2>5, <2>7, <3>1, <3>2
  <2>9. /\ \E k \in 1..Len(providers_') : providers_'[k] = n
        /\ entry'[n] = entry[n]
    <3> DEFINE e == request[r].pos
    <3>1. e = request[r].pos
      OBVIOUS
    <3> HIDE DEF e
    <3>2. Detached(r, e, L, F)
      BY <3>1, DetachEffect DEF Lists, L, F
    <3>3. n \notin F
      BY <2>8, <3>1, <3>2 DEF Detached
    <3>4. /\ \A i \in 1..Len(providers_) : providers_[i] \notin F =>
                \E k \in 1..Len(providers_') : providers_'[k] = providers_[i]
          /\ \A f \in Entries : f \notin F => entry'[f] = entry[f]
      <4>1. OrderOK /\ entry \in [Entries -> EntryFields] /\ added' = added
        BY DEF Lists, ListTypes
      <4>2. QED
        BY <2>1, <4>1, FreeEffect
    <3>5. QED
      BY <2>5, <2>7, <2>8, <3>3, <3>4
  <2>10. ~entry'[n].deletion_pending_
    BY <2>5, <2>9
  <2>11. Lists'
    BY <2>1, <2>6, <2>8, <2>9, <2>10, MakeLists
  <2>12. Moves(r, j)
    <3>1. request' = [request EXCEPT ![r] = [phase |-> "held", pos |-> n]] /\ sending' = r
      BY <2>1 DEF MakeRequest
    <3>2. QED
      BY <2>5, <2>7, <3>1 DEF Moves, q
  <2>13. QED
    BY <2>6, <2>7, <2>11, <2>12
<1>3. QED
  BY <1>1, <1>2

\* The requests of rs give their states to the tasks of the queue.
Posted(rs, a) ==
    /\ request' \in [Requests -> States]
    /\ \A r \in Requests :
          /\ request'[r].pos = request[r].pos
          /\ (\E k \in 1..Len(rs) : rs[k] = r) => request'[r].phase = "posted"
          /\ (\A k \in 1..Len(rs) : rs[k] # r) => request'[r] = request[r]
    /\ queue' \in Seq(Tasks)
    /\ \A i \in 1..Len(queue) : i \in 1..Len(queue') /\ queue'[i] = queue[i]
    /\ \A i \in 1..Len(queue') : i \in 1..Len(queue) \/ \E k \in 1..Len(rs) : i = Len(queue) + k
    /\ \A k \in 1..Len(rs) :
          /\ Len(queue) + k \in 1..Len(queue')
          /\ queue'[Len(queue) + k].what = "state" /\ queue'[Len(queue) + k].r = rs[k]
          /\ queue'[Len(queue) + k].e = request[rs[k]].pos
          /\ queue'[Len(queue) + k].answer = a

LEMMA PostEffect ==
    ASSUME TypeOK, NEW rs \in Seq(Requests), \A k \in 1..Len(rs) : Held(rs[k]),
           NEW a \in Answers, PostStates(rs, a)
    PROVE  Posted(rs, a)
<1> DEFINE new == [i \in 1..Len(rs) |-> StateTask(rs[i], a)]
<1>1. /\ request \in [Requests -> States] /\ queue \in Seq(Tasks)
      /\ \A r \in Requests : Attached(r) <=> request[r].pos # NoEntry
      /\ Len(rs) \in Nat /\ \A k \in 1..Len(rs) : rs[k] \in Requests
  BY DEF TypeOK, States
<1>2. \A r \in Requests : r \in ToSet(rs) <=> \E k \in 1..Len(rs) : rs[k] = r
  BY DEF ToSet
<1>3. /\ request' = [r \in Requests |->
              IF r \in ToSet(rs) THEN [request[r] EXCEPT !.phase = "posted"] ELSE request[r]]
      /\ queue' = queue \o new
  BY DEF PostStates
<1>4. \A r \in Requests : /\ request'[r] \in States /\ request'[r].pos = request[r].pos
                          /\ r \in ToSet(rs) => request'[r].phase = "posted"
                          /\ r \notin ToSet(rs) => request'[r] = request[r]
  BY <1>1, <1>3 DEF States, Phases
<1>5. request' \in [Requests -> States]
  BY <1>3, <1>4
<1>6. \A k \in 1..Len(rs) :
          /\ new[k] \in Tasks /\ new[k].what = "state" /\ new[k].r = rs[k]
          /\ new[k].e = request[rs[k]].pos /\ new[k].answer = a
  <2>1. TAKE k \in 1..Len(rs)
  <2>2. rs[k] \in Requests /\ request[rs[k]].pos \in Entries
    BY <1>1 DEF Held, Attached, States
  <2>3. new[k] = [what |-> "state", r |-> rs[k], e |-> request[rs[k]].pos, answer |-> a]
    BY DEF StateTask
  <2>4. QED
    BY <2>2, <2>3 DEF Tasks
<1>7. new \in Seq(Tasks) /\ Len(new) = Len(rs)
  <2>1. new \in [1..Len(rs) -> Tasks]
    BY <1>6
  <2> HIDE DEF new
  <2>2. QED
    BY <1>1, <2>1
<1> HIDE DEF new
<1>8. /\ queue' \in Seq(Tasks)
      /\ \A i \in 1..Len(queue) : i \in 1..Len(queue') /\ queue'[i] = queue[i]
      /\ \A i \in 1..Len(queue') : i \in 1..Len(queue) \/ \E k \in 1..Len(new) : i = Len(queue) + k
      /\ \A k \in 1..Len(new) : Len(queue) + k \in 1..Len(queue') /\ queue'[Len(queue) + k] = new[k]
  <2>1. /\ queue \in Seq(Tasks) /\ new \in Seq(Tasks) /\ queue' = queue \o new
        /\ Len(queue) \in Nat /\ Len(new) \in Nat
    BY <1>1, <1>3, <1>7
  <2>2. queue' \in Seq(Tasks) /\ Len(queue') = Len(queue) + Len(new)
    BY <2>1
  <2>3. \A i \in 1..Len(queue) : i \in 1..Len(queue') /\ queue'[i] = queue[i]
    BY <2>1, <2>2
  <2>4. \A i \in 1..Len(queue') : i \in 1..Len(queue) \/ \E k \in 1..Len(new) : i = Len(queue) + k
    <3>1. SUFFICES ASSUME NEW i \in 1..Len(queue'), i \notin 1..Len(queue)
                   PROVE  \E k \in 1..Len(new) : i = Len(queue) + k
      OBVIOUS
    <3>2. i - Len(queue) \in 1..Len(new) /\ i = Len(queue) + (i - Len(queue))
      BY <2>1, <2>2, <3>1
    <3>3. QED
      BY <3>2
  <2>5. \A k \in 1..Len(new) : Len(queue) + k \in 1..Len(queue') /\ queue'[Len(queue) + k] = new[k]
    BY <2>1, <2>2
  <2>6. QED
    BY <2>2, <2>3, <2>4, <2>5
<1>9. QED
  <2>1. \A k \in 1..Len(rs) :
          /\ Len(queue) + k \in 1..Len(queue')
          /\ queue'[Len(queue) + k].what = "state" /\ queue'[Len(queue) + k].r = rs[k]
          /\ queue'[Len(queue) + k].e = request[rs[k]].pos
          /\ queue'[Len(queue) + k].answer = a
    BY ZenonT(40), <1>6, <1>7, <1>8
  <2>2. \A r \in Requests :
          /\ request'[r].pos = request[r].pos
          /\ (\E k \in 1..Len(rs) : rs[k] = r) => request'[r].phase = "posted"
          /\ (\A k \in 1..Len(rs) : rs[k] # r) => request'[r] = request[r]
    BY <1>2, <1>4
  <2>3. \A i \in 1..Len(queue') : i \in 1..Len(queue) \/ \E k \in 1..Len(rs) : i = Len(queue) + k
    BY <1>7, <1>8
  <2>4. QED
    BY <1>5, <1>8, <2>1, <2>2, <2>3 DEF Posted

\* Tasks for requests that had their states keep the queue exact.
LEMMA PostQueue ==
    ASSUME TypeOK, QueueOK, NEW rs \in Seq(Requests), NEW a, Posted(rs, a),
           \A k \in 1..Len(rs) : Held(rs[k]),
           \A k, l \in 1..Len(rs) : rs[k] = rs[l] => k = l
    PROVE  QueueOK'
<1> DEFINE N == Len(queue)
<1>1. N \in Nat /\ \A i \in 1..N : queue[i].r \in Requests
  <2>1. queue \in Seq(Tasks)
    BY DEF TypeOK
  <2>2. N \in Nat /\ \A i \in 1..N : queue[i] \in Tasks
    BY <2>1
  <2>3. \A t \in Tasks : t.r \in Requests
    BY DEF Tasks
  <2>4. QED
    BY <2>2, <2>3
<1>2. Len(rs) \in Nat /\ \A k \in 1..Len(rs) : rs[k] \in Requests /\ request[rs[k]].phase = "held"
  BY DEF Held
<1>3. /\ \A r \in Requests :
            /\ request'[r].pos = request[r].pos
            /\ (\E k \in 1..Len(rs) : rs[k] = r) => request'[r].phase = "posted"
            /\ (\A k \in 1..Len(rs) : rs[k] # r) => request'[r] = request[r]
      /\ \A i \in 1..N : i \in 1..Len(queue') /\ queue'[i] = queue[i]
      /\ \A i \in 1..Len(queue') : i \in 1..N \/ \E k \in 1..Len(rs) : i = N + k
      /\ \A k \in 1..Len(rs) :
            /\ N + k \in 1..Len(queue')
            /\ queue'[N + k].what = "state" /\ queue'[N + k].r = rs[k]
            /\ queue'[N + k].e = request[rs[k]].pos
  BY DEF Posted
<1>4. /\ \A i \in 1..N : queue[i].what = "state" =>
            request[queue[i].r].phase = "posted" /\ queue[i].e = request[queue[i].r].pos
      /\ \A i, j \in 1..N :
            queue[i].what = "state" /\ queue[j].what = "state" /\ queue[i].r = queue[j].r => i = j
      /\ \A r \in Requests : request[r].phase = "posted" =>
            \E i \in 1..N : queue[i].what = "state" /\ queue[i].r = r
  BY DEF QueueOK
<1> HIDE DEF N
<1>5. \A i \in 1..N : \A k \in 1..Len(rs) : queue[i].what = "state" => queue[i].r # rs[k]
  BY <1>2, <1>4
<1>6. ASSUME NEW i \in 1..Len(queue'), queue'[i].what = "state"
      PROVE  request'[queue'[i].r].phase = "posted" /\ queue'[i].e = request'[queue'[i].r].pos
  <2>1. CASE i \in 1..N
    <3>1. queue'[i] = queue[i] /\ queue[i].what = "state" /\ queue[i].r \in Requests
      BY <1>1, <1>3, <1>6, <2>1
    <3>2. request[queue[i].r].phase = "posted" /\ queue[i].e = request[queue[i].r].pos
      BY <1>4, <2>1, <3>1
    <3>3. \A k \in 1..Len(rs) : rs[k] # queue[i].r
      BY <1>5, <2>1, <3>1
    <3>4. QED
      BY <1>3, <3>1, <3>2, <3>3
  <2>2. ASSUME NEW k \in 1..Len(rs), i = N + k
        PROVE  request'[queue'[i].r].phase = "posted" /\ queue'[i].e = request'[queue'[i].r].pos
    <3>1. rs[k] \in Requests
      BY <1>2
    <3>2. request'[rs[k]].pos = request[rs[k]].pos /\ request'[rs[k]].phase = "posted"
      BY <1>3, <3>1
    <3>3. QED
      BY <1>3, <2>2, <3>2
  <2>3. QED
    BY <1>3, <2>1, <2>2
<1>7. ASSUME NEW i \in 1..Len(queue'), NEW j \in 1..Len(queue'), queue'[i].what = "state",
             queue'[j].what = "state", queue'[i].r = queue'[j].r
      PROVE  i = j
  <2>1. CASE i \in 1..N /\ j \in 1..N
    BY <1>3, <1>4, <1>7, <2>1
  <2>2. ASSUME NEW k \in 1..Len(rs), i = N + k, j \in 1..N PROVE FALSE
    BY <1>3, <1>5, <1>7, <2>2
  <2>3. ASSUME NEW k \in 1..Len(rs), j = N + k, i \in 1..N PROVE FALSE
    BY SMTT(30), <1>3, <1>5, <1>7, <2>3
  <2>4. ASSUME NEW k \in 1..Len(rs), NEW l \in 1..Len(rs), i = N + k, j = N + l PROVE i = j
    <3>1. rs[k] = rs[l]
      BY <1>3, <1>7, <2>4
    <3>2. QED
      BY <2>4, <3>1
  <2>5. QED
    BY <1>3, <2>1, <2>2, <2>3, <2>4
<1>8. ASSUME NEW r \in Requests, request'[r].phase = "posted"
      PROVE  \E i \in 1..Len(queue') : queue'[i].what = "state" /\ queue'[i].r = r
  <2>1. ASSUME NEW k \in 1..Len(rs), rs[k] = r
        PROVE  \E i \in 1..Len(queue') : queue'[i].what = "state" /\ queue'[i].r = r
    BY <1>3, <2>1
  <2>2. CASE \A k \in 1..Len(rs) : rs[k] # r
    <3>1. request[r].phase = "posted"
      BY <1>3, <1>8, <2>2
    <3>2. PICK i \in 1..N : queue[i].what = "state" /\ queue[i].r = r
      BY <1>4, <3>1
    <3>3. QED
      BY <1>3, <3>2
  <2>3. QED
    BY <2>1, <2>2
<1>9. QED
  BY <1>6, <1>7, <1>8 DEF QueueOK

\* What removes or adds no entry and no request keeps the lists.
LEMMA PostLists ==
    ASSUME TypeOK, Lists, NEW rs \in Seq(Requests), NEW a, Posted(rs, a),
           \A k \in 1..Len(rs) : Held(rs[k]),
           UNCHANGED <<providers_, pending_requests_, alive, added>>,
           entry' \in [Entries -> EntryFields],
           \A e \in Entries : /\ entry'[e].shape = entry[e].shape
                              /\ entry'[e].deletion_pending_ <=> entry[e].deletion_pending_
    PROVE  Lists'
<1>1. /\ \A r \in Requests : request'[r].pos = request[r].pos
      /\ request' \in [Requests -> States]
  BY DEF Posted
<1>2. \A r \in Requests : Held(r)' => Held(r)
  BY DEF Posted, Held
<1>3. \A r \in Requests : Attached(r)' <=> Attached(r)
  <2>1. TAKE r \in Requests
  <2>2. CASE \E k \in 1..Len(rs) : rs[k] = r
    BY <2>2 DEF Posted, Held, Attached
  <2>3. CASE \A k \in 1..Len(rs) : rs[k] # r
    BY <2>3 DEF Posted, Attached
  <2>4. QED
    BY <2>2, <2>3
<1>4. ListTypes'
  BY <1>1, <1>3 DEF Lists, ListTypes
<1>5. \A i \in 1..Len(providers_) : providers_[i] \in Entries
  BY DEF TypeOK
<1>6. OrderOK'
  <2>1. \A i, j \in 1..Len(providers_) : i < j => BeforeThen(providers_[i], providers_[j])
    BY <1>5 DEF Lists, OrderOK, Before, BeforeThen
  <2>2. QED
    BY <2>1 DEF Lists, OrderOK, Before, BeforeThen
<1>7. \A e \in Entries : \A i \in 1..Len(pending_requests_[e]) : pending_requests_[e][i] \in Requests
  BY DEF Lists, ListTypes
<1>8. ListOK'
  BY <1>1, <1>7 DEF Lists, ListOK
<1>9. PlaceOK'
  BY <1>1, <1>2 DEF Lists, PlaceOK
<1>10. RemovedOK'
  BY <1>2, <1>5, <1>7 DEF Lists, RemovedOK
<1>11. QED
  BY <1>4, <1>6, <1>8, <1>9, <1>10 DEF Lists

\* A request that was canceled had its state taken then, so it is not among
\* those that give theirs to a task.
LEMMA PostCancel ==
    ASSUME TypeOK, CancelOK, NEW rs \in Seq(Requests), NEW a, Posted(rs, a),
           \A k \in 1..Len(rs) : Held(rs[k]),
           UNCHANGED <<providers_, pending_handlers_, canceled, added>>,
           \A e \in Entries : entry'[e].deletion_pending_ <=> entry[e].deletion_pending_
    PROVE  CancelOK'
<1>1. SUFFICES ASSUME NEW r \in Requests, NEW e \in Entries, <<r, e>> \in canceled
               PROVE  /\ e <= added /\ pending_handlers_[r] # e
                      /\ \A k \in 1..Len(providers_) : providers_[k] = e => entry'[e].deletion_pending_
                      /\ request'[r].pos = e => request'[r].phase # "held"
                      /\ \A i \in 1..Len(queue') :
                            queue'[i].what = "state" /\ queue'[i].r = r /\ queue'[i].e = e =>
                                queue'[i].answer \in {"next", "stop"}
  BY DEF CancelOK, Held
<1>2. /\ e <= added /\ pending_handlers_[r] # e
      /\ \A k \in 1..Len(providers_) : providers_[k] = e => entry[e].deletion_pending_
      /\ request[r].pos = e => request[r].phase # "held"
      /\ \A i \in 1..Len(queue) :
            queue[i].what = "state" /\ queue[i].r = r /\ queue[i].e = e =>
                queue[i].answer \in {"next", "stop"}
  BY <1>1 DEF CancelOK, Held
<1>3. request'[r].pos = e => request'[r].phase # "held"
  BY <1>2 DEF Posted
<1>4. ASSUME NEW i \in 1..Len(queue'), queue'[i].what = "state", queue'[i].r = r, queue'[i].e = e
      PROVE  queue'[i].answer \in {"next", "stop"}
  <2>1. CASE i \in 1..Len(queue)
    BY <1>2, <1>4, <2>1 DEF Posted
  <2>2. ASSUME NEW k \in 1..Len(rs), i = Len(queue) + k PROVE FALSE
    <3>1. rs[k] = r /\ request[r].pos = e
      BY <1>4, <2>2 DEF Posted
    <3>2. QED
      BY <1>2, <3>1 DEF Held
  <2>3. QED
    BY <2>1, <2>2 DEF Posted
<1>5. QED
  BY <1>2, <1>3, <1>4

-----------------------------------------------------------------------------
(* Steps that post, receive or drop answers.                               *)

OtherTypes ==
    /\ sending \in Requests \cup {NoRequest} /\ queue \in Seq(Tasks)
    /\ pending_handlers_ \in [Requests -> Entries \cup {NoEntry}]
    /\ canceled \subseteq Requests \X Entries
    /\ added \in 0..MaxEntries /\ alive \in BOOLEAN /\ hung \in BOOLEAN

LEMMA TypeParts == TypeOK => ListTypes /\ OtherTypes
  BY DEF TypeOK, ListTypes, OtherTypes, EntryFields, States

LEMMA TypePartsThen == ListTypes' /\ OtherTypes' => TypeOK'
  BY DEF TypeOK, ListTypes, OtherTypes, EntryFields, States

LEMMA PostHandlers ==
    ASSUME HandlerOK, NEW rs \in Seq(Requests), NEW a, Posted(rs, a),
           \A k \in 1..Len(rs) : Held(rs[k]), UNCHANGED pending_handlers_
    PROVE  HandlerOK'
<1>1. SUFFICES ASSUME NEW r \in Requests, request'[r].phase \in {"new", "held", "posted"}
               PROVE  pending_handlers_[r] = NoEntry
  BY DEF HandlerOK
<1>2. CASE \E k \in 1..Len(rs) : rs[k] = r
  BY <1>2 DEF HandlerOK, Held
<1>3. CASE \A k \in 1..Len(rs) : rs[k] # r
  <2>1. request'[r] = request[r]
    BY <1>3 DEF Posted
  <2>2. QED
    BY <1>1, <2>1 DEF HandlerOK
<1>4. QED
  BY <1>2, <1>3

LEMMA PostStep ==
    ASSUME IInv, NEW rs \in Seq(Requests), NEW a, Posted(rs, a),
           \A k \in 1..Len(rs) : Held(rs[k]),
           \A k, l \in 1..Len(rs) : rs[k] = rs[l] => k = l,
           UNCHANGED <<providers_, pending_requests_, pending_handlers_, canceled, added, alive, hung>>,
           entry' \in [Entries -> EntryFields],
           \A e \in Entries : /\ entry'[e].shape = entry[e].shape
                              /\ entry'[e].deletion_pending_ <=> entry[e].deletion_pending_,
           sending' \in Requests \cup {NoRequest}, SendingOK'
    PROVE  IInv'
<1>1. TypeOK /\ Lists /\ QueueOK /\ HandlerOK /\ CancelOK
  BY TypeParts DEF IInv, Lists
<1>2. Lists'
  BY <1>1, PostLists
<1>3. TypeOK'
  <2>1. queue' \in Seq(Tasks)
    BY DEF Posted
  <2>2. OtherTypes
    BY <1>1, TypeParts
  <2>3. OtherTypes'
    BY Zenon, <2>1, <2>2 DEF OtherTypes
  <2>4. QED
    BY <1>2, <2>3, TypePartsThen DEF Lists
<1>4. QueueOK'
  BY <1>1, PostQueue
<1>5. HandlerOK'
  BY <1>1, PostHandlers
<1>6. CancelOK'
  BY <1>1, PostCancel
<1>7. QED
  BY <1>2, <1>3, <1>4, <1>5, <1>6 DEF IInv, Lists

LEMMA PostNothing ==
    ASSUME TypeOK, UNCHANGED <<request, queue>>
    PROVE  Posted(<<>>, "next")
<1>1. request \in [Requests -> States] /\ queue \in Seq(Tasks)
  BY DEF TypeOK, States
<1>2. QED
  BY <1>1 DEF Posted

LEMMA AnswerStep ==
    ASSUME IInv, NEW r \in Requests, NEW a \in Answers, AnswerOnIOThread(r, a)
    PROVE  IInv'
<1> DEFINE rs == <<r>>
<1>1. rs \in Seq(Requests) /\ Len(rs) = 1 /\ rs[1] = r
  OBVIOUS
<1>2. /\ \A k \in 1..Len(rs) : rs[k] = r
      /\ \A k, l \in 1..Len(rs) : rs[k] = rs[l] => k = l
  BY <1>1
<1>3. /\ Held(r) /\ PostStates(rs, a) /\ ClientRuns
      /\ UNCHANGED <<providers_, entry, pending_requests_, sending, pending_handlers_,
                     canceled, added, alive, hung>>
  BY DEF AnswerOnIOThread
<1>4. TypeOK /\ SendingOK
  BY DEF IInv
<1> HIDE DEF rs
<1>5. \A k \in 1..Len(rs) : Held(rs[k])
  BY <1>2, <1>3
<1>6. Posted(rs, a)
  BY <1>1, <1>3, <1>4, <1>5, PostEffect
<1>7. entry' \in [Entries -> EntryFields] /\ sending' \in Requests \cup {NoRequest}
  BY <1>3, <1>4, TypeParts DEF ListTypes, OtherTypes
<1>8. SendingOK'
  <2>1. SUFFICES ASSUME sending # NoRequest
                 PROVE  /\ alive /\ request'[sending].pos # NoEntry
                        /\ entry[request'[sending].pos].shape.kind # "archive"
    BY <1>3 DEF SendingOK
  <2>2. sending \in Requests
    BY <1>4, <2>1 DEF TypeOK
  <2>3. request'[sending].pos = request[sending].pos
    BY <1>6, <2>2 DEF Posted
  <2>4. QED
    BY <1>3, <1>4, <2>1, <2>3 DEF SendingOK, ClientRuns
<1>9. QED
  BY <1>1, <1>2, <1>3, <1>5, <1>6, <1>7, <1>8, PostStep

LEMMA AcceptsStep ==
    ASSUME IInv, OnRequestAccepts
    PROVE  IInv'
<1>1. TypeOK /\ UNCHANGED <<providers_, entry, pending_requests_, request, queue,
                             pending_handlers_, canceled, added, alive, hung>>
  BY DEF IInv, OnRequestAccepts
<1>2. sending' = NoRequest
  BY DEF OnRequestAccepts
<1>3. Posted(<<>>, "next") /\ <<>> \in Seq(Requests) /\ Len(<<>>) = 0
  BY <1>1, PostNothing
<1>4. entry' \in [Entries -> EntryFields] /\ sending' \in Requests \cup {NoRequest}
  BY <1>1, <1>2, TypeParts DEF ListTypes
<1>5. SendingOK'
  BY <1>2 DEF SendingOK
<1> DEFINE rs == <<>>
<1>6. \A k \in 1..Len(rs) : FALSE
  BY <1>3
<1> HIDE DEF rs
<1>7. rs \in Seq(Requests) /\ Posted(rs, "next")
  BY <1>3 DEF rs
<1>8. QED
  BY <1>1, <1>4, <1>5, <1>6, <1>7, PostStep

LEMMA ArchiveOnRequestStep ==
    ASSUME IInv, ArchiveOnRequest
    PROVE  IInv'
<1> DEFINE e == request[sending].pos
<1>1. /\ sending # NoRequest /\ sending' = NoRequest /\ entry[e].shape.kind = "archive"
      /\ UNCHANGED <<providers_, pending_requests_, pending_handlers_, canceled, added, alive, hung>>
  BY DEF ArchiveOnRequest
<1>2. TypeOK /\ SendingOK
  BY DEF IInv
<1>3. sending \in Requests /\ e \in Entries /\ Held(sending)
  BY <1>1, <1>2 DEF TypeOK, SendingOK
<1>4. SendingOK' /\ sending' \in Requests \cup {NoRequest}
  BY <1>1 DEF SendingOK
<1>5. entry \in [Entries -> EntryFields]
  BY <1>2, TypeParts DEF ListTypes
<1>6. CASE entry' = [entry EXCEPT ![e].load = "loading"] /\ UNCHANGED <<request, queue>>
  <2>1. entry' \in [Entries -> EntryFields]
    BY <1>3, <1>5, <1>6 DEF EntryFields
  <2>2. \A f \in Entries : /\ entry'[f].shape = entry[f].shape
                           /\ entry'[f].deletion_pending_ <=> entry[f].deletion_pending_
    BY <1>3, <1>5, <1>6 DEF EntryFields
  <2> DEFINE rs == <<>>
  <2>3. rs \in Seq(Requests) /\ Posted(rs, "next") /\ \A k \in 1..Len(rs) : FALSE
    BY <1>2, <1>6, PostNothing
  <2> HIDE DEF rs
  <2>4. QED
    BY <1>1, <1>4, <2>1, <2>2, <2>3, PostStep
<1>7. CASE PostStates(<<sending>>, "handler") /\ UNCHANGED entry
  <2> DEFINE rs == <<sending>>
  <2>1. /\ rs \in Seq(Requests) /\ \A k \in 1..Len(rs) : Held(rs[k])
        /\ \A k, l \in 1..Len(rs) : rs[k] = rs[l] => k = l
    BY <1>3
  <2>2. PostStates(rs, "handler") /\ "handler" \in Answers
    BY <1>7 DEF Answers
  <2> HIDE DEF rs
  <2>3. Posted(rs, "handler")
    BY <1>2, <2>1, <2>2, PostEffect
  <2>4. QED
    BY <1>1, <1>4, <1>5, <1>7, <2>1, <2>3, PostStep
<1>8. QED
  BY <1>6, <1>7 DEF ArchiveOnRequest

LEMMA ArchiveLoadedStep ==
    ASSUME IInv, NEW e \in Entries, ArchiveLoaded(e)
    PROVE  IInv'
<1>1. TypeOK /\ SendingOK /\ ListOK
  BY DEF IInv
<1>2. /\ sending = NoRequest /\ entry' = [entry EXCEPT ![e].load = "ended"]
      /\ UNCHANGED <<providers_, pending_requests_, sending, pending_handlers_, canceled,
                     added, alive, hung>>
  BY DEF ArchiveLoaded, IOThreadIdle
<1>3. PICK found : PostStates(OnlyIn(pending_requests_[e], HeldRequests \cap found), "handler")
  BY DEF ArchiveLoaded
<1> DEFINE s == pending_requests_[e]
           S == HeldRequests \cap found
           rs == OnlyIn(s, S)
<1>4. s \in Seq(Requests) /\ \A i, j \in 1..Len(s) : s[i] = s[j] => i = j
  BY <1>1 DEF TypeOK, ListOK
<1>5. PostStates(rs, "handler") /\ "handler" \in Answers
  BY <1>3 DEF Answers
<1> HIDE DEF s
<1>6. rs \in Seq(Requests) /\ \A k \in 1..Len(rs) : rs[k] \in S
  <2> HIDE DEF S
  <2>1. QED
    BY <1>4, OnlyInMembers
<1>7. \A k, l \in 1..Len(rs) : rs[k] = rs[l] => k = l
  <2> HIDE DEF S
  <2>1. QED
    BY <1>4, OnlyInOnce
<1> HIDE DEF rs
<1>8. \A k \in 1..Len(rs) : Held(rs[k])
  BY <1>6 DEF HeldRequests
<1>9. Posted(rs, "handler")
  BY <1>1, <1>5, <1>6, <1>8, PostEffect
<1>10. entry \in [Entries -> EntryFields] /\ sending' \in Requests \cup {NoRequest} /\ SendingOK'
  BY <1>1, <1>2, TypeParts DEF ListTypes, SendingOK
<1>11. entry' \in [Entries -> EntryFields]
  BY <1>2, <1>10 DEF EntryFields
<1>12. \A f \in Entries : /\ entry'[f].shape = entry[f].shape
                          /\ entry'[f].deletion_pending_ <=> entry[f].deletion_pending_
  BY <1>2, <1>10 DEF EntryFields
<1>13. QED
  BY <1>2, <1>6, <1>7, <1>8, <1>9, <1>10, <1>11, <1>12, PostStep

-----------------------------------------------------------------------------
(* The tasks of the queue.                                                 *)

LEMMA TailPlaces ==
    ASSUME TypeOK, queue # <<>>
    PROVE  /\ Len(queue) \in Nat \ {0} /\ 1 \in 1..Len(queue) /\ Head(queue) = queue[1]
           /\ Head(queue) \in Tasks
           /\ Tail(queue) \in Seq(Tasks) /\ Len(Tail(queue)) = Len(queue) - 1
           /\ \A i \in 1..Len(Tail(queue)) : /\ i + 1 \in 1..Len(queue) /\ i + 1 # 1
                                             /\ Tail(queue)[i] = queue[i + 1]
           /\ \A i \in 1..Len(queue) : i # 1 => /\ i - 1 \in 1..Len(Tail(queue))
                                                /\ Tail(queue)[i - 1] = queue[i]
<1>1. queue \in Seq(Tasks)
  BY DEF TypeOK
<1>2. Len(queue) \in Nat \ {0} /\ Head(queue) = queue[1] /\ Head(queue) \in Tasks
  BY <1>1
<1>3. /\ Tail(queue) \in Seq(Tasks) /\ Len(Tail(queue)) = Len(queue) - 1
      /\ \A i \in 1..(Len(queue) - 1) : Tail(queue)[i] = queue[i + 1]
  BY <1>1
<1>4. \A i \in 1..Len(Tail(queue)) : /\ i + 1 \in 1..Len(queue) /\ i + 1 # 1
                                     /\ Tail(queue)[i] = queue[i + 1]
  BY <1>2, <1>3
<1>5. ASSUME NEW i \in 1..Len(queue), i # 1
      PROVE  i - 1 \in 1..Len(Tail(queue)) /\ Tail(queue)[i - 1] = queue[i]
  <2>1. i - 1 \in 1..(Len(queue) - 1) /\ (i - 1) + 1 = i
    BY <1>2, <1>5
  <2>2. QED
    BY <1>3, <2>1
<1>6. QED
  BY <1>2, <1>3, <1>4, <1>5

LEMMA TaskFields ==
    ASSUME TypeOK
    PROVE  \A i \in 1..Len(queue) : /\ queue[i] \in Tasks /\ queue[i].r \in Requests
                                    /\ queue[i].e \in Entries
<1>1. queue \in Seq(Tasks)
  BY DEF TypeOK
<1>2. \A i \in 1..Len(queue) : queue[i] \in Tasks
  BY <1>1
<1>3. \A t \in Tasks : t.r \in Requests /\ t.e \in Entries
  BY DEF Tasks
<1>4. QED
  BY <1>2, <1>3

\* A request that was in no task is in none.
LEMMA QueueKept ==
    ASSUME TypeOK, QueueOK, NEW r \in Requests, queue' = queue,
           request[r].phase # "posted", request'[r].phase # "posted",
           \A q \in Requests : q # r => request'[q] = request[q]
    PROVE  QueueOK'
<1>1. \A i \in 1..Len(queue) : queue[i].what = "state" => queue[i].r \in Requests /\ queue[i].r # r
  BY TaskFields DEF QueueOK
<1>2. QED
  BY <1>1 DEF QueueOK

\* The first task is taken with the state that it has.
LEMMA StateTaken ==
    ASSUME TypeOK, QueueOK, queue # <<>>, queue' = Tail(queue), Head(queue).what = "state",
           NEW r, r = Head(queue).r, request'[r].phase # "posted",
           \A q \in Requests : q # r => request'[q] = request[q]
    PROVE  QueueOK'
<1>1. /\ Len(queue) \in Nat \ {0} /\ 1 \in 1..Len(queue) /\ Head(queue) = queue[1]
      /\ \A i \in 1..Len(queue') : /\ i + 1 \in 1..Len(queue) /\ i + 1 # 1
                                   /\ queue'[i] = queue[i + 1]
      /\ \A i \in 1..Len(queue) : i # 1 => i - 1 \in 1..Len(queue') /\ queue'[i - 1] = queue[i]
  BY TailPlaces
<1>2. \A i \in 1..Len(queue) : queue[i].what = "state" /\ i # 1 => queue[i].r # r
  BY <1>1 DEF QueueOK
<1>3. \A i \in 1..Len(queue) : queue[i].r \in Requests
  BY TaskFields
<1>4. ASSUME NEW i \in 1..Len(queue'), queue'[i].what = "state"
      PROVE  request'[queue'[i].r].phase = "posted" /\ queue'[i].e = request'[queue'[i].r].pos
  <2> DEFINE j == i + 1
  <2>1. j \in 1..Len(queue) /\ j # 1 /\ queue'[i] = queue[j]
    BY <1>1
  <2> HIDE DEF j
  <2>2. queue[j].r \in Requests /\ queue[j].r # r /\ queue[j].what = "state"
    BY <1>2, <1>3, <1>4, <2>1
  <2>3. request[queue[j].r].phase = "posted" /\ queue[j].e = request[queue[j].r].pos
    BY <2>1, <2>2 DEF QueueOK
  <2>4. QED
    BY <2>1, <2>2, <2>3
<1>5. ASSUME NEW i \in 1..Len(queue'), NEW j \in 1..Len(queue'), queue'[i].what = "state",
             queue'[j].what = "state", queue'[i].r = queue'[j].r
      PROVE  i = j
  <2>1. /\ i + 1 \in 1..Len(queue) /\ queue'[i] = queue[i + 1]
        /\ j + 1 \in 1..Len(queue) /\ queue'[j] = queue[j + 1]
    BY <1>1
  <2>2. i + 1 = j + 1
    BY <1>5, <2>1 DEF QueueOK
  <2>3. QED
    BY <2>2
<1>6. ASSUME NEW q \in Requests, request'[q].phase = "posted"
      PROVE  \E i \in 1..Len(queue') : queue'[i].what = "state" /\ queue'[i].r = q
  <2>1. q # r /\ request[q].phase = "posted"
    BY <1>6
  <2>2. PICK i \in 1..Len(queue) : queue[i].what = "state" /\ queue[i].r = q
    BY <2>1 DEF QueueOK
  <2>3. i # 1
    BY <1>1, <2>1, <2>2
  <2>4. i - 1 \in 1..Len(queue') /\ queue'[i - 1] = queue[i]
    BY <1>1, <2>3
  <2>5. QED
    BY <2>2, <2>4
<1>7. QED
  BY <1>4, <1>5, <1>6 DEF QueueOK

\* A call that comes too late is dropped.
LEMMA CallDropped ==
    ASSUME TypeOK, QueueOK, queue # <<>>, queue' = Tail(queue), Head(queue).what # "state",
           request' = request
    PROVE  QueueOK'
<1>1. /\ Len(queue) \in Nat \ {0} /\ 1 \in 1..Len(queue) /\ Head(queue) = queue[1]
      /\ \A i \in 1..Len(queue') : /\ i + 1 \in 1..Len(queue) /\ i + 1 # 1
                                   /\ queue'[i] = queue[i + 1]
      /\ \A i \in 1..Len(queue) : i # 1 => i - 1 \in 1..Len(queue') /\ queue'[i - 1] = queue[i]
  BY TailPlaces
<1>2. ASSUME NEW i \in 1..Len(queue'), queue'[i].what = "state"
      PROVE  request'[queue'[i].r].phase = "posted" /\ queue'[i].e = request'[queue'[i].r].pos
  BY <1>1, <1>2 DEF QueueOK
<1>3. ASSUME NEW i \in 1..Len(queue'), NEW j \in 1..Len(queue'), queue'[i].what = "state",
             queue'[j].what = "state", queue'[i].r = queue'[j].r
      PROVE  i = j
  <2>1. /\ i + 1 \in 1..Len(queue) /\ queue'[i] = queue[i + 1]
        /\ j + 1 \in 1..Len(queue) /\ queue'[j] = queue[j + 1]
    BY <1>1
  <2>2. i + 1 = j + 1
    BY <1>3, <2>1 DEF QueueOK
  <2>3. QED
    BY <2>2
<1>4. ASSUME NEW q \in Requests, request'[q].phase = "posted"
      PROVE  \E i \in 1..Len(queue') : queue'[i].what = "state" /\ queue'[i].r = q
  <2>1. PICK i \in 1..Len(queue) : queue[i].what = "state" /\ queue[i].r = q
    BY <1>4 DEF QueueOK
  <2>2. i # 1
    BY <1>1, <2>1
  <2>3. QED
    BY ZenonT(40), <1>1, <2>1, <2>2
<1>5. QED
  BY <1>2, <1>3, <1>4 DEF QueueOK

\* A call takes the state and goes on with it as another task.
LEMMA CallTaken ==
    ASSUME IInv, queue # <<>>, NEW t, t = Head(queue), t.what = "call",
           Held(t.r), request[t.r].pos = t.e,
           request' = [request EXCEPT ![t.r].phase = "posted"],
           queue' = Append(Tail(queue), [t EXCEPT !.what = "state"]),
           UNCHANGED <<providers_, entry, pending_requests_, sending, pending_handlers_,
                       canceled, added, alive, hung>>,
           sending = NoRequest
    PROVE  IInv'
<1> DEFINE N == Len(queue)
           u == [t EXCEPT !.what = "state"]
<1>1. TypeOK /\ Lists /\ QueueOK /\ HandlerOK /\ CancelOK
  BY TypeParts DEF IInv, Lists
<1>2. /\ N \in Nat \ {0} /\ t = queue[1] /\ t \in Tasks /\ 1 \in 1..N
      /\ Tail(queue) \in Seq(Tasks) /\ Len(Tail(queue)) = N - 1
      /\ \A i \in 1..(N - 1) : i + 1 \in 1..N /\ i + 1 # 1 /\ Tail(queue)[i] = queue[i + 1]
      /\ \A i \in 1..N : i # 1 => i - 1 \in 1..(N - 1) /\ Tail(queue)[i - 1] = queue[i]
  BY <1>1, TailPlaces
<1>3. /\ u \in Tasks /\ u.what = "state" /\ u.r = t.r /\ u.e = t.e /\ u.answer = t.answer
      /\ t.r \in Requests /\ t.e \in Entries
  BY <1>2 DEF Tasks
<1> HIDE DEF u, N
<1>4. /\ queue' \in Seq(Tasks) /\ Len(queue') = N /\ queue'[N] = u
      /\ \A i \in 1..(N - 1) : queue'[i] = queue[i + 1]
  <2>1. queue' = Append(Tail(queue), u) /\ Tail(queue) \in Seq(Tasks)
    BY <1>2 DEF u
  <2>2. QED
    BY <1>2, <1>3, <2>1
<1>5. /\ request' \in [Requests -> States]
      /\ request'[t.r].phase = "posted" /\ request'[t.r].pos = t.e /\ request[t.r].phase = "held"
      /\ \A q \in Requests : q # t.r => request'[q] = request[q]
  BY <1>1, <1>3 DEF Lists, ListTypes, States, Phases, Held
<1>6. /\ \A i \in 1..N : i \in 1..(N - 1) \/ i = N
      /\ N \in 1..N
  BY <1>2
<1>7. \A i \in 1..N : queue[i].what = "state" => queue[i].r # t.r
  BY <1>1, <1>5 DEF QueueOK, N
<1>8. \A i \in 1..N : queue[i].r \in Requests
  BY <1>1, TaskFields DEF N
<1>9. QueueOK'
  <2>1. ASSUME NEW i \in 1..Len(queue'), queue'[i].what = "state"
        PROVE  request'[queue'[i].r].phase = "posted" /\ queue'[i].e = request'[queue'[i].r].pos
    <3>1. CASE i = N
      BY <1>3, <1>4, <1>5, <3>1
    <3>2. CASE i \in 1..(N - 1)
      <4> DEFINE j == i + 1
      <4>1. j \in 1..N /\ queue'[i] = queue[j] /\ queue[j].what = "state"
        BY <1>2, <1>4, <2>1, <3>2
      <4> HIDE DEF j
      <4>2. queue[j].r \in Requests /\ queue[j].r # t.r
        BY <1>7, <1>8, <4>1
      <4>3. request[queue[j].r].phase = "posted" /\ queue[j].e = request[queue[j].r].pos
        BY <1>1, <4>1 DEF QueueOK, N
      <4>4. QED
        BY <1>5, <4>1, <4>2, <4>3
    <3>3. QED
      BY <1>4, <1>6, <3>1, <3>2
  <2>2. ASSUME NEW i \in 1..Len(queue'), NEW j \in 1..Len(queue'), queue'[i].what = "state",
               queue'[j].what = "state", queue'[i].r = queue'[j].r
        PROVE  i = j
    <3>1. \A k \in 1..(N - 1) : queue'[k].what = "state" => queue'[k].r # t.r
      BY <1>2, <1>4, <1>7
    <3>2. CASE i \in 1..(N - 1) /\ j \in 1..(N - 1)
      <4>1. /\ i + 1 \in 1..N /\ queue'[i] = queue[i + 1]
            /\ j + 1 \in 1..N /\ queue'[j] = queue[j + 1]
        BY <1>2, <1>4, <3>2
      <4>2. i + 1 = j + 1
        BY <1>1, <2>2, <4>1 DEF QueueOK, N
      <4>3. QED
        BY <1>4, <4>2
    <3>3. CASE i = N /\ j \in 1..(N - 1)
      BY <1>3, <1>4, <2>2, <3>1, <3>3
    <3>4. CASE j = N /\ i \in 1..(N - 1)
      BY <1>3, <1>4, <2>2, <3>1, <3>4
    <3>5. QED
      BY <1>4, <1>6, <3>2, <3>3, <3>4
  <2>3. ASSUME NEW q \in Requests, request'[q].phase = "posted"
        PROVE  \E i \in 1..Len(queue') : queue'[i].what = "state" /\ queue'[i].r = q
    <3>1. CASE q = t.r
      BY <1>3, <1>4, <1>6, <3>1
    <3>2. CASE q # t.r
      <4>1. PICK i \in 1..N : queue[i].what = "state" /\ queue[i].r = q
        BY <1>1, <1>5, <2>3, <3>2 DEF QueueOK, N
      <4>2. i # 1
        BY <1>2, <3>2, <4>1
      <4>3. i - 1 \in 1..(N - 1) /\ i - 1 \in 1..N /\ (i - 1) + 1 = i
        BY <1>2, <4>2
      <4>4. queue'[i - 1] = queue[i]
        BY <1>4, <4>3
      <4>5. QED
        BY <1>4, <4>1, <4>3, <4>4
    <3>3. QED
      BY <3>1, <3>2
  <2>4. QED
    BY <2>1, <2>2, <2>3 DEF QueueOK
<1>10. /\ \A q \in Requests : request'[q].pos = request[q].pos
       /\ \A q \in Requests : Held(q)' => Held(q)
       /\ \A q \in Requests : Attached(q)' <=> Attached(q)
  <2>1. request[t.r].pos = t.e
    OBVIOUS
  <2>2. QED
    BY <1>3, <1>5, <2>1 DEF Held, Attached
<1>11. Lists'
  <2>1. ListTypes'
    BY <1>1, <1>5, <1>10 DEF Lists, ListTypes
  <2>2. OrderOK'
    BY <1>1 DEF Lists, OrderOK, Before
  <2>3. \A e \in Entries : \A i \in 1..Len(pending_requests_[e]) : pending_requests_[e][i] \in Requests
    BY <1>1 DEF Lists, ListTypes
  <2>4. \A i \in 1..Len(providers_) : providers_[i] \in Entries
    BY <1>1 DEF Lists, ListTypes
  <2>5. ListOK' /\ PlaceOK'
    BY SMTT(30), <1>1, <1>10, <2>3 DEF Lists, ListOK, PlaceOK
  <2>6. RemovedOK'
    BY <1>1, <1>10, <2>3, <2>4 DEF Lists, RemovedOK
  <2>7. QED
    BY <2>1, <2>2, <2>5, <2>6 DEF Lists
<1>12. TypeOK'
  <2>1. OtherTypes
    BY <1>1, TypeParts
  <2>2. OtherTypes'
    BY Zenon, <1>4, <2>1 DEF OtherTypes
  <2>3. QED
    BY <1>11, <2>2, TypePartsThen DEF Lists
<1>13. HandlerOK' /\ SendingOK'
  BY <1>1, <1>5 DEF HandlerOK, SendingOK
<1>14. CancelOK'
  <2>1. ASSUME NEW r \in Requests, NEW e \in Entries, <<r, e>> \in canceled,
               NEW i \in 1..Len(queue'), queue'[i].what = "state", queue'[i].r = r, queue'[i].e = e
        PROVE  queue'[i].answer \in {"next", "stop"}
    <3>1. request[r].pos = e => ~Held(r)
      BY <1>1, <2>1 DEF CancelOK
    <3>2. i # N
      BY <1>3, <1>4, <2>1, <3>1
    <3>3. i + 1 \in 1..N /\ queue'[i] = queue[i + 1]
      BY <1>2, <1>4, <1>6, <3>2
    <3>4. \A j \in 1..Len(queue) : queue[j].what = "state" /\ queue[j].r = r /\ queue[j].e = e =>
                                      queue[j].answer \in {"next", "stop"}
      BY <1>1, <2>1 DEF CancelOK
    <3>5. QED
      BY <2>1, <3>3, <3>4 DEF N
  <2>2. QED
    BY <1>1, <1>10, <2>1 DEF CancelOK
<1>15. QED
  BY <1>9, <1>11, <1>12, <1>13, <1>14 DEF IInv, Lists

-----------------------------------------------------------------------------
(* Steps of a request through the list.                                    *)

\* A request that leaves its entry is done, or at an entry in the list that
\* was not removed; no task comes to the queue.
LEMMA LeaveStep ==
    ASSUME IInv, NEW r \in Requests, Lists', OnlyFewer,
           \A q \in Requests : q # r => request'[q] = request[q],
           \/ request'[r].pos = NoEntry
           \/ \E j \in 1..Len(providers_) : /\ request'[r].pos = providers_[j]
                                            /\ ~entry[providers_[j]].deletion_pending_,
           UNCHANGED <<canceled, added, alive, hung>>,
           queue' \in Seq(Tasks), QueueOK',
           \A i \in 1..Len(queue') : \E j \in 1..Len(queue) : queue'[i] = queue[j],
           sending' \in Requests \cup {NoRequest}, SendingOK',
           pending_handlers_' \in [Requests -> Entries \cup {NoEntry}], HandlerOK',
           \A q \in Requests, e \in Entries : <<q, e>> \in canceled => pending_handlers_'[q] # e
    PROVE  IInv'
<1>1. TypeOK /\ CancelOK
  BY DEF IInv
<1>2. TypeOK'
  <2>1. OtherTypes
    BY <1>1, TypeParts
  <2>2. OtherTypes'
    BY Zenon, <2>1 DEF OtherTypes
  <2>3. QED
    BY <2>2, TypePartsThen DEF Lists
<1>3. CancelOK'
  <2>1. SUFFICES ASSUME NEW q \in Requests, NEW e \in Entries, <<q, e>> \in canceled
                 PROVE  /\ e <= added /\ pending_handlers_'[q] # e
                        /\ \A k \in 1..Len(providers_') : providers_'[k] = e => entry'[e].deletion_pending_
                        /\ request'[q].pos = e => request'[q].phase # "held"
                        /\ \A i \in 1..Len(queue') :
                              queue'[i].what = "state" /\ queue'[i].r = q /\ queue'[i].e = e =>
                                  queue'[i].answer \in {"next", "stop"}
    BY DEF CancelOK, Held
  <2>2. /\ e <= added
        /\ \A k \in 1..Len(providers_) : providers_[k] = e => entry[e].deletion_pending_
        /\ request[q].pos = e => request[q].phase # "held"
        /\ \A i \in 1..Len(queue) :
              queue[i].what = "state" /\ queue[i].r = q /\ queue[i].e = e =>
                  queue[i].answer \in {"next", "stop"}
    BY <1>1, <2>1 DEF CancelOK, Held
  <2>3. \A k \in 1..Len(providers_') : providers_'[k] = e => entry'[e].deletion_pending_
    BY <2>2 DEF OnlyFewer
  <2>4. request'[q].pos = e => request'[q].phase # "held"
    <3>1. CASE q # r
      BY <2>2, <3>1
    <3>2. CASE q = r
      BY <2>2, <3>2, NoEntryIsNone
    <3>3. QED
      BY <3>1, <3>2
  <2>5. \A i \in 1..Len(queue') :
            queue'[i].what = "state" /\ queue'[i].r = q /\ queue'[i].e = e =>
                queue'[i].answer \in {"next", "stop"}
    BY <2>2
  <2>6. pending_handlers_'[q] # e
    BY <2>1
  <2>7. QED
    BY <2>2, <2>3, <2>4, <2>5, <2>6
<1>4. QED
  BY <1>2, <1>3 DEF IInv, Lists

\* IncrementProvider, with what its callers do to the queue.
LEMMA IncrementStep ==
    ASSUME IInv, alive, NEW r \in Requests, request[r].pos # NoEntry, IncrementProvider(r),
           UNCHANGED <<pending_handlers_, canceled, added, alive, hung>>,
           queue' \in Seq(Tasks),
           \A i \in 1..Len(queue') : \E j \in 1..Len(queue) : queue'[i] = queue[j],
           (/\ request'[r].phase # "posted"
            /\ \A q \in Requests : q # r => request'[q] = request[q]) => QueueOK'
    PROVE  IInv'
<1>1. TypeOK /\ Lists /\ HandlerOK /\ CancelOK
  BY TypeParts DEF IInv, Lists
<1>2. Lists' /\ OnlyFewer /\ (Ends(r) \/ \E j \in 1..Len(providers_) : Moves(r, j))
  BY <1>1, IncrementEffect
<1>3. pending_handlers_[r] = NoEntry
  BY <1>1 DEF HandlerOK, Lists, ListTypes, Attached
<1>4. /\ pending_handlers_' \in [Requests -> Entries \cup {NoEntry}]
      /\ \A q \in Requests, e \in Entries : <<q, e>> \in canceled => pending_handlers_'[q] # e
  BY <1>1 DEF TypeOK, CancelOK
<1>5. CASE Ends(r)
  <2>1. /\ request'[r].phase = "done" /\ request'[r].pos = NoEntry
        /\ \A q \in Requests : q # r => request'[q] = request[q]
    BY <1>1, <1>5 DEF Ends, Lists, ListTypes
  <2>2. SendingOK' /\ sending' \in Requests \cup {NoRequest}
    BY <1>5 DEF Ends, SendingOK
  <2>3. HandlerOK'
    BY <1>1, <2>1 DEF HandlerOK
  <2>4. QueueOK'
    BY <2>1
  <2>5. QED
    BY <1>2, <1>4, <2>1, <2>2, <2>3, <2>4, LeaveStep
<1>6. ASSUME NEW j \in 1..Len(providers_), Moves(r, j) PROVE IInv'
  <2>1. /\ request'[r].phase = "held" /\ request'[r].pos = providers_[j]
        /\ ~entry[providers_[j]].deletion_pending_
        /\ \A q \in Requests : q # r => request'[q] = request[q]
    BY <1>1, <1>6 DEF Moves, Lists, ListTypes
  <2>2. providers_[j] # NoEntry
    BY <1>1, NoEntryIsNone DEF Lists, ListTypes
  <2>3. sending' = r
    BY <1>6 DEF Moves
  <2>4. SendingOK' /\ sending' \in Requests \cup {NoRequest}
    BY <2>1, <2>2, <2>3 DEF SendingOK, Held
  <2>5. HandlerOK'
    BY <1>1, <1>3, <2>1 DEF HandlerOK
  <2>6. QueueOK'
    BY <2>1
  <2>7. QED
    BY <1>2, <1>4, <2>1, <2>4, <2>5, <2>6, LeaveStep
<1>7. QED
  BY <1>2, <1>5, <1>6

LEMMA DeclinesStep ==
    ASSUME IInv, OnRequestDeclines
    PROVE  IInv'
<1>1. /\ sending # NoRequest
      /\ UNCHANGED <<queue, pending_handlers_, canceled, added, alive, hung>>
  BY DEF OnRequestDeclines
<1>2. TypeOK /\ SendingOK /\ QueueOK
  BY DEF IInv
<1>3. sending \in Requests /\ alive /\ request[sending].pos # NoEntry
  BY <1>1, <1>2 DEF TypeOK, SendingOK
<1>4. CASE Held(sending) /\ IncrementProvider(sending)
  <2> DEFINE r == sending
  <2>1. (/\ request'[r].phase # "posted"
         /\ \A q \in Requests : q # r => request'[q] = request[q]) => QueueOK'
    BY <1>1, <1>2, <1>3, <1>4, QueueKept DEF Held
  <2>2. queue' \in Seq(Tasks)
    BY <1>1, <1>2 DEF TypeOK
  <2>3. \A i \in 1..Len(queue') : \E j \in 1..Len(queue) : queue'[i] = queue[j]
    BY <1>1
  <2>4. QED
    BY <1>1, <1>3, <1>4, <2>1, <2>2, <2>3, IncrementStep
<1>5. CASE /\ sending' = NoRequest
           /\ UNCHANGED <<providers_, entry, pending_requests_, request>>
  <2> DEFINE rs == <<>>
  <2>1. rs \in Seq(Requests) /\ Posted(rs, "next") /\ \A k \in 1..Len(rs) : FALSE
    BY <1>1, <1>2, <1>5, PostNothing
  <2> HIDE DEF rs
  <2>2. entry' \in [Entries -> EntryFields] /\ sending' \in Requests \cup {NoRequest} /\ SendingOK'
    BY <1>2, <1>5, TypeParts DEF ListTypes, SendingOK
  <2>3. QED
    BY <1>1, <1>5, <2>1, <2>2, PostStep
<1>6. QED
  BY <1>4, <1>5 DEF OnRequestDeclines

\* Without a provider the request is done, else it is with the first.
LEMMA LoadStep ==
    ASSUME IInv, NEW r \in Requests, OnBeforeResourceLoad(r)
    PROVE  IInv'
<1> DEFINE n == GetNextValidProvider(1)
<1>1. TypeOK /\ Lists /\ HandlerOK /\ CancelOK /\ QueueOK /\ SendingOK
  BY TypeParts DEF IInv, Lists
<1>2. /\ alive /\ sending = NoRequest /\ request[r].phase = "new"
      /\ UNCHANGED <<providers_, entry, queue, pending_handlers_, canceled, added, alive, hung>>
  BY DEF OnBeforeResourceLoad, IOThreadIdle
<1>3. request[r].pos = NoEntry /\ pending_handlers_[r] = NoEntry
  BY <1>1, <1>2 DEF Lists, ListTypes, Attached, HandlerOK
<1>4. OnlyFewer
  BY <1>2 DEF OnlyFewer
<1>5. /\ queue' \in Seq(Tasks)
      /\ \A i \in 1..Len(queue') : \E j \in 1..Len(queue) : queue'[i] = queue[j]
      /\ pending_handlers_' \in [Requests -> Entries \cup {NoEntry}]
      /\ \A q \in Requests, e \in Entries : <<q, e>> \in canceled => pending_handlers_'[q] # e
  BY <1>1, <1>2 DEF TypeOK, CancelOK
<1>6. Without(r, pending_requests_)
  <2>1. \A e \in Entries : \A i \in 1..Len(pending_requests_[e]) : pending_requests_[e][i] # r
    BY <1>1, <1>3, NoEntryIsNone DEF Lists, ListOK
  <2>2. OrderOK'
    BY <1>1, <1>2 DEF Lists, OrderOK, Before
  <2>3. \A q \in Requests : request[q].pos # NoEntry =>
          /\ \E i \in 1..Len(pending_requests_[request[q].pos]) :
                pending_requests_[request[q].pos][i] = q
          /\ \E k \in 1..Len(providers_') : providers_'[k] = request[q].pos
    BY <1>1, <1>2 DEF Lists, PlaceOK
  <2>4. \A k \in 1..Len(providers_') : entry'[providers_'[k]].deletion_pending_ =>
          /\ pending_requests_[providers_'[k]] # <<>>
          /\ \A i \in 1..Len(pending_requests_[providers_'[k]]) :
                request[pending_requests_[providers_'[k]][i]].phase # "held"
    BY <1>1, <1>2 DEF Lists, RemovedOK, Held
  <2>5. /\ providers_' \in Seq(Entries) /\ entry' \in [Entries -> EntryFields]
        /\ pending_requests_ \in [Entries -> Seq(Requests)]
    BY <1>1, <1>2 DEF Lists, ListTypes
  <2>6. \A f \in Entries :
          /\ \A i \in 1..Len(pending_requests_[f]) : request[pending_requests_[f][i]].pos = f
          /\ \A i, j \in 1..Len(pending_requests_[f]) :
                pending_requests_[f][i] = pending_requests_[f][j] => i = j
    BY <1>1 DEF Lists, ListOK
  <2>7. QED
    BY <2>1, <2>2, <2>3, <2>4, <2>5, <2>6 DEF Without
<1>7. CASE /\ request' = [request EXCEPT ![r].phase = "done"]
           /\ UNCHANGED <<pending_requests_, sending>>
  <2>1. /\ request'[r].phase = "done" /\ request'[r].pos = NoEntry
        /\ \A q \in Requests : q # r => request'[q] = request[q]
        /\ request' = [request EXCEPT ![r] = [phase |-> "done", pos |-> NoEntry]]
    <3>1. request \in [Requests -> States]
      BY <1>1 DEF Lists, ListTypes
    <3>2. request[r] \in States
      BY <3>1
    <3>3. [request[r] EXCEPT !.phase = "done"] = [phase |-> "done", pos |-> NoEntry]
      BY <1>3, <3>2 DEF States
    <3>4. request' = [request EXCEPT ![r] = [phase |-> "done", pos |-> NoEntry]]
      BY <1>7, <3>1, <3>3
    <3>5. QED
      BY <3>1, <3>4
  <2>2. Lists'
    BY <1>1, <1>2, <1>6, <1>7, <2>1, StopLists
  <2>3. QueueOK'
    BY <1>1, <1>2, <2>1, QueueKept
  <2>4. HandlerOK' /\ SendingOK' /\ sending' \in Requests \cup {NoRequest}
    BY <1>1, <1>2, <1>7, <2>1 DEF HandlerOK, SendingOK
  <2>5. QED
    BY <1>2, <1>4, <1>5, <2>1, <2>2, <2>3, <2>4, LeaveStep
<1>8. CASE n # NoEntry /\ MakeRequest(r, n, pending_requests_)
  <2> HIDE DEF n
  <2>1. PICK j \in 1..Len(providers_) : n = providers_[j] /\ ~entry[providers_[j]].deletion_pending_
    <3>1. 1 \in Nat \ {0}
      OBVIOUS
    <3>2. QED
      BY <1>1, <1>8, <3>1, NextValid DEF n
  <2>2. n \in Entries /\ n # NoEntry
    BY <1>1, <2>1, NoEntryIsNone DEF Lists, ListTypes
  <2>3. Lists'
    BY <1>1, <1>2, <1>6, <1>8, <2>1, <2>2, MakeLists
  <2>4. /\ request'[r].phase = "held" /\ request'[r].pos = n /\ sending' = r
        /\ \A q \in Requests : q # r => request'[q] = request[q]
    BY <1>1, <1>8 DEF MakeRequest, Lists, ListTypes
  <2>5. QueueOK'
    BY <1>1, <1>2, <2>4, QueueKept
  <2>6. HandlerOK'
    BY <1>1, <1>2, <1>3, <2>4 DEF HandlerOK
  <2>7. SendingOK' /\ sending' \in Requests \cup {NoRequest}
    BY <1>2, <2>2, <2>4 DEF SendingOK, Held
  <2>8. QED
    BY <1>2, <1>4, <1>5, <2>1, <2>3, <2>4, <2>5, <2>6, <2>7, LeaveStep
<1>9. QED
  BY <1>7, <1>8 DEF OnBeforeResourceLoad

\* A task that finds the manager gone ends its request.
LEMMA OrphanLists ==
    ASSUME TypeOK, Lists, ~alive, NEW r \in Requests,
           request' = [request EXCEPT ![r] = [phase |-> "done", pos |-> NoEntry]],
           UNCHANGED <<providers_, entry, pending_requests_, alive, added>>
    PROVE  Lists' /\ OnlyFewer
<1>1. /\ request' \in [Requests -> States]
      /\ request'[r].phase = "done" /\ request'[r].pos = NoEntry
      /\ \A q \in Requests : q # r => request'[q] = request[q]
  BY DEF Lists, ListTypes, States, Phases
<1>2. /\ \A q \in Requests : ~Held(q) /\ ~Held(q)'
      /\ \A e \in Entries : pending_requests_[e] = <<>>
  BY <1>1 DEF Lists, PlaceOK, Held
<1>3. ListTypes'
  <2>1. \A q \in Requests : Attached(q)' <=> request'[q].pos # NoEntry
    BY <1>1 DEF Lists, ListTypes, Attached
  <2>2. QED
    BY <1>1, <2>1 DEF Lists, ListTypes
<1>4. OrderOK'
  BY DEF Lists, OrderOK, Before
<1>5. ListOK' /\ PlaceOK'
  BY <1>2 DEF ListOK, PlaceOK
<1>6. RemovedOK'
  BY <1>2 DEF Lists, ListTypes, RemovedOK
<1>7. OnlyFewer
  BY DEF OnlyFewer
<1>8. QED
  BY <1>3, <1>4, <1>5, <1>6, <1>7 DEF Lists

LEMMA RunStateTask ==
    ASSUME IInv, queue # <<>>, sending = NoRequest, NEW t, t = Head(queue), t.what = "state",
           ContinueOnIOThread(t), queue' = Tail(queue), UNCHANGED <<canceled, added, alive, hung>>
    PROVE  IInv'
<1> DEFINE r == t.r
<1>1. TypeOK /\ Lists /\ HandlerOK /\ CancelOK /\ QueueOK /\ SendingOK
  BY TypeParts DEF IInv, Lists
<1>2. /\ 1 \in 1..Len(queue) /\ t = queue[1] /\ queue' \in Seq(Tasks)
      /\ \A i \in 1..Len(queue') : i + 1 \in 1..Len(queue) /\ queue'[i] = queue[i + 1]
  BY <1>1, TailPlaces
<1>3. r \in Requests /\ t.e \in Entries
  BY <1>1, <1>2, TaskFields
<1>4. request[r].phase = "posted" /\ request[r].pos = t.e /\ request[r].pos # NoEntry
  BY <1>1, <1>2, <1>3, NoEntryIsNone DEF QueueOK
<1>5. \A i \in 1..Len(queue') : \E j \in 1..Len(queue) : queue'[i] = queue[j]
  BY <1>2
<1>6. (/\ request'[r].phase # "posted"
       /\ \A q \in Requests : q # r => request'[q] = request[q]) => QueueOK'
  BY <1>1, StateTaken
<1>7. /\ pending_handlers_ \in [Requests -> Entries \cup {NoEntry}]
      /\ \A q \in Requests, e \in Entries : <<q, e>> \in canceled => pending_handlers_[q] # e
  BY <1>1 DEF TypeOK, CancelOK
<1> HIDE DEF r
<1>8. CASE alive /\ IncrementProvider(r) /\ UNCHANGED pending_handlers_
  BY <1>2, <1>3, <1>4, <1>5, <1>6, <1>8, IncrementStep
<1>9. ASSUME Lists', OnlyFewer, sending' = NoRequest,
             request' = [request EXCEPT ![r] = [phase |-> "done", pos |-> NoEntry]],
             pending_handlers_' \in [Requests -> Entries \cup {NoEntry}],
             \A q \in Requests : q # r => pending_handlers_'[q] = pending_handlers_[q],
             \A e \in Entries : <<r, e>> \in canceled => pending_handlers_'[r] # e
      PROVE  IInv'
  <2>1. /\ request'[r].phase = "done" /\ request'[r].pos = NoEntry
        /\ \A q \in Requests : q # r => request'[q] = request[q]
    BY <1>1, <1>3, <1>9 DEF Lists, ListTypes
  <2>2. QueueOK'
    BY <1>6, <2>1
  <2>3. SendingOK' /\ sending' \in Requests \cup {NoRequest}
    BY <1>9 DEF SendingOK
  <2>4. HandlerOK'
    BY <1>1, <1>9, <2>1 DEF HandlerOK
  <2>5. \A q \in Requests, e \in Entries : <<q, e>> \in canceled => pending_handlers_'[q] # e
    BY <1>7, <1>9
  <2>6. QED
    BY <1>2, <1>3, <1>5, <1>9, <2>1, <2>2, <2>3, <2>4, <2>5, LeaveStep
<1>10. CASE alive /\ StopRequest(r) /\ UNCHANGED <<sending, pending_handlers_>>
  <2>1. Lists' /\ OnlyFewer
    BY <1>1, <1>3, <1>4, <1>10, StopEffect
  <2>2. request' = [request EXCEPT ![r] = [phase |-> "done", pos |-> NoEntry]]
    BY <1>10 DEF StopRequest
  <2>3. QED
    BY <1>3, <1>7, <1>9, <1>10, <2>1, <2>2
<1>11. CASE /\ alive /\ t.answer = "handler" /\ StopRequest(r) /\ UNCHANGED sending
            /\ pending_handlers_' = [pending_handlers_ EXCEPT
                    ![r] = IF @ = NoEntry THEN request[r].pos ELSE @]
  <2>1. Lists' /\ OnlyFewer
    BY <1>1, <1>3, <1>4, <1>11, StopEffect
  <2>2. request' = [request EXCEPT ![r] = [phase |-> "done", pos |-> NoEntry]]
    BY <1>11 DEF StopRequest
  <2>3. pending_handlers_[r] = NoEntry
    BY <1>1, <1>3, <1>4 DEF HandlerOK
  <2>4. /\ pending_handlers_' \in [Requests -> Entries \cup {NoEntry}]
        /\ pending_handlers_'[r] = t.e
        /\ \A q \in Requests : q # r => pending_handlers_'[q] = pending_handlers_[q]
    BY <1>3, <1>4, <1>7, <1>11, <2>3
  <2>5. <<r, t.e>> \notin canceled
    <3>1. SUFFICES ASSUME <<r, t.e>> \in canceled PROVE FALSE
      OBVIOUS
    <3>2. \A i \in 1..Len(queue) : queue[i].what = "state" /\ queue[i].r = r /\ queue[i].e = t.e =>
                                      queue[i].answer \in {"next", "stop"}
      BY <1>1, <1>3, <3>1 DEF CancelOK
    <3>3. t.answer \in {"next", "stop"}
      BY <1>2, <3>2 DEF r
    <3>4. QED
      BY <1>11, <3>3
  <2>6. \A e \in Entries : <<r, e>> \in canceled => pending_handlers_'[r] # e
    BY <2>4, <2>5
  <2>7. QED
    BY <1>9, <1>11, <2>1, <2>2, <2>4, <2>6
<1>12. CASE /\ ~alive
            /\ request' = [request EXCEPT ![r] = [phase |-> "done", pos |-> NoEntry]]
            /\ UNCHANGED <<providers_, entry, pending_requests_, sending, pending_handlers_>>
  <2>1. Lists' /\ OnlyFewer
    BY <1>1, <1>3, <1>12, OrphanLists
  <2>2. QED
    BY <1>3, <1>7, <1>9, <1>12, <2>1
<1>13. QED
  BY <1>8, <1>10, <1>11, <1>12 DEF ContinueOnIOThread, ContinueRequest, r

\* A step that only takes or adds calls, or serves a request that is done.
LEMMA QuietStep ==
    ASSUME IInv, UNCHANGED <<providers_, entry, pending_requests_, sending, canceled, added, alive, hung>>,
           request' \in [Requests -> States],
           \A r \in Requests : /\ request'[r].pos = request[r].pos
                               /\ Held(r)' <=> Held(r)
                               /\ Attached(r)' <=> Attached(r),
           queue' \in Seq(Tasks), QueueOK',
           \A i \in 1..Len(queue') : queue'[i].what = "state" =>
              \E j \in 1..Len(queue) : queue'[i] = queue[j],
           pending_handlers_' \in [Requests -> Entries \cup {NoEntry}], HandlerOK',
           \A r \in Requests : pending_handlers_'[r] \in {NoEntry, pending_handlers_[r]}
    PROVE  IInv'
<1>1. TypeOK /\ Lists /\ CancelOK /\ SendingOK
  BY TypeParts DEF IInv, Lists
<1>2. Lists'
  <2>1. ListTypes'
    BY <1>1 DEF Lists, ListTypes
  <2>2. OrderOK'
    BY <1>1 DEF Lists, OrderOK, Before
  <2>3. \A e \in Entries : \A i \in 1..Len(pending_requests_[e]) : pending_requests_[e][i] \in Requests
    BY <1>1 DEF Lists, ListTypes
  <2>4. \A i \in 1..Len(providers_) : providers_[i] \in Entries
    BY <1>1 DEF Lists, ListTypes
  <2>5. ListOK' /\ PlaceOK'
    BY SMTT(30), <1>1, <2>3 DEF Lists, ListOK, PlaceOK
  <2>6. RemovedOK'
    BY <1>1, <2>3, <2>4 DEF Lists, RemovedOK
  <2>7. QED
    BY <2>1, <2>2, <2>5, <2>6 DEF Lists
<1>3. TypeOK'
  <2>1. OtherTypes
    BY <1>1, TypeParts
  <2>2. OtherTypes'
    BY Zenon, <2>1 DEF OtherTypes
  <2>3. QED
    BY <1>2, <2>2, TypePartsThen DEF Lists
<1>4. SendingOK'
  <2>1. sending # NoRequest => sending \in Requests
    BY <1>1 DEF TypeOK
  <2>2. QED
    BY <1>1, <2>1 DEF SendingOK
<1>5. CancelOK'
  <2>1. ASSUME NEW r \in Requests, NEW e \in Entries, <<r, e>> \in canceled
        PROVE  /\ pending_handlers_'[r] # e
               /\ \A i \in 1..Len(queue') :
                     queue'[i].what = "state" /\ queue'[i].r = r /\ queue'[i].e = e =>
                         queue'[i].answer \in {"next", "stop"}
    <3>1. pending_handlers_[r] # e /\ NoEntry # e
      BY <1>1, <2>1, NoEntryIsNone DEF CancelOK
    <3>2. \A i \in 1..Len(queue) : queue[i].what = "state" /\ queue[i].r = r /\ queue[i].e = e =>
                                      queue[i].answer \in {"next", "stop"}
      BY <1>1, <2>1 DEF CancelOK
    <3>3. QED
      BY <3>1, <3>2
  <2>2. QED
    BY <1>1, <2>1 DEF CancelOK
<1>6. QED
  BY <1>2, <1>3, <1>4, <1>5 DEF IInv, Lists

LEMMA OtherThreadStep ==
    ASSUME IInv, NEW r \in Requests, NEW a \in Answers, AnswerOnOtherThread(r, a)
    PROVE  IInv'
<1> DEFINE u == CallTask(r, a)
<1>1. TypeOK /\ QueueOK /\ HandlerOK /\ queue \in Seq(Tasks) /\ Len(queue) \in Nat
  BY DEF IInv, TypeOK
<1>2. /\ Held(r) /\ queue' = Append(queue, u)
      /\ UNCHANGED <<providers_, entry, pending_requests_, request, sending,
                     pending_handlers_, canceled, added, alive, hung>>
  BY DEF AnswerOnOtherThread
<1>3. request[r].pos \in Entries
  BY <1>1, <1>2 DEF TypeOK, Held, Attached
<1>4. u \in Tasks /\ u.what = "call"
  BY <1>3 DEF CallTask, Tasks
<1> HIDE DEF u
<1>5. /\ queue' \in Seq(Tasks) /\ Len(queue') = Len(queue) + 1
      /\ \A i \in 1..Len(queue) : queue'[i] = queue[i]
      /\ queue'[Len(queue) + 1] = u
  BY <1>1, <1>2, <1>4
<1>6. \A i \in 1..Len(queue') : queue'[i].what = "state" =>
         i \in 1..Len(queue) /\ queue'[i] = queue[i]
  <2>1. TAKE i \in 1..Len(queue')
  <2>2. i \in 1..Len(queue) \/ i = Len(queue) + 1
    BY <1>1, <1>5
  <2>3. QED
    BY <1>4, <1>5, <2>2
<1>7. \A i \in 1..Len(queue) : i \in 1..Len(queue') /\ queue'[i] = queue[i]
  BY <1>1, <1>5
<1>8. QueueOK'
  <2>1. \A i \in 1..Len(queue') : queue'[i].what = "state" =>
          request[queue'[i].r].phase = "posted" /\ queue'[i].e = request[queue'[i].r].pos
    BY <1>1, <1>6 DEF QueueOK
  <2>2. \A i, j \in 1..Len(queue') :
          queue'[i].what = "state" /\ queue'[j].what = "state" /\ queue'[i].r = queue'[j].r => i = j
    BY <1>1, <1>6 DEF QueueOK
  <2>3. \A q \in Requests : request[q].phase = "posted" =>
          \E i \in 1..Len(queue') : queue'[i].what = "state" /\ queue'[i].r = q
    BY <1>1, <1>7 DEF QueueOK
  <2>4. QED
    BY <1>2, <2>1, <2>2, <2>3 DEF QueueOK
<1>9. /\ request' \in [Requests -> States] /\ HandlerOK'
      /\ pending_handlers_' \in [Requests -> Entries \cup {NoEntry}]
  BY <1>1, <1>2 DEF TypeOK, States, HandlerOK
<1>10. \A i \in 1..Len(queue') : queue'[i].what = "state" =>
          \E j \in 1..Len(queue) : queue'[i] = queue[j]
  BY <1>6
<1>11. \A q \in Requests : /\ request'[q].pos = request[q].pos
                           /\ Held(q)' <=> Held(q)
                           /\ Attached(q)' <=> Attached(q)
  BY <1>2 DEF Held, Attached
<1>12. QED
  BY <1>2, <1>5, <1>8, <1>9, <1>10, <1>11, QuietStep

LEMMA GetHandlerStep ==
    ASSUME IInv, NEW r \in Requests, GetResourceHandler(r)
    PROVE  IInv'
<1>1. TypeOK /\ QueueOK /\ HandlerOK /\ queue \in Seq(Tasks)
  BY DEF IInv, TypeOK
<1>2. /\ request[r].phase = "done" /\ request' = [request EXCEPT ![r].phase = "served"]
      /\ pending_handlers_' = [pending_handlers_ EXCEPT ![r] = NoEntry]
      /\ UNCHANGED <<providers_, entry, pending_requests_, sending, queue, canceled,
                     added, alive, hung>>
  BY DEF GetResourceHandler
<1>3. request \in [Requests -> States]
  BY <1>1 DEF TypeOK, States
<1>4. /\ request' \in [Requests -> States]
      /\ request'[r].phase = "served" /\ request'[r].pos = request[r].pos
      /\ \A q \in Requests : q # r => request'[q] = request[q]
  BY <1>2, <1>3 DEF States, Phases
<1>5. QueueOK'
  BY <1>1, <1>2, <1>4, QueueKept
<1>6. /\ pending_handlers_' \in [Requests -> Entries \cup {NoEntry}]
      /\ pending_handlers_'[r] = NoEntry
      /\ \A q \in Requests : q # r => pending_handlers_'[q] = pending_handlers_[q]
  BY <1>1, <1>2 DEF TypeOK
<1>7. HandlerOK'
  BY <1>1, <1>4, <1>6 DEF HandlerOK
<1>8. \A q \in Requests : /\ request'[q].pos = request[q].pos
                          /\ Held(q)' <=> Held(q)
                          /\ Attached(q)' <=> Attached(q)
  BY <1>2, <1>4 DEF Held, Attached
<1>9. \A q \in Requests : pending_handlers_'[q] \in {NoEntry, pending_handlers_[q]}
  BY <1>6
<1>10. QED
  BY <1>1, <1>2, <1>4, <1>5, <1>6, <1>7, <1>8, <1>9, QuietStep

LEMMA RunTaskStep ==
    ASSUME IInv, RunTask
    PROVE  IInv'
<1> DEFINE t == Head(queue)
<1>1. TypeOK /\ QueueOK /\ HandlerOK
  BY DEF IInv
<1>2. sending = NoRequest /\ queue # <<>> /\ UNCHANGED <<canceled, added, alive, hung>>
  BY DEF RunTask, IOThreadIdle
<1>3. CASE t.what = "state" /\ ContinueOnIOThread(t) /\ queue' = Tail(queue)
  BY <1>2, <1>3, RunStateTask
<1>4. CASE /\ t.what = "call" /\ Held(t.r) /\ request[t.r].pos = t.e
           /\ request' = [request EXCEPT ![t.r].phase = "posted"]
           /\ queue' = Append(Tail(queue), [t EXCEPT !.what = "state"])
           /\ UNCHANGED <<providers_, entry, pending_requests_, sending, pending_handlers_>>
  <2> HIDE DEF t
  <2>1. t = Head(queue)
    BY DEF t
  <2>2. QED
    BY <1>2, <1>4, <2>1, CallTaken
<1>5. CASE /\ t.what = "call" /\ queue' = Tail(queue)
           /\ UNCHANGED <<providers_, entry, pending_requests_, sending, pending_handlers_, request>>
  <2>1. QueueOK'
    BY <1>1, <1>2, <1>5, CallDropped
  <2>2. queue' \in Seq(Tasks) /\ \A i \in 1..Len(queue') : \E j \in 1..Len(queue) : queue'[i] = queue[j]
    BY <1>1, <1>2, <1>5, TailPlaces
  <2>3. /\ request' \in [Requests -> States] /\ HandlerOK'
        /\ pending_handlers_' \in [Requests -> Entries \cup {NoEntry}]
    BY <1>1, <1>5 DEF TypeOK, States, HandlerOK
  <2>4. \A q \in Requests : /\ request'[q].pos = request[q].pos
                            /\ Held(q)' <=> Held(q)
                            /\ Attached(q)' <=> Attached(q)
    BY <1>5 DEF Held, Attached
  <2>5. \A q \in Requests : pending_handlers_'[q] \in {NoEntry, pending_handlers_[q]}
    BY <1>5
  <2>6. QED
    BY <1>2, <1>5, <2>1, <2>2, <2>3, <2>4, <2>5, QuietStep
<1>6. QED
  BY <1>3, <1>4, <1>5 DEF RunTask

-----------------------------------------------------------------------------
(* Steps that change the list of providers.                                *)

\* AddProvider inserts behind the entries whose order is not higher.
LEMMA InsertPositionSplits ==
    ASSUME TypeOK, OrderOK, NEW s \in Shapes
    PROVE  /\ InsertPosition(s.order) \in 1..(Len(providers_) + 1)
           /\ \A i \in 1..Len(providers_) :
                 IF i < InsertPosition(s.order) THEN entry[providers_[i]].shape.order <= s.order
                                                ELSE s.order < entry[providers_[i]].shape.order
<1> DEFINE order == [i \in 1..Len(providers_) |-> entry[providers_[i]].shape.order]
           o == s.order
           p == InsertPosition(s.order)
           H == {i \in 1..Len(providers_) : order[i] > o}
<1>1. /\ Len(providers_) \in Nat /\ o \in Int
      /\ \A i \in 1..Len(providers_) : providers_[i] \in Entries
  BY ShapesAssumption DEF TypeOK
<1>2. \A i \in 1..Len(providers_) : order[i] \in Int
  BY <1>1, ShapesAssumption DEF TypeOK
<1>3. \A i, j \in 1..Len(providers_) : i < j => order[i] <= order[j]
  <2>1. \A i, j \in 1..Len(providers_) : i < j => order[i] < order[j] \/ order[i] = order[j]
    BY DEF OrderOK, Before
  <2>2. QED
    BY <1>2, <2>1
<1>4. p = IF H = {} THEN Len(providers_) + 1 ELSE Min(H)
  BY DEF InsertPosition
<1>5. H \subseteq Nat /\ H \subseteq 1..Len(providers_)
  BY <1>1
<1>6. SUFFICES /\ p \in 1..(Len(providers_) + 1)
               /\ \A i \in 1..Len(providers_) : IF i < p THEN order[i] <= o ELSE o < order[i]
  OBVIOUS
<1> HIDE DEF p, order, o
<1>7. CASE H = {}
  BY <1>1, <1>2, <1>4, <1>7
<1>8. CASE H # {}
  <2>1. p \in H /\ \A n \in H : p <= n
    BY <1>4, <1>5, <1>8, MinIsLeast
  <2>2. p \in 1..Len(providers_) /\ order[p] > o
    BY <2>1
  <2>3. \A i \in 1..Len(providers_) : i < p => order[i] <= o
    BY <1>1, <1>2, <2>1
  <2>4. \A i \in 1..Len(providers_) : ~(i < p) => o < order[i]
    BY <1>1, <1>2, <1>3, <2>2
  <2>5. QED
    BY <1>1, <2>2, <2>3, <2>4
<1>9. QED
  BY <1>7, <1>8

LEMMA AddStep ==
    ASSUME IInv, NEW s \in Shapes, AddProvider(s)
    PROVE  IInv'
<1> DEFINE e == added + 1
           p == InsertPosition(s.order)
           N == Len(providers_)
<1>1. TypeOK /\ Lists /\ QueueOK /\ HandlerOK /\ CancelOK /\ SendingOK
  BY TypeParts DEF IInv, Lists
<1>2. /\ alive /\ added < MaxEntries /\ added' = e
      /\ entry' = [entry EXCEPT ![e] = [shape |-> s, deletion_pending_ |-> FALSE, load |-> "none"]]
      /\ providers_' = InsertAt(providers_, p, e)
      /\ UNCHANGED <<pending_requests_, request, sending, queue, pending_handlers_,
                     canceled, alive, hung>>
  BY DEF AddProvider
<1>3. added \in Nat /\ e \in Entries
  BY <1>1, <1>2, BoundsAssumption DEF TypeOK, Entries
<1>4. /\ entry' \in [Entries -> EntryFields] /\ entry'[e].shape = s /\ ~entry'[e].deletion_pending_
      /\ \A f \in Entries : f # e => entry'[f] = entry[f]
  BY <1>1, <1>2, <1>3 DEF Lists, ListTypes, EntryFields
<1>5. /\ N \in Nat /\ providers_ \in Seq(Entries)
      /\ \A i \in 1..N : providers_[i] \in Entries /\ providers_[i] <= added
      /\ \A i, j \in 1..N : i < j => Before(providers_[i], providers_[j])
  BY <1>1 DEF TypeOK, Lists, OrderOK
<1>6. \A i \in 1..N : providers_[i] \in Nat /\ providers_[i] < e /\ providers_[i] # e
  <2> HIDE DEF N
  <2>1. \A i \in 1..N : providers_[i] \in Nat
    BY <1>5, NoEntryIsNone
  <2>2. QED
    BY <1>3, <1>5, <2>1
<1>7. /\ p \in 1..(N + 1)
      /\ \A i \in 1..N : IF i < p THEN entry[providers_[i]].shape.order <= s.order
                                  ELSE s.order < entry[providers_[i]].shape.order
  BY <1>1, InsertPositionSplits DEF Lists
<1>8. \A i \in 1..N : entry[providers_[i]].shape.order \in Int /\ s.order \in Int
  BY <1>1, <1>5, ShapesAssumption DEF TypeOK
<1> HIDE DEF p, e
<1>9. /\ providers_' \in Seq(Entries) /\ Len(providers_') = N + 1
      /\ \A j \in 1..(N + 1) :
            providers_'[j] = IF j < p THEN providers_[j] ELSE IF j = p THEN e ELSE providers_[j - 1]
  <2>1. p \in 1..(N + 1) /\ providers_ \in Seq(Entries)
    BY <1>5, <1>7
  <2>2. PICK q, x, n : q = providers_ /\ x = e /\ n = p
    OBVIOUS
  <2>3. q \in Seq(Entries) /\ x \in Entries /\ n \in 1..(Len(q) + 1)
    BY <1>3, <2>1, <2>2
  <2>4. /\ InsertAt(q, n, x) \in Seq(Entries) /\ Len(InsertAt(q, n, x)) = Len(q) + 1
        /\ \A j \in 1..(Len(q) + 1) :
              InsertAt(q, n, x)[j] = IF j < n THEN q[j] ELSE IF j = n THEN x ELSE q[j - 1]
    BY <2>3, InsertPlaces
  <2>5. providers_' = InsertAt(q, n, x)
    BY <1>2, <2>2
  <2>6. QED
    BY <2>2, <2>4, <2>5
<1> HIDE DEF N
\* Where the places of the new list come from.
<1>10. \A j \in 1..(N + 1) :
          \/ j < p /\ j \in 1..N /\ providers_'[j] = providers_[j]
          \/ j = p /\ providers_'[j] = e
          \/ p < j /\ j - 1 \in 1..N /\ ~(j - 1 < p) /\ providers_'[j] = providers_[j - 1]
  BY <1>5, <1>7, <1>9
<1>11. \A i \in 1..N : \E k \in 1..(N + 1) : providers_'[k] = providers_[i]
  <2>1. TAKE i \in 1..N
  <2>2. CASE i < p
    BY <1>5, <1>9, <2>2
  <2>3. CASE ~(i < p)
    <3>1. i + 1 \in 1..(N + 1) /\ ~(i + 1 < p) /\ i + 1 # p /\ (i + 1) - 1 = i
      BY <1>5, <1>7, <2>3
    <3>2. QED
      BY <1>9, <3>1
  <2>4. QED
    BY <2>2, <2>3
<1>12. \A k \in 1..(N + 1) :
          \/ providers_'[k] = e
          \/ \E i \in 1..N : providers_'[k] = providers_[i] /\ entry'[providers_'[k]] = entry[providers_[i]]
  <2>1. \A i \in 1..N : entry'[providers_[i]] = entry[providers_[i]]
    BY <1>4, <1>5, <1>6
  <2>2. TAKE k \in 1..(N + 1)
  <2>3. providers_'[k] = e \/ \E i \in 1..N : providers_'[k] = providers_[i]
    BY <1>10
  <2>4. QED
    BY <2>1, <2>3
<1>13. OrderOK'
  <2>1. \A k \in 1..(N + 1) : providers_'[k] <= added'
    <3>1. e \in Int /\ e <= e
      BY <1>3, NoEntryIsNone
    <3>2. \A i \in 1..N : providers_[i] <= e
      BY <1>6, <3>1
    <3>3. QED
      BY <1>2, <1>12, <3>1, <3>2
  <2>2. \A i, j \in 1..N : i < j => BeforeThen(providers_[i], providers_[j])
    <3>1. \A i \in 1..N : entry'[providers_[i]] = entry[providers_[i]]
      BY <1>4, <1>5, <1>6
    <3>2. QED
      BY <1>5, <3>1 DEF Before, BeforeThen
  <2>3. \A i \in 1..N : i < p => BeforeThen(providers_[i], e)
    <3>1. TAKE i \in 1..N
    <3>2. HAVE i < p
    <3>3. entry'[providers_[i]] = entry[providers_[i]] /\ entry'[e].shape = s /\ providers_[i] < e
      BY <1>4, <1>5, <1>6
    <3>4. entry[providers_[i]].shape.order < s.order \/ entry[providers_[i]].shape.order = s.order
      BY <1>7, <1>8, <3>2
    <3>5. QED
      BY <3>3, <3>4 DEF BeforeThen
  <2>4. \A i \in 1..N : ~(i < p) => BeforeThen(e, providers_[i])
    <3>1. TAKE i \in 1..N
    <3>2. HAVE ~(i < p)
    <3>3. entry'[providers_[i]] = entry[providers_[i]] /\ entry'[e].shape = s
      BY <1>4, <1>5, <1>6
    <3>4. s.order < entry[providers_[i]].shape.order
      BY <1>7, <3>2
    <3>5. QED
      BY <3>3, <3>4 DEF BeforeThen
  <2>5. ASSUME NEW i \in 1..(N + 1), NEW j \in 1..(N + 1), i < j
        PROVE  BeforeThen(providers_'[i], providers_'[j])
    <3>1. p \in Int /\ i \in Int /\ j \in Int
      BY <1>5, <1>7
    <3>2. CASE j < p
      <4>1. i \in 1..N /\ j \in 1..N /\ providers_'[i] = providers_[i] /\ providers_'[j] = providers_[j]
        BY <1>10, <2>5, <3>1, <3>2
      <4>2. QED
        BY <2>2, <2>5, <4>1
    <3>3. CASE i < p /\ j = p
      <4>1. i \in 1..N /\ providers_'[i] = providers_[i] /\ providers_'[j] = e
        BY <1>10, <3>1, <3>3
      <4>2. QED
        BY <2>3, <3>3, <4>1
    <3>4. CASE i < p /\ p < j
      <4>1. /\ i \in 1..N /\ providers_'[i] = providers_[i] /\ i < j - 1
            /\ j - 1 \in 1..N /\ providers_'[j] = providers_[j - 1]
        BY <1>10, <3>1, <3>4
      <4>2. QED
        BY <2>2, <4>1
    <3>5. CASE i = p
      <4>1. /\ providers_'[i] = e /\ j - 1 \in 1..N /\ ~(j - 1 < p)
            /\ providers_'[j] = providers_[j - 1]
        BY <1>10, <2>5, <3>1, <3>5
      <4>2. QED
        BY <2>4, <4>1
    <3>6. CASE p < i
      <4>1. /\ i - 1 \in 1..N /\ providers_'[i] = providers_[i - 1] /\ i - 1 < j - 1
            /\ j - 1 \in 1..N /\ providers_'[j] = providers_[j - 1]
        BY <1>10, <2>5, <3>1, <3>6
      <4>2. QED
        BY <2>2, <4>1
    <3>7. QED
      BY <2>5, <3>1, <3>2, <3>3, <3>4, <3>5, <3>6
  <2>6. QED
    BY <1>9, <2>1, <2>5 DEF OrderOK, Before, BeforeThen
<1>14. Lists'
  <2>1. ListTypes'
    BY <1>1, <1>2, <1>4, <1>9 DEF Lists, ListTypes, Attached
  <2>2. ListOK'
    BY <1>1, <1>2 DEF Lists, ListOK
  <2>3. PlaceOK'
    <3>1. ASSUME NEW r \in Requests, request[r].pos # NoEntry
          PROVE  /\ \E i \in 1..Len(pending_requests_[request[r].pos]) :
                       pending_requests_[request[r].pos][i] = r
                 /\ \E k \in 1..(N + 1) : providers_'[k] = request[r].pos
      <4>1. /\ \E i \in 1..Len(pending_requests_[request[r].pos]) :
                  pending_requests_[request[r].pos][i] = r
            /\ \E k \in 1..N : providers_[k] = request[r].pos
        BY <1>1, <1>2, <3>1 DEF Lists, PlaceOK, N
      <4>2. QED
        BY <1>11, <4>1
    <3>2. QED
      BY <1>2, <1>9, <3>1 DEF PlaceOK
  <2>4. RemovedOK'
    <3>1. ASSUME NEW k \in 1..(N + 1), entry'[providers_'[k]].deletion_pending_
          PROVE  /\ pending_requests_[providers_'[k]] # <<>>
                 /\ \A i \in 1..Len(pending_requests_[providers_'[k]]) :
                       ~Held(pending_requests_[providers_'[k]][i])
      <4>1. PICK i \in 1..N : providers_'[k] = providers_[i] /\ entry'[providers_'[k]] = entry[providers_[i]]
        BY <1>4, <1>12, <3>1
      <4>2. QED
        BY <1>1, <3>1, <4>1 DEF Lists, RemovedOK, N
    <3>2. QED
      BY <1>2, <1>9, <3>1 DEF RemovedOK, Held
  <2>5. QED
    BY <1>13, <2>1, <2>2, <2>3, <2>4 DEF Lists
<1>15. TypeOK'
  <2>1. OtherTypes
    BY <1>1, TypeParts
  <2>2. added' \in 0..MaxEntries
    BY <1>2, <1>3, BoundsAssumption DEF e
  <2>3. OtherTypes'
    BY Zenon, <1>2, <2>1, <2>2 DEF OtherTypes
  <2>4. QED
    BY <1>14, <2>3, TypePartsThen DEF Lists
<1>16. QueueOK' /\ HandlerOK'
  BY <1>1, <1>2 DEF QueueOK, HandlerOK
<1>17. SendingOK'
  <2>1. SUFFICES ASSUME sending # NoRequest
                 PROVE  /\ request[sending].pos # NoEntry
                        /\ entry'[request[sending].pos].shape.kind = "archive" => Held(sending)
    BY <1>2 DEF SendingOK, Held
  <2>2. sending \in Requests /\ request[sending].pos # NoEntry
    BY <1>1, <2>1 DEF TypeOK, SendingOK
  <2>3. PICK k \in 1..N : providers_[k] = request[sending].pos
    BY <1>1, <1>2, <2>2 DEF Lists, PlaceOK, N
  <2>4. entry'[request[sending].pos] = entry[request[sending].pos]
    BY <1>4, <1>5, <1>6, <2>3
  <2>5. QED
    BY <1>1, <2>1, <2>2, <2>4 DEF SendingOK
<1>18. CancelOK'
  <2>1. ASSUME NEW r \in Requests, NEW f \in Entries, <<r, f>> \in canceled
        PROVE  /\ f <= added' /\ \A k \in 1..(N + 1) : providers_'[k] = f => entry'[f].deletion_pending_
    <3>1. f <= added /\ \A k \in 1..N : providers_[k] = f => entry[f].deletion_pending_
      BY <1>1, <2>1 DEF CancelOK, N
    <3>2. f \in Nat /\ f # e /\ f <= added'
      BY <1>2, <1>3, <3>1, NoEntryIsNone DEF e
    <3>3. QED
      BY <1>12, <3>1, <3>2
  <2>2. QED
    BY <1>1, <1>2, <1>9, <2>1 DEF CancelOK, Held
<1>19. QED
  BY <1>14, <1>15, <1>16, <1>17, <1>18 DEF IInv, Lists

\* Requests are canceled at entries that leave the list or are marked.
LEMMA CancelsMore ==
    ASSUME TypeOK, Lists, QueueOK, HandlerOK, CancelOK, alive,
           NEW rs \in Seq(Requests), NEW a \in {"next", "stop"}, Posted(rs, a),
           \A k \in 1..Len(rs) : Held(rs[k]),
           canceled' = canceled \cup {<<r, request[r].pos>> : r \in ToSet(rs)},
           UNCHANGED <<pending_handlers_, added>>,
           \A k \in 1..Len(providers_') :
              /\ \E i \in 1..Len(providers_) : providers_[i] = providers_'[k]
              /\ \/ entry[providers_'[k]].deletion_pending_
                 \/ \E m \in 1..Len(rs) : request[rs[m]].pos = providers_'[k]
                 => entry'[providers_'[k]].deletion_pending_
    PROVE  CancelOK' /\ canceled' \subseteq Requests \X Entries
<1>1. \A k \in 1..Len(rs) : /\ rs[k] \in Requests /\ request[rs[k]].pos \in Entries
                            /\ request[rs[k]].phase = "held"
  BY DEF TypeOK, Held, Attached
<1>2. \A r : r \in ToSet(rs) <=> \E k \in 1..Len(rs) : rs[k] = r
  BY DEF ToSet
<1>3. canceled' \subseteq Requests \X Entries
  BY <1>1, <1>2 DEF TypeOK
<1>4. \A r \in Requests : request'[r].phase = "held" =>
         /\ request[r].phase = "held" /\ request'[r].pos = request[r].pos
         /\ \A k \in 1..Len(rs) : rs[k] # r
  BY DEF Posted
<1>5. ASSUME NEW r \in Requests, NEW e \in Entries, <<r, e>> \in canceled'
      PROVE  /\ e <= added /\ pending_handlers_[r] # e
             /\ \A k \in 1..Len(providers_') : providers_'[k] = e => entry'[e].deletion_pending_
             /\ request'[r].pos = e => request'[r].phase # "held"
             /\ \A i \in 1..Len(queue') :
                   queue'[i].what = "state" /\ queue'[i].r = r /\ queue'[i].e = e =>
                       queue'[i].answer \in {"next", "stop"}
  <2>1. CASE <<r, e>> \in canceled
    <3>1. /\ e <= added /\ pending_handlers_[r] # e
          /\ \A k \in 1..Len(providers_) : providers_[k] = e => entry[e].deletion_pending_
          /\ request[r].pos = e => request[r].phase # "held"
          /\ \A i \in 1..Len(queue) :
                queue[i].what = "state" /\ queue[i].r = r /\ queue[i].e = e =>
                    queue[i].answer \in {"next", "stop"}
      BY <2>1 DEF CancelOK, Held
    <3>2. \A k \in 1..Len(providers_') : providers_'[k] = e => entry'[e].deletion_pending_
      BY <3>1
    <3>3. request'[r].pos = e => request'[r].phase # "held"
      BY <1>4, <3>1
    <3>4. ASSUME NEW i \in 1..Len(queue'), queue'[i].what = "state", queue'[i].r = r, queue'[i].e = e
          PROVE  queue'[i].answer \in {"next", "stop"}
      <4>1. CASE i \in 1..Len(queue)
        BY <3>1, <3>4, <4>1 DEF Posted
      <4>2. ASSUME NEW k \in 1..Len(rs), i = Len(queue) + k PROVE queue'[i].answer \in {"next", "stop"}
        BY <4>2 DEF Posted
      <4>3. i \in 1..Len(queue) \/ \E k \in 1..Len(rs) : i = Len(queue) + k
        BY DEF Posted
      <4>4. QED
        BY <4>1, <4>2, <4>3
    <3>5. QED
      BY <3>1, <3>2, <3>3, <3>4
  <2>2. ASSUME NEW m \in 1..Len(rs), r = rs[m], e = request[r].pos
        PROVE  /\ e <= added /\ pending_handlers_[r] # e
               /\ \A k \in 1..Len(providers_') : providers_'[k] = e => entry'[e].deletion_pending_
               /\ request'[r].pos = e => request'[r].phase # "held"
               /\ \A i \in 1..Len(queue') :
                     queue'[i].what = "state" /\ queue'[i].r = r /\ queue'[i].e = e =>
                         queue'[i].answer \in {"next", "stop"}
    <3>1. request[r].phase = "held" /\ e # NoEntry
      BY <1>1, <2>2, NoEntryIsNone
    <3>2. pending_handlers_[r] # e
      BY <3>1 DEF HandlerOK
    <3>3. e <= added
      BY <2>2, <3>1 DEF Lists, PlaceOK, OrderOK
    <3>4. \A k \in 1..Len(providers_') : providers_'[k] = e => entry'[e].deletion_pending_
      BY <2>2
    <3>5. request'[r].phase # "held"
      BY <1>4, <2>2
    <3>6. ASSUME NEW i \in 1..Len(queue'), queue'[i].what = "state", queue'[i].r = r
          PROVE  queue'[i].answer \in {"next", "stop"}
      <4>1. CASE i \in 1..Len(queue)
        <5>1. queue[i].what = "state" /\ queue[i].r = r
          BY <3>6, <4>1 DEF Posted
        <5>2. QED
          BY <3>1, <4>1, <5>1 DEF QueueOK
      <4>2. ASSUME NEW k \in 1..Len(rs), i = Len(queue) + k PROVE queue'[i].answer \in {"next", "stop"}
        BY <4>2 DEF Posted
      <4>3. i \in 1..Len(queue) \/ \E k \in 1..Len(rs) : i = Len(queue) + k
        BY DEF Posted
      <4>4. QED
        BY <4>1, <4>2, <4>3
    <3>7. QED
      BY <3>2, <3>3, <3>4, <3>5, <3>6
  <2>3. <<r, e>> \in canceled \/ \E m \in 1..Len(rs) : r = rs[m] /\ e = request[r].pos
    BY <1>2, <1>5
  <2>4. QED
    BY <2>1, <2>2, <2>3
<1>6. QED
  BY <1>3, <1>5 DEF CancelOK, Held

LEMMA PostAttached ==
    ASSUME NEW rs \in Seq(Requests), NEW a, Posted(rs, a), \A k \in 1..Len(rs) : Held(rs[k])
    PROVE  \A r \in Requests : /\ request'[r].pos = request[r].pos
                               /\ Held(r)' => Held(r) /\ \A k \in 1..Len(rs) : rs[k] # r
                               /\ Attached(r)' <=> Attached(r)
<1>1. TAKE r \in Requests
<1>2. CASE \E k \in 1..Len(rs) : rs[k] = r
  BY <1>2 DEF Posted, Held, Attached
<1>3. CASE \A k \in 1..Len(rs) : rs[k] # r
  BY <1>3 DEF Posted, Held, Attached
<1>4. QED
  BY <1>2, <1>3

LEMMA DeleteStep ==
    ASSUME IInv, alive, ClientRuns, NEW es, es \in Seq(Entries),
           \A i, j \in 1..Len(es) : es[i] = es[j] => i = j,
           NEW a \in {"next", "stop"}, DeleteProviders(es, a),
           UNCHANGED <<pending_requests_, sending, pending_handlers_, added, alive>>,
           hung' \in BOOLEAN
    PROVE  IInv'
<1> DEFINE rs == HeldAt(es)
           X == {e \in ToSet(es) : pending_requests_[e] = <<>>}
           kept == [e \in Entries |-> [entry[e] EXCEPT !.deletion_pending_ = @ \/ e \in ToSet(es)]]
<1>1. TypeOK /\ Lists /\ QueueOK /\ HandlerOK /\ CancelOK /\ SendingOK /\ ListOK
  BY TypeParts DEF IInv, Lists
<1>2. /\ PostStates(rs, a) /\ Free(X, kept)
      /\ canceled' = canceled \cup {<<r, request[r].pos>> : r \in ToSet(rs)}
  BY DEF DeleteProviders
<1>3. /\ rs \in Seq(Requests)
      /\ \A k \in 1..Len(rs) : Held(rs[k]) /\ \E i \in 1..Len(es) : request[rs[k]].pos = es[i]
      /\ \A k, l \in 1..Len(rs) : rs[k] = rs[l] => k = l
      /\ \A i \in 1..Len(es) : \A j \in 1..Len(pending_requests_[es[i]]) :
            Held(pending_requests_[es[i]][j]) =>
                \E k \in 1..Len(rs) : rs[k] = pending_requests_[es[i]][j]
  BY <1>1, HeldAtMembers
<1> HIDE DEF rs
<1>4. \A k \in 1..Len(rs) : Held(rs[k])
  BY <1>3
<1>5. Posted(rs, a)
  BY <1>1, <1>2, <1>3, <1>4, PostEffect DEF Answers
<1>6. QueueOK'
  BY <1>1, <1>3, <1>4, <1>5, PostQueue
<1>7. HandlerOK'
  BY <1>1, <1>3, <1>4, <1>5, PostHandlers
<1>8. \A e : e \in ToSet(es) <=> \E i \in 1..Len(es) : es[i] = e
  BY DEF ToSet
<1>9. /\ kept \in [Entries -> EntryFields]
      /\ \A e \in Entries : kept[e].shape = entry[e].shape
      /\ \A e \in Entries : kept[e].deletion_pending_ <=> (entry[e].deletion_pending_ \/ e \in ToSet(es))
  <2>1. entry \in [Entries -> EntryFields]
    BY <1>1 DEF Lists, ListTypes
  <2>2. ASSUME NEW e \in Entries
        PROVE  /\ kept[e] \in EntryFields /\ kept[e].shape = entry[e].shape
               /\ kept[e].deletion_pending_ <=> (entry[e].deletion_pending_ \/ e \in ToSet(es))
    <3>1. entry[e] \in EntryFields
      BY <2>1
    <3>2. kept[e] = [entry[e] EXCEPT !.deletion_pending_ = @ \/ e \in ToSet(es)]
      OBVIOUS
    <3> HIDE DEF kept
    <3>3. QED
      BY <3>1, <3>2 DEF EntryFields
  <2>3. kept = [e \in Entries |-> kept[e]]
    OBVIOUS
  <2> HIDE DEF kept
  <2>4. QED
    BY <2>2, <2>3
<1> HIDE DEF kept
<1>10. /\ providers_' \in Seq(Entries) /\ entry' \in [Entries -> EntryFields] /\ OrderOK'
       /\ \A k \in 1..Len(providers_') :
             /\ providers_'[k] \in Entries /\ providers_'[k] \notin X
             /\ \E i \in 1..Len(providers_) : providers_[i] = providers_'[k]
       /\ \A i \in 1..Len(providers_) : providers_[i] \notin X =>
             \E k \in 1..Len(providers_') : providers_'[k] = providers_[i]
       /\ \A e \in Entries : e \notin X => entry'[e] = kept[e]
  <2> HIDE DEF X
  <2>1. OrderOK
    BY <1>1 DEF Lists
  <2>2. QED
    BY <1>1, <1>2, <1>9, <2>1, FreeEffect
\* An entry with requests stays.
<1>11. ASSUME NEW r \in Requests, request[r].pos # NoEntry
       PROVE  /\ \E i \in 1..Len(pending_requests_[request[r].pos]) :
                    pending_requests_[request[r].pos][i] = r
              /\ \E k \in 1..Len(providers_') : providers_'[k] = request[r].pos
              /\ entry'[request[r].pos] = kept[request[r].pos]
  <2> DEFINE e == request[r].pos
  <2>1. /\ \E i \in 1..Len(pending_requests_[e]) : pending_requests_[e][i] = r
        /\ \E k \in 1..Len(providers_) : providers_[k] = e
        /\ e \in Entries
    BY <1>1, <1>11 DEF Lists, PlaceOK, TypeOK
  <2> HIDE DEF e
  <2>2. e \notin X
    BY <2>1
  <2>3. QED
    BY <1>10, <2>1, <2>2 DEF e
<1>12. \A k \in 1..Len(providers_') :
          /\ \E i \in 1..Len(providers_) : providers_[i] = providers_'[k]
          /\ entry'[providers_'[k]].deletion_pending_ <=>
                entry[providers_'[k]].deletion_pending_ \/ providers_'[k] \in ToSet(es)
  BY <1>9, <1>10
<1>13. \A r \in Requests : /\ request'[r].pos = request[r].pos
                           /\ Held(r)' => Held(r) /\ \A k \in 1..Len(rs) : rs[k] # r
                           /\ Attached(r)' <=> Attached(r)
  BY <1>3, <1>4, <1>5, PostAttached
<1>14. Lists'
  <2>1. ListTypes'
    <3>1. request' \in [Requests -> States]
      BY <1>5 DEF Posted
    <3>2. QED
      BY <1>1, <1>10, <1>13, <3>1 DEF Lists, ListTypes
  <2>2. \A e \in Entries : \A i \in 1..Len(pending_requests_[e]) : pending_requests_[e][i] \in Requests
    BY <1>1 DEF Lists, ListTypes
  <2>3. ListOK'
    BY <1>1, <1>13, <2>2 DEF ListOK
  <2>4. PlaceOK'
    BY SMTT(30), <1>11, <1>13 DEF PlaceOK
  <2>5. RemovedOK'
    <3>1. ASSUME NEW k \in 1..Len(providers_'), entry'[providers_'[k]].deletion_pending_
          PROVE  /\ pending_requests_[providers_'[k]] # <<>>
                 /\ \A i \in 1..Len(pending_requests_[providers_'[k]]) :
                       request'[pending_requests_[providers_'[k]][i]].phase # "held"
      <4> DEFINE f == providers_'[k]
      <4>1. f \in Entries /\ f \notin X /\ \E i \in 1..Len(providers_) : providers_[i] = f
        BY <1>10
      <4>2. entry[f].deletion_pending_ \/ f \in ToSet(es)
        BY <1>12, <3>1
      <4> HIDE DEF f
      <4>3. \A i \in 1..Len(pending_requests_[f]) : pending_requests_[f][i] \in Requests
        BY <2>2, <4>1
      <4>4. CASE entry[f].deletion_pending_
        <5>1. pending_requests_[f] # <<>> /\ \A i \in 1..Len(pending_requests_[f]) : ~Held(pending_requests_[f][i])
          BY <1>1, <4>1, <4>4 DEF Lists, RemovedOK
        <5>2. QED
          BY <1>13, <4>3, <5>1 DEF f, Held
      <4>5. CASE f \in ToSet(es)
        <5>1. pending_requests_[f] # <<>>
          BY <4>1, <4>5
        <5>2. PICK m \in 1..Len(es) : es[m] = f
          BY <1>8, <4>5
        <5>3. \A j \in 1..Len(pending_requests_[f]) : Held(pending_requests_[f][j]) =>
                  \E l \in 1..Len(rs) : rs[l] = pending_requests_[f][j]
          BY <1>3, <5>2
        <5>4. \A j \in 1..Len(pending_requests_[f]) : request'[pending_requests_[f][j]].phase # "held"
          BY <1>13, <4>3, <5>3 DEF Held
        <5>5. QED
          BY <5>1, <5>4 DEF f
      <4>6. QED
        BY <4>2, <4>4, <4>5
    <3>2. QED
      BY <3>1 DEF RemovedOK, Held
  <2>6. QED
    BY <1>10, <2>1, <2>3, <2>4, <2>5 DEF Lists
<1>15. CancelOK' /\ canceled' \subseteq Requests \X Entries
  <2>1. \A k \in 1..Len(providers_') :
           /\ \E i \in 1..Len(providers_) : providers_[i] = providers_'[k]
           /\ \/ entry[providers_'[k]].deletion_pending_
              \/ \E m \in 1..Len(rs) : request[rs[m]].pos = providers_'[k]
              => entry'[providers_'[k]].deletion_pending_
    BY <1>3, <1>8, <1>12
  <2>2. QED
    BY <1>1, <1>2, <1>3, <1>4, <1>5, <2>1, CancelsMore
<1>16. TypeOK'
  <2>1. OtherTypes /\ queue' \in Seq(Tasks)
    BY <1>1, <1>5, TypeParts DEF Posted
  <2>2. OtherTypes'
    BY Zenon, <1>15, <2>1 DEF OtherTypes
  <2>3. QED
    BY <1>14, <2>2, TypePartsThen DEF Lists
<1>17. SendingOK'
  <2>1. SUFFICES ASSUME sending # NoRequest
                 PROVE  /\ alive' /\ request'[sending].pos # NoEntry
                        /\ entry'[request'[sending].pos].shape.kind # "archive"
    BY DEF SendingOK
  <2>2. sending \in Requests /\ request[sending].pos # NoEntry
    BY <1>1, <2>1 DEF TypeOK, SendingOK
  <2>3. request[sending].pos \in Entries
    BY <1>1, <2>2 DEF TypeOK
  <2>4. entry'[request[sending].pos].shape = entry[request[sending].pos].shape
    BY <1>9, <1>11, <2>2, <2>3
  <2>5. request'[sending].pos = request[sending].pos
    BY <1>13, <2>2
  <2>6. QED
    BY <2>1, <2>2, <2>4, <2>5 DEF ClientRuns
<1>18. QED
  BY <1>6, <1>7, <1>14, <1>15, <1>16, <1>17 DEF IInv, Lists

LEMMA StutterStep ==
    ASSUME IInv, UNCHANGED vars
    PROVE  IInv'
<1> USE DEF vars
<1>1. TypeOK /\ Lists
  BY TypeParts DEF IInv, Lists
<1>2. Lists'
  BY <1>1 DEF Lists, ListTypes, Attached, OrderOK, Before, ListOK, PlaceOK, RemovedOK, Held
<1>3. OtherTypes
  BY <1>1, TypeParts
<1>4. OtherTypes'
  BY Zenon, <1>3 DEF OtherTypes
<1>5. TypeOK'
  BY <1>2, <1>4, TypePartsThen DEF Lists
<1>6. QueueOK' /\ HandlerOK' /\ SendingOK'
  BY DEF IInv, QueueOK, HandlerOK, SendingOK, Held
<1>7. CancelOK'
  BY DEF IInv, CancelOK, Held
<1>8. QED
  BY <1>2, <1>5, <1>6, <1>7 DEF IInv, Lists

\* A removal that does not return has deleted the entries up to the one it
\* is stuck on, each once.
LEMMA BeforeStuckOnce ==
    ASSUME NEW es, es \in Seq(Entries), \A i, j \in 1..Len(es) : es[i] = es[j] => i = j
    PROVE  /\ BeforeStuck(es) \in Seq(Entries)
           /\ \A i, j \in 1..Len(BeforeStuck(es)) : BeforeStuck(es)[i] = BeforeStuck(es)[j] => i = j
<1> DEFINE stuck == {i \in 1..Len(es) : entry[es[i]].deletion_pending_}
           n == Min(stuck) - 1
<1>1. CASE stuck = {}
  BY <1>1 DEF BeforeStuck
<1>2. CASE stuck # {}
  <2>1. Min(stuck) \in stuck
    <3>1. stuck \subseteq Nat
      OBVIOUS
    <3> HIDE DEF stuck
    <3>2. QED
      BY <1>2, <3>1, MinIsLeast
  <2>2. Min(stuck) \in 1..Len(es) /\ BeforeStuck(es) = SubSeq(es, 1, n)
    BY <1>2, <2>1 DEF BeforeStuck
  <2> HIDE DEF stuck
  <2>3. n \in Int /\ 0 <= n /\ \A i \in 1..n : i \in 1..Len(es)
    BY <2>2
  <2> HIDE DEF n
  <2>4. \A i \in 1..n : es[i] \in Entries
    BY <2>3
  <2>5. /\ SubSeq(es, 1, n) \in Seq(Entries)
        /\ Len(SubSeq(es, 1, n)) = n
        /\ \A i \in 1..n : SubSeq(es, 1, n)[i] = es[i]
    BY <2>3, <2>4, SubSeqProperties
  <2>6. QED
    BY <2>2, <2>3, <2>5
<1>3. QED
  BY <1>1, <1>2

LEMMA RemoveStep ==
    ASSUME IInv, ClientRuns, alive, NEW es, es \in Seq(Entries),
           \A i, j \in 1..Len(es) : es[i] = es[j] => i = j,
           NEW a \in {"next", "stop"}, RemoveLoop(es, a),
           UNCHANGED <<pending_requests_, sending, pending_handlers_, added, alive>>
    PROVE  IInv'
<1>1. BeforeStuck(es) \in Seq(Entries) /\ \A i, j \in 1..Len(BeforeStuck(es)) :
          BeforeStuck(es)[i] = BeforeStuck(es)[j] => i = j
  BY BeforeStuckOnce
<1>2. DeleteProviders(BeforeStuck(es), a) /\ hung' \in BOOLEAN
  BY DEF RemoveLoop
<1> HIDE DEF BeforeStuck
<1>3. QED
  BY <1>1, <1>2, DeleteStep

LEMMA RemoveProvidersStep ==
    ASSUME IInv, NEW identifier, RemoveProviders(identifier)
    PROVE  IInv'
<1> DEFINE S == {e \in Entries : entry[e].shape.identifier = identifier}
           es == OnlyIn(providers_, S)
<1>1. providers_ \in Seq(Entries) /\ TypeOK /\ OrderOK
  BY DEF IInv, TypeOK
<1>2. /\ ClientRuns /\ alive /\ RemoveLoop(es, "next")
      /\ UNCHANGED <<pending_requests_, sending, pending_handlers_, added, alive>>
  BY DEF RemoveProviders
<1> HIDE DEF S
<1>3. es \in Seq(Entries)
  BY <1>1, OnlyInMembers
<1>4. \A i, j \in 1..Len(providers_) : providers_[i] = providers_[j] => i = j
  BY <1>1, ListedOnce
<1>5. \A i, j \in 1..Len(es) : es[i] = es[j] => i = j
  BY <1>1, <1>4, OnlyInOnce
<1> HIDE DEF es
<1>6. QED
  BY <1>2, <1>3, <1>5, RemoveStep

LEMMA RemoveAllStep ==
    ASSUME IInv, RemoveAllProviders
    PROVE  IInv'
<1>1. providers_ \in Seq(Entries) /\ TypeOK /\ OrderOK
  BY DEF IInv, TypeOK
<1>2. /\ ClientRuns /\ alive /\ RemoveLoop(providers_, "stop")
      /\ UNCHANGED <<pending_requests_, sending, pending_handlers_, added, alive>>
  BY DEF RemoveAllProviders
<1>3. \A i, j \in 1..Len(providers_) : providers_[i] = providers_[j] => i = j
  BY <1>1, ListedOnce
<1>4. QED
  BY <1>1, <1>2, <1>3, RemoveStep

LEMMA DestroyStep ==
    ASSUME IInv, Destroy
    PROVE  IInv'
<1> DEFINE rs == HeldAt(providers_)
           X == ToSet(providers_)
<1>1. TypeOK /\ Lists /\ QueueOK /\ HandlerOK /\ CancelOK /\ SendingOK /\ ListOK /\ OrderOK
  BY TypeParts DEF IInv, Lists
<1>2. sending = NoRequest /\ alive /\ UNCHANGED <<sending, pending_handlers_, added>>
  BY DEF Destroy, IOThreadIdle
<1>3. CASE RemoveLoop(providers_, "stop") /\ UNCHANGED <<pending_requests_, alive>>
  <2>1. providers_ \in Seq(Entries) /\ \A i, j \in 1..Len(providers_) : providers_[i] = providers_[j] => i = j
    BY <1>1, ListedOnce DEF TypeOK
  <2>2. ClientRuns
    BY <1>2 DEF Destroy, IOThreadIdle, ClientRuns
  <2>3. QED
    BY <1>2, <1>3, <2>1, <2>2, RemoveStep
<1>4. CASE /\ PostStates(rs, "stop") /\ Free(X, entry)
           /\ canceled' = canceled \cup {<<r, request[r].pos>> : r \in ToSet(rs)}
           /\ pending_requests_' = [e \in Entries |-> <<>>] /\ alive' = FALSE /\ UNCHANGED hung
  <2>1. providers_ \in Seq(Entries) /\ \A i, j \in 1..Len(providers_) : providers_[i] = providers_[j] => i = j
    BY <1>1, ListedOnce DEF TypeOK
  <2>2. /\ rs \in Seq(Requests)
        /\ \A k \in 1..Len(rs) : Held(rs[k])
        /\ \A k, l \in 1..Len(rs) : rs[k] = rs[l] => k = l
        /\ \A i \in 1..Len(providers_) : \A j \in 1..Len(pending_requests_[providers_[i]]) :
              Held(pending_requests_[providers_[i]][j]) =>
                  \E k \in 1..Len(rs) : rs[k] = pending_requests_[providers_[i]][j]
    BY <1>1, <2>1, HeldAtMembers
  <2> HIDE DEF rs
  <2>3. Posted(rs, "stop")
    BY <1>1, <1>4, <2>2, PostEffect DEF Answers
  <2>4. QueueOK'
    BY <1>1, <2>2, <2>3, PostQueue
  <2>5. HandlerOK'
    BY <1>1, <1>2, <2>2, <2>3, PostHandlers
  <2>6. /\ providers_' \in Seq(Entries) /\ entry' \in [Entries -> EntryFields] /\ OrderOK'
        /\ \A k \in 1..Len(providers_') :
              /\ providers_'[k] \notin X
              /\ \E i \in 1..Len(providers_) : providers_[i] = providers_'[k]
    <3> HIDE DEF X
    <3>1. entry \in [Entries -> EntryFields] /\ \A e \in Entries : entry[e].shape = entry[e].shape
      BY <1>1 DEF Lists, ListTypes
    <3>2. QED
      BY <1>1, <1>2, <1>4, <3>1, FreeEffect
  <2>7. \A k \in 1..Len(providers_') : FALSE
    BY <2>6 DEF ToSet
  <2>8. \A r \in Requests : /\ request'[r].pos = request[r].pos
                            /\ Held(r)' => Held(r) /\ \A k \in 1..Len(rs) : rs[k] # r
                            /\ Attached(r)' <=> Attached(r)
    BY <2>2, <2>3, PostAttached
  <2>9. \A e \in Entries : pending_requests_'[e] = <<>>
    BY <1>4
  <2>10. \A r \in Requests : ~Held(r)'
    <3>1. SUFFICES ASSUME NEW r \in Requests, Held(r), \A k \in 1..Len(rs) : rs[k] # r PROVE FALSE
      BY <2>8
    <3>2. request[r].pos # NoEntry
      BY <1>1, <3>1 DEF TypeOK, Held, Attached
    <3>3. PICK i \in 1..Len(providers_) : providers_[i] = request[r].pos
      BY <1>1, <1>2, <3>2 DEF Lists, PlaceOK
    <3>4. PICK j \in 1..Len(pending_requests_[providers_[i]]) : pending_requests_[providers_[i]][j] = r
      BY <1>1, <1>2, <3>2, <3>3 DEF Lists, PlaceOK
    <3>5. QED
      BY <2>2, <3>1, <3>4
  <2>11. Lists'
    <3>1. ListTypes'
      <4>1. pending_requests_' \in [Entries -> Seq(Requests)] /\ request' \in [Requests -> States]
        BY <1>4, <2>3 DEF Posted
      <4>2. QED
        BY <1>1, <2>6, <2>8, <4>1 DEF Lists, ListTypes
    <3>2. ListOK'
      BY <2>9 DEF ListOK
    <3>3. PlaceOK'
      BY <1>4, <2>9, <2>10 DEF PlaceOK
    <3>4. RemovedOK'
      BY <2>7 DEF RemovedOK
    <3>5. QED
      BY <2>6, <3>1, <3>2, <3>3, <3>4 DEF Lists
  <2>12. CancelOK' /\ canceled' \subseteq Requests \X Entries
    <3>1. "stop" \in {"next", "stop"}
      OBVIOUS
    <3>2. QED
      BY <1>1, <1>2, <1>4, <2>2, <2>3, <2>7, <3>1, CancelsMore
  <2>13. TypeOK'
    <3>1. OtherTypes /\ queue' \in Seq(Tasks)
      BY <1>1, <2>3, TypeParts DEF Posted
    <3>2. alive' \in BOOLEAN /\ hung' = hung
      BY <1>4
    <3>3. OtherTypes'
      BY Zenon, <1>2, <2>12, <3>1, <3>2 DEF OtherTypes
    <3>4. QED
      BY <2>11, <3>3, TypePartsThen DEF Lists
  <2>14. SendingOK'
    BY <1>2 DEF SendingOK
  <2>15. QED
    BY <2>4, <2>5, <2>11, <2>12, <2>13, <2>14 DEF IInv, Lists
<1>5. QED
  BY <1>3, <1>4 DEF Destroy

-----------------------------------------------------------------------------
(* The theorems.                                                           *)

LEMMA InitIInv == Init => IInv
<1>1. SUFFICES ASSUME Init PROVE IInv
  OBVIOUS
<1>2. /\ providers_ = <<>> /\ queue = <<>> /\ Len(providers_) = 0 /\ Len(queue) = 0
      /\ sending = NoRequest /\ canceled = {} /\ added = 0 /\ alive = TRUE /\ hung = FALSE
      /\ entry = [e \in Entries |-> Freed]
      /\ pending_requests_ = [e \in Entries |-> <<>>]
      /\ request = [r \in Requests |-> [phase |-> "new", pos |-> NoEntry]]
      /\ pending_handlers_ = [r \in Requests |-> NoEntry]
  BY <1>1 DEF Init
<1>3. ListTypes
  <2>1. entry \in [Entries -> EntryFields]
    BY <1>2, FreedType
  <2>2. request \in [Requests -> States] /\ \A r \in Requests : request[r].pos = NoEntry /\ ~Attached(r)
    BY <1>2 DEF States, Phases, Attached
  <2>3. pending_requests_ \in [Entries -> Seq(Requests)] /\ providers_ \in Seq(Entries)
    BY <1>2
  <2>4. QED
    BY <2>1, <2>2, <2>3 DEF ListTypes
<1>4. OtherTypes
  <2>1. added \in 0..MaxEntries
    BY <1>2, BoundsAssumption
  <2>2. pending_handlers_ \in [Requests -> Entries \cup {NoEntry}] /\ queue \in Seq(Tasks)
    BY <1>2
  <2>3. alive \in BOOLEAN /\ hung \in BOOLEAN /\ sending \in Requests \cup {NoRequest}
    BY <1>2
  <2>4. QED
    BY Zenon, <1>2, <2>1, <2>2, <2>3 DEF OtherTypes
<1>5. TypeOK
  BY <1>3, <1>4 DEF TypeOK, ListTypes, OtherTypes, EntryFields, States
<1>6. OrderOK /\ RemovedOK
  BY <1>2 DEF OrderOK, RemovedOK
<1>7. ListOK
  <2>1. \A e \in Entries : Len(pending_requests_[e]) = 0
    BY <1>2
  <2>2. QED
    BY <2>1 DEF ListOK
<1>8. PlaceOK
  BY <1>2 DEF PlaceOK
<1>9. QueueOK /\ SendingOK /\ HandlerOK /\ CancelOK
  BY <1>2 DEF QueueOK, SendingOK, HandlerOK, CancelOK
<1>10. QED
  BY <1>5, <1>6, <1>7, <1>8, <1>9 DEF IInv

LEMMA NextIInv == IInv /\ [Next]_vars => IInv'
<1>1. SUFFICES ASSUME IInv, [Next]_vars PROVE IInv'
  OBVIOUS
<1>2. ASSUME NEW s \in Shapes, AddProvider(s) PROVE IInv'
  BY <1>1, <1>2, AddStep
<1>3. ASSUME NEW i, RemoveProviders(i) PROVE IInv'
  BY <1>1, <1>3, RemoveProvidersStep
<1>4. CASE RemoveAllProviders
  BY <1>1, <1>4, RemoveAllStep
<1>5. CASE Destroy
  BY <1>1, <1>5, DestroyStep
<1>6. ASSUME NEW r \in Requests, OnBeforeResourceLoad(r) PROVE IInv'
  BY <1>1, <1>6, LoadStep
<1>7. CASE OnRequestAccepts
  BY <1>1, <1>7, AcceptsStep
<1>8. CASE OnRequestDeclines
  BY <1>1, <1>8, DeclinesStep
<1>9. CASE ArchiveOnRequest
  BY <1>1, <1>9, ArchiveOnRequestStep
<1>10. ASSUME NEW e \in Entries, ArchiveLoaded(e) PROVE IInv'
  BY <1>1, <1>10, ArchiveLoadedStep
<1>11. ASSUME NEW r \in Requests, NEW a \in Answers, AnswerOnIOThread(r, a) PROVE IInv'
  BY <1>1, <1>11, AnswerStep
<1>12. ASSUME NEW r \in Requests, NEW a \in Answers, AnswerOnOtherThread(r, a) PROVE IInv'
  BY <1>1, <1>12, OtherThreadStep
<1>13. CASE RunTask
  BY <1>1, <1>13, RunTaskStep
<1>14. ASSUME NEW r \in Requests, GetResourceHandler(r) PROVE IInv'
  BY <1>1, <1>14, GetHandlerStep
<1>15. CASE UNCHANGED vars
  BY <1>1, <1>15, StutterStep
<1>16. QED
  BY <1>1, <1>2, <1>3, <1>4, <1>5, <1>6, <1>7, <1>8, <1>9, <1>10, <1>11, <1>12, <1>13, <1>14, <1>15
     DEF Next

(* The inductive invariant holds for any requests, shapes of providers and *)
(* number of calls of AddProvider.                                         *)
THEOREM Invariance == Spec => []IInv
<1>1. Init => IInv
  BY InitIInv
<1>2. IInv /\ [Next]_vars => IInv'
  BY NextIInv
<1>3. QED
  BY <1>1, <1>2, PTL DEF Spec

LEMMA NothingDangles == IInv => NoDanglingPosition
<1>1. SUFFICES ASSUME IInv, alive, NEW r \in Requests, NEW e \in Entries
               PROVE  LET places == {i \in 1..Len(pending_requests_[e]) : pending_requests_[e][i] = r} IN
                      IF Attached(r) /\ request[r].pos = e
                          THEN Cardinality(places) = 1 /\ e \in ToSet(providers_)
                          ELSE places = {}
  BY DEF NoDanglingPosition
<1> DEFINE places == {i \in 1..Len(pending_requests_[e]) : pending_requests_[e][i] = r}
<1>2. TypeOK /\ ListOK /\ PlaceOK
  BY <1>1 DEF IInv
<1>3. CASE Attached(r) /\ request[r].pos = e
  <2>1. request[r].pos # NoEntry
    BY <1>2, <1>3 DEF TypeOK
  <2>2. PICK i \in 1..Len(pending_requests_[e]) : pending_requests_[e][i] = r
    BY <1>1, <1>2, <1>3, <2>1 DEF PlaceOK
  <2>3. places = {i}
    BY <1>2, <2>2 DEF ListOK
  <2> HIDE DEF places
  <2>4. Cardinality(places) = 1
    BY <2>3, FS_Singleton
  <2>5. e \in ToSet(providers_)
    BY <1>1, <1>2, <1>3, <2>1 DEF PlaceOK, ToSet
  <2>6. QED
    BY <1>3, <2>4, <2>5 DEF places
<1>4. CASE ~(Attached(r) /\ request[r].pos = e)
  <2>1. ASSUME NEW i \in 1..Len(pending_requests_[e]), pending_requests_[e][i] = r PROVE FALSE
    <3>1. request[r].pos = e /\ e # NoEntry
      BY <1>2, <2>1, NoEntryIsNone DEF ListOK
    <3>2. QED
      BY <1>2, <1>4, <3>1 DEF TypeOK
  <2>2. places = {}
    BY <2>1
  <2>3. QED
    BY <1>4, <2>2
<1>5. QED
  BY <1>3, <1>4

LEMMA RemovedHasTasks == IInv => RemovedWaitsForTasks
<1>1. SUFFICES ASSUME IInv, NEW e \in ToSet(providers_), entry[e].deletion_pending_
               PROVE  /\ pending_requests_[e] # <<>>
                      /\ \A r \in ToSet(pending_requests_[e]) :
                            /\ ~Held(r)
                            /\ \E i \in 1..Len(queue) :
                                  queue[i].what = "state" /\ queue[i].r = r /\ queue[i].e = e
  BY DEF RemovedWaitsForTasks
<1>2. TypeOK /\ ListOK /\ RemovedOK /\ QueueOK
  BY <1>1 DEF IInv
<1>3. PICK k \in 1..Len(providers_) : providers_[k] = e
  BY DEF ToSet
<1>4. e \in Entries
  BY <1>2, <1>3 DEF TypeOK
<1>5. /\ pending_requests_[e] # <<>>
      /\ \A i \in 1..Len(pending_requests_[e]) : ~Held(pending_requests_[e][i])
  BY <1>1, <1>2, <1>3 DEF RemovedOK
<1>6. ASSUME NEW r \in ToSet(pending_requests_[e])
      PROVE  /\ ~Held(r)
             /\ \E i \in 1..Len(queue) : queue[i].what = "state" /\ queue[i].r = r /\ queue[i].e = e
  <2>1. PICK i \in 1..Len(pending_requests_[e]) : pending_requests_[e][i] = r
    BY DEF ToSet
  <2>2. r \in Requests /\ request[r].pos = e /\ ~Held(r) /\ e # NoEntry
    BY <1>2, <1>4, <1>5, <2>1, NoEntryIsNone DEF TypeOK, ListOK
  <2>3. request[r].phase = "posted"
    BY <1>2, <2>2 DEF TypeOK, Attached, Held
  <2>4. PICK j \in 1..Len(queue) : queue[j].what = "state" /\ queue[j].r = r
    BY <1>2, <2>2, <2>3 DEF QueueOK
  <2>5. queue[j].e = e
    BY <1>2, <2>2, <2>4 DEF QueueOK
  <2>6. QED
    BY <2>2, <2>4, <2>5
<1>7. QED
  BY <1>5, <1>6

(* PositionsAreValid for any number of requests and providers: the state   *)
(* is well typed, the iterators that request states keep into the lists of *)
(* providers and of requests stay valid through insertions, removals and   *)
(* DetachRequestFromProvider, and an entry whose deletion is pending waits *)
(* only for tasks that are in the queue.                                   *)
THEOREM PositionsAreValidHolds == Spec => []PositionsAreValid
<1>1. IInv => PositionsAreValid
  BY NothingDangles, RemovedHasTasks DEF PositionsAreValid, IInv
<1>2. QED
  BY <1>1, Invariance, PTL

(* CanceledIsIgnored for any number of requests and providers: a request   *)
(* whose provider was told of OnRequestCanceled is never served with a     *)
(* handler of that provider, whichever thread the answer came from.        *)
THEOREM CanceledIsIgnoredHolds == Spec => []CanceledIsIgnored
<1>1. ASSUME IInv PROVE CanceledIsIgnored
  <2>1. CancelOK /\ canceled \subseteq Requests \X Entries
    BY <1>1 DEF IInv, TypeOK
  <2>2. ASSUME NEW c \in canceled PROVE pending_handlers_[c[1]] # c[2]
    <3>1. PICK r \in Requests, e \in Entries : c = <<r, e>>
      BY <2>1
    <3>2. c[1] = r /\ c[2] = e /\ <<r, e>> \in canceled
      BY <3>1
    <3>3. QED
      BY <2>1, <3>2 DEF CancelOK
  <2>3. QED
    BY <2>2 DEF CanceledIsIgnored
<1>2. QED
  BY <1>1, Invariance, PTL

-----------------------------------------------------------------------------
(* The order in which requests go through the list.                        *)

\* The step of r that OfferedInOrder allows.
InOrder(r) ==
    LET e == request[r].pos
        f == request'[r].pos
    IN  e # NoEntry /\ f # NoEntry /\ e # f =>
            /\ Before(e, f) /\ ~entry[f].deletion_pending_
            /\ \A g \in ToSet(providers_) :
                  Before(e, g) /\ Before(g, f) => entry[g].deletion_pending_

LEMMA BeforeIsOneWay ==
    ASSUME TypeOK, NEW e \in Entries, NEW f \in Entries, Before(e, f), Before(f, e)
    PROVE  FALSE
<1>1. entry[e].shape.order \in Int /\ entry[f].shape.order \in Int
  BY ShapesAssumption DEF TypeOK
<1>2. e \in Nat /\ f \in Nat
  BY NoEntryIsNone
<1>3. QED
  BY <1>1, <1>2 DEF Before

\* Places of the list are in the order of their entries.
LEMMA PlacesInOrder ==
    ASSUME TypeOK, OrderOK, NEW i \in 1..Len(providers_), NEW j \in 1..Len(providers_),
           Before(providers_[i], providers_[j])
    PROVE  i < j
<1>1. i \in Int /\ j \in Int /\ providers_[i] \in Entries /\ providers_[j] \in Entries
  BY DEF TypeOK
<1>2. CASE j < i
  <2>1. Before(providers_[j], providers_[i])
    BY <1>2 DEF OrderOK
  <2>2. QED
    BY <1>1, <2>1, BeforeIsOneWay
<1>3. CASE j = i
  BY <1>1, <1>3, BeforeIsOneWay
<1>4. QED
  BY <1>1, <1>2, <1>3

LEMMA MovesInOrder ==
    ASSUME IInv, alive, NEW r \in Requests, request[r].pos # NoEntry,
           NEW j \in 1..Len(providers_), Moves(r, j)
    PROVE  \A q \in Requests : InOrder(q)
<1> DEFINE e == request[r].pos
           f == providers_[j]
           p == PlaceOf(e)
<1>1. TypeOK /\ OrderOK /\ PlaceOK
  BY DEF IInv
<1>2. /\ p < j /\ ~entry[f].deletion_pending_
      /\ \A m \in (p + 1)..(j - 1) : entry[providers_[m]].deletion_pending_
      /\ request' = [request EXCEPT ![r] = [phase |-> "held", pos |-> f]]
  BY DEF Moves
<1>3. p \in 1..Len(providers_) /\ providers_[p] = e
  <2>1. \E k \in 1..Len(providers_) : providers_[k] = request[r].pos
    BY <1>1 DEF PlaceOK
  <2>2. QED
    BY <2>1, PlaceOfEntry
<1>4. request'[r].pos = f /\ \A q \in Requests : q # r => request'[q] = request[q]
  BY <1>1, <1>2 DEF TypeOK
<1> HIDE DEF p
<1>5. Before(e, f)
  BY <1>1, <1>2, <1>3 DEF OrderOK
<1>6. ASSUME NEW g \in ToSet(providers_), Before(e, g), Before(g, f)
      PROVE  entry[g].deletion_pending_
  <2>1. PICK k \in 1..Len(providers_) : providers_[k] = g
    BY DEF ToSet
  <2>2. p < k
    BY <1>1, <1>3, <1>6, <2>1, PlacesInOrder
  <2>3. k < j
    BY <1>1, <1>6, <2>1, PlacesInOrder
  <2>4. k \in (p + 1)..(j - 1)
    BY <1>3, <2>2, <2>3
  <2>5. QED
    BY <1>2, <2>1, <2>4
<1>7. InOrder(r)
  BY <1>2, <1>4, <1>5, <1>6 DEF InOrder
<1>8. \A q \in Requests : q # r => InOrder(q)
  BY <1>4 DEF InOrder
<1>9. QED
  BY <1>7, <1>8

\* A request that stays where it is, or leaves the list.
LEMMA StaysInOrder ==
    ASSUME \A r \in Requests : request'[r].pos \in {request[r].pos, NoEntry} \/ request[r].pos = NoEntry
    PROVE  \A r \in Requests : InOrder(r)
  BY DEF InOrder

LEMMA PostInOrder ==
    ASSUME TypeOK, NEW rs, NEW a, PostStates(rs, a)
    PROVE  \A r \in Requests : InOrder(r)
<1>1. \A r \in Requests : request'[r].pos = request[r].pos
  BY DEF PostStates, TypeOK
<1>2. QED
  BY <1>1, StaysInOrder

LEMMA DoneInOrder ==
    ASSUME TypeOK, NEW r \in Requests,
           request' = [request EXCEPT ![r] = [phase |-> "done", pos |-> NoEntry]]
    PROVE  \A q \in Requests : InOrder(q)
<1>1. \A q \in Requests : request'[q].pos \in {request[q].pos, NoEntry}
  BY DEF TypeOK
<1>2. QED
  BY <1>1, StaysInOrder

LEMMA PhaseInOrder ==
    ASSUME TypeOK, NEW r \in Requests, NEW p, request' = [request EXCEPT ![r].phase = p]
    PROVE  \A q \in Requests : InOrder(q)
<1>1. \A q \in Requests : request'[q].pos = request[q].pos
  BY DEF TypeOK
<1>2. QED
  BY <1>1, StaysInOrder

LEMMA IncrementInOrder ==
    ASSUME IInv, alive, NEW r \in Requests, request[r].pos # NoEntry, IncrementProvider(r),
           UNCHANGED <<added, alive>>
    PROVE  \A q \in Requests : InOrder(q)
<1>1. TypeOK /\ Lists
  BY TypeParts DEF IInv, Lists
<1>2. Ends(r) \/ \E j \in 1..Len(providers_) : Moves(r, j)
  BY <1>1, IncrementEffect
<1>3. CASE Ends(r)
  BY <1>1, <1>3, DoneInOrder DEF Ends
<1>4. ASSUME NEW j \in 1..Len(providers_), Moves(r, j) PROVE \A q \in Requests : InOrder(q)
  BY <1>4, MovesInOrder
<1>5. QED
  BY <1>2, <1>3, <1>4

LEMMA RunTaskInOrder ==
    ASSUME IInv, RunTask
    PROVE  \A q \in Requests : InOrder(q)
<1> DEFINE t == Head(queue)
<1>1. TypeOK /\ QueueOK /\ queue # <<>> /\ UNCHANGED <<added, alive>>
  BY DEF IInv, RunTask
<1>2. t = queue[1] /\ 1 \in 1..Len(queue) /\ t.r \in Requests /\ t.e \in Entries
  <2>1. t = queue[1] /\ 1 \in 1..Len(queue)
    BY <1>1, TailPlaces
  <2>2. QED
    BY <1>1, <2>1, TaskFields
<1>3. t.what = "state" => request[t.r].pos # NoEntry
  BY <1>1, <1>2, NoEntryIsNone DEF QueueOK
<1> HIDE DEF t
<1>4. CASE t.what = "state" /\ alive /\ IncrementProvider(t.r)
  BY <1>1, <1>2, <1>3, <1>4, IncrementInOrder
<1>5. CASE request' = [request EXCEPT ![t.r] = [phase |-> "done", pos |-> NoEntry]]
  BY <1>1, <1>2, <1>5, DoneInOrder
<1>6. CASE request' = [request EXCEPT ![t.r].phase = "posted"]
  BY <1>1, <1>2, <1>6, PhaseInOrder
<1>7. CASE UNCHANGED request
  BY <1>7, StaysInOrder
<1>8. QED
  BY <1>4, <1>5, <1>6, <1>7 DEF RunTask, ContinueOnIOThread, ContinueRequest, StopRequest, t

LEMMA NextInOrder ==
    ASSUME IInv, [Next]_vars
    PROVE  \A r \in Requests : InOrder(r)
<1>1. TypeOK
  BY DEF IInv
<1>2. CASE UNCHANGED request
  BY <1>2, StaysInOrder
<1>3. ASSUME NEW es, NEW a, RemoveLoop(es, a) PROVE \A r \in Requests : InOrder(r)
  BY <1>1, <1>3, PostInOrder DEF RemoveLoop, DeleteProviders
<1>4. CASE Destroy
  BY <1>1, <1>3, <1>4, PostInOrder DEF Destroy
<1>5. ASSUME NEW r \in Requests, OnBeforeResourceLoad(r) PROVE \A q \in Requests : InOrder(q)
  <2>1. request[r].pos = NoEntry
    BY <1>1, <1>5 DEF OnBeforeResourceLoad, TypeOK, Attached
  <2>2. \A q \in Requests : q # r => request'[q] = request[q]
    BY <1>1, <1>5 DEF OnBeforeResourceLoad, MakeRequest, TypeOK
  <2>3. QED
    BY <2>1, <2>2, StaysInOrder
<1>6. CASE OnRequestDeclines
  <2>1. CASE Held(sending) /\ IncrementProvider(sending)
    <3>1. /\ sending \in Requests /\ request[sending].pos # NoEntry /\ alive
          /\ UNCHANGED <<added, alive>>
      BY <1>1, <1>6 DEF OnRequestDeclines, IInv, SendingOK, TypeOK
    <3>2. QED
      BY <2>1, <3>1, IncrementInOrder
  <2>2. QED
    BY <1>2, <1>6, <2>1 DEF OnRequestDeclines
<1>7. CASE ArchiveOnRequest
  BY <1>1, <1>2, <1>7, PostInOrder DEF ArchiveOnRequest
<1>8. ASSUME NEW e \in Entries, ArchiveLoaded(e) PROVE \A r \in Requests : InOrder(r)
  BY <1>1, <1>8, PostInOrder DEF ArchiveLoaded
<1>9. ASSUME NEW r \in Requests, NEW a \in Answers, AnswerOnIOThread(r, a)
      PROVE  \A q \in Requests : InOrder(q)
  BY <1>1, <1>9, PostInOrder DEF AnswerOnIOThread
<1>10. CASE RunTask
  BY <1>10, RunTaskInOrder
<1>11. ASSUME NEW r \in Requests, GetResourceHandler(r) PROVE \A q \in Requests : InOrder(q)
  BY <1>1, <1>11, PhaseInOrder DEF GetResourceHandler
<1>12. ASSUME NEW i, RemoveProviders(i) PROVE \A q \in Requests : InOrder(q)
  BY <1>3, <1>12 DEF RemoveProviders
<1>13. CASE RemoveAllProviders
  BY <1>3, <1>13 DEF RemoveAllProviders
<1>14. ASSUME NEW s \in Shapes, AddProvider(s) PROVE \A q \in Requests : InOrder(q)
  BY <1>2, <1>14 DEF AddProvider
<1>15. CASE OnRequestAccepts
  BY <1>2, <1>15 DEF OnRequestAccepts
<1>16. ASSUME NEW r \in Requests, NEW a \in Answers, AnswerOnOtherThread(r, a)
       PROVE  \A q \in Requests : InOrder(q)
  BY <1>2, <1>16 DEF AnswerOnOtherThread
<1>17. CASE UNCHANGED vars
  BY <1>2, <1>17 DEF vars
<1>18. QED
  BY <1>4, <1>5, <1>6, <1>7, <1>8, <1>9, <1>10, <1>11, <1>12, <1>13, <1>14, <1>15, <1>16, <1>17 DEF Next

(* OfferedInOrder for any number of requests and providers: IncrementProvider *)
(* takes a request forward in the order of the list, to an entry that was not *)
(* removed, past none that is there, whatever AddProvider inserted and        *)
(* RemoveProviders marked or freed while the request waited.                  *)
THEOREM OfferedInOrderHolds == Spec => OfferedInOrder
<1>1. IInv /\ [Next]_vars => [\A r \in Requests : InOrder(r)]_vars
  BY NextInOrder
<1>2. Spec => [][\A r \in Requests : InOrder(r)]_vars
  BY <1>1, Invariance, PTL DEF Spec
<1>3. QED
  BY <1>2 DEF OfferedInOrder, InOrder
=============================================================================
