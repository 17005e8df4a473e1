-------------------------- MODULE StateJournalProofs --------------------------
(***************************************************************************)
(* Proofs about StateJournal for any keys, values, operations and crashes: *)
(* what a replay of the journal computes, and that what was acknowledged   *)
(* is what it yields.                                                      *)
(***************************************************************************)
EXTENDS StateJournal, TLAPS, WellFoundedInduction, SequenceTheorems

(* Induction over the lines of a file, as a statement about sets: a set of *)
(* numbers that is not empty has a least element.                          *)

LEMMA LeastNumber ==
    ASSUME NEW T, T \subseteq Nat, T # {}
    PROVE  \E m \in T : \A n \in T : m <= n
<1> DEFINE R == {ss \in Nat \X Nat : ss[1] < ss[2]}
<1>1. IsWellFoundedOn(R, Nat)
  BY NatLessThanWellFounded DEF OpToRel
<1> HIDE DEF R
<1>2. PICK x \in T : \A y \in T : ~(<<y, x>> \in R)
  BY <1>1, WFMin
<1>3. \A y \in T : ~(y < x)
  BY <1>2 DEF R
<1>4. QED
  BY <1>3

LEMMA NumberInduction ==
    ASSUME NEW T, 0 \in T, \A n \in Nat : n \in T => n + 1 \in T
    PROVE  \A n \in Nat : n \in T
<1>1. SUFFICES ASSUME NEW n \in Nat, n \notin T PROVE FALSE
  OBVIOUS
<1>2. PICK m \in Nat \ T : \A k \in Nat \ T : m <= k
  BY <1>1, LeastNumber
<1>3. m # 0 /\ m - 1 \in Nat
  BY <1>2
<1>4. m - 1 \in T
  BY <1>2, <1>3
<1>5. m = (m - 1) + 1
  BY <1>2
<1>6. QED
  BY <1>2, <1>3, <1>4, <1>5

-----------------------------------------------------------------------------
(* What the loop of ReplayJournal computes.                                *)

Start == [dict |-> EmptyDict, n |-> 0]

\* f has what the loop has after each of the first n lines.
IsReplay(f, lines, n) ==
    f = [i \in 0..n |-> IF i = 0 THEN Start ELSE ApplyLine(f[i - 1], lines[i])]

LEMMA ReplayExists ==
    ASSUME NEW lines, NEW n \in Nat
    PROVE  \E f : IsReplay(f, lines, n)
<1> DEFINE T == {m \in Nat : \E f : IsReplay(f, lines, m)}
<1>1. 0 \in T
  <2> DEFINE g == [i \in 0..0 |-> Start]
  <2>1. IsReplay(g, lines, 0)
    BY DEF IsReplay
  <2>2. QED
    BY <2>1
<1>2. ASSUME NEW m \in Nat, m \in T PROVE m + 1 \in T
  <2>1. PICK f : IsReplay(f, lines, m)
    BY <1>2
  <2> DEFINE g == [i \in 0..(m + 1) |-> IF i = m + 1 THEN ApplyLine(f[m], lines[m + 1]) ELSE f[i]]
  <2>2. \A i \in 0..(m + 1) : g[i] = IF i = 0 THEN Start ELSE ApplyLine(g[i - 1], lines[i])
    <3>1. \A i \in 0..m : f[i] = IF i = 0 THEN Start ELSE ApplyLine(f[i - 1], lines[i])
      BY <2>1 DEF IsReplay
    <3>2. /\ \A i \in 0..m : g[i] = f[i]
          /\ g[m + 1] = ApplyLine(f[m], lines[m + 1])
      OBVIOUS
    <3> HIDE DEF g
    <3>3. \A i \in 1..(m + 1) : i - 1 \in 0..m
      OBVIOUS
    <3>4. QED
      BY <3>1, <3>2, <3>3
  <2>3. g = [i \in 0..(m + 1) |-> g[i]]
    OBVIOUS
  <2> HIDE DEF g
  <2>4. IsReplay(g, lines, m + 1)
    BY <2>2, <2>3 DEF IsReplay
  <2>5. QED
    BY <2>4
<1> HIDE DEF T
<1>3. n \in T
  BY <1>1, <1>2, NumberInduction
<1>4. QED
  BY <1>3 DEF T

LEMMA ReplayIsLoop ==
    ASSUME NEW lines, Len(lines) \in Nat
    PROVE  \E f : IsReplay(f, lines, Len(lines)) /\ ReplayJournal(lines) = f[Len(lines)]
<1> DEFINE f == CHOOSE f : f = [i \in 0..Len(lines) |->
                  IF i = 0 THEN [dict |-> EmptyDict, n |-> 0] ELSE ApplyLine(f[i - 1], lines[i])]
<1>1. IsReplay(f, lines, Len(lines))
  BY ReplayExists DEF IsReplay, Start
<1>2. ReplayJournal(lines) = f[Len(lines)]
  BY DEF ReplayJournal
<1>3. QED
  BY <1>1, <1>2

\* What was replayed of two files agrees for as long as their lines do.
LEMMA ReplayPrefix ==
    ASSUME NEW s, NEW t, NEW f, NEW g, NEW n \in Nat, NEW m \in Nat, n <= m,
           IsReplay(f, s, n), IsReplay(g, t, m), \A i \in 1..n : s[i] = t[i]
    PROVE  f[n] = g[n]
<1> DEFINE T == {i \in Nat : i <= n => f[i] = g[i]}
<1>1. /\ \A i \in 0..n : f[i] = IF i = 0 THEN Start ELSE ApplyLine(f[i - 1], s[i])
      /\ \A i \in 0..m : g[i] = IF i = 0 THEN Start ELSE ApplyLine(g[i - 1], t[i])
  BY DEF IsReplay
<1>2. 0 \in T
  BY <1>1
<1>3. ASSUME NEW i \in Nat, i \in T PROVE i + 1 \in T
  <2>1. SUFFICES ASSUME i + 1 <= n PROVE f[i + 1] = g[i + 1]
    OBVIOUS
  <2>2. i \in 0..n /\ i + 1 \in 0..n /\ i + 1 \in 0..m /\ i + 1 \in 1..n
        /\ i + 1 # 0 /\ (i + 1) - 1 = i
    BY <2>1
  <2>3. f[i] = g[i]
    BY <1>3, <2>1
  <2>4. QED
    BY <1>1, <2>2, <2>3
<1> HIDE DEF T
<1>4. n \in T
  BY <1>2, <1>3, NumberInduction
<1>5. QED
  BY <1>4 DEF T

LEMMA ReplayEmpty == ReplayJournal(<< >>) = Start
<1>1. Len(<< >>) = 0
  OBVIOUS
<1>2. PICK f : IsReplay(f, << >>, 0) /\ ReplayJournal(<< >>) = f[0]
  BY <1>1, ReplayIsLoop
<1>3. QED
  BY <1>2 DEF IsReplay

LEMMA ReplayAppend ==
    ASSUME NEW S, NEW lines \in Seq(S), NEW line \in S
    PROVE  ReplayJournal(Append(lines, line)) = ApplyLine(ReplayJournal(lines), line)
<1> DEFINE t == Append(lines, line)
           n == Len(lines)
<1>1. /\ n \in Nat /\ Len(t) = n + 1 /\ t[n + 1] = line
      /\ \A i \in 1..n : lines[i] = t[i]
  BY AppendProperties
<1> HIDE DEF t, n
<1>2. PICK f : IsReplay(f, lines, n) /\ ReplayJournal(lines) = f[n]
  BY <1>1, ReplayIsLoop DEF n
<1>3. PICK g : IsReplay(g, t, n + 1) /\ ReplayJournal(t) = g[n + 1]
  BY <1>1, ReplayIsLoop
<1>4. f[n] = g[n]
  <2>1. n + 1 \in Nat /\ n <= n + 1
    BY <1>1
  <2>2. IsReplay(f, lines, n) /\ IsReplay(g, t, n + 1) /\ \A i \in 1..n : lines[i] = t[i]
    BY <1>1, <1>2, <1>3
  <2> DEFINE m == n + 1
  <2>3. m \in Nat /\ n \in Nat /\ n <= m /\ IsReplay(g, t, m)
    BY <1>1, <2>1, <2>2
  <2> HIDE DEF m
  <2>4. QED
    BY <2>2, <2>3, ReplayPrefix
<1>5. g[n + 1] = ApplyLine(g[n], t[n + 1])
  <2>1. n + 1 \in 0..(n + 1) /\ n + 1 # 0 /\ (n + 1) - 1 = n
    BY <1>1
  <2>2. QED
    BY <1>3, <2>1 DEF IsReplay
<1>6. QED
  BY <1>1, <1>2, <1>3, <1>4, <1>5 DEF t

\* A last line that does not parse any more counts for nothing.
LEMMA ReplayCorrupted ==
    ASSUME NEW S, NEW lines \in Seq(S), Corrupt \in S, lines # << >>
    PROVE  LET front == SubSeq(lines, 1, Len(lines) - 1)
               last == lines[Len(lines)]
           IN  /\ front \in Seq(S) /\ last \in S
               /\ [lines EXCEPT ![Len(lines)] = Corrupt] = Append(front, Corrupt)
               /\ lines = Append(front, last)
<1> DEFINE n == Len(lines)
           front == SubSeq(lines, 1, n - 1)
<1>1. n \in Nat \ {0} /\ \A i \in 1..n : lines[i] \in S
  BY EmptySeq, ElementOfSeq
<1>2. /\ front \in Seq(S) /\ Len(front) = n - 1 /\ \A i \in 1..(n - 1) : front[i] = lines[i]
  <2>1. 1 \in Int /\ n - 1 \in Int /\ \A i \in 1..(n - 1) : lines[i] \in S
    BY <1>1
  <2>2. /\ front \in Seq(S)
        /\ Len(front) = IF 1 <= n - 1 THEN (n - 1) - 1 + 1 ELSE 0
        /\ \A i \in 1..((n - 1) - 1 + 1) : front[i] = lines[1 + i - 1]
    BY <2>1, SubSeqProperties
  <2> HIDE DEF n, front
  <2>3. /\ (n - 1) - 1 + 1 = n - 1 /\ (~(1 <= n - 1) => n - 1 = 0)
        /\ \A i \in 1..(n - 1) : 1 + i - 1 = i
    <3>1. n \in Nat \ {0}
      BY <1>1
    <3>2. QED
      BY <3>1
  <2>4. QED
    BY <2>2, <2>3
<1>3. lines[n] \in S
  BY <1>1
<1>4. ASSUME NEW l \in S
      PROVE  /\ Append(front, l) \in Seq(S) /\ Len(Append(front, l)) = n
             /\ Append(front, l)[n] = l
             /\ \A i \in 1..(n - 1) : Append(front, l)[i] = lines[i]
  BY <1>1, <1>2, AppendProperties
<1> HIDE DEF front
<1>5. lines = Append(front, lines[n])
  <2>1. \A i \in 1..n : lines[i] = Append(front, lines[n])[i]
    <3>1. \A i \in 1..n : i = n \/ i \in 1..(n - 1)
      BY <1>1
    <3>2. QED
      BY <1>3, <1>4, <3>1
  <2>2. QED
    BY <1>3, <1>4, <2>1, SeqEqual
<1>6. [lines EXCEPT ![n] = Corrupt] = Append(front, Corrupt)
  <2>1. /\ [lines EXCEPT ![n] = Corrupt] \in Seq(S) /\ Len([lines EXCEPT ![n] = Corrupt]) = n
        /\ \A i \in 1..n : [lines EXCEPT ![n] = Corrupt][i] = IF i = n THEN Corrupt ELSE lines[i]
    <3>1. n \in 1..Len(lines)
      BY <1>1
    <3>2. QED
      BY <3>1, ExceptSeq
  <2>2. \A i \in 1..n : [lines EXCEPT ![n] = Corrupt][i] = Append(front, Corrupt)[i]
    <3>1. \A i \in 1..n : i = n \/ i \in 1..(n - 1)
      BY <1>1
    <3>2. QED
      BY <1>4, <2>1, <3>1
  <2>3. QED
    BY <1>4, <2>1, <2>2, SeqEqual
<1>7. QED
  BY <1>2, <1>3, <1>5, <1>6 DEF front

-----------------------------------------------------------------------------
(* Lines and dictionaries.                                                 *)

Replays == [dict : Dicts, n : Nat]

LEMMA Dictionaries ==
    /\ EmptyDict \in Dicts /\ \A k : Lookup(EmptyDict, k) = Absent
    /\ \A d \in Dicts, k \in Keys, v \in Values :
          /\ With(d, k, v) \in Dicts
          /\ \A j : Lookup(With(d, k, v), j) = IF j = k THEN v ELSE Lookup(d, j)
    /\ \A d \in Dicts, k \in Keys :
          /\ Without(d, k) \in Dicts
          /\ \A j : Lookup(Without(d, k), j) = IF j = k THEN Absent ELSE Lookup(d, j)
<1>1. EmptyDict \in Dicts /\ \A k : Lookup(EmptyDict, k) = Absent
  BY DEF EmptyDict, Dicts, Lookup
<1>2. ASSUME NEW d \in Dicts, NEW k \in Keys, NEW v \in Values
      PROVE  /\ With(d, k, v) \in Dicts
             /\ \A j : Lookup(With(d, k, v), j) = IF j = k THEN v ELSE Lookup(d, j)
  <2>1. PICK D \in SUBSET Keys : d \in [D -> Values]
    BY DEF Dicts
  <2>2. With(d, k, v) \in [D \cup {k} -> Values]
    BY <2>1 DEF With
  <2>3. QED
    BY <2>1, <2>2 DEF Dicts, With, Lookup
<1>3. ASSUME NEW d \in Dicts, NEW k \in Keys
      PROVE  /\ Without(d, k) \in Dicts
             /\ \A j : Lookup(Without(d, k), j) = IF j = k THEN Absent ELSE Lookup(d, j)
  <2>1. PICK D \in SUBSET Keys : d \in [D -> Values]
    BY DEF Dicts
  <2>2. Without(d, k) \in [D \ {k} -> Values]
    BY <2>1 DEF Without
  <2>3. QED
    BY <2>1, <2>2 DEF Dicts, Without, Lookup
<1>4. QED
  BY <1>1, <1>2, <1>3

\* What one line does to what was replayed before it.
LEMMA OperationLine ==
    ASSUME NEW acc \in Replays, NEW line \in Operations
    PROVE  /\ ApplyLine(acc, line) \in Replays /\ line.key \in Keys /\ line \in Lines
           /\ ApplyLine(acc, line).n = acc.n + 1
           /\ Promise(line) \in Values \cup {Absent}
           /\ \A k : Lookup(ApplyLine(acc, line).dict, k) =
                       IF k = line.key THEN Promise(line) ELSE Lookup(acc.dict, k)
<1>1. CASE \E k \in Keys, v \in Values : line = BuildSetLine(k, v)
  <2>1. PICK k \in Keys, v \in Values : line = BuildSetLine(k, v)
    BY <1>1
  <2>2. line.op = "set" /\ line.key = k /\ line.value = v
    BY <2>1 DEF BuildSetLine
  <2>3. ApplyLine(acc, line) = [dict |-> With(acc.dict, k, v), n |-> acc.n + 1]
    BY <2>2 DEF ApplyLine
  <2>4. Promise(line) = v
    BY <2>2 DEF Promise
  <2>5. QED
    BY <2>2, <2>3, <2>4, Dictionaries DEF Replays, Operations
<1>2. CASE \E k \in Keys : line = BuildDeleteLine(k)
  <2>1. PICK k \in Keys : line = BuildDeleteLine(k)
    BY <1>2
  <2>2. line.op = "delete" /\ line.key = k
    BY <2>1 DEF BuildDeleteLine
  <2>3. ApplyLine(acc, line) = [dict |-> Without(acc.dict, k), n |-> acc.n + 1]
    BY <2>2 DEF ApplyLine
  <2>4. Promise(line) = Absent
    BY <2>2 DEF Promise
  <2>5. QED
    BY <2>2, <2>3, <2>4, Dictionaries DEF Replays, Operations
<1>3. QED
  BY <1>1, <1>2 DEF Operations, Lines, BuildSnapshotLine, Corrupt

LEMMA OtherLines ==
    /\ Corrupt \in Lines /\ \A acc : ApplyLine(acc, Corrupt) = acc
    /\ \A d \in Dicts : /\ BuildSnapshotLine(d) \in Lines
                        /\ \A acc : ApplyLine(acc, BuildSnapshotLine(d)) = [dict |-> d, n |-> 0]
BY DEF Lines, Corrupt, ApplyLine, BuildSnapshotLine

LEMMA LineKinds ==
    ASSUME NEW line \in Lines
    PROVE  \/ line \in Operations \/ line = Corrupt
           \/ \E d \in Dicts : line = BuildSnapshotLine(d)
BY DEF Lines, Operations, BuildSetLine, BuildDeleteLine

LEMMA ReplayType ==
    ASSUME NEW lines \in Seq(Lines)
    PROVE  ReplayJournal(lines) \in Replays
<1> DEFINE n == Len(lines)
<1>1. n \in Nat /\ \A i \in 1..n : lines[i] \in Lines
  BY ElementOfSeq
<1>2. PICK f : IsReplay(f, lines, n) /\ ReplayJournal(lines) = f[n]
  BY <1>1, ReplayIsLoop
<1> HIDE DEF n
<1>3. \A i \in 0..n : f[i] = IF i = 0 THEN Start ELSE ApplyLine(f[i - 1], lines[i])
  BY <1>2 DEF IsReplay
<1> DEFINE T == {i \in Nat : i <= n => f[i] \in Replays}
<1>4. 0 \in T
  <2>1. f[0] = Start
    BY <1>1, <1>3
  <2>2. Start \in Replays
    BY Dictionaries DEF Start, Replays
  <2>3. QED
    BY <2>1, <2>2
<1>5. ASSUME NEW i \in Nat, i \in T PROVE i + 1 \in T
  <2>1. SUFFICES ASSUME i + 1 <= n PROVE f[i + 1] \in Replays
    OBVIOUS
  <2>2. i + 1 \in 0..n /\ i + 1 \in 1..n /\ i + 1 # 0 /\ (i + 1) - 1 = i
    BY <1>1, <2>1
  <2>3. f[i] \in Replays
    BY <1>1, <1>5, <2>1
  <2>4. f[i + 1] = ApplyLine(f[i], lines[i + 1]) /\ lines[i + 1] \in Lines
    BY <1>1, <1>3, <2>2
  <2>5. \A acc \in Replays, line \in Lines : ApplyLine(acc, line) \in Replays
    <3>1. TAKE acc \in Replays, line \in Lines
    <3>2. CASE line \in Operations
      BY <3>2, OperationLine
    <3>3. CASE line = Corrupt
      BY <3>3, OtherLines
    <3>4. CASE \E d \in Dicts : line = BuildSnapshotLine(d)
      BY <3>4, OtherLines DEF Replays
    <3>5. QED
      BY <3>2, <3>3, <3>4, LineKinds
  <2>6. QED
    BY <2>3, <2>4, <2>5
<1> HIDE DEF T
<1>6. n \in T
  BY <1>1, <1>4, <1>5, NumberInduction
<1>7. QED
  BY <1>1, <1>2, <1>6 DEF T
-----------------------------------------------------------------------------
(* The inductive invariant.                                                *)

Files == [exists : BOOLEAN, lines : Seq(Lines), unterminated : BOOLEAN]
Acks == [value : Values \cup {Absent, Unknown}, clean : BOOLEAN]

\* v is what the acknowledgement a promised, if it is one to rely on.
Kept(a, v) == a.clean /\ a.value # Unknown => v = a.value

\* The dictionary d keeps the promises a.
Keeps(d, a) == \A k \in Keys : Kept(a[k], Lookup(d, k))

\* What lacks its newline is a truncated line, or an operation that was not
\* acknowledged since: the next append destroys it.
TornOK(f, a) ==
    f.unterminated =>
        /\ f.lines # << >>
        /\ LET last == f.lines[Len(f.lines)] IN
              last = Corrupt \/ (last \in Operations /\ ~a[last.key].clean)

FileOK(f, a) == TornOK(f, a) /\ Keeps(ReplayJournal(f.lines).dict, a)

\* The dictionary in memory keeps the promises of the file it stands for,
\* which is an open file, or the file an Initialize would not replay.
MemoryOK(p) == is_open_ \/ file[p].lines = << >> => Keeps(state_, acked[p])

IInv == TypeOK /\ \A p \in Paths : FileOK(file[p], acked[p]) /\ MemoryOK(p)

(* One object, one journal: the object is never opened on a second path.   *)
(* An Initialize on a path without a file keeps the dictionary in memory,  *)
(* so with two paths the dictionary of one file ends up in the other.      *)
OnePath == \A p, q \in Paths : p = q

\* The invariants of a journal whose only fault is an append that fails.
Terminated == \A p \in Paths : ~file[p].unterminated
AckedIsClean == \A p \in Paths, k \in Keys : acked[p][k].value # Unknown => acked[p][k].clean

CountOK(p) ==
    LET n == ReplayJournal(file[p].lines).n IN
        /\ is_open_ \/ file[p].lines = << >> => pending_ops_ = n
        /\ Len(file[p].lines) <= n + 1

Limits == Thresholds \cup {DefaultThreshold}
BoundOK(f, c) == \E t \in Limits : Len(f.lines) <= t + c

CountInv ==
    compaction_threshold_ \in Limits /\ \A p \in Paths : CountOK(p) /\ BoundOK(file[p], crashes)

-----------------------------------------------------------------------------
(* What an append does to the file.                                        *)

LEMMA AppendedFile ==
    ASSUME NEW f \in Files, f.unterminated => f.lines # << >>,
           NEW line \in Lines, NEW extent \in Extents \ {"none"}
    PROVE  LET g == AppendLine(f, line, extent)
               l == IF extent = "part" THEN Corrupt ELSE line
           IN  /\ g \in Files /\ g.unterminated = (extent # "full")
               /\ g.lines = IF f.unterminated THEN [f.lines EXCEPT ![Len(f.lines)] = Corrupt]
                                              ELSE Append(f.lines, l)
<1> DEFINE l == IF extent = "part" THEN Corrupt ELSE line
           changed == IF f.unterminated THEN [f.lines EXCEPT ![Len(f.lines)] = Corrupt]
                                        ELSE Append(f.lines, l)
<1>1. l \in Lines /\ f.lines \in Seq(Lines) /\ Corrupt \in Lines
  BY OtherLines DEF Files
<1>2. changed \in Seq(Lines)
  <2>1. CASE f.unterminated
    <3>1. Len(f.lines) \in 1..Len(f.lines)
      BY <1>1, <2>1, EmptySeq, LenProperties
    <3>2. QED
      BY <1>1, <2>1, <3>1, ExceptSeq
  <2>2. CASE ~f.unterminated
    BY <1>1, <2>2, AppendProperties
  <2>3. QED
    BY <2>1, <2>2
<1>3. Joined(f, l) = [f EXCEPT !.lines = changed]
  BY DEF Joined, Files
<1> HIDE DEF l, changed
<1>4. AppendLine(f, line, extent) = [exists |-> TRUE, lines |-> changed,
                                     unterminated |-> (extent # "full")]
  BY <1>3 DEF AppendLine, Files, l
<1>5. QED
  BY <1>2, <1>4 DEF Files, changed, l

\* Which line an append adds, and which one it destroys.
LEMMA AppendEffect ==
    ASSUME NEW f \in Files, NEW a, TornOK(f, a),
           NEW line \in Operations, NEW extent \in Extents
    PROVE  LET g == AppendLine(f, line, extent)
               before == ReplayJournal(f.lines)
               after == ReplayJournal(g.lines)
           IN  \/ extent = "none" /\ g = f
               \/ /\ extent # "none" /\ g \in Files /\ g.unterminated = (extent # "full")
                  /\ g.lines # << >> /\ g.lines[Len(g.lines)] \in {line, Corrupt}
                  /\ before \in Replays /\ after \in Replays
                  /\ \/ /\ ~f.unterminated /\ extent # "part" /\ after = ApplyLine(before, line)
                        /\ Len(g.lines) = Len(f.lines) + 1
                     \/ ~f.unterminated /\ extent = "part" /\ after = before
                     \/ /\ f.unterminated /\ g.lines[Len(g.lines)] = Corrupt
                        /\ \A k \in Keys : a[k].clean => Lookup(after.dict, k) = Lookup(before.dict, k)
<1> DEFINE g == AppendLine(f, line, extent)
           before == ReplayJournal(f.lines)
           after == ReplayJournal(g.lines)
           l == IF extent = "part" THEN Corrupt ELSE line
<1>1. CASE extent = "none"
  BY <1>1 DEF AppendLine
<1>2. CASE extent # "none"
  <2>1. line \in Lines /\ Corrupt \in Lines /\ l \in {line, Corrupt} /\ l \in Lines
        /\ f.lines \in Seq(Lines) /\ (f.unterminated => f.lines # << >>)
    BY OtherLines DEF Operations, TornOK, Files
  <2>2. /\ g \in Files /\ g.unterminated = (extent # "full")
        /\ g.lines = IF f.unterminated THEN [f.lines EXCEPT ![Len(f.lines)] = Corrupt]
                                       ELSE Append(f.lines, l)
    BY <1>2, <2>1, AppendedFile
  <2>3. g.lines \in Seq(Lines)
    BY <2>2 DEF Files
  <2>4. before \in Replays /\ after \in Replays
    BY <2>1, <2>3, ReplayType
  <2>5. CASE ~f.unterminated
    <3>1. g.lines = Append(f.lines, l)
      BY <2>2, <2>5
    <3>2. after = ApplyLine(before, l)
      BY <2>1, <3>1, ReplayAppend
    <3>3. Len(g.lines) = Len(f.lines) + 1 /\ g.lines[Len(g.lines)] = l /\ g.lines # << >>
      BY <2>1, <3>1, AppendProperties
    <3>4. extent = "part" => after = before
      BY <3>2, OtherLines
    <3>5. extent # "part" => after = ApplyLine(before, line)
      BY <3>2
    <3> HIDE DEF g, before, after, l
    <3>6. g.lines # << >> /\ g.lines[Len(g.lines)] \in {line, Corrupt}
      BY <2>1, <3>3
    <3>7. QED
      BY <1>2, <2>2, <2>4, <2>5, <3>3, <3>4, <3>5, <3>6 DEF g, before, after
  <2>6. CASE f.unterminated
    <3> DEFINE front == SubSeq(f.lines, 1, Len(f.lines) - 1)
               last == f.lines[Len(f.lines)]
               kept == ReplayJournal(front)
    <3>1. g.lines = [f.lines EXCEPT ![Len(f.lines)] = Corrupt] /\ f.lines # << >>
      BY <2>1, <2>2, <2>6
    <3>2. /\ front \in Seq(Lines) /\ last \in Lines
          /\ g.lines = Append(front, Corrupt) /\ f.lines = Append(front, last)
      BY <2>1, <3>1, ReplayCorrupted
    <3> HIDE DEF front, last
    <3>3. after = ApplyLine(kept, Corrupt) /\ before = ApplyLine(kept, last) /\ kept \in Replays
      BY <2>1, <3>2, ReplayAppend, ReplayType
    <3>4. after = kept
      BY <3>3, OtherLines
    <3>5. g.lines[Len(g.lines)] = Corrupt /\ g.lines # << >>
      BY <2>1, <3>2, AppendProperties
    <3>6. last = Corrupt \/ (last \in Operations /\ ~a[last.key].clean)
      BY <2>6 DEF TornOK, last
    <3>7. ASSUME NEW k \in Keys, a[k].clean
          PROVE  Lookup(after.dict, k) = Lookup(before.dict, k)
      <4>1. CASE last = Corrupt
        BY <3>3, <3>4, <4>1, OtherLines
      <4>2. CASE last \in Operations /\ ~a[last.key].clean
        <5>1. k # last.key
          BY <3>7, <4>2
        <5>2. Lookup(ApplyLine(kept, last).dict, k) = Lookup(kept.dict, k)
          BY ZenonT(40), <3>3, <4>2, <5>1, OperationLine
        <5>3. QED
          BY <3>3, <3>4, <5>2
      <4>3. QED
        BY <3>6, <4>1, <4>2
    <3> HIDE DEF g, before, after
    <3>8. QED
      BY <1>2, <2>2, <2>4, <2>6, <3>5, <3>7 DEF g, before, after
  <2>7. f.unterminated \in BOOLEAN
    BY DEF Files
  <2>8. QED
    BY <2>5, <2>6, <2>7
<1>3. QED
  BY <1>1, <1>2

\* An append and the acknowledgement it earns keep the promises of the file.
LEMMA RecordStep ==
    ASSUME NEW f \in Files, NEW a \in [Keys -> Acks], FileOK(f, a),
           NEW line \in Operations, NEW extent \in Extents, NEW ack \in Acks,
           ack.clean => extent = "full" /\ ack.value = Promise(line) /\ ~f.unterminated
    PROVE  LET g == AppendLine(f, line, extent) IN
             g \in Files /\ FileOK(g, [a EXCEPT ![line.key] = ack])
<1> DEFINE g == AppendLine(f, line, extent)
           b == [a EXCEPT ![line.key] = ack]
           before == ReplayJournal(f.lines)
           after == ReplayJournal(g.lines)
<1>1. line.key \in Keys /\ before \in Replays
  BY OperationLine, ReplayType, Dictionaries DEF Files, Replays, Start
<1>2. b[line.key] = ack /\ \A k \in Keys : k # line.key => b[k] = a[k]
  BY <1>1
<1>3. TornOK(f, a) /\ Keeps(before.dict, a)
  BY DEF FileOK
<1> HIDE DEF b
<1>4. CASE extent = "none"
  <2>1. g = f /\ ~ack.clean
    BY <1>4 DEF AppendLine
  <2>2. TornOK(f, b)
    <3>1. ASSUME f.unterminated, f.lines[Len(f.lines)] # Corrupt
          PROVE  f.lines[Len(f.lines)] \in Operations /\ ~b[f.lines[Len(f.lines)].key].clean
      <4>1. f.lines[Len(f.lines)] \in Operations /\ ~a[f.lines[Len(f.lines)].key].clean
        BY <1>3, <3>1 DEF TornOK
      <4>2. f.lines[Len(f.lines)].key \in Keys
        BY <1>1, <4>1, OperationLine
      <4>3. QED
        BY <1>2, <2>1, <4>1, <4>2
    <3>2. QED
      BY <1>3, <3>1 DEF TornOK
  <2>3. Keeps(before.dict, b)
    BY <1>2, <1>3, <2>1 DEF Keeps, Kept
  <2>4. QED
    BY <2>1, <2>2, <2>3 DEF FileOK, b
<1>5. CASE extent # "none"
  <2>1. /\ g \in Files /\ g.unterminated = (extent # "full")
        /\ g.lines # << >> /\ g.lines[Len(g.lines)] \in {line, Corrupt}
        /\ after \in Replays
        /\ \/ ~f.unterminated /\ extent # "part" /\ after = ApplyLine(before, line)
           \/ ~f.unterminated /\ extent = "part" /\ after = before
           \/ /\ f.unterminated
              /\ \A k \in Keys : a[k].clean => Lookup(after.dict, k) = Lookup(before.dict, k)
    BY <1>3, <1>5, AppendEffect
  <2> HIDE DEF g, before, after
  <2>2. TornOK(g, b)
    BY <1>1, <1>2, <2>1 DEF TornOK
  <2>3. \A k : Lookup(ApplyLine(before, line).dict, k) =
                  IF k = line.key THEN Promise(line) ELSE Lookup(before.dict, k)
    BY <1>1, OperationLine
  <2>4. ASSUME NEW k \in Keys PROVE Kept(b[k], Lookup(after.dict, k))
    <3>1. CASE k = line.key
      BY <1>2, <2>1, <2>3, <3>1 DEF Kept
    <3>2. CASE k # line.key
      <4>1. b[k] = a[k] /\ Kept(a[k], Lookup(before.dict, k))
        BY <1>2, <1>3, <3>2 DEF Keeps
      <4>2. a[k].clean => Lookup(after.dict, k) = Lookup(before.dict, k)
        BY <2>1, <2>3, <3>2
      <4>3. QED
        BY <4>1, <4>2 DEF Kept
    <3>3. QED
      BY <3>1, <3>2
  <2>5. QED
    BY <2>1, <2>2, <2>4 DEF FileOK, Keeps, b, g, after
<1>6. QED
  BY <1>4, <1>5

\* The dictionary in memory follows, whether or not the append succeeds.
LEMMA MemoryStep ==
    ASSUME NEW d \in Dicts, NEW a \in [Keys -> Acks], NEW line \in Operations, NEW ack \in Acks,
           ack.clean => ack.value = Promise(line)
    PROVE  /\ Updated(d, line) \in Dicts
           /\ Keeps(d, a) => Keeps(Updated(d, line), [a EXCEPT ![line.key] = ack])
<1> DEFINE acc == [dict |-> d, n |-> 0]
           b == [a EXCEPT ![line.key] = ack]
<1>1. acc \in Replays
  BY DEF Replays
<1>2. acc.dict = d
  OBVIOUS
<1> HIDE DEF acc
<1>3. /\ ApplyLine(acc, line) \in Replays /\ line.key \in Keys
      /\ \A k : Lookup(ApplyLine(acc, line).dict, k) =
                  IF k = line.key THEN Promise(line) ELSE Lookup(acc.dict, k)
  BY <1>1, OperationLine
<1>4. Updated(d, line) = ApplyLine(acc, line).dict
  BY DEF Updated, acc
<1>5. b[line.key] = ack /\ \A k \in Keys : k # line.key => b[k] = a[k]
  BY <1>3
<1> HIDE DEF b
<1>6. Updated(d, line) \in Dicts
  BY <1>3, <1>4 DEF Replays
<1>7. ASSUME Keeps(d, a), NEW k \in Keys PROVE Kept(b[k], Lookup(Updated(d, line), k))
  BY <1>2, <1>3, <1>4, <1>5, <1>7 DEF Keeps, Kept
<1>8. QED
  BY <1>6, <1>7 DEF Keeps, b

\* A compacted journal replays to the dictionary it was written from.
LEMMA SnapshotFile ==
    ASSUME NEW d \in Dicts
    PROVE  LET g == WriteCompactedSnapshot(d) IN
             /\ g \in Files /\ ~g.unterminated /\ Len(g.lines) = 1
             /\ ReplayJournal(g.lines) = [dict |-> d, n |-> 0]
             /\ \A a : Keeps(d, a) => FileOK(g, a)
<1> DEFINE line == BuildSnapshotLine(d)
           g == WriteCompactedSnapshot(d)
<1>1. line \in Lines
  BY OtherLines
<1>2. g \in Files /\ ~g.unterminated /\ Len(g.lines) = 1 /\ g.lines = <<line>>
  BY <1>1 DEF WriteCompactedSnapshot, Files
<1>3. ReplayJournal(g.lines) = [dict |-> d, n |-> 0]
  <2>1. << >> \in Seq(Lines) /\ <<line>> = Append(<< >>, line)
    BY <1>1
  <2>2. ReplayJournal(<<line>>) = ApplyLine(ReplayJournal(<< >>), line)
    BY <1>1, <2>1, ReplayAppend
  <2>3. QED
    BY <1>2, <2>2, OtherLines
<1> HIDE DEF g
<1>4. QED
  BY <1>2, <1>3 DEF FileOK, TornOK, g

LEMMA EmptyFile ==
    ASSUME NEW f, NEW a, FileOK(f, a), f.lines = << >>
    PROVE  Keeps(EmptyDict, a)
BY ReplayEmpty DEF FileOK, Start

-----------------------------------------------------------------------------
(* A step that writes the journal, from what it makes of one file and its  *)
(* acknowledgements to the invariant.                                      *)

LEMMA WriteStep ==
    ASSUME OnePath, IInv, journal_path_ \in Paths,
           NEW g \in Files, NEW b \in [Keys -> Acks], FileOK(g, b),
           file' = [file EXCEPT ![journal_path_] = g],
           acked' = [acked EXCEPT ![journal_path_] = b],
           journal_path_' \in Paths \cup {NoPath}, is_open_' \in BOOLEAN,
           is_open_' => journal_path_' \in Paths,
           state_' \in Dicts, pending_ops_' \in Nat, compaction_threshold_' \in Nat,
           ops' \in 0..MaxOps, crashes' \in 0..MaxCrashes,
           is_open_' \/ g.lines = << >> => Keeps(state_', b)
    PROVE  IInv'
<1>1. file \in [Paths -> Files] /\ acked \in [Paths -> [Keys -> Acks]]
  BY DEF IInv, TypeOK, Files, Acks
<1>2. file' \in [Paths -> Files] /\ acked' \in [Paths -> [Keys -> Acks]]
  BY <1>1
<1>3. TypeOK'
  BY <1>2 DEF TypeOK, Files, Acks
<1>4. ASSUME NEW p \in Paths PROVE file'[p] = g /\ acked'[p] = b
  BY <1>1 DEF OnePath
<1>5. ASSUME NEW p \in Paths PROVE FileOK(file'[p], acked'[p]) /\ MemoryOK(p)'
  <2>1. file'[p] = g /\ acked'[p] = b
    BY <1>4
  <2>2. MemoryOK(p)'
    BY <2>1 DEF MemoryOK
  <2>3. QED
    BY <2>1, <2>2
<1>6. QED
  BY <1>3, <1>5 DEF IInv

\* A step that leaves files and acknowledgements alone.
LEMMA ObjectStep ==
    ASSUME IInv, file' = file, acked' = acked,
           journal_path_' \in Paths \cup {NoPath}, is_open_' \in BOOLEAN,
           is_open_' => journal_path_' \in Paths,
           state_' \in Dicts, pending_ops_' \in Nat, compaction_threshold_' \in Nat,
           ops' \in 0..MaxOps, crashes' \in 0..MaxCrashes,
           \A p \in Paths : is_open_' \/ file[p].lines = << >> => Keeps(state_', acked[p])
    PROVE  IInv'
<1>1. TypeOK'
  BY DEF IInv, TypeOK
<1>2. ASSUME NEW p \in Paths PROVE FileOK(file'[p], acked'[p]) /\ MemoryOK(p)'
  BY DEF IInv, MemoryOK
<1>3. QED
  BY <1>1, <1>2 DEF IInv

LEMMA Recorded ==
    ASSUME IInv, journal_path_ \in Paths, NEW line \in Operations, NEW ack \in Acks
    PROVE  /\ [acked[journal_path_] EXCEPT ![line.key] = ack] \in [Keys -> Acks]
           /\ [acked EXCEPT ![journal_path_][line.key] = ack]
                = [acked EXCEPT ![journal_path_] = [acked[journal_path_] EXCEPT ![line.key] = ack]]
<1>1. acked \in [Paths -> [Keys -> Acks]] /\ line.key \in Keys
  BY OperationLine, Dictionaries DEF IInv, TypeOK, Acks, Operations, Lines, BuildSetLine,
     BuildDeleteLine, BuildSnapshotLine, Corrupt
<1>2. QED
  BY <1>1

\* The parts of the invariant that the actions on an open journal start from.
LEMMA OpenFacts ==
    ASSUME IInv, is_open_
    PROVE  LET j == journal_path_ IN
             /\ j \in Paths /\ file[j] \in Files /\ acked[j] \in [Keys -> Acks]
             /\ file[j].unterminated \in BOOLEAN
             /\ FileOK(file[j], acked[j]) /\ Keeps(state_, acked[j])
             /\ state_ \in Dicts /\ pending_ops_ \in Nat /\ compaction_threshold_ \in Nat
BY DEF IInv, TypeOK, MemoryOK, Files, Acks

LEMMA CommitStep ==
    ASSUME OnePath, IInv, NEW line \in Operations, Commit(line)
    PROVE  IInv'
<1> DEFINE j == journal_path_
           f == file[j]
           g == AppendLine(f, line, "full")
           ack == [value |-> Promise(line), clean |-> ~f.unterminated]
           b == [acked[j] EXCEPT ![line.key] = ack]
<1>1. is_open_ /\ ops < MaxOps
  BY DEF Commit
<1>2. /\ j \in Paths /\ f \in Files /\ acked[j] \in [Keys -> Acks] /\ f.unterminated \in BOOLEAN
      /\ FileOK(f, acked[j]) /\ Keeps(state_, acked[j])
      /\ state_ \in Dicts /\ pending_ops_ \in Nat /\ compaction_threshold_ \in Nat
  BY <1>1, OpenFacts
<1>3. ack \in Acks /\ (ack.clean => ack.value = Promise(line) /\ ~f.unterminated)
  <2>1. Start \in Replays
    BY Dictionaries DEF Start, Replays
  <2>2. Promise(line) \in Values \cup {Absent}
    BY <2>1, OperationLine
  <2>3. (~f.unterminated) \in BOOLEAN
    BY <1>2
  <2>4. QED
    BY <2>2, <2>3 DEF Acks
<1>4. b \in [Keys -> Acks] /\ acked' = [acked EXCEPT ![j] = b]
  BY <1>2, <1>3, Recorded DEF Commit, Record
<1>5. g \in Files /\ FileOK(g, b)
  BY <1>2, <1>3, RecordStep DEF Extents
<1>6. state_' = Updated(state_, line) /\ state_' \in Dicts /\ Keeps(state_', b)
  BY <1>2, <1>3, MemoryStep DEF Commit
<1>7. /\ journal_path_' = j /\ is_open_' /\ compaction_threshold_' = compaction_threshold_
      /\ ops' = ops + 1 /\ crashes' = crashes /\ ops' \in 0..MaxOps /\ crashes' \in 0..MaxCrashes
  BY <1>1, ConstantsAssumption DEF Commit, IInv, TypeOK
<1>8. \/ file' = [file EXCEPT ![j] = WriteCompactedSnapshot(state_')] /\ pending_ops_' = 0
      \/ file' = [file EXCEPT ![j] = g] /\ pending_ops_' = pending_ops_ + 1
  BY DEF Commit
<1>9. \E h \in Files : FileOK(h, b) /\ file' = [file EXCEPT ![j] = h] /\ pending_ops_' \in Nat
  <2>1. WriteCompactedSnapshot(state_') \in Files /\ FileOK(WriteCompactedSnapshot(state_'), b)
    BY <1>6, SnapshotFile
  <2>2. pending_ops_' \in Nat
    BY <1>2, <1>8
  <2>3. QED
    BY <1>5, <1>8, <2>1, <2>2
<1> HIDE DEF b
<1>10. QED
  BY <1>1, <1>2, <1>4, <1>6, <1>7, <1>9, WriteStep

LEMMA AppendFailsStep ==
    ASSUME OnePath, IInv, NEW line \in Operations, AppendFails(line)
    PROVE  IInv'
<1> DEFINE j == journal_path_
           ack == [value |-> Unknown, clean |-> FALSE]
           b == [acked[j] EXCEPT ![line.key] = ack]
<1>1. is_open_ /\ ops < MaxOps
  BY DEF AppendFails
<1>2. /\ j \in Paths /\ file[j] \in Files /\ acked[j] \in [Keys -> Acks]
      /\ FileOK(file[j], acked[j]) /\ Keeps(state_, acked[j])
      /\ state_ \in Dicts /\ pending_ops_ \in Nat /\ compaction_threshold_ \in Nat
  BY <1>1, OpenFacts
<1>3. ack \in Acks /\ ~ack.clean
  BY DEF Acks
<1>4. b \in [Keys -> Acks] /\ acked' = [acked EXCEPT ![j] = b]
  BY <1>2, <1>3, Recorded DEF AppendFails, Record
<1>5. \E g \in Files : FileOK(g, b) /\ file' = [file EXCEPT ![j] = g]
  <2>1. PICK extent \in FailedExtents :
            file' = [file EXCEPT ![j] = AppendLine(file[j], line, extent)]
    BY DEF AppendFails
  <2>2. extent \in Extents
    BY DEF FailedExtents, Extents
  <2>3. QED
    BY <1>2, <1>3, <2>1, <2>2, RecordStep
<1>6. state_' \in Dicts /\ Keeps(state_', b)
  BY <1>2, <1>3, MemoryStep DEF AppendFails
<1>7. /\ journal_path_' = j /\ is_open_' /\ compaction_threshold_' = compaction_threshold_
      /\ pending_ops_' = pending_ops_ /\ ops' \in 0..MaxOps /\ crashes' \in 0..MaxCrashes
  BY <1>1, ConstantsAssumption DEF AppendFails, IInv, TypeOK
<1> HIDE DEF b
<1>8. QED
  BY <1>1, <1>2, <1>4, <1>5, <1>6, <1>7, WriteStep

LEMMA CrashDuringStep ==
    ASSUME OnePath, IInv, NEW line \in Operations, CrashDuring(line)
    PROVE  IInv'
<1> DEFINE j == journal_path_
           ack == [value |-> Unknown, clean |-> FALSE]
           b == [acked[j] EXCEPT ![line.key] = ack]
<1>1. is_open_ /\ ops < MaxOps /\ crashes < MaxCrashes
  BY DEF CrashDuring
<1>2. /\ j \in Paths /\ file[j] \in Files /\ acked[j] \in [Keys -> Acks]
      /\ FileOK(file[j], acked[j]) /\ Keeps(state_, acked[j]) /\ state_ \in Dicts
  BY <1>1, OpenFacts
<1>3. ack \in Acks /\ ~ack.clean
  BY DEF Acks
<1>4. b \in [Keys -> Acks] /\ acked' = [acked EXCEPT ![j] = b]
  BY <1>2, <1>3, Recorded DEF CrashDuring, Record
<1>5. PICK g \in Files : FileOK(g, b) /\ file' = [file EXCEPT ![j] = g]
  <2>1. CASE \E extent \in {"none", "full"} \cup (FailedExtents \ {"none"}) :
            file' = [file EXCEPT ![j] = AppendLine(file[j], line, extent)]
    <3>1. PICK extent \in {"none", "full"} \cup (FailedExtents \ {"none"}) :
              file' = [file EXCEPT ![j] = AppendLine(file[j], line, extent)]
      BY <2>1
    <3>2. extent \in Extents
      BY DEF FailedExtents, Extents
    <3>3. QED
      BY <1>2, <1>3, <3>1, <3>2, RecordStep
  <2>2. CASE file' = [file EXCEPT ![j] = WriteCompactedSnapshot(Updated(state_, line))]
    <3>1. Updated(state_, line) \in Dicts /\ Keeps(Updated(state_, line), b)
      BY <1>2, <1>3, MemoryStep
    <3>2. QED
      BY <2>2, <3>1, SnapshotFile
  <2>3. QED
    BY <2>1, <2>2 DEF CrashDuring
<1>6. /\ journal_path_' = NoPath /\ is_open_' = FALSE /\ state_' = EmptyDict /\ pending_ops_' = 0
      /\ compaction_threshold_' \in Nat /\ ops' \in 0..MaxOps /\ crashes' \in 0..MaxCrashes
  BY <1>1, ConstantsAssumption DEF CrashDuring, NewObject, IInv, TypeOK
<1>7. g.lines = << >> => Keeps(EmptyDict, b)
  BY <1>5, EmptyFile
<1>8. EmptyDict \in Dicts
  BY Dictionaries
<1> HIDE DEF b
<1>9. QED
  BY <1>1, <1>2, <1>4, <1>5, <1>6, <1>7, <1>8, WriteStep

LEMMA InitializeStep ==
    ASSUME OnePath, IInv, NEW p \in Paths, Initialize(p)
    PROVE  IInv'
<1>1. /\ file' = file /\ journal_path_' = p /\ is_open_' /\ compaction_threshold_' \in Nat
      /\ ops' \in 0..MaxOps /\ crashes' \in 0..MaxCrashes
  BY DEF Initialize, IInv, TypeOK
<1>2. /\ file[p] \in Files /\ FileOK(file[p], acked[p]) /\ MemoryOK(p)
      /\ acked \in [Paths -> [Keys -> Acks]] /\ state_ \in Dicts /\ pending_ops_ \in Nat
  BY DEF IInv, TypeOK, Files, Acks
<1>3. CASE file[p].lines = << >> /\ UNCHANGED <<state_, pending_ops_, acked>>
  <2>1. Keeps(state_, acked[p])
    BY <1>2, <1>3 DEF MemoryOK
  <2>2. \A q \in Paths : Keeps(state_', acked[q])
    BY <1>3, <2>1 DEF OnePath
  <2>3. QED
    BY <1>1, <1>2, <1>3, <2>2, ObjectStep
<1>4. CASE /\ state_' = ReplayJournal(file[p].lines).dict
           /\ pending_ops_' = ReplayJournal(file[p].lines).n /\ UNCHANGED acked
  <2>1. ReplayJournal(file[p].lines) \in Replays
    BY <1>2, ReplayType DEF Files
  <2>2. state_' \in Dicts /\ pending_ops_' \in Nat /\ Keeps(state_', acked[p])
    BY <1>2, <1>4, <2>1 DEF Replays, FileOK
  <2>3. \A q \in Paths : Keeps(state_', acked[q])
    BY <2>2 DEF OnePath
  <2>4. QED
    BY <1>1, <1>4, <2>2, <2>3, ObjectStep
<1>5. CASE /\ state_' = EmptyDict /\ pending_ops_' = 0
           /\ acked' = [acked EXCEPT ![p] = [k \in Keys |-> [acked[p][k] EXCEPT !.clean = FALSE]]]
  <2> DEFINE b == [k \in Keys |-> [acked[p][k] EXCEPT !.clean = FALSE]]
  <2>1. b \in [Keys -> Acks] /\ \A k \in Keys : ~b[k].clean
    BY ZenonT(40), <1>2 DEF Acks
  <2>2. acked' = [acked EXCEPT ![p] = b]
    BY <1>5
  <2> HIDE DEF b
  <2>3. FileOK(file[p], b)
    <3>1. ASSUME NEW last \in Operations PROVE ~b[last.key].clean
      <4>1. Start \in Replays
        BY Dictionaries DEF Start, Replays
      <4>2. last.key \in Keys
        BY <4>1, OperationLine
      <4>3. QED
        BY <2>1, <4>2
    <3>2. TornOK(file[p], b)
      BY <1>2, <3>1 DEF FileOK, TornOK
    <3>3. QED
      BY <2>1, <3>2 DEF FileOK, Keeps, Kept
  <2>4. state_' \in Dicts /\ Keeps(state_', b)
    BY <1>5, <2>1, Dictionaries DEF Keeps, Kept
  <2>5. /\ \A q \in Paths : file'[q] = file[p] /\ acked'[q] = b
        /\ acked' \in [Paths -> [Keys -> Acks]]
    BY <1>1, <1>2, <2>1, <2>2 DEF OnePath
  <2>6. TypeOK'
    BY <1>1, <1>5, <2>4, <2>5 DEF IInv, TypeOK, Acks
  <2>7. ASSUME NEW q \in Paths PROVE FileOK(file'[q], acked'[q]) /\ MemoryOK(q)'
    BY <2>3, <2>4, <2>5 DEF MemoryOK
  <2>8. QED
    BY <2>6, <2>7 DEF IInv
<1>6. QED
  BY <1>3, <1>4, <1>5 DEF Initialize

LEMMA CompactStep ==
    ASSUME OnePath, IInv, Compact
    PROVE  IInv'
<1> DEFINE j == journal_path_
<1>1. is_open_
  BY DEF Compact
<1>2. /\ j \in Paths /\ acked[j] \in [Keys -> Acks] /\ acked = [acked EXCEPT ![j] = acked[j]]
      /\ Keeps(state_, acked[j]) /\ state_ \in Dicts
  BY <1>1, OpenFacts DEF IInv, TypeOK
<1>3. WriteCompactedSnapshot(state_) \in Files /\ FileOK(WriteCompactedSnapshot(state_), acked[j])
  BY <1>2, SnapshotFile
<1>4. /\ file' = [file EXCEPT ![j] = WriteCompactedSnapshot(state_)] /\ pending_ops_' = 0
      /\ journal_path_' = j /\ is_open_' /\ state_' = state_ /\ compaction_threshold_' \in Nat
      /\ acked' = acked /\ ops' \in 0..MaxOps /\ crashes' \in 0..MaxCrashes
  BY DEF Compact, IInv, TypeOK
<1>5. acked' = [acked EXCEPT ![j] = acked[j]]
  BY <1>2, <1>4
<1>6. QED
  BY <1>1, <1>2, <1>3, <1>4, <1>5, WriteStep

LEMMA ObjectActions ==
    ASSUME IInv,
           \/ \E t \in Thresholds : SetCompactionThreshold(t)
           \/ Close \/ Crash \/ UNCHANGED vars
    PROVE  IInv'
<1>1. /\ journal_path_ \in Paths \cup {NoPath} /\ is_open_ \in BOOLEAN
      /\ (is_open_ => journal_path_ \in Paths)
      /\ state_ \in Dicts /\ pending_ops_ \in Nat /\ compaction_threshold_ \in Nat
      /\ ops \in 0..MaxOps /\ crashes \in 0..MaxCrashes
      /\ \A p \in Paths : FileOK(file[p], acked[p])
                          /\ (is_open_ \/ file[p].lines = << >> => Keeps(state_, acked[p]))
  BY DEF IInv, TypeOK, MemoryOK
<1>2. CASE \E t \in Thresholds : SetCompactionThreshold(t)
  <2>1. compaction_threshold_' \in Nat
    BY <1>2, ConstantsAssumption DEF SetCompactionThreshold
  <2>2. UNCHANGED <<file, journal_path_, is_open_, state_, pending_ops_, acked, ops, crashes>>
    BY <1>2 DEF SetCompactionThreshold
  <2>3. QED
    BY <1>1, <2>1, <2>2, ObjectStep
<1>3. CASE Close
  <2>1. /\ ~is_open_'
        /\ UNCHANGED <<file, journal_path_, state_, pending_ops_, compaction_threshold_, acked,
                       ops, crashes>>
    BY <1>3 DEF Close
  <2>2. is_open_' \in BOOLEAN
    BY <1>3 DEF Close
  <2>3. QED
    BY <1>1, <2>1, <2>2, ObjectStep
<1>4. CASE Crash
  <2>1. /\ journal_path_' = NoPath /\ is_open_' = FALSE /\ state_' = EmptyDict /\ pending_ops_' = 0
        /\ compaction_threshold_' = DefaultThreshold /\ UNCHANGED <<file, acked, ops>>
        /\ crashes < MaxCrashes /\ crashes' = crashes + 1
    BY <1>4 DEF Crash, NewObject
  <2>2. crashes' \in 0..MaxCrashes /\ compaction_threshold_' \in Nat /\ state_' \in Dicts
    BY <1>1, <2>1, ConstantsAssumption, Dictionaries
  <2>3. \A p \in Paths : is_open_' \/ file[p].lines = << >> => Keeps(state_', acked[p])
    BY <1>1, <2>1, EmptyFile
  <2>4. QED
    BY <1>1, <2>1, <2>2, <2>3, ObjectStep
<1>5. CASE UNCHANGED vars
  <2>1. UNCHANGED <<file, journal_path_, is_open_, state_, pending_ops_, compaction_threshold_,
                    acked, ops, crashes>>
    BY <1>5 DEF vars, memory
  <2>2. QED
    BY <1>1, <2>1, ObjectStep
<1>6. QED
  BY <1>2, <1>3, <1>4, <1>5

\* Every step is one of these.
LEMMA StepKinds ==
    ASSUME [Next]_vars
    PROVE  \/ \E p \in Paths : Initialize(p)
           \/ \E line \in Operations : Commit(line)
           \/ \E line \in Operations : AppendFails(line)
           \/ \E line \in Operations : CrashDuring(line)
           \/ Compact
           \/ \E t \in Thresholds : SetCompactionThreshold(t)
           \/ Close \/ Crash \/ UNCHANGED vars
<1>1. ASSUME NEW k \in Keys, NEW v \in Values PROVE BuildSetLine(k, v) \in Operations
  <2>1. BuildSetLine(k, v) \in Lines
    BY DEF Lines
  <2>2. BuildSetLine(k, v).op = "set"
    BY DEF BuildSetLine
  <2>3. QED
    BY <2>1, <2>2 DEF Operations
<1>2. ASSUME NEW k \in Keys PROVE BuildDeleteLine(k) \in Operations
  <2>1. BuildDeleteLine(k) \in Lines
    BY DEF Lines
  <2>2. BuildDeleteLine(k).op = "delete"
    BY DEF BuildDeleteLine
  <2>3. QED
    BY <2>1, <2>2 DEF Operations
<1>3. QED
  BY <1>1, <1>2 DEF Next, Set, Delete

LEMMA InitInv == Init => IInv
<1> SUFFICES ASSUME Init PROVE IInv
  OBVIOUS
<1>1. \A p \in Paths : file[p] = NoFile
  BY DEF Init
<1>2. TypeOK
  <2>1. NoFile \in Files
    BY EmptySeq DEF NoFile, Files
  <2>2. file \in [Paths -> Files]
    BY <2>1 DEF Init
  <2>3. acked \in [Paths -> [Keys -> Acks]]
    BY DEF Init, Acks
  <2>4. /\ journal_path_ = NoPath /\ is_open_ = FALSE /\ state_ \in Dicts
        /\ pending_ops_ \in Nat /\ compaction_threshold_ \in Nat
        /\ ops \in 0..MaxOps /\ crashes \in 0..MaxCrashes
    BY Dictionaries, ConstantsAssumption DEF Init
  <2>5. QED
    BY <2>2, <2>3, <2>4 DEF TypeOK, Files, Acks
<1>3. ASSUME NEW p \in Paths PROVE Keeps(EmptyDict, acked[p])
  BY Dictionaries DEF Init, Keeps, Kept
<1>4. ASSUME NEW p \in Paths PROVE FileOK(file[p], acked[p]) /\ MemoryOK(p)
  <2>1. file[p].lines = << >> /\ ~file[p].unterminated /\ state_ = EmptyDict
    BY <1>1 DEF NoFile, Init
  <2>2. ReplayJournal(file[p].lines).dict = EmptyDict
    BY <2>1, ReplayEmpty DEF Start
  <2>3. QED
    BY <1>3, <2>1, <2>2 DEF FileOK, TornOK, MemoryOK
<1>5. QED
  BY <1>2, <1>4 DEF IInv

(* An object that keeps one journal keeps in the file and in memory every  *)
(* promise that was made behind a complete line, whatever faults happen    *)
(* and however often the process dies (Initialize, Set, Delete, Compact,   *)
(* Close).                                                                 *)
THEOREM Invariance == OnePath => (Spec => []IInv)
<1>1. IInv /\ [Next]_vars /\ OnePath => IInv'
  BY StepKinds, InitializeStep, CommitStep, AppendFailsStep, CrashDuringStep, CompactStep,
     ObjectActions
<1>2. SUFFICES ASSUME OnePath PROVE Spec => []IInv
  OBVIOUS
<1>3. IInv /\ [Next]_vars => IInv'
  BY <1>1, <1>2
<1>4. QED
  BY <1>3, InitInv, PTL DEF Spec

(* An acknowledgement given behind a complete line is what the file        *)
(* replays to (AppendLine, ReplayJournal).                                 *)
THEOREM CleanAckHolds == OnePath => (Spec => []CleanAckIsDurable)
<1>1. IInv => CleanAckIsDurable
  BY DEF IInv, FileOK, Keeps, Kept, CleanAckIsDurable, OnDisk
<1>2. QED
  BY <1>1, Invariance, PTL

(* The open dictionary answers Get with what was acknowledged.             *)
THEOREM ReadYourWritesHolds == OnePath => (Spec => []ReadYourWrites)
<1>1. IInv => ReadYourWrites
  BY DEF IInv, TypeOK, MemoryOK, Keeps, Kept, ReadYourWrites
<1>2. QED
  BY <1>1, Invariance, PTL

-----------------------------------------------------------------------------
(* Without torn appends and unreadable files every acknowledgement counts. *)

Whole == Terminated /\ AckedIsClean

LEMMA AppendedWhole ==
    ASSUME NEW f \in Files, ~f.unterminated, NEW line \in Operations, NEW extent \in {"none", "full"}
    PROVE  ~AppendLine(f, line, extent).unterminated
<1>1. line \in Lines
  BY DEF Operations
<1>2. CASE extent = "none"
  BY <1>2 DEF AppendLine
<1>3. CASE extent = "full"
  <2>1. extent \in Extents \ {"none"}
    BY <1>3 DEF Extents
  <2>2. AppendLine(f, line, extent).unterminated = (extent # "full")
    BY <1>1, <2>1, AppendedFile
  <2>3. QED
    BY <1>3, <2>2
<1>4. QED
  BY <1>2, <1>3

LEMMA WholeWrite ==
    ASSUME IInv, Whole, is_open_, NEW g, ~g.unterminated, NEW line \in Operations, NEW ack \in Acks,
           ack.value # Unknown => ack.clean,
           file' = [file EXCEPT ![journal_path_] = g],
           acked' = [acked EXCEPT ![journal_path_][line.key] = ack]
    PROVE  Whole'
<1> DEFINE j == journal_path_
           b == [acked[j] EXCEPT ![line.key] = ack]
<1>1. j \in Paths
  BY OpenFacts
<1>2. /\ file \in [Paths -> Files] /\ acked \in [Paths -> [Keys -> Acks]]
      /\ acked' = [acked EXCEPT ![j] = b]
  BY <1>1, Recorded DEF IInv, TypeOK, Files, Acks
<1>3. ASSUME NEW p \in Paths PROVE ~file'[p].unterminated
  BY <1>1, <1>2 DEF Whole, Terminated
<1>4. ASSUME NEW p \in Paths, NEW k \in Keys, acked'[p][k].value # Unknown PROVE acked'[p][k].clean
  <2>1. acked'[p] = IF p = j THEN b ELSE acked[p]
    BY <1>2
  <2>2. b[k] = IF k = line.key THEN ack ELSE acked[j][k]
    BY <1>1, <1>2
  <2> HIDE DEF b
  <2>3. QED
    BY <1>1, <1>4, <2>1, <2>2 DEF Whole, AckedIsClean
<1>5. QED
  BY <1>3, <1>4 DEF Whole, Terminated, AckedIsClean

LEMMA WholeStep ==
    ASSUME Faults \cap {"tear", "readError"} = {}, IInv, Whole, [Next]_vars
    PROVE  Whole'
<1> DEFINE j == journal_path_
           none == [value |-> Unknown, clean |-> FALSE]
<1>1. none \in Acks /\ none.value = Unknown
  BY DEF Acks
<1>2. FailedExtents \subseteq {"none"}
  BY DEF FailedExtents
<1>3. is_open_ => j \in Paths /\ file[j] \in Files /\ state_ \in Dicts /\ ~file[j].unterminated
                  /\ acked[j] \in [Keys -> Acks]
  BY OpenFacts DEF Whole, Terminated
<1>4. ASSUME NEW line \in Operations, Commit(line) PROVE Whole'
  <2> DEFINE ack == [value |-> Promise(line), clean |-> ~file[j].unterminated]
  <2>1. is_open_ /\ acked' = [acked EXCEPT ![j][line.key] = ack]
    BY <1>4 DEF Commit, Record
  <2>2. ack \in Acks /\ ack.clean
    <3>1. Start \in Replays
      BY Dictionaries DEF Start, Replays
    <3>2. Promise(line) \in Values \cup {Absent} /\ (~file[j].unterminated) = TRUE
      BY <1>3, <2>1, <3>1, OperationLine
    <3>3. QED
      BY <3>2 DEF Acks
  <2>3. state_' \in Dicts
    BY <1>3, <2>1, <2>2, <1>4, MemoryStep DEF Commit
  <2>4. ~WriteCompactedSnapshot(state_').unterminated
    BY DEF WriteCompactedSnapshot
  <2>5. ~AppendLine(file[j], line, "full").unterminated
    BY <1>3, <2>1, AppendedWhole
  <2>6. PICK g : ~g.unterminated /\ file' = [file EXCEPT ![j] = g]
    BY <1>4, <2>4, <2>5 DEF Commit
  <2> HIDE DEF ack
  <2>7. QED
    BY <2>1, <2>2, <2>6, WholeWrite
<1>5. ASSUME NEW line \in Operations, AppendFails(line) PROVE Whole'
  <2>1. is_open_ /\ acked' = [acked EXCEPT ![j][line.key] = none]
    BY <1>5 DEF AppendFails, Record
  <2>2. file' = [file EXCEPT ![j] = AppendLine(file[j], line, "none")]
    BY <1>2, <1>5 DEF AppendFails
  <2>3. ~AppendLine(file[j], line, "none").unterminated
    BY <1>3, <2>1, AppendedWhole
  <2>4. QED
    BY <1>1, <2>1, <2>2, <2>3, WholeWrite
<1>6. ASSUME NEW line \in Operations, CrashDuring(line) PROVE Whole'
  <2>1. is_open_ /\ acked' = [acked EXCEPT ![j][line.key] = none]
    BY <1>6 DEF CrashDuring, Record
  <2>2. PICK g : ~g.unterminated /\ file' = [file EXCEPT ![j] = g]
    <3>1. CASE file' = [file EXCEPT ![j] = WriteCompactedSnapshot(Updated(state_, line))]
      BY <3>1 DEF WriteCompactedSnapshot
    <3>2. CASE \E extent \in {"none", "full"} :
                  file' = [file EXCEPT ![j] = AppendLine(file[j], line, extent)]
      BY <1>3, <2>1, <3>2, AppendedWhole
    <3>3. QED
      BY <1>2, <1>6, <3>1, <3>2 DEF CrashDuring
  <2>3. QED
    BY <1>1, <2>1, <2>2, WholeWrite
<1>7. ASSUME Compact PROVE Whole'
  <2>1. /\ is_open_ /\ acked' = acked
        /\ file' = [file EXCEPT ![j] = WriteCompactedSnapshot(state_)]
    BY <1>7 DEF Compact
  <2>2. ~WriteCompactedSnapshot(state_).unterminated
    BY DEF WriteCompactedSnapshot
  <2>3. \A p \in Paths : ~file'[p].unterminated
    BY <1>3, <2>1, <2>2 DEF Whole, Terminated, IInv, TypeOK
  <2>4. QED
    BY <2>1, <2>3 DEF Whole, Terminated, AckedIsClean
<1>8. ASSUME file' = file, acked' = acked PROVE Whole'
  BY <1>8 DEF Whole, Terminated, AckedIsClean
<1>9. QED
  BY <1>4, <1>5, <1>6, <1>7, <1>8, StepKinds
     DEF Initialize, SetCompactionThreshold, Close, Crash, vars

(* As long as no append is cut short and no open fails to read the file,   *)
(* whatever Set or Delete acknowledged is what the file replays to: failed *)
(* appends, failed compactions and crashes at any point of an operation do *)
(* not touch it.                                                           *)
THEOREM AckedIsDurableHolds ==
    OnePath /\ Faults \cap {"tear", "readError"} = {} => (Spec => []AckedIsDurable)
<1>1. SUFFICES ASSUME OnePath, Faults \cap {"tear", "readError"} = {}
               PROVE  Spec => []AckedIsDurable
  OBVIOUS
<1>2. Init => Whole
  BY DEF Init, Whole, Terminated, AckedIsClean, NoFile
<1>3. IInv /\ Whole /\ [Next]_vars => Whole'
  BY <1>1, WholeStep
<1>4. IInv /\ Whole => AckedIsDurable
  BY DEF IInv, FileOK, Keeps, Kept, Whole, AckedIsClean, AckedIsDurable, OnDisk
<1>5. Spec => []IInv
  BY <1>1, Invariance
<1>6. QED
  BY <1>2, <1>3, <1>4, <1>5, PTL DEF Spec

-----------------------------------------------------------------------------
(* pending_ops_ and the length of the file, where the only fault is an     *)
(* append that fails.                                                      *)

LEMMA CountWrite ==
    ASSUME OnePath, IInv, is_open_, NEW g \in Files,
           file' = [file EXCEPT ![journal_path_] = g], compaction_threshold_' \in Limits,
           Len(g.lines) <= ReplayJournal(g.lines).n + 1, BoundOK(g, crashes'),
           is_open_' \/ g.lines = << >> => pending_ops_' = ReplayJournal(g.lines).n
    PROVE  CountInv'
<1>1. \A p \in Paths : file'[p] = g
  BY OpenFacts DEF OnePath, IInv, TypeOK
<1>2. ASSUME NEW p \in Paths PROVE CountOK(p)' /\ BoundOK(file'[p], crashes')
  BY <1>1 DEF CountOK
<1>3. QED
  BY <1>2 DEF CountInv

LEMMA CountNumbers ==
    ASSUME IInv, CountInv, is_open_
    PROVE  LET f == file[journal_path_] IN
             /\ f \in Files /\ Len(f.lines) \in Nat /\ ReplayJournal(f.lines) \in Replays
             /\ pending_ops_ = ReplayJournal(f.lines).n /\ pending_ops_ \in Nat
             /\ Len(f.lines) <= pending_ops_ + 1 /\ BoundOK(f, crashes)
             /\ crashes \in Nat /\ compaction_threshold_ \in Nat
<1> DEFINE f == file[journal_path_]
<1>1. f \in Files /\ journal_path_ \in Paths /\ pending_ops_ \in Nat
  BY OpenFacts
<1>2. f.lines \in Seq(Lines)
  BY <1>1 DEF Files
<1>3. ReplayJournal(f.lines) \in Replays /\ Len(f.lines) \in Nat
  BY <1>2, ReplayType
<1>4. pending_ops_ = ReplayJournal(f.lines).n /\ Len(f.lines) <= pending_ops_ + 1 /\ BoundOK(f, crashes)
  BY <1>1 DEF CountInv, CountOK
<1>5. crashes \in Nat /\ compaction_threshold_ \in Nat
  BY ConstantsAssumption DEF IInv, TypeOK
<1>6. QED
  BY <1>1, <1>3, <1>4, <1>5

\* An operation appended behind a complete line counts one in both.
LEMMA CountAppend ==
    ASSUME NEW f \in Files, ~f.unterminated, NEW line \in Operations
    PROVE  LET g == AppendLine(f, line, "full") IN
             /\ g \in Files /\ g.lines # << >> /\ Len(g.lines) = Len(f.lines) + 1
             /\ ReplayJournal(g.lines).n = ReplayJournal(f.lines).n + 1
<1> DEFINE g == AppendLine(f, line, "full")
           before == ReplayJournal(f.lines)
           after == ReplayJournal(g.lines)
<1>1. TornOK(f, << >>) /\ "full" \in Extents /\ "full" # "none" /\ "full" # "part"
  BY DEF TornOK, Extents
<1>2. /\ g \in Files /\ g.lines # << >> /\ Len(g.lines) = Len(f.lines) + 1
      /\ before \in Replays /\ after = ApplyLine(before, line)
  BY <1>1, AppendEffect
<1> HIDE DEF g, before, after
<1>3. after.n = before.n + 1
  BY <1>2, OperationLine
<1>4. QED
  BY <1>2, <1>3 DEF g, before, after

\* A compacted file is as short as a file can be.
LEMMA CountSnapshot ==
    ASSUME NEW d \in Dicts, NEW c \in Nat
    PROVE  LET g == WriteCompactedSnapshot(d) IN
             /\ g \in Files /\ g.lines # << >> /\ ReplayJournal(g.lines).n = 0
             /\ Len(g.lines) <= 0 + 1 /\ BoundOK(g, c)
<1> DEFINE g == WriteCompactedSnapshot(d)
<1>1. g \in Files /\ Len(g.lines) = 1 /\ ReplayJournal(g.lines) = [dict |-> d, n |-> 0]
  BY SnapshotFile
<1> HIDE DEF g
<1>2. g.lines # << >>
  <2>1. Len(<< >>) = 0 /\ 0 # 1
    OBVIOUS
  <2>2. QED
    BY <1>1, <2>1
<1>3. DefaultThreshold \in Limits /\ 1 <= DefaultThreshold + c
  BY ConstantsAssumption DEF Limits
<1>4. QED
  BY <1>1, <1>2, <1>3 DEF BoundOK, g

LEMMA CountStep ==
    ASSUME OnePath, Faults \subseteq {"appendError"}, IInv, Whole, CountInv, [Next]_vars
    PROVE  CountInv'
<1> DEFINE j == journal_path_
           f == file[j]
<1>1. FailedExtents \subseteq {"none"} /\ ~("compactError" \in Faults) /\ ~("readError" \in Faults)
  BY DEF FailedExtents
<1>2. is_open_ => j \in Paths /\ state_ \in Dicts /\ acked[j] \in [Keys -> Acks] /\ ~f.unterminated
  BY OpenFacts DEF Whole, Terminated
<1>3. ASSUME NEW line \in Operations PROVE is_open_ => Updated(state_, line) \in Dicts
  <2>1. [value |-> Unknown, clean |-> FALSE] \in Acks
    BY DEF Acks
  <2>2. QED
    BY <1>2, <2>1, MemoryStep
<1>4. /\ compaction_threshold_ \in Limits /\ DefaultThreshold \in Limits
      /\ Limits \subseteq Nat /\ crashes \in Nat
  BY ConstantsAssumption DEF CountInv, Limits, IInv, TypeOK
<1>5. ASSUME NEW line \in Operations, Commit(line) PROVE CountInv'
  <2> DEFINE g == AppendLine(f, line, "full")
  <2>1. is_open_ /\ is_open_' /\ crashes' = crashes /\ compaction_threshold_' = compaction_threshold_
        /\ state_' \in Dicts
    BY <1>3, <1>5 DEF Commit
  <2>2. CASE file' = [file EXCEPT ![j] = WriteCompactedSnapshot(state_')] /\ pending_ops_' = 0
    <3> DEFINE h == WriteCompactedSnapshot(state_')
    <3>1. /\ h \in Files /\ h.lines # << >> /\ ReplayJournal(h.lines).n = 0
          /\ Len(h.lines) <= 0 + 1 /\ BoundOK(h, crashes)
      BY <1>4, <2>1, CountSnapshot
    <3> HIDE DEF h
    <3>2. QED
      BY <1>4, <2>1, <2>2, <3>1, CountWrite DEF h
  <2>3. CASE /\ ~(pending_ops_ + 1 >= compaction_threshold_)
             /\ file' = [file EXCEPT ![j] = g] /\ pending_ops_' = pending_ops_ + 1
    <3>1. /\ g \in Files /\ g.lines # << >> /\ Len(g.lines) = Len(f.lines) + 1
          /\ ReplayJournal(g.lines).n = ReplayJournal(f.lines).n + 1
      BY <1>2, <2>1, CountNumbers, CountAppend
    <3>2. /\ Len(f.lines) \in Nat /\ pending_ops_ = ReplayJournal(f.lines).n /\ pending_ops_ \in Nat
          /\ Len(f.lines) <= pending_ops_ + 1 /\ compaction_threshold_ \in Nat
      BY <2>1, CountNumbers
    <3> HIDE DEF g
    <3>3. Len(g.lines) <= compaction_threshold_ + crashes
      BY <1>4, <2>3, <3>1, <3>2
    <3>4. BoundOK(g, crashes')
      BY <1>4, <2>1, <3>3 DEF BoundOK
    <3>5. /\ Len(g.lines) <= ReplayJournal(g.lines).n + 1
          /\ pending_ops_' = ReplayJournal(g.lines).n
      BY <2>3, <3>1, <3>2
    <3>6. QED
      BY <1>4, <2>1, <2>3, <3>1, <3>4, <3>5, CountWrite
  <2>4. QED
    BY <1>1, <1>5, <2>2, <2>3 DEF Commit
<1>6. ASSUME NEW line \in Operations, AppendFails(line) PROVE CountInv'
  <2>1. /\ is_open_ /\ UNCHANGED <<is_open_, pending_ops_, compaction_threshold_, crashes>>
        /\ file' = [file EXCEPT ![j] = f]
    BY <1>1, <1>6 DEF AppendFails, AppendLine
  <2>2. file' = file
    BY <1>2, <2>1 DEF IInv, TypeOK
  <2>3. QED
    BY <2>1, <2>2 DEF CountInv, CountOK
<1>7. ASSUME NEW line \in Operations, CrashDuring(line) PROVE CountInv'
  <2>1. /\ is_open_ /\ is_open_' = FALSE /\ pending_ops_' = 0 /\ crashes' = crashes + 1
        /\ compaction_threshold_' = DefaultThreshold
    BY <1>7 DEF CrashDuring, NewObject
  <2>2. /\ f \in Files /\ Len(f.lines) \in Nat /\ pending_ops_ = ReplayJournal(f.lines).n
        /\ pending_ops_ \in Nat /\ Len(f.lines) <= pending_ops_ + 1 /\ BoundOK(f, crashes)
    BY <2>1, CountNumbers
  <2>3. PICK t \in Limits : Len(f.lines) <= t + crashes
    BY <2>2 DEF BoundOK
  <2>4. CASE file' = [file EXCEPT ![j] = WriteCompactedSnapshot(Updated(state_, line))]
    <3> DEFINE h == WriteCompactedSnapshot(Updated(state_, line))
    <3>1. crashes' \in Nat /\ Updated(state_, line) \in Dicts
      BY <1>3, <1>4, <2>1
    <3>2. /\ h \in Files /\ h.lines # << >> /\ ReplayJournal(h.lines).n = 0
          /\ Len(h.lines) <= 0 + 1 /\ BoundOK(h, crashes')
      BY <3>1, CountSnapshot
    <3> HIDE DEF h
    <3>3. QED
      BY <1>4, <2>1, <2>4, <3>2, CountWrite DEF h
  <2>5. CASE file' = [file EXCEPT ![j] = AppendLine(f, line, "none")]
    <3>1. AppendLine(f, line, "none") = f
      BY DEF AppendLine
    <3>2. f.lines = << >> => pending_ops_' = ReplayJournal(f.lines).n
      BY <2>1, ReplayEmpty DEF Start
    <3>3. BoundOK(f, crashes') /\ Len(f.lines) <= ReplayJournal(f.lines).n + 1
      BY SMTT(30), <1>4, <2>1, <2>2, <2>3 DEF BoundOK
    <3>4. QED
      BY <1>4, <2>1, <2>2, <2>5, <3>1, <3>2, <3>3, CountWrite
  <2>6. CASE file' = [file EXCEPT ![j] = AppendLine(f, line, "full")]
    <3> DEFINE g == AppendLine(f, line, "full")
    <3>1. /\ g \in Files /\ g.lines # << >> /\ Len(g.lines) = Len(f.lines) + 1
          /\ ReplayJournal(g.lines).n = ReplayJournal(f.lines).n + 1
      BY <1>2, <2>1, <2>2, CountAppend
    <3>2. Len(g.lines) <= ReplayJournal(g.lines).n + 1
      BY <2>2, <3>1
    <3>3. Len(g.lines) <= t + crashes'
      BY <1>4, <2>1, <2>2, <2>3, <3>1
    <3> HIDE DEF g
    <3>4. QED
      BY <1>4, <2>1, <2>6, <3>1, <3>2, <3>3, CountWrite DEF BoundOK, g
  <2>7. QED
    BY <1>1, <1>7, <2>4, <2>5, <2>6 DEF CrashDuring
<1>8. ASSUME Compact PROVE CountInv'
  <2> DEFINE h == WriteCompactedSnapshot(state_)
  <2>1. /\ is_open_ /\ is_open_' /\ pending_ops_' = 0 /\ crashes' = crashes
        /\ compaction_threshold_' = compaction_threshold_ /\ file' = [file EXCEPT ![j] = h]
    BY <1>8 DEF Compact
  <2>2. /\ h \in Files /\ h.lines # << >> /\ ReplayJournal(h.lines).n = 0
        /\ Len(h.lines) <= 0 + 1 /\ BoundOK(h, crashes)
    BY <1>2, <1>4, <2>1, CountSnapshot
  <2> HIDE DEF h
  <2>3. QED
    BY <1>4, <2>1, <2>2, CountWrite
<1>9. ASSUME NEW p \in Paths, Initialize(p) PROVE CountInv'
  <2>1. /\ file' = file /\ UNCHANGED <<compaction_threshold_, crashes>>
        /\ \/ file[p].lines = << >> /\ pending_ops_' = pending_ops_
           \/ pending_ops_' = ReplayJournal(file[p].lines).n
    BY <1>1, <1>9 DEF Initialize
  <2>2. pending_ops_' = ReplayJournal(file[p].lines).n
    BY <2>1 DEF CountInv, CountOK
  <2>3. ASSUME NEW q \in Paths PROVE CountOK(q)' /\ BoundOK(file'[q], crashes')
    BY <2>1, <2>2 DEF OnePath, CountInv, CountOK
  <2>4. QED
    BY <2>1, <2>3 DEF CountInv
<1>10. ASSUME Crash PROVE CountInv'
  <2>1. /\ file' = file /\ is_open_' = FALSE /\ pending_ops_' = 0 /\ crashes' = crashes + 1
        /\ compaction_threshold_' = DefaultThreshold
    BY <1>10 DEF Crash, NewObject
  <2>2. ASSUME NEW q \in Paths PROVE CountOK(q)' /\ BoundOK(file'[q], crashes')
    <3>1. CountOK(q) /\ BoundOK(file[q], crashes)
      BY DEF CountInv
    <3>2. file[q].lines = << >> => ReplayJournal(file[q].lines).n = 0
      BY ReplayEmpty DEF Start
    <3>3. CountOK(q)'
      BY <2>1, <3>1, <3>2 DEF CountOK
    <3>4. file[q].lines \in Seq(Lines)
      BY DEF IInv, TypeOK
    <3>5. BoundOK(file[q], crashes + 1)
      <4>1. PICK t \in Limits : Len(file[q].lines) <= t + crashes
        BY <3>1 DEF BoundOK
      <4>2. Len(file[q].lines) \in Nat
        BY <3>4
      <4>3. Len(file[q].lines) <= t + (crashes + 1)
        BY <1>4, <4>1, <4>2
      <4>4. QED
        BY <4>3 DEF BoundOK
    <3>6. QED
      BY <2>1, <3>3, <3>5
  <2>3. QED
    BY <1>4, <2>1, <2>2 DEF CountInv
<1>11. ASSUME UNCHANGED <<file, pending_ops_, crashes>>, is_open_' => is_open_,
              compaction_threshold_' \in Limits
       PROVE  CountInv'
  BY <1>11 DEF CountInv, CountOK
<1>12. CASE \E t \in Thresholds : SetCompactionThreshold(t)
  BY <1>11, <1>12 DEF SetCompactionThreshold, Limits
<1>13. CASE Close
  BY <1>4, <1>11, <1>13 DEF Close
<1>14. CASE UNCHANGED vars
  BY <1>4, <1>11, <1>14 DEF vars, memory
<1>15. QED
  BY <1>5, <1>6, <1>7, <1>8, <1>9, <1>10, <1>12, <1>13, <1>14, StepKinds

(* As long as appends succeed or leave nothing behind, and compactions     *)
(* succeed, pending_ops_ of an open journal is what a replay of its file   *)
(* would redo, and the file never has more lines than the largest          *)
(* threshold and one for each crash.                                       *)
THEOREM ConsistentHolds ==
    OnePath /\ Faults \subseteq {"appendError"} => (Spec => []Consistent)
<1>1. SUFFICES ASSUME OnePath, Faults \subseteq {"appendError"}
               PROVE  Spec => []Consistent
  OBVIOUS
<1>2. Faults \cap {"tear", "readError"} = {}
  BY <1>1
<1>3. Init => Whole /\ CountInv
  <2> SUFFICES ASSUME Init PROVE Whole /\ CountInv
    OBVIOUS
  <2>1. Whole
    BY DEF Init, Whole, Terminated, AckedIsClean, NoFile
  <2>2. \A p \in Paths : file[p].lines = << >>
    BY DEF Init, NoFile
  <2>3. ReplayJournal(<< >>).n = 0 /\ Len(<< >>) = 0
    BY ReplayEmpty DEF Start
  <2>4. DefaultThreshold \in Limits /\ 0 <= DefaultThreshold + crashes
    BY ConstantsAssumption DEF Init, Limits
  <2>5. QED
    BY <2>1, <2>2, <2>3, <2>4 DEF CountInv, CountOK, BoundOK, Init
<1>4. IInv /\ Whole /\ [Next]_vars => Whole'
  BY <1>2, WholeStep
<1>5. IInv /\ Whole /\ CountInv /\ [Next]_vars => CountInv'
  BY <1>1, CountStep
<1>6. IInv /\ CountInv => Consistent
  <2> SUFFICES ASSUME IInv, CountInv PROVE Consistent
    OBVIOUS
  <2>1. PendingCountsReplay
    BY CountNumbers DEF PendingCountsReplay
  <2>2. FileBounded
    BY DEF CountInv, BoundOK, FileBounded, Limits
  <2>3. QED
    BY <2>1, <2>2 DEF IInv, Consistent
<1>7. Spec => []IInv
  BY <1>1, Invariance
<1>8. QED
  BY <1>3, <1>4, <1>5, <1>6, <1>7, PTL DEF Spec
===============================================================================
