---------------------------- MODULE StateJournal ----------------------------
(***************************************************************************)
(* CefStateJournal (libcef/browser/state_journal.cc): an append-only       *)
(* journal of "set", "delete" and "snapshot" lines that is replayed into   *)
(* an in-memory dictionary when it is opened and compacted into a single   *)
(* snapshot line every compaction_threshold_ operations.                   *)
(*                                                                         *)
(* Every public method holds lock_, so an operation is one action.  What   *)
(* is not atomic is its effect on disk: the process may die, or the file   *)
(* system may give up, in the middle of an append.  The journal file is a  *)
(* sequence of newline-separated lines whose last line may lack its        *)
(* newline.                                                                *)
(***************************************************************************)
EXTENDS Integers, Sequences, FiniteSets

CONSTANTS
    Keys,        \* dictionary keys
    Values,      \* dictionary values
    Paths,       \* journal files the embedder may open
    Thresholds,  \* arguments of SetCompactionThreshold
    DefaultThreshold,  \* compaction_threshold_ of a new object
    Faults,      \* which of the faults below this instance injects
    MaxOps,      \* bound: number of Set/Delete calls
    MaxCrashes,  \* bound: number of times the process dies
    NoPath,      \* journal_path_ of a new object
    Absent,      \* "the key is not in the dictionary"
    Unknown      \* "the last operation on the key did not succeed"

AllFaults == {"tear", "appendError", "compactError", "readError"}

ASSUME ConstantsAssumption ==
    /\ Faults \subseteq AllFaults
    /\ Thresholds \subseteq Nat /\ DefaultThreshold \in Nat \ {0}
    /\ MaxOps \in Nat /\ MaxCrashes \in Nat
    /\ NoPath \notin Paths /\ Absent \notin Values /\ Unknown \notin Values

VARIABLES
    file,                  \* file[p]: the journal file at path p
    journal_path_, is_open_, state_, pending_ops_, compaction_threshold_,
    acked,                 \* history: what the last operation on a key promised;
                           \* clean if it was appended behind a complete line and
                           \* no later open failed to read the file
    ops, crashes           \* counters behind MaxOps and MaxCrashes

memory == <<journal_path_, is_open_, state_, pending_ops_, compaction_threshold_>>
vars == <<file, memory, acked, ops, crashes>>

Dicts == UNION {[S -> Values] : S \in SUBSET Keys}
EmptyDict == [k \in {} |-> CHOOSE v \in Values : TRUE]
Lookup(d, k) == IF k \in DOMAIN d THEN d[k] ELSE Absent
Without(d, k) == [j \in DOMAIN d \ {k} |-> d[j]]
With(d, k, v) == [j \in DOMAIN d \cup {k} |-> IF j = k THEN v ELSE d[j]]

-----------------------------------------------------------------------------
(* Journal lines.  "corrupt" is any line that JSONReader refuses: a         *)
(* truncated one, or a truncated or unterminated one with another line     *)
(* written behind it (the first part lacks its closing brace, or there are *)
(* two objects on one line).                                               *)

BuildSetLine(k, v) == [op |-> "set", key |-> k, value |-> v]
BuildDeleteLine(k) == [op |-> "delete", key |-> k]
BuildSnapshotLine(d) == [op |-> "snapshot", data |-> d]
Corrupt == [op |-> "corrupt"]

Lines == {BuildSetLine(k, v) : k \in Keys, v \in Values}
            \cup {BuildDeleteLine(k) : k \in Keys}
            \cup {BuildSnapshotLine(d) : d \in Dicts} \cup {Corrupt}

Operations == {l \in Lines : l.op \in {"set", "delete"}}

NoFile == [exists |-> FALSE, lines |-> <<>>, unterminated |-> FALSE]

\* Bytes written at the end of the file: they start a new line only if the
\* last line has its newline.
Joined(f, line) ==
    IF f.unterminated THEN [f EXCEPT !.lines[Len(f.lines)] = Corrupt]
                      ELSE [f EXCEPT !.lines = Append(@, line)]

(* AppendLine.  extent says how much of line + "\n" reached the file:       *)
(* nothing, a proper part of the line, the line without its newline, all.  *)
Extents == {"none", "part", "body", "full"}

AppendLine(f, line, extent) ==
    IF extent = "none" THEN f
    ELSE [Joined(f, IF extent = "part" THEN Corrupt ELSE line)
            EXCEPT !.exists = TRUE, !.unterminated = (extent # "full")]

\* How an append that does not succeed can leave the file.
FailedExtents == (IF "appendError" \in Faults THEN {"none"} ELSE {})
                    \cup (IF "tear" \in Faults THEN {"part", "body"} ELSE {})

\* Mutant: replay does not know the delete line.
ApplyLineNoDelete(acc, line) ==
    CASE line.op = "set" ->
            [dict |-> With(acc.dict, line.key, line.value), n |-> acc.n + 1]
      [] line.op = "snapshot" -> [dict |-> line.data, n |-> 0]
      [] OTHER -> acc

\* Mutant: a line that does not parse discards what was replayed so far.
ApplyLineDiscards(acc, line) ==
    CASE line.op = "set" ->
            [dict |-> With(acc.dict, line.key, line.value), n |-> acc.n + 1]
      [] line.op = "delete" ->
            [dict |-> Without(acc.dict, line.key), n |-> acc.n + 1]
      [] line.op = "snapshot" -> [dict |-> line.data, n |-> 0]
      [] OTHER -> [dict |-> EmptyDict, n |-> 0]

\* One line of the loop in ReplayJournal.
ApplyLine(acc, line) ==
    CASE line.op = "set" ->
            [dict |-> With(acc.dict, line.key, line.value), n |-> acc.n + 1]
      [] line.op = "delete" ->
            [dict |-> Without(acc.dict, line.key), n |-> acc.n + 1]
      [] line.op = "snapshot" -> [dict |-> line.data, n |-> 0]
      [] OTHER -> acc

\* The loop of ReplayJournal: replayed[i] is what it has after i lines.
ReplayJournal(lines) ==
    LET replayed[i \in 0..Len(lines)] ==
            IF i = 0 THEN [dict |-> EmptyDict, n |-> 0]
            ELSE ApplyLine(replayed[i - 1], lines[i])
    IN  replayed[Len(lines)]

\* WriteCompactedSnapshot: the temporary file is renamed over the journal.
WriteCompactedSnapshot(d) ==
    [exists |-> TRUE, lines |-> <<BuildSnapshotLine(d)>>, unterminated |-> FALSE]

-----------------------------------------------------------------------------
NewObject ==
    /\ journal_path_' = NoPath /\ is_open_' = FALSE /\ state_' = EmptyDict
    /\ pending_ops_' = 0 /\ compaction_threshold_' = DefaultThreshold

Init ==
    /\ file = [p \in Paths |-> NoFile]
    /\ journal_path_ = NoPath /\ is_open_ = FALSE /\ state_ = EmptyDict
    /\ pending_ops_ = 0 /\ compaction_threshold_ = DefaultThreshold
    /\ acked = [p \in Paths |-> [k \in Keys |-> [value |-> Absent, clean |-> TRUE]]]
    /\ ops = 0 /\ crashes = 0

(* Initialize.  A file that is missing or empty leaves state_ and          *)
(* pending_ops_ as they are; a file that cannot be read leaves both empty  *)
(* and the journal open.                                                   *)
Initialize(p) ==
    /\ ~is_open_
    /\ journal_path_' = p /\ is_open_' = TRUE
    /\ \/ /\ file[p].lines = <<>>
          /\ UNCHANGED <<state_, pending_ops_, acked>>
       \/ /\ file[p].lines # <<>>
          /\ LET r == ReplayJournal(file[p].lines) IN
                state_' = r.dict /\ pending_ops_' = r.n
          /\ UNCHANGED acked
       \/ /\ "readError" \in Faults /\ file[p].exists
          /\ state_' = EmptyDict /\ pending_ops_' = 0
          /\ acked' = [acked EXCEPT ![p] = [k \in Keys |-> [@[k] EXCEPT !.clean = FALSE]]]
    /\ UNCHANGED <<file, compaction_threshold_, ops, crashes>>

Updated(d, line) == ApplyLine([dict |-> d, n |-> 0], line).dict

\* What the caller of Set or Delete may rely on once it returned true.
Promise(line) == IF line.op = "set" THEN line.value ELSE Absent

Record(line, v, clean) ==
    acked' = [acked EXCEPT ![journal_path_][line.key] = [value |-> v, clean |-> clean]]

\* Mutant: the snapshot is taken before the operation is applied.
CommitStaleSnapshot(line) ==
    LET f == file[journal_path_]
        due == pending_ops_ + 1 >= compaction_threshold_
    IN  /\ is_open_ /\ ops < MaxOps
        /\ state_' = Updated(state_, line)
        /\ file' = [file EXCEPT ![journal_path_] =
                IF due THEN WriteCompactedSnapshot(state_) ELSE AppendLine(f, line, "full")]
        /\ pending_ops_' = IF due THEN 0 ELSE pending_ops_ + 1
        /\ Record(line, Promise(line), ~f.unterminated)
        /\ ops' = ops + 1
        /\ UNCHANGED <<journal_path_, is_open_, compaction_threshold_, crashes>>

\* Mutant: compaction starts one operation late.
CommitCompactsLate(line) ==
    LET f == file[journal_path_]
        due == pending_ops_ >= compaction_threshold_
    IN  /\ is_open_ /\ ops < MaxOps
        /\ state_' = Updated(state_, line)
        /\ file' = [file EXCEPT ![journal_path_] =
                IF due THEN WriteCompactedSnapshot(state_') ELSE AppendLine(f, line, "full")]
        /\ pending_ops_' = IF due THEN 0 ELSE pending_ops_ + 1
        /\ Record(line, Promise(line), ~f.unterminated)
        /\ ops' = ops + 1
        /\ UNCHANGED <<journal_path_, is_open_, compaction_threshold_, crashes>>

\* Set and Delete whose append succeeds, with the compaction they may trigger.
Commit(line) ==
    LET f == file[journal_path_]
        g == AppendLine(f, line, "full")
        due == pending_ops_ + 1 >= compaction_threshold_
    IN  /\ is_open_ /\ ops < MaxOps
        /\ state_' = Updated(state_, line)
        /\ \/ /\ due
              /\ file' = [file EXCEPT ![journal_path_] = WriteCompactedSnapshot(state_')]
              /\ pending_ops_' = 0
           \/ /\ ~due \/ "compactError" \in Faults
              /\ file' = [file EXCEPT ![journal_path_] = g]
              /\ pending_ops_' = pending_ops_ + 1
        /\ Record(line, Promise(line), ~f.unterminated)
        /\ ops' = ops + 1
        /\ UNCHANGED <<journal_path_, is_open_, compaction_threshold_, crashes>>

\* Set and Delete whose append fails: they return false, but state_ has changed.
AppendFails(line) ==
    /\ is_open_ /\ ops < MaxOps
    /\ state_' = Updated(state_, line)
    /\ \E extent \in FailedExtents :
          file' = [file EXCEPT ![journal_path_] = AppendLine(@, line, extent)]
    /\ Record(line, Unknown, FALSE)
    /\ ops' = ops + 1
    /\ UNCHANGED <<journal_path_, is_open_, pending_ops_, compaction_threshold_, crashes>>

Set(k, v) == Commit(BuildSetLine(k, v)) \/ AppendFails(BuildSetLine(k, v))
Delete(k) == Commit(BuildDeleteLine(k)) \/ AppendFails(BuildDeleteLine(k))

Compact ==
    /\ is_open_
    /\ file' = [file EXCEPT ![journal_path_] = WriteCompactedSnapshot(state_)]
    /\ pending_ops_' = 0
    /\ UNCHANGED <<journal_path_, is_open_, state_, compaction_threshold_,
                   acked, ops, crashes>>

SetCompactionThreshold(t) ==
    /\ compaction_threshold_' = t
    /\ UNCHANGED <<file, journal_path_, is_open_, state_, pending_ops_, acked, ops, crashes>>

Close ==
    /\ is_open_ /\ is_open_' = FALSE
    /\ UNCHANGED <<file, journal_path_, state_, pending_ops_, compaction_threshold_,
                   acked, ops, crashes>>

(* The process dies between two operations.  The destructor of an object   *)
(* that is replaced by a new one has the same effect.                      *)
Crash ==
    /\ crashes < MaxCrashes /\ crashes' = crashes + 1
    /\ NewObject
    /\ UNCHANGED <<file, acked, ops>>

(* The process dies inside Set or Delete: in the append, between append    *)
(* and compaction, or after the rename.  The caller never hears back.      *)
CrashDuring(line) ==
    /\ is_open_ /\ ops < MaxOps /\ crashes < MaxCrashes
    /\ \/ \E extent \in {"none", "full"} \cup (FailedExtents \ {"none"}) :
             file' = [file EXCEPT ![journal_path_] = AppendLine(@, line, extent)]
       \/ /\ pending_ops_ + 1 >= compaction_threshold_
          /\ file' = [file EXCEPT
                ![journal_path_] = WriteCompactedSnapshot(Updated(state_, line))]
    /\ Record(line, Unknown, FALSE)
    /\ NewObject
    /\ ops' = ops + 1 /\ crashes' = crashes + 1

Next ==
    \/ \E p \in Paths : Initialize(p)
    \/ \E k \in Keys, v \in Values : Set(k, v)
    \/ \E k \in Keys : Delete(k)
    \/ Compact
    \/ \E t \in Thresholds : SetCompactionThreshold(t)
    \/ Close
    \/ Crash
    \/ \E line \in Operations : CrashDuring(line)

Spec == Init /\ [][Next]_vars

-----------------------------------------------------------------------------
TypeOK ==
    /\ file \in [Paths -> [exists : BOOLEAN, lines : Seq(Lines), unterminated : BOOLEAN]]
    /\ journal_path_ \in Paths \cup {NoPath}
    /\ is_open_ \in BOOLEAN /\ (is_open_ => journal_path_ \in Paths)
    /\ state_ \in Dicts
    /\ pending_ops_ \in Nat /\ compaction_threshold_ \in Nat
    /\ acked \in [Paths -> [Keys ->
                    [value : Values \cup {Absent, Unknown}, clean : BOOLEAN]]]
    /\ ops \in 0..MaxOps /\ crashes \in 0..MaxCrashes

OnDisk(p, k) == Lookup(ReplayJournal(file[p].lines).dict, k)

(* A Set or Delete that returned true is what a replay of the file yields, *)
(* whatever crashed since: the promise of state_journal.h.                 *)
AckedIsDurable ==
    \A p \in Paths, k \in Keys :
        acked[p][k].value # Unknown => OnDisk(p, k) = acked[p][k].value

(* The same, whatever appends were torn and whatever opens failed to read  *)
(* the file, for the operations appended behind a complete line since the  *)
(* last open that failed so: neither reaches an acknowledgement of another *)
(* kind.  (An open that cannot read goes on with an empty dictionary and   *)
(* lets the next compaction replace the file.)                             *)
CleanAckIsDurable ==
    \A p \in Paths, k \in Keys :
        acked[p][k].clean /\ acked[p][k].value # Unknown
            => OnDisk(p, k) = acked[p][k].value

(* The open dictionary answers Get with the acknowledged value, through    *)
(* any number of failed operations, compactions, closes and restarts.      *)
ReadYourWrites ==
    is_open_ => \A k \in Keys :
        LET a == acked[journal_path_][k] IN
            a.clean /\ a.value # Unknown => Lookup(state_, k) = a.value

(* pending_ops_ of an open journal counts the operations that a replay of  *)
(* its file would redo, so that the compaction threshold bounds recovery.  *)
PendingCountsReplay ==
    is_open_ => pending_ops_ = ReplayJournal(file[journal_path_].lines).n

(* Compaction bounds the file ("to bound file size and recovery time",     *)
(* state_journal.h:21): it has as many lines as the largest threshold, and *)
(* one more for each time the process died between append and compaction.  *)
FileBounded ==
    \A p \in Paths : \E t \in Thresholds \cup {DefaultThreshold} :
        Len(file[p].lines) <= t + crashes

(* The journal is well formed: its state has its types, pending_ops_       *)
(* counts what a replay redoes, and so compaction keeps the file bounded.  *)
Consistent == TypeOK /\ PendingCountsReplay /\ FileBounded
=============================================================================
