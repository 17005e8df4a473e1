-------------------------- MODULE CefInstallProofs --------------------------
(***************************************************************************)
(* Proofs about CefInstall for any versions, any number of parts, retries, *)
(* runs and interruptions.                                                 *)
(***************************************************************************)
EXTENDS CefInstall, TLAPS

(* The inductive invariant, in the parts that its proof goes through.      *)

Filling == {"create", "transfer", "hash", "unpack", "place", "move", "discard",
            "rm_trash", "stamp", "write"}
Empty == {"rm_cef_dir", "index", "verify", "create", "transfer", "hash", "unpack", "place"}
Full == {"discard", "rm_trash", "rm_archive", "stamp", "write", "rename"}
Exporting == {"output", "rm_output", "cef_dir", "rm_cef_dir", "rm_archive", "rename"}

\* A run has a place and a version, and no outcome yet; only the command goes
\* through the steps about its output, and only builds resolve.
\* Only the directory of the version is checked.
JobOK ==
    /\ job.pc = "none" => job = NoJob
    /\ job.pc # "none" => /\ job.loc \in Locations /\ job.version \in Versions
                          /\ outcome = NoOutcome
    /\ job.pc # "none" /\ job.loc # "parent" =>
          job.version = Expected /\ ~job.file /\ job.pc \notin Exporting
    /\ job.loc = "parent" => job.pc # "resolve"
    /\ job.check => job.loc = "versioned"

\* What is unpacked is the right archive; one that is not was damaged in this run.
ArchiveOK ==
    /\ job.pc = "unpack" => job.file \/ archive[job.loc][job.version] = "good"
    /\ job.pc = "hash" /\ archive[job.loc][job.version] # "good" => job.faulted

\* The directory that a run fills: not there, then growing, then complete.
FillOK ==
    /\ job.pc \in Empty => tree[job.loc].parts = 0
    /\ job.pc = "place" => job.content = job.version
    /\ job.pc = "move" => /\ tree[job.loc].parts > 0
                          /\ tree[job.loc].content = job.version
                          /\ tree[job.loc].stamp = NoStamp
    /\ job.pc \in Full => /\ tree[job.loc].parts = Parts
                          /\ tree[job.loc].content = job.version

\* The directory of the version has content only where it exists, and a run that
\* does not check it has found it without.
VersionedOK ==
    /\ ~versioned => tree["versioned"].parts = 0
    /\ job.loc = "versioned" /\ job.pc \in Filling => versioned
    /\ job.loc = "versioned" /\ job.pc = "resolve" /\ ~job.check =>
          tree["versioned"].parts = 0

\* A directory that is incomplete without a run at work on it has the scar.
LeftOK ==
    /\ \/ tree["out_dir"].parts = 0
       \/ tree["out_dir"].parts = Parts /\ tree["out_dir"].content = Expected
       \/ job.loc = "out_dir" /\ job.pc = "move"
       \/ <<"out_dir", "move">> \in scars
    /\ \/ tree["versioned"].parts = 0
       \/ tree["versioned"].stamp = Stamp(Expected)
       \/ job.loc = "versioned" /\ job.pc \in {"move", "discard", "rm_trash", "stamp", "write"}
       \/ scars \intersect Irreparable # {}

\* So has what was moved out of the way and is still there.
TrashOK ==
    /\ "output" \in old => job.pc = "rm_output" \/ <<"parent", "rm_output">> \in scars
    /\ "cef_dir" \in old => job.pc = "rm_cef_dir" \/ <<"parent", "rm_cef_dir">> \in scars
    /\ \A l \in {"parent", "versioned"} : l \in trash =>
          (job.loc = l /\ job.pc = "rm_trash") \/ <<l, "rm_trash">> \in scars
    /\ "out_dir" \in trash =>
          /\ tree["out_dir"].parts > 0
          /\ ~(job.loc = "out_dir" /\ job.pc \in {"move", "discard"})

IInv ==
    /\ TypeOK /\ JobOK /\ ArchiveOK /\ FillOK /\ VersionedOK /\ LeftOK /\ TrashOK
    /\ StampMeansComplete /\ UsedIsComplete /\ NoCauselessFailure

-----------------------------------------------------------------------------
(* Type correctness.                                                       *)

LEMMA ConstantTypes ==
    /\ NoJob \in Jobs /\ NoOutcome \in Outcomes /\ Absent \in Trees
    /\ TornStamp \in Stamps /\ \A v \in Versions : Stamp(v) \in Stamps
    /\ 1 \in 0..Parts /\ Expected \in Versions
BY ConstantsAssumption DEF NoJob, Jobs, NoOutcome, Outcomes, Absent, Trees, Stamps, NoStamp

\* A run goes on to another step.
LEMMA GoToType ==
    ASSUME TypeOK, NEW pc \in Steps, GoTo(pc)
    PROVE  job' \in Jobs
BY DEF TypeOK, GoTo, Jobs

\* A run ends.
LEMMA EndType ==
    ASSUME TypeOK, NEW result \in {"failed", "used", "exported"},
           NEW dir \in Dirs \union {"none"}, NEW refused \in BOOLEAN,
           End(result, dir, refused)
    PROVE  job' \in Jobs /\ outcome' \in Outcomes
BY ConstantTypes DEF End, TypeOK, Jobs, Outcomes

\* A run begins.
LEMMA BeginType ==
    ASSUME TypeOK, NEW j \in Jobs, Begin(j)
    PROVE  TypeOK'
<1>1. runs' \in 0..MaxRuns
  BY ConstantsAssumption DEF Begin, TypeOK
<1>2. job' \in Jobs /\ outcome' \in Outcomes
  BY ConstantTypes DEF Begin
<1>3. QED
  BY <1>1, <1>2 DEF Begin, TypeOK, disk

\* An archive changes.
LEMMA SetArchiveType ==
    ASSUME TypeOK, JobOK, job.pc # "none", NEW s \in {"absent", "bad", "good"},
           SetArchive(s)
    PROVE  archive' \in [Locations -> [Versions -> {"absent", "bad", "good"}]]
BY DEF TypeOK, JobOK, SetArchive

LEMMA BeginningsType ==
    ASSUME TypeOK,
           \/ BuildInOutDir \/ UseConfiguredPath \/ BuildFromVersioned
           \/ \E v \in Versions, file \in BOOLEAN : Export(v, file)
    PROVE  TypeOK'
<1>1. CASE BuildInOutDir
  <2>1. [NoJob EXCEPT !.pc = "resolve", !.loc = "out_dir", !.version = Expected] \in Jobs
    BY ConstantTypes DEF Jobs, Steps, Locations
  <2>2. QED
    BY <1>1, <2>1, BeginType DEF BuildInOutDir
<1>2. CASE UseConfiguredPath
  <2>1. outcome' \in Outcomes
    BY <1>2, ConstantTypes DEF UseConfiguredPath, Outcomes, Dirs
  <2>2. runs' \in 0..MaxRuns
    BY <1>2, ConstantsAssumption DEF UseConfiguredPath, TypeOK
  <2>3. QED
    BY <1>2, <2>1, <2>2 DEF UseConfiguredPath, TypeOK, disk
<1>3. CASE BuildFromVersioned
  <2>1. [NoJob EXCEPT !.pc = "resolve", !.loc = "versioned",
                      !.version = Expected, !.check = versioned] \in Jobs
    BY ConstantTypes DEF Jobs, Steps, Locations, TypeOK
  <2>2. QED
    BY <1>3, <2>1, BeginType DEF BuildFromVersioned
<1>4. ASSUME NEW v \in Versions, NEW file \in BOOLEAN, Export(v, file)
      PROVE  TypeOK'
  <2>1. [NoJob EXCEPT !.pc = "output", !.loc = "parent", !.version = v, !.file = file]
          \in Jobs
    BY ConstantTypes DEF Jobs, Steps, Locations
  <2>2. QED
    BY <1>4, <2>1, BeginType DEF Export
<1>5. QED
  BY <1>1, <1>2, <1>3, <1>4

\* The steps before the download.
LEMMA ClearingType ==
    ASSUME TypeOK, JobOK,
           \/ ResolveCefDir \/ ClearCefDir \/ RemoveOld
           \/ \E force \in BOOLEAN : ClearOutput(force)
    PROVE  TypeOK'
<1>1. CASE ResolveCefDir
  <2>1. job.loc \in Dirs
    BY <1>1 DEF ResolveCefDir, JobOK, At, Dirs, Locations
  <2>2. job' \in Jobs /\ outcome' \in Outcomes
    BY <1>1, <2>1, GoToType, EndType DEF ResolveCefDir, Steps, TypeOK
  <2>3. QED
    BY <1>1, <2>2 DEF ResolveCefDir, TypeOK, disk
<1>2. CASE ClearCefDir
  <2>1. job' \in Jobs /\ outcome' \in Outcomes
    BY <1>2, GoToType, EndType DEF ClearCefDir, Steps, TypeOK
  <2>2. tree' \in [Dirs -> Trees] /\ old' \subseteq {"output", "cef_dir"}
    BY <1>2, ConstantTypes DEF ClearCefDir, TypeOK
  <2>3. QED
    BY <1>2, <2>1, <2>2 DEF ClearCefDir, TypeOK
<1>3. CASE RemoveOld
  <2>1. job' \in Jobs
    BY <1>3, GoToType DEF RemoveOld, Steps
  <2>2. QED
    BY <1>3, <2>1 DEF RemoveOld, TypeOK
<1>4. ASSUME NEW force \in BOOLEAN, ClearOutput(force)
      PROVE  TypeOK'
  <2>1. job' \in Jobs /\ outcome' \in Outcomes
    BY <1>4, GoToType, EndType DEF ClearOutput, Steps, TypeOK
  <2>2. tree' \in [Dirs -> Trees]
    BY <1>4, ConstantTypes DEF ClearOutput, TypeOK, disk
  <2>3. archive' \in [Locations -> [Versions -> {"absent", "bad", "good"}]]
    <3>1. [v \in Versions |-> "absent"] \in [Versions -> {"absent", "bad", "good"}]
      OBVIOUS
    <3>2. QED
      BY <1>4, <3>1 DEF ClearOutput, TypeOK, disk
  <2>4. /\ old' \subseteq {"output", "cef_dir"}
        /\ versioned' \in BOOLEAN /\ trash' \subseteq Locations
    BY <1>4 DEF ClearOutput, TypeOK, disk
  <2>5. QED
    BY <1>4, <2>1, <2>2, <2>3, <2>4 DEF ClearOutput, TypeOK
<1>5. QED
  BY <1>1, <1>2, <1>3, <1>4

\* The download.
LEMMA DownloadType ==
    ASSUME TypeOK, JobOK,
           \/ ReadIndex \/ VerifyArchive \/ CreateArchive \/ TransferArchive
           \/ TransferWrongBytes \/ CheckHash \/ Retry \/ RemoveArchive
    PROVE  TypeOK'
<1>1. CASE ReadIndex
  <2>1. job' \in Jobs
    BY <1>1, GoToType DEF ReadIndex, Steps
  <2>2. QED
    BY <1>1, <2>1 DEF ReadIndex, TypeOK, disk
<1>2. CASE VerifyArchive
  <2>1. job' \in Jobs
    BY <1>2, GoToType DEF VerifyArchive, Steps
  <2>2. archive' \in [Locations -> [Versions -> {"absent", "bad", "good"}]]
    BY <1>2, SetArchiveType DEF VerifyArchive, At, TypeOK
  <2>3. QED
    BY <1>2, <2>1, <2>2 DEF VerifyArchive, TypeOK
<1>3. CASE CreateArchive \/ TransferArchive \/ RemoveArchive
  <2>1. job' \in Jobs
    BY <1>3, GoToType DEF CreateArchive, TransferArchive, RemoveArchive, Steps
  <2>2. archive' \in [Locations -> [Versions -> {"absent", "bad", "good"}]]
    BY <1>3, SetArchiveType DEF CreateArchive, TransferArchive, RemoveArchive, At
  <2>3. QED
    BY <1>3, <2>1, <2>2 DEF CreateArchive, TransferArchive, RemoveArchive, TypeOK
<1>4. CASE TransferWrongBytes
  <2>1. job' \in Jobs
    BY <1>4 DEF TransferWrongBytes, TypeOK, Jobs, Steps
  <2>2. archive' \in [Locations -> [Versions -> {"absent", "bad", "good"}]]
    BY <1>4, SetArchiveType DEF TransferWrongBytes, At
  <2>3. faults' \in 0..MaxFaults
    BY <1>4, ConstantsAssumption DEF TransferWrongBytes, TypeOK
  <2>4. QED
    BY <1>4, <2>1, <2>2, <2>3 DEF TransferWrongBytes, TypeOK
<1>5. CASE CheckHash
  <2>1. job' \in Jobs /\ outcome' \in Outcomes
    BY <1>5, GoToType, EndType DEF CheckHash, Steps, TypeOK
  <2>2. QED
    BY <1>5, <2>1 DEF CheckHash, TypeOK, disk
<1>6. CASE Retry
  <2>1. job.retry \in 0..MaxRetries
    BY DEF TypeOK, Jobs
  <2>2. job.retry + 1 \in 0..MaxRetries
    BY <1>6, <2>1, ConstantsAssumption DEF Retry
  <2>3. job' \in Jobs
    BY <1>6, <2>2 DEF Retry, TypeOK, Jobs, Steps
  <2>4. QED
    BY <1>6, <2>3 DEF Retry, TypeOK, disk
<1>7. QED
  BY <1>1, <1>2, <1>3, <1>4, <1>5, <1>6

\* The extraction and what follows it.
LEMMA ExtractionType ==
    ASSUME TypeOK, JobOK,
           \/ Unpack \/ Place \/ Move \/ Discard
           \/ \E save \in BOOLEAN : RemoveTrash(save)
           \/ CreateStamp \/ WriteStamp \/ RenameToOutput
    PROVE  TypeOK'
<1>0. job.pc # "none" => /\ job.loc \in Locations /\ job.loc \in Dirs
                         /\ job.version \in Versions
  BY DEF JobOK, Dirs
<1>1. CASE Unpack
  <2>1. job' \in Jobs
    BY <1>1 DEF Unpack, TypeOK, Jobs, Steps
  <2>2. QED
    BY <1>1, <2>1 DEF Unpack, TypeOK, disk
<1>2. CASE Place
  <2>1. job' \in Jobs
    BY <1>2, GoToType DEF Place, Steps
  <2>2. job.content \in Versions \union {0}
    BY DEF TypeOK, Jobs
  <2>3. [Absent EXCEPT !.parts = 1, !.content = job.content] \in Trees
    BY <2>2, ConstantTypes DEF Trees
  <2>4. tree' \in [Dirs -> Trees]
    BY <1>0, <1>2, <2>3 DEF Place, TypeOK, At
  <2>5. QED
    BY <1>2, <2>1, <2>4 DEF Place, TypeOK
<1>3. CASE Move
  <2>1. job' \in Jobs
    BY <1>3, GoToType DEF Move, Steps, TypeOK
  <2>2. tree' \in [Dirs -> Trees]
    <3>1. CASE tree[job.loc].parts < Parts
      <4>1. tree[job.loc] \in Trees
        BY <1>0, <1>3 DEF Move, At, TypeOK
      <4>2. [tree[job.loc] EXCEPT !.parts = @ + 1] \in Trees
        BY <3>1, <4>1, ConstantsAssumption DEF Trees
      <4>3. QED
        BY <1>3, <3>1, <4>2 DEF Move, TypeOK
    <3>2. CASE ~(tree[job.loc].parts < Parts)
      BY <1>3, <3>2 DEF Move, TypeOK
    <3>3. QED
      BY <3>1, <3>2
  <2>3. QED
    BY <1>3, <2>1, <2>2 DEF Move, TypeOK
<1>4. CASE Discard
  <2>1. job' \in Jobs /\ outcome' \in Outcomes
    BY <1>4, GoToType, EndType DEF Discard, Steps, TypeOK
  <2>2. trash' \subseteq Locations
    BY <1>0, <1>4 DEF Discard, At, TypeOK
  <2>3. QED
    BY <1>4, <2>1, <2>2 DEF Discard, TypeOK
<1>5. ASSUME NEW save \in BOOLEAN, RemoveTrash(save)
      PROVE  TypeOK'
  <2>1. job' \in Jobs
    BY <1>5, GoToType DEF RemoveTrash, Steps
  <2>2. QED
    BY <1>5, <2>1 DEF RemoveTrash, TypeOK
<1>6. CASE CreateStamp \/ WriteStamp
  <2>1. job' \in Jobs /\ outcome' \in Outcomes
    BY <1>0, <1>6, GoToType, EndType DEF CreateStamp, WriteStamp, Steps, TypeOK, At
  <2>2. tree' \in [Dirs -> Trees]
    <3>1. PICK s \in Stamps : tree' = [tree EXCEPT ![job.loc].stamp = s]
      BY <1>0, <1>6, ConstantTypes DEF CreateStamp, WriteStamp, At
    <3>2. tree[job.loc] \in Trees
      BY <1>0, <1>6 DEF CreateStamp, WriteStamp, TypeOK, At
    <3>3. [tree[job.loc] EXCEPT !.stamp = s] \in Trees
      BY <3>2 DEF Trees
    <3>4. QED
      BY <3>1, <3>3 DEF TypeOK
  <2>3. QED
    BY <1>6, <2>1, <2>2 DEF CreateStamp, WriteStamp, TypeOK
<1>7. CASE RenameToOutput
  <2>1. job' \in Jobs /\ outcome' \in Outcomes
    BY <1>7, EndType DEF RenameToOutput, Dirs
  <2>2. tree' \in [Dirs -> Trees]
    BY <1>7, ConstantTypes DEF RenameToOutput, TypeOK, Dirs, Locations
  <2>3. QED
    BY <1>7, <2>1, <2>2 DEF RenameToOutput, TypeOK
<1>8. QED
  BY <1>1, <1>2, <1>3, <1>4, <1>5, <1>6, <1>7

LEMMA InterruptType ==
    ASSUME TypeOK, JobOK, Interrupt
    PROVE  TypeOK'
<1>1. job.pc # "none"
  BY DEF Interrupt, JobOK
<1>2. job' \in Jobs /\ outcome' \in Outcomes
  BY ConstantTypes DEF Interrupt, TypeOK, Jobs, Outcomes
<1>3. scars' \subseteq Locations \X Steps
  <2>1. job.loc \in Locations /\ job.pc \in Steps
    BY <1>1 DEF JobOK, TypeOK, Jobs
  <2>2. QED
    BY <2>1 DEF Interrupt, TypeOK
<1>4. faults' \in 0..MaxFaults
  BY ConstantsAssumption DEF Interrupt, TypeOK
<1>5. QED
  BY <1>2, <1>3, <1>4 DEF Interrupt, TypeOK, disk

LEMMA NextType ==
    ASSUME TypeOK, JobOK, Next
    PROVE  TypeOK'
BY BeginningsType, ClearingType, DownloadType, ExtractionType, InterruptType DEF Next, Step

-----------------------------------------------------------------------------
\* The constants of the model and its abbreviations are used throughout.
USE ConstantsAssumption
    DEF Locations, Dirs, Steps, Stamps, Stamp, NoStamp, TornStamp, Absent, NoJob, NoOutcome,
        At, GoTo, disk, Filling, Empty, Full, Exporting, Irreparable

\* What exists is used: it is complete, or has its scar.
LEMMA ResolveCefDirIInv ==
    ASSUME IInv, ResolveCefDir
    PROVE  IInv'
<1>1. TypeOK'
  BY NextType DEF IInv, Next, Step
<1>2. LeftOK' /\ StampMeansComplete'
  BY DEF IInv, LeftOK, StampMeansComplete, ResolveCefDir, CheckArchive, End
<1>3. JobOK'
  BY DEF IInv, TypeOK, JobOK, Jobs, ResolveCefDir, CheckArchive, End
<1>4. ArchiveOK'
  BY DEF IInv, TypeOK, Jobs, ArchiveOK, ResolveCefDir, CheckArchive, End
<1>5. FillOK'
  BY DEF IInv, TypeOK, Jobs, FillOK, ResolveCefDir, CheckArchive, End
<1>6. VersionedOK'
  BY DEF IInv, TypeOK, Jobs, VersionedOK, ResolveCefDir, CheckArchive, End
<1>7. TrashOK'
  BY DEF IInv, TypeOK, Jobs, TrashOK, ResolveCefDir, CheckArchive, End
<1>8. UsedIsComplete'
  BY DEF IInv, TypeOK, JobOK, Trees, StampMeansComplete, LeftOK, VersionedOK,
     UsedIsComplete, ResolveCefDir, CheckArchive, End
<1>9. NoCauselessFailure'
  BY DEF IInv, JobOK, Trees, LeftOK, VersionedOK, NoCauselessFailure, ResolveCefDir,
     CheckArchive, End
<1>10. QED
  BY <1>1, <1>2, <1>3, <1>4, <1>5, <1>6, <1>7, <1>8, <1>9 DEF IInv

\* The output of an earlier run is refused or moved away.
LEMMA ClearOutputIInv ==
    ASSUME IInv, NEW force \in BOOLEAN, ClearOutput(force)
    PROVE  IInv'
<1>1. TypeOK'
  BY NextType DEF IInv, Next, Step
<1>2. JobOK'
  BY DEF IInv, TypeOK, JobOK, Jobs, ClearOutput, OutputExists, End
<1>3. ArchiveOK'
  BY DEF IInv, TypeOK, Jobs, ArchiveOK, ClearOutput, OutputExists, End
<1>4. FillOK'
  BY DEF IInv, TypeOK, Jobs, FillOK, ClearOutput, OutputExists, End
<1>5. VersionedOK'
  BY DEF IInv, TypeOK, Jobs, VersionedOK, ClearOutput, OutputExists, End
<1>6. LeftOK'
  BY DEF IInv, TypeOK, LeftOK, ClearOutput, OutputExists, End
<1>7. TrashOK'
  BY DEF IInv, TypeOK, Jobs, TrashOK, ClearOutput, OutputExists, End
<1>8. StampMeansComplete'
  BY DEF IInv, TypeOK, StampMeansComplete, ClearOutput, OutputExists, End
<1>9. UsedIsComplete'
  BY DEF IInv, JobOK, UsedIsComplete, ClearOutput, OutputExists, End
<1>10. NoCauselessFailure'
  BY DEF IInv, TrashOK, NoCauselessFailure, ClearOutput, OutputExists, End
<1>11. QED
  BY <1>1, <1>2, <1>3, <1>4, <1>5, <1>6, <1>7, <1>8, <1>9, <1>10 DEF IInv

\* The parent's directory is out of the way before the download.
LEMMA ClearCefDirIInv ==
    ASSUME IInv, ClearCefDir
    PROVE  IInv'
<1>1. TypeOK'
  BY NextType DEF IInv, Next, Step
<1>2. JobOK'
  BY DEF IInv, TypeOK, JobOK, Jobs, ClearCefDir, End
<1>3. ArchiveOK'
  BY DEF IInv, TypeOK, Jobs, ArchiveOK, ClearCefDir, End
<1>4. FillOK'
  BY DEF IInv, TypeOK, JobOK, Jobs, Trees, FillOK, ClearCefDir, End
<1>5. VersionedOK'
  BY DEF IInv, TypeOK, JobOK, Jobs, VersionedOK, ClearCefDir, End
<1>6. LeftOK'
  BY DEF IInv, TypeOK, LeftOK, ClearCefDir, End
<1>7. TrashOK'
  BY DEF IInv, TypeOK, Jobs, TrashOK, ClearCefDir, End
<1>8. StampMeansComplete'
  BY DEF IInv, TypeOK, StampMeansComplete, ClearCefDir, End
<1>9. UsedIsComplete'
  BY DEF IInv, JobOK, UsedIsComplete, ClearCefDir, End
<1>10. NoCauselessFailure'
  BY DEF IInv, TrashOK, NoCauselessFailure, ClearCefDir, End
<1>11. QED
  BY <1>1, <1>2, <1>3, <1>4, <1>5, <1>6, <1>7, <1>8, <1>9, <1>10 DEF IInv

\* What was moved away is removed.
LEMMA RemoveOldIInv ==
    ASSUME IInv, RemoveOld
    PROVE  IInv'
<1>1. TypeOK'
  BY NextType DEF IInv, Next, Step
<1>2. LeftOK' /\ StampMeansComplete' /\ UsedIsComplete' /\ NoCauselessFailure'
  BY DEF IInv, LeftOK, StampMeansComplete, UsedIsComplete, NoCauselessFailure, RemoveOld
<1>3. JobOK'
  BY DEF IInv, TypeOK, JobOK, Jobs, RemoveOld
<1>4. ArchiveOK'
  BY DEF IInv, TypeOK, Jobs, ArchiveOK, RemoveOld
<1>5. FillOK'
  BY DEF IInv, TypeOK, Jobs, FillOK, RemoveOld
<1>6. VersionedOK'
  BY DEF IInv, TypeOK, JobOK, Jobs, VersionedOK, RemoveOld
<1>7. TrashOK'
  BY DEF IInv, TypeOK, Jobs, TrashOK, RemoveOld
<1>8. QED
  BY <1>1, <1>2, <1>3, <1>4, <1>5, <1>6, <1>7 DEF IInv

\* The index changes nothing on disk.
LEMMA ReadIndexIInv ==
    ASSUME IInv, ReadIndex
    PROVE  IInv'
<1>1. TypeOK'
  BY NextType DEF IInv, Next, Step
<1>2. JobOK' /\ ArchiveOK' /\ FillOK' /\ VersionedOK' /\ LeftOK' /\ TrashOK' /\
      StampMeansComplete' /\ UsedIsComplete' /\ NoCauselessFailure'
  BY DEF IInv, JobOK, ArchiveOK, FillOK, VersionedOK, LeftOK, TrashOK,
     StampMeansComplete, UsedIsComplete, NoCauselessFailure, ReadIndex
<1>3. QED
  BY <1>1, <1>2 DEF IInv

\* A bad archive goes, and the version's directory is there from now on.
LEMMA VerifyArchiveIInv ==
    ASSUME IInv, VerifyArchive
    PROVE  IInv'
<1>1. TypeOK'
  BY NextType DEF IInv, Next, Step
<1>2. JobOK' /\ ArchiveOK' /\ FillOK' /\ LeftOK' /\ TrashOK' /\ StampMeansComplete' /\
      UsedIsComplete' /\ NoCauselessFailure'
  BY DEF IInv, JobOK, ArchiveOK, FillOK, LeftOK, TrashOK, StampMeansComplete,
     UsedIsComplete, NoCauselessFailure, VerifyArchive, SetArchive
<1>3. VersionedOK'
  BY DEF IInv, TypeOK, Jobs, VersionedOK, VerifyArchive, SetArchive
<1>4. QED
  BY <1>1, <1>2, <1>3 DEF IInv

\* A new archive is bad until all of it has come.
LEMMA CreateArchiveIInv ==
    ASSUME IInv, CreateArchive
    PROVE  IInv'
<1>1. TypeOK'
  BY NextType DEF IInv, Next, Step
<1>2. JobOK' /\ ArchiveOK' /\ FillOK' /\ VersionedOK' /\ LeftOK' /\ TrashOK' /\
      StampMeansComplete' /\ UsedIsComplete' /\ NoCauselessFailure'
  BY DEF IInv, JobOK, ArchiveOK, FillOK, VersionedOK, LeftOK, TrashOK,
     StampMeansComplete, UsedIsComplete, NoCauselessFailure, CreateArchive, SetArchive
<1>3. QED
  BY <1>1, <1>2 DEF IInv

\* All of it has come.
LEMMA TransferArchiveIInv ==
    ASSUME IInv, TransferArchive
    PROVE  IInv'
<1>1. TypeOK'
  BY NextType DEF IInv, Next, Step
<1>2. JobOK' /\ FillOK' /\ VersionedOK' /\ LeftOK' /\ TrashOK' /\ StampMeansComplete' /\
      UsedIsComplete' /\ NoCauselessFailure'
  BY DEF IInv, JobOK, FillOK, VersionedOK, LeftOK, TrashOK, StampMeansComplete,
     UsedIsComplete, NoCauselessFailure, TransferArchive, SetArchive
<1>3. ArchiveOK'
  BY DEF IInv, TypeOK, JobOK, ArchiveOK, TransferArchive, SetArchive
<1>4. QED
  BY <1>1, <1>2, <1>3 DEF IInv

\* Wrong bytes are the run's own error.
LEMMA TransferWrongBytesIInv ==
    ASSUME IInv, TransferWrongBytes
    PROVE  IInv'
<1>1. TypeOK'
  BY NextType DEF IInv, Next, Step
<1>2. JobOK' /\ ArchiveOK' /\ FillOK' /\ VersionedOK' /\ LeftOK' /\ TrashOK' /\
      StampMeansComplete' /\ UsedIsComplete' /\ NoCauselessFailure'
  BY DEF IInv, JobOK, ArchiveOK, FillOK, VersionedOK, LeftOK, TrashOK,
     StampMeansComplete, UsedIsComplete, NoCauselessFailure, TransferWrongBytes,
     SetArchive
<1>3. QED
  BY <1>1, <1>2 DEF IInv

\* Only a good archive is unpacked.
LEMMA CheckHashIInv ==
    ASSUME IInv, CheckHash
    PROVE  IInv'
<1>1. TypeOK'
  BY NextType DEF IInv, Next, Step
<1>2. LeftOK' /\ StampMeansComplete' /\ UsedIsComplete'
  BY DEF IInv, LeftOK, StampMeansComplete, UsedIsComplete, CheckHash, End
<1>3. JobOK'
  BY DEF IInv, TypeOK, JobOK, Jobs, CheckHash, End
<1>4. ArchiveOK'
  BY DEF IInv, TypeOK, Jobs, ArchiveOK, CheckHash, End
<1>5. FillOK'
  BY DEF IInv, TypeOK, Jobs, FillOK, CheckHash, End
<1>6. VersionedOK'
  BY DEF IInv, TypeOK, Jobs, VersionedOK, CheckHash, End
<1>7. TrashOK'
  BY DEF IInv, TypeOK, Jobs, TrashOK, CheckHash, End
<1>8. NoCauselessFailure'
  BY DEF IInv, ArchiveOK, NoCauselessFailure, CheckHash, End
<1>9. QED
  BY <1>1, <1>2, <1>3, <1>4, <1>5, <1>6, <1>7, <1>8 DEF IInv

\* A retry begins with the archive that the attempt before left.
LEMMA RetryIInv ==
    ASSUME IInv, Retry
    PROVE  IInv'
<1>1. TypeOK'
  BY NextType DEF IInv, Next, Step
<1>2. JobOK' /\ ArchiveOK' /\ FillOK' /\ VersionedOK' /\ LeftOK' /\ TrashOK' /\
      StampMeansComplete' /\ UsedIsComplete' /\ NoCauselessFailure'
  BY DEF IInv, JobOK, ArchiveOK, FillOK, VersionedOK, LeftOK, TrashOK,
     StampMeansComplete, UsedIsComplete, NoCauselessFailure, Retry
<1>3. QED
  BY <1>1, <1>2 DEF IInv

\* A good archive has the content of its version.
LEMMA UnpackIInv ==
    ASSUME IInv, Unpack
    PROVE  IInv'
<1>1. TypeOK'
  BY NextType DEF IInv, Next, Step
<1>2. JobOK' /\ ArchiveOK' /\ VersionedOK' /\ LeftOK' /\ TrashOK' /\ StampMeansComplete'
      /\ UsedIsComplete' /\ NoCauselessFailure'
  BY DEF IInv, JobOK, ArchiveOK, VersionedOK, LeftOK, TrashOK, StampMeansComplete,
     UsedIsComplete, NoCauselessFailure, Unpack
<1>3. FillOK'
  BY DEF IInv, ArchiveOK, FillOK, Unpack
<1>4. QED
  BY <1>1, <1>2, <1>3 DEF IInv

\* The directory appears, incomplete and without a stamp.
LEMMA PlaceIInv ==
    ASSUME IInv, Place
    PROVE  IInv'
<1>1. TypeOK'
  BY NextType DEF IInv, Next, Step
<1>2. JobOK' /\ ArchiveOK' /\ VersionedOK' /\ LeftOK' /\ StampMeansComplete' /\
      NoCauselessFailure'
  BY DEF IInv, JobOK, ArchiveOK, VersionedOK, LeftOK, StampMeansComplete,
     NoCauselessFailure, Place
<1>3. FillOK'
  BY DEF IInv, TypeOK, JobOK, FillOK, Place
<1>4. TrashOK'
  BY DEF IInv, FillOK, TrashOK, Place
<1>5. UsedIsComplete'
  BY DEF IInv, JobOK, UsedIsComplete, Place
<1>6. QED
  BY <1>1, <1>2, <1>3, <1>4, <1>5 DEF IInv

\* It grows, still without a stamp, until it is complete.
LEMMA MoveIInv ==
    ASSUME IInv, Move
    PROVE  IInv'
<1>1. TypeOK'
  BY NextType DEF IInv, Next, Step
<1>2. NoCauselessFailure'
  BY DEF IInv, NoCauselessFailure, Move
<1>3. JobOK'
  BY DEF IInv, TypeOK, JobOK, Jobs, Move
<1>4. ArchiveOK'
  BY DEF IInv, TypeOK, Jobs, ArchiveOK, Move
<1>5. FillOK'
  BY DEF IInv, TypeOK, JobOK, Jobs, Trees, FillOK, Move
<1>6. VersionedOK'
  BY DEF IInv, TypeOK, Jobs, VersionedOK, Move
<1>7. LeftOK'
  BY DEF IInv, TypeOK, JobOK, Jobs, Trees, FillOK, LeftOK, Move
<1>8. TrashOK'
  BY DEF IInv, TypeOK, Jobs, TrashOK, Move
<1>9. StampMeansComplete'
  <2> SUFFICES ASSUME NEW d \in Dirs, tree'[d].stamp.kind = "ok"
               PROVE  /\ tree'[d].parts = Parts
                      /\ tree'[d].content = tree'[d].stamp.version
    BY DEF StampMeansComplete
  <2>1. tree'[d].stamp = tree[d].stamp
    BY DEF IInv, TypeOK, Trees, Move
  <2>2. job.loc # d
    BY <2>1 DEF IInv, FillOK, Move
  <2>3. tree'[d] = tree[d]
    BY <2>2 DEF IInv, TypeOK, Move
  <2>4. QED
    BY <2>3 DEF IInv, StampMeansComplete
<1>10. UsedIsComplete'
  BY DEF IInv, JobOK, UsedIsComplete, Move
<1>11. QED
  BY <1>1, <1>2, <1>3, <1>4, <1>5, <1>6, <1>7, <1>8, <1>9, <1>10 DEF IInv

\* Trash in the way is the scar of an earlier run.
LEMMA DiscardIInv ==
    ASSUME IInv, Discard
    PROVE  IInv'
<1>1. TypeOK'
  BY NextType DEF IInv, Next, Step
<1>2. StampMeansComplete' /\ UsedIsComplete'
  BY DEF IInv, StampMeansComplete, UsedIsComplete, Discard, End
<1>3. JobOK'
  BY DEF IInv, TypeOK, JobOK, Jobs, Discard, End
<1>4. ArchiveOK'
  BY DEF IInv, TypeOK, Jobs, ArchiveOK, Discard, End
<1>5. FillOK'
  BY DEF IInv, TypeOK, Jobs, FillOK, Discard, End
<1>6. VersionedOK'
  BY DEF IInv, TypeOK, Jobs, VersionedOK, Discard, End
<1>7. LeftOK'
  BY DEF IInv, TypeOK, Jobs, TrashOK, FillOK, LeftOK, Discard, End
<1>8. TrashOK'
  BY DEF IInv, TypeOK, Jobs, FillOK, TrashOK, Discard, End
<1>9. NoCauselessFailure'
  BY DEF IInv, TypeOK, TrashOK, NoCauselessFailure, Discard, End
<1>10. QED
  BY <1>1, <1>2, <1>3, <1>4, <1>5, <1>6, <1>7, <1>8, <1>9 DEF IInv

\* The trash is removed.
LEMMA RemoveTrashIInv ==
    ASSUME IInv, NEW save \in BOOLEAN, RemoveTrash(save)
    PROVE  IInv'
<1>1. TypeOK'
  BY NextType DEF IInv, Next, Step
<1>2. JobOK' /\ ArchiveOK' /\ FillOK' /\ VersionedOK' /\ LeftOK' /\ TrashOK' /\
      StampMeansComplete' /\ UsedIsComplete' /\ NoCauselessFailure'
  BY DEF IInv, JobOK, ArchiveOK, FillOK, VersionedOK, LeftOK, TrashOK,
     StampMeansComplete, UsedIsComplete, NoCauselessFailure, RemoveTrash
<1>3. QED
  BY <1>1, <1>2 DEF IInv

\* The archive is no longer needed.
LEMMA RemoveArchiveIInv ==
    ASSUME IInv, RemoveArchive
    PROVE  IInv'
<1>1. TypeOK'
  BY NextType DEF IInv, Next, Step
<1>2. JobOK' /\ ArchiveOK' /\ FillOK' /\ LeftOK' /\ TrashOK' /\ StampMeansComplete' /\
      UsedIsComplete' /\ NoCauselessFailure'
  BY DEF IInv, JobOK, ArchiveOK, FillOK, LeftOK, TrashOK, StampMeansComplete,
     UsedIsComplete, NoCauselessFailure, RemoveArchive, SetArchive
<1>3. VersionedOK'
  BY DEF IInv, JobOK, VersionedOK, RemoveArchive, SetArchive
<1>4. QED
  BY <1>1, <1>2, <1>3 DEF IInv

\* A stamp that is not written yet says nothing.
LEMMA CreateStampIInv ==
    ASSUME IInv, CreateStamp
    PROVE  IInv'
<1>1. TypeOK'
  BY NextType DEF IInv, Next, Step
<1>2. JobOK' /\ ArchiveOK' /\ FillOK' /\ VersionedOK' /\ LeftOK' /\ TrashOK' /\
      StampMeansComplete' /\ UsedIsComplete' /\ NoCauselessFailure'
  BY DEF IInv, JobOK, ArchiveOK, FillOK, VersionedOK, LeftOK, TrashOK,
     StampMeansComplete, UsedIsComplete, NoCauselessFailure, CreateStamp
<1>3. QED
  BY <1>1, <1>2 DEF IInv

\* A stamp is written when the directory is complete.
LEMMA WriteStampIInv ==
    ASSUME IInv, WriteStamp
    PROVE  IInv'
<1>1. TypeOK'
  BY NextType DEF IInv, Next, Step
<1>2. NoCauselessFailure'
  BY DEF IInv, NoCauselessFailure, WriteStamp, End
<1>3. JobOK'
  BY DEF IInv, TypeOK, JobOK, Jobs, WriteStamp, End
<1>4. ArchiveOK'
  BY DEF IInv, TypeOK, Jobs, ArchiveOK, WriteStamp, End
<1>5. FillOK'
  BY DEF IInv, TypeOK, Jobs, FillOK, WriteStamp, End
<1>6. VersionedOK'
  BY DEF IInv, TypeOK, Jobs, VersionedOK, WriteStamp, End
<1>7. LeftOK'
  BY DEF IInv, TypeOK, JobOK, LeftOK, WriteStamp, End
<1>8. TrashOK'
  BY DEF IInv, TypeOK, Jobs, TrashOK, WriteStamp, End
<1>9. StampMeansComplete'
  BY DEF IInv, FillOK, StampMeansComplete, WriteStamp, End
<1>10. UsedIsComplete'
  BY DEF IInv, JobOK, FillOK, UsedIsComplete, WriteStamp, End
<1>11. QED
  BY <1>1, <1>2, <1>3, <1>4, <1>5, <1>6, <1>7, <1>8, <1>9, <1>10 DEF IInv

\* The output is the directory with its stamp.
LEMMA RenameToOutputIInv ==
    ASSUME IInv, RenameToOutput
    PROVE  IInv'
<1>1. TypeOK'
  BY NextType DEF IInv, Next, Step
<1>2. JobOK' /\ ArchiveOK' /\ FillOK' /\ NoCauselessFailure'
  BY DEF IInv, JobOK, ArchiveOK, FillOK, NoCauselessFailure, RenameToOutput, End
<1>3. VersionedOK'
  BY DEF IInv, TypeOK, VersionedOK, RenameToOutput, End
<1>4. LeftOK'
  BY DEF IInv, TypeOK, LeftOK, RenameToOutput, End
<1>5. TrashOK'
  BY DEF IInv, TypeOK, TrashOK, RenameToOutput, End
<1>6. StampMeansComplete'
  BY DEF IInv, TypeOK, StampMeansComplete, RenameToOutput, End
<1>7. UsedIsComplete'
  BY DEF IInv, TypeOK, JobOK, FillOK, UsedIsComplete, RenameToOutput, End
<1>8. QED
  BY <1>1, <1>2, <1>3, <1>4, <1>5, <1>6, <1>7 DEF IInv

\* A run that is cut off leaves a scar for what it leaves behind.
LEMMA InterruptIInv ==
    ASSUME IInv, Interrupt
    PROVE  IInv'
<1>1. TypeOK'
  BY NextType DEF IInv, Next, Step
<1>2. JobOK' /\ ArchiveOK' /\ FillOK' /\ VersionedOK' /\ StampMeansComplete' /\
      UsedIsComplete' /\ NoCauselessFailure'
  BY DEF IInv, JobOK, ArchiveOK, FillOK, VersionedOK, StampMeansComplete,
     UsedIsComplete, NoCauselessFailure, Interrupt
<1>3. LeftOK'
  <2>1. scars' = scars \union {<<job.loc, job.pc>>} /\ tree' = tree
    BY DEF Interrupt
  <2>2. \/ tree["out_dir"].parts = 0
        \/ tree["out_dir"].parts = Parts /\ tree["out_dir"].content = Expected
        \/ <<"out_dir", "move">> \in scars'
    BY <2>1 DEF IInv, LeftOK
  <2>3. job.loc = "versioned" /\ job.pc \in {"move", "discard", "rm_trash", "stamp", "write"}
          => <<job.loc, job.pc>> \in scars' \intersect Irreparable
    BY <2>1
  <2>4. scars \intersect Irreparable # {} => scars' \intersect Irreparable # {}
    BY <2>1
  <2>5. \/ tree["versioned"].parts = 0
        \/ tree["versioned"].stamp = Stamp(Expected)
        \/ scars' \intersect Irreparable # {}
    BY <2>3, <2>4 DEF IInv, LeftOK
  <2>6. QED
    BY <2>1, <2>2, <2>5 DEF LeftOK
<1>4. TrashOK'
  BY DEF IInv, JobOK, TrashOK, Interrupt
<1>5. QED
  BY <1>1, <1>2, <1>3, <1>4 DEF IInv

\* A build begins in OUT_DIR.
LEMMA BuildInOutDirIInv ==
    ASSUME IInv, BuildInOutDir
    PROVE  IInv'
<1>1. TypeOK'
  BY NextType DEF IInv, Next, Step
<1>2. JobOK' /\ ArchiveOK' /\ FillOK' /\ VersionedOK' /\ LeftOK' /\ TrashOK' /\
      StampMeansComplete' /\ UsedIsComplete' /\ NoCauselessFailure'
  BY DEF IInv, JobOK, ArchiveOK, FillOK, VersionedOK, LeftOK, TrashOK,
     StampMeansComplete, UsedIsComplete, NoCauselessFailure, BuildInOutDir, Begin
<1>3. QED
  BY <1>1, <1>2 DEF IInv

\* CEF_PATH is used as it is if its stamp is right.
LEMMA UseConfiguredPathIInv ==
    ASSUME IInv, UseConfiguredPath
    PROVE  IInv'
<1>1. TypeOK'
  BY NextType DEF IInv, Next, Step
<1>2. JobOK' /\ ArchiveOK' /\ FillOK' /\ VersionedOK' /\ LeftOK' /\ TrashOK' /\
      StampMeansComplete' /\ NoCauselessFailure'
  BY DEF IInv, JobOK, ArchiveOK, FillOK, VersionedOK, LeftOK, TrashOK,
     StampMeansComplete, NoCauselessFailure, UseConfiguredPath, OutputExists,
     CheckArchive
<1>3. UsedIsComplete'
  BY DEF IInv, TypeOK, Trees, StampMeansComplete, UsedIsComplete, UseConfiguredPath,
     OutputExists, CheckArchive
<1>4. QED
  BY <1>1, <1>2, <1>3 DEF IInv

\* A build begins in the directory of the version.
LEMMA BuildFromVersionedIInv ==
    ASSUME IInv, BuildFromVersioned
    PROVE  IInv'
<1>1. TypeOK'
  BY NextType DEF IInv, Next, Step
<1>2. JobOK' /\ ArchiveOK' /\ FillOK' /\ VersionedOK' /\ LeftOK' /\ TrashOK' /\
      StampMeansComplete' /\ UsedIsComplete' /\ NoCauselessFailure'
  BY DEF IInv, JobOK, ArchiveOK, FillOK, VersionedOK, LeftOK, TrashOK,
     StampMeansComplete, UsedIsComplete, NoCauselessFailure, BuildFromVersioned,
     OutputExists, CheckArchive, Begin
<1>3. QED
  BY <1>1, <1>2 DEF IInv

\* The command begins.
LEMMA ExportIInv ==
    ASSUME IInv, NEW v \in Versions, NEW file \in BOOLEAN, Export(v, file)
    PROVE  IInv'
<1>1. TypeOK'
  BY NextType DEF IInv, Next, Step
<1>2. JobOK' /\ ArchiveOK' /\ FillOK' /\ VersionedOK' /\ LeftOK' /\ TrashOK' /\
      StampMeansComplete' /\ UsedIsComplete' /\ NoCauselessFailure'
  BY DEF IInv, JobOK, ArchiveOK, FillOK, VersionedOK, LeftOK, TrashOK,
     StampMeansComplete, UsedIsComplete, NoCauselessFailure, Export, Begin
<1>3. QED
  BY <1>1, <1>2 DEF IInv

LEMMA InitIInv == Init => IInv
<1> SUFFICES ASSUME Init PROVE IInv
  OBVIOUS
<1>1. TypeOK
  <2> HIDE DEF NoJob, NoOutcome, Absent, Stamps
  <2>1. /\ archive \in [Locations -> [Versions -> {"absent", "bad", "good"}]]
        /\ tree \in [Dirs -> Trees]
    BY ConstantTypes DEF Init
  <2>2. runs \in 0..MaxRuns /\ faults \in 0..MaxFaults
    BY DEF Init
  <2>3. QED
    BY <2>1, <2>2, ConstantTypes DEF Init, TypeOK
<1>2. QED
  BY <1>1 DEF Init, IInv, JobOK, ArchiveOK, FillOK, VersionedOK, LeftOK, TrashOK,
              StampMeansComplete, UsedIsComplete, NoCauselessFailure

LEMMA NextIInv == IInv /\ [Next]_vars => IInv'
<1> SUFFICES ASSUME IInv, [Next]_vars PROVE IInv'
  OBVIOUS
<1>1. CASE Next
  BY <1>1, BuildInOutDirIInv, UseConfiguredPathIInv, BuildFromVersionedIInv, ExportIInv,
     ResolveCefDirIInv, ClearOutputIInv, ClearCefDirIInv, RemoveOldIInv, ReadIndexIInv,
     VerifyArchiveIInv, CreateArchiveIInv, TransferArchiveIInv, TransferWrongBytesIInv,
     CheckHashIInv, RetryIInv, UnpackIInv, PlaceIInv, MoveIInv, DiscardIInv,
     RemoveTrashIInv, RemoveArchiveIInv, CreateStampIInv, WriteStampIInv,
     RenameToOutputIInv, InterruptIInv
  DEF Next, Step
<1>2. CASE UNCHANGED vars
  BY <1>2 DEF vars, IInv, TypeOK, JobOK, ArchiveOK, FillOK, VersionedOK, LeftOK, TrashOK,
              StampMeansComplete, UsedIsComplete, NoCauselessFailure
<1>3. QED
  BY <1>1, <1>2

-----------------------------------------------------------------------------
(* The theorems.                                                           *)

\* Everything above holds of every reachable state.
THEOREM Invariance == Spec => []IInv
<1>1. Init => IInv
  BY InitIInv
<1>2. IInv /\ [Next]_vars => IInv'
  BY NextIInv
<1>3. QED
  BY <1>1, <1>2, PTL DEF Spec

\* The disk and the run keep their types; the retries stay within max_retries.
THEOREM TypeCorrect == Spec => []TypeOK
<1>1. IInv => TypeOK
  BY DEF IInv
<1>2. QED
  BY <1>1, Invariance, PTL

\* An archive.json that can be read names the version of a complete directory,
\* however often and wherever runs were interrupted (write_archive_json).
THEOREM StampTruthful == Spec => []StampMeansComplete
<1>1. IInv => StampMeansComplete
  BY DEF IInv
<1>2. QED
  BY <1>1, Invariance, PTL

\* A build goes on with complete binaries, unless resolve_cef_dir takes what was
\* left in OUT_DIR by a run that was interrupted between two renames.
THEOREM UseIsSafe == Spec => []UsedIsComplete
<1>1. IInv => UsedIsComplete
  BY DEF IInv
<1>2. QED
  BY <1>1, Invariance, PTL

\* A run that meets no error of its own fails only after interruptions of the
\* kinds that Irreparable lists: everything else is repaired by the next run.
THEOREM FailuresHaveCauses == Spec => []NoCauselessFailure
<1>1. IInv => NoCauselessFailure
  BY DEF IInv
<1>2. QED
  BY <1>1, Invariance, PTL
=============================================================================
