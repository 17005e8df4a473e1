----------------------------- MODULE CefInstall -----------------------------
(***************************************************************************)
(* How the CEF binaries get to the place that a build of the Rust crates   *)
(* links with: download_archive and extract_target_archive of              *)
(* download-cef/src/lib.rs, as the build script of the sys crate           *)
(* (sys/build.rs) and the command export-cef-dir call them.                *)
(*                                                                         *)
(* One run of a build script or of the command is under way at a time; it  *)
(* may be killed, or fail with an error, between any two of its effects on *)
(* the file system, and the next run finds what it left.                   *)
(*                                                                         *)
(* A build works in OUT_DIR, or in a directory named after the version     *)
(* that lies in CEF_PATH; the command works in the parent of its output    *)
(* and ends by renaming a directory to the output, which is what CEF_PATH  *)
(* then names.  A directory of binaries is filled by a fixed sequence of   *)
(* Parts renames out of the unpacked archive (Release, Resources, ...) and *)
(* then stamped with an archive.json.  The unpacked archive itself is not  *)
(* state: unpacking it again overwrites whatever an earlier run left.      *)
(***************************************************************************)
EXTENDS Naturals

CONSTANTS
    Versions,     \* versions of CEF that exist
    Expected,     \* the one that the sys crate is built for
    Parts,        \* renames that make up a directory of binaries
    MaxRetries,   \* the max_retries that the command gives
    MaxRuns,      \* bound: runs
    MaxFaults     \* bound: runs that are killed or get an error

ASSUME ConstantsAssumption ==
    /\ Versions \subseteq Nat \ {0} /\ Expected \in Versions
    /\ Parts \in Nat \ {0} /\ {MaxRetries, MaxRuns, MaxFaults} \subseteq Nat

Locations == {"out_dir", "versioned", "parent"}   \* where archives are unpacked
Dirs == Locations \union {"output"}               \* where binaries may be
NoStamp == [kind |-> "none", version |-> 0]
TornStamp == [kind |-> "torn", version |-> 0]
Stamp(v) == [kind |-> "ok", version |-> v]
Absent == [parts |-> 0, content |-> 0, stamp |-> NoStamp]
NoJob == [pc |-> "none", loc |-> "none", version |-> 0, content |-> 0, retry |-> 0,
          file |-> FALSE, check |-> FALSE, faulted |-> FALSE]

VARIABLES
    archive,    \* the archive of a version at a location: absent, bad or good
    tree,       \* the directory of binaries at each place
    versioned,  \* the version's directory in CEF_PATH exists
    trash,      \* locations with an extracted_os_arch that is not empty
    old,        \* which of old_output and old_cef_os_arch is not empty
    job,        \* the run under way
    outcome,    \* how the last run ended, until the next one begins
    scars,      \* <<location, step>> at which runs were killed or got an error
    runs, faults

disk == <<archive, tree, versioned, trash, old>>
vars == <<disk, job, outcome, scars, runs, faults>>

NoOutcome == [result |-> "none", dir |-> "none", version |-> 0, faulted |-> FALSE,
              refused |-> FALSE]

Init ==
    /\ archive = [l \in Locations |-> [v \in Versions |-> "absent"]]
    /\ tree = [d \in Dirs |-> Absent]
    /\ versioned = FALSE /\ trash = {} /\ old = {}
    /\ job = NoJob /\ outcome = NoOutcome /\ scars = {}
    /\ runs = 0 /\ faults = 0

OutputExists == tree["output"].parts > 0 \/ versioned

\* check_archive_json: the stamp can be read and is not that of a newer version.
CheckArchive(d) == tree[d].stamp.kind = "ok" /\ tree[d].stamp.version <= Expected

\* The run ends; what it changed on disk is for the caller to say.
End(result, dir, refused) ==
    /\ job' = NoJob
    /\ outcome' = [result |-> result, dir |-> dir, version |-> job.version,
                   faulted |-> job.faulted, refused |-> refused]

At(pc) == job.pc = pc
GoTo(pc) == job' = [job EXCEPT !.pc = pc]

-----------------------------------------------------------------------------
(* The beginning of a run.                                                 *)

Begin(j) == /\ At("none") /\ runs < MaxRuns /\ runs' = runs + 1
            /\ job' = j /\ outcome' = NoOutcome
            /\ UNCHANGED <<disk, scars, faults>>

\* A build without CEF_PATH: resolve_cef_dir in OUT_DIR.
BuildInOutDir ==
    Begin([NoJob EXCEPT !.pc = "resolve", !.loc = "out_dir", !.version = Expected])

\* A build with CEF_PATH that exists and has no directory for the version: the
\* path itself is used if its stamp is right.
UseConfiguredPath ==
    /\ At("none") /\ runs < MaxRuns /\ runs' = runs + 1
    /\ OutputExists /\ ~versioned /\ CheckArchive("output")
    /\ outcome' = [NoOutcome EXCEPT !.result = "used", !.dir = "output",
                                    !.version = Expected]
    /\ UNCHANGED <<disk, job, scars, faults>>

\* Mutant: the directory of an earlier run is used as it is.
BuildFromVersionedUnchecked ==
    /\ OutputExists /\ ~versioned => ~CheckArchive("output")
    /\ Begin([NoJob EXCEPT !.pc = "resolve", !.loc = "versioned",
                           !.version = Expected, !.check = FALSE])

\* Otherwise the binaries are those of the version's directory, which is only
\* checked at the end if it was there (resolve_from_versioned) and not if it is
\* to be made (download_to_versioned).
BuildFromVersioned ==
    /\ OutputExists /\ ~versioned => ~CheckArchive("output")
    /\ Begin([NoJob EXCEPT !.pc = "resolve", !.loc = "versioned",
                           !.version = Expected, !.check = versioned])

\* resolve_cef_dir: what exists is used, and what does not is made.
ResolveCefDir ==
    LET d == job.loc
    IN  /\ At("resolve")
        /\ IF tree[d].parts = 0 THEN GoTo("index") /\ UNCHANGED outcome
           ELSE End(IF job.check /\ ~CheckArchive(d) THEN "failed" ELSE "used", d, FALSE)
        /\ UNCHANGED <<disk, scars, runs, faults>>

\* export-cef-dir, of a version or of an archive that is given.  Its other
\* options, --force and --save-archive, are chosen where they are looked at.
Export(v, file) ==
    Begin([NoJob EXCEPT !.pc = "output", !.loc = "parent", !.version = v, !.file = file])

\* The output of an earlier run: refused, or moved out of the way with all that
\* lies in it.
ClearOutput(force) ==
    /\ At("output")
    /\ \/ /\ OutputExists /\ ~force
          /\ End("failed", "none", TRUE) /\ UNCHANGED disk
       \/ /\ OutputExists /\ force /\ "output" \in old
          /\ End("failed", "none", FALSE) /\ UNCHANGED disk
       \/ /\ OutputExists /\ force /\ "output" \notin old
          /\ tree' = [tree EXCEPT !["output"] = Absent, !["versioned"] = Absent]
          /\ archive' = [archive EXCEPT !["versioned"] = [v \in Versions |-> "absent"]]
          /\ versioned' = FALSE /\ trash' = trash \ {"versioned"}
          /\ old' = old \union {"output"}
          /\ GoTo("rm_output") /\ UNCHANGED outcome
       \/ /\ ~OutputExists
          /\ GoTo("cef_dir") /\ UNCHANGED <<disk, outcome>>
    /\ UNCHANGED <<scars, runs, faults>>

\* The directory of an earlier run that was not renamed to the output.
ClearCefDir ==
    LET there == tree["parent"].parts > 0
        next == IF job.file THEN "unpack" ELSE "index"
    IN  /\ At("cef_dir")
        /\ \/ /\ there /\ "cef_dir" \in old
              /\ End("failed", "none", FALSE) /\ UNCHANGED <<tree, old>>
           \/ /\ there /\ "cef_dir" \notin old
              /\ tree' = [tree EXCEPT !["parent"] = Absent]
              /\ old' = old \union {"cef_dir"}
              /\ GoTo("rm_cef_dir") /\ UNCHANGED outcome
           \/ /\ ~there
              /\ GoTo(next) /\ UNCHANGED <<tree, old, outcome>>
        /\ UNCHANGED <<archive, versioned, trash, scars, runs, faults>>

\* remove_dir_all of what was moved out of the way.
RemoveOld ==
    /\ \/ At("rm_output") /\ old' = old \ {"output"} /\ GoTo("cef_dir")
       \/ At("rm_cef_dir") /\ old' = old \ {"cef_dir"}
          /\ GoTo(IF job.file THEN "unpack" ELSE "index")
    /\ UNCHANGED <<archive, tree, versioned, trash, outcome, scars, runs, faults>>

-----------------------------------------------------------------------------
(* download_archive_from.                                                  *)

SetArchive(s) == archive' = [archive EXCEPT ![job.loc][job.version] = s]

\* The index of the mirror lists the version.
ReadIndex ==
    /\ At("index") /\ GoTo("verify")
    /\ UNCHANGED <<disk, outcome, scars, runs, faults>>

\* create_dir_all, and the hash of an archive that is there; a bad one is removed.
VerifyArchive ==
    LET a == archive[job.loc][job.version]
    IN  /\ At("verify")
        /\ versioned' = (versioned \/ job.loc = "versioned")
        /\ IF a = "bad" THEN SetArchive("absent") ELSE UNCHANGED archive
        /\ GoTo(IF a = "good" THEN "unpack" ELSE "create")
        /\ UNCHANGED <<tree, trash, old, outcome, scars, runs, faults>>

\* File::create, before the request is made.
CreateArchive ==
    /\ At("create") /\ SetArchive("bad") /\ GoTo("transfer")
    /\ UNCHANGED <<tree, versioned, trash, old, outcome, scars, runs, faults>>

\* All bytes that the mirror announced have come.
TransferArchive ==
    /\ At("transfer") /\ SetArchive("good") /\ GoTo("hash")
    /\ UNCHANGED <<tree, versioned, trash, old, outcome, scars, runs, faults>>

\* They have come, and are not the right ones.
TransferWrongBytes ==
    /\ At("transfer") /\ faults < MaxFaults /\ faults' = faults + 1
    /\ SetArchive("bad")
    /\ job' = [job EXCEPT !.pc = "hash", !.faulted = TRUE]
    /\ UNCHANGED <<tree, versioned, trash, old, outcome, scars, runs>>

\* Mutant: the hash of a new archive is not calculated.
CheckHashSkipped ==
    /\ At("hash") /\ GoTo("unpack")
    /\ UNCHANGED <<disk, outcome, scars, runs, faults>>

CheckHash ==
    /\ At("hash")
    /\ IF archive[job.loc][job.version] = "good" THEN GoTo("unpack") /\ UNCHANGED outcome
       ELSE End("failed", "none", FALSE)
    /\ UNCHANGED <<disk, scars, runs, faults>>

\* Mutant: one retry too many.
RetryOnceMore ==
    /\ job.pc \in {"verify", "create", "transfer"} /\ job.loc = "parent"
    /\ job.retry <= MaxRetries
    /\ job' = [job EXCEPT !.pc = "verify", !.retry = @ + 1]
    /\ UNCHANGED <<disk, outcome, scars, runs, faults>>

\* Mutant: the attempts are not counted.
RetryForever ==
    /\ job.pc \in {"verify", "create", "transfer"} /\ job.loc = "parent"
    /\ job.retry < MaxRetries
    /\ GoTo("verify")
    /\ UNCHANGED <<disk, outcome, scars, runs, faults>>

\* download_archive_with_retry_from, which only the command calls: after an I/O
\* error the download begins again, with what it left.
Retry ==
    /\ job.pc \in {"verify", "create", "transfer"} /\ job.loc = "parent"
    /\ job.retry < MaxRetries
    /\ job' = [job EXCEPT !.pc = "verify", !.retry = @ + 1]
    /\ UNCHANGED <<disk, outcome, scars, runs, faults>>

-----------------------------------------------------------------------------
(* extract_target_archive and what follows it.                             *)

\* The archive is unpacked over whatever is there.
Unpack ==
    /\ At("unpack")
    /\ job' = [job EXCEPT !.pc = "place",
                          !.content = IF job.file \/ archive[job.loc][job.version] = "good"
                                      THEN job.version ELSE 0]
    /\ UNCHANGED <<disk, outcome, scars, runs, faults>>

\* Release is renamed to the directory of binaries.  (If that existed it would be
\* moved away first; the callers have seen to it that it does not.)
Place ==
    /\ At("place")
    /\ tree' = [tree EXCEPT ![job.loc] = [Absent EXCEPT !.parts = 1, !.content = job.content]]
    /\ GoTo("move")
    /\ UNCHANGED <<archive, versioned, trash, old, outcome, scars, runs, faults>>

\* The other parts follow, one by one.
Move ==
    /\ At("move")
    /\ IF tree[job.loc].parts < Parts
       THEN tree' = [tree EXCEPT ![job.loc].parts = @ + 1] /\ UNCHANGED job
       ELSE GoTo("discard") /\ UNCHANGED tree
    /\ UNCHANGED <<archive, versioned, trash, old, outcome, scars, runs, faults>>

\* What is left of the unpacked archive gets another name, which must be free ...
Discard ==
    /\ At("discard")
    /\ IF job.loc \in trash THEN End("failed", "none", FALSE) /\ UNCHANGED trash
       ELSE trash' = trash \union {job.loc} /\ GoTo("rm_trash") /\ UNCHANGED outcome
    /\ UNCHANGED <<archive, tree, versioned, old, scars, runs, faults>>

\* Mutant: it is left there.
RemoveTrashNot(save) ==
    /\ At("rm_trash")
    /\ GoTo(IF job.loc = "parent" /\ ~job.file /\ ~save THEN "rm_archive" ELSE "stamp")
    /\ UNCHANGED <<disk, outcome, scars, runs, faults>>

\* ... and is removed.
RemoveTrash(save) ==
    /\ At("rm_trash")
    /\ trash' = trash \ {job.loc}
    /\ GoTo(IF job.loc = "parent" /\ ~job.file /\ ~save THEN "rm_archive" ELSE "stamp")
    /\ UNCHANGED <<archive, tree, versioned, old, outcome, scars, runs, faults>>

RemoveArchive ==
    /\ At("rm_archive") /\ SetArchive("absent") /\ GoTo("stamp")
    /\ UNCHANGED <<tree, versioned, trash, old, outcome, scars, runs, faults>>

\* write_archive_json: File::create ...
CreateStamp ==
    /\ At("stamp")
    /\ tree' = [tree EXCEPT ![job.loc].stamp = TornStamp]
    /\ GoTo("write")
    /\ UNCHANGED <<archive, versioned, trash, old, outcome, scars, runs, faults>>

\* ... and write_all, after which a build goes on with the directory.
WriteStamp ==
    /\ At("write")
    /\ tree' = [tree EXCEPT ![job.loc].stamp = Stamp(job.version)]
    /\ IF job.loc = "parent" THEN GoTo("rename") /\ UNCHANGED outcome
       ELSE End("used", job.loc, FALSE)   \* check_archive of its own stamp
    /\ UNCHANGED <<archive, versioned, trash, old, scars, runs, faults>>

\* The command renames the directory to its output.
RenameToOutput ==
    /\ At("rename")
    /\ tree' = [tree EXCEPT !["output"] = tree["parent"], !["parent"] = Absent]
    /\ End("exported", "output", FALSE)
    /\ UNCHANGED <<archive, versioned, trash, old, scars, runs, faults>>

\* The run is killed, or what it tries next returns an error; remove_dir_all may
\* have done a part of its work, and what it began with is still there then.
Interrupt ==
    /\ job # NoJob /\ faults < MaxFaults
    /\ faults' = faults + 1 /\ scars' = scars \union {<<job.loc, job.pc>>}
    /\ job' = NoJob
    /\ outcome' = [result |-> "failed", dir |-> "none", version |-> job.version,
                   faulted |-> TRUE, refused |-> FALSE]
    /\ UNCHANGED <<disk, runs>>

Step ==
    \/ ResolveCefDir \/ ClearCefDir \/ RemoveOld
    \/ \E force \in BOOLEAN : ClearOutput(force)
    \/ ReadIndex \/ VerifyArchive \/ CreateArchive \/ TransferArchive
    \/ TransferWrongBytes \/ CheckHash \/ Retry
    \/ Unpack \/ Place \/ Move \/ Discard \/ RemoveArchive
    \/ \E save \in BOOLEAN : RemoveTrash(save)
    \/ CreateStamp \/ WriteStamp \/ RenameToOutput

Next ==
    \/ BuildInOutDir \/ UseConfiguredPath \/ BuildFromVersioned
    \/ \E v \in Versions, file \in BOOLEAN : Export(v, file)
    \/ Step \/ Interrupt

\* A run that is not killed goes on.
Spec == Init /\ [][Next]_vars /\ WF_vars(Step)

-----------------------------------------------------------------------------
(* Properties.                                                             *)

Steps == {"resolve", "output", "rm_output", "cef_dir", "rm_cef_dir", "index",
          "verify", "create", "transfer", "hash", "unpack", "place", "move",
          "discard", "rm_trash", "rm_archive", "stamp", "write", "rename"}

Stamps == {NoStamp, TornStamp} \union {Stamp(v) : v \in Versions}

Trees == [parts : 0..Parts, content : Versions \union {0}, stamp : Stamps]

Jobs == [pc : Steps \union {"none"}, loc : Locations \union {"none"},
         version : Versions \union {0}, content : Versions \union {0},
         retry : 0..MaxRetries, file : BOOLEAN, check : BOOLEAN, faulted : BOOLEAN]

Outcomes == [result : {"none", "failed", "used", "exported"}, dir : Dirs \union {"none"},
             version : Versions \union {0}, faulted : BOOLEAN, refused : BOOLEAN]

\* The disk and the run under way have their types.
TypeOK ==
    /\ archive \in [Locations -> [Versions -> {"absent", "bad", "good"}]]
    /\ tree \in [Dirs -> Trees]
    /\ versioned \in BOOLEAN /\ trash \subseteq Locations
    /\ old \subseteq {"output", "cef_dir"}
    /\ job \in Jobs /\ outcome \in Outcomes
    /\ scars \subseteq Locations \X Steps
    /\ runs \in 0..MaxRuns /\ faults \in 0..MaxFaults

\* An archive.json that can be read says the truth, whatever was interrupted
\* before: the directory has all its parts, and they are those of the version
\* that the stamp names.  This is what check_archive relies on.
StampMeansComplete ==
    \A d \in Dirs : tree[d].stamp.kind = "ok" =>
        tree[d].parts = Parts /\ tree[d].content = tree[d].stamp.version

\* A build that goes on has all binaries, of a version that is not newer than
\* the crate's, and a command that succeeds has exported what it was asked for.
\* The exception is resolve_cef_dir in OUT_DIR, which takes the directory of a
\* run that was interrupted between two renames.
UsedIsComplete ==
    LET t == tree[outcome.dir]
    IN  /\ outcome.result = "used" =>
             \/ t.parts = Parts /\ t.content \in Versions /\ t.content <= Expected
             \/ outcome.dir = "out_dir" /\ <<"out_dir", "move">> \in scars
        /\ outcome.result = "exported" =>
             t.parts = Parts /\ t.content = outcome.version

\* Interruptions after which a later run may fail without an error of its own:
\* in the middle of remove_dir_all, and between the first rename into the
\* directory of a version and the end of its stamp.
Irreparable ==
    {<<"parent", "rm_output">>, <<"parent", "rm_cef_dir">>, <<"parent", "rm_trash">>}
      \union {<<"versioned", pc>> : pc \in {"move", "discard", "rm_trash", "stamp", "write"}}

\* A run that meets no error of its own succeeds, unless it is refused for want
\* of --force: whatever an interrupted download or extraction left is repaired
\* by the next run.  The exceptions are the interruptions named above.
NoCauselessFailure ==
    outcome.result = "failed" /\ ~outcome.faulted /\ ~outcome.refused =>
        scars \intersect Irreparable # {}

\* Every run comes to an end: the download is not retried for ever.
RunsEnd == job # NoJob ~> job = NoJob
=============================================================================
