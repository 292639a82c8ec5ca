------------------------ MODULE AssignmentBootstrap ------------------------
(***************************************************************************)
(* bootstrap_assignment copies the managed files of a template into a      *)
(* destination: it compares, stages the new files in a temporary directory *)
(* inside the destination, swaps them in one by one, each old file moved   *)
(* aside first, and rolls back when a call raises.  The temporary          *)
(* directory, and the old files still in it, are removed whatever happens. *)
(*                                                                         *)
(* One exception per run: a second one, out of the handlers, is the        *)
(* filesystem failure that the docstring excludes.  With interrupts, that  *)
(* exception can also be the KeyboardInterrupt that Python raises once the *)
(* call has had its effect, or between two statements.                     *)
(***************************************************************************)
EXTENDS Naturals

CONSTANTS
  FileCount    \* the number of managed files (REQUIRED_FILES)

ASSUME FileCountIsPositive == FileCount \in Nat \ {0}

VARIABLES
  files,      \* the managed files of the destination
  root,       \* whether the destination directory exists
  before,     \* the files, and whether the directory existed, before the call
  overwrite,  \* the arguments of the call
  dryRun,
  interrupts, \* whether Ctrl-C can interrupt this run
  changed,    \* the files that differ from the template
  backups,    \* the old files in the staging directory
  committed,  \* the files that were swapped in
  current,    \* the file the loop is at
  progress,   \* the step the call is at
  outcome     \* how the call ended

arguments == <<before, overwrite, dryRun, interrupts>>
vars ==
  <<files, root, arguments, changed, backups, committed, current, progress, outcome>>

Files    == 1..FileCount
Contents == {"absent", "user", "template"}
NoFiles  == [f \in Files |-> "absent"]

\* Staged backups only ever hold what the user wrote, and only files that differ
\* from the template are committed.
TypeOK ==
  /\ files \in [Files -> Contents] /\ root \in BOOLEAN
  /\ before \in [files : [Files -> Contents], root : BOOLEAN]
  /\ overwrite \in BOOLEAN /\ dryRun \in BOOLEAN /\ interrupts \in BOOLEAN
  /\ changed \subseteq Files
  /\ backups \in [Files -> {"absent", "user"}]
  /\ committed \subseteq changed
  /\ current \in Files
  /\ progress \in {"inspect", "stage", "loop", "install", "append", "restore", "rollback", "done"}
  /\ outcome \in {"none", "refused", "dry-run", "unchanged", "written", "failed"}

Init ==
  /\ files \in [Files -> Contents]
  /\ root \in BOOLEAN
  /\ ~root => files = NoFiles
  /\ before = [files |-> files, root |-> root]
  /\ overwrite \in BOOLEAN /\ dryRun \in BOOLEAN /\ interrupts \in BOOLEAN
  /\ changed = {}
  /\ backups = NoFiles
  /\ committed = {}
  /\ current = 1
  /\ progress = "inspect"
  /\ outcome = "none"

-----------------------------------------------------------------------------

Ends(how) == progress' = "done" /\ outcome' = how

\* Mutant: a missing file does not count as different.
DiffersIfPresent == {f \in Files : files[f] = "user"}

\* The comparisons: a missing file differs too.
Differing == {f \in Files : files[f] # "template"}

\* The changed files that exist.
Colliding(ds) == {f \in ds : files[f] # "absent"}

\* Unsafe paths and links are refused as well, before anything is written.
Inspect ==
  /\ progress = "inspect"
  /\ \/ Ends("refused") /\ UNCHANGED <<root, changed>>
     \/ /\ Colliding(Differing) = {} \/ overwrite
        /\ \/ dryRun /\ Ends("dry-run") /\ UNCHANGED <<root, changed>>
           \/ /\ ~dryRun /\ Differing = {}
              /\ Ends("unchanged")
              /\ UNCHANGED <<root, changed>>
           \/ /\ ~dryRun /\ Differing # {}
              /\ changed' = Differing
              /\ root' = TRUE
              /\ progress' = "stage"
              /\ UNCHANGED outcome
  /\ UNCHANGED <<files, arguments, backups, committed, current>>

\* The temporary directory goes; the destination does too if the call made it,
\* unless rmdir finds a file in it and raises in turn.
CleanUp ==
  /\ backups' = NoFiles
  /\ root' = (before.root \/ files # NoFiles)
  /\ Ends("failed")

\* The template's files are copied into the staging directory, or one copy fails.
Stage ==
  /\ progress = "stage"
  /\ \/ progress' = "loop" /\ UNCHANGED <<root, backups, outcome>>
     \/ CleanUp
  /\ UNCHANGED <<files, arguments, changed, committed, current>>

\* The next file of the loop over the changed ones, in their order.
IsNext(f) == f \in changed \ committed /\ \A g \in changed \ committed : f <= g

\* Mutant: the old file is deleted, not moved aside.
MoveAsideDeletes(f) ==
  files' = [files EXCEPT ![f] = "absent"] /\ UNCHANGED backups

\* _replace(target, backup), of a file that exists.
MoveAside(f) ==
  /\ files' = [files EXCEPT ![f] = "absent"]
  /\ backups' = [backups EXCEPT ![f] = files[f]]

\* Outside the inner try: an interrupt once the file was moved aside goes
\* straight to the outer handler.
BackUp ==
  /\ progress = "loop"
  /\ \E f \in Files :
       /\ IsNext(f)
       /\ current' = f
       /\ \/ /\ IF files[f] = "absent" THEN UNCHANGED <<files, backups>> ELSE MoveAside(f)
             /\ progress' = "install"
          \/ progress' = "rollback" /\ UNCHANGED <<files, backups>>
          \/ interrupts /\ files[f] # "absent" /\ MoveAside(f) /\ progress' = "rollback"
  /\ UNCHANGED <<root, arguments, changed, committed, outcome>>

\* _replace(staged, target), in the inner try.
Install ==
  /\ progress = "install"
  /\ \/ files' = [files EXCEPT ![current] = "template"] /\ progress' = "append"
     \/ progress' = "restore" /\ UNCHANGED files
     \/ interrupts /\ files' = [files EXCEPT ![current] = "template"] /\ progress' = "restore"
  /\ UNCHANGED <<root, arguments, changed, backups, committed, current, outcome>>

\* committed.append.
Commit ==
  /\ progress = "append"
  /\ \/ committed' = committed \cup {current} /\ progress' = "loop"
     \/ interrupts /\ progress' = "rollback" /\ UNCHANGED committed
  /\ UNCHANGED <<files, root, arguments, changed, backups, current, outcome>>

\* _replace(backup, target), if there is a backup.
PutBack(f) ==
  /\ files' = [files EXCEPT ![f] = IF backups[f] = "absent" THEN files[f] ELSE backups[f]]
  /\ backups' = [backups EXCEPT ![f] = "absent"]

\* The inner handler.
RestoreCurrent ==
  /\ progress = "restore"
  /\ PutBack(current)
  /\ progress' = "rollback"
  /\ UNCHANGED <<root, arguments, changed, committed, current, outcome>>

\* Mutant: a file that had no backup stays.
UndoBackedUp(f) == PutBack(f)

\* A committed file is unlinked, and its backup put back if there is one.
Undo(f) ==
  /\ files' = [files EXCEPT ![f] = backups[f]]
  /\ backups' = [backups EXCEPT ![f] = "absent"]

\* The outer handler undoes the committed files in reverse, then raises on.
RollBack ==
  /\ progress = "rollback"
  /\ \/ \E f \in committed :
          /\ \A g \in committed : g <= f
          /\ Undo(f)
          /\ committed' = committed \ {f}
          /\ UNCHANGED <<root, progress, outcome>>
     \/ committed = {} /\ CleanUp /\ UNCHANGED <<files, committed>>
  /\ UNCHANGED <<arguments, changed, current>>

\* All files are swapped in: the staging directory and its backups go.
Complete ==
  /\ progress = "loop" /\ changed = committed
  /\ \/ backups' = NoFiles /\ Ends("written") /\ UNCHANGED root
     \/ interrupts /\ CleanUp
  /\ UNCHANGED <<files, arguments, changed, committed, current>>

Next ==
  \/ Inspect \/ Stage \/ BackUp \/ Install \/ Commit \/ RestoreCurrent \/ RollBack \/ Complete
  \/ progress = "done" /\ UNCHANGED vars

Spec == Init /\ [][Next]_vars

-----------------------------------------------------------------------------
(* Properties *)

\* A run that fails without an interrupt, at whichever call, leaves every managed
\* file, and the destination directory, as they were before it.
FailureRestores ==
  outcome = "failed" /\ ~interrupts => files = before.files /\ root = before.root

\* The docstring of bootstrap_assignment: whatever failed, everything is restored.
EveryFailureRestores ==
  outcome = "failed" => files = before.files /\ root = before.root

\* A run that reports success has swapped in every file of the template: the
\* destination never mixes a new profile with an old assignment.
SuccessIsComplete ==
  outcome \in {"written", "unchanged"} => \A f \in Files : files[f] = "template"

\* Without overwrite, no file of the user is ever touched, not even for the
\* time the commit takes, and not by a run that Ctrl-C stops.
OnlyWithConsent ==
  ~overwrite => \A f \in Files : before.files[f] = "user" => files[f] = "user"

\* Until the run ends, each file of the user is in its place or in the staging
\* directory, so some handler could still put it back.
OriginalsKept ==
  progress # "done" =>
    \A f \in Files : before.files[f] = "user" => "user" \in {files[f], backups[f]}

=============================================================================
