------------------------------ MODULE FilePlan ------------------------------
(***************************************************************************)
(* applyFilePlan of the CLI (packages/cli/src/file-plan.ts): the writes,   *)
(* directories, removals or the move of one command are staged, applied    *)
(* one after the other with an undo for each, and rolled back when one     *)
(* fails.                                                                  *)
(*                                                                         *)
(* The tree under the plan's root is a function from paths to nodes; a     *)
(* path is a sequence of names, the root is <<>>.  A name is a pair of a   *)
(* label and a string: "" for a user's file, otherwise the label of a      *)
(* transaction file.  A step ends at a call of the file system, each of    *)
(* which may fail, and between two steps somebody else may create a file   *)
(* where the plan has not put its own yet.  Permissions, modes and         *)
(* symbolic links are left out.                                            *)
(***************************************************************************)
EXTENDS Naturals, Sequences, SequencesExt, FiniteSets, TLC

CONSTANTS
    Setups,     \* plans with the tree they meet: [kind, ops, tree]
    MaxFaults,  \* calls of the file system that fail
    MaxForeign  \* files that others create meanwhile

ASSUME FilePlanAssumption == MaxFaults \in Nat /\ MaxForeign \in Nat

VARIABLES
    plan,       \* the FilePlan, with the tree before it
    fs,         \* the tree
    at,         \* how far applyFilePlan is: phase, operation and step
    artifacts,  \* transaction artifacts by operation and kind
    dirs,       \* createdDirectories
    undoStack,  \* one entry per operation that began
    errors,     \* kinds of rollbackErrors: a call, or a directory that is left
    outcome,    \* how applyFilePlan ended
    faults,     \* calls that failed so far
    foreign,    \* paths at which others created a file
    torn        \* staged files whose writeFile failed half-way

vars == <<plan, fs, at, artifacts, dirs, undoStack, errors, outcome, faults, foreign, torn>>

-----------------------------------------------------------------------------
(* The file system *)

Directory == [by |-> "dir", of |-> <<>>]
File(by, path) == [by |-> by, of |-> path]

Exists(path) == path \in DOMAIN fs
IsDirectory(path) == Exists(path) /\ fs[path].by = "dir"
Under(path) == {q \in DOMAIN fs : IsPrefix(path, q)}
Without(tree, paths) == [q \in DOMAIN tree \ paths |-> tree[q]]

(* Where a path is after its file, or a directory above it, was renamed. *)
Moved(from, to, path) ==
    IF IsPrefix(from, path) THEN to \o SubSeq(path, Len(from) + 1, Len(path)) ELSE path

(* rename replaces a file that stands at the destination. *)
Rename(tree, from, to) ==
    LET rest == Without(tree, {to})
    IN  [q \in {Moved(from, to, p) : p \in DOMAIN rest} |->
            rest[CHOOSE p \in DOMAIN rest : Moved(from, to, p) = q]]

(* A directory does not replace a file, nor the other way round. *)
CanRename(tree, from, to) ==
    to \in DOMAIN tree => tree[from].by # "dir" /\ tree[to].by # "dir"

Sibling(path, label) == Append(Front(path), <<label, Last(path)[2]>>)

(* What ensureDirectory finds missing, and whether it can create it. *)
Ancestry(path) == {SubSeq(path, 1, n) : n \in 0 .. Len(path)}
MissingDirectories(path) == {q \in Ancestry(path) : ~Exists(q)}
CanEnsure(path) == \A q \in Ancestry(path) : Exists(q) => IsDirectory(q)
WithDirectories(paths) == [q \in paths |-> Directory] @@ fs

-----------------------------------------------------------------------------
(* The plan *)

Op == plan.ops[at.op]
Parent(op) == IF plan.kind = "mkdir" THEN op.path
              ELSE IF plan.kind = "move" THEN Front(op.to) ELSE Front(op.path)

(* createFilePlan, createDirectoryPlan, createMovePlan and createRemovePlan refuse
   a path that is named twice, a write over what exists and a move to itself. *)
Creatable(s) ==
    /\ \A i, j \in DOMAIN s.ops : s.ops[i].path = s.ops[j].path => i = j
    /\ s.kind = "write" => \A i \in DOMAIN s.ops : s.ops[i].path \in DOMAIN s.tree =>
          s.ops[i].overwrite /\ s.tree[s.ops[i].path].by # "dir"
    /\ s.kind = "move" => s.ops[1].path # s.ops[1].to

WriteRefused(op) == Exists(op.path) /\ (IsDirectory(op.path) \/ ~op.overwrite)

Acceptable(op) ==
    CASE plan.kind = "write" -> ~WriteRefused(op)
      [] plan.kind = "move" -> Exists(op.path) /\ ~Exists(op.to)
      [] plan.kind = "remove" -> Exists(op.path)
      [] plan.kind = "mkdir" -> TRUE

Artifact(path) == [path |-> path, onSuccess |-> TRUE, onFailure |-> TRUE]
StageKey == <<at.op, "stage">>
BackupKey == <<at.op, "backup">>

RewriteArtifacts(arts, from, to) ==
    [k \in DOMAIN arts |-> [arts[k] EXCEPT !.path = Moved(from, to, @)]]

Undo(created) == [op |-> at.op, created |-> created, installed |-> FALSE, moved |-> FALSE]
MarkUndo(field) == undoStack' = [undoStack EXCEPT ![Len(undoStack)][field] = TRUE]

Pc(phase, op, step) == [phase |-> phase, op |-> op, step |-> step]
At(kind, phase, step) == plan.kind = kind /\ at.phase = phase /\ at.step = step

Continue(step) == at' = [at EXCEPT !.step = step]
NextOperation ==
    at' = IF at.op = Len(plan.ops) THEN Pc("commit", 0, "") ELSE Pc("apply", at.op + 1, "begin")

(* The catch of applyFilePlan. *)
Throw == at' = Pc("rollback", 0, "")

-----------------------------------------------------------------------------
Init ==
    /\ plan \in {s \in Setups : Creatable(s)}
    /\ fs = plan.tree
    /\ at = Pc("preflight", 0, "")
    /\ artifacts = <<>> /\ dirs = {} /\ undoStack = <<>>
    /\ errors = {} /\ outcome = "none"
    /\ faults = 0 /\ foreign = {} /\ torn = {}

env == <<plan, errors, outcome, faults, foreign, torn>>

(* A plan that no longer fits the tree is refused before anything is changed. *)
Preflight ==
    /\ at.phase = "preflight"
    /\ IF \A i \in DOMAIN plan.ops : Acceptable(plan.ops[i])
       THEN /\ at' = Pc(IF plan.kind = "write" THEN "stage" ELSE "apply", 1, "begin")
            /\ UNCHANGED outcome
       ELSE at' = Pc("done", 0, "") /\ outcome' = "refused"
    /\ UNCHANGED <<plan, fs, artifacts, dirs, undoStack, errors, faults, foreign, torn>>

StageDirectory ==
    /\ At("write", "stage", "begin")
    /\ IF WriteRefused(Op) \/ ~CanEnsure(Parent(Op))
       THEN Throw /\ UNCHANGED <<fs, dirs>>
       ELSE /\ fs' = WithDirectories(MissingDirectories(Parent(Op)))
            /\ dirs' = dirs \cup MissingDirectories(Parent(Op))
            /\ Continue("file")
    /\ UNCHANGED <<artifacts, undoStack, env>>

StageFile ==
    /\ At("write", "stage", "file")
    /\ LET path == Sibling(Op.path, "stage")
       IN  /\ fs' = (path :> File("plan", Op.path)) @@ fs
           /\ artifacts' = (StageKey :> Artifact(path)) @@ artifacts
    /\ at' = IF at.op = Len(plan.ops) THEN Pc("apply", 1, "begin")
             ELSE Pc("stage", at.op + 1, "begin")
    /\ UNCHANGED <<dirs, undoStack, env>>

(* writeFile fails with the file created; the artifact is not recorded yet. *)
StageFails ==
    /\ At("write", "stage", "file") /\ faults < MaxFaults
    /\ LET path == Sibling(Op.path, "stage")
       IN  fs' = (path :> File("plan", Op.path)) @@ fs /\ torn' = torn \cup {path}
    /\ faults' = faults + 1
    /\ Throw
    /\ UNCHANGED <<plan, artifacts, dirs, undoStack, errors, outcome, foreign>>

(* The common begin of an operation: its directory, and its undo. *)
Begin(kind, proceed) ==
    /\ At(kind, "apply", "begin")
    /\ IF (kind # "write" /\ ~Acceptable(Op)) \/ ~CanEnsure(Parent(Op))
       THEN Throw /\ UNCHANGED <<fs, dirs, undoStack>>
       ELSE LET missing == MissingDirectories(Parent(Op))
            IN  /\ fs' = WithDirectories(missing)
                /\ dirs' = dirs \cup missing
                /\ undoStack' = Append(undoStack, Undo(missing))
                /\ proceed
    /\ UNCHANGED <<artifacts, env>>

ApplyMkdirOperation == Begin("mkdir", NextOperation)
ApplyWriteOperation == Begin("write", Continue("look"))
ApplyMoveOperation == Begin("move", Continue("rename"))
ApplyRemoveOperation == Begin("remove", Continue("rename"))

(* mkdir fails, with some of the missing directories created from the top. *)
EnsureDirectoryFails(made) ==
    /\ at.phase \in {"stage", "apply"} /\ at.step = "begin" /\ plan.kind # "remove"
    /\ faults < MaxFaults
    /\ LET missing == MissingDirectories(Parent(Op))
       IN  /\ made \in SUBSET missing
           /\ \A q \in made : \A p \in missing : Len(p) < Len(q) => p \in made
           /\ fs' = WithDirectories(made)
           /\ dirs' = dirs \cup missing
    /\ faults' = faults + 1
    /\ Throw
    /\ UNCHANGED <<plan, artifacts, undoStack, errors, outcome, foreign, torn>>

(* What stands at the path of a write is set aside if the plan may replace it. *)
BackUp ==
    /\ At("write", "apply", "look")
    /\ IF WriteRefused(Op)
       THEN Throw /\ UNCHANGED <<fs, artifacts, undoStack>>
       ELSE IF ~Exists(Op.path)
       THEN Continue("link") /\ UNCHANGED <<fs, artifacts, undoStack>>
       ELSE LET backup == Sibling(Op.path, "backup")
            IN  /\ fs' = Rename(fs, Op.path, backup)
                /\ artifacts' = (BackupKey :> Artifact(backup))
                                   @@ RewriteArtifacts(artifacts, Op.path, backup)
                /\ MarkUndo("moved")
                /\ Continue("install")
    /\ UNCHANGED <<dirs, env>>

(* Mutant: the installed file stays marked for the cleanup of a success. *)
StageInstalled_KeepsCleanup == artifacts' = [artifacts EXCEPT ![StageKey].path = Op.path]

StageInstalled ==
    artifacts' = [artifacts EXCEPT ![StageKey].path = Op.path, ![StageKey].onSuccess = FALSE]

Install ==
    /\ At("write", "apply", "install")
    /\ fs' = Rename(fs, artifacts[StageKey].path, Op.path)
    /\ StageInstalled /\ MarkUndo("installed") /\ NextOperation
    /\ UNCHANGED <<dirs, env>>

(* Mutant: the new file is renamed to its place. *)
Link_Replaces ==
    /\ At("write", "apply", "link")
    /\ fs' = (Op.path :> File("plan", Op.path)) @@ fs
    /\ MarkUndo("installed") /\ Continue("unlink")
    /\ UNCHANGED <<artifacts, dirs, env>>

(* A new file is linked, since link does not replace what appeared meanwhile. *)
Link ==
    /\ At("write", "apply", "link")
    /\ IF Exists(Op.path)
       THEN Throw /\ UNCHANGED <<fs, undoStack>>
       ELSE /\ fs' = (Op.path :> File("plan", Op.path)) @@ fs
            /\ MarkUndo("installed")
            /\ Continue("unlink")
    /\ UNCHANGED <<artifacts, dirs, env>>

Unlink ==
    /\ At("write", "apply", "unlink")
    /\ fs' = Without(fs, {artifacts[StageKey].path})
    /\ StageInstalled /\ NextOperation
    /\ UNCHANGED <<dirs, undoStack, env>>

MoveRename ==
    /\ At("move", "apply", "rename")
    /\ IF ~CanRename(fs, Op.path, Op.to)
       THEN Throw /\ UNCHANGED <<fs, artifacts, undoStack>>
       ELSE /\ fs' = Rename(fs, Op.path, Op.to)
            /\ artifacts' = RewriteArtifacts(artifacts, Op.path, Op.to)
            /\ MarkUndo("moved")
            /\ NextOperation
    /\ UNCHANGED <<dirs, env>>

RemoveRename ==
    /\ At("remove", "apply", "rename")
    /\ LET backup == Sibling(Op.path, "remove")
       IN  /\ fs' = Rename(fs, Op.path, backup)
           /\ artifacts' = (BackupKey :> Artifact(backup))
                              @@ RewriteArtifacts(artifacts, Op.path, backup)
    /\ MarkUndo("moved") /\ NextOperation
    /\ UNCHANGED <<dirs, env>>

(* A call of the current step fails before it has an effect. *)
CallFails ==
    /\ at.phase \in {"stage", "apply"} /\ faults < MaxFaults
    /\ faults' = faults + 1
    /\ Throw
    /\ UNCHANGED <<plan, fs, artifacts, dirs, undoStack, errors, outcome, foreign, torn>>

-----------------------------------------------------------------------------
(* Rollback and cleanup.  rm without recursive refuses a directory, so a created
   directory that still exists is an error of its cleanup. *)
ErrorsOf(calls, tree, created) ==
    (IF calls THEN {"call"} ELSE {})
       \cup (IF created \cap DOMAIN tree # {} THEN {"directory"} ELSE {})

Spend(bad) ==
    /\ faults + Cardinality(bad) <= MaxFaults
    /\ faults' = faults + Cardinality(bad)

(* rollback runs the undo of the last operation; bad are its calls that fail. *)
UndoLast(bad) ==
    /\ at.phase = "rollback" /\ undoStack # <<>> /\ Spend(bad)
    /\ LET u == Last(undoStack)
           op == plan.ops[u.op]
           key == <<u.op, "backup">>
           from == IF plan.kind = "move" THEN op.to ELSE artifacts[key].path
           removed == IF u.installed /\ "rm" \notin bad THEN Without(fs, {op.path}) ELSE fs
           restores == /\ u.moved /\ "rename" \notin bad
                       /\ CanRename(removed, from, op.path)
           rewritten == RewriteArtifacts(artifacts, from, op.path)
       IN  /\ bad \subseteq (IF u.installed THEN {"rm"} ELSE {})
                               \cup (IF u.moved THEN {"rename"} ELSE {})
           /\ fs' = IF restores THEN Rename(removed, from, op.path) ELSE removed
           /\ artifacts' =
                 IF ~restores THEN artifacts
                 ELSE IF plan.kind = "move" THEN rewritten
                 ELSE [rewritten EXCEPT ![key].onSuccess = FALSE, ![key].onFailure = FALSE]
           /\ errors' = errors \cup ErrorsOf(bad # {} \/ (u.moved /\ ~restores), fs', u.created)
    /\ undoStack' = Front(undoStack)
    /\ UNCHANGED <<plan, at, dirs, outcome, foreign, torn>>

(* cleanupArtifacts and cleanupCreatedDirectories after the rollback. *)
CleanupFailure(bad) ==
    /\ at.phase = "rollback" /\ undoStack = <<>> /\ Spend(bad)
    /\ LET paths == {artifacts[k].path : k \in {k \in DOMAIN artifacts : artifacts[k].onFailure}}
           present == paths \cap DOMAIN fs
           refused == {p \in present : IsDirectory(p)}
       IN  /\ bad \subseteq present
           /\ fs' = Without(fs, present \ (bad \cup refused))
           /\ errors' = errors \cup ErrorsOf(bad \cup refused # {}, fs', dirs)
    /\ outcome' = IF errors' # {} THEN "rollbackFailed" ELSE "failed"
    /\ at' = Pc("done", 0, "")
    /\ UNCHANGED <<plan, artifacts, dirs, undoStack, foreign, torn>>

(* cleanupArtifacts after the last operation; backups go with all they hold. *)
CleanupSuccess(bad) ==
    /\ at.phase = "commit" /\ Spend(bad)
    /\ LET paths == {artifacts[k].path : k \in {k \in DOMAIN artifacts : artifacts[k].onSuccess}}
       IN  /\ bad \subseteq paths \cap DOMAIN fs
           /\ fs' = Without(fs, UNION {Under(p) : p \in paths \ bad})
    /\ outcome' = IF bad # {} THEN "cleanupFailed" ELSE "applied"
    /\ at' = Pc("done", 0, "")
    /\ UNCHANGED <<plan, artifacts, dirs, undoStack, errors, foreign, torn>>

(* Somebody else creates a file at a path the plan is about. *)
Appear(path) ==
    /\ at.phase # "done" /\ Cardinality(foreign) < MaxForeign
    /\ ~Exists(path) /\ path # <<>> /\ IsDirectory(Front(path))
    /\ fs' = (path :> File("foreign", path)) @@ fs
    /\ foreign' = foreign \cup {path}
    /\ UNCHANGED <<plan, at, artifacts, dirs, undoStack, errors, outcome, faults, torn>>

Next ==
    \/ Preflight
    \/ StageDirectory \/ StageFile \/ StageFails
    \/ ApplyMkdirOperation \/ ApplyWriteOperation \/ ApplyMoveOperation \/ ApplyRemoveOperation
    \/ \E made \in SUBSET (IF at.op = 0 THEN {} ELSE Ancestry(Parent(Op))) : EnsureDirectoryFails(made)
    \/ BackUp \/ Install \/ Link \/ Unlink \/ MoveRename \/ RemoveRename \/ CallFails
    \/ \E bad \in SUBSET {"rm", "rename"} : UndoLast(bad)
    \/ \E bad \in SUBSET DOMAIN fs : CleanupFailure(bad) \/ CleanupSuccess(bad)
    \/ \E i \in DOMAIN plan.ops : Appear(plan.ops[i].to)

Spec == Init /\ [][Next]_vars

-----------------------------------------------------------------------------
(* Correctness *)

TypeOK ==
    /\ plan \in Setups /\ DOMAIN plan.tree \cap torn = {}
    /\ at.phase \in {"preflight", "stage", "apply", "rollback", "commit", "done"}
    /\ at.op \in 0 .. Len(plan.ops)
    /\ Len(undoStack) <= Len(plan.ops) /\ dirs \cap DOMAIN plan.tree = {}
    /\ DOMAIN artifacts \subseteq (DOMAIN plan.ops) \X {"stage", "backup"}
    /\ errors \subseteq {"call", "directory"}
    /\ (at.phase = "done") = (outcome # "none")
    /\ faults \in 0 .. MaxFaults /\ Cardinality(foreign) <= MaxForeign

Foreign(tree) == {p \in DOMAIN tree : tree[p].by = "foreign"}
TransactionFiles(tree) == {p \in DOMAIN tree : \E n \in DOMAIN p : p[n][1] # ""}
Paths == {plan.ops[i].path : i \in DOMAIN plan.ops}

Installed(i) ==
    plan.kind = "write" /\ <<i, "stage">> \in DOMAIN artifacts
       /\ artifacts[<<i, "stage">>].path = plan.ops[i].path

(* Files that the plan had replaced when it failed.  Their staged artifact stays
   marked for cleanup under the name of the file, so the restored file is removed
   again: they are excepted below. *)
Replaced ==
    {plan.ops[i].path : i \in {i \in DOMAIN plan.ops :
        Installed(i) /\ <<i, "backup">> \in DOMAIN artifacts}}

(* A failed plan leaves every file as it was but those it had replaced (Replaced),
   wherever it failed, provided that the calls of the rollback succeed; and no new
   directory, unless the error says so.  A staged file that could not be written
   completely stays. *)
Restored ==
    /\ outcome = "refused" => Without(fs, Foreign(fs)) = plan.tree
    /\ outcome \in {"failed", "rollbackFailed"} /\ "call" \notin errors =>
          LET left == IF "directory" \in errors THEN dirs ELSE {}
          IN  Without(fs, Foreign(fs) \cup torn \cup Replaced \cup left)
                 = Without(plan.tree, Replaced)

(* What the operations are to achieve, of the tree alone. *)
Goal ==
    LET made == [q \in UNION {Ancestry(Parent(plan.ops[i])) : i \in DOMAIN plan.ops} |-> Directory]
    IN  CASE plan.kind = "write" -> [p \in Paths |-> File("plan", p)] @@ plan.tree @@ made
          [] plan.kind = "mkdir" -> plan.tree @@ made
          [] plan.kind = "move" -> Rename(plan.tree @@ made, plan.ops[1].path, plan.ops[1].to)
          [] plan.kind = "remove" ->
                Without(plan.tree, {q \in DOMAIN plan.tree : \E p \in Paths : IsPrefix(p, q)})

(* A plan that is applied has done exactly what it says, and leaves none of its own
   files behind unless the error names the cleanup. *)
Applied ==
    /\ outcome \in {"applied", "cleanupFailed"} =>
          Without(fs, TransactionFiles(fs) \cup Foreign(fs)) = Goal
    /\ outcome = "applied" => TransactionFiles(fs) = {}

(* All or nothing. *)
AllOrNothing == Restored /\ Applied

(* "Generators refuse to overwrite existing paths": a file that somebody created where
   the plan is to create one is never replaced or removed, at whatever moment it
   appears, unless the plan's own file had been there. *)
ForeignKept ==
    \A i \in DOMAIN plan.ops :
       LET op == plan.ops[i]
       IN  plan.kind = "write" /\ ~op.overwrite /\ op.path \in foreign /\ ~Installed(i) =>
              Exists(op.path) /\ fs[op.path].by = "foreign"

(* The state has its types, and other people's files are safe. *)
Consistent == TypeOK /\ ForeignKept
=============================================================================
