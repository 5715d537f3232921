------------------------------- MODULE Export -------------------------------
(* `agentworks export` and `agentworks status`: the artifacts of a project   *)
(* are built, checked for what they require, and written for every target,   *)
(* as one plugin or, for a vendor without plugins, one by one, several of    *)
(* them merging into one shared file. What was written is pinned in          *)
(* agentworks.lock, and status compares the pins with the disk.              *)
(* cmd/export.go, cmd/build.go, cmd/status.go, internal/export,              *)
(* internal/targets, internal/lockfile                                       *)
(*                                                                           *)
(* One vendor with plugins ("claude-code", which takes every kind) and one   *)
(* without ("cursor") are modelled, and one plugin for the whole selection.  *)
(* A content is a version number and hashing it is injective. Writing an     *)
(* output and hashing it right afterwards are one step; between the steps    *)
(* the user may edit sources and outputs, and the command may be killed.     *)
EXTENDS Naturals, FiniteSets

CONSTANTS
  Item,            \* artifacts of the project
  Merged,          \* the MCP servers among them: on cursor they share one file
  Unsupported,     \* those that cursor cannot take (UnsupportedReason)
  Rank,            \* item -> its place in the order of directories (Discover)
  Requires,        \* item -> the items it requires
  MaxChanges,      \* bound on the changes the user makes to sources and outputs
  MaxExports,      \* bound on the exports that are started
  MaxMishaps,      \* bound on kills and failed calls
  Absent           \* no output, no entry

VARIABLES
  drafts,          \* item -> version in its directory, 0 when there is none
  output,          \* output path -> [entries, touches] or Absent
  pins,            \* agentworks.lock: export key -> [out, from, hash] or Absent
  job,             \* the export that runs
  changes,         \* history: changes by the user so far
  exports,         \* history: exports started so far
  mishaps,         \* history: kills and failures so far
  raced            \* history: items and outputs edited while an export ran

exportVars == <<drafts, output, pins, job, changes, exports, mishaps, raced>>

\* Where an output is written: the plugin, the merged file, or a file of its own.
Path == {"plugin", "merged"} \cup (Item \ Merged)
\* The keys of the lockfile: the bundle, or an artifact exported on its own.
Key == {"plugin"} \cup Item

\* What an output holds: the version of every artifact in it, and what the user did to
\* it; and what the lockfile pins.
Content == [entries : [Item -> 0 .. MaxChanges + 1], touches : 0 .. MaxChanges]
Pin == [out : Path, from : [Item -> 0 .. MaxChanges + 1], hash : Content]

ASSUME ExportAssumption ==
  /\ Merged \subseteq Item /\ Unsupported \subseteq Item
  /\ Rank \in [Item -> Nat] /\ Requires \in [Item -> SUBSET Item]
  /\ {"plugin", "merged"} \cap Item = {}
  /\ {MaxChanges, MaxExports, MaxMishaps} \subseteq Nat
  /\ Absent \notin Content \cup Pin

PathOf(i) == IF i \in Merged THEN "merged" ELSE i

NoEntries == [i \in Item |-> 0]
Holds(f) == {i \in Item : f[i] # 0}

\* The first of some artifacts.
First(items) == CHOOSE i \in items : \A j \in items : Rank[i] <= Rank[j]

NoJob == [pc |-> "idle", whole |-> FALSE, targets |-> {}, loaded |-> NoEntries,
          todo |-> {}, lf |-> [k \in Key |-> Absent], done |-> {}]

Mishap == mishaps < MaxMishaps /\ mishaps' = mishaps + 1

-----------------------------------------------------------------------------
ExportInit ==
  /\ drafts = [i \in Item |-> 1]
  /\ output = [o \in Path |-> Absent]
  /\ pins = [k \in Key |-> Absent]
  /\ job = NoJob
  /\ changes = 0 /\ exports = 0 /\ mishaps = 0 /\ raced = {}

UserChange(x) ==
  /\ changes < MaxChanges /\ changes' = changes + 1
  /\ raced' = IF job.pc = "idle" THEN raced ELSE raced \cup {x}

\* The user works on an artifact, or removes it.
EditArtifact(i) ==
  /\ drafts[i] # 0
  /\ drafts' = [drafts EXCEPT ![i] = @ + 1]
  /\ UserChange(i)
  /\ UNCHANGED <<output, pins, job, exports, mishaps>>

RemoveArtifact(i) ==
  /\ drafts[i] # 0
  /\ drafts' = [drafts EXCEPT ![i] = 0]
  /\ UserChange(i)
  /\ UNCHANGED <<output, pins, job, exports, mishaps>>

\* The user edits an output by hand, or deletes it.
EditOutput(o) ==
  /\ output[o] # Absent
  /\ output' = [output EXCEPT ![o].touches = @ + 1]
  /\ UserChange(o)
  /\ UNCHANGED <<drafts, pins, job, exports, mishaps>>

RemoveOutput(o) ==
  /\ output[o] # Absent
  /\ output' = [output EXCEPT ![o] = Absent]
  /\ UserChange(o)
  /\ UNCHANGED <<drafts, pins, job, exports, mishaps>>

-----------------------------------------------------------------------------
(* agentworks export                                                         *)

\* Named paths are loaded before anything is built; the whole project only later.
StartExport(paths, targets) ==
  /\ job.pc = "idle"
  /\ exports < MaxExports /\ exports' = exports + 1
  /\ targets # {} /\ paths \subseteq Holds(drafts)
  /\ job' = [NoJob EXCEPT !.pc = "build", !.whole = paths = {}, !.targets = targets,
                          !.loaded = [i \in Item |-> IF i \in paths THEN drafts[i] ELSE 0]]
  /\ UNCHANGED <<drafts, output, pins, changes, mishaps, raced>>

Leave == job' = NoJob /\ UNCHANGED <<drafts, output, changes, exports, raced>>

\* runBuilds: every artifact's build command; one that fails ends the export.
Build(ok) ==
  /\ job.pc = "build"
  /\ IF ok THEN job' = [job EXCEPT !.pc = "plan"] /\ UNCHANGED <<drafts, output, changes, exports, raced>> ELSE Leave
  /\ UNCHANGED <<pins, mishaps>>

\* checkClosure: the plugin holds what its members require.
Closed(items) == \A i \in items : Requires[i] \subseteq items

\* lockfile.Load, then Run: find the artifacts and refuse a dangling selection.
Plan ==
  LET found == IF job.whole THEN drafts ELSE job.loaded
  IN /\ job.pc = "plan"
     /\ IF Holds(found) = {} \/ ~Closed(Holds(found))
          THEN Leave
          ELSE /\ job' = [job EXCEPT !.pc = "target", !.loaded = found, !.lf = pins]
               /\ UNCHANGED <<drafts, output, changes, exports, raced>>
     /\ UNCHANGED <<pins, mishaps>>

\* clearMergedFiles: before a whole-project export, if the lockfile knows the target.
Clears == job.whole /\ \E i \in Item : job.lf[i] # Absent

\* The next target; on cursor some artifacts are skipped with a warning.
NextTarget(t) ==
  /\ job.pc = "target" /\ t \in job.targets
  /\ job' = [job EXCEPT !.pc = IF t = "claude-code" THEN "bundle" ELSE "items",
                        !.targets = @ \ {t},
                        !.todo = Holds(job.loaded) \ (IF t = "cursor" THEN Unsupported ELSE {})]
  /\ output' = IF t = "cursor" /\ Clears THEN [output EXCEPT !["merged"] = Absent] ELSE output
  /\ UNCHANGED <<drafts, pins, changes, exports, mishaps, raced>>

\* HashDirs: the versions in the directories of some artifacts.
SourcesOf(items) == [i \in Item |-> IF i \in items THEN drafts[i] ELSE 0]

\* Mutant: the output is hashed before the exporter has replaced it.
HashBefore(o) == IF output[o] = Absent THEN output'[o] ELSE output[o]

\* HashDir of what was just written.
HashOutput(o) == output'[o]

\* Record pins the sources and the output. It fails when a source is gone, which is
\* only warned about.
Record(k, o, items) ==
  IF items \subseteq Holds(drafts)
    THEN [job.lf EXCEPT ![k] = [out |-> o, from |-> SourcesOf(items), hash |-> HashOutput(o)]]
    ELSE job.lf

\* ExportBundle clears the plugin, writes every member and returns.
ExportBundle ==
  /\ job.pc = "bundle"
  /\ output' = [output EXCEPT !["plugin"] = [entries |-> job.loaded, touches |-> 0]]
  /\ job' = [job EXCEPT !.pc = "target", !.lf = Record("plugin", "plugin", Holds(job.loaded)),
                        !.done = @ \cup {"plugin"}, !.todo = {}]
  /\ UNCHANGED <<drafts, pins, changes, exports, mishaps, raced>>

\* Mutant: the shared file is read once, so that an older entry is kept.
MergedKeepingOld(i) ==
  IF output["merged"] = Absent THEN [entries |-> [NoEntries EXCEPT ![i] = job.loaded[i]], touches |-> 0]
  ELSE IF output["merged"].entries[i] # 0 THEN output["merged"]
  ELSE [output["merged"] EXCEPT !.entries[i] = job.loaded[i]]

\* A merged file keeps the other entries and what was added by hand.
MergedWith(i) ==
  IF output["merged"] = Absent THEN [entries |-> [NoEntries EXCEPT ![i] = job.loaded[i]], touches |-> 0]
  ELSE [output["merged"] EXCEPT !.entries[i] = job.loaded[i]]

\* Export of one artifact to its own file, or into the merged file.
ExportItem ==
  LET i == First(job.todo)
  IN /\ job.pc = "items" /\ job.todo # {}
     /\ output' = [output EXCEPT ![PathOf(i)] =
                     IF i \in Merged THEN MergedWith(i)
                     ELSE [entries |-> [NoEntries EXCEPT ![i] = job.loaded[i]], touches |-> 0]]
     /\ job' = [job EXCEPT !.todo = @ \ {i}, !.lf = Record(i, PathOf(i), {i}), !.done = @ \cup {i}]
     /\ UNCHANGED <<drafts, pins, changes, exports, mishaps, raced>>

ItemsDone ==
  /\ job.pc = "items" /\ job.todo = {}
  /\ job' = [job EXCEPT !.pc = "target"]
  /\ UNCHANGED <<drafts, output, pins, changes, exports, mishaps, raced>>

\* A write fails: a plugin is left in part, a file as it was; the others are still
\* exported.
BundleFails ==
  /\ job.pc = "bundle"
  /\ Mishap
  /\ \E last \in Holds(job.loaded) :
       output' = [output EXCEPT !["plugin"] =
                    [entries |-> [i \in Item |-> IF Rank[i] < Rank[last] THEN job.loaded[i] ELSE 0],
                     touches |-> 0]]
  /\ job' = [job EXCEPT !.pc = "target", !.todo = {}]
  /\ UNCHANGED <<drafts, pins, changes, exports, raced>>

ItemFails ==
  /\ job.pc = "items" /\ job.todo # {}
  /\ Mishap
  /\ job' = [job EXCEPT !.todo = @ \ {First(@)}]
  /\ UNCHANGED <<drafts, output, pins, changes, exports, raced>>

\* lf.Save at the end, also after failures; that it fails is only warned about.
EndExport(saved) ==
  /\ job.pc = "target" /\ job.targets = {}
  /\ IF saved THEN pins' = job.lf /\ UNCHANGED mishaps ELSE Mishap /\ UNCHANGED pins
  /\ Leave

\* The export is killed between two of its steps.
KillExport ==
  /\ job.pc # "idle"
  /\ Mishap
  /\ Leave
  /\ UNCHANGED pins

-----------------------------------------------------------------------------
(* agentworks status                                                         *)

\* exportStatus of one entry of the lockfile.
Status(k) ==
  LET pin == pins[k]
      now == SourcesOf(Holds(pin.from))
  IN IF output[pin.out] = Absent THEN "missing"
     ELSE IF output[pin.out] # pin.hash THEN "modified"
     ELSE IF now # pin.from THEN "stale"
     ELSE "in sync"

Known(k) == pins[k] # Absent

-----------------------------------------------------------------------------
ExportStep ==
  \/ \E paths \in SUBSET Item, targets \in SUBSET {"claude-code", "cursor"} : StartExport(paths, targets)
  \/ \E ok \in BOOLEAN : Build(ok)
  \/ Plan
  \/ \E t \in {"claude-code", "cursor"} : NextTarget(t)
  \/ ExportBundle
  \/ ExportItem \/ ItemFails \/ ItemsDone
  \/ BundleFails
  \/ \E saved \in BOOLEAN : EndExport(saved)
  \/ KillExport

ExportNext ==
  \/ \E i \in Item : EditArtifact(i) \/ RemoveArtifact(i)
  \/ \E o \in Path : EditOutput(o) \/ RemoveOutput(o)
  \/ ExportStep

ExportSpec == ExportInit /\ [][ExportNext]_exportVars

-----------------------------------------------------------------------------
(* Properties                                                                *)

\* Types. What is pinned for an artifact or the plugin names existing sources, and is
\* the path that the exporter of its target writes.
ExportTypeOK ==
  /\ drafts \in [Item -> 0 .. MaxChanges + 1]
  /\ \A o \in Path : output[o] # Absent => output[o] \in Content
  /\ \A k \in Key : Known(k) =>
       /\ pins[k].out = IF k = "plugin" THEN "plugin" ELSE PathOf(k)
       /\ pins[k].hash \in Content
       /\ k # "plugin" => Holds(pins[k].from) = {k}
  /\ job.pc \in {"idle", "build", "plan", "target", "bundle", "items"}
  /\ changes \in 0 .. MaxChanges /\ exports \in 0 .. MaxExports /\ mishaps \in 0 .. MaxMishaps
  /\ raced \subseteq Item \cup Path

\* What status calls in sync was written from the sources as they are now, whatever
\* was edited, removed, exported in part, killed or not saved before; except for a
\* source that was edited while an export ran, since artifacts are loaded when the
\* export starts and their directories are hashed when it ends.
InSyncIsTrue ==
  \A k \in Key : Known(k) /\ Status(k) = "in sync" =>
    \A i \in Holds(pins[k].from) \ raced : output[pins[k].out].entries[i] = drafts[i]

\* A plugin that status calls in sync holds everything its members require, for
\* partial exports and for requirements removed while the export ran alike.
DependenciesShipped ==
  Known("plugin") /\ Status("plugin") = "in sync" =>
    \A i \in Holds(output["plugin"].entries) : Requires[i] \subseteq Holds(output["plugin"].entries)

\* An export that ends without a failure and is saved leaves each thing it wrote in
\* sync, unless that was edited meanwhile or shares its file with other artifacts.
EndsInSync ==
  job.pc = "target" /\ job'.pc = "idle" /\ mishaps' = mishaps =>
    \A k \in job.done \ Merged :
      (IF k = "plugin" THEN Holds(job.loaded) \cup {k} ELSE {k, PathOf(k)}) \cap raced = {}
        => Known(k)' /\ Status(k)' = "in sync"

\* An artifact that was removed from the project is gone from the merged file once a
\* whole-project export for that target has ended, unless an earlier command failed or
\* was killed before it saved the lockfile, or the artifact was removed while one ran.
LeavesNoStaleEntry ==
  job.pc = "items" /\ job'.pc = "target" /\ job.whole /\ mishaps = 0 /\ output["merged"] # Absent =>
    Holds(output["merged"].entries) \subseteq Holds(job.loaded) \cup raced

\* What status says of a project's exports is true of what is on disk.
StatusIsTrue == ExportTypeOK /\ InSyncIsTrue /\ DependenciesShipped

\* An export does what it reports: what it wrote is in sync, and what is gone from
\* the project is gone from shared files.
ExportsAreExact == [][EndsInSync /\ LeavesNoStaleEntry]_exportVars
=============================================================================
