------------------------------- MODULE Imports ------------------------------
(* Artifacts imported from elsewhere: `agentworks add` fetches a source,     *)
(* plans its artifacts, asks before it writes content that runs commands,    *)
(* writes the directories and pins them in agentworks.lock; `agentworks      *)
(* update` fetches every pinned source again, compares it with what was      *)
(* pinned, and with --apply replaces the local copy, unless it was edited.   *)
(* cmd/add.go, cmd/update.go, internal/importer, internal/lockfile           *)
(*                                                                           *)
(* One source with several artifacts is modelled; a content is its version   *)
(* number and hashing it is injective. One command runs at a time; upstream, *)
(* an editor and a crash may come between its steps, and a call of the file  *)
(* system or of the network may fail. A write of one directory and the hash  *)
(* taken of it right afterwards are one step.                                *)
EXTENDS Naturals, FiniteSets

CONSTANTS
  Piece,           \* artifacts of the source, identified by their subpath
  DirName,         \* names of artifacts, and of the directories they live in
  MaxReleases,     \* bound on the changes upstream makes to its source
  MaxEditions,     \* bound on the edits of a directory
  MaxLosses,       \* bound on crashes and failed calls
  Missing          \* no piece, no directory, no entry

VARIABLES
  upstream,        \* piece -> [name, version, commands] or Missing
  folder,          \* directory -> [piece, version, commands, editions] or Missing
  lock,            \* agentworks.lock: directory -> [piece, content, local] or Missing
  cli,             \* the command that runs
  verdict,         \* what the update that runs has said of a directory
  releases,        \* history: changes of upstream so far
  losses,          \* history: crashes and failures so far
  kept,            \* history: directories that were there when the command began
  edited,          \* history: those of them that held edits then
  agreed           \* history: contents with commands that the user agreed to

ASSUME ImportAssumption ==
  /\ MaxReleases \in Nat /\ MaxEditions \in Nat /\ MaxLosses \in Nat
  /\ Missing \notin DirName

importVars == <<upstream, folder, lock, cli, verdict, releases, losses, kept, edited, agreed>>

Resting == [pc |-> "idle", cmd |-> "none", force |-> FALSE, apply |-> FALSE, plan |-> [p \in {} |-> Missing],
            todo |-> {}, at |-> Missing, entries |-> [d \in {} |-> Missing]]

Present(f) == {x \in DOMAIN f : f[x] # Missing}

\* Directories that the user has edited since a command wrote them.
Touched == {d \in Present(folder) : folder[d].editions > 0}

\* What a directory holds right after artifact a of piece p was saved in it.
Written(p, a) == [piece |-> p, version |-> a.version, commands |-> a.commands, editions |-> 0]

\* A fault stands for a crash, a failed fetch, or a failed write.
Fault == losses < MaxLosses /\ losses' = losses + 1

-----------------------------------------------------------------------------
ImportInit ==
  /\ \E names \in [Piece -> DirName] :
       upstream = [p \in Piece |-> [name |-> names[p], version |-> 1, commands |-> FALSE]]
  /\ folder = [d \in DirName |-> Missing]
  /\ lock = [d \in DirName |-> Missing]
  /\ cli = Resting
  /\ verdict = [d \in DirName |-> "none"]
  /\ releases = 0 /\ losses = 0 /\ kept = {} /\ edited = {} /\ agreed = {}

Release == releases < MaxReleases /\ releases' = releases + 1

\* The authors of the source publish a new version, perhaps renamed, or drop a piece.
Publish(p) ==
  /\ upstream[p] # Missing /\ Release
  /\ \E n \in DirName, c \in BOOLEAN :
       upstream' = [upstream EXCEPT ![p] = [name |-> n, version |-> @.version + 1, commands |-> c]]
  /\ UNCHANGED <<folder, lock, cli, verdict, losses, kept, edited, agreed>>

Withdraw(p) ==
  /\ upstream[p] # Missing /\ Release
  /\ upstream' = [upstream EXCEPT ![p] = Missing]
  /\ UNCHANGED <<folder, lock, cli, verdict, losses, kept, edited, agreed>>

\* The user works on a directory, or removes it; not while a command is writing.
EditFolder(d) ==
  /\ cli.pc # "write"
  /\ folder[d] # Missing /\ folder[d].editions < MaxEditions
  /\ folder' = [folder EXCEPT ![d].editions = @ + 1]
  /\ UNCHANGED <<upstream, releases, lock, cli, verdict, losses, kept, edited, agreed>>

RemoveFolder(d) ==
  /\ cli.pc # "write"
  /\ folder[d] # Missing
  /\ folder' = [folder EXCEPT ![d] = Missing]
  /\ kept' = kept \ {d} /\ edited' = edited \ {d}
  /\ UNCHANGED <<upstream, releases, lock, cli, verdict, losses, agreed>>

\* A command begins: the history notes what it finds.
Begin(next) ==
  /\ cli.pc = "idle"
  /\ cli' = next
  /\ kept' = Present(folder) /\ edited' = Touched
  /\ UNCHANGED <<upstream, releases, folder, lock, losses>>

\* A command ends; what its history is for is over.
End ==
  /\ cli' = Resting
  /\ kept' = {} /\ edited' = {} /\ verdict' = [d \in DirName |-> "none"]

-----------------------------------------------------------------------------
(* agentworks add                                                            *)

\* Prepare: fetch the source and plan one artifact for every piece it has. --name
\* renames a single skill. A source without artifacts is refused.
StartAdd(name, force) ==
  LET found == Present(upstream)
  IN /\ found # {}
     /\ name # Missing => Cardinality(found) = 1
     /\ Begin([Resting EXCEPT !.pc = "gate", !.cmd = "add", !.force = force, !.todo = found,
                              !.plan = [p \in found |-> IF name = Missing THEN upstream[p]
                                                        ELSE [upstream[p] EXCEPT !.name = name]]])
     /\ UNCHANGED <<verdict, agreed>>

\* LintSecurity: the artifacts of the plan that run commands.
Risky == {p \in DOMAIN cli.plan : cli.plan[p].commands}

Agree == agreed' = agreed \cup {<<p, cli.plan[p].version>> : p \in Risky}

\* securityGate: content that runs commands needs a confirmation (or --yes).
AddGate(yes) ==
  /\ cli.pc = "gate" /\ cli.cmd = "add"
  /\ IF Risky # {} /\ ~yes
       THEN End /\ UNCHANGED agreed
       ELSE /\ Agree
            /\ cli' = [cli EXCEPT !.pc = "check"]
            /\ UNCHANGED <<verdict, kept, edited>>
  /\ UNCHANGED <<upstream, releases, folder, lock, losses>>

Destination(p) == cli.plan[p].name

\* Mutant: only the plan is looked at, not the disk.
CollidesInPlan == \E p, q \in DOMAIN cli.plan : p # q /\ Destination(p) = Destination(q)

\* Two artifacts of the plan must not share a directory, and without --force none of
\* the directories may exist.
Collides ==
  \/ \E p, q \in DOMAIN cli.plan : p # q /\ Destination(p) = Destination(q)
  \/ ~cli.force /\ \E p \in DOMAIN cli.plan : folder[Destination(p)] # Missing

\* Apply and ApplyForce look at every destination before they write the first.
CheckCollisions ==
  /\ cli.pc = "check"
  /\ IF Collides THEN End
     ELSE cli' = [cli EXCEPT !.pc = "write"] /\ UNCHANGED <<verdict, kept, edited>>
  /\ UNCHANGED <<upstream, releases, folder, lock, losses, agreed>>

\* Save and copy one artifact; Overwrite clears the directory before.
WriteArtifact(p) ==
  /\ cli.pc = "write" /\ cli.cmd = "add" /\ p \in cli.todo
  /\ folder' = [folder EXCEPT ![Destination(p)] = Written(p, cli.plan[p])]
  /\ cli' = [cli EXCEPT !.todo = @ \ {p}]
  /\ UNCHANGED <<upstream, releases, lock, verdict, losses, kept, edited, agreed>>

\* A write fails: Apply returns, and nothing of the plan is recorded.
WriteFails ==
  /\ cli.pc = "write" /\ cli.cmd = "add" /\ cli.todo # {}
  /\ Fault
  /\ End
  /\ UNCHANGED <<upstream, releases, folder, lock, agreed>>

\* RecordLockEntries hashes what was fetched for the plan.
Pinned(p) == cli.plan[p].version

\* recordImports: load the lockfile, pin every artifact of the plan, save. A failure
\* is only a warning.
RecordImports(saved) ==
  /\ cli.pc = "write" /\ cli.cmd = "add" /\ cli.todo = {}
  /\ IF saved
       THEN /\ lock' = [d \in DirName |->
                          IF \E p \in DOMAIN cli.plan : Destination(p) = d /\ folder[d] # Missing
                            THEN LET p == CHOOSE p \in DOMAIN cli.plan : Destination(p) = d
                                 IN [piece |-> p, content |-> Pinned(p), local |-> folder[d]]
                            ELSE lock[d]]
            /\ UNCHANGED losses
       ELSE Fault /\ UNCHANGED lock
  /\ End
  /\ UNCHANGED <<upstream, releases, folder, agreed>>

-----------------------------------------------------------------------------
(* agentworks update                                                         *)

\* Load the lockfile; the keys are the pinned directories, or those given.
StartUpdate(keys, apply, force) ==
  /\ keys # {} /\ keys \subseteq Present(lock)
  /\ Begin([Resting EXCEPT !.pc = "next", !.cmd = "update", !.apply = apply, !.force = force,
                           !.todo = keys, !.entries = lock])
  /\ UNCHANGED <<verdict, agreed>>

\* Mutant: the version that was written is compared, not the content.
LocallyOther(d) == folder[d] # Missing /\ folder[d].version # cli.entries[d].local.version

\* locallyEdited: the directory does not hash to what was written. One that is not
\* there counts as unedited.
LocallyEdited(d) == folder[d] # Missing /\ folder[d] # cli.entries[d].local

Say(d, what) == verdict' = [verdict EXCEPT ![d] = what]

\* checkImport and what follows it, up to the point where the user is asked.
CheckImport(d) ==
  LET entry == cli.entries[d]
      fresh == upstream[entry.piece]
      skip == [cli EXCEPT !.todo = @ \ {d}]
  IN /\ cli.pc = "next" /\ d \in cli.todo
     /\ IF fresh = Missing THEN cli' = skip /\ Say(d, "failed")
        ELSE IF fresh.version = entry.content THEN cli' = skip /\ Say(d, "up-to-date")
        ELSE IF ~cli.apply THEN cli' = skip /\ Say(d, "changed")
        ELSE IF LocallyEdited(d) /\ ~cli.force THEN cli' = skip /\ Say(d, "failed")
        ELSE /\ cli' = [skip EXCEPT !.pc = "gate", !.at = d, !.plan = [p \in {entry.piece} |-> fresh]]
             /\ UNCHANGED verdict
     /\ UNCHANGED <<upstream, releases, folder, lock, losses, kept, edited, agreed>>

\* The fetch fails: this artifact is reported, the others are still checked.
FetchFails(d) ==
  /\ cli.pc = "next" /\ d \in cli.todo
  /\ Fault
  /\ cli' = [cli EXCEPT !.todo = @ \ {d}]
  /\ Say(d, "failed")
  /\ UNCHANGED <<upstream, releases, folder, lock, kept, edited, agreed>>

Target == cli.plan[cli.entries[cli.at].piece]

\* applyUpdate's securityGate, then Overwrite's first half: the directory is cleared.
UpdateGate(yes) ==
  /\ cli.pc = "gate" /\ cli.cmd = "update"
  /\ IF Risky # {} /\ ~yes
       THEN /\ cli' = [cli EXCEPT !.pc = "next"] /\ Say(cli.at, "failed")
            /\ UNCHANGED <<folder, agreed>>
       ELSE /\ folder' = [folder EXCEPT ![cli.at] = Missing]
            /\ Agree
            /\ cli' = [cli EXCEPT !.pc = "write"]
            /\ UNCHANGED verdict
  /\ UNCHANGED <<upstream, releases, lock, losses, kept, edited>>

\* Overwrite's second half: the artifact must still have the name of its directory;
\* it is written, and the entry pinned in memory.
OverwriteFolder ==
  LET d == cli.at
      piece == cli.entries[d].piece
      written == Written(piece, Target)
  IN /\ cli.pc = "write" /\ cli.cmd = "update"
     /\ IF Target.name = d
          THEN /\ folder' = [folder EXCEPT ![d] = written]
               /\ cli' = [cli EXCEPT !.pc = "next",
                                     !.entries[d] = [piece |-> piece, content |-> Target.version, local |-> written]]
               /\ Say(d, "updated")
          ELSE /\ cli' = [cli EXCEPT !.pc = "next"]
               /\ Say(d, "failed")
               /\ UNCHANGED folder
     /\ UNCHANGED <<upstream, releases, lock, losses, kept, edited, agreed>>

\* Save the lockfile at the end, whatever happened to single artifacts.
EndUpdate(saved) ==
  /\ cli.pc = "next" /\ cli.todo = {}
  /\ IF saved THEN lock' = cli.entries /\ UNCHANGED losses ELSE Fault /\ UNCHANGED lock
  /\ End
  /\ UNCHANGED <<upstream, releases, folder, agreed>>

\* The process is killed between two of its steps.
KillCommand ==
  /\ cli.pc # "idle"
  /\ Fault
  /\ End
  /\ UNCHANGED <<upstream, releases, folder, lock, agreed>>

-----------------------------------------------------------------------------
UserStep ==
  \/ \E p \in Piece : Publish(p) \/ Withdraw(p)
  \/ \E d \in DirName : EditFolder(d) \/ RemoveFolder(d)
  \/ \E name \in DirName \cup {Missing}, force \in BOOLEAN : StartAdd(name, force)
  \/ \E keys \in SUBSET DirName, apply, force \in BOOLEAN : StartUpdate(keys, apply, force)

CommandStep ==
  \/ \E yes \in BOOLEAN : AddGate(yes) \/ UpdateGate(yes)
  \/ CheckCollisions
  \/ \E p \in Piece : WriteArtifact(p)
  \/ WriteFails
  \/ \E saved \in BOOLEAN : RecordImports(saved) \/ EndUpdate(saved)
  \/ \E d \in DirName : CheckImport(d) \/ FetchFails(d)
  \/ OverwriteFolder
  \/ KillCommand

ImportNext == UserStep \/ CommandStep

ImportSpec == ImportInit /\ [][ImportNext]_importVars

-----------------------------------------------------------------------------
(* Properties                                                                *)

Published == [name : DirName, version : 1 .. MaxReleases + 1, commands : BOOLEAN]
Folder == [piece : Piece, version : 1 .. MaxReleases + 1, commands : BOOLEAN, editions : 0 .. MaxEditions]
Entry == [piece : Piece, content : 1 .. MaxReleases + 1, local : Folder]

\* What is missing is no content.
ASSUME MissingAssumption == Missing \notin Published \cup Folder \cup Entry

\* Types. An entry of the lockfile always describes an unedited directory, as
\* recordImports and applyUpdate hash what they have just written.
ImportTypeOK ==
  /\ \A p \in Piece : upstream[p] # Missing => upstream[p] \in Published
  /\ \A d \in Present(folder) : folder[d] \in Folder
  /\ \A d \in Present(lock) : lock[d] \in Entry /\ lock[d].local.editions = 0
  /\ cli.pc \in {"idle", "gate", "check", "write", "next"}
  /\ verdict \in [DirName -> {"none", "up-to-date", "changed", "updated", "failed"}]
  /\ releases \in 0 .. MaxReleases /\ losses \in 0 .. MaxLosses
  /\ kept \subseteq DirName /\ edited \subseteq kept

\* No command without --force discards what the user had changed in a directory when
\* the command began: not add, and not update --apply, whichever crashes, failures and
\* earlier commands led to the lockfile it compares with (locallyEdited).
EditsSurvive ==
  cli.pc # "idle" /\ ~cli.force =>
    \A d \in edited : folder[d] # Missing /\ folder[d].editions > 0

\* While `add` without --force writes, no directory that was there before changes: the
\* collisions are found before the first write, so none is half replaced.
KeepsOthers ==
  cli.cmd = "add" /\ cli.pc = "write" /\ ~cli.force => \A d \in kept : folder'[d] = folder[d]

\* A directory never holds content that runs commands unless the user agreed to that
\* very version of it (securityGate of add and of update), though upstream may publish
\* another one while the question is open.
CommandsWereAgreed ==
  \A d \in Present(folder) : folder[d].commands => <<folder[d].piece, folder[d].version>> \in agreed

\* When update says that a directory is up to date, its directory (if the user has not
\* removed it) holds the version upstream has: provided no command ever failed halfway,
\* since a failed recordImports is only warned about.
SaysUpToDate ==
  \A d \in DirName :
    verdict[d] # "up-to-date" /\ verdict'[d] = "up-to-date" /\ losses = 0 /\ folder[d] # Missing
      => folder[d].piece = lock[d].piece /\ folder[d].version = upstream[folder[d].piece].version

\* What the help of `update` says of a renamed artifact: the update fails and the local
\* directory is kept. (Overwrite removes the directory before it validates the name.)
FailedUpdateKeepsArtifact ==
  \A d \in kept : verdict[d] = "failed" => folder[d] # Missing

\* Neither edits nor consent are passed over, whatever earlier commands, kills and
\* releases led to.
ImportsAreSafe == ImportTypeOK /\ EditsSurvive /\ CommandsWereAgreed

\* The steps of add and update keep what was there and claim what is true.
ImportsAreExact == [][KeepsOthers /\ SaysUpToDate]_importVars
=============================================================================
