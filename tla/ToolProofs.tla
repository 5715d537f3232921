----------------------------- MODULE ToolProofs -----------------------------
(***************************************************************************)
(* Proofs about the commands that change a project's files (imports and    *)
(* their updates, plans and packs of teams, exports and their status), for *)
(* every number of artifacts and whatever the user does meanwhile, and     *)
(* about the evaluation of a project's artifacts.                          *)
(***************************************************************************)
EXTENDS Imports, TeamPlan, Export, Eval, TLAPS, WellFoundedInduction, SequenceTheorems, FiniteSetTheorems

-----------------------------------------------------------------------------
(* Imports *)

\* A release is no newer than the number of releases, which is bounded.
PublishedBy(n) == [name: DirName, version: 1..(n + 1), commands: BOOLEAN]
FilesOK ==
  /\ releases \in 0..MaxReleases /\ losses \in 0..MaxLosses
  /\ upstream \in [Piece -> {Missing} \cup PublishedBy(releases)]
  /\ folder \in [DirName -> {Missing} \cup Folder]
  /\ kept \subseteq DirName /\ edited \subseteq kept
  /\ verdict \in [DirName -> {"none", "up-to-date", "changed", "updated", "failed"}]

\* Entries describe directories that were just written.
PinnedEntry == {e \in Entry : e.local.editions = 0}
Lockfile == [DirName -> {Missing} \cup PinnedEntry]
Plans == UNION {[P -> Published] : P \in SUBSET Piece}
Cli == [pc: {"idle", "gate", "check", "write", "next"}, cmd: {"none", "add", "update"},
        force: BOOLEAN, apply: BOOLEAN, plan: Plans, todo: SUBSET (Piece \cup DirName),
        at: DirName \cup {Missing}, entries: Lockfile \cup {[d \in {} |-> Missing]}]

RiskAgreed ==
  \A p \in DOMAIN cli.plan : cli.plan[p].commands => <<p, cli.plan[p].version>> \in agreed

\* `add` asks before it writes, and what it is about to write is new or forced.
AddOK ==
  /\ cli.pc \in {"gate", "check", "write"}
  /\ cli.todo \subseteq DOMAIN cli.plan
  /\ cli.pc # "write" => kept \subseteq Present(folder) /\ cli.todo = DOMAIN cli.plan
  /\ cli.pc # "gate" => RiskAgreed
  /\ cli.pc = "write" =>
       /\ \A p, q \in DOMAIN cli.plan : Destination(p) = Destination(q) => p = q
       /\ ~cli.force => \A p \in DOMAIN cli.plan : Destination(p) \notin kept
       /\ \A p \in DOMAIN cli.plan \ cli.todo : folder[Destination(p)] = Written(p, cli.plan[p])

\* `update` has the lockfile's entries of what it has not checked yet, and replaces
\* nothing that was edited unless it is forced.
UpdateOK ==
  /\ cli.pc \in {"next", "gate", "write"}
  /\ cli.entries \in Lockfile
  /\ cli.todo \subseteq Present(cli.entries)
  /\ \A d \in cli.todo : cli.entries[d] = lock[d]
  /\ cli.pc \in {"gate", "write"} =>
       /\ cli.at \in Present(cli.entries) \ cli.todo
       /\ DOMAIN cli.plan = {cli.entries[cli.at].piece}
       /\ ~cli.force => cli.at \notin edited
  /\ cli.pc = "write" => RiskAgreed

\* A directory has what its entry says was written, edits aside.
Recorded(d, lf) ==
  folder[d] # Missing =>
    lf[d] # Missing /\ folder[d].piece = lf[d].piece /\ folder[d].version = lf[d].content

\* As long as nothing failed, the lockfile is behind only while a command is writing.
RecordsOK ==
  losses = 0 =>
    IF cli.cmd = "update" THEN \A d \in DirName : Recorded(d, cli.entries)
    ELSE \A d \in DirName :
           \/ Recorded(d, lock)
           \/ /\ cli.cmd = "add" /\ cli.pc = "write"
              /\ \E p \in DOMAIN cli.plan \ cli.todo : Destination(p) = d

ImportInv ==
  /\ FilesOK
  /\ lock \in Lockfile
  /\ cli \in Cli
  /\ cli.cmd = "none" <=> cli.pc = "idle"
  /\ cli.cmd = "add" => AddOK
  /\ cli.cmd = "update" => UpdateOK
  /\ RecordsOK
  /\ EditsSurvive
  /\ CommandsWereAgreed

LEMMA ImportInvImplies ==
  ASSUME ImportInv PROVE ImportsAreSafe
<1>1. \A p \in Piece : upstream[p] # Missing => upstream[p] \in Published
  BY ImportAssumption DEF ImportInv, FilesOK, PublishedBy, Published
<1>2. \A d \in Present(folder) : folder[d] \in Folder
  BY DEF ImportInv, FilesOK, Present
<1>3. \A d \in Present(lock) : lock[d] \in Entry /\ lock[d].local.editions = 0
  BY DEF ImportInv, Lockfile, PinnedEntry, Present
<1>4. cli.pc \in {"idle", "gate", "check", "write", "next"}
  BY DEF ImportInv, Cli
<1> QED
  BY <1>1, <1>2, <1>3, <1>4 DEF ImportsAreSafe, ImportTypeOK, ImportInv, FilesOK

-----------------------------------------------------------------------------
(* What the steps have in common *)

\* Nothing that is written is "missing".
LEMMA ContentIsThere ==
  /\ \A f \in Folder : f # Missing
  /\ \A e \in Entry : e # Missing
  /\ \A n \in Nat : n <= MaxReleases => \A u \in PublishedBy(n) : u \in Published /\ u # Missing
BY ImportAssumption, MissingAssumption DEF PublishedBy, Published

LEMMA WrittenIsFolder ==
  ASSUME NEW p \in Piece, NEW a \in Published
  PROVE  /\ Written(p, a) \in Folder /\ Written(p, a).editions = 0
         /\ Written(p, a).piece = p /\ Written(p, a).version = a.version
         /\ Written(p, a).commands = a.commands
BY ImportAssumption DEF Written, Folder, Published

LEMMA RestingIsCli == Resting \in Cli /\ Resting.pc = "idle" /\ Resting.cmd = "none"
<1>1. Resting.plan \in [{} -> Published] /\ {} \in SUBSET Piece
  BY DEF Resting
<1>2. Resting.plan \in Plans
  BY <1>1 DEF Plans
<1> QED
  BY <1>2 DEF Resting, Cli

\* A plan has an artifact of the source for each of its pieces.
LEMMA PlanTypes ==
  ASSUME ImportInv
  PROVE  /\ DOMAIN cli.plan \subseteq Piece
         /\ \A p \in DOMAIN cli.plan : cli.plan[p] \in Published /\ Destination(p) \in DirName
<1>1. cli.plan \in Plans
  BY DEF ImportInv, Cli
<1>2. PICK P \in SUBSET Piece : cli.plan \in [P -> Published]
  BY <1>1 DEF Plans
<1> QED
  BY <1>2 DEF Destination, Published

\* A command that ends leaves nothing half recorded, or something failed.
LEMMA EndKeeps ==
  ASSUME ImportInv, End, FilesOK', lock' \in Lockfile, UNCHANGED <<folder, agreed>>,
         losses' = 0 => \A d \in DirName : Recorded(d, lock')
  PROVE  ImportInv'
<1>1. cli' \in Cli /\ cli'.pc = "idle" /\ cli'.cmd = "none"
  BY RestingIsCli DEF End
<1>2. RecordsOK'
  BY <1>1 DEF RecordsOK, Recorded
<1>3. EditsSurvive' /\ CommandsWereAgreed'
  BY <1>1 DEF ImportInv, EditsSurvive, CommandsWereAgreed, Present
<1> QED
  BY <1>1, <1>2, <1>3 DEF ImportInv

\* What the command knows does not depend on the source and on what was said.
LEMMA CommandStays ==
  ASSUME ImportInv, FilesOK', UNCHANGED <<folder, lock, cli, losses, kept, edited, agreed>>
  PROVE  ImportInv'
<1>1. AddOK <=> AddOK'
  BY DEF AddOK, RiskAgreed, Destination, Present
<1>2. UpdateOK <=> UpdateOK'
  BY DEF UpdateOK, RiskAgreed, Present
<1>3. RecordsOK' /\ EditsSurvive' /\ CommandsWereAgreed'
  BY DEF ImportInv, RecordsOK, Recorded, EditsSurvive, CommandsWereAgreed, Present, Destination
<1> QED
  BY <1>1, <1>2, <1>3 DEF ImportInv

LEMMA SourceSteps ==
  ASSUME ImportInv, NEW p \in Piece, Publish(p) \/ Withdraw(p)
  PROVE  ImportInv'
<1>1. releases' = releases + 1 /\ releases' \in 0..MaxReleases /\ releases \in Nat
  BY ImportAssumption DEF Publish, Withdraw, Release, ImportInv, FilesOK
<1>2. \A u \in PublishedBy(releases) : u \in PublishedBy(releases')
  BY <1>1 DEF PublishedBy
<1>3. upstream' \in [Piece -> {Missing} \cup PublishedBy(releases')]
  <2>1. CASE Withdraw(p)
    BY <1>2, <2>1 DEF Withdraw, ImportInv, FilesOK
  <2>2. CASE Publish(p)
    <3>1. PICK n \in DirName, c \in BOOLEAN :
            upstream' = [upstream EXCEPT ![p] = [name |-> n, version |-> upstream[p].version + 1,
                                                 commands |-> c]]
      BY <2>2 DEF Publish
    <3>2. upstream[p] \in PublishedBy(releases)
      BY <2>2 DEF Publish, ImportInv, FilesOK
    <3>3. [name |-> n, version |-> upstream[p].version + 1, commands |-> c] \in PublishedBy(releases')
      BY <1>1, <3>2 DEF PublishedBy
    <3> QED
      BY <1>2, <3>1, <3>3 DEF ImportInv, FilesOK
  <2> QED
    BY <2>1, <2>2
<1> QED
  BY <1>1, <1>3, CommandStays DEF Publish, Withdraw, ImportInv, FilesOK

\* The user may change a directory until a command writes: an entry that is checked
\* later compares with what is there then.
LEMMA FolderSteps ==
  ASSUME ImportInv, NEW d \in DirName, EditFolder(d) \/ RemoveFolder(d)
  PROVE  ImportInv'
<1>1. /\ cli.pc # "write" /\ folder[d] \in Folder
      /\ UNCHANGED <<upstream, releases, lock, cli, verdict, losses, agreed>>
  BY DEF EditFolder, RemoveFolder, ImportInv, FilesOK
<1>2. UpdateOK => UpdateOK'
  BY <1>1 DEF UpdateOK, RiskAgreed, Present, EditFolder, RemoveFolder
<1>3. CASE EditFolder(d)
  <2> DEFINE f == [folder[d] EXCEPT !.editions = folder[d].editions + 1]
  <2>1. folder' = [folder EXCEPT ![d] = f] /\ UNCHANGED <<kept, edited>>
    BY <1>3 DEF EditFolder
  <2>2. f \in Folder /\ f.piece = folder[d].piece /\ f.version = folder[d].version
        /\ f.commands = folder[d].commands /\ f.editions > 0
    BY <1>1, <1>3, ImportAssumption DEF EditFolder, Folder
  <2> HIDE DEF f
  <2>3. f # Missing /\ folder[d] # Missing
    BY <1>1, <2>2, ContentIsThere
  <2>4. FilesOK'
    BY <1>1, <2>1, <2>2 DEF ImportInv, FilesOK
  <2>5. Present(folder') = Present(folder)
    BY <2>1, <2>3, <2>4 DEF Present, ImportInv, FilesOK
  <2>6. AddOK => AddOK'
    BY <1>1, <2>1, <2>5 DEF AddOK, RiskAgreed
  <2>7. RecordsOK'
    BY <1>1, <2>1, <2>2, <2>3 DEF ImportInv, FilesOK, RecordsOK, Recorded
  <2>8. EditsSurvive' /\ CommandsWereAgreed'
    BY <1>1, <2>1, <2>2, <2>3, <2>5 DEF ImportInv, FilesOK, EditsSurvive, CommandsWereAgreed, Present
  <2> QED
    BY <1>1, <1>2, <2>4, <2>6, <2>7, <2>8 DEF ImportInv
<1>4. CASE RemoveFolder(d)
  <2>1. folder' = [folder EXCEPT ![d] = Missing] /\ kept' = kept \ {d} /\ edited' = edited \ {d}
    BY <1>4 DEF RemoveFolder
  <2>2. FilesOK'
    BY <1>1, <2>1 DEF ImportInv, FilesOK
  <2>3. Present(folder') = Present(folder) \ {d}
    BY <2>1, <2>2 DEF Present, ImportInv, FilesOK
  <2>4. AddOK => AddOK'
    BY <1>1, <2>1, <2>3 DEF AddOK, RiskAgreed
  <2>5. RecordsOK'
    BY <1>1, <2>1 DEF ImportInv, FilesOK, RecordsOK, Recorded
  <2>6. EditsSurvive' /\ CommandsWereAgreed'
    BY <1>1, <2>1, <2>3 DEF ImportInv, FilesOK, EditsSurvive, CommandsWereAgreed, Present
  <2> QED
    BY <1>1, <1>2, <2>2, <2>4, <2>5, <2>6 DEF ImportInv
<1> QED
  BY <1>3, <1>4

\* A command begins by noting what is there.
LEMMA StartSteps ==
  ASSUME ImportInv,
         \/ \E name \in DirName \cup {Missing}, force \in BOOLEAN : StartAdd(name, force)
         \/ \E keys \in SUBSET DirName, apply, force \in BOOLEAN : StartUpdate(keys, apply, force)
  PROVE  ImportInv'
<1>1. /\ cli.pc = "idle" /\ cli.cmd = "none"
      /\ kept' = Present(folder) /\ edited' = Touched
      /\ UNCHANGED <<upstream, releases, folder, lock, losses, verdict, agreed>>
  BY DEF StartAdd, StartUpdate, Begin, ImportInv
<1>2. FilesOK'
  BY <1>1 DEF ImportInv, FilesOK, Touched, Present
<1>3. EditsSurvive' /\ CommandsWereAgreed'
  BY <1>1 DEF ImportInv, EditsSurvive, CommandsWereAgreed, Touched, Present
<1>4. losses = 0 => \A d \in DirName : Recorded(d, lock) /\ Recorded(d, lock)'
  BY <1>1 DEF ImportInv, RecordsOK, Recorded
<1>5. ASSUME NEW name \in DirName \cup {Missing}, NEW force \in BOOLEAN, StartAdd(name, force)
      PROVE  ImportInv'
  <2> DEFINE found == Present(upstream)
             planned(p) == IF name = Missing THEN upstream[p] ELSE [upstream[p] EXCEPT !.name = name]
             plan == [p \in found |-> planned(p)]
             next == [Resting EXCEPT !.pc = "gate", !.cmd = "add", !.force = force, !.todo = found,
                                     !.plan = plan]
  <2>1. cli' = next
    BY <1>5 DEF StartAdd, Begin
  <2>2. found \in SUBSET Piece
    BY DEF Present, ImportInv, FilesOK
  <2>3. \A p \in found : planned(p) \in Published
    <3> TAKE p \in found
    <3>1. upstream[p] \in Published
      BY ContentIsThere DEF Present, ImportInv, FilesOK
    <3> QED
      BY <3>1 DEF Published
  <2> HIDE DEF planned, found
  <2>4. plan \in [found -> Published]
    BY <2>3
  <2>5. plan \in Plans /\ DOMAIN plan = found
    BY <2>2, <2>4 DEF Plans
  <2> HIDE DEF plan
  <2>6. next \in Cli /\ next.pc = "gate" /\ next.cmd = "add" /\ next.todo = DOMAIN next.plan
    BY <2>2, <2>5, RestingIsCli DEF Cli, Resting
  <2> HIDE DEF next
  <2>7. AddOK'
    BY <1>1, <2>1, <2>6 DEF AddOK
  <2>8. RecordsOK'
    BY <1>1, <1>4, <2>1, <2>6 DEF RecordsOK
  <2> QED
    BY <1>1, <1>2, <1>3, <2>1, <2>6, <2>7, <2>8 DEF ImportInv
<1>6. ASSUME NEW keys \in SUBSET DirName, NEW apply \in BOOLEAN, NEW force \in BOOLEAN,
             StartUpdate(keys, apply, force)
      PROVE  ImportInv'
  <2> DEFINE next == [Resting EXCEPT !.pc = "next", !.cmd = "update", !.apply = apply,
                                     !.force = force, !.todo = keys, !.entries = lock]
  <2>1. cli' = next /\ keys \subseteq Present(lock)
    BY <1>6 DEF StartUpdate, Begin
  <2>2. next \in Cli /\ next.pc = "next" /\ next.cmd = "update" /\ next.todo = keys
        /\ next.entries = lock
    BY RestingIsCli DEF Cli, Resting, ImportInv
  <2> HIDE DEF next
  <2>3. UpdateOK'
    BY <1>1, <2>1, <2>2 DEF UpdateOK, ImportInv
  <2>4. RecordsOK'
    BY <1>1, <1>4, <2>1, <2>2 DEF RecordsOK, Recorded
  <2> QED
    BY <1>1, <1>2, <1>3, <2>1, <2>2, <2>3, <2>4 DEF ImportInv
<1> QED
  BY <1>5, <1>6

LEMMA AddGateStep ==
  ASSUME ImportInv, NEW yes \in BOOLEAN, AddGate(yes)
  PROVE  ImportInv'
<1>1. /\ cli.pc = "gate" /\ cli.cmd = "add" /\ AddOK
      /\ UNCHANGED <<upstream, releases, folder, lock, losses>>
  BY DEF AddGate, ImportInv
<1>2. losses = 0 => \A d \in DirName : Recorded(d, lock)
  BY <1>1 DEF ImportInv, RecordsOK
<1>3. CASE Risky # {} /\ ~yes
  <2>1. End /\ UNCHANGED agreed
    BY <1>3 DEF AddGate
  <2>2. FilesOK'
    BY <1>1, <2>1 DEF End, ImportInv, FilesOK
  <2> QED
    BY <1>1, <1>2, <2>1, <2>2, EndKeeps DEF ImportInv, Recorded
<1>4. CASE ~(Risky # {} /\ ~yes)
  <2>1. /\ Agree /\ cli' = [cli EXCEPT !.pc = "check"]
        /\ UNCHANGED <<verdict, kept, edited>>
    BY <1>4 DEF AddGate
  <2>2. /\ cli' \in Cli /\ cli'.pc = "check" /\ cli'.cmd = "add"
        /\ cli'.plan = cli.plan /\ cli'.todo = cli.todo /\ cli'.force = cli.force
    BY <1>1, <2>1 DEF ImportInv, Cli
  <2>3. FilesOK'
    BY <1>1, <2>1 DEF ImportInv, FilesOK
  <2>4. RiskAgreed'
    BY <2>1, <2>2 DEF Agree, Risky, RiskAgreed
  <2>5. AddOK'
    BY <1>1, <2>1, <2>2, <2>4 DEF AddOK, Present
  <2>6. RecordsOK'
    BY <1>1, <1>2, <2>2 DEF RecordsOK, Recorded
  <2>7. EditsSurvive' /\ CommandsWereAgreed'
    BY <1>1, <2>1, <2>2 DEF ImportInv, EditsSurvive, CommandsWereAgreed, Present, Agree
  <2> QED
    BY <1>1, <2>2, <2>3, <2>5, <2>6, <2>7 DEF ImportInv
<1> QED
  BY <1>3, <1>4

\* The collisions are found before the first write.
LEMMA CheckStep ==
  ASSUME ImportInv, CheckCollisions
  PROVE  ImportInv'
<1>1. /\ cli.pc = "check"
      /\ UNCHANGED <<upstream, releases, folder, lock, losses, agreed>>
  BY DEF CheckCollisions
<1>2. cli.cmd = "add" /\ AddOK
  BY <1>1 DEF ImportInv, UpdateOK, Cli
<1>3. losses = 0 => \A d \in DirName : Recorded(d, lock)
  BY <1>1, <1>2 DEF ImportInv, RecordsOK
<1>4. CASE Collides
  <2>1. End
    BY <1>4 DEF CheckCollisions
  <2>2. FilesOK'
    BY <1>1, <2>1 DEF End, ImportInv, FilesOK
  <2> QED
    BY <1>1, <1>3, <2>1, <2>2, EndKeeps DEF ImportInv, Recorded
<1>5. CASE ~Collides
  <2>1. cli' = [cli EXCEPT !.pc = "write"] /\ UNCHANGED <<verdict, kept, edited>>
    BY <1>5 DEF CheckCollisions
  <2>2. /\ cli' \in Cli /\ cli'.pc = "write" /\ cli'.cmd = "add"
        /\ cli'.plan = cli.plan /\ cli'.todo = cli.todo /\ cli'.force = cli.force
    BY <1>2, <2>1 DEF ImportInv, Cli
  <2>3. \A p \in DOMAIN cli.plan : Destination(p)' = Destination(p)
    BY <2>2 DEF Destination
  <2>4. \A p, q \in DOMAIN cli.plan : Destination(p) = Destination(q) => p = q
    BY <1>5 DEF Collides
  <2>5. ~cli.force => \A p \in DOMAIN cli.plan : Destination(p) \notin kept
    BY <1>1, <1>2, <1>5 DEF Collides, AddOK, Present
  <2>6. AddOK'
    BY <1>1, <1>2, <2>1, <2>2, <2>3, <2>4, <2>5 DEF AddOK, RiskAgreed
  <2>7. RecordsOK'
    BY <1>1, <1>3, <2>2 DEF RecordsOK, Recorded
  <2>8. EditsSurvive' /\ CommandsWereAgreed' /\ FilesOK'
    BY <1>1, <2>1, <2>2 DEF ImportInv, EditsSurvive, CommandsWereAgreed, Present, FilesOK
  <2> QED
    BY <1>1, <2>2, <2>6, <2>7, <2>8 DEF ImportInv
<1> QED
  BY <1>4, <1>5

LEMMA WriteStep ==
  ASSUME ImportInv, NEW p \in Piece, WriteArtifact(p)
  PROVE  ImportInv'
<1> DEFINE d == Destination(p)
           new == Written(p, cli.plan[p])
<1>1. /\ cli.pc = "write" /\ cli.cmd = "add" /\ p \in cli.todo /\ AddOK
      /\ folder' = [folder EXCEPT ![d] = new]
      /\ cli' = [cli EXCEPT !.todo = cli.todo \ {p}]
      /\ UNCHANGED <<upstream, releases, lock, verdict, losses, kept, edited, agreed>>
  BY DEF WriteArtifact, ImportInv
<1>2. p \in DOMAIN cli.plan /\ cli.plan[p] \in Published /\ d \in DirName
  BY <1>1, PlanTypes DEF AddOK
<1>3. /\ cli' \in Cli /\ cli'.pc = "write" /\ cli'.cmd = "add" /\ cli'.plan = cli.plan
      /\ cli'.todo = cli.todo \ {p} /\ cli'.force = cli.force
  BY <1>1 DEF ImportInv, Cli
<1>4. \A q \in DOMAIN cli.plan : Destination(q)' = Destination(q)
  BY <1>3 DEF Destination
<1>5. /\ new \in Folder /\ new # Missing /\ new.piece = p /\ new.version = cli.plan[p].version
      /\ new.commands = cli.plan[p].commands
  BY <1>2, WrittenIsFolder, ContentIsThere
<1>6. RiskAgreed
  BY <1>1 DEF AddOK
<1> HIDE DEF new, d
<1>7. FilesOK'
  BY <1>1, <1>2, <1>5 DEF ImportInv, FilesOK
<1>8. AddOK'
  <2>1. ASSUME NEW q \in DOMAIN cli.plan \ cli'.todo
        PROVE  folder'[Destination(q)] = Written(q, cli.plan[q])
    <3>1. CASE q = p
      BY <1>1, <1>2, <3>1 DEF d, new, ImportInv, FilesOK
    <3>2. CASE q # p
      <4>1. Destination(q) # d /\ folder[Destination(q)] = Written(q, cli.plan[q])
        BY <1>1, <1>2, <1>3, <2>1, <3>2 DEF AddOK, d
      <4> QED
        BY <1>1, <4>1 DEF ImportInv, FilesOK
    <3> QED
      BY <3>1, <3>2
  <2> QED
    BY <1>1, <1>3, <1>4, <1>6, <2>1 DEF AddOK, RiskAgreed
<1>9. RecordsOK'
  <2> SUFFICES ASSUME losses = 0, NEW e \in DirName
               PROVE  \/ Recorded(e, lock)'
                      \/ \E q \in DOMAIN cli.plan \ cli'.todo : Destination(q) = e
    BY <1>1, <1>3, <1>4 DEF RecordsOK
  <2>1. CASE e = d
    BY <1>2, <1>3, <2>1 DEF d
  <2>2. CASE e # d
    BY <1>1, <1>3, <2>2 DEF ImportInv, RecordsOK, Recorded, FilesOK
  <2> QED
    BY <2>1, <2>2
<1>10. EditsSurvive'
  BY <1>1, <1>2, <1>3 DEF ImportInv, EditsSurvive, AddOK, FilesOK, d
<1>11. CommandsWereAgreed'
  BY <1>1, <1>2, <1>5, <1>6 DEF ImportInv, CommandsWereAgreed, RiskAgreed, FilesOK, Present
<1> QED
  BY <1>1, <1>3, <1>7, <1>8, <1>9, <1>10, <1>11 DEF ImportInv

\* recordImports pins what was written, nothing else.
LEMMA RecordStep ==
  ASSUME ImportInv, NEW saved \in BOOLEAN, RecordImports(saved)
  PROVE  ImportInv'
<1>1. /\ cli.pc = "write" /\ cli.cmd = "add" /\ cli.todo = {} /\ AddOK /\ End
      /\ UNCHANGED <<upstream, releases, folder, agreed>>
  BY DEF RecordImports, ImportInv
<1>2. CASE ~saved
  <2>1. losses' = losses + 1 /\ losses < MaxLosses /\ UNCHANGED lock
    BY <1>2 DEF RecordImports, Fault
  <2>2. FilesOK' /\ losses' # 0
    BY <1>1, <2>1, ImportAssumption DEF End, ImportInv, FilesOK
  <2> QED
    BY <1>1, <2>1, <2>2, EndKeeps DEF ImportInv
<1>3. CASE saved
  <2> DEFINE writer(d) == CHOOSE p \in DOMAIN cli.plan : Destination(p) = d
             entry(d) == [piece |-> writer(d), content |-> Pinned(writer(d)), local |-> folder[d]]
             isWritten(d) == \E p \in DOMAIN cli.plan : Destination(p) = d /\ folder[d] # Missing
  <2>1. lock' = [d \in DirName |-> IF isWritten(d) THEN entry(d) ELSE lock[d]] /\ UNCHANGED losses
    BY <1>3 DEF RecordImports
  <2>2. ASSUME NEW d \in DirName, isWritten(d)
        PROVE  /\ entry(d) \in PinnedEntry
               /\ folder[d].piece = entry(d).piece /\ folder[d].version = entry(d).content
    <3>1. PICK w \in DOMAIN cli.plan : w = writer(d) /\ Destination(w) = d
      BY <2>2
    <3>2. folder[d] = Written(w, cli.plan[w])
      BY <1>1, <3>1 DEF AddOK
    <3>3. w \in Piece /\ cli.plan[w] \in Published
      BY <3>1, PlanTypes
    <3>4. Pinned(w) = cli.plan[w].version /\ cli.plan[w].version \in 1..(MaxReleases + 1)
      BY <3>3 DEF Pinned, Published
    <3>5. folder[d] \in Folder /\ folder[d].editions = 0 /\ folder[d].piece = w
          /\ folder[d].version = cli.plan[w].version
      BY <3>2, <3>3, WrittenIsFolder
    <3>6. entry(d) = [piece |-> w, content |-> Pinned(w), local |-> folder[d]]
      BY <3>1
    <3> HIDE DEF writer, entry
    <3>7. entry(d) \in PinnedEntry /\ entry(d).piece = w /\ entry(d).content = Pinned(w)
      BY <3>3, <3>4, <3>5, <3>6 DEF PinnedEntry, Entry
    <3> QED
      BY <3>4, <3>5, <3>7
  <2> HIDE DEF entry
  <2>3. lock' \in Lockfile
    BY <2>1, <2>2 DEF Lockfile, ImportInv
  <2>4. FilesOK'
    BY <1>1, <2>1 DEF End, ImportInv, FilesOK
  <2>5. ASSUME losses = 0, NEW d \in DirName PROVE Recorded(d, lock')
    <3>1. CASE isWritten(d)
      <4>1. lock'[d] = entry(d) /\ entry(d) # Missing
        BY <2>1, <2>2, <3>1, ContentIsThere DEF PinnedEntry
      <4> QED
        BY <2>2, <3>1, <4>1 DEF Recorded
    <3>2. CASE ~isWritten(d)
      <4>1. lock'[d] = lock[d]
        BY <2>1, <3>2
      <4>2. folder[d] # Missing => Recorded(d, lock)
        BY <1>1, <2>5, <3>2 DEF ImportInv, RecordsOK
      <4> QED
        BY <4>1, <4>2 DEF Recorded
    <3> QED
      BY <3>1, <3>2
  <2> QED
    BY <1>1, <2>1, <2>3, <2>4, <2>5, EndKeeps
<1> QED
  BY <1>2, <1>3

\* A command that is killed or cannot write has lost something.
LEMMA LossStep ==
  ASSUME ImportInv, WriteFails \/ KillCommand
  PROVE  ImportInv'
<1>1. /\ End /\ losses' = losses + 1 /\ losses < MaxLosses
      /\ UNCHANGED <<upstream, releases, folder, lock, agreed>>
  BY DEF WriteFails, KillCommand, Fault
<1>2. FilesOK' /\ losses' # 0
  BY <1>1, ImportAssumption DEF End, ImportInv, FilesOK
<1> QED
  BY <1>1, <1>2, EndKeeps DEF ImportInv

\* While update goes on, what it does not touch stays as it is.
LEMMA UpdateGoesOn ==
  ASSUME ImportInv, cli.cmd = "update", cli' \in Cli, cli'.cmd = "update", FilesOK', UpdateOK',
         cli'.force = cli.force, UNCHANGED <<folder, lock, kept, edited, agreed>>,
         losses' = 0 => losses = 0, cli'.entries = cli.entries
  PROVE  ImportInv'
<1>1. RecordsOK'
  BY DEF ImportInv, RecordsOK, Recorded
<1>2. EditsSurvive' /\ CommandsWereAgreed'
  BY DEF ImportInv, EditsSurvive, CommandsWereAgreed, Present, UpdateOK
<1>3. cli.pc # "idle" /\ cli'.pc # "idle"
  BY DEF ImportInv, UpdateOK
<1> QED
  BY <1>1, <1>2, <1>3 DEF ImportInv

\* checkImport, which holds the entry it compares with since the command began.
LEMMA CheckImportStep ==
  ASSUME ImportInv, NEW d \in DirName, CheckImport(d)
  PROVE  ImportInv'
<1> DEFINE entry == cli.entries[d]
           fresh == upstream[entry.piece]
           skip == [cli EXCEPT !.todo = cli.todo \ {d}]
           gate == [skip EXCEPT !.pc = "gate", !.at = d, !.plan = [p \in {entry.piece} |-> fresh]]
<1>1. /\ cli.pc = "next" /\ d \in cli.todo
      /\ UNCHANGED <<upstream, releases, folder, lock, losses, kept, edited, agreed>>
  BY DEF CheckImport
<1>2. cli.cmd = "update" /\ UpdateOK
  BY <1>1 DEF ImportInv, AddOK, Cli
<1>3. entry \in PinnedEntry /\ entry.piece \in Piece
  BY <1>1, <1>2 DEF UpdateOK, Lockfile, PinnedEntry, Entry, Present
<1>4. /\ skip \in Cli /\ skip.pc = "next" /\ skip.cmd = "update" /\ skip.todo = cli.todo \ {d}
      /\ skip.force = cli.force /\ skip.entries = cli.entries /\ skip.plan = cli.plan
  BY <1>1, <1>2 DEF ImportInv, Cli
<1>5. cli' = skip \/ (/\ cli' = gate /\ fresh # Missing
                      /\ UNCHANGED verdict /\ ~(LocallyEdited(d) /\ ~cli.force))
  BY DEF CheckImport
<1>6. FilesOK'
  <2>1. verdict' \in [DirName -> {"none", "up-to-date", "changed", "updated", "failed"}]
    BY DEF CheckImport, Say, ImportInv, FilesOK
  <2> QED
    BY <1>1, <2>1 DEF ImportInv, FilesOK
<1>7. CASE cli' = skip
  <2> HIDE DEF skip
  <2>1. UpdateOK'
    BY <1>1, <1>2, <1>4, <1>7 DEF UpdateOK
  <2> QED
    BY <1>1, <1>2, <1>4, <1>6, <1>7, <2>1, UpdateGoesOn
<1>8. CASE cli' = gate /\ fresh # Missing /\ ~(LocallyEdited(d) /\ ~cli.force)
  <2> DEFINE plan == [p \in {entry.piece} |-> fresh]
  <2>1. fresh \in Published
    BY <1>3, <1>8, ContentIsThere DEF ImportInv, FilesOK
  <2>2. plan \in Plans /\ DOMAIN plan = {entry.piece}
    <3>1. plan \in [{entry.piece} -> Published] /\ {entry.piece} \in SUBSET Piece
      BY <1>3, <2>1
    <3> QED
      BY <3>1 DEF Plans
  <2>3. gate = [skip EXCEPT !.pc = "gate", !.at = d, !.plan = plan]
    OBVIOUS
  <2> HIDE DEF plan, gate, skip
  <2>4. /\ gate \in Cli /\ gate.pc = "gate" /\ gate.cmd = "update" /\ gate.at = d
        /\ gate.plan = plan /\ gate.todo = cli.todo \ {d}
        /\ gate.force = cli.force /\ gate.entries = cli.entries
    BY <1>4, <2>2, <2>3 DEF Cli
  <2>5. ~cli.force => d \notin edited
    <3> SUFFICES ASSUME ~cli.force, d \in edited PROVE FALSE
      OBVIOUS
    <3>1. folder[d] # Missing /\ folder[d].editions > 0
      BY <1>1 DEF ImportInv, EditsSurvive
    <3>2. entry.local.editions = 0
      BY <1>3 DEF PinnedEntry
    <3>3. folder[d] # cli.entries[d].local
      BY <3>1, <3>2
    <3> QED
      BY <1>8, <3>1, <3>3 DEF LocallyEdited
  <2>6. UpdateOK'
    BY <1>1, <1>2, <1>8, <2>2, <2>4, <2>5 DEF UpdateOK, Present
  <2> QED
    BY <1>1, <1>2, <1>6, <1>8, <2>4, <2>6, UpdateGoesOn
<1> QED
  BY <1>5, <1>7, <1>8

LEMMA FetchFailsStep ==
  ASSUME ImportInv, NEW d \in DirName, FetchFails(d)
  PROVE  ImportInv'
<1>1. /\ cli.pc = "next" /\ cli' = [cli EXCEPT !.todo = cli.todo \ {d}]
      /\ losses' = losses + 1 /\ losses < MaxLosses /\ Say(d, "failed")
      /\ UNCHANGED <<upstream, releases, folder, lock, kept, edited, agreed>>
  BY DEF FetchFails, Fault
<1>2. cli.cmd = "update" /\ UpdateOK
  BY <1>1 DEF ImportInv, AddOK, Cli
<1>3. /\ cli' \in Cli /\ cli'.pc = "next" /\ cli'.cmd = "update" /\ cli'.todo = cli.todo \ {d}
      /\ cli'.force = cli.force /\ cli'.entries = cli.entries
  BY <1>1, <1>2 DEF ImportInv, Cli
<1>4. FilesOK' /\ losses' # 0
  BY <1>1, ImportAssumption DEF Say, ImportInv, FilesOK
<1>5. UpdateOK'
  BY <1>1, <1>2, <1>3 DEF UpdateOK
<1> QED
  BY <1>1, <1>2, <1>3, <1>4, <1>5, UpdateGoesOn

\* Overwrite clears the directory that was not edited, or whose loss was asked for.
LEMMA UpdateGateStep ==
  ASSUME ImportInv, NEW yes \in BOOLEAN, UpdateGate(yes)
  PROVE  ImportInv'
<1>1. /\ cli.pc = "gate" /\ cli.cmd = "update" /\ UpdateOK
      /\ UNCHANGED <<upstream, releases, lock, losses, kept, edited>>
  BY DEF UpdateGate, ImportInv
<1>2. cli.at \in DirName
  BY <1>1 DEF UpdateOK, Present, Lockfile
<1>3. CASE Risky # {} /\ ~yes
  <2>1. cli' = [cli EXCEPT !.pc = "next"] /\ Say(cli.at, "failed") /\ UNCHANGED <<folder, agreed>>
    BY <1>3 DEF UpdateGate
  <2>2. /\ cli' \in Cli /\ cli'.pc = "next" /\ cli'.cmd = "update" /\ cli'.todo = cli.todo
        /\ cli'.force = cli.force /\ cli'.entries = cli.entries
    BY <1>1, <2>1 DEF ImportInv, Cli
  <2>3. FilesOK'
    BY <1>1, <2>1 DEF Say, ImportInv, FilesOK
  <2>4. UpdateOK'
    BY <1>1, <2>2 DEF UpdateOK
  <2> QED
    BY <1>1, <2>1, <2>2, <2>3, <2>4, UpdateGoesOn
<1>4. CASE ~(Risky # {} /\ ~yes)
  <2>1. /\ folder' = [folder EXCEPT ![cli.at] = Missing] /\ Agree
        /\ cli' = [cli EXCEPT !.pc = "write"] /\ UNCHANGED verdict
    BY <1>4 DEF UpdateGate
  <2>2. /\ cli' \in Cli /\ cli'.pc = "write" /\ cli'.cmd = "update" /\ cli'.todo = cli.todo
        /\ cli'.plan = cli.plan /\ cli'.at = cli.at
        /\ cli'.force = cli.force /\ cli'.entries = cli.entries
    BY <1>1, <2>1 DEF ImportInv, Cli
  <2>3. FilesOK'
    BY <1>1, <2>1 DEF ImportInv, FilesOK
  <2>4. RiskAgreed'
    BY <2>1, <2>2 DEF Agree, Risky, RiskAgreed
  <2>5. UpdateOK'
    BY <1>1, <2>2, <2>4 DEF UpdateOK
  <2>6. RecordsOK'
    BY <1>1, <2>1, <2>2 DEF ImportInv, FilesOK, RecordsOK, Recorded
  <2>7. EditsSurvive'
    BY <1>1, <2>1, <2>2 DEF ImportInv, FilesOK, EditsSurvive, UpdateOK
  <2>8. CommandsWereAgreed'
    BY <1>1, <1>2, <2>1 DEF ImportInv, FilesOK, CommandsWereAgreed, Present, Agree
  <2> QED
    BY <1>1, <2>2, <2>3, <2>5, <2>6, <2>7, <2>8 DEF ImportInv
<1> QED
  BY <1>3, <1>4

LEMMA OverwriteStep ==
  ASSUME ImportInv, OverwriteFolder
  PROVE  ImportInv'
<1> DEFINE d == cli.at
           piece == cli.entries[d].piece
           written == Written(piece, Target)
           entry == [piece |-> piece, content |-> Target.version, local |-> written]
<1>1. /\ cli.pc = "write" /\ cli.cmd = "update" /\ UpdateOK
      /\ UNCHANGED <<upstream, releases, lock, losses, kept, edited, agreed>>
  BY DEF OverwriteFolder, ImportInv
<1>2. /\ d \in DirName /\ d \notin cli.todo /\ cli.entries[d] \in PinnedEntry
      /\ DOMAIN cli.plan = {piece} /\ RiskAgreed /\ (~cli.force => d \notin edited)
  BY <1>1 DEF UpdateOK, Present, Lockfile
<1>3. piece \in Piece /\ Target = cli.plan[piece] /\ Target \in Published
  BY <1>2, PlanTypes DEF Target
<1>4. /\ written \in Folder /\ written.editions = 0 /\ written.piece = piece
      /\ written.version = Target.version /\ written.commands = Target.commands
  BY <1>3, WrittenIsFolder
<1>5. entry \in PinnedEntry /\ entry.piece = piece /\ entry.content = Target.version
  <2>1. Target.version \in 1..(MaxReleases + 1)
    BY <1>3 DEF Published
  <2> HIDE DEF written
  <2> QED
    BY <1>3, <1>4, <2>1 DEF PinnedEntry, Entry
<1>6. written # Missing /\ entry # Missing
  BY <1>4, <1>5, ContentIsThere DEF PinnedEntry
<1>7. CASE Target.name # d
  <2>1. cli' = [cli EXCEPT !.pc = "next"] /\ Say(d, "failed") /\ UNCHANGED folder
    BY <1>7 DEF OverwriteFolder
  <2>2. /\ cli' \in Cli /\ cli'.pc = "next" /\ cli'.cmd = "update" /\ cli'.todo = cli.todo
        /\ cli'.force = cli.force /\ cli'.entries = cli.entries
    BY <1>1, <2>1 DEF ImportInv, Cli
  <2>3. FilesOK'
    BY <1>1, <2>1 DEF Say, ImportInv, FilesOK
  <2>4. UpdateOK'
    BY <1>1, <2>2 DEF UpdateOK
  <2> QED
    BY <1>1, <2>1, <2>2, <2>3, <2>4, UpdateGoesOn
<1>8. CASE Target.name = d
  <2>1. /\ folder' = [folder EXCEPT ![d] = written]
        /\ cli' = [cli EXCEPT !.pc = "next", !.entries[d] = entry] /\ Say(d, "updated")
    BY <1>8 DEF OverwriteFolder
  <2> HIDE DEF written, entry
  <2>2. cli.entries \in Lockfile /\ cli \in Cli
    BY <1>1 DEF UpdateOK, ImportInv
  <2> DEFINE entries == [cli.entries EXCEPT ![d] = entry]
  <2>3. entries \in Lockfile /\ entries[d] = entry
        /\ \A e \in DirName : e # d => entries[e] = cli.entries[e]
    BY <1>2, <1>5, <2>2 DEF Lockfile
  <2>4. cli' = [cli EXCEPT !.pc = "next", !.entries = entries]
    BY <2>1, <2>2 DEF Cli
  <2> HIDE DEF entries
  <2>5. /\ cli' \in Cli /\ cli'.pc = "next" /\ cli'.cmd = "update" /\ cli'.todo = cli.todo
        /\ cli'.force = cli.force /\ cli'.entries = entries
    BY <1>1, <2>2, <2>3, <2>4 DEF Cli
  <2>6. FilesOK'
    BY <1>1, <1>4, <2>1 DEF Say, ImportInv, FilesOK
  <2>7. UpdateOK'
    <3>1. \A e \in cli.todo : e \in DirName /\ entries[e] = cli.entries[e]
      BY <1>1, <1>2, <2>3 DEF UpdateOK, Present, Lockfile
    <3>2. cli.todo \subseteq Present(entries)
      BY <1>1, <2>3, <3>1 DEF UpdateOK, Present, Lockfile
    <3> QED
      BY <1>1, <2>3, <2>5, <3>1, <3>2 DEF UpdateOK
  <2>8. RecordsOK'
    <3> SUFFICES ASSUME losses = 0, NEW e \in DirName PROVE Recorded(e, cli.entries)'
      BY <1>1, <2>5 DEF RecordsOK, Recorded
    <3>1. CASE e = d
      <4>1. folder'[e] = written /\ entries[e] = entry
        BY <1>2, <2>1, <2>3, <3>1 DEF ImportInv, FilesOK
      <4> QED
        BY <1>4, <1>5, <1>6, <2>5, <4>1 DEF Recorded
    <3>2. CASE e # d
      <4>1. folder'[e] = folder[e] /\ entries[e] = cli.entries[e]
        BY <2>1, <2>3, <3>2 DEF ImportInv, FilesOK
      <4>2. Recorded(e, cli.entries)
        BY <1>1 DEF ImportInv, RecordsOK
      <4> QED
        BY <2>5, <4>1, <4>2 DEF Recorded
    <3> QED
      BY <3>1, <3>2
  <2>9. EditsSurvive'
    BY <1>1, <1>2, <2>1, <2>5 DEF ImportInv, FilesOK, EditsSurvive
  <2>10. CommandsWereAgreed'
    BY <1>1, <1>2, <1>3, <1>4, <2>1 DEF ImportInv, FilesOK, CommandsWereAgreed, Present, RiskAgreed
  <2> QED
    BY <1>1, <2>5, <2>6, <2>7, <2>8, <2>9, <2>10 DEF ImportInv
<1> QED
  BY <1>7, <1>8

LEMMA EndUpdateStep ==
  ASSUME ImportInv, NEW saved \in BOOLEAN, EndUpdate(saved)
  PROVE  ImportInv'
<1>1. cli.pc = "next" /\ End /\ UNCHANGED <<upstream, releases, folder, agreed>>
  BY DEF EndUpdate
<1>2. cli.cmd = "update" /\ UpdateOK
  BY <1>1 DEF ImportInv, AddOK, Cli
<1>3. CASE saved
  <2>1. lock' = cli.entries /\ UNCHANGED losses
    BY <1>3 DEF EndUpdate
  <2>2. FilesOK'
    BY <1>1, <2>1 DEF End, ImportInv, FilesOK
  <2> QED
    BY <1>1, <1>2, <2>1, <2>2, EndKeeps DEF ImportInv, UpdateOK, RecordsOK
<1>4. CASE ~saved
  <2>1. losses' = losses + 1 /\ losses < MaxLosses /\ UNCHANGED lock
    BY <1>4 DEF EndUpdate, Fault
  <2>2. FilesOK' /\ losses' # 0
    BY <1>1, <2>1, ImportAssumption DEF End, ImportInv, FilesOK
  <2> QED
    BY <1>1, <2>1, <2>2, EndKeeps DEF ImportInv
<1> QED
  BY <1>3, <1>4

LEMMA ImportStep ==
  ASSUME ImportInv, [ImportNext]_importVars
  PROVE  ImportInv'
<1>1. CASE UNCHANGED importVars
  BY <1>1, CommandStays DEF importVars, ImportInv, FilesOK
<1>2. CASE UserStep
  BY <1>2, SourceSteps, FolderSteps, StartSteps DEF UserStep
<1>3. CASE CommandStep
  BY <1>3, AddGateStep, CheckStep, WriteStep, RecordStep, LossStep, CheckImportStep,
     FetchFailsStep, UpdateGateStep, OverwriteStep, EndUpdateStep DEF CommandStep
<1> QED
  BY <1>1, <1>2, <1>3 DEF ImportNext

LEMMA ImportStart ==
  ASSUME ImportInit PROVE ImportInv
<1>1. cli = Resting /\ cli \in Cli /\ cli.pc = "idle" /\ cli.cmd = "none"
  BY RestingIsCli DEF ImportInit
<1>2. FilesOK
  BY ImportAssumption DEF ImportInit, FilesOK, PublishedBy
<1>3. lock \in Lockfile /\ RecordsOK /\ EditsSurvive /\ CommandsWereAgreed
  BY <1>1 DEF ImportInit, Lockfile, RecordsOK, Recorded, EditsSurvive, CommandsWereAgreed, Present
<1> QED
  BY <1>1, <1>2, <1>3 DEF ImportInv

\* No command without --force discards an edit, and nothing that runs commands is in
\* a directory unless the user agreed to that very version, whatever upstream
\* publishes and the user edits meanwhile, and wherever commands fail or are killed
\* (cmd/add.go, cmd/update.go, importer.Apply and Overwrite).
THEOREM ImportSafety == ImportSpec => []ImportsAreSafe
<1>1. ImportInit => ImportInv
  BY ImportStart
<1>2. ImportInv /\ [ImportNext]_importVars => ImportInv'
  BY ImportStep
<1>3. ImportInv => ImportsAreSafe
  BY ImportInvImplies
<1> QED
  BY <1>1, <1>2, <1>3, PTL DEF ImportSpec

\* While add writes without --force no directory changes that was there before, and
\* what update calls up to date has the version that upstream has.
LEMMA ImportExact ==
  ASSUME ImportInv, [ImportNext]_importVars
  PROVE  KeepsOthers /\ SaysUpToDate
<1>1. KeepsOthers
  <2> SUFFICES ASSUME cli.cmd = "add", cli.pc = "write", ~cli.force, NEW d \in kept,
                      folder' # folder
               PROVE  folder'[d] = folder[d]
    BY DEF KeepsOthers
  <2>1. PICK p \in Piece : WriteArtifact(p)
    BY DEF ImportNext, importVars, UserStep, CommandStep, Publish, Withdraw, EditFolder, RemoveFolder,
           StartAdd, StartUpdate, Begin, AddGate, UpdateGate, CheckCollisions, WriteFails,
           RecordImports, EndUpdate, CheckImport, FetchFails, OverwriteFolder, KillCommand
  <2>2. folder' = [folder EXCEPT ![Destination(p)] = Written(p, cli.plan[p])] /\ p \in DOMAIN cli.plan
    BY <2>1 DEF WriteArtifact, ImportInv, AddOK
  <2>3. Destination(p) # d
    BY <2>2 DEF ImportInv, AddOK
  <2> QED
    BY <2>2, <2>3 DEF ImportInv, FilesOK
<1>2. SaysUpToDate
  <2> SUFFICES ASSUME NEW d \in DirName, verdict[d] # "up-to-date", verdict'[d] = "up-to-date",
                      losses = 0, folder[d] # Missing
               PROVE  folder[d].piece = lock[d].piece
                      /\ folder[d].version = upstream[folder[d].piece].version
    BY DEF SaysUpToDate
  <2>1. verdict' # verdict /\ \A e \in DirName : verdict'[e] \in {"none", "failed"} => e # d
    OBVIOUS
  <2>2. PICK e \in DirName : CheckImport(e)
    <3>1. ~UNCHANGED importVars
      BY DEF importVars
    <3>2. ~End
      BY DEF End
    <3>3. ASSUME NEW e \in DirName, NEW what \in {"failed", "updated"}, Say(e, what) PROVE FALSE
      BY <3>3 DEF Say, ImportInv, FilesOK
    <3>4. ~UserStep
      BY DEF UserStep, Publish, Withdraw, EditFolder, RemoveFolder, StartAdd, StartUpdate
    <3>5. cli.pc \in {"gate", "write"} /\ cli.cmd = "update" => cli.at \in DirName
      BY DEF ImportInv, UpdateOK, Present, Lockfile
    <3>6. ~OverwriteFolder /\ \A yes \in BOOLEAN : ~UpdateGate(yes)
      BY <3>3, <3>5 DEF OverwriteFolder, UpdateGate
    <3>7. \A e \in DirName : ~FetchFails(e)
      BY <3>3 DEF FetchFails
    <3>8. \A yes \in BOOLEAN : ~AddGate(yes) /\ ~RecordImports(yes) /\ ~EndUpdate(yes)
      BY <3>2 DEF AddGate, RecordImports, EndUpdate
    <3>9. ~CheckCollisions /\ ~WriteFails /\ ~KillCommand /\ \A p \in Piece : ~WriteArtifact(p)
      BY <3>2 DEF CheckCollisions, WriteFails, KillCommand, WriteArtifact
    <3> QED
      BY <3>1, <3>4, <3>6, <3>7, <3>8, <3>9 DEF ImportNext, CommandStep
  <2> DEFINE entry == cli.entries[e]
  <2>3. /\ cli.pc = "next" /\ e \in cli.todo
        /\ verdict' = verdict \/ \E what \in {"failed", "changed"} : Say(e, what)
             \/ (Say(e, "up-to-date") /\ upstream[entry.piece].version = entry.content)
    BY <2>2 DEF CheckImport
  <2>4. d = e /\ upstream[entry.piece].version = entry.content
    BY <2>3 DEF Say, ImportInv, FilesOK
  <2>5. cli.cmd = "update" /\ UpdateOK /\ Recorded(d, cli.entries)
    BY <2>3 DEF ImportInv, AddOK, Cli, RecordsOK
  <2> QED
    BY <2>3, <2>4, <2>5 DEF UpdateOK, Recorded
<1> QED
  BY <1>1, <1>2

\* The same for every step of add and update (checkCollisions, checkImport).
THEOREM ImportExactness == ImportSpec => ImportsAreExact
<1>1. ImportInit => ImportInv
  BY ImportStart
<1>2. ImportInv /\ [ImportNext]_importVars => ImportInv'
  BY ImportStep
<1>3. ImportInv /\ [ImportNext]_importVars => [KeepsOthers /\ SaysUpToDate]_importVars
  BY ImportExact
<1> QED
  BY <1>1, <1>2, <1>3, PTL DEF ImportSpec, ImportsAreExact

-----------------------------------------------------------------------------
(* Team plans: types *)

Frame == [at: Agent, todo: SUBSET Agent]
Resolve ==
  [cmd: {"none", "plan", "run", "export", "pack"},
   pc: {"idle", "load", "graph", "walk", "hash", "parts", "render", "closure", "done", "refused"},
   agents: [Agent -> {NoPart} \cup AgentFile], colour: [Agent -> {0, 1, 2}], stack: Seq(Frame),
   plan: [Name -> {NoPart} \cup AgentPlan \cup PartPlan], left: SUBSET Name,
   files: [Name -> {NoPart} \cup Packed],
   why: {"none", "team", "agent", "delegate", "cycle", "component", "file"}]

\* Only what is there is waited for: members to be read, agents to be hashed, components.
TeamTypes ==
  /\ defs \in Project /\ edits \subseteq Name
  /\ resolve \in Resolve
  /\ resolve.pc = "load" => resolve.left # {} /\ resolve.left \subseteq Agent
  /\ resolve.pc = "hash" => resolve.left \subseteq Members
  /\ resolve.pc = "parts" => resolve.left \subseteq Component

\* A set of places of a sequence has a first one.
LEMMA FirstPlace ==
  ASSUME NEW n \in Nat, NEW S \in SUBSET (1..n), S # {}
  PROVE  \E i \in S : \A j \in S : i <= j
<1>1. S \in SUBSET Nat
  OBVIOUS
<1>2. PICK i \in S : \A j \in S : <<j, i>> \notin OpToRel(<, Nat)
  <2>1. IsWellFoundedOn(OpToRel(<, Nat), Nat)
    BY NatLessThanWellFounded
  <2> QED
    BY <1>1, <2>1, WFMin
<1>3. \A j \in S : ~ (j < i)
  BY <1>1, <1>2 DEF OpToRel
<1> QED
  BY <1>1, <1>3

\* A variant that is selected is the first that may be used.
LEMMA VariantIsFirst ==
  ASSUME defs \in Project, NEW t \in TeamTool, NEW cmd, SelectVariant(defs, t, cmd) # NoPart
  PROVE  \E i \in 1..Len(defs.variants[t]) :
           /\ SelectVariant(defs, t, cmd) = defs.variants[t][i]
           /\ defs.variants[t][i] \in defs.allowed
           /\ cmd = "run" => VariantReady(defs, defs.variants[t][i])
           /\ \A j \in 1..(i - 1) :
                \/ defs.variants[t][j] \notin defs.allowed
                \/ cmd = "run" /\ ~VariantReady(defs, defs.variants[t][j])
<1> DEFINE vs == defs.variants[t]
           usable == {i \in 1..Len(vs) : /\ vs[i] \in defs.allowed
                                         /\ cmd = "run" => VariantReady(defs, vs[i])}
           first == CHOOSE i \in usable : \A j \in usable : i <= j
<1>1. vs \in Seq(Provider) /\ Len(vs) \in Nat
  BY DEF Project
<1>2. usable # {} /\ SelectVariant(defs, t, cmd) = vs[first]
  BY DEF SelectVariant
<1>3. first \in usable /\ \A j \in usable : first <= j
  <2>1. usable \in SUBSET (1..Len(vs))
    OBVIOUS
  <2> HIDE DEF usable, vs
  <2>2. \E i \in usable : \A j \in usable : i <= j
    BY <1>1, <1>2, <2>1, FirstPlace
  <2> QED
    BY <2>2
<1>4. \A j \in 1..(first - 1) : j \in 1..Len(vs) /\ ~ (first <= j)
  <2>1. first \in 1..Len(vs)
    BY <1>3
  <2> HIDE DEF first, vs, usable
  <2> QED
    BY <1>1, <2>1
<1> HIDE DEF first
<1> QED
  BY <1>2, <1>3, <1>4

LEMMA VariantTyped ==
  ASSUME defs \in Project, NEW t \in TeamTool, NEW cmd, SelectVariant(defs, t, cmd) # NoPart
  PROVE  SelectVariant(defs, t, cmd) \in Provider
<1>1. PICK i \in 1..Len(defs.variants[t]) : SelectVariant(defs, t, cmd) = defs.variants[t][i]
  BY VariantIsFirst
<1>2. defs.variants[t] \in Seq(Provider)
  BY DEF Project
<1> QED
  BY <1>1, <1>2

LEMMA TeamTypesInit ==
  TeamInit => TeamTypes
<1> SUFFICES ASSUME TeamInit PROVE TeamTypes
  OBVIOUS
<1>1. <<>> \in Seq(Frame)
  OBVIOUS
<1>2. resolve \in Resolve
  BY <1>1 DEF TeamInit, NoResolve, Resolve, Nothing
<1>3. defs \in Project
  BY TeamAssumption DEF TeamInit
<1> QED
  BY <1>2, <1>3 DEF TeamInit, NoResolve, TeamTypes

\* The definitions stay definitions when they are edited.
LEMMA TouchTypes ==
  ASSUME TeamTypes, NEW n \in Name, NEW d \in Project, Touch(n, d)
  PROVE  TeamTypes'
<1>1. defs' \in Project
  <2> DEFINE versions == [d.version EXCEPT ![n] = @ + 1]
  <2>1. versions \in [Name -> Nat] /\ defs' = [d EXCEPT !.version = versions]
    BY DEF Touch, Project
  <2> HIDE DEF versions
  <2> QED
    BY <2>1 DEF Project
<1>2. edits' \subseteq Name /\ resolve' = resolve
  BY DEF Touch, TeamTypes
<1> QED
  BY <1>1, <1>2 DEF TeamTypes, Members

LEMMA EditTypes ==
  ASSUME TeamTypes,
         \/ \E a \in Agent : EditAgent(a) \/ BreakAgent(a)
         \/ \E c \in Component : EditComponent(c) \/ RemoveComponent(c)
  PROVE  TeamTypes'
<1> USE DEF Name
<1>1. CASE \E a \in Agent : EditAgent(a)
  <2>1. PICK a \in Agent, u \in SUBSET Component : Touch(a, [defs EXCEPT !.agents[a].uses = u])
    BY <1>1 DEF EditAgent
  <2>2. [defs EXCEPT !.agents[a].uses = u] \in Project
    <3> DEFINE agents == [defs.agents EXCEPT ![a].uses = u]
    <3>1. defs.agents \in [Agent -> AgentFile]
      BY DEF TeamTypes, Project
    <3>2. agents \in [Agent -> AgentFile]
      BY <3>1 DEF AgentFile
    <3>3. [defs EXCEPT !.agents[a].uses = u] = [defs EXCEPT !.agents = agents]
      OBVIOUS
    <3> HIDE DEF agents
    <3> QED
      BY <3>2, <3>3 DEF TeamTypes, Project
  <2> QED
    BY <2>1, <2>2, TouchTypes
<1>2. CASE \E a \in Agent : BreakAgent(a)
  <2>1. PICK a \in Agent : Touch(a, [defs EXCEPT !.agents[a].valid = FALSE])
    BY <1>2 DEF BreakAgent
  <2>2. [defs EXCEPT !.agents[a].valid = FALSE] \in Project
    <3> DEFINE agents == [defs.agents EXCEPT ![a].valid = FALSE]
    <3>1. defs.agents \in [Agent -> AgentFile]
      BY DEF TeamTypes, Project
    <3>4. [defs.agents[a] EXCEPT !.valid = FALSE] \in AgentFile
      <4>1. \A v \in BOOLEAN : [defs.agents[a] EXCEPT !.valid = v] \in AgentFile
        BY <3>1 DEF AgentFile
      <4> QED
        BY <4>1
    <3>2. agents \in [Agent -> AgentFile]
      BY <3>1, <3>4
    <3>3. [defs EXCEPT !.agents[a].valid = FALSE] = [defs EXCEPT !.agents = agents]
      OBVIOUS
    <3> HIDE DEF agents
    <3> QED
      BY <3>2, <3>3 DEF TeamTypes, Project
  <2> QED
    BY <2>1, <2>2, TouchTypes
<1>3. CASE \E c \in Component : EditComponent(c)
  BY <1>3, TouchTypes DEF EditComponent, TeamTypes
<1>4. CASE \E c \in Component : RemoveComponent(c)
  <2>1. PICK c \in Component : Touch(c, [defs EXCEPT !.place[c] = {}])
    BY <1>4 DEF RemoveComponent
  <2>2. [defs EXCEPT !.place[c] = {}] \in Project
    BY DEF TeamTypes, Project
  <2> QED
    BY <2>1, <2>2, TouchTypes
<1> QED
  BY <1>1, <1>2, <1>3, <1>4

\* What the resolver does to the definitions: nothing.
LEMMA ResolveTypes ==
  ASSUME TeamTypes,
         \/ \E cmd \in {"plan", "run", "export", "pack"} : StartResolve(cmd)
         \/ \E a \in Agent : HashAgent(a)
         \/ LoadAgent \/ CheckDelegates
         \/ \E c \in Component : ResolveComponent(c)
         \/ FinishPlan \/ WriteArchive
         \/ \E n \in Name : Render(n) \/ AddDir(n)
  PROVE  TeamTypes'
<1> USE DEF Name
<1>1. CASE \E cmd \in {"plan", "run", "export", "pack"} : StartResolve(cmd)
  <2>1. PICK cmd \in {"plan", "run", "export", "pack"} : StartResolve(cmd)
    BY <1>1
  <2>2. CASE ~TeamLoads(defs)
    BY <2>1, <2>2 DEF StartResolve, TeamTypes, Resolve, Refused
  <2>3. CASE TeamLoads(defs)
    <3>1. defs.members # {} /\ defs.members \subseteq Agent
      BY <2>3 DEF TeamTypes, TeamLoads, TeamValid, Project
    <3> QED
      BY <2>1, <2>3, <3>1 DEF StartResolve, TeamTypes, Resolve
  <2> QED
    BY <2>2, <2>3
<1>2. CASE \E a \in Agent : HashAgent(a)
  <2>1. PICK a \in Agent : HashAgent(a)
    BY <1>2
  <2>2. a \in Members /\ resolve.agents[a] \in AgentFile
    BY <2>1 DEF HashAgent, TeamTypes, Members, Resolve
  <2>3. [uses |-> resolve.agents[a].uses, digest |-> defs.version[a]] \in AgentPlan
    BY <2>2 DEF TeamTypes, Project, AgentFile, AgentPlan
  <2>4. Referenced(resolve.agents) \subseteq Component
    BY DEF TeamTypes, Resolve, Referenced, AgentFile
  <2>5. resolve' \in Resolve
    BY <2>1, <2>3, <2>4 DEF HashAgent, TeamTypes, Resolve
  <2>6. UNCHANGED <<defs, edits>> /\ Members' = Members
    BY <2>1 DEF HashAgent, Members, TeamTypes, Resolve
  <2>7. CASE resolve.left \ {a} = {}
    <3>1. resolve'.pc = "parts" /\ resolve'.left = Referenced(resolve.agents)
      BY <2>1, <2>7 DEF HashAgent, TeamTypes, Resolve
    <3> QED
      BY <2>4, <2>5, <2>6, <3>1 DEF TeamTypes
  <2>8. CASE resolve.left \ {a} # {}
    <3>1. resolve'.pc = "hash" /\ resolve'.left = resolve.left \ {a} /\ resolve.left \subseteq Members
      BY <2>1, <2>8 DEF HashAgent, TeamTypes, Resolve
    <3>2. resolve'.left \subseteq Members'
      BY <2>6, <3>1
    <3> QED
      BY <2>5, <2>6, <3>1, <3>2 DEF TeamTypes
  <2> QED
    BY <2>7, <2>8
<1>3. CASE LoadAgent
  <2> DEFINE a == CHOOSE b \in resolve.left : TRUE
  <2>1. a \in Agent /\ defs.agents[a] \in AgentFile
    BY <1>3 DEF LoadAgent, TeamTypes, Project
  <2>2. UNCHANGED <<defs, edits>>
    BY <1>3 DEF LoadAgent
  <2>3. CASE ~AgentLoads(defs, a)
    BY <1>3, <2>2, <2>3 DEF LoadAgent, TeamTypes, Resolve, Refused
  <2>4. CASE AgentLoads(defs, a)
    <3>1. resolve' = [resolve EXCEPT !.agents[a] = defs.agents[a], !.left = resolve.left \ {a},
                               !.pc = IF resolve.left \ {a} = {} THEN "graph" ELSE "load"]
      BY <1>3, <2>4 DEF LoadAgent
    <3> HIDE DEF a
    <3>2. resolve' \in Resolve
      BY <2>1, <3>1 DEF TeamTypes, Resolve
    <3>3. resolve'.pc = (IF resolve.left \ {a} = {} THEN "graph" ELSE "load")
          /\ resolve'.left = resolve.left \ {a}
      BY <3>1 DEF TeamTypes, Resolve
    <3>4. resolve.left \subseteq Agent
      BY <1>3 DEF LoadAgent, TeamTypes
    <3> QED
      BY <2>2, <3>2, <3>3, <3>4 DEF TeamTypes
  <2> QED
    BY <2>3, <2>4
<1>4. CASE CheckDelegates
  BY <1>4 DEF CheckDelegates, TeamTypes, Resolve, Refused
<1>5. CASE \E c \in Component : ResolveComponent(c)
  <2>1. PICK c \in Component : ResolveComponent(c)
    BY <1>5
  <2>4. resolve.pc = "parts" /\ resolve.left \subseteq Component /\ UNCHANGED <<defs, edits>>
    BY <2>1 DEF ResolveComponent, TeamTypes
  <2> DEFINE origin == ChooseComponent(defs, c)
             provider == IF c \in TeamTool THEN SelectVariant(defs, c, resolve.cmd) ELSE "none"
  <2>2. CASE origin = NoPart \/ ~ComponentLoads(defs, c) \/ provider = NoPart
    BY <2>1, <2>2 DEF ResolveComponent, TeamTypes, Resolve, Refused
  <2>3. CASE ~ (origin = NoPart \/ ~ComponentLoads(defs, c) \/ provider = NoPart)
    <3>1. origin \in {"local", "installed"}
      BY <2>3 DEF ChooseComponent
    <3>2. provider \in Provider \cup {"none"}
      BY <2>3, VariantTyped DEF TeamTypes
    <3>3. resolve' = [resolve EXCEPT !.left = @ \ {c},
                        !.plan[c] = [origin |-> origin, provider |-> provider,
                                     digest |-> defs.version[c]]]
      BY <2>1, <2>3 DEF ResolveComponent
    <3> HIDE DEF origin, provider
    <3>4. [origin |-> origin, provider |-> provider, digest |-> defs.version[c]] \in PartPlan
      BY <3>1, <3>2 DEF TeamTypes, Project, PartPlan
    <3>5. resolve' \in Resolve
      BY <3>3, <3>4 DEF TeamTypes, Resolve
    <3>6. resolve'.pc = "parts" /\ resolve'.left \subseteq Component
      BY <2>4, <3>3 DEF TeamTypes, Resolve
    <3> QED
      BY <2>4, <3>5, <3>6 DEF TeamTypes
  <2> QED
    BY <2>2, <2>3
<1>6. CASE FinishPlan
  <2>1. Planned(resolve) \subseteq Name
    BY DEF Planned
  <2> QED
    BY <1>6, <2>1 DEF FinishPlan, TeamTypes, Resolve
<1>7. CASE WriteArchive
  BY <1>7 DEF WriteArchive, TeamTypes, Resolve
<1>8. CASE \E n \in Name : Render(n)
  <2>1. PICK n \in Name : Render(n)
    BY <1>8
  <2>2. UNCHANGED <<defs, edits>> /\ resolve.pc = "render"
    BY <2>1 DEF Render
  <2>3. CASE resolve' = Refused("file")
    BY <2>2, <2>3 DEF TeamTypes, Resolve, Refused
  <2>4. CASE resolve' = [resolve EXCEPT !.left = resolve.left \ {n},
                           !.pc = IF resolve.left \ {n} = {} THEN "done" ELSE @]
    BY <2>2, <2>4 DEF TeamTypes, Resolve
  <2> QED
    BY <2>1, <2>3, <2>4 DEF Render
<1>9. CASE \E n \in Name : AddDir(n)
  <2>1. PICK n \in Name : AddDir(n)
    BY <1>9
  <2>2. UNCHANGED <<defs, edits>> /\ resolve.pc = "closure"
    BY <2>1 DEF AddDir
  <2>3. CASE n \in Component /\ resolve.plan[n].origin \notin defs.place[n]
    BY <2>1, <2>2, <2>3 DEF AddDir, TeamTypes, Resolve, Refused
  <2>4. CASE ~ (n \in Component /\ resolve.plan[n].origin \notin defs.place[n])
    <3> DEFINE file == [version |-> defs.version[n],
                        uses |-> IF n \in Agent THEN defs.agents[n].uses ELSE {}]
    <3>1. file \in Packed
      BY DEF TeamTypes, Project, AgentFile, Packed
    <3>2. resolve' = [resolve EXCEPT !.left = @ \ {n}, !.files[n] = file]
      BY <2>1, <2>4 DEF AddDir
    <3> HIDE DEF file
    <3> QED
      BY <2>2, <3>1, <3>2 DEF TeamTypes, Resolve
  <2> QED
    BY <2>3, <2>4
<1> QED
  BY <1>1, <1>2, <1>3, <1>4, <1>5, <1>6, <1>7, <1>8, <1>9
-----------------------------------------------------------------------------
(* Team plans: the walk that looks for cycles *)

Walked == {"hash", "parts", "render", "closure", "done"}
DelegatesIn(r, a) == r.agents[a].delegates

\* The stack is a path of delegations without repetition: it has the agents that are
\* grey, and of each of them the delegates that were passed are finished, but for the
\* one that is being visited or, at the top, is about to be.
PathOK(r, next) ==
  /\ \A i \in 1..Len(r.stack) : /\ r.colour[r.stack[i].at] = 1
                                /\ r.stack[i].todo \subseteq DelegatesIn(r, r.stack[i].at)
  /\ \A a \in Agent : r.colour[a] = 1 => \E i \in 1..Len(r.stack) : r.stack[i].at = a
  /\ \A i, j \in 1..Len(r.stack) : r.stack[i].at = r.stack[j].at => i = j
  /\ \A i \in 1..Len(r.stack) :
       i > 1 => r.stack[i - 1].at \in DelegatesIn(r, r.stack[i].at)
  /\ \A i \in 1..Len(r.stack) : \A b \in DelegatesIn(r, r.stack[i].at) \ r.stack[i].todo :
       \/ r.colour[b] = 2
       \/ i > 1 /\ b = r.stack[i - 1].at
       \/ i = 1 /\ b \in next

\* Every delegate of a finished agent is finished, and no finished agents delegate
\* round and round.
Black == {a \in Agent : resolve.colour[a] = 2}
BlackOK ==
  /\ \A a \in Black : Delegates(a) \subseteq Black
  /\ \A S \in SUBSET Black : S # {} => \E a \in S : Delegates(a) \cap S = {}

WalkOK ==
  /\ \A a \in Agent : resolve.colour[a] # 0 => a \in Members
  /\ resolve.pc \in {"idle", "load", "graph"} =>
       resolve.stack = <<>> /\ \A a \in Agent : resolve.colour[a] = 0
  /\ resolve.pc \in {"walk"} \cup Walked => \A a \in Members : Delegates(a) \subseteq Members
  /\ resolve.pc \in Walked => resolve.stack = <<>> /\ Members \subseteq Black
  /\ PathOK(resolve, {})
  /\ BlackOK
  /\ resolve.why = "cycle" => resolve.pc = "refused" /\ Cyclic

\* Agents that reach each other in a round cannot all be finished.
LEMMA WalkImplies ==
  ASSUME TeamTypes, WalkOK PROVE CyclesAreRefused
<1>1. ASSUME resolve.pc \in Walked, Cyclic PROVE FALSE
  <2>1. PICK S \in SUBSET Members : S # {} /\ \A a \in S : Delegates(a) \cap S # {}
    BY <1>1 DEF Cyclic
  <2>2. S \in SUBSET Black
    BY <1>1 DEF WalkOK
  <2> QED
    BY <2>1, <2>2 DEF WalkOK, BlackOK
<1> QED
  BY <1>1 DEF WalkOK, CyclesAreRefused, Walked

\* What is at the top of the stack.
LEMMA TopOfStack ==
  ASSUME NEW r \in Resolve, r.stack # <<>>
  PROVE  /\ r.stack \in Seq(Frame) /\ Len(r.stack) \in Nat /\ 1 \in 1..Len(r.stack)
         /\ Head(r.stack) = r.stack[1] /\ r.stack[1] \in Frame
<1>1. r.stack \in Seq(Frame)
  BY DEF Resolve
<1> QED
  BY <1>1

\* Delegating back to an agent that is being visited closes a round.
LEMMA GreyClosesRound ==
  ASSUME TeamTypes, WalkOK, resolve.stack # <<>>,
         NEW a \in Head(resolve.stack).todo, resolve.colour[a] = 1
  PROVE  Cyclic
<1> DEFINE stack == resolve.stack
<1>1. stack \in Seq(Frame) /\ Len(stack) \in Nat /\ 1 \in 1..Len(stack) /\ Head(stack) = stack[1]
  BY TopOfStack DEF TeamTypes
<1>2. a \in Agent /\ a \in Delegates(stack[1].at)
  <2>1. stack[1] \in Frame
    BY <1>1
  <2> QED
    BY <1>1, <2>1 DEF WalkOK, PathOK, DelegatesIn, Delegates, Frame
<1>3. PICK n \in 1..Len(stack) : stack[n].at = a
  BY <1>2 DEF WalkOK, PathOK
<1> DEFINE S == {stack[k].at : k \in 1..n}
<1>4. \A k \in 1..n : k \in 1..Len(stack) /\ stack[k] \in Frame
  BY <1>1, <1>3
<1>5. S \in SUBSET Members
  BY <1>4 DEF WalkOK, PathOK, Frame
<1>6. ASSUME NEW k \in 1..n PROVE Delegates(stack[k].at) \cap S # {}
  <2>1. CASE k = 1
    <3>1. a \in S
      BY <1>1, <1>3
    <3> HIDE DEF S
    <3> QED
      BY <1>2, <2>1, <3>1
  <2>2. CASE k > 1
    <3>1. k - 1 \in 1..n /\ k \in 1..Len(stack)
      BY <1>4, <2>2
    <3>2. stack[k - 1].at \in S
      BY <3>1
    <3>3. stack[k - 1].at \in Delegates(stack[k].at)
      BY <2>2, <3>1 DEF WalkOK, PathOK, DelegatesIn, Delegates
    <3> HIDE DEF S
    <3> QED
      BY <3>2, <3>3
  <2> QED
    BY <2>1, <2>2
<1>7. S # {}
  <2>1. stack[1].at \in S
    BY <1>1, <1>3
  <2> QED
    BY <2>1
<1>8. ASSUME NEW b \in S PROVE Delegates(b) \cap S # {}
  <2>1. PICK k \in 1..n : b = stack[k].at
    OBVIOUS
  <2> HIDE DEF S
  <2> QED
    BY <1>6, <2>1
<1> HIDE DEF S
<1> QED
  BY <1>5, <1>7, <1>8 DEF Cyclic

\* An agent whose delegates are all finished may be finished too.
LEMMA BlackGrows ==
  ASSUME BlackOK, NEW a \in Agent, a \notin Black, Delegates(a) \subseteq Black,
         resolve'.agents = resolve.agents, Black' = Black \cup {a}
  PROVE  BlackOK'
<1>1. \A b \in Agent : Delegates(b)' = Delegates(b)
  BY DEF Delegates
<1>2. \A b \in Black' : Delegates(b) \subseteq Black'
  BY DEF BlackOK
<1>3. ASSUME NEW S \in SUBSET (Black \cup {a}), S # {} PROVE \E b \in S : Delegates(b) \cap S = {}
  <2> DEFINE T == S \ {a}
  <2>1. CASE T = {}
    <3>1. S = {a}
      BY <1>3, <2>1
    <3> QED
      BY <3>1
  <2>2. CASE T # {}
    <3>1. T \in SUBSET Black
      OBVIOUS
    <3>2. PICK b \in T : Delegates(b) \cap T = {}
      BY <2>2, <3>1 DEF BlackOK
    <3>3. a \notin Delegates(b)
      BY <3>1 DEF BlackOK
    <3> QED
      BY <3>2, <3>3
  <2> QED
    BY <2>1, <2>2
<1>4. \A b \in Black' : b \in Agent
  BY DEF Black
<1> QED
  BY <1>1, <1>2, <1>3, <1>4 DEF BlackOK

\* An agent is visited: it goes on top of the one that delegates to it.
LEMMA PathPush ==
  ASSUME NEW r \in Resolve, NEW a \in Agent, r.colour[a] = 0, PathOK(r, {a}),
         r.stack # <<>> => a \in DelegatesIn(r, r.stack[1].at),
         NEW s, s.agents = r.agents, s.colour = [r.colour EXCEPT ![a] = 1],
         s.stack = <<[at |-> a, todo |-> DelegatesIn(r, a)]>> \o r.stack
  PROVE  PathOK(s, {})
<1> DEFINE top == [at |-> a, todo |-> DelegatesIn(r, a)]
<1>1. r.stack \in Seq(Frame) /\ Len(r.stack) \in Nat /\ r.colour \in [Agent -> {0, 1, 2}]
  BY DEF Resolve
<1>2. Len(s.stack) = Len(r.stack) + 1 /\ s.stack[1] = top
  BY <1>1
<1>3. \A i \in 1..Len(s.stack) :
        i = 1 \/ (i > 1 /\ i - 1 \in 1..Len(r.stack) /\ s.stack[i] = r.stack[i - 1])
  BY <1>1, <1>2
<1>4. \A b \in Agent : s.colour[b] = IF b = a THEN 1 ELSE r.colour[b]
  BY <1>1
<1>5. \A i \in 1..Len(r.stack) : r.stack[i] \in Frame
  BY <1>1
<1>6. \A i \in 1..Len(r.stack) : r.stack[i].at \in Agent /\ r.stack[i].at # a
  BY <1>5 DEF PathOK, Frame
<1>7. top.at = a /\ top.todo = DelegatesIn(s, a) /\ \A b : DelegatesIn(s, b) = DelegatesIn(r, b)
  BY DEF DelegatesIn
<1> HIDE DEF top
<1>8. \A i \in 1..Len(s.stack) : /\ s.colour[s.stack[i].at] = 1
                                 /\ s.stack[i].todo \subseteq DelegatesIn(s, s.stack[i].at)
  BY <1>2, <1>3, <1>4, <1>6, <1>7 DEF PathOK
<1>9. \A b \in Agent : s.colour[b] = 1 => \E i \in 1..Len(s.stack) : s.stack[i].at = b
  <2> TAKE b \in Agent
  <2> HAVE s.colour[b] = 1
  <2>1. CASE b = a
    <3>1. 1 \in 1..Len(s.stack)
      BY <1>1, <1>2
    <3> QED
      BY <1>2, <1>7, <2>1, <3>1
  <2>2. CASE b # a
    <3>1. PICK i \in 1..Len(r.stack) : r.stack[i].at = b
      BY <1>4, <2>2 DEF PathOK
    <3>2. i + 1 \in 1..Len(s.stack) /\ i + 1 # 1 /\ (i + 1) - 1 = i
      BY <1>1, <1>2
    <3> QED
      BY <1>3, <3>1, <3>2
  <2> QED
    BY <2>1, <2>2
<1>10. \A i, j \in 1..Len(s.stack) : s.stack[i].at = s.stack[j].at => i = j
  <2> TAKE i, j \in 1..Len(s.stack)
  <2> HAVE s.stack[i].at = s.stack[j].at
  <2>0. \A k \in 1..Len(s.stack) : k # 1 => s.stack[k].at # s.stack[1].at
    <3> TAKE k \in 1..Len(s.stack)
    <3> HAVE k # 1
    <3>1. k - 1 \in 1..Len(r.stack) /\ s.stack[k] = r.stack[k - 1]
      BY <1>3
    <3> QED
      BY <1>2, <1>6, <1>7, <3>1
  <2>1. CASE i = 1 \/ j = 1
    BY <2>0, <2>1
  <2>2. CASE i # 1 /\ j # 1
    <3>1. /\ i - 1 \in 1..Len(r.stack) /\ s.stack[i] = r.stack[i - 1]
          /\ j - 1 \in 1..Len(r.stack) /\ s.stack[j] = r.stack[j - 1]
      BY <1>3, <2>2
    <3>2. \A k, l \in 1..Len(r.stack) : r.stack[k].at = r.stack[l].at => k = l
      BY DEF PathOK
    <3>3. i - 1 = j - 1
      BY <3>1, <3>2
    <3> QED
      BY <3>3
  <2> QED
    BY <2>1, <2>2
<1>11. ASSUME NEW i \in 1..Len(s.stack), i > 1
       PROVE  /\ s.stack[i - 1].at \in DelegatesIn(s, s.stack[i].at)
              /\ \A b \in DelegatesIn(s, s.stack[i].at) \ s.stack[i].todo :
                   s.colour[b] = 2 \/ b = s.stack[i - 1].at
  <2>1. i - 1 \in 1..Len(r.stack) /\ s.stack[i] = r.stack[i - 1]
    BY <1>3, <1>11
  <2>2. \A b \in Agent : r.colour[b] = 2 => s.colour[b] = 2
    BY <1>4
  <2>3. CASE i = 2
    <3>1. s.stack[i - 1].at = a /\ i - 1 = 1 /\ r.stack # <<>>
      BY <1>1, <1>2, <1>7, <2>1, <2>3
    <3>2. \A b \in DelegatesIn(s, s.stack[i].at) \ s.stack[i].todo : r.colour[b] = 2 \/ b = a
      BY <1>7, <2>1, <3>1 DEF PathOK
    <3> QED
      BY <1>1, <1>7, <2>1, <3>1, <3>2
  <2>4. CASE i > 2
    <3>1. i - 1 \in 1..Len(s.stack) /\ i - 1 > 1 /\ (i - 1) - 1 \in 1..Len(r.stack)
      BY <1>1, <1>2, <2>1, <2>4
    <3>2. s.stack[i - 1] = r.stack[(i - 1) - 1]
      BY <1>3, <3>1
    <3>3. \A b \in DelegatesIn(s, s.stack[i].at) \ s.stack[i].todo :
            r.colour[b] = 2 \/ b = s.stack[i - 1].at
      BY <1>7, <2>1, <3>1, <3>2 DEF PathOK
    <3> QED
      BY <1>1, <1>7, <2>1, <3>1, <3>2, <3>3 DEF PathOK
  <2> QED
    BY <1>11, <2>3, <2>4
<1>12. \A i \in 1..Len(s.stack) : \A b \in DelegatesIn(s, s.stack[i].at) \ s.stack[i].todo :
         s.colour[b] = 2 \/ (i > 1 /\ b = s.stack[i - 1].at)
  BY <1>2, <1>3, <1>7, <1>11
<1> QED
  BY <1>8, <1>9, <1>10, <1>11, <1>12 DEF PathOK
\* A delegate is passed over.
LEMMA PathPass ==
  ASSUME NEW r \in Resolve, r.stack # <<>>, PathOK(r, {}), NEW a \in r.stack[1].todo,
         NEW s, s.agents = r.agents, s.colour = r.colour,
         s.stack = [r.stack EXCEPT ![1].todo = @ \ {a}]
  PROVE  /\ PathOK(s, {a})
         /\ r.colour[a] = 2 => PathOK(s, {})
         /\ s.stack # <<>> /\ a \in DelegatesIn(s, s.stack[1].at) /\ s.stack \in Seq(Frame)
<1>1. r.stack \in Seq(Frame) /\ Len(r.stack) \in Nat /\ 1 \in 1..Len(r.stack)
  BY TopOfStack
<1>2. \A i \in 1..Len(r.stack) : r.stack[i] \in Frame
  BY <1>1
<1>3. Len(s.stack) = Len(r.stack) /\ s.stack \in Seq(Frame)
  <2>1. [r.stack[1] EXCEPT !.todo = @ \ {a}] \in Frame
    BY <1>1, <1>2 DEF Frame
  <2> QED
    BY <1>1, <2>1
<1>4. \A i \in 1..Len(r.stack) : /\ s.stack[i].at = r.stack[i].at
                                 /\ s.stack[i].todo = IF i = 1 THEN r.stack[i].todo \ {a}
                                                      ELSE r.stack[i].todo
  <2> TAKE i \in 1..Len(r.stack)
  <2>1. CASE i = 1
    <3>1. s.stack[1] = [r.stack[1] EXCEPT !.todo = @ \ {a}] /\ r.stack[1] \in Frame
      BY <1>1, <1>2
    <3> QED
      BY <2>1, <3>1 DEF Frame
  <2>2. CASE i # 1
    <3>1. s.stack[i] = r.stack[i]
      BY <1>1, <2>2
    <3> QED
      BY <2>2, <3>1
  <2> QED
    BY <2>1, <2>2
<1>5. \A b : DelegatesIn(s, b) = DelegatesIn(r, b)
  BY DEF DelegatesIn
<1>6. \A i \in 1..Len(r.stack) : i > 1 => i - 1 \in 1..Len(r.stack)
  BY <1>1
<1>7. \A i \in 1..Len(s.stack) : \A b \in DelegatesIn(s, s.stack[i].at) \ s.stack[i].todo :
        \/ s.colour[b] = 2
        \/ i > 1 /\ b = s.stack[i - 1].at
        \/ i = 1 /\ b = a
  BY <1>3, <1>4, <1>5, <1>6 DEF PathOK
<1>8. /\ \A i \in 1..Len(s.stack) : /\ s.colour[s.stack[i].at] = 1
                                    /\ s.stack[i].todo \subseteq DelegatesIn(s, s.stack[i].at)
      /\ \A b \in Agent : s.colour[b] = 1 => \E i \in 1..Len(s.stack) : s.stack[i].at = b
      /\ \A i, j \in 1..Len(s.stack) : s.stack[i].at = s.stack[j].at => i = j
      /\ \A i \in 1..Len(s.stack) :
           i > 1 => s.stack[i - 1].at \in DelegatesIn(s, s.stack[i].at)
  BY <1>3, <1>4, <1>5, <1>6 DEF PathOK
<1>9. s.stack # <<>> /\ a \in DelegatesIn(s, s.stack[1].at)
  BY <1>1, <1>3, <1>4, <1>5 DEF PathOK
<1>10. PathOK(s, {a})
  BY <1>7, <1>8 DEF PathOK
<1>11. ASSUME r.colour[a] = 2 PROVE PathOK(s, {})
  BY <1>7, <1>8, <1>11 DEF PathOK
<1> QED
  BY <1>3, <1>9, <1>10, <1>11

\* A visit returns when all delegates of its agent are finished, and finishes it.
LEMMA PathPop ==
  ASSUME NEW r \in Resolve, r.stack # <<>>, PathOK(r, {}), r.stack[1].todo = {},
         NEW s, s.agents = r.agents, s.colour = [r.colour EXCEPT ![r.stack[1].at] = 2],
         s.stack = Tail(r.stack)
  PROVE  PathOK(s, {})
<1> DEFINE top == r.stack[1].at
<1>1. /\ r.stack \in Seq(Frame) /\ Len(r.stack) \in Nat /\ 1 \in 1..Len(r.stack)
      /\ top \in Agent /\ r.colour \in [Agent -> {0, 1, 2}]
  BY TopOfStack DEF Resolve, Frame
<1>2. /\ Len(s.stack) = Len(r.stack) - 1
      /\ \A i \in 1..Len(s.stack) : i + 1 \in 1..Len(r.stack) /\ s.stack[i] = r.stack[i + 1]
  <2> DEFINE stack == r.stack
  <2>1. stack \in Seq(Frame) /\ stack # <<>> /\ Len(stack) \in Nat
    BY <1>1
  <2> HIDE DEF stack
  <2>2. Len(Tail(stack)) = Len(stack) - 1
        /\ \A i \in 1..Len(Tail(stack)) : i + 1 \in 1..Len(stack) /\ Tail(stack)[i] = stack[i + 1]
    BY <2>1
  <2> QED
    BY <2>2 DEF stack
<1>3. \A b \in Agent : s.colour[b] = IF b = top THEN 2 ELSE r.colour[b]
  BY <1>1
<1>4. \A i \in 1..Len(r.stack) : r.stack[i].at \in Agent
  <2>1. \A i \in 1..Len(r.stack) : r.stack[i] \in Frame
    BY <1>1
  <2> QED
    BY <2>1 DEF Frame
<1>5. \A b : DelegatesIn(s, b) = DelegatesIn(r, b)
  BY DEF DelegatesIn
<1>6. \A i \in 1..Len(s.stack) : s.stack[i].at # top
  <2> TAKE i \in 1..Len(s.stack)
  <2>1. i + 1 # 1
    BY <1>1, <1>2
  <2> QED
    BY <1>1, <1>2, <2>1 DEF PathOK
<1> HIDE DEF top
<1>7. \A i \in 1..Len(s.stack) : /\ s.colour[s.stack[i].at] = 1
                                 /\ s.stack[i].todo \subseteq DelegatesIn(s, s.stack[i].at)
  <2> TAKE i \in 1..Len(s.stack)
  <2>1. i + 1 \in 1..Len(r.stack) /\ s.stack[i] = r.stack[i + 1] /\ s.stack[i].at # top
    BY <1>2, <1>6
  <2>2. r.colour[r.stack[i + 1].at] = 1 /\ r.stack[i + 1].todo \subseteq DelegatesIn(r, r.stack[i + 1].at)
    BY <2>1 DEF PathOK
  <2>3. s.stack[i].at \in Agent
    BY <1>4, <2>1
  <2> QED
    BY <1>3, <1>5, <2>1, <2>2, <2>3
<1>8. \A b \in Agent : s.colour[b] = 1 => \E i \in 1..Len(s.stack) : s.stack[i].at = b
  <2> TAKE b \in Agent
  <2> HAVE s.colour[b] = 1
  <2>1. b # top /\ r.colour[b] = 1
    BY <1>3
  <2>2. PICK i \in 1..Len(r.stack) : r.stack[i].at = b
    BY <2>1 DEF PathOK
  <2>3. i # 1
    BY <2>1, <2>2 DEF top
  <2>4. i - 1 \in 1..Len(s.stack) /\ (i - 1) + 1 = i
    BY <1>1, <1>2, <2>3
  <2> QED
    BY <1>2, <2>2, <2>4
<1>9. \A i, j \in 1..Len(s.stack) : s.stack[i].at = s.stack[j].at => i = j
  <2> TAKE i, j \in 1..Len(s.stack)
  <2> HAVE s.stack[i].at = s.stack[j].at
  <2>1. i + 1 = j + 1
    BY <1>2 DEF PathOK
  <2> QED
    BY <2>1
<1>10. ASSUME NEW i \in 1..Len(s.stack)
       PROVE  /\ i > 1 => s.stack[i - 1].at \in DelegatesIn(s, s.stack[i].at)
              /\ \A b \in DelegatesIn(s, s.stack[i].at) \ s.stack[i].todo :
                   s.colour[b] = 2 \/ (i > 1 /\ b = s.stack[i - 1].at)
  <2>1. i + 1 \in 1..Len(r.stack) /\ s.stack[i] = r.stack[i + 1] /\ i + 1 > 1 /\ (i + 1) - 1 = i
    BY <1>1, <1>2
  <2>2. /\ r.stack[i].at \in DelegatesIn(r, r.stack[i + 1].at)
        /\ \A b \in DelegatesIn(r, r.stack[i + 1].at) \ r.stack[i + 1].todo :
             r.colour[b] = 2 \/ b = r.stack[i].at
    BY <2>1 DEF PathOK
  <2>3. \A b : r.colour[b] = 2 => s.colour[b] = 2
    BY <1>1
  <2>4. CASE i = 1
    <3>1. s.colour[r.stack[i].at] = 2
      BY <1>1, <1>3, <2>4 DEF top
    <3> QED
      BY <1>5, <2>1, <2>2, <2>3, <2>4, <3>1
  <2>5. CASE i > 1
    <3>1. i - 1 \in 1..Len(s.stack) /\ (i - 1) + 1 = i
      BY <1>1, <1>2, <2>5
    <3>2. s.stack[i - 1] = r.stack[i]
      BY <1>2, <3>1
    <3> QED
      BY <1>5, <2>1, <2>2, <2>3, <2>5, <3>2
  <2> QED
    BY <2>4, <2>5
<1> QED
  BY <1>7, <1>8, <1>9, <1>10 DEF PathOK

LEMMA WalkInit ==
  TeamInit => WalkOK
BY DEF TeamInit, NoResolve, WalkOK, PathOK, BlackOK, Black, Walked

\* What does not walk leaves the colours alone, and the agents once they are read.
LEMMA WalkStays ==
  ASSUME TeamTypes, WalkOK,
         resolve'.colour = resolve.colour, resolve'.stack = resolve.stack,
         resolve'.agents = resolve.agents, resolve'.why = "cycle" => resolve' = resolve,
         resolve'.pc \in {"idle", "load", "graph"} => resolve.pc \in {"idle", "load", "graph"},
         resolve'.pc \in {"walk"} \cup Walked => \A a \in Members : Delegates(a) \subseteq Members,
         resolve'.pc \in Walked => resolve.stack = <<>> /\ Members \subseteq Black
  PROVE  WalkOK'
<1>1. Members' = Members /\ Black' = Black /\ \A a : Delegates(a)' = Delegates(a)
  BY DEF Members, Black, Delegates
<1>2. PathOK(resolve', {})
  BY DEF WalkOK, PathOK, DelegatesIn
<1>3. BlackOK'
  BY <1>1 DEF WalkOK, BlackOK
<1>4. Cyclic' <=> Cyclic
  BY <1>1 DEF Cyclic
<1> QED
  BY <1>1, <1>2, <1>3, <1>4 DEF WalkOK

\* An agent is visited: no agent is finished or unfinished by that.
LEMMA PushKeeps ==
  ASSUME TeamTypes, WalkOK, resolve.pc = "walk",
         NEW a \in Members, resolve.colour[a] = 0,
         NEW r \in Resolve, r.colour = resolve.colour, r.agents = resolve.agents,
         r.pc = resolve.pc, r.why = resolve.why, r.left = resolve.left, r.cmd = resolve.cmd,
         PathOK(r, {a}), r.stack # <<>> => a \in DelegatesIn(r, r.stack[1].at),
         resolve' = Push(r, a), UNCHANGED <<defs, edits>>
  PROVE  TeamTypes' /\ WalkOK'
<1>1. a \in Agent /\ resolve.agents[a] \in AgentFile
  BY DEF Members, TeamTypes, Resolve
<1>2. [at |-> a, todo |-> Delegates(a)] \in Frame
  BY <1>1 DEF Frame, AgentFile, Delegates
<1> DEFINE stack == <<[at |-> a, todo |-> Delegates(a)]>> \o r.stack
           colour == [r.colour EXCEPT ![a] = 1]
<1>3. stack \in Seq(Frame) /\ colour \in [Agent -> {0, 1, 2}]
  BY <1>1, <1>2 DEF Resolve
<1>4. resolve' = [r EXCEPT !.colour = colour, !.stack = stack]
  BY DEF Push, Resolve
<1>5. resolve' \in Resolve
  <2> HIDE DEF stack, colour
  <2> QED
    BY <1>3, <1>4 DEF Resolve
<1>6. /\ resolve'.agents = resolve.agents /\ resolve'.pc = "walk" /\ resolve'.why = resolve.why
      /\ resolve'.colour = colour /\ resolve'.stack = stack
  <2> HIDE DEF stack, colour
  <2> QED
    BY <1>4 DEF Resolve
<1>7. Members' = Members /\ Black' = Black /\ \A b : Delegates(b)' = Delegates(b)
  BY <1>1, <1>6 DEF Members, Black, Delegates, TeamTypes, Resolve
<1>8. TeamTypes'
  BY <1>5, <1>6 DEF TeamTypes
<1>9. PathOK(resolve', {})
  <2>1. stack = <<[at |-> a, todo |-> DelegatesIn(r, a)]>> \o r.stack
    BY DEF Delegates, DelegatesIn
  <2>2. /\ resolve' \in Resolve /\ resolve'.agents = r.agents
        /\ resolve'.colour = [r.colour EXCEPT ![a] = 1]
        /\ resolve'.stack = <<[at |-> a, todo |-> DelegatesIn(r, a)]>> \o r.stack
    BY <1>5, <1>6, <2>1
  <2>3. PICK s \in Resolve : s = resolve'
    BY <2>2
  <2>4. PathOK(s, {})
    <3> HIDE DEF stack, colour
    <3>1. /\ s.agents = r.agents /\ s.colour = [r.colour EXCEPT ![a] = 1]
          /\ s.stack = <<[at |-> a, todo |-> DelegatesIn(r, a)]>> \o r.stack
      BY <2>2, <2>3
    <3>2. a \in Agent /\ r.colour[a] = 0
      BY <1>1
    <3> HIDE DEF PathOK
    <3> QED
      BY <3>1, <3>2, PathPush
  <2> QED
    BY <2>3, <2>4
<1>10. BlackOK'
  BY <1>7 DEF WalkOK, BlackOK
<1>11. \A b \in Agent : resolve'.colour[b] # 0 => b \in Members'
  BY <1>6, <1>7 DEF WalkOK, Resolve
<1> QED
  BY <1>6, <1>7, <1>8, <1>9, <1>10, <1>11 DEF WalkOK, Walked

LEMMA VisitMemberKeeps ==
  ASSUME TeamTypes, WalkOK, VisitMember
  PROVE  TeamTypes' /\ WalkOK'
<1> DEFINE white == {a \in Members : resolve.colour[a] = 0}
<1>1. resolve.pc = "walk" /\ resolve.stack = <<>> /\ UNCHANGED <<defs, edits>>
  BY DEF VisitMember
<1>2. CASE white = {}
  <2>1. Members \subseteq Black
    <3>1. \A a \in Agent : resolve.colour[a] # 1
      BY <1>1 DEF WalkOK, PathOK
    <3> QED
      BY <1>2, <3>1 DEF Members, Black, TeamTypes, Resolve
  <2>2. resolve' = [resolve EXCEPT !.pc = "hash", !.left = Members]
    BY <1>2 DEF VisitMember
  <2>3. Members \subseteq Name
    BY DEF Members, Name
  <2>4. resolve' \in Resolve
    BY <2>2, <2>3 DEF TeamTypes, Resolve
  <2>5. /\ resolve'.pc = "hash" /\ resolve'.left = Members
        /\ resolve'.colour = resolve.colour /\ resolve'.stack = resolve.stack
        /\ resolve'.agents = resolve.agents /\ resolve'.why = resolve.why
    BY <2>2 DEF TeamTypes, Resolve
  <2>6. TeamTypes'
    BY <1>1, <2>4, <2>5 DEF TeamTypes, Members
  <2>7. resolve.why # "cycle" /\ \A a \in Members : Delegates(a) \subseteq Members
    BY <1>1 DEF WalkOK
  <2> QED
    BY <1>1, <2>1, <2>5, <2>6, <2>7, WalkStays
<1>3. CASE white # {}
  <2>1. PICK a \in white : resolve' = Push(resolve, a)
    BY <1>3 DEF VisitMember
  <2>2. PathOK(resolve, {a})
    BY DEF WalkOK, PathOK
  <2> QED
    BY <1>1, <2>1, <2>2, PushKeeps DEF TeamTypes
<1> QED
  BY <1>2, <1>3

LEMMA VisitDelegateKeeps ==
  ASSUME TeamTypes, WalkOK, VisitDelegate
  PROVE  TeamTypes' /\ WalkOK'
<1>1. resolve.pc = "walk" /\ resolve.stack # <<>> /\ UNCHANGED <<defs, edits>>
  BY DEF VisitDelegate
<1> DEFINE rest(a) == [resolve EXCEPT !.stack[1].todo = @ \ {a}]
<1>2. PICK a \in Head(resolve.stack).todo :
        resolve' = CASE resolve.colour[a] = 1 -> Refused("cycle")
                     [] resolve.colour[a] = 2 -> rest(a)
                     [] OTHER -> Push(rest(a), a)
  BY DEF VisitDelegate
<1>3. /\ resolve.stack \in Seq(Frame) /\ 1 \in 1..Len(resolve.stack)
      /\ Head(resolve.stack) = resolve.stack[1] /\ resolve.stack[1] \in Frame
  BY <1>1, TopOfStack DEF TeamTypes
<1>4. a \in Agent /\ a \in Delegates(resolve.stack[1].at) /\ resolve.stack[1].at \in Members
  BY <1>3 DEF WalkOK, PathOK, DelegatesIn, Delegates, Frame
<1>5. a \in Members
  BY <1>1, <1>4 DEF WalkOK
<1> DEFINE r == rest(a)
           stack == [resolve.stack EXCEPT ![1].todo = @ \ {a}]
<1>6. r = [resolve EXCEPT !.stack = stack]
  OBVIOUS
<1>7. /\ r.agents = resolve.agents /\ r.colour = resolve.colour /\ r.stack = stack
      /\ r.pc = resolve.pc /\ r.why = resolve.why /\ r.left = resolve.left /\ r.cmd = resolve.cmd
  <2> HIDE DEF stack, r
  <2> QED
    BY <1>6 DEF TeamTypes, Resolve
<1>8. /\ PathOK(r, {a})
      /\ resolve.colour[a] = 2 => PathOK(r, {})
      /\ r.stack # <<>> /\ a \in DelegatesIn(r, r.stack[1].at) /\ r.stack \in Seq(Frame)
  <2>1. PathOK(resolve, {}) /\ resolve \in Resolve /\ a \in resolve.stack[1].todo
    BY <1>2, <1>3 DEF WalkOK, TeamTypes
  <2> HIDE DEF r
  <2> QED
    BY <1>1, <1>7, <2>1, PathPass
<1>9. r \in Resolve
  <2> HIDE DEF stack, r
  <2> QED
    BY <1>6, <1>7, <1>8 DEF TeamTypes, Resolve
<1>10. CASE resolve.colour[a] = 1
  <2>1. resolve' = Refused("cycle")
    BY <1>2, <1>10
  <2>2. Cyclic
    BY <1>1, <1>2, <1>10, GreyClosesRound
  <2>3. /\ resolve' \in Resolve /\ resolve'.pc = "refused"
        /\ resolve'.agents = resolve.agents /\ resolve'.colour = resolve.colour
        /\ resolve'.stack = resolve.stack
    BY <2>1 DEF Refused, TeamTypes, Resolve
  <2>4. Members' = Members /\ Black' = Black /\ \A b : Delegates(b)' = Delegates(b)
    BY <2>3 DEF Members, Black, Delegates
  <2>5. PathOK(resolve', {}) /\ BlackOK' /\ Cyclic'
    <3>1. PathOK(resolve', {})
      <4>1. PICK s : s = resolve'
        OBVIOUS
      <4>2. s.colour = resolve.colour /\ s.stack = resolve.stack /\ PathOK(resolve, {})
        BY <2>3, <4>1 DEF WalkOK
      <4>3. \A b : DelegatesIn(s, b) = DelegatesIn(resolve, b)
        BY <2>3, <4>1 DEF DelegatesIn
      <4>4. PathOK(s, {})
        BY <4>2, <4>3 DEF PathOK
      <4> QED
        BY <4>1, <4>4
    <3>2. BlackOK'
      BY <2>4 DEF WalkOK, BlackOK
    <3>3. Cyclic'
      BY <2>2, <2>4 DEF Cyclic
    <3> QED
      BY <3>1, <3>2, <3>3
  <2>6. TeamTypes'
    BY <1>1, <2>3 DEF TeamTypes
  <2>7. WalkOK'
    BY <2>3, <2>4, <2>5 DEF WalkOK, Walked
  <2> QED
    BY <2>6, <2>7
<1>11. CASE resolve.colour[a] = 2
  <2>1. resolve' = r
    BY <1>2, <1>11
  <2> HIDE DEF r, stack
  <2>2. Members' = Members /\ Black' = Black /\ \A b : Delegates(b)' = Delegates(b)
    BY <1>7, <2>1 DEF Members, Black, Delegates
  <2>3. PathOK(resolve', {}) /\ BlackOK'
    BY <1>8, <1>11, <2>1, <2>2 DEF WalkOK, BlackOK
  <2>4. TeamTypes'
    BY <1>1, <1>7, <1>9, <2>1 DEF TeamTypes
  <2>5. WalkOK'
    BY <1>1, <1>7, <2>1, <2>2, <2>3 DEF WalkOK, Walked
  <2> QED
    BY <2>4, <2>5
<1>12. CASE resolve.colour[a] = 0
  <2>1. resolve' = Push(r, a)
    BY <1>2, <1>12
  <2> HIDE DEF r, stack
  <2> QED
    BY <1>1, <1>5, <1>7, <1>8, <1>9, <1>12, <2>1, PushKeeps
<1> QED
  BY <1>4, <1>10, <1>11, <1>12 DEF TeamTypes, Resolve

LEMMA VisitReturnsKeeps ==
  ASSUME TeamTypes, WalkOK, VisitReturns
  PROVE  TeamTypes' /\ WalkOK'
<1> DEFINE top == resolve.stack[1].at
           colour == [resolve.colour EXCEPT ![top] = 2]
<1>1. resolve.pc = "walk" /\ resolve.stack # <<>> /\ UNCHANGED <<defs, edits>>
  BY DEF VisitReturns
<1>2. /\ resolve.stack \in Seq(Frame) /\ 1 \in 1..Len(resolve.stack)
      /\ Head(resolve.stack) = resolve.stack[1] /\ resolve.stack[1] \in Frame
  BY <1>1, TopOfStack DEF TeamTypes
<1>3. top \in Agent /\ resolve.colour[top] = 1 /\ resolve.stack[1].todo = {}
  BY <1>2 DEF VisitReturns, WalkOK, PathOK, Frame
<1>4. resolve' = [resolve EXCEPT !.colour = colour, !.stack = Tail(resolve.stack)]
  BY <1>2 DEF VisitReturns
<1>5. colour \in [Agent -> {0, 1, 2}] /\ Tail(resolve.stack) \in Seq(Frame)
  BY <1>1, <1>2, <1>3 DEF TeamTypes, Resolve
<1>6. /\ resolve' \in Resolve /\ resolve'.colour = colour /\ resolve'.stack = Tail(resolve.stack)
      /\ resolve'.agents = resolve.agents /\ resolve'.pc = "walk" /\ resolve'.why = resolve.why
  <2> HIDE DEF colour
  <2> QED
    BY <1>1, <1>4, <1>5 DEF TeamTypes, Resolve
<1>7. TeamTypes'
  BY <1>1, <1>6 DEF TeamTypes
<1>8. PathOK(resolve', {})
  <2>1. PathOK(resolve, {}) /\ resolve \in Resolve
    BY DEF WalkOK, TeamTypes
  <2> QED
    BY <1>1, <1>3, <1>6, <2>1, PathPop
<1>9. BlackOK'
  <2>1. Delegates(top) \subseteq Black
    <3>1. \A b \in Delegates(top) : resolve.colour[b] = 2
      BY <1>2, <1>3 DEF WalkOK, PathOK, DelegatesIn, Delegates
    <3>2. Delegates(top) \subseteq Agent
      BY <1>3 DEF WalkOK, Members, Delegates, TeamTypes, Resolve, AgentFile
    <3> QED
      BY <3>1, <3>2 DEF Black
  <2>2. Black' = Black \cup {top} /\ top \notin Black
    BY <1>3, <1>6 DEF Black, TeamTypes, Resolve
  <2> HIDE DEF top
  <2> QED
    BY <1>3, <1>6, <2>1, <2>2, BlackGrows DEF WalkOK
<1>10. Members' = Members /\ \A b : Delegates(b)' = Delegates(b)
  BY <1>6 DEF Members, Delegates
<1>11. \A b \in Agent : resolve'.colour[b] # 0 => b \in Members'
  BY <1>3, <1>6, <1>10 DEF WalkOK, TeamTypes, Resolve
<1> QED
  BY <1>1, <1>6, <1>7, <1>8, <1>9, <1>10, <1>11 DEF WalkOK, Walked

\* Agents are read before any is visited.
LEMMA LoadKeepsWalk ==
  ASSUME TeamTypes, WalkOK, LoadAgent
  PROVE  WalkOK'
<1> DEFINE a == CHOOSE b \in resolve.left : TRUE
<1>1. a \in Agent /\ resolve.pc = "load"
  BY DEF LoadAgent, TeamTypes
<1>2. CASE ~AgentLoads(defs, a)
  <2>1. resolve' = Refused("agent")
    BY <1>2 DEF LoadAgent
  <2>2. /\ resolve'.pc = "refused" /\ resolve'.why = "agent" /\ resolve'.stack = resolve.stack
        /\ resolve'.colour = resolve.colour /\ resolve'.agents = resolve.agents
    BY <2>1 DEF Refused, TeamTypes, Resolve
  <2> QED
    BY <2>2, WalkStays DEF Walked
<1>3. CASE AgentLoads(defs, a)
  <2>1. resolve' = [resolve EXCEPT !.agents[a] = defs.agents[a], !.left = resolve.left \ {a},
                             !.pc = IF resolve.left \ {a} = {} THEN "graph" ELSE "load"]
    BY <1>3 DEF LoadAgent
  <2> HIDE DEF a
  <2>2. /\ resolve'.pc \in {"graph", "load"} /\ resolve'.why = resolve.why
        /\ resolve'.stack = resolve.stack /\ resolve'.colour = resolve.colour
    BY <2>1 DEF TeamTypes, Resolve
  <2>3. resolve.stack = <<>> /\ \A b \in Agent : resolve.colour[b] = 0
    BY <1>1 DEF WalkOK
  <2>4. Black' = {}
    BY <2>2, <2>3 DEF Black
  <2>5. BlackOK' /\ PathOK(resolve', {})
    BY <2>2, <2>3, <2>4 DEF BlackOK, PathOK
  <2> QED
    BY <1>1, <2>2, <2>3, <2>5 DEF WalkOK, Walked
<1> QED
  BY <1>2, <1>3

\* Nothing of the walk changes: the members delegate to members, or the command ends.
LEMMA OthersKeepWalk ==
  ASSUME TeamTypes, WalkOK,
         \/ \E cmd \in {"plan", "run", "export", "pack"} : StartResolve(cmd)
         \/ \E a \in Agent : HashAgent(a)
         \/ CheckDelegates \/ FinishPlan \/ WriteArchive
         \/ \E c \in Component : ResolveComponent(c)
         \/ \E n \in Name : Render(n) \/ AddDir(n)
  PROVE  WalkOK'
<1>1. CASE \E cmd \in {"plan", "run", "export", "pack"} : StartResolve(cmd)
  <2>1. /\ resolve'.colour = resolve.colour /\ resolve'.stack = resolve.stack
        /\ resolve'.agents = resolve.agents /\ resolve'.why # "cycle"
        /\ resolve.pc = "idle" /\ resolve'.pc \in {"load", "refused"}
    BY <1>1 DEF StartResolve, Refused, TeamTypes, Resolve, WalkOK
  <2> QED
    BY <2>1, WalkStays DEF Walked
<1>2. CASE CheckDelegates
  <2>1. CASE \E a \in Members : ~(Delegates(a) \subseteq Members)
    <3>1. /\ resolve'.colour = resolve.colour /\ resolve'.stack = resolve.stack
          /\ resolve'.agents = resolve.agents /\ resolve'.why # "cycle"
          /\ resolve'.pc = "refused"
      BY <1>2, <2>1 DEF CheckDelegates, Refused, TeamTypes, Resolve
    <3> QED
      BY <3>1, WalkStays DEF Walked
  <2>2. CASE ~ \E a \in Members : ~(Delegates(a) \subseteq Members)
    <3>1. /\ resolve'.colour = resolve.colour /\ resolve'.stack = resolve.stack
          /\ resolve'.agents = resolve.agents /\ resolve'.why # "cycle"
          /\ resolve'.pc = "walk"
      BY <1>2, <2>2 DEF CheckDelegates, TeamTypes, Resolve, WalkOK
    <3> QED
      BY <2>2, <3>1, WalkStays DEF Walked
  <2> QED
    BY <2>1, <2>2
<1>3. ASSUME resolve'.colour = resolve.colour, resolve'.stack = resolve.stack,
             resolve'.agents = resolve.agents, resolve'.why # "cycle",
             resolve.pc \in Walked, resolve'.pc \in Walked \cup {"refused"}
      PROVE  WalkOK'
  <2>1. /\ \A a \in Members : Delegates(a) \subseteq Members
        /\ resolve.stack = <<>> /\ Members \subseteq Black
        /\ resolve'.pc \notin {"idle", "load", "graph"}
    BY <1>3 DEF WalkOK, Walked
  <2> QED
    BY <1>3, <2>1, WalkStays
<1>4. CASE \E a \in Agent : HashAgent(a)
  BY <1>3, <1>4 DEF HashAgent, TeamTypes, Resolve, WalkOK, Walked
<1>5. CASE FinishPlan
  BY <1>3, <1>5 DEF FinishPlan, TeamTypes, Resolve, WalkOK, Walked
<1>6. CASE WriteArchive
  BY <1>3, <1>6 DEF WriteArchive, TeamTypes, Resolve, WalkOK, Walked
<1>7. CASE \E c \in Component : ResolveComponent(c)
  BY <1>3, <1>7 DEF ResolveComponent, TeamTypes, Resolve, WalkOK, Walked, Refused
<1>8. CASE \E n \in Name : Render(n)
  BY <1>3, <1>8 DEF Render, TeamTypes, Resolve, WalkOK, Walked, Refused
<1>9. CASE \E n \in Name : AddDir(n)
  <2>1. PICK n \in Name : AddDir(n)
    BY <1>9
  <2>2. resolve.pc = "closure" /\ resolve.why # "cycle" /\ resolve \in Resolve
    BY <2>1 DEF AddDir, TeamTypes, WalkOK
  <2>3. resolve' = Refused("file") \/ \E L, F : resolve' = [resolve EXCEPT !.left = L, !.files = F]
    BY <2>1 DEF AddDir
  <2>4. /\ resolve'.colour = resolve.colour /\ resolve'.stack = resolve.stack
        /\ resolve'.agents = resolve.agents /\ resolve'.why # "cycle"
        /\ resolve'.pc \in {"closure", "refused"}
    BY <2>2, <2>3 DEF Refused, Resolve
  <2> QED
    BY <1>3, <2>2, <2>4 DEF Walked
<1> QED
  BY <1>1, <1>2, <1>4, <1>5, <1>6, <1>7, <1>8, <1>9

LEMMA WalkStep ==
  ASSUME TeamTypes, WalkOK, [TeamNext]_teamVars
  PROVE  TeamTypes' /\ WalkOK'
<1>1. ASSUME UNCHANGED resolve PROVE WalkOK'
  <2>1. Black' = Black /\ Members' = Members /\ \A a : Delegates(a)' = Delegates(a)
    BY <1>1 DEF Black, Members, Delegates
  <2>2. PathOK(resolve, {})' /\ BlackOK'
    <3>1. PathOK(resolve, {})'
      BY <1>1 DEF WalkOK, PathOK, DelegatesIn
    <3>2. BlackOK'
      BY <1>1, <2>1 DEF WalkOK, BlackOK, Black, Delegates, Members
    <3> QED
      BY <3>1, <3>2
  <2>3. Cyclic' <=> Cyclic
    BY <1>1 DEF Cyclic, Members, Delegates
  <2> QED
    BY <1>1, <2>1, <2>2, <2>3 DEF WalkOK
<1>2. ASSUME UNCHANGED <<resolve, defs, edits>> PROVE TeamTypes'
  BY <1>2 DEF TeamTypes, Members
<1>3. CASE UNCHANGED teamVars
  BY <1>1, <1>2, <1>3 DEF teamVars
<1>4. CASE \/ \E cmd \in {"plan", "run", "export", "pack"} : StartResolve(cmd)
           \/ \E a \in Agent : HashAgent(a)
           \/ CheckDelegates \/ FinishPlan \/ WriteArchive
           \/ \E c \in Component : ResolveComponent(c)
           \/ \E n \in Name : Render(n) \/ AddDir(n)
  <2>1. TeamTypes'
    BY <1>4, ResolveTypes
  <2>2. WalkOK'
    BY <1>4, OthersKeepWalk
  <2> QED
    BY <2>1, <2>2
<1>5. CASE LoadAgent
  BY <1>5, ResolveTypes, LoadKeepsWalk
<1>6. CASE VisitMember \/ VisitDelegate \/ VisitReturns
  BY <1>6, VisitMemberKeeps, VisitDelegateKeeps, VisitReturnsKeeps
<1>7. CASE \/ \E a \in Agent : EditAgent(a) \/ BreakAgent(a)
           \/ \E c \in Component : EditComponent(c) \/ RemoveComponent(c)
  <2>1. UNCHANGED resolve
    BY <1>7 DEF EditAgent, BreakAgent, EditComponent, RemoveComponent, Touch
  <2> QED
    BY <1>1, <1>7, <2>1, EditTypes
<1>8. CASE \/ BeginInstall \/ VerifyStage \/ MoveIntoPlace \/ KillInstall
           \/ \E n \in Name : Damage(n) \/ Unzip(n)
  <2>1. UNCHANGED <<resolve, defs, edits>>
    BY <1>8 DEF BeginInstall, VerifyStage, MoveIntoPlace, KillInstall, Damage, Unzip
  <2> QED
    BY <1>1, <1>2, <2>1
<1> QED
  BY <1>3, <1>4, <1>5, <1>6, <1>7, <1>8 DEF TeamNext

\* A team is refused for its delegations exactly when they have a cycle: the walk with
\* three colours (validateAgentGraph) finds every cycle of every team, and nothing else.
THEOREM CycleSafety ==
  TeamSpec => []CyclesAreRefused
<1>1. TeamInit => TeamTypes /\ WalkOK
  BY TeamTypesInit, WalkInit
<1>2. (TeamTypes /\ WalkOK) /\ [TeamNext]_teamVars => (TeamTypes /\ WalkOK)'
  BY WalkStep
<1>3. TeamTypes /\ WalkOK => CyclesAreRefused
  BY WalkImplies
<1> QED
  BY <1>1, <1>2, <1>3, PTL DEF TeamSpec

-----------------------------------------------------------------------------
(* Team plans: what is planned, exported, packed and installed *)

\* What was read of the members is what is on disk, edits aside.
ReadOK ==
  /\ resolve.pc = "idle" => Members = {}
  /\ edits = {} =>
       /\ resolve.pc = "load" => Members = defs.members \ resolve.left /\ resolve.left \subseteq defs.members
       /\ resolve.pc \in {"graph", "walk"} \cup Walked => Members = defs.members
  /\ edits \cap Agent = {} => \A a \in Members : resolve.agents[a] = defs.agents[a]

\* First the members are planned, then what they refer to.
PlanOK ==
  /\ resolve.pc \in {"idle", "load", "graph", "walk"} => Planned(resolve) = {}
  /\ resolve.pc = "hash" => Planned(resolve) = Members \ resolve.left
  /\ resolve.pc = "parts" => /\ resolve.left \subseteq Referenced(resolve.agents)
                             /\ Planned(resolve) = Members \cup (Referenced(resolve.agents) \ resolve.left)
  /\ resolve.pc \in {"render", "closure", "done"} =>
       Planned(resolve) = Members \cup Referenced(resolve.agents)
  /\ Planned(resolve) \subseteq Members \cup Referenced(resolve.agents)
  /\ edits = {} =>
       /\ \A n \in Planned(resolve) : resolve.plan[n].digest = defs.version[n]
       /\ \A t \in TeamTool \cap Planned(resolve) :
            /\ resolve.plan[t].provider = SelectVariant(defs, t, resolve.cmd)
            /\ SelectVariant(defs, t, resolve.cmd) # NoPart

\* The export has the files of what was rendered so far, and no others.
BundleOK ==
  /\ bundle \in [Name -> {NoPart} \cup Nat]
  /\ resolve.pc = "closure" => resolve.cmd # "export"
  /\ resolve.pc = "render" => resolve.cmd = "export"
  /\ resolve.cmd = "export" /\ resolve.pc \in {"render", "done"} =>
       /\ resolve.left \subseteq Planned(resolve)
       /\ resolve.pc = "done" => resolve.left = {}
       /\ {f \in Name : bundle[f] # NoPart} = {FileOf(n) : n \in Planned(resolve) \ resolve.left}
       /\ edits = {} /\ (\A a, b \in Members : BaseOf[a] = BaseOf[b] => a = b)
            => \A n \in Planned(resolve) \ resolve.left : bundle[FileOf(n)] = resolve.plan[n].digest

\* The pack has the files of what was added so far, and when it is written, of all.
Contents == [Name -> {NoPart} \cup Packed]
FilesAre(N) ==
  /\ \A n \in Name : resolve.files[n] # NoPart <=> n \in N
  /\ edits \cap Agent = {} =>
       \A a \in Agent \cap N : resolve.files[a].uses = resolve.agents[a].uses
PackOK ==
  /\ resolve.pc \notin {"closure", "done", "refused"} => resolve.files = Nothing
  /\ resolve.pc = "closure" => /\ resolve.left \subseteq Planned(resolve)
                               /\ FilesAre(Planned(resolve) \ resolve.left)
  /\ archive # NoPart => /\ resolve.pc = "done" /\ FilesAre(Planned(resolve))
                         /\ archive \in [manifest: {resolve.files}, files: Contents,
                                         plan: {resolve.plan}]

\* What is verified is what was packed, and only that is moved into place.
InstallOK ==
  /\ install \in [pc: {"idle", "unzip", "verified"}, stage: {NoPart} \cup Contents,
                  dest: {NoPart} \cup Contents]
  /\ resolve.pc # "done" => install.pc = "idle" /\ install.dest = NoPart
  /\ install.pc # "idle" => archive # NoPart /\ install.stage \in Contents
  /\ install.pc = "verified" => install.stage = archive.manifest
  /\ install.dest # NoPart => install.dest = archive.manifest

DeliveryInv == TeamTypes /\ WalkOK /\ ReadOK /\ PlanOK /\ BundleOK /\ PackOK /\ InstallOK

\* What the members refer to are components.
LEMMA ReferencedParts ==
  ASSUME TeamTypes
  PROVE  Referenced(resolve.agents) \subseteq Component
         /\ \A a \in Members : resolve.agents[a].uses \subseteq Referenced(resolve.agents)
BY DEF TeamTypes, Resolve, Referenced, AgentFile, Members

LEMMA DeliveryImplies ==
  ASSUME DeliveryInv PROVE PlansAreDelivered
<1> USE DEF DeliveryInv
<1>1. TeamTypeOK
  <2>1. resolve.pc \in {"idle", "load", "graph", "walk", "hash", "parts", "render",
                        "closure", "done", "refused"}
    BY DEF TeamTypes, Resolve
  <2>2. resolve.pc \in Walked => resolve.stack = <<>>
    BY DEF WalkOK
  <2>3. \A i \in 1..Len(resolve.stack) :
          /\ resolve.colour[resolve.stack[i].at] = 1
          /\ i > 1 => resolve.stack[i - 1].at \in Delegates(resolve.stack[i].at)
    BY DEF WalkOK, PathOK, DelegatesIn, Delegates
  <2> QED
    BY <2>1, <2>2, <2>3 DEF TeamTypeOK, PlanOK, Walked
<1>2. PlanIsTrue
  <2> SUFFICES ASSUME resolve.pc = "done", edits = {} PROVE PlanIsTrue
    BY DEF PlanIsTrue
  <2>1. Planned(resolve) = defs.members \cup Referenced(resolve.agents)
    BY DEF PlanOK, ReadOK, Walked
  <2>2. \A n \in Planned(resolve) : resolve.plan[n].digest = defs.version[n]
    BY DEF PlanOK
  <2>3. ASSUME NEW t \in TeamTool \cap Planned(resolve)
        PROVE  \E i \in 1..Len(defs.variants[t]) :
           /\ resolve.plan[t].provider = defs.variants[t][i]
           /\ defs.variants[t][i] \in defs.allowed
           /\ resolve.cmd = "run" => VariantReady(defs, defs.variants[t][i])
           /\ \A j \in 1..(i - 1) :
                \/ defs.variants[t][j] \notin defs.allowed
                \/ resolve.cmd = "run" /\ ~VariantReady(defs, defs.variants[t][j])
    <3>1. /\ resolve.plan[t].provider = SelectVariant(defs, t, resolve.cmd)
          /\ SelectVariant(defs, t, resolve.cmd) # NoPart /\ defs \in Project
      BY DEF PlanOK, TeamTypes
    <3>2. PICK i \in 1..Len(defs.variants[t]) :
            /\ SelectVariant(defs, t, resolve.cmd) = defs.variants[t][i]
            /\ defs.variants[t][i] \in defs.allowed
            /\ resolve.cmd = "run" => VariantReady(defs, defs.variants[t][i])
            /\ \A j \in 1..(i - 1) :
                 \/ defs.variants[t][j] \notin defs.allowed
                 \/ resolve.cmd = "run" /\ ~VariantReady(defs, defs.variants[t][j])
      BY <3>1, VariantIsFirst
    <3> QED
      BY <3>1, <3>2
  <2> QED
    BY <2>1, <2>2, <2>3 DEF PlanIsTrue
<1>3. ExportIsWhole
  BY DEF ExportIsWhole, BundleOK
<1>4. PackIsClosed
  <2> SUFFICES ASSUME archive # NoPart, edits \cap Agent = {},
                      NEW a \in Agent, archive.manifest[a] # NoPart,
                      NEW c \in archive.manifest[a].uses
               PROVE  archive.manifest[c] # NoPart
    BY DEF PackIsClosed
  <2>1. archive.manifest = resolve.files /\ FilesAre(Planned(resolve)) /\ resolve.pc = "done"
    BY DEF PackOK
  <2>2. a \in Planned(resolve) /\ c \in resolve.agents[a].uses
    BY <2>1 DEF FilesAre, Name
  <2>3. Planned(resolve) = Members \cup Referenced(resolve.agents)
    BY <2>1 DEF PlanOK
  <2>4. a \in Members
    BY <2>2, <2>3, ReferencedParts, TeamAssumption
  <2>5. c \in Referenced(resolve.agents) /\ c \in Component
    BY <2>2, <2>4, ReferencedParts
  <2> QED
    BY <2>1, <2>3, <2>5 DEF FilesAre, Name
<1>5. InstalledAsPacked
  BY DEF InstalledAsPacked, InstallOK
<1> QED
  BY <1>1, <1>2, <1>3, <1>4, <1>5 DEF PlansAreDelivered

LEMMA DeliveryInit ==
  TeamInit => DeliveryInv
<1> SUFFICES ASSUME TeamInit PROVE DeliveryInv
  OBVIOUS
<1>1. /\ resolve.pc = "idle" /\ resolve.files = Nothing /\ resolve.plan = Nothing
      /\ resolve.agents = [a \in Agent |-> NoPart]
      /\ edits = {} /\ archive = NoPart
      /\ install = [pc |-> "idle", stage |-> NoPart, dest |-> NoPart]
      /\ bundle = [Nothing EXCEPT ![CHOOSE c \in Component : TRUE] = 0]
  BY DEF TeamInit, NoResolve
<1>2. Members = {} /\ Planned(resolve) = {}
  BY <1>1 DEF Members, Planned, Nothing
<1>3. ReadOK /\ PlanOK
  BY <1>1, <1>2 DEF ReadOK, PlanOK, Walked
<1>4. BundleOK
  BY <1>1 DEF BundleOK, Nothing
<1>5. PackOK
  BY <1>1 DEF PackOK
<1>6. InstallOK
  BY <1>1 DEF InstallOK
<1> QED
  BY <1>3, <1>4, <1>5, <1>6, TeamTypesInit, WalkInit DEF DeliveryInv

\* What each step of the resolver does to the fields of the command.
Same(fields) == \A f \in fields : resolve'[f] = resolve[f]
Rest == UNCHANGED <<defs, bundle, archive, install, edits>>

LEMMA StartMoves ==
  ASSUME TeamTypes, NEW cmd, StartResolve(cmd)
  PROVE  /\ resolve.pc = "idle" /\ Same({"agents", "plan", "files"}) /\ Rest
         /\ \/ resolve'.pc = "refused"
            \/ resolve'.pc = "load" /\ resolve'.left = defs.members
<1>1. resolve.pc = "idle" /\ Rest
  BY DEF StartResolve, Rest
<1>2. CASE TeamLoads(defs)
  BY <1>1, <1>2 DEF StartResolve, TeamTypes, Resolve, Same
<1>3. CASE ~TeamLoads(defs)
  BY <1>1, <1>3 DEF StartResolve, TeamTypes, Resolve, Same, Refused
<1> QED
  BY <1>2, <1>3

LEMMA LoadMoves ==
  ASSUME TeamTypes, LoadAgent
  PROVE  /\ resolve.pc = "load" /\ Same({"plan", "files", "cmd"}) /\ Rest
         /\ \/ resolve'.pc = "refused" /\ Same({"agents"})
            \/ \E a \in resolve.left :
                 /\ a \in Agent
                 /\ resolve'.agents = [resolve.agents EXCEPT ![a] = defs.agents[a]]
                 /\ resolve'.left = resolve.left \ {a}
                 /\ resolve'.pc = IF resolve'.left = {} THEN "graph" ELSE "load"
<1> DEFINE a == CHOOSE b \in resolve.left : TRUE
<1>1. resolve.pc = "load" /\ Rest
  BY DEF LoadAgent, Rest
<1>2. a \in resolve.left /\ a \in Agent
  BY <1>1 DEF TeamTypes
<1>3. CASE ~AgentLoads(defs, a)
  <2>1. resolve' = Refused("agent")
    BY <1>3 DEF LoadAgent
  <2> QED
    BY <1>1, <2>1 DEF Refused, TeamTypes, Resolve, Same
<1>4. CASE AgentLoads(defs, a)
  <2>1. resolve' = [resolve EXCEPT !.agents[a] = defs.agents[a], !.left = resolve.left \ {a},
                             !.pc = IF resolve.left \ {a} = {} THEN "graph" ELSE "load"]
    BY <1>4 DEF LoadAgent
  <2> HIDE DEF a
  <2>2. /\ resolve'.agents = [resolve.agents EXCEPT ![a] = defs.agents[a]]
        /\ resolve'.left = resolve.left \ {a}
        /\ resolve'.pc = IF resolve'.left = {} THEN "graph" ELSE "load"
    BY <2>1 DEF TeamTypes, Resolve
  <2>3. Same({"plan", "files", "cmd"})
    BY <2>1 DEF TeamTypes, Resolve, Same
  <2> QED
    BY <1>1, <1>2, <2>2, <2>3
<1> QED
  BY <1>3, <1>4

LEMMA WalkMoves ==
  ASSUME TeamTypes, CheckDelegates \/ VisitMember \/ VisitDelegate \/ VisitReturns
  PROVE  /\ resolve.pc \in {"graph", "walk"} /\ resolve'.pc \in {"walk", "hash", "refused"}
         /\ Same({"agents", "plan", "files", "cmd"}) /\ Rest
         /\ resolve'.pc = "hash" => resolve'.left = Members
<1>1. resolve.pc \in {"graph", "walk"} /\ Rest
  BY DEF CheckDelegates, VisitMember, VisitDelegate, VisitReturns, Rest
<1>2. CASE CheckDelegates
  BY <1>1, <1>2 DEF CheckDelegates, Refused, TeamTypes, Resolve, Same
<1>3. CASE VisitReturns
  BY <1>1, <1>3 DEF VisitReturns, TeamTypes, Resolve, Same
<1>4. ASSUME NEW r, NEW a, r.agents = resolve.agents, r.plan = resolve.plan, r.pc = resolve.pc,
             r.files = resolve.files, r.cmd = resolve.cmd, r = [resolve EXCEPT !.stack = r.stack],
             resolve' = Push(r, a)
      PROVE  resolve'.pc = resolve.pc /\ Same({"agents", "plan", "files", "cmd"})
  <2>1. resolve' = [r EXCEPT !.colour = [r.colour EXCEPT ![a] = 1],
                             !.stack = <<[at |-> a, todo |-> Delegates(a)]>> \o r.stack]
    BY <1>4 DEF Push
  <2> QED
    BY <1>4, <2>1 DEF TeamTypes, Resolve, Same
<1>5. CASE VisitMember
  <2>1. resolve.pc = "walk"
    BY <1>5 DEF VisitMember
  <2>2. CASE resolve' = [resolve EXCEPT !.pc = "hash", !.left = Members]
    BY <1>1, <2>2 DEF TeamTypes, Resolve, Same
  <2>3. ASSUME NEW a \in Agent, resolve' = Push(resolve, a)
        PROVE  resolve'.pc = resolve.pc /\ Same({"agents", "plan", "files", "cmd"})
    <3>1. resolve = [resolve EXCEPT !.stack = resolve.stack]
      BY DEF TeamTypes, Resolve
    <3> QED
      BY <1>4, <2>3, <3>1
  <2> QED
    BY <1>1, <1>5, <2>1, <2>2, <2>3 DEF VisitMember, Members
<1>6. CASE VisitDelegate
  <2>1. resolve.pc = "walk"
    BY <1>6 DEF VisitDelegate
  <2> DEFINE rest(a) == [resolve EXCEPT !.stack[1].todo = @ \ {a}]
  <2>2. PICK a \in Head(resolve.stack).todo :
          resolve' = CASE resolve.colour[a] = 1 -> Refused("cycle")
                       [] resolve.colour[a] = 2 -> rest(a)
                       [] OTHER -> Push(rest(a), a)
    BY <1>6 DEF VisitDelegate
  <2> DEFINE r == rest(a)
             stack == [resolve.stack EXCEPT ![1].todo = @ \ {a}]
  <2>3. r = [resolve EXCEPT !.stack = stack]
    OBVIOUS
  <2> HIDE DEF stack, r
  <2>4. /\ r.agents = resolve.agents /\ r.plan = resolve.plan /\ r.pc = resolve.pc
        /\ r.files = resolve.files /\ r.cmd = resolve.cmd /\ r = [resolve EXCEPT !.stack = r.stack]
    BY <2>3 DEF TeamTypes, Resolve
  <2>5. CASE resolve' = Refused("cycle")
    BY <1>1, <2>5 DEF Refused, TeamTypes, Resolve, Same
  <2>6. CASE resolve' = r
    BY <1>1, <2>1, <2>4, <2>6 DEF Same
  <2>7. CASE resolve' = Push(r, a)
    BY <1>1, <1>4, <2>1, <2>4, <2>7
  <2> QED
    BY <2>2, <2>5, <2>6, <2>7 DEF r
<1> QED
  BY <1>2, <1>3, <1>5, <1>6

LEMMA HashMoves ==
  ASSUME TeamTypes, NEW a \in Agent, HashAgent(a)
  PROVE  /\ resolve.pc = "hash" /\ a \in resolve.left /\ a \in Members
         /\ Same({"agents", "files", "cmd"}) /\ Rest
         /\ \E p \in AgentPlan : p.digest = defs.version[a] /\ resolve'.plan = [resolve.plan EXCEPT ![a] = p]
         /\ \/ resolve'.pc = "parts" /\ resolve'.left = Referenced(resolve.agents) /\ resolve.left = {a}
            \/ resolve'.pc = "hash" /\ resolve'.left = resolve.left \ {a}
<1>1. resolve.pc = "hash" /\ a \in resolve.left /\ a \in Members /\ Rest
  BY DEF HashAgent, TeamTypes, Rest
<1> DEFINE p == [uses |-> resolve.agents[a].uses, digest |-> defs.version[a]]
<1>2. p \in AgentPlan /\ p.digest = defs.version[a]
  BY <1>1 DEF TeamTypes, Resolve, Project, AgentFile, AgentPlan, Members, Name
<1>3. resolve' = [resolve EXCEPT !.plan = [resolve.plan EXCEPT ![a] = p],
                   !.left = IF resolve.left \ {a} = {} THEN Referenced(resolve.agents)
                            ELSE resolve.left \ {a},
                   !.pc = IF resolve.left \ {a} = {} THEN "parts" ELSE "hash"]
  BY DEF HashAgent
<1> HIDE DEF p
<1>4. /\ resolve'.plan = [resolve.plan EXCEPT ![a] = p] /\ Same({"agents", "files", "cmd"})
      /\ resolve'.left = IF resolve.left \ {a} = {} THEN Referenced(resolve.agents)
                         ELSE resolve.left \ {a}
      /\ resolve'.pc = IF resolve.left \ {a} = {} THEN "parts" ELSE "hash"
  BY <1>3 DEF TeamTypes, Resolve, Same
<1> QED
  BY <1>1, <1>2, <1>4

LEMMA PartMoves ==
  ASSUME TeamTypes, NEW c \in Component, ResolveComponent(c)
  PROVE  /\ resolve.pc = "parts" /\ c \in resolve.left /\ Same({"agents", "files", "cmd"}) /\ Rest
         /\ \/ resolve'.pc = "refused" /\ Same({"plan"})
            \/ /\ resolve'.pc = "parts" /\ resolve'.left = resolve.left \ {c}
               /\ \E p \in PartPlan :
                    /\ p.digest = defs.version[c]
                    /\ c \in TeamTool => /\ p.provider = SelectVariant(defs, c, resolve.cmd)
                                         /\ SelectVariant(defs, c, resolve.cmd) # NoPart
                    /\ resolve'.plan = [resolve.plan EXCEPT ![c] = p]
<1>1. resolve.pc = "parts" /\ c \in resolve.left /\ Rest
  BY DEF ResolveComponent, Rest
<1> DEFINE origin == ChooseComponent(defs, c)
           provider == IF c \in TeamTool THEN SelectVariant(defs, c, resolve.cmd) ELSE "none"
<1>2. CASE origin = NoPart \/ ~ComponentLoads(defs, c) \/ provider = NoPart
  <2>1. resolve' = Refused("component")
    BY <1>2 DEF ResolveComponent
  <2> QED
    BY <1>1, <2>1 DEF Refused, TeamTypes, Resolve, Same
<1>3. CASE ~ (origin = NoPart \/ ~ComponentLoads(defs, c) \/ provider = NoPart)
  <2>1. origin \in {"local", "installed"}
    BY <1>3 DEF ChooseComponent
  <2>2. provider \in Provider \cup {"none"}
    BY <1>3, VariantTyped DEF TeamTypes
  <2> DEFINE p == [origin |-> origin, provider |-> provider, digest |-> defs.version[c]]
  <2>3. resolve' = [resolve EXCEPT !.left = resolve.left \ {c},
                                   !.plan = [resolve.plan EXCEPT ![c] = p]]
    BY <1>3 DEF ResolveComponent
  <2>4. p \in PartPlan /\ p.digest = defs.version[c] /\ p.provider = provider
    <3> HIDE DEF origin, provider
    <3> QED
      BY <2>1, <2>2 DEF TeamTypes, Project, PartPlan, Name
  <2>5. c \in TeamTool => provider = SelectVariant(defs, c, resolve.cmd) /\ provider # NoPart
    BY <1>3
  <2> HIDE DEF p, provider
  <2>6. /\ resolve'.plan = [resolve.plan EXCEPT ![c] = p] /\ Same({"agents", "files", "cmd"})
        /\ resolve'.left = resolve.left \ {c} /\ resolve'.pc = resolve.pc
    BY <2>3 DEF TeamTypes, Resolve, Same
  <2> QED
    BY <1>1, <2>4, <2>5, <2>6
<1> QED
  BY <1>2, <1>3

LEMMA FinishMoves ==
  ASSUME TeamTypes, FinishPlan
  PROVE  /\ resolve.pc = "parts" /\ resolve.left = {} /\ Same({"agents", "plan", "files", "cmd"})
         /\ UNCHANGED <<defs, archive, install, edits>> /\ resolve'.left = Planned(resolve)
         /\ \/ resolve.cmd \in {"plan", "run"} /\ resolve'.pc = "done" /\ bundle' = bundle
            \/ resolve.cmd = "export" /\ resolve'.pc = "render" /\ bundle' = Nothing
            \/ resolve.cmd # "export" /\ resolve'.pc = "closure" /\ bundle' = bundle
<1>1. /\ resolve.pc = "parts" /\ resolve.left = {} /\ UNCHANGED <<defs, archive, install, edits>>
      /\ bundle' = IF resolve.cmd = "export" THEN Nothing ELSE bundle
  BY DEF FinishPlan
<1>2. /\ Same({"agents", "plan", "files", "cmd"}) /\ resolve'.left = Planned(resolve)
      /\ resolve'.pc = CASE resolve.cmd \in {"plan", "run"} -> "done"
                         [] resolve.cmd = "export" -> "render"
                         [] OTHER -> "closure"
  BY DEF FinishPlan, TeamTypes, Resolve, Same
<1> QED
  BY <1>1, <1>2

LEMMA RenderMoves ==
  ASSUME TeamTypes, NEW n \in Name, Render(n)
  PROVE  /\ resolve.pc = "render" /\ n \in resolve.left /\ Same({"agents", "plan", "files", "cmd"})
         /\ UNCHANGED <<defs, archive, install, edits>>
         /\ \/ resolve'.pc = "refused" /\ bundle' = bundle
            \/ /\ bundle' = [bundle EXCEPT ![FileOf(n)] = RenderedAs(n)]
               /\ resolve'.left = resolve.left \ {n}
               /\ resolve'.pc = IF resolve'.left = {} THEN "done" ELSE "render"
<1>1. resolve.pc = "render" /\ n \in resolve.left /\ UNCHANGED <<defs, archive, install, edits>>
  BY DEF Render
<1>2. CASE resolve' = Refused("file") /\ bundle' = bundle
  BY <1>1, <1>2 DEF Refused, TeamTypes, Resolve, Same
<1>3. CASE /\ bundle' = [bundle EXCEPT ![FileOf(n)] = RenderedAs(n)]
           /\ resolve' = [resolve EXCEPT !.left = resolve.left \ {n},
                            !.pc = IF resolve.left \ {n} = {} THEN "done" ELSE @]
  BY <1>1, <1>3 DEF TeamTypes, Resolve, Same
<1> QED
  BY <1>2, <1>3 DEF Render

LEMMA AddMoves ==
  ASSUME TeamTypes, NEW n \in Name, AddDir(n)
  PROVE  /\ resolve.pc = "closure" /\ n \in resolve.left /\ Same({"agents", "plan", "cmd"}) /\ Rest
         /\ \/ resolve'.pc = "refused" /\ Same({"files"})
            \/ /\ resolve'.pc = "closure" /\ resolve'.left = resolve.left \ {n}
               /\ \E f \in Packed : /\ n \in Agent => f.uses = defs.agents[n].uses
                                    /\ resolve'.files = [resolve.files EXCEPT ![n] = f]
<1>1. resolve.pc = "closure" /\ n \in resolve.left /\ Rest
  BY DEF AddDir, Rest
<1>2. CASE n \in Component /\ resolve.plan[n].origin \notin defs.place[n]
  <2>1. resolve' = Refused("file")
    BY <1>2 DEF AddDir
  <2> QED
    BY <1>1, <2>1 DEF Refused, TeamTypes, Resolve, Same
<1>3. CASE ~ (n \in Component /\ resolve.plan[n].origin \notin defs.place[n])
  <2> DEFINE f == [version |-> defs.version[n],
                   uses |-> IF n \in Agent THEN defs.agents[n].uses ELSE {}]
  <2>1. f \in Packed /\ (n \in Agent => f.uses = defs.agents[n].uses)
    BY DEF TeamTypes, Project, AgentFile, Packed
  <2>2. resolve' = [resolve EXCEPT !.left = resolve.left \ {n},
                                   !.files = [resolve.files EXCEPT ![n] = f]]
    BY <1>3 DEF AddDir
  <2> HIDE DEF f
  <2>3. /\ resolve'.left = resolve.left \ {n} /\ resolve'.files = [resolve.files EXCEPT ![n] = f]
        /\ resolve'.pc = resolve.pc /\ Same({"agents", "plan", "cmd"})
    BY <2>2 DEF TeamTypes, Resolve, Same
  <2> QED
    BY <1>1, <2>1, <2>3
<1> QED
  BY <1>2, <1>3

LEMMA WriteMoves ==
  ASSUME TeamTypes, WriteArchive
  PROVE  /\ resolve.pc = "closure" /\ resolve.left = {} /\ resolve'.pc = "done"
         /\ Same({"agents", "plan", "files", "cmd", "left"})
         /\ UNCHANGED <<defs, bundle, install, edits>>
         /\ archive' = [manifest |-> resolve.files, files |-> resolve.files, plan |-> resolve.plan]
BY DEF WriteArchive, TeamTypes, Resolve, Same

Editing ==
  \/ \E a \in Agent : EditAgent(a) \/ BreakAgent(a)
  \/ \E c \in Component : EditComponent(c) \/ RemoveComponent(c)
Installing ==
  \/ BeginInstall \/ VerifyStage \/ MoveIntoPlace \/ KillInstall
  \/ \E n \in Name : Damage(n) \/ Unzip(n)
Walking == CheckDelegates \/ VisitMember \/ VisitDelegate \/ VisitReturns

LEMMA EditMoves ==
  ASSUME TeamTypes, Editing
  PROVE  /\ UNCHANGED <<resolve, bundle, archive, install>> /\ Going(resolve)
         /\ edits \subseteq edits' /\ edits' # {}
         /\ edits' \cap Agent = {} => defs'.agents = defs.agents
<1>1. ASSUME NEW n, NEW d, Touch(n, d)
      PROVE  /\ UNCHANGED <<resolve, bundle, archive, install>> /\ Going(resolve)
             /\ edits' = edits \cup {n} /\ defs' = [d EXCEPT !.version[n] = @ + 1]
  BY <1>1 DEF Touch
<1>2. CASE \E a \in Agent : EditAgent(a) \/ BreakAgent(a)
  <2>1. PICK a \in Agent : \E d : Touch(a, d)
    BY <1>2 DEF EditAgent, BreakAgent
  <2> QED
    BY <1>1, <2>1
<1>3. CASE \E c \in Component : EditComponent(c) \/ RemoveComponent(c)
  <2>1. PICK c \in Component : Touch(c, defs) \/ Touch(c, [defs EXCEPT !.place[c] = {}])
    BY <1>3 DEF EditComponent, RemoveComponent
  <2>2. CASE Touch(c, defs)
    <3>1. defs'.agents = defs.agents
      BY <1>1, <2>2 DEF TeamTypes, Project
    <3> QED
      BY <1>1, <2>2, <3>1
  <2>3. CASE Touch(c, [defs EXCEPT !.place[c] = {}])
    <3> DEFINE d == [defs EXCEPT !.place[c] = {}]
    <3>1. d \in Project /\ d.agents = defs.agents
      BY DEF TeamTypes, Project
    <3> HIDE DEF d
    <3>2. defs' = [d EXCEPT !.version[c] = @ + 1]
      BY <1>1, <2>3 DEF d
    <3>3. defs'.agents = defs.agents
      BY <3>1, <3>2 DEF Project
    <3> QED
      BY <1>1, <2>3, <3>3
  <2> QED
    BY <2>1, <2>2, <2>3
<1> QED
  BY <1>2, <1>3 DEF Editing

LEMMA InstallMoves ==
  Installing => UNCHANGED <<defs, resolve, bundle, edits>>
BY DEF Installing, BeginInstall, VerifyStage, MoveIntoPlace, KillInstall, Damage, Unzip

\* The actions of the team, grouped by what they move.
LEMMA TeamMoves ==
  ASSUME TeamNext, NEW Goal,
         \A cmd \in {"plan", "run", "export", "pack"} : StartResolve(cmd) => Goal,
         LoadAgent => Goal, Walking => Goal, \A a \in Agent : HashAgent(a) => Goal,
         \A c \in Component : ResolveComponent(c) => Goal, FinishPlan => Goal,
         \A n \in Name : Render(n) => Goal, \A n \in Name : AddDir(n) => Goal,
         WriteArchive => Goal, Editing => Goal, Installing => Goal
  PROVE  Goal
BY DEF TeamNext, Editing, Installing, Walking

LEMMA ReadStep ==
  ASSUME DeliveryInv, TeamNext
  PROVE  ReadOK'
<1>1. TeamTypes /\ ReadOK
  BY DEF DeliveryInv
<1>2. ASSUME Same({"agents"}), UNCHANGED <<defs, edits>>, resolve'.pc = "idle" => resolve.pc = "idle",
             resolve'.pc = "load" =>
               Members = defs.members \ resolve'.left /\ resolve'.left \subseteq defs.members,
             resolve'.pc \in {"graph", "walk"} \cup Walked => resolve.pc \in {"graph", "walk"} \cup Walked
      PROVE  ReadOK'
  <2>1. Members' = Members
    BY <1>2 DEF Members, Same
  <2>2. resolve'.agents = resolve.agents
    BY <1>2 DEF Same
  <2> QED
    BY <1>1, <1>2, <2>1, <2>2 DEF ReadOK
<1>3. ASSUME NEW cmd, StartResolve(cmd) PROVE ReadOK'
  <2>1. /\ resolve.pc = "idle" /\ Same({"agents"}) /\ UNCHANGED <<defs, edits>>
        /\ \/ resolve'.pc = "refused"
           \/ resolve'.pc = "load" /\ resolve'.left = defs.members
    BY <1>1, <1>3, StartMoves DEF Same, Rest
  <2>2. Members = {}
    BY <1>1, <2>1 DEF ReadOK
  <2> QED
    BY <1>2, <2>1, <2>2 DEF Walked
<1>4. ASSUME LoadAgent PROVE ReadOK'
  <2>1. resolve.pc = "load" /\ UNCHANGED <<defs, edits>>
    BY <1>1, <1>4, LoadMoves DEF Rest
  <2>2. CASE resolve'.pc = "refused" /\ Same({"agents"})
    BY <1>2, <2>1, <2>2 DEF Walked
  <2>3. ASSUME NEW a \in resolve.left, a \in Agent,
               resolve'.agents = [resolve.agents EXCEPT ![a] = defs.agents[a]],
               resolve'.left = resolve.left \ {a},
               resolve'.pc = IF resolve'.left = {} THEN "graph" ELSE "load"
        PROVE  ReadOK'
    <3>1. defs.agents[a] # NoPart
      BY <1>1, <2>3, TeamAssumption DEF TeamTypes, Project
    <3>2. Members' = Members \cup {a}
      BY <1>1, <2>3, <3>1 DEF Members, TeamTypes, Resolve
    <3>3. \A b \in Members' : resolve'.agents[b] = IF b = a THEN defs.agents[a] ELSE resolve.agents[b]
      BY <1>1, <2>3 DEF TeamTypes, Resolve, Members
    <3>4. edits' \cap Agent = {} => \A b \in Members' : resolve'.agents[b] = defs'.agents[b]
      BY <1>1, <2>1, <3>2, <3>3 DEF ReadOK
    <3>5. resolve'.pc # "idle"
      BY <2>3
    <3>6. edits' = {} => Members' = defs'.members \ resolve'.left /\ resolve'.left \subseteq defs'.members
      BY <1>1, <2>1, <2>3, <3>2 DEF ReadOK
    <3>7. resolve'.pc # "load" => resolve'.left = {}
      BY <2>3
    <3> QED
      BY <3>4, <3>5, <3>6, <3>7 DEF ReadOK, Walked
  <2> QED
    BY <1>1, <1>4, <2>2, <2>3, LoadMoves
<1>5. ASSUME Walking PROVE ReadOK'
  <2>1. /\ resolve.pc \in {"graph", "walk"} /\ resolve'.pc \in {"walk", "hash", "refused"}
        /\ Same({"agents"}) /\ UNCHANGED <<defs, edits>>
    BY <1>1, <1>5, WalkMoves DEF Walking, Same, Rest
  <2> QED
    BY <1>2, <2>1
<1>6. ASSUME Same({"agents"}), UNCHANGED <<defs, edits>>, resolve.pc \in Walked,
             resolve'.pc \in Walked \cup {"refused"}
      PROVE  ReadOK'
  BY <1>2, <1>6 DEF Walked
<1>7. ASSUME NEW a \in Agent, HashAgent(a) PROVE ReadOK'
  <2>1. /\ resolve.pc = "hash" /\ resolve'.pc \in {"hash", "parts"}
        /\ Same({"agents"}) /\ UNCHANGED <<defs, edits>>
    BY <1>1, <1>7, HashMoves DEF Same, Rest
  <2> QED
    BY <1>6, <2>1 DEF Walked
<1>8. ASSUME NEW c \in Component, ResolveComponent(c) PROVE ReadOK'
  <2>1. /\ resolve.pc = "parts" /\ resolve'.pc \in {"parts", "refused"}
        /\ Same({"agents"}) /\ UNCHANGED <<defs, edits>>
    BY <1>1, <1>8, PartMoves DEF Same, Rest
  <2> QED
    BY <1>6, <2>1 DEF Walked
<1>9. ASSUME FinishPlan PROVE ReadOK'
  <2>1. /\ resolve.pc = "parts" /\ resolve'.pc \in {"done", "render", "closure"}
        /\ Same({"agents"}) /\ UNCHANGED <<defs, edits>>
    BY <1>1, <1>9, FinishMoves DEF Same
  <2> QED
    BY <1>6, <2>1 DEF Walked
<1>10. ASSUME NEW n \in Name, Render(n) PROVE ReadOK'
  <2>1. /\ resolve.pc = "render" /\ resolve'.pc \in {"done", "render", "refused"}
        /\ Same({"agents"}) /\ UNCHANGED <<defs, edits>>
    BY <1>1, <1>10, RenderMoves DEF Same
  <2> QED
    BY <1>6, <2>1 DEF Walked
<1>11. ASSUME NEW n \in Name, AddDir(n) PROVE ReadOK'
  <2>1. /\ resolve.pc = "closure" /\ resolve'.pc \in {"closure", "refused"}
        /\ Same({"agents"}) /\ UNCHANGED <<defs, edits>>
    BY <1>1, <1>11, AddMoves DEF Same, Rest
  <2> QED
    BY <1>6, <2>1 DEF Walked
<1>12. ASSUME WriteArchive PROVE ReadOK'
  <2>1. /\ resolve.pc = "closure" /\ resolve'.pc = "done"
        /\ Same({"agents"}) /\ UNCHANGED <<defs, edits>>
    BY <1>1, <1>12, WriteMoves DEF Same
  <2> QED
    BY <1>6, <2>1 DEF Walked
<1>13. ASSUME Editing PROVE ReadOK'
  <2>1. /\ UNCHANGED resolve /\ resolve.pc # "idle" /\ edits \subseteq edits' /\ edits' # {}
        /\ edits' \cap Agent = {} => defs'.agents = defs.agents
    BY <1>1, <1>13, EditMoves DEF Going
  <2>2. Members' = Members
    BY <2>1 DEF Members
  <2>3. edits' \cap Agent = {} => edits \cap Agent = {}
    BY <2>1
  <2> QED
    BY <1>1, <2>1, <2>2, <2>3 DEF ReadOK
<1>14. ASSUME Installing PROVE ReadOK'
  BY <1>1, <1>14, InstallMoves DEF ReadOK, Members
<1> QED
  BY <1>3, <1>4, <1>5, <1>7, <1>8, <1>9, <1>10, <1>11, <1>12, <1>13, <1>14, TeamMoves

\* Nothing is not a plan of anything.
LEMMA PlanGrows ==
  ASSUME TeamTypes, NEW n \in Name, NEW p \in AgentPlan \cup PartPlan,
         resolve'.plan = [resolve.plan EXCEPT ![n] = p]
  PROVE  /\ Planned(resolve)' = Planned(resolve) \cup {n}
         /\ \A m \in Name : resolve'.plan[m] = IF m = n THEN p ELSE resolve.plan[m]
BY TeamAssumption DEF TeamTypes, Resolve, Planned

LEMMA PlanStep ==
  ASSUME DeliveryInv, TeamNext
  PROVE  PlanOK'
<1>1. TeamTypes /\ PlanOK /\ ReadOK
  BY DEF DeliveryInv
<1>2. ASSUME Same({"agents"})
      PROVE  Members' = Members /\ Referenced(resolve.agents)' = Referenced(resolve.agents)
  BY <1>2 DEF Same, Members, Referenced
<1>3. ASSUME Same({"plan"}) PROVE Planned(resolve)' = Planned(resolve)
  BY <1>3 DEF Same, Planned
<1>4. ASSUME Planned(resolve) = {}, Same({"plan"}),
             resolve'.pc \in {"load", "graph", "walk", "refused"}
      PROVE  PlanOK'
  BY <1>3, <1>4 DEF PlanOK
<1>5. ASSUME NEW cmd, StartResolve(cmd) PROVE PlanOK'
  BY <1>1, <1>4, <1>5, StartMoves DEF PlanOK, Same
<1>6. ASSUME LoadAgent PROVE PlanOK'
  <2>1. resolve.pc = "load" /\ Same({"plan"}) /\ resolve'.pc \in {"load", "graph", "refused"}
    BY <1>1, <1>6, LoadMoves DEF Same
  <2> QED
    BY <1>1, <1>4, <2>1 DEF PlanOK
<1>7. ASSUME Walking PROVE PlanOK'
  <2>1. /\ resolve.pc \in {"graph", "walk"} /\ Same({"plan"}) /\ Same({"agents"})
        /\ resolve'.pc \in {"walk", "hash", "refused"}
        /\ resolve'.pc = "hash" => resolve'.left = Members
    BY <1>1, <1>7, WalkMoves DEF Walking, Same
  <2>2. Planned(resolve) = {}
    BY <1>1, <2>1 DEF PlanOK
  <2>3. CASE resolve'.pc = "hash"
    BY <1>2, <1>3, <2>1, <2>2, <2>3 DEF PlanOK
  <2> QED
    BY <1>4, <2>1, <2>2, <2>3
\* What is planned already does not change, as long as nothing is edited.
<1>8. ASSUME NEW n \in Name, NEW p \in AgentPlan \cup PartPlan, UNCHANGED <<defs, edits>>,
             Same({"cmd"}), resolve'.plan = [resolve.plan EXCEPT ![n] = p],
             p.digest = defs.version[n],
             n \in TeamTool => /\ p.provider = SelectVariant(defs, n, resolve.cmd)
                               /\ SelectVariant(defs, n, resolve.cmd) # NoPart
      PROVE  edits' = {} =>
               /\ \A m \in Planned(resolve)' : resolve'.plan[m].digest = defs'.version[m]
               /\ \A t \in TeamTool \cap Planned(resolve)' :
                    /\ resolve'.plan[t].provider = SelectVariant(defs, t, resolve.cmd)'
                    /\ SelectVariant(defs, t, resolve.cmd)' # NoPart
  <2>1. /\ Planned(resolve)' = Planned(resolve) \cup {n}
        /\ \A m \in Name : resolve'.plan[m] = IF m = n THEN p ELSE resolve.plan[m]
    BY <1>1, <1>8, PlanGrows
  <2>2. \A t : SelectVariant(defs, t, resolve.cmd)' = SelectVariant(defs, t, resolve.cmd)
    BY <1>8 DEF Same
  <2>3. Planned(resolve) \subseteq Name
    BY DEF Planned
  <2> QED
    BY <1>1, <1>8, <2>1, <2>2, <2>3 DEF PlanOK
<1>9. ASSUME NEW a \in Agent, HashAgent(a) PROVE PlanOK'
  <2>1. /\ resolve.pc = "hash" /\ a \in resolve.left /\ a \in Members /\ a \in Name
        /\ Same({"agents"}) /\ Same({"cmd"}) /\ UNCHANGED <<defs, edits>>
        /\ \/ resolve'.pc = "parts" /\ resolve'.left = Referenced(resolve.agents) /\ resolve.left = {a}
           \/ resolve'.pc = "hash" /\ resolve'.left = resolve.left \ {a}
    BY <1>1, <1>9, HashMoves DEF Same, Rest, Name
  <2>2. PICK p \in AgentPlan : p.digest = defs.version[a] /\ resolve'.plan = [resolve.plan EXCEPT ![a] = p]
    BY <1>1, <1>9, HashMoves
  <2>3. a \notin TeamTool
    BY TeamAssumption DEF Component
  <2>4. Planned(resolve)' = Planned(resolve) \cup {a}
    BY <1>1, <2>1, <2>2, PlanGrows
  <2>5. Planned(resolve) = Members \ resolve.left
    BY <1>1, <2>1 DEF PlanOK
  <2>6. Members' = Members /\ Referenced(resolve.agents)' = Referenced(resolve.agents)
    BY <1>2, <2>1
  <2>7. edits' = {} =>
          /\ \A m \in Planned(resolve)' : resolve'.plan[m].digest = defs'.version[m]
          /\ \A t \in TeamTool \cap Planned(resolve)' :
               /\ resolve'.plan[t].provider = SelectVariant(defs, t, resolve.cmd)'
               /\ SelectVariant(defs, t, resolve.cmd)' # NoPart
    BY <1>8, <2>1, <2>2, <2>3
  <2>8. resolve'.pc = "hash" => Planned(resolve)' = Members' \ resolve'.left
    BY <2>1, <2>4, <2>5, <2>6
  <2>9. resolve'.pc = "parts" =>
          /\ resolve'.left \subseteq Referenced(resolve.agents)'
          /\ Planned(resolve)' = Members' \cup (Referenced(resolve.agents)' \ resolve'.left)
    BY <2>1, <2>4, <2>5, <2>6
  <2>10. Planned(resolve)' \subseteq Members' \cup Referenced(resolve.agents)'
    BY <2>1, <2>4, <2>5, <2>6
  <2> QED
    BY <2>1, <2>7, <2>8, <2>9, <2>10 DEF PlanOK
<1>10. ASSUME NEW c \in Component, ResolveComponent(c) PROVE PlanOK'
  <2>1. /\ resolve.pc = "parts" /\ c \in resolve.left /\ c \in Name
        /\ Same({"agents"}) /\ Same({"cmd"}) /\ UNCHANGED <<defs, edits>>
    BY <1>1, <1>10, PartMoves DEF Same, Rest, Name
  <2>2. /\ resolve.left \subseteq Referenced(resolve.agents)
        /\ Planned(resolve) = Members \cup (Referenced(resolve.agents) \ resolve.left)
    BY <1>1, <2>1 DEF PlanOK
  <2>3. Members' = Members /\ Referenced(resolve.agents)' = Referenced(resolve.agents)
    BY <1>2, <2>1
  <2>4. CASE resolve'.pc = "refused" /\ Same({"plan"})
    <3>1. Planned(resolve)' = Planned(resolve) /\ resolve'.plan = resolve.plan
      BY <1>3, <2>4 DEF Same
    <3>2. \A t : SelectVariant(defs, t, resolve.cmd)' = SelectVariant(defs, t, resolve.cmd)
      BY <2>1 DEF Same
    <3> QED
      BY <1>1, <2>1, <2>3, <2>4, <3>1, <3>2 DEF PlanOK
  <2>5. ASSUME resolve'.pc = "parts", resolve'.left = resolve.left \ {c}, NEW p \in PartPlan,
               p.digest = defs.version[c],
               c \in TeamTool => /\ p.provider = SelectVariant(defs, c, resolve.cmd)
                                 /\ SelectVariant(defs, c, resolve.cmd) # NoPart,
               resolve'.plan = [resolve.plan EXCEPT ![c] = p]
        PROVE  PlanOK'
    <3>1. Planned(resolve)' = Planned(resolve) \cup {c}
      BY <1>1, <2>1, <2>5, PlanGrows
    <3>2. edits' = {} =>
            /\ \A m \in Planned(resolve)' : resolve'.plan[m].digest = defs'.version[m]
            /\ \A t \in TeamTool \cap Planned(resolve)' :
                 /\ resolve'.plan[t].provider = SelectVariant(defs, t, resolve.cmd)'
                 /\ SelectVariant(defs, t, resolve.cmd)' # NoPart
      BY <1>8, <2>1, <2>5
    <3>3. /\ resolve'.left \subseteq Referenced(resolve.agents)'
          /\ Planned(resolve)' = Members' \cup (Referenced(resolve.agents)' \ resolve'.left)
      BY <2>1, <2>2, <2>3, <2>5, <3>1
    <3>4. Planned(resolve)' \subseteq Members' \cup Referenced(resolve.agents)'
      BY <3>3
    <3> QED
      BY <2>5, <3>2, <3>3, <3>4 DEF PlanOK
  <2> QED
    BY <1>1, <1>10, <2>4, <2>5, PartMoves
\* From then on the plan stays.
<1>11. ASSUME Same({"agents"}), Same({"plan"}), Same({"cmd"}), UNCHANGED <<defs, edits>>,
              resolve'.pc \in {"render", "closure", "done", "refused"},
              Planned(resolve) = Members \cup Referenced(resolve.agents)
       PROVE  PlanOK'
  <2>1. /\ Members' = Members /\ Referenced(resolve.agents)' = Referenced(resolve.agents)
        /\ Planned(resolve)' = Planned(resolve) /\ resolve'.plan = resolve.plan
    BY <1>2, <1>3, <1>11 DEF Same
  <2>2. \A t : SelectVariant(defs, t, resolve.cmd)' = SelectVariant(defs, t, resolve.cmd)
    BY <1>11 DEF Same
  <2> QED
    BY <1>1, <1>11, <2>1, <2>2 DEF PlanOK
<1>12. ASSUME FinishPlan PROVE PlanOK'
  <2>1. /\ resolve.pc = "parts" /\ resolve.left = {} /\ resolve'.pc \in {"done", "render", "closure"}
        /\ Same({"agents"}) /\ Same({"plan"}) /\ Same({"cmd"}) /\ UNCHANGED <<defs, edits>>
    BY <1>1, <1>12, FinishMoves DEF Same
  <2> QED
    BY <1>1, <1>11, <2>1 DEF PlanOK
<1>13. ASSUME NEW n \in Name, Render(n) PROVE PlanOK'
  <2>1. /\ resolve.pc = "render" /\ resolve'.pc \in {"done", "render", "refused"}
        /\ Same({"agents"}) /\ Same({"plan"}) /\ Same({"cmd"}) /\ UNCHANGED <<defs, edits>>
    BY <1>1, <1>13, RenderMoves DEF Same
  <2> QED
    BY <1>1, <1>11, <2>1 DEF PlanOK
<1>14. ASSUME NEW n \in Name, AddDir(n) PROVE PlanOK'
  <2>1. /\ resolve.pc = "closure" /\ resolve'.pc \in {"closure", "refused"}
        /\ Same({"agents"}) /\ Same({"plan"}) /\ Same({"cmd"}) /\ UNCHANGED <<defs, edits>>
    BY <1>1, <1>14, AddMoves DEF Same, Rest
  <2> QED
    BY <1>1, <1>11, <2>1 DEF PlanOK
<1>15. ASSUME WriteArchive PROVE PlanOK'
  <2>1. /\ resolve.pc = "closure" /\ resolve'.pc = "done"
        /\ Same({"agents"}) /\ Same({"plan"}) /\ Same({"cmd"}) /\ UNCHANGED <<defs, edits>>
    BY <1>1, <1>15, WriteMoves DEF Same
  <2> QED
    BY <1>1, <1>11, <2>1 DEF PlanOK
<1>16. ASSUME Editing PROVE PlanOK'
  <2>1. UNCHANGED resolve /\ edits' # {}
    BY <1>1, <1>16, EditMoves
  <2> QED
    BY <1>1, <2>1 DEF PlanOK, Planned, Members, Referenced
<1>17. ASSUME Installing PROVE PlanOK'
  <2>1. UNCHANGED <<defs, resolve, edits>>
    BY <1>17, InstallMoves
  <2> QED
    BY <1>1, <2>1 DEF PlanOK, Planned, Members, Referenced
<1> QED
  BY <1>5, <1>6, <1>7, <1>9, <1>10, <1>12, <1>13, <1>14, <1>15, <1>16, <1>17, TeamMoves

\* Files of different names of the plan do not take each other's place.
LEMMA FileNames ==
  ASSUME TeamTypes, PlanOK
  PROVE  /\ \A n \in Name : FileOf(n) \in Name
         /\ (\A a, b \in Members : BaseOf[a] = BaseOf[b] => a = b) =>
              \A m, n \in Planned(resolve) : FileOf(m) = FileOf(n) => m = n
<1>1. \A n \in Name : FileOf(n) \in Name /\ (FileOf(n) \in Agent <=> n \in Agent)
  BY TeamAssumption DEF FileOf, Name
<1>2. ASSUME \A a, b \in Members : BaseOf[a] = BaseOf[b] => a = b,
             NEW m \in Planned(resolve), NEW n \in Planned(resolve), FileOf(m) = FileOf(n)
      PROVE  m = n
  <2>1. m \in Name /\ n \in Name /\ (m \in Agent <=> n \in Agent)
    BY <1>1, <1>2 DEF Planned
  <2>2. CASE m \in Agent
    <3>1. m \in Members /\ n \in Members
      BY <2>1, <2>2, ReferencedParts, TeamAssumption DEF PlanOK
    <3> QED
      BY <1>2, <2>1, <2>2, <3>1 DEF FileOf
  <2>3. CASE m \notin Agent
    BY <1>2, <2>1, <2>3 DEF FileOf
  <2> QED
    BY <2>2, <2>3
<1> QED
  BY <1>1, <1>2

LEMMA BundleStep ==
  ASSUME DeliveryInv, TeamNext
  PROVE  BundleOK'
<1>1. TeamTypes /\ BundleOK /\ PlanOK
  BY DEF DeliveryInv
<1>2. ASSUME Same({"plan"}), Same({"agents"})
      PROVE  Planned(resolve)' = Planned(resolve) /\ Members' = Members
  BY <1>2 DEF Same, Planned, Members
<1>3. ASSUME UNCHANGED bundle, resolve'.pc \notin {"render", "closure", "done"} PROVE BundleOK'
  BY <1>1, <1>3 DEF BundleOK
<1>4. ASSUME UNCHANGED bundle, resolve'.cmd # "export", resolve'.pc # "render" PROVE BundleOK'
  BY <1>1, <1>4 DEF BundleOK
<1>5. ASSUME NEW cmd, StartResolve(cmd) PROVE BundleOK'
  BY <1>1, <1>3, <1>5, StartMoves DEF Rest
<1>6. ASSUME LoadAgent PROVE BundleOK'
  <2>1. UNCHANGED bundle /\ resolve'.pc \in {"load", "graph", "refused"}
    BY <1>1, <1>6, LoadMoves DEF Rest
  <2> QED
    BY <1>3, <2>1
<1>7. ASSUME Walking PROVE BundleOK'
  BY <1>1, <1>3, <1>7, WalkMoves DEF Walking, Rest
<1>8. ASSUME NEW a \in Agent, HashAgent(a) PROVE BundleOK'
  <2>1. UNCHANGED bundle /\ resolve'.pc \in {"hash", "parts"}
    BY <1>1, <1>8, HashMoves DEF Rest
  <2> QED
    BY <1>3, <2>1
<1>9. ASSUME NEW c \in Component, ResolveComponent(c) PROVE BundleOK'
  <2>1. UNCHANGED bundle /\ resolve'.pc \in {"parts", "refused"}
    BY <1>1, <1>9, PartMoves DEF Rest
  <2> QED
    BY <1>3, <2>1
<1>10. ASSUME FinishPlan PROVE BundleOK'
  <2>1. /\ Same({"agents"}) /\ Same({"plan"}) /\ Same({"cmd"}) /\ resolve'.left = Planned(resolve)
        /\ \/ resolve.cmd # "export" /\ resolve'.pc # "render" /\ bundle' = bundle
           \/ resolve.cmd = "export" /\ resolve'.pc = "render" /\ bundle' = Nothing
    BY <1>1, <1>10, FinishMoves DEF Same
  <2>2. Planned(resolve)' = Planned(resolve)
    BY <1>2, <2>1
  <2>3. CASE resolve.cmd # "export" /\ resolve'.pc # "render" /\ bundle' = bundle
    <3>1. resolve'.cmd # "export"
      BY <2>1, <2>3 DEF Same
    <3> QED
      BY <1>4, <2>3, <3>1
  <2>4. CASE resolve.cmd = "export" /\ resolve'.pc = "render" /\ bundle' = Nothing
    <3>1. resolve'.cmd = "export"
      BY <2>1, <2>4 DEF Same
    <3> QED
      BY <2>1, <2>2, <2>4, <3>1 DEF BundleOK, Nothing
  <2> QED
    BY <2>1, <2>3, <2>4
<1>11. ASSUME NEW n \in Name, Render(n) PROVE BundleOK'
  <2>1. /\ resolve.pc = "render" /\ n \in resolve.left /\ UNCHANGED <<defs, edits>>
        /\ Same({"agents"}) /\ Same({"plan"}) /\ Same({"cmd"})
        /\ \/ resolve'.pc = "refused" /\ bundle' = bundle
           \/ /\ bundle' = [bundle EXCEPT ![FileOf(n)] = RenderedAs(n)]
              /\ resolve'.left = resolve.left \ {n}
              /\ resolve'.pc = IF resolve'.left = {} THEN "done" ELSE "render"
    BY <1>1, <1>11, RenderMoves DEF Same
  <2>2. CASE resolve'.pc = "refused" /\ bundle' = bundle
    BY <1>3, <2>2
  <2>3. CASE /\ bundle' = [bundle EXCEPT ![FileOf(n)] = RenderedAs(n)]
             /\ resolve'.left = resolve.left \ {n}
             /\ resolve'.pc = IF resolve'.left = {} THEN "done" ELSE "render"
    <3>0. resolve.cmd = "export"
      BY <1>1, <2>1 DEF BundleOK
    <3> DEFINE rendered == Planned(resolve) \ resolve.left
    <3>1. /\ resolve.left \subseteq Planned(resolve) /\ n \in Planned(resolve)
          /\ {f \in Name : bundle[f] # NoPart} = {FileOf(m) : m \in rendered}
      BY <1>1, <2>1, <3>0 DEF BundleOK
    <3>2. /\ Planned(resolve)' = Planned(resolve) /\ Members' = Members
          /\ resolve'.plan = resolve.plan /\ resolve'.cmd = resolve.cmd
      BY <1>2, <2>1 DEF Same
    <3>3. FileOf(n) \in Name /\ RenderedAs(n) \in Nat /\ RenderedAs(n) # NoPart
      <4>1. resolve.plan[n] \in AgentPlan \cup PartPlan
        BY <1>1, <3>1 DEF Planned, TeamTypes, Resolve
      <4>2. RenderedAs(n) \in Nat
        BY <1>1, <4>1 DEF RenderedAs, TeamTypes, Project, AgentPlan, PartPlan
      <4> QED
        BY <1>1, <4>2, FileNames, TeamAssumption
    <3>4. bundle' \in [Name -> {NoPart} \cup Nat]
      BY <1>1, <2>3, <3>3 DEF BundleOK
    <3>5. \A f \in Name : bundle'[f] = IF f = FileOf(n) THEN RenderedAs(n) ELSE bundle[f]
      BY <1>1, <2>3, <3>3 DEF BundleOK
    <3>6. rendered' = rendered \cup {n}
      BY <2>1, <2>3, <3>1, <3>2
    <3>7. {f \in Name : bundle'[f] # NoPart} = {f \in Name : bundle[f] # NoPart} \cup {FileOf(n)}
      BY <3>3, <3>5
    <3>8. {FileOf(m) : m \in rendered \cup {n}} = {FileOf(m) : m \in rendered} \cup {FileOf(n)}
      OBVIOUS
    <3>9. edits' = {} /\ (\A a, b \in Members' : BaseOf[a] = BaseOf[b] => a = b)
            => \A m \in rendered \cup {n} : bundle'[FileOf(m)] = resolve.plan[m].digest
      <4> SUFFICES ASSUME edits = {}, \A a, b \in Members : BaseOf[a] = BaseOf[b] => a = b,
                          NEW m \in rendered \cup {n}
                   PROVE  bundle'[FileOf(m)] = resolve.plan[m].digest
        BY <2>1, <3>2
      <4>1. m \in Planned(resolve) /\ FileOf(m) \in Name
        BY <1>1, <3>1, FileNames DEF Planned
      <4>2. CASE m = n
        <5>1. RenderedAs(n) = resolve.plan[n].digest
          BY <1>1, <3>1 DEF RenderedAs, PlanOK
        <5> QED
          BY <3>3, <3>5, <4>2, <5>1
      <4>3. CASE m # n
        <5>1. FileOf(m) # FileOf(n)
          BY <1>1, <3>1, <4>1, <4>3, FileNames
        <5>2. bundle[FileOf(m)] = resolve.plan[m].digest
          BY <1>1, <2>1, <3>0, <4>3 DEF BundleOK
        <5> QED
          BY <3>5, <4>1, <5>1, <5>2
      <4> QED
        BY <4>2, <4>3
    <3>10. resolve'.pc \in {"render", "done"} /\ (resolve'.pc = "done" => resolve'.left = {})
      BY <2>3
    <3>11. resolve'.left \subseteq Planned(resolve)'
      BY <2>3, <3>1, <3>2
    <3>12. {f \in Name : bundle'[f] # NoPart} = {FileOf(m) : m \in rendered'}
      BY <3>1, <3>6, <3>7, <3>8
    <3>13. edits' = {} /\ (\A a, b \in Members' : BaseOf[a] = BaseOf[b] => a = b)
             => \A m \in rendered' : bundle'[FileOf(m)] = resolve'.plan[m].digest
      BY <3>2, <3>6, <3>9
    <3> QED
      BY <3>0, <3>2, <3>4, <3>10, <3>11, <3>12, <3>13 DEF BundleOK, FileOf
  <2> QED
    BY <2>1, <2>2, <2>3
<1>12. ASSUME NEW n \in Name, AddDir(n) PROVE BundleOK'
  <2>1. UNCHANGED bundle /\ resolve.pc = "closure" /\ resolve'.pc \in {"closure", "refused"} /\ Same({"cmd"})
    BY <1>1, <1>12, AddMoves DEF Rest, Same
  <2>2. resolve'.cmd # "export"
    BY <1>1, <2>1 DEF BundleOK, Same
  <2> QED
    BY <1>4, <2>1, <2>2
<1>13. ASSUME WriteArchive PROVE BundleOK'
  <2>1. UNCHANGED bundle /\ resolve.pc = "closure" /\ resolve'.pc \in {"done"} /\ Same({"cmd"})
    BY <1>1, <1>13, WriteMoves DEF Same
  <2>2. resolve'.cmd # "export"
    BY <1>1, <2>1 DEF BundleOK, Same
  <2> QED
    BY <1>4, <2>1, <2>2
<1>14. ASSUME Editing PROVE BundleOK'
  BY <1>1, <1>14, EditMoves DEF BundleOK, Planned, Members
<1>15. ASSUME Installing PROVE BundleOK'
  BY <1>1, <1>15, InstallMoves DEF BundleOK, Planned, Members
<1> QED
  BY <1>5, <1>6, <1>7, <1>8, <1>9, <1>10, <1>11, <1>12, <1>13, <1>14, <1>15, TeamMoves

LEMMA PackStep ==
  ASSUME DeliveryInv, TeamNext
  PROVE  PackOK'
<1>1. TeamTypes /\ PackOK /\ PlanOK /\ ReadOK
  BY DEF DeliveryInv
<1>2. ASSUME Same({"plan"}) PROVE Planned(resolve)' = Planned(resolve)
  BY <1>2 DEF Same, Planned
\* Before it packs and once it is refused a command has no archive.
<1>3. ASSUME Same({"files"}), UNCHANGED archive, resolve.pc \notin {"closure", "done", "refused"},
             resolve'.pc # "closure"
      PROVE  PackOK'
  BY <1>1, <1>3 DEF PackOK, Same
<1>4. ASSUME NEW cmd, StartResolve(cmd) PROVE PackOK'
  <2>1. /\ resolve.pc = "idle" /\ resolve'.pc \in {"load", "refused"}
        /\ Same({"files"}) /\ UNCHANGED archive
    BY <1>1, <1>4, StartMoves DEF Rest, Same
  <2> QED
    BY <1>3, <2>1
<1>5. ASSUME LoadAgent PROVE PackOK'
  <2>1. /\ resolve.pc = "load" /\ resolve'.pc \in {"load", "graph", "refused"}
        /\ Same({"files"}) /\ UNCHANGED archive
    BY <1>1, <1>5, LoadMoves DEF Rest, Same
  <2> QED
    BY <1>3, <2>1
<1>6. ASSUME Walking PROVE PackOK'
  <2>1. /\ resolve.pc \in {"graph", "walk"} /\ resolve'.pc \in {"walk", "hash", "refused"}
        /\ Same({"files"}) /\ UNCHANGED archive
    BY <1>1, <1>6, WalkMoves DEF Walking, Rest, Same
  <2> QED
    BY <1>3, <2>1
<1>7. ASSUME NEW a \in Agent, HashAgent(a) PROVE PackOK'
  <2>1. /\ resolve.pc = "hash" /\ resolve'.pc \in {"hash", "parts"}
        /\ Same({"files"}) /\ UNCHANGED archive
    BY <1>1, <1>7, HashMoves DEF Rest, Same
  <2> QED
    BY <1>3, <2>1
<1>8. ASSUME NEW c \in Component, ResolveComponent(c) PROVE PackOK'
  <2>1. /\ resolve.pc = "parts" /\ resolve'.pc \in {"parts", "refused"}
        /\ Same({"files"}) /\ UNCHANGED archive
    BY <1>1, <1>8, PartMoves DEF Rest, Same
  <2> QED
    BY <1>3, <2>1
<1>9. ASSUME FinishPlan PROVE PackOK'
  <2>1. /\ resolve.pc = "parts" /\ Same({"files"}) /\ Same({"plan"}) /\ UNCHANGED archive
        /\ resolve'.left = Planned(resolve)
    BY <1>1, <1>9, FinishMoves DEF Same
  <2>2. CASE resolve'.pc # "closure"
    BY <1>3, <2>1, <2>2
  <2>3. CASE resolve'.pc = "closure"
    <3>1. resolve'.files = Nothing /\ archive' = NoPart
      BY <1>1, <2>1 DEF PackOK, Same
    <3>2. Planned(resolve)' = Planned(resolve)
      BY <1>2, <2>1
    <3>3. Planned(resolve)' \ resolve'.left = {}
      BY <2>1, <3>2
    <3>4. FilesAre({})'
      BY <3>1 DEF FilesAre, Nothing
    <3> QED
      BY <2>1, <2>3, <3>1, <3>2, <3>3, <3>4 DEF PackOK
  <2> QED
    BY <2>2, <2>3
<1>10. ASSUME NEW n \in Name, Render(n) PROVE PackOK'
  <2>1. /\ resolve.pc = "render" /\ resolve'.pc \in {"done", "render", "refused"}
        /\ Same({"files"}) /\ UNCHANGED archive
    BY <1>1, <1>10, RenderMoves DEF Same
  <2> QED
    BY <1>3, <2>1
<1>11. ASSUME NEW n \in Name, AddDir(n) PROVE PackOK'
  <2>1. /\ resolve.pc = "closure" /\ n \in resolve.left /\ UNCHANGED <<defs, archive, edits>>
        /\ Same({"agents"}) /\ Same({"plan"})
    BY <1>1, <1>11, AddMoves DEF Same, Rest
  <2>2. /\ archive = NoPart /\ resolve.left \subseteq Planned(resolve)
        /\ FilesAre(Planned(resolve) \ resolve.left)
    BY <1>1, <2>1 DEF PackOK
  <2>3. CASE resolve'.pc = "refused"
    BY <2>1, <2>2, <2>3 DEF PackOK
  <2>4. ASSUME resolve'.pc = "closure", resolve'.left = resolve.left \ {n},
               NEW f \in Packed, n \in Agent => f.uses = defs.agents[n].uses,
               resolve'.files = [resolve.files EXCEPT ![n] = f]
        PROVE  PackOK'
    <3>1. Planned(resolve)' = Planned(resolve) /\ resolve'.agents = resolve.agents
      BY <1>2, <2>1 DEF Same
    <3>2. Planned(resolve)' \ resolve'.left = (Planned(resolve) \ resolve.left) \cup {n}
      BY <2>1, <2>2, <2>4, <3>1
    <3>3. \A m \in Name : resolve'.files[m] = IF m = n THEN f ELSE resolve.files[m]
      BY <1>1, <2>4 DEF TeamTypes, Resolve
    <3>4. \A m \in Name : resolve'.files[m] # NoPart <=> m \in (Planned(resolve) \ resolve.left) \cup {n}
      BY <2>2, <2>4, <3>3, TeamAssumption DEF FilesAre
    <3>5. ASSUME edits \cap Agent = {}, n \in Agent PROVE f.uses = resolve.agents[n].uses
      <4>1. n \in Members
        <5>1. n \in Planned(resolve) /\ n \notin Component
          BY <2>1, <2>2, <3>5, TeamAssumption
        <5> QED
          BY <1>1, <5>1, ReferencedParts DEF PlanOK
      <4> QED
        BY <1>1, <2>4, <3>5, <4>1 DEF ReadOK
    <3>6. edits' \cap Agent = {} =>
            \A a \in Agent \cap ((Planned(resolve) \ resolve.left) \cup {n}) :
              resolve'.files[a].uses = resolve'.agents[a].uses
      BY <2>1, <2>2, <3>1, <3>3, <3>5 DEF FilesAre, Name
    <3>7. resolve'.left \subseteq Planned(resolve)'
      BY <2>2, <2>4, <3>1
    <3>8. FilesAre(Planned(resolve) \ resolve.left)'
      BY <3>2, <3>4, <3>6 DEF FilesAre
    <3> QED
      BY <2>1, <2>2, <2>4, <3>7, <3>8 DEF PackOK
  <2> QED
    BY <1>1, <1>11, <2>3, <2>4, AddMoves
<1>12. ASSUME WriteArchive PROVE PackOK'
  <2>1. /\ resolve.pc = "closure" /\ resolve.left = {} /\ resolve'.pc = "done" /\ UNCHANGED edits
        /\ Same({"agents"}) /\ Same({"plan"}) /\ Same({"files"})
        /\ archive' = [manifest |-> resolve.files, files |-> resolve.files, plan |-> resolve.plan]
    BY <1>1, <1>12, WriteMoves DEF Same
  <2>2. /\ resolve'.files = resolve.files /\ resolve'.plan = resolve.plan
        /\ resolve'.agents = resolve.agents /\ resolve.files \in Contents
    BY <1>1, <2>1 DEF Same, TeamTypes, Resolve, Contents
  <2>3. Planned(resolve)' = Planned(resolve) /\ Planned(resolve) \ resolve.left = Planned(resolve)
    BY <1>2, <2>1
  <2>4. FilesAre(Planned(resolve))
    BY <1>1, <2>1, <2>3 DEF PackOK
  <2>5. FilesAre(Planned(resolve))'
    BY <2>1, <2>2, <2>3, <2>4 DEF FilesAre
  <2> QED
    BY <2>1, <2>2, <2>5 DEF PackOK
<1>13. ASSUME Editing PROVE PackOK'
  <2>1. UNCHANGED <<resolve, archive>> /\ resolve.pc # "done" /\ edits \subseteq edits'
    BY <1>1, <1>13, EditMoves DEF Going
  <2>2. Planned(resolve)' = Planned(resolve)
    BY <2>1 DEF Planned
  <2>3. ASSUME resolve.pc = "closure" PROVE FilesAre(Planned(resolve) \ resolve.left)'
    <3>1. FilesAre(Planned(resolve) \ resolve.left)
      BY <1>1, <2>3 DEF PackOK
    <3> QED
      BY <2>1, <2>2, <3>1 DEF FilesAre
  <2> QED
    BY <1>1, <2>1, <2>2, <2>3 DEF PackOK
<1>14. ASSUME Installing PROVE PackOK'
  <2>1. UNCHANGED <<resolve, edits>>
    BY <1>14, InstallMoves
  <2>2. \A N : FilesAre(N)' <=> FilesAre(N)
    BY <2>1 DEF FilesAre
  <2>3. Planned(resolve)' = Planned(resolve)
    BY <2>1 DEF Planned
  <2>4. CASE UNCHANGED archive
    BY <1>1, <2>1, <2>2, <2>3, <2>4 DEF PackOK
  <2>5. CASE \E n \in Name : Damage(n)
    <3>1. PICK n \in Name, f \in {NoPart, [version |-> 9, uses |-> {}]} :
            archive # NoPart /\ archive' = [archive EXCEPT !.files[n] = f]
      BY <2>5 DEF Damage
    <3>2. f \in {NoPart} \cup Packed
      BY <3>1 DEF Packed
    <3>3. archive \in [manifest: {resolve.files}, files: Contents, plan: {resolve.plan}]
      BY <1>1, <3>1 DEF PackOK
    <3>4. archive' \in [manifest: {resolve.files}, files: Contents, plan: {resolve.plan}]
      BY <3>1, <3>2, <3>3 DEF Contents
    <3> QED
      BY <1>1, <2>1, <2>2, <2>3, <3>1, <3>4 DEF PackOK
  <2> QED
    BY <1>14, <2>4, <2>5 DEF Installing, BeginInstall, VerifyStage, MoveIntoPlace, KillInstall, Unzip
<1> QED
  BY <1>4, <1>5, <1>6, <1>7, <1>8, <1>9, <1>10, <1>11, <1>12, <1>13, <1>14, TeamMoves

\* Only `pack` makes an archive, and a target is filled from one.
LEMMA InstallStep ==
  ASSUME DeliveryInv, TeamNext
  PROVE  InstallOK'
<1>1. TeamTypes /\ PackOK /\ InstallOK
  BY DEF DeliveryInv
<1>2. ASSUME UNCHANGED <<archive, install>>, resolve.pc = "done" => UNCHANGED resolve PROVE InstallOK'
  BY <1>1, <1>2 DEF InstallOK
<1>3. ASSUME NEW cmd, StartResolve(cmd) PROVE InstallOK'
  BY <1>1, <1>2, <1>3, StartMoves DEF Rest
<1>4. ASSUME LoadAgent PROVE InstallOK'
  BY <1>1, <1>2, <1>4, LoadMoves DEF Rest
<1>5. ASSUME Walking PROVE InstallOK'
  BY <1>1, <1>2, <1>5, WalkMoves DEF Walking, Rest
<1>6. ASSUME NEW a \in Agent, HashAgent(a) PROVE InstallOK'
  BY <1>1, <1>2, <1>6, HashMoves DEF Rest
<1>7. ASSUME NEW c \in Component, ResolveComponent(c) PROVE InstallOK'
  BY <1>1, <1>2, <1>7, PartMoves DEF Rest
<1>8. ASSUME FinishPlan PROVE InstallOK'
  BY <1>1, <1>2, <1>8, FinishMoves
<1>9. ASSUME NEW n \in Name, Render(n) PROVE InstallOK'
  BY <1>1, <1>2, <1>9, RenderMoves
<1>10. ASSUME NEW n \in Name, AddDir(n) PROVE InstallOK'
  BY <1>1, <1>2, <1>10, AddMoves DEF Rest
<1>11. ASSUME WriteArchive PROVE InstallOK'
  <2>1. resolve.pc = "closure" /\ UNCHANGED install
    BY <1>1, <1>11, WriteMoves
  <2>2. install.pc = "idle" /\ install.dest = NoPart
    BY <1>1, <2>1 DEF InstallOK
  <2> QED
    BY <1>1, <2>1, <2>2 DEF InstallOK
<1>12. ASSUME Editing PROVE InstallOK'
  BY <1>1, <1>2, <1>12, EditMoves
<1>13. ASSUME Installing PROVE InstallOK'
  <2>1. UNCHANGED resolve
    BY <1>13, InstallMoves
  <2>2. archive # NoPart => /\ resolve.pc = "done" /\ archive.manifest = resolve.files
                            /\ archive.files \in Contents
                            /\ archive \in [manifest: {resolve.files}, files: Contents,
                                            plan: {resolve.plan}]
    BY <1>1 DEF PackOK
  <2>3. resolve.files \in Contents /\ Nothing \in Contents
    BY <1>1 DEF TeamTypes, Resolve, Contents, Nothing
  <2>4. CASE BeginInstall
    BY <1>1, <2>1, <2>2, <2>3, <2>4 DEF BeginInstall, InstallOK
  <2>5. CASE \E n \in Name : Unzip(n)
    <3>1. PICK n \in Name : Unzip(n)
      BY <2>5
    <3>2. /\ install.pc = "unzip" /\ install.stage \in Contents /\ archive # NoPart
          /\ install' = [install EXCEPT !.stage = [install.stage EXCEPT ![n] = archive.files[n]]]
          /\ UNCHANGED archive
      BY <1>1, <3>1 DEF Unzip, InstallOK
    <3> DEFINE stage == [install.stage EXCEPT ![n] = archive.files[n]]
    <3>3. stage \in Contents
      BY <2>2, <3>2 DEF Contents
    <3> HIDE DEF stage
    <3>4. /\ install'.pc = "unzip" /\ install'.stage = stage /\ install'.dest = install.dest
          /\ install' \in [pc: {"idle", "unzip", "verified"}, stage: {NoPart} \cup Contents,
                           dest: {NoPart} \cup Contents]
      BY <1>1, <3>2, <3>3 DEF stage, InstallOK
    <3> QED
      BY <1>1, <2>1, <2>2, <3>2, <3>3, <3>4 DEF InstallOK
  <2>6. CASE VerifyStage
    <3>1. /\ install.pc = "unzip" /\ install.stage \in Contents /\ archive # NoPart
          /\ UNCHANGED archive
      BY <1>1, <2>6 DEF VerifyStage, InstallOK
    <3>2. CASE Verified(install.stage, archive.manifest)
      <4>1. install' = [install EXCEPT !.pc = "verified"]
        BY <2>6, <3>2 DEF VerifyStage
      <4>2. install.stage = archive.manifest
        BY <2>2, <2>3, <3>1, <3>2 DEF Verified, Contents
      <4> QED
        BY <1>1, <2>1, <2>2, <3>1, <4>1, <4>2 DEF InstallOK
    <3>3. CASE ~Verified(install.stage, archive.manifest)
      <4>1. install' = [install EXCEPT !.pc = "idle", !.stage = NoPart]
        BY <2>6, <3>3 DEF VerifyStage
      <4> QED
        BY <1>1, <2>1, <3>1, <4>1 DEF InstallOK
    <3> QED
      BY <3>2, <3>3
  <2>7. CASE MoveIntoPlace
    BY <1>1, <2>1, <2>2, <2>7 DEF MoveIntoPlace, InstallOK
  <2>8. CASE KillInstall
    BY <1>1, <2>1, <2>8 DEF KillInstall, InstallOK
  <2>9. CASE \E n \in Name : Damage(n)
    <3>1. PICK n \in Name, f \in {NoPart, [version |-> 9, uses |-> {}]} :
            /\ archive # NoPart /\ install.pc = "idle" /\ UNCHANGED install
            /\ archive' = [archive EXCEPT !.files[n] = f]
      BY <2>9 DEF Damage
    <3>2. archive'.manifest = archive.manifest
      BY <2>2, <3>1
    <3> QED
      BY <1>1, <2>1, <3>1, <3>2 DEF InstallOK
  <2> QED
    BY <1>13, <2>4, <2>5, <2>6, <2>7, <2>8, <2>9 DEF Installing
<1> QED
  BY <1>3, <1>4, <1>5, <1>6, <1>7, <1>8, <1>9, <1>10, <1>11, <1>12, <1>13, TeamMoves

LEMMA DeliveryStep ==
  ASSUME DeliveryInv, [TeamNext]_teamVars
  PROVE  DeliveryInv'
<1>1. TeamTypes' /\ WalkOK'
  BY WalkStep DEF DeliveryInv
<1>2. CASE TeamNext
  BY <1>1, <1>2, ReadStep, PlanStep, BundleStep, PackStep, InstallStep DEF DeliveryInv
<1>3. CASE UNCHANGED teamVars
  <2>1. UNCHANGED <<defs, resolve, bundle, archive, install, edits>>
    BY <1>3 DEF teamVars
  <2>2. /\ Members' = Members /\ Planned(resolve)' = Planned(resolve)
        /\ \A N : FilesAre(N)' <=> FilesAre(N)
    BY <2>1 DEF Members, Planned, FilesAre
  <2>3. ReadOK' /\ PlanOK' /\ BundleOK'
    BY <2>1, <2>2 DEF DeliveryInv, ReadOK, PlanOK, BundleOK
  <2>4. PackOK' /\ InstallOK'
    BY <2>1, <2>2 DEF DeliveryInv, PackOK, InstallOK
  <2> QED
    BY <1>1, <2>3, <2>4 DEF DeliveryInv
<1> QED
  BY <1>2, <1>3

\* A plan says what is on disk, with the first usable variant of every tool; an export
\* has the files of the plan and no others; a pack holds all that its agents use; and
\* what is installed is what was packed. That is so for every team, whatever is edited
\* while a command runs, whatever happens to the archive, and wherever an install stops.
THEOREM DeliverySafety ==
  TeamSpec => []PlansAreDelivered
<1>1. TeamInit => DeliveryInv
  BY DeliveryInit
<1>2. DeliveryInv /\ [TeamNext]_teamVars => DeliveryInv'
  BY DeliveryStep
<1>3. DeliveryInv => PlansAreDelivered
  BY DeliveryImplies
<1> QED
  BY <1>1, <1>2, <1>3, PTL DEF TeamSpec

-----------------------------------------------------------------------------
(* Exports: types *)

Version == 0..(changes + 1)
Job ==
  [pc: {"idle", "build", "plan", "target", "bundle", "items"}, whole: BOOLEAN,
   targets: SUBSET {"claude-code", "cursor"}, loaded: [Item -> 0..(MaxChanges + 1)],
   todo: SUBSET Item, lf: [Key -> {Absent} \cup Pin], done: SUBSET Key]

\* What is written down somewhere is no newer than what the user has made.
ExportTypes ==
  /\ changes \in 0..MaxChanges /\ exports \in 0..MaxExports /\ mishaps \in 0..MaxMishaps
  /\ raced \subseteq Item \cup Path
  /\ drafts \in [Item -> Version]
  /\ output \in [Path -> {Absent} \cup [entries: [Item -> Version], touches: 0..changes]]
  /\ pins \in [Key -> {Absent} \cup Pin]
  /\ job \in Job /\ job.loaded \in [Item -> Version]
  /\ job.pc = "idle" => job = NoJob
  /\ job.todo \subseteq Holds(job.loaded)

\* A pin describes an output as it was written, from artifacts as they were then.
PinsOK(lf) ==
  \A k \in Key : lf[k] # Absent =>
    /\ lf[k].out = IF k = "plugin" THEN "plugin" ELSE PathOf(k)
    /\ k # "plugin" => Holds(lf[k].from) = {k}
    /\ k = "plugin" => Closed(Holds(lf[k].hash.entries))
    /\ \A i \in Holds(lf[k].from) \ raced : lf[k].hash.entries[i] = lf[k].from[i]

\* What was done in this export is in sync, unless the user interfered.
Concerns(k) == IF k = "plugin" THEN Holds(job.loaded) \cup {k} ELSE {k}
SettledPin(k) ==
  /\ job.lf[k] # Absent
  /\ output[job.lf[k].out] # Absent /\ output[job.lf[k].out] = job.lf[k].hash
  /\ SourcesOf(Holds(job.lf[k].from)) = job.lf[k].from
  /\ k = "plugin" => Holds(job.lf[k].from) = Holds(job.loaded)
JobOK ==
  /\ \A i \in Holds(job.loaded) \ raced : job.loaded[i] = drafts[i]
  /\ job.pc \in {"build", "plan"} => job.todo = {} /\ job.done = {}
  /\ job.pc \in {"target", "bundle", "items"} => Closed(Holds(job.loaded))
  /\ job.pc = "bundle" => "claude-code" \notin job.targets
  /\ job.pc = "bundle" \/ "claude-code" \in job.targets => "plugin" \notin job.done
  /\ \A k \in job.done \ Merged : Concerns(k) \cap raced = {} => SettledPin(k)

\* As long as nothing failed, the lockfile knows what is in the merged file.
MergedOK ==
  mishaps = 0 /\ output["merged"] # Absent =>
    /\ \A i \in Holds(output["merged"].entries) :
         \/ i \in raced
         \/ job.pc \in {"idle", "build", "plan"} /\ pins[i] # Absent
         \/ job.pc \in {"target", "bundle", "items"} /\ job.lf[i] # Absent
    /\ job.pc = "items" /\ job.whole =>
         Holds(output["merged"].entries) \subseteq Holds(job.loaded) \cup raced

ExportInv == ExportTypes /\ PinsOK(pins) /\ PinsOK(job.lf) /\ JobOK /\ MergedOK

\* Every artifact has its place, and none but merged ones share it.
LEMMA Places ==
  /\ {"plugin", "merged"} \subseteq Path /\ {"plugin", "merged"} \cap Item = {}
  /\ \A i \in Item : /\ PathOf(i) \in Path /\ PathOf(i) # "plugin"
                     /\ i \in Merged => PathOf(i) = "merged"
                     /\ i \notin Merged => PathOf(i) = i
BY ExportAssumption DEF Path, PathOf

LEMMA FirstItem ==
  ASSUME NEW items \in SUBSET Item, items # {}
  PROVE  First(items) \in items
<1> DEFINE T == {Rank[i] : i \in items}
<1>1. T \in SUBSET Nat /\ T # {}
  BY ExportAssumption
<1>2. PICK x \in T : \A y \in T : <<y, x>> \notin OpToRel(<, Nat)
  <2>1. IsWellFoundedOn(OpToRel(<, Nat), Nat)
    BY NatLessThanWellFounded
  <2> HIDE DEF T
  <2> QED
    BY <1>1, <2>1, WFMin
<1>3. \A y \in T : ~ (y < x)
  <2> HIDE DEF T
  <2> QED
    BY <1>1, <1>2 DEF OpToRel
<1>4. PICK i \in items : x = Rank[i]
  BY <1>2
<1>5. \A j \in items : Rank[i] <= Rank[j]
  <2> TAKE j \in items
  <2>1. Rank[j] \in T /\ Rank[i] \in Nat /\ Rank[j] \in Nat
    BY ExportAssumption
  <2> QED
    BY <1>3, <1>4, <2>1
<1> QED
  BY <1>4, <1>5 DEF First

\* What the properties ask for follows.
LEMMA ExportImplies ==
  ASSUME ExportInv PROVE StatusIsTrue
<1> USE DEF ExportInv
<1>1. ExportTypeOK
  <2>1. \A n \in Version : n \in 0..(MaxChanges + 1)
    BY ExportAssumption DEF Version, ExportTypes
  <2>2. \A o \in Path : output[o] # Absent => output[o] \in Content
    <3> SUFFICES ASSUME NEW o \in Path, output[o] # Absent PROVE output[o] \in Content
      OBVIOUS
    <3>1. output[o] \in [entries: [Item -> Version], touches: 0..changes]
      BY DEF ExportTypes
    <3>2. \A n \in 0..changes : n \in 0..MaxChanges
      BY ExportAssumption DEF ExportTypes
    <3> QED
      BY <2>1, <3>1, <3>2 DEF Content
  <2>3. drafts \in [Item -> 0..(MaxChanges + 1)]
    BY <2>1 DEF ExportTypes
  <2>4. \A k \in Key : Known(k) =>
          /\ pins[k].out = IF k = "plugin" THEN "plugin" ELSE PathOf(k)
          /\ pins[k].hash \in Content
          /\ k # "plugin" => Holds(pins[k].from) = {k}
    BY DEF PinsOK, ExportTypes, Known, Pin
  <2>5. job.pc \in {"idle", "build", "plan", "target", "bundle", "items"}
    BY DEF ExportTypes, Job
  <2> QED
    BY <2>2, <2>3, <2>4, <2>5 DEF ExportTypeOK, ExportTypes
<1>2. InSyncIsTrue
  <2> SUFFICES ASSUME NEW k \in Key, Known(k), Status(k) = "in sync",
                      NEW i \in Holds(pins[k].from) \ raced
               PROVE  output[pins[k].out].entries[i] = drafts[i]
    BY DEF InSyncIsTrue
  <2>1. output[pins[k].out] = pins[k].hash /\ SourcesOf(Holds(pins[k].from)) = pins[k].from
    BY DEF Status
  <2>2. pins[k].from[i] = drafts[i]
    BY <2>1 DEF SourcesOf, Holds
  <2>3. pins[k].hash.entries[i] = pins[k].from[i]
    BY DEF PinsOK, Known
  <2> QED
    BY <2>1, <2>2, <2>3
<1>3. DependenciesShipped
  <2> SUFFICES ASSUME Known("plugin"), Status("plugin") = "in sync"
               PROVE  Closed(Holds(output["plugin"].entries))
    BY DEF DependenciesShipped, Closed
  <2>1. pins["plugin"].out = "plugin" /\ Closed(Holds(pins["plugin"].hash.entries))
    BY DEF PinsOK, Known, Key
  <2>2. output["plugin"] = pins["plugin"].hash
    BY <2>1 DEF Status
  <2> QED
    BY <2>1, <2>2
<1> QED
  BY <1>1, <1>2, <1>3 DEF StatusIsTrue

LEMMA ExportStarts ==
  ExportInit => ExportInv
<1> SUFFICES ASSUME ExportInit PROVE ExportInv
  OBVIOUS
<1>1. ExportTypes
  BY ExportAssumption DEF ExportInit, ExportTypes, Version, NoJob, Job, NoEntries, Holds
<1>2. PinsOK(pins) /\ PinsOK(job.lf)
  BY DEF ExportInit, PinsOK, NoJob
<1>3. JobOK /\ MergedOK
  BY Places DEF ExportInit, JobOK, MergedOK, NoJob, NoEntries, Holds
<1> QED
  BY <1>1, <1>2, <1>3 DEF ExportInv

\* Nothing runs once a command has left.
LEMMA Idle ==
  /\ NoJob.pc = "idle" /\ NoJob.targets = {} /\ NoJob.todo = {} /\ NoJob.done = {}
  /\ NoJob.lf = [k \in Key |-> Absent] /\ NoJob.whole = FALSE
  /\ NoJob.loaded = NoEntries /\ Holds(NoEntries) = {}
  /\ NoJob \in Job /\ \A n \in Nat : NoEntries \in [Item -> 0..n]
<1>1. \A n \in Nat : NoEntries \in [Item -> 0..n]
  BY DEF NoEntries
<1>2. MaxChanges + 1 \in Nat
  BY ExportAssumption
<1> QED
  BY <1>1, <1>2 DEF NoJob, Job, NoEntries, Holds

\* A command that leaves keeps the lockfile as it was, or saves what it worked on.
LEMMA LeaveStep ==
  ASSUME ExportInv, Leave, mishaps' \in 0..MaxMishaps,
         pins' = pins \/ pins' = job.lf,
         \/ mishaps' > 0
         \/ mishaps' = mishaps /\ pins' = pins /\ job.pc \in {"build", "plan"}
         \/ mishaps' = mishaps /\ pins' = job.lf /\ job.pc = "target"
  PROVE  ExportInv'
<1>1. /\ job' = NoJob /\ UNCHANGED <<drafts, output, changes, exports, raced>>
      /\ ExportTypes /\ PinsOK(pins) /\ PinsOK(job.lf) /\ JobOK /\ MergedOK
  BY DEF Leave, ExportInv
<1>2. changes \in Nat
  BY <1>1 DEF ExportTypes
<1>3. ExportTypes'
  BY <1>1, <1>2, Idle DEF ExportTypes, Version, Job
<1>4. PinsOK(pins)' /\ PinsOK(job.lf)'
  BY <1>1, Idle DEF PinsOK, Closed, Holds
<1>5. JobOK'
  BY <1>1, Idle DEF JobOK
<1>6. MergedOK'
  BY <1>1, Idle DEF MergedOK, ExportTypes, Holds
<1> QED
  BY <1>3, <1>4, <1>5, <1>6 DEF ExportInv

\* The user changes an artifact: exports that run are told by `raced`.
LEMMA ArtifactStep ==
  ASSUME ExportInv, NEW i \in Item, EditArtifact(i) \/ RemoveArtifact(i)
  PROVE  ExportInv'
<1>1. /\ ExportTypes /\ PinsOK(pins) /\ PinsOK(job.lf) /\ JobOK /\ MergedOK
      /\ UNCHANGED <<output, pins, job, exports, mishaps>>
      /\ changes < MaxChanges /\ changes' = changes + 1
      /\ raced' = IF job.pc = "idle" THEN raced ELSE raced \cup {i}
  BY DEF ExportInv, EditArtifact, RemoveArtifact, UserChange
<1>2. changes \in Nat /\ MaxChanges \in Nat
  BY <1>1, ExportAssumption DEF ExportTypes
<1>3. drafts' = [drafts EXCEPT ![i] = drafts'[i]] /\ drafts'[i] \in 0..(changes' + 1)
  <2>1. drafts[i] \in 0..(changes + 1) /\ drafts \in [Item -> Version]
    BY <1>1 DEF ExportTypes, Version
  <2>2. CASE EditArtifact(i)
    <3>1. drafts' = [drafts EXCEPT ![i] = drafts[i] + 1]
      BY <2>2 DEF EditArtifact
    <3> QED
      BY <1>1, <1>2, <2>1, <3>1
  <2>3. CASE RemoveArtifact(i)
    <3>1. drafts' = [drafts EXCEPT ![i] = 0]
      BY <2>3 DEF RemoveArtifact
    <3> QED
      BY <1>1, <1>2, <2>1, <3>1
  <2> QED
    BY <2>2, <2>3
<1>4. raced \subseteq raced' /\ raced' \subseteq Item \cup Path
  BY <1>1 DEF ExportTypes
<1>5. Version \subseteq Version'
  BY <1>1, <1>2 DEF Version
<1>6. ExportTypes'
  <2>1. drafts' \in [Item -> Version']
    BY <1>1, <1>3, <1>5 DEF ExportTypes, Version
  <2>2. output' \in [Path -> {Absent} \cup [entries: [Item -> Version'], touches: 0..changes']]
    <3>1. 0..changes \subseteq 0..changes'
      BY <1>1, <1>2
    <3>2. [entries: [Item -> Version], touches: 0..changes]
            \subseteq [entries: [Item -> Version'], touches: 0..changes']
      BY <1>5, <3>1
    <3> QED
      BY <1>1, <3>2 DEF ExportTypes
  <2>3. job'.loaded \in [Item -> Version']
    BY <1>1, <1>5 DEF ExportTypes
  <2> QED
    BY <1>1, <1>2, <1>4, <2>1, <2>2, <2>3 DEF ExportTypes, Holds
<1>7. PinsOK(pins)' /\ PinsOK(job.lf)'
  BY <1>1, <1>4 DEF PinsOK, Closed, Holds
<1>8. JobOK'
  <2>1. CASE job.pc = "idle"
    BY <1>1, <2>1, Idle DEF ExportTypes, JobOK
  <2>2. CASE job.pc # "idle"
    <3>1. raced' = raced \cup {i} /\ \A j \in Item \ {i} : drafts'[j] = drafts[j]
      BY <1>1, <1>3, <2>2 DEF ExportTypes
    <3>2. \A j \in Holds(job'.loaded) \ raced' : job'.loaded[j] = drafts'[j]
      BY <1>1, <3>1 DEF JobOK, Holds
    <3>3. ASSUME NEW k \in job'.done \ Merged, Concerns(k)' \cap raced' = {}
          PROVE  SettledPin(k)'
      <4>1. Concerns(k)' = Concerns(k) /\ k \in Key /\ SettledPin(k)
        BY <1>1, <1>4, <3>3 DEF Concerns, Holds, JobOK, ExportTypes, Job
      <4>2. i \notin Holds(job.lf[k].from)
        BY <1>1, <3>1, <3>3, <4>1 DEF PinsOK, SettledPin, Concerns
      <4>3. SourcesOf(Holds(job.lf[k].from))' = SourcesOf(Holds(job.lf[k].from))
        BY <1>1, <3>1, <4>2 DEF SourcesOf, Holds
      <4> QED
        BY <1>1, <4>1, <4>3 DEF SettledPin, Holds
    <3> QED
      BY <1>1, <3>2, <3>3 DEF JobOK, Closed, Holds
  <2> QED
    BY <2>1, <2>2
<1>9. MergedOK'
  BY <1>1, <1>4 DEF MergedOK, Holds
<1> QED
  BY <1>6, <1>7, <1>8, <1>9 DEF ExportInv

\* The user changes an output, by hand or by deleting it.
LEMMA OutputStep ==
  ASSUME ExportInv, NEW o \in Path, EditOutput(o) \/ RemoveOutput(o)
  PROVE  ExportInv'
<1>1. /\ ExportTypes /\ PinsOK(pins) /\ PinsOK(job.lf) /\ JobOK /\ MergedOK
      /\ UNCHANGED <<drafts, pins, job, exports, mishaps>>
      /\ changes < MaxChanges /\ changes' = changes + 1
      /\ raced' = IF job.pc = "idle" THEN raced ELSE raced \cup {o}
      /\ output[o] # Absent
  BY DEF ExportInv, EditOutput, RemoveOutput, UserChange
<1>2. changes \in Nat /\ MaxChanges \in Nat
  BY <1>1, ExportAssumption DEF ExportTypes
<1>3. raced \subseteq raced' /\ raced' \subseteq Item \cup Path
  BY <1>1 DEF ExportTypes
<1>4. Version \subseteq Version' /\ 0..changes \subseteq 0..changes'
  BY <1>1, <1>2 DEF Version
<1>5. [entries: [Item -> Version], touches: 0..changes]
        \subseteq [entries: [Item -> Version'], touches: 0..changes']
  BY <1>4
<1>6. /\ output' = [output EXCEPT ![o] = output'[o]]
      /\ output'[o] \in {Absent} \cup [entries: [Item -> Version'], touches: 0..changes']
      /\ output'[o] # Absent => output'[o].entries = output[o].entries
  <2>1. output \in [Path -> {Absent} \cup [entries: [Item -> Version], touches: 0..changes]]
    BY <1>1 DEF ExportTypes
  <2>2. CASE EditOutput(o)
    <3> DEFINE new == [output[o] EXCEPT !.touches = @ + 1]
    <3>1. output' = [output EXCEPT ![o] = new]
      BY <2>2 DEF EditOutput
    <3>2. new \in [entries: [Item -> Version'], touches: 0..changes'] /\ new.entries = output[o].entries
      <4>1. output[o] \in [entries: [Item -> Version], touches: 0..changes]
        BY <1>1, <2>1
      <4>2. output[o].touches + 1 \in 0..changes' /\ output[o].entries \in [Item -> Version']
        BY <1>1, <1>2, <1>4, <4>1
      <4> QED
        BY <4>1, <4>2
    <3> HIDE DEF new
    <3> QED
      BY <2>1, <3>1, <3>2
  <2>3. CASE RemoveOutput(o)
    <3>1. output' = [output EXCEPT ![o] = Absent]
      BY <2>3 DEF RemoveOutput
    <3> QED
      BY <2>1, <3>1
  <2> QED
    BY <1>1, <2>2, <2>3
<1>7. ExportTypes'
  <2>1. drafts' \in [Item -> Version'] /\ job'.loaded \in [Item -> Version']
    BY <1>1, <1>4 DEF ExportTypes
  <2>2. output' \in [Path -> {Absent} \cup [entries: [Item -> Version'], touches: 0..changes']]
    BY <1>1, <1>5, <1>6 DEF ExportTypes
  <2> QED
    BY <1>1, <1>2, <1>3, <2>1, <2>2 DEF ExportTypes, Holds
<1>8. PinsOK(pins)' /\ PinsOK(job.lf)'
  BY <1>1, <1>3 DEF PinsOK, Closed, Holds
<1>9. JobOK'
  <2>1. CASE job.pc = "idle"
    BY <1>1, <2>1, Idle DEF ExportTypes, JobOK
  <2>2. CASE job.pc # "idle"
    <3>1. raced' = raced \cup {o} /\ \A p \in Path \ {o} : output'[p] = output[p]
      BY <1>1, <1>6, <2>2 DEF ExportTypes
    <3>2. \A j \in Holds(job'.loaded) \ raced' : job'.loaded[j] = drafts'[j]
      BY <1>1, <3>1 DEF JobOK, Holds
    <3>3. ASSUME NEW k \in job'.done \ Merged, Concerns(k)' \cap raced' = {}
          PROVE  SettledPin(k)'
      <4>1. Concerns(k)' = Concerns(k) /\ k \in Key /\ SettledPin(k)
        BY <1>1, <1>3, <3>3 DEF Concerns, Holds, JobOK, ExportTypes, Job
      <4>2. job.lf[k].out \in Path \ {o}
        BY <1>1, <3>1, <3>3, <4>1, Places DEF PinsOK, SettledPin, Concerns, Key
      <4>3. SourcesOf(Holds(job.lf[k].from))' = SourcesOf(Holds(job.lf[k].from))
        BY <1>1 DEF SourcesOf, Holds
      <4> QED
        BY <1>1, <3>1, <4>1, <4>2, <4>3 DEF SettledPin, Holds
    <3> QED
      BY <1>1, <3>2, <3>3 DEF JobOK, Closed, Holds
  <2> QED
    BY <2>1, <2>2
<1>10. MergedOK'
  BY <1>1, <1>3, <1>6, Places DEF MergedOK, Holds, ExportTypes
<1> QED
  BY <1>7, <1>8, <1>9, <1>10 DEF ExportInv

\* Named artifacts are loaded at once; the whole project is loaded later.
LEMMA StartStep ==
  ASSUME ExportInv, NEW paths \in SUBSET Item,
         NEW targets \in SUBSET {"claude-code", "cursor"}, StartExport(paths, targets)
  PROVE  ExportInv'
<1> DEFINE loaded == [i \in Item |-> IF i \in paths THEN drafts[i] ELSE 0]
           whole == paths = {}
<1>1. /\ ExportTypes /\ PinsOK(pins) /\ PinsOK(job.lf) /\ JobOK /\ MergedOK
      /\ UNCHANGED <<drafts, output, pins, changes, mishaps, raced>>
      /\ job.pc = "idle" /\ exports < MaxExports /\ exports' = exports + 1
      /\ paths \subseteq Holds(drafts)
      /\ job' = [NoJob EXCEPT !.pc = "build", !.whole = whole, !.targets = targets, !.loaded = loaded]
  BY DEF ExportInv, StartExport
<1>2. changes \in Nat
  BY <1>1 DEF ExportTypes
<1>3. loaded \in [Item -> Version] /\ \A i \in Holds(loaded) : loaded[i] = drafts[i]
  BY <1>1, <1>2 DEF ExportTypes, Version, Holds
<1>4. loaded \in [Item -> 0..(MaxChanges + 1)] /\ whole \in BOOLEAN
  BY <1>1, <1>3, ExportAssumption DEF ExportTypes, Version
<1> HIDE DEF loaded, whole
<1>5. /\ job'.pc = "build" /\ job'.targets = targets /\ job'.loaded = loaded
      /\ job'.lf = [k \in Key |-> Absent] /\ job'.done = {} /\ job'.todo = {}
      /\ job' \in Job
  <2>1. \A w \in BOOLEAN : LET j == [NoJob EXCEPT !.pc = "build", !.whole = w,
                                                !.targets = targets, !.loaded = loaded]
                          IN /\ j.pc = "build" /\ j.targets = targets /\ j.loaded = loaded
                             /\ j.lf = [k \in Key |-> Absent] /\ j.done = {} /\ j.todo = {}
                             /\ j \in Job
    BY <1>4, Idle DEF Job
  <2> QED
    BY <1>1, <1>4, <2>1
<1>6. ExportTypes'
  <2>1. exports' \in 0..MaxExports
    BY <1>1, ExportAssumption DEF ExportTypes
  <2>2. Version' = Version
    BY <1>1 DEF Version
  <2> QED
    BY <1>1, <1>3, <1>5, <2>1, <2>2 DEF ExportTypes
<1>7. PinsOK(pins)' /\ PinsOK(job.lf)'
  <2>1. pins' = pins /\ raced' = raced
    BY <1>1
  <2>2. PinsOK(pins)'
    BY <1>1, <2>1 DEF PinsOK, Closed, Holds
  <2>3. \A k \in Key : job'.lf[k] = Absent
    BY <1>5
  <2> QED
    BY <2>2, <2>3 DEF PinsOK
<1>8. JobOK'
  BY <1>1, <1>3, <1>5 DEF JobOK, Holds
<1>9. MergedOK'
  BY <1>1, <1>5 DEF MergedOK, Holds
<1> QED
  BY <1>6, <1>7, <1>8, <1>9 DEF ExportInv

\* A failed build ends the command; otherwise nothing but its place changes.
LEMMA BuildStep ==
  ASSUME ExportInv, NEW ok \in BOOLEAN, Build(ok)
  PROVE  ExportInv'
<1>1. /\ ExportTypes /\ PinsOK(pins) /\ PinsOK(job.lf) /\ JobOK /\ MergedOK
      /\ job.pc = "build" /\ UNCHANGED <<pins, mishaps>>
  BY DEF ExportInv, Build
<1>2. CASE ok
  <2>1. job' = [job EXCEPT !.pc = "plan"] /\ UNCHANGED <<drafts, output, changes, exports, raced>>
    BY <1>2 DEF Build
  <2>2. /\ job'.pc = "plan" /\ job' \in Job /\ job'.loaded = job.loaded /\ job'.todo = job.todo
        /\ job'.done = job.done /\ job'.lf = job.lf /\ job'.targets = job.targets
    BY <1>1, <2>1 DEF ExportTypes, Job
  <2>3. Version' = Version
    BY <2>1 DEF Version
  <2>4. ExportTypes'
    BY <1>1, <2>1, <2>2, <2>3 DEF ExportTypes, Holds
  <2>5. PinsOK(pins)' /\ PinsOK(job.lf)'
    BY <1>1, <2>1, <2>2 DEF PinsOK, Closed, Holds
  <2>6. JobOK'
    BY <1>1, <2>1, <2>2 DEF JobOK, Holds
  <2>7. MergedOK'
    BY <1>1, <2>1, <2>2 DEF MergedOK, Holds
  <2> QED
    BY <2>4, <2>5, <2>6, <2>7 DEF ExportInv
<1>3. CASE ~ok
  BY <1>1, <1>3, LeaveStep DEF Build, ExportTypes
<1> QED
  BY <1>2, <1>3

LEMMA PlanExportStep ==
  ASSUME ExportInv, Plan
  PROVE  ExportInv'
<1> DEFINE found == IF job.whole THEN drafts ELSE job.loaded
<1>1. /\ ExportTypes /\ PinsOK(pins) /\ PinsOK(job.lf) /\ JobOK /\ MergedOK
      /\ job.pc = "plan" /\ UNCHANGED <<pins, mishaps>>
  BY DEF ExportInv, Plan
<1>2. CASE Holds(found) = {} \/ ~Closed(Holds(found))
  BY <1>1, <1>2, LeaveStep DEF Plan, ExportTypes
<1>3. CASE Holds(found) # {} /\ Closed(Holds(found))
  <2>1. /\ job' = [job EXCEPT !.pc = "target", !.loaded = found, !.lf = pins]
        /\ UNCHANGED <<drafts, output, changes, exports, raced>>
    BY <1>3 DEF Plan
  <2>2. /\ found \in [Item -> Version] /\ found \in [Item -> 0..(MaxChanges + 1)]
        /\ \A i \in Holds(found) \ raced : found[i] = drafts[i]
    BY <1>1, ExportAssumption DEF ExportTypes, Version, JobOK
  <2>3. Closed(Holds(found))
    BY <1>3
  <2> HIDE DEF found
  <2>4. /\ job'.pc = "target" /\ job'.loaded = found /\ job'.todo = {} /\ job'.done = {}
        /\ job'.lf = pins /\ job'.targets = job.targets /\ job' \in Job
    BY <1>1, <2>1, <2>2 DEF ExportTypes, Job, JobOK
  <2>5. Version' = Version
    BY <2>1 DEF Version
  <2>6. ExportTypes'
    BY <1>1, <2>1, <2>2, <2>4, <2>5 DEF ExportTypes
  <2>7. PinsOK(pins)' /\ PinsOK(job.lf)'
    BY <1>1, <2>1, <2>4 DEF PinsOK, Closed, Holds
  <2>8. JobOK'
    BY <1>1, <2>1, <2>2, <2>3, <2>4 DEF JobOK, Closed, Holds
  <2>9. MergedOK'
    BY <1>1, <2>1, <2>4 DEF MergedOK, Holds
  <2> QED
    BY <2>6, <2>7, <2>8, <2>9 DEF ExportInv
<1> QED
  BY <1>2, <1>3

LEMMA TargetStep ==
  ASSUME ExportInv, NEW t \in {"claude-code", "cursor"}, NextTarget(t)
  PROVE  ExportInv'
<1> DEFINE pc == IF t = "claude-code" THEN "bundle" ELSE "items"
           todo == Holds(job.loaded) \ (IF t = "cursor" THEN Unsupported ELSE {})
           cleared == t = "cursor" /\ Clears
<1>1. /\ ExportTypes /\ PinsOK(pins) /\ PinsOK(job.lf) /\ JobOK /\ MergedOK
      /\ job.pc = "target" /\ t \in job.targets
      /\ UNCHANGED <<drafts, pins, changes, exports, mishaps, raced>>
      /\ job' = [job EXCEPT !.pc = pc, !.targets = @ \ {t}, !.todo = todo]
      /\ output' = IF cleared THEN [output EXCEPT !["merged"] = Absent] ELSE output
  BY DEF ExportInv, NextTarget
<1>2. todo \subseteq Holds(job.loaded) /\ todo \in SUBSET Item
  BY DEF Holds
<1> HIDE DEF todo
<1>3. /\ job'.pc = pc /\ job'.targets = job.targets \ {t} /\ job'.todo = todo
      /\ job'.loaded = job.loaded /\ job'.lf = job.lf /\ job'.done = job.done
      /\ job'.whole = job.whole /\ job' \in Job
  BY <1>1, <1>2 DEF ExportTypes, Job
<1>4. Version' = Version
  BY <1>1 DEF Version
<1>5. \A p \in Path \ {"merged"} : output'[p] = output[p]
  BY <1>1 DEF ExportTypes
<1>6. ExportTypes'
  <2>1. output' \in [Path -> {Absent} \cup [entries: [Item -> Version], touches: 0..changes]]
    BY <1>1 DEF ExportTypes
  <2> QED
    BY <1>1, <1>2, <1>3, <1>4, <2>1 DEF ExportTypes, Holds
<1>7. PinsOK(pins)' /\ PinsOK(job.lf)'
  <2>1. pins' = pins /\ raced' = raced /\ job'.lf = job.lf
    BY <1>1, <1>3
  <2>2. PinsOK(pins)'
    BY <1>1, <2>1 DEF PinsOK, Closed, Holds
  <2>3. PinsOK(job.lf)'
    BY <1>1, <2>1 DEF PinsOK, Closed, Holds
  <2> QED
    BY <2>2, <2>3
<1>8. JobOK'
  <2>1. ASSUME NEW k \in job'.done \ Merged, Concerns(k)' \cap raced' = {}
        PROVE  SettledPin(k)'
    <3>1. Concerns(k)' = Concerns(k) /\ k \in Key /\ SettledPin(k)
      BY <1>1, <1>3, <2>1 DEF Concerns, Holds, JobOK, ExportTypes, Job
    <3>2. job.lf[k].out \in Path \ {"merged"}
      BY <1>1, <2>1, <3>1, Places DEF PinsOK, SettledPin, Key
    <3>3. SourcesOf(Holds(job.lf[k].from))' = SourcesOf(Holds(job.lf[k].from))
      BY <1>1 DEF SourcesOf, Holds
    <3> QED
      BY <1>1, <1>3, <1>5, <3>1, <3>2, <3>3 DEF SettledPin, Holds
  <2>2. Holds(job'.loaded) = Holds(job.loaded) /\ Closed(Holds(job'.loaded))
    BY <1>1, <1>3 DEF Holds, JobOK
  <2>3. /\ job'.pc = "bundle" => "claude-code" \notin job'.targets
        /\ job'.pc = "bundle" \/ "claude-code" \in job'.targets => "plugin" \notin job'.done
    BY <1>1, <1>3 DEF JobOK
  <2> QED
    BY <1>1, <1>3, <2>1, <2>2, <2>3 DEF JobOK, Closed, Holds
<1>9. MergedOK'
  <2>1. CASE cleared
    BY <1>1, <2>1, Places DEF MergedOK, ExportTypes
  <2>2. CASE ~cleared
    <3>1. output' = output
      BY <1>1, <2>2
    <3>2. ASSUME job'.pc = "items", job'.whole, mishaps = 0, output["merged"] # Absent
          PROVE  Holds(output["merged"].entries) \subseteq raced
      <4>1. t = "cursor" /\ ~Clears
        BY <1>3, <2>2, <3>2
      <4>2. \A i \in Item : job.lf[i] = Absent
        BY <1>3, <3>2, <4>1 DEF Clears
      <4> QED
        BY <1>1, <3>2, <4>2 DEF MergedOK, Holds
    <3> QED
      BY <1>1, <1>3, <3>1, <3>2 DEF MergedOK, Holds
  <2> QED
    BY <2>1, <2>2
<1> QED
  BY <1>6, <1>7, <1>8, <1>9 DEF ExportInv

\* What is recorded of an output just written: nothing when a source is gone, and
\* otherwise the sources and the output as they are.
Pinning(lf, k, o, items, written) ==
  /\ lf \in [Key -> {Absent} \cup Pin]
  /\ \A l \in Key \ {k} : lf[l] = job.lf[l]
  /\ \/ lf[k] = job.lf[k] /\ \E i \in items : drafts[i] = 0
     \/ /\ lf[k] # Absent /\ lf[k].out = o /\ lf[k].hash = written
        /\ lf[k].from = SourcesOf(items) /\ Holds(lf[k].from) = items
        /\ \A i \in items : lf[k].from[i] = drafts[i]

LEMMA PinRecorded ==
  ASSUME ExportInv, NEW k \in Key, NEW o \in Path, NEW items \in SUBSET Item,
         NEW written \in Content, NEW lf,
         lf = IF items \subseteq Holds(drafts)
                THEN [job.lf EXCEPT ![k] = [out |-> o, from |-> SourcesOf(items), hash |-> written]]
                ELSE job.lf
  PROVE  Pinning(lf, k, o, items, written)
<1>1. job.lf \in [Key -> {Absent} \cup Pin] /\ drafts \in [Item -> Version]
  BY DEF ExportInv, ExportTypes, Job
<1>2. CASE items \subseteq Holds(drafts)
  <2> DEFINE pin == [out |-> o, from |-> SourcesOf(items), hash |-> written]
  <2>1. lf = [job.lf EXCEPT ![k] = pin]
    BY <1>2
  <2>2. /\ SourcesOf(items) \in [Item -> 0..(MaxChanges + 1)]
        /\ Holds(SourcesOf(items)) = items
        /\ \A i \in items : SourcesOf(items)[i] = drafts[i]
    <3>1. \A n \in Version : n \in 0..(MaxChanges + 1)
      BY ExportAssumption DEF Version, ExportTypes, ExportInv
    <3>2. 0 \in 0..(MaxChanges + 1)
      BY ExportAssumption
    <3> QED
      BY <1>1, <1>2, <3>1, <3>2 DEF SourcesOf, Holds
  <2>3. pin \in Pin /\ pin # Absent
    BY <2>2, ExportAssumption DEF Pin
  <2>4. pin.out = o /\ pin.from = SourcesOf(items) /\ pin.hash = written
    OBVIOUS
  <2> HIDE DEF pin
  <2>5. lf \in [Key -> {Absent} \cup Pin] /\ lf[k] = pin /\ \A l \in Key \ {k} : lf[l] = job.lf[l]
    BY <1>1, <2>1, <2>3
  <2> QED
    BY <2>2, <2>3, <2>4, <2>5 DEF Pinning
<1>3. CASE ~(items \subseteq Holds(drafts))
  <2>1. lf = job.lf /\ \E i \in items : drafts[i] = 0
    BY <1>3 DEF Holds
  <2> QED
    BY <1>1, <2>1 DEF Pinning
<1> QED
  BY <1>2, <1>3

LEMMA BundleExportStep ==
  ASSUME ExportInv, ExportBundle
  PROVE  ExportInv'
<1>1. ExportTypes /\ PinsOK(pins) /\ PinsOK(job.lf) /\ JobOK /\ MergedOK /\ job.pc = "bundle"
      /\ changes \in Nat /\ MaxChanges \in Nat
  BY ExportAssumption DEF ExportInv, ExportBundle, ExportTypes
<1>2. PICK written \in Content \cap [entries: [Item -> Version], touches: 0..changes] :
        written = [entries |-> job.loaded, touches |-> 0]
  <2>1. /\ [entries |-> job.loaded, touches |-> 0] \in Content
        /\ [entries |-> job.loaded, touches |-> 0] \in [entries: [Item -> Version], touches: 0..changes]
    BY <1>1 DEF ExportTypes, Job, Content
  <2> QED
    BY <2>1
<1>3. PICK items \in SUBSET Item : items = Holds(job.loaded)
  BY DEF Holds
<1>4. PICK lf : lf = Record("plugin", "plugin", items)
  OBVIOUS
<1>5. /\ ExportTypes /\ PinsOK(pins) /\ PinsOK(job.lf) /\ JobOK /\ MergedOK /\ job.pc = "bundle"
      /\ UNCHANGED <<drafts, pins, changes, exports, mishaps, raced>>
      /\ output' = [output EXCEPT !["plugin"] = written]
      /\ job' = [job EXCEPT !.pc = "target", !.lf = lf, !.done = @ \cup {"plugin"}, !.todo = {}]
      /\ \A i \in items : i \notin raced => drafts[i] # 0 /\ job.loaded[i] = drafts[i]
      /\ written.entries = job.loaded /\ written # Absent
  <2>1. /\ UNCHANGED <<drafts, pins, changes, exports, mishaps, raced>>
        /\ output' = [output EXCEPT !["plugin"] = written]
        /\ job' = [job EXCEPT !.pc = "target", !.lf = lf, !.done = @ \cup {"plugin"}, !.todo = {}]
    BY <1>2, <1>3, <1>4 DEF ExportBundle
  <2>2. \A i \in items : i \notin raced => drafts[i] # 0 /\ job.loaded[i] = drafts[i]
    BY <1>1, <1>3 DEF Holds, JobOK
  <2>3. written.entries = job.loaded /\ written # Absent
    BY <1>2, ExportAssumption
  <2> QED
    BY <1>1, <2>1, <2>2, <2>3
<1>6. Pinning(lf, "plugin", "plugin", items, written)
  <2>1. "plugin" \in Key /\ "plugin" \in Path
    BY Places DEF Key
  <2>2. HashOutput("plugin") = written
    BY <1>5, <2>1 DEF ExportTypes, HashOutput
  <2>3. lf = IF items \subseteq Holds(drafts)
               THEN [job.lf EXCEPT !["plugin"] = [out |-> "plugin", from |-> SourcesOf(items), hash |-> written]]
               ELSE job.lf
    BY <1>4, <2>2 DEF Record
  <2>4. written \in Content /\ items \in SUBSET Item
    BY <1>2, <1>3
  <2> QED
    BY <2>1, <2>3, <2>4, PinRecorded
<1>7. /\ job'.pc = "target" /\ job'.lf = lf /\ job'.done = job.done \cup {"plugin"} /\ job'.todo = {}
      /\ job'.loaded = job.loaded /\ job'.targets = job.targets /\ job' \in Job
  BY <1>5, <1>6 DEF ExportTypes, Job, Key, Pinning
<1>8. Version' = Version
  BY <1>5 DEF Version
<1>9. output'["plugin"] = written /\ \A p \in Path \ {"plugin"} : output'[p] = output[p]
  BY <1>5, Places DEF ExportTypes
<1>11. ExportTypes'
  <2>1. output' \in [Path -> {Absent} \cup [entries: [Item -> Version], touches: 0..changes]]
    BY <1>5, <1>2 DEF ExportTypes
  <2> QED
    BY <1>5, <1>7, <1>8, <2>1 DEF ExportTypes
<1>12. Closed(items)
  BY <1>5, <1>3 DEF JobOK
<1>13. PinsOK(pins)' /\ PinsOK(job.lf)'
  <2>1. PinsOK(pins)'
    BY <1>5 DEF PinsOK, Closed, Holds
  <2>2. ASSUME NEW k \in Key, lf[k] # Absent
        PROVE  /\ lf[k].out = IF k = "plugin" THEN "plugin" ELSE PathOf(k)
               /\ k # "plugin" => Holds(lf[k].from) = {k}
               /\ k = "plugin" => Closed(Holds(lf[k].hash.entries))
               /\ \A i \in Holds(lf[k].from) \ raced : lf[k].hash.entries[i] = lf[k].from[i]
    <3>1. CASE lf[k] = job.lf[k]
      BY <1>5, <2>2, <3>1 DEF PinsOK
    <3>2. CASE lf[k] # job.lf[k]
      <4>1. k = "plugin" /\ lf[k].out = "plugin" /\ lf[k].hash = written
            /\ Holds(lf[k].from) = items /\ \A i \in items : lf[k].from[i] = drafts[i]
        BY <1>6, <3>2 DEF Pinning
      <4>2. Closed(Holds(lf[k].hash.entries))
        BY <1>5, <1>3, <1>12, <4>1
      <4> QED
        BY <1>5, <4>1, <4>2
    <3> QED
      BY <3>1, <3>2
  <2>3. job'.lf = lf /\ raced' = raced
    BY <1>5, <1>7
  <2>4. \A f : Holds(f)' = Holds(f) /\ Closed(f)' = Closed(f)
    BY DEF Holds, Closed
  <2>5. PinsOK(job.lf)'
    BY <2>2, <2>3, <2>4 DEF PinsOK
  <2> QED
    BY <2>1, <2>5
<1>14. JobOK'
  <2>1. ASSUME NEW k \in job'.done \ Merged, Concerns(k)' \cap raced' = {}
        PROVE  SettledPin(k)'
    <3>1. Holds(job'.loaded) = items /\ Concerns(k)' = Concerns(k) /\ k \in Key
      BY <1>5, <1>3, <1>7, <2>1 DEF Concerns, Holds, Job
    <3>2. CASE k = "plugin"
      <4>1. \A i \in items : i \notin raced
        BY <1>5, <1>3, <2>1, <3>1, <3>2 DEF Concerns
      <4>2. /\ lf[k].out = "plugin" /\ lf[k].from = SourcesOf(items) /\ lf[k].hash = written
            /\ lf[k] # Absent /\ Holds(lf[k].from) = items
        BY <1>5, <1>6, <3>2, <4>1 DEF Pinning
      <4>3. job'.lf[k] = lf[k] /\ output'[lf[k].out] = written /\ lf[k].hash = written
        BY <1>7, <1>9, <3>2, <4>2
      <4>4. lf[k].from = SourcesOf(items) /\ SourcesOf(items)' = SourcesOf(items)
        BY <1>5, <4>2 DEF SourcesOf
      <4>5. SourcesOf(Holds(job.lf[k].from))' = SourcesOf(items)'
        BY <4>2, <4>3 DEF SourcesOf, Holds
      <4> QED
        BY <1>5, <3>1, <4>2, <4>3, <4>4, <4>5 DEF SettledPin, Holds
    <3>3. CASE k # "plugin"
      <4>1. SettledPin(k) /\ lf[k] = job.lf[k]
        BY <1>5, <1>6, <1>7, <2>1, <3>1, <3>3 DEF JobOK, Pinning
      <4>2. job.lf[k].out \in Path \ {"plugin"}
        BY <1>5, <3>1, <3>3, <4>1, Places DEF PinsOK, SettledPin, Key
      <4>3. SourcesOf(Holds(job.lf[k].from))' = SourcesOf(Holds(job.lf[k].from))
        BY <1>5, <1>7, <4>1 DEF SourcesOf, Holds
      <4> QED
        BY <1>5, <1>7, <1>9, <3>3, <4>1, <4>2, <4>3 DEF SettledPin, Holds
    <3> QED
      BY <3>2, <3>3
  <2> QED
    BY <1>5, <1>3, <1>7, <1>12, <2>1 DEF JobOK, Closed, Holds
<1>15. MergedOK'
  <2>1. output'["merged"] = output["merged"]
    BY <1>9, Places
  <2>2. \A i \in Item : job'.lf[i] = job.lf[i]
    BY <1>6, <1>7, Places DEF Key, Pinning
  <2> QED
    BY <1>5, <1>7, <2>1, <2>2 DEF MergedOK, Holds
<1> QED
  BY <1>11, <1>13, <1>14, <1>15 DEF ExportInv

LEMMA ItemExportStep ==
  ASSUME ExportInv, ExportItem
  PROVE  ExportInv'
<1>1. ExportTypes /\ PinsOK(pins) /\ PinsOK(job.lf) /\ JobOK /\ MergedOK /\ job.pc = "items"
      /\ changes \in Nat /\ MaxChanges \in Nat /\ job.todo # {}
  BY ExportAssumption DEF ExportInv, ExportItem, ExportTypes
<1>2. PICK i \in Item : i = First(job.todo) /\ i \in job.todo /\ i \in Holds(job.loaded)
  <2>1. job.todo \in SUBSET Item /\ job.todo \subseteq Holds(job.loaded)
    BY <1>1 DEF ExportTypes, Job
  <2> QED
    BY <1>1, <2>1, FirstItem
<1>3. PICK o \in Path : o = PathOf(i) /\ o # "plugin" /\ (i \in Merged <=> o = "merged")
                      /\ (i \notin Merged => o = i)
  BY Places
<1>4. PICK written \in Content \cap [entries: [Item -> Version], touches: 0..changes] :
        /\ written = IF i \in Merged THEN MergedWith(i)
                     ELSE [entries |-> [NoEntries EXCEPT ![i] = job.loaded[i]], touches |-> 0]
        /\ written.entries[i] = job.loaded[i]
        /\ i \in Merged => \A j \in Item \ {i} :
             written.entries[j] # 0 => output["merged"] # Absent /\ output["merged"].entries[j] # 0
  <2> DEFINE W == [entries: [Item -> Version], touches: 0..changes]
             only == [entries |-> [NoEntries EXCEPT ![i] = job.loaded[i]], touches |-> 0]
             held == [output["merged"] EXCEPT !.entries[i] = job.loaded[i]]
  <2>1. job.loaded[i] \in Version
    BY <1>1 DEF ExportTypes
  <2>2. /\ only \in W /\ only.entries[i] = job.loaded[i]
        /\ \A j \in Item \ {i} : only.entries[j] = 0
    BY <1>1, <2>1 DEF NoEntries, Version
  <2>3. ASSUME output["merged"] # Absent
        PROVE  /\ held \in W /\ held.entries[i] = job.loaded[i]
               /\ \A j \in Item \ {i} : held.entries[j] = output["merged"].entries[j]
    <3>1. output["merged"] \in W
      BY <1>1, <2>3, Places DEF ExportTypes
    <3> QED
      BY <2>1, <3>1
  <2> HIDE DEF only, held
  <2>4. PICK w : w = IF i \in Merged THEN MergedWith(i) ELSE only
    OBVIOUS
  <2>5. \/ w = only
        \/ i \in Merged /\ output["merged"] # Absent /\ w = held
    BY <2>4 DEF MergedWith, only, held
  <2>6. /\ w \in W /\ w.entries[i] = job.loaded[i]
        /\ i \in Merged => \A j \in Item \ {i} :
             w.entries[j] # 0 => output["merged"] # Absent /\ output["merged"].entries[j] # 0
    BY <2>2, <2>3, <2>5
  <2>7. w \in Content
    <3>1. w \in W /\ Version \subseteq 0..(MaxChanges + 1) /\ 0..changes \subseteq 0..MaxChanges
      BY <1>1, <2>6 DEF Version, ExportTypes
    <3> QED
      BY <3>1 DEF Content
  <2> QED
    BY <2>4, <2>6, <2>7 DEF only
<1>5. PICK lf : lf = Record(i, o, {i})
  OBVIOUS
<1>6. /\ UNCHANGED <<drafts, pins, changes, exports, mishaps, raced>>
      /\ output' = [output EXCEPT ![o] = written]
      /\ job' = [job EXCEPT !.todo = @ \ {i}, !.lf = lf, !.done = @ \cup {i}]
  BY <1>2, <1>3, <1>4, <1>5 DEF ExportItem
<1>7. written # Absent /\ (i \notin raced => drafts[i] # 0 /\ job.loaded[i] = drafts[i])
  BY <1>1, <1>2, <1>4, ExportAssumption DEF Holds, JobOK
<1>8. Pinning(lf, i, o, {i}, written) /\ i \in Key
  <2>1. i \in Key /\ {i} \in SUBSET Item
    BY DEF Key
  <2>2. HashOutput(o) = written
    BY <1>1, <1>6 DEF ExportTypes, HashOutput
  <2>3. lf = IF {i} \subseteq Holds(drafts)
               THEN [job.lf EXCEPT ![i] = [out |-> o, from |-> SourcesOf({i}), hash |-> written]]
               ELSE job.lf
    BY <1>5, <2>2 DEF Record
  <2>4. written \in Content
    BY <1>4
  <2> QED
    BY <2>1, <2>3, <2>4, PinRecorded
<1>9. /\ job'.pc = "items" /\ job'.lf = lf /\ job'.done = job.done \cup {i}
      /\ job'.todo = job.todo \ {i} /\ job'.whole = job.whole
      /\ job'.loaded = job.loaded /\ job'.targets = job.targets /\ job' \in Job
  BY <1>1, <1>6, <1>8 DEF ExportTypes, Job, Key, Pinning
<1>10. Version' = Version
  BY <1>6 DEF Version
<1>11. output'[o] = written /\ \A p \in Path \ {o} : output'[p] = output[p]
  BY <1>1, <1>6 DEF ExportTypes
<1>12. ExportTypes'
  <2>1. output' \in [Path -> {Absent} \cup [entries: [Item -> Version], touches: 0..changes]]
    BY <1>1, <1>4, <1>6 DEF ExportTypes
  <2> QED
    BY <1>1, <1>6, <1>9, <1>10, <2>1 DEF ExportTypes, Holds
<1>13. PinsOK(pins)' /\ PinsOK(job.lf)'
  <2>1. PinsOK(pins)'
    BY <1>1, <1>6 DEF PinsOK, Closed, Holds
  <2>2. ASSUME NEW k \in Key, lf[k] # Absent
        PROVE  /\ lf[k].out = IF k = "plugin" THEN "plugin" ELSE PathOf(k)
               /\ k # "plugin" => Holds(lf[k].from) = {k}
               /\ k = "plugin" => Closed(Holds(lf[k].hash.entries))
               /\ \A j \in Holds(lf[k].from) \ raced : lf[k].hash.entries[j] = lf[k].from[j]
    <3>1. CASE lf[k] = job.lf[k]
      BY <1>1, <2>2, <3>1 DEF PinsOK
    <3>2. CASE lf[k] # job.lf[k]
      <4>1. k = i /\ lf[k].out = o /\ lf[k].hash = written
            /\ Holds(lf[k].from) = {i} /\ lf[k].from[i] = drafts[i]
        BY <1>8, <3>2 DEF Pinning
      <4>2. k # "plugin"
        BY <4>1, Places
      <4> QED
        BY <1>3, <1>4, <1>7, <4>1, <4>2
    <3> QED
      BY <3>1, <3>2
  <2> QED
    BY <1>6, <1>9, <2>1, <2>2 DEF PinsOK, Closed, Holds
<1>14. JobOK'
  <2>1. ASSUME NEW k \in job'.done \ Merged, Concerns(k)' \cap raced' = {}
        PROVE  SettledPin(k)'
    <3>1. Concerns(k)' = Concerns(k) /\ k \in Key
      BY <1>1, <1>9, <2>1 DEF Concerns, Holds, Job
    <3>2. CASE k = i
      <4>1. i # "plugin" /\ i \notin raced
        BY <1>6, <2>1, <3>1, <3>2, Places DEF Concerns
      <4>2. /\ lf[k].out = o /\ lf[k].from = SourcesOf({i}) /\ lf[k].hash = written
            /\ lf[k] # Absent /\ Holds(lf[k].from) = {i}
        BY <1>7, <1>8, <3>2, <4>1 DEF Pinning
      <4>3. job'.lf[k] = lf[k] /\ output'[lf[k].out] = written
        BY <1>9, <1>11, <4>2
      <4>4. SourcesOf(Holds(job.lf[k].from))' = SourcesOf({i})
        BY <1>6, <4>2, <4>3 DEF SourcesOf, Holds
      <4> QED
        BY <1>7, <3>2, <4>1, <4>2, <4>3, <4>4 DEF SettledPin
    <3>3. CASE k # i
      <4>1. SettledPin(k) /\ lf[k] = job.lf[k]
        BY <1>1, <1>6, <1>8, <1>9, <2>1, <3>1, <3>3 DEF JobOK, Pinning
      <4>2. job.lf[k].out \in Path \ {o}
        BY <1>1, <1>3, <2>1, <3>1, <3>3, <4>1, Places DEF PinsOK, SettledPin, Key
      <4>3. SourcesOf(Holds(job.lf[k].from))' = SourcesOf(Holds(job.lf[k].from))
        BY <1>6, <1>9, <4>1 DEF SourcesOf, Holds
      <4>4. Holds(job.loaded)' = Holds(job.loaded) /\ Holds(job.lf[k].from)' = Holds(job.lf[k].from)
        BY <1>9, <4>1 DEF Holds
      <4> QED
        BY <1>9, <1>11, <4>1, <4>2, <4>3, <4>4 DEF SettledPin
    <3> QED
      BY <3>2, <3>3
  <2>2. i # "plugin"
    BY Places
  <2> QED
    BY <1>1, <1>6, <1>9, <2>1, <2>2 DEF JobOK, Closed, Holds
<1>15. MergedOK'
  <2>1. CASE i \in Merged
    <3>1. output'["merged"] = written
      BY <1>3, <1>11, <2>1
    <3>2. i \in raced \/ lf[i] # Absent
      BY <1>7, <1>8 DEF Pinning
    <3>3. \A j \in Item \ {i} : lf[j] = job.lf[j]
      BY <1>8 DEF Pinning, Key
    <3>4. \A j \in Holds(written.entries) \ {i} :
            output["merged"] # Absent /\ j \in Holds(output["merged"].entries)
      BY <1>4, <2>1 DEF Holds
    <3>5. \A j \in Holds(written.entries) : mishaps = 0 =>
            /\ j \in raced \/ lf[j] # Absent
            /\ job.whole => j \in Holds(job.loaded) \cup raced
      BY <1>1, <1>2, <3>2, <3>3, <3>4 DEF MergedOK, Holds
    <3> QED
      BY <1>6, <1>9, <3>1, <3>5 DEF MergedOK, Holds
  <2>2. CASE i \notin Merged
    <3>1. output'["merged"] = output["merged"]
      BY <1>3, <1>11, <2>2, Places
    <3>2. \A j \in Item : job.lf[j] # Absent => job'.lf[j] # Absent
      BY <1>8, <1>9 DEF Pinning, Key
    <3> QED
      BY <1>1, <1>6, <1>9, <3>1, <3>2 DEF MergedOK, Holds
  <2> QED
    BY <2>1, <2>2
<1> QED
  BY <1>12, <1>13, <1>14, <1>15 DEF ExportInv

\* The rest of a run: the end of a target, and writes that fail.
LEMMA RestStep ==
  ASSUME ExportInv, ItemsDone \/ BundleFails \/ ItemFails
  PROVE  ExportInv'
<1>1. ExportTypes /\ PinsOK(pins) /\ PinsOK(job.lf) /\ JobOK /\ MergedOK
      /\ changes \in Nat /\ MaxMishaps \in Nat
  BY ExportAssumption DEF ExportInv, ExportTypes
<1>2. /\ UNCHANGED <<drafts, pins, changes, exports, raced>>
      /\ \/ mishaps' = mishaps /\ output' = output /\ job.pc = "items"
         \/ mishaps' > 0
      /\ mishaps' \in 0..MaxMishaps
  BY <1>1 DEF ItemsDone, BundleFails, ItemFails, Mishap, ExportTypes
<1>3. /\ job'.lf = job.lf /\ job'.done = job.done /\ job'.todo \subseteq job.todo
      /\ job'.loaded = job.loaded /\ job'.targets = job.targets /\ job'.whole = job.whole
      /\ job' \in Job /\ job'.pc \in {"target", "items"}
      /\ job.pc \in {"items", "bundle"} /\ (output' = output \/ job.pc = "bundle")
      /\ job.pc = "items" /\ mishaps' = mishaps /\ job'.pc = "items" => FALSE
  <2>1. CASE ItemsDone
    BY <1>1, <2>1 DEF ItemsDone, ExportTypes, Job
  <2>2. CASE BundleFails
    BY <1>1, <2>2 DEF BundleFails, ExportTypes, Job
  <2>3. CASE ItemFails
    <3>1. job' = [job EXCEPT !.todo = @ \ {First(@)}] /\ job.pc = "items" /\ UNCHANGED output
          /\ mishaps' = mishaps + 1
      BY <2>3 DEF ItemFails, Mishap
    <3>2. job' = [job EXCEPT !.todo = job.todo \ {First(job.todo)}]
      BY <3>1
    <3> QED
      BY <1>1, <3>1, <3>2 DEF ExportTypes, Job
  <2> QED
    BY <2>1, <2>2, <2>3
<1>4. /\ output' \in [Path -> {Absent} \cup [entries: [Item -> Version], touches: 0..changes]]
      /\ \A p \in Path \ {"plugin"} : output'[p] = output[p]
  <2>1. CASE output' = output
    BY <1>1, <2>1 DEF ExportTypes
  <2>2. CASE BundleFails
    <3>1. PICK last \in Holds(job.loaded) :
            output' = [output EXCEPT !["plugin"] =
                         [entries |-> [i \in Item |-> IF Rank[i] < Rank[last] THEN job.loaded[i] ELSE 0],
                          touches |-> 0]]
      BY <2>2 DEF BundleFails
    <3> DEFINE part == [i \in Item |-> IF Rank[i] < Rank[last] THEN job.loaded[i] ELSE 0]
    <3>2. part \in [Item -> Version]
      <4>1. \A i \in Item : job.loaded[i] \in Version
        BY <1>1 DEF ExportTypes
      <4>2. 0 \in Version
        BY <1>1 DEF Version
      <4> QED
        BY <4>1, <4>2
    <3> HIDE DEF part
    <3>3. output' = [output EXCEPT !["plugin"] = [entries |-> part, touches |-> 0]]
      BY <3>1 DEF part
    <3>4. [entries |-> part, touches |-> 0] \in [entries: [Item -> Version], touches: 0..changes]
      BY <1>1, <3>2
    <3> QED
      BY <1>1, <3>3, <3>4 DEF ExportTypes
  <2> QED
    BY <2>1, <2>2 DEF ItemsDone, ItemFails
<1>5. Version' = Version
  BY <1>2 DEF Version
<1>6. ExportTypes'
  BY <1>1, <1>2, <1>3, <1>4, <1>5 DEF ExportTypes, Holds
<1>7. PinsOK(pins)' /\ PinsOK(job.lf)'
  <2>1. pins' = pins /\ raced' = raced /\ job'.lf = job.lf
    BY <1>1, <1>2, <1>3
  <2>2. PinsOK(pins)'
    BY <1>1, <2>1 DEF PinsOK, Closed, Holds
  <2>3. PinsOK(job.lf)'
    BY <1>1, <2>1 DEF PinsOK, Closed, Holds
  <2> QED
    BY <2>2, <2>3
<1>8. JobOK'
  <2>1. ASSUME NEW k \in job'.done \ Merged, Concerns(k)' \cap raced' = {}
        PROVE  SettledPin(k)'
    <3>1. Concerns(k)' = Concerns(k) /\ k \in Key /\ SettledPin(k)
      BY <1>1, <1>2, <1>3, <2>1 DEF Concerns, Holds, JobOK, ExportTypes, Job
    <3>2. output'[job.lf[k].out] = output[job.lf[k].out]
      <4>1. CASE job.pc = "bundle"
        <5>1. k # "plugin"
          BY <1>1, <1>3, <2>1, <4>1 DEF JobOK
        <5>2. job.lf[k].out \in Path \ {"plugin"}
          BY <1>1, <3>1, <5>1, Places DEF PinsOK, SettledPin, Key
        <5> QED
          BY <1>4, <5>2
      <4> QED
        BY <1>3, <4>1
    <3>3. SourcesOf(Holds(job.lf[k].from))' = SourcesOf(Holds(job.lf[k].from))
      BY <1>2, <1>3 DEF SourcesOf, Holds
    <3>4. Holds(job.loaded)' = Holds(job.loaded) /\ Holds(job.lf[k].from)' = Holds(job.lf[k].from)
      BY <1>3 DEF Holds
    <3> QED
      BY <1>3, <3>1, <3>2, <3>3, <3>4 DEF SettledPin
  <2> QED
    BY <1>1, <1>2, <1>3, <2>1 DEF JobOK, Closed, Holds
<1>9. MergedOK'
  BY <1>1, <1>2, <1>3 DEF MergedOK, Holds
<1> QED
  BY <1>6, <1>7, <1>8, <1>9 DEF ExportInv

LEMMA EndStep ==
  ASSUME ExportInv, (\E saved \in BOOLEAN : EndExport(saved)) \/ KillExport
  PROVE  ExportInv'
<1>1. mishaps \in 0..MaxMishaps /\ MaxMishaps \in Nat
  BY ExportAssumption DEF ExportInv, ExportTypes
<1>2. CASE KillExport
  BY <1>1, <1>2, LeaveStep DEF KillExport, Mishap
<1>3. CASE \E saved \in BOOLEAN : EndExport(saved)
  BY <1>1, <1>3, LeaveStep DEF EndExport, Mishap
<1> QED
  BY <1>2, <1>3

LEMMA ExportStepKeeps ==
  ASSUME ExportInv, [ExportNext]_exportVars
  PROVE  ExportInv'
<1>1. CASE ExportNext
  BY <1>1, ArtifactStep, OutputStep, StartStep, BuildStep, PlanExportStep, TargetStep,
     BundleExportStep, ItemExportStep, RestStep, EndStep DEF ExportNext, ExportStep
<1>2. CASE UNCHANGED exportVars
  <2>1. UNCHANGED <<drafts, output, pins, job, changes, exports, mishaps, raced>>
    BY <1>2 DEF exportVars
  <2>2. Version' = Version /\ JobOK' /\ MergedOK'
    BY <2>1 DEF ExportInv, Version, JobOK, MergedOK, Holds, Closed, Concerns, SettledPin, SourcesOf
  <2>3. ExportTypes'
    BY <2>1, <2>2 DEF ExportInv, ExportTypes
  <2>4. PinsOK(pins)' /\ PinsOK(job.lf)'
    BY <2>1 DEF ExportInv, PinsOK, Holds, Closed
  <2> QED
    BY <2>2, <2>3, <2>4 DEF ExportInv
<1> QED
  BY <1>1, <1>2

\* An export that ends and is saved leaves what it wrote in sync: its settled pins
\* become the lockfile.
LEMMA EndsSettled ==
  ASSUME ExportInv, [ExportNext]_exportVars
  PROVE  EndsInSync
<1> SUFFICES ASSUME job.pc = "target", job'.pc = "idle", mishaps' = mishaps,
                    NEW k \in job.done \ Merged,
                    (IF k = "plugin" THEN Holds(job.loaded) \cup {k} ELSE {k, PathOf(k)}) \cap raced = {}
             PROVE  Known(k)' /\ Status(k)' = "in sync"
  BY DEF EndsInSync
<1>1. pins' = job.lf /\ UNCHANGED <<drafts, output>>
  <2>1. mishaps \in Nat /\ job \in Job /\ ExportTypes
    BY ExportAssumption DEF ExportInv, ExportTypes
  <2>2. PICK saved \in BOOLEAN : EndExport(saved)
    <3>1. ~ UNCHANGED exportVars
      BY DEF exportVars
    <3>2. ~ (\E i \in Item : EditArtifact(i) \/ RemoveArtifact(i))
      BY DEF EditArtifact, RemoveArtifact
    <3>3. ~ (\E o \in Path : EditOutput(o) \/ RemoveOutput(o))
      BY DEF EditOutput, RemoveOutput
    <3>4. ~ (\E t \in {"claude-code", "cursor"} : NextTarget(t))
      BY <2>1 DEF NextTarget, Job
    <3>5. ~ (\/ \E paths \in SUBSET Item, targets \in SUBSET {"claude-code", "cursor"} : StartExport(paths, targets)
             \/ \E ok \in BOOLEAN : Build(ok) \/ Plan \/ ExportBundle \/ ExportItem
             \/ ItemFails \/ ItemsDone \/ BundleFails)
      BY DEF StartExport, Build, Plan, ExportBundle, ExportItem, ItemFails, ItemsDone, BundleFails
    <3>6. ~ KillExport
      BY <2>1 DEF KillExport, Mishap
    <3> QED
      BY <3>1, <3>2, <3>3, <3>4, <3>5, <3>6 DEF ExportNext, ExportStep
  <2>3. saved
    BY <2>1, <2>2 DEF EndExport, Mishap
  <2> QED
    BY <2>2, <2>3 DEF EndExport, Leave
<1>2. SettledPin(k)
  BY DEF ExportInv, JobOK, Concerns
<1>3. /\ pins'[k] # Absent
      /\ output'[pins'[k].out] # Absent /\ output'[pins'[k].out] = pins'[k].hash
      /\ SourcesOf(Holds(pins[k].from))' = pins'[k].from
  BY <1>1, <1>2 DEF SettledPin, SourcesOf, Holds
<1> QED
  BY <1>3 DEF Known, Status

LEMMA ItemsLeave ==
  ASSUME ExportInv
  PROVE  LeavesNoStaleEntry
BY DEF ExportInv, MergedOK, LeavesNoStaleEntry

\* What status says of the outputs is true, for every project, whatever is edited,
\* removed, exported in part, killed or not saved, and whenever.
THEOREM StatusSafety ==
  ExportSpec => []StatusIsTrue
<1>1. ExportInit => ExportInv
  BY ExportStarts
<1>2. ExportInv /\ [ExportNext]_exportVars => ExportInv'
  BY ExportStepKeeps
<1>3. ExportInv => StatusIsTrue
  BY ExportImplies
<1> QED
  BY <1>1, <1>2, <1>3, PTL DEF ExportSpec

\* An export that ends well leaves in sync whatever it wrote, and a whole-project
\* export leaves no entry of a removed artifact in a shared file.
THEOREM ExportExactness ==
  ExportSpec => ExportsAreExact
<1>1. ExportInit => ExportInv
  BY ExportStarts
<1>2. ExportInv /\ [ExportNext]_exportVars => ExportInv'
  BY ExportStepKeeps
<1>3. ExportInv /\ [ExportNext]_exportVars => [EndsInSync /\ LeavesNoStaleEntry]_exportVars
  BY EndsSettled, ItemsLeave
<1> QED
  BY <1>1, <1>2, <1>3, PTL DEF ExportSpec, ExportsAreExact

-----------------------------------------------------------------------------
(* Evaluations *)

EvalResult == [at : Nat, caseAt : Nat, case : CaseName \cup {NoCase}, runs : Nat,
               outcome : {"passed", "failed", "skipped"}, deserved : BOOLEAN]

EvalTypes ==
  /\ EvalTypeOK
  /\ evalProject \in ProjectDefault
  /\ evalResults \in Seq(EvalResult)
  /\ evalCounts \in [ran : Nat, failed : Nat, skipped : Nat]
  /\ caseAt \in Nat

\* A result of a case that ran.
Ran(r) == r.case # NoCase /\ r.outcome # "skipped"

\* What a result must be by itself.
ResultOK(r) ==
  /\ StandsForOne(r)
  /\ Ran(r) => ((r.outcome = "passed") <=> r.deserved)

\* The results lie in their order before the case at hand.
EachOK == \A i \in DOMAIN evalResults : ResultOK(evalResults[i])
InOrder == \A i, j \in DOMAIN evalResults : i < j => Before(evalResults[i], evalResults[j])
ResultsOK ==
  /\ EachOK /\ InOrder
  /\ \A i \in DOMAIN evalResults : Before(evalResults[i], [at |-> evalAt, caseAt |-> caseAt])

\* Nothing before the case at hand is missing.
NoneMissing ==
  /\ \A a \in 1 .. evalAt - 1 : AllReported(a)
  /\ caseAt # 0 => \A c \in 1 .. caseAt - 1 : Chosen(EvalSuite.cases[c]) => IsReported(evalAt, c)

CountsOK ==
  /\ evalCounts.failed = Cardinality(OfOutcome(DOMAIN evalResults, "failed"))
  /\ evalCounts.skipped = Cardinality(OfOutcome(DOMAIN evalResults, "skipped"))
  /\ evalCounts.ran = Cardinality({i \in DOMAIN evalResults : Ran(evalResults[i])})

ExitOK ==
  /\ exitStatus # "none" => evalAt > Len(EvalArtifact)
  /\ exitStatus = "ok" => evalCounts.failed = 0
  /\ exitStatus = "failed" => evalCounts.failed > 0

\* Only a selected case of an artifact with a runner is run.
RunsOK == evalRuns = merits /\ (evalRuns # <<>> => Chosen(EvalCase) /\ EvalConfig.runner)

EvalInv ==
  /\ EvalTypes
  /\ RunsOK
  /\ ResultsOK
  /\ NoneMissing
  /\ CountsOK
  /\ ExitOK

\* A configuration in force has at least one run.
LEMMA EvalConfigs ==
  ASSUME NEW s \in Suite, evalProject \in ProjectDefault
  PROVE  /\ ForArtifact(s).runner \in BOOLEAN /\ ForArtifact(s).judge \in BOOLEAN
         /\ ForArtifact(s).runs \in Nat \ {0}
         /\ s.cases \in Seq(Case)
         /\ \A c \in DOMAIN s.cases : s.cases[c] \in Case
         /\ \A c \in DOMAIN s.cases :
              ~Unusable(s) => RunsOf(s.cases[c], ForArtifact(s)) \in Nat \ {0} /\ s.cases[c].name # NoCase
         /\ s.cases # <<>> /\ ~Unusable(s) => ForArtifact(s).protocol \in {"text", "json"}
<1>1. s \in SuiteFile /\ evalProject \in EvalBlock
  BY EvalAssumption
<1>2. /\ ForArtifact(s).runner \in BOOLEAN /\ ForArtifact(s).judge \in BOOLEAN
      /\ ForArtifact(s).runs \in Nat \ {0}
  BY <1>1 DEF ForArtifact, SuiteFile, EvalBlock
<1>3. s.cases \in Seq(Case)
  BY <1>1 DEF SuiteFile
<1>4. \A c \in DOMAIN s.cases : s.cases[c] \in Case
  BY <1>3
<1>5. ASSUME NEW c \in DOMAIN s.cases, ~Unusable(s)
      PROVE  RunsOf(s.cases[c], ForArtifact(s)) \in Nat \ {0} /\ s.cases[c].name # NoCase
  <2>1. Valid(s.cases[c])
    BY <1>5 DEF Unusable, Loads
  <2>2. s.cases[c].runs \in Int
    BY <1>4, <1>5 DEF Case
  <2> QED
    BY <1>2, <2>1, <2>2 DEF Valid, RunsOf
<1>6. s.cases # <<>> /\ ~Unusable(s) => ForArtifact(s).protocol \in {"text", "json"}
  BY DEF Unusable, ValidProtocol
<1> QED
  BY <1>2, <1>3, <1>4, <1>5, <1>6

\* A run passes exactly if it deserves to, under either protocol.
LEMMA PassesIfDeserved ==
  ASSUME NEW c \in Case, NEW out \in Output, NEW v \in Verdict,
         EvalConfig.protocol \in {"text", "json"}, EvalConfig.judge \in BOOLEAN
  PROVE  /\ RunOnce(c, out, v) = {} <=> Deserves(c, out, v)
         /\ Deserves(c, out, v) \in BOOLEAN
<1>1. /\ c.text \in BOOLEAN /\ c.calls \in BOOLEAN /\ c.activation \in BOOLEAN /\ c.rubric \in BOOLEAN
  BY DEF Case
<1>2. /\ out.exit \in {"ok", "error", "timeout"} /\ out.object \in BOOLEAN /\ out.text \in BOOLEAN
      /\ out.calls \in Reported /\ out.activated \in Reported
  BY DEF Output, Reported
<1>3. Deserves(c, out, v) \in BOOLEAN
  BY DEF Deserves
<1>4. CASE out.exit # "ok" \/ (NeedsTrace(c) /\ EvalConfig.protocol # "json") \/ (c.rubric /\ ~EvalConfig.judge)
  <2>1. RunOnce(c, out, v) # {}
    BY <1>4 DEF RunOnce
  <2>2. ~Deserves(c, out, v)
    BY <1>1, <1>4 DEF Deserves, NeedsTrace
  <2> QED
    BY <1>3, <2>1, <2>2
<1>5. CASE ~(out.exit # "ok" \/ (NeedsTrace(c) /\ EvalConfig.protocol # "json") \/ (c.rubric /\ ~EvalConfig.judge))
  <2> DEFINE resp == ParseResponse(EvalConfig.protocol, out)
  <2>1. RunOnce(c, out, v) = IF ~resp.parsed THEN {"response"}
                             ELSE TextReasons(c, resp) \cup TraceReasons(c, resp) \cup JudgeReasons(c, v)
    BY <1>5 DEF RunOnce
  <2>2. JudgeReasons(c, v) = {} <=> (c.rubric => v = "pass")
    BY <1>1 DEF JudgeReasons
  <2>3. resp.parsed <=> (EvalConfig.protocol = "json" => out.object)
    BY <1>2 DEF ParseResponse
  <2>4. resp.text = out.text
    BY DEF ParseResponse
  <2>5. TextReasons(c, resp) = {} <=> (c.text => out.text)
    BY <1>1, <1>2, <2>4 DEF TextReasons
  <2>6. TraceReasons(c, resp) = {} <=> /\ c.calls => EvalConfig.protocol = "json" /\ out.calls = "good"
                                       /\ c.activation => EvalConfig.protocol = "json" /\ out.activated = "good"
    <3>1. CASE EvalConfig.protocol = "json"
      <4>1. resp.calls = out.calls /\ resp.activated = out.activated
        BY <3>1 DEF ParseResponse
      <4> HIDE DEF resp
      <4> QED
        BY <1>1, <1>2, <3>1, <4>1 DEF TraceReasons, Reported
    <3>2. CASE EvalConfig.protocol # "json"
      <4>1. ~c.calls /\ ~c.activation
        BY <1>1, <1>5, <3>2 DEF NeedsTrace
      <4> HIDE DEF resp
      <4> QED
        BY <4>1 DEF TraceReasons
    <3> QED
      BY <3>1, <3>2
  <2> HIDE DEF resp
  <2>7. RunOnce(c, out, v) = {} <=> /\ EvalConfig.protocol = "json" => out.object
                                    /\ TextReasons(c, resp) = {} /\ TraceReasons(c, resp) = {}
                                    /\ JudgeReasons(c, v) = {}
    BY <2>1, <2>3
  <2> QED
    BY <1>1, <1>2, <1>3, <1>5, <2>2, <2>5, <2>6, <2>7 DEF Deserves
<1> QED
  BY <1>4, <1>5

\* One more result is counted where it belongs.
LEMMA OneMore ==
  ASSUME NEW n \in Nat, NEW S \in SUBSET (1 .. n), NEW T \in SUBSET (1 .. n + 1), NEW b \in BOOLEAN,
         \A i \in 1 .. n : i \in T <=> i \in S, n + 1 \in T <=> b
  PROVE  /\ Cardinality(S) \in Nat
         /\ Cardinality(T) = Cardinality(S) + (IF b THEN 1 ELSE 0)
<1>1. IsFiniteSet(S)
  <2>1. IsFiniteSet(1 .. n)
    BY FS_Interval
  <2> QED
    BY <2>1, FS_Subset
<1>2. n + 1 \notin S
  OBVIOUS
<1>3. \A i \in 1 .. n + 1 : i \in 1 .. n \/ i = n + 1
  OBVIOUS
<1>4. T = IF b THEN S \cup {n + 1} ELSE S
  <2>1. ASSUME NEW i PROVE i \in T <=> i \in (IF b THEN S \cup {n + 1} ELSE S)
    <3>1. i \in T => i \in 1 .. n \/ i = n + 1
      BY <1>3
    <3>2. i \in S => i \in 1 .. n
      OBVIOUS
    <3> QED
      BY <3>1, <3>2
  <2> QED
    BY <2>1
<1>5. Cardinality(S) \in Nat /\ Cardinality(S \cup {n + 1}) = Cardinality(S) + 1
  BY <1>1, <1>2, FS_AddElement, FS_CardinalityType
<1> QED
  BY <1>4, <1>5

\* One result is recorded, for the case at hand.
RecordedOne ==
  \E r \in EvalResult :
    /\ evalResults' = Append(evalResults, r)
    /\ r.at = evalAt /\ r.caseAt = caseAt /\ ResultOK(r)
    /\ evalCounts' = [ran |-> evalCounts.ran + (IF Ran(r) THEN 1 ELSE 0),
                      failed |-> evalCounts.failed + (IF r.outcome = "failed" THEN 1 ELSE 0),
                      skipped |-> evalCounts.skipped + (IF r.outcome = "skipped" THEN 1 ELSE 0)]

\* What every step of a run does to the results.
Reporting == RecordedOne \/ UNCHANGED <<evalResults, evalCounts>>

\* What it does to its place: nothing, from an artifact to its first case or to the
\* next artifact, or from a case to the next one; nothing that is to be reported is
\* left without a result.
Stays == UNCHANGED <<evalAt, caseAt>> /\ UNCHANGED <<evalResults, evalCounts>>
Enters ==
  /\ caseAt = 0 /\ evalAt <= Len(EvalArtifact)
  /\ ~Unusable(EvalSuite) /\ EvalSuite.cases # <<>>
  /\ caseAt' = 1 /\ UNCHANGED <<evalAt, evalResults, evalCounts>>
PassesArtifact ==
  /\ caseAt = 0 /\ evalAt <= Len(EvalArtifact)
  /\ Unusable(EvalSuite) => RecordedOne
  /\ Unusable(EvalSuite) \/ EvalSuite.cases = <<>>
  /\ evalAt' = evalAt + 1 /\ UNCHANGED caseAt
PassesCase ==
  /\ caseAt # 0
  /\ Chosen(EvalCase) => RecordedOne
  /\ NextCase
Moving == Stays \/ Enters \/ PassesArtifact \/ PassesCase

\* After a recorded result there are those from before, and it.
LEMMA GrowsByOne ==
  ASSUME NEW rs \in Seq(EvalResult), NEW r \in EvalResult
  PROVE  /\ Append(rs, r) \in Seq(EvalResult)
         /\ Len(rs) \in Nat /\ DOMAIN rs = 1 .. Len(rs)
         /\ DOMAIN Append(rs, r) = 1 .. Len(rs) + 1
         /\ Append(rs, r)[Len(rs) + 1] = r
         /\ \A i \in 1 .. Len(rs) : Append(rs, r)[i] = rs[i] /\ rs[i] \in EvalResult
OBVIOUS

\* Recorded results are each in order and counted, and everything reported stays so.
LEMMA ReportingKeeps ==
  ASSUME EvalTypes, ResultsOK, CountsOK, Reporting, UNCHANGED evalInputs
  PROVE  /\ evalResults' \in Seq(EvalResult) /\ evalCounts' \in [ran : Nat, failed : Nat, skipped : Nat]
         /\ EachOK' /\ InOrder'
         /\ \A i \in DOMAIN evalResults' :
              \/ Before(evalResults'[i], [at |-> evalAt, caseAt |-> caseAt])
              \/ RecordedOne /\ evalResults'[i].at = evalAt /\ evalResults'[i].caseAt = caseAt
         /\ \A a, c : IsReported(a, c) => IsReported(a, c)'
         /\ RecordedOne => \A a, c : a = evalAt /\ c = caseAt => IsReported(a, c)'
         /\ CountsOK'
<1>1. \A i : ResultOK(evalResults[i])' <=> ResultOK(evalResults'[i])
  BY DEF evalInputs, ResultOK, StandsForOne, Chosen, RunsOf, Unusable, Loads, Valid, ValidProtocol, ForArtifact, Ran
<1>2. evalResults \in Seq(EvalResult) /\ evalCounts \in [ran : Nat, failed : Nat, skipped : Nat]
  BY DEF EvalTypes
<1>3. CASE UNCHANGED <<evalResults, evalCounts>>
  <2>1. ~RecordedOne
    BY <1>2, <1>3, GrowsByOne DEF RecordedOne
  <2> QED
    BY <1>1, <1>2, <1>3, <2>1 DEF ResultsOK, EachOK, InOrder, Before, IsReported, CountsOK, OfOutcome, Ran
<1>4. CASE RecordedOne
  <2>1. PICK r \in EvalResult :
          /\ evalResults' = Append(evalResults, r)
          /\ r.at = evalAt /\ r.caseAt = caseAt /\ ResultOK(r)
          /\ evalCounts' = [ran |-> evalCounts.ran + (IF Ran(r) THEN 1 ELSE 0),
                            failed |-> evalCounts.failed + (IF r.outcome = "failed" THEN 1 ELSE 0),
                            skipped |-> evalCounts.skipped + (IF r.outcome = "skipped" THEN 1 ELSE 0)]
    BY <1>4 DEF RecordedOne
  <2>2. PICK n \in Nat : n = Len(evalResults)
    BY <1>2
  <2>3. /\ evalResults' \in Seq(EvalResult)
        /\ DOMAIN evalResults = 1 .. n /\ DOMAIN evalResults' = 1 .. n + 1
        /\ evalResults'[n + 1] = r
        /\ \A i \in 1 .. n : evalResults'[i] = evalResults[i]
    BY <1>2, <2>1, <2>2, GrowsByOne
  <2>4. \A i \in 1 .. n + 1 : i \in 1 .. n \/ i = n + 1
    OBVIOUS
  <2>5. EachOK'
    <3> SUFFICES ASSUME NEW i \in 1 .. n + 1 PROVE ResultOK(evalResults[i])'
      BY <2>3 DEF EachOK
    <3>1. ResultOK(evalResults'[i])
      BY <2>1, <2>3, <2>4 DEF ResultsOK, EachOK
    <3>2. ResultOK(evalResults[i])' <=> ResultOK(evalResults'[i])
      BY <1>1
    <3> QED
      BY <3>1, <3>2
  <2>6. \A i \in 1 .. n : Before(evalResults[i], r)
    BY <2>1, <2>3 DEF ResultsOK, Before
  <2>7. InOrder'
    <3> SUFFICES ASSUME NEW i \in 1 .. n + 1, NEW j \in 1 .. n + 1, i < j
                 PROVE  Before(evalResults'[i], evalResults'[j])
      BY <2>3 DEF InOrder, Before
    <3>1. i \in 1 .. n
      OBVIOUS
    <3>2. CASE j \in 1 .. n
      BY <2>3, <3>1, <3>2 DEF ResultsOK, InOrder
    <3>3. CASE j = n + 1
      BY <2>3, <2>6, <3>1, <3>3
    <3> QED
      BY <2>4, <3>2, <3>3
  <2>8. \A i \in DOMAIN evalResults' :
          \/ Before(evalResults'[i], [at |-> evalAt, caseAt |-> caseAt])
          \/ RecordedOne /\ evalResults'[i].at = evalAt /\ evalResults'[i].caseAt = caseAt
    BY <1>4, <2>1, <2>3, <2>4 DEF ResultsOK
  <2>9. \A a, c : IsReported(a, c) => IsReported(a, c)'
    BY <2>3 DEF IsReported
  <2>10. \A a, c : a = evalAt /\ c = caseAt => IsReported(a, c)'
    <3>1. n + 1 \in DOMAIN evalResults'
      BY <2>3
    <3> QED
      BY <2>1, <2>3, <3>1 DEF IsReported
  <2>11. CountsOK'
    <3> DEFINE Of(o) == {i \in 1 .. n : evalResults[i].outcome = o}
               New(o) == {i \in 1 .. n + 1 : evalResults'[i].outcome = o}
               Of1 == {i \in 1 .. n : Ran(evalResults[i])}
               New1 == {i \in 1 .. n + 1 : Ran(evalResults'[i])}
    <3>1. ASSUME NEW o \in {"failed", "skipped"}
          PROVE  Cardinality(New(o)) = Cardinality(Of(o)) + (IF r.outcome = o THEN 1 ELSE 0)
      <4>1. Of(o) \in SUBSET (1 .. n) /\ New(o) \in SUBSET (1 .. n + 1)
        OBVIOUS
      <4>2. \A i \in 1 .. n : i \in New(o) <=> i \in Of(o)
        BY <2>3
      <4>3. n + 1 \in New(o) <=> r.outcome = o
        BY <2>3
      <4> HIDE DEF Of, New
      <4> QED
        BY <4>1, <4>2, <4>3, OneMore
    <3>2. Cardinality(New1) = Cardinality(Of1) + (IF Ran(r) THEN 1 ELSE 0)
      <4>1. Of1 \in SUBSET (1 .. n) /\ New1 \in SUBSET (1 .. n + 1)
        OBVIOUS
      <4>2. \A i \in 1 .. n : i \in New1 <=> i \in Of1
        BY <2>3
      <4>3. n + 1 \in New1 <=> Ran(r)
        BY <2>3
      <4> HIDE DEF Of1, New1
      <4> QED
        BY <4>1, <4>2, <4>3, OneMore DEF Ran
    <3>3. \A o : OfOutcome(DOMAIN evalResults, o) = Of(o) /\ OfOutcome(DOMAIN evalResults, o)' = New(o)
      BY <2>3 DEF OfOutcome
    <3>4. /\ {i \in DOMAIN evalResults : Ran(evalResults[i])} = Of1
          /\ {i \in DOMAIN evalResults : Ran(evalResults[i])}' = New1
      BY <2>3 DEF Ran
    <3> HIDE DEF Of, New, Of1, New1
    <3> QED
      BY <2>1, <3>1, <3>2, <3>3, <3>4 DEF CountsOK
  <2> QED
    BY <1>2, <1>4, <2>1, <2>3, <2>5, <2>7, <2>8, <2>9, <2>10, <2>11
<1> QED
  BY <1>3, <1>4 DEF Reporting

\* What is reported at an artifact depends on its files and on the results alone.
LEMMA ReportedStays ==
  ASSUME UNCHANGED evalInputs, \A a, c : IsReported(a, c) => IsReported(a, c)'
  PROVE  /\ \A a : AllReported(a) => AllReported(a)'
         /\ \A s : Unusable(s)' <=> Unusable(s)
         /\ \A c : Chosen(c)' <=> Chosen(c)
<1>1. \A s : Unusable(s)' <=> Unusable(s)
  BY DEF evalInputs, Unusable, Loads, Valid, ValidProtocol, ForArtifact
<1>2. \A c : Chosen(c)' <=> Chosen(c)
  BY DEF evalInputs, Chosen
<1>3. ASSUME NEW a, AllReported(a) PROVE AllReported(a)'
  <2>1. suites' = suites
    BY DEF evalInputs
  <2> QED
    BY <1>1, <1>2, <1>3, <2>1 DEF AllReported
<1> QED
  BY <1>1, <1>2, <1>3

\* Whatever the place moves on to, the results lie before it and nothing before it
\* is missing.
LEMMA MovingKeeps ==
  ASSUME EvalTypes, ResultsOK, NoneMissing, CountsOK, Moving, Reporting, UNCHANGED evalInputs
  PROVE  ResultsOK' /\ NoneMissing' /\ CountsOK'
         /\ evalResults' \in Seq(EvalResult) /\ evalCounts' \in [ran : Nat, failed : Nat, skipped : Nat]
         /\ evalAt' \in 1 .. Len(EvalArtifact) + 1 /\ caseAt' \in Nat
<1>1. /\ evalAt \in 1 .. Len(EvalArtifact) + 1 /\ caseAt \in Nat /\ Len(EvalArtifact) \in Nat
      /\ caseAt # 0 => evalAt <= Len(EvalArtifact) /\ ~Unusable(EvalSuite) /\ caseAt \in DOMAIN EvalSuite.cases
      /\ suites' = suites
      /\ suites \in [1 .. Len(EvalArtifact) -> Suite]
  BY EvalAssumption DEF EvalTypes, EvalTypeOK, evalInputs
<1>2. \A i \in DOMAIN evalResults' : evalResults'[i].at \in Nat /\ evalResults'[i].caseAt \in Nat
  <2>1. evalResults' \in Seq(EvalResult)
    BY ReportingKeeps
  <2>2. \A i \in DOMAIN evalResults' : evalResults'[i] \in EvalResult
    BY <2>1
  <2> QED
    BY <2>2 DEF EvalResult
<1>3. evalAt <= Len(EvalArtifact) => Len(EvalSuite.cases) \in Nat /\ DOMAIN EvalSuite.cases = 1 .. Len(EvalSuite.cases)
  BY <1>1, EvalConfigs DEF EvalTypes, EvalSuite
<1>4. /\ \A a : AllReported(a) => AllReported(a)'
      /\ \A s : Unusable(s)' <=> Unusable(s)
      /\ \A c : Chosen(c)' <=> Chosen(c)
      /\ \A a, c : IsReported(a, c) => IsReported(a, c)'
  BY ReportingKeeps, ReportedStays
<1>5. CASE Stays
  <2>1. ~RecordedOne
    BY <1>5, GrowsByOne DEF RecordedOne, EvalTypes, Stays
  <2>2. ResultsOK'
    BY <1>5, <2>1, ReportingKeeps DEF ResultsOK, Stays
  <2>3. NoneMissing'
    BY <1>1, <1>4, <1>5 DEF NoneMissing, Stays, EvalSuite
  <2> QED
    BY <1>1, <1>5, <2>2, <2>3, ReportingKeeps DEF Stays
<1>6. CASE Enters
  <2>1. ~RecordedOne
    BY <1>6, GrowsByOne DEF RecordedOne, EvalTypes, Enters
  <2>2. ResultsOK'
    <3>1. ASSUME NEW i \in DOMAIN evalResults'
          PROVE  Before(evalResults'[i], [at |-> evalAt', caseAt |-> caseAt'])
      <4>1. Before(evalResults'[i], [at |-> evalAt, caseAt |-> caseAt])
        BY <2>1, <3>1, ReportingKeeps
      <4> QED
        BY <1>1, <1>2, <1>6, <4>1 DEF Before, Enters
    <3> QED
      BY <3>1, ReportingKeeps DEF ResultsOK, Before
  <2>3. NoneMissing'
    <3>1. \A a \in 1 .. evalAt' - 1 : AllReported(a)'
      BY <1>4, <1>6 DEF NoneMissing, Enters
    <3>2. 1 .. caseAt' - 1 = {}
      BY <1>6 DEF Enters
    <3> QED
      BY <3>1, <3>2 DEF NoneMissing
  <2> QED
    BY <1>1, <1>6, <2>2, <2>3, ReportingKeeps DEF Enters
<1>7. CASE PassesArtifact
  <2>1. ResultsOK'
    <3>1. ASSUME NEW i \in DOMAIN evalResults'
          PROVE  Before(evalResults'[i], [at |-> evalAt', caseAt |-> caseAt'])
      <4>1. \/ Before(evalResults'[i], [at |-> evalAt, caseAt |-> caseAt])
            \/ evalResults'[i].at = evalAt
        BY <3>1, ReportingKeeps
      <4> QED
        BY <1>1, <1>2, <1>7, <3>1, <4>1 DEF Before, PassesArtifact
    <3> QED
      BY <3>1, ReportingKeeps DEF ResultsOK, Before
  <2>2. \A a : a = evalAt => AllReported(a)'
    <3>1. SUFFICES ASSUME NEW a, a = evalAt PROVE AllReported(a)'
      OBVIOUS
    <3>2. CASE Unusable(EvalSuite)
      <4>1. IsReported(a, 0)'
        BY <1>7, <3>1, <3>2, ReportingKeeps DEF PassesArtifact
      <4>2. Unusable(suites[a])'
        BY <1>1, <1>4, <3>1, <3>2 DEF EvalSuite
      <4> QED
        BY <4>1, <4>2 DEF AllReported
    <3>3. CASE ~Unusable(EvalSuite)
      <4>1. suites[a].cases = <<>>
        BY <1>7, <3>1, <3>3 DEF PassesArtifact, EvalSuite
      <4>2. AllReported(a)
        BY <3>1, <3>3, <4>1 DEF AllReported, EvalSuite
      <4> QED
        BY <1>4, <4>2
    <3> QED
      BY <3>2, <3>3
  <2>3. NoneMissing'
    <3>1. ASSUME NEW a \in 1 .. evalAt' - 1 PROVE AllReported(a)'
      <4>1. a \in 1 .. evalAt - 1 \/ a = evalAt
        BY <1>1, <1>7, <3>1 DEF PassesArtifact
      <4> QED
        BY <1>4, <2>2, <4>1 DEF NoneMissing
    <3> QED
      BY <1>7, <3>1 DEF NoneMissing, PassesArtifact
  <2> QED
    BY <1>1, <1>7, <2>1, <2>3, ReportingKeeps DEF PassesArtifact
<1>8. CASE PassesCase
  <2>1. evalAt <= Len(EvalArtifact) /\ caseAt \in 1 .. Len(EvalSuite.cases) /\ Len(EvalSuite.cases) \in Nat
    BY <1>1, <1>3, <1>8 DEF PassesCase
  <2>2. ASSUME NEW c \in 1 .. caseAt, Chosen(EvalSuite.cases[c])
        PROVE  \A a : a = evalAt => IsReported(a, c)'
    <3>1. CASE c = caseAt
      BY <1>8, <2>2, <3>1, ReportingKeeps DEF PassesCase, EvalCase
    <3>2. CASE c # caseAt
      <4>1. c \in 1 .. caseAt - 1
        BY <1>1, <3>2
      <4>2. IsReported(evalAt, c)
        BY <1>8, <2>2, <4>1 DEF NoneMissing, PassesCase
      <4> QED
        BY <1>4, <4>2
    <3> QED
      BY <3>1, <3>2
  <2>3. CASE caseAt < Len(EvalSuite.cases)
    <3>1. caseAt' = caseAt + 1 /\ evalAt' = evalAt
      BY <1>8, <2>3 DEF PassesCase, NextCase
    <3>2. ASSUME NEW i \in DOMAIN evalResults'
          PROVE  Before(evalResults'[i], [at |-> evalAt', caseAt |-> caseAt'])
      <4>1. \/ Before(evalResults'[i], [at |-> evalAt, caseAt |-> caseAt])
            \/ evalResults'[i].at = evalAt /\ evalResults'[i].caseAt = caseAt
        BY <3>2, ReportingKeeps
      <4> QED
        BY <1>1, <1>2, <3>1, <3>2, <4>1 DEF Before
    <3>3. ResultsOK'
      BY <3>2, ReportingKeeps DEF ResultsOK, Before
    <3>4. NoneMissing'
      <4>1. \A a \in 1 .. evalAt' - 1 : AllReported(a)'
        BY <1>4, <3>1 DEF NoneMissing
      <4>2. ASSUME NEW c \in 1 .. caseAt' - 1, Chosen(EvalSuite.cases[c])
            PROVE  IsReported(evalAt, c)'
        BY <1>1, <2>2, <3>1, <4>2
      <4>3. EvalSuite' = EvalSuite
        BY <1>1, <3>1 DEF EvalSuite
      <4> QED
        BY <1>4, <4>1, <4>2, <4>3 DEF NoneMissing
    <3> QED
      BY <1>1, <3>1, <3>3, <3>4, ReportingKeeps
  <2>4. CASE ~(caseAt < Len(EvalSuite.cases))
    <3>1. caseAt' = 0 /\ evalAt' = evalAt + 1 /\ caseAt = Len(EvalSuite.cases)
      BY <1>8, <2>1, <2>4 DEF PassesCase, NextCase
    <3>2. ASSUME NEW i \in DOMAIN evalResults'
          PROVE  Before(evalResults'[i], [at |-> evalAt', caseAt |-> caseAt'])
      <4>1. \/ Before(evalResults'[i], [at |-> evalAt, caseAt |-> caseAt])
            \/ evalResults'[i].at = evalAt /\ evalResults'[i].caseAt = caseAt
        BY <3>2, ReportingKeeps
      <4> QED
        BY <1>1, <1>2, <3>1, <3>2, <4>1 DEF Before
    <3>3. ResultsOK'
      BY <3>2, ReportingKeeps DEF ResultsOK, Before
    <3>4. \A a : a = evalAt => AllReported(a)'
      <4>1. SUFFICES ASSUME NEW a, a = evalAt PROVE AllReported(a)'
        OBVIOUS
      <4>2. \A c \in DOMAIN suites[a].cases : Chosen(suites[a].cases[c]) => IsReported(a, c)'
        BY <1>3, <2>1, <2>2, <3>1, <4>1 DEF EvalSuite
      <4>3. ~Unusable(suites[a])
        BY <1>1, <1>8, <4>1 DEF PassesCase, EvalSuite
      <4> QED
        BY <1>1, <1>4, <4>2, <4>3 DEF AllReported
    <3>5. NoneMissing'
      <4>1. ASSUME NEW a \in 1 .. evalAt' - 1 PROVE AllReported(a)'
        <5>1. a \in 1 .. evalAt - 1 \/ a = evalAt
          BY <1>1, <3>1, <4>1
        <5> QED
          BY <1>4, <3>4, <5>1 DEF NoneMissing
      <4> QED
        BY <3>1, <4>1 DEF NoneMissing
    <3> QED
      BY <1>1, <2>1, <3>1, <3>3, <3>5, ReportingKeeps
  <2> QED
    BY <2>3, <2>4
<1> QED
  BY <1>5, <1>6, <1>7, <1>8 DEF Moving

\* A run of a case adds the same answer to both sequences.
LEMMA RunsAgree ==
  ASSUME NEW out \in Output, NEW v \in Verdict, EvalInv, Evaluating, caseAt # 0
  PROVE  /\ EvalCase \in Case
         /\ Append(evalRuns, RunOnce(EvalCase, out, v) = {}) = Append(merits, Deserves(EvalCase, out, v))
         /\ Append(evalRuns, RunOnce(EvalCase, out, v) = {}) \in Seq(BOOLEAN)
         /\ Len(Append(evalRuns, RunOnce(EvalCase, out, v) = {})) = Len(evalRuns) + 1
         /\ Len(evalRuns) \in Nat
<1>1. evalAt \in 1 .. Len(EvalArtifact) /\ suites[evalAt] \in Suite
  BY EvalAssumption DEF EvalInv, EvalTypes, EvalTypeOK, Evaluating
<1>2. EvalCase \in Case
  BY <1>1, EvalConfigs DEF EvalInv, EvalTypes, EvalTypeOK, EvalCase, EvalSuite
<1>3. EvalConfig.protocol \in {"text", "json"} /\ EvalConfig.judge \in BOOLEAN
  <2>1. EvalSuite.cases # <<>> /\ ~Unusable(EvalSuite)
    BY DEF EvalInv, EvalTypes, EvalTypeOK
  <2> QED
    BY <1>1, <2>1, EvalConfigs DEF EvalInv, EvalTypes, EvalConfig, EvalSuite
<1>4. (RunOnce(EvalCase, out, v) = {}) = Deserves(EvalCase, out, v)
  BY <1>2, <1>3, PassesIfDeserved
<1>5. evalRuns \in Seq(BOOLEAN) /\ evalRuns = merits
  BY DEF EvalInv, EvalTypes, EvalTypeOK, RunsOK
<1> QED
  BY <1>2, <1>4, <1>5


\* Once it is known where a step goes and what it reports, all that is left is the
\* runs of the case at hand.
LEMMA StepKeeps ==
  ASSUME EvalInv, Moving, Reporting, exitStatus = "none", UNCHANGED <<evalInputs, exitStatus>>,
         evalRuns' = merits', evalRuns' \in Seq(BOOLEAN),
         IF Stays THEN /\ caseAt # 0 /\ Chosen(EvalCase) /\ EvalConfig.runner
                       /\ Len(evalRuns') < WantedRuns(EvalCase)
                  ELSE evalRuns' = <<>>
  PROVE  EvalInv'
<1>1. /\ ResultsOK' /\ NoneMissing' /\ CountsOK'
      /\ evalResults' \in Seq(EvalResult) /\ evalCounts' \in [ran : Nat, failed : Nat, skipped : Nat]
      /\ evalAt' \in 1 .. Len(EvalArtifact) + 1 /\ caseAt' \in Nat
  BY MovingKeeps DEF EvalInv
<1>2. /\ evalAt \in 1 .. Len(EvalArtifact) + 1 /\ caseAt \in Nat /\ Len(EvalArtifact) \in Nat
      /\ caseAt # 0 => evalAt <= Len(EvalArtifact) /\ ~Unusable(EvalSuite) /\ caseAt \in DOMAIN EvalSuite.cases
      /\ suites' = suites /\ evalProject' = evalProject /\ evalProject \in ProjectDefault
      /\ suites \in [1 .. Len(EvalArtifact) -> Suite]
  BY EvalAssumption DEF EvalInv, EvalTypes, EvalTypeOK, evalInputs
<1>3. \A s : /\ Unusable(s)' <=> Unusable(s)
             /\ ForArtifact(s)' = ForArtifact(s)
  <2> TAKE s
  <2>1. Loads(s)' <=> Loads(s)
    BY <1>2 DEF Loads
  <2>2. ForArtifact(s)' = ForArtifact(s)
    BY <1>2 DEF ForArtifact
  <2> QED
    BY <1>2, <2>1, <2>2 DEF Unusable, Valid, ValidProtocol
<1>4. \A s \in Suite : /\ Len(s.cases) \in Nat /\ DOMAIN s.cases = 1 .. Len(s.cases)
                       /\ s.cases = <<>> <=> Len(s.cases) = 0
  BY <1>2, EvalConfigs
<1>5. ASSUME caseAt' # 0
      PROVE  /\ evalAt' <= Len(EvalArtifact) /\ evalAt' = evalAt
             /\ ~Unusable(suites[evalAt]) /\ caseAt' \in DOMAIN suites[evalAt].cases
  <2>1. CASE Stays
    BY <1>2, <1>5, <2>1 DEF Stays, EvalSuite
  <2>2. CASE Enters
    BY <1>2, <1>4, <2>2 DEF Enters, EvalSuite
  <2>3. CASE PassesArtifact
    BY <1>5, <2>3 DEF PassesArtifact
  <2>4. CASE PassesCase
    BY <1>2, <1>4, <1>5, <2>4 DEF PassesCase, NextCase, EvalSuite
  <2> QED
    BY <2>1, <2>2, <2>3, <2>4 DEF Moving
<1>6. ASSUME caseAt' # 0
      PROVE  Len(evalRuns') < RunsOf(suites[evalAt].cases[caseAt'], ForArtifact(suites[evalAt]))
  <2>1. CASE Stays
    BY <2>1 DEF Stays, WantedRuns, EvalCase, EvalConfig, EvalSuite
  <2>2. CASE ~Stays
    <3>1. suites[evalAt] \in Suite
      BY <1>2, <1>5, <1>6
    <3>2. RunsOf(suites[evalAt].cases[caseAt'], ForArtifact(suites[evalAt])) \in Nat \ {0}
      BY <1>2, <1>5, <1>6, <3>1, EvalConfigs
    <3> QED
      BY <2>2, <3>2
  <2> QED
    BY <2>1, <2>2
<1>7. caseAt' # 0 => /\ evalAt' <= Len(EvalArtifact) /\ ~Unusable(EvalSuite)'
                     /\ caseAt' \in DOMAIN EvalSuite'.cases
                     /\ Len(evalRuns') < WantedRuns(EvalCase)'
  <2> SUFFICES ASSUME caseAt' # 0
               PROVE  /\ evalAt' <= Len(EvalArtifact) /\ ~Unusable(EvalSuite)'
                      /\ caseAt' \in DOMAIN EvalSuite'.cases
                      /\ Len(evalRuns') < WantedRuns(EvalCase)'
    OBVIOUS
  <2>1. EvalSuite' = suites[evalAt]
    BY <1>2, <1>5 DEF EvalSuite
  <2>2. ~Unusable(EvalSuite)'
    BY <1>2, <1>3, <1>5 DEF EvalSuite
  <2>3. WantedRuns(EvalCase)' = RunsOf(suites[evalAt].cases[caseAt'], ForArtifact(suites[evalAt]))
    BY <1>2, <1>5 DEF WantedRuns, EvalCase, EvalConfig, EvalSuite, RunsOf, ForArtifact
  <2> QED
    BY <1>5, <1>6, <2>1, <2>2, <2>3
<1>8. evalRuns' # <<>> => caseAt' # 0
  BY DEF Stays
<1>9. EvalTypes'
  BY <1>1, <1>2, <1>7, <1>8 DEF EvalTypes, EvalTypeOK
<1>10. ExitOK'
  BY DEF ExitOK
<1>11. RunsOK'
  <2>1. CASE Stays
    <3>1. EvalSuite' = EvalSuite
      BY <1>2, <2>1 DEF Stays, EvalSuite
    <3>2. Chosen(EvalCase)' /\ EvalConfig'.runner
      BY <1>2, <2>1, <3>1 DEF Stays, EvalCase, EvalConfig, Chosen, ForArtifact, evalInputs
    <3> QED
      BY <3>2 DEF RunsOK
  <2>2. CASE ~Stays
    BY <2>2 DEF RunsOK
  <2> QED
    BY <2>1, <2>2
<1> QED
  BY <1>1, <1>9, <1>10, <1>11 DEF EvalInv

LEMMA LoadStep ==
  ASSUME EvalInv, LoadArtifact
  PROVE  EvalInv'
<1>1. /\ evalAt \in 1 .. Len(EvalArtifact) /\ caseAt = 0 /\ exitStatus = "none"
      /\ suites \in [1 .. Len(EvalArtifact) -> Suite] /\ evalResults \in Seq(EvalResult)
      /\ evalCounts \in [ran : Nat, failed : Nat, skipped : Nat]
      /\ evalRuns = <<>> /\ merits = <<>>
  BY EvalAssumption DEF EvalInv, EvalTypes, EvalTypeOK, RunsOK, LoadArtifact, Evaluating
<1>2. ASSUME Unusable(EvalSuite) PROVE RecordedOne
  <2> DEFINE r == [at |-> evalAt, caseAt |-> caseAt, case |-> NoCase, outcome |-> "failed",
                   runs |-> 0, deserved |-> FALSE]
  <2>1. r \in EvalResult
    BY <1>1 DEF EvalResult
  <2>2. ResultOK(r) /\ ~Ran(r)
    BY <1>1, <1>2 DEF ResultOK, StandsForOne, Ran, EvalSuite
  <2>3. /\ evalResults' = Append(evalResults, r)
        /\ evalCounts' = [ran |-> evalCounts.ran + 0, failed |-> evalCounts.failed + 1,
                          skipped |-> evalCounts.skipped + 0]
    BY <1>2 DEF LoadArtifact, RecordResult
  <2>4. r.at = evalAt /\ r.caseAt = caseAt /\ r.outcome = "failed"
    OBVIOUS
  <2> HIDE DEF r
  <2> QED
    BY <2>1, <2>2, <2>3, <2>4 DEF RecordedOne
<1>3. Reporting
  BY <1>2 DEF LoadArtifact, Reporting
<1>4. Enters \/ PassesArtifact
  <2>1. CASE Unusable(EvalSuite)
    BY <1>1, <1>2, <2>1 DEF LoadArtifact, PassesArtifact
  <2>2. CASE ~Unusable(EvalSuite)
    BY <1>1, <2>2 DEF LoadArtifact, Enters, PassesArtifact
  <2> QED
    BY <2>1, <2>2
<1>5. ~Stays
  BY <1>1, <1>4 DEF Stays, Enters, PassesArtifact
<1> QED
  BY <1>1, <1>3, <1>4, <1>5, StepKeeps DEF LoadArtifact, Moving, evalInputs

\* Moving on from a case always leaves it.
LEMMA LeavesCase ==
  ASSUME EvalInv, NextCase
  PROVE  ~Stays
BY EvalAssumption DEF EvalInv, EvalTypes, EvalTypeOK, NextCase, Stays

\* What is recorded for a chosen case stands for it.
LEMMA CaseIsRecorded ==
  ASSUME EvalInv, Evaluating, caseAt # 0, Chosen(EvalCase),
         NEW outcome \in {"passed", "failed", "skipped"}, NEW runs \in Nat, NEW deserved \in BOOLEAN,
         RecordResult(EvalCase.name, outcome, runs, deserved, IF outcome = "skipped" THEN 0 ELSE 1),
         IF EvalConfig.runner THEN outcome # "skipped" /\ runs = WantedRuns(EvalCase)
                              ELSE outcome = "skipped",
         outcome # "skipped" => ((outcome = "passed") <=> deserved)
  PROVE  RecordedOne
<1>1. /\ evalAt \in 1 .. Len(EvalArtifact) /\ caseAt \in Nat /\ caseAt \in DOMAIN EvalSuite.cases
      /\ suites \in [1 .. Len(EvalArtifact) -> Suite]
      /\ ~Unusable(EvalSuite) /\ evalProject \in ProjectDefault
  BY EvalAssumption DEF EvalInv, EvalTypes, EvalTypeOK, Evaluating
<1>2. EvalCase.name \in CaseName /\ EvalCase.name # NoCase
  <2>1. EvalCase \in Case /\ EvalCase.name # NoCase
    BY <1>1, EvalConfigs DEF EvalCase, EvalSuite
  <2> QED
    BY <2>1 DEF Case
<1> DEFINE r == [at |-> evalAt, caseAt |-> caseAt, case |-> EvalCase.name, outcome |-> outcome,
                 runs |-> runs, deserved |-> deserved]
<1>3. r \in EvalResult
  BY <1>1, <1>2 DEF EvalResult
<1>4. StandsForOne(r)
  BY <1>1, <1>2 DEF StandsForOne, EvalSuite, EvalCase, EvalConfig, WantedRuns
<1>5. ResultOK(r) /\ (Ran(r) <=> outcome # "skipped")
  BY <1>2, <1>4 DEF ResultOK, Ran
<1>6. /\ evalResults' = Append(evalResults, r)
      /\ evalCounts' = [ran |-> evalCounts.ran + (IF outcome = "skipped" THEN 0 ELSE 1),
                        failed |-> evalCounts.failed + (IF outcome = "failed" THEN 1 ELSE 0),
                        skipped |-> evalCounts.skipped + (IF outcome = "skipped" THEN 1 ELSE 0)]
  BY DEF RecordResult
<1>7. r.at = evalAt /\ r.caseAt = caseAt /\ r.outcome = outcome
  OBVIOUS
<1> HIDE DEF r
<1> QED
  BY <1>3, <1>5, <1>6, <1>7 DEF RecordedOne

LEMMA PassOverStep ==
  ASSUME EvalInv, PassOverCase
  PROVE  EvalInv'
<1>1. PassesCase /\ Reporting /\ ~Stays
  BY LeavesCase DEF PassOverCase, PassesCase, Reporting
<1>2. evalRuns = <<>> /\ merits = <<>>
  BY DEF EvalInv, RunsOK, PassOverCase
<1> QED
  BY <1>1, <1>2, StepKeeps DEF PassOverCase, Moving, Evaluating, EvalInv, EvalTypes, EvalTypeOK

LEMMA SkipStep ==
  ASSUME EvalInv, SkipCase
  PROVE  EvalInv'
<1>1. RecordedOne
  BY CaseIsRecorded DEF SkipCase
<1>2. PassesCase /\ Reporting /\ ~Stays
  BY <1>1, LeavesCase DEF SkipCase, PassesCase, Reporting
<1>3. evalRuns = <<>> /\ merits = <<>>
  BY DEF EvalInv, RunsOK, SkipCase
<1> QED
  BY <1>2, <1>3, StepKeeps DEF SkipCase, Moving, Evaluating, EvalInv, EvalTypes, EvalTypeOK

LEMMA RunStep ==
  ASSUME EvalInv, NEW out \in Output, NEW v \in Verdict, RunCase(out, v)
  PROVE  EvalInv'
<1> DEFINE outcomes == Append(evalRuns, RunOnce(EvalCase, out, v) = {})
           deserving == Append(merits, Deserves(EvalCase, out, v))
<1>1. /\ outcomes = deserving /\ outcomes \in Seq(BOOLEAN)
      /\ Len(outcomes) = Len(evalRuns) + 1 /\ Len(evalRuns) \in Nat
  BY RunsAgree DEF RunCase
<1>2. /\ Evaluating /\ caseAt # 0 /\ Chosen(EvalCase) /\ EvalConfig.runner
      /\ UNCHANGED <<evalInputs, exitStatus>> /\ exitStatus = "none"
  BY DEF RunCase, Evaluating
<1>3. Len(evalRuns) < WantedRuns(EvalCase) /\ WantedRuns(EvalCase) \in Nat
  <2>1. EvalSuite \in Suite /\ ~Unusable(EvalSuite) /\ caseAt \in DOMAIN EvalSuite.cases
        /\ evalProject \in ProjectDefault /\ Len(evalRuns) < WantedRuns(EvalCase)
    BY <1>2, EvalAssumption DEF EvalInv, EvalTypes, EvalTypeOK, Evaluating, EvalSuite
  <2> QED
    BY <2>1, EvalConfigs DEF WantedRuns, EvalCase, EvalConfig
<1>4. IF Len(outcomes) < WantedRuns(EvalCase)
        THEN evalRuns' = outcomes /\ merits' = deserving /\ UNCHANGED <<evalResults, evalCounts, caseAt, evalAt>>
        ELSE /\ evalRuns' = <<>> /\ merits' = <<>>
             /\ RecordResult(EvalCase.name, IF CasePassed(EvalCase, outcomes) THEN "passed" ELSE "failed",
                             Len(outcomes), CasePassed(EvalCase, deserving), 1)
             /\ NextCase
  BY DEF RunCase
<1> HIDE DEF outcomes, deserving
<1>5. CASE Len(outcomes) < WantedRuns(EvalCase)
  <2>1. Stays /\ Reporting /\ evalRuns' = outcomes /\ merits' = deserving
    BY <1>4, <1>5 DEF Stays, Reporting
  <2> QED
    BY <1>1, <1>2, <1>5, <2>1, StepKeeps DEF Moving
<1>6. CASE ~(Len(outcomes) < WantedRuns(EvalCase))
  <2>1. Len(outcomes) = WantedRuns(EvalCase) /\ Len(outcomes) \in Nat
    BY <1>1, <1>3, <1>6
  <2>2. CasePassed(EvalCase, outcomes) \in BOOLEAN
    BY DEF CasePassed
  <2>3. RecordedOne
    <3> DEFINE outcome == IF CasePassed(EvalCase, outcomes) THEN "passed" ELSE "failed"
    <3>1. /\ outcome \in {"passed", "failed"}
          /\ (outcome = "passed") <=> CasePassed(EvalCase, outcomes)
      OBVIOUS
    <3>2. RecordResult(EvalCase.name, outcome, Len(outcomes), CasePassed(EvalCase, outcomes), 1)
      BY <1>1, <1>4, <1>6
    <3> HIDE DEF outcome
    <3>3. RecordResult(EvalCase.name, outcome, Len(outcomes), CasePassed(EvalCase, outcomes),
                       IF outcome = "skipped" THEN 0 ELSE 1)
      BY <3>1, <3>2
    <3> QED
      BY <1>2, <2>1, <2>2, <3>1, <3>3, CaseIsRecorded
  <2>4. PassesCase /\ Reporting /\ ~Stays
    BY <1>2, <1>4, <1>6, <2>3, LeavesCase DEF PassesCase, Reporting
  <2> QED
    BY <1>2, <1>4, <1>6, <2>4, StepKeeps DEF Moving
<1> QED
  BY <1>5, <1>6

LEMMA FinishStep ==
  ASSUME EvalInv, NEW written \in BOOLEAN, FinishEval(written)
  PROVE  EvalInv'
<1>1. UNCHANGED <<evalInputs, evalAt, caseAt, evalRuns, merits, evalResults, evalCounts>>
  BY DEF FinishEval
<1>2. EvalTypes' /\ RunsOK'
  BY <1>1 DEF EvalInv, EvalTypes, EvalTypeOK, RunsOK, FinishEval, evalInputs, Unusable, Loads, Valid, ValidProtocol,
              ForArtifact, EvalSuite, EvalCase, EvalConfig, WantedRuns, RunsOf, Chosen
<1>3. ResultsOK' /\ NoneMissing' /\ CountsOK'
  BY <1>1, MovingKeeps DEF EvalInv, Moving, Stays, Reporting
<1>4. ExitOK'
  BY <1>1, EvalAssumption DEF EvalInv, EvalTypes, EvalTypeOK, ExitOK, FinishEval
<1> QED
  BY <1>2, <1>3, <1>4 DEF EvalInv

LEMMA EvalStarts ==
  ASSUME EvalInit
  PROVE  EvalInv
<1>1. evalResults \in Seq(EvalResult) /\ DOMAIN evalResults = {}
  BY DEF EvalInit
<1>2. EvalTypes
  BY <1>1, EvalAssumption DEF EvalInit, EvalTypes, EvalTypeOK
<1>3. RunsOK /\ ResultsOK /\ NoneMissing
  BY <1>1 DEF EvalInit, RunsOK, ResultsOK, EachOK, InOrder, NoneMissing
<1>4. CountsOK
  <2>1. /\ \A o : OfOutcome(DOMAIN evalResults, o) = {}
        /\ {i \in DOMAIN evalResults : Ran(evalResults[i])} = {}
    BY <1>1 DEF OfOutcome
  <2> QED
    BY <2>1, FS_EmptySet DEF EvalInit, CountsOK
<1>5. ExitOK
  BY DEF EvalInit, ExitOK
<1> QED
  BY <1>2, <1>3, <1>4, <1>5 DEF EvalInv

LEMMA EvalStepKeeps ==
  ASSUME EvalInv, [EvalNext]_evalVars
  PROVE  EvalInv'
<1>1. CASE UNCHANGED evalVars
  <2>1. UNCHANGED <<evalInputs, evalAt, caseAt, evalRuns, merits, evalResults, evalCounts, exitStatus>>
    BY <1>1 DEF evalVars
  <2>2. EvalTypes' /\ RunsOK'
    BY <2>1 DEF EvalInv, EvalTypes, EvalTypeOK, RunsOK, evalInputs, Unusable, Loads, Valid, ValidProtocol,
                ForArtifact, EvalSuite, EvalCase, EvalConfig, WantedRuns, RunsOf, Chosen
  <2>3. ResultsOK' /\ NoneMissing' /\ CountsOK'
    BY <2>1, MovingKeeps DEF EvalInv, Moving, Stays, Reporting
  <2>4. ExitOK'
    BY <2>1 DEF EvalInv, ExitOK
  <2> QED
    BY <2>2, <2>3, <2>4 DEF EvalInv
<1>2. CASE EvalNext
  BY <1>2, LoadStep, PassOverStep, SkipStep, RunStep, FinishStep DEF EvalNext
<1> QED
  BY <1>1, <1>2

\* The counters agree with every report that is made of the results.
LEMMA ReportsFollow ==
  ASSUME EvalInv
  PROVE  ReportsAgree
<1>1. evalResults \in Seq(EvalResult) /\ Len(evalResults) \in Nat /\ DOMAIN evalResults = 1 .. Len(evalResults)
  BY DEF EvalInv, EvalTypes
<1>2. \A S \in SUBSET DOMAIN evalResults : IsFiniteSet(S)
  <2>1. IsFiniteSet(DOMAIN evalResults)
    BY <1>1, FS_Interval
  <2> QED
    BY <2>1, FS_Subset
<1>3. \A o : OfOutcome(DOMAIN evalResults, o) \in SUBSET DOMAIN evalResults
  BY DEF OfOutcome
<1>4. Junit.doc.failures = evalCounts.failed /\ Junit.doc.skipped = evalCounts.skipped
  BY DEF EvalInv, CountsOK, Junit, Counted
<1>5. ASSUME NEW n \in DOMAIN Junit.suite
      PROVE  LET its == {i \in DOMAIN evalResults : NameOf(i) = n /\ evalResults[i].outcome = "failed"}
             IN Junit.suite[n].failures = Cardinality(its) /\ IsFiniteSet(its)
  <2> DEFINE its == {i \in DOMAIN evalResults : NameOf(i) = n /\ evalResults[i].outcome = "failed"}
  <2>1. OfOutcome({i \in DOMAIN evalResults : NameOf(i) = n}, "failed") = its
    BY DEF OfOutcome
  <2>2. n \in {NameOf(i) : i \in DOMAIN evalResults}
    BY <1>5 DEF Junit
  <2>3. Junit.suite[n] = Counted({i \in DOMAIN evalResults : NameOf(i) = n})
    BY <2>2 DEF Junit
  <2>4. IsFiniteSet(its)
    <3>1. its \in SUBSET DOMAIN evalResults
      OBVIOUS
    <3> HIDE DEF its
    <3> QED
      BY <1>2, <3>1
  <2>5. Junit.suite[n].failures = Cardinality(its)
    <3> HIDE DEF its
    <3> QED
      BY <2>1, <2>3 DEF Counted
  <2> QED
    BY <2>4, <2>5
<1>6. ASSUME exitStatus = "ok", NEW n \in DOMAIN Junit.suite PROVE Junit.suite[n].failures = 0
  <2>1. Cardinality(OfOutcome(DOMAIN evalResults, "failed")) = 0
    BY <1>6 DEF EvalInv, ExitOK, CountsOK
  <2>2. OfOutcome(DOMAIN evalResults, "failed") = {}
    BY <1>2, <1>3, <2>1, FS_EmptySet
  <2>3. {i \in DOMAIN evalResults : NameOf(i) = n /\ evalResults[i].outcome = "failed"} = {}
    BY <2>2 DEF OfOutcome
  <2> QED
    BY <1>5, <1>6, <2>3, FS_EmptySet
<1>7. ASSUME exitStatus = "failed" PROVE \E n \in DOMAIN Junit.suite : Junit.suite[n].failures > 0
  <2>1. Cardinality(OfOutcome(DOMAIN evalResults, "failed")) # 0
    BY <1>7 DEF EvalInv, ExitOK, CountsOK
  <2>2. PICK i \in DOMAIN evalResults : evalResults[i].outcome = "failed"
    BY <2>1, FS_EmptySet DEF OfOutcome
  <2>3. NameOf(i) \in DOMAIN Junit.suite
    BY DEF Junit
  <2> DEFINE its == {j \in DOMAIN evalResults : NameOf(j) = NameOf(i) /\ evalResults[j].outcome = "failed"}
  <2>4. Junit.suite[NameOf(i)].failures = Cardinality(its) /\ IsFiniteSet(its)
    BY <1>5, <2>3
  <2>5. i \in its
    BY <2>2
  <2> HIDE DEF its
  <2>6. Cardinality(its) \in Nat /\ Cardinality(its) # 0
    BY <2>4, <2>5, FS_EmptySet, FS_CardinalityType
  <2> QED
    BY <2>3, <2>4, <2>6
<1>8. evalCounts.ran + evalCounts.skipped = Cardinality({i \in DOMAIN evalResults : evalResults[i].case # NoCase})
  <2> DEFINE ran == {i \in DOMAIN evalResults : Ran(evalResults[i])}
             left == OfOutcome(DOMAIN evalResults, "skipped")
             all == {i \in DOMAIN evalResults : evalResults[i].case # NoCase}
  <2>1. evalCounts.ran = Cardinality(ran) /\ evalCounts.skipped = Cardinality(left)
    BY DEF EvalInv, CountsOK
  <2>2. IsFiniteSet(ran) /\ IsFiniteSet(left) /\ ran \cap left = {}
    BY <1>2 DEF Ran, OfOutcome
  <2>3. \A i \in DOMAIN evalResults : evalResults[i].outcome = "skipped" => evalResults[i].case # NoCase
    <3> SUFFICES ASSUME NEW i \in DOMAIN evalResults, evalResults[i].outcome = "skipped"
                 PROVE  evalResults[i].case # NoCase
      OBVIOUS
    <3>1. StandsForOne(evalResults[i])
      BY DEF EvalInv, ResultsOK, EachOK, ResultOK
    <3>2. evalResults[i].at \in DOMAIN suites /\ suites[evalResults[i].at] \in Suite
      BY <3>1 DEF EvalInv, EvalTypes, EvalTypeOK, StandsForOne
    <3>3. ~Unusable(suites[evalResults[i].at])
      BY <3>1 DEF StandsForOne
    <3> QED
      BY <3>1, <3>2, <3>3, EvalConfigs DEF EvalInv, EvalTypes, StandsForOne
  <2>4. all = ran \cup left
    BY <2>3 DEF Ran, OfOutcome
  <2> HIDE DEF ran, left, all
  <2>5. Cardinality(all) = Cardinality(ran) + Cardinality(left)
    <3>1. Cardinality(ran) \in Nat /\ Cardinality(left) \in Nat /\ Cardinality(ran \cap left) = 0
      BY <2>2, FS_EmptySet, FS_CardinalityType
    <3>2. Cardinality(ran \cup left) = Cardinality(ran) + Cardinality(left) - Cardinality(ran \cap left)
      BY <2>2, FS_Union
    <3> QED
      BY <2>4, <3>1, <3>2
  <2> QED
    BY <2>1, <2>5 DEF all
<1> QED
  BY <1>4, <1>6, <1>7, <1>8 DEF ReportsAgree

LEMMA EvalImplies ==
  ASSUME EvalInv
  PROVE  EvaluationIsTrue
<1>1. OutcomeIsDeserved
  BY DEF EvalInv, ResultsOK, EachOK, ResultOK, Ran, OutcomeIsDeserved
<1>2. exitStatus # "none" => \A a \in DOMAIN suites : AllReported(a)
  <2> HAVE exitStatus # "none"
  <2>1. /\ evalAt > Len(EvalArtifact) /\ evalAt \in 1 .. Len(EvalArtifact) + 1
        /\ DOMAIN suites = 1 .. Len(EvalArtifact) /\ Len(EvalArtifact) \in Nat
    BY EvalAssumption DEF EvalInv, ExitOK, EvalTypes, EvalTypeOK
  <2>2. \A a \in DOMAIN suites : a \in 1 .. evalAt - 1
    BY <2>1
  <2> QED
    BY <2>2 DEF EvalInv, NoneMissing
<1>3. EveryCaseReported
  BY <1>2 DEF EvalInv, ResultsOK, EachOK, InOrder, ResultOK, EveryCaseReported
<1> QED
  BY <1>1, <1>3, ReportsFollow DEF EvaluationIsTrue, EvalInv, EvalTypes

\* What an evaluation reports is deserved, complete, in order and the same in every
\* report, for every set of suites, whatever the runners and judges answer.
THEOREM EvaluationSafety ==
  EvalSpec => []EvaluationIsTrue
<1>1. EvalInit => EvalInv
  BY EvalStarts
<1>2. EvalInv /\ [EvalNext]_evalVars => EvalInv'
  BY EvalStepKeeps
<1>3. EvalInv => EvaluationIsTrue
  BY EvalImplies
<1> QED
  BY <1>1, <1>2, <1>3, PTL DEF EvalSpec
=============================================================================
