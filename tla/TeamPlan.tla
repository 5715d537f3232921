------------------------------ MODULE TeamPlan ------------------------------
(* A format-2 team: the resolver turns the definitions on disk into a plan,  *)
(* and `plan`, a run, `export` and `pack` use that plan; a pack is installed *)
(* elsewhere after it was verified. internal/resolver, internal/spec,        *)
(* internal/providers, internal/teamexport, internal/pack, cmd/plan.go       *)
(*                                                                           *)
(* The resolver reads every file on its own, and the users of the plan read  *)
(* the files again, so the definitions may be edited in between. A content   *)
(* is a version number and a digest of it is the number itself. The order in *)
(* which names are visited is left open. Reading a component and hashing it  *)
(* are one step, and so are all the files of one agent or component. The     *)
(* memory files, routes and sources that a pack carries too are left out.    *)
EXTENDS Naturals, Sequences, FiniteSets

CONSTANTS
  Agent, Skill, TeamTool,   \* names a definition may use
  Definition,           \* the projects that are examined
  BaseOf,               \* agent -> an agent for the last part of its name
  MaxTeamEdits,         \* bound on the edits while a command runs
  NoPart                \* nothing there

VARIABLES
  defs,                 \* the definitions on disk
  resolve,              \* the command that runs: its steps and its plan
  bundle,               \* file name -> content of the team export, or NoPart;
                        \* at first an earlier export is there
  archive,              \* the pack that was written, or NoPart
  install,              \* [pc, stage, dest] of `pack install`
  edits                 \* history: what was edited since the command started

teamVars == <<defs, resolve, bundle, archive, install, edits>>

Component == Skill \cup TeamTool
Name == Agent \cup Component

\* What may be on disk: the agents of a project, the components they may use with
\* the places they are in, and the policy and the machine that choose variants.
AgentFile == [delegates : SUBSET Agent, uses : SUBSET Component, valid : BOOLEAN]
Provider == {"host", "container", "remote"}
Project ==
  [declaredTeam : BOOLEAN, members : SUBSET Agent, default : Agent \cup {NoPart},
   agents : [Agent -> AgentFile], place : [Component -> SUBSET {"local", "installed"}],
   declared : SUBSET Component, valid : [Component -> BOOLEAN],
   variants : [TeamTool -> Seq(Provider)], allowed : SUBSET Provider, ready : SUBSET Provider,
   version : [Name -> Nat]]

\* What a plan says of an agent and of a component, and a file of a pack.
AgentPlan == [uses : SUBSET Component, digest : Nat]
PartPlan == [origin : {"local", "installed"}, provider : Provider \cup {"none"}, digest : Nat]
Packed == [version : Nat, uses : SUBSET Component]

\* Nothing is no content.
ASSUME TeamAssumption ==
  /\ Definition \subseteq Project
  /\ Agent \cap Component = {} /\ Component # {}
  /\ BaseOf \in [Agent -> Agent]
  /\ NoPart \notin Nat \cup Provider \cup AgentFile \cup AgentPlan \cup PartPlan \cup Packed

Nothing == [n \in Name |-> NoPart]

NoResolve ==
  [cmd |-> "none", pc |-> "idle", agents |-> [a \in Agent |-> NoPart],
   colour |-> [a \in Agent |-> 0], stack |-> <<>>, plan |-> Nothing,
   left |-> {}, files |-> Nothing, why |-> "none"]

TeamInit ==
  /\ defs \in Definition
  /\ resolve = NoResolve
  /\ bundle = [Nothing EXCEPT ![CHOOSE c \in Component : TRUE] = 0]
  /\ archive = NoPart
  /\ install = [pc |-> "idle", stage |-> NoPart, dest |-> NoPart]
  /\ edits = {}

-----------------------------------------------------------------------------
(* The definitions.                                                          *)

TeamValid(d) == d.members # {} /\ d.default \in d.members \cup {NoPart}
\* The project declares the team, and its team.yaml is in order.
TeamLoads(d) == d.declaredTeam /\ TeamValid(d)
\* An AGENT.md that is there, parses and validates.
AgentLoads(d, a) == d.agents[a].valid
\* A tool.yaml that validates has variants, and no provider twice.
VariantsValid(vs) == Len(vs) > 0 /\ \A i, j \in 1..Len(vs) : vs[i] = vs[j] => i = j
ComponentLoads(d, c) == d.valid[c] /\ (c \in TeamTool => VariantsValid(d.variants[c]))

\* chooseComponent: the origin of a component, or NoPart when it is refused.
ChooseComponent(d, c) ==
  LET isLocal == "local" \in d.place[c]
      isInstalled == "installed" \in d.place[c]
      isDeclared == c \in d.declared
  IN IF isLocal THEN IF isInstalled \/ isDeclared THEN NoPart ELSE "local"
     ELSE IF isInstalled /\ isDeclared THEN "installed" ELSE NoPart

\* CheckHost, CheckDocker: what the machine offers. A remote is always ready.
VariantReady(d, v) == v = "remote" \/ v \in d.ready

\* The first declared variant that may be used; a run also wants it ready.
SelectVariant(d, c, cmd) ==
  LET vs == d.variants[c]
      usable == {i \in 1..Len(vs) : /\ vs[i] \in d.allowed
                                    /\ cmd = "run" => VariantReady(d, vs[i])}
  IN IF usable = {} THEN NoPart
     ELSE vs[CHOOSE i \in usable : \A j \in usable : i <= j]

-----------------------------------------------------------------------------
(* ResolveTeam.                                                              *)

Refused(why) == [resolve EXCEPT !.pc = "refused", !.why = why]
Going(r) == r.pc \notin {"idle", "done", "refused"}

StartResolve(cmd) ==
  /\ resolve.pc = "idle"
  /\ resolve' = IF TeamLoads(defs)
                THEN [resolve EXCEPT !.cmd = cmd, !.pc = "load", !.left = defs.members]
                ELSE [Refused("team") EXCEPT !.cmd = cmd]
  /\ UNCHANGED <<defs, bundle, archive, install, edits>>

\* The members are those the team named when it was read.
Members == {a \in Agent : resolve.agents[a] # NoPart}

\* The agents are read in the order in which the team lists them.
LoadAgent ==
  /\ resolve.pc = "load"
  /\ LET a == CHOOSE b \in resolve.left : TRUE
         left == resolve.left \ {a}
     IN resolve' = IF ~AgentLoads(defs, a) THEN Refused("agent")
                   ELSE [resolve EXCEPT !.agents[a] = defs.agents[a], !.left = left,
                                        !.pc = IF left = {} THEN "graph" ELSE "load"]
  /\ UNCHANGED <<defs, bundle, archive, install, edits>>

Delegates(a) == resolve.agents[a].delegates

\* validateAgentGraph, before it walks: delegates are members.
CheckDelegates ==
  /\ resolve.pc = "graph"
  /\ resolve' = IF \E a \in Members : ~(Delegates(a) \subseteq Members)
                THEN Refused("delegate")
                ELSE [resolve EXCEPT !.pc = "walk"]
  /\ UNCHANGED <<defs, bundle, archive, install, edits>>

Push(r, a) == [r EXCEPT !.colour[a] = 1,
                        !.stack = <<[at |-> a, todo |-> Delegates(a)]>> \o @]

VisitMember ==
  /\ resolve.pc = "walk" /\ resolve.stack = <<>>
  /\ LET white == {a \in Members : resolve.colour[a] = 0}
     IN IF white = {}
        THEN resolve' = [resolve EXCEPT !.pc = "hash", !.left = Members]
        ELSE \E a \in white : resolve' = Push(resolve, a)
  /\ UNCHANGED <<defs, bundle, archive, install, edits>>

\* An agent on the stack closes a cycle, a finished one is passed over.
VisitDelegate ==
  /\ resolve.pc = "walk" /\ resolve.stack # <<>>
  /\ \E a \in Head(resolve.stack).todo :
       LET rest == [resolve EXCEPT !.stack[1].todo = @ \ {a}]
       IN resolve' = CASE resolve.colour[a] = 1 -> Refused("cycle")
                       [] resolve.colour[a] = 2 -> rest
                       [] OTHER -> Push(rest, a)
  /\ UNCHANGED <<defs, bundle, archive, install, edits>>

\* Mutant: an agent stays marked as being visited when its visit returns.
ReturnsGrey ==
  /\ resolve.pc = "walk" /\ resolve.stack # <<>>
  /\ Head(resolve.stack).todo = {}
  /\ resolve' = [resolve EXCEPT !.stack = Tail(@)]
  /\ UNCHANGED <<defs, bundle, archive, install, edits>>

VisitReturns ==
  /\ resolve.pc = "walk" /\ resolve.stack # <<>>
  /\ Head(resolve.stack).todo = {}
  /\ resolve' = [resolve EXCEPT !.colour[Head(resolve.stack).at] = 2,
                                !.stack = Tail(@)]
  /\ UNCHANGED <<defs, bundle, archive, install, edits>>

\* What the agents of the plan refer to.
Referenced(agents) ==
  UNION {agents[a].uses : a \in {b \in Agent : agents[b] # NoPart}}

\* The directory of an agent is hashed after its file was read.
HashAgent(a) ==
  /\ resolve.pc = "hash" /\ a \in resolve.left
  /\ LET left == resolve.left \ {a}
         planned == [uses |-> resolve.agents[a].uses, digest |-> defs.version[a]]
     IN resolve' = [resolve EXCEPT !.plan[a] = planned,
                      !.left = IF left = {} THEN Referenced(resolve.agents) ELSE left,
                      !.pc = IF left = {} THEN "parts" ELSE "hash"]
  /\ UNCHANGED <<defs, bundle, archive, install, edits>>

\* resolveSkill, resolveTool.
ResolveComponent(c) ==
  /\ resolve.pc = "parts" /\ c \in resolve.left
  /\ LET origin == ChooseComponent(defs, c)
         provider == IF c \in TeamTool THEN SelectVariant(defs, c, resolve.cmd) ELSE "none"
     IN resolve' = IF \/ origin = NoPart \/ ~ComponentLoads(defs, c)
                      \/ provider = NoPart
                   THEN Refused("component")
                   ELSE [resolve EXCEPT !.left = @ \ {c},
                           !.plan[c] = [origin |-> origin, provider |-> provider,
                                        digest |-> defs.version[c]]]
  /\ UNCHANGED <<defs, bundle, archive, install, edits>>

Planned(r) == {n \in Name : r.plan[n] # NoPart}

\* The plan is whole: `plan` prints it, a run stores it, the others go on.
FinishPlan ==
  /\ resolve.pc = "parts" /\ resolve.left = {}
  /\ resolve' = [resolve EXCEPT
       !.pc = CASE resolve.cmd \in {"plan", "run"} -> "done"
                [] resolve.cmd = "export" -> "render"
                [] OTHER -> "closure",
       !.left = Planned(resolve)]
  /\ bundle' = IF resolve.cmd = "export" THEN Nothing ELSE bundle
  /\ UNCHANGED <<defs, archive, install, edits>>

-----------------------------------------------------------------------------
(* Team export and packing: everything is read again.                        *)

Exists(d, n) ==
  IF n \in Agent THEN AgentLoads(d, n)
  ELSE resolve.plan[n].origin \in d.place[n]

\* An agent's file is named after the last part of its name.
FileOf(n) == IF n \in Agent THEN BaseOf[n] ELSE n

\* A remote tool has only its entry in the servers' file, made from the plan.
RenderedAs(n) ==
  IF n \in TeamTool /\ resolve.plan[n].provider = "remote" THEN resolve.plan[n].digest
  ELSE defs.version[n]

Render(n) ==
  /\ resolve.pc = "render" /\ n \in resolve.left
  /\ IF Exists(defs, n) \/ (n \in TeamTool /\ resolve.plan[n].provider = "remote")
     THEN /\ bundle' = [bundle EXCEPT ![FileOf(n)] = RenderedAs(n)]
          /\ LET left == resolve.left \ {n}
             IN resolve' = [resolve EXCEPT !.left = left,
                              !.pc = IF left = {} THEN "done" ELSE @]
     ELSE /\ resolve' = Refused("file")
          /\ UNCHANGED bundle
  /\ UNCHANGED <<defs, archive, install, edits>>

\* Mutant: only what is local to the project is packed.
AddLocalDir(n) ==
  /\ resolve.pc = "closure" /\ n \in resolve.left
  /\ resolve' =
       IF n \in Component /\ resolve.plan[n].origin = "installed"
       THEN [resolve EXCEPT !.left = @ \ {n}]
       ELSE [resolve EXCEPT !.left = @ \ {n},
               !.files[n] = [version |-> defs.version[n],
                             uses |-> IF n \in Agent THEN defs.agents[n].uses ELSE {}]]
  /\ UNCHANGED <<defs, bundle, archive, install, edits>>

\* closure: a directory that is gone ends the command; a broken file does not.
AddDir(n) ==
  /\ resolve.pc = "closure" /\ n \in resolve.left
  /\ resolve' =
       IF n \in Component /\ resolve.plan[n].origin \notin defs.place[n]
       THEN Refused("file")
       ELSE [resolve EXCEPT !.left = @ \ {n},
               !.files[n] = [version |-> defs.version[n],
                             uses |-> IF n \in Agent THEN defs.agents[n].uses ELSE {}]]
  /\ UNCHANGED <<defs, bundle, archive, install, edits>>

\* The manifest lists the files read; the archive is renamed into place.
WriteArchive ==
  /\ resolve.pc = "closure" /\ resolve.left = {}
  /\ archive' = [manifest |-> resolve.files, files |-> resolve.files,
                 plan |-> resolve.plan]
  /\ resolve' = [resolve EXCEPT !.pc = "done"]
  /\ UNCHANGED <<defs, bundle, install, edits>>

-----------------------------------------------------------------------------
(* Installing a pack.                                                        *)

\* On its way to the machine that installs it the archive loses a file, gets
\* one, or has one changed.
Damage(n) ==
  /\ archive # NoPart /\ install.pc = "idle" /\ archive.files = archive.manifest
  /\ \E f \in {NoPart, [version |-> 9, uses |-> {}]} :
       archive' = [archive EXCEPT !.files[n] = f]
  /\ UNCHANGED <<defs, resolve, bundle, install, edits>>

\* The archive is extracted file by file into a directory beside the target.
BeginInstall ==
  /\ archive # NoPart /\ install.pc = "idle" /\ install.dest = NoPart
  /\ install' = [install EXCEPT !.pc = "unzip", !.stage = Nothing]
  /\ UNCHANGED <<defs, resolve, bundle, archive, edits>>

InArchive == {n \in Name : archive.files[n] # NoPart}

Unzip(n) ==
  /\ install.pc = "unzip" /\ n \in InArchive /\ install.stage[n] = NoPart
  /\ install' = [install EXCEPT !.stage[n] = archive.files[n]]
  /\ UNCHANGED <<defs, resolve, bundle, archive, edits>>

\* Verify: every listed file is there with its digest, and no other file.
Verified(stage, manifest) == \A n \in Name : stage[n] = manifest[n]

VerifyStage ==
  /\ install.pc = "unzip"
  /\ \A n \in InArchive : install.stage[n] # NoPart
  /\ install' = IF Verified(install.stage, archive.manifest)
                THEN [install EXCEPT !.pc = "verified"]
                ELSE [install EXCEPT !.pc = "idle", !.stage = NoPart]
  /\ UNCHANGED <<defs, resolve, bundle, archive, edits>>

MoveIntoPlace ==
  /\ install.pc = "verified"
  /\ install' = [pc |-> "idle", stage |-> NoPart, dest |-> install.stage]
  /\ UNCHANGED <<defs, resolve, bundle, archive, edits>>

\* The installer is killed: the stage stays behind, the target is not touched.
KillInstall ==
  /\ install.pc # "idle"
  /\ install' = [install EXCEPT !.pc = "idle"]
  /\ UNCHANGED <<defs, resolve, bundle, archive, edits>>

-----------------------------------------------------------------------------
(* The user edits the definitions while a command runs.                      *)

Touch(n, d) ==
  /\ Going(resolve) /\ Cardinality(edits) < MaxTeamEdits
  /\ defs' = [d EXCEPT !.version[n] = @ + 1]
  /\ edits' = edits \cup {n}
  /\ UNCHANGED <<resolve, bundle, archive, install>>

EditAgent(a) ==
  \E u \in SUBSET Component : Touch(a, [defs EXCEPT !.agents[a].uses = u])
BreakAgent(a) == Touch(a, [defs EXCEPT !.agents[a].valid = FALSE])
EditComponent(c) == Touch(c, defs)
RemoveComponent(c) == defs.place[c] # {} /\ Touch(c, [defs EXCEPT !.place[c] = {}])

-----------------------------------------------------------------------------
TeamNext ==
  \/ \E cmd \in {"plan", "run", "export", "pack"} : StartResolve(cmd)
  \/ \E a \in Agent : HashAgent(a) \/ EditAgent(a) \/ BreakAgent(a)
  \/ LoadAgent \/ CheckDelegates \/ VisitMember \/ VisitDelegate \/ VisitReturns
  \/ \E c \in Component : ResolveComponent(c) \/ EditComponent(c) \/ RemoveComponent(c)
  \/ FinishPlan \/ WriteArchive \/ BeginInstall \/ VerifyStage \/ MoveIntoPlace
  \/ KillInstall
  \/ \E n \in Name : Render(n) \/ AddDir(n) \/ Damage(n) \/ Unzip(n)

TeamSpec == TeamInit /\ [][TeamNext]_teamVars

-----------------------------------------------------------------------------
(* Properties.                                                               *)

\* The plan holds members of the team and what they use, a finished walk has
\* an empty stack, and the stack is a path of delegations (validateAgentGraph).
TeamTypeOK ==
  /\ resolve.pc \in {"idle", "load", "graph", "walk", "hash", "parts", "render",
                     "closure", "done", "refused"}
  /\ Planned(resolve) \subseteq Members \cup Referenced(resolve.agents)
  /\ resolve.pc \in {"hash", "parts", "render", "closure", "done"} => resolve.stack = <<>>
  /\ \A i \in 1..Len(resolve.stack) :
       /\ resolve.colour[resolve.stack[i].at] = 1
       /\ i > 1 => resolve.stack[i - 1].at \in Delegates(resolve.stack[i].at)

\* Some agents delegate only among themselves, round and round.
Cyclic ==
  \E S \in SUBSET Members : S # {} /\ \A a \in S : Delegates(a) \cap S # {}

\* validateAgentGraph refuses a team exactly when its delegations have a
\* cycle: the walk with three colours agrees with the definition of a cycle.
CyclesAreRefused ==
  /\ resolve.why = "cycle" => Cyclic
  /\ resolve.pc \in {"hash", "parts", "render", "closure", "done"} => ~Cyclic

\* A plan that was made while nobody edited the definitions names exactly the
\* members and what they use, with the digests of what is on disk, and every
\* tool it names has the first of its variants that can be used.
PlanIsTrue ==
  resolve.pc = "done" /\ edits = {} =>
    /\ Planned(resolve) = defs.members \cup Referenced(resolve.agents)
    /\ \A n \in Planned(resolve) : resolve.plan[n].digest = defs.version[n]
    /\ \A t \in TeamTool \cap Planned(resolve) :
         \E i \in 1..Len(defs.variants[t]) :
           /\ resolve.plan[t].provider = defs.variants[t][i]
           /\ defs.variants[t][i] \in defs.allowed
           /\ resolve.cmd = "run" => VariantReady(defs, defs.variants[t][i])
           /\ \A j \in 1..(i - 1) :
                \/ defs.variants[t][j] \notin defs.allowed
                \/ resolve.cmd = "run" /\ ~VariantReady(defs, defs.variants[t][j])

\* An export that reports success has left a file for every member of the plan
\* and nothing of an earlier export, whatever was edited meanwhile.  If nothing was,
\* each file has the content that the plan says, as long as no two agents share the
\* last part of their names (teamexport render).
ExportIsWhole ==
  resolve.cmd = "export" /\ resolve.pc = "done" =>
    /\ {f \in Name : bundle[f] # NoPart} = {FileOf(n) : n \in Planned(resolve)}
    /\ edits = {} /\ (\A a, b \in Members : BaseOf[a] = BaseOf[b] => a = b)
         => \A n \in Planned(resolve) : bundle[FileOf(n)] = resolve.plan[n].digest

\* A pack holds everything its agents use, so that it resolves where it is
\* installed, unless an agent was edited while it was being packed (closure).
PackIsClosed ==
  archive # NoPart /\ edits \cap Agent = {} =>
    \A a \in Agent : archive.manifest[a] # NoPart =>
      \A c \in archive.manifest[a].uses : archive.manifest[c] # NoPart

\* The target directory of an install holds all the files of the pack as they
\* were packed, or is not there: whatever happened to the archive on its way,
\* and wherever the installer was killed (pack.Install).
InstalledAsPacked ==
  install.dest # NoPart => install.dest = archive.manifest

\* A plan says what is on disk, and what is exported, packed and installed from it
\* is what it says.
PlansAreDelivered ==
  TeamTypeOK /\ PlanIsTrue /\ ExportIsWhole /\ PackIsClosed /\ InstalledAsPacked
=============================================================================
