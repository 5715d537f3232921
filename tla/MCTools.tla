------------------------------ MODULE MCTools -------------------------------
(* Small instances of the command line's components, explored one at a time: *)
(* the others rest in an initial state, so that the state spaces add up      *)
(* instead of multiplying.                                                   *)
EXTENDS McpClient, Inspector, Eval, Imports, Export, TeamPlan

VARIABLE part

toolsVars ==
  <<part, mcpVars, inspectorVars, evalVars, importVars, exportVars, teamVars>>

-----------------------------------------------------------------------------
(* Eval suites: one that asserts on the text, one that asks for a trace, an  *)
(* activation and a judge and repeats, and suites that cannot be used.       *)
CaseOf(n, text, trace, active, rubric, runs, threshold) ==
  [name |-> n, text |-> text, calls |-> trace, activation |-> active,
   rubric |-> rubric, runs |-> runs, threshold |-> threshold]
SuiteOf(cases, runner, judge, protocol) ==
  [cases |-> cases, runner |-> runner, judge |-> judge, protocol |-> protocol]
PlainCase == CaseOf("one", TRUE, FALSE, FALSE, FALSE, 0, 0)
TraceCase == CaseOf("two", FALSE, TRUE, TRUE, TRUE, 3, 67)
EmptyCase == CaseOf("three", FALSE, FALSE, FALSE, FALSE, 1, 0)
SmallSuites ==
  {SuiteOf(<<PlainCase, TraceCase>>, TRUE, TRUE, "json"),
   SuiteOf(<<PlainCase, TraceCase>>, FALSE, FALSE, ""),
   SuiteOf(<<TraceCase>>, TRUE, FALSE, "text"),
   SuiteOf(<<PlainCase, PlainCase>>, TRUE, TRUE, ""),
   SuiteOf(<<EmptyCase>>, TRUE, TRUE, ""),
   SuiteOf(<<PlainCase>>, TRUE, FALSE, "xml"),
   SuiteOf(<<>>, FALSE, FALSE, "")}
SmallDefaults ==
  {[runner |-> FALSE, judge |-> FALSE, protocol |-> "", runs |-> 0],
   [runner |-> TRUE, judge |-> TRUE, protocol |-> "json", runs |-> 2]}
TwoArtifacts == <<"a1", "a2">>

\* Exported artifacts: a skill that requires one of two MCP servers.
SkillNeedsServer == [i \in Item |-> IF i = "s1" THEN {"m1"} ELSE {}]
DirectoryOrder == [i \in Item |-> CASE i = "m1" -> 1 [] i = "m2" -> 2 [] OTHER -> 3]

-----------------------------------------------------------------------------
(* Teams: the delegation graphs among three agents, with a delegate outside  *)
(* the team too; and a team of two whose skill and tool are in every    *)
(* place they can be found in, with the tool's variants in several orders.   *)
AgentOf(delegates, uses) == [delegates |-> delegates, uses |-> uses, valid |-> TRUE]
PlainTeam ==
  [declaredTeam |-> TRUE, members |-> Agent, default |-> NoPart,
   agents |-> [a \in Agent |-> AgentOf({}, {})],
   place |-> [c \in Component |-> {"local"}], declared |-> {},
   valid |-> [c \in Component |-> TRUE],
   variants |-> [t \in TeamTool |-> <<"host", "remote">>],
   allowed |-> {"host", "container", "remote"}, ready |-> {},
   version |-> [n \in Name |-> 1]]
\* Names do not matter, so that agents are in the order of what they delegate.
FewGraphs(h) ==
  /\ \A a \in Agent : a \notin h[a]
  /\ Cardinality(h["a1"]) >= Cardinality(h["a2"])
  /\ Cardinality(h["a2"]) >= Cardinality(h["a3"])
SmallTeams ==
  {[PlainTeam EXCEPT !.agents = [a \in Agent |-> AgentOf(g[a], {})]] :
     g \in {h \in [Agent -> SUBSET Agent] : FewGraphs(h)}}
  \cup
  {[PlainTeam EXCEPT !.members = {"a1", "a2"}, !.agents["a2"] = AgentOf(d, {})] :
     d \in SUBSET Agent}
  \cup
  {[PlainTeam EXCEPT !.members = {"a1", "a2"},
                     !.agents["a1"] = AgentOf({}, {"s", "t"}),
                     !.agents["a2"] = AgentOf({"a1"}, {"t"}),
                     !.place["s"] = p, !.declared = d,
                     !.variants["t"] = v, !.ready = r] :
     p \in SUBSET {"local", "installed"}, d \in SUBSET {"s"},
     v \in {<<"container", "host", "remote">>, <<"host", "container">>},
     r \in {{}, {"host"}}}
  \cup
  {[PlainTeam EXCEPT !.members = {}], [PlainTeam EXCEPT !.declaredTeam = FALSE],
   [PlainTeam EXCEPT !.members = {"a1"}, !.default = "a2"],
   [PlainTeam EXCEPT !.agents["a1"].valid = FALSE],
   [PlainTeam EXCEPT !.agents["a1"].uses = {"t"}, !.place["t"] = {"installed"},
                     !.declared = {"t"}],
   [PlainTeam EXCEPT !.agents["a1"].uses = {"s"}, !.valid["s"] = FALSE],
   [PlainTeam EXCEPT !.agents["a1"].uses = {"t"}, !.variants["t"] = <<"host", "host">>]}
BaseNames == [a \in Agent |-> IF a = "a3" THEN "a2" ELSE a]

-----------------------------------------------------------------------------
\* The parts that rest do so in few states.
Init ==
  /\ part \in {"mcp", "inspector", "eval", "imports", "export", "team"}
  /\ McpInit
  /\ part # "mcp" => transport = "stdio"
  /\ InspectorInit
  /\ EvalInit
  /\ part # "eval" => /\ \A a \in DOMAIN suites : suites[a].cases = <<>>
                      /\ caseFilter = NoCase /\ ~evalProject.runner
  /\ ImportInit
  /\ part # "imports" => \A p \in Piece : upstream[p].name = "a"
  /\ ExportInit
  /\ TeamInit
  /\ part # "team" => defs = PlainTeam

Rest(p) ==
  /\ UNCHANGED part
  /\ p # "mcp" => UNCHANGED mcpVars
  /\ p # "inspector" => UNCHANGED inspectorVars
  /\ p # "eval" => UNCHANGED evalVars
  /\ p # "imports" => UNCHANGED importVars
  /\ p # "export" => UNCHANGED exportVars
  /\ p # "team" => UNCHANGED teamVars

Next ==
  \/ part = "mcp" /\ McpNext /\ Rest("mcp")
  \/ part = "inspector" /\ InspectorNext /\ Rest("inspector")
  \/ part = "eval" /\ EvalNext /\ Rest("eval")
  \/ part = "imports" /\ ImportNext /\ Rest("imports")
  \/ part = "export" /\ ExportNext /\ Rest("export")
  \/ part = "team" /\ TeamNext /\ Rest("team")

\* The MCP client's goroutines run; a server may be silent for ever.
Fairness ==
  WF_mcpVars(part = "mcp" /\ ~panicked /\ ClientStep)

Spec == Init /\ [][Next]_toolsVars /\ Fairness
=============================================================================
