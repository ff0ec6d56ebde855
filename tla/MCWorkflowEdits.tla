--------------------------- MODULE MCWorkflowEdits ---------------------------
(* Small documents in both formats: a path, a switch with a duplicate and  *)
(* an unconditional branch, duplicate states with a misspelt start, states *)
(* whose branches are written inline, and texts whose conditions,          *)
(* definitions and names the editors' patterns mistake.                    *)
EXTENDS WorkflowEdits, TLC

MCWritable == {"Ask", "ask", "Done", "Ask Copy"}

MCNumberedNames == {"Ask (2)", "Invoke 2", "Ask (3)", "Invoke 3", "Ask (4)"}

MCNames == MCWritable \cup MCNumberedNames \cup {"Invoke"}

MCDefinable == {"f", "g"}

(* f as a word of a name, alone and in single quotes; "other" stands for   *)
(* every other name.                                                       *)
MCDefNames == MCDefinable \cup {"a f", "'b f'", "other"}

MCLabels == MCDefNames \cup {"true"}

MCWords == [x \in MCLabels |-> {x} \cup (IF x \in {"a f", "'b f'"} THEN {"f"} ELSE {})]

MCWordSplice ==
  [p \in MCDefNames \X MCDefNames |-> [x \in MCLabels |->
     IF x = p[1] THEN p[2] ELSE IF p[1] \notin MCWords[x] THEN x
     ELSE IF x = "a f" THEN "other" ELSE None]]

MCAliases == {"cat"}

MCNormalName == [n \in MCNames |-> IF n = "ask" THEN "Ask" ELSE n]

MCCopyName == ("Ask" :> "Ask Copy") @@ ("f" :> "g")

To(label, to) == [label |-> label, to |-> to, written |-> "line"]

MCBranchLists == { << >>, << To("true", "ask"), To("f", "Done") >> }

MCActionLists == { << [key |-> "refName", ref |-> "f"] >>, << [key |-> "subFlowRef", ref |-> "f"] >> }

Plain(name, to) == [NewState(name, "operation") EXCEPT !.transition = to, !.end = (to = None)]

Defs(fs, es, rs) ==
  [c \in Collections |->
     LET names == IF c = "functions" THEN fs ELSE IF c = "events" THEN es ELSE rs
     IN [i \in DOMAIN names |->
           [name |-> names[i], alias |-> IF c = "functions" THEN "cat" ELSE None]]]

Workflow(format, start, states, defs) ==
  [format |-> format, parses |-> TRUE, start |-> start, states |-> states, defs |-> defs,
   flow |-> {}, aliases |-> [a \in MCAliases |-> "g"]]

(* Ask, then ask, then Done; ask calls a function and waits for an event.  *)
Path(format) ==
  Workflow(format, "Ask",
    << Plain("Ask", "ask"),
       [Plain("ask", "Done") EXCEPT !.actions = << [key |-> "refName", ref |-> "f"] >>,
                                    !.event = "g"],
       Plain("Done", None) >>,
    Defs(<< "f" >>, << "g" >>, << >>))

(* A switch that never takes its last branch, handles an error, and has a  *)
(* state after it that only the last branch leads to.                      *)
Switch(format) ==
  Workflow(format, "Ask",
    << [NewState("Ask", "switch") EXCEPT !.end = FALSE,
          !.conditions = << To("f", "Done"), To("f", "ask"), To("true", "Done"), To("g", "ask") >>,
          !.errors = << To("f", "Done") >>],
       Plain("Done", None), [Plain("Ask Copy", "Ask") EXCEPT !.default = "Done"] >>,
    Defs(<< >>, << >>, << "f", "g" >>))

(* Two states of one name and a start that spells it otherwise.            *)
Doubled(format) ==
  Workflow(format, "ask",
    << Plain("Ask", "Done"), Plain("Done", None) >>, Defs(<< >>, << >>, << >>))

Twice(format) ==
  Workflow(format, "Ask",
    << Plain("Ask", "Done"), Plain("Ask", None), Plain("Done", None) >>,
    Defs(<< >>, << >>, << >>))

(* Branches and actions on one line, hidden from patterns in YAML.         *)
OneLine(format) ==
  Workflow(format, "Ask",
    << [Plain("Ask", None) EXCEPT !.end = FALSE, !.default = "ask",
          !.errors = << To("f", "Done") >>,
          !.actions = << [key |-> "refName", ref |-> "f"] >>,
          !.inline = {"default", "errors", "actions"}],
       Plain("ask", "Ask"), Plain("Done", None) >>,
    Defs(<< "f" >>, << >>, << "f" >>))

(* Conditions written as blocks, the last of which repeats the first.      *)
Blocks(format) ==
  Workflow(format, "Ask",
    << [NewState("Ask", "switch") EXCEPT !.end = FALSE, !.default = "Done",
          !.conditions = << [To("f", "Done") EXCEPT !.written = "block"],
                            [To("g", "ask") EXCEPT !.written = "block"],
                            [To("g", "Done") EXCEPT !.written = "inside"],
                            [To("f", "Done") EXCEPT !.written = "block"] >>],
       Plain("ask", "Done"), Plain("Done", None) >>,
    Defs(<< >>, << >>, << >>))

(* Names of several words, and errors that begin on the line of their key. *)
Worded(format) ==
  [Workflow(format, "Ask",
     << [Plain("Ask", "Done") EXCEPT !.actions = << [key |-> "refName", ref |-> "a f"] >>,
                                     !.event = "'b f'"],
        Plain("Done", None) >>,
     Defs(<< "f", "a f" >>, << "'b f'", "f" >>, << "f" >>))
   EXCEPT !.flow = {"errors"}]

MCSeeds ==
  {Path("yaml"), Path("json"), Switch("yaml"), Switch("json"), Doubled("yaml"), Twice("json"),
   OneLine("yaml"), Blocks("yaml"), Worded("yaml"), Worded("json")}
=============================================================================
