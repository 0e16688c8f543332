---------------------------- MODULE MCProcedure -----------------------------
(***************************************************************************)
(* Instances for TLC, one part at a time: a call of a procedure, the       *)
(* builder of the procedures, calls of tools made of procedures, and a     *)
(* program that builds a toolset.                                          *)
(***************************************************************************)
EXTENDS Procedure, Implementer, ToolCall, Toolset

VARIABLE part

MCChains ==
  {<<"interceptor", "use", "input", "handler">>,
   <<"use", "input", "useAfter", "handler">>,
   <<"onFinish", "onError", "interceptor", "handler">>,
   <<"onStart", "onSuccess", "use", "handler">>}

\* The contract {a: procedure, r: {b: procedure}}.
MCLeaves == {<<"a">>, <<"r", "b">>}

MCTwoAfter == {<<"use", "input", "useAfter", "useAfter", "handler">>}

\* A flat tool, and two of a host: with and without a predicate, with and
\* without scopes, and with each way to make the input and the output.
MCToolSpecs ==
  {[name |-> "flat", hosted |-> FALSE, asks |-> TRUE, scopes |-> {"s"},
    mode |-> "inject", output |-> "schema", mapped |-> TRUE],
   [name |-> "asking", hosted |-> TRUE, asks |-> TRUE, scopes |-> {},
    mode |-> "map", output |-> "map", mapped |-> FALSE],
   [name |-> "composite", hosted |-> TRUE, asks |-> FALSE, scopes |-> {"s"},
    mode |-> "run", output |-> "none", mapped |-> FALSE]}
MCTokens == {{}, {"s"}}
MCSdkCalls == {1}

Leaf(props) == [props |-> props, open |-> FALSE, ref |-> FALSE, members |-> {}]
Union(a, b) == [Leaf({}) EXCEPT !.members = {Leaf(a), Leaf(b)}]
Declared(path, declared, schema) ==
  [path |-> path, declared |-> declared, hidden |-> FALSE, schema |-> schema]

User == <<"user">>
Find == <<"find">>
Drop == <<"drop">>
Tree == <<"tree">>
UserTree == <<"user", "tree">>

\* Keys with "_" in them give two paths one tool name, and a tool the name of a
\* host's; a recursive input, a union and one that takes any key.
MCContracts ==
  {{Declared(<<User, Find>>, "read", Leaf({"tenant", "id"})),
    Declared(<<User, Drop>>, "destructive", Union({"id"}, {"tenant"})),
    Declared(<<<<"get">>, <<"ops">>, <<"query", "capabilities">>>>, "unset",
              [Leaf({}) EXCEPT !.open = TRUE])},
   {Declared(<<User, Find>>, "read", [Leaf({"tenant"}) EXCEPT !.ref = TRUE]),
    [Declared(<<User, Tree, Find>>, "read", Leaf({"tenant"})) EXCEPT !.hidden = TRUE],
    Declared(<<UserTree, Find>>, "unset", Leaf({"tenant", "id"}))},
   {Declared(<<User, Tree, Find>>, "read", Leaf({"tenant"})),
    Declared(<<UserTree, Find>>, "write", Leaf({"tenant"}))}}

Call(node) == [node |-> node, exclude |-> {}, effects |-> Effects, inject |-> {}]
SubtreeOf(path) == [path |-> path, subtree |-> TRUE]
MCAllCalls ==
  {Call(<<>>), [Call(<<User>>) EXCEPT !.inject = {"tenant"}],
   [Call(<<>>) EXCEPT !.exclude = {SubtreeOf(<<User>>)}],
   [Call(<<>>) EXCEPT !.exclude = {[path |-> <<User, Drop>>, subtree |-> FALSE]},
                      !.effects = {"read"}, !.inject = {"tenant"}],
   [Call(<<>>) EXCEPT !.effects = {"write", "destructive"}, !.inject = {"id"}],
   [Call(<<User>>) EXCEPT !.effects = {"read"}, !.inject = {"typo"}]}
MCHostKeys == {<<"ops">>, <<"ops", "query">>}
MCExcludes == {{}, {SubtreeOf(<<User>>)}, {SubtreeOf(<<>>)}}

vars == <<procedureVars, implementerVars, toolVars, toolsetVars, part>>

Init ==
  /\ part \in {"call", "builder", "tools", "toolset"}
  /\ ProcedureInit /\ ImplementerInit /\ ToolInit /\ ToolsetInit
  /\ part # "call" => Len(chain) = 4 /\ chain[1] = "use"
  /\ part # "tools" => executor = "fixed"
  /\ part # "toolset" => Cardinality(contract) = 2

Next ==
  \/ /\ part = "call" /\ ProcedureNext
     /\ UNCHANGED <<implementerVars, toolVars, toolsetVars, part>>
  \/ /\ part = "builder" /\ ImplementerNext
     /\ UNCHANGED <<procedureVars, toolVars, toolsetVars, part>>
  \/ /\ part = "tools" /\ ToolNext
     /\ UNCHANGED <<procedureVars, implementerVars, toolsetVars, part>>
  \/ /\ part = "toolset" /\ ToolsetNext
     /\ UNCHANGED <<procedureVars, implementerVars, toolVars, part>>

Spec == Init /\ [][Next]_vars
=============================================================================
