------------------------------ MODULE Toolset ------------------------------
(***************************************************************************)
(* A program that builds one set of MCP tools: all() (mcp/src/all.ts) over *)
(* a contract, $host and $toolset (mcp/src/toolset.ts), $coverage          *)
(* (mcp/src/coverage.ts), and the names under which bindToolset            *)
(* (mcp/src/bind.ts, mcp/src/host.ts) lists what was built.  Each of these *)
(* may throw; the program then stops.                                      *)
(*                                                                         *)
(* A name is the sequence of the words between its "_"; a path is a        *)
(* sequence of names.                                                      *)
(***************************************************************************)
EXTENDS Naturals, Sequences, SequencesExt, FiniteSetsExt

CONSTANTS Contracts,   \* sets of procedures
          AllCalls,    \* arguments of all()
          HostKeys,    \* names of hosts
          Excludes,    \* exclusions given to $coverage
          MaxHosts     \* bound of the model

VARIABLES contract,
          made,       \* what all() returned, call after call
          hosts,      \* the hosts, in order
          flat,       \* the tools of the toolset outside of hosts
          excluded,   \* what $coverage was told to leave out
          built       \* "building", "toolset", "covered" or "thrown"

toolsetVars == <<contract, made, hosts, flat, excluded, built>>

Effects == {"read", "write", "destructive"}

\* Procedures: declared is "unset" or an effect; schema is the input's.
Effect(p) == IF p.declared = "unset" THEN "write" ELSE p.declared

\* inputKeys: the keys of an object and of its union and allOf members; a
\* recursive reference cannot be read.
RECURSIVE InputKeys(_)
InputKeys(schema) ==
  LET inner == {InputKeys(m) : m \in schema.members}
  IN  [keys |-> schema.props \cup UNION {k.keys : k \in inner},
       open |-> schema.open \/ \E k \in inner : k.open,
       readable |-> ~schema.ref /\ \A k \in inner : k.readable]

\* Mutant of WithoutKeys: the members of a union keep the keys.
WithoutOwnKeys(schema, keys) == [schema EXCEPT !.props = @ \ keys]

\* withoutKeys: what the model sees of the input.
RECURSIVE WithoutKeys(_, _)
WithoutKeys(schema, keys) ==
  [schema EXCEPT !.props = @ \ keys, !.members = {WithoutKeys(m, keys) : m \in @}]

\* toolName, hostScope, discoverToolName, dispatchToolName.
ToolName(path) == FlattenSeq(path)
Discover(scope) == <<"get">> \o scope \o <<"capabilities">>
Dispatch(scope) == <<"call">> \o scope \o <<"capability">>
Scopes(key, split) ==
  IF split THEN {Append(key, "query"), Append(key, "operations")} ELSE {key}
HostToolNames(key, split) ==
  {Discover(s) : s \in Scopes(key, split)} \cup {Dispatch(s) : s \in Scopes(key, split)}

\* An exclusion is a tool, or a node with all that is below it.
IsExcluded(path, exclusions) ==
  \E x \in exclusions : path = x.path \/ (x.subtree /\ IsPrefix(x.path, path))

\* The keys of inject that an input has; an unreadable one is a throw in All.
InjectedKeys(p, requested) ==
  LET input == InputKeys(p.schema)
  IN  IF input.open \/ ~input.readable THEN requested ELSE requested \cap input.keys

\* all(): what it goes through, and what it makes tools of.
Selected(call) ==
  {p \in contract : /\ IsPrefix(call.node, p.path) /\ ~IsExcluded(p.path, call.exclude)
                    /\ Effect(p) \in call.effects}
Shown(call) == {p \in Selected(call) : ~p.hidden}
AllTools(call) ==
  {[name |-> ToolName(p.path), path |-> p.path, effect |-> Effect(p),
    inject |-> InjectedKeys(p, call.inject),
    model |-> WithoutKeys(p.schema, InjectedKeys(p, call.inject))] : p \in Shown(call)}
AllThrows(call) ==
  \/ call.inject # {} /\ \E p \in Shown(call) : ~InputKeys(p.schema).readable
  \/ \E p, q \in Shown(call) : p # q /\ ToolName(p.path) = ToolName(q.path)
  \/ call.inject # {} /\ \E k \in call.inject : \A p \in Selected(call) :
       ~(InputKeys(p.schema).readable /\ k \in InputKeys(p.schema).keys)

\* collectTools: no name twice, be the tools the same or not.
Disjoint(records) ==
  \A i, j \in DOMAIN records : i # j =>
    {t.name : t \in records[i]} \cap {t.name : t \in records[j]} = {}
Collected(records) == UNION {records[i] : i \in DOMAIN records}

ToolsetInit ==
  /\ contract \in Contracts /\ made = <<>> /\ hosts = <<>> /\ flat = {}
  /\ excluded = {} /\ built = "building"

\* The calls of all() come first: they share nothing with those of $host.
All ==
  /\ built = "building" /\ Len(made) < 2 /\ hosts = <<>>
  /\ \E call \in AllCalls :
       IF AllThrows(call) THEN built' = "thrown" /\ UNCHANGED made
       ELSE made' = Append(made, AllTools(call)) /\ UNCHANGED built
  /\ UNCHANGED <<contract, hosts, flat, excluded>>

\* The tools of a host or a toolset: some of the records, in order.
RecordLists == {SelectSeq(made, LAMBDA r : r \in s) : s \in SUBSET ToSet(made)}

Host ==
  /\ built = "building" /\ Len(hosts) < MaxHosts
  /\ \E key \in HostKeys, split \in BOOLEAN, records \in RecordLists :
       /\ \A i \in DOMAIN hosts : hosts[i].key # key
       /\ IF Disjoint(records)
          THEN /\ hosts' = Append(hosts, [key |-> key, split |-> split,
                                          tools |-> Collected(records)])
               /\ UNCHANGED built
          ELSE built' = "thrown" /\ UNCHANGED hosts
  /\ UNCHANGED <<contract, made, flat, excluded>>

\* The names that are taken: all those of a host, whether its buckets are
\* listed or not.
Collide(tools) ==
  \/ \E i \in DOMAIN hosts, t \in tools : t.name \in HostToolNames(hosts[i].key, hosts[i].split)
  \/ \E i, j \in DOMAIN hosts :
       i # j /\ HostToolNames(hosts[i].key, hosts[i].split)
                  \cap HostToolNames(hosts[j].key, hosts[j].split) # {}

MakeToolset ==
  /\ built = "building"
  /\ \E records \in RecordLists :
       /\ flat' = Collected(records)
       /\ built' = IF Disjoint(records) /\ ~Collide(Collected(records)) THEN "toolset"
                   ELSE "thrown"
  /\ UNCHANGED <<contract, made, hosts, excluded>>

\* uncoveredPaths.
Exposed == {t.path : t \in flat} \cup UNION {{t.path : t \in hosts[i].tools} : i \in DOMAIN hosts}
Coverage ==
  /\ built = "toolset"
  /\ \E exclude \in Excludes :
       /\ excluded' = exclude
       /\ built' = IF \A p \in contract : p.hidden \/ p.path \in Exposed
                                          \/ IsExcluded(p.path, exclude)
                   THEN "covered" ELSE "thrown"
  /\ UNCHANGED <<contract, made, hosts, flat>>

ToolsetNext == All \/ Host \/ MakeToolset \/ Coverage

-----------------------------------------------------------------------------
\* bindToolset: one entry per flat tool, two per bucket of a host that is not
\* empty, all in one map by name.  runs: the tools a call of it can run.
Buckets(h) ==
  IF ~h.split THEN {[scope |-> h.key, runs |-> h.tools]}
  ELSE {[scope |-> Append(h.key, "query"), runs |-> {t \in h.tools : t.effect = "read"}],
        [scope |-> Append(h.key, "operations"), runs |-> {t \in h.tools : t.effect # "read"}]}
Listed(h) == {b \in Buckets(h) : b.runs # {}}
EntryNames ==
  {t.name : t \in flat}
    \cup UNION {{Discover(b.scope), Dispatch(b.scope)} : b \in UNION {Listed(hosts[i]) : i \in DOMAIN hosts}}
Entries ==
  Cardinality(flat)
    + 2 * FoldFunctionOnSet(+, 0, [i \in DOMAIN hosts |-> Cardinality(Listed(hosts[i]))], DOMAIN hosts)

ToolsetTypeOK ==
  /\ contract \in Contracts /\ built \in {"building", "toolset", "covered", "thrown"}
  /\ Len(made) <= 2 /\ Len(hosts) <= MaxHosts
  /\ \A i \in DOMAIN made : \A t \in made[i] : t.effect \in Effects

\* No entry of a toolset that was built replaces another one in bindToolset's
\* map, although the names are generated from paths, keys and buckets; $coverage
\* that does not throw accounts for every procedure: it can be called, or is
\* hidden or excluded; and a key that all() was to inject is not left to the
\* model in any tool it made, its inputs' unions included.
EveryToolIsListed ==
  /\ built \in {"toolset", "covered"} => Cardinality(EntryNames) = Entries
  /\ built = "covered" =>
       \A p \in contract :
         \/ p.hidden \/ IsExcluded(p.path, excluded)
         \/ \E t \in flat : t.path = p.path
         \/ \E i \in DOMAIN hosts : \E b \in Listed(hosts[i]) : \E t \in b.runs :
              t.path = p.path
  /\ \A i \in DOMAIN made : \A t \in made[i] :
       /\ InputKeys(t.model).keys \cap t.inject = {}
       /\ \E p \in contract : p.path = t.path
            /\ InputKeys(p.schema).keys = InputKeys(t.model).keys \cup
                 (t.inject \cap InputKeys(p.schema).keys)
=============================================================================
