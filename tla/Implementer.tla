---------------------------- MODULE Implementer -----------------------------
(***************************************************************************)
(* createImplementer (server/src/implement.ts): the builder with which a   *)
(* program attaches middleware and handlers to a contract.  Arrays are     *)
(* references into a heap, because the builder shares some, copies others  *)
(* and pushes onto a few.  A contract is the set of the paths of its        *)
(* procedures: {a: procedure, r: {b: procedure}} is {<<"a">>, <<"r","b">>}.*)
(***************************************************************************)
EXTENDS Naturals, Sequences, FiniteSets, SequencesExt

CONSTANTS Leaves,        \* the contract
          MaxNodes,      \* bounds of the model: builder nodes,
          MaxMiddleware, \* middleware attached,
          MaxTrees       \* handlers and routers built

\* A contract is a finite tree, and a procedure has nothing below it.
ASSUME ImplementerAssumption ==
  /\ Leaves \subseteq Seq(STRING) \ {<<>>} /\ IsFiniteSet(Leaves)
  /\ \A l, m \in Leaves : IsPrefix(l, m) => l = m
  /\ MaxNodes \in Nat /\ MaxMiddleware \in Nat /\ MaxTrees \in Nat

VARIABLES heap,   \* the arrays of middleware
          nodes,  \* the nodes of the builder
          trees   \* what handler() and router() returned

implementerVars == <<heap, nodes, trees>>

Keys == UNION {ToSet(l) : l \in Leaves}
Routers == {<<>>} \cup UNION {{SubSeq(l, 1, i) : i \in 0 .. Len(l) - 1} : l \in Leaves}
Slots == {"use", "useAfter"}

\* The leaves of the contract under a path, relative to it.
Below(path) ==
  {SubSeq(l, Len(path) + 1, Len(l)) : l \in {l \in Leaves : IsPrefix(path, l)}}

\* A node: its inherited arrays, those of its own (the same for a router node,
\* which has none), and wrote: what the expression that built it attached.
\* A tree: what each of its leaves runs, where it was built for, and wrote.
ImplementerTypeOK ==
  /\ heap \in Seq(Seq(1 .. MaxMiddleware))
  /\ nodes \in Seq([path : Leaves \cup Routers, inherited : [Slots -> Nat],
                    extra : [Slots -> Nat],
                    wrote : [Slots -> Seq(1 .. MaxMiddleware)]])
  /\ \A t \in DOMAIN trees : \A l \in DOMAIN trees[t] :
       trees[t][l].middleware \in [Slots -> Nat]

Attached == Cardinality(UNION {ToSet(heap[i]) : i \in DOMAIN heap})
IsRouter(n) == nodes[n].path \in Routers
Nothing == [s \in Slots |-> <<>>]

\* The references of two arrays, one for each slot, made after h.
Fresh(h) == [s \in Slots |-> Len(h) + (IF s = "use" THEN 1 ELSE 2)]

\* createNode: a procedure node gets two arrays of its own.
NewNode(h, path, inherited, wrote) ==
  IF path \in Routers
  THEN /\ heap' = h
       /\ nodes' = Append(nodes, [path |-> path, inherited |-> inherited,
                                  extra |-> inherited, wrote |-> wrote])
  ELSE /\ heap' = h \o <<<<>>, <<>>>>
       /\ nodes' = Append(nodes, [path |-> path, inherited |-> inherited,
                                  extra |-> Fresh(h), wrote |-> wrote])

ImplementerInit ==
  /\ heap = <<<<>>, <<>>>>
  /\ nodes = <<[path |-> <<>>, inherited |-> Fresh(<<>>),
                extra |-> Fresh(<<>>), wrote |-> Nothing]>>
  /\ trees = <<>>

\* impl.key: a child node per access; {...inherited} shares the arrays.
Access(n, key) ==
  /\ IsRouter(n) /\ Len(nodes) < MaxNodes
  /\ Append(nodes[n].path, key) \in Leaves \cup Routers
  /\ NewNode(heap, Append(nodes[n].path, key), nodes[n].inherited, nodes[n].wrote)
  /\ UNCHANGED trees

\* Mutant of UseOnRouter: the middleware is pushed onto the shared array.
UseOnRouterPushes(n, slot) ==
  /\ IsRouter(n) /\ Len(nodes) < MaxNodes /\ Attached < MaxMiddleware
  /\ LET mw == Attached + 1
         node == nodes[n]
     IN  NewNode([heap EXCEPT ![node.inherited[slot]] = Append(@, mw)], node.path,
                 node.inherited, [node.wrote EXCEPT ![slot] = Append(@, mw)])
  /\ UNCHANGED trees

\* use(mw) and useAfter(mw) of a router node: a fresh node.
UseOnRouter(n, slot) ==
  /\ IsRouter(n) /\ Len(nodes) < MaxNodes /\ Attached < MaxMiddleware
  /\ LET mw == Attached + 1
         node == nodes[n]
         h == Append(heap, Append(heap[node.inherited[slot]], mw))
     IN  NewNode(h, node.path, [node.inherited EXCEPT ![slot] = Len(h)],
                 [node.wrote EXCEPT ![slot] = Append(@, mw)])
  /\ UNCHANGED trees

\* use(mw) and useAfter(mw) of a procedure node: the same node, changed.
UseOnProcedure(n, slot) ==
  /\ ~IsRouter(n) /\ Attached < MaxMiddleware
  /\ LET mw == Attached + 1
     IN  /\ heap' = [heap EXCEPT ![nodes[n].extra[slot]] = Append(@, mw)]
         /\ nodes' = [nodes EXCEPT ![n].wrote[slot] = Append(@, mw)]
  /\ UNCHANGED trees

\* A copy of two arrays, one after the other, as [...left, ...right].
Joined(left, right, slot) == heap[left[slot]] \o heap[right[slot]]

\* handler(fn): createImplemented copies both pairs of arrays.
Handler(n) ==
  /\ ~IsRouter(n) /\ Len(trees) < MaxTrees
  /\ LET node == nodes[n]
     IN  /\ heap' = heap \o <<Joined(node.inherited, node.extra, "use"),
                             Joined(node.inherited, node.extra, "useAfter")>>
         /\ trees' = Append(trees, [l \in {<<>>} |->
                 [middleware |-> Fresh(heap), path |-> node.path,
                  wrote |-> node.wrote]])
  /\ UNCHANGED nodes

\* The object passed to router(): a tree built before under each key of the
\* contract, some keys perhaps missing.
GivenTo(path) ==
  UNION {[keys -> DOMAIN trees] : keys \in SUBSET {l[1] : l \in Below(path)}}

\* The tree it makes, its leaves relative to the path.
GivenLeaves(impl) ==
  UNION {{<<k>> \o l : l \in DOMAIN trees[impl[k]]} : k \in DOMAIN impl}
GivenTree(impl) == [l \in GivenLeaves(impl) |-> trees[impl[Head(l)]][Tail(l)]]

\* assertComplete: the leaves of the contract under the path, and no others.
Complete(path, tree) == DOMAIN tree = Below(path)

\* applyInherited: every leaf gets copies of its own, here first all of one
\* slot and then all of the other.
Inherit(node, tree) ==
  LET leaves == SetToSeq(DOMAIN tree)
      Copies(s) == [i \in DOMAIN leaves |->
                      Joined(node.inherited, tree[leaves[i]].middleware, s)]
      Ref(l, s) == Len(heap) + (CHOOSE i \in DOMAIN leaves : leaves[i] = l)
                     + (IF s = "use" THEN 0 ELSE Len(leaves))
  IN  [heap |-> heap \o Copies("use") \o Copies("useAfter"),
       tree |-> [l \in DOMAIN tree |->
                   [middleware |-> [s \in Slots |-> Ref(l, s)],
                    path |-> node.path \o l,
                    wrote |-> [s \in Slots |-> node.wrote[s] \o tree[l].wrote[s]]]]]

\* router(impl); an incomplete one throws and changes nothing.
Router(n) ==
  /\ IsRouter(n) /\ Len(trees) < MaxTrees
  /\ \E impl \in GivenTo(nodes[n].path) :
       LET tree == GivenTree(impl)
           done == Inherit(nodes[n], tree)
       IN  /\ Complete(nodes[n].path, tree)
           /\ heap' = done.heap
           /\ trees' = Append(trees, done.tree)
  /\ UNCHANGED nodes

ImplementerNext ==
  \E n \in DOMAIN nodes :
    \/ \E key \in Keys : Access(n, key)
    \/ \E slot \in Slots : UseOnRouter(n, slot) \/ UseOnProcedure(n, slot)
    \/ Handler(n) \/ Router(n)

ImplementerSpec == ImplementerInit /\ [][ImplementerNext]_implementerVars

\* lookupProcedure(tree, path): own keys only.
Lookup(tree, path) == path \in DOMAIN tree

-----------------------------------------------------------------------------
\* A handler, or a router with each of its procedures under the path it has.
Findable(tree) ==
  \/ DOMAIN tree = {<<>>}
  \/ \E p \in Routers : \A l \in Below(p) :
       Lookup(tree, l) /\ tree[l].path = p \o l

\* A node, a handler and a router run exactly the middleware that the
\* expression which built them attached, routers' before procedures' and in
\* the order written, whatever is attached elsewhere or afterwards; and a
\* router finds each of its procedures, with the path it is found under.
BuiltAsWritten ==
  /\ \A n \in DOMAIN nodes, s \in Slots :
       nodes[n].wrote[s] = heap[nodes[n].inherited[s]] \o
                           (IF IsRouter(n) THEN <<>> ELSE heap[nodes[n].extra[s]])
  /\ \A t \in DOMAIN trees :
       /\ \A l \in DOMAIN trees[t], s \in Slots :
            trees[t][l].wrote[s] = heap[trees[t][l].middleware[s]]
       /\ Findable(trees[t])
=============================================================================
