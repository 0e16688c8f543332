--------------------------- MODULE MultipartCodec ---------------------------
(***************************************************************************)
(* MultipartCodec (file/src/codec.ts, files.ts): a value that holds files  *)
(* is sent as a JSON envelope in which a placeholder stands for each file, *)
(* and the files as parts beside it. A value of a program is a graph of    *)
(* objects, which may be shared or circular: a function from nodes to what *)
(* they hold, with root 1. What JSON carries is a tree: a function from    *)
(* paths to labels.                                                        *)
(***************************************************************************)
EXTENDS Integers, Sequences, FiniteSets, SequencesExt

CONSTANTS
  Values,        \* graphs that programs encode
  Bodies,        \* bodies that other clients and servers send
  MaxFiles, MaxSize,
  MaxDepth       \* longest path the properties look at

ASSUME MultipartAssumption == MaxFiles \in Nat /\ MaxSize \in Nat /\ MaxDepth \in Nat

VARIABLES
  value,     \* the graph this side encodes
  body,      \* what is on the wire
  received   \* what the decoder returned

bodyVars == <<value, body, received>>

\* Object.entries order; a key of SKIP_KEYS is the last.
KeyOrder == <<"a", "b", "__proto__">>
Kept == {"a", "b"}
IsKept(path) == Range(path) \subseteq Kept

Placeholder(id) == [kind |-> "placeholder", n |-> id]
FileLabel(file) == [kind |-> "file", n |-> file]
Label(kind) == [kind |-> kind, n |-> 0]

\* Paths that label p's place in tree t.
Graft(t, path, label) == [p \in DOMAIN t \cup {path} |-> IF p = path THEN label ELSE t[p]]

\* JSON.stringify of an object that extractFiles left as it was, because it is
\* not a plain one: a Blob in it has no JSON but {}.
Stringified(v, node) ==
  CASE v[node].kind = "file" -> Label("object")
    [] v[node].kind = "placeholder" -> Placeholder(v[node].n)
    [] OTHER -> Label("leaf")

\* The walk of extractFiles, in the order of the entries.
RECURSIVE Walk(_, _, _, _)
Walk(v, node, path, st) ==
  LET it == v[node]
      seen == [st EXCEPT !.seen = @ \cup {node}]
      Labelled(s, label) == [s EXCEPT !.tree = Graft(@, path, label)]
      keys == SelectSeq(KeyOrder, LAMBDA k : k \in DOMAIN it.kids)
  IN IF ~st.ok THEN st
     ELSE IF it.kind = "file"
          THEN IF Len(st.files) >= MaxFiles \/ it.n > MaxSize
               THEN [st EXCEPT !.ok = FALSE]
               ELSE [Labelled(st, Placeholder(Len(st.files)))
                       EXCEPT !.files = Append(@, node)]
     ELSE IF it.kind = "leaf" THEN Labelled(st, Label("leaf"))
     ELSE IF node \in st.seen THEN [st EXCEPT !.ok = FALSE]
     ELSE CASE it.kind = "placeholder" -> Labelled(seen, Placeholder(it.n))
            [] it.kind = "opaque" ->
                 FoldLeft(LAMBDA s, k : [s EXCEPT !.tree =
                             Graft(@, Append(path, k), Stringified(v, it.kids[k]))],
                          Labelled(seen, Label("object")), keys)
            [] it.kind = "object" ->
                 FoldLeft(LAMBDA s, k : Walk(v, it.kids[k], Append(path, k), s),
                          Labelled(seen, Label("object")),
                          SelectSeq(keys, LAMBDA k : k \in Kept))

Extracted(v) == Walk(v, 1, <<>>, [ok |-> TRUE, seen |-> {}, files |-> <<>>, tree |-> <<>>])

\* encodeWithFiles, of a request or of a success.
EncodedBody(v) ==
  LET ex == Extracted(v) IN
  [type |-> IF ex.files = <<>> THEN "json" ELSE "multipart",
   rpc |-> "good", ok |-> TRUE, tree |-> ex.tree,
   parts |-> [i \in DOMAIN ex.files |->
                [key |-> i - 1, file |-> ex.files[i], size |-> v[ex.files[i]].n,
                 text |-> FALSE]]]

\* readMultipart accepts the parts, one by one.
PartsAccepted(b) ==
  /\ b.rpc # "missing"
  /\ \A i \in DOMAIN b.parts :
       /\ ~b.parts[i].text
       /\ \A j \in 1..i - 1 : b.parts[j].key # b.parts[i].key
       /\ i - 1 < MaxFiles
       /\ b.parts[i].size <= MaxSize

PlaceholdersOf(tree) == {p \in DOMAIN tree : IsKept(p) /\ tree[p].kind = "placeholder"}
KeysOf(parts) == {parts[i].key : i \in DOMAIN parts}
PartOf(parts, key) == CHOOSE i \in DOMAIN parts : parts[i].key = key

\* Mutant of InjectAccepts: parts that no placeholder names are ignored.
InjectAcceptsUnused(tree, parts) ==
  {tree[p].n : p \in PlaceholdersOf(tree)} \subseteq KeysOf(parts)

\* injectFiles: a placeholder without its part and a part without a placeholder
\* are refused, and the skipped keys are left out.
InjectAccepts(tree, parts) ==
  {tree[p].n : p \in PlaceholdersOf(tree)} = KeysOf(parts)

Injected(tree, parts) ==
  [p \in {q \in DOMAIN tree : IsKept(q)} |->
     IF tree[p].kind = "placeholder"
     THEN FileLabel(parts[PartOf(parts, tree[p].n)].file) ELSE tree[p]]

\* assertNoPlaceholders only looks: it leaves the skipped keys in the value.
AssertAccepts(tree) == PlaceholdersOf(tree) = {}

Result(kind, tree) == [kind |-> kind, tree |-> tree]

\* decodeRequest, or decodeResponse: an envelope that says ok: false is returned
\* without a look at its parts.
DecodedBody(b) ==
  IF \/ b.type = "other" \/ b.rpc # "good"
     \/ b.type = "multipart" /\ ~PartsAccepted(b)
  THEN Result("refused", <<>>)
  ELSE IF ~b.ok THEN Result("failure", <<>>)
  ELSE IF b.type = "multipart" /\ InjectAccepts(b.tree, b.parts)
       THEN Result("value", Injected(b.tree, b.parts))
  ELSE IF b.type # "multipart" /\ AssertAccepts(b.tree)
       THEN Result("value", b.tree)
  ELSE Result("refused", <<>>)

NoBody == [type |-> "none"]
Pending == Result("pending", <<>>)
NoValue == <<>>

BodyInit ==
  /\ value \in Values \cup {NoValue}
  /\ body \in IF value = NoValue THEN Bodies ELSE {NoBody}
  /\ received = Pending

Encode ==
  /\ body = NoBody /\ received = Pending
  /\ IF Extracted(value).ok
     THEN body' = EncodedBody(value) /\ UNCHANGED received
     ELSE received' = Result("unsent", <<>>) /\ UNCHANGED body
  /\ UNCHANGED value

Decode ==
  /\ body # NoBody /\ received = Pending
  /\ received' = DecodedBody(body)
  /\ UNCHANGED <<value, body>>

BodyNext == Encode \/ Decode

BodyTypeOK ==
  /\ value \in Values \cup {NoValue}
  /\ body = NoBody \/ body \in Bodies \/ (value # NoValue /\ body = EncodedBody(value))
  /\ received.kind \in {"pending", "unsent", "refused", "failure", "value"}

-----------------------------------------------------------------------------
(***************************************************************************)
(* What a value means, said without a walk: by the paths of its graph.     *)
(***************************************************************************)

RECURSIVE NodeAt(_, _)
NodeAt(v, path) ==   \* 0 if the path leads nowhere
  IF path = <<>> THEN 1
  ELSE LET up == NodeAt(v, Front(path)) IN
       IF up # 0 /\ Last(path) \in DOMAIN v[up].kids THEN v[up].kids[Last(path)] ELSE 0

PathsOf(v) == {p \in SeqOf(Kept, MaxDepth) : NodeAt(v, p) # 0}
Held(v, p) == v[NodeAt(v, p)]

IsTree(v) ==
  \A p, q \in PathsOf(v) :
    p # q /\ NodeAt(v, p) = NodeAt(v, q) => Held(v, p).kind \in {"file", "leaf"}

FilesOf(v) == {p \in PathsOf(v) : Held(v, p).kind = "file"}

\* It holds nothing that looks like a placeholder, and no file where the walk
\* does not go.
IsPlain(v) ==
  /\ \A p \in PathsOf(v) : Held(v, p).kind # "placeholder"
  /\ \A p \in FilesOf(v) : p # <<>> => Held(v, Front(p)).kind # "opaque"

Meant(v) ==
  [p \in PathsOf(v) |->
     CASE Held(v, p).kind = "file" -> FileLabel(NodeAt(v, p))
       [] Held(v, p).kind = "leaf" -> Label("leaf")
       [] OTHER -> Label("object")]

\* A value without placeholders of its own arrives as what it means, each file
\* in its places and nothing else changed, exactly if it is a tree within the
\* limits; and what another program's body is decoded to has a file in every
\* place of a placeholder, all of the parts and no more.
FilesArrive ==
  /\ value # NoValue /\ IsPlain(value) /\ received # Pending =>
       IF /\ IsTree(value) /\ Cardinality(FilesOf(value)) <= MaxFiles
          /\ \A p \in FilesOf(value) : Held(value, p).n <= MaxSize
       THEN received = Result("value", Meant(value))
       ELSE received.kind = "unsent"
  /\ value = NoValue /\ received.kind = "value" =>
       LET placed == {p \in DOMAIN received.tree : received.tree[p].kind = "file"} IN
       /\ PlaceholdersOf(received.tree) = {}
       /\ placed = PlaceholdersOf(body.tree)
       /\ IF body.type = "json" THEN placed = {} ELSE
            /\ {received.tree[p].n : p \in placed} = {body.parts[i].file : i \in DOMAIN body.parts}
            /\ Len(body.parts) <= MaxFiles
            /\ \A i \in DOMAIN body.parts : body.parts[i].size <= MaxSize
=============================================================================
