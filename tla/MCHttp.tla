------------------------------- MODULE MCHttp -------------------------------
(***************************************************************************)
(* Instances for TLC: a FetchHandler under requests of any client, or under *)
(* those of a FetchLink; a value with files, or a stream of items, on its  *)
(* way through a body; and the subscriptions that fold streams into a      *)
(* cache entry.                                                            *)
(***************************************************************************)
EXTENDS FetchLink, MultipartCodec, ItemStream, Subscriber

VARIABLE part

Post == [under |-> TRUE, known |-> TRUE, method |-> "POST", version |-> "match",
         origin |-> "listed", body |-> "good", declared |-> FALSE,
         limited |-> FALSE, read |-> FALSE]

MCRequests ==
  {Post, [Post EXCEPT !.under = FALSE], [Post EXCEPT !.known = FALSE],
   [Post EXCEPT !.method = "GET"], [Post EXCEPT !.method = "OPTIONS"],
   [Post EXCEPT !.method = "OPTIONS", !.origin = "other"],
   [Post EXCEPT !.version = "absent", !.origin = "none"],
   [Post EXCEPT !.version = "mismatch"], [Post EXCEPT !.body = "malformed"],
   [Post EXCEPT !.body = "broken"], [Post EXCEPT !.body = "none"],
   [Post EXCEPT !.body = "large"], [Post EXCEPT !.body = "large", !.declared = TRUE]}

MCPipelines ==
  {<<>>, <<"limit", "corsAny", "reqHeaders">>, <<"user", "corsList">>,
   <<"corsAny", "user">>,
   <<"resHeaders", "corsAsks">>, <<"user", "resHeaders", "limit">>}

\* Graphs of two objects and a third node that is none: a file or a placeholder
\* at any depth up to two, files in several places, shared and circular objects,
\* a skipped key, a class instance that holds a file.
NoKids == [k \in {} |-> 0]
Node(kind, n, kids) == [kind |-> kind, n |-> n, kids |-> kids]
Scalars == {Node("leaf", 0, NoKids), Node("file", 1, NoKids), Node("file", 2, NoKids),
            Node("placeholder", 0, NoKids)}
Objects ==
  {Node("object", 0, kids) :
     kids \in {NoKids} \cup UNION {[keys -> 1..3] : keys \in
                {{"a"}, {"a", "b"}, {"a", "__proto__"}}}}
  \cup {Node("opaque", 0, [k \in {"a"} |-> 3])}
MCValues == {<<root, second, third>> : root, second \in Scalars \cup Objects, third \in Scalars}

MCTrees ==
  LET Obj == <<>> :> Label("object") IN
  {<<>> :> Label("leaf"), <<>> :> Placeholder(0),
   Obj @@ (<<"a">> :> Placeholder(0)) @@ (<<"b">> :> Placeholder(0)),
   Obj @@ (<<"a">> :> Placeholder(0)) @@ (<<"b">> :> Placeholder(1)),
   Obj @@ (<<"__proto__">> :> Placeholder(0)),
   Obj @@ (<<"a">> :> Placeholder(0)) @@ (<<"__proto__">> :> Placeholder(1))}

Part(key, size, text) == [key |-> key, file |-> 10 + key, size |-> size, text |-> text]
MCParts ==
  {<<>>, <<Part(0, 1, FALSE)>>, <<Part(0, 2, FALSE)>>, <<Part(0, 1, TRUE)>>,
   <<Part(1, 1, FALSE), Part(0, 1, FALSE)>>, <<Part(0, 1, FALSE), Part(0, 1, FALSE)>>,
   <<Part(0, 1, FALSE), Part(1, 1, FALSE), Part(2, 1, FALSE)>>}

MCBodies ==
  [type : {"json", "multipart", "other"}, rpc : {"good", "missing", "malformed"},
   ok : BOOLEAN, tree : MCTrees, parts : MCParts]

MCNewlines == {<<"nl">>, <<"cr", "nl">>}
MCItems == <<"p", "q">>

vars == <<handlerVars, linkVars, bodyVars, streamVars, subscriberVars, part>>

StreamIdle == framing = "jsonl" /\ direction = "input" /\ newline = <<"nl">>

Init ==
  /\ part \in {"any client", "link", "body", "stream", "subscriptions"}
  /\ HandlerInit /\ LinkInit /\ StreamInit /\ SubscriberInit
  /\ part # "any client" => request = Post
  /\ part \notin {"any client", "link"} => plugins = <<>>
  /\ IF part = "body" THEN BodyInit
     ELSE value = NoValue /\ body = NoBody /\ received = Pending
  /\ part # "stream" => StreamIdle

RequestStep ==
  /\ \/ part = "any client" /\ HandlerNext /\ UNCHANGED linkVars
     \/ part = "link" /\ LinkNext
  /\ UNCHANGED <<bodyVars, streamVars, subscriberVars, part>>
BodyStep ==
  /\ part = "body" /\ BodyNext
  /\ UNCHANGED <<handlerVars, linkVars, streamVars, subscriberVars, part>>
StreamStep ==
  /\ part = "stream" /\ StreamNext
  /\ UNCHANGED <<handlerVars, linkVars, bodyVars, subscriberVars, part>>
SubscriptionStep ==
  /\ part = "subscriptions" /\ SubscriberNext
  /\ UNCHANGED <<handlerVars, linkVars, bodyVars, streamVars, part>>

Next == RequestStep \/ BodyStep \/ StreamStep \/ SubscriptionStep

Spec == Init /\ [][Next]_vars
=============================================================================
