---------------------------- MODULE FetchHandler ----------------------------
(***************************************************************************)
(* FetchHandler.handle() (server-http/src/handler.ts) with the four        *)
(* plugins of the package and a plugin of the user's: one request down the *)
(* pipeline of numbered steps.  A step of the model is what runs between   *)
(* two awaits.  What the user supplies (plugin, context, procedure, codec, *)
(* onError) may throw at each of its calls.                                *)
(*                                                                         *)
(* An error is the code of a PFError, or "unknown" for any other throw.    *)
(* A response keeps what the plugins and the client read: who built it,    *)
(* code, status, and the headers as counts.                                *)
(***************************************************************************)
EXTENDS Naturals, Sequences

CONSTANTS Pipelines,  \* the lists of plugins checked
          Requests    \* the requests that arrive

VARIABLES plugins,   \* the plugins of the handler, in order
          request,   \* the request, and what became of its body
          step, at,  \* the step of the pipeline, the plugin it is at
          failing,   \* inside the catch of handle()
          context,   \* the context as far as it got
          error,     \* the error that was caught
          response,  \* the response as far as it got
          told,      \* the errors onError, or the log, was given
          ran        \* how often the procedure ran

handlerVars ==
  <<plugins, request, step, at, failing, context, error, response, told, ran>>

Cors == {"corsAny", "corsList", "corsAsks"}
PluginKinds == Cors \cup {"limit", "reqHeaders", "resHeaders", "user"}

HttpStatus == [BAD_REQUEST |-> 400, NOT_FOUND |-> 404, METHOD_NOT_ALLOWED |-> 405,
               PAYLOAD_TOO_LARGE |-> 413, VALIDATION |-> 422, INTERNAL |-> 500,
               DECLARED |-> 409]
Errors == DOMAIN HttpStatus \cup {"unknown"}
UserThrows == {"unknown", "DECLARED", "INTERNAL"}

\* toWireError; its status follows from the code.
WireCode(e) == IF e = "unknown" THEN "INTERNAL" ELSE e

\* body: "large" exceeds the limit, and says so when it is declared.
RequestType ==
  [under : BOOLEAN, known : BOOLEAN, method : {"POST", "GET", "OPTIONS"},
   version : {"absent", "match", "mismatch"}, origin : {"none", "listed", "other"},
   body : {"none", "good", "malformed", "broken", "large"}, declared : BOOLEAN,
   limited : BOOLEAN, read : BOOLEAN]

\* Plugins come in any order and number; requests are any that HTTP can carry.
ASSUME PipelinesAssumption == \A p \in Pipelines : p \in Seq(PluginKinds)
ASSUME RequestsAssumption == Requests \subseteq RequestType

Response(from, code, status) ==
  [from |-> from, code |-> code, status |-> status,
   version |-> from \in {"success", "failure"},
   allow |-> "none", vary |-> 0, cookies |-> 0]
NoResponse == Response("nobody", "none", 0)

HandlerTypeOK ==
  /\ plugins \in Pipelines /\ request \in RequestType
  /\ step \in {"onRequest", "checks", "decode", "context", "onContext", "run",
               "encode", "onResponse", "report", "tell", "encodeFailure",
               "answered", "rejected", "unmatched"}
  /\ at \in 1 .. Len(plugins) + 1 /\ failing \in BOOLEAN
  /\ context \in [defined : BOOLEAN, bag : BOOLEAN, cookies : Nat]
  /\ error \in Errors \cup {"none"} /\ told \in Seq(Errors) /\ ran \in Nat

Handle(req) ==
  /\ request' = req /\ step' = IF req.under THEN "onRequest" ELSE "unmatched"
  /\ at' = 1 /\ failing' = FALSE /\ error' = "none" /\ told' = <<>> /\ ran' = 0
  /\ context' = [defined |-> FALSE, bag |-> FALSE, cookies |-> 0]
  /\ response' = NoResponse /\ UNCHANGED plugins

HandlerInit ==
  /\ plugins \in Pipelines /\ request \in Requests
  /\ step = (IF request.under THEN "onRequest" ELSE "unmatched")
  /\ at = 1 /\ failing = FALSE /\ error = "none" /\ told = <<>> /\ ran = 0
  /\ context = [defined |-> FALSE, bag |-> FALSE, cookies |-> 0]
  /\ response = NoResponse

-----------------------------------------------------------------------------
(* Control *)

Goto(s) == step' = s /\ at' = 1 /\ UNCHANGED <<plugins, failing, error, told>>
NextPlugin == at' = at + 1 /\ UNCHANGED <<plugins, step, failing, error, told>>

\* Mutant of Throws: what is thrown while a response goes out rejects.
ThrowsOutside(e) ==
  /\ step' = IF failing \/ step = "onResponse" THEN "rejected" ELSE "report"
  /\ error' = IF failing THEN error ELSE e
  /\ failing' = TRUE /\ at' = 1
  /\ UNCHANGED <<plugins, told>>

\* A throw in steps 0 to 5 goes to the catch, one in the catch rejects.
Throws(e) ==
  /\ step' = IF failing THEN "rejected" ELSE "report"
  /\ error' = IF failing THEN error ELSE e
  /\ failing' = TRUE /\ at' = 1
  /\ UNCHANGED <<plugins, told>>

At(s) == step = s /\ at <= Len(plugins)
Past(s) == step = s /\ at > Len(plugins)

-----------------------------------------------------------------------------
(* Steps 0 to 5 *)

\* applyOrigin; the origins of "corsAsks" come from a function of the user's.
ApplyOrigin(kind, r) ==
  IF kind = "corsAny" THEN [r EXCEPT !.allow = "*"]
  ELSE [r EXCEPT !.allow = IF request.origin = "listed" THEN "origin" ELSE @,
                 !.vary = IF @ = 0 THEN 1 ELSE @]

\* CORSPlugin.onRequest answers a preflight.
CorsOnRequest ==
  /\ At("onRequest") /\ plugins[at] \in Cors
  /\ \/ /\ request.method # "OPTIONS"
        /\ NextPlugin /\ UNCHANGED response
     \/ /\ request.method = "OPTIONS"
        /\ Goto("onResponse")
        /\ response' = ApplyOrigin(plugins[at], Response("preflight", "none", 204))
     \/ /\ request.method = "OPTIONS" /\ plugins[at] = "corsAsks"
        /\ Throws("unknown") /\ UNCHANGED response
  /\ UNCHANGED <<request, context, ran>>

\* RequestLimitPlugin.onRequest: the header at once, the stream as it is read.
LimitOnRequest ==
  /\ At("onRequest") /\ plugins[at] = "limit"
  /\ IF request.declared /\ request.body = "large"
     THEN Throws("PAYLOAD_TOO_LARGE") /\ UNCHANGED request
     ELSE /\ request' = [request EXCEPT !.limited = @ \/ request.body # "none"]
          /\ NextPlugin
  /\ UNCHANGED <<context, response, ran>>

UserOnRequest ==
  /\ At("onRequest") /\ plugins[at] = "user"
  /\ \/ NextPlugin /\ UNCHANGED response
     \/ Goto("onResponse") /\ response' = Response("user", "none", 200)
     \/ \E e \in UserThrows : Throws(e) /\ UNCHANGED response
  /\ UNCHANGED <<request, context, ran>>

OnRequest ==
  \/ CorsOnRequest \/ LimitOnRequest \/ UserOnRequest
  \/ /\ At("onRequest") /\ plugins[at] \in {"reqHeaders", "resHeaders"}
     /\ NextPlugin /\ UNCHANGED <<request, context, response, ran>>
  \/ /\ Past("onRequest")
     /\ Goto("checks") /\ UNCHANGED <<request, context, response, ran>>

\* assertPost, assertProtocolVersion, lookup: before the body is read.
Check ==
  /\ step = "checks"
  /\ IF request.method # "POST" THEN Throws("METHOD_NOT_ALLOWED")
     ELSE IF request.version = "mismatch" THEN Throws("BAD_REQUEST")
     ELSE IF ~request.known THEN Throws("NOT_FOUND")
     ELSE Goto("decode")
  /\ UNCHANGED <<request, context, response, ran>>

\* JSONCodec.decodeRequest; the limiter errors the stream that text() reads,
\* and a client that goes away breaks it.
DecodeRequest ==
  /\ step = "decode"
  /\ request' = [request EXCEPT !.read = TRUE]
  /\ CASE request.body = "large" /\ request.limited -> Throws("PAYLOAD_TOO_LARGE")
       [] request.body = "malformed" -> Throws("BAD_REQUEST")
       [] request.body = "broken" -> Throws("unknown")
       [] OTHER -> Goto("context")
  /\ UNCHANGED <<context, response, ran>>

ResolveContext ==
  /\ step = "context"
  /\ \/ /\ \E defined \in BOOLEAN : context' = [context EXCEPT !.defined = defined]
        /\ Goto("onContext")
     \/ \E e \in UserThrows : Throws(e) /\ UNCHANGED context
  /\ UNCHANGED <<request, response, ran>>

\* The package's two plugins spread the context; the user's may replace it.
OnContext ==
  /\ \/ /\ At("onContext")
        /\ \/ /\ context' = CASE plugins[at] = "resHeaders" ->
                                   [defined |-> TRUE, bag |-> TRUE, cookies |-> 0]
                              [] plugins[at] = "reqHeaders" ->
                                   [context EXCEPT !.defined = TRUE]
                              [] OTHER -> context
              /\ NextPlugin
           \/ /\ plugins[at] = "user"
              /\ context' = [defined |-> TRUE, bag |-> FALSE, cookies |-> 0]
              /\ NextPlugin
           \/ /\ plugins[at] = "user"
              /\ \E e \in UserThrows : Throws(e) /\ UNCHANGED context
     \/ Past("onContext") /\ Goto("run") /\ UNCHANGED context
  /\ UNCHANGED <<request, response, ran>>

\* runProcedure; the procedure may set a cookie before it settles.
Run ==
  /\ step = "run"
  /\ \E cookie \in (IF context.bag THEN {0, 1} ELSE {0}) :
       context' = [context EXCEPT !.cookies = cookie]
  /\ ran' = ran + 1
  /\ \/ Goto("encode")
     \/ \E e \in UserThrows \cup {"VALIDATION"} : Throws(e)
  /\ UNCHANGED <<request, response>>

\* encodeSuccess throws for a value that JSON cannot hold.
EncodeSuccess ==
  /\ step = "encode"
  /\ \/ Goto("onResponse") /\ response' = Response("success", "none", 200)
     \/ Throws("unknown") /\ UNCHANGED response
  /\ UNCHANGED <<request, context, ran>>

-----------------------------------------------------------------------------
(* Step 6 *)

ReportError ==
  /\ step = "report"
  /\ \/ At("report") /\ NextPlugin
     \/ At("report") /\ plugins[at] = "user" /\ \E e \in UserThrows : Throws(e)
     \/ Past("report") /\ Goto("tell")
  /\ UNCHANGED <<request, context, response, ran>>

\* onError, or the default log.
Tell ==
  /\ step = "tell"
  /\ told' = Append(told, error) /\ at' = 1
  /\ step' \in {"encodeFailure", "rejected"}
  /\ UNCHANGED <<plugins, request, failing, context, error, response, ran>>

\* Mutant of EncodeFailure: a failure is returned without its plugins.
EncodeFailureAlone ==
  /\ step = "encodeFailure"
  /\ Goto("answered")
  /\ response' = Response("failure", WireCode(error), HttpStatus[WireCode(error)])
  /\ UNCHANGED <<request, context, ran>>

EncodeFailure ==
  /\ step = "encodeFailure"
  /\ \/ /\ Goto("onResponse")
        /\ response' = Response("failure", WireCode(error), HttpStatus[WireCode(error)])
     \/ /\ error = "DECLARED" /\ Throws("unknown") /\ UNCHANGED response
  /\ UNCHANGED <<request, context, ran>>

-----------------------------------------------------------------------------
(* Step 7 *)

\* ResponseHeadersPlugin.onResponse appends cookies.
WithHeaders(kind, r) ==
  CASE kind \in Cors -> ApplyOrigin(kind, r)
    [] kind = "resHeaders" /\ context.bag -> [r EXCEPT !.cookies = @ + context.cookies]
    [] OTHER -> r

OnResponse ==
  /\ \/ /\ At("onResponse")
        /\ response' = WithHeaders(plugins[at], response) /\ NextPlugin
     \/ /\ At("onResponse") /\ plugins[at] = "user"
        /\ response' = Response("user", "none", 200) /\ NextPlugin
     \/ /\ At("onResponse") /\ plugins[at] \in {"user", "corsAsks"}
        /\ \E e \in UserThrows : Throws(e) /\ UNCHANGED response
     \/ /\ Past("onResponse") /\ Goto("answered") /\ UNCHANGED response
  /\ UNCHANGED <<request, context, ran>>

HandlerNext ==
  \/ OnRequest \/ Check \/ DecodeRequest \/ ResolveContext \/ OnContext
  \/ Run \/ EncodeSuccess \/ ReportError \/ Tell \/ EncodeFailure \/ OnResponse

HandlerSpec == HandlerInit /\ [][HandlerNext]_handlerVars

HandlerDone == step \in {"answered", "rejected", "unmatched"}

-----------------------------------------------------------------------------
\* What onError and the log see is what clients get: an answer is a failure
\* exactly if one error was reported, with its code, and a request that
\* matched goes without an answer only by a throw of the user's own: of a hook, or
\* of the codec on an error's data that JSON cannot hold.
EveryErrorIsTold ==
  /\ Len(told) <= 1
  /\ step = "answered" /\ response.from # "user" =>
       /\ (response.from = "failure") = (Len(told) = 1)
       /\ response.from = "failure" => response.code = WireCode(told[1])
       /\ response.from = "success" => ran = 1
  /\ step = "rejected" => \/ told # <<>> \/ \E i \in DOMAIN plugins : plugins[i] = "user"

\* Whatever failed on the way, an answer has the headers of the plugins that no
\* plugin of the user's replaced: a browser can read the failure, and a cookie
\* that the procedure set goes out once, not zero times and not twice.
HeadersOnEveryAnswer ==
  step = "answered" =>
    \A i \in DOMAIN plugins :
      (\A j \in i + 1 .. Len(plugins) : plugins[j] # "user") =>
        /\ plugins[i] = "corsAny" => response.allow = "*"
        /\ plugins[i] \in {"corsList", "corsAsks"} =>
             /\ response.vary = 1
             /\ (response.allow = "origin") = (request.origin = "listed")
        /\ plugins[i] = "resHeaders" => response.cookies = context.cookies

=============================================================================
