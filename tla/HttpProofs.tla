----------------------------- MODULE HttpProofs -----------------------------
(***************************************************************************)
(* Proofs about FetchHandler and FetchLink for any plugins, requests and   *)
(* number of retries.  Control says where in the pipeline a request can be *)
(* with which error and response; Dressing which of the plugins' headers   *)
(* the response has so far; Heard what the client has of both.  Then about *)
(* the entry of a Subscriber, and about an ItemStream: what is held, what  *)
(* is under way and what it means (from "ItemStream: what the reader gets" *)
(* on).                                                                    *)
(***************************************************************************)
EXTENDS FetchLink, Subscriber, ItemStream, SequenceTheorems, FiniteSetTheorems,
        WellFoundedInduction, NaturalsInduction, TLAPS

HasUser == \E i \in DOMAIN plugins : plugins[i] = "user"

\* Where a request can be.
Control ==
  /\ step \in {"onRequest", "checks", "decode", "context", "onContext", "run",
               "unmatched"} => ran = 0 /\ ~failing
  /\ step = "encode" => ran = 1 /\ ~failing
  /\ failing => error \in Errors
  /\ ~failing => told = <<>> /\ step \notin {"report", "tell", "encodeFailure", "rejected"}
  /\ step \in {"report", "tell"} => failing /\ told = <<>>
  /\ step = "encodeFailure" => failing /\ told = <<error>>
  /\ step = "rejected" => told = <<error>> \/ (told = <<>> /\ HasUser)
  /\ step \in {"onResponse", "answered"} =>
       /\ failing => told = <<error>> /\ response.from \in {"failure", "user"}
       /\ ~failing => response.from \in {"success", "preflight", "user"}
       /\ response.from = "failure" => response.code = WireCode(error)
       /\ response.from = "success" => ran = 1
       /\ response.version <=> (response.from \in {"success", "failure"})

ResponseType ==
  [from : {"nobody", "preflight", "user", "success", "failure"},
   code : Errors \cup {"none"}, status : Nat, version : BOOLEAN,
   allow : {"none", "*", "origin"}, vary : {0, 1}, cookies : Nat]

\* The headers of plugin i on a response that no later plugin before n replaced.
Kept(i, n) == \A j \in i + 1 .. n - 1 : plugins[j] # "user"
HeadersOf(i) ==
  /\ plugins[i] = "corsAny" => response.allow = "*"
  /\ plugins[i] \in {"corsList", "corsAsks"} =>
       /\ response.vary = 1
       /\ (response.allow = "origin") = (request.origin = "listed")
  /\ plugins[i] = "resHeaders" => response.cookies = context.cookies
Dressed(n) == \A i \in 1 .. n - 1 : Kept(i, n) => HeadersOf(i)

Dressing ==
  /\ ~context.bag => context.cookies = 0
  /\ step \in {"onResponse", "answered"} /\ response.allow = "origin"
       => request.origin = "listed"
  /\ step = "onResponse" =>
       /\ Dressed(at)
       /\ (\A i \in 1 .. at - 1 : plugins[i] # "resHeaders") => response.cookies = 0
  /\ step = "answered" => Dressed(Len(plugins) + 1)

HandlerInv == HandlerTypeOK /\ response \in ResponseType /\ Control

\* Each of the package's plugins that sets headers is there once.
Once ==
  \A p \in Pipelines : \A i, j \in DOMAIN p :
    i # j => /\ ~(p[i] \in Cors /\ p[j] \in Cors)
             /\ ~(p[i] = "resHeaders" /\ p[j] = "resHeaders")

-----------------------------------------------------------------------------
(* The handler *)

LEMMA ErrorCodes ==
  /\ Errors = {"BAD_REQUEST", "NOT_FOUND", "METHOD_NOT_ALLOWED", "PAYLOAD_TOO_LARGE",
               "VALIDATION", "INTERNAL", "DECLARED", "unknown"}
  /\ UserThrows \subseteq Errors
  /\ \A e \in Errors : WireCode(e) \in Errors /\ HttpStatus[WireCode(e)] \in Nat
<1>1. DOMAIN HttpStatus = {"BAD_REQUEST", "NOT_FOUND", "METHOD_NOT_ALLOWED",
                           "PAYLOAD_TOO_LARGE", "VALIDATION", "INTERNAL", "DECLARED"}
  BY DEF HttpStatus
<1>2. \A c \in DOMAIN HttpStatus : HttpStatus[c] \in Nat
  BY DEF HttpStatus
<1>3. \A e \in Errors : WireCode(e) \in DOMAIN HttpStatus
  BY <1>1 DEF Errors, WireCode
<1> QED BY <1>1, <1>2, <1>3 DEF Errors, UserThrows

LEMMA PluginFacts ==
  ASSUME HandlerTypeOK
  PROVE  /\ plugins \in Seq(PluginKinds) /\ Len(plugins) \in Nat
         /\ DOMAIN plugins = 1 .. Len(plugins) /\ at \in Nat /\ at > 0
         /\ at <= Len(plugins) => at \in DOMAIN plugins /\ plugins[at] \in PluginKinds
                                  /\ at + 1 \in 1 .. Len(plugins) + 1
         /\ 1 \in 1 .. Len(plugins) + 1
<1>1. plugins \in Seq(PluginKinds) /\ at \in 1 .. Len(plugins) + 1
  BY PipelinesAssumption DEF HandlerTypeOK
<1>2. Len(plugins) \in Nat /\ DOMAIN plugins = 1 .. Len(plugins)
  BY <1>1, LenProperties
<1>3. at <= Len(plugins) => at \in DOMAIN plugins
  BY <1>1, <1>2
<1> QED BY <1>1, <1>2, <1>3, ElementOfSeq

LEMMA ResponseTypes ==
  ASSUME NEW from \in {"nobody", "preflight", "user", "success", "failure"},
         NEW code \in Errors \cup {"none"}, NEW status \in Nat
  PROVE  LET r == Response(from, code, status)
         IN  /\ r \in ResponseType
             /\ r.from = from /\ r.code = code /\ r.status = status
             /\ r.version <=> (from \in {"success", "failure"})
             /\ r.allow = "none" /\ r.vary = 0 /\ r.cookies = 0
<1> DEFINE version == from \in {"success", "failure"}
<1>1. version \in BOOLEAN /\ (version <=> from \in {"success", "failure"})
  OBVIOUS
<1>2. Response(from, code, status) =
        [from |-> from, code |-> code, status |-> status, version |-> version,
         allow |-> "none", vary |-> 0, cookies |-> 0]
  BY DEF Response
<1> HIDE DEF version
<1> QED BY <1>1, <1>2 DEF ResponseType

LEMMA OriginTypes ==
  ASSUME NEW kind, NEW r \in ResponseType, request \in RequestType
  PROVE  LET q == ApplyOrigin(kind, r)
         IN  /\ q \in ResponseType
             /\ q.from = r.from /\ q.code = r.code /\ q.status = r.status
             /\ (q.version <=> r.version) /\ q.cookies = r.cookies
             /\ kind = "corsAny" => q.allow = "*"
             /\ kind # "corsAny" =>
                  /\ q.vary = 1
                  /\ q.allow = IF request.origin = "listed" THEN "origin" ELSE r.allow
BY DEF ApplyOrigin, ResponseType

LEMMA HeaderTypes ==
  ASSUME HandlerTypeOK, NEW kind, NEW r \in ResponseType
  PROVE  LET q == WithHeaders(kind, r)
         IN  /\ q \in ResponseType
             /\ q.from = r.from /\ q.code = r.code /\ q.status = r.status
             /\ (q.version <=> r.version)
             /\ q.cookies = IF kind = "resHeaders" /\ context.bag
                            THEN r.cookies + context.cookies ELSE r.cookies
             /\ kind \notin Cors => q.allow = r.allow /\ q.vary = r.vary
             /\ kind = "corsAny" => q.allow = "*"
             /\ kind \in {"corsList", "corsAsks"} =>
                  /\ q.vary = 1
                  /\ q.allow = IF request.origin = "listed" THEN "origin" ELSE r.allow
<1>1. request \in RequestType /\ context.cookies \in Nat
  BY DEF HandlerTypeOK
<1>2. CASE kind \in Cors
  <2>1. WithHeaders(kind, r) = ApplyOrigin(kind, r) /\ kind # "resHeaders"
    BY <1>2 DEF WithHeaders, Cors
  <2> QED BY <1>1, <1>2, <2>1, OriginTypes
<1>3. CASE kind \notin Cors /\ kind = "resHeaders" /\ context.bag
  <2>1. WithHeaders(kind, r) = [r EXCEPT !.cookies = @ + context.cookies]
    BY <1>3 DEF WithHeaders
  <2> QED BY <1>1, <1>3, <2>1 DEF ResponseType, Cors
<1>4. CASE kind \notin Cors /\ ~(kind = "resHeaders" /\ context.bag)
  <2>1. WithHeaders(kind, r) = r
    BY <1>4 DEF WithHeaders
  <2> QED BY <1>4, <2>1 DEF Cors
<1> QED BY <1>2, <1>3, <1>4

LEMMA HandlerInitInv ==
  ASSUME HandlerInit
  PROVE  HandlerInv /\ Dressing
<1>1. /\ plugins \in Seq(PluginKinds) /\ Len(plugins) \in Nat
      /\ request \in RequestType
  BY PipelinesAssumption, RequestsAssumption, LenProperties DEF HandlerInit
<1>2. response \in ResponseType
  BY ResponseTypes DEF HandlerInit, NoResponse
<1>3. step \in {"onRequest", "unmatched"}
  BY DEF HandlerInit
<1>4. HandlerTypeOK
  <2>1. [defined |-> FALSE, bag |-> FALSE, cookies |-> 0]
          \in [defined : BOOLEAN, bag : BOOLEAN, cookies : Nat]
    OBVIOUS
  <2>2. <<>> \in Seq(Errors) /\ 1 \in 1 .. Len(plugins) + 1
    BY <1>1, EmptySeq
  <2> QED BY <1>1, <1>3, <2>1, <2>2 DEF HandlerInit, HandlerTypeOK
<1>5. Control
  BY <1>3 DEF HandlerInit, Control
<1>6. Dressing
  BY <1>3 DEF HandlerInit, Dressing
<1> QED BY <1>2, <1>4, <1>5, <1>6 DEF HandlerInv

\* The handler throws, goes on, or starts the next step: what that does to the
\* variables of control.
LEMMA ThrowsInv ==
  ASSUME HandlerInv, NEW e \in Errors, Throws(e),
         step \notin {"tell", "answered", "rejected", "unmatched"},
         step = "report" => HasUser,
         request' \in RequestType, response' = response,
         context' \in [defined : BOOLEAN, bag : BOOLEAN, cookies : Nat], ran' \in Nat
  PROVE  HandlerInv'
<1>1. /\ plugins' = plugins /\ told' = told /\ at' = 1 /\ failing' = TRUE
      /\ step' = IF failing THEN "rejected" ELSE "report"
      /\ error' = IF failing THEN error ELSE e
      /\ HasUser' <=> HasUser
  BY DEF Throws, HasUser
<1>2. HandlerTypeOK /\ response \in ResponseType /\ Control
  BY DEF HandlerInv
<1>3. HandlerTypeOK'
  <2>1. at' \in 1 .. Len(plugins') + 1 /\ error' \in Errors \cup {"none"}
    BY <1>1, <1>2, PluginFacts DEF HandlerTypeOK
  <2>2. step' \in {"rejected", "report"}
    BY <1>1
  <2> QED BY <1>1, <1>2, <2>1, <2>2 DEF HandlerTypeOK
<1>4. Control'
  <2>1. CASE failing
    <3>1. step' = "rejected" /\ error' = error /\ error \in Errors
      BY <1>1, <1>2, <2>1 DEF Control
    <3>2. step \in {"report", "encodeFailure", "onResponse"}
      BY <1>2, <2>1 DEF Control, HandlerTypeOK
    <3>3. told = <<error>> \/ (told = <<>> /\ HasUser)
      BY <1>2, <2>1, <3>2 DEF Control
    <3> QED BY <1>1, <3>1, <3>3 DEF Control
  <2>2. CASE ~failing
    <3>1. step' = "report" /\ error' \in Errors /\ told' = <<>>
      BY <1>1, <1>2, <2>2 DEF Control
    <3> QED BY <1>1, <3>1 DEF Control
  <2> QED BY <2>1, <2>2
<1> QED BY <1>2, <1>3, <1>4 DEF HandlerInv

LEMMA NextPluginInv ==
  ASSUME HandlerInv, NextPlugin, At(step), request' \in RequestType,
         context' \in [defined : BOOLEAN, bag : BOOLEAN, cookies : Nat],
         ran' = ran, response' \in ResponseType,
         step = "onResponse" =>
           \/ /\ response'.from = response.from /\ response'.code = response.code
              /\ (response'.version <=> response.version)
           \/ response'.from = "user" /\ ~response'.version,
         step # "answered"
  PROVE  HandlerInv'
<1>1. /\ plugins' = plugins /\ told' = told /\ failing' = failing /\ error' = error
      /\ step' = step /\ at' = at + 1 /\ at <= Len(plugins)
  BY DEF NextPlugin, At
<1>2. HandlerTypeOK /\ Control
  BY DEF HandlerInv
<1>3. HandlerTypeOK'
  <2>1. at' \in 1 .. Len(plugins') + 1
    BY <1>1, <1>2, PluginFacts
  <2> QED BY <1>1, <1>2, <2>1 DEF HandlerTypeOK
<1>4. Control'
  <2>1. HasUser' <=> HasUser
    BY <1>1 DEF HasUser
  <2> QED BY <1>1, <1>2, <2>1 DEF Control
<1> QED BY <1>3, <1>4 DEF HandlerInv

LEMMA OnRequestInv ==
  ASSUME HandlerInv, OnRequest
  PROVE  HandlerInv'
<1>1. HandlerTypeOK /\ response \in ResponseType /\ Control /\ step = "onRequest"
  BY DEF HandlerInv, OnRequest, CorsOnRequest, LimitOnRequest, UserOnRequest, At, Past
<1>2. /\ request \in RequestType /\ ran \in Nat
      /\ context \in [defined : BOOLEAN, bag : BOOLEAN, cookies : Nat]
  BY <1>1 DEF HandlerTypeOK
<1>3. /\ ran' = ran /\ context' = context /\ request' \in RequestType
  BY <1>2 DEF OnRequest, CorsOnRequest, LimitOnRequest, UserOnRequest, RequestType
<1>4. CASE NextPlugin /\ At("onRequest") /\ response' = response
  BY <1>1, <1>2, <1>3, <1>4, NextPluginInv
<1>5. ASSUME NEW e \in Errors, Throws(e), response' = response
      PROVE  HandlerInv'
  BY <1>1, <1>2, <1>3, <1>5, ThrowsInv
<1>6. CASE Goto("checks") /\ response' = response
  <2>1. HandlerTypeOK'
    BY <1>1, <1>3, <1>6, PluginFacts DEF HandlerTypeOK, Goto
  <2>2. Control'
    BY <1>1, <1>3, <1>6 DEF Control, Goto
  <2> QED BY <1>1, <1>6, <2>1, <2>2 DEF HandlerInv
<1>7. ASSUME Goto("onResponse"), response' \in ResponseType, 
             response'.from \in {"preflight", "user"}, ~response'.version
      PROVE  HandlerInv'
  <2>1. HandlerTypeOK'
    BY <1>1, <1>3, <1>7, PluginFacts DEF HandlerTypeOK, Goto
  <2>2. Control'
    BY <1>1, <1>3, <1>7 DEF Control, Goto
  <2> QED BY <1>7, <2>1, <2>2 DEF HandlerInv
<1>8. CASE CorsOnRequest
  <2>1. CASE NextPlugin /\ response' = response
    BY <1>4, <1>8, <2>1 DEF CorsOnRequest
  <2>2. CASE /\ Goto("onResponse")
             /\ response' = ApplyOrigin(plugins[at], Response("preflight", "none", 204))
    <3>1. PICK r : r = Response("preflight", "none", 204)
      OBVIOUS
    <3>2. r \in ResponseType /\ r.from = "preflight" /\ ~r.version
      BY <3>1, ResponseTypes
    <3>3. /\ response' \in ResponseType /\ response'.from = "preflight"
          /\ ~response'.version
      BY <1>2, <2>2, <3>1, <3>2, OriginTypes
    <3> QED BY <1>7, <2>2, <3>3
  <2>3. CASE Throws("unknown") /\ response' = response
    BY <1>5, <2>3, ErrorCodes
  <2> QED BY <1>8, <2>1, <2>2, <2>3 DEF CorsOnRequest
<1>9. CASE LimitOnRequest
  <2>1. "PAYLOAD_TOO_LARGE" \in Errors
    BY ErrorCodes
  <2>2. \/ Throws("PAYLOAD_TOO_LARGE") /\ response' = response
        \/ NextPlugin /\ At("onRequest") /\ response' = response
    BY <1>9 DEF LimitOnRequest
  <2> QED BY <1>4, <1>5, <2>1, <2>2
<1>10. CASE UserOnRequest
  <2>1. CASE NextPlugin /\ response' = response
    BY <1>4, <1>10, <2>1 DEF UserOnRequest
  <2>2. CASE Goto("onResponse") /\ response' = Response("user", "none", 200)
    <3>1. /\ response' \in ResponseType /\ response'.from = "user"
          /\ ~response'.version
      BY <2>2, ResponseTypes
    <3> QED BY <1>7, <2>2, <3>1
  <2>3. ASSUME NEW e \in UserThrows, Throws(e), response' = response PROVE HandlerInv'
    BY <1>5, <2>3, ErrorCodes
  <2> QED BY <1>10, <2>1, <2>2, <2>3 DEF UserOnRequest
<1> QED BY <1>4, <1>6, <1>8, <1>9, <1>10 DEF OnRequest

LEMMA GotoInv ==
  ASSUME HandlerInv, NEW s \in {"decode", "context", "onContext", "run", "encode"},
         Goto(s), step \in {"checks", "decode", "context", "onContext", "run"},
         request' \in RequestType, response' = response, ran' \in Nat,
         context' \in [defined : BOOLEAN, bag : BOOLEAN, cookies : Nat],
         ran' = IF s = "encode" THEN 1 ELSE ran
  PROVE  HandlerInv'
<1>1. HandlerTypeOK /\ response \in ResponseType /\ Control
  BY DEF HandlerInv
<1>2. HandlerTypeOK'
  BY <1>1, PluginFacts DEF HandlerTypeOK, Goto
<1>3. Control'
  BY <1>1 DEF Control, Goto
<1> QED BY <1>1, <1>2, <1>3 DEF HandlerInv

LEMMA StepsInv ==
  ASSUME HandlerInv, Check \/ DecodeRequest \/ ResolveContext \/ OnContext \/ Run
  PROVE  HandlerInv'
<1>1. HandlerTypeOK /\ response \in ResponseType /\ Control
  BY DEF HandlerInv
<1>2. /\ request \in RequestType /\ ran \in Nat
      /\ context \in [defined : BOOLEAN, bag : BOOLEAN, cookies : Nat]
      /\ step \in {"checks", "decode", "context", "onContext", "run"}
  BY <1>1 DEF HandlerTypeOK, Check, DecodeRequest, ResolveContext, OnContext, Run, At, Past
<1>3. ran = 0 /\ response' = response
  BY <1>1, <1>2 DEF Control, Check, DecodeRequest, ResolveContext, OnContext, Run
<1>4. /\ request' \in RequestType /\ ran' \in Nat
      /\ context' \in [defined : BOOLEAN, bag : BOOLEAN, cookies : Nat]
      /\ Run => ran' = 1
      /\ ~Run => ran' = ran
  <2>1. CASE DecodeRequest
    BY <1>2, <1>3, <2>1 DEF DecodeRequest, RequestType, Run
  <2>2. CASE Check
    BY <1>2, <1>3, <2>2 DEF Check, Run
  <2>3. CASE ResolveContext
    BY <1>2, <1>3, <2>3 DEF ResolveContext, Run
  <2>4. CASE OnContext
    <3>1. /\ context' \in {[defined |-> TRUE, bag |-> TRUE, cookies |-> 0],
                           [context EXCEPT !.defined = TRUE], context,
                           [defined |-> TRUE, bag |-> FALSE, cookies |-> 0]}
          /\ request' = request /\ ran' = ran
      BY <2>4 DEF OnContext
    <3>2. context' \in [defined : BOOLEAN, bag : BOOLEAN, cookies : Nat]
      <4>1. [context EXCEPT !.defined = TRUE]
              \in [defined : BOOLEAN, bag : BOOLEAN, cookies : Nat]
        BY <1>2
      <4>2. /\ [defined |-> TRUE, bag |-> TRUE, cookies |-> 0]
                 \in [defined : BOOLEAN, bag : BOOLEAN, cookies : Nat]
            /\ [defined |-> TRUE, bag |-> FALSE, cookies |-> 0]
                 \in [defined : BOOLEAN, bag : BOOLEAN, cookies : Nat]
        OBVIOUS
      <4> QED BY <1>2, <3>1, <4>1, <4>2
    <3>3. ~Run
      BY <2>4 DEF OnContext, Run, At, Past
    <3> QED BY <1>2, <3>1, <3>2, <3>3
  <2>5. CASE Run
    BY <1>2, <1>3, <2>5 DEF Run
  <2> QED BY <2>1, <2>2, <2>3, <2>4, <2>5
<1>5. ASSUME NEW e \in Errors, Throws(e) PROVE HandlerInv'
  BY <1>2, <1>3, <1>4, <1>5, ThrowsInv
<1>6. ASSUME NEW s \in {"decode", "context", "onContext", "run"}, Goto(s), ~Run
      PROVE  HandlerInv'
  BY <1>2, <1>3, <1>4, <1>6, GotoInv
<1>7. CASE Check
  <2>1. /\ ~Run
        /\ {"METHOD_NOT_ALLOWED", "BAD_REQUEST", "NOT_FOUND"} \subseteq Errors
    BY <1>7, ErrorCodes DEF Check, Run
  <2> QED BY <1>5, <1>6, <1>7, <2>1 DEF Check
<1>8. CASE DecodeRequest
  <2>1. /\ ~Run
        /\ {"PAYLOAD_TOO_LARGE", "BAD_REQUEST", "unknown"} \subseteq Errors
    BY <1>8, ErrorCodes DEF DecodeRequest, Run
  <2> QED BY <1>5, <1>6, <1>8, <2>1 DEF DecodeRequest
<1>9. CASE ResolveContext
  <2>1. ~Run
    BY <1>9 DEF ResolveContext, Run
  <2> QED BY <1>5, <1>6, <1>9, <2>1, ErrorCodes DEF ResolveContext
<1>10. CASE OnContext
  <2>1. ~Run /\ step = "onContext"
    BY <1>10 DEF OnContext, Run, At, Past
  <2>2. CASE NextPlugin /\ At("onContext")
    BY <1>1, <1>3, <1>4, <2>1, <2>2, NextPluginInv
  <2> QED BY <1>5, <1>6, <1>10, <2>1, <2>2, ErrorCodes DEF OnContext
<1>11. CASE Run
  <2>1. CASE Goto("encode")
    BY <1>2, <1>3, <1>4, <1>11, <2>1, GotoInv
  <2> QED BY <1>5, <1>11, <2>1, ErrorCodes DEF Run
<1> QED BY <1>7, <1>8, <1>9, <1>10, <1>11

LEMMA EncodeInv ==
  ASSUME HandlerInv, EncodeSuccess \/ EncodeFailure
  PROVE  HandlerInv'
<1>1. HandlerTypeOK /\ response \in ResponseType /\ Control
  BY DEF HandlerInv
<1>2. /\ request' = request /\ context' = context /\ ran' = ran
      /\ request \in RequestType /\ ran \in Nat
      /\ context \in [defined : BOOLEAN, bag : BOOLEAN, cookies : Nat]
      /\ step \in {"encode", "encodeFailure"}
  BY <1>1 DEF HandlerTypeOK, EncodeSuccess, EncodeFailure
<1>3. ASSUME Throws("unknown"), response' = response PROVE HandlerInv'
  BY <1>2, <1>3, ThrowsInv, ErrorCodes
<1>4. ASSUME Goto("onResponse"), response' \in ResponseType
      PROVE  HandlerTypeOK' /\ (HasUser' <=> HasUser)
  BY <1>1, <1>2, <1>4, PluginFacts DEF HandlerTypeOK, Goto, HasUser
<1>5. CASE EncodeSuccess
  <2>1. CASE Goto("onResponse") /\ response' = Response("success", "none", 200)
    <3>1. /\ response' \in ResponseType /\ response'.from = "success"
          /\ response'.version
      BY <2>1, ResponseTypes
    <3>2. ran = 1 /\ ~failing /\ told = <<>>
      BY <1>1, <1>5 DEF Control, EncodeSuccess
    <3>3. Control'
      BY <1>2, <2>1, <3>1, <3>2 DEF Control, Goto
    <3> QED BY <1>4, <2>1, <3>1, <3>3 DEF HandlerInv
  <2> QED BY <1>3, <1>5, <2>1 DEF EncodeSuccess
<1>6. CASE EncodeFailure
  <2>1. failing /\ told = <<error>> /\ error \in Errors
    BY <1>1, <1>6 DEF Control, EncodeFailure
  <2>2. CASE /\ Goto("onResponse")
             /\ response' = Response("failure", WireCode(error),
                                     HttpStatus[WireCode(error)])
    <3>1. /\ response' \in ResponseType /\ response'.from = "failure"
          /\ response'.version /\ response'.code = WireCode(error)
      <4>1. PICK code, status : code = WireCode(error) /\ status = HttpStatus[code]
        OBVIOUS
      <4>2. code \in Errors /\ status \in Nat
        BY <2>1, <4>1, ErrorCodes
      <4>3. response' = Response("failure", code, status)
        BY <2>2, <4>1
      <4> QED BY <4>1, <4>2, <4>3, ResponseTypes
    <3>2. WireCode(error)' = WireCode(error)
      BY <2>2 DEF Goto, WireCode
    <3>3. Control'
      BY <1>2, <2>1, <2>2, <3>1, <3>2 DEF Control, Goto
    <3> QED BY <1>4, <2>2, <3>1, <3>3 DEF HandlerInv
  <2> QED BY <1>3, <1>6, <2>2 DEF EncodeFailure
<1> QED BY <1>5, <1>6

LEMMA ReportInv ==
  ASSUME HandlerInv, ReportError \/ Tell
  PROVE  HandlerInv'
<1>1. HandlerTypeOK /\ response \in ResponseType /\ Control
  BY DEF HandlerInv
<1>2. /\ request' = request /\ context' = context /\ ran' = ran
      /\ request \in RequestType /\ ran \in Nat
      /\ context \in [defined : BOOLEAN, bag : BOOLEAN, cookies : Nat]
      /\ step \in {"report", "tell"} /\ response' = response
  BY <1>1 DEF HandlerTypeOK, ReportError, Tell, At, Past
<1>3. failing /\ told = <<>> /\ error \in Errors
  BY <1>1, <1>2 DEF Control
<1>4. CASE ReportError
  <2>0. step = "report"
    BY <1>4 DEF ReportError, At, Past
  <2>1. CASE At("report") /\ NextPlugin
    BY <1>1, <1>2, <2>0, <2>1, NextPluginInv
  <2>2. ASSUME At("report"), plugins[at] = "user", NEW e \in UserThrows, Throws(e)
        PROVE  HandlerInv'
    <3>1. HasUser
      BY <1>1, <2>2, PluginFacts DEF HasUser, At
    <3> QED BY <1>1, <1>2, <2>0, <2>2, <3>1, ErrorCodes, ThrowsInv
  <2>3. CASE Goto("tell")
    <3>1. HandlerTypeOK'
      BY <1>1, <1>2, <2>3, PluginFacts DEF HandlerTypeOK, Goto
    <3>2. Control'
      BY <1>2, <1>3, <2>3 DEF Control, Goto
    <3> QED BY <1>1, <1>2, <3>1, <3>2 DEF HandlerInv
  <2> QED BY <1>4, <2>1, <2>2, <2>3 DEF ReportError
<1>5. CASE Tell
  <2>1. told' = <<error>> /\ error' = error /\ failing' = failing /\ plugins' = plugins
    BY <1>3, <1>5 DEF Tell
  <2>2. step' \in {"encodeFailure", "rejected"} /\ at' = 1
    BY <1>5 DEF Tell
  <2>3. HandlerTypeOK'
    BY <1>1, <1>2, <1>3, <2>1, <2>2, PluginFacts DEF HandlerTypeOK
  <2>4. Control'
    BY <1>2, <1>3, <2>1, <2>2 DEF Control
  <2> QED BY <1>1, <1>2, <2>3, <2>4 DEF HandlerInv
<1> QED BY <1>4, <1>5

LEMMA OnResponseInv ==
  ASSUME HandlerInv, OnResponse
  PROVE  HandlerInv'
<1>1. HandlerTypeOK /\ response \in ResponseType /\ Control
  BY DEF HandlerInv
<1>2. /\ request' = request /\ context' = context /\ ran' = ran
      /\ request \in RequestType /\ ran \in Nat
      /\ context \in [defined : BOOLEAN, bag : BOOLEAN, cookies : Nat]
      /\ step = "onResponse"
  BY <1>1 DEF HandlerTypeOK, OnResponse, At, Past
<1>3. CASE At("onResponse") /\ NextPlugin /\ response' = WithHeaders(plugins[at], response)
  <2>1. /\ response' \in ResponseType /\ response'.from = response.from
        /\ response'.code = response.code /\ (response'.version <=> response.version)
    BY <1>1, <1>3, HeaderTypes
  <2> QED BY <1>2, <1>3, <2>1, NextPluginInv
<1>4. CASE At("onResponse") /\ NextPlugin /\ response' = Response("user", "none", 200)
  <2>1. /\ response' \in ResponseType /\ response'.from = "user"
        /\ ~response'.version
    BY <1>4, ResponseTypes
  <2> QED BY <1>2, <1>4, <2>1, NextPluginInv
<1>5. ASSUME NEW e \in UserThrows, Throws(e), response' = response PROVE HandlerInv'
  BY <1>1, <1>2, <1>5, ErrorCodes, ThrowsInv
<1>6. CASE Goto("answered") /\ response' = response
  <2>1. HandlerTypeOK'
    BY <1>1, <1>2, <1>6, PluginFacts DEF HandlerTypeOK, Goto
  <2>2. Control'
    BY <1>1, <1>2, <1>6 DEF Control, Goto
  <2> QED BY <1>1, <1>6, <2>1, <2>2 DEF HandlerInv
<1> QED BY <1>3, <1>4, <1>5, <1>6 DEF OnResponse

LEMMA HandlerNextInv ==
  ASSUME HandlerInv, HandlerNext
  PROVE  HandlerInv'
BY OnRequestInv, StepsInv, EncodeInv, ReportInv, OnResponseInv DEF HandlerNext

LEMMA HandlerSame ==
  ASSUME HandlerInv, UNCHANGED handlerVars
  PROVE  HandlerInv'
BY DEF HandlerInv, handlerVars, HandlerTypeOK, Control, HasUser, WireCode

\* FetchHandler: where a request can be, whatever its plugins do.
THEOREM HandlerInvariant == HandlerSpec => []HandlerInv
<1>1. HandlerInit => HandlerInv
  BY HandlerInitInv
<1>2. HandlerInv /\ [HandlerNext]_handlerVars => HandlerInv'
  BY HandlerNextInv, HandlerSame
<1> QED BY <1>1, <1>2, PTL DEF HandlerSpec

LEMMA ToldFollows ==
  ASSUME HandlerInv
  PROVE  EveryErrorIsTold
<1>1. Control /\ response \in ResponseType
  BY DEF HandlerInv
<1>2. HandlerTypeOK
  BY DEF HandlerInv
<1>3. told = <<>> \/ told = <<error>>
  BY <1>1, <1>2 DEF Control, HandlerTypeOK
<1>4. Len(told) <= 1 /\ (Len(told) = 1 <=> told = <<error>>)
  BY <1>3, SMTT(30)
<1>5. told = <<error>> => told[1] = error
  OBVIOUS
<1> QED BY <1>1, <1>3, <1>4, <1>5 DEF EveryErrorIsTold, Control, HasUser

\* handler.ts: an answer is a failure exactly if one error was reported, with
\* its code; a request that matched goes without an answer only by a throw of
\* the user's hooks or of the codec on the data of a user's error.
THEOREM ToldTheorem == HandlerSpec => []EveryErrorIsTold
<1>1. HandlerInv => EveryErrorIsTold
  BY ToldFollows
<1> QED BY <1>1, HandlerInvariant, PTL

-----------------------------------------------------------------------------
(* Headers *)

NoBagNoCookies == ~context.bag => context.cookies = 0

LEMMA BagKept ==
  ASSUME HandlerInv, NoBagNoCookies, HandlerNext
  PROVE  NoBagNoCookies'
<1>1. context \in [defined : BOOLEAN, bag : BOOLEAN, cookies : Nat]
  BY DEF HandlerInv, HandlerTypeOK
<1>2. CASE context' = context
  BY <1>2 DEF NoBagNoCookies
<1>3. CASE ResolveContext
  <2>1. \/ \E defined \in BOOLEAN : context' = [context EXCEPT !.defined = defined]
        \/ context' = context
    BY <1>3 DEF ResolveContext
  <2>2. \A defined \in BOOLEAN :
          /\ [context EXCEPT !.defined = defined].bag = context.bag
          /\ [context EXCEPT !.defined = defined].cookies = context.cookies
    BY <1>1
  <2> QED BY <2>1, <2>2 DEF NoBagNoCookies
<1>4. CASE OnContext
  <2>1. context' \in {[defined |-> TRUE, bag |-> TRUE, cookies |-> 0],
                      [context EXCEPT !.defined = TRUE], context,
                      [defined |-> TRUE, bag |-> FALSE, cookies |-> 0]}
    BY <1>4 DEF OnContext
  <2>2. CASE context' = [context EXCEPT !.defined = TRUE]
    <3>1. (context'.bag <=> context.bag) /\ context'.cookies = context.cookies
      BY <1>1, <2>2
    <3> QED BY <3>1 DEF NoBagNoCookies
  <2>3. CASE context' = [defined |-> TRUE, bag |-> TRUE, cookies |-> 0]
    BY <2>3 DEF NoBagNoCookies
  <2>4. CASE context' = [defined |-> TRUE, bag |-> FALSE, cookies |-> 0]
    BY <2>4 DEF NoBagNoCookies
  <2> QED BY <1>2, <2>1, <2>2, <2>3, <2>4
<1>5. CASE Run
  <2>1. PICK cookie \in (IF context.bag THEN {0, 1} ELSE {0}) :
          context' = [context EXCEPT !.cookies = cookie]
    BY <1>5 DEF Run
  <2>2. context'.bag = context.bag /\ context'.cookies = cookie
    BY <1>1, <2>1
  <2> QED BY <2>1, <2>2 DEF NoBagNoCookies
<1>6. OnRequest \/ Check \/ DecodeRequest => context' = context
  <2>1. OnRequest => context' = context
    BY DEF OnRequest, CorsOnRequest, LimitOnRequest, UserOnRequest
  <2> QED BY <2>1 DEF Check, DecodeRequest
<1>7. EncodeSuccess \/ ReportError \/ Tell \/ EncodeFailure \/ OnResponse
        => context' = context
  BY DEF EncodeSuccess, ReportError, Tell, EncodeFailure, OnResponse
<1> QED BY <1>2, <1>3, <1>4, <1>5, <1>6, <1>7 DEF HandlerNext

\* A response as it is made: no plugin has seen it.
LEMMA BareResponse ==
  ASSUME step' = "onResponse", at' = 1, NoBagNoCookies', response'.cookies = 0,
         response'.allow = "origin" => request'.origin = "listed"
  PROVE  Dressing'
<1>1. 1 .. at' - 1 = {}
  OBVIOUS
<1>2. Dressed(at)'
  BY <1>1 DEF Dressed
<1> QED BY <1>2 DEF Dressing, NoBagNoCookies

\* A plugin takes its turn on a response.
LEMMA DressedByNext ==
  ASSUME HandlerInv, Dressing, Once, At("onResponse"), NextPlugin,
         request' = request, context' = context,
         response' = WithHeaders(plugins[at], response)
           \/ (plugins[at] = "user" /\ response' = Response("user", "none", 200))
  PROVE  Dressing'
<1>1. HandlerTypeOK /\ response \in ResponseType
  BY DEF HandlerInv
<1>2. /\ at \in Nat /\ at > 0 /\ at \in DOMAIN plugins /\ plugins[at] \in PluginKinds
      /\ Len(plugins) \in Nat /\ DOMAIN plugins = 1 .. Len(plugins)
  BY <1>1, PluginFacts DEF At
<1>3. plugins' = plugins /\ step = "onResponse" /\ step' = step /\ at' = at + 1
  BY DEF NextPlugin, At
<1>4. /\ Dressed(at)
      /\ (\A i \in 1 .. at - 1 : plugins[i] # "resHeaders") => response.cookies = 0
      /\ response.allow = "origin" => request.origin = "listed"
      /\ ~context.bag => context.cookies = 0
  BY <1>3 DEF Dressing
<1>5. plugins \in Pipelines
  BY <1>1 DEF HandlerTypeOK
<1>6. \A i \in 1 .. at - 1 : /\ ~(plugins[i] \in Cors /\ plugins[at] \in Cors)
                             /\ ~(plugins[i] = "resHeaders" /\ plugins[at] = "resHeaders")
  BY <1>2, <1>5 DEF Once
<1>7. CASE plugins[at] = "user" /\ response' = Response("user", "none", 200)
  <2>1. response'.allow = "none" /\ response'.cookies = 0
    BY <1>7, ResponseTypes
  <2>2. \A i \in 1 .. at : plugins[i] \in Cors \cup {"resHeaders"} => ~Kept(i, at + 1)
    <3> SUFFICES ASSUME NEW i \in 1 .. at, plugins[i] \in Cors \cup {"resHeaders"}
                 PROVE  ~Kept(i, at + 1)
      OBVIOUS
    <3>1. i # at
      BY <1>7 DEF Cors
    <3>2. at \in i + 1 .. at + 1 - 1
      BY <1>2, <3>1
    <3> QED BY <1>7, <3>2 DEF Kept
  <2>3. Dressed(at)'
    <3> SUFFICES ASSUME NEW i \in 1 .. at' - 1, Kept(i, at)' PROVE HeadersOf(i)'
      BY DEF Dressed
    <3>1. i \in 1 .. at /\ (Kept(i, at)' <=> Kept(i, at + 1))
      BY <1>2, <1>3 DEF Kept
    <3>2. plugins[i] \notin Cors \cup {"resHeaders"}
      BY <2>2, <3>1
    <3> QED BY <1>3, <3>2 DEF HeadersOf, Cors
  <2> QED BY <1>3, <1>4, <2>1, <2>3 DEF Dressing
<1>8. CASE response' = WithHeaders(plugins[at], response)
  <2> DEFINE kind == plugins[at]
             HeadersFit(i) ==
               /\ plugins[i] = "corsAny" => response'.allow = "*"
               /\ plugins[i] \in {"corsList", "corsAsks"} =>
                    /\ response'.vary = 1
                    /\ (response'.allow = "origin") <=> (request.origin = "listed")
               /\ plugins[i] = "resHeaders" => response'.cookies = context.cookies
  <2>1. /\ response' \in ResponseType
        /\ response'.cookies = IF kind = "resHeaders" /\ context.bag
                               THEN response.cookies + context.cookies
                               ELSE response.cookies
        /\ kind \notin Cors => response'.allow = response.allow
                               /\ response'.vary = response.vary
        /\ kind = "corsAny" => response'.allow = "*"
        /\ kind \in {"corsList", "corsAsks"} =>
             /\ response'.vary = 1
             /\ response'.allow = IF request.origin = "listed" THEN "origin"
                                  ELSE response.allow
    BY <1>1, <1>8, HeaderTypes
  <2>2. response'.allow = "origin" => request'.origin = "listed"
    BY <1>4, <2>1 DEF Cors
  <2>3. HeadersFit(at)
    <3>1. plugins[at] = "resHeaders" => response'.cookies = context.cookies
      <4> SUFFICES ASSUME plugins[at] = "resHeaders"
                   PROVE  response'.cookies = context.cookies
        OBVIOUS
      <4>1. response.cookies = 0
        BY <1>4, <1>6
      <4>2. context.cookies \in Nat
        BY <1>1 DEF HandlerTypeOK
      <4> QED BY <1>4, <2>1, <4>1, <4>2
    <3> QED BY <1>4, <2>1, <3>1 DEF HeadersFit
  <2>4. \A i \in 1 .. at - 1 : HeadersOf(i) => HeadersFit(i)
    <3> SUFFICES ASSUME NEW i \in 1 .. at - 1, HeadersOf(i) PROVE HeadersFit(i)
      OBVIOUS
    <3>1. plugins[i] \in Cors => plugins[at] \notin Cors
      BY <1>6
    <3>2. plugins[i] = "resHeaders" => plugins[at] # "resHeaders"
      BY <1>6
    <3>3. plugins[i] \in Cors => response'.allow = response.allow
                                /\ response'.vary = response.vary
      BY <2>1, <3>1
    <3>4. plugins[i] = "resHeaders" => response'.cookies = response.cookies
      BY <2>1, <3>2
    <3> QED BY <3>3, <3>4 DEF HeadersOf, HeadersFit, Cors
  <2>5. \A i \in 1 .. at : Kept(i, at + 1) => HeadersFit(i)
    <3> SUFFICES ASSUME NEW i \in 1 .. at, Kept(i, at + 1) PROVE HeadersFit(i)
      OBVIOUS
    <3>1. CASE i = at
      BY <2>3, <3>1
    <3>2. CASE i # at
      <4>1. i \in 1 .. at - 1 /\ Kept(i, at)
        BY <1>2, <3>2 DEF Kept
      <4> QED BY <1>4, <2>4, <4>1 DEF Dressed
    <3> QED BY <3>1, <3>2
  <2>6. Dressed(at)'
    <3> SUFFICES ASSUME NEW i \in 1 .. at' - 1, Kept(i, at)' PROVE HeadersOf(i)'
      BY DEF Dressed
    <3>1. i \in 1 .. at /\ (Kept(i, at)' <=> Kept(i, at + 1))
      BY <1>2, <1>3 DEF Kept
    <3>2. HeadersFit(i)
      BY <2>5, <3>1
    <3> QED BY <1>3, <3>2 DEF HeadersOf, HeadersFit
  <2>7. (\A i \in 1 .. at : plugins[i] # "resHeaders") => response'.cookies = 0
    BY <1>2, <1>4, <2>1
  <2>8. /\ 1 .. at' - 1 = 1 .. at
        /\ context'.bag <=> context.bag
        /\ context'.cookies = context.cookies
    BY <1>2, <1>3
  <2> QED BY <1>3, <1>4, <2>2, <2>6, <2>7, <2>8 DEF Dressing
<1> QED BY <1>7, <1>8

\* What a step off the response's way leaves of it.
LEMMA DressedElsewhere ==
  ASSUME NoBagNoCookies', step' \notin {"onResponse", "answered"}
  PROVE  Dressing'
BY DEF Dressing, NoBagNoCookies

LEMMA DressingNext ==
  ASSUME HandlerInv, Dressing, Once, HandlerNext
  PROVE  Dressing'
<1>1. HandlerTypeOK /\ response \in ResponseType /\ request \in RequestType
  BY DEF HandlerInv, HandlerTypeOK
<1>2. NoBagNoCookies'
  BY BagKept DEF Dressing, NoBagNoCookies
<1>3. ASSUME NEW e, Throws(e) PROVE Dressing'
  <2>1. step' \in {"rejected", "report"}
    BY <1>3 DEF Throws
  <2> QED BY <1>2, <2>1, DressedElsewhere
<1>4. ASSUME NextPlugin, step \notin {"onResponse", "answered"} PROVE Dressing'
  BY <1>2, <1>4, DressedElsewhere DEF NextPlugin
<1>5. ASSUME NEW s \in {"checks", "decode", "context", "onContext", "run", "encode", "tell"},
             Goto(s)
      PROVE  Dressing'
  BY <1>2, <1>5, DressedElsewhere DEF Goto
<1>6. ASSUME NEW from \in {"preflight", "user", "success", "failure"},
             NEW code \in Errors \cup {"none"}, NEW status \in Nat,
             Goto("onResponse"), response' = Response(from, code, status)
      PROVE  Dressing'
  <2>1. response'.cookies = 0 /\ response'.allow = "none"
    BY <1>6, ResponseTypes
  <2> QED BY <1>2, <1>6, <2>1, BareResponse DEF Goto
<1>7. CASE OnRequest
  <2>1. CASE CorsOnRequest
    <3>1. step = "onRequest"
      BY <2>1 DEF CorsOnRequest, At
    <3>2. CASE /\ Goto("onResponse") /\ request' = request
               /\ response' = ApplyOrigin(plugins[at], Response("preflight", "none", 204))
      <4>1. PICK r, kind : r = Response("preflight", "none", 204) /\ kind = plugins[at]
        OBVIOUS
      <4>2. r \in ResponseType /\ r.allow = "none" /\ r.cookies = 0
        BY <4>1, ResponseTypes
      <4>3. /\ response'.cookies = 0
            /\ response'.allow = "origin" => request.origin = "listed"
        <5>1. response' = ApplyOrigin(kind, r)
          BY <3>2, <4>1
        <5> QED BY <1>1, <4>2, <5>1, OriginTypes
      <4> QED BY <1>2, <3>2, <4>3, BareResponse DEF Goto
    <3> QED BY <1>3, <1>4, <2>1, <3>1, <3>2 DEF CorsOnRequest
  <2>2. CASE LimitOnRequest
    BY <1>3, <1>4, <2>2 DEF LimitOnRequest, At
  <2>3. CASE UserOnRequest
    <3>1. step = "onRequest"
      BY <2>3 DEF UserOnRequest, At
    <3> QED BY <1>3, <1>4, <1>6, <2>3, <3>1 DEF UserOnRequest
  <2>4. CASE NextPlugin /\ At("onRequest")
    BY <1>4, <2>4 DEF At
  <2> QED BY <1>5, <1>7, <2>1, <2>2, <2>3, <2>4 DEF OnRequest
<1>8. CASE Check
  BY <1>3, <1>5, <1>8 DEF Check
<1>9. CASE DecodeRequest
  BY <1>3, <1>5, <1>9 DEF DecodeRequest
<1>10. CASE ResolveContext
  BY <1>3, <1>5, <1>10 DEF ResolveContext
<1>11. CASE OnContext
  BY <1>3, <1>4, <1>5, <1>11 DEF OnContext, At
<1>12. CASE Run
  BY <1>3, <1>5, <1>12 DEF Run
<1>13. CASE EncodeSuccess
  BY <1>3, <1>6, <1>13 DEF EncodeSuccess
<1>14. CASE ReportError
  BY <1>3, <1>4, <1>5, <1>14 DEF ReportError, At
<1>15. CASE Tell
  BY <1>2, <1>15, DressedElsewhere DEF Tell
<1>16. CASE EncodeFailure
  <2>1. error \in Errors
    BY <1>16 DEF HandlerInv, Control, EncodeFailure
  <2>2. WireCode(error) \in Errors \cup {"none"} /\ HttpStatus[WireCode(error)] \in Nat
    BY <2>1, ErrorCodes
  <2> QED BY <1>3, <1>6, <1>16, <2>2 DEF EncodeFailure
<1>17. CASE OnResponse
  <2>1. request' = request /\ context' = context
    BY <1>17 DEF OnResponse
  <2>2. CASE Past("onResponse") /\ Goto("answered") /\ response' = response
    <3>1. at = Len(plugins) + 1 /\ plugins' = plugins
      BY <1>1, <2>2, PluginFacts DEF Past, Goto, HandlerTypeOK
    <3>2. Dressed(at) /\ (response.allow = "origin" => request.origin = "listed")
      BY <2>2 DEF Dressing, Past
    <3>3. \A n : Dressed(n) => Dressed(n)'
      BY <2>1, <2>2, <3>1 DEF Dressed, Kept, HeadersOf
    <3>4. Dressed(Len(plugins) + 1)'
      BY <3>1, <3>2, <3>3 DEF Dressed
    <3> QED BY <1>2, <2>1, <2>2, <3>2, <3>4 DEF Dressing, NoBagNoCookies, Goto
  <2>3. CASE /\ At("onResponse") /\ NextPlugin
             /\ \/ response' = WithHeaders(plugins[at], response)
                \/ plugins[at] = "user" /\ response' = Response("user", "none", 200)
    BY <2>1, <2>3, DressedByNext
  <2> QED BY <1>3, <1>17, <2>2, <2>3 DEF OnResponse
<1> QED BY <1>7, <1>8, <1>9, <1>10, <1>11, <1>12, <1>13, <1>14, <1>15, <1>16, <1>17
        DEF HandlerNext

LEMMA DressingSame ==
  ASSUME Dressing, UNCHANGED handlerVars
  PROVE  Dressing'
<1>1. UNCHANGED <<plugins, request, step, at, context, response>>
  BY DEF handlerVars
<1>2. \A n : Dressed(n) => Dressed(n)'
  BY <1>1 DEF Dressed, Kept, HeadersOf
<1>3. /\ Dressed(at) => Dressed(at)'
      /\ Dressed(Len(plugins) + 1) => Dressed(Len(plugins) + 1)'
  BY <1>1, <1>2 DEF Dressed
<1> QED BY <1>1, <1>3 DEF Dressing

LEMMA HeadersFollow ==
  ASSUME HandlerInv, Dressing
  PROVE  HeadersOnEveryAnswer
<1>1. HandlerTypeOK
  BY DEF HandlerInv
<1> SUFFICES ASSUME step = "answered", NEW i \in DOMAIN plugins,
                    \A j \in i + 1 .. Len(plugins) : plugins[j] # "user"
             PROVE  HeadersOf(i)
  BY DEF HeadersOnEveryAnswer, HeadersOf
<1>2. i \in 1 .. Len(plugins) + 1 - 1 /\ Len(plugins) + 1 - 1 = Len(plugins)
  BY <1>1, PluginFacts
<1>3. Kept(i, Len(plugins) + 1)
  BY <1>2 DEF Kept
<1> QED BY <1>2, <1>3 DEF Dressing, Dressed

\* handler.ts step 7 and the package's plugins: failures and preflights have the
\* headers too, each once.
THEOREM HeadersTheorem ==
  ASSUME Once
  PROVE  HandlerSpec => []HeadersOnEveryAnswer
<1> DEFINE Inv == HandlerInv /\ Dressing
<1>1. HandlerInit => Inv
  BY HandlerInitInv
<1>2. Inv /\ [HandlerNext]_handlerVars => Inv'
  <2>1. CASE HandlerNext
    BY <2>1, HandlerNextInv, DressingNext
  <2>2. CASE UNCHANGED handlerVars
    BY <2>2, HandlerSame, DressingSame
  <2> QED BY <2>1, <2>2
<1>3. Inv => HeadersOnEveryAnswer
  BY HeadersFollow
<1> HIDE DEF Inv
<1> QED BY <1>1, <1>2, <1>3, PTL DEF HandlerSpec

-----------------------------------------------------------------------------
(* The link *)

\* What the client knows of an answer of the handler's.
HeardOfHandler ==
  /\ step = "answered"
  /\ arrived.body = "failure" => response.from = "failure" /\ arrived.code = response.code

\* An answer of another's is no envelope.
HeardOfOthers == arrived.body \in {"text", "json"}

Heard ==
  /\ phase \in {"new", "fetching", "server"} => arrived = NoArrival
  /\ phase \in {"response", "body"} => arrived # NoArrival
  /\ arrived.from = "handler" => HeardOfHandler
  /\ arrived.from = "other" => HeardOfOthers

LinkInv == HandlerInv /\ LinkTypeOK /\ Heard /\ CallerLearnsTheAnswer

LEMMA AnsweredIsFinal ==
  ASSUME HandlerNext
  PROVE  step # "answered"
<1>1. OnRequest \/ Check \/ DecodeRequest \/ ResolveContext \/ OnContext \/ Run
        => step # "answered"
  BY DEF OnRequest, CorsOnRequest, LimitOnRequest, UserOnRequest, Check, DecodeRequest,
         ResolveContext, OnContext, Run, At, Past
<1>2. EncodeSuccess \/ ReportError \/ Tell \/ EncodeFailure \/ OnResponse
        => step # "answered"
  BY DEF EncodeSuccess, ReportError, Tell, EncodeFailure, OnResponse, At, Past
<1> QED BY <1>1, <1>2 DEF HandlerNext

LEMMA HandleInv ==
  ASSUME HandlerInv, NEW req \in Requests, Handle(req)
  PROVE  HandlerInv'
<1>1. HandlerTypeOK /\ request' = req /\ req \in RequestType /\ plugins' = plugins
  BY RequestsAssumption DEF HandlerInv, Handle
<1>2. response' \in ResponseType
  BY ResponseTypes DEF Handle, NoResponse
<1>3. HandlerTypeOK'
  <2>1. /\ step' \in {"onRequest", "unmatched"} /\ at' = 1 /\ failing' = FALSE
        /\ error' = "none" /\ told' = <<>> /\ ran' = 0
        /\ context' = [defined |-> FALSE, bag |-> FALSE, cookies |-> 0]
    BY DEF Handle
  <2>2. told' \in Seq(Errors)
    BY <2>1, EmptySeq
  <2>3. context' \in [defined : BOOLEAN, bag : BOOLEAN, cookies : Nat]
    BY <2>1
  <2>4. plugins' \in Pipelines /\ at' \in 1 .. Len(plugins') + 1
    BY <1>1, <2>1, PluginFacts DEF HandlerTypeOK
  <2> QED BY <1>1, <2>1, <2>2, <2>3, <2>4 DEF HandlerTypeOK
<1>4. Control'
  BY DEF Handle, Control
<1> QED BY <1>2, <1>3, <1>4 DEF HandlerInv

LEMMA LinkInitInv ==
  ASSUME HandlerInit, LinkInit
  PROVE  LinkInv
<1>1. NoArrival \in Arrivals
  BY DEF NoArrival, Arrivals
<1>2. NoResult \in [is : Results, code : Errors \cup {"none"}, status : Nat,
                    local : BOOLEAN]
  BY DEF NoResult, Results
<1>3. LinkTypeOK
  <2>1. 0 \in 0 .. MaxSends
    BY MaxSendsAssumption
  <2>2. /\ phase = "new" /\ aborted \in BOOLEAN /\ sends = 0
        /\ arrived = NoArrival /\ result = NoResult
    BY DEF LinkInit
  <2> QED BY <1>1, <1>2, <2>1, <2>2 DEF LinkTypeOK
<1>4. Heard /\ CallerLearnsTheAnswer
  BY DEF LinkInit, Heard, NoArrival, HeardOfOthers, CallerLearnsTheAnswer
<1> QED BY <1>3, <1>4, HandlerInitInv DEF LinkInv

\* What proxies and interceptors answer.
LEMMA OthersAnswer ==
  ASSUME NEW r \in AnswersOfOthers
  PROVE  r \in Arrivals /\ r # NoArrival /\ r.from = "other" /\ r.body \in {"text", "json"}
<1>1. CASE r = [NoArrival EXCEPT !.status = 502]
  BY <1>1 DEF NoArrival, Arrivals
<1>2. ASSUME NEW version \in {"absent", "match", "mismatch"}, NEW status \in {200, 500},
             NEW body \in {"text", "json"},
             r = [from |-> "other", version |-> version, status |-> status,
                  body |-> body, code |-> "none"]
      PROVE  r \in Arrivals /\ r # NoArrival /\ r.from = "other" /\ r.body \in {"text", "json"}
  BY <1>2 DEF NoArrival, Arrivals
<1>3. CASE r = [NoArrival EXCEPT !.status = 200, !.body = "json"]
  <2>1. r = [from |-> "other", version |-> "absent", status |-> 200, body |-> "json",
             code |-> "none"]
    BY <1>3 DEF NoArrival
  <2> QED BY <1>2, <2>1
<1>4. CASE r = [NoArrival EXCEPT !.status = 500, !.version = "match"]
  <2>1. r = [from |-> "other", version |-> "match", status |-> 500, body |-> "text",
             code |-> "none"]
    BY <1>4 DEF NoArrival
  <2> QED BY <1>2, <2>1
<1>5. CASE r = [NoArrival EXCEPT !.status = 200, !.version = "mismatch", !.body = "json"]
  <2>1. r = [from |-> "other", version |-> "mismatch", status |-> 200, body |-> "json",
             code |-> "none"]
    BY <1>5 DEF NoArrival
  <2> QED BY <1>2, <2>1
<1> QED BY <1>1, <1>3, <1>4, <1>5 DEF AnswersOfOthers

\* A response of the server's, or of somebody else's.
LEMMA ArriveInv ==
  ASSUME LinkInv, Arrive
  PROVE  LinkInv'
<1>1. HandlerInv /\ LinkTypeOK /\ response \in ResponseType /\ Control
  BY DEF LinkInv, HandlerInv
<1>2. UNCHANGED handlerVars /\ phase' = "response"
      /\ UNCHANGED <<aborted, sends, result>>
  BY DEF Arrive
<1>3. HandlerInv'
  BY <1>1, <1>2, HandlerSame
<1>4. ASSUME arrived' \in Arrivals, arrived' # NoArrival, arrived'.from = "other",
             arrived'.body \in {"text", "json"}
      PROVE  LinkInv'
  BY <1>1, <1>2, <1>3, <1>4
     DEF LinkInv, LinkTypeOK, Heard, HeardOfOthers, CallerLearnsTheAnswer
<1>5. CASE \E status \in {500, 404} : arrived' = [NoArrival EXCEPT !.status = status]
  <2>1. /\ arrived' \in Arrivals /\ arrived' # NoArrival /\ arrived'.from = "other"
        /\ arrived'.body = "text"
    BY <1>5 DEF NoArrival, Arrivals
  <2> QED BY <1>4, <2>1
<1>6. CASE step = "answered" /\ arrived' \in AnswerOfHandler
  <2> DEFINE bodies == CASE response.from \in {"success", "failure"} -> {response.from, "text", "cut"}
                         [] response.from = "preflight" -> {"text"}
                         [] OTHER -> {"success", "text", "json"}
             version == IF response.version THEN "match" ELSE "absent"
  <2>1. PICK body \in bodies :
          arrived' = [from |-> "handler", version |-> version,
                      status |-> response.status, body |-> body, code |-> response.code]
    BY <1>6 DEF AnswerOfHandler
  <2>2. /\ body \in {"success", "failure", "text", "json", "cut"}
        /\ body = "failure" => response.from = "failure"
    BY <2>1
  <2>4. response.status \in Nat /\ response.code \in Errors \cup {"none"}
    BY <1>1 DEF ResponseType
  <2>5. version \in {"absent", "match"}
    OBVIOUS
  <2> HIDE DEF version, bodies
  <2>6. /\ arrived' \in Arrivals /\ arrived'.from = "handler" /\ arrived'.body = body
        /\ arrived'.version = version /\ arrived'.code = response.code
    BY <2>1, <2>2, <2>4, <2>5 DEF Arrivals
  <2>7. arrived' # NoArrival
    BY <2>6 DEF NoArrival
  <2>8. step' = step /\ response' = response
    BY <1>2 DEF handlerVars
  <2>9. HeardOfHandler'
    BY <1>6, <2>2, <2>6, <2>8 DEF HeardOfHandler
  <2>10. LinkTypeOK'
    BY <1>1, <1>2, <2>6 DEF LinkTypeOK
  <2>11. Heard' /\ CallerLearnsTheAnswer'
    BY <1>2, <2>6, <2>7, <2>9 DEF Heard, CallerLearnsTheAnswer
  <2> QED BY <1>3, <2>10, <2>11 DEF LinkInv
<1>7. \/ arrived' \in AnswersOfOthers
      \/ step = "answered" /\ arrived' \in AnswerOfHandler
      \/ \E status \in {500, 404} : arrived' \in AnswerOfFramework(status)
  BY DEF Arrive, AnswersOfServer
<1> QED BY <1>4, <1>5, <1>6, <1>7, OthersAnswer DEF AnswerOfFramework

LEMMA ServerStepInv ==
  ASSUME LinkInv, ServerStep
  PROVE  LinkInv'
<1>1. HandlerNext /\ UNCHANGED linkVars
  BY DEF ServerStep
<1>2. HandlerInv'
  BY <1>1, HandlerNextInv DEF LinkInv
<1>3. arrived.from # "handler"
  BY <1>1, AnsweredIsFinal DEF LinkInv, Heard, HeardOfHandler
<1>4. UNCHANGED <<phase, aborted, sends, arrived, result>>
  BY <1>1 DEF linkVars
<1>5. LinkTypeOK'
  BY <1>4 DEF LinkInv, LinkTypeOK
<1>6. Heard'
  BY <1>3, <1>4 DEF LinkInv, Heard, HeardOfOthers
<1>7. CallerLearnsTheAnswer'
  BY <1>3, <1>4 DEF LinkInv, CallerLearnsTheAnswer, Reported, Undecodable
<1> QED BY <1>2, <1>5, <1>6, <1>7 DEF LinkInv

\* Where a code that is not INTERNAL comes from: the envelope of a failure, or
\* the codec.
OfFailure(r) ==
  /\ arrived.from = "handler" /\ arrived.body = "failure" /\ r.status = arrived.status
  /\ r.code = arrived.code /\ response.from = "failure" /\ arrived.code = response.code
OfCodec(r) ==
  /\ arrived.version = "match" /\ arrived.body \in {"text", "json"}
  /\ r.status = 400 /\ r.code = "BAD_REQUEST"

\* What a body becomes.
LEMMA DecodedFacts ==
  ASSUME LinkInv, NEW body, body = arrived.body \/ body = "cut", phase = "body"
  PROVE  LET r == Decoded(body)
         IN  /\ r \in [is : Results, code : Errors \cup {"none"}, status : Nat,
                       local : BOOLEAN]
             /\ ~r.local
             /\ r.is = "value" => arrived.from = "handler"
             /\ r.is = "error" /\ r.code # "INTERNAL" => OfFailure(r) \/ OfCodec(r)
<1>1. /\ arrived \in Arrivals /\ arrived.from \in {"handler", "other"}
      /\ arrived.code \in Errors \cup {"none"} /\ arrived.status \in Nat
  BY DEF LinkInv, LinkTypeOK, Arrivals
<1>2. /\ arrived.from = "handler" => HeardOfHandler
      /\ arrived.from = "other" => HeardOfOthers
  BY DEF LinkInv, Heard
<1>3. "INTERNAL" \in Errors /\ "BAD_REQUEST" \in Errors
  BY ErrorCodes
<1>4. CASE body = "success"
  <2>1. Decoded(body) = [is |-> "value", code |-> "none", status |-> 0, local |-> FALSE]
    BY <1>4 DEF Decoded, NoResult
  <2>2. arrived.from = "handler"
    BY <1>1, <1>2, <1>4 DEF HeardOfOthers
  <2> QED BY <2>1, <2>2 DEF Results
<1>5. CASE body = "failure"
  <2>1. Decoded(body) = [is |-> "error", code |-> arrived.code,
                         status |-> arrived.status, local |-> FALSE]
    BY <1>5 DEF Decoded, Failure
  <2>2. /\ arrived.from = "handler" /\ response.from = "failure"
        /\ arrived.code = response.code /\ arrived.body = "failure"
    BY <1>1, <1>2, <1>5 DEF HeardOfOthers, HeardOfHandler
  <2> QED BY <1>1, <2>1, <2>2 DEF Results, OfFailure
<1>6. CASE body \in {"text", "json"} /\ arrived.version = "match"
  <2>1. Decoded(body) = [is |-> "error", code |-> "BAD_REQUEST", status |-> 400,
                         local |-> FALSE]
    BY <1>6 DEF Decoded, Failure
  <2> QED BY <1>3, <1>6, <2>1 DEF Results, OfCodec
<1>7. CASE body \notin {"success", "failure"}
           /\ ~(body \in {"text", "json"} /\ arrived.version = "match")
  <2>1. Decoded(body) = [is |-> "error", code |-> "INTERNAL",
                         status |-> arrived.status, local |-> FALSE]
    BY <1>7 DEF Decoded, Invalid, Failure
  <2> QED BY <1>1, <1>3, <2>1 DEF Results
<1> QED BY <1>4, <1>5, <1>6, <1>7

\* The call settles with r.
LEMMA SettleInv ==
  ASSUME LinkInv, NEW r, Settle(r), arrived' = arrived,
         r \in [is : Results, code : Errors \cup {"none"}, status : Nat, local : BOOLEAN],
         r.is = "value" => arrived.from = "handler",
         r.is = "error" /\ r.code # "INTERNAL" => OfFailure(r) \/ OfCodec(r),
         r.is = "error" => (r.local <=> arrived = NoArrival)
  PROVE  LinkInv'
<1>1. /\ UNCHANGED handlerVars /\ phase' = "settled" /\ result' = r
      /\ aborted' = aborted /\ sends' = sends
  BY DEF Settle
<1>2. UNCHANGED <<step, response, told, error>>
  BY <1>1 DEF handlerVars
<1>3. HandlerInv'
  BY <1>1, HandlerSame DEF LinkInv
<1>4. LinkTypeOK'
  BY <1>1 DEF LinkInv, LinkTypeOK
<1>5. Heard'
  BY <1>1, <1>2 DEF LinkInv, Heard, HeardOfHandler, HeardOfOthers
<1>6. CallerLearnsTheAnswer'
  <2>1. ASSUME OfFailure(r) PROVE Reported'
    <3>1. step = "answered" /\ response.from = "failure" /\ r.code = response.code
      BY <2>1 DEF LinkInv, Heard, HeardOfHandler, OfFailure
    <3>2. EveryErrorIsTold
      BY ToldFollows DEF LinkInv
    <3>3. r.code = WireCode(told[1])
      BY <3>1, <3>2 DEF EveryErrorIsTold
    <3>4. WireCode(told[1])' = WireCode(told[1])
      BY <1>2 DEF WireCode
    <3> QED BY <1>1, <2>1, <3>3, <3>4 DEF Reported, OfFailure
  <2>2. OfCodec(r) => Undecodable'
    BY <1>1 DEF OfCodec, Undecodable
  <2>3. r.local \in BOOLEAN
    OBVIOUS
  <2> QED BY <1>1, <2>1, <2>2, <2>3 DEF CallerLearnsTheAnswer
<1> QED BY <1>3, <1>4, <1>5, <1>6 DEF LinkInv

LEMMA LinkNextInv ==
  ASSUME LinkInv, LinkNext
  PROVE  LinkInv'
<1>1. /\ HandlerInv /\ LinkTypeOK /\ Heard /\ arrived \in Arrivals
      /\ arrived.status \in Nat /\ sends \in Nat /\ sends \in 0 .. MaxSends
  BY MaxSendsAssumption DEF LinkInv, LinkTypeOK, Arrivals
<1>2. ASSUME UNCHANGED handlerVars, UNCHANGED result, phase # "settled",
             phase' # "settled", aborted' \in BOOLEAN, sends' = sends,
             phase' \in {"new", "fetching", "server", "response", "body"},
             \/ arrived' = arrived /\ phase' = phase
             \/ arrived' = NoArrival /\ phase' = "fetching"
             \/ arrived' = arrived /\ phase = "response" /\ phase' = "body"
      PROVE  LinkInv'
  <2>1. HandlerInv' /\ UNCHANGED <<step, response>>
    BY <1>1, <1>2, HandlerSame DEF handlerVars
  <2>2. NoArrival \in Arrivals /\ NoArrival.from = "other" /\ NoArrival.body = "text"
    BY DEF NoArrival, Arrivals
  <2>3. LinkTypeOK'
    BY <1>1, <1>2, <2>2 DEF LinkTypeOK
  <2>4. Heard'
    BY <1>1, <1>2, <2>1, <2>2 DEF Heard, HeardOfHandler, HeardOfOthers
  <2>5. CallerLearnsTheAnswer'
    BY <1>2 DEF CallerLearnsTheAnswer
  <2> QED BY <2>1, <2>3, <2>4, <2>5 DEF LinkInv
<1>3. CASE CallInner
  <2>1. CASE Settle([NoResult EXCEPT !.is = "raw"]) /\ arrived' = arrived
    <3>1. PICK r : r = [NoResult EXCEPT !.is = "raw"]
      OBVIOUS
    <3>2. r = [is |-> "raw", code |-> "none", status |-> 0, local |-> FALSE]
      BY <3>1 DEF NoResult
    <3> QED BY <2>1, <3>1, <3>2, SettleInv DEF LinkInv, Results
  <2>2. CASE phase' = "fetching" /\ UNCHANGED <<handlerVars, aborted, sends, result>>
             /\ arrived' = arrived
    <3>1. arrived' = NoArrival /\ phase = "new" /\ aborted' \in BOOLEAN
      BY <1>1, <1>3, <2>2 DEF CallInner, Heard, LinkTypeOK
    <3> QED BY <1>2, <2>2, <3>1
  <2> QED BY <1>3, <2>1, <2>2 DEF CallInner
<1>4. CASE Abort
  <2>1. phase \in {"new", "fetching", "server", "response", "body"}
    BY <1>1, <1>4 DEF Abort, LinkTypeOK
  <2> QED BY <1>2, <1>4, <2>1 DEF Abort
<1>5. CASE Send
  <2>1. PICK req \in Requests : Handle(req)
    BY <1>5 DEF Send
  <2>2. /\ phase = "fetching" /\ phase' = "server" /\ sends' = sends + 1
        /\ sends < MaxSends /\ UNCHANGED <<aborted, arrived, result>>
    BY <1>5 DEF Send
  <2>3. HandlerInv'
    BY <1>1, <2>1, HandleInv
  <2>4. sends' \in 0 .. MaxSends
    BY <1>1, <2>2, MaxSendsAssumption
  <2>5. LinkTypeOK'
    BY <1>1, <2>2, <2>4 DEF LinkTypeOK
  <2>6. Heard'
    BY <1>1, <2>2 DEF Heard, NoArrival, HeardOfOthers
  <2>7. CallerLearnsTheAnswer'
    BY <2>2 DEF CallerLearnsTheAnswer
  <2> QED BY <2>3, <2>5, <2>6, <2>7 DEF LinkInv
<1>6. CASE FetchFails
  <2>1. PICK r : r = LocalFailure
    OBVIOUS
  <2>2. r = [is |-> "error", code |-> "INTERNAL", status |-> 0, local |-> TRUE]
    BY <2>1 DEF LocalFailure, Failure
  <2>3. Settle(r) /\ arrived' = arrived /\ arrived = NoArrival
    BY <1>1, <1>6, <2>1 DEF FetchFails, Heard
  <2> QED BY <2>2, <2>3, SettleInv, ErrorCodes DEF LinkInv, Results
<1>7. CASE SendAgain
  <2>1. aborted' \in BOOLEAN
    BY <1>1, <1>7 DEF SendAgain, LinkTypeOK
  <2> QED BY <1>2, <1>7, <2>1 DEF SendAgain
<1>8. CASE InterceptorThrows
  <2>1. PICK r : Settle(r) /\ (r = Lent \/ r = LocalFailure)
    BY <1>8 DEF InterceptorThrows
  <2>2. /\ r \in [is : Results, code : Errors \cup {"none"}, status : Nat, local : BOOLEAN]
        /\ r.is = "lent" \/ (r.is = "error" /\ r.code = "INTERNAL" /\ r.local)
    <3>1. CASE r = Lent
      <4>1. r = [is |-> "lent", code |-> "DECLARED", status |-> 0, local |-> FALSE]
        BY <3>1 DEF Lent, Failure
      <4> QED BY <4>1, ErrorCodes DEF Results
    <3>2. CASE r = LocalFailure
      <4>1. r = [is |-> "error", code |-> "INTERNAL", status |-> 0, local |-> TRUE]
        BY <3>2 DEF LocalFailure, Failure
      <4> QED BY <4>1, ErrorCodes DEF Results
    <3> QED BY <2>1, <3>1, <3>2
  <2>4. /\ UNCHANGED handlerVars /\ phase' = "settled" /\ result' = r
        /\ aborted' = aborted /\ sends' = sends /\ arrived' = NoArrival
    BY <1>8, <2>1 DEF Settle, InterceptorThrows
  <2>5. NoArrival \in Arrivals /\ NoArrival.from = "other" /\ NoArrival.body = "text"
    BY DEF NoArrival, Arrivals
  <2>6. HandlerInv'
    BY <1>1, <2>4, HandlerSame
  <2>7. LinkTypeOK'
    BY <1>1, <2>2, <2>4, <2>5 DEF LinkTypeOK
  <2>8. Heard'
    BY <2>4, <2>5 DEF Heard, HeardOfOthers
  <2>9. CallerLearnsTheAnswer'
    BY <2>2, <2>4, <2>5 DEF CallerLearnsTheAnswer
  <2> QED BY <2>6, <2>7, <2>8, <2>9 DEF LinkInv
<1>11. CASE InterceptorAnswers
  <2>1. /\ arrived' \in Arrivals /\ arrived' # NoArrival /\ arrived'.from = "other"
        /\ arrived'.body \in {"text", "json"}
    BY <1>11, OthersAnswer DEF InterceptorAnswers
  <2>2. UNCHANGED handlerVars /\ phase' = "response" /\ UNCHANGED <<aborted, sends, result>>
    BY <1>11 DEF InterceptorAnswers
  <2>3. HandlerInv'
    BY <1>1, <2>2, HandlerSame
  <2> QED BY <1>1, <2>1, <2>2, <2>3
          DEF LinkInv, LinkTypeOK, Heard, HeardOfOthers, CallerLearnsTheAnswer
<1>9. CASE ReadVersion
  <2>1. CASE arrived.version = "mismatch" /\ Settle(Failure("INTERNAL", arrived.status, FALSE))
    <3>1. PICK r : r = Failure("INTERNAL", arrived.status, FALSE)
      OBVIOUS
    <3>2. r = [is |-> "error", code |-> "INTERNAL", status |-> arrived.status,
               local |-> FALSE]
      BY <3>1 DEF Failure
    <3>3. Settle(r) /\ arrived' = arrived /\ arrived # NoArrival
      BY <1>1, <1>9, <2>1, <3>1 DEF ReadVersion, Heard
    <3> QED BY <1>1, <3>2, <3>3, SettleInv, ErrorCodes DEF LinkInv, Results
  <2>2. CASE phase' = "body" /\ UNCHANGED <<handlerVars, aborted, sends, result>>
    <3>1. phase = "response" /\ arrived' = arrived /\ aborted' \in BOOLEAN
      BY <1>1, <1>9, <2>2 DEF ReadVersion, LinkTypeOK
    <3> QED BY <1>2, <2>2, <3>1
  <2> QED BY <1>9, <2>1, <2>2 DEF ReadVersion
<1>10. CASE ReadBody
  <2>1. PICK body : (body = arrived.body \/ body = "cut") /\ Settle(Decoded(body))
    BY <1>10 DEF ReadBody
  <2>2. phase = "body" /\ arrived' = arrived /\ arrived # NoArrival
    BY <1>1, <1>10 DEF ReadBody, Heard
  <2>3. PICK r : r = Decoded(body)
    OBVIOUS
  <2>4. /\ r \in [is : Results, code : Errors \cup {"none"}, status : Nat,
                  local : BOOLEAN]
        /\ ~r.local
        /\ r.is = "value" => arrived.from = "handler"
        /\ r.is = "error" /\ r.code # "INTERNAL" => OfFailure(r) \/ OfCodec(r)
    BY <2>1, <2>2, <2>3, DecodedFacts
  <2>5. Settle(r)
    BY <2>1, <2>3
  <2> QED BY <2>2, <2>4, <2>5, SettleInv
<1> QED BY <1>3, <1>4, <1>5, <1>6, <1>7, <1>8, <1>9, <1>10, <1>11, ArriveInv, ServerStepInv
        DEF LinkNext

LEMMA LinkSame ==
  ASSUME LinkInv, UNCHANGED <<handlerVars, linkVars>>
  PROVE  LinkInv'
<1>1. HandlerInv'
  BY HandlerSame DEF LinkInv
<1>2. UNCHANGED <<phase, aborted, sends, arrived, result, step, response, told>>
  BY DEF linkVars, handlerVars
<1> QED BY <1>1, <1>2
        DEF LinkInv, LinkTypeOK, Heard, HeardOfHandler, HeardOfOthers,
            CallerLearnsTheAnswer, Reported, Undecodable, WireCode

\* FetchLink over a FetchHandler: what the link knows at each step of a call.
THEOREM LinkInvariant == LinkSpec => []LinkInv
<1>1. HandlerInit /\ LinkInit => LinkInv
  BY LinkInitInv
<1>2. LinkInv /\ [LinkNext]_<<handlerVars, linkVars>> => LinkInv'
  BY LinkNextInv, LinkSame
<1> QED BY <1>1, <1>2, PTL DEF LinkSpec

\* fetch-link.ts: whatever the network, proxies and interceptors do, a value is
\* the handler's; an error's code is INTERNAL, or that of what the server reported,
\* or the codec's of a response of our version; and local is what callInner had no
\* response for.
THEOREM AnswerTheorem == LinkSpec => []CallerLearnsTheAnswer
<1>1. LinkInv => CallerLearnsTheAnswer
  BY DEF LinkInv
<1> QED BY <1>1, LinkInvariant, PTL

-----------------------------------------------------------------------------
(***************************************************************************)
(* Subscriber.  Several iterations may write the one entry, so the events  *)
(* of each are followed apart from those of the others (LatestOf).  What   *)
(* a lone subscription leaves is a fold over its events that Cap may cut   *)
(* at every step; CapTwice says that cutting once at the end is the same.  *)
(***************************************************************************)

SubEvents == Nat \X Nat

SubType ==
  [mode : Modes, phase : {"calling", "streaming", "ended", "failed"},
   aborted : BOOLEAN, direct : BOOLEAN, buffer : Seq(SubEvents), taken : Nat,
   before : Seq(SubEvents), alone : BOOLEAN]

SubscriberType ==
  /\ entry \in [has : BOOLEAN, data : Seq(SubEvents), error : Nat]
  /\ subs \in Seq(SubType)
  /\ ~entry.has => entry.data = <<>>
  /\ entry.error \in 0 .. Len(subs)

\* An event of the entry is one of a subscription.
Known == \A p \in DOMAIN entry.data : entry.data[p][1] \in DOMAIN subs

\* What a subscription holds back, and what it has before it streams.
Buffered(i) ==
  /\ subs[i].phase = "calling" => subs[i].taken = 0 /\ subs[i].buffer = <<>>
  /\ ~subs[i].direct =>
       /\ subs[i].mode = "replace" /\ subs[i].phase # "calling"
       /\ LatestOf(subs[i].buffer, i, subs[i].taken)
       /\ \A p \in DOMAIN subs[i].buffer : subs[i].buffer[p][1] = i
       /\ subs[i].phase = "streaming" => \A p \in DOMAIN entry.data : entry.data[p][1] # i

\* A subscription that has the entry for itself.
Lone(i) ==
  /\ \A j \in DOMAIN subs : j # i => ~Running(j)
  /\ subs[i].phase = "calling" => entry.data = subs[i].before
  /\ subs[i].phase \in {"streaming", "ended"} =>
       IF subs[i].direct \/ subs[i].phase = "ended" THEN entry.data = Expected(i)
       ELSE subs[i].buffer = Cap(Events(i))

SubscriberInv ==
  /\ SubscriberType /\ Known
  /\ \A i \in DOMAIN subs :
       /\ LatestOf(entry.data, i, subs[i].taken) /\ Buffered(i)
       /\ i = Len(subs) /\ subs[i].alone => Lone(i)
       /\ entry.error = i => subs[i].phase = "failed"

\* Cap drops from the front what is too much.
LEMMA CapDrops ==
  ASSUME NEW s \in Seq(SubEvents)
  PROVE  /\ Cap(s) \in Seq(SubEvents) /\ Len(Cap(s)) \in Nat
         /\ Len(Cap(s)) = IF Len(s) <= MaxChunks THEN Len(s) ELSE MaxChunks
         /\ \E d \in Nat : /\ Len(s) = Len(Cap(s)) + d
                           /\ \A p \in 1 .. Len(Cap(s)) : Cap(s)[p] = s[p + d]
<1>1. Len(s) \in Nat /\ MaxChunks \in Nat
  BY SubscriberAssumption
<1>2. CASE Len(s) <= MaxChunks
  <2>1. Cap(s) = s
    BY <1>2 DEF Cap
  <2>2. Len(s) = Len(s) + 0 /\ \A p \in 1 .. Len(s) : s[p] = s[p + 0]
    BY <1>1
  <2> QED BY <1>1, <1>2, <2>1, <2>2
<1>3. CASE Len(s) > MaxChunks
  <2> DEFINE d == Len(s) - MaxChunks
  <2>1. Cap(s) = SubSeq(s, d + 1, Len(s))
    BY <1>1, <1>3 DEF Cap
  <2>2. /\ d \in Nat /\ d + 1 \in Int /\ d + 1 <= Len(s) + 1 /\ Len(s) = MaxChunks + d
        /\ Len(s) - (d + 1) + 1 = MaxChunks
        /\ \A p \in 1 .. MaxChunks : (d + 1) + p - 1 = p + d
    BY <1>1, <1>3
  <2> HIDE DEF d
  <2>3. \A p \in d + 1 .. Len(s) : s[p] \in SubEvents
    BY <1>1, <2>2
  <2>4. /\ Cap(s) \in Seq(SubEvents) /\ Len(Cap(s)) = MaxChunks
        /\ \A p \in 1 .. MaxChunks : Cap(s)[p] = s[(d + 1) + p - 1]
    <3>1. Len(s) - (d + 1) + 1 = MaxChunks /\ (d + 1 > Len(s) => MaxChunks = 0)
      BY <1>1, <2>2
    <3> QED BY <1>1, <2>1, <2>2, <2>3, <3>1, SubSeqProperties
  <2> QED BY <1>1, <1>3, <2>2, <2>4
<1>4. Len(s) <= MaxChunks \/ Len(s) > MaxChunks
  BY <1>1
<1> QED BY <1>2, <1>3, <1>4

LEMMA CapTwice ==
  ASSUME NEW s \in Seq(SubEvents), NEW e \in SubEvents
  PROVE  Cap(Append(Cap(s), e)) = Cap(Append(s, e))
<1> DEFINE a == Append(Cap(s), e)
           b == Append(s, e)
<1>1. PICK d \in Nat : /\ Len(s) = Len(Cap(s)) + d
                       /\ \A p \in 1 .. Len(Cap(s)) : Cap(s)[p] = s[p + d]
  BY CapDrops
<1>2. /\ Len(s) \in Nat /\ Len(Cap(s)) \in Nat /\ MaxChunks \in Nat
      /\ Len(Cap(s)) = IF Len(s) <= MaxChunks THEN Len(s) ELSE MaxChunks
      /\ Cap(s) \in Seq(SubEvents)
  BY CapDrops, SubscriberAssumption
<1>3. /\ a \in Seq(SubEvents) /\ Len(a) = Len(Cap(s)) + 1
      /\ a[Len(Cap(s)) + 1] = e /\ \A p \in 1 .. Len(Cap(s)) : a[p] = Cap(s)[p]
  BY <1>2
<1>4. /\ b \in Seq(SubEvents) /\ Len(b) = Len(s) + 1
      /\ b[Len(s) + 1] = e /\ \A p \in 1 .. Len(s) : b[p] = s[p]
  BY <1>2
<1> HIDE DEF a, b
<1>5. Len(b) = Len(a) + d /\ Len(a) \in Nat /\ Len(b) \in Nat
  <2>1. /\ Len(s) = Len(Cap(s)) + d /\ Len(a) = Len(Cap(s)) + 1 /\ Len(b) = Len(s) + 1
        /\ Len(Cap(s)) \in Nat
    BY <1>1, <1>2, <1>3, <1>4
  <2> QED BY <2>1
<1>6. ASSUME NEW p \in 1 .. Len(a)
      PROVE  a[p] = b[p + d]
  <2>1. CASE p = Len(Cap(s)) + 1
    <3>1. p + d = Len(s) + 1
      BY <2>1, <1>1, <1>2
    <3> QED BY <2>1, <3>1, <1>3, <1>4
  <2>2. CASE p # Len(Cap(s)) + 1
    <3>1. p \in 1 .. Len(Cap(s)) /\ p + d \in 1 .. Len(s)
      BY <2>2, <1>1, <1>2, <1>3
    <3> QED BY <3>1, <1>1, <1>3, <1>4
  <2> QED BY <2>1, <2>2
<1>7. PICK x \in Nat : /\ Len(a) = Len(Cap(a)) + x
                       /\ \A p \in 1 .. Len(Cap(a)) : Cap(a)[p] = a[p + x]
  BY <1>3, CapDrops
<1>8. PICK y \in Nat : /\ Len(b) = Len(Cap(b)) + y
                       /\ \A p \in 1 .. Len(Cap(b)) : Cap(b)[p] = b[p + y]
  BY <1>4, CapDrops
<1>9. /\ Len(Cap(a)) \in Nat /\ Len(Cap(b)) \in Nat
      /\ Len(Cap(a)) = IF Len(a) <= MaxChunks THEN Len(a) ELSE MaxChunks
      /\ Len(Cap(b)) = IF Len(b) <= MaxChunks THEN Len(b) ELSE MaxChunks
      /\ Cap(a) \in Seq(SubEvents) /\ Cap(b) \in Seq(SubEvents)
  BY <1>3, <1>4, CapDrops
<1>10. Len(Cap(a)) = Len(Cap(b))
  BY <1>1, <1>2, <1>3, <1>5, <1>9
<1>11. y = x + d
  BY <1>5, <1>7, <1>8, <1>9, <1>10
<1>12. ASSUME NEW p \in 1 .. Len(Cap(a))
       PROVE  Cap(a)[p] = Cap(b)[p]
  <2>1. p + x \in 1 .. Len(a) /\ (p + x) + d = p + y
    BY <1>7, <1>9, <1>11
  <2>2. a[p + x] = b[(p + x) + d]
    BY <1>6, <2>1
  <2> QED BY <1>7, <1>8, <1>10, <2>1, <2>2
<1>13. Cap(a) = Cap(b)
  BY <1>9, <1>10, <1>12, SeqEqual
<1> QED BY <1>13 DEF a, b

LEMMA CapKeepsLatest ==
  ASSUME NEW s \in Seq(SubEvents), NEW i \in Nat, NEW n \in Nat, LatestOf(s, i, n)
  PROVE  LatestOf(Cap(s), i, n)
<1> DEFINE c == Cap(s)
<1>0. PICK d \in Nat : /\ Len(s) = Len(c) + d
                       /\ \A p \in 1 .. Len(c) : c[p] = s[p + d]
  BY CapDrops
<1>1. /\ c \in Seq(SubEvents) /\ Len(c) \in Nat /\ Len(s) \in Nat
      /\ \A p \in 1 .. Len(c) : c[p] = s[p + d] /\ p + d \in 1 .. Len(s)
  <2>1. c \in Seq(SubEvents) /\ Len(c) \in Nat /\ Len(s) \in Nat
    BY CapDrops
  <2>2. \A p \in 1 .. Len(c) : p + d \in 1 .. Len(s)
    BY <1>0, <2>1
  <2> QED BY <1>0, <2>1, <2>2
<1>2. DOMAIN c = 1 .. Len(c) /\ DOMAIN s = 1 .. Len(s)
  BY <1>1
<1> HIDE DEF c
<1>3. Len(s) = Len(c) + d
  BY <1>0
<1>4. ASSUME NEW p \in DOMAIN c, c[p][1] = i
      PROVE  /\ c[p][2] \in 1 .. n
             /\ \A m \in c[p][2] + 1 .. n : \E q \in p + 1 .. Len(c) : c[q] = <<i, m>>
  <2>1. s[p + d][1] = i /\ p + d \in DOMAIN s /\ c[p] = s[p + d]
    BY <1>1, <1>2, <1>4
  <2>2. /\ s[p + d][2] \in 1 .. n
        /\ \A m \in s[p + d][2] + 1 .. n : \E q \in p + d + 1 .. Len(s) : s[q] = <<i, m>>
    BY <2>1 DEF LatestOf
  <2>3. ASSUME NEW m \in c[p][2] + 1 .. n
        PROVE  \E q \in p + 1 .. Len(c) : c[q] = <<i, m>>
    <3>1. PICK q \in p + d + 1 .. Len(s) : s[q] = <<i, m>>
      BY <2>1, <2>2, <2>3
    <3>2. q - d \in p + 1 .. Len(c) /\ q - d \in 1 .. Len(c) /\ (q - d) + d = q
      BY <1>1, <1>2, <1>3
    <3>3. c[q - d] = <<i, m>>
      BY <1>1, <3>1, <3>2
    <3> QED BY <3>2, <3>3
  <2> QED BY <2>1, <2>2, <2>3
<1>5. ASSUME NEW p \in DOMAIN c, NEW q \in DOMAIN c, p < q, c[p][1] = i, c[q][1] = i
      PROVE  c[p][2] < c[q][2]
  <2>1. p + d \in DOMAIN s /\ q + d \in DOMAIN s /\ p + d < q + d
        /\ c[p] = s[p + d] /\ c[q] = s[q + d]
    BY <1>1, <1>2, <1>5
  <2> QED BY <2>1, <1>5 DEF LatestOf
<1>6. LatestOf(c, i, n)
  BY <1>4, <1>5 DEF LatestOf
<1> QED BY <1>6 DEF c

\* An event of i follows the others of i.
LEMMA AppendLatest ==
  ASSUME NEW s \in Seq(SubEvents), NEW i \in Nat, NEW n \in Nat, LatestOf(s, i, n)
  PROVE  LatestOf(Append(s, <<i, n + 1>>), i, n + 1)
<1> DEFINE a == Append(s, <<i, n + 1>>)
<1>1. /\ Len(s) \in Nat /\ Len(a) = Len(s) + 1 /\ DOMAIN a = 1 .. Len(s) + 1
      /\ DOMAIN s = 1 .. Len(s)
      /\ a[Len(s) + 1] = <<i, n + 1>> /\ \A p \in 1 .. Len(s) : a[p] = s[p]
  BY AppendProperties DEF SubEvents
<1> HIDE DEF a
<1>2. ASSUME NEW p \in DOMAIN a, a[p][1] = i
      PROVE  /\ a[p][2] \in 1 .. n + 1
             /\ \A m \in a[p][2] + 1 .. n + 1 :
                  \E q \in p + 1 .. Len(a) : a[q] = <<i, m>>
  <2>1. CASE p = Len(s) + 1
    BY <2>1, <1>1
  <2>2. CASE p # Len(s) + 1
    <3>1. p \in DOMAIN s /\ a[p] = s[p] /\ s[p][1] = i
      BY <1>1, <1>2, <2>2
    <3>2. /\ s[p][2] \in 1 .. n
          /\ \A m \in s[p][2] + 1 .. n : \E q \in p + 1 .. Len(s) : s[q] = <<i, m>>
      BY <3>1 DEF LatestOf
    <3>3. ASSUME NEW m \in a[p][2] + 1 .. n + 1
          PROVE  \E q \in p + 1 .. Len(a) : a[q] = <<i, m>>
      <4>1. CASE m = n + 1
        <5>1. Len(s) + 1 \in p + 1 .. Len(a) /\ a[Len(s) + 1] = <<i, m>>
          BY <4>1, <1>1, <3>1
        <5> QED BY <5>1
      <4>2. CASE m # n + 1
        <5>1. m \in s[p][2] + 1 .. n
          BY <3>1, <3>2, <4>2
        <5>2. PICK q \in p + 1 .. Len(s) : s[q] = <<i, m>>
          BY <3>2, <5>1
        <5>3. q \in 1 .. Len(s) /\ q \in p + 1 .. Len(a)
          BY <1>1, <3>1
        <5> QED BY <5>2, <5>3, <1>1
      <4> QED BY <4>1, <4>2
    <3>4. a[p][2] \in 1 .. n + 1
      BY <3>1, <3>2
    <3> QED BY <3>3, <3>4
  <2> QED BY <2>1, <2>2
<1>3. ASSUME NEW p \in DOMAIN a, NEW q \in DOMAIN a, p < q, a[p][1] = i, a[q][1] = i
      PROVE  a[p][2] < a[q][2]
  <2>1. p \in DOMAIN s /\ a[p] = s[p] /\ s[p][1] = i
    BY <1>1, <1>3
  <2>2. CASE q = Len(s) + 1
    <3>1. a[q][2] = n + 1 /\ s[p][2] \in 1 .. n
      BY <2>1, <2>2, <1>1 DEF LatestOf
    <3> QED BY <2>1, <3>1
  <2>3. CASE q # Len(s) + 1
    <3>1. q \in DOMAIN s /\ a[q] = s[q] /\ s[q][1] = i
      BY <1>1, <1>3, <2>3
    <3> QED BY <2>1, <3>1, <1>3 DEF LatestOf
  <2> QED BY <2>2, <2>3
<1>4. LatestOf(a, i, n + 1)
  BY <1>1, <1>2, <1>3 DEF LatestOf
<1> QED BY <1>4 DEF a

LEMMA AppendOther ==
  ASSUME NEW s \in Seq(SubEvents), NEW i \in Nat, NEW n \in Nat, LatestOf(s, i, n),
         NEW e \in SubEvents, e[1] # i
  PROVE  LatestOf(Append(s, e), i, n)
<1> DEFINE a == Append(s, e)
<1>1. /\ Len(s) \in Nat /\ Len(a) = Len(s) + 1 /\ DOMAIN a = 1 .. Len(s) + 1
      /\ DOMAIN s = 1 .. Len(s)
      /\ a[Len(s) + 1] = e /\ \A p \in 1 .. Len(s) : a[p] = s[p]
  BY AppendProperties
<1> HIDE DEF a
<1>2. \A p \in DOMAIN a : a[p][1] = i => p \in DOMAIN s /\ a[p] = s[p]
  BY <1>1
<1>3. ASSUME NEW p \in DOMAIN a, a[p][1] = i
      PROVE  /\ a[p][2] \in 1 .. n
             /\ \A m \in a[p][2] + 1 .. n : \E q \in p + 1 .. Len(a) : a[q] = <<i, m>>
  <2>1. p \in DOMAIN s /\ a[p] = s[p]
    BY <1>2, <1>3
  <2>2. /\ s[p][2] \in 1 .. n
        /\ \A m \in s[p][2] + 1 .. n : \E q \in p + 1 .. Len(s) : s[q] = <<i, m>>
    BY <1>3, <2>1 DEF LatestOf
  <2>3. \A q \in p + 1 .. Len(s) : q \in 1 .. Len(s) /\ q \in p + 1 .. Len(a) /\ a[q] = s[q]
    BY <1>1, <2>1
  <2> QED BY <2>1, <2>2, <2>3
<1>4. LatestOf(a, i, n)
  BY <1>1, <1>2, <1>3 DEF LatestOf
<1> QED BY <1>4 DEF a

\* The events of i, counted up to n.
EventsTo(i, n) == [m \in 1 .. n |-> <<i, m>>]

LEMMA MoreEvents ==
  ASSUME NEW i \in Nat, NEW n \in Nat
  PROVE  /\ EventsTo(i, n) \in Seq(SubEvents) /\ Len(EventsTo(i, n)) = n
         /\ EventsTo(i, n + 1) = Append(EventsTo(i, n), <<i, n + 1>>)
         /\ EventsTo(i, 0) = <<>>
         /\ n # 0 => Last(EventsTo(i, n)) = <<i, n>>
<1>1. /\ EventsTo(i, n) \in Seq(SubEvents) /\ Len(EventsTo(i, n)) = n
      /\ EventsTo(i, n + 1) \in Seq(SubEvents) /\ Len(EventsTo(i, n + 1)) = n + 1
      /\ EventsTo(i, 0) \in Seq(SubEvents) /\ Len(EventsTo(i, 0)) = 0
  BY IsASeq DEF EventsTo, SubEvents
<1>2. \A m \in 1 .. n + 1 :
        EventsTo(i, n + 1)[m] = Append(EventsTo(i, n), <<i, n + 1>>)[m]
  <2>1. <<i, n + 1>> \in SubEvents
    BY DEF SubEvents
  <2>2. /\ \A m \in 1 .. n : Append(EventsTo(i, n), <<i, n + 1>>)[m] = EventsTo(i, n)[m]
        /\ Append(EventsTo(i, n), <<i, n + 1>>)[n + 1] = <<i, n + 1>>
    BY <1>1, <2>1, AppendProperties
  <2> QED BY <2>2 DEF EventsTo
<1>3. /\ Append(EventsTo(i, n), <<i, n + 1>>) \in Seq(SubEvents)
      /\ Len(Append(EventsTo(i, n), <<i, n + 1>>)) = n + 1
  BY <1>1, AppendProperties DEF SubEvents
<1>4. EventsTo(i, n + 1) = Append(EventsTo(i, n), <<i, n + 1>>)
  BY <1>1, <1>2, <1>3, SeqEqual
<1>5. n # 0 => Last(EventsTo(i, n)) = <<i, n>>
  BY <1>1 DEF Last, EventsTo
<1>6. EventsTo(i, 0) = <<>>
  BY <1>1, EmptySeq
<1> QED BY <1>1, <1>4, <1>5, <1>6

\* A step of one subscription: what the others need.
LEMMA OthersKeep ==
  ASSUME SubscriberInv, NEW i \in DOMAIN subs, NEW new \in SubType,
         subs' = [subs EXCEPT ![i] = new],
         entry' \in [has : BOOLEAN, data : Seq(SubEvents), error : Nat],
         ~entry'.has => entry'.data = <<>>,
         entry'.error \in {0, entry.error, i},
         entry'.error = i => new.phase = "failed",
         \A p \in DOMAIN entry'.data : entry'.data[p][1] \in DOMAIN subs,
         \A j \in DOMAIN subs : j # i =>
           /\ LatestOf(entry'.data, j, subs[j].taken)
           /\ (\A p \in DOMAIN entry.data : entry.data[p][1] # j) =>
                (\A p \in DOMAIN entry'.data : entry'.data[p][1] # j),
         LatestOf(entry'.data, i, new.taken),
         Buffered(i)',
         \A j \in DOMAIN subs : j = Len(subs) /\ subs'[j].alone => Lone(j)'
  PROVE  SubscriberInv'
<1>1. /\ subs \in Seq(SubType) /\ DOMAIN subs = 1 .. Len(subs) /\ Len(subs) \in Nat
      /\ subs' \in Seq(SubType) /\ Len(subs') = Len(subs) /\ DOMAIN subs' = DOMAIN subs
      /\ subs'[i] = new /\ \A j \in DOMAIN subs : j # i => subs'[j] = subs[j]
  BY ExceptSeq DEF SubscriberInv, SubscriberType
<1>2. SubscriberType'
  BY <1>1 DEF SubscriberInv, SubscriberType
<1>3. Known'
  BY <1>1 DEF Known
<1>4. ASSUME NEW j \in DOMAIN subs'
      PROVE  /\ LatestOf(entry'.data, j, subs'[j].taken) /\ Buffered(j)'
             /\ j = Len(subs') /\ subs'[j].alone => Lone(j)'
             /\ entry'.error = j => subs'[j].phase = "failed"
  <2>1. CASE j = i
    BY <1>1, <2>1
  <2>2. CASE j # i
    <3>1. Buffered(j) /\ subs'[j] = subs[j] /\ j \in DOMAIN subs
      BY <1>1, <1>4, <2>2 DEF SubscriberInv
    <3>2. Buffered(j)'
      BY <3>1, <2>2 DEF Buffered
    <3>3. entry'.error = j => subs'[j].phase = "failed"
      BY <1>1, <2>2, <3>1 DEF SubscriberInv
    <3> QED BY <1>1, <2>2, <3>1, <3>2, <3>3
  <2> QED BY <2>1, <2>2
<1> QED BY <1>1, <1>2, <1>3, <1>4 DEF SubscriberInv

LEMMA SubFacts ==
  ASSUME SubscriberInv, NEW i \in DOMAIN subs
  PROVE  /\ subs[i] \in SubType /\ i \in Nat /\ i # 0 /\ entry.data \in Seq(SubEvents)
         /\ LatestOf(entry.data, i, subs[i].taken) /\ Buffered(i)
         /\ i = Len(subs) /\ subs[i].alone => Lone(i)
         /\ entry.error = i => subs[i].phase = "failed"
BY DEF SubscriberInv, SubscriberType

\* A step of a subscription that runs: nobody else has the entry for itself.
LEMMA RunnerKeeps ==
  ASSUME SubscriberInv, NEW i \in DOMAIN subs, Running(i), NEW new \in SubType,
         subs' = [subs EXCEPT ![i] = new], new.alone = subs[i].alone,
         entry' \in [has : BOOLEAN, data : Seq(SubEvents), error : Nat],
         ~entry'.has => entry'.data = <<>>,
         entry'.error \in {0, entry.error, i},
         entry'.error = i => new.phase = "failed",
         \A p \in DOMAIN entry'.data : entry'.data[p][1] \in DOMAIN subs,
         \A j \in DOMAIN subs : j # i =>
           /\ LatestOf(entry'.data, j, subs[j].taken)
           /\ (\A p \in DOMAIN entry.data : entry.data[p][1] # j) =>
                (\A p \in DOMAIN entry'.data : entry'.data[p][1] # j),
         LatestOf(entry'.data, i, new.taken),
         Buffered(i)',
         (\A j \in DOMAIN subs : j # i => ~Running(j)) /\ Lone(i) /\ subs[i].alone =>
           /\ new.phase = "calling" => entry'.data = new.before
           /\ new.phase \in {"streaming", "ended"} =>
                IF new.direct \/ new.phase = "ended" THEN entry'.data = Expected(i)'
                ELSE new.buffer = Cap(EventsTo(i, new.taken))
  PROVE  SubscriberInv'
<1>1. /\ subs'[i] = new /\ DOMAIN subs' = DOMAIN subs
      /\ \A j \in DOMAIN subs : j # i => subs'[j] = subs[j]
  BY DEF SubscriberInv, SubscriberType
<1>2. ASSUME NEW j \in DOMAIN subs, j = Len(subs), subs'[j].alone
      PROVE  Lone(j)'
  <2>1. j = i
    <3>1. ASSUME j # i PROVE FALSE
      <4>1. Lone(j)
        BY <1>1, <1>2, <3>1, SubFacts
      <4> QED BY <3>1, <4>1 DEF Lone
    <3> QED BY <3>1
  <2>2. Lone(i) /\ subs[i].alone
    BY <1>1, <1>2, <2>1, SubFacts
  <2>3. \A k \in DOMAIN subs : k # i => ~Running(k)
    BY <2>2 DEF Lone
  <2>4. \A k \in DOMAIN subs' : k # i => ~Running(k)'
    BY <2>3, <1>1 DEF Running
  <2>5. Events(i)' = EventsTo(i, new.taken)
    BY <1>1 DEF Events, EventsTo
  <2> QED BY <1>1, <2>1, <2>2, <2>3, <2>4, <2>5 DEF Lone
<1> QED BY <1>2, OthersKeep

LEMMA SubscribeKeeps ==
  ASSUME SubscriberInv, Subscribe
  PROVE  SubscriberInv'
<1> DEFINE n == Len(subs) + 1
<1>1. PICK mode \in Modes :
        subs' = Append(subs, [mode |-> mode, phase |-> "calling", aborted |-> FALSE,
                              direct |-> TRUE, buffer |-> <<>>, taken |-> 0,
                              before |-> entry.data,
                              alone |-> \A i \in DOMAIN subs : ~Running(i)])
  BY DEF Subscribe
<1>2. entry' = entry
  BY DEF Subscribe
<1> DEFINE new == [mode |-> mode, phase |-> "calling", aborted |-> FALSE,
                   direct |-> TRUE, buffer |-> <<>>, taken |-> 0,
                   before |-> entry.data, alone |-> \A i \in DOMAIN subs : ~Running(i)]
<1>3. new \in SubType
  BY DEF SubType, SubscriberInv, SubscriberType
<1>4. /\ new.phase = "calling" /\ new.direct /\ new.taken = 0 /\ new.buffer = <<>>
      /\ new.before = entry.data /\ (new.alone <=> \A i \in DOMAIN subs : ~Running(i))
  OBVIOUS
<1>5. subs' = Append(subs, new)
  BY <1>1
<1> HIDE DEF new
<1>6. /\ subs \in Seq(SubType) /\ Len(subs) \in Nat /\ DOMAIN subs = 1 .. Len(subs)
      /\ subs' \in Seq(SubType) /\ Len(subs') = n /\ DOMAIN subs' = 1 .. n
      /\ subs'[n] = new /\ \A j \in DOMAIN subs : subs'[j] = subs[j]
  BY <1>3, <1>5, AppendProperties DEF SubscriberInv, SubscriberType
<1>7. SubscriberType'
  BY <1>2, <1>6 DEF SubscriberInv, SubscriberType
<1>8. Known'
  BY <1>2, <1>6 DEF SubscriberInv, Known
<1>9. ASSUME NEW j \in DOMAIN subs'
      PROVE  /\ LatestOf(entry'.data, j, subs'[j].taken) /\ Buffered(j)'
             /\ j = Len(subs') /\ subs'[j].alone => Lone(j)'
             /\ entry'.error = j => subs'[j].phase = "failed"
  <2>1. CASE j = n
    <3>1. \A p \in DOMAIN entry'.data : entry'.data[p][1] # j
      BY <1>2, <1>6, <2>1 DEF SubscriberInv, Known
    <3>2. LatestOf(entry'.data, j, subs'[j].taken)
      BY <3>1 DEF LatestOf
    <3>3. Buffered(j)'
      BY <1>4, <1>6, <2>1 DEF Buffered
    <3>4. entry'.error # j
      BY <1>2, <1>6, <2>1 DEF SubscriberInv, SubscriberType
    <3>5. new.alone => Lone(j)'
      BY <1>2, <1>4, <1>6, <2>1 DEF Lone, Running
    <3> QED BY <1>6, <2>1, <3>2, <3>3, <3>4, <3>5
  <2>2. CASE j # n
    <3>1. j \in DOMAIN subs /\ subs'[j] = subs[j] /\ j # Len(subs')
      BY <1>6, <1>9, <2>2
    <3>2. Buffered(j)'
      BY <1>2, <3>1, SubFacts DEF Buffered
    <3> QED BY <1>2, <3>1, <3>2, SubFacts
  <2> QED BY <2>1, <2>2
<1> QED BY <1>7, <1>8, <1>9 DEF SubscriberInv

LEMMA UnsubscribeKeeps ==
  ASSUME SubscriberInv, NEW i \in DOMAIN subs, Unsubscribe(i)
  PROVE  SubscriberInv'
<1> DEFINE new == [subs[i] EXCEPT !.aborted = TRUE]
<1>1. /\ subs' = [subs EXCEPT ![i] = new] /\ entry' = entry
  BY DEF Unsubscribe
<1>2. /\ new \in SubType /\ new.phase = subs[i].phase /\ new.direct = subs[i].direct
      /\ new.taken = subs[i].taken /\ new.buffer = subs[i].buffer /\ new.mode = subs[i].mode
      /\ new.before = subs[i].before /\ new.alone = subs[i].alone
  BY SubFacts DEF SubType
<1> HIDE DEF new
<1>3. /\ subs'[i] = new /\ DOMAIN subs' = DOMAIN subs
      /\ \A j \in DOMAIN subs : j # i => subs'[j] = subs[j]
  BY <1>1 DEF SubscriberInv, SubscriberType
<1>4. \A j \in DOMAIN subs :
        /\ subs'[j].phase = subs[j].phase /\ subs'[j].direct = subs[j].direct
        /\ subs'[j].taken = subs[j].taken /\ subs'[j].buffer = subs[j].buffer
        /\ subs'[j].mode = subs[j].mode /\ subs'[j].before = subs[j].before
        /\ subs'[j].alone = subs[j].alone
  BY <1>2, <1>3
<1>5. ASSUME NEW j \in DOMAIN subs, Lone(j)
      PROVE  Lone(j)'
  <2>1. Events(j)' = Events(j)
    BY <1>4 DEF Events
  <2>2. Expected(j)' = Expected(j)
    BY <1>4, <2>1 DEF Expected
  <2>3. \A k \in DOMAIN subs : Running(k)' <=> Running(k)
    BY <1>4 DEF Running
  <2> QED BY <1>1, <1>3, <1>4, <1>5, <2>1, <2>2, <2>3 DEF Lone
<1>6. Buffered(i)'
  BY <1>1, <1>4, SubFacts DEF Buffered
<1>7. \A j \in DOMAIN subs : j = Len(subs) /\ subs'[j].alone => Lone(j)'
  BY <1>4, <1>5, SubFacts
<1>8. \A j \in DOMAIN subs : LatestOf(entry.data, j, subs[j].taken)
  BY SubFacts
<1>9. /\ entry \in [has : BOOLEAN, data : Seq(SubEvents), error : Nat]
      /\ ~entry.has => entry.data = <<>>
      /\ \A p \in DOMAIN entry.data : entry.data[p][1] \in DOMAIN subs
      /\ entry.error = i => new.phase = "failed"
  BY <1>2 DEF SubscriberInv, SubscriberType, Known
<1> QED BY <1>1, <1>2, <1>6, <1>7, <1>8, <1>9, OthersKeep

LEMMA FailsKeeps ==
  ASSUME SubscriberInv, NEW i \in DOMAIN subs, Fails(i)
  PROVE  SubscriberInv'
<1> DEFINE new == [subs[i] EXCEPT !.phase = "failed"]
<1>1. /\ subs' = [subs EXCEPT ![i] = new] /\ Running(i)
      /\ entry' = IF subs[i].aborted THEN entry ELSE [entry EXCEPT !.error = i]
  BY DEF Fails
<1>2. /\ new \in SubType /\ new.phase = "failed" /\ new.direct = subs[i].direct
      /\ new.taken = subs[i].taken /\ new.buffer = subs[i].buffer /\ new.mode = subs[i].mode
      /\ new.alone = subs[i].alone
  BY SubFacts DEF SubType
<1> HIDE DEF new
<1>3. entry \in [has : BOOLEAN, data : Seq(SubEvents), error : Nat]
  BY DEF SubscriberInv, SubscriberType
<1>4. /\ entry' \in [has : BOOLEAN, data : Seq(SubEvents), error : Nat]
      /\ entry'.has = entry.has /\ entry'.data = entry.data
      /\ entry'.error \in {entry.error, i}
  BY <1>1, <1>3, SubFacts
<1>5. subs'[i] = new
  BY <1>1 DEF SubscriberInv, SubscriberType
<1>6. Buffered(i)'
  BY <1>2, <1>4, <1>5, SubFacts DEF Buffered
<1>7. \A j \in DOMAIN subs : LatestOf(entry.data, j, subs[j].taken)
  BY SubFacts
<1>8. /\ ~entry.has => entry.data = <<>>
      /\ \A p \in DOMAIN entry.data : entry.data[p][1] \in DOMAIN subs
  BY DEF SubscriberInv, SubscriberType, Known
<1> QED BY <1>1, <1>2, <1>4, <1>6, <1>7, <1>8, RunnerKeeps

LEMMA ResolvesKeeps ==
  ASSUME SubscriberInv, NEW i \in DOMAIN subs, Resolves(i)
  PROVE  SubscriberInv'
<1> DEFINE mode == subs[i].mode
           new == [subs[i] EXCEPT !.phase = "streaming",
                                  !.direct = mode # "replace" \/ ~entry.has]
<1>1. /\ subs' = [subs EXCEPT ![i] = new] /\ subs[i].phase = "calling" /\ Running(i)
      /\ entry' = CASE mode = "reset" -> NoData
                    [] mode = "replace" -> [entry EXCEPT !.error = 0]
                    [] OTHER -> entry
  <2>1. subs' = [subs EXCEPT ![i] = new]
    BY DEF Resolves, SubscriberInv, SubscriberType, SubType
  <2>2. subs[i].phase = "calling" /\ Running(i)
    BY DEF Resolves, Running
  <2>3. CASE mode = "reset"
    BY <2>1, <2>2, <2>3 DEF Resolves, Clear
  <2>4. CASE mode = "replace"
    BY <2>1, <2>2, <2>4 DEF Resolves
  <2>5. CASE mode \notin {"reset", "replace"}
    BY <2>1, <2>2, <2>5 DEF Resolves
  <2> QED BY <2>3, <2>4, <2>5
<1>2. /\ new \in SubType /\ new.phase = "streaming" /\ new.direct = (mode # "replace" \/ ~entry.has)
      /\ new.taken = subs[i].taken /\ new.buffer = subs[i].buffer /\ new.mode = subs[i].mode
      /\ new.alone = subs[i].alone /\ new.before = subs[i].before
      /\ subs[i].taken = 0 /\ subs[i].buffer = <<>> /\ mode \in Modes
  BY <1>1, SubFacts DEF SubType, Buffered
<1> HIDE DEF new
<1>3. /\ entry \in [has : BOOLEAN, data : Seq(SubEvents), error : Nat]
      /\ ~entry.has => entry.data = <<>>
      /\ \A p \in DOMAIN entry.data : entry.data[p][1] \in DOMAIN subs
  BY DEF SubscriberInv, SubscriberType, Known
<1>4. /\ entry' \in [has : BOOLEAN, data : Seq(SubEvents), error : Nat]
      /\ entry'.data = IF mode = "reset" THEN <<>> ELSE entry.data
      /\ ~entry'.has => entry'.data = <<>>
      /\ entry'.error \in {0, entry.error}
  BY <1>1, <1>3, EmptySeq DEF NoData
<1>5. subs'[i] = new /\ entry.error # i /\ i # 0
  BY <1>1, SubFacts DEF SubscriberInv, SubscriberType
<1>6. \A p \in DOMAIN entry.data : entry.data[p][1] # i
  BY <1>2, SubFacts DEF LatestOf
<1>7. \A j \in DOMAIN subs : LatestOf(entry.data, j, subs[j].taken)
  BY SubFacts
<1>8. LatestOf(<<>>, i, 0) /\ \A j \in DOMAIN subs : LatestOf(<<>>, j, subs[j].taken)
  BY DEF LatestOf
<1>9. Buffered(i)'
  <2>1. ~new.direct => new.mode = "replace" /\ entry'.data = entry.data
    BY <1>2, <1>4
  <2>2. LatestOf(new.buffer, i, new.taken)
    BY <1>2, <1>8
  <2> QED BY <1>2, <1>5, <1>6, <2>1, <2>2 DEF Buffered
<1>10. \A j \in DOMAIN subs : LatestOf(entry'.data, j, subs[j].taken)
  BY <1>4, <1>7, <1>8
<1>11. LatestOf(entry'.data, i, new.taken)
  BY <1>2, <1>10
<1>12. /\ \A p \in DOMAIN entry'.data : entry'.data[p][1] \in DOMAIN subs
       /\ \A j \in DOMAIN subs : (\A p \in DOMAIN entry.data : entry.data[p][1] # j) =>
                                   \A p \in DOMAIN entry'.data : entry'.data[p][1] # j
  BY <1>3, <1>4
<1>13. ASSUME Lone(i)
       PROVE  IF new.direct THEN entry'.data = Expected(i)'
              ELSE new.buffer = Cap(EventsTo(i, new.taken))
  <2>1. entry.data = subs[i].before
    BY <1>1, <1>13 DEF Lone
  <2>2. EventsTo(i, 0) = <<>> /\ Events(i)' = <<>>
    BY <1>2, <1>5, MoreEvents, SubFacts DEF Events, EventsTo
  <2>3. Cap(<<>>) = <<>>
    BY SubscriberAssumption DEF Cap
  <2>4. Expected(i)' = IF mode \in {"live", "append"} THEN subs[i].before ELSE <<>>
    BY <1>2, <1>5, <2>2, <2>3 DEF Expected, Modes
  <2> QED BY <1>2, <1>3, <1>4, <2>1, <2>2, <2>3, <2>4 DEF Modes
<1> QED BY <1>1, <1>2, <1>4, <1>5, <1>9, <1>10, <1>11, <1>12, <1>13, RunnerKeeps

LEMMA EndsKeeps ==
  ASSUME SubscriberInv, NEW i \in DOMAIN subs, Ends(i)
  PROVE  SubscriberInv'
<1> DEFINE new == [subs[i] EXCEPT !.phase = "ended"]
<1>1. /\ subs' = [subs EXCEPT ![i] = new] /\ Running(i) /\ subs[i].phase = "streaming"
      /\ entry' = IF subs[i].direct THEN entry
                  ELSE [has |-> TRUE, data |-> subs[i].buffer, error |-> 0]
  BY DEF Ends, Running, Put
<1>2. /\ new \in SubType /\ new.phase = "ended" /\ new.direct = subs[i].direct
      /\ new.taken = subs[i].taken /\ new.buffer = subs[i].buffer /\ new.mode = subs[i].mode
      /\ new.alone = subs[i].alone /\ new.before = subs[i].before
      /\ subs[i].buffer \in Seq(SubEvents)
  BY SubFacts DEF SubType
<1> HIDE DEF new
<1>3. /\ entry \in [has : BOOLEAN, data : Seq(SubEvents), error : Nat]
      /\ ~entry.has => entry.data = <<>>
      /\ \A p \in DOMAIN entry.data : entry.data[p][1] \in DOMAIN subs
  BY DEF SubscriberInv, SubscriberType, Known
<1>4. /\ entry' \in [has : BOOLEAN, data : Seq(SubEvents), error : Nat]
      /\ entry'.data = IF subs[i].direct THEN entry.data ELSE subs[i].buffer
      /\ ~entry'.has => entry'.data = <<>>
      /\ entry'.error \in {0, entry.error}
  BY <1>1, <1>2, <1>3
<1>5. subs'[i] = new /\ entry.error # i /\ i # 0
  BY <1>1, SubFacts DEF SubscriberInv, SubscriberType
<1>6. /\ Buffered(i) /\ \A j \in DOMAIN subs : LatestOf(entry.data, j, subs[j].taken)
  BY SubFacts
<1>7. ~subs[i].direct => \A j \in DOMAIN subs : LatestOf(subs[i].buffer, j, subs[j].taken)
  <2> SUFFICES ASSUME ~subs[i].direct, NEW j \in DOMAIN subs, j # i
               PROVE  LatestOf(subs[i].buffer, j, subs[j].taken)
    BY <1>6 DEF Buffered
  <2>1. \A p \in DOMAIN subs[i].buffer : subs[i].buffer[p][1] # j
    BY <1>6 DEF Buffered
  <2> QED BY <2>1 DEF LatestOf
<1>8. \A j \in DOMAIN subs : LatestOf(entry'.data, j, subs[j].taken)
  BY <1>4, <1>6, <1>7
<1>9. Buffered(i)'
  BY <1>1, <1>2, <1>5, <1>6 DEF Buffered
<1>10. /\ \A p \in DOMAIN entry'.data : entry'.data[p][1] \in DOMAIN subs
       /\ \A j \in DOMAIN subs : j # i /\ (\A p \in DOMAIN entry.data : entry.data[p][1] # j) =>
                                   \A p \in DOMAIN entry'.data : entry'.data[p][1] # j
  BY <1>3, <1>4, <1>6 DEF Buffered
<1>11. ASSUME Lone(i)
       PROVE  entry'.data = Expected(i)'
  <2>1. Events(i)' = Events(i) /\ Expected(i)' = Expected(i)
    BY <1>2, <1>5 DEF Events, Expected
  <2>2. CASE subs[i].direct
    BY <1>1, <1>4, <1>11, <2>1, <2>2 DEF Lone
  <2>3. CASE ~subs[i].direct
    <3>1. subs[i].mode = "replace" /\ subs[i].buffer = Cap(Events(i))
      BY <1>1, <1>6, <1>11, <2>3 DEF Lone, Buffered
    <3> QED BY <1>4, <2>1, <2>3, <3>1 DEF Expected
  <2> QED BY <2>2, <2>3
<1>12. LatestOf(entry'.data, i, new.taken)
  BY <1>2, <1>8
<1> QED BY <1>1, <1>2, <1>4, <1>5, <1>8, <1>9, <1>10, <1>11, <1>12, RunnerKeeps

\* What Cap leaves of s and one more event.
LEMMA CapAppend ==
  ASSUME NEW s \in Seq(SubEvents), NEW e \in SubEvents
  PROVE  /\ Cap(Append(s, e)) \in Seq(SubEvents)
         /\ \A p \in DOMAIN Cap(Append(s, e)) :
              \/ Cap(Append(s, e))[p] = e
              \/ \E q \in DOMAIN s : Cap(Append(s, e))[p] = s[q]
<1> DEFINE a == Append(s, e)
<1>1. /\ a \in Seq(SubEvents) /\ Len(s) \in Nat /\ Len(a) = Len(s) + 1 /\ DOMAIN s = 1 .. Len(s)
      /\ a[Len(s) + 1] = e /\ \A p \in 1 .. Len(s) : a[p] = s[p]
  BY AppendProperties
<1> HIDE DEF a
<1>2. Cap(a) \in Seq(SubEvents) /\ Len(Cap(a)) \in Nat
  BY <1>1, CapDrops
<1>3. PICK d \in Nat : /\ Len(a) = Len(Cap(a)) + d
                       /\ \A p \in 1 .. Len(Cap(a)) : Cap(a)[p] = a[p + d]
  BY <1>1, CapDrops
<1>4. ASSUME NEW p \in DOMAIN Cap(a)
      PROVE  Cap(a)[p] = e \/ \E q \in DOMAIN s : Cap(a)[p] = s[q]
  <2>1. p \in 1 .. Len(Cap(a)) /\ p + d \in 1 .. Len(s) + 1
    BY <1>1, <1>2, <1>3
  <2>2. CASE p + d = Len(s) + 1
    BY <1>1, <1>3, <2>1, <2>2
  <2>3. CASE p + d # Len(s) + 1
    <3>1. p + d \in 1 .. Len(s)
      BY <1>1, <2>1, <2>3
    <3> QED BY <1>1, <1>3, <2>1, <3>1
  <2> QED BY <2>2, <2>3
<1> QED BY <1>2, <1>4 DEF a

\* One more event of i, whatever i has taken before.
LEMMA NextEvent ==
  ASSUME NEW i \in Nat, NEW n \in Nat, NEW before \in Seq(SubEvents)
  PROVE  /\ Cap(Append(Cap(EventsTo(i, n)), <<i, n + 1>>)) = Cap(EventsTo(i, n + 1))
         /\ Cap(Append(Cap(before \o EventsTo(i, n)), <<i, n + 1>>))
              = Cap(before \o EventsTo(i, n + 1))
         /\ n = 0 => Cap(Append(before, <<i, n + 1>>)) = Cap(before \o EventsTo(i, n + 1))
<1> DEFINE e == <<i, n + 1>>
<1>1. /\ e \in SubEvents /\ EventsTo(i, n) \in Seq(SubEvents)
      /\ before \o EventsTo(i, n) \in Seq(SubEvents)
      /\ EventsTo(i, n + 1) = Append(EventsTo(i, n), e)
  <2>1. e \in SubEvents
    BY DEF SubEvents
  <2>2. EventsTo(i, n) \in Seq(SubEvents) /\ EventsTo(i, n + 1) = Append(EventsTo(i, n), e)
    BY MoreEvents
  <2> QED BY <2>1, <2>2, ConcatProperties
<1> HIDE DEF e
<1>2. Append(before \o EventsTo(i, n), e) = before \o Append(EventsTo(i, n), e)
  <2>1. <<e>> \in Seq(SubEvents)
    BY <1>1
  <2>2. Append(EventsTo(i, n), e) = EventsTo(i, n) \o <<e>>
    BY <1>1, AppendIsConcat
  <2>3. Append(before \o EventsTo(i, n), e) = (before \o EventsTo(i, n)) \o <<e>>
    BY <1>1, AppendIsConcat
  <2> QED BY <1>1, <2>1, <2>2, <2>3, ConcatAssociative
<1>3. n = 0 => before \o EventsTo(i, n) = before
  BY MoreEvents, ConcatEmptySeq
<1>4. /\ Cap(Append(Cap(EventsTo(i, n)), e)) = Cap(Append(EventsTo(i, n), e))
      /\ Cap(Append(Cap(before \o EventsTo(i, n)), e)) = Cap(Append(before \o EventsTo(i, n), e))
  BY <1>1, CapTwice
<1> QED BY <1>1, <1>2, <1>3, <1>4 DEF e

LEMMA ReceivedKeeps ==
  ASSUME SubscriberInv, NEW i \in DOMAIN subs, Received(i)
  PROVE  SubscriberInv'
<1> DEFINE n == subs[i].taken
           e == <<i, n + 1>>
           new == [subs[i] EXCEPT !.taken = n + 1]
           kept == [new EXCEPT !.buffer = Cap(Append(subs[i].buffer, e))]
           put(data) == [has |-> TRUE, data |-> data, error |-> 0]
<1>1. /\ subs[i] \in SubType /\ n \in Nat /\ i \in Nat /\ i # 0
      /\ entry.data \in Seq(SubEvents) /\ subs[i].buffer \in Seq(SubEvents)
      /\ subs[i].before \in Seq(SubEvents)
      /\ Buffered(i) /\ \A j \in DOMAIN subs : LatestOf(entry.data, j, subs[j].taken)
      /\ entry.error # i /\ Running(i) /\ subs[i].phase = "streaming"
  BY SubFacts DEF SubType, Received, Running
<1>2. /\ e \in SubEvents /\ e[1] = i /\ e[2] = n + 1
  BY <1>1 DEF SubEvents
<1>3. /\ new \in SubType /\ new.phase = "streaming" /\ new.direct = subs[i].direct
      /\ new.taken = n + 1 /\ new.buffer = subs[i].buffer /\ new.mode = subs[i].mode
      /\ new.alone = subs[i].alone /\ new.before = subs[i].before
  BY <1>1 DEF SubType
<1>4. /\ kept \in SubType /\ kept.phase = "streaming" /\ kept.direct = subs[i].direct
      /\ kept.taken = n + 1 /\ kept.buffer = Cap(Append(subs[i].buffer, e))
      /\ kept.mode = subs[i].mode /\ kept.alone = subs[i].alone
  <2> HIDE DEF new, e, n
  <2>1. Cap(Append(subs[i].buffer, e)) \in Seq(SubEvents)
    BY <1>1, <1>2, CapAppend
  <2> QED BY <1>3, <2>1 DEF SubType
<1>5. \/ /\ subs[i].mode = "live" /\ entry' = put(<<e>>) /\ subs' = [subs EXCEPT ![i] = new]
      \/ /\ subs[i].mode # "live" /\ subs[i].direct
         /\ entry' = put(Cap(Append(entry.data, e))) /\ subs' = [subs EXCEPT ![i] = new]
      \/ /\ subs[i].mode # "live" /\ ~subs[i].direct
         /\ entry' = entry /\ subs' = [subs EXCEPT ![i] = kept]
  BY <1>1, <1>3 DEF Received, Put
<1>6. /\ entry \in [has : BOOLEAN, data : Seq(SubEvents), error : Nat]
      /\ ~entry.has => entry.data = <<>>
      /\ \A p \in DOMAIN entry.data : entry.data[p][1] \in DOMAIN subs
      /\ subs \in Seq(SubType)
  BY DEF SubscriberInv, SubscriberType, Known
<1> HIDE DEF e, n, new, kept
<1>7. CASE subs[i].mode = "live"
  <2>1. entry' = put(<<e>>) /\ subs' = [subs EXCEPT ![i] = new]
    BY <1>5, <1>7
  <2>2. /\ entry' \in [has : BOOLEAN, data : Seq(SubEvents), error : Nat]
        /\ entry'.data = <<e>> /\ entry'.has /\ entry'.error = 0
    BY <1>2, <2>1
  <2>3. subs'[i] = new /\ subs[i].direct
    BY <1>1, <1>6, <1>7, <2>1 DEF Buffered
  <2>4. \A p \in DOMAIN <<e>> : <<e>>[p] = e /\ p = 1
    OBVIOUS
  <2>5. LatestOf(<<e>>, i, n + 1)
    BY <1>1, <1>2, <2>4 DEF LatestOf
  <2>6. \A j \in DOMAIN subs : j # i => LatestOf(<<e>>, j, subs[j].taken)
    BY <1>2, <2>4 DEF LatestOf
  <2>7. Buffered(i)'
    BY <1>3, <2>3 DEF Buffered
  <2>8. entry'.data = Expected(i)'
    <3>1. Events(i)' = EventsTo(i, n + 1)
      BY <1>3, <2>3 DEF Events, EventsTo
    <3>2. n + 1 \in Nat /\ n + 1 # 0
      BY <1>1
    <3>3. Last(EventsTo(i, n + 1)) = e
      BY <1>1, <3>2, MoreEvents DEF e
    <3> QED BY <1>3, <1>7, <2>2, <2>3, <3>1, <3>2, <3>3 DEF Expected
  <2>9. /\ \A p \in DOMAIN entry'.data : entry'.data[p][1] \in DOMAIN subs
        /\ \A j \in DOMAIN subs : j # i => \A p \in DOMAIN entry'.data : entry'.data[p][1] # j
    BY <1>2, <2>2, <2>4
  <2> QED BY <1>1, <1>3, <2>1, <2>2, <2>3, <2>5, <2>6, <2>7, <2>8, <2>9, RunnerKeeps
<1>8. CASE subs[i].mode # "live" /\ subs[i].direct
  <2> DEFINE c == Cap(Append(entry.data, e))
  <2>1. entry' = put(c) /\ subs' = [subs EXCEPT ![i] = new]
    BY <1>5, <1>8
  <2>2. /\ c \in Seq(SubEvents)
        /\ \A p \in DOMAIN c : c[p] = e \/ \E q \in DOMAIN entry.data : c[p] = entry.data[q]
    BY <1>1, <1>2, CapAppend
  <2>3. LatestOf(c, i, n + 1)
    <3>1. LatestOf(entry.data, i, n)
      BY <1>1 DEF n
    <3>2. LatestOf(Append(entry.data, e), i, n + 1)
      BY <1>1, <3>1, AppendLatest DEF e
    <3>3. Append(entry.data, e) \in Seq(SubEvents) /\ n + 1 \in Nat
      BY <1>1, <1>2, AppendProperties
    <3> QED BY <1>1, <3>2, <3>3, CapKeepsLatest
  <2>4. ASSUME NEW j \in DOMAIN subs, j # i
        PROVE  LatestOf(c, j, subs[j].taken)
    <3>1. j \in Nat /\ subs[j].taken \in Nat
      BY SubFacts DEF SubType
    <3>3. Append(entry.data, e) \in Seq(SubEvents)
      BY <1>1, <1>2, AppendProperties
    <3>2. LatestOf(Append(entry.data, e), j, subs[j].taken)
      BY <1>1, <1>2, <2>4, <3>1, AppendOther
    <3> QED BY <3>1, <3>2, <3>3, CapKeepsLatest
  <2>5. ASSUME Lone(i)
        PROVE  c = Expected(i)'
    <3>1. entry.data = Expected(i)
      BY <1>1, <1>8, <2>5 DEF Lone
    <3>2. Events(i) = EventsTo(i, n)
      BY DEF Events, EventsTo, n
    <3>3. subs'[i] = new
      BY <1>6, <2>1
    <3>4. Events(i)' = EventsTo(i, n + 1)
      BY <1>3, <3>3 DEF Events, EventsTo
    <3>5. CASE subs[i].mode = "append"
      <4>1. Expected(i)' = Cap(subs[i].before \o EventsTo(i, n + 1))
        BY <1>1, <1>3, <3>3, <3>4, <3>5 DEF Expected
      <4>2. entry.data = IF n = 0 THEN subs[i].before
                         ELSE Cap(subs[i].before \o EventsTo(i, n))
        BY <3>1, <3>2, <3>5 DEF Expected, n
      <4> QED BY <1>1, <4>1, <4>2, NextEvent DEF e
    <3>6. CASE subs[i].mode # "append"
      <4>1. Expected(i)' = Cap(EventsTo(i, n + 1)) /\ entry.data = Cap(EventsTo(i, n))
        BY <1>3, <1>8, <3>1, <3>2, <3>3, <3>4, <3>6 DEF Expected
      <4> QED BY <1>1, <4>1, NextEvent DEF e
    <3> QED BY <3>5, <3>6
  <2> HIDE DEF c
  <2>6. /\ entry' \in [has : BOOLEAN, data : Seq(SubEvents), error : Nat]
        /\ entry'.data = c /\ entry'.has /\ entry'.error = 0
    BY <2>1, <2>2
  <2>7. subs'[i] = new
    BY <1>6, <2>1
  <2>8. Buffered(i)'
    BY <1>3, <1>8, <2>7 DEF Buffered
  <2>9. /\ \A p \in DOMAIN c : c[p][1] \in DOMAIN subs
        /\ \A j \in DOMAIN subs : j # i /\ (\A p \in DOMAIN entry.data : entry.data[p][1] # j)
                                    => \A p \in DOMAIN c : c[p][1] # j
    BY <1>2, <1>6, <2>2
  <2> QED BY <1>1, <1>3, <1>8, <2>1, <2>3, <2>4, <2>5, <2>6, <2>8, <2>9, RunnerKeeps
<1>9. CASE subs[i].mode # "live" /\ ~subs[i].direct
  <2> DEFINE b == subs[i].buffer
             c == Cap(Append(b, e))
  <2>1. entry' = entry /\ subs' = [subs EXCEPT ![i] = kept] /\ subs'[i] = kept
    BY <1>5, <1>6, <1>9
  <2>2. /\ subs[i].mode = "replace" /\ LatestOf(b, i, n)
        /\ \A p \in DOMAIN b : b[p][1] = i
        /\ \A p \in DOMAIN entry.data : entry.data[p][1] # i
    BY <1>1, <1>9 DEF Buffered, n
  <2>3. LatestOf(c, i, n + 1)
    <3>1. LatestOf(Append(b, e), i, n + 1)
      BY <1>1, <2>2, AppendLatest DEF e
    <3>2. Append(b, e) \in Seq(SubEvents) /\ n + 1 \in Nat
      BY <1>1, <1>2, AppendProperties
    <3> QED BY <1>1, <3>1, <3>2, CapKeepsLatest
  <2>4. \A p \in DOMAIN c : c[p][1] = i
    <3>1. \A p \in DOMAIN c : c[p] = e \/ \E q \in DOMAIN b : c[p] = b[q]
      BY <1>1, <1>2, CapAppend
    <3> HIDE DEF c, b
    <3> QED BY <1>2, <2>2, <3>1
  <2>5. ASSUME Lone(i)
        PROVE  c = Cap(EventsTo(i, n + 1))
    <3>1. b = Cap(EventsTo(i, n))
      BY <1>1, <1>9, <2>5 DEF Lone, Events, EventsTo, n
    <3> QED BY <1>1, <3>1, NextEvent DEF e
  <2> HIDE DEF c
  <2>6. kept.buffer = c
    BY <1>4 DEF c
  <2>7. Buffered(i)'
    BY <1>4, <2>1, <2>2, <2>3, <2>4, <2>6 DEF Buffered
  <2>8. LatestOf(entry.data, i, n + 1)
    BY <2>2 DEF LatestOf
  <2> QED BY <1>1, <1>4, <1>6, <1>9, <2>1, <2>5, <2>6, <2>7, <2>8, RunnerKeeps
<1> QED BY <1>5, <1>7, <1>8, <1>9

\* Whatever the iterations of the earlier subscriptions do, the events of a
\* subscription stay in order in the entry, and one that is alone leaves what
\* its mode says (swr/src/subscriber.ts), for every cap and any number of events.
THEOREM SubscriptionTheorem == SubscriberSpec => []SubscriptionData
<1>1. SubscriberInit => SubscriberInv
  BY DEF SubscriberInit, SubscriberInv, SubscriberType, Known, NoData
<1>2. SubscriberInv /\ [SubscriberNext]_subscriberVars => SubscriberInv'
  <2> SUFFICES ASSUME SubscriberInv, [SubscriberNext]_subscriberVars
               PROVE  SubscriberInv'
    OBVIOUS
  <2>1. CASE UNCHANGED subscriberVars
    BY <2>1 DEF SubscriberInv, subscriberVars, SubscriberType, Known, Buffered, Lone,
       Running, Expected, Events
  <2>2. CASE SubscriberNext
    BY <2>2, SubscribeKeeps, UnsubscribeKeeps, ResolvesKeeps, FailsKeeps, ReceivedKeeps,
       EndsKeeps DEF SubscriberNext
  <2> QED BY <2>1, <2>2
<1>3. SubscriberInv => SubscriptionData
  <2> SUFFICES ASSUME SubscriberInv, NEW i \in DOMAIN subs
               PROVE  /\ LatestOf(entry.data, i, subs[i].taken)
                      /\ i = Len(subs) /\ subs[i].alone /\ subs[i].phase = "ended" =>
                           entry.data = Expected(i)
                      /\ entry.error = i => subs[i].phase = "failed"
    BY DEF SubscriptionData
  <2> QED BY SubFacts DEF Lone
<1> QED BY <1>1, <1>2, <1>3, PTL DEF SubscriberSpec

-----------------------------------------------------------------------------
(***************************************************************************)
(* ItemStream: what the reader gets.  A text is described token by token:  *)
(* a label says of which item, comment or last event a token is, on which  *)
(* of its lines and where on that line.  A path is a labelling of a text   *)
(* in which each label follows the one before, so a path says what a text  *)
(* means wherever it is cut; its first label is where the reader is.       *)
(***************************************************************************)
Chars == STRING \cup {"nl", "cr", ":", "event:", "data:", "{", "}", "!", "message",
                      "error", "close", "INTERNAL", "VALIDATION", "BAD_REQUEST"}

Formats == [framing : {"jsonl", "sse"}, newline : {<<"nl">>, <<"cr", "nl">>}]

Failures == {"threw", "returned", "left", "unwritten"}
Terminals == Failures \cup {"close"}
CodeOf(kind) ==
  CASE kind \in {"threw", "unwritten"} -> "INTERNAL" [] kind = "returned" -> "VALIDATION"
    [] OTHER -> "BAD_REQUEST"
TypeOf(kind) == CASE kind = "item" -> "message" [] kind = "close" -> "close"
                  [] OTHER -> "error"

\* n: of an item its number, else the items before.
Labels ==
  {l \in [kind : {"comment", "item"} \cup Terminals, n : 0 .. Len(Items),
          line : 1 .. 3, at : Nat] : l.kind = "item" => l.n # 0}

TokenAt(l, k) == [l EXCEPT !.at = k]

Body(l) == IF l.kind = "item" THEN ItemLine(Items[l.n]) ELSE FailureLine(CodeOf(l.kind))

LastLine(f, l) ==
  IF f.framing = "jsonl" THEN 1 ELSE IF l.kind \in {"comment", "close"} THEN 2 ELSE 3

\* The line of a label without its newline.
LineText(f, l) ==
  IF f.framing = "jsonl" THEN Body(l)
  ELSE IF l.line >= LastLine(f, l) THEN <<>>
  ELSE IF l.line = 2 THEN <<"data:">> \o Body(l)
  ELSE IF l.kind = "comment" THEN <<":">> ELSE <<"event:", TypeOf(l.kind)>>

LineLength(f, l) == Len(LineText(f, l)) + Len(f.newline)
AtEnd(f, l) == l.at = LineLength(f, l)
Token(f, l) == IF l.at <= Len(LineText(f, l)) THEN LineText(f, l)[l.at]
               ELSE f.newline[l.at - Len(LineText(f, l))]

\* The first label of a line after a line that ends with a.
NewLine(f, a, b) ==
  /\ b.at = 1
  /\ IF a.line < LastLine(f, a)
     THEN b.kind = a.kind /\ b.n = a.n /\ b.line = a.line + 1
     ELSE /\ a.kind \notin Terminals /\ b.line = 1
          /\ \/ b.kind = "comment" /\ b.n = a.n /\ f.framing = "sse"
             \/ b.kind = "item" /\ b.n = a.n + 1
             \/ b.kind \in Failures /\ b.n = a.n
             \/ b.kind = "close" /\ b.n = a.n /\ f.framing = "sse"

Follows(f, a, b) ==
  IF AtEnd(f, a) THEN NewLine(f, a, b)
  ELSE a.at < LineLength(f, a) /\ b = TokenAt(a, a.at + 1)

IsPath(f, lab, text) ==
  /\ \A i \in 0 .. Len(text) : lab[i] \in Labels
  /\ \A i \in 1 .. Len(text) :
       Follows(f, lab[i - 1], lab[i]) /\ text[i] = Token(f, lab[i])

\* The tokens d + 1 to j of a path are the beginning of one line.
InLine(f, lab, d, j) ==
  /\ d \in 0 .. j /\ AtEnd(f, lab[d])
  /\ \A i \in d + 1 .. j : lab[i] = TokenAt(lab[j], i - d)
  /\ d < j => j - d < LineLength(f, lab[j]) /\ NewLine(f, lab[d], lab[d + 1])

-----------------------------------------------------------------------------
Less == {ss \in Nat \X Nat : ss[1] < ss[2]}

LEMMA LessWellFounded == IsWellFoundedOn(Less, Nat)
BY NatLessThanWellFounded DEF OpToRel, Less

\* Induction over the naturals, as a fact about a set of them.
LEMMA SetInduction ==
  ASSUME NEW T \in SUBSET Nat, 0 \in T, \A n \in T : n + 1 \in T
  PROVE  T = Nat
<1>1. SUFFICES ASSUME Nat \ T # {} PROVE FALSE
  OBVIOUS
<1>2. PICK n \in Nat \ T : \A m \in Nat \ T : ~(<<m, n>> \in Less)
  <2>1. Nat \ T \in SUBSET Nat
    OBVIOUS
  <2> QED BY <1>1, <2>1, LessWellFounded, WFMin
<1>3. n # 0 /\ n - 1 \in Nat /\ n - 1 < n
  BY <1>2
<1>4. n - 1 \in T
  BY <1>2, <1>3 DEF Less
<1> QED BY <1>2, <1>3, <1>4

\* Texts of one to three tokens.
LEMMA ShortTexts ==
  ASSUME NEW S, NEW x \in S, NEW y \in S, NEW z \in S
  PROVE  /\ <<x>> \in Seq(S) /\ Len(<<x>>) = 1 /\ <<x>>[1] = x
         /\ <<x, y>> \in Seq(S) /\ Len(<<x, y>>) = 2 /\ <<x, y>>[1] = x /\ <<x, y>>[2] = y
         /\ <<x, y, z>> \in Seq(S) /\ Len(<<x, y, z>>) = 3
         /\ <<x, y, z>>[1] = x /\ <<x, y, z>>[2] = y /\ <<x, y, z>>[3] = z
OBVIOUS

LEMMA CharFacts ==
  /\ {"nl", "cr", ":", "event:", "data:", "{", "}", "!", "message", "error", "close",
      "INTERNAL", "VALIDATION", "BAD_REQUEST"} \subseteq Chars
  /\ \A s \in STRING : s \in Chars
BY DEF Chars

\* No line has a line end in it, nor what trim() takes away.
LEMMA ItemIsPlain ==
  ASSUME NEW l \in Labels
  PROVE  /\ Body(l) \in Seq(Chars) /\ Len(Body(l)) \in {2, 3}
         /\ Body(l)[1] \in {"{", "!"}
         /\ \A i \in 1 .. Len(Body(l)) : Body(l)[i] \notin {"nl", "cr", " "}
<1>1. CASE l.kind = "item"
  <2>1. l.n \in 1 .. Len(Items)
    <3>1. l.n \in 0 .. Len(Items) /\ l.n # 0
      BY <1>1 DEF Labels
    <3>2. Len(Items) \in Nat
      BY StreamAssumption, LenProperties
    <3> QED BY <3>1, <3>2
  <2>2. Items[l.n] \in STRING \ {"nl", "cr", " "}
    BY <2>1, StreamAssumption, ElementOfSeq
  <2>3. PICK x : x = Items[l.n] /\ x \in Chars /\ x \notin {"nl", "cr", " "}
    BY <2>2, CharFacts
  <2>4. Body(l) = <<"{", x, "}">>
    BY <1>1, <2>3 DEF Body, ItemLine
  <2>5. "{" \in Chars /\ "}" \in Chars
    BY CharFacts
  <2>6. /\ <<"{", x, "}">> \in Seq(Chars) /\ Len(<<"{", x, "}">>) = 3
        /\ <<"{", x, "}">>[1] = "{" /\ <<"{", x, "}">>[2] = x /\ <<"{", x, "}">>[3] = "}"
    BY <2>3, <2>5, ShortTexts
  <2>7. \A i \in 1 .. 3 : i = 1 \/ i = 2 \/ i = 3
    OBVIOUS
  <2> QED BY <2>3, <2>4, <2>6, <2>7
<1>2. CASE l.kind # "item"
  <2>1. Body(l) = <<"!", CodeOf(l.kind)>>
    BY <1>2 DEF Body, FailureLine
  <2>2. CodeOf(l.kind) \in {"INTERNAL", "VALIDATION", "BAD_REQUEST"}
    BY DEF CodeOf
  <2>3. PICK x : x = CodeOf(l.kind) /\ x \in Chars /\ x \notin {"nl", "cr", " "}
    BY <2>2, CharFacts
  <2>4. "!" \in Chars
    BY CharFacts
  <2>5. /\ <<"!", x>> \in Seq(Chars) /\ Len(<<"!", x>>) = 2
        /\ <<"!", x>>[1] = "!" /\ <<"!", x>>[2] = x
    BY <2>3, <2>4, ShortTexts
  <2>6. \A i \in 1 .. 2 : i = 1 \/ i = 2
    OBVIOUS
  <2> QED BY <2>1, <2>3, <2>5, <2>6
<1> QED BY <1>1, <1>2

LEMMA LineIsPlain ==
  ASSUME NEW f \in Formats, NEW l \in Labels
  PROVE  /\ LineText(f, l) \in Seq(Chars) /\ Len(LineText(f, l)) \in 0 .. 4
         /\ f.framing = "jsonl" => LineText(f, l) = Body(l)
         /\ \A i \in 1 .. Len(LineText(f, l)) : LineText(f, l)[i] \notin {"nl", "cr", " "}
<1> DEFINE t == LineText(f, l)
           plain == /\ t \in Seq(Chars) /\ Len(t) \in 0 .. 4
                    /\ \A i \in 1 .. Len(t) : t[i] \notin {"nl", "cr", " "}
<1>1. ASSUME t = Body(l) PROVE plain
  <2> HIDE DEF t
  <2>1. PICK n \in {2, 3} : n = Len(Body(l))
    BY ItemIsPlain
  <2>2. n \in 0 .. 4
    OBVIOUS
  <2> QED BY <1>1, <2>1, <2>2, ItemIsPlain
<1>2. ASSUME t = <<>> PROVE plain
  <2> HIDE DEF t
  <2>1. Len(t) = 0 /\ t \in Seq(Chars)
    BY <1>2
  <2>2. 0 \in 0 .. 4 /\ \A i \in 1 .. 0 : FALSE
    OBVIOUS
  <2> QED BY <2>1, <2>2
<1>3. ASSUME t = <<"data:">> \o Body(l) PROVE plain
  <2>1. Body(l) \in Seq(Chars) /\ <<"data:">> \in Seq(Chars) /\ Len(<<"data:">>) = 1
        /\ <<"data:">>[1] = "data:"
    BY ItemIsPlain, ShortTexts, CharFacts
  <2>2. PICK n \in {2, 3} : n = Len(Body(l))
    BY ItemIsPlain
  <2> HIDE DEF t
  <2>3. t \in Seq(Chars) /\ Len(t) = 1 + n
        /\ \A i \in 1 .. 1 + n : t[i] = IF i <= 1 THEN <<"data:">>[i] ELSE Body(l)[i - 1]
    BY <1>3, <2>1, <2>2, ConcatProperties
  <2>4. \A i \in 1 .. 1 + n : i = 1 \/ (~(i <= 1) /\ i - 1 \in 1 .. n)
    BY <2>2
  <2>5. \A i \in 1 .. n : Body(l)[i] \notin {"nl", "cr", " "}
    BY <2>2, ItemIsPlain
  <2>6. \A i \in 1 .. 1 + n : t[i] \notin {"nl", "cr", " "}
    <3> SUFFICES ASSUME NEW i \in 1 .. 1 + n PROVE t[i] \notin {"nl", "cr", " "}
      OBVIOUS
    <3>1. CASE i = 1
      <4>1. t[i] = <<"data:">>[1]
        BY <2>3, <3>1
      <4> QED BY <4>1
    <3>2. CASE ~(i <= 1) /\ i - 1 \in 1 .. n
      BY <2>3, <2>5, <3>2
    <3> QED BY <2>4, <3>1, <3>2
  <2>7. 1 + n \in 0 .. 4
    BY <2>2
  <2> QED BY <2>3, <2>6, <2>7
<1>4. ASSUME t = <<":">> PROVE plain
  <2> HIDE DEF t
  <2>1. t \in Seq(Chars) /\ Len(t) = 1 /\ t[1] = ":"
    BY <1>4, ShortTexts, CharFacts
  <2>2. 1 \in 0 .. 4 /\ \A i \in 1 .. 1 : i = 1
    OBVIOUS
  <2> QED BY <2>1, <2>2
<1>5. ASSUME t = <<"event:", TypeOf(l.kind)>> PROVE plain
  <2>1. TypeOf(l.kind) \in {"message", "error", "close"}
    BY DEF TypeOf
  <2>2. PICK x : x = TypeOf(l.kind) /\ x \in Chars /\ x \notin {"nl", "cr", " "}
    BY <2>1, CharFacts
  <2> HIDE DEF t
  <2>3. t \in Seq(Chars) /\ Len(t) = 2 /\ t[1] = "event:" /\ t[2] = x
    BY <1>5, <2>2, ShortTexts, CharFacts
  <2>4. 2 \in 0 .. 4 /\ \A i \in 1 .. 2 : i = 1 \/ i = 2
    OBVIOUS
  <2> QED BY <2>2, <2>3, <2>4
<1>6. f.framing = "jsonl" => t = Body(l)
  BY DEF LineText
<1>7. \/ t = Body(l) \/ t = <<>> \/ t = <<"data:">> \o Body(l) \/ t = <<":">>
      \/ t = <<"event:", TypeOf(l.kind)>>
  BY DEF LineText
<1>8. plain
  BY <1>1, <1>2, <1>3, <1>4, <1>5, <1>7
<1> QED BY <1>6, <1>8

\* How a line ends.
LEMMA NewlineFacts ==
  ASSUME NEW f \in Formats
  PROVE  \/ f.newline = <<"nl">> /\ Len(f.newline) = 1 /\ f.newline[1] = "nl"
         \/ /\ f.newline = <<"cr", "nl">> /\ Len(f.newline) = 2
            /\ f.newline[1] = "cr" /\ f.newline[2] = "nl"
BY DEF Formats

\* The last token of a line is "nl", and a "cr" is the one before.
LEMMA TokenOfLine ==
  ASSUME NEW f \in Formats, NEW l \in Labels, l.at # 0, l.at <= LineLength(f, l)
  PROVE  /\ LineLength(f, l) \in 1 .. 6
         /\ Token(f, l) \in Chars
         /\ AtEnd(f, l) <=> Token(f, l) = "nl"
         /\ Token(f, l) = "cr" <=>
              f.newline = <<"cr", "nl">> /\ l.at + 1 = LineLength(f, l)
         /\ Token(f, l) = "cr" <=>
              f.newline = <<"cr", "nl">> /\ l.at = Len(LineText(f, l)) + 1
         /\ l.at <= Len(LineText(f, l)) => Token(f, l) = LineText(f, l)[l.at]
<1>1. PICK k \in 0 .. 4 : k = Len(LineText(f, l))
  BY LineIsPlain
<1>2. PICK pos \in Nat \ {0} : pos = l.at
  BY DEF Labels
<1>3. PICK w \in {1, 2} : w = Len(f.newline) /\ LineLength(f, l) = k + w /\ pos <= k + w
  BY <1>1, <1>2, NewlineFacts DEF LineLength
<1>11. pos <= k + w /\ (w = 1 \/ w = 2)
  BY <1>3
<1>4. PICK t : t = Token(f, l) /\ t = IF pos <= k THEN LineText(f, l)[pos] ELSE f.newline[pos - k]
  BY <1>1, <1>2 DEF Token
<1>5. f.newline = <<"cr", "nl">> <=> w = 2
  BY <1>3, NewlineFacts
<1>6. AtEnd(f, l) <=> pos = k + w
  BY <1>2, <1>3 DEF AtEnd
<1>7. CASE pos <= k
  <2>1. pos \in 1 .. k
    BY <1>7
  <2>2. t = LineText(f, l)[pos] /\ t \notin {"nl", "cr", " "}
    BY <1>1, <1>4, <1>7, <2>1, LineIsPlain
  <2>3. t \in Chars
    <3>1. LineText(f, l) \in Seq(Chars) /\ pos \in 1 .. Len(LineText(f, l))
      BY <1>1, <2>1, LineIsPlain
    <3>2. LineText(f, l)[pos] \in Chars
      BY <3>1, ElementOfSeq
    <3> QED BY <2>2, <3>2
  <2>4. pos # k + w /\ pos # k + 1 /\ pos + 1 # k + 2
    BY <1>7
  <2>5. w = 1 \/ w = 2
    OBVIOUS
  <2>6. k + w \in 1 .. 6
    OBVIOUS
  <2> QED BY <1>1, <1>2, <1>3, <1>4, <1>5, <1>6, <1>7, <2>2, <2>3, <2>4, <2>5, <2>6
<1>8. CASE pos = k + 1
  <2>1. pos - k = 1 /\ ~(pos <= k) /\ k + w \in 1 .. 6
    BY <1>8
  <2>2. t = f.newline[1]
    BY <1>4, <2>1
  <2>3. pos = k + w <=> w = 1
    BY <1>8
  <2>4. pos + 1 = k + w <=> w = 2
    BY <1>8
  <2>5. t = IF w = 1 THEN "nl" ELSE "cr"
    BY <2>2, <1>3, NewlineFacts
  <2>6. t \in Chars /\ (t = "nl" <=> w = 1) /\ (t = "cr" <=> w = 2)
    <3>1. w = 1 \/ w = 2
      OBVIOUS
    <3>2. t \in {"nl", "cr"} /\ (w = 1 => t = "nl") /\ (w # 1 => t = "cr")
      BY <2>5
    <3>3. t \in Chars
      BY <3>2, CharFacts
    <3> QED BY <3>1, <3>2, <3>3
  <2> QED BY <1>1, <1>2, <1>3, <1>4, <1>5, <1>6, <1>8, <2>1, <2>3, <2>4, <2>6
<1>9. CASE pos = k + 2
  <2>1. pos - k = 2 /\ ~(pos <= k) /\ k + w \in 1 .. 6 /\ pos # k + 1
    BY <1>9
  <2>2. w = 2
    BY <1>9, <1>11
  <2>3. t = "nl"
    BY <1>3, <1>4, <2>1, <2>2, NewlineFacts
  <2>4. pos = k + w /\ pos + 1 # k + w
    BY <1>9, <2>2
  <2> QED BY <1>1, <1>2, <1>3, <1>4, <1>5, <1>6, <2>1, <2>2, <2>3, <2>4, CharFacts
<1>10. pos <= k \/ pos = k + 1 \/ pos = k + 2
  BY <1>11
<1> QED BY <1>7, <1>8, <1>9, <1>10

-----------------------------------------------------------------------------
(* Paths *)

\* The size of a line, and where it starts.
LEMMA LabelSize ==
  ASSUME NEW f \in Formats, NEW l \in Labels
  PROVE  LineLength(f, l) \in 1 .. 6 /\ l.at \in Nat /\ DOMAIN l = {"kind", "n", "line", "at"}
<1>1. PICK k \in 0 .. 4 : k = Len(LineText(f, l))
  BY LineIsPlain
<1>2. PICK w \in {1, 2} : w = Len(f.newline)
  BY NewlineFacts
<1>3. k + w \in 1 .. 6
  OBVIOUS
<1> QED BY <1>1, <1>2, <1>3 DEF LineLength, Labels

\* Where a token is on its line says nothing of the line.
LEMMA SameLine ==
  ASSUME NEW f \in Formats, NEW l \in Labels, NEW k \in Nat, NEW m, m = TokenAt(l, k)
  PROVE  /\ m \in Labels /\ m.at = k
         /\ m.kind = l.kind /\ m.n = l.n /\ m.line = l.line
         /\ LineText(f, m) = LineText(f, l) /\ LineLength(f, m) = LineLength(f, l)
<1>1. m \in Labels /\ m.kind = l.kind /\ m.n = l.n /\ m.line = l.line /\ m.at = k
  BY DEF Labels, TokenAt
<1>2. LineText(f, m) = LineText(f, l)
  BY <1>1 DEF LineText, Body, LastLine
<1> QED BY <1>1, <1>2 DEF LineLength

LEMMA SameTokens ==
  ASSUME NEW l \in Labels, NEW k
  PROVE  \A i : TokenAt(TokenAt(l, k), i) = TokenAt(l, i)
BY DEF Labels, TokenAt

LEMMA InLineStarts ==
  ASSUME NEW f, NEW lab, NEW j \in Nat, AtEnd(f, lab[j])
  PROVE  InLine(f, lab, j, j)
BY DEF InLine

\* One token more is on the same line, or ends it.
LEMMA InLineGrows ==
  ASSUME NEW f \in Formats, NEW lab, NEW text \in Seq(Chars), IsPath(f, lab, text),
         NEW j \in Nat, j < Len(text), NEW d, InLine(f, lab, d, j)
  PROVE  /\ d \in Nat /\ d <= j /\ lab[j + 1] \in Labels
         /\ text[j + 1] = Token(f, lab[j + 1])
         /\ lab[j + 1].at = (j + 1) - d /\ (j + 1) - d <= LineLength(f, lab[j + 1])
         /\ \A i \in d + 1 .. j + 1 : lab[i] = TokenAt(lab[j + 1], i - d)
         /\ NewLine(f, lab[d], lab[d + 1])
         /\ NewLine(f, lab[d], TokenAt(lab[j + 1], 1))
         /\ ~AtEnd(f, lab[j + 1]) => InLine(f, lab, d, j + 1)
         /\ AtEnd(f, lab[j + 1]) => (j + 1) - d = LineLength(f, lab[j + 1])
<1>0. PICK n \in Nat : n = Len(text) /\ j < n
  BY LenProperties
<1>1. d \in Nat /\ d <= j
  BY DEF InLine
<1>2. j + 1 \in 1 .. n /\ (j + 1) - 1 = j /\ j \in 0 .. n /\ j + 1 \in 0 .. n /\ d \in 0 .. n
      /\ d + 1 \in 1 .. n /\ d + 1 \in 0 .. n
  BY <1>0, <1>1
<1>3. /\ lab[j] \in Labels /\ lab[j + 1] \in Labels /\ lab[d] \in Labels
      /\ Follows(f, lab[j], lab[j + 1]) /\ text[j + 1] = Token(f, lab[j + 1])
  BY <1>0, <1>2 DEF IsPath
<1> DEFINE b == lab[j + 1]
<1>4. CASE d = j
  <2>1. NewLine(f, lab[d], b) /\ b.at = 1
    BY <1>3, <1>4 DEF InLine, Follows, NewLine
  <2>2. (j + 1) - d = 1 /\ \A i \in d + 1 .. j + 1 : i = j + 1 /\ i - d = 1
    BY <1>1, <1>4
  <2>3. TokenAt(b, 1) = b
    BY <1>3, <2>1 DEF Labels, TokenAt
  <2>4. \A i \in d + 1 .. j + 1 : lab[i] = TokenAt(b, i - d)
    BY <2>2, <2>3
  <2>5. 1 <= LineLength(f, b) /\ LineLength(f, b) \in Nat
    BY <1>3, LabelSize
  <2>6. ~AtEnd(f, b) => 1 < LineLength(f, b)
    BY <2>1, <2>5 DEF AtEnd
  <2>7. d \in 0 .. j + 1 /\ AtEnd(f, lab[d]) /\ d + 1 = j + 1
    BY <1>1, <1>4 DEF InLine
  <2>8. ~AtEnd(f, b) => InLine(f, lab, d, j + 1)
    BY <2>1, <2>2, <2>4, <2>6, <2>7 DEF InLine
  <2>9. AtEnd(f, b) => (j + 1) - d = LineLength(f, b)
    BY <2>1, <2>2 DEF AtEnd
  <2> QED BY <1>1, <1>3, <2>1, <2>2, <2>3, <2>4, <2>5, <2>7, <2>8, <2>9
<1>5. CASE d # j
  <2>1. /\ lab[j] = TokenAt(lab[j], j - d) /\ j - d < LineLength(f, lab[j])
        /\ NewLine(f, lab[d], lab[d + 1]) /\ lab[d + 1] = TokenAt(lab[j], (d + 1) - d)
        /\ \A i \in d + 1 .. j : lab[i] = TokenAt(lab[j], i - d)
    <3>1. d < j /\ j \in d + 1 .. j /\ d + 1 \in d + 1 .. j
      BY <1>1, <1>5
    <3> QED BY <3>1 DEF InLine
  <2>2. lab[j].at = j - d
    BY <1>3, <2>1 DEF Labels, TokenAt
  <2>3. ~AtEnd(f, lab[j])
    <3>1. LineLength(f, lab[j]) \in Nat
      BY <1>3, LabelSize
    <3> QED BY <1>1, <2>1, <2>2, <3>1 DEF AtEnd
  <2>4. b = TokenAt(lab[j], lab[j].at + 1)
    BY <1>3, <2>3 DEF Follows
  <2>5. PICK a : a = lab[j] /\ a \in Labels
    BY <1>3
  <2>6. (j - d) + 1 = (j + 1) - d /\ (j + 1) - d \in Nat /\ (d + 1) - d = 1
    BY <1>1
  <2>7. b = TokenAt(a, (j + 1) - d)
    BY <2>2, <2>4, <2>5, <2>6
  <2> HIDE DEF b
  <2>8. /\ b.at = (j + 1) - d /\ LineLength(f, b) = LineLength(f, a)
        /\ \A i : TokenAt(b, i) = TokenAt(a, i)
    <3>1. PICK k \in Nat : k = (j + 1) - d
      BY <2>6
    <3>2. b = TokenAt(a, k)
      BY <2>7, <3>1
    <3>3. b.at = k /\ LineLength(f, b) = LineLength(f, a)
      BY <2>5, <3>2, SameLine
    <3>4. \A i : TokenAt(b, i) = TokenAt(a, i)
      <4>1. \A i : TokenAt(TokenAt(a, k), i) = TokenAt(a, i)
        BY <2>5, SameTokens
      <4> QED BY <3>2, <4>1
    <3> QED BY <3>1, <3>3, <3>4
  <2>9. LineLength(f, a) \in Nat /\ (j + 1) - d <= LineLength(f, b)
    <3>1. LineLength(f, a) \in Nat /\ j - d < LineLength(f, a)
      BY <2>1, <2>5, LabelSize
    <3> QED BY <1>1, <2>8, <3>1
  <2>10. \A i \in d + 1 .. j + 1 : lab[i] = TokenAt(b, i - d)
    <3> SUFFICES ASSUME NEW i \in d + 1 .. j + 1 PROVE lab[i] = TokenAt(b, i - d)
      OBVIOUS
    <3>1. CASE i = j + 1
      BY <2>7, <2>8, <3>1 DEF b
    <3>2. CASE i # j + 1
      <4>1. i \in d + 1 .. j
        BY <1>1, <3>2
      <4> QED BY <2>1, <2>5, <2>8, <4>1
    <3> QED BY <3>1, <3>2
  <2>11. NewLine(f, lab[d], TokenAt(b, 1))
    BY <2>1, <2>5, <2>6, <2>8
  <2>12. ~AtEnd(f, b) => (j + 1) - d < LineLength(f, b)
    BY <1>1, <2>8, <2>9 DEF AtEnd
  <2>13. ~AtEnd(f, b) => InLine(f, lab, d, j + 1)
    <3>1. d \in 0 .. j + 1 /\ AtEnd(f, lab[d])
      BY <1>1 DEF InLine
    <3> QED BY <2>1, <2>10, <2>12, <3>1 DEF InLine, b
  <2>14. AtEnd(f, b) => (j + 1) - d = LineLength(f, b)
    BY <2>8 DEF AtEnd
  <2> QED BY <1>1, <1>3, <2>1, <2>8, <2>9, <2>10, <2>11, <2>13, <2>14 DEF b
<1> QED BY <1>4, <1>5

LEMMA LineSize ==
  ASSUME NEW f \in Formats, NEW l, NEW k \in Nat, k = Len(LineText(f, l))
  PROVE  \E w \in {1, 2} : LineLength(f, l) = k + w /\ (w = 2 <=> f.newline = <<"cr", "nl">>)
<1>1. CASE f.newline = <<"nl">> /\ Len(f.newline) = 1
  <2>1. LineLength(f, l) = k + 1 /\ f.newline # <<"cr", "nl">>
    BY <1>1 DEF LineLength
  <2> QED BY <2>1
<1>2. CASE f.newline = <<"cr", "nl">> /\ Len(f.newline) = 2
  <2>1. LineLength(f, l) = k + 2
    BY <1>2 DEF LineLength
  <2> QED BY <1>2, <2>1
<1> QED BY <1>1, <1>2, NewlineFacts

\* The beginning of a line, with half of its newline perhaps.
LEMMA PartOfLine ==
  ASSUME NEW f \in Formats, NEW lab, NEW text \in Seq(Chars), IsPath(f, lab, text),
         NEW d \in Nat, NEW j \in 1 .. Len(text), d < j, InLine(f, lab, d, j)
  PROVE  LET t == LineText(f, lab[j])
         IN  /\ lab[j] \in Labels
             /\ text[j] = "cr" <=> f.newline = <<"cr", "nl">> /\ j - d = Len(t) + 1
             /\ \/ j - d \in 1 .. Len(t) /\ SubSeq(text, d + 1, j) = SubSeq(t, 1, j - d)
                \/ /\ j - d = Len(t) + 1 /\ f.newline = <<"cr", "nl">>
                   /\ SubSeq(text, d + 1, j) = Append(t, "cr")
                   /\ SubSeq(text, d + 1, j - 1) = t
<1> DEFINE t == LineText(f, lab[j])
<1>1. PICK b \in Labels : b = lab[j]
  BY DEF IsPath
<1>2. PICK k \in 0 .. 4 : k = Len(t)
  BY <1>1, LineIsPlain
<1>3. t \in Seq(Chars)
  BY <1>1, LineIsPlain
<1>4. /\ \A i \in d + 1 .. j : lab[i] = TokenAt(b, i - d)
      /\ j - d < LineLength(f, b)
  BY <1>1 DEF InLine
<1>5. PICK w \in {1, 2} : LineLength(f, b) = k + w /\ (w = 2 <=> f.newline = <<"cr", "nl">>)
  BY <1>1, <1>2, LineSize
<1>0. j \in Nat /\ (w = 1 \/ w = 2) /\ j - d < k + w
  BY <1>4, <1>5
<1>6. j - d < k + w /\ j - d \in Nat \ {0} /\ (j - d \in 1 .. k \/ (j - d = k + 1 /\ w = 2))
  BY <1>0
<1>7. ASSUME NEW i \in d + 1 .. j
      PROVE  /\ text[i] = "cr" <=> w = 2 /\ i - d = k + 1
             /\ i - d <= k => text[i] = t[i - d]
             /\ text[i] \in Chars
  <2>1. i - d \in Nat /\ i - d # 0 /\ i - d < k + w /\ i \in 1 .. Len(text)
    BY <1>6
  <2>2. PICK m : m = TokenAt(b, i - d)
    OBVIOUS
  <2>3. PICK e \in Nat : e = i - d
    BY <2>1
  <2>4. m = TokenAt(b, e)
    BY <2>2, <2>3
  <2>5. m \in Labels /\ m.at = e /\ LineText(f, m) = t /\ LineLength(f, m) = k + w
    <3>1. /\ m \in Labels /\ m.at = e /\ LineText(f, m) = LineText(f, b)
          /\ LineLength(f, m) = LineLength(f, b)
      <4> HIDE DEF t
      <4>1. m \in Labels /\ m.at = e
        BY <2>4 DEF Labels, TokenAt
      <4>2. LineText(f, m) = LineText(f, b)
        BY <2>4, SameLine
      <4>3. LineLength(f, m) = LineLength(f, b)
        BY <2>4, SameLine
      <4> QED BY <4>1, <4>2, <4>3
    <3> QED BY <1>1, <1>5, <3>1
  <2>6. lab[i] = m
    BY <1>4, <2>2
  <2>7. text[i] = Token(f, m)
    BY <2>1, <2>6 DEF IsPath
  <2>8. m.at # 0 /\ m.at <= LineLength(f, m)
    BY <2>1, <2>3, <2>5
  <2>9. /\ text[i] = "cr" <=> f.newline = <<"cr", "nl">> /\ e = k + 1
        /\ e <= k => text[i] = t[e]
    BY <1>2, <2>5, <2>7, <2>8, TokenOfLine
  <2>10. text[i] \in Chars
    BY <2>1, ElementOfSeq
  <2> QED BY <1>5, <2>3, <2>9, <2>10
<1> HIDE DEF t
<1> DEFINE s == SubSeq(text, d + 1, j)
<1>8. /\ s \in Seq(Chars) /\ Len(s) = j - d
      /\ \A i \in 1 .. j - d : s[i] = text[d + i]
  <2>1. d + 1 \in Int /\ j \in Int /\ d + 1 <= j /\ j - (d + 1) + 1 = j - d
        /\ \A i \in 1 .. j - d : (d + 1) + i - 1 = d + i
    BY <1>6
  <2>2. \A i \in d + 1 .. j : text[i] \in Chars
    BY <1>7
  <2>3. /\ s \in Seq(Chars) /\ Len(s) = IF d + 1 <= j THEN j - (d + 1) + 1 ELSE 0
        /\ \A i \in 1 .. j - (d + 1) + 1 : s[i] = text[(d + 1) + i - 1]
    BY <2>1, <2>2, SubSeqProperties
  <2> HIDE DEF s
  <2> QED BY <2>1, <2>3
<1> HIDE DEF s
<1>9. \A i \in 1 .. j - d : /\ s[i] = "cr" <=> w = 2 /\ i = k + 1
                            /\ i <= k => s[i] = t[i]
  <2> SUFFICES ASSUME NEW i \in 1 .. j - d
               PROVE  (s[i] = "cr" <=> w = 2 /\ i = k + 1) /\ (i <= k => s[i] = t[i])
    OBVIOUS
  <2>1. d + i \in d + 1 .. j /\ (d + i) - d = i
    BY <1>6
  <2>2. /\ text[d + i] = "cr" <=> w = 2 /\ (d + i) - d = k + 1
        /\ (d + i) - d <= k => text[d + i] = t[(d + i) - d]
    BY <1>7, <2>1
  <2> QED BY <1>8, <2>1, <2>2
<1>10. text[j] = "cr" <=> w = 2 /\ j - d = k + 1
  <2>1. j \in d + 1 .. j
    BY <1>6
  <2> QED BY <1>7, <2>1
<1>11. CASE j - d \in 1 .. k
  <2>1. \A i \in 1 .. j - d : t[i] \in Chars
    <3>1. \A i \in 1 .. j - d : i \in 1 .. k
      BY <1>11
    <3> QED BY <1>2, <1>3, <3>1, ElementOfSeq DEF t
  <2>2. /\ SubSeq(t, 1, j - d) \in Seq(Chars) /\ Len(SubSeq(t, 1, j - d)) = j - d
        /\ \A i \in 1 .. j - d : SubSeq(t, 1, j - d)[i] = t[i]
    <3>1. 1 \in Int /\ j - d \in Int /\ 1 <= j - d /\ (j - d) - 1 + 1 = j - d
          /\ \A i \in 1 .. j - d : 1 + i - 1 = i
      BY <1>6
    <3>2. /\ SubSeq(t, 1, j - d) \in Seq(Chars)
          /\ Len(SubSeq(t, 1, j - d)) = IF 1 <= j - d THEN (j - d) - 1 + 1 ELSE 0
          /\ \A i \in 1 .. (j - d) - 1 + 1 : SubSeq(t, 1, j - d)[i] = t[1 + i - 1]
      BY <2>1, <3>1, SubSeqProperties
    <3> QED BY <3>1, <3>2
  <2>3. \A i \in 1 .. j - d : s[i] = SubSeq(t, 1, j - d)[i]
    BY <1>9, <1>11, <2>2
  <2>4. s = SubSeq(t, 1, j - d)
    BY <1>8, <2>2, <2>3, SeqEqual
  <2> QED BY <1>1, <1>2, <1>5, <1>10, <1>11, <2>4 DEF s, t
<1>12. CASE j - d = k + 1 /\ w = 2
  <2>1. "cr" \in Chars
    BY CharFacts
  <2>2. PICK x : x = Append(t, "cr")
    OBVIOUS
  <2>3. /\ x \in Seq(Chars) /\ Len(x) = k + 1 /\ \A i \in 1 .. k : x[i] = t[i]
        /\ x[k + 1] = "cr"
    BY <1>2, <1>3, <2>1, <2>2, AppendProperties DEF t
  <2>4. \A i \in 1 .. k + 1 : s[i] = x[i]
    <3> SUFFICES ASSUME NEW i \in 1 .. k + 1 PROVE s[i] = x[i]
      OBVIOUS
    <3>1. i \in 1 .. j - d
      BY <1>12
    <3>2. CASE i = k + 1
      BY <1>9, <1>12, <2>3, <3>1, <3>2
    <3>3. CASE i # k + 1
      <4>1. i \in 1 .. k /\ i <= k
        BY <3>3
      <4> QED BY <1>9, <2>3, <3>1, <4>1
    <3> QED BY <3>2, <3>3
  <2>5. s = x
    BY <1>8, <1>12, <2>3, <2>4, SeqEqual
  <2>6. SubSeq(text, d + 1, j - 1) = t
    <3>1. d + 1 \in Int /\ j - 1 \in Int /\ (j - 1) - (d + 1) + 1 = k
          /\ (d + 1 <= j - 1 <=> k # 0) /\ \A i \in 1 .. k : (d + 1) + i - 1 = d + i
      BY <1>12
    <3>2. \A i \in d + 1 .. j - 1 : text[i] \in Chars
      <4>1. \A i \in d + 1 .. j - 1 : i \in d + 1 .. j
        OBVIOUS
      <4> QED BY <1>7, <4>1
    <3> DEFINE q == SubSeq(text, d + 1, j - 1)
    <3>3. /\ q \in Seq(Chars)
          /\ Len(q) = IF d + 1 <= j - 1 THEN (j - 1) - (d + 1) + 1 ELSE 0
          /\ \A i \in 1 .. (j - 1) - (d + 1) + 1 : q[i] = text[(d + 1) + i - 1]
      BY <3>1, <3>2, SubSeqProperties
    <3> HIDE DEF q
    <3>4. Len(q) = k /\ \A i \in 1 .. k : q[i] = text[d + i]
      BY <3>1, <3>3
    <3>5. \A i \in 1 .. k : q[i] = t[i]
      <4> SUFFICES ASSUME NEW i \in 1 .. k PROVE q[i] = t[i]
        OBVIOUS
      <4>1. i \in 1 .. j - d /\ i <= k
        BY <1>12
      <4>2. q[i] = text[d + i]
        BY <3>4
      <4>3. s[i] = text[d + i]
        BY <1>8, <4>1
      <4>4. s[i] = t[i]
        BY <1>9, <4>1
      <4> QED BY <4>2, <4>3, <4>4
    <3>6. Len(t) = k /\ t \in Seq(Chars)
      BY <1>2, <1>3 DEF t
    <3>7. q = t
      BY <3>3, <3>4, <3>5, <3>6, SeqEqual
    <3> QED BY <3>7 DEF q
  <2> QED BY <1>1, <1>2, <1>5, <1>10, <1>12, <2>2, <2>5, <2>6 DEF s, t
<1> QED BY <1>6, <1>11, <1>12

\* The tokens d + 1 to j of a text are t, or t and a "cr".
IsLine(text, d, j, t) ==
  \/ SubSeq(text, d + 1, j) = t /\ ~(d < j /\ text[j] = "cr")
  \/ /\ d < j /\ text[j] = "cr"
     /\ SubSeq(text, d + 1, j - 1) = t /\ SubSeq(text, d + 1, j) = Append(t, "cr")

\* What comes before the "nl" of a line is its text.
LEMMA WholeLine ==
  ASSUME NEW f \in Formats, NEW lab, NEW text \in Seq(Chars), IsPath(f, lab, text),
         NEW j \in Nat, j < Len(text), NEW d, InLine(f, lab, d, j), AtEnd(f, lab[j + 1])
  PROVE  IsLine(text, d, j, LineText(f, lab[j + 1]))
<1> DEFINE t == LineText(f, lab[j + 1])
<1>1. PICK n \in Nat : n = Len(text) /\ j < n
  OBVIOUS
<1>2. /\ d \in Nat /\ d <= j /\ lab[j + 1] \in Labels
      /\ (j + 1) - d = LineLength(f, lab[j + 1])
      /\ \A i \in d + 1 .. j + 1 : lab[i] = TokenAt(lab[j + 1], i - d)
  BY InLineGrows
<1>3. PICK k \in 0 .. 4 : k = Len(t)
  BY <1>2, LineIsPlain
<1>7. PICK w \in {1, 2} :
        LineLength(f, lab[j + 1]) = k + w /\ (w = 2 <=> f.newline = <<"cr", "nl">>)
  BY <1>3, LineSize
<1>4. (j + 1) - d = k + w /\ (w = 2 <=> f.newline = <<"cr", "nl">>) /\ (w = 1 \/ w = 2)
  BY <1>2, <1>7
<1>5. CASE d = j
  <2>1. k = 0 /\ d + 1 > j
    <3>1. (j + 1) - j = 1 /\ (w = 1 \/ w = 2)
      OBVIOUS
    <3>2. k + w = 1
      BY <1>4, <1>5, <3>1
    <3> QED BY <1>5, <3>1, <3>2
  <2>2. t = <<>>
    BY <1>2, <1>3, <2>1, LineIsPlain, EmptySeq
  <2>3. SubSeq(text, d + 1, j) = <<>>
    BY <1>2, <2>1, SubSeqEmpty
  <2> QED BY <1>5, <2>2, <2>3 DEF IsLine
<1>6. CASE d # j
  <2>1. d < j /\ j \in 1 .. Len(text) /\ j \in d + 1 .. j + 1
    <3>1. d < j
      BY <1>2, <1>6
    <3> QED BY <1>1, <1>2, <3>1
  <2>2. LineText(f, lab[j]) = t
    <3>1. PICK e \in Nat : e = j - d
      BY <1>2, <2>1
    <3>2. lab[j] = TokenAt(lab[j + 1], e)
      BY <1>2, <2>1, <3>1
    <3> QED BY <1>2, <3>2, SameLine
  <2>3. /\ text[j] = "cr" <=> f.newline = <<"cr", "nl">> /\ j - d = Len(t) + 1
        /\ \/ j - d \in 1 .. Len(t) /\ SubSeq(text, d + 1, j) = SubSeq(t, 1, j - d)
           \/ /\ j - d = Len(t) + 1 /\ f.newline = <<"cr", "nl">>
              /\ SubSeq(text, d + 1, j) = Append(t, "cr")
              /\ SubSeq(text, d + 1, j - 1) = t
    <3>1. d \in Nat /\ j \in 1 .. Len(text) /\ d < j
      BY <1>2, <2>1
    <3>2. LET u == LineText(f, lab[j])
          IN  /\ lab[j] \in Labels
              /\ text[j] = "cr" <=> f.newline = <<"cr", "nl">> /\ j - d = Len(u) + 1
              /\ \/ j - d \in 1 .. Len(u) /\ SubSeq(text, d + 1, j) = SubSeq(u, 1, j - d)
                 \/ /\ j - d = Len(u) + 1 /\ f.newline = <<"cr", "nl">>
                    /\ SubSeq(text, d + 1, j) = Append(u, "cr")
                    /\ SubSeq(text, d + 1, j - 1) = u
      BY <3>1, PartOfLine
    <3> QED BY <2>2, <3>2
  <2> HIDE DEF t
  <2>4. CASE w = 1
    <3>1. j - d = k /\ j - d # k + 1
      BY <1>2, <1>4, <2>4
    <3>2. SubSeq(t, 1, k) = t
      BY <1>2, <1>3, LineIsPlain, SubSeqFull DEF t
    <3> QED BY <1>3, <2>3, <3>1, <3>2 DEF t, IsLine
  <2>5. CASE w = 2
    <3>1. j - d = k + 1 /\ ~(j - d \in 1 .. k)
      BY <1>2, <1>4, <2>5
    <3> QED BY <1>3, <1>4, <2>1, <2>3, <2>5, <3>1 DEF t, IsLine
  <2> QED BY <2>4, <2>5
<1> QED BY <1>5, <1>6

-----------------------------------------------------------------------------
(* What the reader has put together at the end of a line *)

\* The items, and the events with the last, that a text has completed.
Done(f, l) == IF l.kind = "item" /\ l.line < LastLine(f, l) THEN l.n - 1 ELSE l.n
Completed(f, l) ==
  IF l.kind \in Terminals /\ l.line >= LastLine(f, l) THEN l.n + 1 ELSE Done(f, l)

EventOf(f, l, j) ==
  IF j <= Done(f, l) THEN <<"message", ItemLine(Items[j])>>
  ELSE <<IF f.framing = "jsonl" THEN "message" ELSE TypeOf(l.kind),
         IF l.kind = "close" THEN <<>> ELSE FailureLine(CodeOf(l.kind))>>

\* What is ready once c events were taken.
ReadyAt(f, l, c) == [j \in 1 .. Completed(f, l) - c |-> EventOf(f, l, c + j)]

DataAt(f, l) ==
  IF f.framing = "sse" /\ l.kind \notin {"comment", "close"} /\ l.line = 2
  THEN Body(l) ELSE <<>>
EventAt(f, l) ==
  IF l.kind # "comment" /\ l.line < LastLine(f, l) THEN TypeOf(l.kind) ELSE "message"

ReaderAt(f, l, c, buffer) ==
  [buffer |-> buffer, ready |-> ReadyAt(f, l, c), data |-> DataAt(f, l),
   event |-> EventAt(f, l)]

AllEvents == {"message", "error", "close"} \X Seq(Chars)

\* What a label says of the events before it.
LEMMA ItemLineType ==
  ASSUME NEW j \in 1 .. Len(Items)
  PROVE  ItemLine(Items[j]) \in Seq(Chars) /\ Items[j] \in Chars
<1>1. Items[j] \in STRING
  BY StreamAssumption, ElementOfSeq
<1>2. PICK x \in Chars : x = Items[j]
  BY <1>1, CharFacts
<1>3. <<"{", x, "}">> \in Seq(Chars)
  BY ShortTexts, CharFacts
<1> QED BY <1>2, <1>3 DEF ItemLine

LEMMA CompletedType ==
  ASSUME NEW f, NEW l \in Labels
  PROVE  /\ Done(f, l) \in 0 .. Len(Items) /\ Done(f, l) \in Nat
         /\ Completed(f, l) \in {Done(f, l), Done(f, l) + 1}
         /\ Completed(f, l) # Done(f, l) <=> l.kind \in Terminals /\ l.line >= LastLine(f, l)
         /\ Completed(f, l) \in Nat
<1>1. PICK m \in Nat : m = Len(Items)
  BY StreamAssumption, LenProperties
<1>2. l.n \in 0 .. m /\ (l.kind = "item" => l.n # 0)
  BY <1>1 DEF Labels
<1>3. Done(f, l) \in 0 .. m
  BY <1>2 DEF Done
<1>4. l.kind \in Terminals => l.kind # "item"
  BY DEF Terminals, Failures
<1>5. l.kind \in Terminals => Done(f, l) = l.n
  BY <1>4 DEF Done
<1>6. Done(f, l) + 1 # Done(f, l) /\ Done(f, l) + 1 \in Nat /\ Done(f, l) \in Nat
  BY <1>3
<1> QED BY <1>1, <1>3, <1>5, <1>6 DEF Completed

LEMMA EventType ==
  ASSUME NEW f \in Formats, NEW l \in Labels, NEW j \in 1 .. Completed(f, l)
  PROVE  EventOf(f, l, j) \in AllEvents
<1>1. CASE j <= Done(f, l)
  <2>1. j \in 1 .. Len(Items)
    <3>1. PICK m \in Nat : m = Len(Items)
      BY StreamAssumption, LenProperties
    <3>2. Done(f, l) \in 0 .. m /\ j \in Nat /\ j >= 1
      BY <3>1, CompletedType
    <3> QED BY <1>1, <3>1, <3>2
  <2>2. EventOf(f, l, j) = <<"message", ItemLine(Items[j])>>
    BY <1>1 DEF EventOf
  <2> QED BY <2>1, <2>2, ItemLineType DEF AllEvents
<1>2. CASE ~(j <= Done(f, l))
  <2>1. PICK x : x = CodeOf(l.kind) /\ x \in {"INTERNAL", "VALIDATION", "BAD_REQUEST"}
    BY DEF CodeOf
  <2>2. <<"!", x>> \in Seq(Chars)
    BY <2>1, ShortTexts, CharFacts
  <2>3. PICK y : y = (IF l.kind = "close" THEN <<>> ELSE <<"!", x>>)
    OBVIOUS
  <2>4. y \in Seq(Chars)
    BY <2>2, <2>3, EmptySeq
  <2>5. PICK z : z = (IF f.framing = "jsonl" THEN "message" ELSE TypeOf(l.kind))
                 /\ z \in {"message", "error", "close"}
    BY DEF TypeOf
  <2>6. EventOf(f, l, j) = <<z, y>>
    BY <1>2, <2>1, <2>3, <2>5 DEF EventOf, FailureLine
  <2> QED BY <2>4, <2>5, <2>6 DEF AllEvents
<1> QED BY <1>1, <1>2

LEMMA ReadyType ==
  ASSUME NEW f \in Formats, NEW l \in Labels, NEW c \in Nat, c <= Completed(f, l)
  PROVE  /\ ReadyAt(f, l, c) \in Seq(AllEvents)
         /\ Len(ReadyAt(f, l, c)) = Completed(f, l) - c
         /\ \A j \in 1 .. Completed(f, l) - c : ReadyAt(f, l, c)[j] = EventOf(f, l, c + j)
<1>1. PICK m \in Nat : m = Completed(f, l) - c
  BY CompletedType
<1> DEFINE s == ReadyAt(f, l, c)
<1>2. s = [j \in 1 .. m |-> EventOf(f, l, c + j)]
  BY <1>1 DEF ReadyAt
<1>3. \A j \in 1 .. m : EventOf(f, l, c + j) \in AllEvents
  <2>1. \A j \in 1 .. m : c + j \in 1 .. Completed(f, l)
    BY <1>1, CompletedType
  <2> QED BY <2>1, EventType
<1> HIDE DEF s
<1>4. s \in [1 .. m -> AllEvents] /\ \A j \in 1 .. m : s[j] = EventOf(f, l, c + j)
  BY <1>2, <1>3
<1>5. s \in Seq(AllEvents) /\ Len(s) = m
  <2>1. s \in Seq(AllEvents)
    BY <1>4, SeqDef
  <2>2. DOMAIN s = 1 .. m
    BY <1>4
  <2> QED BY <2>1, <2>2
<1> QED BY <1>1, <1>4, <1>5 DEF s

\* A line more adds the event that it completes, if it does.
LEMMA ReadyGrows ==
  ASSUME NEW f \in Formats, NEW a \in Labels, NEW b \in Labels, NEW c \in Nat,
         c <= Completed(f, a), Completed(f, a) = Done(f, a), Done(f, a) <= Done(f, b)
  PROVE  /\ Completed(f, b) = Completed(f, a) => ReadyAt(f, b, c) = ReadyAt(f, a, c)
         /\ Completed(f, b) = Completed(f, a) + 1 =>
              ReadyAt(f, b, c) = Append(ReadyAt(f, a, c), EventOf(f, b, Completed(f, b)))
<1>1. PICK n \in Nat : n = Completed(f, a) /\ n = Done(f, a) /\ c <= n
  BY CompletedType
<1>2. Done(f, b) \in Nat /\ n <= Done(f, b)
  BY <1>1, CompletedType
<1> DEFINE s == ReadyAt(f, a, c)
           t == ReadyAt(f, b, c)
<1>3. s \in Seq(AllEvents) /\ Len(s) = n - c /\ \A j \in 1 .. n - c : s[j] = EventOf(f, a, c + j)
  BY <1>1, ReadyType
<1>4. \A j \in 1 .. n - c : EventOf(f, a, c + j) = EventOf(f, b, c + j)
  <2>1. \A j \in 1 .. n - c : c + j <= Done(f, a) /\ c + j <= Done(f, b)
    BY <1>1, <1>2
  <2> QED BY <2>1 DEF EventOf
<1>5. ASSUME Completed(f, b) = Completed(f, a) PROVE t = s
  <2>1. c <= Completed(f, b) /\ Completed(f, b) = n
    BY <1>1, <1>5
  <2>2. t \in Seq(AllEvents) /\ Len(t) = n - c /\ \A j \in 1 .. n - c : t[j] = EventOf(f, b, c + j)
    BY <2>1, ReadyType
  <2> HIDE DEF s, t
  <2>3. \A j \in 1 .. n - c : s[j] = t[j]
    BY <1>3, <1>4, <2>2
  <2> QED BY <1>3, <2>2, <2>3, SeqEqual
<1>6. ASSUME Completed(f, b) = Completed(f, a) + 1
      PROVE  t = Append(s, EventOf(f, b, Completed(f, b)))
  <2>1. c <= Completed(f, b) /\ Completed(f, b) = n + 1 /\ (n + 1) - c \in Nat
        /\ n + 1 \in 1 .. Completed(f, b) /\ (n + 1) - c = (n - c) + 1 /\ c + ((n - c) + 1) = n + 1
    BY <1>1, <1>6
  <2>2. /\ t \in Seq(AllEvents) /\ Len(t) = (n - c) + 1
        /\ \A j \in 1 .. (n - c) + 1 : t[j] = EventOf(f, b, c + j)
    BY <2>1, ReadyType
  <2>3. PICK e \in AllEvents : e = EventOf(f, b, n + 1)
    BY <2>1, EventType
  <2> DEFINE u == Append(s, e)
  <2>4. u \in Seq(AllEvents) /\ Len(u) = (n - c) + 1
        /\ (\A j \in 1 .. n - c : u[j] = s[j]) /\ u[(n - c) + 1] = e
    BY <1>3, AppendProperties
  <2> HIDE DEF s, t, u
  <2>5. \A j \in 1 .. (n - c) + 1 : u[j] = t[j]
    <3> SUFFICES ASSUME NEW j \in 1 .. (n - c) + 1 PROVE u[j] = t[j]
      OBVIOUS
    <3>1. CASE j = (n - c) + 1
      BY <2>1, <2>2, <2>3, <2>4, <3>1
    <3>2. CASE j # (n - c) + 1
      <4>1. j \in 1 .. n - c
        BY <1>1, <3>2
      <4> QED BY <1>3, <1>4, <2>2, <2>4, <4>1
    <3> QED BY <3>1, <3>2
  <2>6. u = t
    BY <2>2, <2>4, <2>5, SeqEqual
  <2> QED BY <2>1, <2>3, <2>6 DEF u
<1> QED BY <1>5, <1>6

\* The reader's record, one field at a time.
LEMMA RecordFacts ==
  ASSUME NEW B, NEW R, NEW D, NEW E, NEW x, NEW r,
         r = [buffer |-> B, ready |-> R, data |-> D, event |-> E]
  PROVE  /\ r.buffer = B /\ r.ready = R /\ r.data = D /\ r.event = E
         /\ [r EXCEPT !.data = x] = [buffer |-> B, ready |-> R, data |-> x, event |-> E]
         /\ [r EXCEPT !.event = x] = [buffer |-> B, ready |-> R, data |-> D, event |-> x]
         /\ [r EXCEPT !.ready = x] = [buffer |-> B, ready |-> x, data |-> D, event |-> E]
         /\ [r EXCEPT !.buffer = x] = [buffer |-> x, ready |-> R, data |-> D, event |-> E]
OBVIOUS

LEMMA DispatchFacts ==
  ASSUME NEW B, NEW R, NEW D, NEW E, NEW r,
         r = [buffer |-> B, ready |-> R, data |-> D, event |-> E]
  PROVE  /\ E # "close" /\ D = <<>> =>
              Dispatch(r) = [buffer |-> B, ready |-> R, data |-> <<>>, event |-> "message"]
         /\ E = "close" \/ D # <<>> =>
              Dispatch(r) = [buffer |-> B, ready |-> Append(R, <<E, D>>), data |-> <<>>,
                             event |-> "message"]
<1>1. r.ready = R /\ r.data = D /\ r.event = E
  OBVIOUS
<1> DEFINE p == [r EXCEPT !.data = <<>>]
           q == [p EXCEPT !.event = "message"]
<1>2. p = [buffer |-> B, ready |-> R, data |-> <<>>, event |-> E]
  BY RecordFacts
<1>3. q = [buffer |-> B, ready |-> R, data |-> <<>>, event |-> "message"]
  <2> HIDE DEF p
  <2> QED BY <1>2, RecordFacts
<1>4. Dispatch(r) = [q EXCEPT !.ready = IF r.event # "close" /\ r.data = <<>> THEN @
                                        ELSE Append(@, <<r.event, r.data>>)]
  BY DEF Dispatch
<1> HIDE DEF p, q
<1>5. Dispatch(r) = [q EXCEPT !.ready = IF E # "close" /\ D = <<>> THEN R
                                        ELSE Append(R, <<E, D>>)]
  BY <1>1, <1>3, <1>4
<1> QED BY <1>3, <1>5, RecordFacts

\* What the control of a line before says of the line b that follows a.
LEMMA LineFollows ==
  ASSUME NEW f \in Formats, NEW a \in Labels, NEW b \in Labels, NewLine(f, a, TokenAt(b, 1))
  PROVE  /\ Completed(f, a) = Done(f, a) /\ Done(f, a) <= Done(f, b)
         /\ \/ /\ a.line < LastLine(f, a) /\ b.kind = a.kind /\ b.n = a.n
               /\ b.line = a.line + 1
            \/ /\ a.line >= LastLine(f, a) /\ a.kind \notin Terminals /\ b.line = 1
               /\ Done(f, a) = a.n
               /\ \/ b.kind = "comment" /\ b.n = a.n /\ f.framing = "sse"
                  \/ b.kind = "item" /\ b.n = a.n + 1
                  \/ b.kind \in Failures /\ b.n = a.n
                  \/ b.kind = "close" /\ b.n = a.n /\ f.framing = "sse"
<1>1. TokenAt(b, 1).kind = b.kind /\ TokenAt(b, 1).n = b.n /\ TokenAt(b, 1).line = b.line
  BY DEF TokenAt, Labels
<1>2. a.n \in Nat /\ b.n \in Nat /\ a.line \in Nat /\ b.line \in Nat
  <2>1. PICK m \in Nat : m = Len(Items)
    BY StreamAssumption, LenProperties
  <2> QED BY <2>1 DEF Labels
<1>3. LastLine(f, a) \in 1 .. 3 /\ LastLine(f, b) \in 1 .. 3
  BY DEF LastLine
<1>4. CASE a.line < LastLine(f, a)
  <2>1. b.kind = a.kind /\ b.n = a.n /\ b.line = a.line + 1
    BY <1>1, <1>4 DEF NewLine
  <2>2. ~(a.line >= LastLine(f, a))
    BY <1>2, <1>3, <1>4
  <2>3. Completed(f, a) = Done(f, a)
    BY <2>2 DEF Completed
  <2>4. LastLine(f, b) = LastLine(f, a)
    BY <2>1 DEF LastLine
  <2>5. Done(f, a) = IF a.kind = "item" THEN a.n - 1 ELSE a.n
    BY <1>4 DEF Done
  <2>6. Done(f, b) \in {a.n - 1, a.n} /\ (a.kind # "item" => Done(f, b) = a.n)
    BY <2>1 DEF Done
  <2>7. Done(f, a) <= Done(f, b)
    BY <1>2, <2>5, <2>6
  <2> QED BY <1>4, <2>1, <2>3, <2>7
<1>5. CASE ~(a.line < LastLine(f, a))
  <2>1. a.line >= LastLine(f, a)
    BY <1>2, <1>3, <1>5
  <2>2. /\ a.kind \notin Terminals /\ b.line = 1
        /\ \/ b.kind = "comment" /\ b.n = a.n /\ f.framing = "sse"
           \/ b.kind = "item" /\ b.n = a.n + 1
           \/ b.kind \in Failures /\ b.n = a.n
           \/ b.kind = "close" /\ b.n = a.n /\ f.framing = "sse"
    BY <1>1, <1>5 DEF NewLine
  <2>3. Completed(f, a) = Done(f, a) /\ Done(f, a) = a.n
    BY <1>5, <2>2 DEF Completed, Done
  <2>4. Done(f, b) = b.n \/ (b.kind = "item" /\ Done(f, b) = b.n - 1)
    BY DEF Done
  <2>5. a.n <= Done(f, b)
    <3>1. b.kind \in Failures => b.kind # "item"
      BY DEF Failures
    <3> QED BY <1>2, <2>2, <2>4, <3>1
  <2> QED BY <2>1, <2>2, <2>3, <2>5
<1> QED BY <1>4, <1>5

\* A JSONL line is an event.
LEMMA JsonlLine ==
  ASSUME NEW f \in Formats, f.framing = "jsonl", NEW a \in Labels, NEW b \in Labels,
         NewLine(f, a, TokenAt(b, 1)), NEW c \in Nat, c <= Completed(f, a)
  PROVE  /\ ReadyAt(f, b, c) = Append(ReadyAt(f, a, c), <<"message", LineText(f, b)>>)
         /\ Completed(f, b) = Completed(f, a) + 1
<1>1. LastLine(f, a) = 1 /\ LastLine(f, b) = 1
  BY DEF LastLine
<1>2. a.n \in Nat /\ b.n \in Nat /\ a.line \in 1 .. 3
  <2>1. PICK m \in Nat : m = Len(Items)
    BY StreamAssumption, LenProperties
  <2> QED BY <2>1 DEF Labels
<1>3. /\ Completed(f, a) = Done(f, a) /\ Done(f, a) <= Done(f, b)
      /\ a.line >= LastLine(f, a) /\ b.line = 1 /\ Done(f, a) = a.n
      /\ \/ b.kind = "item" /\ b.n = a.n + 1
         \/ b.kind \in Failures /\ b.n = a.n
  BY <1>1, <1>2, LineFollows
<1>4. Done(f, b) = b.n
  BY <1>1, <1>3 DEF Done
<1>5. /\ Completed(f, b) = Completed(f, a) + 1
      /\ EventOf(f, b, Completed(f, b)) = <<"message", LineText(f, b)>>
  <2>1. LineText(f, b) = Body(b)
    BY DEF LineText
  <2>2. CASE b.kind = "item" /\ b.n = a.n + 1
    <3>1. Completed(f, b) = b.n
      BY <1>4, <2>2 DEF Completed, Terminals, Failures
    <3>2. b.n <= Done(f, b)
      BY <1>2, <1>4
    <3> QED BY <1>3, <2>1, <2>2, <3>1, <3>2 DEF EventOf, Body
  <2>3. CASE b.kind \in Failures /\ b.n = a.n
    <3>1. Completed(f, b) = b.n + 1
      BY <1>1, <1>3, <2>3 DEF Completed, Terminals
    <3>2. ~(b.n + 1 <= Done(f, b)) /\ b.kind # "item" /\ b.kind # "close"
      BY <1>2, <1>4, <2>3 DEF Failures
    <3> QED BY <1>3, <2>1, <2>3, <3>1, <3>2 DEF EventOf, Body
  <2> QED BY <1>3, <2>2, <2>3
<1> QED BY <1>3, <1>5, ReadyGrows

\* A line of an event stream, read where the reader is, leaves it where the
\* line ends.
LEMMA SseLine ==
  ASSUME NEW f \in Formats, f.framing = "sse", NEW a \in Labels, NEW b \in Labels,
         NewLine(f, a, TokenAt(b, 1)), NEW c \in Nat, c <= Completed(f, a), NEW buffer
  PROVE  /\ ProcessLine(ReaderAt(f, a, c, buffer), LineText(f, b)) = ReaderAt(f, b, c, buffer)
         /\ c <= Completed(f, b)
<1> DEFINE r == ReaderAt(f, a, c, buffer)
           line == LineText(f, b)
<1>1. a.n \in Nat /\ b.n \in Nat /\ a.line \in 1 .. 3 /\ b.line \in 1 .. 3
  <2>1. PICK m \in Nat : m = Len(Items)
    BY StreamAssumption, LenProperties
  <2> QED BY <2>1 DEF Labels
<1>2. f.framing # "jsonl"
  OBVIOUS
<1>3. Completed(f, a) = Done(f, a) /\ Done(f, a) <= Done(f, b)
  BY LineFollows
<1>10. r = [buffer |-> buffer, ready |-> ReadyAt(f, a, c), data |-> DataAt(f, a),
            event |-> EventAt(f, a)]
  BY DEF ReaderAt
<1>4. /\ r.buffer = buffer /\ r.ready = ReadyAt(f, a, c) /\ r.data = DataAt(f, a)
      /\ r.event = EventAt(f, a)
      /\ \A x : [r EXCEPT !.data = x] = [buffer |-> buffer, ready |-> ReadyAt(f, a, c),
                                         data |-> x, event |-> EventAt(f, a)]
      /\ \A x : [r EXCEPT !.event = x] = [buffer |-> buffer, ready |-> ReadyAt(f, a, c),
                                          data |-> DataAt(f, a), event |-> x]
  <2> HIDE DEF r
  <2> QED BY <1>10, RecordFacts
<1>5. LastLine(f, a) = (IF a.kind \in {"comment", "close"} THEN 2 ELSE 3)
      /\ LastLine(f, b) = (IF b.kind \in {"comment", "close"} THEN 2 ELSE 3)
  BY <1>2 DEF LastLine
<1>6. ASSUME Completed(f, b) = Completed(f, a), ReadyAt(f, b, c) = ReadyAt(f, a, c)
      PROVE  ReaderAt(f, b, c, buffer) = [buffer |-> buffer, ready |-> ReadyAt(f, a, c),
                                          data |-> DataAt(f, b), event |-> EventAt(f, b)]
  BY <1>6 DEF ReaderAt
<1>7. c <= Completed(f, b)
  <2>1. PICK m \in Nat : m = Completed(f, a)
    BY CompletedType
  <2>2. Completed(f, b) \in Nat /\ Completed(f, b) >= Done(f, b)
    BY CompletedType
  <2> QED BY <1>3, <2>1, <2>2, CompletedType
<1> HIDE DEF r, line
<1>8. CASE a.line < LastLine(f, a) /\ b.kind = a.kind /\ b.n = a.n /\ b.line = a.line + 1
  <2>1. LastLine(f, b) = LastLine(f, a)
    BY <1>5, <1>8
  <2>2. CASE b.line = LastLine(f, b)
    <3>1. line = <<>>
      BY <1>1, <1>2, <2>2 DEF line, LineText
    <3>2. ProcessLine(r, line) = Dispatch(r)
      BY <3>1 DEF ProcessLine
    <3>3. DataAt(f, b) = <<>> /\ EventAt(f, b) = "message"
      <4>1. b.kind \notin {"comment", "close"} => b.line # 2
        BY <1>5, <2>2
      <4>2. ~(b.line < LastLine(f, b))
        BY <1>1, <2>2
      <4> QED BY <4>1, <4>2 DEF DataAt, EventAt
    <3>4. CASE a.kind = "comment"
      <4>1. EventAt(f, a) = "message" /\ DataAt(f, a) = <<>>
        BY <3>4 DEF EventAt, DataAt
      <4>2. Completed(f, b) = Completed(f, a)
        BY <1>8, <3>4 DEF Completed, Done, Terminals, Failures
      <4>3. ReadyAt(f, b, c) = ReadyAt(f, a, c)
        BY <1>3, <4>2, ReadyGrows
      <4> QED BY <1>6, <1>7, <1>10, <3>2, <3>3, <4>1, <4>2, <4>3, DispatchFacts DEF r, line
    <3>5. CASE a.kind # "comment"
      <4>1. EventAt(f, a) = TypeOf(a.kind)
        BY <1>8, <3>5 DEF EventAt
      <4>2. DataAt(f, a) = IF a.kind = "close" THEN <<>> ELSE Body(a)
        BY <1>1, <1>5, <1>8, <2>1, <2>2, <3>5 DEF DataAt
      <4>3. r.event = "close" \/ r.data # <<>>
        <5>1. CASE a.kind = "close"
          BY <1>4, <4>1, <5>1 DEF TypeOf
        <5>2. CASE a.kind # "close"
          <6>1. r.data = Body(a)
            BY <1>4, <4>2, <5>2
          <6>2. Body(a) # <<>>
            <7>1. PICK n \in {2, 3} : n = Len(Body(a))
              BY ItemIsPlain
            <7>2. Len(<<>>) = 0
              OBVIOUS
            <7> QED BY <7>1, <7>2
          <6> QED BY <6>1, <6>2
        <5> QED BY <5>1, <5>2
      <4>4. Dispatch(r) = [buffer |-> buffer,
                           ready |-> Append(ReadyAt(f, a, c), <<EventAt(f, a), DataAt(f, a)>>),
                           data |-> <<>>, event |-> "message"]
        <5>1. EventAt(f, a) = "close" \/ DataAt(f, a) # <<>>
          BY <1>4, <4>3
        <5>2. PICK D : D = DataAt(f, a)
          OBVIOUS
        <5>3. PICK E : E = EventAt(f, a)
          OBVIOUS
        <5>4. PICK R : R = ReadyAt(f, a, c)
          OBVIOUS
        <5>5. PICK r2 : /\ r2 = r
                        /\ r2 = [buffer |-> buffer, ready |-> R, data |-> D, event |-> E]
          BY <1>10, <5>2, <5>3, <5>4
        <5>6. E = "close" \/ D # <<>>
          BY <5>1, <5>2, <5>3
        <5>7. Dispatch(r2) = [buffer |-> buffer, ready |-> Append(R, <<E, D>>), data |-> <<>>,
                              event |-> "message"]
          BY <5>5, <5>6, DispatchFacts
        <5> QED BY <5>2, <5>3, <5>4, <5>5, <5>7
      <4>5. /\ Completed(f, b) = Completed(f, a) + 1
            /\ EventOf(f, b, Completed(f, b)) = <<EventAt(f, a), DataAt(f, a)>>
        <5>1. CASE a.kind = "item"
          <6>1. Done(f, a) = a.n - 1 /\ Done(f, b) = a.n
            BY <1>1, <1>8, <2>2, <5>1 DEF Done
          <6>2. Completed(f, b) = a.n
            BY <1>8, <5>1, <6>1 DEF Completed, Terminals, Failures
          <6>3. a.n <= Done(f, b) /\ a.n = (a.n - 1) + 1
            BY <1>1, <6>1
          <6>4. EventOf(f, b, a.n) = <<"message", ItemLine(Items[a.n])>>
            BY <6>3 DEF EventOf
          <6>5. EventAt(f, a) = "message" /\ DataAt(f, a) = ItemLine(Items[a.n])
            BY <4>1, <4>2, <5>1 DEF TypeOf, Body
          <6> QED BY <1>3, <6>1, <6>2, <6>3, <6>4, <6>5
        <5>2. CASE a.kind # "item"
          <6>1. a.kind \in Terminals
            BY <3>5, <5>2 DEF Labels, Terminals
          <6>2. Done(f, a) = a.n /\ Done(f, b) = a.n
            BY <1>8, <5>2 DEF Done
          <6>3. Completed(f, b) = a.n + 1
            BY <1>1, <1>8, <2>2, <6>1 DEF Completed
          <6>4. ~(a.n + 1 <= Done(f, b))
            BY <1>1, <6>2
          <6>5. EventOf(f, b, a.n + 1) =
                  <<TypeOf(a.kind), IF a.kind = "close" THEN <<>> ELSE FailureLine(CodeOf(a.kind))>>
            BY <1>2, <1>8, <6>4 DEF EventOf
          <6>6. EventAt(f, a) = TypeOf(a.kind)
                /\ DataAt(f, a) = IF a.kind = "close" THEN <<>> ELSE FailureLine(CodeOf(a.kind))
            BY <4>1, <4>2, <5>2 DEF Body
          <6> QED BY <1>3, <6>2, <6>3, <6>5, <6>6
        <5> QED BY <5>1, <5>2
      <4>6. ReadyAt(f, b, c) = Append(ReadyAt(f, a, c), <<EventAt(f, a), DataAt(f, a)>>)
        BY <1>3, <4>5, ReadyGrows
      <4>7. ReaderAt(f, b, c, buffer) = Dispatch(r)
        BY <3>3, <4>4, <4>6 DEF ReaderAt
      <4> QED BY <1>7, <3>2, <4>7 DEF r, line
    <3> QED BY <3>4, <3>5
  <2>3. CASE b.line # LastLine(f, b)
    <3>1. a.line = 1 /\ b.line = 2 /\ LastLine(f, b) = 3 /\ a.kind \notin {"comment", "close"}
      BY <1>1, <1>5, <1>8, <2>1, <2>3
    <3>2. line = <<"data:">> \o Body(b)
      BY <1>2, <3>1 DEF line, LineText
    <3>3. PICK n \in {2, 3} : n = Len(Body(b)) /\ Body(b) \in Seq(Chars)
      BY ItemIsPlain
    <3>4. <<"data:">> \in Seq(Chars) /\ Len(<<"data:">>) = 1 /\ "data:" \in Chars
      BY ShortTexts, CharFacts
    <3>5. /\ line \in Seq(Chars) /\ Len(line) = 1 + n /\ line[1] = "data:"
          /\ \A i \in 1 .. n : line[i + 1] = Body(b)[i]
      <4>1. /\ line \in Seq(Chars) /\ Len(line) = 1 + n
            /\ \A i \in 1 .. 1 + n : line[i] = IF i <= 1 THEN <<"data:">>[i] ELSE Body(b)[i - 1]
        BY <3>2, <3>3, <3>4, ConcatProperties
      <4>2. /\ 1 \in 1 .. 1 + n
            /\ \A i \in 1 .. n : i + 1 \in 1 .. 1 + n /\ ~(i + 1 <= 1) /\ (i + 1) - 1 = i
        OBVIOUS
      <4>3. line[1] = "data:"
        BY <4>1, <4>2
      <4> QED BY <4>1, <4>2, <4>3
    <3>6. line # <<>> /\ Tail(line) = Body(b)
      <4>1. 1 + n # 0 /\ (1 + n) - 1 = n
        OBVIOUS
      <4>2. line # <<>>
        BY <3>5, <4>1
      <4>3. Tail(line) \in Seq(Chars) /\ Len(Tail(line)) = n
            /\ \A i \in 1 .. n : Tail(line)[i] = line[i + 1]
        BY <3>5, <4>1, <4>2, HeadTailProperties
      <4>4. \A i \in 1 .. n : Tail(line)[i] = Body(b)[i]
        BY <3>5, <4>3
      <4>5. Tail(line) = Body(b)
        BY <3>3, <4>3, <4>4, SeqEqual
      <4> QED BY <4>2, <4>5
    <3>7. DataAt(f, a) = <<>> /\ DataAt(f, b) = Body(b)
      BY <1>8, <3>1 DEF DataAt
    <3>8. ProcessLine(r, line) = [r EXCEPT !.data = <<>> \o Body(b)]
      BY <1>4, <3>5, <3>6, <3>7 DEF ProcessLine
    <3>9. <<>> \o Body(b) = Body(b)
      BY <3>3, ConcatEmptySeq
    <3>10. EventAt(f, b) = EventAt(f, a)
      BY <1>8, <2>1, <3>1 DEF EventAt
    <3>11. Completed(f, b) = Completed(f, a)
      <4>1. ~(b.line >= LastLine(f, b)) /\ ~(a.line >= LastLine(f, a)) /\ b.line < LastLine(f, b)
        BY <2>1, <3>1
      <4> QED BY <1>8, <4>1 DEF Completed, Done
    <3>12. ReadyAt(f, b, c) = ReadyAt(f, a, c)
      BY <1>3, <3>11, ReadyGrows
    <3> QED BY <1>4, <1>6, <1>7, <3>7, <3>8, <3>9, <3>10, <3>11, <3>12 DEF r, line
  <2> QED BY <2>2, <2>3
<1>9. CASE /\ a.line >= LastLine(f, a) /\ a.kind \notin Terminals /\ b.line = 1
           /\ Done(f, a) = a.n
           /\ \/ b.kind = "comment" /\ b.n = a.n
              \/ b.kind = "item" /\ b.n = a.n + 1
              \/ b.kind \in Failures /\ b.n = a.n
              \/ b.kind = "close" /\ b.n = a.n
  <2>1. DataAt(f, a) = <<>> /\ EventAt(f, a) = "message"
    <3>1. ~(a.line < LastLine(f, a)) /\ (a.kind \notin {"comment", "close"} => a.line # 2)
      BY <1>1, <1>5, <1>9
    <3> QED BY <3>1 DEF DataAt, EventAt
  <2>2. b.line < LastLine(f, b) /\ ~(b.line >= LastLine(f, b)) /\ DataAt(f, b) = <<>>
    BY <1>5, <1>9 DEF DataAt
  <2>3. Completed(f, b) = Completed(f, a)
    <3>1. Done(f, b) = IF b.kind = "item" THEN b.n - 1 ELSE b.n
      BY <2>2 DEF Done
    <3>2. Done(f, b) = a.n
      BY <1>1, <1>9, <3>1 DEF Failures
    <3> QED BY <1>3, <1>9, <2>2, <3>2 DEF Completed
  <2>4. ReadyAt(f, b, c) = ReadyAt(f, a, c)
    BY <1>3, <2>3, ReadyGrows
  <2>5. CASE b.kind = "comment"
    <3>1. line = <<":">>
      BY <1>2, <1>9, <2>2, <2>5 DEF line, LineText
    <3>2. ProcessLine(r, line) = r
      BY <3>1 DEF ProcessLine
    <3>3. EventAt(f, b) = "message"
      BY <2>5 DEF EventAt
    <3> QED BY <1>4, <1>7, <2>1, <2>2, <2>4, <3>2, <3>3 DEF r, line, ReaderAt
  <2>6. CASE b.kind # "comment"
    <3>1. line = <<"event:", TypeOf(b.kind)>>
      BY <1>2, <1>9, <2>2, <2>6 DEF line, LineText
    <3>2. ProcessLine(r, line) = [r EXCEPT !.event = TypeOf(b.kind)]
      BY <3>1 DEF ProcessLine
    <3>3. EventAt(f, b) = TypeOf(b.kind)
      BY <2>2, <2>6 DEF EventAt
    <3> QED BY <1>4, <1>6, <1>7, <2>1, <2>2, <2>3, <2>4, <3>2, <3>3 DEF r, line
  <2> QED BY <2>5, <2>6
<1> QED BY <1>8, <1>9, LineFollows

-----------------------------------------------------------------------------
(* The reader's loops *)

NoLines == [lines |-> <<>>, rest |-> <<>>]
NoChars == [lines |-> <<>>, rest |-> <<>>, cr |-> FALSE]

\* g[i] is what NextLines holds after i tokens.
IsLineLoop(g, buffer, n) ==
  g = [i \in 0 .. n |-> IF i = 0 THEN NoLines ELSE NextToken(g[i - 1], buffer[i])]

\* The three loops of the reader, each a function of its steps: NextLines,
\* SplitLines, ProcessLines.
LEMMA LineLoopExists ==
  ASSUME NEW buffer, NEW n \in Nat
  PROVE  \E g : IsLineLoop(g, buffer, n)
<1> DEFINE lengths == {k \in Nat : \E g : IsLineLoop(g, buffer, k)}
<1>1. 0 \in lengths
  <2>1. IsLineLoop([i \in 0 .. 0 |-> NoLines], buffer, 0)
    BY DEF IsLineLoop
  <2> QED BY <2>1
<1>2. ASSUME NEW k \in lengths PROVE k + 1 \in lengths
  <2>1. PICK g : IsLineLoop(g, buffer, k)
    OBVIOUS
  <2> DEFINE h == [i \in 0 .. k + 1 |->
                    IF i = k + 1 THEN NextToken(g[k], buffer[k + 1]) ELSE g[i]]
  <2>2. \A i \in 0 .. k : g[i] = IF i = 0 THEN NoLines ELSE NextToken(g[i - 1], buffer[i])
    BY <2>1 DEF IsLineLoop
  <2>3. \A i \in 0 .. k : h[i] = g[i]
    OBVIOUS
  <2>4. h[k + 1] = NextToken(g[k], buffer[k + 1])
    OBVIOUS
  <2>5. \A i \in 1 .. k + 1 : i - 1 \in 0 .. k /\ (i # k + 1 => i \in 0 .. k)
    OBVIOUS
  <2>6. \A i \in 1 .. k + 1 : h[i] = NextToken(h[i - 1], buffer[i])
    <3> SUFFICES ASSUME NEW i \in 1 .. k + 1 PROVE h[i] = NextToken(h[i - 1], buffer[i])
      OBVIOUS
    <3>1. CASE i = k + 1
      <4>1. i - 1 = k /\ h[k] = g[k]
        BY <2>3, <3>1
      <4> HIDE DEF h
      <4> QED BY <2>4, <3>1, <4>1
    <3>2. CASE i # k + 1
      <4>1. h[i] = g[i] /\ h[i - 1] = g[i - 1] /\ i # 0 /\ i \in 0 .. k
        BY <2>3, <2>5, <3>2
      <4> HIDE DEF h
      <4> QED BY <2>2, <4>1
    <3> QED BY <3>1, <3>2
  <2>7. h[0] = NoLines
    BY <2>2, <2>3
  <2>8. h = [i \in 0 .. k + 1 |-> h[i]]
    OBVIOUS
  <2> HIDE DEF h
  <2>9. \A i \in 0 .. k + 1 : h[i] = IF i = 0 THEN NoLines ELSE NextToken(h[i - 1], buffer[i])
    BY <2>6, <2>7
  <2>10. IsLineLoop(h, buffer, k + 1)
    BY <2>8, <2>9 DEF IsLineLoop
  <2> QED BY <2>10
<1>3. lengths \in SUBSET Nat
  OBVIOUS
<1> HIDE DEF lengths
<1>4. lengths = Nat
  BY <1>1, <1>2, <1>3, SetInduction
<1> QED BY <1>4 DEF lengths

LEMMA LineLoopSteps ==
  ASSUME NEW buffer, NEW n \in Nat, NEW g, IsLineLoop(g, buffer, n)
  PROVE  /\ g[0] = NoLines
         /\ \A i \in 0 .. n : i < n => g[i + 1] = NextToken(g[i], buffer[i + 1])
<1>1. \A i \in 0 .. n : g[i] = IF i = 0 THEN NoLines ELSE NextToken(g[i - 1], buffer[i])
  BY DEF IsLineLoop
<1>2. \A i \in 0 .. n : i < n => i + 1 \in 0 .. n /\ i + 1 # 0 /\ (i + 1) - 1 = i
  OBVIOUS
<1>3. 0 \in 0 .. n
  OBVIOUS
<1> QED BY <1>1, <1>2, <1>3

\* g[i] is what SplitLines holds after i tokens.
IsCharLoop(g, buffer, n) ==
  g = [i \in 0 .. n |-> IF i = 0 THEN NoChars ELSE NextChar(g[i - 1], buffer[i])]

LEMMA CharLoopExists ==
  ASSUME NEW buffer, NEW n \in Nat
  PROVE  \E g : IsCharLoop(g, buffer, n)
<1> DEFINE lengths == {k \in Nat : \E g : IsCharLoop(g, buffer, k)}
<1>1. 0 \in lengths
  <2>1. IsCharLoop([i \in 0 .. 0 |-> NoChars], buffer, 0)
    BY DEF IsCharLoop
  <2> QED BY <2>1
<1>2. ASSUME NEW k \in lengths PROVE k + 1 \in lengths
  <2>1. PICK g : IsCharLoop(g, buffer, k)
    OBVIOUS
  <2> DEFINE h == [i \in 0 .. k + 1 |->
                    IF i = k + 1 THEN NextChar(g[k], buffer[k + 1]) ELSE g[i]]
  <2>2. \A i \in 0 .. k : g[i] = IF i = 0 THEN NoChars ELSE NextChar(g[i - 1], buffer[i])
    BY <2>1 DEF IsCharLoop
  <2>3. \A i \in 0 .. k : h[i] = g[i]
    OBVIOUS
  <2>4. h[k + 1] = NextChar(g[k], buffer[k + 1])
    OBVIOUS
  <2>5. \A i \in 1 .. k + 1 : i - 1 \in 0 .. k /\ (i # k + 1 => i \in 0 .. k)
    OBVIOUS
  <2>6. \A i \in 1 .. k + 1 : h[i] = NextChar(h[i - 1], buffer[i])
    <3> SUFFICES ASSUME NEW i \in 1 .. k + 1 PROVE h[i] = NextChar(h[i - 1], buffer[i])
      OBVIOUS
    <3>1. CASE i = k + 1
      <4>1. i - 1 = k /\ h[k] = g[k]
        BY <2>3, <3>1
      <4> HIDE DEF h
      <4> QED BY <2>4, <3>1, <4>1
    <3>2. CASE i # k + 1
      <4>1. h[i] = g[i] /\ h[i - 1] = g[i - 1] /\ i # 0 /\ i \in 0 .. k
        BY <2>3, <2>5, <3>2
      <4> HIDE DEF h
      <4> QED BY <2>2, <4>1
    <3> QED BY <3>1, <3>2
  <2>7. h[0] = NoChars
    BY <2>2, <2>3
  <2>8. h = [i \in 0 .. k + 1 |-> h[i]]
    OBVIOUS
  <2> HIDE DEF h
  <2>9. \A i \in 0 .. k + 1 : h[i] = IF i = 0 THEN NoChars ELSE NextChar(h[i - 1], buffer[i])
    BY <2>6, <2>7
  <2>10. IsCharLoop(h, buffer, k + 1)
    BY <2>8, <2>9 DEF IsCharLoop
  <2> QED BY <2>10
<1>3. lengths \in SUBSET Nat
  OBVIOUS
<1> HIDE DEF lengths
<1>4. lengths = Nat
  BY <1>1, <1>2, <1>3, SetInduction
<1> QED BY <1>4 DEF lengths

LEMMA CharLoopSteps ==
  ASSUME NEW buffer, NEW n \in Nat, NEW g, IsCharLoop(g, buffer, n)
  PROVE  /\ g[0] = NoChars
         /\ \A i \in 0 .. n : i < n => g[i + 1] = NextChar(g[i], buffer[i + 1])
<1>1. \A i \in 0 .. n : g[i] = IF i = 0 THEN NoChars ELSE NextChar(g[i - 1], buffer[i])
  BY DEF IsCharLoop
<1>2. \A i \in 0 .. n : i < n => i + 1 \in 0 .. n /\ i + 1 # 0 /\ (i + 1) - 1 = i
  OBVIOUS
<1>3. 0 \in 0 .. n
  OBVIOUS
<1> QED BY <1>1, <1>2, <1>3

\* g[i] is the reader r after i lines.
IsReaderLoop(g, r, lines, n) ==
  g = [i \in 0 .. n |-> IF i = 0 THEN r ELSE ProcessLine(g[i - 1], lines[i])]

LEMMA ReaderLoopExists ==
  ASSUME NEW r, NEW lines, NEW n \in Nat
  PROVE  \E g : IsReaderLoop(g, r, lines, n)
<1> DEFINE lengths == {k \in Nat : \E g : IsReaderLoop(g, r, lines, k)}
<1>1. 0 \in lengths
  <2>1. IsReaderLoop([i \in 0 .. 0 |-> r], r, lines, 0)
    BY DEF IsReaderLoop
  <2> QED BY <2>1
<1>2. ASSUME NEW k \in lengths PROVE k + 1 \in lengths
  <2>1. PICK g : IsReaderLoop(g, r, lines, k)
    OBVIOUS
  <2> DEFINE h == [i \in 0 .. k + 1 |->
                    IF i = k + 1 THEN ProcessLine(g[k], lines[k + 1]) ELSE g[i]]
  <2>2. \A i \in 0 .. k : g[i] = IF i = 0 THEN r ELSE ProcessLine(g[i - 1], lines[i])
    BY <2>1 DEF IsReaderLoop
  <2>3. \A i \in 0 .. k : h[i] = g[i]
    OBVIOUS
  <2>4. h[k + 1] = ProcessLine(g[k], lines[k + 1])
    OBVIOUS
  <2>5. \A i \in 1 .. k + 1 : i - 1 \in 0 .. k /\ (i # k + 1 => i \in 0 .. k)
    OBVIOUS
  <2>6. \A i \in 1 .. k + 1 : h[i] = ProcessLine(h[i - 1], lines[i])
    <3> SUFFICES ASSUME NEW i \in 1 .. k + 1 PROVE h[i] = ProcessLine(h[i - 1], lines[i])
      OBVIOUS
    <3>1. CASE i = k + 1
      <4>1. i - 1 = k /\ h[k] = g[k]
        BY <2>3, <3>1
      <4> HIDE DEF h
      <4> QED BY <2>4, <3>1, <4>1
    <3>2. CASE i # k + 1
      <4>1. h[i] = g[i] /\ h[i - 1] = g[i - 1] /\ i # 0 /\ i \in 0 .. k
        BY <2>3, <2>5, <3>2
      <4> HIDE DEF h
      <4> QED BY <2>2, <4>1
    <3> QED BY <3>1, <3>2
  <2>7. h[0] = r
    BY <2>2, <2>3
  <2>8. h = [i \in 0 .. k + 1 |-> h[i]]
    OBVIOUS
  <2> HIDE DEF h
  <2>9. \A i \in 0 .. k + 1 : h[i] = IF i = 0 THEN r ELSE ProcessLine(h[i - 1], lines[i])
    BY <2>6, <2>7
  <2>10. IsReaderLoop(h, r, lines, k + 1)
    BY <2>8, <2>9 DEF IsReaderLoop
  <2> QED BY <2>10
<1>3. lengths \in SUBSET Nat
  OBVIOUS
<1> HIDE DEF lengths
<1>4. lengths = Nat
  BY <1>1, <1>2, <1>3, SetInduction
<1> QED BY <1>4 DEF lengths

LEMMA ReaderLoopSteps ==
  ASSUME NEW r, NEW lines, NEW n \in Nat, NEW g, IsReaderLoop(g, r, lines, n)
  PROVE  /\ g[0] = r
         /\ \A i \in 0 .. n : i < n => g[i + 1] = ProcessLine(g[i], lines[i + 1])
<1>1. \A i \in 0 .. n : g[i] = IF i = 0 THEN r ELSE ProcessLine(g[i - 1], lines[i])
  BY DEF IsReaderLoop
<1>2. \A i \in 0 .. n : i < n => i + 1 \in 0 .. n /\ i + 1 # 0 /\ (i + 1) - 1 = i
  OBVIOUS
<1>3. 0 \in 0 .. n
  OBVIOUS
<1> QED BY <1>1, <1>2, <1>3

LEMMA NextLinesLoops ==
  ASSUME NEW buffer, NEW n \in Nat, n = Len(buffer)
  PROVE  \E g : IsLineLoop(g, buffer, n) /\ NextLines(buffer) = g[n]
<1> DEFINE g == CHOOSE h : IsLineLoop(h, buffer, n)
<1>1. IsLineLoop(g, buffer, n)
  BY LineLoopExists
<1>2. NextLines(buffer) = g[n]
  BY DEF NextLines, IsLineLoop, NoLines
<1> QED BY <1>1, <1>2

LEMMA SplitLinesLoops ==
  ASSUME NEW buffer, NEW n \in Nat, n = Len(buffer)
  PROVE  \E g : /\ IsCharLoop(g, buffer, n)
               /\ SplitLines(buffer).lines = g[n].lines
               /\ SplitLines(buffer).rest =
                    IF g[n].cr THEN Append(g[n].rest, "cr") ELSE g[n].rest
<1> DEFINE g == CHOOSE h : IsCharLoop(h, buffer, n)
<1>1. IsCharLoop(g, buffer, n)
  BY CharLoopExists
<1>2. SplitLines(buffer) = [lines |-> g[n].lines,
                            rest |-> IF g[n].cr THEN Append(g[n].rest, "cr") ELSE g[n].rest]
  BY DEF SplitLines, IsCharLoop, NoChars
<1> HIDE DEF g
<1>3. /\ SplitLines(buffer).lines = g[n].lines
      /\ SplitLines(buffer).rest = IF g[n].cr THEN Append(g[n].rest, "cr") ELSE g[n].rest
  BY <1>2
<1> QED BY <1>1, <1>3

LEMMA ProcessLinesLoops ==
  ASSUME NEW r, NEW lines, NEW n \in Nat, n = Len(lines)
  PROVE  \E g : IsReaderLoop(g, r, lines, n) /\ ProcessLines(r, lines) = g[n]
<1> DEFINE g == CHOOSE h : IsReaderLoop(h, r, lines, n)
<1>1. IsReaderLoop(g, r, lines, n)
  BY ReaderLoopExists
<1>2. ProcessLines(r, lines) = g[n]
  BY DEF ProcessLines, IsReaderLoop
<1> QED BY <1>1, <1>2

\* Lines are processed one after another.
LEMMA ProcessNothing ==
  ASSUME NEW r
  PROVE  ProcessLines(r, <<>>) = r
<1>1. 0 \in Nat /\ 0 = Len(<<>>)
  OBVIOUS
<1>2. PICK g : IsReaderLoop(g, r, <<>>, 0) /\ ProcessLines(r, <<>>) = g[0]
  BY <1>1, ProcessLinesLoops
<1> QED BY <1>1, <1>2, ReaderLoopSteps

\* One line more.
LEMMA ProcessOneMore ==
  ASSUME NEW S, NEW r, NEW lines \in Seq(S), NEW line \in S
  PROVE  ProcessLines(r, Append(lines, line)) = ProcessLine(ProcessLines(r, lines), line)
<1>1. PICK n \in Nat : n = Len(lines)
  BY LenProperties
<1>2. PICK more \in Seq(S) : more = Append(lines, line)
  BY AppendProperties
<1>3. Len(more) = n + 1 /\ n + 1 \in Nat /\ more[n + 1] = line
      /\ \A i \in 1 .. n : more[i] = lines[i]
  BY <1>1, <1>2, AppendProperties
<1>4. PICK g : IsReaderLoop(g, r, lines, n) /\ ProcessLines(r, lines) = g[n]
  BY <1>1, ProcessLinesLoops
<1>5. PICK h : IsReaderLoop(h, r, more, n + 1) /\ ProcessLines(r, more) = h[n + 1]
  BY <1>3, ProcessLinesLoops
<1>6. /\ g[0] = r /\ \A i \in 0 .. n : i < n => g[i + 1] = ProcessLine(g[i], lines[i + 1])
      /\ h[0] = r
      /\ \A i \in 0 .. n + 1 : i < n + 1 => h[i + 1] = ProcessLine(h[i], more[i + 1])
  <2>1. g[0] = r /\ \A i \in 0 .. n : i < n => g[i + 1] = ProcessLine(g[i], lines[i + 1])
    BY <1>4, ReaderLoopSteps
  <2>2. /\ h[0] = r
        /\ \A i \in 0 .. n + 1 : i < n + 1 => h[i + 1] = ProcessLine(h[i], more[i + 1])
    <3>1. PICK m \in Nat : m = n + 1
      BY <1>3
    <3>2. IsReaderLoop(h, r, more, m)
      BY <1>5, <3>1
    <3>3. h[0] = r /\ \A i \in 0 .. m : i < m => h[i + 1] = ProcessLine(h[i], more[i + 1])
      BY <3>2, ReaderLoopSteps
    <3> QED BY <3>1, <3>3
  <2> QED BY <2>1, <2>2
<1> DEFINE same == {i \in Nat : i <= n => h[i] = g[i]}
<1>7. 0 \in same
  BY <1>6
<1>8. ASSUME NEW i \in same PROVE i + 1 \in same
  <2> SUFFICES ASSUME i + 1 <= n PROVE h[i + 1] = g[i + 1]
    OBVIOUS
  <2>1. i \in 0 .. n /\ i \in 0 .. n + 1 /\ i < n /\ i < n + 1 /\ i + 1 \in 1 .. n /\ h[i] = g[i]
    OBVIOUS
  <2> QED BY <1>3, <1>6, <2>1
<1>9. n \in same
  <2>1. same \in SUBSET Nat
    OBVIOUS
  <2> HIDE DEF same
  <2> QED BY <1>7, <1>8, <2>1, SetInduction
<1>10. h[n] = g[n] /\ h[n + 1] = ProcessLine(h[n], more[n + 1])
  <2>1. n \in 0 .. n + 1 /\ n < n + 1 /\ n <= n
    OBVIOUS
  <2> QED BY <1>6, <1>9, <2>1
<1> QED BY <1>2, <1>3, <1>4, <1>5, <1>10

-----------------------------------------------------------------------------
(* What is read of a path *)

\* One token more.
LEMMA SubSeqGrows ==
  ASSUME NEW S, NEW s \in Seq(S), NEW d \in Nat, NEW j \in Nat, d <= j, j < Len(s)
  PROVE  /\ SubSeq(s, d + 1, j) \in Seq(S)
         /\ SubSeq(s, d + 1, j + 1) = Append(SubSeq(s, d + 1, j), s[j + 1])
<1>1. PICK n \in Nat : n = Len(s) /\ j < n
  BY LenProperties
<1>2. \A i \in d + 1 .. j : s[i] \in S
  <2>1. \A i \in d + 1 .. j : i \in 1 .. n
    BY <1>1
  <2> QED BY <1>1, <2>1, ElementOfSeq
<1>3. SubSeq(s, d + 1, j) \in Seq(S)
  <2>1. d + 1 \in Int /\ j \in Int
    OBVIOUS
  <2> QED BY <1>2, <2>1, SubSeqProperties
<1>4. d + 1 \in 1 .. n /\ j + 1 \in d + 1 .. n /\ j + 1 \in 1 .. n /\ (j + 1) - 1 = j
  BY <1>1
<1>5. SubSeq(s, d + 1, j + 1) = SubSeq(s, d + 1, j) \o <<s[j + 1]>>
  <2>1. SubSeq(s, d + 1, j + 1) = SubSeq(s, d + 1, (j + 1) - 1) \o <<s[j + 1]>>
    BY <1>1, <1>4, SubSeqRecursiveSecond
  <2> QED BY <1>4, <2>1
<1>6. s[j + 1] \in S
  BY <1>1, <1>4, ElementOfSeq
<1> QED BY <1>3, <1>5, <1>6, AppendIsConcat

\* A token of splitLines().
LEMMA CharFollows ==
  ASSUME NEW lines, NEW rest, NEW acc, NEW t, NEW cr \in BOOLEAN,
         acc = [lines |-> lines, rest |-> rest, cr |-> cr]
  PROVE  /\ t = "nl" => NextChar(acc, t)
                          = [lines |-> Append(lines, rest), rest |-> <<>>, cr |-> FALSE]
         /\ t = "cr" /\ ~cr => NextChar(acc, t) = [lines |-> lines, rest |-> rest, cr |-> TRUE]
<1>1. CASE t = "nl"
  BY <1>1 DEF NextChar
<1>2. CASE t = "cr" /\ ~cr
  BY <1>2 DEF NextChar
<1> QED BY <1>1, <1>2

\* Behind a "cr" comes the end of the line.
LEMMA CrThenNl ==
  ASSUME NEW f \in Formats, NEW lab, NEW text \in Seq(Chars), IsPath(f, lab, text),
         NEW j \in 1 .. Len(text), j < Len(text), text[j] = "cr", NEW d,
         InLine(f, lab, d, j), d < j
  PROVE  AtEnd(f, lab[j + 1])
<1>0. PICK n \in Nat : n = Len(text) /\ j < n
  BY LenProperties
<1>1. j \in 0 .. n /\ j + 1 \in 1 .. n /\ (j + 1) - 1 = j /\ j \in Nat
  BY <1>0
<1>2. lab[j] \in Labels /\ text[j] = Token(f, lab[j]) /\ Follows(f, lab[j], lab[j + 1])
  BY <1>0, <1>1 DEF IsPath
<1>3. lab[j].at = j - d /\ j - d < LineLength(f, lab[j]) /\ d \in Nat /\ j - d # 0
      /\ j - d \in Nat
  <2>1. /\ lab[j] = TokenAt(lab[j], j - d) /\ j - d < LineLength(f, lab[j]) /\ d \in Nat
    <3>1. j \in d + 1 .. j /\ d \in Nat
      BY <1>1 DEF InLine
    <3> QED BY <3>1 DEF InLine
  <2>2. lab[j].at = j - d
    BY <1>2, <2>1 DEF Labels, TokenAt
  <2> QED BY <1>1, <2>1, <2>2
<1>4. PICK k \in Nat : k = lab[j].at /\ k # 0
  BY <1>3
<1>5. PICK m \in 1 .. 6 : m = LineLength(f, lab[j]) /\ k < m
  BY <1>2, <1>3, <1>4, LabelSize
<1>6. k + 1 = m
  <2>1. k <= m
    BY <1>5
  <2> QED BY <1>2, <1>4, <1>5, <2>1, TokenOfLine
<1>7. ~AtEnd(f, lab[j])
  BY <1>4, <1>5 DEF AtEnd
<1>8. lab[j + 1] = TokenAt(lab[j], k + 1)
  BY <1>2, <1>4, <1>7 DEF Follows
<1>9. PICK e \in Nat : e = k + 1
  OBVIOUS
<1>10. lab[j + 1] = TokenAt(lab[j], e)
  BY <1>8, <1>9
<1>11. lab[j + 1].at = e /\ LineLength(f, lab[j + 1]) = LineLength(f, lab[j])
  BY <1>2, <1>10, SameLine
<1> QED BY <1>5, <1>6, <1>9, <1>11 DEF AtEnd

\* Of n tokens the lines end with token d, and the reader took them.
SseEnd(f, lab, text, n, c, d) ==
  /\ InLine(f, lab, d, n) /\ c <= Completed(f, lab[d])
  /\ SplitLines(text).rest = SubSeq(text, d + 1, n)
  /\ \A buffer : ProcessLines(ReaderAt(f, lab[0], c, buffer), SplitLines(text).lines)
                   = ReaderAt(f, lab[d], c, buffer)


\* The complete lines of an event stream take the reader to the beginning of
\* the line that is not complete.
LEMMA SseRead ==
  ASSUME NEW f \in Formats, f.framing = "sse",
         NEW lab, NEW text \in Seq(Chars), IsPath(f, lab, text), AtEnd(f, lab[0]),
         NEW n \in Nat, n = Len(text), NEW c \in Nat, c <= Completed(f, lab[0])
  PROVE  \E d \in 0 .. n : SseEnd(f, lab, text, n, c, d)
<1> DEFINE Lines(lines, d) ==
             \A buffer : ProcessLines(ReaderAt(f, lab[0], c, buffer), lines)
                           = ReaderAt(f, lab[d], c, buffer)
           Rest(d, j) == IF d < j /\ text[j] = "cr" THEN SubSeq(text, d + 1, j - 1)
                         ELSE SubSeq(text, d + 1, j)
<1>1. PICK g : /\ IsCharLoop(g, text, n)
               /\ SplitLines(text).lines = g[n].lines
               /\ SplitLines(text).rest = IF g[n].cr THEN Append(g[n].rest, "cr") ELSE g[n].rest
  BY SplitLinesLoops
<1>2. g[0] = NoChars /\ \A i \in 0 .. n : i < n => g[i + 1] = NextChar(g[i], text[i + 1])
  BY <1>1, CharLoopSteps
<1> DEFINE Good(j) ==
             \E d \in 0 .. j, lines \in Seq(Seq(Chars)) :
               /\ InLine(f, lab, d, j) /\ c <= Completed(f, lab[d]) /\ Lines(lines, d)
               /\ g[j] = [lines |-> lines, rest |-> Rest(d, j),
                          cr |-> (d < j /\ text[j] = "cr")]
           good == {j \in Nat : j <= n => Good(j)}
<1>3. 0 \in good
  <2>1. InLine(f, lab, 0, 0)
    BY InLineStarts
  <2>2. SubSeq(text, 1, 0) = <<>>
    BY SubSeqEmpty
  <2>3. Lines(<<>>, 0)
    BY ProcessNothing
  <2>4. <<>> \in Seq(Seq(Chars)) /\ 0 \in 0 .. 0 /\ 0 + 1 = 1 /\ ~(0 < 0)
    OBVIOUS
  <2>5. g[0] = [lines |-> <<>>, rest |-> Rest(0, 0), cr |-> (0 < 0 /\ text[0] = "cr")]
    BY <1>2, <2>2, <2>4 DEF NoChars
  <2> HIDE DEF Lines, Rest
  <2> QED BY <2>1, <2>3, <2>4, <2>5
<1>4. ASSUME NEW j \in good PROVE j + 1 \in good
  <2> HIDE DEF Good
  <2> SUFFICES ASSUME j + 1 <= n PROVE Good(j + 1)
    OBVIOUS
  <2>1. j \in Nat /\ j \in 0 .. n /\ j < n /\ j + 1 \in Nat /\ Good(j) /\ j < Len(text)
    OBVIOUS
  <2>2. PICK d \in 0 .. j, lines \in Seq(Seq(Chars)) :
          /\ InLine(f, lab, d, j) /\ c <= Completed(f, lab[d]) /\ Lines(lines, d)
          /\ g[j] = [lines |-> lines, rest |-> Rest(d, j), cr |-> (d < j /\ text[j] = "cr")]
    BY <2>1 DEF Good
  <2> HIDE DEF good, Lines
  <2> DEFINE b == lab[j + 1]
  <2>3. /\ d \in Nat /\ d <= j /\ b \in Labels
        /\ text[j + 1] = Token(f, b)
        /\ b.at = (j + 1) - d /\ (j + 1) - d <= LineLength(f, b)
        /\ NewLine(f, lab[d], TokenAt(b, 1))
        /\ ~AtEnd(f, b) => InLine(f, lab, d, j + 1)
    BY <2>1, <2>2, InLineGrows
  <2>4. b.at # 0 /\ b.at <= LineLength(f, b)
    BY <2>1, <2>3
  <2>5. AtEnd(f, b) <=> text[j + 1] = "nl"
    BY <2>3, <2>4, TokenOfLine
  <2>6. g[j + 1] = NextChar(g[j], text[j + 1])
    BY <1>2, <2>1
  <2>7. lab[d] \in Labels
    <3>1. d \in 0 .. n
      BY <2>1, <2>2
    <3> QED BY <3>1 DEF IsPath
  <2> HIDE DEF b
  <2>8. CASE AtEnd(f, b)
    <3>1. Rest(d, j) = LineText(f, b)
      <4>1. AtEnd(f, lab[j + 1]) /\ InLine(f, lab, d, j) /\ j \in Nat /\ j < Len(text)
        BY <2>1, <2>2, <2>8 DEF b
      <4>2. IsLine(text, d, j, LineText(f, lab[j + 1]))
        BY <4>1, WholeLine
      <4> QED BY <4>2 DEF b, IsLine
    <3> DEFINE longer == Append(lines, LineText(f, b))
    <3>2. LineText(f, b) \in Seq(Chars)
      BY <2>3, LineIsPlain
    <3>3. longer \in Seq(Seq(Chars))
      BY <3>2, AppendProperties
    <3>4. g[j + 1] = [lines |-> longer, rest |-> <<>>, cr |-> FALSE]
      <4> HIDE DEF Rest
      <4>1. PICK cr \in BOOLEAN : cr = (d < j /\ text[j] = "cr")
        OBVIOUS
      <4>2. PICK acc : acc = g[j]
        OBVIOUS
      <4>3. PICK rest : rest = Rest(d, j)
                        /\ acc = [lines |-> lines, rest |-> rest, cr |-> cr]
        BY <2>2, <4>1, <4>2
      <4>4. PICK t : t = text[j + 1] /\ t = "nl"
        BY <2>5, <2>8
      <4>5. NextChar(acc, t) = [lines |-> Append(lines, rest), rest |-> <<>>, cr |-> FALSE]
        BY <4>3, <4>4, CharFollows
      <4>6. g[j + 1] = NextChar(acc, t)
        BY <2>6, <4>2, <4>4
      <4>7. longer = Append(lines, rest)
        BY <3>1, <4>3
      <4> QED BY <4>5, <4>6, <4>7
    <3>5. Lines(longer, j + 1) /\ c <= Completed(f, lab[j + 1])
      <4>1. /\ \A buffer : ProcessLine(ReaderAt(f, lab[d], c, buffer), LineText(f, b))
                             = ReaderAt(f, b, c, buffer)
            /\ c <= Completed(f, b)
        <5>1. PICK a \in Labels : a = lab[d]
          BY <2>7
        <5>2. c <= Completed(f, a) /\ NewLine(f, a, TokenAt(b, 1)) /\ b \in Labels
          BY <2>2, <2>3, <5>1 DEF b
        <5>3. \A buffer : /\ ProcessLine(ReaderAt(f, a, c, buffer), LineText(f, b))
                               = ReaderAt(f, b, c, buffer)
                         /\ c <= Completed(f, b)
          BY <5>2, SseLine
        <5> QED BY <5>1, <5>3
      <4>2. \A buffer : ProcessLines(ReaderAt(f, lab[0], c, buffer), longer)
                          = ProcessLine(ProcessLines(ReaderAt(f, lab[0], c, buffer), lines),
                                        LineText(f, b))
        BY <2>2, <3>2, ProcessOneMore
      <4> QED BY <2>2, <4>1, <4>2 DEF Lines, b
    <3>6. InLine(f, lab, j + 1, j + 1)
      BY <2>1, <2>8, InLineStarts DEF b
    <3>7. j + 1 \in 0 .. j + 1 /\ ~(j + 1 < j + 1) /\ (j + 1) + 1 > j + 1
      BY <2>1
    <3>8. Rest(j + 1, j + 1) = <<>>
      <4>1. (j + 1) + 1 \in Int /\ j + 1 \in Int
        BY <2>1
      <4> QED BY <3>7, <4>1, SubSeqEmpty
    <3> HIDE DEF longer, Rest
    <3>9. g[j + 1] = [lines |-> longer, rest |-> Rest(j + 1, j + 1),
                      cr |-> (j + 1 < j + 1 /\ text[j + 1] = "cr")]
      BY <3>4, <3>7, <3>8
    <3> QED BY <3>3, <3>5, <3>6, <3>7, <3>9 DEF Good
  <2>9. CASE ~AtEnd(f, b)
    <3>1. ~(d < j /\ text[j] = "cr")
      <4> SUFFICES ASSUME d < j, text[j] = "cr" PROVE FALSE
        OBVIOUS
      <4>1. j \in 1 .. Len(text) /\ j < Len(text)
        BY <2>1, <2>3
      <4> QED BY <2>2, <2>9, <4>1, CrThenNl DEF b
    <3>2. Rest(d, j) = SubSeq(text, d + 1, j) /\ text[j + 1] # "nl"
      BY <2>5, <2>9, <3>1
    <3>3. d < j + 1 /\ d \in 0 .. j + 1 /\ (j + 1) - 1 = j
      BY <2>1, <2>3
    <3>4. g[j] = [lines |-> lines, rest |-> SubSeq(text, d + 1, j), cr |-> FALSE]
      <4> HIDE DEF Rest
      <4> QED BY <2>2, <3>1, <3>2
    <3>10. PICK rest : rest = SubSeq(text, d + 1, j)
      OBVIOUS
    <3>12. PICK t : t = text[j + 1]
      OBVIOUS
    <3>13. PICK acc : acc = g[j]
      OBVIOUS
    <3>14. acc = [lines |-> lines, rest |-> rest, cr |-> FALSE]
      BY <3>4, <3>10, <3>13
    <3>15. /\ t = "cr" => NextChar(acc, t) = [lines |-> lines, rest |-> rest, cr |-> TRUE]
           /\ t \notin {"nl", "cr"} =>
                NextChar(acc, t) = [lines |-> lines, rest |-> Append(rest, t), cr |-> FALSE]
      <4>1. PICK cr \in BOOLEAN : cr = FALSE
        OBVIOUS
      <4>2. acc = [lines |-> lines, rest |-> rest, cr |-> cr] /\ ~cr
        BY <3>14, <4>1
      <4>3. ASSUME t = "cr"
            PROVE  NextChar(acc, t) = [lines |-> lines, rest |-> rest, cr |-> TRUE]
        BY <4>2, <4>3, CharFollows
      <4>4. ASSUME t \notin {"nl", "cr"}
            PROVE  NextChar(acc, t) = [lines |-> lines, rest |-> Append(rest, t), cr |-> FALSE]
        <5>1. PICK more : more = Append(rest, t)
          OBVIOUS
        <5>2. NextChar(acc, t) = [lines |-> lines, rest |-> more, cr |-> FALSE]
          BY <4>2, <4>4, <5>1 DEF NextChar
        <5> QED BY <5>1, <5>2
      <4> QED BY <4>3, <4>4
    <3>5. g[j + 1] = [lines |-> lines, rest |-> Rest(d, j + 1),
                      cr |-> (d < j + 1 /\ text[j + 1] = "cr")]
      <4>1. CASE text[j + 1] = "cr"
        <5>1. g[j + 1] = [lines |-> lines, rest |-> SubSeq(text, d + 1, j), cr |-> TRUE]
          BY <2>6, <3>10, <3>12, <3>13, <3>15, <4>1
        <5>2. Rest(d, j + 1) = SubSeq(text, d + 1, j)
          BY <3>3, <4>1
        <5> HIDE DEF Rest
        <5> QED BY <3>3, <4>1, <5>1, <5>2
      <4>2. CASE text[j + 1] # "cr"
        <5>1. g[j + 1] = [lines |-> lines, rest |-> Append(SubSeq(text, d + 1, j), text[j + 1]),
                          cr |-> FALSE]
          BY <2>6, <3>2, <3>10, <3>12, <3>13, <3>15, <4>2
        <5>2. SubSeq(text, d + 1, j + 1) = Append(SubSeq(text, d + 1, j), text[j + 1])
          <6>1. d \in Nat /\ j \in Nat /\ d <= j /\ j < Len(text)
            BY <2>1, <2>3
          <6> QED BY <6>1, SubSeqGrows
        <5>3. Rest(d, j + 1) = SubSeq(text, d + 1, j + 1)
          BY <4>2
        <5> HIDE DEF Rest
        <5> QED BY <4>2, <5>1, <5>2, <5>3
      <4> QED BY <4>1, <4>2
    <3> HIDE DEF Rest
    <3> QED BY <2>2, <2>3, <2>9, <3>3, <3>5 DEF Good
  <2> QED BY <2>8, <2>9
<1>5. Good(n)
  <2>1. good \in SUBSET Nat /\ n <= n
    OBVIOUS
  <2>2. n \in good
    <3> HIDE DEF good
    <3> QED BY <1>3, <1>4, <2>1, SetInduction
  <2> HIDE DEF Good
  <2> QED BY <2>1, <2>2
<1>6. PICK d \in 0 .. n, lines \in Seq(Seq(Chars)) :
        /\ InLine(f, lab, d, n) /\ c <= Completed(f, lab[d]) /\ Lines(lines, d)
        /\ g[n] = [lines |-> lines, rest |-> Rest(d, n), cr |-> (d < n /\ text[n] = "cr")]
  BY <1>5
<1> HIDE DEF Good, good, Lines
<1>9. /\ g[n].lines = lines /\ g[n].rest = Rest(d, n)
      /\ g[n].cr = (d < n /\ text[n] = "cr")
  <2> HIDE DEF Rest
  <2> QED BY <1>6
<1>7. SplitLines(text).rest = SubSeq(text, d + 1, n)
  <2>1. CASE d < n /\ text[n] = "cr"
    <3>1. Rest(d, n) = SubSeq(text, d + 1, n - 1)
      BY <2>1
    <3>2. n - 1 \in Nat /\ d \in Nat /\ d <= n - 1 /\ n - 1 < n /\ (n - 1) + 1 = n
      BY <2>1
    <3>3. PICK k \in Nat : k = n - 1 /\ d <= k /\ k < Len(text)
      BY <3>2
    <3>5. PICK t \in Seq(Chars) : t = text
      OBVIOUS
    <3>6. d \in Nat /\ d <= k /\ k < Len(t)
      BY <3>2, <3>3, <3>5
    <3>4. SubSeq(text, d + 1, n) = Append(SubSeq(text, d + 1, n - 1), "cr")
      <4>1. SubSeq(text, d + 1, k + 1) = Append(SubSeq(text, d + 1, k), text[k + 1])
        <5> HIDE <1>6, <1>9, <2>1
        <5> QED BY <3>5, <3>6, SubSeqGrows
      <4> QED BY <2>1, <3>2, <3>3, <4>1
    <3> HIDE DEF Rest
    <3> QED BY <1>1, <1>9, <2>1, <3>1, <3>4
  <2>2. CASE ~(d < n /\ text[n] = "cr")
    <3>1. Rest(d, n) = SubSeq(text, d + 1, n)
      BY <2>2
    <3> HIDE DEF Rest
    <3> QED BY <1>1, <1>9, <2>2, <3>1
  <2> QED BY <2>1, <2>2
<1>8. SplitLines(text).lines = lines
  <2> HIDE DEF Rest
  <2> QED BY <1>1, <1>9
<1> HIDE DEF Rest
<1> QED BY <1>6, <1>7, <1>8 DEF Lines, SseEnd

\* trim() leaves a text without blanks as it is, and takes a "cr" behind it away.
IsPlain(t) == Len(t) # 0 /\ \A i \in 1 .. Len(t) : t[i] \notin {"nl", "cr", " "}

\* trim() leaves a line alone but for the "cr" of its end.
LEMMA TrimPlain ==
  ASSUME NEW t \in Seq(Chars), IsPlain(t)
  PROVE  Trim(t) = t /\ Trim(Append(t, "cr")) = t
<1>1. PICK k \in Nat : k = Len(t) /\ k # 0
  BY LenProperties DEF IsPlain
<1>0. \A i \in 1 .. k : t[i] \notin {"nl", "cr", " "}
  BY <1>1 DEF IsPlain
<1>2. ASSUME NEW s, DOMAIN s = 1 .. k \/ DOMAIN s = 1 .. k + 1,
             \A i \in 1 .. k : s[i] = t[i], k + 1 \in DOMAIN s => s[k + 1] = "cr"
      PROVE  Trim(s) = SubSeq(s, 1, k)
  <2> DEFINE ink == {i \in DOMAIN s : s[i] \notin {" ", "cr"}}
  <2>1. ink = 1 .. k
    <3>1. \A i \in 1 .. k : i \in DOMAIN s /\ s[i] \notin {" ", "cr"}
      <4> SUFFICES ASSUME NEW i \in 1 .. k PROVE i \in DOMAIN s /\ s[i] \notin {" ", "cr"}
        OBVIOUS
      <4>1. s[i] = t[i] /\ t[i] \notin {"nl", "cr", " "}
        BY <1>0, <1>2
      <4>2. i \in 1 .. k + 1
        OBVIOUS
      <4> QED BY <1>2, <4>1, <4>2
    <3>2. \A i \in DOMAIN s : i \in 1 .. k \/ i = k + 1
      BY <1>1, <1>2
    <3> QED BY <1>2, <3>1, <3>2
  <2> HIDE DEF ink
  <2>2. ink # {} /\ 1 \in ink /\ k \in ink /\ (\A i \in ink : 1 <= i /\ i <= k /\ i \in Nat)
    BY <1>1, <2>1
  <2>3. Min(ink) = 1 /\ Max(ink) = k
    <3>1. Min(ink) \in ink /\ \A i \in ink : Min(ink) <= i
      BY <2>2 DEF Min
    <3>2. Max(ink) \in ink /\ \A i \in ink : Max(ink) >= i
      BY <2>2 DEF Max
    <3>3. PICK a \in Nat : a = Min(ink) /\ 1 <= a /\ a <= 1
      BY <2>2, <3>1
    <3>4. PICK b \in Nat : b = Max(ink) /\ b <= k /\ b >= k
      BY <2>2, <3>2
    <3>5. a = 1
      BY <3>3
    <3>6. b = k
      BY <1>1, <3>4
    <3> QED BY <3>3, <3>4, <3>5, <3>6
  <2> QED BY <2>2, <2>3 DEF Trim, ink
<1>3. Trim(t) = t
  <2>1. DOMAIN t = 1 .. k /\ ~(k + 1 \in DOMAIN t)
    BY <1>1, LenProperties
  <2>2. Trim(t) = SubSeq(t, 1, k)
    BY <1>2, <2>1
  <2> QED BY <1>1, <2>2, SubSeqFull
<1>4. PICK s : s = Append(t, "cr")
  OBVIOUS
<1>5. "cr" \in Chars
  BY CharFacts
<1>6. s \in Seq(Chars) /\ Len(s) = k + 1 /\ (\A i \in 1 .. k : s[i] = t[i]) /\ s[k + 1] = "cr"
  BY <1>1, <1>4, <1>5, AppendProperties
<1>7. DOMAIN s = 1 .. k + 1
  BY <1>6, LenProperties
<1>8. Trim(s) = SubSeq(s, 1, k)
  BY <1>2, <1>6, <1>7
<1>9. SubSeq(s, 1, k) = t
  <2>1. \A i \in 1 .. k : s[i] \in Chars
    <3>1. \A i \in 1 .. k : i \in 1 .. Len(s)
      BY <1>1, <1>6
    <3> QED BY <1>6, <3>1, ElementOfSeq
  <2>2. /\ SubSeq(s, 1, k) \in Seq(Chars)
        /\ Len(SubSeq(s, 1, k)) = IF 1 <= k THEN k - 1 + 1 ELSE 0
        /\ \A i \in 1 .. k - 1 + 1 : SubSeq(s, 1, k)[i] = s[1 + i - 1]
    BY <1>1, <2>1, SubSeqProperties
  <2>3. 1 <= k /\ k - 1 + 1 = k /\ \A i \in 1 .. k : 1 + i - 1 = i
    BY <1>1
  <2>4. Len(SubSeq(s, 1, k)) = k /\ \A i \in 1 .. k : SubSeq(s, 1, k)[i] = t[i]
    BY <1>6, <2>2, <2>3
  <2> QED BY <1>1, <2>2, <2>4, SeqEqual
<1> QED BY <1>3, <1>4, <1>8, <1>9

\* The events of a jsonl body's lines.
LinesToEvents(lines) == [i \in DOMAIN lines |-> <<"message", lines[i]>>]

\* The lines of a jsonl body as events.
LEMMA EventsGrow ==
  ASSUME NEW lines \in Seq(Seq(Chars)), NEW line \in Seq(Chars)
  PROVE  LinesToEvents(Append(lines, line)) = Append(LinesToEvents(lines), <<"message", line>>)
<1>1. PICK n \in Nat : n = Len(lines)
  BY LenProperties
<1>2. PICK more : more = Append(lines, line)
  OBVIOUS
<1>3. /\ more \in Seq(Seq(Chars)) /\ Len(more) = n + 1 /\ more[n + 1] = line
      /\ \A i \in 1 .. n : more[i] = lines[i]
  BY <1>1, <1>2, AppendProperties
<1>4. DOMAIN lines = 1 .. n /\ DOMAIN more = 1 .. n + 1
  BY <1>1, <1>3, LenProperties
<1> DEFINE Entries == {"message"} \X Seq(Chars)
           s == LinesToEvents(lines)
           t == LinesToEvents(more)
<1>5. \A i \in 1 .. n : lines[i] \in Seq(Chars)
  BY <1>1, ElementOfSeq
<1>6. \A i \in 1 .. n + 1 : more[i] \in Seq(Chars)
  BY <1>3, ElementOfSeq
<1>7. s \in Seq(Entries) /\ Len(s) = n /\ \A i \in 1 .. n : s[i] = <<"message", lines[i]>>
  <2>1. s = [i \in 1 .. n |-> <<"message", lines[i]>>]
    BY <1>4 DEF LinesToEvents
  <2> HIDE DEF s
  <2>2. s \in [1 .. n -> Entries] /\ \A i \in 1 .. n : s[i] = <<"message", lines[i]>>
    BY <1>5, <2>1
  <2>3. DOMAIN s = 1 .. n
    BY <2>2
  <2> HIDE DEF Entries
  <2>4. s \in Seq(Entries)
    BY <2>2, SeqDef
  <2> QED BY <2>2, <2>3, <2>4
<1>8. t \in Seq(Entries) /\ Len(t) = n + 1
      /\ \A i \in 1 .. n + 1 : t[i] = <<"message", more[i]>>
  <2>1. t = [i \in 1 .. n + 1 |-> <<"message", more[i]>>]
    BY <1>4 DEF LinesToEvents
  <2> HIDE DEF t
  <2>2. t \in [1 .. n + 1 -> Entries] /\ \A i \in 1 .. n + 1 : t[i] = <<"message", more[i]>>
    BY <1>6, <2>1
  <2>3. DOMAIN t = 1 .. n + 1 /\ n + 1 \in Nat
    BY <2>2
  <2> HIDE DEF Entries
  <2>4. t \in Seq(Entries)
    BY <2>2, <2>3, SeqDef
  <2> QED BY <2>2, <2>3, <2>4
<1>9. PICK e \in Entries : e = <<"message", line>>
  OBVIOUS
<1> HIDE DEF Entries, s, t
<1>10. PICK u : u = Append(s, e)
  OBVIOUS
<1>11. u \in Seq(Entries) /\ Len(u) = n + 1 /\ (\A i \in 1 .. n : u[i] = s[i]) /\ u[n + 1] = e
  BY <1>7, <1>10, AppendProperties
<1>12. \A i \in 1 .. n + 1 : t[i] = u[i]
  <2> SUFFICES ASSUME NEW i \in 1 .. n + 1 PROVE t[i] = u[i]
    OBVIOUS
  <2>1. i \in 1 .. n \/ i = n + 1
    OBVIOUS
  <2> QED BY <1>3, <1>7, <1>8, <1>9, <1>11, <2>1
<1>13. t = u
  BY <1>8, <1>11, <1>12, SeqEqual
<1> QED BY <1>2, <1>9, <1>10, <1>13 DEF s, t

LEMMA NothingReady ==
  ASSUME NEW f \in Formats, NEW l \in Labels, NEW c \in Nat, c <= Completed(f, l)
  PROVE  ReadyAt(f, l, c) = <<>> <=> c = Completed(f, l)
<1>1. PICK m \in Nat : m = Completed(f, l)
  BY CompletedType
<1>2. PICK s \in Seq(AllEvents) : s = ReadyAt(f, l, c) /\ Len(s) = m - c
  BY <1>1, ReadyType
<1>3. s = <<>> <=> m - c = 0
  BY <1>2, EmptySeq
<1>4. m - c = 0 <=> c = m
  BY <1>1
<1> QED BY <1>1, <1>2, <1>3, <1>4

LEMMA NoLinesNoEvents == LinesToEvents(<<>>) = <<>>
BY DEF LinesToEvents

JsonlEnd(f, lab, text, n, c, d) ==
  /\ InLine(f, lab, d, n) /\ c <= Completed(f, lab[d])
  /\ NextLines(text).rest = SubSeq(text, d + 1, n)
  /\ LinesToEvents(NextLines(text).lines) = ReadyAt(f, lab[d], c)


\* The complete lines of a jsonl body are the events up to the line that is not
\* complete.
LEMMA JsonlRead ==
  ASSUME NEW f \in Formats, f.framing = "jsonl",
         NEW lab, NEW text \in Seq(Chars), IsPath(f, lab, text), AtEnd(f, lab[0]),
         NEW n \in Nat, n = Len(text), NEW c \in Nat, c = Completed(f, lab[0])
  PROVE  \E d \in 0 .. n : JsonlEnd(f, lab, text, n, c, d)
<1>1. PICK g : IsLineLoop(g, text, n) /\ NextLines(text) = g[n]
  BY NextLinesLoops
<1>2. g[0] = NoLines /\ \A i \in 0 .. n : i < n => g[i + 1] = NextToken(g[i], text[i + 1])
  BY <1>1, LineLoopSteps
<1> DEFINE Good(j) ==
             \E d \in 0 .. j, lines \in Seq(Seq(Chars)) :
               /\ InLine(f, lab, d, j) /\ c <= Completed(f, lab[d])
               /\ LinesToEvents(lines) = ReadyAt(f, lab[d], c)
               /\ g[j] = [lines |-> lines, rest |-> SubSeq(text, d + 1, j)]
           good == {j \in Nat : j <= n => Good(j)}
<1>3. 0 \in good
  <2>1. InLine(f, lab, 0, 0)
    BY InLineStarts
  <2>2. SubSeq(text, 1, 0) = <<>>
    BY SubSeqEmpty
  <2>3. lab[0] \in Labels
    <3>1. 0 \in 0 .. n
      OBVIOUS
    <3> QED BY <3>1 DEF IsPath
  <2>4. c <= Completed(f, lab[0])
    BY <2>3, CompletedType
  <2>5. LinesToEvents(<<>>) = ReadyAt(f, lab[0], c)
    BY <2>3, <2>4, NothingReady, NoLinesNoEvents
  <2>6. <<>> \in Seq(Seq(Chars)) /\ 0 \in 0 .. 0 /\ 0 + 1 = 1
    OBVIOUS
  <2>7. g[0] = [lines |-> <<>>, rest |-> SubSeq(text, 0 + 1, 0)]
    BY <1>2, <2>2, <2>6 DEF NoLines
  <2>8. Good(0)
    BY <2>1, <2>4, <2>5, <2>6, <2>7
  <2> HIDE DEF Good
  <2> QED BY <2>8
<1>4. ASSUME NEW j \in good PROVE j + 1 \in good
  <2> HIDE DEF Good
  <2> SUFFICES ASSUME j + 1 <= n PROVE Good(j + 1)
    OBVIOUS
  <2>1. j \in Nat /\ j \in 0 .. n /\ j < n /\ j + 1 \in Nat /\ Good(j) /\ j < Len(text)
    OBVIOUS
  <2>2. PICK d \in 0 .. j, lines \in Seq(Seq(Chars)) :
          /\ InLine(f, lab, d, j) /\ c <= Completed(f, lab[d])
          /\ LinesToEvents(lines) = ReadyAt(f, lab[d], c)
          /\ g[j] = [lines |-> lines, rest |-> SubSeq(text, d + 1, j)]
    BY <2>1 DEF Good
  <2> HIDE DEF good
  <2> DEFINE b == lab[j + 1]
  <2>3. /\ d \in Nat /\ d <= j /\ b \in Labels
        /\ text[j + 1] = Token(f, b)
        /\ b.at = (j + 1) - d /\ (j + 1) - d <= LineLength(f, b)
        /\ NewLine(f, lab[d], TokenAt(b, 1))
        /\ ~AtEnd(f, b) => InLine(f, lab, d, j + 1)
    BY <2>1, <2>2, InLineGrows
  <2>4. b.at # 0 /\ b.at <= LineLength(f, b)
    BY <2>1, <2>3
  <2>5. AtEnd(f, b) <=> text[j + 1] = "nl"
    BY <2>3, <2>4, TokenOfLine
  <2>6. g[j + 1] = NextToken(g[j], text[j + 1])
    BY <1>2, <2>1
  <2>7. lab[d] \in Labels
    <3>1. d \in 0 .. n
      BY <2>1, <2>2
    <3> QED BY <3>1 DEF IsPath
  <2>8. PICK rest : rest = SubSeq(text, d + 1, j)
    OBVIOUS
  <2>9. PICK acc : acc = g[j] /\ acc = [lines |-> lines, rest |-> rest]
    BY <2>2, <2>8
  <2>10. PICK t : t = text[j + 1]
    OBVIOUS
  <2>11. PICK x : x = Trim(rest)
    OBVIOUS
  <2>12. PICK more : more = Append(rest, t)
    OBVIOUS
  <2> HIDE DEF b
  <2>13. CASE AtEnd(f, b)
    <3>1. x = LineText(f, b) /\ x # <<>>
      <4>1. AtEnd(f, lab[j + 1]) /\ InLine(f, lab, d, j) /\ j \in Nat /\ j < Len(text)
        BY <2>1, <2>2, <2>13 DEF b
      <4>2. IsLine(text, d, j, LineText(f, lab[j + 1]))
        BY <4>1, WholeLine
      <4>3. rest = LineText(f, b) \/ rest = Append(LineText(f, b), "cr")
        BY <2>8, <4>2 DEF b, IsLine
      <4>4. LineText(f, b) \in Seq(Chars) /\ IsPlain(LineText(f, b))
        <5>1. LineText(f, b) = Body(b) /\ LineText(f, b) \in Seq(Chars)
              /\ \A i \in 1 .. Len(LineText(f, b)) : LineText(f, b)[i] \notin {"nl", "cr", " "}
          BY <2>3, LineIsPlain
        <5>2. PICK k \in {2, 3} : k = Len(Body(b))
          BY <2>3, ItemIsPlain
        <5>4. LineText(f, b) = Body(b)
          BY <5>1
        <5>5. k # 0
          OBVIOUS
        <5>3. k # 0 /\ k = Len(LineText(f, b))
          BY <5>2, <5>4, <5>5
        <5> QED BY <5>1, <5>3 DEF IsPlain
      <4>5. Trim(rest) = LineText(f, b)
        BY <4>3, <4>4, TrimPlain
      <4>6. LineText(f, b) # <<>>
        <5>1. Len(<<>>) = 0
          OBVIOUS
        <5> QED BY <4>4, <5>1 DEF IsPlain
      <4> QED BY <2>11, <4>5, <4>6
    <3>2. LineText(f, b) \in Seq(Chars)
      BY <2>3, LineIsPlain
    <3>3. PICK longer \in Seq(Seq(Chars)) : longer = Append(lines, x)
      BY <3>1, <3>2, AppendProperties
    <3>4. t = "nl"
      BY <2>5, <2>10, <2>13
    <3>5. NextToken(acc, t) = [lines |-> longer, rest |-> <<>>]
      <4>1. acc.lines = lines /\ acc.rest = rest
        BY <2>9
      <4>2. NextToken(acc, t) = [lines |-> IF Trim(acc.rest) = <<>> THEN acc.lines
                                           ELSE Append(acc.lines, Trim(acc.rest)),
                                 rest |-> <<>>]
        BY <3>4 DEF NextToken
      <4> QED BY <2>11, <3>1, <3>3, <4>1, <4>2
    <3>6. /\ LinesToEvents(longer) = ReadyAt(f, lab[j + 1], c)
          /\ c <= Completed(f, lab[j + 1])
      <4>1. PICK a \in Labels : a = lab[d]
        BY <2>7
      <4>2. c <= Completed(f, a) /\ NewLine(f, a, TokenAt(b, 1)) /\ b \in Labels
        BY <2>2, <2>3, <4>1 DEF b
      <4>3. /\ ReadyAt(f, b, c) = Append(ReadyAt(f, a, c), <<"message", LineText(f, b)>>)
            /\ Completed(f, b) = Completed(f, a) + 1
        BY <4>2, JsonlLine
      <4>4. PICK line \in Seq(Chars) : line = LineText(f, b)
        BY <3>2
      <4>5. LinesToEvents(Append(lines, line)) = Append(LinesToEvents(lines), <<"message", line>>)
        BY EventsGrow
      <4>6. c <= Completed(f, b)
        <5>1. PICK m \in Nat : m = Completed(f, a)
          BY CompletedType
        <5> QED BY <4>2, <4>3, <5>1
      <4> QED BY <2>2, <3>1, <3>3, <4>1, <4>3, <4>4, <4>5, <4>6 DEF b
    <3>7. InLine(f, lab, j + 1, j + 1)
      BY <2>1, <2>13, InLineStarts DEF b
    <3>8. j + 1 \in 0 .. j + 1 /\ (j + 1) + 1 > j + 1 /\ (j + 1) + 1 \in Int /\ j + 1 \in Int
      BY <2>1
    <3>9. SubSeq(text, (j + 1) + 1, j + 1) = <<>>
      BY <3>8, SubSeqEmpty
    <3>10. g[j + 1] = [lines |-> longer, rest |-> SubSeq(text, (j + 1) + 1, j + 1)]
      BY <2>6, <2>9, <2>10, <3>5, <3>9
    <3> QED BY <3>6, <3>7, <3>8, <3>10 DEF Good
  <2>14. CASE ~AtEnd(f, b)
    <3>1. t # "nl"
      BY <2>5, <2>10, <2>14
    <3>2. NextToken(acc, t) = [lines |-> lines, rest |-> more]
      <4>1. acc.lines = lines /\ acc.rest = rest
        BY <2>9
      <4>2. NextToken(acc, t) = [acc EXCEPT !.rest = Append(@, t)]
        BY <3>1 DEF NextToken
      <4>3. NextToken(acc, t) = [acc EXCEPT !.rest = more]
        BY <2>12, <4>1, <4>2
      <4> QED BY <2>9, <4>3
    <3>3. more = SubSeq(text, d + 1, j + 1)
      <4>1. SubSeq(text, d + 1, j + 1) = Append(SubSeq(text, d + 1, j), text[j + 1])
        <5>1. d \in Nat /\ j \in Nat /\ d <= j /\ j < Len(text)
          BY <2>1, <2>3
        <5> QED BY <5>1, SubSeqGrows
      <4> QED BY <2>8, <2>10, <2>12, <4>1
    <3>4. d \in 0 .. j + 1
      BY <2>1, <2>3
    <3>5. g[j + 1] = [lines |-> lines, rest |-> SubSeq(text, d + 1, j + 1)]
      BY <2>6, <2>9, <2>10, <3>2, <3>3
    <3> QED BY <2>2, <2>3, <2>14, <3>4, <3>5 DEF Good
  <2> QED BY <2>13, <2>14
<1>5. Good(n)
  <2>1. good \in SUBSET Nat /\ n <= n
    OBVIOUS
  <2>2. n \in good
    <3> HIDE DEF good
    <3> QED BY <1>3, <1>4, <2>1, SetInduction
  <2> HIDE DEF Good
  <2> QED BY <2>1, <2>2
<1>6. PICK d \in 0 .. n, lines \in Seq(Seq(Chars)) :
        /\ InLine(f, lab, d, n) /\ c <= Completed(f, lab[d])
        /\ LinesToEvents(lines) = ReadyAt(f, lab[d], c)
        /\ g[n] = [lines |-> lines, rest |-> SubSeq(text, d + 1, n)]
  BY <1>5
<1> HIDE DEF Good, good
<1>7. NextLines(text).rest = SubSeq(text, d + 1, n) /\ NextLines(text).lines = lines
  <2>1. PICK rest : rest = SubSeq(text, d + 1, n)
    OBVIOUS
  <2>2. NextLines(text) = [lines |-> lines, rest |-> rest]
    BY <1>1, <1>6, <2>1
  <2> QED BY <2>1, <2>2
<1> QED BY <1>6, <1>7 DEF JsonlEnd

-----------------------------------------------------------------------------
(* Paths are cut, shifted and written *)

\* A part of a path is a path.
LEMMA PathPrefix ==
  ASSUME NEW f, NEW lab, NEW text \in Seq(Chars), IsPath(f, lab, text),
         NEW pre \in Seq(Chars), Len(pre) <= Len(text),
         \A i \in 1 .. Len(pre) : pre[i] = text[i]
  PROVE  IsPath(f, lab, pre)
<1>1. PICK n \in Nat : n = Len(text)
  BY LenProperties
<1>2. PICK k \in Nat : k = Len(pre) /\ k <= n
  BY <1>1, LenProperties
<1>3. (\A i \in 0 .. k : i \in 0 .. n) /\ (\A i \in 1 .. k : i \in 1 .. n)
  BY <1>2
<1>4. \A i \in 1 .. k : pre[i] = text[i]
  BY <1>2
<1> QED BY <1>1, <1>2, <1>3, <1>4 DEF IsPath

LEMMA PathShift ==
  ASSUME NEW f, NEW lab, NEW text \in Seq(Chars), IsPath(f, lab, text),
         NEW n \in Nat, n = Len(text), NEW d \in 0 .. n
  PROVE  /\ SubSeq(text, d + 1, n) \in Seq(Chars) /\ Len(SubSeq(text, d + 1, n)) = n - d
         /\ IsPath(f, [i \in 0 .. n - d |-> lab[d + i]], SubSeq(text, d + 1, n))
<1>1. PICK s : s = SubSeq(text, d + 1, n)
  OBVIOUS
<1>2. /\ s \in Seq(Chars) /\ Len(s) = n - d /\ \A i \in 1 .. n - d : s[i] = text[d + i]
  <2>1. \A i \in d + 1 .. n : text[i] \in Chars
    <3>1. \A i \in d + 1 .. n : i \in 1 .. n
      OBVIOUS
    <3> QED BY <3>1, ElementOfSeq
  <2>2. /\ s \in Seq(Chars) /\ Len(s) = IF d + 1 <= n THEN n - (d + 1) + 1 ELSE 0
        /\ \A i \in 1 .. n - (d + 1) + 1 : s[i] = text[(d + 1) + i - 1]
    <3>1. d + 1 \in Int /\ n \in Int
      OBVIOUS
    <3> QED BY <1>1, <2>1, <3>1, SubSeqProperties
  <2>3. /\ n - (d + 1) + 1 = n - d /\ (~(d + 1 <= n) => n - d = 0)
        /\ \A i \in 1 .. n - d : (d + 1) + i - 1 = d + i
    OBVIOUS
  <2> QED BY <2>2, <2>3
<1>3. PICK shifted : shifted = [i \in 0 .. n - d |-> lab[d + i]]
  OBVIOUS
<1>4. \A i \in 0 .. n - d : shifted[i] = lab[d + i]
  BY <1>3
<1>5. \A i \in 0 .. n - d : shifted[i] \in Labels
  <2>1. \A i \in 0 .. n - d : d + i \in 0 .. n
    OBVIOUS
  <2> QED BY <1>4, <2>1 DEF IsPath
<1>6. \A i \in 1 .. n - d : Follows(f, shifted[i - 1], shifted[i]) /\ s[i] = Token(f, shifted[i])
  <2> SUFFICES ASSUME NEW i \in 1 .. n - d
               PROVE  Follows(f, shifted[i - 1], shifted[i]) /\ s[i] = Token(f, shifted[i])
    OBVIOUS
  <2>1. PICK e \in 1 .. n : e = d + i
    OBVIOUS
  <2>2. i \in 0 .. n - d /\ i - 1 \in 0 .. n - d /\ d + (i - 1) = e - 1
    BY <2>1
  <2>3. shifted[i] = lab[e] /\ shifted[i - 1] = lab[e - 1] /\ s[i] = text[e]
    BY <1>2, <1>4, <2>1, <2>2
  <2> QED BY <2>3 DEF IsPath
<1>7. IsPath(f, shifted, s)
  BY <1>2, <1>5, <1>6 DEF IsPath
<1> QED BY <1>1, <1>2, <1>3, <1>7

\* A path grew by lines of the kind and number of b, the last of which is b's.
Grown(f, lab, text, longer, whole, b) ==
  /\ whole \in Seq(Chars) /\ Len(text) < Len(whole)
  /\ IsPath(f, longer, whole)
  /\ \A i \in 0 .. Len(text) : longer[i] = lab[i]
  /\ \A i \in Len(text) + 1 .. Len(whole) : longer[i].kind = b.kind /\ longer[i].n = b.n
  /\ AtEnd(f, longer[Len(whole)])
  /\ longer[Len(whole)].line = b.line

\* A line of label b is written behind a text whose last line has ended.
LEMMA PathGrows ==
  ASSUME NEW f \in Formats, NEW lab, NEW text \in Seq(Chars), IsPath(f, lab, text),
         NEW n \in Nat, n = Len(text), AtEnd(f, lab[n]),
         NEW b \in Labels, NewLine(f, lab[n], TokenAt(b, 1)),
         NEW line, line = LineText(f, b) \o f.newline
  PROVE  \E longer : Grown(f, lab, text, longer, text \o line, b)
<1>1. PICK k \in 0 .. 4 : k = Len(LineText(f, b)) /\ LineText(f, b) \in Seq(Chars)
  BY LineIsPlain
<1>2. PICK w \in {1, 2} : LineLength(f, b) = k + w /\ (w = 2 <=> f.newline = <<"cr", "nl">>)
  BY <1>1, LineSize
<1>3. f.newline \in Seq(Chars) /\ Len(f.newline) = w
  <2>1. <<"nl">> \in Seq(Chars) /\ <<"cr", "nl">> \in Seq(Chars)
    BY CharFacts, ShortTexts
  <2>2. w = 1 \/ w = 2
    OBVIOUS
  <2> QED BY <1>2, <2>1, <2>2, NewlineFacts
<1>4. PICK m \in Nat : m = k + w /\ m # 0
  BY <1>2
<1>5. /\ line \in Seq(Chars) /\ Len(line) = m
      /\ \A i \in 1 .. m : line[i] = IF i <= k THEN LineText(f, b)[i] ELSE f.newline[i - k]
  BY <1>1, <1>3, <1>4, ConcatProperties
<1>6. PICK whole : whole = text \o line
  OBVIOUS
<1>7. /\ whole \in Seq(Chars) /\ Len(whole) = n + m
      /\ \A i \in 1 .. n + m : whole[i] = IF i <= n THEN text[i] ELSE line[i - n]
  <2>1. line \in Seq(Chars) /\ Len(line) = m
    BY <1>5
  <2> QED BY <1>6, <2>1, ConcatProperties
<1>8. PICK longer : longer = [i \in 0 .. n + m |-> IF i <= n THEN lab[i] ELSE TokenAt(b, i - n)]
  OBVIOUS
<1>9. \A i \in 0 .. n : longer[i] = lab[i] /\ longer[i] \in Labels
  <2>1. \A i \in 0 .. n : i \in 0 .. n + m /\ i <= n
    OBVIOUS
  <2>2. \A i \in 0 .. n : lab[i] \in Labels
    BY DEF IsPath
  <2> QED BY <1>8, <2>1, <2>2
<1>10. ASSUME NEW j \in 1 .. m
       PROVE  /\ longer[n + j] = TokenAt(b, j) /\ longer[n + j] \in Labels
              /\ longer[n + j].at = j /\ longer[n + j].kind = b.kind
              /\ longer[n + j].n = b.n /\ longer[n + j].line = b.line
              /\ LineText(f, longer[n + j]) = LineText(f, b)
              /\ LineLength(f, longer[n + j]) = m
              /\ whole[n + j] = Token(f, longer[n + j])
  <2>1. n + j \in 0 .. n + m /\ n + j \in 1 .. n + m /\ ~(n + j <= n) /\ (n + j) - n = j
        /\ j \in Nat
    OBVIOUS
  <2>2. longer[n + j] = TokenAt(b, j)
    BY <1>8, <2>1
  <2>3. PICK l : l = longer[n + j]
    OBVIOUS
  <2>4. l = TokenAt(b, j)
    BY <2>2, <2>3
  <2>5. /\ l \in Labels /\ l.at = j /\ l.kind = b.kind /\ l.n = b.n /\ l.line = b.line
        /\ LineText(f, l) = LineText(f, b) /\ LineLength(f, l) = LineLength(f, b)
    <3>1. l \in Labels /\ l.at = j /\ l.kind = b.kind /\ l.n = b.n /\ l.line = b.line
      BY <2>1, <2>4 DEF Labels, TokenAt
    <3>2. LineText(f, l) = LineText(f, b)
      BY <2>1, <2>4, SameLine
    <3>3. LineLength(f, l) = LineLength(f, b)
      BY <2>1, <2>4, SameLine
    <3> QED BY <3>1, <3>2, <3>3
  <2>6. whole[n + j] = line[j]
    BY <1>7, <2>1
  <2>7. whole[n + j] = Token(f, l)
    BY <1>1, <1>5, <2>5, <2>6 DEF Token
  <2> QED BY <1>2, <1>4, <2>2, <2>3, <2>5, <2>7
<1>11. \A i \in n + 1 .. n + m : i - n \in 1 .. m /\ n + (i - n) = i
  OBVIOUS
<1>12. \A i \in n + 1 .. n + m : longer[i].kind = b.kind /\ longer[i].n = b.n
                                /\ longer[i] \in Labels
  <2>1. \A j \in 1 .. m : /\ longer[n + j].kind = b.kind /\ longer[n + j].n = b.n
                         /\ longer[n + j] \in Labels
    BY <1>10
  <2> SUFFICES ASSUME NEW i \in n + 1 .. n + m
               PROVE  longer[i].kind = b.kind /\ longer[i].n = b.n /\ longer[i] \in Labels
    OBVIOUS
  <2>2. PICK j \in 1 .. m : i = n + j
    BY <1>11
  <2> QED BY <2>1, <2>2
<1>13. AtEnd(f, longer[n + m]) /\ longer[n + m].line = b.line
  <2>1. m \in 1 .. m
    BY <1>4
  <2> QED BY <1>10, <2>1 DEF AtEnd
<1>14. \A i \in 0 .. n + m : longer[i] \in Labels
  <2>1. \A i \in 0 .. n + m : i \in 0 .. n \/ i \in n + 1 .. n + m
    OBVIOUS
  <2> QED BY <1>9, <1>12, <2>1
<1>15. ASSUME NEW i \in 1 .. n + m
       PROVE  Follows(f, longer[i - 1], longer[i]) /\ whole[i] = Token(f, longer[i])
  <2>1. CASE i \in 1 .. n
    <3>1. i \in 0 .. n /\ i - 1 \in 0 .. n /\ i <= n
      BY <2>1
    <3>2. longer[i] = lab[i] /\ longer[i - 1] = lab[i - 1] /\ whole[i] = text[i]
      BY <1>7, <1>9, <3>1
    <3> QED BY <2>1, <3>2 DEF IsPath
  <2>2. CASE i = n + 1
    <3>1. 1 \in 1 .. m /\ i - 1 = n /\ n \in 0 .. n
      BY <1>4, <2>2
    <3>2. longer[i] = TokenAt(b, 1) /\ whole[i] = Token(f, longer[i])
      BY <1>10, <2>2, <3>1
    <3>3. longer[i - 1] = lab[n]
      BY <1>9, <3>1
    <3> QED BY <3>2, <3>3 DEF Follows
  <2>3. CASE i \notin 1 .. n /\ i # n + 1
    <3>1. PICK j \in 1 .. m : i = n + j /\ j # 1
      <4>1. i - n \in 1 .. m /\ i = n + (i - n) /\ i - n # 1
        BY <2>3
      <4> QED BY <4>1
    <3>2. j - 1 \in 1 .. m /\ i - 1 = n + (j - 1) /\ j - 1 < m /\ (j - 1) + 1 = j
      BY <3>1
    <3>3. PICK e \in 1 .. m : e = j - 1 /\ e < m /\ e + 1 = j /\ i - 1 = n + e
      BY <3>2
    <3>4. longer[i] = TokenAt(b, j) /\ whole[i] = Token(f, longer[i])
      BY <1>10, <3>1
    <3>5. PICK p : p = longer[i - 1]
      OBVIOUS
    <3>6. p = TokenAt(b, e) /\ p.at = e /\ LineLength(f, p) = m
      BY <1>10, <3>3, <3>5
    <3>7. ~AtEnd(f, p)
      BY <3>3, <3>6 DEF AtEnd
    <3>8. TokenAt(b, j) = TokenAt(p, e + 1)
      BY <3>3, <3>6 DEF TokenAt, Labels
    <3>9. Follows(f, p, longer[i])
      BY <3>3, <3>4, <3>6, <3>7, <3>8 DEF Follows
    <3> QED BY <3>4, <3>5, <3>9
  <2> QED BY <2>1, <2>2, <2>3
<1>16. IsPath(f, longer, whole)
  BY <1>7, <1>14, <1>15 DEF IsPath
<1>17. n < n + m
  BY <1>4
<1>18. Grown(f, lab, text, longer, whole, b)
  BY <1>7, <1>9, <1>12, <1>13, <1>16, <1>17 DEF Grown
<1> QED BY <1>6, <1>18

\* Text that is added to a text, line by line.
LEMMA GrownTwice ==
  ASSUME NEW f, NEW text \in Seq(Chars), NEW lab, NEW longer, NEW whole, NEW b,
         Grown(f, lab, text, longer, whole, b),
         NEW longest, NEW all, NEW c, Grown(f, longer, whole, longest, all, c),
         c.kind = b.kind, c.n = b.n
  PROVE  Grown(f, lab, text, longest, all, c)
<1>1. whole \in Seq(Chars) /\ all \in Seq(Chars)
  BY DEF Grown
<1>2. PICK n \in Nat : n = Len(text)
  BY LenProperties
<1>3. PICK k \in Nat : k = Len(whole) /\ n < k
  BY <1>1, <1>2, LenProperties DEF Grown
<1>4. PICK m \in Nat : m = Len(all) /\ k < m
  BY <1>1, <1>3, LenProperties DEF Grown
<1>5. n < m /\ \A i \in 0 .. n : i \in 0 .. k
  BY <1>3, <1>4
<1>6. \A i \in 0 .. n : longest[i] = lab[i]
  BY <1>2, <1>3, <1>5 DEF Grown
<1>7. \A i \in n + 1 .. m : longest[i].kind = c.kind /\ longest[i].n = c.n
  <2> SUFFICES ASSUME NEW i \in n + 1 .. m
               PROVE  longest[i].kind = c.kind /\ longest[i].n = c.n
    OBVIOUS
  <2>1. CASE i <= k
    <3>1. i \in n + 1 .. k /\ i \in 0 .. k
      BY <1>3, <2>1
    <3> QED BY <1>2, <1>3, <3>1 DEF Grown
  <2>2. CASE ~(i <= k)
    <3>1. i \in k + 1 .. m
      BY <1>3, <2>2
    <3> QED BY <1>3, <1>4, <3>1 DEF Grown
  <2> QED BY <2>1, <2>2
<1>8. IsPath(f, longest, all) /\ AtEnd(f, longest[m]) /\ longest[m].line = c.line
  BY <1>4 DEF Grown
<1> QED BY <1>1, <1>2, <1>4, <1>5, <1>6, <1>7, <1>8 DEF Grown

\* Where the parts of an event meet does not matter.
LEMMA Assoc ==
  ASSUME NEW s \in Seq(Chars), NEW t \in Seq(Chars), NEW u \in Seq(Chars)
  PROVE  (s \o t) \o u = s \o (t \o u)
BY ConcatAssociative

AreTexts(s, t, u, v, w) ==
  /\ s \in Seq(Chars) /\ t \in Seq(Chars) /\ u \in Seq(Chars)
  /\ v \in Seq(Chars) /\ w \in Seq(Chars)

Regrouped(text, t1, nl, data, body) ==
  ((text \o (t1 \o nl)) \o ((data \o body) \o nl)) \o nl
    = text \o (((((t1 \o nl) \o data) \o body) \o nl) \o nl)

LEMMA ThreeLines ==
  ASSUME NEW text, NEW t1, NEW nl, NEW data, NEW body, AreTexts(text, t1, nl, data, body)
  PROVE  Regrouped(text, t1, nl, data, body)
<1>1. PICK s1 : s1 \in Seq(Chars) /\ s1 = t1 \o nl
  BY ConcatProperties DEF AreTexts
<1>2. PICK s2 : s2 \in Seq(Chars) /\ s2 = data \o body
  BY ConcatProperties DEF AreTexts
<1>3. PICK s3 : s3 \in Seq(Chars) /\ s3 = s2 \o nl
  BY <1>2, ConcatProperties DEF AreTexts
<1>4. PICK s4 : s4 \in Seq(Chars) /\ s4 = s1 \o s3
  BY <1>1, <1>3, ConcatProperties
<1>5. (s1 \o data) \o body = s1 \o (data \o body)
  <2>1. s1 \in Seq(Chars) /\ data \in Seq(Chars) /\ body \in Seq(Chars)
    BY <1>1 DEF AreTexts
  <2> QED BY <2>1, Assoc
<1>6. (s1 \o s2) \o nl = s1 \o (s2 \o nl)
  <2>1. s1 \in Seq(Chars) /\ s2 \in Seq(Chars) /\ nl \in Seq(Chars)
    BY <1>1, <1>2 DEF AreTexts
  <2> QED BY <2>1, Assoc
<1>7. (text \o s1) \o s3 = text \o (s1 \o s3)
  <2>1. text \in Seq(Chars) /\ s1 \in Seq(Chars) /\ s3 \in Seq(Chars)
    BY <1>1, <1>3 DEF AreTexts
  <2> QED BY <2>1, Assoc
<1>8. (text \o s4) \o nl = text \o (s4 \o nl)
  <2>1. text \in Seq(Chars) /\ s4 \in Seq(Chars) /\ nl \in Seq(Chars)
    BY <1>4 DEF AreTexts
  <2> QED BY <2>1, Assoc
<1>9. ((((t1 \o nl) \o data) \o body) \o nl) \o nl = s4 \o nl
  BY <1>1, <1>2, <1>3, <1>4, <1>5, <1>6
<1> QED BY <1>1, <1>2, <1>3, <1>4, <1>7, <1>8, <1>9 DEF Regrouped

\* all is whole and the line of c.
Adds(f, c, whole, all) == all = whole \o (LineText(f, c) \o f.newline)

CanGrow(f, lab, text, whole, b) == \E longer : Grown(f, lab, text, longer, whole, b)

HasMore(f, l) == l.line < LastLine(f, l)
OneMore(f, b, c) ==
  /\ c \in Labels /\ c.kind = b.kind /\ c.n = b.n /\ c.line = b.line + 1
  /\ LastLine(f, c) = LastLine(f, b)
LineAfter(l) == [l EXCEPT !.line = @ + 1]

\* One line more of the same item, comment or last event.
LEMMA GrowsALine ==
  ASSUME NEW f \in Formats, NEW lab, NEW text \in Seq(Chars), NEW longer, NEW whole,
         NEW b \in Labels, Grown(f, lab, text, longer, whole, b), HasMore(f, b),
         NEW c, c = LineAfter(b), NEW all, Adds(f, c, whole, all)
  PROVE  OneMore(f, b, c) /\ CanGrow(f, lab, text, all, c)
<1>10. b.line < LastLine(f, b)
  BY DEF HasMore
<1>1. /\ c \in Labels /\ c.kind = b.kind /\ c.n = b.n /\ c.line = b.line + 1
  <2>1. b.line \in 1 .. 3
    BY DEF Labels
  <2>2. LastLine(f, b) \in 1 .. 3
    BY DEF LastLine
  <2>3. b.line + 1 \in 1 .. 3
    BY <1>10, <2>1, <2>2
  <2> QED BY <2>3 DEF Labels, LineAfter
<1>2. LastLine(f, c) = LastLine(f, b)
  BY <1>1 DEF LastLine
<1>3. whole \in Seq(Chars) /\ IsPath(f, longer, whole)
  BY DEF Grown
<1>4. PICK m \in Nat : m = Len(whole)
  BY <1>3, LenProperties
<1>5. Len(text) < m /\ Len(text) \in Nat
  BY <1>4, LenProperties DEF Grown
<1>6. /\ AtEnd(f, longer[m]) /\ longer[m].kind = b.kind /\ longer[m].n = b.n
      /\ longer[m].line = b.line
  <2>1. m \in Len(text) + 1 .. m
    BY <1>5
  <2> QED BY <1>4, <2>1 DEF Grown
<1>7. NewLine(f, longer[m], TokenAt(c, 1))
  <2>1. LastLine(f, longer[m]) = LastLine(f, b)
    BY <1>6 DEF LastLine
  <2>2. /\ TokenAt(c, 1).at = 1 /\ TokenAt(c, 1).kind = b.kind /\ TokenAt(c, 1).n = b.n
        /\ TokenAt(c, 1).line = b.line + 1
    BY <1>1 DEF TokenAt, Labels
  <2> QED BY <1>6, <1>10, <2>1, <2>2 DEF NewLine
<1>8. PICK longest : Grown(f, longer, whole, longest, all, c)
  BY <1>1, <1>3, <1>4, <1>6, <1>7, PathGrows DEF Adds
<1>9. Grown(f, lab, text, longest, all, c)
  <2>1. Grown(f, lab, text, longer, whole, b) /\ c.kind = b.kind /\ c.n = b.n
    BY <1>1
  <2> QED BY <1>8, <2>1, GrownTwice
<1> QED BY <1>1, <1>2, <1>9 DEF CanGrow, OneMore

\* What the sender writes for a label.
TextOf(f, l) ==
  IF f.framing = "jsonl" THEN Body(l) \o f.newline
  ELSE IF l.kind = "comment" THEN <<":">> \o f.newline \o f.newline
  ELSE IF l.kind = "close" THEN <<"event:", "close">> \o f.newline \o f.newline
  ELSE <<"event:", TypeOf(l.kind)>> \o f.newline \o <<"data:">> \o Body(l)
       \o f.newline \o f.newline

\* Whatever the sender writes goes on with the path.
LEMMA PathWritten ==
  ASSUME NEW f \in Formats, NEW lab, NEW text \in Seq(Chars), IsPath(f, lab, text),
         NEW n \in Nat, n = Len(text), AtEnd(f, lab[n]),
         NEW b \in Labels, b.line = 1, NewLine(f, lab[n], TokenAt(b, 1)),
         b.kind \in {"comment", "close"} => f.framing = "sse"
  PROVE  \E longer, c : /\ Grown(f, lab, text, longer, text \o TextOf(f, b), c)
                        /\ c.kind = b.kind /\ c.n = b.n /\ c.line >= LastLine(f, c)
<1>1. f.newline \in Seq(Chars)
  <2>1. <<"nl">> \in Seq(Chars) /\ <<"cr", "nl">> \in Seq(Chars)
    BY CharFacts, ShortTexts
  <2> QED BY <2>1, NewlineFacts
<1>2. PICK nl \in Seq(Chars) : nl = f.newline
  BY <1>1
<1>3. PICK t1 \in Seq(Chars) : t1 = LineText(f, b)
  BY LineIsPlain
<1>4. PICK w1 : w1 = text \o (t1 \o nl)
  OBVIOUS
<1>5. PICK lab1 : Grown(f, lab, text, lab1, w1, b)
  BY <1>2, <1>3, <1>4, PathGrows
<1>6. w1 \in Seq(Chars)
  BY <1>5 DEF Grown
<1>7. CASE f.framing = "jsonl"
  <2>1. LastLine(f, b) = 1
    BY <1>7 DEF LastLine
  <2>2. t1 = Body(b)
    BY <1>3, <1>7 DEF LineText
  <2>3. TextOf(f, b) = t1 \o nl
    BY <1>2, <1>7, <2>2 DEF TextOf
  <2>4. b.line >= LastLine(f, b)
    BY <2>1
  <2>5. Grown(f, lab, text, lab1, text \o TextOf(f, b), b)
    BY <1>4, <1>5, <2>3
  <2> QED BY <2>4, <2>5
<1>8. CASE f.framing # "jsonl"
  <2>1. /\ LastLine(f, b) = IF b.kind \in {"comment", "close"} THEN 2 ELSE 3
        /\ b.line < LastLine(f, b)
    BY <1>8 DEF LastLine
  <2>2. t1 = IF b.kind = "comment" THEN <<":">> ELSE <<"event:", TypeOf(b.kind)>>
    BY <1>3, <1>8, <2>1 DEF LineText
  <2>3. PICK c : c = LineAfter(b)
    OBVIOUS
  <2>4. PICK t2 : t2 = LineText(f, c)
    OBVIOUS
  <2>5. PICK l2 : l2 = LineText(f, c) \o f.newline
    OBVIOUS
  <2>6. PICK w2 : w2 = w1 \o l2
    OBVIOUS
  <2>7. /\ c \in Labels /\ c.kind = b.kind /\ c.n = b.n /\ c.line = 2
        /\ LastLine(f, c) = LastLine(f, b)
        /\ CanGrow(f, lab, text, w2, c)
    <3>1. /\ c \in Labels /\ c.kind = b.kind /\ c.n = b.n /\ c.line = b.line + 1
          /\ LastLine(f, c) = LastLine(f, b)
          /\ CanGrow(f, lab, text, w2, c)
      <4>1. Adds(f, c, w1, w2)
        BY <2>5, <2>6 DEF Adds
      <4>2. Grown(f, lab, text, lab1, w1, b) /\ HasMore(f, b) /\ c = LineAfter(b)
        BY <1>5, <2>1, <2>3 DEF HasMore
      <4>3. OneMore(f, b, c) /\ CanGrow(f, lab, text, w2, c)
        BY <4>1, <4>2, GrowsALine
      <4> QED BY <4>3 DEF OneMore
    <3> QED BY <3>1
  <2>8. t2 \in Seq(Chars)
    BY <2>4, <2>7, LineIsPlain
  <2>9. CASE b.kind \in {"comment", "close"}
    <3>1. t2 = <<>>
      BY <1>8, <2>1, <2>4, <2>7, <2>9 DEF LineText
    <3>2. l2 = nl
      <4>1. <<>> \o nl = nl
        BY ConcatEmptySeq
      <4> QED BY <1>2, <2>4, <2>5, <3>1, <4>1
    <3>3. TextOf(f, b) = (t1 \o nl) \o nl
      BY <1>2, <1>8, <2>2, <2>9 DEF TextOf, TypeOf
    <3>4. t1 \o nl \in Seq(Chars)
      BY ConcatProperties
    <3>5. w2 = text \o TextOf(f, b)
      <4>1. PICK s1 \in Seq(Chars) : s1 = t1 \o nl
        BY <3>4
      <4>2. text \in Seq(Chars) /\ s1 \in Seq(Chars) /\ nl \in Seq(Chars)
        OBVIOUS
      <4>3. (text \o s1) \o nl = text \o (s1 \o nl)
        BY <4>2, Assoc, Zenon
      <4> QED BY <1>4, <2>6, <3>2, <3>3, <4>1, <4>3
    <3>6. c.line >= LastLine(f, c)
      BY <2>1, <2>7, <2>9
    <3> QED BY <2>7, <3>5, <3>6 DEF CanGrow
  <2>10. CASE b.kind \notin {"comment", "close"}
    <3>1. PICK lab2 : Grown(f, lab, text, lab2, w2, c)
      BY <2>6, <2>7 DEF CanGrow
    <3>2. c.line < LastLine(f, c) /\ LastLine(f, c) = 3
      BY <2>1, <2>7, <2>10
    <3>3. t2 = <<"data:">> \o Body(c)
      <4>1. ~(c.line >= LastLine(f, c))
        BY <2>7, <3>2
      <4> QED BY <1>8, <2>4, <2>7, <4>1 DEF LineText
    <3>4. PICK d : d = LineAfter(c)
      OBVIOUS
    <3>5. PICK l3 : l3 = LineText(f, d) \o f.newline
      OBVIOUS
    <3>15. PICK w3 : w3 = w2 \o l3
      OBVIOUS
    <3>6. /\ d \in Labels /\ d.kind = b.kind /\ d.n = b.n /\ d.line = 3
          /\ LastLine(f, d) = 3
          /\ CanGrow(f, lab, text, w3, d)
      <4>1. /\ d \in Labels /\ d.kind = c.kind /\ d.n = c.n /\ d.line = c.line + 1
            /\ LastLine(f, d) = LastLine(f, c)
            /\ CanGrow(f, lab, text, w3, d)
        <5>1. Adds(f, d, w2, w3)
          BY <3>5, <3>15 DEF Adds
        <5>2. Grown(f, lab, text, lab2, w2, c) /\ HasMore(f, c) /\ d = LineAfter(c)
              /\ c \in Labels
          BY <2>7, <3>1, <3>2, <3>4 DEF HasMore
        <5>3. OneMore(f, c, d) /\ CanGrow(f, lab, text, w3, d)
          BY <5>1, <5>2, GrowsALine
        <5> QED BY <5>3 DEF OneMore
      <4> QED BY <2>7, <3>2, <4>1
    <3>7. LineText(f, d) = <<>>
      <4>1. d.line >= LastLine(f, d)
        BY <3>6
      <4> QED BY <1>8, <4>1 DEF LineText
    <3>8. l3 = nl
      <4>1. <<>> \o nl = nl
        BY ConcatEmptySeq
      <4> QED BY <1>2, <3>5, <3>7, <4>1
    <3>9. PICK body \in Seq(Chars) : body = Body(b) /\ body = Body(c)
      <4>1. Body(b) = Body(c)
        BY <2>7 DEF Body
      <4> QED BY <4>1, ItemIsPlain
    <3>10. PICK data \in Seq(Chars) : data = <<"data:">>
      BY CharFacts, ShortTexts
    <3>11. TextOf(f, b) = ((((t1 \o nl) \o data) \o body) \o nl) \o nl
      BY <1>2, <1>8, <2>2, <2>10, <3>9, <3>10 DEF TextOf
    <3>12. t2 = data \o body /\ l2 = (data \o body) \o nl
      BY <1>2, <2>4, <2>5, <3>3, <3>9, <3>10
    <3>13. w3 = text \o TextOf(f, b)
      <4>1. w2 = (text \o (t1 \o nl)) \o ((data \o body) \o nl)
        BY <1>4, <2>6, <3>12
      <4>2. w3 = ((text \o (t1 \o nl)) \o ((data \o body) \o nl)) \o nl
        BY <3>8, <3>15, <4>1
      <4>3. Regrouped(text, t1, nl, data, body)
        <5>1. AreTexts(text, t1, nl, data, body)
          BY DEF AreTexts
        <5> QED BY <5>1, ThreeLines
      <4> QED BY <3>11, <4>2, <4>3 DEF Regrouped
    <3>14. d.line >= LastLine(f, d)
      BY <3>6
    <3> QED BY <3>6, <3>13, <3>14 DEF CanGrow
  <2> QED BY <2>9, <2>10
<1> QED BY <1>7, <1>8

-----------------------------------------------------------------------------
(* What is ready, and what a chunk adds to it *)

\* Labels of a line in another place.
LEMMA InLineShift ==
  ASSUME NEW f, NEW lab, NEW d \in Nat, NEW n \in Nat, d <= n, InLine(f, lab, d, n),
         NEW k \in Nat, k = n - d, NEW shifted, \A i \in 0 .. k : shifted[i] = lab[d + i]
  PROVE  InLine(f, shifted, 0, k) /\ shifted[0] = lab[d]
<1>1. k + d = n /\ 0 \in 0 .. k /\ k \in 0 .. k /\ d + 0 = d /\ d + k = n
  OBVIOUS
<1>2. \A i \in 0 .. k : shifted[i] = lab[d + i]
  OBVIOUS
<1>3. shifted[0] = lab[d] /\ shifted[k] = lab[n]
  BY <1>1, <1>2
<1>4. \A i \in 1 .. k : shifted[i] = TokenAt(shifted[k], i)
  <2> SUFFICES ASSUME NEW i \in 1 .. k PROVE shifted[i] = TokenAt(shifted[k], i)
    OBVIOUS
  <2>1. PICK e \in d + 1 .. n : e = d + i /\ e - d = i
    <3>1. d + i \in d + 1 .. n /\ (d + i) - d = i
      BY <1>1
    <3> QED BY <3>1
  <2>2. lab[e] = TokenAt(lab[n], e - d)
    BY DEF InLine
  <2>3. i \in 0 .. k
    OBVIOUS
  <2> QED BY <1>2, <1>3, <2>1, <2>2, <2>3
<1>5. ASSUME 0 < k PROVE k < LineLength(f, shifted[k]) /\ NewLine(f, shifted[0], shifted[1])
  <2>1. d < n /\ 1 \in 0 .. k
    BY <1>5
  <2>2. n - d < LineLength(f, lab[n]) /\ NewLine(f, lab[d], lab[d + 1])
    BY <2>1 DEF InLine
  <2> QED BY <1>2, <1>3, <2>1, <2>2
<1>6. \A i \in 0 + 1 .. k : shifted[i] = TokenAt(shifted[k], i - 0)
  <2>1. 0 + 1 = 1 /\ \A i \in 1 .. k : i - 0 = i
    OBVIOUS
  <2> QED BY <1>4, <2>1
<1>7. k - 0 = k /\ 0 + 1 = 1
  OBVIOUS
<1>8. AtEnd(f, shifted[0])
  BY <1>3 DEF InLine
<1> QED BY <1>1, <1>3, <1>5, <1>6, <1>7, <1>8 DEF InLine

\* The first of what is ready, and the rest.
LEMMA ReadyTaken ==
  ASSUME NEW f \in Formats, NEW l \in Labels, NEW c \in Nat, c <= Completed(f, l),
         ReadyAt(f, l, c) # <<>>
  PROVE  /\ c + 1 \in 1 .. Completed(f, l)
         /\ ReadyAt(f, l, c)[1] = EventOf(f, l, c + 1)
         /\ Tail(ReadyAt(f, l, c)) = ReadyAt(f, l, c + 1)
<1>1. PICK n \in Nat : n = Completed(f, l)
  BY CompletedType
<1>2. c < n /\ c + 1 <= n /\ c + 1 \in Nat
  <2>1. c # n
    BY <1>1, NothingReady
  <2> QED BY <1>1, <2>1
<1> DEFINE s == ReadyAt(f, l, c)
           t == ReadyAt(f, l, c + 1)
<1>3. s \in Seq(AllEvents) /\ Len(s) = n - c /\ \A j \in 1 .. n - c : s[j] = EventOf(f, l, c + j)
  BY <1>1, ReadyType
<1>4. /\ t \in Seq(AllEvents) /\ Len(t) = n - (c + 1)
      /\ \A j \in 1 .. n - (c + 1) : t[j] = EventOf(f, l, (c + 1) + j)
  BY <1>1, <1>2, ReadyType
<1> HIDE DEF s, t
<1>5. s # <<>>
  BY DEF s
<1>6. /\ Tail(s) \in Seq(AllEvents) /\ Len(Tail(s)) = n - (c + 1)
      /\ \A i \in 1 .. n - (c + 1) : Tail(s)[i] = s[i + 1]
  <2>1. Len(s) - 1 = n - (c + 1)
    BY <1>2, <1>3
  <2> QED BY <1>3, <1>5, <2>1, HeadTailProperties
<1>7. \A i \in 1 .. n - (c + 1) : Tail(s)[i] = t[i]
  <2> SUFFICES ASSUME NEW i \in 1 .. n - (c + 1) PROVE Tail(s)[i] = t[i]
    OBVIOUS
  <2>1. PICK j \in 1 .. n - c : j = i + 1 /\ c + j = (c + 1) + i
    <3>1. i + 1 \in 1 .. n - c /\ c + (i + 1) = (c + 1) + i
      BY <1>2
    <3> QED BY <3>1
  <2> QED BY <1>3, <1>4, <1>6, <2>1
<1>8. Tail(s) = t
  BY <1>4, <1>6, <1>7, SeqEqual
<1>9. 1 \in 1 .. n - c
  BY <1>2
<1> QED BY <1>1, <1>2, <1>3, <1>8, <1>9 DEF s, t

IsJoined(text, buffer, chunk) == text = buffer \o chunk

\* What a chunk makes of the reader.
LEMMA ChunkRead ==
  ASSUME NEW f \in Formats, f.framing = framing,
         NEW lab, NEW buffer \in Seq(Chars), NEW chunk \in Seq(Chars),
         NEW text \in Seq(Chars), IsJoined(text, buffer, chunk), IsPath(f, lab, text),
         AtEnd(f, lab[0]), NEW n \in Nat, n = Len(text),
         NEW c \in Nat, c = Completed(f, lab[0])
  PROVE  \E d \in 0 .. n :
           /\ InLine(f, lab, d, n) /\ c <= Completed(f, lab[d])
           /\ WithChunk(ReaderAt(f, lab[0], c, buffer), chunk)
                = ReaderAt(f, lab[d], c, SubSeq(text, d + 1, n))
<1> DEFINE r == ReaderAt(f, lab[0], c, buffer)
<1>1. r.buffer = buffer
  BY DEF ReaderAt
<1>2. \A i \in 0 .. n : lab[i] \in Labels
  BY DEF IsPath
<1>3. CASE framing = "jsonl"
  <2>0. PICK d \in 0 .. n : JsonlEnd(f, lab, text, n, c, d)
    <3>1. f.framing = "jsonl" /\ IsPath(f, lab, text) /\ AtEnd(f, lab[0]) /\ n = Len(text)
          /\ c = Completed(f, lab[0])
      BY <1>3
    <3> HIDE DEF r
    <3> QED BY <3>1, JsonlRead
  <2>1. /\ InLine(f, lab, d, n) /\ c <= Completed(f, lab[d])
        /\ NextLines(text).rest = SubSeq(text, d + 1, n)
        /\ LinesToEvents(NextLines(text).lines) = ReadyAt(f, lab[d], c)
    BY <2>0 DEF JsonlEnd
  <2>2. WithChunk(r, chunk) = [r EXCEPT !.buffer = NextLines(text).rest,
                                        !.ready = LinesToEvents(NextLines(text).lines)]
    BY <1>1, <1>3 DEF WithChunk, LinesToEvents, IsJoined
  <2>3. \A l \in Labels : DataAt(f, l) = <<>> /\ EventAt(f, l) = "message"
    <3> SUFFICES ASSUME NEW l \in Labels
                 PROVE  DataAt(f, l) = <<>> /\ EventAt(f, l) = "message"
      OBVIOUS
    <3>1. DataAt(f, l) = <<>>
      BY <1>3 DEF DataAt
    <3>2. LastLine(f, l) = 1
      BY <1>3 DEF LastLine
    <3>3. ~(l.line < 1)
      BY DEF Labels
    <3> QED BY <3>1, <3>2, <3>3 DEF EventAt
  <2>4. lab[0] \in Labels /\ lab[d] \in Labels
    BY <1>2
  <2>5. r = [buffer |-> buffer, ready |-> ReadyAt(f, lab[0], c), data |-> <<>>,
             event |-> "message"]
    BY <2>3, <2>4 DEF ReaderAt
  <2>6. ReaderAt(f, lab[d], c, SubSeq(text, d + 1, n))
          = [buffer |-> SubSeq(text, d + 1, n), ready |-> ReadyAt(f, lab[d], c),
             data |-> <<>>, event |-> "message"]
    BY <2>3, <2>4 DEF ReaderAt
  <2>7. PICK rest : rest = SubSeq(text, d + 1, n)
    OBVIOUS
  <2>8. PICK ready : ready = ReadyAt(f, lab[d], c)
    OBVIOUS
  <2>9. PICK was : was = ReadyAt(f, lab[0], c)
    OBVIOUS
  <2>11. WithChunk(r, chunk) = ReaderAt(f, lab[d], c, SubSeq(text, d + 1, n))
    <3> HIDE DEF r
    <3>1. WithChunk(r, chunk) = [r EXCEPT !.buffer = rest, !.ready = ready]
      BY <2>1, <2>2, <2>7, <2>8
    <3>2. r = [buffer |-> buffer, ready |-> was, data |-> <<>>, event |-> "message"]
      BY <2>5, <2>9
    <3>3. PICK q : q = [r EXCEPT !.buffer = rest]
      OBVIOUS
    <3>4. q = [buffer |-> rest, ready |-> was, data |-> <<>>, event |-> "message"]
      BY <3>2, <3>3, RecordFacts
    <3>5. [q EXCEPT !.ready = ready]
            = [buffer |-> rest, ready |-> ready, data |-> <<>>, event |-> "message"]
      BY <3>4, RecordFacts
    <3>6. WithChunk(r, chunk) = [q EXCEPT !.ready = ready]
      BY <3>1, <3>3
    <3> QED BY <2>6, <2>7, <2>8, <3>5, <3>6
  <2> QED BY <2>1, <2>11
<1>4. CASE framing # "jsonl"
  <2>1. f.framing = "sse"
    BY <1>4 DEF Formats
  <2>0. PICK d \in 0 .. n : SseEnd(f, lab, text, n, c, d)
    <3>1. f.framing = "sse" /\ IsPath(f, lab, text) /\ AtEnd(f, lab[0]) /\ n = Len(text)
          /\ c <= Completed(f, lab[0])
      BY <2>1
    <3> HIDE DEF r
    <3> QED BY <3>1, SseRead
  <2>2. /\ InLine(f, lab, d, n) /\ c <= Completed(f, lab[d])
        /\ SplitLines(text).rest = SubSeq(text, d + 1, n)
        /\ \A b : ProcessLines(ReaderAt(f, lab[0], c, b), SplitLines(text).lines)
                    = ReaderAt(f, lab[d], c, b)
    BY <2>0 DEF SseEnd
  <2>3. PICK rest : rest = SubSeq(text, d + 1, n)
    OBVIOUS
  <2>4. WithChunk(r, chunk) = ProcessLines([r EXCEPT !.buffer = rest], SplitLines(text).lines)
    BY <1>1, <1>4, <2>2, <2>3 DEF WithChunk, IsJoined
  <2>5. [r EXCEPT !.buffer = rest] = ReaderAt(f, lab[0], c, rest)
    BY DEF ReaderAt
  <2> QED BY <2>2, <2>3, <2>4, <2>5
<1> QED BY <1>3, <1>4

-----------------------------------------------------------------------------
(* What is with the reader and what is under way *)

\* A part of a text, token by token.
LEMMA PartOf ==
  ASSUME NEW S, NEW s \in Seq(S), NEW n \in Nat, n = Len(s),
         NEW d \in Nat, NEW e \in Nat, d <= e, e <= n
  PROVE  /\ SubSeq(s, d + 1, e) \in Seq(S) /\ Len(SubSeq(s, d + 1, e)) = e - d
         /\ \A i \in 1 .. e - d : SubSeq(s, d + 1, e)[i] = s[d + i]
<1>1. \A i \in d + 1 .. e : s[i] \in S
  <2>1. \A i \in d + 1 .. e : i \in 1 .. n
    OBVIOUS
  <2> QED BY <2>1, ElementOfSeq
<1>2. PICK t : t = SubSeq(s, d + 1, e)
  OBVIOUS
<1>3. /\ t \in Seq(S) /\ Len(t) = IF d + 1 <= e THEN e - (d + 1) + 1 ELSE 0
      /\ \A i \in 1 .. e - (d + 1) + 1 : t[i] = s[(d + 1) + i - 1]
  <2>1. d + 1 \in Int /\ e \in Int
    OBVIOUS
  <2> QED BY <1>1, <1>2, <2>1, SubSeqProperties
<1>4. /\ e - (d + 1) + 1 = e - d /\ (~(d + 1 <= e) => e - d = 0)
      /\ \A i \in 1 .. e - d : (d + 1) + i - 1 = d + i
  OBVIOUS
<1> QED BY <1>2, <1>3, <1>4

\* A chunk moves from the wire to the buffer.
Moved(buffer, rest, b, w, k) ==
  /\ SubSeq(rest, 1, k) \in Seq(Chars) /\ Len(SubSeq(rest, 1, k)) = k
  /\ SubSeq(rest, k + 1, w) \in Seq(Chars) /\ Len(SubSeq(rest, k + 1, w)) = w - k
  /\ buffer \o rest \in Seq(Chars) /\ Len(buffer \o rest) = b + w
  /\ buffer \o SubSeq(rest, 1, k) \in Seq(Chars)
  /\ Len(buffer \o SubSeq(rest, 1, k)) = b + k
  /\ \A i \in 1 .. b + k : (buffer \o SubSeq(rest, 1, k))[i] = (buffer \o rest)[i]
  /\ \A d \in 0 .. b + k :
       SubSeq(buffer \o SubSeq(rest, 1, k), d + 1, b + k) \o SubSeq(rest, k + 1, w)
         = SubSeq(buffer \o rest, d + 1, b + w)

\* The text stays the same when a chunk moves.
LEMMA ChunkMoves ==
  ASSUME NEW buffer \in Seq(Chars), NEW rest \in Seq(Chars),
         NEW b \in Nat, b = Len(buffer), NEW w \in Nat, w = Len(rest), NEW k \in 0 .. w
  PROVE  Moved(buffer, rest, b, w, k)
<1>1. PICK h : h = SubSeq(rest, 1, k)
  OBVIOUS
<1>2. PICK t : t = SubSeq(rest, k + 1, w)
  OBVIOUS
<1>3. h \in Seq(Chars) /\ Len(h) = k /\ \A i \in 1 .. k : h[i] = rest[i]
  <2>1. 0 + 1 = 1 /\ k - 0 = k /\ \A i \in 1 .. k : 0 + i = i
    OBVIOUS
  <2>2. 0 \in Nat /\ k \in Nat /\ 0 <= k /\ k <= w
    OBVIOUS
  <2>3. /\ SubSeq(rest, 0 + 1, k) \in Seq(Chars) /\ Len(SubSeq(rest, 0 + 1, k)) = k - 0
        /\ \A i \in 1 .. k - 0 : SubSeq(rest, 0 + 1, k)[i] = rest[0 + i]
    BY <2>2, PartOf
  <2> QED BY <1>1, <2>1, <2>3
<1>4. t \in Seq(Chars) /\ Len(t) = w - k /\ \A i \in 1 .. w - k : t[i] = rest[k + i]
  <2>1. k \in Nat /\ w \in Nat /\ k <= w /\ w <= w
    OBVIOUS
  <2> QED BY <1>2, <2>1, PartOf
<1>5. PICK all : all = buffer \o rest
  OBVIOUS
<1>6. /\ all \in Seq(Chars) /\ Len(all) = b + w
      /\ \A i \in 1 .. b + w : all[i] = IF i <= b THEN buffer[i] ELSE rest[i - b]
  BY <1>5, ConcatProperties
<1>7. PICK text : text = buffer \o h
  OBVIOUS
<1>8. /\ text \in Seq(Chars) /\ Len(text) = b + k
      /\ \A i \in 1 .. b + k : text[i] = IF i <= b THEN buffer[i] ELSE h[i - b]
  BY <1>3, <1>7, ConcatProperties
<1>9. \A i \in 1 .. b + k : text[i] = all[i]
  <2>1. \A i \in 1 .. b + k : i \in 1 .. b + w /\ (i <= b \/ i - b \in 1 .. k)
    OBVIOUS
  <2> QED BY <1>3, <1>6, <1>8, <2>1
<1>10. ASSUME NEW d \in 0 .. b + k
       PROVE  SubSeq(text, d + 1, b + k) \o t = SubSeq(all, d + 1, b + w)
  <2>1. /\ d \in Nat /\ b + k \in Nat /\ d <= b + k /\ b + k <= b + k /\ b + w \in Nat
        /\ d <= b + w /\ b + w <= b + w
    OBVIOUS
  <2>2. PICK p : p = SubSeq(text, d + 1, b + k)
    OBVIOUS
  <2>3. p \in Seq(Chars) /\ Len(p) = (b + k) - d /\ \A i \in 1 .. (b + k) - d : p[i] = text[d + i]
    BY <1>8, <2>1, <2>2, PartOf
  <2>4. PICK q : q = SubSeq(all, d + 1, b + w)
    OBVIOUS
  <2>5. q \in Seq(Chars) /\ Len(q) = (b + w) - d /\ \A i \in 1 .. (b + w) - d : q[i] = all[d + i]
    <3>1. PICK m \in Nat : m = b + w
      OBVIOUS
    <3>2. all \in Seq(Chars) /\ m = Len(all) /\ d <= m /\ m <= m
      BY <1>6, <2>1, <3>1
    <3>3. /\ SubSeq(all, d + 1, m) \in Seq(Chars) /\ Len(SubSeq(all, d + 1, m)) = m - d
          /\ \A i \in 1 .. m - d : SubSeq(all, d + 1, m)[i] = all[d + i]
      BY <2>1, <3>2, PartOf
    <3> QED BY <2>4, <3>1, <3>3
  <2>6. PICK z : z = p \o t
    OBVIOUS
  <2>7. PICK e \in Nat : e = (b + k) - d
    OBVIOUS
  <2>8. /\ z \in Seq(Chars) /\ Len(z) = e + (w - k)
        /\ \A i \in 1 .. e + (w - k) : z[i] = IF i <= e THEN p[i] ELSE t[i - e]
    <3>1. PICK x \in Nat : x = w - k
      BY <1>4, LenProperties
    <3>2. p \in Seq(Chars) /\ Len(p) = e /\ t \in Seq(Chars) /\ Len(t) = x
      BY <1>4, <2>3, <2>7, <3>1
    <3>3. /\ z \in Seq(Chars) /\ Len(z) = e + x
          /\ \A i \in 1 .. e + x : z[i] = IF i <= e THEN p[i] ELSE t[i - e]
      BY <2>6, <3>2, ConcatProperties
    <3> QED BY <3>1, <3>3
  <2>9. e + (w - k) = (b + w) - d
    BY <2>7
  <2>10. \A i \in 1 .. (b + w) - d : z[i] = q[i]
    <3> SUFFICES ASSUME NEW i \in 1 .. (b + w) - d PROVE z[i] = q[i]
      OBVIOUS
    <3>1. CASE i <= e
      <4>1. i \in 1 .. (b + k) - d /\ d + i \in 1 .. b + k
        BY <2>7, <3>1
      <4> QED BY <1>9, <2>3, <2>5, <2>8, <2>9, <3>1, <4>1
    <3>2. CASE ~(i <= e)
      <4>1. /\ i - e \in 1 .. w - k /\ d + i \in 1 .. b + w /\ ~(d + i <= b)
            /\ (d + i) - b = k + (i - e)
        BY <2>7, <3>2
      <4>2. PICK x \in 1 .. w - k : x = i - e
        BY <4>1
      <4>3. t[x] = rest[k + x]
        BY <1>4
      <4>4. z[i] = t[x]
        BY <2>8, <2>9, <3>2, <4>2
      <4>5. all[d + i] = rest[k + x]
        BY <1>6, <4>1, <4>2
      <4> QED BY <2>5, <4>3, <4>4, <4>5
    <3> QED BY <3>1, <3>2
  <2>11. z = q
    BY <2>5, <2>8, <2>9, <2>10, SeqEqual
  <2> QED BY <2>2, <2>4, <2>6, <2>11
<1> QED BY <1>1, <1>2, <1>3, <1>4, <1>5, <1>6, <1>7, <1>8, <1>9, <1>10 DEF Moved

-----------------------------------------------------------------------------
\* The reader r stands where the labels of what it holds and of what is under
\* way begin, and has given c events.
Reads(f, lab, buffer, rest, c, r) ==
  /\ buffer \in Seq(Chars) /\ rest \in Seq(Chars)
  /\ IsPath(f, lab, buffer \o rest)
  /\ InLine(f, lab, 0, Len(buffer))
  /\ c <= Completed(f, lab[0])
  /\ r = ReaderAt(f, lab[0], c, buffer)

\* A label says what the sender did: p its iterator, s the items it gave.
IsGiven(f, l, p, s) ==
  /\ l.n <= s
  /\ l.kind \in Failures => p = l.kind
  /\ l.kind = "close" => f.framing = "sse" /\ p = "done" /\ l.n = s

\* The last label of a text that nobody cut.
IsLatest(f, l, p, s, o) ==
  /\ AtEnd(f, l) /\ l.line >= LastLine(f, l) /\ l.n = s
  /\ o <=> l.kind \in Terminals \/ (f.framing = "jsonl" /\ p = "done")

IsSent(f, lab, m, p, s, o, k) ==
  /\ \A i \in 0 .. m : IsGiven(f, lab[i], p, s)
  /\ k = "open" => IsLatest(f, lab[m], p, s, o)

Receives(f, c, r, rest, p, s, o, k) ==
  \E lab : /\ Reads(f, lab, r.buffer, rest, c, r)
           /\ IsSent(f, lab, Len(r.buffer) + Len(rest), p, s, o, k)

\* A chunk that is read.
LEMMA ReadKeeps ==
  ASSUME NEW f \in Formats, f.framing = framing, NEW c \in Nat, NEW r, NEW rest,
         NEW p, NEW s, NEW o, NEW k, Receives(f, c, r, rest, p, s, o, k), r.ready = <<>>,
         NEW j \in 1 .. Len(rest)
  PROVE  Receives(f, c, WithChunk(r, SubSeq(rest, 1, j)), SubSeq(rest, j + 1, Len(rest)),
                  p, s, o, k)
<1>1. PICK lab : /\ Reads(f, lab, r.buffer, rest, c, r)
                 /\ IsSent(f, lab, Len(r.buffer) + Len(rest), p, s, o, k)
  BY DEF Receives
<1>2. PICK buffer \in Seq(Chars) : buffer = r.buffer
  BY <1>1 DEF Reads
<1>3. rest \in Seq(Chars)
  BY <1>1 DEF Reads
<1>4. PICK b \in Nat : b = Len(buffer)
  BY LenProperties
<1>5. PICK w \in Nat : w = Len(rest)
  BY <1>3, LenProperties
<1>6. j \in 0 .. w
  BY <1>5
<1>7. PICK chunk : chunk = SubSeq(rest, 1, j)
  OBVIOUS
<1>8. PICK tail : tail = SubSeq(rest, j + 1, w)
  OBVIOUS
<1>9. PICK text : text = buffer \o chunk
  OBVIOUS
<1>10. PICK all : all = buffer \o rest
  OBVIOUS
<1>11. /\ chunk \in Seq(Chars) /\ Len(chunk) = j
       /\ tail \in Seq(Chars) /\ Len(tail) = w - j
       /\ all \in Seq(Chars) /\ Len(all) = b + w
       /\ text \in Seq(Chars) /\ Len(text) = b + j
       /\ \A i \in 1 .. b + j : text[i] = all[i]
       /\ \A d \in 0 .. b + j :
            SubSeq(text, d + 1, b + j) \o tail = SubSeq(all, d + 1, b + w)
  <2>1. Moved(buffer, rest, b, w, j)
    BY <1>3, <1>4, <1>5, <1>6, ChunkMoves
  <2> QED BY <1>7, <1>8, <1>9, <1>10, <2>1 DEF Moved
<1>12. PICK n \in Nat : n = b + j
  BY <1>6
<1>13. PICK m \in Nat : m = b + w /\ n <= m
  BY <1>6, <1>12
<1>14. IsPath(f, lab, all)
  BY <1>1, <1>2, <1>10 DEF Reads
<1>15. IsPath(f, lab, text)
  <2>1. Len(text) <= Len(all) /\ \A i \in 1 .. Len(text) : text[i] = all[i]
    BY <1>11, <1>12, <1>13
  <2> QED BY <1>11, <1>14, <2>1, PathPrefix
<1>16. /\ AtEnd(f, lab[0]) /\ lab[0] \in Labels /\ c <= Completed(f, lab[0])
       /\ r = ReaderAt(f, lab[0], c, buffer)
  <2>1. AtEnd(f, lab[0])
    BY <1>1 DEF Reads, InLine
  <2>2. 0 \in 0 .. Len(all)
    BY <1>11, <1>13
  <2>3. lab[0] \in Labels
    BY <1>14, <2>2 DEF IsPath
  <2> QED BY <1>1, <1>2, <2>1, <2>3 DEF Reads
<1>17. c = Completed(f, lab[0])
  <2>1. ReadyAt(f, lab[0], c) = <<>>
    BY <1>16 DEF ReaderAt
  <2> QED BY <1>16, <2>1, NothingReady
<1>18. PICK d \in 0 .. n :
         /\ InLine(f, lab, d, n) /\ c <= Completed(f, lab[d])
         /\ WithChunk(ReaderAt(f, lab[0], c, buffer), chunk)
              = ReaderAt(f, lab[d], c, SubSeq(text, d + 1, n))
  <2>1. IsJoined(text, buffer, chunk) /\ n = Len(text) /\ IsPath(f, lab, text)
        /\ AtEnd(f, lab[0]) /\ c = Completed(f, lab[0])
    BY <1>9, <1>11, <1>12, <1>15, <1>16, <1>17 DEF IsJoined
  <2> QED BY <1>11, <2>1, ChunkRead
<1>19. PICK held : held = SubSeq(text, d + 1, n)
  OBVIOUS
<1>20. PICK r2 : r2 = WithChunk(r, chunk)
  OBVIOUS
<1>21. r2 = ReaderAt(f, lab[d], c, held)
  BY <1>16, <1>18, <1>19, <1>20
<1>22. held \in Seq(Chars) /\ Len(held) = n - d
  <2>1. text \in Seq(Chars) /\ n = Len(text) /\ d \in Nat /\ d <= n /\ n <= n
    BY <1>11, <1>12
  <2>2. SubSeq(text, d + 1, n) \in Seq(Chars) /\ Len(SubSeq(text, d + 1, n)) = n - d
    BY <2>1, PartOf
  <2> QED BY <1>19, <2>2
<1>23. held \o tail = SubSeq(all, d + 1, m)
  BY <1>11, <1>12, <1>13, <1>19
<1>24. PICK lab2 : lab2 = [i \in 0 .. m - d |-> lab[d + i]]
  OBVIOUS
<1>25. d \in 0 .. m /\ d \in Nat /\ n - d \in Nat /\ m - d \in Nat /\ n - d <= m - d
       /\ (n - d) + (w - j) = m - d /\ d + (m - d) = m
  BY <1>12, <1>13
<1>26. IsPath(f, lab2, held \o tail)
  <2>1. IsPath(f, [i \in 0 .. m - d |-> lab[d + i]], SubSeq(all, d + 1, m))
    BY <1>11, <1>13, <1>14, <1>25, PathShift
  <2> QED BY <1>23, <1>24, <2>1
<1>27. \A i \in 0 .. m - d : lab2[i] = lab[d + i]
  BY <1>24
<1>28. InLine(f, lab2, 0, n - d) /\ lab2[0] = lab[d]
  <2>1. \A i \in 0 .. n - d : i \in 0 .. m - d
    BY <1>25
  <2>2. \A i \in 0 .. n - d : lab2[i] = lab[d + i]
    BY <1>27, <2>1
  <2>3. PICK x \in Nat : x = n - d
    BY <1>25
  <2>4. d \in Nat /\ d <= n /\ InLine(f, lab, d, n) /\ \A i \in 0 .. x : lab2[i] = lab[d + i]
    BY <1>18, <1>25, <2>2, <2>3
  <2>5. InLine(f, lab2, 0, x) /\ lab2[0] = lab[d]
    BY <2>3, <2>4, InLineShift
  <2> QED BY <2>3, <2>5
<1>29. Reads(f, lab2, held, tail, c, r2)
  BY <1>11, <1>18, <1>21, <1>22, <1>26, <1>28 DEF Reads
<1>30. IsSent(f, lab2, m - d, p, s, o, k)
  <2>1. IsSent(f, lab, m, p, s, o, k)
    <3>1. Len(r.buffer) + Len(rest) = m
      BY <1>2, <1>4, <1>5, <1>13
    <3> QED BY <1>1, <3>1
  <2>2. \A i \in 0 .. m - d : d + i \in 0 .. m
    BY <1>25
  <2>3. \A i \in 0 .. m - d : IsGiven(f, lab2[i], p, s)
    BY <1>27, <2>1, <2>2 DEF IsSent
  <2>4. lab2[m - d] = lab[m]
    <3>1. m - d \in 0 .. m - d
      BY <1>25
    <3>2. lab2[m - d] = lab[d + (m - d)]
      BY <1>27, <3>1
    <3> QED BY <1>25, <3>2
  <2> QED BY <2>1, <2>3, <2>4 DEF IsSent
<1>31. r2.buffer = held /\ Len(held) + Len(tail) = m - d
  BY <1>11, <1>21, <1>22, <1>25 DEF ReaderAt
<1>32. Receives(f, c, r2, tail, p, s, o, k)
  BY <1>29, <1>30, <1>31 DEF Receives
<1> QED BY <1>5, <1>7, <1>8, <1>20, <1>32

-----------------------------------------------------------------------------
(* What the steps of a stream do to it *)

\* An event that is taken is that of a label.
Taken(f, c, e, p, s) ==
  \E l \in Labels : /\ IsGiven(f, l, p, s) /\ c + 1 \in 1 .. Completed(f, l)
                    /\ e = EventOf(f, l, c + 1)

\* The next event of those that are ready.
LEMMA TakeKeeps ==
  ASSUME NEW f \in Formats, NEW c \in Nat, NEW r, NEW rest, NEW p, NEW s, NEW o, NEW k,
         Receives(f, c, r, rest, p, s, o, k), r.ready # <<>>
  PROVE  /\ Receives(f, c + 1, [r EXCEPT !.ready = Tail(@)], rest, p, s, o, k)
         /\ Taken(f, c, r.ready[1], p, s)
<1>1. PICK lab : /\ Reads(f, lab, r.buffer, rest, c, r)
                 /\ IsSent(f, lab, Len(r.buffer) + Len(rest), p, s, o, k)
  BY DEF Receives
<1>2. PICK buffer \in Seq(Chars) : buffer = r.buffer
  BY <1>1 DEF Reads
<1>3. rest \in Seq(Chars) /\ IsPath(f, lab, buffer \o rest) /\ InLine(f, lab, 0, Len(buffer))
      /\ c <= Completed(f, lab[0]) /\ r = ReaderAt(f, lab[0], c, buffer)
  BY <1>1, <1>2 DEF Reads
<1>4. PICK m \in Nat : m = Len(buffer) + Len(rest) /\ m = Len(buffer \o rest)
  BY <1>3, ConcatProperties, LenProperties
<1>5. 0 \in 0 .. m
  OBVIOUS
<1>6. PICK l \in Labels : l = lab[0]
  BY <1>3, <1>4, <1>5 DEF IsPath
<1>7. IsGiven(f, l, p, s)
  BY <1>1, <1>2, <1>4, <1>5, <1>6 DEF IsSent
<1>8. r.ready = ReadyAt(f, l, c)
  BY <1>3, <1>6 DEF ReaderAt
<1>9. /\ c + 1 \in 1 .. Completed(f, l)
      /\ r.ready[1] = EventOf(f, l, c + 1)
      /\ Tail(r.ready) = ReadyAt(f, l, c + 1)
  BY <1>3, <1>6, <1>8, ReadyTaken
<1>10. PICK r2 : r2 = [r EXCEPT !.ready = Tail(@)]
  OBVIOUS
<1>11. r2 = ReaderAt(f, l, c + 1, buffer)
  <2>1. r = [buffer |-> buffer, ready |-> ReadyAt(f, l, c), data |-> DataAt(f, l),
             event |-> EventAt(f, l)]
    BY <1>3, <1>6 DEF ReaderAt
  <2>2. PICK x : x = ReadyAt(f, l, c + 1)
    OBVIOUS
  <2>3. r2 = [r EXCEPT !.ready = x]
    BY <1>9, <1>10, <2>2
  <2>4. [r EXCEPT !.ready = x] = [buffer |-> buffer, ready |-> x, data |-> DataAt(f, l),
                                  event |-> EventAt(f, l)]
    BY <2>1, RecordFacts
  <2> QED BY <2>2, <2>3, <2>4 DEF ReaderAt
<1>12. c + 1 <= Completed(f, l) /\ r2.buffer = buffer
  BY <1>9, <1>11 DEF ReaderAt
<1>13. Reads(f, lab, buffer, rest, c + 1, r2)
  BY <1>3, <1>6, <1>11, <1>12 DEF Reads
<1>14. Receives(f, c + 1, r2, rest, p, s, o, k)
  BY <1>1, <1>2, <1>12, <1>13 DEF Receives
<1>15. Taken(f, c, r.ready[1], p, s)
  BY <1>7, <1>9 DEF Taken
<1> QED BY <1>10, <1>14, <1>15

\* It is the next item, the close event behind the last, or the failure.
LEMMA TakenEvent ==
  ASSUME NEW f \in Formats, NEW c \in Nat, NEW s \in Nat, c <= s, NEW p, NEW e,
         Taken(f, c, e, p, s)
  PROVE  \/ /\ c < s /\ c + 1 \in 1 .. Len(Items)
            /\ e = <<"message", ItemLine(Items[c + 1])>>
         \/ f.framing = "sse" /\ p = "done" /\ c = s /\ e = <<"close", <<>>>>
         \/ /\ p \in Failures
            /\ e = <<IF f.framing = "jsonl" THEN "message" ELSE "error",
                     FailureLine(CodeOf(p))>>
<1>1. PICK l \in Labels : /\ IsGiven(f, l, p, s) /\ c + 1 \in 1 .. Completed(f, l)
                          /\ e = EventOf(f, l, c + 1)
  BY DEF Taken
<1>2. PICK d \in Nat : d = Done(f, l) /\ d \in 0 .. Len(Items)
  BY CompletedType
<1>3. PICK m \in Nat : m = Completed(f, l) /\ (m = d \/ m = d + 1)
  BY <1>2, CompletedType
<1>4. l.n \in Nat /\ l.n <= s
  <2>1. Len(Items) \in Nat
    BY StreamAssumption, LenProperties
  <2> QED BY <1>1, <2>1 DEF IsGiven, Labels
<1>5. d <= l.n
  BY <1>2, <1>4 DEF Done
<1>6. CASE c + 1 <= d
  <2>1. c < s /\ c + 1 \in 1 .. Len(Items)
    <3>1. PICK z \in Nat : z = Len(Items)
      BY StreamAssumption, LenProperties
    <3>2. d <= z /\ c < s
      BY <1>2, <1>4, <1>5, <1>6, <3>1
    <3> QED BY <1>6, <3>1, <3>2
  <2> QED BY <1>1, <1>2, <1>6, <2>1 DEF EventOf
<1>7. CASE ~(c + 1 <= d)
  <2>1. m = d + 1 /\ c = d
    <3>1. c + 1 <= m
      BY <1>1, <1>3
    <3> QED BY <1>3, <1>7, <3>1
  <2>2. m # d
    BY <2>1
  <2>3. l.kind \in Terminals
    BY <1>2, <1>3, <2>2, CompletedType
  <2>4. e = <<IF f.framing = "jsonl" THEN "message" ELSE TypeOf(l.kind),
              IF l.kind = "close" THEN <<>> ELSE FailureLine(CodeOf(l.kind))>>
    BY <1>1, <1>2, <1>7 DEF EventOf
  <2>5. CASE l.kind = "close"
    <3>1. f.framing = "sse" /\ p = "done" /\ l.n = s
      BY <1>1, <2>5 DEF IsGiven
    <3>2. d = l.n
      BY <1>2, <2>5 DEF Done
    <3>3. e = <<"close", <<>>>>
      BY <2>4, <2>5, <3>1 DEF TypeOf
    <3> QED BY <2>1, <3>1, <3>2, <3>3
  <2>6. CASE l.kind # "close"
    <3>1. l.kind \in Failures /\ p = l.kind
      BY <1>1, <2>3, <2>6 DEF IsGiven, Terminals
    <3>2. TypeOf(l.kind) = "error"
      BY <3>1 DEF TypeOf, Failures
    <3> QED BY <2>4, <2>6, <3>1, <3>2
  <2> QED BY <2>5, <2>6
<1> QED BY <1>6, <1>7

\* What the schema makes of it.
LEMMA DecodedLine ==
  ASSUME NEW x
  PROVE  /\ DecodedItem(ItemLine(x)) = [item |-> x]
         /\ DecodedItem(FailureLine(x))
              = [code |-> IF direction = "output" THEN x ELSE "BAD_REQUEST"]
         /\ "code" \notin DOMAIN [item |-> x] /\ "code" \in DOMAIN [code |-> x]
<1>1. PICK t : t = <<"{", x, "}">>
  OBVIOUS
<1>2. Len(t) = 3 /\ t[1] = "{" /\ t[2] = x /\ t[3] = "}"
  BY <1>1
<1>3. DecodedItem(t) = [item |-> x]
  BY <1>2 DEF DecodedItem
<1>4. PICK u : u = <<"!", x>>
  OBVIOUS
<1>5. Len(u) = 2 /\ u[1] = "!" /\ u[2] = x
  BY <1>4
<1>6. DecodedItem(u) = [code |-> IF direction = "output" THEN x ELSE "BAD_REQUEST"]
  BY <1>5 DEF DecodedItem
<1> QED BY <1>1, <1>3, <1>4, <1>6 DEF ItemLine, FailureLine

\* A body that is cut.
LEMMA CutKeeps ==
  ASSUME NEW f \in Formats, NEW c \in Nat, NEW r, NEW rest, NEW p, NEW s, NEW o, NEW k,
         Receives(f, c, r, rest, p, s, o, k), NEW j \in 0 .. Len(rest), NEW k2, k2 # "open"
  PROVE  Receives(f, c, r, SubSeq(rest, 1, j), p, s, o, k2)
<1>1. PICK lab : /\ Reads(f, lab, r.buffer, rest, c, r)
                 /\ IsSent(f, lab, Len(r.buffer) + Len(rest), p, s, o, k)
  BY DEF Receives
<1>2. PICK buffer \in Seq(Chars) : buffer = r.buffer
  BY <1>1 DEF Reads
<1>3. rest \in Seq(Chars) /\ IsPath(f, lab, buffer \o rest) /\ InLine(f, lab, 0, Len(buffer))
      /\ c <= Completed(f, lab[0]) /\ r = ReaderAt(f, lab[0], c, buffer)
  BY <1>1, <1>2 DEF Reads
<1>4. PICK b \in Nat : b = Len(buffer)
  BY LenProperties
<1>5. PICK w \in Nat : w = Len(rest)
  BY <1>3, LenProperties
<1>6. PICK all : all = buffer \o rest
  OBVIOUS
<1>7. PICK h : h = SubSeq(rest, 1, j)
  OBVIOUS
<1>8. PICK text : text = buffer \o h
  OBVIOUS
<1>9. /\ h \in Seq(Chars) /\ Len(h) = j
      /\ all \in Seq(Chars) /\ Len(all) = b + w
      /\ text \in Seq(Chars) /\ Len(text) = b + j
      /\ \A i \in 1 .. b + j : text[i] = all[i]
  <2>1. Moved(buffer, rest, b, w, j)
    BY <1>3, <1>4, <1>5, ChunkMoves
  <2> QED BY <1>6, <1>7, <1>8, <2>1 DEF Moved
<1>10. j \in 0 .. w /\ b + j <= b + w /\ \A i \in 0 .. b + j : i \in 0 .. b + w
  BY <1>5
<1>11. IsPath(f, lab, text)
  <2>1. Len(text) <= Len(all) /\ \A i \in 1 .. Len(text) : text[i] = all[i]
    BY <1>9, <1>10
  <2> QED BY <1>3, <1>6, <1>9, <2>1, PathPrefix
<1>12. Reads(f, lab, buffer, h, c, r)
  BY <1>3, <1>8, <1>9, <1>11 DEF Reads
<1>13. IsSent(f, lab, b + j, p, s, o, k2)
  BY <1>1, <1>2, <1>4, <1>5, <1>10 DEF IsSent
<1>14. Receives(f, c, r, h, p, s, o, k2)
  BY <1>2, <1>4, <1>9, <1>12, <1>13 DEF Receives
<1> QED BY <1>7, <1>14

\* The sender went on, and what it wrote still stands.
GivenStays(f, p, s, p2, s2) ==
  \A l \in Labels : IsGiven(f, l, p, s) => IsGiven(f, l, p2, s2)

\* A step of the sender that writes nothing.
LEMMA SenderKeeps ==
  ASSUME NEW f, NEW c, NEW r, NEW rest, NEW p, NEW s, NEW o, NEW k,
         Receives(f, c, r, rest, p, s, o, k), NEW p2, NEW s2, GivenStays(f, p, s, p2, s2),
         NEW o2, NEW k2,
         k2 = "open" => k = "open" /\ \A l : IsLatest(f, l, p, s, o) => IsLatest(f, l, p2, s2, o2)
  PROVE  Receives(f, c, r, rest, p2, s2, o2, k2)
<1>1. PICK lab : /\ Reads(f, lab, r.buffer, rest, c, r)
                 /\ IsSent(f, lab, Len(r.buffer) + Len(rest), p, s, o, k)
  BY DEF Receives
<1>2. PICK m \in Nat : m = Len(r.buffer) + Len(rest) /\ m = Len(r.buffer \o rest)
  <2>1. PICK buffer \in Seq(Chars) : buffer = r.buffer
    BY <1>1 DEF Reads
  <2>2. rest \in Seq(Chars)
    BY <1>1 DEF Reads
  <2>3. Len(buffer) + Len(rest) \in Nat /\ Len(buffer \o rest) = Len(buffer) + Len(rest)
    BY <2>2, ConcatProperties, LenProperties
  <2> QED BY <2>1, <2>3
<1>3. \A i \in 0 .. m : lab[i] \in Labels
  BY <1>1, <1>2 DEF Reads, IsPath
<1>4. IsSent(f, lab, m, p, s, o, k)
  BY <1>1, <1>2
<1>5. IsSent(f, lab, m, p2, s2, o2, k2)
  BY <1>3, <1>4 DEF IsSent, GivenStays
<1> QED BY <1>1, <1>2, <1>5 DEF Receives

\* What is written is text.
LEMMA TextType ==
  ASSUME NEW f \in Formats, NEW l \in Labels
  PROVE  TextOf(f, l) \in Seq(Chars)
<1>1. PICK nl \in Seq(Chars) : nl = f.newline
  <2>1. <<"nl">> \in Seq(Chars) /\ <<"cr", "nl">> \in Seq(Chars)
    BY CharFacts, ShortTexts
  <2> QED BY <2>1, NewlineFacts
<1>2. PICK body \in Seq(Chars) : body = Body(l)
  BY ItemIsPlain
<1>3. body \o nl \in Seq(Chars)
  BY ConcatProperties
<1>4. ASSUME NEW t \in Seq(Chars) PROVE (t \o nl) \o nl \in Seq(Chars)
  <2>1. PICK u \in Seq(Chars) : u = t \o nl
    BY ConcatProperties
  <2> QED BY <2>1, ConcatProperties
<1>5. <<":">> \in Seq(Chars) /\ <<"data:">> \in Seq(Chars) /\ <<"event:", "close">> \in Seq(Chars)
  BY CharFacts, ShortTexts
<1>6. PICK t \in Seq(Chars) : t = <<"event:", TypeOf(l.kind)>>
  <2>1. TypeOf(l.kind) \in {"message", "error", "close"}
    BY DEF TypeOf
  <2>2. TypeOf(l.kind) \in Chars
    BY <2>1, CharFacts
  <2> QED BY <2>2, CharFacts, ShortTexts
<1>7. (((t \o nl) \o <<"data:">>) \o body) \o nl \o nl \in Seq(Chars)
  <2>1. PICK u \in Seq(Chars) : u = t \o nl
    BY ConcatProperties
  <2>2. PICK v \in Seq(Chars) : v = u \o <<"data:">>
    BY <1>5, ConcatProperties
  <2>3. PICK w \in Seq(Chars) : w = v \o body
    BY ConcatProperties
  <2>4. (w \o nl) \o nl \in Seq(Chars)
    BY <1>4
  <2> QED BY <2>1, <2>2, <2>3, <2>4
<1>8. CASE f.framing = "jsonl"
  BY <1>1, <1>2, <1>3, <1>8 DEF TextOf
<1>9. CASE f.framing # "jsonl" /\ l.kind = "comment"
  <2>1. (<<":">> \o nl) \o nl \in Seq(Chars)
    BY <1>4, <1>5
  <2> QED BY <1>1, <1>9, <2>1 DEF TextOf
<1>10. CASE f.framing # "jsonl" /\ l.kind = "close"
  <2>1. (<<"event:", "close">> \o nl) \o nl \in Seq(Chars)
    BY <1>4, <1>5
  <2> QED BY <1>1, <1>10, <2>1 DEF TextOf
<1>11. CASE f.framing # "jsonl" /\ l.kind # "comment" /\ l.kind # "close"
  BY <1>1, <1>2, <1>6, <1>7, <1>11 DEF TextOf
<1> QED BY <1>8, <1>9, <1>10, <1>11

LEMMA InLineSame ==
  ASSUME NEW f, NEW lab, NEW b \in Nat, InLine(f, lab, 0, b),
         NEW longer, \A i \in 0 .. b : longer[i] = lab[i]
  PROVE  InLine(f, longer, 0, b)
<1>1. /\ 0 \in 0 .. b /\ b \in 0 .. b /\ 0 + 1 = 1 /\ (0 < b => 1 \in 0 .. b)
      /\ \A i \in 1 .. b : i \in 0 .. b
  OBVIOUS
<1>2. longer[0] = lab[0] /\ longer[b] = lab[b] /\ (0 < b => longer[1] = lab[1])
      /\ \A i \in 1 .. b : longer[i] = lab[i]
  BY <1>1
<1> QED BY <1>1, <1>2 DEF InLine

\* What the sender writes next, after s items, when it has not ended.
Begins(f, b, s) ==
  /\ b \in Labels /\ b.line = 1
  /\ \/ b.kind = "comment" /\ b.n = s /\ f.framing = "sse"
     \/ b.kind = "item" /\ b.n = s + 1
     \/ b.kind \in Failures /\ b.n = s
     \/ b.kind = "close" /\ b.n = s /\ f.framing = "sse"

IsOver(f, b, p, o) ==
  o <=> b.kind \in Terminals \/ (f.framing = "jsonl" /\ p = "done")
IsAppended(f, rest, b, more) == more = rest \o TextOf(f, b)

\* A step of the sender that writes.
LEMMA WriteKeeps ==
  ASSUME NEW f \in Formats, NEW c \in Nat, NEW r, NEW rest, NEW p, NEW s, NEW o,
         Receives(f, c, r, rest, p, s, o, "open"), ~o,
         NEW b, Begins(f, b, s), NEW p2, NEW s2, GivenStays(f, p, s, p2, s2),
         IsGiven(f, b, p2, s2), b.n = s2, NEW o2, IsOver(f, b, p2, o2),
         NEW more, IsAppended(f, rest, b, more)
  PROVE  Receives(f, c, r, more, p2, s2, o2, "open")
<1>1. PICK lab : /\ Reads(f, lab, r.buffer, rest, c, r)
                 /\ IsSent(f, lab, Len(r.buffer) + Len(rest), p, s, o, "open")
  BY DEF Receives
<1>2. PICK buffer \in Seq(Chars) : buffer = r.buffer
  BY <1>1 DEF Reads
<1>3. rest \in Seq(Chars) /\ IsPath(f, lab, buffer \o rest) /\ InLine(f, lab, 0, Len(buffer))
      /\ c <= Completed(f, lab[0]) /\ r = ReaderAt(f, lab[0], c, buffer)
  BY <1>1, <1>2 DEF Reads
<1>4. PICK k \in Nat : k = Len(buffer)
  BY LenProperties
<1>5. PICK w \in Nat : w = Len(rest)
  BY <1>3, LenProperties
<1>6. PICK text : text = buffer \o rest
  OBVIOUS
<1>7. text \in Seq(Chars) /\ Len(text) = k + w
  BY <1>3, <1>4, <1>5, <1>6, ConcatProperties
<1>8. PICK n \in Nat : n = k + w /\ k <= n
  OBVIOUS
<1>9. (\A i \in 0 .. n : IsGiven(f, lab[i], p, s)) /\ IsLatest(f, lab[n], p, s, o)
  BY <1>1, <1>2, <1>4, <1>5, <1>8 DEF IsSent
<1>10. b \in Labels /\ b.line = 1
  BY DEF Begins
<1>11. lab[n] \in Labels
  <2>1. n \in 0 .. Len(text)
    BY <1>7, <1>8
  <2> QED BY <1>3, <1>6, <2>1 DEF IsPath
<1>12. AtEnd(f, lab[n]) /\ NewLine(f, lab[n], TokenAt(b, 1))
  <2>1. AtEnd(f, lab[n]) /\ lab[n].line >= LastLine(f, lab[n]) /\ lab[n].n = s
        /\ lab[n].kind \notin Terminals
    BY <1>9 DEF IsLatest
  <2>2. ~(lab[n].line < LastLine(f, lab[n]))
    <3>1. PICK x \in 1 .. 3 : x = LastLine(f, lab[n])
      BY DEF LastLine
    <3>2. PICK y \in 1 .. 3 : y = lab[n].line
      BY <1>11 DEF Labels
    <3>3. y >= x
      BY <2>1, <3>1, <3>2
    <3>4. ~(y < x)
      BY <3>3
    <3> QED BY <3>1, <3>2, <3>4
  <2>3. /\ TokenAt(b, 1).at = 1 /\ TokenAt(b, 1).kind = b.kind
        /\ TokenAt(b, 1).n = b.n /\ TokenAt(b, 1).line = 1
    BY <1>10 DEF TokenAt, Labels
  <2> QED BY <2>1, <2>2, <2>3 DEF NewLine, Begins
<1>13. PICK longer, d : /\ Grown(f, lab, text, longer, text \o TextOf(f, b), d)
                        /\ d.kind = b.kind /\ d.n = b.n /\ d.line >= LastLine(f, d)
  <2>1. n = Len(text) /\ IsPath(f, lab, text)
        /\ (b.kind \in {"comment", "close"} => f.framing = "sse")
    BY <1>3, <1>6, <1>7, <1>8 DEF Begins, Failures
  <2> QED BY <1>7, <1>10, <1>12, <2>1, PathWritten
<1>14. PICK t \in Seq(Chars) : t = TextOf(f, b)
  BY <1>10, TextType
<1>15. PICK x \in Nat : x = Len(t)
  BY LenProperties
<1>16. PICK whole : whole = text \o t
  OBVIOUS
<1>17. more = rest \o t
  BY <1>14 DEF IsAppended
<1>18. more \in Seq(Chars) /\ Len(more) = w + x
  BY <1>3, <1>5, <1>15, <1>17, ConcatProperties
<1>19. whole \in Seq(Chars) /\ Len(whole) = n + x /\ whole = buffer \o more
  <2>1. (buffer \o rest) \o t = buffer \o (rest \o t)
    <3>1. buffer \in Seq(Chars) /\ rest \in Seq(Chars) /\ t \in Seq(Chars)
      BY <1>3
    <3> QED BY <3>1, Assoc
  <2>2. text \o t \in Seq(Chars) /\ Len(text \o t) = n + x
    <3>1. Len(text) = n /\ text \in Seq(Chars)
      BY <1>7, <1>8
    <3> QED BY <1>15, <3>1, ConcatProperties
  <2> QED BY <1>6, <1>16, <1>17, <2>1, <2>2
<1>20. /\ IsPath(f, longer, whole)
       /\ \A i \in 0 .. n : longer[i] = lab[i]
       /\ \A i \in n + 1 .. n + x : longer[i].kind = d.kind /\ longer[i].n = d.n
       /\ AtEnd(f, longer[n + x]) /\ longer[n + x].line = d.line
       /\ n < n + x
  <2>1. Grown(f, lab, text, longer, whole, d)
    BY <1>13, <1>14, <1>16
  <2>2. Len(text) = n /\ Len(whole) = n + x
    BY <1>7, <1>8, <1>19
  <2> QED BY <2>1, <2>2 DEF Grown
<1>21. n + x \in n + 1 .. n + x /\ k + (w + x) = n + x
  BY <1>8, <1>20
<1>22. InLine(f, longer, 0, k)
  <2>1. \A i \in 0 .. k : i \in 0 .. n
    BY <1>8
  <2> QED BY <1>3, <1>4, <1>20, <2>1, InLineSame
<1>23. longer[0] = lab[0]
  <2>1. 0 \in 0 .. n
    OBVIOUS
  <2> QED BY <1>20, <2>1
<1>24. Reads(f, longer, buffer, more, c, r)
  BY <1>3, <1>4, <1>18, <1>19, <1>20, <1>22, <1>23 DEF Reads
<1>25. \A i \in 0 .. n + x : IsGiven(f, longer[i], p2, s2)
  <2> SUFFICES ASSUME NEW i \in 0 .. n + x PROVE IsGiven(f, longer[i], p2, s2)
    OBVIOUS
  <2>1. CASE i <= n
    <3>1. i \in 0 .. n
      BY <2>1
    <3>2. lab[i] \in Labels
      BY <1>3, <1>6, <1>7, <1>8, <3>1 DEF IsPath
    <3> QED BY <1>9, <1>20, <3>1, <3>2 DEF GivenStays
  <2>2. CASE ~(i <= n)
    <3>1. i \in n + 1 .. n + x
      BY <2>2
    <3>2. longer[i].kind = b.kind /\ longer[i].n = b.n
      BY <1>13, <1>20, <3>1
    <3> QED BY <3>2 DEF IsGiven
  <2> QED BY <2>1, <2>2
<1>26. IsLatest(f, longer[n + x], p2, s2, o2)
  <2>1. longer[n + x].kind = b.kind /\ longer[n + x].n = b.n
    BY <1>13, <1>20, <1>21
  <2>2. LastLine(f, longer[n + x]) = LastLine(f, d)
    BY <1>13, <2>1 DEF LastLine
  <2> QED BY <1>13, <1>20, <2>1, <2>2 DEF IsLatest, IsOver
<1>27. IsSent(f, longer, k + (w + x), p2, s2, o2, "open")
  BY <1>21, <1>25, <1>26 DEF IsSent
<1>28. Receives(f, c, r, more, p2, s2, o2, "open")
  BY <1>2, <1>4, <1>18, <1>24, <1>27 DEF Receives
<1> QED BY <1>28

\* Before anything is written the reader is behind a line of nothing.
LEMMA NothingWritten ==
  ASSUME NEW f \in Formats, NEW p, p \notin Failures \cup {"done"},
         NEW r, r = [buffer |-> <<>>, ready |-> <<>>, data |-> <<>>, event |-> "message"]
  PROVE  Receives(f, 0, r, <<>>, p, 0, FALSE, "open")
<1> DEFINE a == [kind |-> "comment", n |-> 0, line |-> 1, at |-> 0]
           last == [kind |-> "comment", n |-> 0, line |-> LastLine(f, a), at |-> 0]
           l == [kind |-> "comment", n |-> 0, line |-> LastLine(f, a), at |-> LineLength(f, last)]
           lab == [i \in 0 .. 0 |-> l]
<1>1. LastLine(f, a) \in 1 .. 3
  BY DEF LastLine
<1>2. 0 \in 0 .. Len(Items)
  <2>1. Len(Items) \in Nat
    BY StreamAssumption, LenProperties
  <2> QED BY <2>1
<1>3. last \in Labels
  <2>1. "comment" \in {"comment", "item"} \cup Terminals /\ "comment" # "item" /\ 0 \in Nat
    OBVIOUS
  <2> QED BY <1>1, <1>2, <2>1 DEF Labels
<1>4. LineLength(f, last) \in Nat
  <2>1. PICK x \in 1 .. 6 : x = LineLength(f, last)
    BY <1>3, LabelSize
  <2> QED BY <2>1
<1>5. l \in Labels
  <2>1. "comment" \in {"comment", "item"} \cup Terminals /\ "comment" # "item"
    OBVIOUS
  <2> QED BY <1>1, <1>2, <1>4, <2>1 DEF Labels
<1>6. l.kind = "comment" /\ l.n = 0 /\ l.line = LastLine(f, a) /\ l.at = LineLength(f, last)
  OBVIOUS
<1>7. LastLine(f, l) = LastLine(f, a)
  BY DEF LastLine
<1>8. LineLength(f, l) = LineLength(f, last)
  <2>1. PICK pos \in Nat : pos = LineLength(f, last)
    BY <1>4
  <2>2. l = TokenAt(last, pos)
    BY <2>1 DEF TokenAt
  <2> QED BY <1>3, <2>1, <2>2, SameLine
<1> HIDE DEF a, last
<1>9. AtEnd(f, l) /\ l.line >= LastLine(f, l) /\ ~(l.line < LastLine(f, l))
  BY <1>1, <1>6, <1>7, <1>8 DEF AtEnd
<1> HIDE DEF l
<1>10. "comment" \notin Terminals /\ "comment" \notin Failures
  BY DEF Terminals, Failures
<1>11. Completed(f, l) = 0
  BY <1>6, <1>10 DEF Completed, Done
<1>12. lab[0] = l
  OBVIOUS
<1> HIDE DEF lab
<1>13. ReadyAt(f, l, 0) = <<>>
  BY <1>5, <1>11, NothingReady
<1>14. DataAt(f, l) = <<>> /\ EventAt(f, l) = "message"
  BY <1>6 DEF DataAt, EventAt
<1>15. r = ReaderAt(f, l, 0, <<>>)
  BY <1>13, <1>14 DEF ReaderAt
<1>16. <<>> \in Seq(Chars) /\ Len(<<>>) = 0 /\ <<>> \o <<>> = <<>>
  OBVIOUS
<1>17. /\ 0 \in 0 .. 0 /\ 0 + 0 = 0 /\ (\A i \in 0 .. 0 : i = 0)
       /\ (\A i \in 1 .. 0 : FALSE) /\ ~(0 < 0) /\ 0 <= 0 /\ 0 + 1 = 1
  OBVIOUS
<1>18. IsPath(f, lab, <<>>)
  BY <1>5, <1>12, <1>16, <1>17 DEF IsPath
<1>19. InLine(f, lab, 0, 0)
  BY <1>9, <1>12, <1>17 DEF InLine
<1>20. Reads(f, lab, <<>>, <<>>, 0, r)
  BY <1>11, <1>12, <1>15, <1>16, <1>17, <1>18, <1>19 DEF Reads
<1>21. IsGiven(f, l, p, 0) /\ IsLatest(f, l, p, 0, FALSE)
  BY <1>6, <1>9, <1>10, <1>17 DEF IsGiven, IsLatest
<1>22. IsSent(f, lab, 0, p, 0, FALSE, "open")
  BY <1>12, <1>17, <1>21 DEF IsSent
<1>23. r.buffer = <<>>
  OBVIOUS
<1> QED BY <1>16, <1>17, <1>20, <1>22, <1>23 DEF Receives

-----------------------------------------------------------------------------
(* The end of a body *)

\* A line that nobody ended: c items were taken, s were sent.
IsLastLine(line, c, s, p) ==
  \/ c < s /\ line = ItemLine(Items[c + 1])
  \/ p \in Failures /\ line = FailureLine(CodeOf(p))
  \/ Len(line) = 1
  \/ Len(line) = 2 /\ line[1] = "{"

IsBeginning(text, d, j, t) ==
  \/ j - d \in 1 .. Len(t) /\ SubSeq(text, d + 1, j) = SubSeq(t, 1, j - d)
  \/ SubSeq(text, d + 1, j) = Append(t, "cr")

\* What is there of a line.
LEMMA BeginningOfLine ==
  ASSUME NEW f \in Formats, NEW lab, NEW text \in Seq(Chars), IsPath(f, lab, text),
         NEW d \in Nat, NEW j \in 1 .. Len(text), d < j, InLine(f, lab, d, j)
  PROVE  IsBeginning(text, d, j, LineText(f, lab[j]))
BY PartOfLine DEF IsBeginning

\* What is left of a body is the beginning of a line, or all of it.
LEMMA WhatIsLeft ==
  ASSUME NEW f \in Formats, f.framing = "jsonl", NEW c \in Nat, NEW s \in Nat, NEW p,
         NEW lab, NEW buffer \in Seq(Chars), IsPath(f, lab, buffer),
         NEW b \in Nat, b = Len(buffer), b # 0, InLine(f, lab, 0, b),
         c = Completed(f, lab[0]), IsGiven(f, lab[b], p, s)
  PROVE  IsLastLine(Trim(buffer), c, s, p)
<1>1. /\ 0 \in 0 .. b /\ b \in 0 .. b /\ b \in 1 .. b /\ 0 < b /\ 1 \in 1 .. b /\ b - 0 = b
      /\ 0 + 1 = 1 /\ 1 - 0 = 1 /\ 0 \in Nat
  OBVIOUS
<1>2. PICK l \in Labels : l = lab[b]
  BY <1>1 DEF IsPath
<1>3. PICK t \in Seq(Chars) : t = Body(l)
  BY ItemIsPlain
<1>4. LineText(f, l) = t
  BY <1>3 DEF LineText
<1>5. PICK k \in Nat : k = Len(t) /\ (k = 2 \/ k = 3)
  BY <1>3, ItemIsPlain
<1>6. IsPlain(t) /\ \A i \in 1 .. k : t[i] \notin {"nl", "cr", " "}
  <2>1. \A i \in 1 .. Len(Body(l)) : Body(l)[i] \notin {"nl", "cr", " "}
    BY ItemIsPlain
  <2>2. \A i \in 1 .. k : t[i] \notin {"nl", "cr", " "}
    BY <1>3, <1>5, <2>1
  <2>3. k # 0
    BY <1>5
  <2> QED BY <1>5, <2>2, <2>3 DEF IsPlain
<1>7. Trim(t) = t /\ Trim(Append(t, "cr")) = t
  BY <1>6, TrimPlain
<1>8. /\ AtEnd(f, lab[0]) /\ lab[1] = TokenAt(l, 1) /\ NewLine(f, lab[0], lab[1])
  <2>1. lab[1] = TokenAt(lab[b], 1 - 0)
    BY <1>1 DEF InLine
  <2> QED BY <1>1, <1>2, <2>1 DEF InLine
<1>9. PICK a \in Labels : a = lab[0]
  BY <1>1 DEF IsPath
<1>10. NewLine(f, a, TokenAt(l, 1))
  BY <1>8, <1>9
<1>11. LastLine(f, a) = 1 /\ ~(a.line < LastLine(f, a))
  BY DEF LastLine, Labels
<1>12. /\ Completed(f, a) = Done(f, a) /\ Done(f, a) = a.n
       /\ \/ l.kind = "item" /\ l.n = a.n + 1
          \/ l.kind \in Failures /\ l.n = a.n
  BY <1>10, <1>11, LineFollows
<1>13. IsLastLine(t, c, s, p)
  <2>1. CASE l.kind = "item" /\ l.n = a.n + 1
    <3>1. l.n = c + 1
      BY <1>9, <1>12, <2>1
    <3>2. c + 1 <= s
      BY <1>2, <3>1 DEF IsGiven
    <3>3. c < s
      BY <3>2
    <3>4. t = ItemLine(Items[c + 1])
      BY <1>3, <2>1, <3>1 DEF Body
    <3> QED BY <3>3, <3>4 DEF IsLastLine
  <2>2. CASE l.kind \in Failures /\ l.n = a.n
    <3>1. p = l.kind
      BY <1>2, <2>2 DEF IsGiven
    <3>2. t = FailureLine(CodeOf(p))
      BY <1>3, <2>2, <3>1 DEF Body, Failures
    <3> QED BY <2>2, <3>1, <3>2 DEF IsLastLine
  <2> QED BY <1>12, <2>1, <2>2
<1>14. \/ b \in 1 .. k /\ SubSeq(buffer, 1, b) = SubSeq(t, 1, b)
       \/ SubSeq(buffer, 1, b) = Append(t, "cr")
  <2>1. PICK d \in Nat : d = 0
    OBVIOUS
  <2>2. PICK e \in 1 .. Len(buffer) : e = b
    BY <1>1
  <2>3. /\ d < e /\ InLine(f, lab, d, e) /\ IsPath(f, lab, buffer)
        /\ d \in Nat /\ e \in 1 .. Len(buffer) /\ buffer \in Seq(Chars) /\ f \in Formats
    BY <1>1, <2>1, <2>2
  <2>4. IsBeginning(buffer, d, e, LineText(f, lab[e]))
    BY <2>3, BeginningOfLine
  <2>5. LineText(f, lab[e]) = t /\ e - d = b /\ d + 1 = 1
    BY <1>1, <1>2, <1>4, <2>1, <2>2
  <2>6. \/ b \in 1 .. Len(t) /\ SubSeq(buffer, 1, e) = SubSeq(t, 1, b)
        \/ SubSeq(buffer, 1, e) = Append(t, "cr")
    BY <2>4, <2>5 DEF IsBeginning
  <2> QED BY <1>5, <2>2, <2>6
<1>15. SubSeq(buffer, 1, b) = buffer
  BY SubSeqFull
<1>16. CASE SubSeq(buffer, 1, b) = Append(t, "cr")
  <2>1. Trim(buffer) = t
    BY <1>7, <1>15, <1>16
  <2> QED BY <1>13, <2>1
<1>17. CASE b \in 1 .. k /\ SubSeq(buffer, 1, b) = SubSeq(t, 1, b)
  <2>1. CASE b = k
    <3>1. SubSeq(t, 1, k) = t
      BY <1>5, SubSeqFull
    <3>2. buffer = t
      BY <1>15, <1>17, <2>1, <3>1
    <3>3. Trim(buffer) = t
      BY <1>7, <3>2
    <3> QED BY <1>13, <3>3
  <2>2. CASE b # k
    <3>1. b = 1 \/ (b = 2 /\ k = 3)
      <4>1. b \in 1 .. k /\ b # k /\ (k = 2 \/ k = 3)
        BY <1>5, <1>17, <2>2
      <4>2. CASE k = 2
        BY <4>1, <4>2
      <4>3. CASE k = 3
        BY <4>1, <4>3
      <4> QED BY <4>1, <4>2, <4>3
    <3>2. \A i \in 1 .. b : buffer[i] = t[i] /\ i \in 1 .. k
      <4>1. 0 \in Nat /\ 0 <= b /\ b <= k /\ 0 + 1 = 1 /\ b - 0 = b /\ \A i \in 1 .. b : 0 + i = i
        BY <1>17
      <4>2. \A i \in 1 .. b - 0 : SubSeq(t, 0 + 1, b)[i] = t[0 + i]
        BY <1>5, <4>1, PartOf
      <4>3. buffer = SubSeq(t, 1, b)
        BY <1>15, <1>17
      <4>4. \A i \in 1 .. b : i \in 1 .. k
        BY <1>17
      <4> QED BY <4>1, <4>2, <4>3, <4>4
    <3>3. IsPlain(buffer)
      BY <1>6, <3>2 DEF IsPlain
    <3>4. Trim(buffer) = buffer
      BY <3>3, TrimPlain
    <3>5. CASE b = 1
      BY <3>4, <3>5 DEF IsLastLine
    <3>6. CASE b = 2 /\ k = 3
      <4>1. l.kind = "item"
        <5>1. l.kind # "item" => t = <<"!", CodeOf(l.kind)>>
          BY <1>3 DEF Body, FailureLine
        <5>2. Len(<<"!", CodeOf(l.kind)>>) = 2
          OBVIOUS
        <5>3. PICK u : u = <<"!", CodeOf(l.kind)>>
          OBVIOUS
        <5>4. Len(u) = 2
          BY <5>2, <5>3
        <5>5. t # u
          <6>1. Len(t) = 3
            BY <1>5, <3>6
          <6>2. 2 # 3
            OBVIOUS
          <6> QED BY <5>4, <6>1, <6>2, Zenon
        <5> QED BY <5>1, <5>3, <5>5
      <4>2. t[1] = "{"
        <5>1. t = <<"{", Items[l.n], "}">>
          BY <1>3, <4>1 DEF Body, ItemLine
        <5> QED BY <5>1
      <4>3. buffer[1] = "{"
        BY <1>1, <3>2, <4>2
      <4> QED BY <3>4, <3>6, <4>3 DEF IsLastLine
    <3> QED BY <3>1, <3>5, <3>6
  <2> QED BY <2>1, <2>2
<1> QED BY <1>14, <1>16, <1>17

\* Nothing is under way and nothing is ready.
LEMMA NothingLeft ==
  ASSUME NEW f \in Formats, NEW c \in Nat, NEW s \in Nat, c <= s, NEW r, NEW p, NEW o, NEW k,
         Receives(f, c, r, <<>>, p, s, o, k), r.ready = <<>>
  PROVE  /\ f.framing = "jsonl" /\ Trim(r.buffer) # <<>> =>
              k # "open" /\ IsLastLine(Trim(r.buffer), c, s, p)
         /\ k = "open" /\ o => f.framing = "jsonl" /\ p = "done" /\ c = s
<1>1. PICK lab : /\ Reads(f, lab, r.buffer, <<>>, c, r)
                 /\ IsSent(f, lab, Len(r.buffer) + Len(<<>>), p, s, o, k)
  BY DEF Receives
<1>2. PICK buffer \in Seq(Chars) : buffer = r.buffer
  BY <1>1 DEF Reads
<1>3. buffer \o <<>> = buffer
  BY ConcatEmptySeq
<1>4. IsPath(f, lab, buffer) /\ InLine(f, lab, 0, Len(buffer))
      /\ c <= Completed(f, lab[0]) /\ r = ReaderAt(f, lab[0], c, buffer)
  BY <1>1, <1>2, <1>3 DEF Reads
<1>5. PICK b \in Nat : b = Len(buffer)
  BY LenProperties
<1>6. IsSent(f, lab, b, p, s, o, k)
  <2>1. b + Len(<<>>) = b
    OBVIOUS
  <2> QED BY <1>1, <1>2, <1>5, <2>1
<1>7. 0 \in 0 .. b /\ b \in 0 .. b
  OBVIOUS
<1>8. lab[0] \in Labels /\ lab[b] \in Labels
  BY <1>4, <1>5, <1>7 DEF IsPath
<1>9. c = Completed(f, lab[0])
  <2>1. ReadyAt(f, lab[0], c) = <<>>
    BY <1>4 DEF ReaderAt
  <2> QED BY <1>4, <1>8, <2>1, NothingReady
<1>10. ASSUME k = "open" PROVE b = 0
  <2> SUFFICES ASSUME b # 0 PROVE FALSE
    OBVIOUS
  <2>1. 0 < b /\ b - 0 = b /\ b \in 0 + 1 .. b
    OBVIOUS
  <2>2. lab[b] = TokenAt(lab[b], b - 0) /\ b - 0 < LineLength(f, lab[b])
    BY <1>4, <1>5, <2>1 DEF InLine
  <2>3. lab[b].at = b
    <3>1. lab[b] = TokenAt(lab[b], b)
      BY <2>1, <2>2
    <3>2. PICK l \in Labels : l = lab[b]
      BY <1>8
    <3>3. l = TokenAt(l, b)
      BY <3>1, <3>2
    <3>4. TokenAt(l, b).at = b
      BY SameLine
    <3>5. l.at = b
      BY <3>3, <3>4
    <3> QED BY <3>2, <3>5
  <2>4. PICK x \in 1 .. 6 : x = LineLength(f, lab[b])
    BY <1>8, LabelSize
  <2>5. AtEnd(f, lab[b])
    BY <1>6, <1>10 DEF IsSent, IsLatest
  <2>6. b = x /\ b < x
    BY <2>1, <2>2, <2>3, <2>4, <2>5 DEF AtEnd
  <2> QED BY <2>6
<1>11. ASSUME f.framing = "jsonl", Trim(r.buffer) # <<>>
       PROVE  k # "open" /\ IsLastLine(Trim(r.buffer), c, s, p)
  <2>1. b # 0
    <3> SUFFICES ASSUME b = 0 PROVE FALSE
      OBVIOUS
    <3>1. buffer = <<>>
      BY <1>5, EmptySeq
    <3>2. Trim(<<>>) = <<>>
      BY DEF Trim
    <3> QED BY <1>2, <1>11, <3>1, <3>2
  <2>2. k # "open"
    BY <1>10, <2>1
  <2>3. IsGiven(f, lab[b], p, s)
    BY <1>6, <1>7 DEF IsSent
  <2>4. InLine(f, lab, 0, b)
    BY <1>4, <1>5
  <2>5. IsLastLine(Trim(buffer), c, s, p)
    BY <1>4, <1>5, <1>9, <1>11, <2>1, <2>3, <2>4, WhatIsLeft
  <2> QED BY <1>2, <2>2, <2>5
<1>12. ASSUME k = "open", o PROVE f.framing = "jsonl" /\ p = "done" /\ c = s
  <2>1. b = 0 /\ IsLatest(f, lab[0], p, s, o)
    BY <1>6, <1>10, <1>12 DEF IsSent
  <2>2. PICK l \in Labels : l = lab[0]
    BY <1>8
  <2>3. l.n = s /\ l.line >= LastLine(f, l)
        /\ (l.kind \in Terminals \/ (f.framing = "jsonl" /\ p = "done"))
    BY <1>12, <2>1, <2>2 DEF IsLatest
  <2>4. l.kind \notin Terminals
    <3> SUFFICES ASSUME l.kind \in Terminals PROVE FALSE
      OBVIOUS
    <3>1. c = s + 1
      BY <1>9, <2>2, <2>3 DEF Completed
    <3> QED BY <3>1
  <2>5. c = s
    <3>1. Completed(f, l) = Done(f, l)
      BY <2>4 DEF Completed
    <3>2. ~(l.line < LastLine(f, l))
      <4>1. PICK x \in 1 .. 3 : x = LastLine(f, l)
        BY DEF LastLine
      <4>2. PICK y \in 1 .. 3 : y = l.line
        BY DEF Labels
      <4>3. y >= x
        BY <2>3, <4>1, <4>2
      <4>4. ~(y < x)
        BY <4>3
      <4> QED BY <4>1, <4>2, <4>4
    <3>3. Done(f, l) = l.n
      BY <3>2 DEF Done
    <3> QED BY <1>9, <2>2, <2>3, <3>1, <3>3
  <2> QED BY <2>3, <2>4, <2>5
<1> QED BY <1>11, <1>12

-----------------------------------------------------------------------------
(* The stream *)

Format == [framing |-> framing, newline |-> newline]

\* What the sender gave so far.
SentInv ==
  /\ Format \in Formats
  /\ framing = "jsonl" => ~timer
  /\ sent \in Seq(STRING) /\ Len(sent) <= Len(Items)
  /\ \A i \in 1 .. Len(sent) : sent[i] = Items[i]
  /\ producer = "done" => Len(sent) = Len(Items)

\* What the user's loop got so far.
GotInv ==
  /\ got \in Seq(STRING) /\ Len(got) <= Len(sent)
  /\ \A i \in 1 .. Len(got) : got[i] = Items[i]

\* How a loop that is left was left.
LeftInv ==
  /\ consumer = "end" => \/ Len(got) = Len(Items) /\ producer = "done"
                         \/ framing = "jsonl" /\ pipe \in {"cut", "broken"}
  /\ consumer = "INTERNAL" => producer \in {"threw", "unwritten"}
  /\ consumer = "VALIDATION" => producer = "returned"
  /\ consumer = "BAD_REQUEST" =>
       \/ producer = "left" \/ direction = "input" \/ pipe \in {"cut", "broken"}
  /\ consumer = "truncated" => pipe \in {"cut", "broken"}

\* What the loop will get: what is under way, or the last line of a jsonl body
\* that was cut.
IsReceiving ==
  Receives(Format, Len(got), reader, wire, producer, Len(sent), over, pipe)
HasLastLine ==
  /\ framing = "jsonl" /\ pipe = "cut" /\ wire = <<>>
  /\ \E ready, data, event :
       /\ reader = [buffer |-> <<>>, ready |-> ready, data |-> data, event |-> event]
       /\ \/ ready = <<>>
          \/ \E line : /\ ready = <<<<"message", line>>>>
                       /\ IsLastLine(line, Len(got), Len(sent), producer)
ReaderInv == consumer \in {"reading", "holding"} => IsReceiving \/ HasLastLine

StreamInv ==
  /\ StreamTypeOK /\ NothingHeldOpen /\ SentInv /\ GotInv /\ LeftInv /\ ReaderInv
  /\ wire \in Seq(Chars)

\* Types, for short.
LEMMA SentFacts ==
  ASSUME SentInv, GotInv
  PROVE  /\ Len(sent) \in Nat /\ Len(got) \in Nat /\ Len(Items) \in Nat
         /\ Format \in Formats /\ Format.framing = framing /\ Format.newline = newline
<1>1. Len(Items) \in Nat
  BY StreamAssumption, LenProperties
<1> QED BY <1>1, LenProperties DEF SentInv, GotInv, Format

\* A new stream, and behind the first comment of sse.
LEMMA StreamInitInv == StreamInit => StreamInv
<1> SUFFICES ASSUME StreamInit PROVE StreamInv
  OBVIOUS
<1>1. StreamTypeOK
  <2>1. framing \in {"jsonl", "sse"} /\ consumer \in {"reading", "unread"}
    BY DEF StreamInit, FramingOf
  <2>2. timer \in BOOLEAN
    BY DEF StreamInit
  <2>3. ticks \in 0 .. MaxTicks
    <3>1. MaxTicks \in Nat
      BY StreamAssumption
    <3>2. ticks = 0
      BY DEF StreamInit
    <3> QED BY <3>1, <3>2
  <2> QED BY <2>1, <2>2, <2>3 DEF StreamInit, StreamTypeOK
<1>2. NothingHeldOpen
  BY DEF StreamInit, NothingHeldOpen
<1>3. Format \in Formats
  <2>1. newline \in {<<"nl">>, <<"cr", "nl">>}
    BY StreamAssumption DEF StreamInit
  <2> QED BY <1>1, <2>1 DEF StreamTypeOK, Format, Formats
<1>4. Len(Items) \in Nat /\ <<>> \in Seq(STRING) /\ Len(<<>>) = 0
  <2>1. Len(Items) \in Nat
    BY StreamAssumption, LenProperties
  <2>2. <<>> \in Seq(STRING) /\ Len(<<>>) = 0
    OBVIOUS
  <2> QED BY <2>1, <2>2
<1>5. sent = <<>> /\ got = <<>> /\ producer = "idle"
  BY DEF StreamInit
<1>6. \A i \in 1 .. 0 : FALSE
  OBVIOUS
<1>7. SentInv
  <2>1. Len(sent) <= Len(Items)
    BY <1>4, <1>5
  <2>2. framing = "jsonl" => ~timer
    BY DEF StreamInit
  <2> QED BY <1>3, <1>4, <1>5, <1>6, <2>1, <2>2 DEF SentInv
<1>8. GotInv
  BY <1>4, <1>5, <1>6 DEF GotInv
<1>9. LeftInv
  <2>1. consumer \in {"reading", "unread"}
    BY DEF StreamInit
  <2> QED BY <2>1 DEF LeftInv
<1>10. Receives(Format, 0, reader, <<>>, producer, 0, FALSE, "open")
  <2>1. "idle" \notin Failures \cup {"done"}
    BY DEF Failures
  <2>2. reader = [buffer |-> <<>>, ready |-> <<>>, data |-> <<>>, event |-> "message"]
    BY DEF StreamInit
  <2> QED BY <1>3, <1>5, <2>1, <2>2, NothingWritten
<1>11. CASE framing = "jsonl"
  <2>1. wire = <<>> /\ over = FALSE /\ pipe = "open"
    BY <1>11 DEF StreamInit
  <2>2. IsReceiving
    BY <1>4, <1>5, <1>10, <2>1 DEF IsReceiving
  <2>3. wire \in Seq(Chars)
    BY <2>1
  <2> QED BY <1>1, <1>2, <1>7, <1>8, <1>9, <2>2, <2>3 DEF StreamInv, ReaderInv
<1>12. CASE framing # "jsonl"
  <2>1. framing = "sse" /\ over = FALSE /\ pipe = "open" /\ wire = Comment
    BY <1>12 DEF StreamInit, FramingOf
  <2>2. PICK b : b = [kind |-> "comment", n |-> 0, line |-> 1, at |-> 1]
    OBVIOUS
  <2>3. b \in Labels /\ b.kind = "comment" /\ b.n = 0 /\ b.line = 1
    BY <1>4, <2>2 DEF Labels
  <2>4. "comment" \notin Terminals /\ "comment" \notin Failures
    BY DEF Terminals, Failures
  <2>5. Format.framing = "sse" /\ Format.newline = newline
    BY <2>1 DEF Format
  <2>6. Begins(Format, b, 0) /\ IsGiven(Format, b, producer, 0)
    BY <2>3, <2>4, <2>5 DEF Begins, IsGiven
  <2>7. GivenStays(Format, producer, 0, producer, 0)
    BY DEF GivenStays
  <2>8. IsOver(Format, b, producer, FALSE)
    BY <2>3, <2>4, <2>5 DEF IsOver
  <2>13. PICK more : more = <<>> \o TextOf(Format, b)
    OBVIOUS
  <2>9. Receives(Format, 0, reader, more, producer, 0, FALSE, "open")
    <3>1. IsAppended(Format, <<>>, b, more)
      BY <2>13 DEF IsAppended
    <3>2. 0 \in Nat /\ ~FALSE /\ b.n = 0
      BY <2>3
    <3> QED BY <1>3, <1>10, <2>6, <2>7, <2>8, <3>1, <3>2, WriteKeeps
  <2>10. TextOf(Format, b) = Comment
    BY <2>3, <2>5 DEF TextOf, Comment
  <2>11. <<>> \o Comment = Comment
    <3>1. TextOf(Format, b) \in Seq(Chars)
      BY <1>3, <2>3, TextType
    <3> QED BY <2>10, <3>1, ConcatEmptySeq
  <2>12. IsReceiving
    BY <1>4, <1>5, <2>1, <2>9, <2>10, <2>11, <2>13 DEF IsReceiving
  <2>14. wire \in Seq(Chars)
    BY <1>3, <2>1, <2>3, <2>10, TextType
  <2> QED BY <1>1, <1>2, <1>7, <1>8, <1>9, <2>12, <2>14 DEF StreamInv, ReaderInv
<1> QED BY <1>11, <1>12

-----------------------------------------------------------------------------
(* Its sender *)

\* What every step of the sender does to the receiver's side.
Advances ==
  /\ Len(sent) <= Len(sent')
  /\ producer \in Failures \cup {"done"} => producer' = producer
  /\ GivenStays(Format, producer, Len(sent), producer', Len(sent'))
  /\ \/ /\ wire' = wire
        /\ pipe = "open" => \A l : IsLatest(Format, l, producer, Len(sent), over)
                                     => IsLatest(Format, l, producer', Len(sent'), over')
     \/ /\ pipe = "open" /\ ~over
        /\ \E b : /\ Begins(Format, b, Len(sent))
                  /\ IsGiven(Format, b, producer', Len(sent'))
                  /\ b.n = Len(sent') /\ IsAppended(Format, wire, b, wire')
                  /\ IsOver(Format, b, producer', over')

\* Then the reader still gets what it was to get.
LEMMA AdvancesInv ==
  ASSUME StreamInv, Advances, Len(sent') \in Nat, UNCHANGED <<receiver, pipe, setting>>
  PROVE  GotInv' /\ LeftInv' /\ ReaderInv' /\ wire' \in Seq(Chars)
<1>1. /\ reader' = reader /\ consumer' = consumer /\ got' = got /\ pipe' = pipe
      /\ framing' = framing /\ direction' = direction /\ Format' = Format
  BY DEF receiver, setting, Format
<1>2. Len(got) \in Nat /\ Len(sent) \in Nat /\ Format \in Formats /\ Format.framing = framing
  BY SentFacts DEF StreamInv
<1>3. GotInv'
  BY <1>1, <1>2 DEF StreamInv, GotInv, Advances
<1>4. LeftInv'
  BY <1>1 DEF StreamInv, LeftInv, Advances, Failures
<1>5. ASSUME IsReceiving PROVE IsReceiving'
  <2>1. CASE /\ wire' = wire
             /\ pipe = "open" => \A l : IsLatest(Format, l, producer, Len(sent), over)
                                          => IsLatest(Format, l, producer', Len(sent'), over')
    <3>1. Receives(Format, Len(got), reader, wire, producer', Len(sent'), over', pipe)
      BY <1>5, <2>1, SenderKeeps DEF IsReceiving, Advances
    <3> QED BY <1>1, <2>1, <3>1 DEF IsReceiving
  <2>2. CASE /\ pipe = "open" /\ ~over
             /\ \E b : /\ Begins(Format, b, Len(sent))
                       /\ IsGiven(Format, b, producer', Len(sent'))
                       /\ b.n = Len(sent') /\ IsAppended(Format, wire, b, wire')
                       /\ IsOver(Format, b, producer', over')
    <3>1. PICK b : /\ Begins(Format, b, Len(sent))
                   /\ IsGiven(Format, b, producer', Len(sent'))
                   /\ b.n = Len(sent') /\ IsAppended(Format, wire, b, wire')
                   /\ IsOver(Format, b, producer', over')
      BY <2>2
    <3>2. Receives(Format, Len(got), reader, wire, producer, Len(sent), over, "open")
      BY <1>5, <2>2 DEF IsReceiving
    <3>3. Receives(Format, Len(got), reader, wire', producer', Len(sent'), over', "open")
      <4>1. GivenStays(Format, producer, Len(sent), producer', Len(sent'))
        BY DEF Advances
      <4> QED BY <1>2, <2>2, <3>1, <3>2, <4>1, WriteKeeps
    <3> QED BY <1>1, <2>2, <3>1, <3>3 DEF IsReceiving
  <2> QED BY <2>1, <2>2 DEF Advances
<1>6. ASSUME HasLastLine PROVE HasLastLine'
  <2>1. wire' = wire
    BY <1>6 DEF HasLastLine, Advances
  <2>2. \A line : IsLastLine(line, Len(got), Len(sent), producer)
                    => IsLastLine(line, Len(got'), Len(sent'), producer')
    <3>1. PICK c \in Nat : c = Len(got) /\ c = Len(got')
      BY <1>1, <1>2
    <3>2. PICK s \in Nat : s = Len(sent)
      BY <1>2
    <3>3. PICK s2 \in Nat : s2 = Len(sent') /\ s <= s2
      BY <3>2 DEF Advances
    <3>4. PICK p : p = producer
      OBVIOUS
    <3>5. PICK p2 : p2 = producer' /\ (p \in Failures => p2 = p)
      BY <3>4 DEF Advances
    <3>6. c < s => c < s2
      BY <3>3
    <3>7. \A line : IsLastLine(line, c, s, p) => IsLastLine(line, c, s2, p2)
      BY <3>5, <3>6 DEF IsLastLine
    <3> QED BY <3>1, <3>2, <3>3, <3>4, <3>5, <3>7
  <2> QED BY <1>1, <1>6, <2>1, <2>2 DEF HasLastLine
<1>7. ReaderInv'
  BY <1>1, <1>5, <1>6 DEF StreamInv, ReaderInv
<1>8. wire' \in Seq(Chars)
  <2>1. wire \in Seq(Chars)
    BY DEF StreamInv
  <2>2. ASSUME NEW b, Begins(Format, b, Len(sent)), IsAppended(Format, wire, b, wire')
        PROVE  wire' \in Seq(Chars)
    <3>1. TextOf(Format, b) \in Seq(Chars)
      BY <1>2, <2>2, TextType DEF Begins
    <3> QED BY <2>1, <2>2, <3>1, ConcatProperties DEF IsAppended
  <2> QED BY <2>1, <2>2 DEF Advances
<1> QED BY <1>3, <1>4, <1>7, <1>8

\* What was given stands while the iterator goes on.
LEMMA Stays ==
  ASSUME NEW f, NEW p, NEW s \in Nat, NEW p2, NEW s2 \in Nat, s <= s2,
         p \in Failures \cup {"done"} => p2 = p /\ s2 = s
  PROVE  GivenStays(f, p, s, p2, s2)
<1> SUFFICES ASSUME NEW l \in Labels, IsGiven(f, l, p, s) PROVE IsGiven(f, l, p2, s2)
  BY DEF GivenStays
<1>1. l.n <= s2
  <2>1. Len(Items) \in Nat
    BY StreamAssumption, LenProperties
  <2>2. PICK n \in Nat : n = l.n
    BY <2>1 DEF Labels
  <2>3. n <= s
    BY <2>2 DEF IsGiven
  <2> QED BY <2>2, <2>3
<1>2. l.kind \in Failures => p2 = l.kind
  BY DEF IsGiven
<1>3. l.kind = "close" => f.framing = "sse" /\ p2 = "done" /\ l.n = s2
  BY DEF IsGiven
<1> QED BY <1>1, <1>2, <1>3 DEF IsGiven

\* A step that writes nothing.
LEMMA QuietAdvances ==
  ASSUME StreamInv, wire' = wire, sent' = sent,
         producer \in Failures \cup {"done"} => producer' = producer,
         pipe = "open" => over' = over /\ (producer' = "done" => producer = "done")
  PROVE  Advances
<1>1. Len(sent) \in Nat /\ Format.framing = framing
  BY SentFacts DEF StreamInv
<1>2. Len(sent) <= Len(sent') /\ Len(sent') = Len(sent) /\ Len(sent') \in Nat
  BY <1>1
<1>3. GivenStays(Format, producer, Len(sent), producer', Len(sent'))
  <2>1. PICK s \in Nat : s = Len(sent) /\ s = Len(sent')
    BY <1>2
  <2>2. s <= s
    OBVIOUS
  <2> QED BY <2>1, <2>2, Stays
<1>4. pipe = "open" => \A l : IsLatest(Format, l, producer, Len(sent), over)
                                => IsLatest(Format, l, producer', Len(sent'), over')
  <2>1. producer = "done" => producer' = "done"
    OBVIOUS
  <2> QED BY <1>2, <2>1 DEF IsLatest
<1> QED BY <1>2, <1>3, <1>4 DEF Advances

\* What was written, if the network still takes it.
LEMMA WrittenAdvances ==
  ASSUME StreamInv, ~over, NEW b, Begins(Format, b, Len(sent)), Len(sent') \in Nat,
         b.n = Len(sent'), Len(sent) <= Len(sent'), Write(TextOf(Format, b)),
         producer \in Failures \cup {"done"} => producer' = producer /\ Len(sent') = Len(sent),
         IsGiven(Format, b, producer', Len(sent')),
         IsOver(Format, b, producer', over')
  PROVE  Advances
<1>1. Len(sent) \in Nat
  BY SentFacts DEF StreamInv
<1>2. GivenStays(Format, producer, Len(sent), producer', Len(sent'))
  BY <1>1, Stays
<1>3. CASE pipe # "open"
  <2>1. wire' = wire
    BY <1>3 DEF Write
  <2> QED BY <1>2, <1>3, <2>1 DEF Advances
<1>4. CASE pipe = "open"
  <2>1. wire' = wire \o TextOf(Format, b)
    BY <1>4 DEF Write
  <2>2. IsAppended(Format, wire, b, wire')
    BY <2>1 DEF IsAppended
  <2> QED BY <1>2, <1>4, <2>2 DEF Advances
<1> QED BY <1>3, <1>4

\* The sender, action by action.
LEMMA PullInv ==
  ASSUME StreamInv, Pull, UNCHANGED <<receiver, pipe, setting>>
  PROVE  StreamInv'
<1>1. /\ producer = "idle" /\ producer' = "running" /\ ~over /\ sent' = sent /\ over' = over
      /\ timer' = timer /\ ticks' = ticks /\ wire' = wire
  BY DEF Pull
<1>2. /\ framing' = framing /\ direction' = direction /\ Format' = Format /\ pipe' = pipe
      /\ consumer' = consumer
  BY DEF receiver, setting, Format
<1>3. StreamTypeOK'
  BY <1>1, <1>2 DEF StreamInv, StreamTypeOK
<1>4. NothingHeldOpen'
  BY <1>1 DEF StreamInv, NothingHeldOpen
<1>5. SentInv'
  BY <1>1, <1>2 DEF StreamInv, SentInv
<1>6. Advances
  <2>1. producer \notin Failures \cup {"done"} /\ producer' # "done"
    BY <1>1 DEF Failures
  <2> QED BY <1>1, <2>1, QuietAdvances
<1>7. Len(sent') \in Nat
  BY <1>1, SentFacts DEF StreamInv
<1> QED BY <1>3, <1>4, <1>5, <1>6, <1>7, AdvancesInv DEF StreamInv

LEMMA ReturnsInv ==
  ASSUME StreamInv, Returns, UNCHANGED <<receiver, pipe, setting>>
  PROVE  StreamInv'
<1>1. /\ producer = "returning" /\ producer' = "returned" /\ sent' = sent /\ over' = over
      /\ timer' = timer /\ ticks' = ticks /\ wire' = wire
  BY DEF Returns
<1>2. /\ framing' = framing /\ direction' = direction /\ Format' = Format /\ pipe' = pipe
      /\ consumer' = consumer
  BY DEF receiver, setting, Format
<1>3. StreamTypeOK'
  BY <1>1, <1>2 DEF StreamInv, StreamTypeOK
<1>4. NothingHeldOpen'
  BY <1>1 DEF StreamInv, NothingHeldOpen
<1>5. SentInv'
  BY <1>1, <1>2 DEF StreamInv, SentInv
<1>6. Advances
  <2>1. producer \notin Failures \cup {"done"} /\ producer' # "done"
    BY <1>1 DEF Failures
  <2> QED BY <1>1, <2>1, QuietAdvances
<1>7. Len(sent') \in Nat
  BY <1>1, SentFacts DEF StreamInv
<1> QED BY <1>3, <1>4, <1>5, <1>6, <1>7, AdvancesInv DEF StreamInv

LEMMA CancelInv ==
  ASSUME StreamInv, Cancel, UNCHANGED <<receiver, pipe, setting>>
  PROVE  StreamInv'
<1>1. /\ pipe = "broken" /\ over' = TRUE /\ timer' = FALSE /\ sent' = sent
      /\ ticks' = ticks /\ wire' = wire
      /\ producer' = IF producer \in {"idle", "running"} THEN "returning" ELSE producer
  BY DEF Cancel, Over
<1>2. /\ framing' = framing /\ direction' = direction /\ Format' = Format /\ pipe' = pipe
      /\ consumer' = consumer
  BY DEF receiver, setting, Format
<1>3. StreamTypeOK'
  BY <1>1, <1>2 DEF StreamInv, StreamTypeOK
<1>4. NothingHeldOpen'
  BY <1>1 DEF StreamInv, NothingHeldOpen
<1>5. SentInv'
  BY <1>1, <1>2 DEF StreamInv, SentInv
<1>6. Advances
  <2>1. producer \in Failures \cup {"done"} => producer' = producer
    BY <1>1 DEF Failures
  <2>2. pipe # "open"
    BY <1>1
  <2> QED BY <1>1, <2>1, <2>2, QuietAdvances
<1>7. Len(sent') \in Nat
  BY <1>1, SentFacts DEF StreamInv
<1> QED BY <1>3, <1>4, <1>5, <1>6, <1>7, AdvancesInv DEF StreamInv

\* A keep-alive comment.
LEMMA TickInv ==
  ASSUME StreamInv, Tick, UNCHANGED <<receiver, pipe, setting>>
  PROVE  StreamInv'
<1>1. /\ timer /\ ticks < MaxTicks /\ ticks' = ticks + 1 /\ Write(Comment)
      /\ producer' = producer /\ sent' = sent /\ over' = over /\ timer' = timer
  BY DEF Tick
<1>2. /\ framing' = framing /\ direction' = direction /\ Format' = Format /\ pipe' = pipe
      /\ consumer' = consumer
  BY DEF receiver, setting, Format
<1>3. StreamTypeOK'
  <2>1. ticks' \in 0 .. MaxTicks
    <3>1. MaxTicks \in Nat /\ ticks \in 0 .. MaxTicks
      BY StreamAssumption DEF StreamInv, StreamTypeOK
    <3> QED BY <1>1, <3>1
  <2> QED BY <1>1, <1>2, <2>1 DEF StreamInv, StreamTypeOK
<1>4. NothingHeldOpen'
  BY <1>1 DEF StreamInv, NothingHeldOpen
<1>5. SentInv'
  BY <1>1, <1>2 DEF StreamInv, SentInv
<1>6. framing = "sse" /\ ~over
  BY <1>1 DEF StreamInv, SentInv, NothingHeldOpen, StreamTypeOK
<1>7. Len(sent) \in Nat /\ Len(sent') = Len(sent) /\ Len(Items) \in Nat
      /\ Format.framing = "sse" /\ Format.newline = newline
  BY <1>1, <1>6, SentFacts DEF StreamInv
<1>8. PICK b : b = [kind |-> "comment", n |-> Len(sent), line |-> 1, at |-> 1]
  OBVIOUS
<1>9. b \in Labels /\ b.kind = "comment" /\ b.n = Len(sent) /\ b.line = 1
  <2>1. PICK s \in 0 .. Len(Items) : s = Len(sent)
    BY <1>7 DEF StreamInv, SentInv
  <2> QED BY <1>8, <2>1 DEF Labels
<1>10. "comment" \notin Terminals /\ "comment" \notin Failures
  BY DEF Terminals, Failures
<1>11. Begins(Format, b, Len(sent)) /\ IsGiven(Format, b, producer', Len(sent'))
       /\ IsOver(Format, b, producer', over')
  <2>1. IsGiven(Format, b, producer', Len(sent'))
    BY <1>7, <1>9, <1>10 DEF IsGiven
  <2> QED BY <1>1, <1>6, <1>7, <1>9, <1>10, <2>1 DEF Begins, IsOver
<1>12. TextOf(Format, b) = Comment
  BY <1>7, <1>9 DEF TextOf, Comment
<1>13. Advances
  <2>1. Write(TextOf(Format, b)) /\ Len(sent') \in Nat /\ Len(sent) <= Len(sent')
        /\ b.n = Len(sent')
    BY <1>1, <1>7, <1>9, <1>12
  <2>2. producer \in Failures \cup {"done"} => producer' = producer /\ Len(sent') = Len(sent)
    BY <1>1
  <2> QED BY <1>6, <1>11, <2>1, <2>2, WrittenAdvances
<1> QED BY <1>3, <1>4, <1>5, <1>7, <1>13, AdvancesInv DEF StreamInv

\* What next() came to.
GivesItem ==
  /\ Len(sent) < Len(Items)
  /\ sent' = Append(sent, Items[Len(sent) + 1]) /\ producer' = "idle"
  /\ Write(Written("message", ItemLine(Items[Len(sent) + 1])))
  /\ UNCHANGED <<over, timer>>
IsDone ==
  /\ Len(sent) = Len(Items)
  /\ Write(IF framing = "sse" THEN CloseEvent ELSE <<>>)
  /\ producer' = "done" /\ Over /\ UNCHANGED sent
FailsWith(end) ==
  /\ producer' = end[1] /\ Over /\ UNCHANGED sent
  /\ Write(Written("error", FailureLine(end[2])))

\* An item, the end, a failure.
LEMMA GivesItemAdvances ==
  ASSUME StreamInv, producer = "running", ~over, GivesItem, Format' = Format
  PROVE  Advances /\ SentInv' /\ Len(sent') \in Nat
<1>1. Len(sent) \in Nat /\ Len(Items) \in Nat
      /\ Format \in Formats /\ Format.framing = framing /\ Format.newline = newline
  BY SentFacts DEF StreamInv
<1>2. PICK s \in Nat : s = Len(sent)
  BY <1>1
<1>3. s + 1 \in 1 .. Len(Items) /\ s + 1 \in 0 .. Len(Items) /\ s + 1 # 0 /\ s <= s + 1
  BY <1>1, <1>2 DEF GivesItem
<1>4. PICK x \in STRING : x = Items[s + 1]
  BY <1>3, StreamAssumption, ElementOfSeq
<1>5. sent \in Seq(STRING) /\ (\A i \in 1 .. s : sent[i] = Items[i]) /\ sent' = Append(sent, x)
      /\ producer' = "idle" /\ over' = over /\ timer' = timer
  BY <1>2, <1>4 DEF StreamInv, SentInv, GivesItem
<1>6. /\ sent' \in Seq(STRING) /\ Len(sent') = s + 1
      /\ \A i \in 1 .. s + 1 : sent'[i] = IF i <= s THEN sent[i] ELSE x
  <2>1. PICK t : t = Append(sent, x)
    OBVIOUS
  <2>2. t \in Seq(STRING) /\ Len(t) = s + 1 /\ t[s + 1] = x /\ \A i \in 1 .. s : t[i] = sent[i]
    BY <1>2, <1>5, <2>1, AppendProperties
  <2>3. \A i \in 1 .. s + 1 : (i <= s => i \in 1 .. s) /\ (~(i <= s) => i = s + 1)
    OBVIOUS
  <2>4. \A i \in 1 .. s + 1 : t[i] = IF i <= s THEN sent[i] ELSE x
    BY <2>2, <2>3
  <2> QED BY <1>5, <2>1, <2>2, <2>4
<1>7. SentInv'
  <2>1. \A i \in 1 .. s + 1 : sent'[i] = Items[i]
    <3>1. \A i \in 1 .. s + 1 : (i <= s => i \in 1 .. s) /\ (~(i <= s) => i = s + 1)
      OBVIOUS
    <3> QED BY <1>4, <1>5, <1>6, <3>1
  <2>2. framing' = "jsonl" => ~timer'
    <3>1. framing' = framing
      <4>1. Format.framing = framing /\ Format'.framing = framing'
        BY DEF Format
      <4> QED BY <4>1
    <3> QED BY <1>5, <3>1 DEF StreamInv, SentInv
  <2>3. Len(sent') <= Len(Items)
    BY <1>3, <1>6
  <2>4. Format' \in Formats
    BY <1>1
  <2> QED BY <1>5, <1>6, <2>1, <2>2, <2>3, <2>4 DEF SentInv
<1>8. PICK b : b = [kind |-> "item", n |-> s + 1, line |-> 1, at |-> 1]
  OBVIOUS
<1>9. b \in Labels /\ b.kind = "item" /\ b.n = s + 1 /\ b.line = 1
  BY <1>3, <1>8 DEF Labels
<1>10. "item" \notin Terminals /\ "item" \notin Failures
  BY DEF Terminals, Failures
<1>11. Begins(Format, b, Len(sent)) /\ IsGiven(Format, b, producer', Len(sent'))
       /\ IsOver(Format, b, producer', over')
  <2>1. IsGiven(Format, b, producer', Len(sent'))
    <3>1. b.n <= Len(sent')
      BY <1>3, <1>6, <1>9
    <3> QED BY <1>9, <1>10, <3>1 DEF IsGiven
  <2>2. IsOver(Format, b, producer', over')
    BY <1>5, <1>9, <1>10 DEF IsOver
  <2> QED BY <1>2, <1>9, <2>1, <2>2 DEF Begins
<1>12. TextOf(Format, b) = Written("message", ItemLine(Items[s + 1]))
  <2>1. Body(b) = ItemLine(Items[s + 1]) /\ TypeOf(b.kind) = "message"
    BY <1>9 DEF Body, TypeOf
  <2> QED BY <1>1, <1>9, <2>1 DEF TextOf, Written, Event, StreamInv, StreamTypeOK
<1>13. Advances
  <2>1. Write(TextOf(Format, b))
    BY <1>2, <1>12 DEF GivesItem
  <2>2. Len(sent') \in Nat /\ Len(sent) <= Len(sent') /\ b.n = Len(sent')
    BY <1>2, <1>3, <1>6, <1>9
  <2>3. producer \notin Failures \cup {"done"}
    BY DEF Failures
  <2> QED BY <1>11, <2>1, <2>2, <2>3, WrittenAdvances
<1> QED BY <1>6, <1>7, <1>13

LEMMA IsDoneAdvances ==
  ASSUME StreamInv, producer = "running", ~over, IsDone, Format' = Format
  PROVE  Advances
<1>1. Len(sent) \in Nat /\ Len(Items) \in Nat /\ framing \in {"jsonl", "sse"}
      /\ Format \in Formats /\ Format.framing = framing /\ Format.newline = newline
  BY SentFacts DEF StreamInv, StreamTypeOK
<1>2. producer' = "done" /\ over' = TRUE /\ sent' = sent /\ Len(sent') = Len(sent)
      /\ Len(sent) = Len(Items) /\ producer \notin Failures \cup {"done"}
  BY DEF IsDone, Over, Failures
<1>3. CASE framing = "sse"
  <2>1. PICK b : b = [kind |-> "close", n |-> Len(sent), line |-> 1, at |-> 1]
    OBVIOUS
  <2>2. b \in Labels /\ b.kind = "close" /\ b.n = Len(sent) /\ b.line = 1
    <3>1. PICK s \in 0 .. Len(Items) : s = Len(sent)
      BY <1>1, <1>2
    <3> QED BY <2>1, <3>1 DEF Labels, Terminals
  <2>3. "close" \in Terminals /\ "close" \notin Failures
    BY DEF Terminals, Failures
  <2>4. Begins(Format, b, Len(sent)) /\ IsGiven(Format, b, producer', Len(sent'))
        /\ IsOver(Format, b, producer', over')
    <3>1. IsGiven(Format, b, producer', Len(sent'))
      BY <1>1, <1>2, <1>3, <2>2, <2>3 DEF IsGiven
    <3> QED BY <1>1, <1>2, <1>3, <2>2, <2>3, <3>1 DEF Begins, IsOver
  <2>5. TextOf(Format, b) = CloseEvent
    BY <1>1, <1>3, <2>2 DEF TextOf, CloseEvent
  <2>6. Write(TextOf(Format, b)) /\ Len(sent') \in Nat /\ Len(sent) <= Len(sent')
        /\ b.n = Len(sent')
    BY <1>1, <1>2, <1>3, <2>2, <2>5 DEF IsDone
  <2> QED BY <1>2, <2>4, <2>6, WrittenAdvances
<1>4. CASE framing = "jsonl"
  <2>1. wire' = wire \/ wire' = wire \o <<>>
    BY <1>4 DEF IsDone, Write
  <2>2. CASE pipe # "open"
    <3>1. wire' = wire
      BY <2>2 DEF IsDone, Write
    <3>2. GivenStays(Format, producer, Len(sent), producer', Len(sent'))
      BY <1>1, <1>2, Stays
    <3>3. Len(sent) <= Len(sent')
      BY <1>1, <1>2
    <3> QED BY <1>2, <2>2, <3>1, <3>2, <3>3 DEF Advances
  <2>3. CASE pipe = "open"
    <3>1. \A l : IsLatest(Format, l, producer, Len(sent), over)
                   => IsLatest(Format, l, producer', Len(sent'), over')
      BY <1>1, <1>2, <1>4 DEF IsLatest
    <3>2. GivenStays(Format, producer, Len(sent), producer', Len(sent'))
      BY <1>1, <1>2, Stays
    <3>3. Len(sent) <= Len(sent')
      BY <1>1, <1>2
    <3>4. wire' = wire
      <4>1. wire \in Seq(Chars)
        BY DEF StreamInv
      <4>2. wire \o <<>> = wire
        BY <4>1, ConcatEmptySeq
      <4> QED BY <2>1, <4>2
    <3> QED BY <1>2, <2>3, <3>1, <3>2, <3>3, <3>4 DEF Advances
  <2> QED BY <2>2, <2>3
<1> QED BY <1>1, <1>3, <1>4

LEMMA FailsAdvances ==
  ASSUME StreamInv, producer = "running", ~over, Format' = Format,
         NEW end \in {Thrown, InvalidItem, NoItem, Unwritable}, FailsWith(end)
  PROVE  Advances /\ producer' \in Failures
<1>1. Len(sent) \in Nat /\ Len(Items) \in Nat /\ framing \in {"jsonl", "sse"}
      /\ Format \in Formats /\ Format.framing = framing /\ Format.newline = newline
  BY SentFacts DEF StreamInv, StreamTypeOK
<1>2. PICK p : p = end[1] /\ p \in Failures /\ CodeOf(p) = end[2]
  BY DEF Thrown, InvalidItem, NoItem, Unwritable, Failures, CodeOf
<1>3. producer' = p /\ over' = TRUE /\ sent' = sent /\ Len(sent') = Len(sent)
      /\ producer \notin Failures \cup {"done"}
  BY <1>2 DEF FailsWith, Over, Failures
<1>4. PICK b : b = [kind |-> p, n |-> Len(sent), line |-> 1, at |-> 1]
  OBVIOUS
<1>5. p \in Terminals /\ p # "close" /\ p # "item" /\ p # "comment" /\ TypeOf(p) = "error"
  BY <1>2 DEF Terminals, Failures, TypeOf
<1>6. b \in Labels /\ b.kind = p /\ b.n = Len(sent) /\ b.line = 1
  <2>1. PICK s \in 0 .. Len(Items) : s = Len(sent)
    BY <1>1 DEF StreamInv, SentInv
  <2> QED BY <1>4, <1>5, <2>1 DEF Labels
<1>7. Begins(Format, b, Len(sent)) /\ IsGiven(Format, b, producer', Len(sent'))
      /\ IsOver(Format, b, producer', over')
  <2>1. IsGiven(Format, b, producer', Len(sent'))
    BY <1>1, <1>3, <1>5, <1>6 DEF IsGiven
  <2>2. IsOver(Format, b, producer', over')
    BY <1>3, <1>5, <1>6 DEF IsOver
  <2> QED BY <1>2, <1>6, <2>1, <2>2 DEF Begins
<1>8. TextOf(Format, b) = Written("error", FailureLine(end[2]))
  <2>1. Body(b) = FailureLine(end[2])
    BY <1>2, <1>5, <1>6 DEF Body
  <2> QED BY <1>1, <1>5, <1>6, <2>1 DEF TextOf, Written, Event
<1>9. Advances
  <2>1. Write(TextOf(Format, b)) /\ Len(sent') \in Nat /\ Len(sent) <= Len(sent')
        /\ b.n = Len(sent')
    BY <1>1, <1>3, <1>6, <1>8 DEF FailsWith
  <2> QED BY <1>3, <1>7, <2>1, WrittenAdvances
<1> QED BY <1>2, <1>3, <1>9

\* What next() comes to.
LEMMA ProduceInv ==
  ASSUME StreamInv, Produce, UNCHANGED <<receiver, pipe, setting>>
  PROVE  StreamInv'
<1>1. producer = "running" /\ ~over /\ ticks' = ticks
  BY DEF Produce, StreamInv, NothingHeldOpen
<1>2. /\ framing' = framing /\ direction' = direction /\ Format' = Format /\ pipe' = pipe
      /\ consumer' = consumer
  BY DEF receiver, setting, Format
<1>3. GivesItem \/ IsDone \/ \E end \in {Thrown, InvalidItem, NoItem, Unwritable} : FailsWith(end)
  BY DEF Produce, GivesItem, IsDone, FailsWith
<1>4. CASE GivesItem
  <2>1. producer' = "idle" /\ over' = over /\ timer' = timer
    BY <1>4 DEF GivesItem
  <2>2. StreamTypeOK'
    BY <1>1, <1>2, <2>1 DEF StreamInv, StreamTypeOK
  <2>3. NothingHeldOpen'
    BY <1>1, <2>1 DEF NothingHeldOpen
  <2>4. Advances /\ SentInv' /\ Len(sent') \in Nat
    BY <1>1, <1>2, <1>4, GivesItemAdvances
  <2> QED BY <2>2, <2>3, <2>4, AdvancesInv DEF StreamInv
<1>5. ASSUME over' = TRUE, timer' = FALSE, sent' = sent, producer' \in Failures \cup {"done"},
             producer' = "done" => Len(sent) = Len(Items), Advances
      PROVE  StreamInv'
  <2>1. StreamTypeOK'
    BY <1>1, <1>2, <1>5 DEF StreamInv, StreamTypeOK, Failures
  <2>2. NothingHeldOpen'
    BY <1>5 DEF NothingHeldOpen, Failures
  <2>3. SentInv'
    BY <1>2, <1>5 DEF StreamInv, SentInv
  <2>4. Len(sent') \in Nat
    BY <1>5, SentFacts DEF StreamInv
  <2> QED BY <1>5, <2>1, <2>2, <2>3, <2>4, AdvancesInv DEF StreamInv
<1>6. CASE IsDone
  <2>1. Advances
    BY <1>1, <1>2, <1>6, IsDoneAdvances
  <2> QED BY <1>5, <1>6, <2>1 DEF IsDone, Over
<1>7. CASE \E end \in {Thrown, InvalidItem, NoItem, Unwritable} : FailsWith(end)
  <2>1. PICK end \in {Thrown, InvalidItem, NoItem, Unwritable} : FailsWith(end)
    BY <1>7
  <2>2. Advances /\ producer' \in Failures
    BY <1>1, <1>2, <2>1, FailsAdvances
  <2>3. "done" \notin Failures
    BY DEF Failures
  <2> QED BY <1>5, <2>1, <2>2, <2>3 DEF FailsWith, Over
<1> QED BY <1>3, <1>4, <1>6, <1>7

-----------------------------------------------------------------------------
(* Its network and its reader *)

\* Parts of what is under way.
LEMMA WireParts ==
  ASSUME NEW s \in Seq(Chars), NEW k \in 0 .. Len(s)
  PROVE  SubSeq(s, 1, k) \in Seq(Chars) /\ SubSeq(s, k + 1, Len(s)) \in Seq(Chars)
<1>1. PICK n \in Nat : n = Len(s)
  BY LenProperties
<1>2. PICK z \in Nat : z = 0
  OBVIOUS
<1>3. k \in Nat /\ z <= k /\ k <= n /\ n <= n /\ z + 1 = 1
  BY <1>1, <1>2
<1>4. SubSeq(s, z + 1, k) \in Seq(Chars)
  BY <1>1, <1>3, PartOf
<1>5. SubSeq(s, k + 1, n) \in Seq(Chars)
  BY <1>1, <1>3, PartOf
<1> QED BY <1>1, <1>3, <1>4, <1>5

\* The network.
LEMMA CutInv ==
  ASSUME StreamInv, Cut, UNCHANGED setting
  PROVE  StreamInv'
<1>1. /\ framing' = framing /\ direction' = direction /\ Format' = Format
      /\ producer' = producer /\ sent' = sent /\ over' = over /\ timer' = timer /\ ticks' = ticks
      /\ reader' = reader /\ consumer' = consumer /\ got' = got
  BY DEF Cut, sender, receiver, setting, Format
<1>2. pipe = "open" /\ pipe' \in {"cut", "broken"} /\ consumer \in {"reading", "holding"}
  BY DEF Cut
<1>3. PICK k \in 0 .. Len(wire) : wire' = SubSeq(wire, 1, k)
  BY DEF Cut
<1>4. StreamTypeOK' /\ NothingHeldOpen' /\ SentInv' /\ GotInv'
  BY <1>1, <1>2 DEF StreamInv, StreamTypeOK, NothingHeldOpen, SentInv, GotInv
<1>5. LeftInv'
  BY <1>1, <1>2 DEF LeftInv
<1>6. Len(got) \in Nat /\ Format \in Formats
  BY SentFacts DEF StreamInv
<1>7. IsReceiving
  BY <1>2 DEF StreamInv, ReaderInv, HasLastLine
<1>8. Receives(Format, Len(got), reader, SubSeq(wire, 1, k), producer, Len(sent), over, pipe')
  BY <1>2, <1>6, <1>7, CutKeeps DEF IsReceiving
<1>9. IsReceiving'
  BY <1>1, <1>3, <1>8 DEF IsReceiving
<1>10. wire' \in Seq(Chars)
  BY <1>3, WireParts DEF StreamInv
<1> QED BY <1>4, <1>5, <1>9, <1>10 DEF StreamInv, ReaderInv

LEMMA CutNoticedInv ==
  ASSUME StreamInv, CutNoticed, UNCHANGED setting
  PROVE  StreamInv'
<1>1. /\ framing' = framing /\ direction' = direction /\ Format' = Format
      /\ producer' = producer /\ sent' = sent /\ over' = over /\ timer' = timer /\ ticks' = ticks
      /\ reader' = reader /\ consumer' = consumer /\ got' = got /\ wire' = wire
  BY DEF CutNoticed, sender, receiver, setting, Format
<1>2. pipe = "cut" /\ pipe' = "broken" /\ consumer \notin {"reading", "holding"}
  BY DEF CutNoticed
<1>3. StreamTypeOK' /\ NothingHeldOpen' /\ SentInv' /\ GotInv'
  BY <1>1, <1>2 DEF StreamInv, StreamTypeOK, NothingHeldOpen, SentInv, GotInv
<1>4. LeftInv'
  BY <1>1, <1>2 DEF StreamInv, LeftInv
<1>5. ReaderInv' /\ wire' \in Seq(Chars)
  BY <1>1, <1>2 DEF StreamInv, ReaderInv
<1> QED BY <1>3, <1>4, <1>5 DEF StreamInv

\* The user's loop.
LEMMA GoOnInv ==
  ASSUME StreamInv, GoOn, UNCHANGED <<sender, setting>>
  PROVE  StreamInv'
<1>1. /\ framing' = framing /\ direction' = direction /\ Format' = Format
      /\ producer' = producer /\ sent' = sent /\ over' = over /\ timer' = timer /\ ticks' = ticks
      /\ reader' = reader /\ got' = got /\ wire' = wire
  BY DEF GoOn, sender, setting, Format
<1>2. consumer = "holding"
  BY DEF GoOn
<1>3. CASE consumer' = "reading" /\ pipe' = pipe
  <2>1. StreamTypeOK' /\ NothingHeldOpen' /\ SentInv' /\ GotInv'
    BY <1>1, <1>3 DEF StreamInv, StreamTypeOK, NothingHeldOpen, SentInv, GotInv
  <2>2. LeftInv'
    BY <1>3 DEF LeftInv
  <2>3. IsReceiving' \/ HasLastLine'
    BY <1>1, <1>2, <1>3 DEF StreamInv, ReaderInv, IsReceiving, HasLastLine
  <2> QED BY <1>1, <2>1, <2>2, <2>3 DEF StreamInv, ReaderInv
<1>4. CASE Leave("stopped")
  <2>1. consumer' = "stopped" /\ pipe' \in {pipe, "broken"}
    BY <1>4 DEF Leave
  <2>2. StreamTypeOK' /\ NothingHeldOpen' /\ SentInv' /\ GotInv'
    BY <1>1, <2>1 DEF StreamInv, StreamTypeOK, NothingHeldOpen, SentInv, GotInv
  <2>3. LeftInv' /\ ReaderInv'
    BY <2>1 DEF LeftInv, ReaderInv
  <2> QED BY <1>1, <2>2, <2>3 DEF StreamInv
<1> QED BY <1>3, <1>4 DEF GoOn

\* A chunk is read: no item is lost in it, or made.
LEMMA ReadChunkInv ==
  ASSUME StreamInv, ReadChunk, UNCHANGED <<sender, setting>>
  PROVE  StreamInv'
<1>1. /\ framing' = framing /\ direction' = direction /\ Format' = Format
      /\ producer' = producer /\ sent' = sent /\ over' = over /\ timer' = timer /\ ticks' = ticks
      /\ consumer' = consumer /\ got' = got /\ pipe' = pipe
  BY DEF ReadChunk, sender, setting, Format
<1>2. consumer = "reading" /\ reader.ready = <<>>
  BY DEF ReadChunk
<1>3. PICK k \in 1 .. Len(wire) : /\ reader' = WithChunk(reader, SubSeq(wire, 1, k))
                                  /\ wire' = SubSeq(wire, k + 1, Len(wire))
  BY DEF ReadChunk
<1>4. StreamTypeOK' /\ NothingHeldOpen' /\ SentInv' /\ GotInv'
  BY <1>1 DEF StreamInv, StreamTypeOK, NothingHeldOpen, SentInv, GotInv
<1>5. LeftInv'
  BY <1>1, <1>2 DEF LeftInv
<1>6. wire \in Seq(Chars) /\ Len(wire) \in Nat
  BY LenProperties DEF StreamInv
<1>7. wire # <<>>
  <2>1. Len(<<>>) = 0 /\ ~(k \in 1 .. 0)
    OBVIOUS
  <2> QED BY <2>1
<1>8. IsReceiving
  BY <1>2, <1>7 DEF StreamInv, ReaderInv, HasLastLine
<1>9. Len(got) \in Nat /\ Format \in Formats /\ Format.framing = framing
  BY SentFacts DEF StreamInv
<1>10. Receives(Format, Len(got), WithChunk(reader, SubSeq(wire, 1, k)),
                SubSeq(wire, k + 1, Len(wire)), producer, Len(sent), over, pipe)
  BY <1>2, <1>8, <1>9, ReadKeeps DEF IsReceiving
<1>11. IsReceiving'
  BY <1>1, <1>3, <1>10 DEF IsReceiving
<1>12. wire' \in Seq(Chars)
  <2>1. k \in 0 .. Len(wire)
    BY <1>6
  <2> QED BY <1>3, <1>6, <2>1, WireParts
<1> QED BY <1>4, <1>5, <1>11, <1>12 DEF StreamInv, ReaderInv

\* The end: all was sent and taken, or the body was cut.
LEMMA EndOfBodyInv ==
  ASSUME StreamInv, EndOfBody, UNCHANGED <<sender, setting>>
  PROVE  StreamInv'
<1>1. /\ framing' = framing /\ direction' = direction /\ Format' = Format
      /\ producer' = producer /\ sent' = sent /\ over' = over /\ timer' = timer /\ ticks' = ticks
      /\ got' = got /\ pipe' = pipe /\ wire' = wire
  BY DEF EndOfBody, sender, setting, Format
<1>2. /\ consumer = "reading" /\ reader.ready = <<>> /\ wire = <<>>
      /\ over \/ pipe # "open"
  BY DEF EndOfBody
<1>3. NothingHeldOpen' /\ SentInv' /\ GotInv' /\ wire' \in Seq(Chars)
  BY <1>1 DEF StreamInv, NothingHeldOpen, SentInv, GotInv
<1>4. /\ Len(got) \in Nat /\ Len(sent) \in Nat /\ Len(Items) \in Nat /\ Format \in Formats
      /\ Format.framing = framing /\ Len(got) <= Len(sent) /\ framing \in {"jsonl", "sse"}
      /\ pipe \in {"open", "cut", "broken"}
      /\ producer = "done" => Len(sent) = Len(Items)
  BY SentFacts DEF StreamInv, StreamTypeOK, SentInv, GotInv
<1>5. ASSUME IsReceiving
      PROVE  /\ framing = "jsonl" /\ Trim(reader.buffer) # <<>> =>
                  pipe # "open" /\ IsLastLine(Trim(reader.buffer), Len(got), Len(sent), producer)
             /\ pipe = "open" => framing = "jsonl" /\ producer = "done" /\ Len(got) = Len(sent)
  <2>1. Receives(Format, Len(got), reader, <<>>, producer, Len(sent), over, pipe)
    BY <1>2, <1>5 DEF IsReceiving
  <2>2. /\ Format.framing = "jsonl" /\ Trim(reader.buffer) # <<>> =>
             pipe # "open" /\ IsLastLine(Trim(reader.buffer), Len(got), Len(sent), producer)
        /\ pipe = "open" /\ over =>
             Format.framing = "jsonl" /\ producer = "done" /\ Len(got) = Len(sent)
    BY <1>2, <1>4, <2>1, NothingLeft
  <2> QED BY <1>2, <1>4, <2>2
<1>6. IsReceiving \/ HasLastLine
  BY <1>2 DEF StreamInv, ReaderInv
<1>7. ASSUME HasLastLine PROVE reader.buffer = <<>> /\ pipe = "cut" /\ framing = "jsonl"
  <2>1. PICK ready, data, event :
          reader = [buffer |-> <<>>, ready |-> ready, data |-> data, event |-> event]
    BY <1>7 DEF HasLastLine
  <2> QED BY <1>7, <2>1 DEF HasLastLine
<1>8. CASE pipe = "broken" /\ consumer' = "raw"
  <2>1. StreamTypeOK' /\ LeftInv' /\ ReaderInv'
    BY <1>1, <1>8 DEF StreamInv, StreamTypeOK, LeftInv, ReaderInv
  <2> QED BY <1>3, <2>1 DEF StreamInv
<1>9. CASE pipe # "broken" /\ framing = "sse" /\ consumer' = "truncated"
  <2>1. pipe = "cut"
    BY <1>4, <1>5, <1>6, <1>7, <1>9
  <2>2. StreamTypeOK' /\ LeftInv' /\ ReaderInv'
    BY <1>1, <1>9, <2>1 DEF StreamInv, StreamTypeOK, LeftInv, ReaderInv
  <2> QED BY <1>3, <2>2 DEF StreamInv
<1>10. CASE /\ pipe # "broken" /\ framing = "jsonl" /\ Trim(reader.buffer) = <<>>
            /\ consumer' = "end"
  <2>1. pipe = "open" \/ pipe = "cut"
    BY <1>4, <1>10
  <2>2. ASSUME pipe = "open" PROVE producer = "done" /\ Len(got) = Len(Items)
    BY <1>4, <1>5, <1>6, <1>7, <2>2
  <2>3. StreamTypeOK' /\ LeftInv' /\ ReaderInv'
    BY <1>1, <1>10, <2>1, <2>2 DEF StreamInv, StreamTypeOK, LeftInv, ReaderInv
  <2> QED BY <1>3, <2>3 DEF StreamInv
<1>11. CASE /\ pipe # "broken" /\ framing = "jsonl" /\ Trim(reader.buffer) # <<>>
            /\ reader' = [reader EXCEPT !.buffer = <<>>,
                                        !.ready = <<<<"message", Trim(reader.buffer)>>>>]
            /\ consumer' = consumer
  <2>1. ~HasLastLine
    <3>1. Trim(<<>>) = <<>>
      BY DEF Trim
    <3> QED BY <1>7, <1>11, <3>1
  <2>2. IsReceiving
    BY <1>6, <2>1
  <2>3. pipe = "cut" /\ IsLastLine(Trim(reader.buffer), Len(got), Len(sent), producer)
    BY <1>4, <1>5, <1>11, <2>2
  <2>4. PICK buffer, ready, data, event :
          reader = [buffer |-> buffer, ready |-> ready, data |-> data, event |-> event]
    BY <2>2 DEF IsReceiving, Receives, Reads, ReaderAt
  <2>5. PICK line : line = Trim(reader.buffer)
    OBVIOUS
  <2>6. reader' = [buffer |-> <<>>, ready |-> <<<<"message", line>>>>, data |-> data,
                   event |-> event]
    BY <1>11, <2>4, <2>5
  <2>7. HasLastLine'
    <3>1. IsLastLine(line, Len(got), Len(sent), producer)
      BY <2>3, <2>5
    <3>2. IsLastLine(line, Len(got'), Len(sent'), producer')
      BY <1>1, <3>1
    <3> QED BY <1>1, <1>2, <1>11, <2>3, <2>6, <3>2 DEF HasLastLine
  <2>8. StreamTypeOK' /\ LeftInv' /\ ReaderInv'
    BY <1>1, <1>2, <1>11, <2>7 DEF StreamInv, StreamTypeOK, LeftInv, ReaderInv
  <2> QED BY <1>3, <2>8 DEF StreamInv
<1> QED BY <1>4, <1>8, <1>9, <1>10, <1>11 DEF EndOfBody

\* An event, its type and its line, and what is done with it.
IsEvent(type, line) == reader.ready[1] = <<type, line>>

\* An event that is an item, a close event, a failure.
LEMMA TakesItem ==
  ASSUME StreamInv, TakeEvent, UNCHANGED <<sender, setting>>, Len(got) < Len(sent),
         IsEvent("message", ItemLine(Items[Len(got) + 1]))
  PROVE  /\ GotInv' /\ Len(got') = Len(got) + 1
         /\ consumer' = "holding" /\ pipe' = pipe
<1>1. Len(got) \in Nat /\ Len(sent) \in Nat /\ Len(Items) \in Nat
  BY SentFacts DEF StreamInv
<1>2. PICK c \in Nat : c = Len(got)
  BY <1>1
<1>3. PICK s \in Nat : s = Len(sent) /\ s <= Len(Items) /\ c < s
  BY <1>1, <1>2 DEF StreamInv, SentInv
<1>4. c + 1 \in 1 .. Len(Items) /\ c + 1 <= s
  BY <1>1, <1>3
<1>5. PICK x \in STRING : x = Items[c + 1]
  BY <1>4, StreamAssumption, ElementOfSeq
<1>6. PICK type : type = "message"
  OBVIOUS
<1>7. PICK line : line = ItemLine(x)
  OBVIOUS
<1>8. reader.ready[1] = <<type, line>>
  BY <1>2, <1>5, <1>6, <1>7 DEF IsEvent
<1>9. reader.ready[1][1] = type /\ reader.ready[1][2] = line
  BY <1>8
<1>10. PICK d : d = DecodedItem(line) /\ d = [item |-> x]
  BY <1>7, DecodedLine
<1>11. "code" \notin DOMAIN d /\ d.item = x
  BY <1>10, DecodedLine
<1>12. got' = Append(got, x) /\ consumer' = "holding" /\ pipe' = pipe
  BY <1>6, <1>9, <1>10, <1>11 DEF TakeEvent
<1>13. got \in Seq(STRING) /\ \A i \in 1 .. c : got[i] = Items[i]
  BY <1>2 DEF StreamInv, GotInv
<1>14. PICK t : t = Append(got, x)
  OBVIOUS
<1>15. t \in Seq(STRING) /\ Len(t) = c + 1 /\ t[c + 1] = x /\ \A i \in 1 .. c : t[i] = got[i]
  BY <1>2, <1>13, <1>14, AppendProperties
<1>16. \A i \in 1 .. c + 1 : t[i] = Items[i]
  <2>1. \A i \in 1 .. c + 1 : i \in 1 .. c \/ i = c + 1
    OBVIOUS
  <2> QED BY <1>5, <1>13, <1>15, <2>1
<1>17. GotInv'
  <2>1. sent' = sent
    BY DEF sender
  <2>2. Len(got') = c + 1 /\ got' \in Seq(STRING) /\ Len(sent') = s
    BY <1>3, <1>12, <1>14, <1>15, <2>1
  <2>3. \A i \in 1 .. c + 1 : got'[i] = Items[i]
    BY <1>12, <1>14, <1>16
  <2> QED BY <1>4, <2>2, <2>3 DEF GotInv
<1> QED BY <1>2, <1>12, <1>14, <1>15, <1>17

LEMMA TakesClose ==
  ASSUME TakeEvent, NEW line, IsEvent("close", line)
  PROVE  Leave("end") /\ got' = got
<1>1. PICK type : type = "close"
  OBVIOUS
<1>2. reader.ready[1][1] = type
  BY <1>1 DEF IsEvent
<1> QED BY <1>1, <1>2 DEF TakeEvent

LEMMA TakesCode ==
  ASSUME TakeEvent, NEW type \in {"message", "error"}, NEW line, IsEvent(type, line),
         NEW code, DecodedItem(line) = [code |-> code]
  PROVE  Leave(code) /\ got' = got
<1>1. PICK y : y = line
  OBVIOUS
<1>2. reader.ready[1][1] = type /\ reader.ready[1][2] = y
  BY <1>1 DEF IsEvent
<1>3. PICK d : d = DecodedItem(y) /\ d = [code |-> code]
  BY <1>1
<1>4. "code" \in DOMAIN d /\ d.code = code
  BY <1>3, DecodedLine
<1>5. type # "close"
  OBVIOUS
<1> QED BY <1>2, <1>3, <1>4, <1>5 DEF TakeEvent

\* The loop is left.
LEMMA LeavesInv ==
  ASSUME StreamInv, TakeEvent, UNCHANGED <<sender, setting>>, got' = got, NEW how, Leave(how),
         how \in {"end", "INTERNAL", "VALIDATION", "BAD_REQUEST"},
         how = "end" => Len(got) = Len(Items) /\ producer = "done",
         how = "INTERNAL" => producer \in {"threw", "unwritten"},
         how = "VALIDATION" => producer = "returned",
         how = "BAD_REQUEST" => producer = "left" \/ direction = "input" \/ pipe = "cut"
  PROVE  StreamInv'
<1>1. /\ framing' = framing /\ direction' = direction /\ Format' = Format
      /\ producer' = producer /\ sent' = sent /\ over' = over /\ timer' = timer /\ ticks' = ticks
      /\ wire' = wire /\ consumer' = how
  BY DEF TakeEvent, sender, setting, Format, Leave
<1>2. pipe' \in {pipe, "broken"} /\ (pipe = "cut" => pipe' = "cut")
  BY DEF Leave
<1>3. StreamTypeOK'
  BY <1>1, <1>2 DEF StreamInv, StreamTypeOK
<1>4. NothingHeldOpen' /\ SentInv' /\ GotInv' /\ wire' \in Seq(Chars)
  BY <1>1 DEF StreamInv, NothingHeldOpen, SentInv, GotInv
<1>5. LeftInv'
  BY <1>1, <1>2 DEF LeftInv
<1>6. ReaderInv'
  BY <1>1 DEF ReaderInv
<1> QED BY <1>3, <1>4, <1>5, <1>6 DEF StreamInv

\* The line of a failure.
LEMMA FailureLeaves ==
  ASSUME StreamInv, TakeEvent, UNCHANGED <<sender, setting>>, producer \in Failures,
         NEW type \in {"message", "error"}, IsEvent(type, FailureLine(CodeOf(producer)))
  PROVE  StreamInv'
<1>1. PICK code : code = IF direction = "output" THEN CodeOf(producer) ELSE "BAD_REQUEST"
  OBVIOUS
<1>2. DecodedItem(FailureLine(CodeOf(producer))) = [code |-> code]
  BY <1>1, DecodedLine
<1>3. Leave(code) /\ got' = got
  BY <1>2, TakesCode
<1>4. direction \in {"input", "output"}
  BY DEF StreamInv, StreamTypeOK
<1>5. /\ code \in {"INTERNAL", "VALIDATION", "BAD_REQUEST"}
      /\ code = "INTERNAL" => producer \in {"threw", "unwritten"}
      /\ code = "VALIDATION" => producer = "returned"
      /\ code = "BAD_REQUEST" => producer = "left" \/ direction = "input"
  BY <1>1, <1>4 DEF CodeOf, Failures
<1> QED BY <1>3, <1>5, LeavesInv

\* The next event.
LEMMA TakeEventInv ==
  ASSUME StreamInv, TakeEvent, UNCHANGED <<sender, setting>>
  PROVE  StreamInv'
<1>1. /\ framing' = framing /\ direction' = direction /\ Format' = Format
      /\ producer' = producer /\ sent' = sent /\ over' = over /\ timer' = timer /\ ticks' = ticks
      /\ wire' = wire /\ reader' = [reader EXCEPT !.ready = Tail(@)]
  BY DEF TakeEvent, sender, setting, Format
<1>2. consumer = "reading" /\ reader.ready # <<>>
  BY DEF TakeEvent
<1>3. /\ Len(got) \in Nat /\ Len(sent) \in Nat /\ Len(Items) \in Nat /\ Format \in Formats
      /\ Format.framing = framing /\ Len(got) <= Len(sent)
      /\ producer = "done" => Len(sent) = Len(Items)
  BY SentFacts DEF StreamInv, SentInv, GotInv
<1>4. ASSUME GotInv', consumer' = "holding", pipe' = pipe, IsReceiving' \/ HasLastLine'
      PROVE  StreamInv'
  <2>1. StreamTypeOK' /\ NothingHeldOpen' /\ SentInv' /\ wire' \in Seq(Chars)
    BY <1>1, <1>4 DEF StreamInv, StreamTypeOK, NothingHeldOpen, SentInv
  <2>2. LeftInv'
    BY <1>4 DEF LeftInv
  <2> QED BY <1>4, <2>1, <2>2 DEF StreamInv, ReaderInv
<1>5. CASE IsReceiving
  <2>1. /\ Receives(Format, Len(got) + 1, [reader EXCEPT !.ready = Tail(@)], wire, producer,
                    Len(sent), over, pipe)
        /\ Taken(Format, Len(got), reader.ready[1], producer, Len(sent))
    BY <1>2, <1>3, <1>5, TakeKeeps DEF IsReceiving
  <2>2. \/ /\ Len(got) < Len(sent) /\ Len(got) + 1 \in 1 .. Len(Items)
           /\ reader.ready[1] = <<"message", ItemLine(Items[Len(got) + 1])>>
        \/ Format.framing = "sse" /\ producer = "done" /\ Len(got) = Len(sent)
           /\ reader.ready[1] = <<"close", <<>>>>
        \/ /\ producer \in Failures
           /\ reader.ready[1] = <<IF Format.framing = "jsonl" THEN "message" ELSE "error",
                                  FailureLine(CodeOf(producer))>>
    BY <1>3, <2>1, TakenEvent
  <2>3. CASE /\ Len(got) < Len(sent)
             /\ reader.ready[1] = <<"message", ItemLine(Items[Len(got) + 1])>>
    <3>1. /\ GotInv' /\ Len(got') = Len(got) + 1
          /\ consumer' = "holding" /\ pipe' = pipe
      BY <2>3, TakesItem DEF IsEvent
    <3>2. IsReceiving'
      BY <1>1, <2>1, <3>1 DEF IsReceiving
    <3> QED BY <1>4, <3>1, <3>2
  <2>4. CASE producer = "done" /\ Len(got) = Len(sent) /\ reader.ready[1] = <<"close", <<>>>>
    <3>1. Leave("end") /\ got' = got
      BY <2>4, TakesClose DEF IsEvent
    <3>2. Len(got) = Len(Items)
      BY <1>3, <2>4
    <3> QED BY <2>4, <3>1, <3>2, LeavesInv
  <2>5. CASE /\ producer \in Failures
             /\ reader.ready[1] = <<IF Format.framing = "jsonl" THEN "message" ELSE "error",
                                    FailureLine(CodeOf(producer))>>
    <3>1. PICK type \in {"message", "error"} :
            type = IF Format.framing = "jsonl" THEN "message" ELSE "error"
      OBVIOUS
    <3>2. IsEvent(type, FailureLine(CodeOf(producer)))
      BY <2>5, <3>1 DEF IsEvent
    <3> QED BY <2>5, <3>2, FailureLeaves
  <2> QED BY <2>2, <2>3, <2>4, <2>5
<1>6. CASE HasLastLine
  <2>1. PICK ready, data, event :
          /\ reader = [buffer |-> <<>>, ready |-> ready, data |-> data, event |-> event]
          /\ \/ ready = <<>>
             \/ \E line : /\ ready = <<<<"message", line>>>>
                          /\ IsLastLine(line, Len(got), Len(sent), producer)
    BY <1>6 DEF HasLastLine
  <2>2. reader.ready = ready
    BY <2>1
  <2>3. PICK line : /\ ready = <<<<"message", line>>>>
                    /\ IsLastLine(line, Len(got), Len(sent), producer)
    BY <1>2, <2>1, <2>2
  <2>4. PICK e : e = <<"message", line>>
    OBVIOUS
  <2>5. ready = <<e>> /\ ready[1] = e /\ Tail(ready) = <<>>
    BY <2>3, <2>4
  <2>6. IsEvent("message", line)
    BY <2>2, <2>4, <2>5 DEF IsEvent
  <2>7. framing = "jsonl" /\ pipe = "cut" /\ wire = <<>>
    BY <1>6 DEF HasLastLine
  <2>8. CASE Len(got) < Len(sent) /\ line = ItemLine(Items[Len(got) + 1])
    <3>1. /\ GotInv' /\ consumer' = "holding" /\ pipe' = pipe
      BY <2>6, <2>8, TakesItem
    <3>2. reader' = [buffer |-> <<>>, ready |-> <<>>, data |-> data, event |-> event]
      <4>1. PICK z : z = Tail(ready)
        OBVIOUS
      <4>2. reader' = [reader EXCEPT !.ready = z]
        BY <1>1, <2>2, <4>1
      <4>3. reader' = [buffer |-> <<>>, ready |-> z, data |-> data, event |-> event]
        BY <2>1, <4>2
      <4> QED BY <2>5, <4>1, <4>3
    <3>3. HasLastLine'
      BY <1>1, <2>7, <3>1, <3>2 DEF HasLastLine
    <3> QED BY <1>4, <3>1, <3>3
  <2>9. CASE producer \in Failures /\ line = FailureLine(CodeOf(producer))
    <3>1. PICK type \in {"message", "error"} : type = "message"
      OBVIOUS
    <3>2. IsEvent(type, FailureLine(CodeOf(producer)))
      BY <2>6, <2>9, <3>1
    <3> QED BY <2>9, <3>2, FailureLeaves
  <2>10. CASE Len(line) = 1 \/ (Len(line) = 2 /\ line[1] = "{")
    <3>1. DecodedItem(line) = [code |-> "BAD_REQUEST"]
      <4>1. CASE Len(line) = 1
        <5>1. 1 # 3 /\ 1 # 2
          OBVIOUS
        <5> QED BY <4>1, <5>1, Zenon DEF DecodedItem
      <4>2. CASE Len(line) = 2 /\ line[1] = "{"
        <5>1. 2 # 3 /\ "{" # "!"
          OBVIOUS
        <5> QED BY <4>2, <5>1, Zenon DEF DecodedItem
      <4> QED BY <2>10, <4>1, <4>2
    <3>2. PICK type \in {"message", "error"} : type = "message"
      OBVIOUS
    <3>3. IsEvent(type, line)
      BY <2>6, <3>2
    <3>4. Leave("BAD_REQUEST") /\ got' = got
      BY <3>1, <3>3, TakesCode
    <3> QED BY <2>7, <3>4, LeavesInv
  <2> QED BY <2>3, <2>8, <2>9, <2>10 DEF IsLastLine
<1> QED BY <1>2, <1>5, <1>6 DEF StreamInv, ReaderInv

-----------------------------------------------------------------------------
\* The inductive invariant.
LEMMA StreamInvariant == StreamSpec => []StreamInv
<1>1. StreamInv /\ [StreamNext]_streamVars => StreamInv'
  <2> SUFFICES ASSUME StreamInv, [StreamNext]_streamVars PROVE StreamInv'
    OBVIOUS
  <2>1. CASE UNCHANGED streamVars
    <3>1. Format' = Format
      BY <2>1 DEF streamVars, Format
    <3>2. StreamTypeOK' /\ NothingHeldOpen' /\ SentInv' /\ GotInv' /\ wire' \in Seq(Chars)
      BY <2>1, <3>1 DEF streamVars, StreamInv, StreamTypeOK, NothingHeldOpen, SentInv, GotInv
    <3>3. LeftInv'
      BY <2>1 DEF streamVars, StreamInv, LeftInv
    <3>4. ReaderInv'
      BY <2>1, <3>1 DEF streamVars, StreamInv, ReaderInv, IsReceiving, HasLastLine
    <3> QED BY <3>2, <3>3, <3>4 DEF StreamInv
  <2>2. CASE Pull /\ UNCHANGED <<receiver, pipe, setting>>
    BY <2>2, PullInv
  <2>3. CASE Produce /\ UNCHANGED <<receiver, pipe, setting>>
    BY <2>3, ProduceInv
  <2>4. CASE Returns /\ UNCHANGED <<receiver, pipe, setting>>
    BY <2>4, ReturnsInv
  <2>5. CASE Tick /\ UNCHANGED <<receiver, pipe, setting>>
    BY <2>5, TickInv
  <2>6. CASE Cancel /\ UNCHANGED <<receiver, pipe, setting>>
    BY <2>6, CancelInv
  <2>7. CASE Cut /\ UNCHANGED setting
    BY <2>7, CutInv
  <2>8. CASE CutNoticed /\ UNCHANGED setting
    BY <2>8, CutNoticedInv
  <2>9. CASE ReadChunk /\ UNCHANGED <<sender, setting>>
    BY <2>9, ReadChunkInv
  <2>10. CASE TakeEvent /\ UNCHANGED <<sender, setting>>
    BY <2>10, TakeEventInv
  <2>11. CASE EndOfBody /\ UNCHANGED <<sender, setting>>
    BY <2>11, EndOfBodyInv
  <2>12. CASE GoOn /\ UNCHANGED <<sender, setting>>
    BY <2>12, GoOnInv
  <2> QED BY <2>1, <2>2, <2>3, <2>4, <2>5, <2>6, <2>7, <2>8, <2>9, <2>10, <2>11, <2>12
          DEF StreamNext
<1> QED BY <1>1, StreamInitInv, PTL DEF StreamSpec

\* However a stream ends or is cancelled, and whatever its iterator does then,
\* its timer is cleared and its iterator ended or was told, but for one that gave
\* what cannot be written (stream/src/jsonl.ts, sse/src/sse.ts); for any items and
\* any number of ticks.
THEOREM ReleaseTheorem == StreamSpec => []NothingHeldOpen
<1>1. StreamInv => NothingHeldOpen
  BY DEF StreamInv
<1> QED BY <1>1, StreamInvariant, PTL

\* Wherever the network ends its chunks, the user's loop gets the items that
\* were sent, in order and each once; it ends only behind the last of them,
\* unless a jsonl body was cut, and with a code only if the sender failed with
\* it (readJsonlLines and readSseEvents against encodeJsonl and encodeSse); for
\* any items, newlines, chunks and keep-alive comments.
THEOREM FaithfulTheorem == StreamSpec => [](StreamTypeOK /\ OutputIsFaithful)
<1>1. StreamInv => StreamTypeOK /\ OutputIsFaithful
  <2> SUFFICES ASSUME StreamInv PROVE OutputIsFaithful
    BY DEF StreamInv
  <2>1. /\ got \in Seq(STRING) /\ sent \in Seq(STRING) /\ Items \in Seq(STRING)
        /\ Len(got) <= Len(sent) /\ Len(sent) <= Len(Items)
        /\ \A i \in 1 .. Len(got) : got[i] = Items[i]
        /\ \A i \in 1 .. Len(sent) : sent[i] = Items[i]
    <3>1. Items \in Seq(STRING)
      <4>1. STRING \ {"nl", "cr", " "} \subseteq STRING
        OBVIOUS
      <4> QED BY <4>1, StreamAssumption, SeqMonotonic
    <3> QED BY <3>1 DEF StreamInv, SentInv, GotInv
  <2>2. PICK c \in Nat : c = Len(got)
    BY <2>1, LenProperties
  <2>3. PICK s \in Nat : s = Len(sent)
    BY <2>1, LenProperties
  <2>4. c <= s /\ \A i \in 1 .. c : i \in 1 .. s
    BY <2>1, <2>2, <2>3
  <2>5. IsPrefix(got, sent)
    <3>1. PICK t : t = SubSeq(sent, 1, c)
      OBVIOUS
    <3>2. t \in Seq(STRING) /\ Len(t) = c /\ \A i \in 1 .. c : t[i] = sent[i]
      <4>1. PICK z \in Nat : z = 0
        OBVIOUS
      <4>2. z <= c /\ c <= s /\ z + 1 = 1 /\ c - z = c /\ \A i \in 1 .. c : z + i = i
        BY <2>4, <4>1
      <4>3. /\ SubSeq(sent, z + 1, c) \in Seq(STRING) /\ Len(SubSeq(sent, z + 1, c)) = c - z
            /\ \A i \in 1 .. c - z : SubSeq(sent, z + 1, c)[i] = sent[z + i]
        <5>1. PICK u \in Seq(STRING) : u = sent
          BY <2>1
        <5>2. s = Len(u)
          BY <2>3, <5>1
        <5> HIDE <2>1
        <5> QED BY <4>2, <5>1, <5>2, PartOf
      <4> QED BY <3>1, <4>2, <4>3
    <3>3. t = got
      <4>1. \A i \in 1 .. c : t[i] = got[i]
        BY <2>1, <2>2, <2>3, <2>4, <3>2
      <4> QED BY <2>1, <2>2, <3>2, <4>1, SeqEqual
    <3>4. SubSeq(got, 1, c) = got
      BY <2>1, <2>2, SubSeqFull
    <3> QED BY <2>1, <2>2, <3>1, <3>3, <3>4 DEF IsPrefix
  <2>6. Len(got) = Len(Items) => got = Items
    BY <2>1, SeqEqual
  <2> QED BY <2>5, <2>6 DEF StreamInv, LeftInv, OutputIsFaithful
<1> QED BY <1>1, StreamInvariant, PTL
=============================================================================
