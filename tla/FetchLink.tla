------------------------------ MODULE FetchLink ------------------------------
(***************************************************************************)
(* FetchLink.call() (client-http/src/fetch-link.ts) with the JSON codec    *)
(* (http/src/codec.ts), over a FetchHandler: one call, whose interceptor   *)
(* may send the request again.  Between the two are fetch, the network,    *)
(* proxies that answer themselves and the framework that calls handle().   *)
(***************************************************************************)
EXTENDS FetchHandler

CONSTANTS MaxSends    \* bound of the model: requests of one call

ASSUME MaxSendsAssumption == MaxSends \in Nat

VARIABLES phase,     \* of callInner
          aborted,   \* the signal of the call
          sends,     \* requests given to fetch
          arrived,   \* the response of the last of them, see Arrivals, until
                     \* an interceptor sends again or throws
          result     \* of the call

linkVars == <<phase, aborted, sends, arrived, result>>

\* A response as the client sees it: whose it is, the version its header
\* claims, its status, and whether its body is an envelope, and which one.
Arrivals ==
  [from : {"handler", "other"}, version : {"absent", "match", "mismatch"},
   status : Nat, body : {"success", "failure", "text", "json", "cut"},
   code : Errors \cup {"none"}]
NoArrival == [from |-> "other", version |-> "absent", status |-> 0,
              body |-> "text", code |-> "none"]

\* "raw" is a throw that is no PFError; "lent" a PFError of an interceptor.
Results == {"none", "value", "error", "raw", "lent"}
NoResult == [is |-> "none", code |-> "none", status |-> 0, local |-> FALSE]
Failure(code, status, local) ==
  [is |-> "error", code |-> code, status |-> status, local |-> local]
LocalFailure == Failure("INTERNAL", 0, TRUE)
Lent == [Failure("DECLARED", 0, FALSE) EXCEPT !.is = "lent"]

LinkTypeOK ==
  /\ phase \in {"new", "fetching", "server", "response", "body", "settled"}
  /\ aborted \in BOOLEAN /\ sends \in 0 .. MaxSends /\ arrived \in Arrivals
  /\ result \in [is : Results, code : Errors \cup {"none"}, status : Nat,
                 local : BOOLEAN]

LinkInit ==
  /\ phase = "new" /\ aborted = FALSE /\ sends = 0
  /\ arrived = NoArrival /\ result = NoResult

Settle(r) ==
  /\ phase' = "settled" /\ result' = r
  /\ UNCHANGED <<handlerVars, aborted, sends>>

\* The headers function, the codec and the constructor of Request may throw.
CallInner ==
  /\ phase = "new"
  /\ \/ phase' = "fetching" /\ UNCHANGED <<handlerVars, aborted, sends, result>>
     \/ Settle([NoResult EXCEPT !.is = "raw"])
  /\ UNCHANGED arrived

Abort ==
  /\ ~aborted /\ phase # "settled"
  /\ aborted' = TRUE
  /\ UNCHANGED <<handlerVars, phase, sends, arrived, result>>

\* What the link sends: POST, our version, a path the contract may share with
\* the server or not.
FromLink(req) == req.method = "POST" /\ req.version = "match"

Send ==
  /\ phase = "fetching" /\ sends < MaxSends /\ ~aborted
  /\ \E req \in {r \in Requests : FromLink(r)} : Handle(req)
  /\ phase' = "server" /\ sends' = sends + 1
  /\ UNCHANGED <<aborted, arrived, result>>

\* The version and the body of what handle() answered.  An envelope may break
\* on its way, or arrive as a text that is none: cut short, or of a content type
\* the codec does not read.  A plugin of the user's answers with any text.
AnswerOfHandler ==
  {[from |-> "handler", version |-> IF response.version THEN "match" ELSE "absent",
    status |-> response.status, body |-> body, code |-> response.code] :
     body \in CASE response.from \in {"success", "failure"} -> {response.from, "text", "cut"}
                [] response.from = "preflight" -> {"text"}
                [] OTHER -> {"success", "text", "json"}}

\* The framework answers for a handle() that rejected or did not match.
AnswerOfFramework(status) == {[NoArrival EXCEPT !.status = status]}

AnswersOfServer ==
  CASE step = "answered" -> AnswerOfHandler
    [] step = "rejected" -> AnswerOfFramework(500)
    [] step = "unmatched" -> AnswerOfFramework(404)
    [] OTHER -> {}

\* A proxy or an interceptor answers, before or instead of the server, or a
\* server of another major does; one that keeps the headers of the server claims
\* our version.  Nobody else writes an envelope.
AnswersOfOthers ==
  {[NoArrival EXCEPT !.status = 502], [NoArrival EXCEPT !.status = 200, !.body = "json"],
   [NoArrival EXCEPT !.status = 500, !.version = "match"],
   [NoArrival EXCEPT !.status = 200, !.version = "mismatch", !.body = "json"]}

Arrive ==
  /\ phase = "server"
  /\ arrived' \in AnswersOfServer \cup AnswersOfOthers
  /\ phase' = "response"
  /\ UNCHANGED <<handlerVars, aborted, sends, result>>

\* fetch rejects: the network, or the signal.  The server may go on.
FetchFails ==
  /\ phase = "server" \/ (phase = "fetching" /\ aborted)
  /\ Settle(LocalFailure) /\ UNCHANGED arrived

\* An interceptor: it sends again after a failure or a response, it answers by
\* itself, or it throws, before or after it had a response: a PFError is thrown
\* on, any other throw is a local failure, and the response is lost either way.
SendAgain ==
  /\ phase \in {"server", "response"} /\ sends < MaxSends
  /\ phase' = "fetching" /\ arrived' = NoArrival
  /\ UNCHANGED <<handlerVars, aborted, sends, result>>
InterceptorAnswers ==
  /\ phase \in {"fetching", "response"}
  /\ arrived' \in AnswersOfOthers
  /\ phase' = "response"
  /\ UNCHANGED <<handlerVars, aborted, sends, result>>
InterceptorThrows ==
  /\ phase \in {"fetching", "server", "response"}
  /\ Settle(Lent) \/ Settle(LocalFailure)
  /\ arrived' = NoArrival

\* protocolVersion: another major is not read.
ReadVersion ==
  /\ phase = "response"
  /\ \/ /\ arrived.version = "mismatch"
        /\ Settle(Failure("INTERNAL", arrived.status, FALSE))
     \/ /\ arrived.version # "mismatch"
        /\ phase' = "body" /\ UNCHANGED <<handlerVars, aborted, sends, result>>
  /\ UNCHANGED arrived

Invalid == Failure("INTERNAL", arrived.status, FALSE)

\* Mutant of Decoded: the codec's errors of any response are rethrown.
DecodedAnywhere(body) ==
  CASE body = "success" -> [NoResult EXCEPT !.is = "value"]
    [] body = "failure" -> Failure(arrived.code, arrived.status, FALSE)
    [] body \in {"text", "json"} -> Failure("BAD_REQUEST", 400, FALSE)
    [] OTHER -> Invalid

\* decodeResponse: text that is no JSON or no envelope is the codec's own
\* error, rethrown for a response of our version; a body that breaks is not.
Decoded(body) ==
  CASE body = "success" -> [NoResult EXCEPT !.is = "value"]
    [] body = "failure" -> Failure(arrived.code, arrived.status, FALSE)
    [] body \in {"text", "json"} /\ arrived.version = "match" ->
         Failure("BAD_REQUEST", 400, FALSE)
    [] OTHER -> Invalid

ReadBody ==
  /\ phase = "body"
  /\ \E body \in {arrived.body} \cup (IF aborted THEN {"cut"} ELSE {}) :
       Settle(Decoded(body))
  /\ UNCHANGED arrived

\* The handle() of the last request; what an earlier one does no longer counts.
ServerStep == sends > 0 /\ HandlerNext /\ UNCHANGED linkVars

LinkNext ==
  \/ CallInner \/ Abort \/ Send \/ ServerStep \/ Arrive \/ FetchFails
  \/ SendAgain \/ InterceptorAnswers \/ InterceptorThrows
  \/ ReadVersion \/ ReadBody

LinkSpec == HandlerInit /\ LinkInit /\ [][LinkNext]_<<handlerVars, linkVars>>

-----------------------------------------------------------------------------
\* The error is that of the failure the server reported.
Reported ==
  /\ arrived.from = "handler" /\ arrived.body = "failure"
  /\ result.status = arrived.status /\ result.code = WireCode(told[1])

\* The error is the codec's: the response claims our version and is no envelope.
Undecodable ==
  /\ arrived.version = "match" /\ arrived.body \in {"text", "json"}
  /\ result.status = 400 /\ result.code = "BAD_REQUEST"

\* A caller can act on what it gets: a value is one the procedure, or a plugin,
\* answered; a code other than INTERNAL is that of the error the server reported,
\* with its status, or BAD_REQUEST for a response of our version that cannot be
\* decoded, whatever its status; and a failure is local, and so retried, exactly
\* if callInner was left without a response.  A local failure does not say that
\* the server did not run the call.
CallerLearnsTheAnswer ==
  phase = "settled" =>
    /\ result.is = "value" => arrived.from = "handler"
    /\ result.is = "error" /\ result.code # "INTERNAL" => Reported \/ Undecodable
    /\ result.is = "error" => result.local = (arrived = NoArrival)

\* "network / abort failures are localFailure (status: 0, local: true)"
\* (client-http/skills/ts-pf-client-http/SKILL.md:38): an abort that breaks a
\* body is none of these, the body of the response is read after the try.
AbortIsLocal ==
  phase = "settled" /\ aborted /\ arrived.body = "success" /\ result.is = "error"
    => result.local
=============================================================================
