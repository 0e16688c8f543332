------------------------------ MODULE ToolCall ------------------------------
(***************************************************************************)
(* Calls of MCP tools: createMcpFactory (mcp/src/sdk.ts), the bound tools  *)
(* (mcp/src/bind.ts), a host's visible tools (mcp/src/host.ts) and callTool*)
(* (mcp/src/call.ts) on one of three executors (mcp/src/executor.ts).      *)
(* Calls come over the SDK, one server per request, or from a program that *)
(* may use one info object for several calls.                              *)
(*                                                                         *)
(* An error is "unknown" (no PFError), or a code; a VALIDATION carries the *)
(* issues.                                                                 *)
(***************************************************************************)
EXTENDS Naturals, Sequences, FiniteSets

CONSTANTS ToolSpecs,   \* the tools of the toolset; the hosted ones are one bucket
          Tokens,      \* sets of scopes that verified tokens hold
          MaxCalls,    \* bound of the model
          SdkCalls     \* the calls among these that may come over the SDK

VARIABLES executor,  \* "fixed" (an app or a client) or "factory" (one per caller)
          calls,     \* what became of each call
          seen,      \* visibleInner: per info object, the hosted tools it shows
          perCall,   \* clientExecutor: the client made for a key, or 0
          clients    \* clients made

toolVars == <<executor, calls, seen, perCall, clients>>

\* asks: the tool, or its host, has a visible predicate.
ToolSpec ==
  [name : STRING, hosted : BOOLEAN, asks : BOOLEAN, scopes : SUBSET STRING,
   mode : {"plain", "inject", "map", "run"}, output : {"none", "map", "schema"},
   mapped : BOOLEAN]
SpecOf(name) == CHOOSE spec \in ToolSpecs : spec.name = name
Hosted == {spec.name : spec \in {s \in ToolSpecs : s.hosted}}

ASSUME MaxCallsAssumption == MaxCalls \in Nat

ToolErrors == {"unknown", "INTERNAL", "DECLARED", "VALIDATION"}
Calls == 1 .. MaxCalls
Unasked == [asked |-> FALSE, throws |-> FALSE, shown |-> {}]
NoCall == [phase |-> "none"]

ToolTypeOK ==
  /\ ToolSpecs \subseteq ToolSpec
  /\ executor \in {"fixed", "factory"} /\ clients \in 0 .. 2 * MaxCalls
  /\ \A c \in Calls :
       /\ perCall[c] \in 0 .. clients
       /\ seen[c].asked \in BOOLEAN /\ seen[c].shown \subseteq {s.name : s \in ToolSpecs}
       /\ calls[c].phase \in {"none", "listing", "challenge", "resolve", "context", "input",
                              "running", "output", "failing", "report", "value", "error",
                              "hidden", "refused", "rejected"}

ToolInit ==
  /\ executor \in {"fixed", "factory"}
  /\ calls = [c \in Calls |-> NoCall] /\ seen = [c \in Calls |-> Unasked]
  /\ perCall = [c \in Calls |-> 0] /\ clients = 0

-----------------------------------------------------------------------------
(* Before callTool *)

\* token: a verified one, over HTTP, or none.  info is named after the call that
\* brought it first.  The model sends a value for the key that is injected.
Arrive(c) ==
  /\ calls[c] = NoCall /\ \A b \in 1 .. c - 1 : calls[b] # NoCall
  /\ \E spec \in ToolSpecs, sdk \in BOOLEAN, verified \in BOOLEAN, token \in Tokens,
        info \in 1 .. c :
       /\ ~verified => token = {}
       /\ sdk => c \in SdkCalls
       /\ ~sdk => ~verified
       /\ info # c => ~sdk /\ calls[info].info = info /\ ~calls[info].sdk
       /\ calls' = [calls EXCEPT ![c] =
            [phase |-> IF sdk THEN "listing" ELSE "resolve", tool |-> spec.name,
             sdk |-> sdk, verified |-> verified, token |-> token, info |-> info,
             shownTo |-> {}, error |-> "none", text |-> "none",
             told |-> <<>>, input |-> "none", ran |-> FALSE, used |-> {}]]
  /\ UNCHANGED <<executor, seen, perCall, clients>>

Phase(c, p) == calls[c].phase = p
Become(c, p) == calls' = [calls EXCEPT ![c].phase = p]

\* The answers of the visible predicates, asked at some time: the tools shown.
Asking == {spec.name : spec \in {s \in ToolSpecs : s.asks}}
Always == {spec.name : spec \in {s \in ToolSpecs : ~s.asks}}
Answers == {Always \cup yes : yes \in SUBSET Asking}

\* tools/list of the request: a hosted tool is behind its host's call_ tool.
Listing(c) ==
  /\ Phase(c, "listing")
  /\ \/ \E shown \in Answers :
          LET listed == IF SpecOf(calls[c].tool).hosted THEN shown \cap Hosted # {}
                        ELSE calls[c].tool \in shown
          IN  Become(c, IF listed THEN "challenge" ELSE "hidden")
     \/ Asking # {} /\ Become(c, "rejected")
  /\ UNCHANGED <<executor, seen, perCall, clients>>

\* Mutant of ScopeChallenge: a tool that is hidden asks for its scopes, too.
ChallengeAnyCaller(c) ==
  /\ Phase(c, "challenge")
  /\ Become(c, IF calls[c].verified /\ ~SpecOf(calls[c].tool).scopes \subseteq calls[c].token
               THEN "refused" ELSE "resolve")
  /\ UNCHANGED <<executor, seen, perCall, clients>>

\* scopesFor asks again, for the token of the request; stepUpScopes.
ScopeChallenge(c) ==
  /\ Phase(c, "challenge")
  /\ \/ /\ ~calls[c].verified /\ Become(c, "resolve")
     \/ /\ calls[c].verified
        /\ \E shown \in Answers :
             LET required == IF calls[c].tool \in shown THEN SpecOf(calls[c].tool).scopes
                             ELSE {}
             IN  calls' = [calls EXCEPT
                   ![c].phase = IF required \subseteq calls[c].token THEN "resolve"
                                ELSE "refused",
                   ![c].shownTo = IF calls[c].tool \in shown THEN @ \cup {"challenge"}
                                  ELSE @]
     \/ calls[c].verified /\ Asking # {} /\ Become(c, "rejected")
  /\ UNCHANGED <<executor, seen, perCall, clients>>

ResolvedTo(c, shown) ==
  calls' = [calls EXCEPT
    ![c].phase = IF calls[c].tool \in shown THEN "context" ELSE "hidden",
    ![c].shownTo = IF calls[c].tool \in shown THEN @ \cup {"call"} ELSE @]

\* McpTools.call: a flat tool asks its predicate, a host remembers what it, and
\* its tools, answered for this info object; a throw is remembered, too.
ResolveView(c) ==
  /\ Phase(c, "resolve")
  /\ LET hosted == SpecOf(calls[c].tool).hosted
         known == seen[calls[c].info]
     IN  \/ /\ hosted /\ known.asked
            /\ IF known.throws THEN Become(c, "rejected") ELSE ResolvedTo(c, known.shown)
            /\ UNCHANGED seen
         \/ /\ ~(hosted /\ known.asked)
            /\ \E shown \in Answers :
                 /\ ResolvedTo(c, shown)
                 /\ seen' = IF ~hosted THEN seen
                            ELSE [seen EXCEPT ![calls[c].info] =
                                    [asked |-> TRUE, throws |-> FALSE, shown |-> shown]]
         \/ /\ ~(hosted /\ known.asked) /\ SpecOf(calls[c].tool).asks
            /\ Become(c, "rejected")
            /\ seen' = IF ~hosted THEN seen
                       ELSE [seen EXCEPT ![calls[c].info] =
                               [asked |-> TRUE, throws |-> TRUE, shown |-> {}]]
  /\ UNCHANGED <<executor, perCall, clients>>

-----------------------------------------------------------------------------
(* callTool *)

Throw(c, e) == calls' = [calls EXCEPT ![c].phase = "failing", ![c].error = e]

\* Mutant of ClientKey: the info of the caller.
ClientKeyInfo(c) == calls[c].info

\* callTool makes an info object of its own for the call.
ClientKey(c) == c

\* resolve(info) of clientExecutor, in the step that moves c to next.
WithClient(c, next) ==
  IF executor # "factory"
  THEN calls' = next /\ UNCHANGED <<perCall, clients>>
  ELSE LET made == IF perCall[ClientKey(c)] = 0 THEN clients + 1 ELSE clients
           client == IF perCall[ClientKey(c)] = 0 THEN made ELSE perCall[ClientKey(c)]
       IN  /\ clients' = made /\ perCall' = [perCall EXCEPT ![ClientKey(c)] = client]
           /\ calls' = [next EXCEPT ![c].used = @ \cup {client}]

\* The context function, then the client of the mappers; both are the user's.
Context(c) ==
  /\ Phase(c, "context")
  /\ \/ WithClient(c, [calls EXCEPT ![c].phase = "input"])
     \/ \E e \in {"unknown", "DECLARED"} : Throw(c, e) /\ UNCHANGED <<perCall, clients>>
  /\ UNCHANGED <<executor, seen>>

\* procedureInput: who decides on the key that the tool may inject.
InputFor(mode) ==
  CASE mode = "map" -> "mapped" [] mode = "inject" -> "injected" [] OTHER -> "model"

\* parse, then the input map; or the injected values; a composite only parses.
ProcedureInput(c) ==
  /\ Phase(c, "input")
  /\ LET mode == SpecOf(calls[c].tool).mode
     IN  \/ calls' = [calls EXCEPT ![c].phase = "running",
                                   ![c].input = InputFor(mode)]
         \/ mode \in {"map", "run"} /\ Throw(c, "VALIDATION")
         \/ mode \in {"map", "inject"} /\ \E e \in {"unknown", "DECLARED"} : Throw(c, e)
  /\ UNCHANGED <<executor, seen, perCall, clients>>

\* executor.run, or the run of a composite tool.
RunTool(c) ==
  /\ Phase(c, "running")
  /\ \/ WithClient(c, [calls EXCEPT ![c].phase = "output", ![c].ran = TRUE])
     \/ \E e \in ToolErrors :
          WithClient(c, [calls EXCEPT ![c].phase = "failing", ![c].error = e,
                                      ![c].ran = TRUE])
  /\ UNCHANGED <<executor, seen>>

\* The output map and the check of what it gives; successResult, which cannot
\* make text of every value.  A composite's value is its run's.
MapOutput(c) ==
  /\ Phase(c, "output")
  /\ LET output == SpecOf(calls[c].tool).output
     IN  \/ Become(c, "value")
         \/ output # "none" /\ \E e \in ToolErrors : Throw(c, e)
         \/ output = "schema" /\ Throw(c, "INTERNAL")
         \/ Throw(c, "unknown")
  /\ UNCHANGED <<executor, seen, perCall, clients>>

\* Mutant of ErrorText: the error of an error mapper is not the one reported.
ErrorTextOnly(c, e, mapped) ==
  calls' = [calls EXCEPT ![c].phase = "report", ![c].error = e,
              ![c].text = IF e = "VALIDATION" THEN "issues"
                          ELSE IF e # "DECLARED" THEN "INTERNAL"
                          ELSE IF mapped THEN "mapped" ELSE "DECLARED",
              ![c].told = IF @ = <<>> THEN <<calls[c].error>> ELSE @]

\* errorText; mapped says that a mapper of .errors() took it.
ErrorText(c, e, mapped) ==
  calls' = [calls EXCEPT ![c].phase = "report", ![c].error = e,
              ![c].text = IF e = "VALIDATION" THEN "issues"
                          ELSE IF e # "DECLARED" THEN "INTERNAL"
                          ELSE IF mapped THEN "mapped" ELSE "DECLARED"]

\* A mapper that throws, or data that is no JSON: the text is of that error,
\* without mappers; if that fails, too, callTool rejects.
TextOfError(c) ==
  /\ Phase(c, "failing")
  /\ LET e == calls[c].error
     IN  \/ ErrorText(c, e, SpecOf(calls[c].tool).mapped)
         \/ e = "DECLARED" /\ \E e2 \in ToolErrors : ErrorText(c, e2, FALSE)
         \/ e = "DECLARED" /\ Become(c, "rejected")
  /\ UNCHANGED <<executor, seen, perCall, clients>>

\* onError, or the log; the hook may throw.
ReportError(c) ==
  /\ Phase(c, "report")
  /\ \E p \in {"error", "rejected"} :
       calls' = [calls EXCEPT ![c].phase = p, ![c].told = Append(@, calls[c].error),
                             ![c].error = "none"]
  /\ UNCHANGED <<executor, seen, perCall, clients>>

ToolNext ==
  \E c \in Calls :
    \/ Arrive(c) \/ Listing(c) \/ ScopeChallenge(c) \/ ResolveView(c)
    \/ Context(c) \/ ProcedureInput(c) \/ RunTool(c) \/ MapOutput(c)
    \/ TextOfError(c) \/ ReportError(c)

ToolCallSpec == ToolInit /\ [][ToolNext]_toolVars

-----------------------------------------------------------------------------
Came(c) == calls[c] # NoCall

\* A tool that its predicate hides from a caller answers like one that is not
\* there: it does not run, and no challenge names its scopes; and with a token
\* that lacks a scope a tool runs only if the challenge found it hidden, that
\* is if its predicate changed its mind within the request.
HiddenIsUnknown ==
  \A c \in Calls : Came(c) =>
    /\ calls[c].ran => "call" \in calls[c].shownTo
    /\ Phase(c, "refused") => "challenge" \in calls[c].shownTo
    /\ calls[c].ran /\ calls[c].sdk /\ calls[c].verified =>
         \/ SpecOf(calls[c].tool).scopes \subseteq calls[c].token
         \/ "challenge" \notin calls[c].shownTo

\* A call uses one client for the procedure and for the mappers, and no two
\* calls share one, also when a program makes both with one info object.
ClientPerCall ==
  \A c \in Calls : Came(c) =>
    /\ Cardinality(calls[c].used) <= 1
    /\ \A d \in Calls : Came(d) /\ d # c => calls[c].used \cap calls[d].used = {}

\* A result says what happened: an error was reported once, and its text shows
\* no more than the error reported allows; a value was reported to nobody; and
\* the model has no say on an injected key.
ResultsAreHonest ==
  \A c \in Calls : Came(c) =>
    /\ Phase(c, "error") =>
         /\ Len(calls[c].told) = 1
         /\ calls[c].text = "INTERNAL" <=> calls[c].told[1] \in {"unknown", "INTERNAL"}
         /\ calls[c].text = "issues" <=> calls[c].told[1] = "VALIDATION"
    /\ Phase(c, "value") => calls[c].told = <<>> /\ calls[c].ran
    /\ calls[c].ran /\ SpecOf(calls[c].tool).mode = "inject" => calls[c].input # "model"
=============================================================================
