----------------------------- MODULE Requests ------------------------------
(***************************************************************************)
(* The requests a console started with --deploy serves at the same time:   *)
(* traces by HTTP and WebSocket (server/trace_handler.go, ws_handler.go)   *)
(* and the tools of the MCP endpoint (internal/service/service.go).  They  *)
(* share RuntimeMu, the setting PowProviderParam, the WebSocket of the     *)
(* LeoMoe API and, through GeoDNSScope, the resolver of geo lookups.       *)
(*                                                                         *)
(* What a request does between two points others can see is one token; a   *)
(* request is the sequence of tokens it has still to do.                   *)
(***************************************************************************)
EXTENDS GeoDNSScope, Sequences

CONSTANTS
  Mixes,       \* functions of requests: what arrives, see Input
  Owner,       \* the request a lookup belongs to
  MaxLookups,  \* bound: calls of a lookup
  AuthEnabled, \* a deploy token is asked for
  CliPow       \* PowProviderParam as the command line left it

Reqs == Procs \ DOMAIN Owner
None == "none"

\* map: a map of the result is asked for and its provider is one that has them;
\* leo: the provider is LeoMoeAPI, not replaced by the environment; token: an
\* API v4 token is configured; limits: of an MTR; cred: what the request carries.
Kinds == {"http", "wsTrace", "wsMTR", "trace", "report", "raw", "mtu", "annotate",
          "geo", "speed", "globalping"}
Input == [kind : Kinds, dot : Spelled, pow : STRING, leo : BOOLEAN, token : BOOLEAN,
          map : BOOLEAN, limits : SUBSET {"count", "duration"},
          cred : {"bearer", "header", "cookie", "wrong", "none"}]

ASSUME RequestsAssumption ==
  /\ Mixes \subseteq [Reqs -> Input]
  /\ Owner \in [DOMAIN Owner -> Reqs] /\ DOMAIN Owner \subseteq Procs
  /\ None \notin Reqs \cup {CliPow}

VARIABLES
  inp,              \* the requests
  todo,             \* tokens each has left
  res,              \* how its trace ended
  status,           \* what was answered
  gone,             \* requests whose client has left: their context is done
  late,             \* requests whose own deadline has passed
  RuntimeMu,        \* also traceMu of the server
  PowProviderParam, prevPow

reqVars == <<inp, todo, res, status, gone, late, RuntimeMu, PowProviderParam, prevPow>>
allVars == <<vars, reqVars>>
Others(vs) == UNCHANGED vs /\ UNCHANGED vars

Web(q) == q.kind \in {"http", "wsTrace", "wsMTR"}

RInit ==
  /\ inp \in Mixes
  /\ want = [p \in Procs |-> IF p \in Reqs THEN inp[p].dot ELSE inp[Owner[p]].dot]
  /\ Init
  /\ todo = [r \in Reqs |-> <<"auth">>]
  /\ res = [r \in Reqs |-> None] /\ status = [r \in Reqs |-> None]
  /\ gone = {} /\ late = {} /\ RuntimeMu = None
  /\ PowProviderParam = CliPow /\ prevPow = [r \in Reqs |-> None]

(***************************************************************************)
(* What each kind of request does                                          *)
(***************************************************************************)
If(b, s) == IF b THEN s ELSE << >>

\* withTraceSetupContext: the web's settings around a callback.
Setup(callback) == <<"pow", "enter">> \o callback \o <<"leave", "unpow">>

\* Mutant: the lock is given back before the settings are.
HopTrace_UnlockFirst(q) ==
  <<"check", "lock", "pow", "enter">> \o If(q.leo, <<"leo">>) \o <<"leave", "unlock", "unpow", "run">>

\* Mutant: the lock is kept for the whole trace, as traceHandler does.
HopTrace_Locked(q) ==
  <<"check", "lock">> \o Setup(If(q.leo, <<"leo">>)) \o <<"run">>

\* executeMTRRaw: only the preparation is locked.  Its path with rounds cannot be
\* taken, because the interval resolved for the web is never zero.
HopTrace(q) ==
  <<"check", "lock">> \o Setup(If(q.leo, <<"leo">>)) \o <<"unlock", "run">>

\* withServiceRuntime: everything in the lock and the settings; with an API v4 token
\* the WebSocket is only opened when the fast address could not be found.
ServiceRuntime(q) == <<"lock", "pow", "enter">> \o If(q.leo /\ ~ q.token, <<"leo">>) \o <<"run">>

\* traceHandler, executeTrace and the tools of the service, up to the trace itself.
Begin(q) ==
  CASE q.kind = "http"    -> <<"lock">> \o If(q.leo, Setup(<<"leo">>)) \o <<"pow", "enter", "run">>
    [] q.kind = "wsTrace" -> <<"lock", "check", "pow", "enter">> \o If(q.leo, <<"leo">>) \o <<"run">>
    [] q.kind = "wsMTR"   -> HopTrace(q)
    [] q.kind \in {"speed", "globalping"} -> <<"run">>
    [] OTHER              -> ServiceRuntime(q)

\* And after it, by its outcome; a stopped trace of the web is not answered.
\* traceMapURLForResult opens the scope once more, inside the lock for http only.
Map(q, outcome) == If(q.map /\ outcome = "ok", <<"enter", "map", "leave">>)
End(q, outcome) ==
  LET answer == If(outcome # "stopped" \/ ~ Web(q) \/ q.kind = "wsMTR", <<"answer">>) IN
  CASE q.kind = "http"    -> <<"leave", "unpow">> \o Map(q, outcome) \o answer \o <<"unlock">>
    [] q.kind = "wsTrace" -> <<"leave", "unpow", "unlock">> \o Map(q, outcome) \o answer
    [] q.kind \in {"wsMTR", "speed", "globalping"} -> answer
    [] OTHER              -> <<"leave", "unpow", "unlock">> \o answer

(***************************************************************************)
(* Coming in                                                               *)
(***************************************************************************)
Is(r, token) == todo[r] # << >> /\ Head(todo[r]) = token /\ pc[r] \in {"idle", "in"}
Done(r) == todo' = [todo EXCEPT ![r] = Tail(@)]
Becomes(r, tokens) == todo' = [todo EXCEPT ![r] = tokens]

\* deployRequestAuthorized: any of the two headers, else the cookie's own value.
deployRequestAuthorized(q) == ~ AuthEnabled \/ q.cred \in {"bearer", "header", "cookie"}

Authenticate(r) ==
  /\ Is(r, "auth")
  /\ IF deployRequestAuthorized(inp[r])
     THEN Becomes(r, <<"prepare">>) /\ UNCHANGED status
     ELSE Becomes(r, << >>) /\ status' = [status EXCEPT ![r] = "401"]
  /\ Others(<<inp, res, gone, late, RuntimeMu, PowProviderParam, prevPow>>)

\* prepareTrace of the server: a request refused, a name that does not resolve, or a
\* context that is done.  A lookup that runs into its own time limit is taken for the
\* latter, and the client gets an empty answer.
PrepareWeb(r) ==
  /\ Is(r, "prepare") /\ Web(inp[r])
  /\ \/ Becomes(r, Begin(inp[r])) /\ UNCHANGED <<status, late>>
     \/ \E s \in {"400", "500"} : Becomes(r, << >>) /\ status' = [status EXCEPT ![r] = s] /\ UNCHANGED late
     \/ Becomes(r, << >>) /\ late' = late \cup ({r} \ gone) /\ UNCHANGED status
  /\ Others(<<inp, res, gone, RuntimeMu, PowProviderParam, prevPow>>)

\* prepareTrace of the service, and the arguments of the other tools; buildMTUConfig is
\* part of the mtu tool's run.
PrepareTool(r) ==
  /\ Is(r, "prepare") /\ ~ Web(inp[r])
  /\ \/ Becomes(r, Begin(inp[r])) /\ UNCHANGED status
     \/ inp[r].kind # "mtu" /\ Becomes(r, << >>) /\ status' = [status EXCEPT ![r] = "error"]
  /\ Others(<<inp, res, gone, late, RuntimeMu, PowProviderParam, prevPow>>)

(***************************************************************************)
(* Tokens                                                                  *)
(***************************************************************************)
\* sync.Mutex: a client that leaves meanwhile does not end the waiting.
LockRuntime(r) ==
  /\ Is(r, "lock") /\ RuntimeMu = None /\ Done(r)
  /\ RuntimeMu' = r
  /\ Others(<<inp, res, status, gone, late, PowProviderParam, prevPow>>)

UnlockRuntime(r) ==
  /\ Is(r, "unlock") /\ Done(r)
  /\ RuntimeMu' = None
  /\ Others(<<inp, res, status, gone, late, PowProviderParam, prevPow>>)

\* session.closed: nothing more is done but giving back the lock.
CheckSession(r) ==
  /\ Is(r, "check")
  /\ IF r \in gone THEN Becomes(r, If(RuntimeMu = r, <<"unlock">>)) ELSE Done(r)
  /\ Others(<<inp, res, status, gone, late, RuntimeMu, PowProviderParam, prevPow>>)

SetPow(r) ==
  /\ Is(r, "pow") /\ Done(r)
  /\ prevPow' = [prevPow EXCEPT ![r] = PowProviderParam]
  /\ PowProviderParam' = inp[r].pow
  /\ Others(<<inp, res, status, gone, late, RuntimeMu>>)

RestorePow(r) ==
  /\ Is(r, "unpow") /\ Done(r)
  /\ PowProviderParam' = prevPow[r] /\ prevPow' = [prevPow EXCEPT ![r] = None]
  /\ Others(<<inp, res, status, gone, late, RuntimeMu>>)

EnterScope(r) ==
  /\ Is(r, "enter") /\ Call(r) /\ Done(r)
  /\ UNCHANGED <<inp, res, status, gone, late, RuntimeMu, PowProviderParam, prevPow>>

LeaveScope(r) ==
  /\ Is(r, "leave") /\ (LeaveUnscoped(r) \/ Leave(r) \/ LeaveLast(r)) /\ Done(r)
  /\ UNCHANGED <<inp, res, status, gone, late, RuntimeMu, PowProviderParam, prevPow>>

\* ensureLeoMoeConnection: with the request's settings, a connection is opened when there
\* is none and nobody is opening one.  Whether that succeeds does not matter here; the
\* connection is the one of WsClient.  That closing the client it replaces returns is
\* assumed: see CloseWaitsForLateReadersOnly there.
EnsureLeo(r) ==
  /\ Is(r, "leo") /\ Done(r)
  /\ Others(<<inp, res, status, gone, late, RuntimeMu, PowProviderParam, prevPow>>)

\* MTRReport and MTRRaw: a report has always a number of probes, a raw run gets one
\* when it has no limit at all; a run of the web may have none (runMTRTrace).
Limits(q) ==
  CASE q.kind = "report" -> {"count"}
    [] q.kind = "raw"    -> IF q.limits = {} THEN {"count"} ELSE q.limits
    [] q.kind = "wsMTR"  -> q.limits \cap {"count"}
    [] OTHER             -> {"count"}

\* The trace, the discovery, the lookups or the test itself, by the context.
RunEnds(r) ==
  /\ Is(r, "run")
  /\ \E outcome \in {"ok", "fails"} \cup (IF r \in gone \cup late THEN {"stopped"} ELSE {}) :
       /\ Becomes(r, End(inp[r], outcome))
       /\ res' = [res EXCEPT ![r] = outcome]
  /\ Others(<<inp, status, gone, late, RuntimeMu, PowProviderParam, prevPow>>)

\* runSingleTrace leaves without a word when the session was closed.
MakeMap(r) ==
  /\ Is(r, "map") /\ Done(r)
  /\ Others(<<inp, res, status, gone, late, RuntimeMu, PowProviderParam, prevPow>>)

\* A stopped run of MTRRaw is an answer when it was stopped by its own duration.
Answer(r) ==
  /\ Is(r, "answer") /\ Done(r)
  /\ status' = [status EXCEPT ![r] =
       CASE Web(inp[r]) -> IF res[r] = "fails" THEN "500" ELSE IF r \in gone THEN None ELSE "200"
         [] ~ Web(inp[r]) /\ (res[r] = "ok" \/ (res[r] = "stopped" /\ r \notin gone)) -> "200"
         [] OTHER -> "error"]
  /\ Others(<<inp, res, gone, late, RuntimeMu, PowProviderParam, prevPow>>)

Step(r) ==
  \/ Authenticate(r) \/ PrepareWeb(r) \/ PrepareTool(r) \/ UnlockRuntime(r) \/ CheckSession(r)
  \/ SetPow(r) \/ RestorePow(r) \/ EnterScope(r) \/ LeaveScope(r) \/ EnsureLeo(r) \/ MakeMap(r)
  \/ Answer(r)

(***************************************************************************)
(* Around them                                                             *)
(***************************************************************************)
Leaves(r) ==
  /\ r \notin gone /\ todo[r] # << >> /\ gone' = gone \cup {r}
  /\ Others(<<inp, todo, res, status, late, RuntimeMu, PowProviderParam, prevPow>>)

\* The duration of a raw run counts from before the lock is asked for.
DurationOver(r) ==
  /\ r \notin late /\ "duration" \in Limits(inp[r])
  /\ todo[r] # << >> /\ Head(todo[r]) \notin {"auth", "prepare"}
  /\ late' = late \cup {r}
  /\ Others(<<inp, todo, res, status, gone, RuntimeMu, PowProviderParam, prevPow>>)

\* A lookup of a running request: inside its scope, or on its own (an MTR of the web).
StartLookup(l) ==
  /\ todo[Owner[l]] # << >> /\ Head(todo[Owner[l]]) = "run" /\ calls[l] < MaxLookups
  /\ Call(l) /\ UNCHANGED reqVars

\* The steps into and out of a scope, and a lookup's end.
ScopeStep(p) ==
  /\ p \in DOMAIN Owner \/ pc[p] # "in"
  /\ Inside(p) /\ UNCHANGED reqVars

RNext ==
  \/ \E r \in Reqs : Step(r) \/ LockRuntime(r) \/ RunEnds(r) \/ Leaves(r) \/ DurationOver(r)
  \/ \E l \in DOMAIN Owner : StartLookup(l)
  \/ \E p \in Procs : ScopeStep(p)

RSpec == RInit /\ [][RNext]_allVars

\* Something that can go on goes on: goroutines, mutexes that are free, runs that are
\* limited, stopped or past their duration, writing an answer.  A request has finitely
\* many steps, so no more is needed; an unlimited run need not end.
Progress ==
  \/ \E r \in Reqs : \/ Step(r) \/ LockRuntime(r) \/ DurationOver(r)
                     \/ ("count" \in Limits(inp[r]) \/ r \in gone \cup late) /\ RunEnds(r)
  \/ \E p \in Procs : ScopeStep(p)

RFairness == WF_allVars(Progress)

RFairSpec == RSpec /\ RFairness

(***************************************************************************)
(* Properties                                                              *)
(***************************************************************************)
\* While a request has its proof-of-work provider set nobody else's is in effect, and
\* when nobody holds the lock it is the command line's again
\* (withTraceSetupContext, withServiceRuntime).
PowKept ==
  /\ \A r \in Reqs : prevPow[r] # None => RuntimeMu = r /\ PowProviderParam = inp[r].pow
  /\ RuntimeMu = None => PowProviderParam = CliPow

\* Every request that is bounded, and every one whose client has left, comes to its end,
\* although the lock cannot be cancelled, scopes take turns and a web MTR beside them
\* runs without end: no unlimited run holds the lock or a scope.
RequestsEnd ==
  \A r \in Reqs : (inp[r].kind # "wsMTR" \/ "count" \in inp[r].limits \/ r \in gone)
                    ~> todo[r] = << >>

=============================================================================
