------------------------------- MODULE ToolCalls --------------------------------
(***************************************************************************)
(* The calls of tools by the agent: ToolRegistry::call_tool, and behind it *)
(* the tools file_read and file_write (tool_impls/file_tool.rs) and        *)
(* http_request (tool_impls/http_tool.rs), called by several sessions      *)
(* while tools are still being registered.                                 *)
(*                                                                         *)
(* What an .await or another thread can come between is a step.  A call    *)
(* may be dropped at any await (the wall clock of its run); a file         *)
(* operation that has begun goes on, on a thread of its own.               *)
(***************************************************************************)
EXTENDS ToolRegistry, SandboxPath, Network

CONSTANTS
  Sessions,     \* one call each
  Requests,     \* what may be called: [name, args]
  Grants,       \* the sessions' capabilities: [tools, domains]
  AddressesOf,  \* what the name server may say of a host
  BodyCap,      \* MAX_RESPONSE_BODY_SIZE, 1 MB in the code
  MaxBody,      \* bound: what a server sends
  Files         \* the files there are, and whether they hold UTF-8

ASSUME CallAssumption ==
  /\ \A q \in Requests : \E r \in Registrations : NameOf[r] = q.name
  /\ BodyCap \in Nat /\ MaxBody \in Nat
  /\ \A q \in Requests : "path" \in DOMAIN q.args => q.args.path \in Seq(STRING)
  /\ DOMAIN Files \subseteq Tree \ (DOMAIN Links \cup {Root})

VARIABLES
  call,    \* per session: pc, id of the tool found, addresses its host was
           \* found to have, response and result
  asked,   \* per session: its request and its capabilities
  disk,    \* the contents of the files
  io,      \* per session: the file operation its thread is at
  effects  \* history: what was done, a file opened for writing or a request
           \* handed over, for which session

callVars == <<call, asked, disk, io, effects>>

vars == <<registryVars, callVars>>

None == "none"

(* ToolResult.  The status of a response does not make an error unless the *)
(* server itself failed.                                                   *)
Ok(data) == [is_error |-> FALSE, data |-> data]
Error(code, retryable) == [is_error |-> TRUE, code |-> code, retryable |-> retryable]
NoResult == Ok(None)

(* What has been read of a response; "sent" (history) is how much the     *)
(* server had sent by then.                                                *)
NoResponse == [body |-> <<>>, truncated |-> FALSE, sent |-> 0]

Args(s) == asked[s].request.args

Init ==
  /\ RegistryInit
  /\ call = [s \in Sessions |->
               [pc |-> "lookup", id |-> None, addresses |-> {}, response |-> NoResponse,
                result |-> NoResult]]
  /\ asked \in [Sessions -> [request : Requests, grant : Grants]]
  /\ disk = Files
  /\ io = [s \in Sessions |-> "idle"]
  /\ effects = {}

Goto(s, pc) == call' = [call EXCEPT ![s].pc = pc]

Return(s, result) ==
  call' = [call EXCEPT ![s].pc = "returned", ![s].result = result]

(* The error of the first of the checks that fails.                        *)
FirstError(checks) == Head(SelectSeq(checks, LAMBDA c : c.fails)).error

AllPass(checks) == \A k \in DOMAIN checks : ~checks[k].fails

Unless(holds, code) == [fails |-> ~holds, error |-> Error(code, FALSE)]

--------------------------------------------------------------------------------
(* call_tool.                                                              *)

(* get_by_name, once: its ToolId is what is checked, its tool what runs.   *)
Lookup(s) ==
  /\ call[s].pc = "lookup"
  /\ IF Found(asked[s].request.name)
     THEN call' = [call EXCEPT ![s].pc = "check", ![s].id = name_index[asked[s].request.name]]
     ELSE Return(s, Error("UNKNOWN_TOOL", FALSE))
  /\ UNCHANGED <<registryVars, asked, disk, io, effects>>

(* The capabilities of the session: the tool, and for http_request the     *)
(* host of a URL, if there is one.                                         *)
Granted(s, id) ==
  /\ id \in asked[s].grant.tools
  /\ asked[s].request.name = "http_request" /\ "url" \in DOMAIN Args(s) =>
       /\ HostOf(Args(s).url) # <<>>
       /\ CanAccessDomain(HostOf(Args(s).url), asked[s].grant.domains)

(* Mutant: the name is looked up again for the check.                      *)
CheckCapabilityByName(s) ==
  /\ call[s].pc = "check"
  /\ IF Granted(s, name_index[asked[s].request.name]) THEN Goto(s, "dispatch")
     ELSE Return(s, Error("CAPABILITY_DENIED", FALSE))
  /\ UNCHANGED <<registryVars, asked, disk, io, effects>>

CheckCapability(s) ==
  /\ call[s].pc = "check"
  /\ IF Granted(s, call[s].id) THEN Goto(s, "dispatch")
     ELSE Return(s, Error("CAPABILITY_DENIED", FALSE))
  /\ UNCHANGED <<registryVars, asked, disk, io, effects>>

--------------------------------------------------------------------------------
(* FileReadTool and FileWriteTool.                                         *)

File(s) == Target(Args(s).path)

ReadChecks(s) ==
  <<Unless("path" \in DOMAIN Args(s), "INVALID_ARGS"),
    Unless("path" \in DOMAIN Args(s) => Valid(Args(s).path, DOMAIN disk), "PATH_VALIDATION_ERROR")>>

WriteChecks(s) ==
  <<Unless({"path", "content"} \subseteq DOMAIN Args(s), "INVALID_ARGS"),
    Unless("path" \in DOMAIN Args(s) => Valid(Args(s).path, DOMAIN disk), "PATH_VALIDATION_ERROR")>>

(* The arguments and the path; then the operation starts on its thread.    *)
StartFile(s) ==
  /\ call[s].pc = "dispatch"
  /\ asked[s].request.name \in {"file_read", "file_write"}
  /\ LET checks == IF asked[s].request.name = "file_read" THEN ReadChecks(s) ELSE WriteChecks(s)
     IN  IF AllPass(checks)
         THEN /\ Goto(s, "io")
              /\ io' = [io EXCEPT ![s] = asked[s].request.name]
         ELSE Return(s, FirstError(checks)) /\ UNCHANGED io
  /\ UNCHANGED <<registryVars, asked, disk, effects>>

Answer(s, result) ==
  /\ io' = [io EXCEPT ![s] = "done"]
  /\ IF call[s].pc = "io" THEN Return(s, result) ELSE UNCHANGED call

(* Every error but that of a missing file may be retried.                  *)
ReadFile(s) ==
  /\ io[s] = "file_read"
  /\ \/ Answer(s, Error("IO_ERROR", TRUE))
     \/ /\ File(s) \notin Tree \cup DOMAIN disk /\ Front(File(s)) \notin DOMAIN disk
        /\ Answer(s, Error("NOT_FOUND", FALSE))
     \/ /\ File(s) \in DOMAIN disk
        /\ Answer(s, IF disk[File(s)] THEN Ok("contents") ELSE Error("INVALID_UTF8", FALSE))
  /\ UNCHANGED <<registryVars, asked, disk, effects>>

(* fs::write fails at once, or once it has created or emptied the file, or *)
(* writes it all.                                                          *)
WriteFile(s) ==
  /\ io[s] = "file_write"
  /\ \/ Answer(s, Error("IO_ERROR", TRUE)) /\ UNCHANGED <<disk, effects>>
     \/ /\ CanBeFile(File(s), DOMAIN disk)
        /\ disk' = [f \in DOMAIN disk \cup {File(s)} |-> f = File(s) \/ disk[f]]
        /\ effects' = effects \cup {[session |-> s, file |-> File(s)]}
        /\ Answer(s, Error("IO_ERROR", TRUE)) \/ Answer(s, Ok("written"))
  /\ UNCHANGED <<registryVars, asked>>

--------------------------------------------------------------------------------
(* HttpRequestTool.                                                        *)

Method(s) == IF "method" \in DOMAIN Args(s) THEN Args(s).method ELSE "GET"

(* The method, the URL, its scheme and its host.                           *)
HttpChecks(s) ==
  LET given == "url" \in DOMAIN Args(s) IN
  <<Unless(Method(s) \in AllowedMethods, "INVALID_METHOD"),
    Unless(given, "INVALID_ARGS"),
    Unless(given => Scheme(Args(s).url) \in AllowedSchemes, "INVALID_SCHEME"),
    Unless(given => HostOf(Args(s).url) # <<>>, "INVALID_URL")>>

StartHttp(s) ==
  /\ call[s].pc = "dispatch"
  /\ asked[s].request.name = "http_request"
  /\ IF AllPass(HttpChecks(s)) THEN Goto(s, "resolve")
     ELSE Return(s, FirstError(HttpChecks(s)))
  /\ UNCHANGED <<registryVars, asked, disk, io, effects>>

(* The name server does not answer in time, or it does: not the same every *)
(* time.                                                                   *)
Resolve(s) ==
  /\ call[s].pc = "resolve"
  /\ \/ Return(s, Error("DNS_TIMEOUT", TRUE))
     \/ \E addresses \in AddressesOf[HostOf(Args(s).url)] :
          CASE Resolution(addresses) = "resolved" ->
                 call' = [call EXCEPT ![s].pc = "send", ![s].addresses = addresses]
            [] Resolution(addresses) = "SSRF_BLOCKED" -> Return(s, Error("SSRF_BLOCKED", FALSE))
            [] OTHER -> Return(s, Error("DNS_ERROR", TRUE))
  /\ UNCHANGED <<registryVars, asked, disk, io, effects>>

(* The request, as it is handed to the HTTP client, with the addresses     *)
(* that it was checked with.  What the client takes the host of the URL to *)
(* be, what it is told when it resolves that again, and where the one      *)
(* redirect it follows leads, is the client's affair and left open here.   *)
Requested(s) ==
  [session |-> s, url |-> Args(s).url, method |-> Method(s), addresses |-> call[s].addresses,
   headers |-> IF "headers" \in DOMAIN Args(s) THEN SentHeaders(Args(s).headers) ELSE {}]

(* The client refuses it or reaches no server, or it does reach some, and  *)
(* an answer comes back or not.                                            *)
Send(s) ==
  /\ call[s].pc = "send"
  /\ \/ Return(s, Error("REQUEST_FAILED", TRUE)) /\ UNCHANGED effects
     \/ /\ effects' = effects \cup {Requested(s)}
        /\ Return(s, Error("REQUEST_FAILED", TRUE)) \/ Goto(s, "body")
  /\ UNCHANGED <<registryVars, asked, disk, io>>

(* Mutant: a chunk that ends at the cap counts as beyond it.               *)
KeptButLast(body, chunk) ==
  IF Len(body) + Len(chunk) >= BodyCap
  THEN [body |-> body \o SubSeq(chunk, 1, BodyCap - Len(body)), truncated |-> TRUE]
  ELSE [body |-> body \o chunk, truncated |-> FALSE]

(* A chunk that goes beyond the cap is the last one that is looked at.     *)
Kept(body, chunk) ==
  IF Len(body) + Len(chunk) > BodyCap
  THEN [body |-> body \o SubSeq(chunk, 1, BodyCap - Len(body)), truncated |-> TRUE]
  ELSE [body |-> body \o chunk, truncated |-> FALSE]

(* The server numbers what it sends.                                       *)
Units(first, last) == [k \in 1..last - first + 1 |-> first + k - 1]

Chunk(s) ==
  /\ call[s].pc = "body"
  /\ \E last \in call[s].response.sent + 1..MaxBody :
       LET kept == Kept(call[s].response.body, Units(call[s].response.sent + 1, last)) IN
       call' = [call EXCEPT ![s].response = [body |-> kept.body, truncated |-> kept.truncated,
                                             sent |-> last],
                            ![s].pc = IF kept.truncated THEN "drain" ELSE "body"]
  /\ UNCHANGED <<registryVars, asked, disk, io, effects>>

(* Mutant: what cannot be read to its end is not worth another try.        *)
BodyFailsFinally(s) ==
  /\ call[s].pc = "body"
  /\ Return(s, Error("READ_ERROR", FALSE))
  /\ UNCHANGED <<registryVars, asked, disk, io, effects>>

BodyFails(s) ==
  /\ call[s].pc = "body"
  /\ Return(s, Error("READ_ERROR", TRUE))
  /\ UNCHANGED <<registryVars, asked, disk, io, effects>>

(* The body, or what is drained beyond the cap, ends; a drain ends with an *)
(* error as well.  The status comes last.                                  *)
BodyEnds(s) ==
  /\ call[s].pc \in {"body", "drain"}
  /\ \/ Return(s, Error("HTTP_500", TRUE))
     \/ Return(s, Ok("response"))
  /\ UNCHANGED <<registryVars, asked, disk, io, effects>>

--------------------------------------------------------------------------------
(* The run that waits for the call is over before it (guard.rs).           *)
Drop(s) ==
  /\ call[s].pc \in {"io", "resolve", "send", "body", "drain"}
  /\ Goto(s, "dropped")
  /\ UNCHANGED <<registryVars, asked, disk, io, effects>>

CallStep(s) ==
  \/ Lookup(s) \/ CheckCapability(s)
  \/ StartFile(s) \/ ReadFile(s) \/ WriteFile(s)
  \/ StartHttp(s) \/ Resolve(s) \/ Send(s) \/ Chunk(s) \/ BodyFails(s) \/ BodyEnds(s)
  \/ Drop(s)

Next ==
  \/ \E r \in Registrations : Register(r) /\ UNCHANGED callVars
  \/ \E s \in Sessions : CallStep(s)

Spec == Init /\ [][Next]_vars

--------------------------------------------------------------------------------
(* An error that says not to try again changed nothing: no file was opened *)
(* for writing and no server was asked.  Those that may be retried can     *)
(* have been carried out: nothing tells the model.                         *)
FinalErrorsHadNoEffect ==
  \A e \in effects :
    LET result == call[e.session].result IN
    call[e.session].pc = "returned" /\ result.is_error => result.retryable

(* A tool of the name that was asked for, and granted to the session.      *)
ByGrantedTool(e) ==
  LET s == e.session IN
  call[s].id \in asked[s].grant.tools /\ NameOf[call[s].id] = asked[s].request.name

(* A request that passed the checks: what they take for its host is of a   *)
(* granted domain and was found to have public addresses only; and it has  *)
(* no header that frames the message.                                      *)
CheckedBeforeSent(e) ==
  "url" \in DOMAIN e =>
    /\ CanAccessDomain(HostOf(e.url), asked[e.session].grant.domains)
    /\ e.addresses \in AddressesOf[HostOf(e.url)] \ {{}}
    /\ \A a \in e.addresses : ~IsBlocked(a)
    /\ \A h \in e.headers : h.name \notin ForbiddenHeaders

(* A file of the sandbox, wherever the links lead, unless one of the       *)
(* sandbox led to nothing: what it names is made, wherever that is.        *)
InsideSandbox(e) ==
  "file" \in DOMAIN e =>
    \/ Within(Canonical(Front(e.file))) /\ e.file \notin DOMAIN Links
    \/ EndsInStaleLink(Args(e.session).path)

(* What is done for a session is done by a tool of the name it asked for   *)
(* that was granted to it, whoever registers that name in the meantime;    *)
(* a request was checked before it was handed over, and a file is where    *)
(* its path was checked to lead.  Nothing is said of the server a request  *)
(* gets to: http_tool.rs:19-31 accepts that it may be another one than was *)
(* checked, and so may the URL's other reading and the redirect lead.      *)
OnlyGrantedEffects ==
  \A e \in effects : ByGrantedTool(e) /\ CheckedBeforeSent(e) /\ InsideSandbox(e)

(* A response holds what the server sent, in order, up to the cap, and     *)
(* says that it is cut exactly when more was sent: at the cap itself it is *)
(* whole.                                                                  *)
ResponsesAreWholeOrCut ==
  \A s \in Sessions :
    call[s].pc = "returned" /\ asked[s].request.name = "http_request" /\ ~call[s].result.is_error =>
      LET response == call[s].response IN
      /\ response.body = Units(1, Min({response.sent, BodyCap}))
      /\ response.truncated <=> response.sent > BodyCap
================================================================================
