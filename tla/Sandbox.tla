-------------------------------- MODULE Sandbox ---------------------------------
(***************************************************************************)
(* Guests at work: the instances of a tenant on the runtime's worker       *)
(* threads, yielding at their epoch deadlines (jadepaw-wasm/src/pool.rs,   *)
(* epoch.rs), growing their memories (limits/) and calling the host        *)
(* functions of the linker (linker.rs, host/).                             *)
(*                                                                         *)
(* A guest computes for as long as it likes; its fuel is left out.  What a *)
(* host function does before its first .await is one step, and the worker  *)
(* is free while it waits.                                                 *)
(***************************************************************************)
EXTENDS TenantQuota, EpochTicker, SandboxPath, Network

CONSTANTS
  Workers,       \* the number of worker threads
  EpochDelta,    \* ticks until a guest yields, 100 in the code
  HostRequests,  \* the calls of host functions, with what guest memory holds
  CallersOfHost, \* bound: the guests that call host functions
  Growers,       \* bound: the guests that grow
  Capabilities,  \* what the guests may use: [reads, writes, domains]
  AddressesOf,   \* what the name server may say of a host
  Files,         \* the files there are, and their lengths
  Bits           \* the width of the integers a guest passes, 32 in the code

(* 2 ^ w, as a function that can be reasoned about.                        *)
TwoTo[w \in 0..2 * Bits] == IF w = 0 THEN 1 ELSE 2 * TwoTo[w - 1]

(* What a guest passes is an i32: where something is in its memory.        *)
GuestInt == -TwoTo[Bits - 1]..TwoTo[Bits - 1] - 1
Region == [ptr : GuestInt, len : GuestInt]

(* The calls of host functions.  Every region is read and must be in       *)
(* bounds; whether text is UTF-8 and headers are JSON is all that matters  *)
(* of what is there.                                                       *)
ReadRequest ==
  [function : {"file_read"}, path : Seq(STRING), regions : SUBSET Region, utf8 : BOOLEAN,
   buffer : Region]
WriteRequest ==
  [function : {"file_write"}, path : Seq(STRING), regions : SUBSET Region, utf8 : BOOLEAN,
   length : Nat]
HttpRequest ==
  [function : {"http_request"}, url : Seq(STRING), method : STRING, regions : SUBSET Region,
   utf8 : BOOLEAN, json : BOOLEAN]
LogRequest == [function : {"log_message"}, regions : SUBSET Region, utf8 : BOOLEAN]

ASSUME SandboxAssumption ==
  /\ Workers \in Nat \ {0} /\ EpochDelta \in Nat \ {0} /\ Bits \in Nat \ {0}
  /\ CallersOfHost \cup Growers \subseteq Guests
  /\ MaxBytes < TwoTo[Bits - 1]
  /\ HostRequests \subseteq ReadRequest \cup WriteRequest \cup HttpRequest \cup LogRequest
  /\ Files \in [DOMAIN Files -> Nat] /\ DOMAIN Files \subseteq Tree \ DOMAIN Links

VARIABLES
  guest,   \* "ready", "yielded", "running", "waiting" for a host function, or "ended"
  left,    \* the ticks left until a guest's deadline
  owner,   \* the engine is held by something else than its guests
  host,    \* what a guest called last: request, result, and (history) what the
           \* host function saw: the file's length, the host's addresses
  disk     \* the files there are, and their lengths

guestVars == <<guest, left, owner, host, disk>>

vars == <<quotaVars, tickerVars, guestVars>>

NoCall == [request |-> [function |-> "none"], result |-> 0, seen |-> {}]

Init ==
  /\ QuotaInit
  /\ TickerInit
  /\ guest = [g \in Guests |-> "ready"]
  /\ left = [g \in Guests |-> 0]
  /\ owner = TRUE
  /\ host = [g \in Guests |-> NoCall]
  /\ disk = Files

Running == {g \in Guests : guest[g] = "running"}

Becomes(g, state) == guest' = [guest EXCEPT ![g] = state]

--------------------------------------------------------------------------------
(* Turns on the workers.                                                   *)

(* A guest has no time before its first yield; one that had yielded gets a *)
(* new deadline, and one that comes back from a host function keeps its.   *)
Schedule(g) ==
  /\ guest[g] \in {"ready", "yielded"}
  /\ Cardinality(Running) < Workers
  /\ Becomes(g, "running")
  /\ left' = IF guest[g] = "yielded" THEN [left EXCEPT ![g] = EpochDelta] ELSE left
  /\ host' = [host EXCEPT ![g] = NoCall]
  /\ UNCHANGED <<quotaVars, tickerVars, owner, disk>>

Yield(g) ==
  /\ guest[g] = "running" /\ ~Growing(g)
  /\ left[g] = 0
  /\ Becomes(g, "yielded")
  /\ UNCHANGED <<quotaVars, tickerVars, left, owner, host, disk>>

(* It returns, traps, or runs out of fuel; its store is dropped.           *)
End(g) ==
  /\ guest[g] = "running" /\ ~Growing(g)
  /\ Becomes(g, "ended")
  /\ Freed(g)
  /\ UNCHANGED <<tickerVars, left, owner, host, disk>>

AskToGrow(g) ==
  /\ guest[g] = "running" /\ ~Growing(g) /\ g \in Growers
  /\ \E what \in {"memory", "table"}, delta \in 1..MaxGrowth :
       IF Trapped(g, what, delta) THEN Becomes(g, "ended") /\ Freed(g)
       ELSE StartGrowth(g, what, delta) /\ UNCHANGED guest
  /\ UNCHANGED <<tickerVars, left, owner, host, disk>>

GrowthStep(g) ==
  /\ Commit(g) \/ Grow(g)
  /\ UNCHANGED <<tickerVars, guestVars>>

--------------------------------------------------------------------------------
(* The engine and its ticker.                                              *)

Alive == owner \/ HoldsEngine \/ \E g \in Guests : guest[g] # "ended"

TickerStep ==
  /\ \/ (CheckStop \/ Upgrade(Alive)) /\ UNCHANGED left
     \/ Tick /\ left' = [g \in Guests |-> IF left[g] = 0 THEN 0 ELSE left[g] - 1]
  /\ UNCHANGED <<quotaVars, guest, owner, host, disk>>

Shutdown ==
  /\ \/ (DropGuard \/ Joined) /\ UNCHANGED owner
     \/ owner /\ owner' = FALSE /\ UNCHANGED tickerVars
  /\ UNCHANGED <<quotaVars, guest, left, host, disk>>

--------------------------------------------------------------------------------
(* The host functions, registered under the names of their requests.       *)

UsizeMax == TwoTo[2 * Bits]

(* `as usize`, which extends the sign, and `len() as i32`, which wraps.    *)
AsUsize(i) == IF i < 0 THEN UsizeMax + i ELSE i
AsInt(n) ==
  LET low == n % TwoTo[Bits] IN IF low < TwoTo[Bits - 1] THEN low ELSE low - TwoTo[Bits]

(* A pointer and a length; their sum saturates.                            *)
InBounds(g, region) ==
  Min({AsUsize(region.ptr) + AsUsize(region.len), UsizeMax}) <= size[g]

FileOf(request) == Target(request.path)

AcceptsRead(request) ==
  CanUseFile(request.path, Capabilities.reads) /\ Valid(request.path, DOMAIN disk)

AcceptsWrite(request) ==
  CanUseFile(request.path, Capabilities.writes) /\ Valid(request.path, DOMAIN disk)

AcceptsHttp(request) ==
  /\ CanAccessDomain(HostOf(request.url), Capabilities.domains)
  /\ Scheme(request.url) \in AllowedSchemes
  /\ request.method \in AllowedMethods
  /\ request.json

(* The checks, in their order: where the request is in memory, that it is  *)
(* text, what it is allowed to do, and what else has to be right.          *)
Accepted(g, request) ==
  /\ \A region \in request.regions : InBounds(g, region)
  /\ request.utf8
  /\ CASE request.function = "file_read" -> AcceptsRead(request)
       [] request.function = "file_write" -> AcceptsWrite(request)
       [] request.function = "http_request" -> AcceptsHttp(request)
       [] OTHER -> TRUE

(* A call that is refused returns -1 at once, and a log message is written *)
(* at once: the guest just goes on.                                        *)
CallHost(g) ==
  /\ guest[g] = "running" /\ ~Growing(g) /\ g \in CallersOfHost
  /\ \E request \in HostRequests :
       IF Accepted(g, request) /\ request.function # "log_message"
       THEN /\ Becomes(g, "waiting")
            /\ host' = [host EXCEPT ![g] = [NoCall EXCEPT !.request = request]]
       ELSE UNCHANGED <<guest, host>>
  /\ UNCHANGED <<quotaVars, tickerVars, left, owner, disk>>

HostReturns(g, result, seen) ==
  /\ Becomes(g, "ready")
  /\ host' = [host EXCEPT ![g] = IF result = -1 THEN NoCall
                                 ELSE [request |-> @.request, result |-> result, seen |-> seen]]

(* Mutant: as much is written as the result says.                          *)
HostReadWrapped(g) ==
  LET file   == FileOf(host[g].request)
      buffer == host[g].request.buffer
      n      == AsInt(disk[file])
  IN  IF /\ file \in DOMAIN disk
         /\ AsUsize(n) <= (IF buffer.len > 0 THEN buffer.len ELSE 0)
         /\ AsUsize(buffer.ptr) + n <= size[g]
      THEN HostReturns(g, n, {disk[file]})
      ELSE HostReturns(g, -1, {})

(* The whole file is written to the guest's buffer, if it is large enough  *)
(* for what is to be returned and the memory is for all of it.             *)
HostRead(g) ==
  LET file   == FileOf(host[g].request)
      buffer == host[g].request.buffer
      n      == AsInt(disk[file])
  IN  IF /\ file \in DOMAIN disk
         /\ AsUsize(n) <= (IF buffer.len > 0 THEN buffer.len ELSE 0)
         /\ AsUsize(buffer.ptr) + disk[file] <= size[g]
      THEN HostReturns(g, n, {disk[file]})
      ELSE HostReturns(g, -1, {})

HostWrite(g) ==
  LET file == FileOf(host[g].request) IN
  /\ CanBeFile(file, DOMAIN disk)
  /\ disk' = [f \in DOMAIN disk \cup {file} |->
                IF f = file THEN host[g].request.length ELSE disk[f]]
  /\ HostReturns(g, 0, {})

AnyStatus == 200

(* What is requested is the URL without its userinfo, once the name server *)
(* has said that its host is public.  Only the status comes back, the body *)
(* is dropped unread; whose status it is depends on how the HTTP client    *)
(* reads the URL, resolves its host again and is redirected, and is left   *)
(* open.                                                                   *)
HostSend(g) ==
  LET asked == host[g].request IN
  \E addresses \in AddressesOf[HostOf(asked.url)] :
    /\ Resolution(addresses) = "resolved"
    /\ Becomes(g, "ready")
    /\ host' = [host EXCEPT ![g] = [request |-> [asked EXCEPT !.url = RequestUrl(asked.url)],
                                    result |-> AnyStatus, seen |-> addresses]]

(* Every one of them may fail.                                             *)
HostAnswers(g) ==
  /\ guest[g] = "waiting"
  /\ \/ HostReturns(g, -1, {}) /\ UNCHANGED disk
     \/ host[g].request.function = "file_read" /\ HostRead(g) /\ UNCHANGED disk
     \/ host[g].request.function = "file_write" /\ HostWrite(g)
     \/ host[g].request.function = "http_request" /\ HostSend(g) /\ UNCHANGED disk
  /\ UNCHANGED <<quotaVars, tickerVars, left, owner>>

--------------------------------------------------------------------------------
GuestStep(g) ==
  \/ Schedule(g) \/ Yield(g) \/ End(g) \/ AskToGrow(g) \/ GrowthStep(g)
  \/ CallHost(g) \/ HostAnswers(g)

Next == TickerStep \/ Shutdown \/ \E g \in Guests : GuestStep(g)

Spec == Init /\ [][Next]_vars

(* Threads run; a guest at its deadline yields, a limiter comes to its     *)
(* end, and the runtime leaves no task in its queues for ever.  A guest    *)
(* need never end or call anyone, and a host function need never answer.   *)
FairSpec ==
  /\ Spec
  /\ WF_vars(TickerStep)
  /\ WF_vars(Joined /\ Shutdown)
  /\ \A g \in Guests :
       SF_vars(Schedule(g)) /\ WF_vars(Yield(g)) /\ WF_vars(GrowthStep(g))

--------------------------------------------------------------------------------
(* The tenant's counter goes beyond the budget by no more than what the    *)
(* other workers may have been growing by when it was last found to have   *)
(* room.                                                                   *)
OvershootBounded == used <= BudgetMax + (Workers - 1) * MaxGrowth

(* It stays within that bound, and never falls behind the memory that the  *)
(* tenant's guests have.                                                   *)
BudgetOvershoot == SumFunction(size) <= used /\ OvershootBounded

(* What a host function tells a guest is true: a number of bytes read is   *)
(* that of the whole file, all of it in the guest's buffer, which holds    *)
(* nothing if its length is negative; a write that succeeded is under a    *)
(* path the guest may write, in the sandbox unless a link of it led to     *)
(* nothing; and a status is the answer to a request whose URL, as it was   *)
(* rewritten, still names for the checks a host of a domain the guest may  *)
(* use, which they found to be public.                                     *)
HostResultsAreTrue ==
  \A g \in Guests :
    LET request == host[g].request  result == host[g].result IN
    guest[g] = "ready" /\ request.function # "none" =>
      CASE request.function = "file_read" ->
             /\ host[g].seen = {result}
             /\ result <= Max({request.buffer.len, 0})
             /\ request.buffer.ptr \in 0..size[g] - result
        [] request.function = "file_write" ->
             /\ CanUseFile(request.path, Capabilities.writes)
             /\ Within(FileOf(request)) \/ EndsInStaleLink(request.path)
        [] OTHER ->
             /\ CanAccessDomain(HostOf(request.url), Capabilities.domains)
             /\ host[g].seen \in AddressesOf[HostOf(request.url)]
             /\ \A a \in host[g].seen : ~IsBlocked(a)

(* As long as the ticker runs, no guest keeps the others from their turns, *)
(* though it may compute for ever.                                         *)
GuestsTakeTurns ==
  \A g \in Guests : guest[g] \in {"ready", "yielded"} ~> guest[g] = "running" \/ guard # "held"

(* Dropping the guard returns, and the thread outlives neither the guard   *)
(* nor the engine.                                                         *)
TickerStops ==
  /\ guard = "joining" ~> guard = "dropped" /\ ticker = "gone"
  /\ ~owner /\ (\A g \in Guests : guest[g] = "ended") ~> ticker = "gone" /\ ~Alive
================================================================================
