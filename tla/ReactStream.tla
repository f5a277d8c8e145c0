------------------------------ MODULE ReactStream -------------------------------
(***************************************************************************)
(* The turns of one react_loop (jadepaw-agent/src/loop.rs) as its client   *)
(* sees them: the model's response comes in chunks (llm.rs), is parsed     *)
(* (LlmParse), and every step goes out as an event over the bounded        *)
(* channel of stream.rs, whose receiver may be read, dropped, or, under    *)
(* run_agent (lib.rs), be held back until the loop has returned.           *)
(*                                                                         *)
(* AgentSession has the same loop with its checkpoints and without its     *)
(* events; here a run starts afresh, and nothing is persisted.             *)
(***************************************************************************)
EXTENDS LlmParse

CONSTANTS
  Units,          \* what responses are made of
  MaxUnits,       \* bound: the longest response
  MaxIterations,  \* bound: the largest GuardConfig::max_iterations
  Capacity        \* the channel's places, 256 in the code

ASSUME StreamAssumption ==
  /\ Units \subseteq Unit
  /\ MaxUnits \in Nat
  /\ MaxIterations \in Nat \ {0}
  /\ Capacity \in Nat \ {0}

VARIABLES
  limit,     \* max_iterations of this run
  pc,        \* the await the loop is at
  turn,      \* the turn under way
  response,  \* what the model has said in it so far
  trace,     \* the steps done, as the loop returns them
  sent,      \* the events the channel took
  unread,    \* how many of them its receiver has not taken out
  client,    \* "later": the receiver is handed out after the loop
  outcome,   \* what the loop returned
  called,    \* history: the turns whose tool was called
  cut        \* history: this turn's response was cut short by a disconnect

vars == <<limit, pc, turn, response, trace, sent, unread, client, outcome, called, cut>>

Step(kind) == [kind |-> kind, turn |-> turn]

Init ==
  /\ limit \in 1..MaxIterations
  /\ pc = "model"
  /\ turn = 0
  /\ response = <<>>
  /\ trace = <<>>
  /\ sent = <<>>
  /\ unread = 0
  /\ client \in {"later", "reading"}
  /\ outcome = "none"
  /\ called = {}
  /\ cut = FALSE

(* The loop returns and its sender is dropped.  run_agent hands the        *)
(* receiver out with the answer and drops it with an error.                *)
Return(result) ==
  /\ pc' = "returned"
  /\ outcome' = result
  /\ response' = <<>>
  /\ client' = IF client # "later" THEN client
               ELSE IF result = "ok" THEN "reading" ELSE "gone"
  /\ unread' = IF client' = "gone" THEN 0 ELSE unread

--------------------------------------------------------------------------------
(* stream_llm_response.                                                    *)

(* Mutant: each chunk is an event of its own.                              *)
ChunkRelayed ==
  /\ pc = "model"
  /\ Len(response) < MaxUnits
  /\ \E unit \in Units : response' = Append(response, unit)
  /\ IF client = "gone"
     THEN pc' = "thought" /\ cut' = TRUE /\ UNCHANGED <<sent, unread>>
     ELSE /\ unread < Capacity
          /\ sent' = Append(sent, Step("thought"))
          /\ unread' = unread + 1
          /\ UNCHANGED <<pc, cut>>
  /\ UNCHANGED <<limit, turn, trace, client, outcome, called>>

(* A chunk arrives; then the loop looks whether anyone is still listening, *)
(* and if not goes on with what it has.                                    *)
Chunk ==
  /\ pc = "model"
  /\ Len(response) < MaxUnits
  /\ \E unit \in Units : response' = Append(response, unit)
  /\ IF client = "gone"
     THEN pc' = "thought" /\ cut' = TRUE
     ELSE UNCHANGED <<pc, cut>>
  /\ UNCHANGED <<limit, turn, trace, sent, unread, client, outcome, called>>

StreamEnds ==
  /\ pc = "model"
  /\ pc' = "thought"
  /\ UNCHANGED <<limit, turn, response, trace, sent, unread, client, outcome, called, cut>>

(* The fuel cannot be reset, or the model's stream reports an error.       *)
ModelFails ==
  /\ pc = "model"
  /\ \/ response = <<>> /\ Return("store_failure")
     \/ Return("llm_failure")
  /\ UNCHANGED <<limit, turn, trace, sent, called, cut>>

--------------------------------------------------------------------------------
(* react_loop: the events of a turn.                                       *)

(* tx.send: waits for a place while there is a receiver.                   *)
Sending(event) ==
  /\ client # "gone"
  /\ unread < Capacity
  /\ sent' = Append(sent, event)
  /\ unread' = unread + 1

(* Mutant: a channel without a receiver is noticed only when it is full.   *)
SendFailsWhenFull ==
  /\ client = "gone"
  /\ unread = Capacity
  /\ Return("channel_closed")
  /\ UNCHANGED sent

SendFails ==
  /\ client = "gone"
  /\ Return("channel_closed")
  /\ UNCHANGED sent

NextTurn ==
  /\ turn' = turn + 1
  /\ pc' = IF turn + 1 < limit THEN "model" ELSE "exhausted"

(* The Thought goes out and into the trace; the response is parsed, and    *)
(* the step it asks for is traced before it is sent.                       *)
Thought ==
  /\ pc = "thought"
  /\ \/ /\ SendFails
        /\ UNCHANGED <<turn, trace>>
     \/ /\ Sending(Step("thought"))
        /\ response' = <<>>
        /\ LET directive == ParseNextAction(response).kind IN
           \/ /\ directive = "finish"
              /\ trace' = trace \o <<Step("thought"), Step("finished")>>
              /\ pc' = "finish"
              /\ UNCHANGED turn
           \/ /\ directive = "act"
              /\ trace' = trace \o <<Step("thought"), Step("action")>>
              /\ pc' = "action"
              /\ UNCHANGED turn
           \/ /\ directive = "continue"
              /\ trace' = Append(trace, Step("thought"))
              /\ NextTurn
        /\ UNCHANGED <<client, outcome>>
  /\ UNCHANGED <<limit, called, cut>>

(* The parser panics: the loop unwinds, and nothing is returned.           *)
ThoughtPanics ==
  /\ pc = "thought"
  /\ ParseNextAction(response) = Panicked
  /\ client # "gone" /\ unread < Capacity
  /\ sent' = Append(sent, Step("thought"))
  /\ trace' = Append(trace, Step("thought"))
  /\ pc' = "returned"
  /\ outcome' = "panicked"
  /\ response' = <<>>
  /\ client' = IF client = "later" THEN "gone" ELSE client
  /\ unread' = IF client' = "gone" THEN 0 ELSE unread + 1
  /\ UNCHANGED <<limit, turn, called, cut>>

(* Mutant: the tool is called although nobody took its Action.             *)
ActionUnsent ==
  /\ pc = "action"
  /\ Sending(Step("action")) \/ (client = "gone" /\ UNCHANGED <<sent, unread>>)
  /\ pc' = "tool"
  /\ UNCHANGED <<limit, turn, response, trace, client, outcome, called, cut>>

Action ==
  /\ pc = "action"
  /\ \/ SendFails
     \/ /\ Sending(Step("action"))
        /\ pc' = "tool"
        /\ UNCHANGED <<response, client, outcome>>
  /\ UNCHANGED <<limit, turn, trace, called, cut>>

CallTool ==
  /\ pc = "tool"
  /\ called' = called \cup {turn}
  /\ trace' = Append(trace, Step("observation"))
  /\ pc' = "observation"
  /\ UNCHANGED <<limit, turn, response, sent, unread, client, outcome, cut>>

(* Mutant: the Observation goes out twice.                                 *)
ObservationTwice ==
  /\ pc = "observation"
  /\ \/ SendFails /\ UNCHANGED turn
     \/ /\ client # "gone"
        /\ unread < Capacity
        /\ sent' = sent \o <<Step("observation"), Step("observation")>>
        /\ unread' = unread + 2
        /\ NextTurn
        /\ UNCHANGED <<response, client, outcome>>
  /\ UNCHANGED <<limit, trace, called, cut>>

Observation ==
  /\ pc = "observation"
  /\ \/ SendFails /\ UNCHANGED turn
     \/ /\ Sending(Step("observation"))
        /\ NextTurn
        /\ UNCHANGED <<response, client, outcome>>
  /\ UNCHANGED <<limit, trace, called, cut>>

Finished ==
  /\ pc = "finish"
  /\ \/ SendFails
     \/ /\ client # "gone"
        /\ unread < Capacity
        /\ sent' = Append(sent, Step("finished"))
        /\ pc' = "returned"
        /\ outcome' = "ok"
        /\ client' = "reading"
        /\ unread' = unread + 1
        /\ UNCHANGED response
  /\ UNCHANGED <<limit, turn, trace, called, cut>>

(* The iterations are used up: an Error event, which nobody may be there   *)
(* to take and the trace does not have.                                    *)
Exhausted ==
  /\ pc = "exhausted"
  /\ \/ /\ client = "gone"
        /\ UNCHANGED sent
     \/ /\ client # "gone"
        /\ unread < Capacity
        /\ sent' = Append(sent, [kind |-> "error", turn |-> limit - 1])
  /\ pc' = "returned"
  /\ outcome' = "max_iterations"
  /\ client' = IF client = "later" THEN "gone" ELSE client
  /\ unread' = IF client' = "gone" THEN 0 ELSE unread + 1
  /\ UNCHANGED <<limit, turn, response, trace, called, cut>>

(* run_with_guard drops the loop at the await it is at.                    *)
Timeout ==
  /\ pc # "returned"
  /\ Return("timeout")
  /\ UNCHANGED <<limit, turn, trace, sent, called, cut>>

--------------------------------------------------------------------------------
(* The client.                                                             *)

Read ==
  /\ client = "reading"
  /\ unread > 0
  /\ unread' = unread - 1
  /\ UNCHANGED <<limit, pc, turn, response, trace, sent, client, outcome, called, cut>>

Disconnect ==
  /\ client = "reading"
  /\ client' = "gone"
  /\ unread' = 0
  /\ UNCHANGED <<limit, pc, turn, response, trace, sent, outcome, called, cut>>

LoopStep ==
  \/ Chunk \/ StreamEnds \/ ModelFails \/ Thought \/ ThoughtPanics \/ Action
  \/ CallTool \/ Observation \/ Finished \/ Exhausted

(* The client has nothing left to read.                                    *)
Over == pc = "returned" /\ unread = 0 /\ UNCHANGED vars

Next == LoopStep \/ Timeout \/ Read \/ Disconnect \/ Over

Spec == Init /\ [][Next]_vars

(* The model and the tools answer, and a client that is there reads.  The  *)
(* wall clock may never run out.                                           *)
FairSpec == Spec /\ WF_vars(LoopStep) /\ WF_vars(Read)

--------------------------------------------------------------------------------
(* The client is told what was done, in order: what went out is the trace, *)
(* but for the step under way, and the Error that, last, ends a run out of *)
(* iterations; a run that ends well has sent all of it.                    *)
SentIsTrace ==
  LET told == IF sent # <<>> /\ Last(sent).kind = "error" THEN Front(sent) ELSE sent IN
  /\ IsPrefix(told, trace)
  /\ Len(trace) <= Len(told) + 1
  /\ outcome = "ok" => told = trace /\ Last(trace).kind = "finished"
  /\ outcome = "max_iterations" => told = trace

(* A tool is called only after its client was told, and a response that    *)
(* was cut short because the client had gone is never acted on: it neither *)
(* calls a tool nor answers.                                               *)
DisconnectStops ==
  /\ \A k \in called : Contains(sent, [kind |-> "action", turn |-> k])
  /\ cut => turn \notin called /\ outcome # "ok"

(* A call is complete with its parenthesis (more was said than its name):  *)
(* whatever the model goes on to say, but for a first THOUGHT: after it,   *)
(* does not change it, although the parser starts over with every length;  *)
(* but it may make the parser panic.                                       *)
CallIsStable ==
  [][LET before == ParseNextAction(response) IN
     /\ Len(response') > Len(response)
     /\ before.kind = "act" /\ ~IsSuffix(before.tool, response)
     /\ Contains(response, "thought") \/ Last(response') # "thought"
     => ParseNextAction(response') \in {before, Panicked}]_vars

(* Three events a turn and one at the end.                                 *)
AllFits == limit <= (Capacity - 1) \div 3

(* A channel that holds all of a run's events never makes the loop wait    *)
(* for a receiver nobody reads from: lib.rs hands it out after the loop.   *)
EventsFit ==
  /\ client = "later" /\ AllFits
  /\ pc \in {"thought", "action", "observation", "finish", "exhausted"}
  => unread < Capacity

(* However small the channel, a run whose client reads or goes away        *)
(* returns, and so does one that nobody reads from if its events fit.      *)
StreamedRunsReturn ==
  (client # "later" \/ AllFits) ~> (pc = "returned")
================================================================================
