---------------------------- MODULE ReactStreamProofs ----------------------------
(***************************************************************************)
(* Theorems about ReactStream, for any responses, iterations and channel.  *)
(***************************************************************************)
EXTENDS ReactStream, FoldLemmas, TLAPS

USE DEF Step

--------------------------------------------------------------------------------
(* The inductive invariant.                                                *)

Places == {"model", "thought", "action", "tool", "observation", "finish", "exhausted", "returned"}

Events == [kind : {"thought", "action", "observation", "finished", "error"}, turn : Nat]

StreamType ==
  /\ limit \in Nat \ {0}
  /\ pc \in Places
  /\ turn \in Nat
  /\ sent \in Seq(Events)
  /\ unread \in Nat
  /\ client \in {"later", "reading", "gone"}
  /\ called \subseteq Nat
  /\ cut \in BOOLEAN
  /\ pc # "returned" => outcome = "none"

(* The tool of this turn is called once its Action is out.                 *)
CallsAreTold ==
  /\ \A k \in called \cup (IF pc = "tool" THEN {turn} ELSE {}) :
       Contains(sent, [kind |-> "action", turn |-> k])
  /\ \A k \in called : k < turn \/ (k = turn /\ pc \in {"observation", "returned"})

(* Whoever cuts a response short has gone, and the loop with it.           *)
CutIsOver ==
  cut => /\ client = "gone"
         /\ pc \in {"thought", "returned"}
         /\ turn \notin called
         /\ outcome # "ok"

(* The events of this turn that are out.                                   *)
Phase ==
  IF pc \in {"action", "finish"} THEN 1
  ELSE IF pc \in {"tool", "observation"} THEN 2 ELSE 0

(* What nobody reads is three events a turn at most.                       *)
UnreadIsCounted ==
  /\ pc # "returned" => turn <= limit - (IF pc = "exhausted" THEN 0 ELSE 1)
  /\ client = "later" /\ pc # "returned" => unread <= 3 * turn + Phase

StreamInv == StreamType /\ CallsAreTold /\ CutIsOver /\ UnreadIsCounted

--------------------------------------------------------------------------------
(* Sequences that grow keep what they have.                                *)
LEMMA AppendContains ==
  ASSUME NEW s \in Seq(Events), NEW e \in Events
  PROVE  /\ Append(s, e) \in Seq(Events)
         /\ Contains(Append(s, e), e)
         /\ \A x : Contains(s, x) => Contains(Append(s, e), x)
<1> HIDE DEF Events
<1> DEFINE t == Append(s, e)
<1>1. t \in Seq(Events) /\ Len(t) = Len(s) + 1 /\ Len(s) \in Nat
  OBVIOUS
<1>2. t[Len(s) + 1] = e
  OBVIOUS
<1>3. \A k \in 1..Len(s) : t[k] = s[k]
  OBVIOUS
<1> HIDE DEF t
<1>4. Contains(t, e)
  BY <1>1, <1>2 DEF Contains
<1>5. \A x : Contains(s, x) => Contains(t, x)
  BY <1>1, <1>3 DEF Contains
<1> QED
  BY <1>1, <1>4, <1>5 DEF t

(* A run that begins has sent, called and left unread nothing.             *)
LEMMA StreamInit ==
  Init => StreamInv
<1> SUFFICES ASSUME Init PROVE StreamInv
  OBVIOUS
<1>1. limit \in Nat \ {0}
  BY StreamAssumption DEF Init
<1>2. sent \in Seq(Events)
  BY DEF Init
<1>3. StreamType
  BY <1>1, <1>2 DEF Init, StreamType, Places
<1>4. CallsAreTold /\ CutIsOver
  BY DEF Init, CallsAreTold, CutIsOver
<1>5. UnreadIsCounted
  BY <1>1 DEF Init, UnreadIsCounted, Phase
<1> QED
  BY <1>3, <1>4, <1>5 DEF StreamInv

(* The loop returns, and does not answer if its response was cut short.    *)
LEMMA ReturnKeeps ==
  ASSUME StreamInv, NEW result, Return(result), result # "ok",
         UNCHANGED <<limit, turn, sent, called, cut>>,
         \A k \in called : k < turn \/ k = turn
  PROVE  StreamInv'
<1> USE DEF StreamInv
<1>1. StreamType'
  BY DEF Return, StreamType, Places
<1>2. CallsAreTold'
  BY DEF Return, CallsAreTold
<1>3. CutIsOver'
  BY DEF Return, CutIsOver, StreamType
<1>4. UnreadIsCounted'
  BY DEF Return, UnreadIsCounted
<1> QED
  BY <1>1, <1>2, <1>3, <1>4

(* An event goes out to a channel that somebody holds.                     *)
LEMMA SendingKeeps ==
  ASSUME StreamInv, NEW event \in Events, Sending(event)
  PROVE  /\ sent' \in Seq(Events)
         /\ unread' = unread + 1
         /\ Contains(sent', event)
         /\ \A x : Contains(sent, x) => Contains(sent', x)
         /\ ~cut
<1>1. sent \in Seq(Events) /\ sent' = Append(sent, event)
  BY DEF Sending, StreamInv, StreamType
<1>2. ~cut
  BY DEF Sending, StreamInv, CutIsOver
<1> QED
  BY <1>1, <1>2, AppendContains DEF Sending

(* What a step of the trace is told as is an event.                        *)
LEMMA StepIsEvent ==
  ASSUME StreamInv, NEW kind \in {"thought", "action", "observation", "finished", "error"}
  PROVE  Step(kind) \in Events
BY DEF StreamInv, StreamType, Events

--------------------------------------------------------------------------------
(* Each step of the loop keeps it.                                         *)

(* The model's call sends nothing, and a cut response is over.             *)
LEMMA ModelKeeps ==
  ASSUME StreamInv, Chunk \/ StreamEnds \/ ModelFails
  PROVE  StreamInv'
<1> USE DEF StreamInv
<1>1. CASE Chunk \/ StreamEnds
  <2>1. StreamType'
    BY <1>1 DEF Chunk, StreamEnds, StreamType, Places
  <2>2. CallsAreTold'
    BY <1>1 DEF Chunk, StreamEnds, CallsAreTold
  <2>3. CutIsOver'
    <3>1. turn \notin called
      BY <1>1 DEF Chunk, StreamEnds, CallsAreTold, StreamType
    <3>2. ~cut
      BY <1>1 DEF Chunk, StreamEnds, CutIsOver
    <3>3. CASE client = "gone"
      <4>1. client' = "gone" /\ pc' = "thought" /\ called' = called /\ turn' = turn /\ outcome' = outcome
        BY <1>1, <3>3 DEF Chunk, StreamEnds
      <4>2. outcome # "ok"
        BY <1>1 DEF Chunk, StreamEnds, StreamType
      <4> QED
        BY <3>1, <4>1, <4>2 DEF CutIsOver
    <3>4. CASE client # "gone"
      <4>1. cut' = cut
        BY <1>1, <3>4 DEF Chunk, StreamEnds
      <4> QED
        BY <3>2, <4>1 DEF CutIsOver
    <3> QED
      BY <3>3, <3>4
  <2>4. UnreadIsCounted'
    BY <1>1 DEF Chunk, StreamEnds, UnreadIsCounted, Phase
  <2> QED
    BY <2>1, <2>2, <2>3, <2>4
<1>2. CASE ModelFails
  BY <1>2, ReturnKeeps DEF ModelFails, CallsAreTold
<1> QED
  BY <1>1, <1>2

(* The wall clock drops the loop: nothing more is sent.                    *)
LEMMA TimeoutKeeps ==
  ASSUME StreamInv, Timeout
  PROVE  StreamInv'
BY ReturnKeeps DEF Timeout, StreamInv, CallsAreTold

(* The thought is the first event of its turn.                             *)
LEMMA ThoughtKeeps ==
  ASSUME StreamInv, Thought
  PROVE  StreamInv'
<1> USE DEF StreamInv
<1>1. CASE SendFails /\ UNCHANGED turn
  BY <1>1, ReturnKeeps DEF Thought, SendFails, CallsAreTold
<1>2. CASE Sending(Step("thought"))
  <2>1. /\ UNCHANGED <<limit, client, outcome, called, cut>> /\ pc = "thought"
        /\ \/ pc' \in {"finish", "action"} /\ turn' = turn
           \/ turn' = turn + 1 /\ pc' = IF turn + 1 < limit THEN "model" ELSE "exhausted"
    BY <1>2 DEF Thought, NextTurn, SendFails, Sending
  <2>2. /\ sent' \in Seq(Events) /\ unread' = unread + 1 /\ ~cut
        /\ \A x : Contains(sent, x) => Contains(sent', x)
    BY <1>2, StepIsEvent, SendingKeeps
  <2>3. StreamType'
    BY <2>1, <2>2 DEF StreamType, Places
  <2>4. CallsAreTold' /\ CutIsOver'
    BY <2>1, <2>2 DEF CallsAreTold, CutIsOver, StreamType
  <2>5. UnreadIsCounted'
    BY <2>1, <2>2 DEF UnreadIsCounted, Phase, StreamType
  <2> QED
    BY <2>3, <2>4, <2>5
<1> QED
  BY <1>1, <1>2 DEF Thought

(* A loop that unwinds has sent the thought it unwound at.                 *)
LEMMA PanicKeeps ==
  ASSUME StreamInv, ThoughtPanics
  PROVE  StreamInv'
<1> USE DEF StreamInv
<1>1. /\ UNCHANGED <<limit, turn, called, cut>> /\ pc = "thought" /\ pc' = "returned"
      /\ outcome' = "panicked"
      /\ client # "gone" /\ client' \in {"reading", "gone"} /\ unread' \in Nat
  BY DEF ThoughtPanics, StreamType
<1>2. /\ sent' \in Seq(Events)
      /\ \A x : Contains(sent, x) => Contains(sent', x)
  <2>1. Step("thought") \in Events /\ sent' = Append(sent, Step("thought"))
    BY StepIsEvent DEF ThoughtPanics
  <2> HIDE DEF Events
  <2> QED
    BY <2>1, AppendContains DEF StreamType
<1>3. StreamType'
  BY <1>1, <1>2 DEF StreamType, Places
<1>4. CallsAreTold' /\ CutIsOver' /\ UnreadIsCounted'
  BY <1>1, <1>2 DEF CallsAreTold, CutIsOver, UnreadIsCounted, StreamType
<1> QED
  BY <1>3, <1>4

(* The action is told, and its tool is what is called next.                *)
LEMMA ActionKeeps ==
  ASSUME StreamInv, Action
  PROVE  StreamInv'
<1> USE DEF StreamInv
<1>1. CASE SendFails
  BY <1>1, ReturnKeeps DEF Action, SendFails, CallsAreTold
<1>2. CASE Sending(Step("action"))
  <2>1. UNCHANGED <<limit, turn, client, outcome, called, cut>> /\ pc = "action" /\ pc' = "tool"
    BY <1>2 DEF Action, SendFails, Sending
  <2>2. /\ sent' \in Seq(Events) /\ unread' = unread + 1 /\ ~cut
        /\ Contains(sent', Step("action"))
        /\ \A x : Contains(sent, x) => Contains(sent', x)
    BY <1>2, StepIsEvent, SendingKeeps
  <2>3. StreamType'
    BY <2>1, <2>2 DEF StreamType, Places
  <2>4. CallsAreTold' /\ CutIsOver'
    BY <2>1, <2>2 DEF CallsAreTold, CutIsOver, StreamType
  <2>5. UnreadIsCounted'
    BY <2>1, <2>2 DEF UnreadIsCounted, Phase, StreamType
  <2> QED
    BY <2>3, <2>4, <2>5
<1> QED
  BY <1>1, <1>2 DEF Action

(* A tool that is called was told of.                                      *)
LEMMA CallToolKeeps ==
  ASSUME StreamInv, CallTool
  PROVE  StreamInv'
<1> USE DEF StreamInv, CallTool
<1>1. StreamType'
  BY DEF StreamType, Places
<1>2. CallsAreTold'
  BY DEF CallsAreTold
<1>3. CutIsOver' /\ UnreadIsCounted'
  BY DEF CutIsOver, UnreadIsCounted, Phase
<1> QED
  BY <1>1, <1>2, <1>3

(* The observation is the third and last event of a turn that acts.        *)
LEMMA ObservationKeeps ==
  ASSUME StreamInv, Observation
  PROVE  StreamInv'
<1> USE DEF StreamInv
<1>1. CASE SendFails /\ UNCHANGED turn
  BY <1>1, ReturnKeeps DEF Observation, SendFails, CallsAreTold
<1>2. CASE Sending(Step("observation"))
  <2>1. /\ UNCHANGED <<limit, client, outcome, called, cut>> /\ pc = "observation"
        /\ turn' = turn + 1 /\ pc' = IF turn + 1 < limit THEN "model" ELSE "exhausted"
    BY <1>2 DEF Observation, NextTurn, SendFails, Sending
  <2>2. /\ sent' \in Seq(Events) /\ unread' = unread + 1 /\ ~cut
        /\ \A x : Contains(sent, x) => Contains(sent', x)
    BY <1>2, StepIsEvent, SendingKeeps
  <2>3. StreamType'
    BY <2>1, <2>2 DEF StreamType, Places
  <2>4. CallsAreTold' /\ CutIsOver'
    BY <2>1, <2>2 DEF CallsAreTold, CutIsOver, StreamType
  <2>5. UnreadIsCounted'
    BY <2>1, <2>2 DEF UnreadIsCounted, Phase, StreamType
  <2> QED
    BY <2>3, <2>4, <2>5
<1> QED
  BY <1>1, <1>2 DEF Observation

(* The answer is the second event of its turn, and ends the run.           *)
LEMMA FinishedKeeps ==
  ASSUME StreamInv, Finished
  PROVE  StreamInv'
<1> USE DEF StreamInv
<1>1. CASE SendFails
  BY <1>1, ReturnKeeps DEF Finished, SendFails, CallsAreTold
<1>2. CASE ~SendFails
  <2>1. /\ UNCHANGED <<limit, turn, called, cut>> /\ pc = "finish" /\ pc' = "returned"
        /\ client' = "reading" /\ Sending(Step("finished"))
    BY <1>2 DEF Finished, Sending
  <2>2. /\ sent' \in Seq(Events) /\ unread' = unread + 1 /\ ~cut
        /\ \A x : Contains(sent, x) => Contains(sent', x)
    BY <2>1, StepIsEvent, SendingKeeps
  <2>3. StreamType'
    BY <2>1, <2>2 DEF StreamType, Places
  <2>4. CallsAreTold' /\ CutIsOver' /\ UnreadIsCounted'
    BY <2>1, <2>2 DEF CallsAreTold, CutIsOver, UnreadIsCounted, StreamType
  <2> QED
    BY <2>3, <2>4
<1> QED
  BY <1>1, <1>2

(* The error that the iterations are used up comes after all turns.        *)
LEMMA ExhaustedKeeps ==
  ASSUME StreamInv, Exhausted
  PROVE  StreamInv'
<1> USE DEF StreamInv
<1> DEFINE error == [kind |-> "error", turn |-> limit - 1]
<1>1. UNCHANGED <<limit, turn, called, cut>> /\ pc = "exhausted" /\ pc' = "returned"
      /\ client' \in {"reading", "gone"} /\ unread' \in Nat /\ outcome' = "max_iterations"
      /\ (client = "gone" => client' = "gone")
  BY DEF Exhausted, StreamType
<1>2. /\ sent' \in Seq(Events)
      /\ \A x : Contains(sent, x) => Contains(sent', x)
  <2>1. error \in Events
    BY DEF StreamType, Events
  <2>2. sent' = sent \/ sent' = Append(sent, error)
    BY DEF Exhausted
  <2> QED
    <3> HIDE DEF error, Events
    <3>1. CASE sent' = sent
      BY <3>1 DEF StreamType
    <3>2. CASE sent' = Append(sent, error)
      BY <2>1, <3>2, AppendContains DEF StreamType
    <3> QED
      BY <2>2, <3>1, <3>2
<1>3. StreamType'
  BY <1>1, <1>2 DEF StreamType, Places
<1>4. CallsAreTold' /\ CutIsOver' /\ UnreadIsCounted'
  BY <1>1, <1>2 DEF CallsAreTold, CutIsOver, UnreadIsCounted, StreamType
<1> QED
  BY <1>3, <1>4

(* A client that reads takes one event off, and one that goes away all.    *)
LEMMA ClientKeeps ==
  ASSUME StreamInv, Read \/ Disconnect
  PROVE  StreamInv'
<1> USE DEF StreamInv, Read, Disconnect
<1>1. StreamType'
  <2>1. CASE Read
    BY <2>1 DEF StreamType
  <2>2. CASE Disconnect
    BY <2>2 DEF StreamType
  <2> QED
    BY <2>1, <2>2
<1>2. CallsAreTold' /\ CutIsOver' /\ UnreadIsCounted'
  BY DEF CallsAreTold, CutIsOver, UnreadIsCounted
<1> QED
  BY <1>1, <1>2

(* The inductive invariant of a streamed run.                              *)
THEOREM StreamInvariant == Spec => []StreamInv
<1>1. StreamInv /\ [Next]_vars => StreamInv'
  <2> SUFFICES ASSUME StreamInv, [Next]_vars PROVE StreamInv'
    OBVIOUS
  <2>1. CASE UNCHANGED vars
    BY <2>1 DEF vars, StreamInv, StreamType, CallsAreTold, CutIsOver, UnreadIsCounted, Phase
  <2>2. CASE LoopStep
    BY <2>2, ModelKeeps, ThoughtKeeps, PanicKeeps, ActionKeeps, CallToolKeeps, ObservationKeeps, FinishedKeeps,
       ExhaustedKeeps DEF LoopStep
  <2> QED
    BY <2>1, <2>2, TimeoutKeeps, ClientKeeps DEF Next, Over
<1> QED
  BY <1>1, StreamInit, PTL DEF Spec

(* No tool is called that the client was not told of, and a response that  *)
(* was cut short because the client had gone is neither acted on nor       *)
(* answered (llm.rs:238, loop.rs:253).                                     *)
THEOREM DisconnectStopsHolds == Spec => []DisconnectStops
<1>1. StreamInv => DisconnectStops
  BY DEF StreamInv, CallsAreTold, CutIsOver, DisconnectStops
<1> QED
  BY <1>1, StreamInvariant, PTL

(* A channel that holds three events a turn and one more never makes the   *)
(* loop wait for a receiver that is handed out after it (lib.rs).          *)
THEOREM EventsFitHolds == Spec => []EventsFit
<1>1. ASSUME StreamInv, client = "later", AllFits,
             pc \in {"thought", "action", "observation", "finish", "exhausted"}
      PROVE  unread < Capacity
  <2>1. 3 * limit <= Capacity - 1
    <3>1. Capacity - 1 \in Nat /\ limit \in Nat /\ limit <= (Capacity - 1) \div 3
      BY <1>1, StreamAssumption DEF StreamInv, StreamType, AllFits
    <3>2. \A n \in Nat : 3 * (n \div 3) <= n
      OBVIOUS
    <3>3. (Capacity - 1) \div 3 \in Int
      BY <3>1
    <3> QED
      BY <3>1, <3>2, <3>3
  <2> QED
    BY <1>1, <2>1, StreamAssumption DEF StreamInv, StreamType, UnreadIsCounted, Phase
<1>2. StreamInv => EventsFit
  BY <1>1 DEF EventsFit
<1> QED
  BY <1>2, StreamInvariant, PTL

--------------------------------------------------------------------------------
(* What is told is what was done.                                          *)

Steps == [kind : {"thought", "action", "observation", "finished"}, turn : Nat]

(* What the trace has that the client was not sent, and the other way      *)
(* round.  A run that returned by any other way than these two has sent    *)
(* the trace or all of it but its last step.                               *)
StepsOut ==
  /\ trace \in Seq(Steps)
  /\ pc \in {"model", "thought", "tool", "exhausted"} => sent = trace
  /\ pc = "action" => trace = Append(sent, Step("action"))
  /\ pc = "observation" => trace = Append(sent, Step("observation"))
  /\ pc = "finish" => trace = Append(sent, Step("finished"))
  /\ pc = "returned" =>
       \/ sent = trace /\ (outcome = "ok" => trace # <<>> /\ Last(trace).kind = "finished")
       \/ outcome \notin {"ok", "max_iterations"} /\ \E step \in Steps : trace = Append(sent, step)
       \/ outcome = "max_iterations" /\ \E e \in Events : e.kind = "error" /\ sent = Append(trace, e)

(* Two steps at once are one after the other.                              *)
LEMMA TwoAppended ==
  ASSUME NEW S, NEW s \in Seq(S), NEW a \in S, NEW b \in S
  PROVE  /\ s \o <<a, b>> = Append(Append(s, a), b)
         /\ Append(s, a) \in Seq(S)
         /\ s \o <<a, b>> \in Seq(S)
OBVIOUS

(* What follows from an appended element for the sequence and its end.     *)
LEMMA AppendedEnd ==
  ASSUME NEW S, NEW s \in Seq(S), NEW e \in S
  PROVE  /\ Append(s, e) \in Seq(S)
         /\ Append(s, e) # <<>>
         /\ Last(Append(s, e)) = e
         /\ Front(Append(s, e)) = s
         /\ Len(Append(s, e)) = Len(s) + 1
         /\ Len(s) \in Nat
         /\ IsPrefix(s, Append(s, e))
         /\ IsPrefix(s, s)
BY DEF Last, Front, IsPrefix

(* The elements of a part are those of the whole.                          *)
LEMMA AppendedPart ==
  ASSUME NEW S, NEW T, NEW s \in Seq(S), NEW e, NEW t \in Seq(T), t = Append(s, e)
  PROVE  s \in Seq(T)
<1>1. Len(s) \in Nat /\ Len(t) = Len(s) + 1 /\ \A k \in 1..Len(s) : s[k] = t[k] /\ t[k] \in T
  OBVIOUS
<1>2. s = [k \in 1..Len(s) |-> s[k]]
  OBVIOUS
<1> QED
  BY <1>1, <1>2

(* The loop goes on only until it returns without an answer.               *)
LEMMA ReturnKeepsSteps ==
  ASSUME StreamInv, StepsOut, NEW result, Return(result),
         result \notin {"ok", "max_iterations"}, pc # "returned", UNCHANGED <<trace, sent>>
  PROVE  StepsOut'
<1>1. pc' = "returned" /\ outcome' = result /\ trace' = trace /\ sent' = sent
  BY DEF Return
<1>2. sent = trace \/ \E step \in Steps : trace = Append(sent, step)
  <2>1. Step("action") \in Steps /\ Step("observation") \in Steps /\ Step("finished") \in Steps
    BY DEF StreamInv, StreamType, Steps
  <2>2. pc \in Places
    BY DEF StreamInv, StreamType
  <2> QED
    BY <2>1, <2>2 DEF StepsOut, Places
<1>3. trace \in Seq(Steps)
  BY DEF StepsOut
<1> QED
  BY <1>1, <1>2, <1>3 DEF StepsOut

(* Each step of the loop keeps it.                                         *)
LEMMA LoopKeepsSteps ==
  ASSUME StreamInv, StepsOut, LoopStep
  PROVE  StepsOut'
<1>1. \A kind \in {"thought", "action", "observation", "finished"} : Step(kind) \in Steps
  BY DEF StreamInv, StreamType, Steps
<1>2. trace \in Seq(Steps)
  BY DEF StepsOut
<1>3. CASE Chunk \/ StreamEnds
  <2>1. pc = "model" /\ pc' \in {"model", "thought"} /\ trace' = trace /\ sent' = sent
    BY <1>3 DEF Chunk, StreamEnds
  <2> QED
    BY <2>1 DEF StepsOut
<1>4. CASE ModelFails
  BY <1>4, ReturnKeepsSteps DEF ModelFails
<1>5. CASE Thought
  <2>1. pc = "thought" /\ sent = trace
    BY <1>5 DEF Thought, StepsOut
  <2>2. CASE SendFails /\ UNCHANGED <<turn, trace>>
    BY <1>5, <2>1, <2>2, ReturnKeepsSteps DEF SendFails
  <2>3. CASE ~(SendFails /\ UNCHANGED <<turn, trace>>)
    <3>1. /\ sent' = Append(sent, Step("thought"))
          /\ \/ /\ trace' = trace \o <<Step("thought"), Step("finished")>>
                /\ pc' = "finish" /\ turn' = turn
             \/ /\ trace' = trace \o <<Step("thought"), Step("action")>>
                /\ pc' = "action" /\ turn' = turn
             \/ /\ trace' = Append(trace, Step("thought"))
                /\ pc' \in {"model", "exhausted"}
      BY <1>5, <2>3 DEF Thought, Sending, NextTurn
    <3>2. /\ trace \o <<Step("thought"), Step("finished")>> = Append(Append(trace, Step("thought")), Step("finished"))
          /\ trace \o <<Step("thought"), Step("finished")>> \in Seq(Steps)
          /\ trace \o <<Step("thought"), Step("action")>> = Append(Append(trace, Step("thought")), Step("action"))
          /\ trace \o <<Step("thought"), Step("action")>> \in Seq(Steps)
          /\ Append(trace, Step("thought")) \in Seq(Steps)
      BY <1>1, <1>2, TwoAppended
    <3> QED
      BY <2>1, <3>1, <3>2 DEF StepsOut
  <2> QED
    BY <2>2, <2>3
<1>6. CASE Action
  <2>1. pc = "action" /\ trace' = trace /\ turn' = turn
    BY <1>6 DEF Action
  <2>2. CASE SendFails
    BY <2>1, <2>2, ReturnKeepsSteps DEF SendFails
  <2>3. CASE ~SendFails
    BY <1>2, <1>6, <2>1, <2>3 DEF Action, Sending, StepsOut
  <2> QED
    BY <2>2, <2>3
<1>7. CASE CallTool
  <2>1. pc = "tool" /\ pc' = "observation" /\ trace' = Append(trace, Step("observation"))
        /\ sent' = sent /\ turn' = turn
    BY <1>7 DEF CallTool
  <2>2. trace' \in Seq(Steps)
    BY <1>1, <1>2, <2>1
  <2> QED
    BY <2>1, <2>2 DEF StepsOut
<1>8. CASE Observation
  <2>1. pc = "observation" /\ trace' = trace
    BY <1>8 DEF Observation
  <2>2. CASE SendFails
    BY <2>1, <2>2, ReturnKeepsSteps DEF SendFails
  <2>3. CASE ~SendFails
    <3>1. sent' = trace /\ pc' \in {"model", "exhausted"}
      BY <1>8, <2>1, <2>3 DEF Observation, Sending, NextTurn, StepsOut
    <3> QED
      BY <1>2, <2>1, <3>1 DEF StepsOut
  <2> QED
    BY <2>2, <2>3
<1>9. CASE Finished
  <2>1. pc = "finish" /\ trace' = trace /\ trace = Append(sent, Step("finished"))
    BY <1>9 DEF Finished, StepsOut
  <2>2. CASE SendFails
    BY <2>1, <2>2, ReturnKeepsSteps DEF SendFails
  <2>3. CASE ~SendFails
    <3>1. sent' = trace /\ pc' = "returned" /\ outcome' = "ok"
      BY <1>9, <2>1, <2>3 DEF Finished
    <3>2. sent \in Seq(Events) /\ Step("finished") \in Events
      BY StepIsEvent DEF StreamInv, StreamType
    <3>3. trace # <<>> /\ Last(trace) = Step("finished")
      <4> HIDE DEF Events
      <4> QED
        BY <2>1, <3>2, AppendedEnd
    <3> QED
      BY <1>2, <2>1, <3>1, <3>3 DEF StepsOut
  <2> QED
    BY <2>2, <2>3
<1>10. CASE Exhausted
  <2>1. pc = "exhausted" /\ pc' = "returned" /\ outcome' = "max_iterations" /\ trace' = trace
        /\ (sent' = sent \/ sent' = Append(sent, [kind |-> "error", turn |-> limit - 1]))
    BY <1>10 DEF Exhausted
  <2>2. [kind |-> "error", turn |-> limit - 1] \in Events
    BY DEF StreamInv, StreamType, Events
  <2>3. sent = trace
    BY <2>1 DEF StepsOut
  <2>4. sent' = trace' \/ \E e \in Events : e.kind = "error" /\ sent' = Append(trace', e)
    BY <2>1, <2>2, <2>3
  <2> QED
    BY <1>2, <2>1, <2>4 DEF StepsOut
<1>11. CASE ThoughtPanics
  <2>1. /\ pc = "thought" /\ pc' = "returned" /\ outcome' = "panicked" /\ sent = trace
        /\ sent' = Append(sent, Step("thought")) /\ trace' = Append(trace, Step("thought"))
    BY <1>11 DEF ThoughtPanics, StepsOut
  <2>2. trace' \in Seq(Steps)
    BY <1>1, <1>2, <2>1
  <2> QED
    BY <2>1, <2>2 DEF StepsOut
<1> QED
  BY <1>3, <1>4, <1>5, <1>6, <1>7, <1>8, <1>9, <1>10, <1>11 DEF LoopStep

(* The client is told what was done, in order: what went out is the trace, *)
(* but for the step under way and the Error that ends a run out of         *)
(* iterations; a run that ends well has sent all of it (loop.rs).          *)
THEOREM SentIsTraceHolds == Spec => []SentIsTrace
<1>1. Init => StepsOut
  BY DEF Init, StepsOut
<1>2. StreamInv /\ StepsOut /\ [Next]_vars => StepsOut'
  <2> SUFFICES ASSUME StreamInv, StepsOut, [Next]_vars PROVE StepsOut'
    OBVIOUS
  <2>1. CASE LoopStep
    BY <2>1, LoopKeepsSteps
  <2>2. CASE Timeout
    BY <2>2, ReturnKeepsSteps DEF Timeout
  <2>3. CASE UNCHANGED <<pc, turn, trace, sent, outcome>>
    BY <2>3 DEF StepsOut
  <2> QED
    BY <2>1, <2>2, <2>3 DEF Next, Over, Read, Disconnect, vars
<1>3. StreamInv /\ StepsOut => SentIsTrace
  <2> SUFFICES ASSUME StreamInv, StepsOut PROVE SentIsTrace
    OBVIOUS
  <2> DEFINE told == IF sent # <<>> /\ Last(sent).kind = "error" THEN Front(sent) ELSE sent
  <2>1. /\ trace \in Seq(Steps) /\ sent \in Seq(Events) /\ Len(trace) \in Nat
        /\ pc # "returned" => outcome = "none"
        /\ pc \in Places
    BY DEF StepsOut, StreamInv, StreamType
  <2>2. ASSUME NEW done \in Seq(Steps), done # <<>>
        PROVE  Last(done).kind # "error"
    <3>1. Last(done) \in Steps
      <4> HIDE DEF Steps
      <4> QED
        BY <2>2, Len(done) > 0 DEF Last
    <3> QED
      BY <3>1 DEF Steps
  <2>3. CASE sent = trace
    <3>1. told = trace
      BY <2>1, <2>2, <2>3
    <3>2. IsPrefix(trace, trace)
      BY <2>1 DEF IsPrefix
    <3>3. outcome = "ok" => Last(trace).kind = "finished"
      BY <2>1 DEF StepsOut
    <3> QED
      BY <2>1, <3>1, <3>2, <3>3 DEF SentIsTrace
  <2>4. ASSUME NEW step \in Steps, trace = Append(sent, step), outcome \notin {"ok", "max_iterations"}
        PROVE  SentIsTrace
    <3>1. sent \in Seq(Steps) /\ Len(trace) = Len(sent) + 1 /\ Len(sent) \in Nat /\ IsPrefix(sent, trace)
      BY <2>1, <2>4, AppendedPart, AppendedEnd
    <3>2. told = sent
      BY <2>2, <3>1
    <3> QED
      BY <2>4, <3>1, <3>2 DEF SentIsTrace
  <2>5. ASSUME NEW e \in Events, e.kind = "error", sent = Append(trace, e), outcome = "max_iterations"
        PROVE  SentIsTrace
    <3>1. trace \in Seq(Events)
      BY <2>1, <2>5, AppendedPart
    <3>2. sent # <<>> /\ Last(sent) = e /\ Front(sent) = trace /\ IsPrefix(trace, trace)
      BY <2>5, <3>1, AppendedEnd
    <3>3. told = trace
      BY <2>5, <3>2
    <3> QED
      BY <2>1, <2>5, <3>2, <3>3 DEF SentIsTrace
  <2>6. Step("action") \in Steps /\ Step("observation") \in Steps /\ Step("finished") \in Steps
    BY DEF StreamInv, StreamType, Steps
  <2>7. CASE pc = "returned"
    BY <2>3, <2>4, <2>5, <2>7 DEF StepsOut
  <2>8. CASE pc # "returned"
    BY <2>1, <2>3, <2>4, <2>6, <2>8 DEF StepsOut, Places
  <2> QED
    BY <2>7, <2>8
<1> QED
  BY <1>1, <1>2, <1>3, StreamInvariant, PTL DEF Spec

--------------------------------------------------------------------------------
(* A call, once complete, is stable.                                       *)

(* Where a unit is found, and that it is found nowhere else.               *)
LEMMA FindIs ==
  ASSUME NEW text \in Text, NEW unit
  PROVE  /\ Find(text, unit) \in 0..Len(text)
         /\ Find(text, unit) = 0 => \A i \in 1..Len(text) : text[i] # unit
         /\ Find(text, unit) # 0 => /\ text[Find(text, unit)] = unit
                                    /\ \A i \in 1..Len(text) : text[i] = unit => Find(text, unit) <= i
<1> DEFINE I == {i \in 1..Len(text) : text[i] = unit}
<1>1. Find(text, unit) = IF I # {} THEN Min(I) ELSE 0
  BY DEF Find, SelectInSeq
<1>2. Len(text) \in Nat /\ I \in SUBSET Nat
  BY DEF Text
<1>3. I # {} => Min(I) \in I /\ \A i \in I : Min(I) <= i
  <2> HIDE DEF I
  <2> QED
    BY <1>2, MinIsLeast
<1> QED
  BY <1>1, <1>2, <1>3

(* A text that grows finds what it has found where it found it.            *)
LEMMA FindAppended ==
  ASSUME NEW text \in Text, NEW more \in Unit, NEW unit
  PROVE  /\ Find(text, unit) # 0 => Find(Append(text, more), unit) = Find(text, unit)
         /\ Find(text, unit) = 0 => /\ Find(Append(text, more), unit) \in {0, Len(text) + 1}
                                    /\ more # unit => Find(Append(text, more), unit) = 0
<1> PICK grown : grown = Append(text, more)
  OBVIOUS
<1>1. /\ grown \in Text /\ Len(text) \in Nat /\ Len(grown) = Len(text) + 1
      /\ grown[Len(text) + 1] = more /\ \A i \in 1..Len(text) : grown[i] = text[i]
  BY DEF Text
<1>2. PICK f, g : f = Find(text, unit) /\ g = Find(grown, unit)
  OBVIOUS
<1>3. /\ f \in 0..Len(text)
      /\ f = 0 => \A i \in 1..Len(text) : text[i] # unit
      /\ f # 0 => text[f] = unit /\ \A i \in 1..Len(text) : text[i] = unit => f <= i
  BY <1>2, FindIs
<1>4. /\ g \in 0..Len(grown)
      /\ g = 0 => \A i \in 1..Len(grown) : grown[i] # unit
      /\ g # 0 => grown[g] = unit /\ \A i \in 1..Len(grown) : grown[i] = unit => g <= i
  BY <1>1, <1>2, FindIs
<1>5. f # 0 => g = f
  BY <1>1, <1>3, <1>4
<1>6. f = 0 => g \in {0, Len(text) + 1} /\ (more # unit => g = 0)
  BY <1>1, <1>3, <1>4
<1> QED
  BY <1>2, <1>5, <1>6

(* What an appended element does to a sequence.                            *)
LEMMA AppendedElements ==
  ASSUME NEW S, NEW s \in Seq(S), NEW e \in S, NEW n \in Nat, n = Len(s)
  PROVE  /\ Append(s, e) \in Seq(S) /\ Len(Append(s, e)) = n + 1
         /\ Append(s, e)[n + 1] = e /\ \A i \in 1..n : Append(s, e)[i] = s[i]
OBVIOUS

(* What is behind a place grows with the text.                             *)
LEMMA FromAppended ==
  ASSUME NEW text \in Text, NEW more \in Unit, NEW first \in 1..Len(text) + 1
  PROVE  /\ From(text, first) \in Text
         /\ Len(From(text, first)) = Len(text) - first + 1
         /\ From(Append(text, more), first) = Append(From(text, first), more)
<1> PICK S : S = Unit
  OBVIOUS
<1>1. text \in Seq(S) /\ more \in S /\ Len(text) \in Nat
  BY DEF Text
<1>2. PICK n, m \in Nat : n = Len(text) /\ m = n - first + 1
  BY <1>1
<1>3. PICK grown : grown = Append(text, more)
  OBVIOUS
<1>4. /\ grown \in Seq(S) /\ Len(grown) = n + 1
      /\ grown[n + 1] = more /\ \A i \in 1..n : grown[i] = text[i]
  BY <1>1, <1>2, <1>3, AppendedElements
<1>5. PICK rest : rest = SubSeq(text, first, n)
  OBVIOUS
<1>6. rest \in Seq(S) /\ Len(rest) = m /\ \A i \in 1..m : rest[i] = text[first + i - 1]
  BY <1>1, <1>2, <1>5
<1>7. PICK both : both = SubSeq(grown, first, n + 1)
  OBVIOUS
<1>8. both \in Seq(S) /\ Len(both) = m + 1 /\ \A i \in 1..m + 1 : both[i] = grown[first + i - 1]
  BY <1>2, <1>4, <1>7
<1>9. PICK longer : longer = Append(rest, more)
  OBVIOUS
<1>10. /\ longer \in Seq(S) /\ Len(longer) = m + 1
       /\ longer[m + 1] = more /\ \A i \in 1..m : longer[i] = rest[i]
  BY <1>1, <1>2, <1>6, <1>9, AppendedElements
<1>11. both = longer
  <2>1. first \in Int /\ first + (m + 1) - 1 = n + 1 /\ \A i \in 1..m : first + i - 1 \in 1..n
    BY <1>2
  <2>2. ASSUME NEW i \in 1..m PROVE both[i] = longer[i]
    BY <1>2, <1>4, <1>6, <1>8, <1>10, <2>1
  <2>3. both[m + 1] = longer[m + 1]
    BY <1>2, <1>4, <1>8, <1>10, <2>1
  <2>4. \A i \in 1..Len(both) : both[i] = longer[i]
    BY <1>2, <1>8, <2>2, <2>3
  <2> QED
    BY <1>8, <1>10, <2>4, SeqEqual
<1>12. From(text, first) = rest /\ From(grown, first) = both
  BY <1>2, <1>4, <1>5, <1>7 DEF From
<1> QED
  BY <1>2, <1>3, <1>6, <1>9, <1>11, <1>12 DEF Text

(* The elements of the end of a sequence.                                  *)
LEMMA PartIs ==
  ASSUME NEW S, NEW s \in Seq(S), NEW n \in Nat, n = Len(s), NEW a \in 1..n + 1, NEW m \in Nat, m = n - a + 1
  PROVE  /\ SubSeq(s, a, n) \in Seq(S) /\ Len(SubSeq(s, a, n)) = m
         /\ \A i \in 1..m : SubSeq(s, a, n)[i] = s[a + i - 1]
OBVIOUS

(* So is what is left of what is behind a place.                           *)
LEMMA FromTwice ==
  ASSUME NEW text \in Text, NEW first \in 1..Len(text) + 1,
         NEW second \in 1..Len(text) - first + 2
  PROVE  From(From(text, first), second) = From(text, first + second - 1)
<1> PICK S : S = Unit
  OBVIOUS
<1>1. text \in Seq(S) /\ Len(text) \in Nat
  BY DEF Text
<1>2. PICK n, m \in Nat : n = Len(text) /\ m = n - first + 1
  BY <1>1
<1>3. PICK rest : rest = SubSeq(text, first, n)
  OBVIOUS
<1>4. rest \in Seq(S) /\ Len(rest) = m /\ \A i \in 1..m : rest[i] = text[first + i - 1]
  <2>1. first \in 1..n + 1
    BY <1>2
  <2> QED
    BY <1>1, <1>2, <1>3, <2>1, PartIs
<1>5. second \in 1..m + 1 /\ \E l \in Nat : l = m - second + 1
  <2>1. second <= m + 1
    BY <1>2
  <2>2. m - second + 1 \in Nat
    BY <2>1
  <2> QED
    BY <2>1, <2>2
<1>13. PICK l \in Nat : l = m - second + 1
  BY <1>5
<1>6. PICK last : last = SubSeq(rest, second, m)
  OBVIOUS
<1>7. last \in Seq(S) /\ Len(last) = l /\ \A i \in 1..l : last[i] = rest[second + i - 1]
  BY <1>2, <1>4, <1>5, <1>13, <1>6, PartIs
<1>8. PICK f \in Nat : f = first + second - 1 /\ l = n - f + 1 /\ f \in 1..n + 1
  BY <1>1, <1>2, <1>5, <1>13
<1>9. PICK other : other = SubSeq(text, f, n)
  OBVIOUS
<1>10. other \in Seq(S) /\ Len(other) = l /\ \A i \in 1..l : other[i] = text[f + i - 1]
  BY <1>1, <1>2, <1>8, <1>9, PartIs
<1>11. \A i \in 1..l : last[i] = other[i]
  <2> TAKE i \in 1..l
  <2>1. second + i - 1 \in 1..m /\ first + (second + i - 1) - 1 = f + i - 1
    BY <1>2, <1>5, <1>13, <1>8
  <2> QED
    BY <1>4, <1>7, <1>10, <2>1
<1>12. last = other
  BY <1>7, <1>10, <1>11, SeqEqual
<1> QED
  BY <1>2, <1>3, <1>4, <1>6, <1>8, <1>9, <1>12 DEF From

(* A part of a text that has grown is the part it was.                     *)
LEMMA PartAppended ==
  ASSUME NEW text \in Text, NEW more \in Unit, NEW a \in Nat \ {0}, NEW b \in Nat, b <= Len(text)
  PROVE  SubSeq(Append(text, more), a, b) = SubSeq(text, a, b)
<1> PICK S : S = Unit
  OBVIOUS
<1>1. text \in Seq(S) /\ more \in S /\ Len(text) \in Nat
  BY DEF Text
<1>2. PICK grown : grown = Append(text, more)
  OBVIOUS
<1>3. grown \in Seq(S) /\ Len(grown) = Len(text) + 1 /\ \A i \in 1..Len(text) : grown[i] = text[i]
  BY <1>1, <1>2
<1>4. SubSeq(grown, a, b) = SubSeq(text, a, b)
  BY <1>1, <1>3
<1> QED
  BY <1>2, <1>4

(* The elements of a sequence turned round.                                *)
LEMMA Reversed ==
  ASSUME NEW S, NEW s \in Seq(S), NEW n \in Nat, n = Len(s)
  PROVE  /\ Reverse(s) \in Seq(S) /\ Len(Reverse(s)) = n
         /\ \A i \in 1..n : Reverse(s)[i] = s[n - i + 1]
<1>1. Reverse(s) = [i \in 1..n |-> s[n - i + 1]]
  BY DEF Reverse
<1>2. \A i \in 1..n : s[n - i + 1] \in S
  OBVIOUS
<1> QED
  BY <1>1, <1>2

(* What is behind a place ends the text.                                   *)
LEMMA FromIsSuffix ==
  ASSUME NEW text \in Text, NEW first \in 1..Len(text) + 1
  PROVE  IsSuffix(From(text, first), text)
<1> PICK S : S = Unit
  OBVIOUS
<1>1. text \in Seq(S) /\ Len(text) \in Nat
  BY DEF Text
<1>2. PICK n, m \in Nat : n = Len(text) /\ m = n - first + 1
  BY <1>1
<1>3. PICK rest : rest = SubSeq(text, first, n)
  OBVIOUS
<1>4. rest \in Seq(S) /\ Len(rest) = m /\ \A i \in 1..m : rest[i] = text[first + i - 1]
  BY <1>1, <1>2, <1>3
<1>5. PICK whole, part : whole = Reverse(text) /\ part = Reverse(rest)
  OBVIOUS
<1>6. whole \in Seq(S) /\ Len(whole) = n /\ \A i \in 1..n : whole[i] = text[n - i + 1]
  BY <1>1, <1>2, <1>5, Reversed
<1>7. part \in Seq(S) /\ Len(part) = m /\ \A i \in 1..m : part[i] = rest[m - i + 1]
  BY <1>2, <1>4, <1>5, Reversed
<1>8. \A i \in 1..m : part[i] = whole[i]
  <2> TAKE i \in 1..m
  <2>1. m - i + 1 \in 1..m /\ first + (m - i + 1) - 1 = n - i + 1 /\ i \in 1..n
    BY <1>2
  <2> QED
    BY <1>4, <1>6, <1>7, <2>1
<1>9. m <= n
  BY <1>2
<1>10. PICK ends : ends = SubSeq(whole, 1, m)
  OBVIOUS
<1>11. ends \in Seq(S) /\ Len(ends) = m /\ \A i \in 1..m : ends[i] = whole[i]
  BY <1>2, <1>6, <1>9, <1>10
<1>12. ends = part
  BY <1>7, <1>8, <1>11, SeqEqual
<1>13. SubSeq(part, 1, m) = part
  BY <1>2, <1>7
<1>14. IsPrefix(part, whole)
  BY <1>6, <1>7, <1>9, <1>10, <1>12, <1>13 DEF IsPrefix
<1> QED
  BY <1>2, <1>3, <1>5, <1>14 DEF From, IsSuffix

(* The places where what the first parenthesis opened is closed.           *)
Ends(text) ==
  {k \in Find(text, "(") + 1..Len(text) :
     /\ Find(text, "(") # 0
     /\ Cardinality({i \in Find(text, "(")..k : text[i] = "("}) =
        Cardinality({i \in Find(text, "(")..k : text[i] = ")"})}

(* The first of them closes it.                                            *)
LEMMA ClosingIs ==
  ASSUME NEW text \in Text
  PROVE  /\ Ends(text) \in SUBSET Nat
         /\ Closing[text] = 0 <=> Ends(text) = {}
         /\ Ends(text) # {} => /\ Closing[text] \in Ends(text)
                               /\ \A k \in Ends(text) : Closing[text] <= k
<1>1. Closing[text] = IF Ends(text) = {} THEN 0 ELSE Min(Ends(text))
  BY DEF Closing, Ends
<1>2. Find(text, "(") \in Nat
  BY FindIs DEF Text
<1>3. Ends(text) \in SUBSET (Nat \ {0})
  BY <1>2 DEF Ends
<1>4. Ends(text) # {} => Min(Ends(text)) \in Ends(text) /\ \A k \in Ends(text) : Min(Ends(text)) <= k
  BY <1>3, MinIsLeast
<1> QED
  BY <1>1, <1>3, <1>4

(* What is closed stays closed where it was.                               *)
LEMMA ClosingAppended ==
  ASSUME NEW text \in Text, NEW more \in Unit, Closing[text] # 0
  PROVE  /\ Closing[Append(text, more)] = Closing[text]
         /\ Find(text, "(") # 0 /\ Closing[text] \in 1..Len(text)
<1> PICK grown : grown = Append(text, more)
  OBVIOUS
<1>1. /\ grown \in Text /\ Len(text) \in Nat /\ Len(grown) = Len(text) + 1
      /\ \A i \in 1..Len(text) : grown[i] = text[i]
  BY DEF Text
<1>2. Ends(text) # {}
  BY ClosingIs
<1>3. PICK open : open = Find(text, "(")
  OBVIOUS
<1>4. open # 0
  BY <1>2, <1>3 DEF Ends
<1>5. open \in 1..Len(text)
  BY <1>1, <1>3, <1>4, FindIs
<1>6. Find(grown, "(") = open
  BY <1>3, <1>4, FindAppended
<1>7. \A k \in 1..Len(text) : k \in Ends(text) <=> k \in Ends(grown)
  <2> TAKE k \in 1..Len(text)
  <2>1. \A unit : {i \in open..k : text[i] = unit} = {i \in open..k : grown[i] = unit}
    BY <1>1, <1>5
  <2>2. PICK part : part = [unit \in {"(", ")"} |-> {i \in open..k : text[i] = unit}]
    OBVIOUS
  <2>3. /\ {i \in open..k : text[i] = "("} = part["("] /\ {i \in open..k : text[i] = ")"} = part[")"]
        /\ {i \in open..k : grown[i] = "("} = part["("] /\ {i \in open..k : grown[i] = ")"} = part[")"]
    BY <2>1, <2>2
  <2>4. k \in open + 1..Len(text) <=> k \in open + 1..Len(grown)
    BY <1>1, <1>5
  <2>5. k \in Ends(text) <=> k \in open + 1..Len(text) /\ Cardinality(part["("]) = Cardinality(part[")"])
    BY <1>3, <1>4, <2>3 DEF Ends
  <2>6. k \in Ends(grown) <=> k \in open + 1..Len(grown) /\ Cardinality(part["("]) = Cardinality(part[")"])
    BY <1>4, <1>6, <2>3 DEF Ends
  <2> QED
    BY <2>4, <2>5, <2>6
<1>8. Ends(text) \in SUBSET (1..Len(text)) /\ Ends(grown) \in SUBSET (1..Len(text) + 1)
  BY <1>1, <1>3, <1>5, <1>6 DEF Ends
<1>9. PICK c, d : c = Closing[text] /\ d = Closing[grown]
  OBVIOUS
<1>10. c \in Ends(text) /\ \A k \in Ends(text) : c <= k
  BY <1>2, <1>9, ClosingIs
<1>11. c \in Ends(grown)
  BY <1>7, <1>8, <1>10
<1>12. d \in Ends(grown) /\ \A k \in Ends(grown) : d <= k
  BY <1>1, <1>9, <1>11, ClosingIs
<1>13. c \in 1..Len(text) /\ d \in 1..Len(text) + 1 /\ d <= c
  BY <1>8, <1>10, <1>11, <1>12
<1>14. d \in Ends(text)
  BY <1>1, <1>7, <1>12, <1>13
<1>15. c = d
  BY <1>1, <1>10, <1>13, <1>14
<1> QED
  BY <1>3, <1>4, <1>9, <1>13, <1>15

(* A call that is complete stays what it is.  What is no complete call is  *)
(* all of it the name of a tool.                                           *)
LEMMA CallAppended ==
  ASSUME NEW request \in Text, NEW more \in Unit, ParseAction[request] # ContinueThinking
  PROVE  /\ ParseAction[request].kind = "act"
         /\ \/ ParseAction[Append(request, more)] = ParseAction[request]
            \/ ParseAction[request].tool = request
<1>1. PICK grown : grown = Append(request, more)
  OBVIOUS
<1>2. grown \in Text /\ Len(request) \in Nat
  BY <1>1 DEF Text
<1>3. PICK open, close : open = Find(request, "(") /\ close = Closing[request]
  OBVIOUS
<1>4. CASE open > 1 /\ close # 0
  <2>1. open \in 1..Len(request) /\ close \in 1..Len(request)
    BY <1>2, <1>3, <1>4, FindIs, ClosingAppended
  <2>2. Find(grown, "(") = open /\ Closing[grown] = close
    BY <1>1, <1>3, <1>4, <2>1, FindAppended, ClosingAppended
  <2>3. PICK tool, args : tool = SubSeq(request, 1, open - 1) /\ args = SubSeq(request, open + 1, close - 1)
    OBVIOUS
  <2>4. SubSeq(grown, 1, open - 1) = tool /\ SubSeq(grown, open + 1, close - 1) = args
    BY <1>1, <1>2, <2>1, <2>3, PartAppended
  <2>5. ParseAction[request] = Act(tool, args)
    BY <1>3, <1>4, <2>3 DEF ParseAction
  <2>6. ParseAction[grown] = Act(tool, args)
    BY <1>2, <1>4, <2>2, <2>4 DEF ParseAction
  <2> QED
    BY <1>1, <2>5, <2>6 DEF Act
<1>5. CASE ~(open > 1 /\ close # 0)
  <2>1. ParseAction[request] = Act(request, <<>>)
    BY <1>3, <1>5 DEF ParseAction
  <2> QED
    BY <2>1 DEF Act
<1> QED
  BY <1>4, <1>5

--------------------------------------------------------------------------------
(* Capitals.                                                               *)

(* The capitals of a text run along it.                                    *)
CapitalsAlong(run, text) ==
  /\ run \in [0..Len(text) -> Text]
  /\ run[0] = <<>>
  /\ \A k \in 1..Len(text) : run[k] = Raised(run[k - 1], text[k])

(* What is kept of ever more of a text runs along it.                      *)
LEMMA UpperRuns ==
  ASSUME NEW text \in Text
  PROVE  \E run : CapitalsAlong(run, text) /\ Upper(text) = run[Len(text)]
<1>1. PICK n \in Nat : n = Len(text)
  BY DEF Text
<1>2. PICK V : V = Text
  OBVIOUS
<1>3. <<>> \in V
  BY <1>2 DEF Text
<1>4. PICK step \in [1..n -> [V -> V]] : \A k \in 1..n, v \in V : step[k][v] = Raised(v, text[k])
  <2>1. ASSUME NEW k \in 1..n, NEW v \in V PROVE Raised(v, text[k]) \in V
    <3>1. text[k] \in Unit
      BY <1>1 DEF Text
    <3>2. PICK S : S = Unit
      OBVIOUS
    <3>3. text[k] \in S /\ v \in Seq(S)
      BY <1>2, <3>1, <3>2 DEF Text
    <3>4. Append(v, text[k]) \in Seq(S)
      BY <3>3
    <3>5. Append(Append(v, "word"), "word") \in Seq(S)
      <4>1. "word" \in S
        BY <3>2 DEF Unit
      <4> QED
        BY <3>3, <4>1
    <3> QED
      BY <1>2, <3>2, <3>3, <3>4, <3>5 DEF Raised, Text
  <2>2. [k \in 1..n |-> [v \in V |-> Raised(v, text[k])]] \in [1..n -> [V -> V]]
    BY <2>1
  <2> QED
    BY <2>2
<1>5. PICK run \in [0..n -> V] : CountsAlong(run, n, <<>>, step)
  BY <1>3, AlongNumbers
<1>6. CapitalsAlong(run, text)
  <2>1. run[0] = <<>>
    BY <1>5 DEF CountsAlong
  <2>2. ASSUME NEW k \in 1..n PROVE run[k] = Raised(run[k - 1], text[k])
    <3>1. k \in 0..n /\ k # 0 /\ run[k - 1] \in V
      OBVIOUS
    <3>2. run[k] = step[k][run[k - 1]]
      BY <1>5, <3>1 DEF CountsAlong
    <3> QED
      BY <1>4, <3>1, <3>2
  <2> QED
    BY <1>1, <1>2, <2>1, <2>2 DEF CapitalsAlong
<1> DEFINE Keeps(g) == g = [k \in 0..n |-> IF k = 0 THEN <<>> ELSE Raised(g[k - 1], text[k])]
<1>7. PICK kept : kept = CHOOSE g : Keeps(g)
  OBVIOUS
<1>8. Upper(text) = kept[n]
  BY <1>1, <1>7 DEF Upper
<1>9. Keeps(run)
  <2>1. \A k \in 0..n : run[k] = IF k = 0 THEN <<>> ELSE Raised(run[k - 1], text[k])
    BY <1>1, <1>6 DEF CapitalsAlong
  <2> QED
    BY <2>1 DEF Raised
<1>10. Keeps(kept)
  BY <1>7, <1>9
<1> DEFINE T == {k \in 0..n : kept[k] # run[k]}
<1>11. T = {}
  <2> SUFFICES ASSUME T # {} PROVE FALSE
    OBVIOUS
  <2>1. PICK k \in T : \A m \in T : k <= m
    <3>1. T \in SUBSET Nat
      OBVIOUS
    <3> HIDE DEF T
    <3> QED
      BY <3>1, LeastNatural
  <2>2. k \in 0..n /\ kept[k] # run[k]
    BY <2>1
  <2>3. k # 0
    BY <1>9, <1>10, <2>2
  <2>4. k - 1 \in 0..n /\ k - 1 \notin T
    BY <2>1, <2>2, <2>3
  <2>5. kept[k - 1] = run[k - 1]
    BY <2>4
  <2> QED
    BY <1>9, <1>10, <2>2, <2>3, <2>5
<1>12. kept[n] = run[n]
  BY <1>11
<1> QED
  BY <1>1, <1>6, <1>8, <1>12

(* A run along a text is the only one.                                     *)
LEMMA CapitalsAgree ==
  ASSUME NEW text \in Text, NEW longer \in Text, Len(text) <= Len(longer),
         \A k \in 1..Len(text) : longer[k] = text[k],
         NEW run, CapitalsAlong(run, text), NEW other, CapitalsAlong(other, longer)
  PROVE  run[Len(text)] = other[Len(text)]
<1>1. PICK n \in Nat : n = Len(text)
  BY DEF Text
<1> DEFINE T == {k \in 0..n : run[k] # other[k]}
<1>2. T = {}
  <2> SUFFICES ASSUME T # {} PROVE FALSE
    OBVIOUS
  <2>1. PICK k \in T : \A m \in T : k <= m
    <3>1. T \in SUBSET Nat
      OBVIOUS
    <3> HIDE DEF T
    <3> QED
      BY <3>1, LeastNatural
  <2>2. k # 0
    BY <2>1 DEF CapitalsAlong
  <2>3. k \in 1..n /\ k - 1 \in 0..n
    BY <2>1, <2>2
  <2>4. run[k - 1] = other[k - 1]
    <3>1. k - 1 \notin T
      BY <2>1, <2>3
    <3> QED
      BY <2>3, <3>1
  <2>5. run[k] = Raised(run[k - 1], text[k])
    BY <1>1, <2>3 DEF CapitalsAlong
  <2>6. other[k] = Raised(other[k - 1], longer[k])
    <3>1. k \in 1..Len(longer)
      <4>1. Len(longer) \in Nat
        BY DEF Text
      <4> QED
        BY <1>1, <2>3, <4>1
    <3> QED
      BY <3>1 DEF CapitalsAlong
  <2>7. longer[k] = text[k]
    BY <1>1, <2>3
  <2> QED
    BY <2>1, <2>4, <2>5, <2>6, <2>7
<1> QED
  BY <1>1, <1>2

(* A response in capitals grows with it, but for the marks.                *)
LEMMA UpperAppended ==
  ASSUME NEW text \in Text, NEW more \in Unit
  PROVE  Upper(Append(text, more)) = Raised(Upper(text), more)
<1>1. PICK grown : grown = Append(text, more)
  OBVIOUS
<1>2. PICK n \in Nat : n = Len(text)
  BY DEF Text
<1>3. /\ grown \in Text /\ Len(grown) = n + 1
      /\ grown[n + 1] = more /\ \A i \in 1..n : grown[i] = text[i]
  BY <1>1, <1>2, AppendedElements DEF Text
<1>4. PICK run : CapitalsAlong(run, text) /\ Upper(text) = run[n]
  BY <1>2, UpperRuns
<1>5. PICK other : CapitalsAlong(other, grown) /\ Upper(grown) = other[n + 1]
  BY <1>3, UpperRuns
<1>6. run[n] = other[n]
  BY <1>2, <1>3, <1>4, <1>5, CapitalsAgree
<1>7. other[n + 1] = Raised(other[n], more)
  <2>1. n + 1 \in 1..Len(grown) /\ (n + 1) - 1 = n
    BY <1>3
  <2> QED
    BY <1>3, <1>5, <2>1 DEF CapitalsAlong
<1> QED
  BY <1>1, <1>4, <1>5, <1>6, <1>7

(* A text that was raised by a unit is one, and keeps what it had.         *)
LEMMA RaisedIs ==
  ASSUME NEW text \in Text, NEW more \in Unit
  PROVE  /\ Raised(text, more) \in Text
         /\ \A x : Contains(text, x) => Contains(Raised(text, more), x)
         /\ more \notin {"mark", "wide"} => Contains(Raised(text, more), more)
<1> PICK S : S = Unit
  OBVIOUS
<1>1. text \in Seq(S) /\ more \in S /\ "word" \in S
  BY DEF Text, Unit
<1>2. ASSUME NEW s \in Seq(S), NEW e \in S
      PROVE  /\ Append(s, e) \in Seq(S) /\ Contains(Append(s, e), e)
             /\ \A x : Contains(s, x) => Contains(Append(s, e), x)
  <2>1. PICK n \in Nat : n = Len(s)
    OBVIOUS
  <2>2. PICK longer : longer = Append(s, e)
    OBVIOUS
  <2>3. longer \in Seq(S) /\ Len(longer) = n + 1 /\ longer[n + 1] = e /\ \A i \in 1..n : longer[i] = s[i]
    BY <2>1, <2>2, AppendedElements
  <2>4. Contains(longer, e) /\ \A x : Contains(s, x) => Contains(longer, x)
    BY <2>1, <2>3 DEF Contains
  <2> QED
    BY <2>2, <2>3, <2>4
<1>3. CASE more = "mark"
  BY <1>3 DEF Raised
<1>4. CASE more = "wide"
  <2>1. PICK once : once = Append(text, "word")
    OBVIOUS
  <2>2. once \in Seq(S) /\ \A x : Contains(text, x) => Contains(once, x)
    BY <1>1, <1>2, <2>1
  <2>3. PICK twice : twice = Append(once, "word")
    OBVIOUS
  <2>4. twice \in Seq(S) /\ \A x : Contains(once, x) => Contains(twice, x)
    BY <1>1, <1>2, <2>2, <2>3
  <2>5. Raised(text, more) = twice
    BY <1>4, <2>1, <2>3 DEF Raised
  <2> QED
    BY <1>4, <2>2, <2>4, <2>5 DEF Text
<1>5. CASE more \notin {"mark", "wide"}
  <2>1. Raised(text, more) = Append(text, more)
    BY <1>5 DEF Raised
  <2> QED
    BY <1>1, <1>2, <2>1 DEF Text
<1> QED
  BY <1>3, <1>4, <1>5

(* What is found in a text is found there when it is raised.               *)
LEMMA FindRaised ==
  ASSUME NEW text \in Text, NEW more \in Unit, NEW unit, unit # "word"
  PROVE  /\ Find(text, unit) # 0 => Find(Raised(text, more), unit) = Find(text, unit)
         /\ Find(text, unit) = 0 => /\ Find(Raised(text, more), unit) \in {0, Len(text) + 1}
                                    /\ more # unit => Find(Raised(text, more), unit) = 0
<1>1. CASE more = "mark"
  BY <1>1 DEF Raised
<1>2. CASE more = "wide"
  <2>1. PICK once : once = Append(text, "word")
    OBVIOUS
  <2>2. "word" \in Unit
    BY DEF Unit
  <2>3. once \in Text
    BY <2>1, <2>2 DEF Text
  <2>4. Raised(text, more) = Append(once, "word")
    BY <1>2, <2>1 DEF Raised
  <2>5. Find(once, unit) = Find(text, unit)
    BY <2>1, <2>2, FindAppended
  <2>6. Find(Append(once, "word"), unit) = Find(once, unit)
    BY <2>2, <2>3, FindAppended
  <2> QED
    BY <2>4, <2>5, <2>6
<1>3. CASE more \notin {"mark", "wide"}
  <2>1. Raised(text, more) = Append(text, more)
    BY <1>3 DEF Raised
  <2> QED
    BY <2>1, FindAppended
<1> QED
  BY <1>1, <1>2, <1>3

(* What is behind a place is raised with the text.                         *)
LEMMA FromRaised ==
  ASSUME NEW text \in Text, NEW more \in Unit, NEW first \in 1..Len(text) + 1
  PROVE  From(Raised(text, more), first) = Raised(From(text, first), more)
<1>1. CASE more = "mark"
  BY <1>1 DEF Raised
<1>2. CASE more = "wide"
  <2>1. PICK once : once = Append(text, "word")
    OBVIOUS
  <2>2. "word" \in Unit
    BY DEF Unit
  <2>3. once \in Text /\ first \in 1..Len(once) + 1
    BY <2>1, <2>2 DEF Text
  <2>4. From(once, first) = Append(From(text, first), "word")
    BY <2>1, <2>2, FromAppended
  <2>5. From(Append(once, "word"), first) = Append(From(once, first), "word")
    BY <2>2, <2>3, FromAppended
  <2> QED
    BY <1>2, <2>1, <2>4, <2>5 DEF Raised
<1>3. CASE more \notin {"mark", "wide"}
  <2>1. Raised(text, more) = Append(text, more) /\ Raised(From(text, first), more) = Append(From(text, first), more)
    BY <1>3 DEF Raised
  <2> QED
    BY <2>1, FromAppended
<1> QED
  BY <1>1, <1>2, <1>3

(* It has all of the response but marks and wide letters.                  *)
LEMMA UpperIs ==
  ASSUME NEW text \in Text
  PROVE  /\ Upper(text) \in Text
         /\ \A i \in 1..Len(text) : text[i] \notin {"mark", "wide"} => Contains(Upper(text), text[i])
<1>1. PICK n \in Nat : n = Len(text)
  BY DEF Text
<1>2. PICK run : CapitalsAlong(run, text) /\ Upper(text) = run[n]
  BY <1>1, UpperRuns
<1>3. run \in [0..n -> Text] /\ run[0] = <<>> /\ \A k \in 1..n : run[k] = Raised(run[k - 1], text[k])
  BY <1>1, <1>2 DEF CapitalsAlong
<1> DEFINE Good(k) == \A i \in 1..k : text[i] \notin {"mark", "wide"} => Contains(run[k], text[i])
           T == {k \in 0..n : ~Good(k)}
<1>4. T = {}
  <2> SUFFICES ASSUME T # {} PROVE FALSE
    OBVIOUS
  <2>1. PICK k \in T : \A m \in T : k <= m
    <3>1. T \in SUBSET Nat
      OBVIOUS
    <3> HIDE DEF T
    <3> QED
      BY <3>1, LeastNatural
  <2>2. Good(0)
    OBVIOUS
  <2>3. k \in 1..n /\ k - 1 \in 0..n /\ ~Good(k)
    BY <2>1, <2>2
  <2>4. Good(k - 1)
    <3>1. k - 1 \notin T
      BY <2>1, <2>3
    <3> QED
      BY <2>3, <3>1
  <2>5. PICK before, unit : before = run[k - 1] /\ unit = text[k]
    OBVIOUS
  <2>6. before \in Text /\ unit \in Unit /\ run[k] = Raised(before, unit)
    <3>1. before \in Text
      BY <1>3, <2>3, <2>5
    <3>2. unit \in Unit
      BY <1>1, <2>3, <2>5 DEF Text
    <3> QED
      BY <1>3, <2>3, <2>5, <3>1, <3>2
  <2>7. PICK longer : longer = Raised(before, unit)
    OBVIOUS
  <2>8. /\ \A x : Contains(before, x) => Contains(longer, x)
        /\ unit \notin {"mark", "wide"} => Contains(longer, unit)
    BY <2>6, <2>7, RaisedIs
  <2>9. ASSUME NEW i \in 1..k, text[i] \notin {"mark", "wide"} PROVE Contains(longer, text[i])
    <3>1. CASE i = k
      BY <2>5, <2>8, <2>9, <3>1
    <3>2. CASE i \in 1..k - 1
      BY <2>4, <2>5, <2>8, <2>9, <3>2
    <3> QED
      BY <2>3, <3>1, <3>2
  <2> QED
    BY <2>3, <2>6, <2>7, <2>9
<1>5. Good(n)
  BY <1>4
<1>6. run[n] \in Text
  BY <1>3
<1> QED
  BY <1>1, <1>2, <1>5, <1>6

--------------------------------------------------------------------------------
(* The directives of a response that grows.                                *)

(* What is behind no place is nothing.                                     *)
LEMMA FromIsText ==
  ASSUME NEW text \in Text, NEW first \in Nat \ {0}
  PROVE  From(text, first) \in Text
<1> PICK S : S = Unit
  OBVIOUS
<1>1. text \in Seq(S) /\ Len(text) \in Nat
  BY DEF Text
<1>2. CASE first <= Len(text) + 1
  BY <1>1, <1>2 DEF From, Text
<1>3. CASE first > Len(text)
  BY <1>1, <1>3 DEF From, Text
<1> QED
  BY <1>1, <1>2, <1>3

(* A directive is a call when an ACTION: before any FINAL ANSWER: asks for *)
(* one.                                                                    *)
LEMMA DirectiveIs ==
  ASSUME NEW text \in Text, NEW upper \in Text,
         NEW action, action = Find(upper, "action"), NEW final, final = Find(upper, "final"),
         NEW request, request = From(text, action + 1)
  PROVE  /\ ParseDirective[text][upper].kind = "act" =>
              /\ action # 0 /\ ~(final # 0 /\ final < action)
              /\ CanCut(text, action + 1)
              /\ ParseAction[request] # ContinueThinking
         /\ action # 0 /\ ~(final # 0 /\ final < action) =>
              /\ ~CanCut(text, action + 1) => ParseDirective[text][upper] = Panicked
              /\ CanCut(text, action + 1) /\ ParseAction[request] # ContinueThinking =>
                   ParseDirective[text][upper] = ParseAction[request]
<1>1. PICK answer : answer = IF final = 0 THEN ContinueThinking
                             ELSE IF ~CanCut(text, final + 1) THEN Panicked
                             ELSE ParseAnswer[From(text, final + 1)]
  OBVIOUS
<1>2. ParseDirective[text][upper] =
        IF action = 0 \/ (final # 0 /\ final < action) THEN answer
        ELSE IF ~CanCut(text, action + 1) THEN Panicked
        ELSE IF ParseAction[request] # ContinueThinking THEN ParseAction[request]
        ELSE answer
  BY <1>1 DEF ParseDirective
<1>3. answer.kind # "act"
  <2>1. CASE final = 0
    BY <1>1, <2>1 DEF ContinueThinking
  <2>2. CASE final # 0
    <3>1. final + 1 \in Nat \ {0}
      BY FindIs DEF Text
    <3>2. PICK said : said = From(text, final + 1) /\ said \in Text
      BY <3>1, FromIsText
    <3>3. answer = Panicked \/ answer = IF said = <<>> THEN ContinueThinking ELSE Finish(said)
      BY <1>1, <2>2, <3>2 DEF ParseAnswer
    <3> QED
      BY <3>3 DEF ContinueThinking, Finish, Panicked
  <2> QED
    BY <2>1, <2>2
<1>4. Panicked.kind # "act"
  BY DEF Panicked
<1> QED
  BY <1>2, <1>3, <1>4

(* A call that a text asks for stays when the text and its capitals grow.  *)
LEMMA DirectiveAppended ==
  ASSUME NEW text \in Text, NEW upper \in Text, NEW more \in Unit,
         ParseDirective[text][upper].kind = "act"
  PROVE  \/ ParseDirective[Append(text, more)][Raised(upper, more)]
               \in {ParseDirective[text][upper], Panicked}
         \/ IsSuffix(ParseDirective[text][upper].tool, text)
            /\ \E first \in 1..Len(text) + 1 : ParseDirective[text][upper].tool = From(text, first)
<1>1. PICK action, final : action = Find(upper, "action") /\ final = Find(upper, "final")
  OBVIOUS
<1>2. PICK request : request = From(text, action + 1)
  OBVIOUS
<1>3. /\ action # 0 /\ ~(final # 0 /\ final < action)
      /\ ParseAction[request] # ContinueThinking
      /\ CanCut(text, action + 1)
      /\ ParseDirective[text][upper] = ParseAction[request]
  BY <1>1, <1>2, DirectiveIs
<1>4. PICK grown, raised : grown = Append(text, more) /\ raised = Raised(upper, more)
  OBVIOUS
<1>5. grown \in Text /\ raised \in Text /\ Len(text) \in Nat /\ Len(upper) \in Nat
  <2>1. grown \in Text /\ Len(text) \in Nat /\ Len(upper) \in Nat
    BY <1>4 DEF Text
  <2> QED
    BY <1>4, <2>1, RaisedIs
<1>6. action \in 1..Len(upper) /\ final \in 0..Len(upper)
  BY <1>1, <1>3, <1>5, FindIs
<1>7. Find(raised, "action") = action
  BY <1>1, <1>3, <1>4, FindRaised
<1>8. PICK later : later = Find(raised, "final")
  OBVIOUS
<1>9. later = final \/ (final = 0 /\ later \in {0, Len(upper) + 1})
  BY <1>1, <1>4, <1>8, FindRaised
<1>10. ~(later # 0 /\ later < action)
  BY <1>3, <1>5, <1>6, <1>9
<1>11. action + 1 \in 1..Len(text) + 1
  BY <1>3, <1>5, <1>6 DEF CanCut
<1>12. request \in Text /\ From(grown, action + 1) = Append(request, more)
  BY <1>2, <1>4, <1>11, FromAppended
<1>13. ParseAction[request].kind = "act"
  BY <1>3, <1>12, CallAppended
<1>14. CASE ParseAction[Append(request, more)] = ParseAction[request]
  <2>1. ParseDirective[grown][raised] \in {ParseAction[Append(request, more)], Panicked}
    <3>1. PICK longer : longer = From(grown, action + 1)
      OBVIOUS
    <3>2. ParseAction[longer] # ContinueThinking
      BY <1>3, <1>12, <1>14, <3>1
    <3>3. action = Find(raised, "action") /\ later = Find(raised, "final") /\ action # 0
      BY <1>3, <1>7, <1>8
    <3>4. ParseDirective[grown][raised] \in {ParseAction[longer], Panicked}
      BY <1>5, <1>10, <3>1, <3>2, <3>3, DirectiveIs
    <3> QED
      BY <1>12, <3>1, <3>4
  <2> QED
    BY <1>3, <1>4, <1>14, <2>1
<1>15. CASE ParseAction[request].tool = request
  BY <1>2, <1>3, <1>11, <1>15, FromIsSuffix
<1> QED
  BY <1>3, <1>12, <1>14, <1>15, CallAppended

(* So does a call that a response asks for.                                *)
LEMMA CallStays ==
  ASSUME NEW said \in Text, NEW more \in Unit,
         ParseNextAction(said).kind = "act", ~IsSuffix(ParseNextAction(said).tool, said),
         Contains(said, "thought") \/ more # "thought"
  PROVE  ParseNextAction(Append(said, more)) \in {ParseNextAction(said), Panicked}
<1>1. PICK longer, upper, raised : longer = Append(said, more) /\ upper = Upper(said) /\ raised = Upper(longer)
  OBVIOUS
<1>2. /\ longer \in Text /\ upper \in Text /\ Len(said) \in Nat /\ Len(upper) \in Nat
      /\ raised = Raised(upper, more) /\ raised \in Text
  <2>1. longer \in Text /\ upper \in Text /\ raised = Raised(upper, more)
    BY <1>1, UpperIs, UpperAppended DEF Text
  <2> QED
    BY <2>1, RaisedIs DEF Text
<1>3. PICK start : start = Find(upper, "thought") + 1
  OBVIOUS
<1>4. PICK text, capitals : text = From(said, start) /\ capitals = From(upper, start)
  OBVIOUS
<1>5. /\ CanCut(said, start)
       /\ ParseNextAction(said) = ParseDirective[text][capitals]
  <2>1. ParseNextAction(said) =
          IF ~CanCut(said, start) \/ (start # 1 /\ ~CanCutThought[text][capitals]) THEN Panicked
          ELSE ParseDirective[text][capitals]
    BY <1>1, <1>2, <1>3, <1>4 DEF ParseNextAction, ParseFrom
  <2>2. Panicked.kind # "act"
    BY DEF Panicked
  <2> QED
    BY <2>1, <2>2
<1>6. start \in 1..Len(upper) + 1 /\ start \in 1..Len(said) + 1
  BY <1>2, <1>3, <1>5, FindIs DEF CanCut
<1>7. Find(raised, "thought") + 1 = start
  <2>1. CASE Find(upper, "thought") # 0
    BY <1>2, <1>3, <2>1, FindRaised
  <2>2. CASE Find(upper, "thought") = 0
    <3>1. ~Contains(upper, "thought")
      BY <1>2, <2>2, FindIs DEF Contains
    <3>2. ~Contains(said, "thought")
      <4>1. ASSUME NEW i \in 1..Len(said), said[i] = "thought" PROVE FALSE
        BY <1>1, <3>1, <4>1, UpperIs
      <4> QED
        BY <4>1 DEF Contains
    <3> QED
      BY <1>2, <1>3, <2>2, <3>2, FindRaised
  <2> QED
    BY <2>1, <2>2
<1>8. /\ text \in Text /\ Len(text) = Len(said) - start + 1
      /\ From(longer, start) = Append(text, more)
  BY <1>1, <1>6, <1>4, FromAppended
<1>9. capitals \in Text /\ Len(capitals) = Len(upper) - start + 1
  BY <1>2, <1>6, <1>4, FromAppended
<1>10. From(raised, start) = Raised(capitals, more)
  BY <1>2, <1>6, <1>4, FromRaised
<1>11. ParseNextAction(longer) \in {ParseDirective[Append(text, more)][Raised(capitals, more)], Panicked}
  BY <1>1, <1>2, <1>7, <1>8, <1>10 DEF ParseNextAction, ParseFrom
<1>12. \A first \in 1..Len(text) + 1 : IsSuffix(From(text, first), said)
  <2> TAKE first \in 1..Len(text) + 1
  <2>1. first \in 1..Len(said) - start + 2 /\ start + first - 1 \in 1..Len(said) + 1
    BY <1>2, <1>6, <1>8
  <2>2. From(text, first) = From(said, start + first - 1)
    BY <1>6, <1>4, <2>1, FromTwice
  <2> QED
    BY <2>1, <2>2, FromIsSuffix
<1>13. ParseDirective[Append(text, more)][Raised(capitals, more)] \in {ParseDirective[text][capitals], Panicked}
  <2>1. \/ ParseDirective[Append(text, more)][Raised(capitals, more)] \in {ParseDirective[text][capitals], Panicked}
        \/ \E first \in 1..Len(text) + 1 : ParseDirective[text][capitals].tool = From(text, first)
    BY <1>8, <1>9, <1>5, DirectiveAppended
  <2> QED
    BY <1>12, <1>5, <2>1
<1> QED
  BY <1>1, <1>11, <1>13, <1>5

(* A call that was said with its parenthesis stays what it was, whatever   *)
(* the model goes on to say but a first THOUGHT:, or the parser panics     *)
(* (llm.rs, parse_next_action).                                            *)
THEOREM CallIsStableHolds == Spec => CallIsStable
<1> DEFINE Said == response \in Seq(Units)
<1>1. Init => Said
  BY DEF Init
<1>2. Said /\ [Next]_vars => Said' /\ (Len(response') > Len(response) =>
                                         \E unit \in Units : response' = Append(response, unit))
  <2> SUFFICES ASSUME Said, [Next]_vars
               PROVE  Said' /\ (Len(response') > Len(response) =>
                                         \E unit \in Units : response' = Append(response, unit))
    OBVIOUS
  <2>1. response' = response \/ response' = <<>> \/ \E unit \in Units : response' = Append(response, unit)
    BY DEF Next, LoopStep, Chunk, StreamEnds, ModelFails, Thought, ThoughtPanics, Action, CallTool, Observation,
           Finished, Exhausted, Timeout, Read, Disconnect, Over, Return, SendFails, vars
  <2>2. Len(response) \in Nat /\ Len(<<>>) = 0
    OBVIOUS
  <2>3. Said'
    <3>1. ASSUME NEW R, NEW said \in Seq(R), NEW unit \in R PROVE Append(said, unit) \in Seq(R) /\ <<>> \in Seq(R)
      OBVIOUS
    <3>2. <<>> \in Seq(Units)
      OBVIOUS
    <3> QED
      BY <2>1, <3>1, <3>2
  <2>4. response' = response \/ response' = <<>> => ~(Len(response') > Len(response))
    BY <2>2
  <2> QED
    BY <2>1, <2>3, <2>4
<1>3. ASSUME Said, [Next]_vars,
             Len(response') > Len(response),
             ParseNextAction(response).kind = "act",
             ~IsSuffix(ParseNextAction(response).tool, response),
             Contains(response, "thought") \/ Last(response') # "thought"
      PROVE  ParseNextAction(response') \in {ParseNextAction(response), Panicked}
  <2>1. PICK unit \in Units : response' = Append(response, unit)
    BY <1>2, <1>3
  <2>2. unit \in Unit /\ response \in Text
    <3> PICK S, R : S = Unit /\ R = Units
      OBVIOUS
    <3>1. R \subseteq S /\ response \in Seq(R) /\ unit \in R
      BY <1>3, StreamAssumption
    <3>2. response \in Seq(S) /\ unit \in S
      BY <3>1
    <3> QED
      BY <3>2 DEF Text
  <2>3. Last(response') = unit
    BY <1>3, <2>1 DEF Last
  <2> QED
    BY <1>3, <2>1, <2>2, <2>3, CallStays
<1>4. Said /\ [Next]_vars =>
        [LET before == ParseNextAction(response) IN
         /\ Len(response') > Len(response)
         /\ before.kind = "act" /\ ~IsSuffix(before.tool, response)
         /\ Contains(response, "thought") \/ Last(response') # "thought"
         => ParseNextAction(response') \in {before, Panicked}]_vars
  BY <1>3
<1> QED
  BY <1>1, <1>2, <1>4, PTL DEF Spec, CallIsStable
================================================================================
