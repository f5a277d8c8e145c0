----------------------------- MODULE AgentSession ------------------------------
(***************************************************************************)
(* Persistent agent sessions: resume_session (jadepaw-agent/src/lib.rs),   *)
(* the ReAct loop it drives (loop.rs) under the termination guard          *)
(* (guard.rs), and the session table that outlives them (SessionRepo).     *)
(*                                                                         *)
(* A run is one call of resume_session.  Runs interleave at their awaits;  *)
(* an action takes a run from one await that matters to the next.  What    *)
(* lies between them is local to the run, except for the session table,    *)
(* the tools' effects on the world and the pool's slots.                   *)
(*                                                                         *)
(* The time the guard measures is abstracted: the wall clock may run out   *)
(* at any await inside the loop.                                           *)
(***************************************************************************)
EXTENDS SessionRepo, FiniteSets, SequencesExt

CONSTANTS
  MaxIterations,  \* GuardConfig::max_iterations
  RecentTurns,    \* GuardConfig::recent_turns
  MaxConcurrent,  \* the instance pool's capacity
  Exclusive       \* do callers take turns: none touches a session a run is on?

ASSUME AgentAssumption ==
  /\ IsFiniteSet(Runs)
  /\ MaxIterations \in Nat \ {0}
  /\ RecentTurns \in Nat
  /\ MaxConcurrent \in Nat \ {0}
  /\ Exclusive \in BOOLEAN

VARIABLES
  call,   \* what each run is called with: a session and a tenant id
  pc,     \* the await each run is at
  loop,   \* react_loop's local state in each run
  late,   \* checkpoint writes whose run was cancelled while they were queued
  up,     \* is the process up?
  tools,  \* history: the tool calls that came back, by session, turn and run
  overtaken  \* history: the runs into whose session another run has written
             \* since they loaded it

vars == <<rows, call, pc, loop, late, up, tools, overtaken>>

CW == INSTANCE ContextWindow

Header(role) == [role |-> role, turn |-> 0, by |-> NoRun]

NoLoop == [messages |-> <<>>, trace |-> <<>>, turn |-> 0, start |-> 0]

Returned == {"ok", "failed", "terminated", "dead"}

(* Mutant: a tool runs outside the guard.                                  *)
GuardedButTools == {"turn", "save"}

(* The awaits run_with_guard races against the wall clock.                 *)
Guarded == {"turn", "tool", "save"}

(* A SessionHandle is alive from its acquisition to the return.            *)
Holding == {r \in Runs : pc[r] \in Guarded \cup {"finishing"}}

Live(r) == pc[r] \notin Returned \cup {"idle"}

(* No run works on the session: every call of resume_session for it has    *)
(* returned.  A caller sees no more than that; a write cancelled with its  *)
(* run may still be on its way.                                            *)
Quiet(s) == \A r \in Runs : Live(r) => call[r].session # s

MayTouch(s) == Exclusive => Quiet(s)

(* The run, or the write it left behind, may yet save the session.         *)
MayStillSave(r, s) ==
  call[r].session = s /\ (Live(r) \/ \E w \in late : w.by = r)

(* The run's write lands: what the others know of the session is old.      *)
Overtake(r) ==
  overtaken' = overtaken \cup {q \in Runs \ {r} : MayStillSave(q, call[r].session)}

Init ==
  /\ RepoInit
  /\ call \in [Runs -> [session : Sessions, tenant : Tenants]]
  /\ pc = [r \in Runs |-> "idle"]
  /\ loop = [r \in Runs |-> NoLoop]
  /\ late = {}
  /\ up = TRUE
  /\ tools = {}
  /\ overtaken = {}

--------------------------------------------------------------------------------
(* The users of the repository outside the agent.                          *)

(* A session's first save: nothing done yet, idle or paused.  A snapshot   *)
(* without messages is one resume_session rejects as corrupted.            *)
FreshSnapshot(t, status, messages) ==
  [tenant |-> t, status |-> status, messages |-> messages,
   trace |-> <<>>, iteration_count |-> 0]

Create(s, t) ==
  /\ up
  /\ MayTouch(s)
  /\ rows[s] = NoRow
  /\ \E status \in {"idle", "paused"},
        messages \in {<<>>, <<Header("system"), Header("user")>>} :
       Save(s, FreshSnapshot(t, status, messages))
  /\ UNCHANGED <<call, pc, loop, late, up, tools, overtaken>>

DeleteSession(s, t) ==
  /\ up
  /\ MayTouch(s)
  /\ Visible(s, t)
  /\ Delete(s, t)
  /\ UNCHANGED <<call, pc, loop, late, up, tools, overtaken>>

(* The process dies and takes every run with it; a queued write is gone    *)
(* unless it landed before.  (With neither there is nothing to lose.)      *)
Crash ==
  /\ up
  /\ late # {} \/ \E r \in Runs : Live(r)
  /\ up' = FALSE
  /\ pc' = [r \in Runs |-> IF Live(r) THEN "dead" ELSE pc[r]]
  /\ loop' = [r \in Runs |-> NoLoop]
  /\ late' = {}
  /\ UNCHANGED <<rows, call, tools, overtaken>>

(* Startup with the repository's crash recovery.                           *)
Restart ==
  /\ ~up
  /\ up' = TRUE
  /\ MarkRunningAsPaused
  /\ UNCHANGED <<call, pc, loop, late, tools, overtaken>>

--------------------------------------------------------------------------------
(* resume_session up to the loop.                                          *)

(* The run returns and drops its local state, its slot with it.            *)
Return(r, outcome) ==
  /\ pc' = [pc EXCEPT ![r] = outcome]
  /\ loop' = [loop EXCEPT ![r] = NoLoop]

Goto(r, label) == pc' = [pc EXCEPT ![r] = label]

(* Mutants: the trace, or the iteration count, is not restored.            *)
LoopOfWithoutTrace(row) ==
  [messages |-> row.messages, trace |-> <<>>,
   turn |-> row.iteration_count, start |-> row.iteration_count]

LoopOfFirstTurn(row) ==
  [messages |-> row.messages, trace |-> row.trace, turn |-> 0, start |-> 0]

(* The snapshot as the loop's starting point.  Its status is not looked    *)
(* at: an ended or a running session is resumed like a paused one.         *)
LoopOf(row) ==
  [messages |-> row.messages, trace |-> row.trace,
   turn |-> row.iteration_count, start |-> row.iteration_count]

Resume(r) ==
  LET s == call[r].session IN
  /\ up
  /\ pc[r] = "idle"
  /\ MayTouch(s)
  /\ Visible(s, call[r].tenant)
  /\ rows[s].messages # <<>>
  /\ loop' = [loop EXCEPT ![r] = LoopOf(rows[s])]
  /\ Goto(r, "mark")
  /\ UNCHANGED <<rows, call, late, up, tools, overtaken>>

(* No such session for this tenant, a snapshot without messages, or a      *)
(* database error.                                                         *)
ResumeFails(r) ==
  /\ up
  /\ pc[r] = "idle"
  /\ MayTouch(call[r].session)
  /\ Return(r, "failed")
  /\ UNCHANGED <<rows, call, late, up, tools, overtaken>>

(* The status update may fail; that is logged and the run goes on.         *)
MarkRunning(r) ==
  /\ pc[r] = "mark"
  /\ \/ UpdateStatus(call[r].session, call[r].tenant, "running")
     \/ UNCHANGED rows
  /\ Goto(r, "acquire")
  /\ UNCHANGED <<call, loop, late, up, tools, overtaken>>

Acquire(r) ==
  /\ pc[r] = "acquire"
  /\ Cardinality(Holding) < MaxConcurrent
  /\ Goto(r, "turn")
  /\ UNCHANGED <<rows, call, loop, late, up, tools, overtaken>>

(* A slot is free but the guest does not start in it.  The row keeps the   *)
(* status MarkRunning gave it.                                             *)
AcquireFails(r) ==
  /\ pc[r] = "acquire"
  /\ Cardinality(Holding) < MaxConcurrent
  /\ Return(r, "failed")
  /\ UNCHANGED <<rows, call, late, up, tools, overtaken>>

--------------------------------------------------------------------------------
(* react_loop, one turn: think, perhaps act, checkpoint.                   *)

TurnsLeft(r) == loop[r].turn < MaxIterations

(* The history sent to the model: compressed first when it is too long.    *)
SentHistories(r) == CW!Windowed(loop[r].messages, 2 * RecentTurns, Header("summary"))

TurnMessage(r, role) == [role |-> role, turn |-> loop[r].turn, by |-> r]

(* The response is a plain thought: it joins the history.                  *)
ThinkOn(r) ==
  /\ pc[r] = "turn"
  /\ TurnsLeft(r)
  /\ \E sent \in SentHistories(r) :
       loop' = [loop EXCEPT
                  ![r].messages = Append(sent, TurnMessage(r, "assistant")),
                  ![r].trace = Append(@, [kind |-> "think", by |-> r])]
  /\ Goto(r, "save")
  /\ UNCHANGED <<rows, call, late, up, tools, overtaken>>

(* Mutant: the turn is checkpointed before its tool was called.            *)
ChooseToolUnanswered(r) ==
  /\ pc[r] = "turn"
  /\ TurnsLeft(r)
  /\ \E sent \in SentHistories(r) :
       loop' = [loop EXCEPT
                  ![r].messages = sent,
                  ![r].trace = Append(@, [kind |-> "act", by |-> r])]
  /\ Goto(r, "save")
  /\ UNCHANGED <<rows, call, late, up, tools, overtaken>>

(* The response asks for a tool: Thought and Action are traced, and the    *)
(* call is made next.                                                      *)
ChooseTool(r) ==
  /\ pc[r] = "turn"
  /\ TurnsLeft(r)
  /\ \E sent \in SentHistories(r) :
       loop' = [loop EXCEPT
                  ![r].messages = sent,
                  ![r].trace = Append(@, [kind |-> "acting", by |-> r])]
  /\ Goto(r, "tool")
  /\ UNCHANGED <<rows, call, late, up, tools, overtaken>>

(* The tool runs, or is refused: either way its answer is the observation, *)
(* which enters the history before the response that asked for it.         *)
CallTool(r) ==
  /\ pc[r] = "tool"
  /\ tools' = tools \cup {<<call[r].session, loop[r].turn, r>>}
  /\ loop' = [loop EXCEPT
                ![r].messages = @ \o <<TurnMessage(r, "observation"),
                                       TurnMessage(r, "assistant")>>,
                ![r].trace = [@ EXCEPT ![Len(@)].kind = "act"]]
  /\ Goto(r, "save")
  /\ UNCHANGED <<rows, call, late, up, overtaken>>

(* The response is a final answer: the loop returns without a checkpoint.  *)
Finish(r) ==
  /\ pc[r] = "turn"
  /\ TurnsLeft(r)
  /\ loop' = [loop EXCEPT ![r].trace = Append(@, [kind |-> "finish", by |-> r])]
  /\ Goto(r, "finishing")
  /\ UNCHANGED <<rows, call, late, up, tools, overtaken>>

(* The model cannot be reached, or the iterations are used up: the error   *)
(* leaves resume_session at once, and the row as the last write left it.   *)
LlmFails(r) ==
  /\ pc[r] = "turn"
  /\ TurnsLeft(r)
  /\ Return(r, "terminated")
  /\ UNCHANGED <<rows, call, late, up, tools, overtaken>>

MaxIterationsReached(r) ==
  /\ pc[r] = "turn"
  /\ ~TurnsLeft(r)
  /\ Return(r, "terminated")
  /\ UNCHANGED <<rows, call, late, up, tools, overtaken>>

(* Mutants: the count of the turns before this one, minus one or as it is, *)
(* and a status crash recovery does not look for.                          *)
SnapshotBehind(r) ==
  [tenant |-> call[r].tenant, status |-> "running",
   messages |-> loop[r].messages, trace |-> loop[r].trace,
   iteration_count |-> loop[r].turn - 1]

SnapshotOfTurn(r) ==
  [tenant |-> call[r].tenant, status |-> "running",
   messages |-> loop[r].messages, trace |-> loop[r].trace,
   iteration_count |-> loop[r].turn]

SnapshotPaused(r) ==
  [tenant |-> call[r].tenant, status |-> "paused",
   messages |-> loop[r].messages, trace |-> loop[r].trace,
   iteration_count |-> loop[r].turn + 1]

SnapshotOf(r) ==
  [tenant |-> call[r].tenant, status |-> "running",
   messages |-> loop[r].messages, trace |-> loop[r].trace,
   iteration_count |-> loop[r].turn + 1]

(* The turn-boundary checkpoint.  A failure is logged and the next turn    *)
(* begins all the same.                                                    *)
Checkpoint(r) ==
  /\ pc[r] = "save"
  /\ \/ Save(call[r].session, SnapshotOf(r)) /\ Overtake(r)
     \/ UNCHANGED <<rows, overtaken>>
  /\ loop' = [loop EXCEPT ![r].turn = @ + 1]
  /\ Goto(r, "turn")
  /\ UNCHANGED <<call, late, up, tools>>

--------------------------------------------------------------------------------
(* The guard and the way out.                                              *)

(* The wall clock runs out and the loop is dropped where it waits.  A      *)
(* checkpoint being written may by then be the database's business.        *)
Timeout(r) ==
  /\ pc[r] \in Guarded
  /\ Return(r, "terminated")
  /\ \/ UNCHANGED late
     \/ /\ pc[r] = "save"
        /\ late' = late \cup {[by |-> r, session |-> call[r].session,
                               snapshot |-> SnapshotOf(r)]}
  /\ UNCHANGED <<rows, call, up, tools, overtaken>>

LateWrite(r) ==
  \E w \in late :
    /\ w.by = r
    /\ \/ Save(w.session, w.snapshot) /\ Overtake(r)
       \/ UNCHANGED <<rows, overtaken>>
    /\ late' = late \ {w}
    /\ UNCHANGED <<call, pc, loop, up, tools>>

(* Status Ended, unless the update fails, and the answer is handed out.    *)
EndSession(r) ==
  /\ pc[r] = "finishing"
  /\ \/ UpdateStatus(call[r].session, call[r].tenant, "ended")
     \/ UNCHANGED rows
  /\ Return(r, "ok")
  /\ UNCHANGED <<call, late, up, tools, overtaken>>

--------------------------------------------------------------------------------
RunStep(r) ==
  \/ MarkRunning(r) \/ Acquire(r) \/ AcquireFails(r)
  \/ ThinkOn(r) \/ ChooseTool(r) \/ CallTool(r) \/ Finish(r)
  \/ LlmFails(r) \/ MaxIterationsReached(r) \/ Checkpoint(r) \/ EndSession(r)

Next ==
  \/ \E s \in Sessions, t \in Tenants : Create(s, t) \/ DeleteSession(s, t)
  \/ \E r \in Runs :
       Resume(r) \/ ResumeFails(r) \/ RunStep(r) \/ Timeout(r) \/ LateWrite(r)
  \/ Crash
  \/ Restart

Spec == Init /\ [][Next]_vars

(* The run's awaits outside the guard end, and the wall clock goes on, but *)
(* the model, the tools and the checkpoints may hang for good.             *)
ClockRuns(r) ==
  /\ WF_vars(MarkRunning(r))
  /\ WF_vars(Acquire(r) \/ AcquireFails(r))
  /\ WF_vars(Timeout(r))
  /\ WF_vars(EndSession(r))

(* Everything the run waits for answers, but its wall clock may never run  *)
(* out.  (The SSE channel takes every event: it holds 256, a turn sends    *)
(* three at most.)                                                         *)
AllAnswer(r) == WF_vars(RunStep(r))

FairSpec == Spec /\ \A r \in Runs : ClockRuns(r) \/ AllAnswer(r)

--------------------------------------------------------------------------------
(* Invariants.                                                             *)

LoopState == [messages : Seq(Message), trace : Seq(Turn), turn : Nat, start : Nat]

(* Every variable of the model has its type.                               *)
TypeOK ==
  /\ RepoTypeOK
  /\ call \in [Runs -> [session : Sessions, tenant : Tenants]]
  /\ pc \in [Runs -> {"idle", "mark", "acquire", "finishing"} \cup Guarded \cup Returned]
  /\ loop \in [Runs -> LoopState]
  /\ late \subseteq [by : Runs, session : Sessions, snapshot : Snapshot]
  /\ up \in BOOLEAN
  /\ tools \subseteq Sessions \X Nat \X Runs
  /\ overtaken \subseteq Runs

WholeTrace(trace) == \A k \in 1..Len(trace) : trace[k].kind \in {"think", "act"}

(* A row is a turn boundary, whatever was interrupted, retried or written  *)
(* late: its trace holds exactly iteration_count turns, each complete (an  *)
(* action never without its observation, never a finish), and never more   *)
(* of them than max_iterations, over all the runs that worked on the       *)
(* session.                                                                *)
RowsAreTurnBoundaries ==
  \A s \in Sessions : rows[s] # NoRow =>
    /\ Len(rows[s].trace) = rows[s].iteration_count
    /\ rows[s].iteration_count <= MaxIterations
    /\ WholeTrace(rows[s].trace)

(* An observation in the table is the answer to a call that was made: for  *)
(* that session, in that turn, by the run that recorded it.                *)
RecordedCallsWereMade ==
  \A s \in Sessions : rows[s] # NoRow =>
    \A k \in 1..Len(rows[s].trace) :
      rows[s].trace[k].kind = "act" => <<s, k - 1, rows[s].trace[k].by>> \in tools

(* No tenant's work ends up in another tenant's row, not even when a       *)
(* session id is deleted and taken over by another tenant while runs and   *)
(* writes of the first are still under way.                                *)
TenantsApart ==
  \A s \in Sessions : rows[s] # NoRow =>
    \A k \in 1..Len(rows[s].trace) :
      call[rows[s].trace[k].by] = [session |-> s, tenant |-> rows[s].tenant]

(* The messages a trace stands for, uncompressed and without the header.   *)
TurnMessages(trace, k) ==
  LET Message_(role) == [role |-> role, turn |-> k - 1, by |-> trace[k].by]
  IN  IF trace[k].kind = "act"
      THEN <<Message_("observation"), Message_("assistant")>>
      ELSE <<Message_("assistant")>>

History(trace) == FlattenSeq([k \in 1..Len(trace) |-> TurnMessages(trace, k)])

(* However often the history was compressed and by however many runs, a    *)
(* snapshot opens with the system prompt and closes, word for word, with   *)
(* its last turn and the 2 * recent_turns messages before it: those the    *)
(* model was shown for that turn.                                          *)
RecentTurnsVerbatim ==
  \A s \in Sessions : rows[s] # NoRow /\ rows[s].trace # <<>> =>
    LET messages == rows[s].messages
        trace    == rows[s].trace
        history  == History(trace)
        shown    == 2 * RecentTurns + Len(TurnMessages(trace, Len(trace)))
        closing  == IF Len(history) <= shown THEN history
                    ELSE SubSeq(history, Len(history) - shown + 1, Len(history))
    IN  messages[1] = Header("system") /\ IsSuffix(closing, Tail(messages))

(* The answer handed out comes with the whole execution: the turns of the  *)
(* runs before, each complete, and this run's finish.                      *)
AnswersAreWhole ==
  \A r \in Runs : pc[r] = "finishing" =>
    LET trace == loop[r].trace IN
    /\ Len(trace) = loop[r].turn + 1
    /\ WholeTrace(Front(trace))
    /\ Last(trace) = [kind |-> "finish", by |-> r]

(* Crash recovery finds every interrupted session.  When callers take      *)
(* turns, a session a run is working on has a row that says running, or    *)
(* (the status update having failed) one this run has not changed yet:     *)
(* recovery may miss a run, never a turn of it.                            *)
CrashDetectable ==
  Exclusive =>
    \A r \in Runs : pc[r] \in {"acquire"} \cup Guarded \cup {"finishing"} =>
      LET s == call[r].session IN
      /\ Visible(s, call[r].tenant)
      /\ \/ rows[s].status = "running"
         \/ rows[s].iteration_count = loop[r].start

(* A turn that is durable is acted out again in one way only: by a run     *)
(* that was overtaken.  Any other is past what its session's row holds     *)
(* when it calls a tool, whether or not the call ever comes back.          *)
NoDurableTurnReplayed ==
  \A r \in Runs \ overtaken :
    LET row == rows[call[r].session] IN
    pc[r] = "tool" /\ row # NoRow => row.iteration_count <= loop[r].turn

--------------------------------------------------------------------------------
(* What a step may never do.                                               *)

(* A turn that was durable is lost in one way only: the upsert asks for no *)
(* version, so a run that was overtaken writes over what it does not know. *)
(* Crashes, timeouts, failed writes and status updates lose none.  Where   *)
(* callers take turns, only a checkpoint cancelled by the wall clock and   *)
(* still on its way when the session is resumed has a run overtaken: then  *)
(* the turns of either run may go.                                         *)
NoTurnLost ==
  [][/\ \A s \in Sessions :
          rows[s] # NoRow /\ rows'[s] # NoRow /\ ~IsPrefix(rows[s].trace, rows'[s].trace) =>
            \E r \in overtaken : call[r].session = s /\ (Checkpoint(r) \/ LateWrite(r))
     /\ Exclusive /\ overtaken' # overtaken => late # {}]_vars

--------------------------------------------------------------------------------
(* What must eventually happen.                                            *)

(* Every run returns (or dies with its process) and gives its slot back:   *)
(* because of the wall clock, though the model or a tool hangs and the run *)
(* had to wait for the slot of a hanging one; or because of the iteration  *)
(* limit, though the wall clock never runs out; or each for a reason of    *)
(* its own.                                                                *)
RunsReturn == \A r \in Runs : Live(r) ~> pc[r] \in Returned

--------------------------------------------------------------------------------
(* What the repository's documentation says and the code does not do.      *)

(* repository.rs:80-81: update_status "Returns an error if the transition  *)
(* is invalid (e.g., ended -> running)".                                   *)
EndedNeverRunsAgain ==
  [][\A s \in Sessions :
       rows[s] # NoRow /\ rows'[s] # NoRow /\ rows[s].status = "ended" =>
         rows'[s].status # "running"]_vars
================================================================================
