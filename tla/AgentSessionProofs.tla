--------------------------- MODULE AgentSessionProofs ---------------------------
(***************************************************************************)
(* Theorems about AgentSession, for any number of sessions, tenants and    *)
(* runs and any configuration of the guard, and about WindowedHistory for  *)
(* any weights and window.                                                 *)
(***************************************************************************)
EXTENDS AgentSession, WindowedHistory, FoldLemmas, SequenceTheorems, TLAPS

--------------------------------------------------------------------------------
(* The sequences the actions build.                                        *)

(* What the window check leaves of a history is a history.                 *)
LEMMA WindowedType ==
  ASSUME NEW messages \in Seq(Message), NEW keep \in Nat, NEW summary \in Message,
         NEW sent \in CW!Windowed(messages, keep, summary)
  PROVE  sent \in Seq(Message)
<1>1. CASE sent = messages
  BY <1>1
<1>2. CASE CW!Compressible(messages, keep) /\ sent # messages
  <2>1. Len(messages) \in Nat /\ Len(messages) > keep + 3
    BY <1>2 DEF CW!Compressible
  <2>2. \A i \in 1..Len(messages) : messages[i] \in Message
    BY ElementOfSeq
  <2>3. CW!Recent(messages, keep) \in Seq(Message)
    BY <2>1, <2>2, SubSeqProperties DEF CW!Recent
  <2>4. messages[1] \in Message /\ messages[2] \in Message
    BY <2>1, <2>2
  <2>5. /\ <<messages[1], messages[2], summary>> \in Seq(Message)
        /\ <<messages[1], summary>> \in Seq(Message)
        /\ <<messages[1]>> \in Seq(Message)
    BY <2>4
  <2>6. sent \in {CW!Compressed(messages, keep, summary),
                  CW!Fallback(messages, keep, summary), CW!Minimal(messages, keep)}
    BY <1>2 DEF CW!Windowed
  <2> QED
    BY <2>3, <2>5, <2>6, ConcatProperties
    DEF CW!Compressed, CW!Fallback, CW!Minimal
<1> QED
  BY <1>1, <1>2 DEF CW!Windowed

(* Appending to a trace.                                                   *)
LEMMA AppendTurn ==
  ASSUME NEW trace \in Seq(Turn), NEW turn \in Turn
  PROVE  /\ Append(trace, turn) \in Seq(Turn)
         /\ Len(Append(trace, turn)) = Len(trace) + 1
         /\ \A k \in 1..Len(trace) : Append(trace, turn)[k] = trace[k]
         /\ Append(trace, turn)[Len(trace) + 1] = turn
  OBVIOUS

(* Completing the last turn of a trace with its observation.               *)
Answered(trace) == [trace EXCEPT ![Len(trace)].kind = "act"]

(* The turn keeps its place and its author, and the turns before it stay.  *)
LEMMA AnsweredTurn ==
  ASSUME NEW trace \in Seq(Turn)
  PROVE  /\ Answered(trace) \in Seq(Turn)
         /\ Len(Answered(trace)) = Len(trace)
         /\ \A k \in 1..(Len(trace) - 1) : Answered(trace)[k] = trace[k]
         /\ Len(trace) > 0 =>
              Answered(trace)[Len(trace)] = [kind |-> "act", by |-> trace[Len(trace)].by]
<1> DEFINE last == [trace[Len(trace)] EXCEPT !.kind = "act"]
<1>1. CASE Len(trace) = 0
  <2>1. Answered(trace) = trace
    BY <1>1, LenProperties DEF Answered
  <2> QED
    BY <1>1, <2>1
<1>2. CASE Len(trace) # 0
  <2>1. Len(trace) \in 1..Len(trace)
    BY <1>2
  <2>2. trace[Len(trace)] \in Turn
    BY <2>1, ElementOfSeq
  <2>3. last \in Turn /\ last = [kind |-> "act", by |-> trace[Len(trace)].by]
    BY <2>2 DEF Turn
  <2>4. Answered(trace) = [trace EXCEPT ![Len(trace)] = last]
    BY DEF Answered
  <2> QED
    BY <2>1, <2>3, <2>4, ExceptSeq
<1> QED
  BY <1>1, <1>2

--------------------------------------------------------------------------------
(* Types.                                                                  *)

(* The upsert sets every column but the ids, and these are the same.       *)
LEMMA SaveReplaces ==
  ASSUME RepoTypeOK, NEW s \in Sessions, NEW snapshot \in Snapshot, Save(s, snapshot)
  PROVE  rows' = [rows EXCEPT ![s] = snapshot]
<1>1. CASE rows[s] = NoRow
  BY <1>1 DEF Save, Upserted
<1>2. CASE rows[s] # NoRow
  <2>1. rows[s].tenant = snapshot.tenant
    BY <1>2 DEF Save, CanSave
  <2>2. [snapshot EXCEPT !.tenant = snapshot.tenant] = snapshot
    BY DEF Snapshot
  <2>3. Upserted(rows[s], snapshot) = snapshot
    BY <1>2, <2>1, <2>2 DEF Upserted
  <2> QED
    BY <2>3 DEF Save
<1> QED
  BY <1>1, <1>2

(* The statements of the session table keep its type: the upsert, ...      *)
LEMMA SaveType ==
  ASSUME RepoTypeOK, NEW s \in Sessions, NEW snapshot \in Snapshot, Save(s, snapshot)
  PROVE  RepoTypeOK'
BY SaveReplaces DEF RepoTypeOK

(* ... the status update and the deletion, ...                             *)
LEMMA UpdateStatusType ==
  ASSUME RepoTypeOK, NEW s \in Sessions, NEW t \in Tenants,
         NEW status \in SessionStatus, UpdateStatus(s, t, status)
  PROVE  RepoTypeOK'
<1>1. CASE Visible(s, t)
  <2>1. rows[s] \in Snapshot
    BY <1>1 DEF RepoTypeOK, Visible
  <2>2. [rows[s] EXCEPT !.status = status] \in Snapshot
    BY <2>1 DEF Snapshot
  <2>3. rows' = [rows EXCEPT ![s] = [rows[s] EXCEPT !.status = status]]
    BY <1>1 DEF UpdateStatus
  <2> QED
    BY <2>2, <2>3 DEF RepoTypeOK
<1>2. CASE ~Visible(s, t)
  BY <1>2 DEF UpdateStatus, RepoTypeOK
<1> QED
  BY <1>1, <1>2

(* ... and crash recovery.                                                 *)
LEMMA RecoveryType ==
  ASSUME RepoTypeOK, MarkRunningAsPaused
  PROVE  RepoTypeOK'
<1>1. \A s \in Sessions : rows'[s] \in Snapshot \cup {NoRow}
  <2> TAKE s \in Sessions
  <2>1. rows[s] \in Snapshot \cup {NoRow}
    BY DEF RepoTypeOK
  <2>2. CASE rows[s] # NoRow /\ rows[s].status = "running"
    <3>1. rows'[s] = [rows[s] EXCEPT !.status = "paused"]
      BY <2>2 DEF MarkRunningAsPaused
    <3> QED
      BY <2>1, <2>2, <3>1 DEF Snapshot, SessionStatus
  <2>3. CASE ~(rows[s] # NoRow /\ rows[s].status = "running")
    BY <2>1, <2>3 DEF MarkRunningAsPaused
  <2> QED
    BY <2>2, <2>3
<1> QED
  BY <1>1 DEF RepoTypeOK, MarkRunningAsPaused

(* A run in a typed state writes typed snapshots.                          *)
LEMMA SnapshotOfType ==
  ASSUME TypeOK, NEW r \in Runs
  PROVE  SnapshotOf(r) \in Snapshot
<1>1. loop[r] \in LoopState /\ call[r].tenant \in Tenants
  BY DEF TypeOK
<1> QED
  BY <1>1 DEF SnapshotOf, Snapshot, SessionStatus, LoopState

(* The headers of a history are messages.                                  *)
LEMMA HeaderType == \A role \in {"system", "user", "summary"} : Header(role) \in Message
BY DEF Header, Message

(* What a run adds to its history is a message of its turn.                *)
LEMMA TurnMessageType ==
  ASSUME TypeOK, NEW r \in Runs
  PROVE  \A role \in {"observation", "assistant"} : TurnMessage(r, role) \in Message
<1>1. loop[r].turn \in Nat
  BY DEF TypeOK, LoopState
<1> QED
  BY <1>1 DEF TurnMessage, Message

(* The history a run sends to the model is a history.                      *)
LEMMA SentType ==
  ASSUME TypeOK, NEW r \in Runs, NEW sent \in SentHistories(r)
  PROVE  sent \in Seq(Message)
<1>1. loop[r].messages \in Seq(Message)
  BY DEF TypeOK, LoopState
<1>2. 2 * RecentTurns \in Nat
  BY AgentAssumption
<1> QED
  BY <1>1, <1>2, HeaderType, WindowedType DEF SentHistories

(* A run moves to a place and a loop state that have their types.          *)
LEMMA LoopStepType ==
  ASSUME TypeOK, NEW r \in Runs, NEW new \in LoopState,
         loop' = [loop EXCEPT ![r] = new],
         NEW label \in {"idle", "mark", "acquire", "finishing"} \cup Guarded \cup Returned,
         pc' = [pc EXCEPT ![r] = label],
         RepoTypeOK', tools' \subseteq Sessions \X Nat \X Runs,
         late' \subseteq [by : Runs, session : Sessions, snapshot : Snapshot],
         overtaken' \subseteq Runs,
         UNCHANGED <<call, up>>
  PROVE  TypeOK'
BY DEF TypeOK

(* A run without a loop has a typed loop state.                            *)
LEMMA NoLoopType == NoLoop \in LoopState
BY DEF NoLoop, LoopState

(* Whatever the runs, the callers, the crashes and the database do, every  *)
(* variable keeps its type: no write leaves the table with a row that is   *)
(* not a snapshot.                                                         *)
THEOREM TypeInvariant == Spec => []TypeOK
<1> USE DEF Guarded, Returned
<1>1. Init => TypeOK
  <2> SUFFICES ASSUME Init PROVE TypeOK
    OBVIOUS
  <2>1. loop \in [Runs -> LoopState]
    BY NoLoopType DEF Init
  <2> QED
    BY <2>1 DEF Init, TypeOK, RepoInit, RepoTypeOK
<1>2. TypeOK /\ [Next]_vars => TypeOK'
  <2> SUFFICES ASSUME TypeOK, [Next]_vars PROVE TypeOK'
    OBVIOUS
  <2>0. /\ RepoTypeOK
        /\ tools \subseteq Sessions \X Nat \X Runs
        /\ late \subseteq [by : Runs, session : Sessions, snapshot : Snapshot]
        /\ overtaken \subseteq Runs
        /\ \A r \in Runs : loop[r] \in LoopState
        /\ \A r \in Runs : call[r].session \in Sessions /\ call[r].tenant \in Tenants
    BY DEF TypeOK
  <2>rows. UNCHANGED rows => RepoTypeOK'
    BY <2>0 DEF RepoTypeOK
  <2>out. ASSUME NEW r \in Runs, NEW outcome \in Returned, Return(r, outcome), RepoTypeOK',
                 late' \subseteq [by : Runs, session : Sessions, snapshot : Snapshot],
                 UNCHANGED <<call, up, tools, overtaken>>
          PROVE  TypeOK'
    BY <2>0, <2>out, NoLoopType, LoopStepType DEF Return
  <2>1. ASSUME NEW s \in Sessions, NEW t \in Tenants, Create(s, t) PROVE TypeOK'
    <3>1. PICK status \in {"idle", "paused"},
               messages \in {<<>>, <<Header("system"), Header("user")>>} :
               Save(s, FreshSnapshot(t, status, messages))
      BY <2>1 DEF Create
    <3>2. messages \in Seq(Message)
      <4>1. Header("system") \in Message /\ Header("user") \in Message
        BY HeaderType
      <4>2. <<Header("system"), Header("user")>> \in Seq(Message)
        BY <4>1
      <4>3. messages = <<>> \/ messages = <<Header("system"), Header("user")>>
        OBVIOUS
      <4> QED
        BY <4>2, <4>3, EmptySeq
    <3>3. FreshSnapshot(t, status, messages) \in Snapshot
      BY <3>2 DEF FreshSnapshot, Snapshot, SessionStatus
    <3>4. RepoTypeOK'
      BY <2>0, <3>1, <3>3, SaveType
    <3> QED
      BY <2>1, <3>4 DEF Create, TypeOK
  <2>2. ASSUME NEW s \in Sessions, NEW t \in Tenants, DeleteSession(s, t) PROVE TypeOK'
    BY <2>2 DEF DeleteSession, Delete, TypeOK, RepoTypeOK
  <2>3. ASSUME NEW r \in Runs, LateWrite(r) PROVE TypeOK'
    <3>1. PICK w \in late :
            /\ Save(w.session, w.snapshot) \/ UNCHANGED rows
            /\ Overtake(r) \/ UNCHANGED overtaken
            /\ late' = late \ {w}
            /\ UNCHANGED <<call, pc, loop, up, tools>>
      BY <2>3 DEF LateWrite
    <3>2. w.session \in Sessions /\ w.snapshot \in Snapshot
      BY <2>0
    <3>3. RepoTypeOK'
      BY <2>0, <2>rows, <3>1, <3>2, SaveType
    <3>4. overtaken' \subseteq Runs
      BY <2>0, <3>1 DEF Overtake
    <3> QED
      BY <3>1, <3>3, <3>4 DEF TypeOK
  <2>4. CASE Crash
    BY <2>4, NoLoopType DEF Crash, TypeOK, RepoTypeOK
  <2>5. CASE Restart
    BY <2>0, <2>5, RecoveryType DEF Restart, TypeOK
  <2>6. ASSUME NEW r \in Runs, Resume(r) PROVE TypeOK'
    <3> DEFINE row == rows[call[r].session]
    <3>1. row \in Snapshot
      BY <2>0, <2>6 DEF Resume, Visible, RepoTypeOK
    <3>2. LoopOf(row) \in LoopState
      BY <3>1 DEF LoopOf, LoopState, Snapshot
    <3>3. RepoTypeOK'
      BY <2>6, <2>rows DEF Resume
    <3> QED
      BY <2>0, <2>6, <3>2, <3>3, LoopStepType DEF Resume, Goto
  <2>7. ASSUME NEW r \in Runs, ResumeFails(r) PROVE TypeOK'
    BY <2>0, <2>7, <2>rows, <2>out DEF ResumeFails
  <2>8. ASSUME NEW r \in Runs, MarkRunning(r) PROVE TypeOK'
    <3>1. RepoTypeOK'
      BY <2>0, <2>8, <2>rows, UpdateStatusType DEF MarkRunning, SessionStatus
    <3> QED
      BY <2>8, <3>1 DEF MarkRunning, Goto, TypeOK
  <2>9. ASSUME NEW r \in Runs, Acquire(r) PROVE TypeOK'
    BY <2>9, <2>rows DEF Acquire, Goto, TypeOK
  <2>10. ASSUME NEW r \in Runs, AcquireFails(r) PROVE TypeOK'
    BY <2>0, <2>10, <2>rows, <2>out DEF AcquireFails
  <2>11. ASSUME NEW r \in Runs, ThinkOn(r) PROVE TypeOK'
    <3>1. PICK sent \in SentHistories(r) :
            loop' = [loop EXCEPT
                       ![r].messages = Append(sent, TurnMessage(r, "assistant")),
                       ![r].trace = Append(@, [kind |-> "think", by |-> r])]
      BY <2>11 DEF ThinkOn
    <3> DEFINE new == [loop[r] EXCEPT
                         !.messages = Append(sent, TurnMessage(r, "assistant")),
                         !.trace = Append(loop[r].trace, [kind |-> "think", by |-> r])]
    <3>2. loop' = [loop EXCEPT ![r] = new]
      BY <2>0, <3>1 DEF LoopState
    <3>3. sent \in Seq(Message) /\ TurnMessage(r, "assistant") \in Message
      BY SentType, TurnMessageType
    <3>4. Append(sent, TurnMessage(r, "assistant")) \in Seq(Message)
      BY <3>3
    <3>5. Append(loop[r].trace, [kind |-> "think", by |-> r]) \in Seq(Turn)
      BY <2>0, AppendTurn DEF LoopState, Turn
    <3>6. new \in LoopState
      BY <2>0, <3>4, <3>5 DEF LoopState
    <3> QED
      BY <2>0, <2>11, <2>rows, <3>2, <3>6, LoopStepType DEF ThinkOn, Goto
  <2>12. ASSUME NEW r \in Runs, ChooseTool(r) PROVE TypeOK'
    <3>1. PICK sent \in SentHistories(r) :
            loop' = [loop EXCEPT
                       ![r].messages = sent,
                       ![r].trace = Append(@, [kind |-> "acting", by |-> r])]
      BY <2>12 DEF ChooseTool
    <3> DEFINE new == [loop[r] EXCEPT
                         !.messages = sent,
                         !.trace = Append(loop[r].trace, [kind |-> "acting", by |-> r])]
    <3>2. loop' = [loop EXCEPT ![r] = new]
      BY <2>0, <3>1 DEF LoopState
    <3>3. sent \in Seq(Message)
      BY SentType
    <3>4. Append(loop[r].trace, [kind |-> "acting", by |-> r]) \in Seq(Turn)
      BY <2>0, AppendTurn DEF LoopState, Turn
    <3>5. new \in LoopState
      BY <2>0, <3>3, <3>4 DEF LoopState
    <3> QED
      BY <2>0, <2>12, <2>rows, <3>2, <3>5, LoopStepType DEF ChooseTool, Goto
  <2>13. ASSUME NEW r \in Runs, CallTool(r) PROVE TypeOK'
    <3> DEFINE said == <<TurnMessage(r, "observation"), TurnMessage(r, "assistant")>>
               new == [loop[r] EXCEPT !.messages = loop[r].messages \o said,
                                      !.trace = Answered(loop[r].trace)]
    <3>1. loop' = [loop EXCEPT ![r] = new]
      BY <2>0, <2>13 DEF CallTool, Answered, LoopState
    <3>2. said \in Seq(Message)
      BY TurnMessageType
    <3>3. loop[r].messages \o said \in Seq(Message)
      BY <2>0, <3>2, ConcatProperties DEF LoopState
    <3>4. Answered(loop[r].trace) \in Seq(Turn)
      BY <2>0, AnsweredTurn DEF LoopState
    <3>5. new \in LoopState
      BY <2>0, <3>3, <3>4 DEF LoopState
    <3>6. tools' \subseteq Sessions \X Nat \X Runs
      BY <2>0, <2>13 DEF CallTool, LoopState
    <3> QED
      BY <2>0, <2>13, <2>rows, <3>1, <3>5, <3>6, LoopStepType DEF CallTool, Goto
  <2>14. ASSUME NEW r \in Runs, Finish(r) PROVE TypeOK'
    <3> DEFINE new == [loop[r] EXCEPT
                         !.trace = Append(loop[r].trace, [kind |-> "finish", by |-> r])]
    <3>1. loop' = [loop EXCEPT ![r] = new]
      BY <2>0, <2>14 DEF Finish, LoopState
    <3>2. Append(loop[r].trace, [kind |-> "finish", by |-> r]) \in Seq(Turn)
      BY <2>0, AppendTurn DEF LoopState, Turn
    <3>3. new \in LoopState
      BY <2>0, <3>2 DEF LoopState
    <3> QED
      BY <2>0, <2>14, <2>rows, <3>1, <3>3, LoopStepType DEF Finish, Goto
  <2>15. ASSUME NEW r \in Runs, LlmFails(r) PROVE TypeOK'
    BY <2>0, <2>15, <2>rows, <2>out DEF LlmFails
  <2>16. ASSUME NEW r \in Runs, MaxIterationsReached(r) PROVE TypeOK'
    BY <2>0, <2>16, <2>rows, <2>out DEF MaxIterationsReached
  <2>17. ASSUME NEW r \in Runs, Checkpoint(r) PROVE TypeOK'
    <3> DEFINE new == [loop[r] EXCEPT !.turn = loop[r].turn + 1]
    <3>1. loop' = [loop EXCEPT ![r] = new]
      BY <2>0, <2>17 DEF Checkpoint, LoopState
    <3>2. new \in LoopState
      BY <2>0 DEF LoopState
    <3>3. RepoTypeOK'
      BY <2>0, <2>17, <2>rows, SnapshotOfType, SaveType DEF Checkpoint
    <3>4. overtaken' \subseteq Runs
      BY <2>0, <2>17 DEF Checkpoint, Overtake
    <3> QED
      BY <2>0, <2>17, <3>1, <3>2, <3>3, <3>4, LoopStepType DEF Checkpoint, Goto
  <2>18. ASSUME NEW r \in Runs, Timeout(r) PROVE TypeOK'
    <3>1. late' \subseteq [by : Runs, session : Sessions, snapshot : Snapshot]
      BY <2>0, <2>18, SnapshotOfType DEF Timeout
    <3> QED
      BY <2>18, <2>rows, <2>out, <3>1 DEF Timeout
  <2>19. ASSUME NEW r \in Runs, EndSession(r) PROVE TypeOK'
    <3>1. RepoTypeOK'
      BY <2>0, <2>19, <2>rows, UpdateStatusType DEF EndSession, SessionStatus
    <3> QED
      BY <2>0, <2>19, <2>out, <3>1 DEF EndSession
  <2>20. CASE UNCHANGED vars
    BY <2>20 DEF vars, TypeOK, RepoTypeOK
  <2> QED
    BY <2>1, <2>2, <2>3, <2>4, <2>5, <2>6, <2>7, <2>8, <2>9, <2>10, <2>11, <2>12,
       <2>13, <2>14, <2>15, <2>16, <2>17, <2>18, <2>19, <2>20 DEF Next, RunStep
<1> QED
  BY <1>1, <1>2, PTL DEF Spec

--------------------------------------------------------------------------------
(* The inductive invariant.  A row is as good as the loop that wrote it,   *)
(* and a loop starts from a row; so the facts about rows are kept up by    *)
(* the same facts about the loops, at every await, and about the writes    *)
(* that outlive their run.                                                 *)

(* The first n turns of the trace are complete, by runs that were called   *)
(* for session s of tenant t, and their tools were called.                 *)
Genuine(calls, made, trace, n, s, t) ==
  \A k \in 1..n :
    /\ trace[k].kind \in {"think", "act"}
    /\ calls[trace[k].by] = [session |-> s, tenant |-> t]
    /\ trace[k].kind = "act" => <<s, k - 1, trace[k].by>> \in made

Boundary(calls, made, s, snapshot) ==
  /\ Len(snapshot.trace) = snapshot.iteration_count
  /\ snapshot.iteration_count <= MaxIterations
  /\ Genuine(calls, made, snapshot.trace, snapshot.iteration_count, s, snapshot.tenant)

Complete(r) == IF pc[r] = "save" THEN loop[r].turn + 1 ELSE loop[r].turn

LoopInv(r) ==
  Live(r) =>
    /\ pc[r] \in {"mark", "acquire", "turn"} =>
         Len(loop[r].trace) = loop[r].turn /\ loop[r].turn <= MaxIterations
    /\ pc[r] \in {"tool", "save", "finishing"} =>
         Len(loop[r].trace) = loop[r].turn + 1 /\ loop[r].turn < MaxIterations
    /\ Genuine(call, tools, loop[r].trace, Complete(r), call[r].session, call[r].tenant)
    /\ pc[r] = "tool" =>
         loop[r].trace[loop[r].turn + 1] = [kind |-> "acting", by |-> r]
    /\ pc[r] = "finishing" =>
         loop[r].trace[loop[r].turn + 1] = [kind |-> "finish", by |-> r]

RowsGenuine ==
  \A s \in Sessions : rows[s] # NoRow => Boundary(call, tools, s, rows[s])

LateGenuine == \A w \in late : Boundary(call, tools, w.session, w.snapshot)

LoopsGenuine == \A r \in Runs : LoopInv(r)

TracesInv == RowsGenuine /\ LateGenuine /\ LoopsGenuine

(* More calls made, or fewer turns looked at, and turns stay genuine.      *)
LEMMA GenuineKept ==
  ASSUME NEW calls, NEW made, NEW more, made \subseteq more,
         NEW trace, NEW n \in Nat, NEW m \in Nat, m <= n, NEW s, NEW t,
         Genuine(calls, made, trace, n, s, t)
  PROVE  Genuine(calls, more, trace, m, s, t)
BY DEF Genuine

(* So do they in a longer trace, ...                                       *)
LEMMA GenuineInLonger ==
  ASSUME NEW calls, NEW made, NEW trace, NEW longer, NEW n \in Nat, NEW s, NEW t,
         Genuine(calls, made, trace, n, s, t),
         \A k \in 1..n : longer[k] = trace[k]
  PROVE  Genuine(calls, made, longer, n, s, t)
BY DEF Genuine

(* ... and one more genuine turn makes them one more.                      *)
LEMMA GenuineExtended ==
  ASSUME NEW calls, NEW made, NEW trace, NEW n \in Nat, NEW s, NEW t,
         Genuine(calls, made, trace, n, s, t),
         trace[n + 1].kind \in {"think", "act"},
         calls[trace[n + 1].by] = [session |-> s, tenant |-> t],
         trace[n + 1].kind = "act" => <<s, n, trace[n + 1].by>> \in made
  PROVE  Genuine(calls, made, trace, n + 1, s, t)
<1>1. \A k \in 1..(n + 1) : k \in 1..n \/ k = n + 1
  OBVIOUS
<1>2. (n + 1) - 1 = n
  OBVIOUS
<1> QED
  BY <1>1, <1>2 DEF Genuine

(* The three turns a loop appends, and the one it completes.               *)
LEMMA GenuineAppended ==
  ASSUME NEW calls, NEW made, NEW trace \in Seq(Turn), NEW turn \in Turn,
         NEW n \in Nat, Len(trace) = n, NEW s, NEW t,
         Genuine(calls, made, trace, n, s, t)
  PROVE  /\ Len(Append(trace, turn)) = n + 1
         /\ Append(trace, turn)[n + 1] = turn
         /\ Genuine(calls, made, Append(trace, turn), n, s, t)
<1> DEFINE longer == Append(trace, turn)
<1>1. /\ Len(longer) = n + 1
      /\ \A k \in 1..n : longer[k] = trace[k]
      /\ longer[n + 1] = turn
  BY AppendTurn
<1> HIDE DEF longer
<1>2. Genuine(calls, made, longer, n, s, t)
  BY <1>1, GenuineInLonger
<1> QED
  BY <1>1, <1>2 DEF longer

(* A plain thought is a genuine turn.                                      *)
LEMMA ThoughtAppended ==
  ASSUME NEW calls, NEW made, NEW trace \in Seq(Turn), NEW turn \in Turn,
         NEW n \in Nat, Len(trace) = n, NEW s, NEW t,
         Genuine(calls, made, trace, n, s, t),
         turn.kind = "think", calls[turn.by] = [session |-> s, tenant |-> t]
  PROVE  Genuine(calls, made, Append(trace, turn), n + 1, s, t)
<1> DEFINE longer == Append(trace, turn)
<1>1. longer[n + 1] = turn /\ Genuine(calls, made, longer, n, s, t)
  BY GenuineAppended
<1> HIDE DEF longer
<1>2. Genuine(calls, made, longer, n + 1, s, t)
  BY <1>1, GenuineExtended
<1> QED
  BY <1>2 DEF longer

(* The call that is made turns the open action into a genuine turn.        *)
LEMMA GenuineAnswered ==
  ASSUME NEW calls, NEW made, NEW trace \in Seq(Turn), NEW n \in Nat,
         Len(trace) = n + 1, NEW s, NEW t,
         Genuine(calls, made, trace, n, s, t),
         calls[trace[n + 1].by] = [session |-> s, tenant |-> t],
         <<s, n, trace[n + 1].by>> \in made
  PROVE  /\ Len(Answered(trace)) = n + 1
         /\ Genuine(calls, made, Answered(trace), n + 1, s, t)
<1>1. /\ Len(Answered(trace)) = n + 1
      /\ \A k \in 1..n : Answered(trace)[k] = trace[k]
      /\ Answered(trace)[n + 1] = [kind |-> "act", by |-> trace[n + 1].by]
  <2>1. (n + 1) - 1 = n /\ n + 1 > 0
    OBVIOUS
  <2> QED
    BY <2>1, AnsweredTurn
<1>2. Genuine(calls, made, Answered(trace), n, s, t)
  BY <1>1, GenuineInLonger
<1> DEFINE answered == Answered(trace)
<1> HIDE DEF answered
<1>3. Genuine(calls, made, answered, n + 1, s, t)
  BY <1>1, <1>2, GenuineExtended DEF answered
<1> QED
  BY <1>1, <1>3 DEF answered

(* What is true of a step whatever it does: nobody's call changes, and a   *)
(* tool call that was made stays made.                                     *)
LEMMA StepKeepsHistory ==
  ASSUME [Next]_vars
  PROVE  call' = call /\ tools \subseteq tools'
BY DEF Next, vars, RunStep, Create, DeleteSession, LateWrite, Crash, Restart, Resume,
       ResumeFails, MarkRunning, Acquire, AcquireFails, ThinkOn, ChooseTool, CallTool,
       Finish, LlmFails, MaxIterationsReached, Checkpoint, Timeout, EndSession

(* A turn boundary stays one when more calls are made.                     *)
LEMMA BoundaryKept ==
  ASSUME NEW calls, NEW made, NEW more, made \subseteq more, NEW s,
         NEW snapshot \in Snapshot, Boundary(calls, made, s, snapshot)
  PROVE  Boundary(calls, more, s, snapshot)
BY GenuineKept DEF Boundary, Snapshot

(* Rows survive a step that leaves them alone, deletes them, changes their *)
(* status or replaces them with turn boundaries.                           *)
LEMMA RowsStep ==
  ASSUME TypeOK, RowsGenuine, call' = call, tools \subseteq tools',
         \A s \in Sessions :
           \/ rows'[s] = rows[s]
           \/ rows'[s] = NoRow
           \/ /\ rows[s] # NoRow
              /\ \E status \in SessionStatus : rows'[s] = [rows[s] EXCEPT !.status = status]
           \/ Boundary(call, tools, s, rows'[s]) /\ rows'[s] \in Snapshot
  PROVE  RowsGenuine'
<1> SUFFICES ASSUME NEW s \in Sessions, rows'[s] # NoRow
             PROVE  Boundary(call, tools', s, rows'[s])
  BY DEF RowsGenuine
<1>1. CASE rows[s] # NoRow /\ rows'[s] = rows[s]
  BY <1>1, BoundaryKept DEF RowsGenuine, TypeOK, RepoTypeOK
<1>2. ASSUME rows[s] # NoRow, NEW status \in SessionStatus,
             rows'[s] = [rows[s] EXCEPT !.status = status]
      PROVE  Boundary(call, tools', s, rows'[s])
  <2>1. rows[s] \in Snapshot
    BY <1>2 DEF TypeOK, RepoTypeOK
  <2>2. /\ rows'[s].trace = rows[s].trace
        /\ rows'[s].iteration_count = rows[s].iteration_count
        /\ rows'[s].tenant = rows[s].tenant
    BY <1>2, <2>1 DEF Snapshot
  <2>3. Boundary(call, tools', s, rows[s])
    BY <1>2, <2>1, BoundaryKept DEF RowsGenuine
  <2> QED
    BY <2>2, <2>3 DEF Boundary
<1>3. CASE Boundary(call, tools, s, rows'[s]) /\ rows'[s] \in Snapshot
  BY <1>3, BoundaryKept
<1> QED
  BY <1>1, <1>2, <1>3

(* Queued writes stay turn boundaries when one is taken off the queue.     *)
LEMMA LateStep ==
  ASSUME TypeOK, LateGenuine, call' = call, tools \subseteq tools', late' \subseteq late
  PROVE  LateGenuine'
BY BoundaryKept DEF LateGenuine, TypeOK

(* A loop that does not move keeps its invariant.                          *)
LEMMA LoopKept ==
  ASSUME TypeOK, NEW r \in Runs, LoopInv(r), call' = call, tools \subseteq tools',
         pc'[r] = pc[r], loop'[r] = loop[r]
  PROVE  LoopInv(r)'
<1>1. Complete(r) \in Nat
  BY DEF Complete, TypeOK, LoopState
<1>2. Genuine(call, tools, loop[r].trace, Complete(r), call[r].session, call[r].tenant)
        => Genuine(call, tools', loop[r].trace, Complete(r), call[r].session, call[r].tenant)
  BY <1>1, GenuineKept
<1>3. Complete(r)' = Complete(r) /\ (Live(r)' <=> Live(r))
  BY DEF Complete, Live
<1> QED
  BY <1>2, <1>3 DEF LoopInv

(* A step of one run: the others' loops stand still.                       *)
LEMMA LoopsStep ==
  ASSUME TypeOK, LoopsGenuine, NEW r \in Runs, call' = call, tools \subseteq tools',
         NEW label, pc' = [pc EXCEPT ![r] = label],
         NEW new, loop' = [loop EXCEPT ![r] = new],
         LoopInv(r)'
  PROVE  LoopsGenuine'
<1>1. ASSUME NEW q \in Runs \ {r} PROVE LoopInv(q)'
  <2>1. pc'[q] = pc[q] /\ loop'[q] = loop[q]
    BY DEF TypeOK
  <2> QED
    BY <2>1, LoopKept DEF LoopsGenuine
<1> QED
  BY <1>1 DEF LoopsGenuine

(* The loops stand still.                                                  *)
LEMMA LoopsStay ==
  ASSUME TypeOK, LoopsGenuine, call' = call, tools \subseteq tools', UNCHANGED <<pc, loop>>
  PROVE  LoopsGenuine'
BY LoopKept DEF LoopsGenuine

(* A run that returns has no loop any more.                                *)
LEMMA LoopsReturn ==
  ASSUME TypeOK, LoopsGenuine, NEW r \in Runs, NEW outcome \in Returned,
         Return(r, outcome), call' = call, tools \subseteq tools'
  PROVE  LoopsGenuine'
<1>1. pc'[r] = outcome
  BY DEF Return, TypeOK
<1>2. LoopInv(r)'
  BY <1>1 DEF LoopInv, Live
<1> QED
  BY <1>2, LoopsStep DEF Return

(* A status update keeps the turns of every row.                           *)
LEMMA StatusStep ==
  ASSUME TypeOK, RowsGenuine, call' = call, tools \subseteq tools',
         NEW s \in Sessions, NEW t \in Tenants, NEW status \in SessionStatus,
         UpdateStatus(s, t, status) \/ UNCHANGED rows
  PROVE  RowsGenuine'
<1>1. \A q \in Sessions :
        \/ rows'[q] = rows[q]
        \/ rows[q] # NoRow /\ rows'[q] = [rows[q] EXCEPT !.status = status]
  BY DEF UpdateStatus, Visible, TypeOK, RepoTypeOK
<1> QED
  BY <1>1, RowsStep

(* A row replaced by a turn boundary of its own tenant is one.             *)
LEMMA SaveStep ==
  ASSUME TypeOK, RowsGenuine, call' = call, tools \subseteq tools',
         NEW s \in Sessions, NEW snapshot \in Snapshot,
         Save(s, snapshot) \/ UNCHANGED rows,
         Boundary(call, tools, s, snapshot)
  PROVE  RowsGenuine'
<1>1. \A q \in Sessions : rows'[q] = rows[q] \/ (q = s /\ rows'[q] = snapshot)
  BY SaveReplaces DEF TypeOK, RepoTypeOK
<1> QED
  BY <1>1, RowsStep

(* What a run that is saving writes is a turn boundary.                    *)
LEMMA SnapshotOfBoundary ==
  ASSUME TypeOK, NEW r \in Runs, LoopInv(r), pc[r] = "save"
  PROVE  Boundary(call, tools, call[r].session, SnapshotOf(r))
<1>1. loop[r].turn \in Nat
  BY DEF TypeOK, LoopState
<1>2. MaxIterations \in Nat
  BY AgentAssumption
<1> QED
  BY <1>1, <1>2 DEF LoopInv, Live, Returned, Complete, Boundary, SnapshotOf

(* The inductive invariant holds of the initial states: there are no       *)
(* turns yet.                                                              *)
LEMMA TracesInit == Init => TracesInv
<1> SUFFICES ASSUME Init PROVE TracesInv
  OBVIOUS
<1>1. RowsGenuine /\ LateGenuine
  BY DEF Init, RepoInit, RowsGenuine, LateGenuine
<1>2. LoopsGenuine
  BY DEF Init, LoopsGenuine, LoopInv, Live
<1> QED
  BY <1>1, <1>2 DEF TracesInv

(* Every step of the system preserves the inductive invariant.             *)
LEMMA TracesNext == TypeOK /\ TypeOK' /\ TracesInv /\ [Next]_vars => TracesInv'
<1> SUFFICES ASSUME TypeOK, TypeOK', TracesInv, [Next]_vars PROVE TracesInv'
  OBVIOUS
<1> USE DEF TracesInv
<1>0. /\ call' = call
      /\ tools \subseteq tools'
      /\ RowsGenuine
      /\ LateGenuine
      /\ LoopsGenuine
      /\ MaxIterations \in Nat
  BY StepKeepsHistory, AgentAssumption
<1>t. \A r \in Runs : /\ loop[r] \in LoopState
                     /\ loop[r].turn \in Nat
                     /\ loop[r].trace \in Seq(Turn)
                     /\ Len(loop[r].trace) \in Nat
                     /\ LoopInv(r)
                     /\ call[r] = [session |-> call[r].session, tenant |-> call[r].tenant]
                     /\ call[r].session \in Sessions
                     /\ call[r].tenant \in Tenants
  BY <1>0 DEF TypeOK, LoopState, LoopsGenuine
<1>rows. UNCHANGED rows => RowsGenuine'
  BY <1>0, RowsStep
<1>late. late' \subseteq late => LateGenuine'
  BY <1>0, LateStep
<1>1. ASSUME NEW s \in Sessions, NEW t \in Tenants, Create(s, t) PROVE TracesInv'
  <2>1. PICK status \in {"idle", "paused"},
             messages \in {<<>>, <<Header("system"), Header("user")>>} :
             Save(s, FreshSnapshot(t, status, messages))
    BY <1>1 DEF Create
  <2>2. rows'[s] = FreshSnapshot(t, status, messages)
    BY <1>1, <2>1 DEF Create, Save, Upserted, TypeOK, RepoTypeOK
  <2>3. Boundary(call, tools, s, rows'[s])
    BY <1>0, <2>2 DEF Boundary, FreshSnapshot, Genuine
  <2>4. rows'[s] \in Snapshot \/ rows'[s] = NoRow
    BY DEF TypeOK, RepoTypeOK
  <2>5. RowsGenuine'
    BY <1>0, <2>1, <2>3, <2>4, RowsStep DEF Save, TypeOK, RepoTypeOK
  <2> QED
    BY <1>0, <1>1, <1>late, <2>5, LoopsStay DEF Create
<1>2. ASSUME NEW s \in Sessions, NEW t \in Tenants, DeleteSession(s, t) PROVE TracesInv'
  <2>1. RowsGenuine'
    BY <1>0, <1>2, RowsStep DEF DeleteSession, Delete, TypeOK, RepoTypeOK
  <2> QED
    BY <1>0, <1>2, <1>late, <2>1, LoopsStay DEF DeleteSession
<1>3. ASSUME NEW r \in Runs, LateWrite(r) PROVE TracesInv'
  <2>1. PICK w \in late :
          /\ Save(w.session, w.snapshot) \/ UNCHANGED rows
          /\ late' = late \ {w}
          /\ UNCHANGED <<call, pc, loop, up, tools>>
    BY <1>3 DEF LateWrite
  <2>2. /\ w.session \in Sessions
        /\ w.snapshot \in Snapshot
        /\ Boundary(call, tools, w.session, w.snapshot)
    BY <1>0 DEF TypeOK, LateGenuine
  <2>3. RowsGenuine'
    BY <1>0, <2>1, <2>2, SaveStep
  <2> QED
    BY <1>0, <1>late, <2>1, <2>3, LoopsStay
<1>4. CASE Crash
  <2>1. \A r \in Runs : ~Live(r)'
    BY <1>4 DEF Crash, Live, TypeOK, Returned
  <2>2. LoopsGenuine'
    BY <2>1 DEF LoopsGenuine, LoopInv
  <2> QED
    BY <1>4, <1>rows, <1>late, <2>2 DEF Crash
<1>5. CASE Restart
  <2>1. \A s \in Sessions :
          \/ rows'[s] = rows[s]
          \/ rows[s] # NoRow /\ rows'[s] = [rows[s] EXCEPT !.status = "paused"]
    BY <1>5 DEF Restart, MarkRunningAsPaused, TypeOK, RepoTypeOK
  <2>2. RowsGenuine'
    BY <1>0, <2>1, RowsStep DEF SessionStatus
  <2> QED
    BY <1>0, <1>5, <1>late, <2>2, LoopsStay DEF Restart
<1>6. ASSUME NEW r \in Runs, Resume(r) PROVE TracesInv'
  <2> DEFINE row == rows[call[r].session]
  <2>1. row \in Snapshot /\ row # NoRow /\ row.tenant = call[r].tenant
    BY <1>6, <1>t DEF Resume, Visible, TypeOK, RepoTypeOK
  <2>2. Boundary(call, tools, call[r].session, row)
    BY <1>0, <1>t, <2>1 DEF RowsGenuine
  <2>3. loop'[r] = LoopOf(row) /\ pc'[r] = "mark" /\ tools' = tools
    BY <1>6 DEF Resume, Goto, TypeOK
  <2>4. LoopInv(r)'
    BY <1>0, <2>1, <2>2, <2>3 DEF LoopInv, LoopOf, Boundary, Complete
  <2>5. LoopsGenuine'
    BY <1>0, <1>6, <2>4, LoopsStep DEF Resume, Goto
  <2> QED
    BY <1>6, <1>rows, <1>late, <2>5 DEF Resume
<1>7. ASSUME NEW r \in Runs, ResumeFails(r) PROVE TracesInv'
  BY <1>0, <1>7, <1>rows, <1>late, LoopsReturn DEF ResumeFails, Returned
<1>8. ASSUME NEW r \in Runs, MarkRunning(r) PROVE TracesInv'
  <2>1. RowsGenuine'
    BY <1>0, <1>8, <1>t, StatusStep DEF MarkRunning, SessionStatus
  <2>2. pc[r] = "mark" /\ pc'[r] = "acquire" /\ loop'[r] = loop[r] /\ tools' = tools
    BY <1>8 DEF MarkRunning, Goto, TypeOK
  <2>3. LoopInv(r)'
    BY <1>0, <1>t, <2>2 DEF LoopInv, Live, Returned, Complete
  <2>4. loop' = [loop EXCEPT ![r] = loop[r]]
    BY <1>8 DEF MarkRunning, TypeOK
  <2>5. LoopsGenuine'
    BY <1>0, <1>8, <2>3, <2>4, LoopsStep DEF MarkRunning, Goto
  <2> QED
    BY <1>8, <1>late, <2>1, <2>5 DEF MarkRunning
<1>9. ASSUME NEW r \in Runs, Acquire(r) PROVE TracesInv'
  <2>1. pc[r] = "acquire" /\ pc'[r] = "turn" /\ loop'[r] = loop[r] /\ tools' = tools
    BY <1>9 DEF Acquire, Goto, TypeOK
  <2>2. LoopInv(r)'
    BY <1>0, <1>t, <2>1 DEF LoopInv, Live, Returned, Complete
  <2>3. loop' = [loop EXCEPT ![r] = loop[r]]
    BY <1>9 DEF Acquire, TypeOK
  <2>4. LoopsGenuine'
    BY <1>0, <1>9, <2>2, <2>3, LoopsStep DEF Acquire, Goto
  <2> QED
    BY <1>9, <1>rows, <1>late, <2>4 DEF Acquire
<1>10. ASSUME NEW r \in Runs, AcquireFails(r) PROVE TracesInv'
  BY <1>0, <1>10, <1>rows, <1>late, LoopsReturn DEF AcquireFails, Returned
<1>11. ASSUME NEW r \in Runs, ThinkOn(r) PROVE TracesInv'
  <2> DEFINE turn == [kind |-> "think", by |-> r]
             trace == Append(loop[r].trace, turn)
             n == loop[r].turn
             s == call[r].session
             t == call[r].tenant
  <2>1. /\ pc[r] = "turn"
        /\ n < MaxIterations
        /\ Len(loop[r].trace) = n
        /\ Genuine(call, tools, loop[r].trace, n, s, t)
    BY <1>11, <1>t DEF ThinkOn, TurnsLeft, LoopInv, Live, Returned, Complete
  <2>2. /\ n \in Nat
        /\ loop[r].trace \in Seq(Turn)
        /\ loop[r] \in LoopState
        /\ call[r] = [session |-> s, tenant |-> t]
        /\ turn \in Turn
    BY <1>t DEF Turn
  <2>3. PICK new : /\ loop' = [loop EXCEPT ![r] = new]
                   /\ new.trace = trace
                   /\ new.turn = n
    <3>1. PICK sent \in SentHistories(r) :
            loop' = [loop EXCEPT
                       ![r].messages = Append(sent, TurnMessage(r, "assistant")),
                       ![r].trace = Append(@, turn)]
      BY <1>11 DEF ThinkOn
    <3> DEFINE new == [loop[r] EXCEPT !.messages = Append(sent, TurnMessage(r, "assistant")),
                                      !.trace = trace]
    <3>2. loop' = [loop EXCEPT ![r] = new]
      BY <2>2, <3>1 DEF TypeOK, LoopState
    <3>3. new.trace = trace /\ new.turn = n
      BY <2>2 DEF LoopState
    <3> HIDE DEF new, trace, n
    <3> QED
      BY <3>2, <3>3
  <2>4. /\ Len(trace) = n + 1
        /\ trace[n + 1] = turn
        /\ Genuine(call, tools, trace, n + 1, s, t)
    <3>1. turn.kind = "think" /\ call[turn.by] = [session |-> s, tenant |-> t]
      BY <2>2
    <3> HIDE DEF turn, n, s, t
    <3>2. Len(trace) = n + 1 /\ trace[n + 1] = turn
      BY <2>1, <2>2, GenuineAppended
    <3>3. Genuine(call, tools, trace, n + 1, s, t)
      BY <2>1, <2>2, <3>1, ThoughtAppended
    <3> QED
      BY <3>2, <3>3
  <2>5. /\ pc'[r] = "save"
        /\ loop'[r].trace = trace
        /\ loop'[r].turn = n
        /\ tools' = tools
        /\ call'[r].session = s
        /\ call'[r].tenant = t
    BY <1>0, <1>11, <2>3 DEF ThinkOn, Goto, TypeOK
  <2> HIDE DEF trace, n, s, t
  <2>6. LoopInv(r)'
    BY <1>0, <2>1, <2>4, <2>5 DEF LoopInv, Complete
  <2>7. LoopsGenuine'
    BY <1>0, <1>11, <2>3, <2>6, LoopsStep DEF ThinkOn, Goto
  <2> QED
    BY <1>11, <1>rows, <1>late, <2>7 DEF ThinkOn
<1>12. ASSUME NEW r \in Runs, ChooseTool(r) PROVE TracesInv'
  <2> DEFINE turn == [kind |-> "acting", by |-> r]
             trace == Append(loop[r].trace, turn)
             n == loop[r].turn
             s == call[r].session
             t == call[r].tenant
  <2>1. /\ pc[r] = "turn"
        /\ n < MaxIterations
        /\ Len(loop[r].trace) = n
        /\ Genuine(call, tools, loop[r].trace, n, s, t)
    BY <1>12, <1>t DEF ChooseTool, TurnsLeft, LoopInv, Live, Returned, Complete
  <2>2. /\ n \in Nat
        /\ loop[r].trace \in Seq(Turn)
        /\ loop[r] \in LoopState
        /\ call[r] = [session |-> s, tenant |-> t]
        /\ turn \in Turn
    BY <1>t DEF Turn
  <2>3. PICK new : /\ loop' = [loop EXCEPT ![r] = new]
                   /\ new.trace = trace
                   /\ new.turn = n
    <3>1. PICK sent \in SentHistories(r) :
            loop' = [loop EXCEPT
                       ![r].messages = sent,
                       ![r].trace = Append(@, turn)]
      BY <1>12 DEF ChooseTool
    <3> DEFINE new == [loop[r] EXCEPT !.messages = sent,
                                      !.trace = trace]
    <3>2. loop' = [loop EXCEPT ![r] = new]
      BY <2>2, <3>1 DEF TypeOK, LoopState
    <3>3. new.trace = trace /\ new.turn = n
      BY <2>2 DEF LoopState
    <3> HIDE DEF new, trace, n
    <3> QED
      BY <3>2, <3>3
  <2>4. /\ Len(trace) = n + 1
        /\ trace[n + 1] = turn
        /\ Genuine(call, tools, trace, n, s, t)
    <3> HIDE DEF turn, n, s, t
    <3> QED
      BY <2>1, <2>2, GenuineAppended
  <2>5. /\ pc'[r] = "tool"
        /\ loop'[r].trace = trace
        /\ loop'[r].turn = n
        /\ tools' = tools
        /\ call'[r].session = s
        /\ call'[r].tenant = t
    BY <1>0, <1>12, <2>3 DEF ChooseTool, Goto, TypeOK
  <2> HIDE DEF trace, n, s, t
  <2>6. LoopInv(r)'
    BY <1>0, <2>1, <2>4, <2>5 DEF LoopInv, Complete
  <2>7. LoopsGenuine'
    BY <1>0, <1>12, <2>3, <2>6, LoopsStep DEF ChooseTool, Goto
  <2> QED
    BY <1>12, <1>rows, <1>late, <2>7 DEF ChooseTool
<1>13. ASSUME NEW r \in Runs, CallTool(r) PROVE TracesInv'
  <2> DEFINE trace == Answered(loop[r].trace)
             n == loop[r].turn
             s == call[r].session
             t == call[r].tenant
             said == <<TurnMessage(r, "observation"), TurnMessage(r, "assistant")>>
             new == [loop[r] EXCEPT !.messages = loop[r].messages \o said, !.trace = trace]
  <2>1. /\ pc[r] = "tool"
        /\ n < MaxIterations
        /\ Len(loop[r].trace) = n + 1
        /\ loop[r].trace[n + 1] = [kind |-> "acting", by |-> r]
        /\ Genuine(call, tools, loop[r].trace, n, s, t)
    BY <1>13, <1>t DEF CallTool, LoopInv, Live, Returned, Complete
  <2>2. /\ n \in Nat
        /\ loop[r].trace \in Seq(Turn)
        /\ loop[r] \in LoopState
        /\ call[r] = [session |-> s, tenant |-> t]
    BY <1>t
  <2>3. /\ loop' = [loop EXCEPT ![r] = new]
        /\ new.trace = trace
        /\ new.turn = n
    BY <1>13, <2>2 DEF CallTool, Answered, TypeOK, LoopState
  <2>4. <<s, n, r>> \in tools'
    BY <1>13 DEF CallTool
  <2>5. Len(trace) = n + 1 /\ Genuine(call, tools', trace, n + 1, s, t)
    <3>1. loop[r].trace[n + 1].by = r
      BY <2>1
    <3> HIDE DEF n, s, t
    <3>2. n <= n
      BY <2>2
    <3>3. Genuine(call, tools', loop[r].trace, n, s, t)
      BY <1>0, <2>1, <2>2, <3>2, GenuineKept
    <3>4. /\ call[loop[r].trace[n + 1].by] = [session |-> s, tenant |-> t]
          /\ <<s, n, loop[r].trace[n + 1].by>> \in tools'
      BY <2>2, <2>4, <3>1
    <3>5. Len(loop[r].trace) = n + 1 /\ loop[r].trace \in Seq(Turn) /\ n \in Nat
      BY <2>1, <2>2
    <3> QED
      BY <3>3, <3>4, <3>5, GenuineAnswered
  <2>6. /\ pc'[r] = "save"
        /\ loop'[r].trace = trace
        /\ loop'[r].turn = n
        /\ call'[r].session = s
        /\ call'[r].tenant = t
    BY <1>0, <1>13, <2>3 DEF CallTool, Goto, TypeOK
  <2> HIDE DEF trace, n, s, t, new
  <2>7. LoopInv(r)'
    BY <1>0, <2>1, <2>5, <2>6 DEF LoopInv, Complete
  <2>8. LoopsGenuine'
    BY <1>0, <1>13, <2>3, <2>7, LoopsStep DEF CallTool, Goto
  <2> QED
    BY <1>13, <1>rows, <1>late, <2>8 DEF CallTool
<1>14. ASSUME NEW r \in Runs, Finish(r) PROVE TracesInv'
  <2> DEFINE turn == [kind |-> "finish", by |-> r]
             trace == Append(loop[r].trace, turn)
             n == loop[r].turn
             s == call[r].session
             t == call[r].tenant
  <2>1. /\ pc[r] = "turn"
        /\ n < MaxIterations
        /\ Len(loop[r].trace) = n
        /\ Genuine(call, tools, loop[r].trace, n, s, t)
    BY <1>14, <1>t DEF Finish, TurnsLeft, LoopInv, Live, Returned, Complete
  <2>2. /\ n \in Nat
        /\ loop[r].trace \in Seq(Turn)
        /\ loop[r] \in LoopState
        /\ call[r] = [session |-> s, tenant |-> t]
        /\ turn \in Turn
    BY <1>t DEF Turn
  <2> DEFINE new == [loop[r] EXCEPT !.trace = trace]
  <2>3. /\ loop' = [loop EXCEPT ![r] = new]
        /\ new.trace = trace
        /\ new.turn = n
    BY <1>14, <2>2 DEF Finish, TypeOK, LoopState
  <2>4. /\ Len(trace) = n + 1
        /\ trace[n + 1] = turn
        /\ Genuine(call, tools, trace, n, s, t)
    <3> HIDE DEF turn, n, s, t
    <3> QED
      BY <2>1, <2>2, GenuineAppended
  <2>5. /\ pc'[r] = "finishing"
        /\ loop'[r].trace = trace
        /\ loop'[r].turn = n
        /\ tools' = tools
        /\ call'[r].session = s
        /\ call'[r].tenant = t
    BY <1>0, <1>14, <2>3 DEF Finish, Goto, TypeOK
  <2> HIDE DEF trace, n, s, t, new
  <2>6. LoopInv(r)'
    BY <1>0, <2>1, <2>4, <2>5 DEF LoopInv, Complete
  <2>7. LoopsGenuine'
    BY <1>0, <1>14, <2>3, <2>6, LoopsStep DEF Finish, Goto
  <2> QED
    BY <1>14, <1>rows, <1>late, <2>7 DEF Finish
<1>15. ASSUME NEW r \in Runs, LlmFails(r) PROVE TracesInv'
  BY <1>0, <1>15, <1>rows, <1>late, LoopsReturn DEF LlmFails, Returned
<1>16. ASSUME NEW r \in Runs, MaxIterationsReached(r) PROVE TracesInv'
  BY <1>0, <1>16, <1>rows, <1>late, LoopsReturn DEF MaxIterationsReached, Returned
<1>17. ASSUME NEW r \in Runs, Checkpoint(r) PROVE TracesInv'
  <2> DEFINE new == [loop[r] EXCEPT !.turn = loop[r].turn + 1]
  <2>1. pc[r] = "save" /\ (Save(call[r].session, SnapshotOf(r)) \/ UNCHANGED rows)
    BY <1>17 DEF Checkpoint
  <2>2. Boundary(call, tools, call[r].session, SnapshotOf(r))
    BY <1>t, <2>1, SnapshotOfBoundary
  <2>3. RowsGenuine'
    BY <1>0, <1>t, <2>1, <2>2, SnapshotOfType, SaveStep
  <2>4. loop' = [loop EXCEPT ![r] = new]
    BY <1>t, <1>17 DEF Checkpoint, TypeOK, LoopState
  <2>5. /\ pc'[r] = "turn"
        /\ loop'[r].trace = loop[r].trace
        /\ loop'[r].turn = loop[r].turn + 1
        /\ tools' = tools
    BY <1>t, <1>17, <2>4 DEF Checkpoint, Goto, TypeOK, LoopState
  <2>6. LoopInv(r)'
    <3>1. /\ loop[r].turn \in Nat
          /\ loop[r].turn < MaxIterations
          /\ Len(loop[r].trace) = loop[r].turn + 1
          /\ Genuine(call, tools, loop[r].trace, loop[r].turn + 1,
                     call[r].session, call[r].tenant)
      BY <1>t, <2>1 DEF LoopInv, Live, Returned, Complete
    <3> QED
      BY <1>0, <2>5, <3>1 DEF LoopInv, Complete
  <2> HIDE DEF new
  <2>7. LoopsGenuine'
    BY <1>0, <1>17, <2>4, <2>6, LoopsStep DEF Checkpoint, Goto
  <2> QED
    BY <1>17, <1>late, <2>3, <2>7 DEF Checkpoint
<1>18. ASSUME NEW r \in Runs, Timeout(r) PROVE TracesInv'
  <2>1. LateGenuine'
    <3>1. CASE UNCHANGED late
      BY <3>1, <1>late
    <3>2. CASE /\ pc[r] = "save"
               /\ late' = late \cup {[by |-> r, session |-> call[r].session,
                                      snapshot |-> SnapshotOf(r)]}
      <4>1. Boundary(call, tools, call[r].session, SnapshotOf(r))
        BY <1>t, <3>2, SnapshotOfBoundary
      <4>2. tools' = tools
        BY <1>18 DEF Timeout
      <4> QED
        BY <1>0, <3>2, <4>1, <4>2 DEF LateGenuine
    <3> QED
      BY <1>18, <3>1, <3>2 DEF Timeout
  <2> QED
    BY <1>0, <1>18, <1>rows, <2>1, LoopsReturn DEF Timeout, Returned
<1>19. ASSUME NEW r \in Runs, EndSession(r) PROVE TracesInv'
  <2>1. RowsGenuine'
    BY <1>0, <1>19, <1>t, StatusStep DEF EndSession, SessionStatus
  <2> QED
    BY <1>0, <1>19, <1>late, <2>1, LoopsReturn DEF EndSession, Returned
<1>20. CASE UNCHANGED vars
  BY <1>0, <1>20, <1>rows, <1>late, LoopsStay DEF vars
<1> QED
  BY <1>1, <1>2, <1>3, <1>4, <1>5, <1>6, <1>7, <1>8, <1>9, <1>10, <1>11, <1>12,
     <1>13, <1>14, <1>15, <1>16, <1>17, <1>18, <1>19, <1>20 DEF Next, RunStep

(* The inductive invariant behind the theorems below: every turn in a      *)
(* row, in a queued write and in a running loop is genuine, that is        *)
(* complete, done for the session and the tenant it is kept under, and,    *)
(* if it acted, backed by a call that was made in that very turn.          *)
THEOREM TracesInvariant == Spec => [](TypeOK /\ TracesInv)
<1>1. Spec => []TypeOK
  BY TypeInvariant
<1> QED
  BY <1>1, TracesInit, TracesNext, PTL DEF Spec

--------------------------------------------------------------------------------
(* What follows from it.                                                   *)

(* Whatever interrupts, retries or delays a checkpoint, a row in the table *)
(* is a turn boundary: as many complete turns as it counts, and no more    *)
(* than max_iterations.                                                    *)
THEOREM RowsAreTurnBoundariesHold == Spec => []RowsAreTurnBoundaries
<1>1. TypeOK /\ TracesInv => RowsAreTurnBoundaries
  <2> SUFFICES ASSUME TypeOK, TracesInv, NEW s \in Sessions, rows[s] # NoRow
               PROVE  /\ Len(rows[s].trace) = rows[s].iteration_count
                      /\ rows[s].iteration_count <= MaxIterations
                      /\ WholeTrace(rows[s].trace)
    BY DEF RowsAreTurnBoundaries
  <2>1. Boundary(call, tools, s, rows[s])
    BY DEF TracesInv, RowsGenuine
  <2> QED
    BY <2>1 DEF Boundary, Genuine, WholeTrace
<1> QED
  BY <1>1, TracesInvariant, PTL

(* Every observation in the table answers a call that was made, for that   *)
(* session, in that turn, by that run.                                     *)
THEOREM RecordedCallsWereMadeHolds == Spec => []RecordedCallsWereMade
<1>1. TypeOK /\ TracesInv => RecordedCallsWereMade
  <2> SUFFICES ASSUME TypeOK, TracesInv, NEW s \in Sessions, rows[s] # NoRow,
                      NEW k \in 1..Len(rows[s].trace), rows[s].trace[k].kind = "act"
               PROVE  <<s, k - 1, rows[s].trace[k].by>> \in tools
    BY DEF RecordedCallsWereMade
  <2>1. Boundary(call, tools, s, rows[s])
    BY DEF TracesInv, RowsGenuine
  <2> QED
    BY <2>1 DEF Boundary, Genuine
<1> QED
  BY <1>1, TracesInvariant, PTL

(* Every turn in the table was done by a run called for that session and   *)
(* for the tenant that owns the row.                                       *)
THEOREM TenantsApartHolds == Spec => []TenantsApart
<1>1. TypeOK /\ TracesInv => TenantsApart
  <2> SUFFICES ASSUME TypeOK, TracesInv, NEW s \in Sessions, rows[s] # NoRow,
                      NEW k \in 1..Len(rows[s].trace)
               PROVE  call[rows[s].trace[k].by] = [session |-> s, tenant |-> rows[s].tenant]
    BY DEF TenantsApart
  <2>1. Boundary(call, tools, s, rows[s])
    BY DEF TracesInv, RowsGenuine
  <2> QED
    BY <2>1 DEF Boundary, Genuine
<1> QED
  BY <1>1, TracesInvariant, PTL

(* An answer comes with the complete turns before it and its own finish.   *)
THEOREM AnswersAreWholeHolds == Spec => []AnswersAreWhole
<1>1. TypeOK /\ TracesInv => AnswersAreWhole
  <2> SUFFICES ASSUME TypeOK, TracesInv, NEW r \in Runs, pc[r] = "finishing"
               PROVE  /\ Len(loop[r].trace) = loop[r].turn + 1
                      /\ WholeTrace(Front(loop[r].trace))
                      /\ Last(loop[r].trace) = [kind |-> "finish", by |-> r]
    BY DEF AnswersAreWhole
  <2> DEFINE trace == loop[r].trace
             n == loop[r].turn
  <2>1. n \in Nat /\ trace \in Seq(Turn)
    BY DEF TypeOK, LoopState
  <2>2. /\ Len(trace) = n + 1
        /\ trace[n + 1] = [kind |-> "finish", by |-> r]
        /\ \A k \in 1..n : trace[k].kind \in {"think", "act"}
    BY DEF TracesInv, LoopsGenuine, LoopInv, Live, Returned, Complete, Genuine
  <2>3. Last(trace) = [kind |-> "finish", by |-> r]
    BY <2>2 DEF Last
  <2>4. Len(Front(trace)) = n /\ \A k \in 1..n : Front(trace)[k] = trace[k]
    <3> HIDE DEF trace, n
    <3>1. \A k \in 1..n : trace[k] \in Turn
      BY <2>1, <2>2
    <3>2. Front(trace) = SubSeq(trace, 1, n)
      BY <2>1, <2>2 DEF Front
    <3> QED
      BY <2>1, <3>1, <3>2, SubSeqProperties
  <2> HIDE DEF trace, n
  <2>5. WholeTrace(Front(trace))
    BY <2>1, <2>2, <2>4 DEF WholeTrace
  <2> QED
    BY <2>2, <2>3, <2>5 DEF trace, n
<1> QED
  BY <1>1, TracesInvariant, PTL

--------------------------------------------------------------------------------
(* Traces.                                                                 *)

Extends(trace, longer) ==
  Len(trace) <= Len(longer) /\ \A k \in 1..Len(trace) : longer[k] = trace[k]

(* A trace extends itself: a run that has just been resumed.               *)
LEMMA ExtendsItself ==
  ASSUME NEW trace \in Seq(Turn)
  PROVE  Extends(trace, trace)
BY DEF Extends

(* A turn appended to a trace extends what it extended.                    *)
LEMMA ExtendsAppended ==
  ASSUME NEW trace \in Seq(Turn), NEW longer \in Seq(Turn), NEW turn \in Turn,
         Extends(trace, longer)
  PROVE  Extends(trace, Append(longer, turn))
<1> DEFINE longest == Append(longer, turn)
<1>1. /\ Len(longest) = Len(longer) + 1
      /\ \A k \in 1..Len(longer) : longest[k] = longer[k]
  BY AppendTurn
<1> HIDE DEF longest
<1>2. Extends(trace, longest)
  BY <1>1 DEF Extends
<1> QED
  BY <1>2 DEF longest

(* So does the observation put in its last turn, if that turn was added    *)
(* since.                                                                  *)
LEMMA ExtendsAnswered ==
  ASSUME NEW trace \in Seq(Turn), NEW longer \in Seq(Turn),
         Extends(trace, longer), Len(trace) < Len(longer)
  PROVE  Extends(trace, Answered(longer))
<1> DEFINE answered == Answered(longer)
<1>1. /\ Len(answered) = Len(longer)
      /\ \A k \in 1..(Len(longer) - 1) : answered[k] = longer[k]
  BY AnsweredTurn
<1> HIDE DEF answered
<1>2. Extends(trace, answered)
  BY <1>1 DEF Extends
<1> QED
  BY <1>2 DEF answered

(* What a trace extends is a prefix of it.                                 *)
LEMMA ExtendsIsPrefix ==
  ASSUME NEW trace \in Seq(Turn), NEW longer \in Seq(Turn), Extends(trace, longer)
  PROVE  IsPrefix(trace, longer)
<1>1. SubSeq(trace, 1, Len(trace)) = SubSeq(longer, 1, Len(trace))
  BY DEF Extends
<1> QED
  BY <1>1 DEF IsPrefix, Extends

--------------------------------------------------------------------------------
(* What a statement does to a row.                                         *)

(* A status update keeps everything but the status.                        *)
LEMMA StatusKeepsTurns ==
  ASSUME TypeOK, NEW s \in Sessions, NEW t \in Tenants, NEW status \in SessionStatus,
         UpdateStatus(s, t, status) \/ UNCHANGED rows
  PROVE  /\ \A q \in Sessions \ {s} : rows'[q] = rows[q]
         /\ rows[s] = NoRow => rows'[s] = NoRow
         /\ rows[s] # NoRow =>
              /\ rows'[s] # NoRow
              /\ rows'[s].tenant = rows[s].tenant /\ rows'[s].trace = rows[s].trace
              /\ rows'[s].iteration_count = rows[s].iteration_count
              /\ rows'[s].status = rows[s].status \/ rows'[s].status = status
<1>1. CASE UNCHANGED rows
  BY <1>1
<1>2. CASE UpdateStatus(s, t, status) /\ Visible(s, t)
  <2>1. rows[s] \in Snapshot /\ rows' = [rows EXCEPT ![s] = [rows[s] EXCEPT !.status = status]]
    BY <1>2 DEF UpdateStatus, Visible, TypeOK, RepoTypeOK
  <2>2. [rows[s] EXCEPT !.status = status] \in Snapshot
    BY <2>1 DEF Snapshot
  <2>3. rows'[s] = [rows[s] EXCEPT !.status = status] /\ \A q \in Sessions \ {s} : rows'[q] = rows[q]
    BY <2>1 DEF TypeOK, RepoTypeOK
  <2> QED
    BY <1>2, <2>1, <2>2, <2>3, NoRowAssumption DEF Visible, Snapshot
<1>3. CASE UpdateStatus(s, t, status) /\ ~Visible(s, t)
  BY <1>3 DEF UpdateStatus
<1> QED
  BY <1>1, <1>2, <1>3

(* So does crash recovery, for all rows at once.                           *)
LEMMA RecoveryKeepsTurns ==
  ASSUME TypeOK, MarkRunningAsPaused
  PROVE  \A s \in Sessions :
           /\ rows[s] = NoRow => rows'[s] = NoRow
           /\ rows[s] # NoRow =>
                /\ rows'[s] # NoRow
                /\ rows'[s].trace = rows[s].trace
                /\ rows'[s].iteration_count = rows[s].iteration_count
<1> SUFFICES ASSUME NEW s \in Sessions
             PROVE  /\ rows[s] = NoRow => rows'[s] = NoRow
                    /\ rows[s] # NoRow =>
                         /\ rows'[s] # NoRow
                         /\ rows'[s].trace = rows[s].trace
                         /\ rows'[s].iteration_count = rows[s].iteration_count
  OBVIOUS
<1>1. CASE rows[s] # NoRow /\ rows[s].status = "running"
  <2>1. rows'[s] = [rows[s] EXCEPT !.status = "paused"] /\ rows[s] \in Snapshot
    BY <1>1 DEF MarkRunningAsPaused, TypeOK, RepoTypeOK
  <2>2. rows'[s] \in Snapshot /\ rows'[s].trace = rows[s].trace
 /\ rows'[s].iteration_count = rows[s].iteration_count
    BY <2>1 DEF Snapshot, SessionStatus
  <2> QED
    BY <1>1, <2>2, NoRowAssumption
<1>2. CASE ~(rows[s] # NoRow /\ rows[s].status = "running")
  BY <1>2 DEF MarkRunningAsPaused
<1> QED
  BY <1>1, <1>2

--------------------------------------------------------------------------------
(* What a run's steps do to its trace.                                     *)

(* What a response adds to a run's trace, and the answer to its call.      *)
LEMMA ResponseAppends ==
  ASSUME TypeOK, NEW r \in Runs, ThinkOn(r) \/ ChooseTool(r) \/ Finish(r)
  PROVE  /\ pc[r] = "turn" /\ pc'[r] \in {"save", "tool", "finishing"}
         /\ \A q \in Runs \ {r} : pc'[q] = pc[q] /\ loop'[q] = loop[q]
         /\ loop'[r].turn = loop[r].turn /\ loop'[r].start = loop[r].start
         /\ \E turn \in Turn : loop'[r].trace = Append(loop[r].trace, turn)
         /\ UNCHANGED <<rows, call, late, up, overtaken>>
<1>1. loop[r] \in LoopState
  BY DEF TypeOK
<1>2. CASE Finish(r)
  BY <1>1, <1>2 DEF Finish, Goto, TypeOK, LoopState, Turn
<1>3. CASE ThinkOn(r)
  <2>1. PICK sent \in SentHistories(r) :
          loop' = [loop EXCEPT ![r].messages = Append(sent, TurnMessage(r, "assistant")),
                               ![r].trace = Append(@, [kind |-> "think", by |-> r])]
    BY <1>3 DEF ThinkOn
  <2> DEFINE turn == [kind |-> "think", by |-> r]
             new == [loop[r] EXCEPT !.messages = Append(sent, TurnMessage(r, "assistant")),
                                    !.trace = Append(loop[r].trace, turn)]
  <2>2. loop' = [loop EXCEPT ![r] = new]
    BY <1>1, <2>1 DEF LoopState
  <2>3. /\ new.trace = Append(loop[r].trace, turn) /\ turn \in Turn
        /\ new.turn = loop[r].turn /\ new.start = loop[r].start
    BY <1>1 DEF LoopState, Turn
  <2> HIDE DEF new, turn
  <2>4. loop'[r] = new /\ \A q \in Runs \ {r} : loop'[q] = loop[q]
    BY <2>2 DEF TypeOK
  <2> QED
    BY <1>3, <2>3, <2>4 DEF ThinkOn, Goto, TypeOK
<1>4. CASE ChooseTool(r)
  <2>1. PICK sent \in SentHistories(r) :
          loop' = [loop EXCEPT ![r].messages = sent,
                               ![r].trace = Append(@, [kind |-> "acting", by |-> r])]
    BY <1>4 DEF ChooseTool
  <2> DEFINE turn == [kind |-> "acting", by |-> r]
             new == [loop[r] EXCEPT !.messages = sent,
                                    !.trace = Append(loop[r].trace, turn)]
  <2>2. loop' = [loop EXCEPT ![r] = new]
    BY <1>1, <2>1 DEF LoopState
  <2>3. /\ new.trace = Append(loop[r].trace, turn) /\ turn \in Turn
        /\ new.turn = loop[r].turn /\ new.start = loop[r].start
    BY <1>1 DEF LoopState, Turn
  <2> HIDE DEF new, turn
  <2>4. loop'[r] = new /\ \A q \in Runs \ {r} : loop'[q] = loop[q]
    BY <2>2 DEF TypeOK
  <2> QED
    BY <1>4, <2>3, <2>4 DEF ChooseTool, Goto, TypeOK
<1> QED
  BY <1>2, <1>3, <1>4

(* A tool call changes its run's last turn, and no other run, row or       *)
(* write.                                                                  *)
LEMMA CallAnswers ==
  ASSUME TypeOK, NEW r \in Runs, CallTool(r)
  PROVE  /\ pc[r] = "tool" /\ pc'[r] = "save"
         /\ \A q \in Runs \ {r} : pc'[q] = pc[q] /\ loop'[q] = loop[q]
         /\ loop'[r].turn = loop[r].turn /\ loop'[r].start = loop[r].start
         /\ loop'[r].trace = Answered(loop[r].trace)
         /\ UNCHANGED <<rows, call, late, up, overtaken>>
<1> DEFINE said == <<TurnMessage(r, "observation"), TurnMessage(r, "assistant")>>
           new == [loop[r] EXCEPT !.messages = loop[r].messages \o said,
                                  !.trace = Answered(loop[r].trace)]
<1>1. loop[r] \in LoopState
  BY DEF TypeOK
<1>2. loop' = [loop EXCEPT ![r] = new]
  BY <1>1 DEF CallTool, Answered, LoopState
<1>3. /\ new.trace = Answered(loop[r].trace)
      /\ new.turn = loop[r].turn /\ new.start = loop[r].start
  BY <1>1 DEF LoopState
<1> HIDE DEF new
<1>4. loop'[r] = new /\ \A q \in Runs \ {r} : loop'[q] = loop[q]
  BY <1>2 DEF TypeOK
<1> QED
  BY <1>3, <1>4 DEF CallTool, Goto, TypeOK

--------------------------------------------------------------------------------
(* Runs that were not overtaken know every turn their session's row holds. *)

(* The row has no turn the trace lacks.                                    *)
Knows(trace, s) == rows[s] # NoRow => Extends(rows[s].trace, trace)

(* A run knows its row's turns and is past them.                           *)
Current(r) ==
  LET s == call[r].session IN
  /\ Knows(loop[r].trace, s)
  /\ rows[s] # NoRow => rows[s].iteration_count <= loop[r].turn

(* A queued write is that of a run which is over, its only one.            *)
LateOwned ==
  /\ \A w \in late : pc[w.by] = "terminated" /\ w.session = call[w.by].session
  /\ \A v, w \in late : v.by = w.by => v = w

CurrentInv ==
  /\ LateOwned
  /\ \A r \in Runs \ overtaken : Live(r) => Current(r)
  /\ \A w \in late : w.by \notin overtaken => Knows(w.snapshot.trace, w.session)

(* The session's row has no turn after the step that it had not before.    *)
NothingNew(s) ==
  \/ rows'[s] = NoRow
  \/ rows'[s].trace = <<>> /\ rows'[s].iteration_count = 0
  \/ /\ rows[s] # NoRow
     /\ rows'[s].trace = rows[s].trace
     /\ rows'[s].iteration_count = rows[s].iteration_count

(* What was known of a row that has nothing new still is.                  *)
LEMMA StillKnown ==
  ASSUME TypeOK, NEW s \in Sessions, NothingNew(s), NEW trace \in Seq(Turn), Knows(trace, s)
  PROVE  rows'[s] # NoRow => Extends(rows'[s].trace, trace)
<1>1. CASE rows'[s].trace = <<>>
  BY <1>1 DEF Extends
<1>2. CASE rows[s] # NoRow /\ rows'[s].trace = rows[s].trace
  BY <1>2 DEF Knows
<1> QED
  BY <1>1, <1>2 DEF NothingNew

(* A step that adds nothing to any row, and whose run, if it goes on,      *)
(* stays current.                                                          *)
LEMMA CurrentKept ==
  ASSUME TypeOK, CurrentInv, call' = call, overtaken' = overtaken, late' \subseteq late,
         \A s \in Sessions : NothingNew(s),
         \A r \in Runs : pc[r] = "terminated" => pc'[r] = "terminated",
         \A r \in Runs \ overtaken :
           Live(r)' => (Live(r) /\ loop'[r] = loop[r]) \/ Current(r)'
  PROVE  CurrentInv'
<1>1. LateOwned'
  BY DEF CurrentInv, LateOwned, TypeOK
<1>2. ASSUME NEW r \in Runs \ overtaken, Live(r), loop'[r] = loop[r] PROVE Current(r)'
  <2> DEFINE s == call[r].session
  <2>1. /\ s \in Sessions /\ loop[r].trace \in Seq(Turn) /\ loop[r].turn \in Nat
        /\ NothingNew(s)
    BY DEF TypeOK, LoopState
  <2>2. Knows(loop[r].trace, s) /\ (rows[s] # NoRow => rows[s].iteration_count <= loop[r].turn)
    BY <1>2 DEF CurrentInv, Current
  <2>3. rows'[s] # NoRow => Extends(rows'[s].trace, loop[r].trace)
    BY <2>1, <2>2, StillKnown
  <2>4. rows'[s] # NoRow => rows'[s].iteration_count <= loop[r].turn
    BY <2>1, <2>2 DEF NothingNew
  <2> QED
    BY <1>2, <2>3, <2>4 DEF Current, Knows
<1>3. ASSUME NEW w \in late, w.by \notin overtaken PROVE Knows(w.snapshot.trace, w.session)'
  <2>1. w.session \in Sessions /\ w.snapshot.trace \in Seq(Turn) /\ NothingNew(w.session)
    BY DEF TypeOK, Snapshot
  <2>2. Knows(w.snapshot.trace, w.session)
    BY <1>3 DEF CurrentInv
  <2> QED
    BY <2>1, <2>2, StillKnown DEF Knows
<1> QED
  BY <1>1, <1>2, <1>3 DEF CurrentInv

(* A run moves on with a longer trace, and leaves the rows alone.          *)
LEMMA LoopGrowsKeeps ==
  ASSUME TypeOK, CurrentInv, NEW r \in Runs, Live(r),
         \A q \in Runs \ {r} : pc'[q] = pc[q] /\ loop'[q] = loop[q],
         loop[r].turn <= loop'[r].turn, loop'[r].turn \in Nat,
         r \notin overtaken => Knows(loop'[r].trace, call[r].session),
         UNCHANGED <<rows, call, late, overtaken>>
  PROVE  CurrentInv'
<1>1. \A s \in Sessions : NothingNew(s)
  BY DEF NothingNew
<1>2. pc[r] # "terminated"
  BY DEF Live, Returned
<1>3. r \notin overtaken => Current(r)'
  <2> DEFINE row == rows[call[r].session]
  <2>1. loop[r].turn \in Nat /\ call[r].session \in Sessions
    BY DEF TypeOK, LoopState
  <2>2. row # NoRow => row.iteration_count \in Nat
    BY <2>1 DEF TypeOK, RepoTypeOK, Snapshot
  <2>3. r \notin overtaken => (row # NoRow => row.iteration_count <= loop[r].turn)
    BY DEF CurrentInv, Current
  <2> QED
    BY <2>1, <2>2, <2>3 DEF Current, Knows
<1>4. \A q \in Runs \ overtaken : Live(q)' => (Live(q) /\ loop'[q] = loop[q]) \/ Current(q)'
  BY <1>3 DEF Live
<1> QED
  BY <1>1, <1>2, <1>4, CurrentKept

(* A run returns, and no row gets a turn.                                  *)
LEMMA ReturnKeeps ==
  ASSUME TypeOK, CurrentInv, NEW r \in Runs, NEW outcome \in Returned, Return(r, outcome),
         pc[r] # "terminated", UNCHANGED <<call, late, overtaken>>,
         \A s \in Sessions : NothingNew(s)
  PROVE  CurrentInv'
<1>1. ~Live(r)' /\ \A q \in Runs \ {r} : pc'[q] = pc[q] /\ loop'[q] = loop[q]
  BY DEF Return, TypeOK, Live
<1>2. \A q \in Runs \ overtaken : Live(q)' => Live(q) /\ loop'[q] = loop[q]
  BY <1>1 DEF Live
<1> QED
  BY <1>1, <1>2, CurrentKept

(* A status update, in no, one or every row, adds nothing.                 *)
LEMMA StatusAddsNothing ==
  ASSUME TypeOK, NEW s \in Sessions, NEW t \in Tenants, NEW status \in SessionStatus,
         UpdateStatus(s, t, status) \/ UNCHANGED rows
  PROVE  \A q \in Sessions : NothingNew(q)
<1>1. /\ \A q \in Sessions \ {s} : rows'[q] = rows[q]
      /\ rows[s] = NoRow => rows'[s] = NoRow
      /\ rows[s] # NoRow =>
           /\ rows'[s].trace = rows[s].trace
           /\ rows'[s].iteration_count = rows[s].iteration_count
  BY StatusKeepsTurns
<1> QED
  BY <1>1 DEF NothingNew

(* The row of the session holds the run's trace now, and whoever else      *)
(* might still save it is overtaken.                                       *)
LEMMA SaveKeeps ==
  ASSUME TypeOK, CurrentInv, NEW r \in Runs, call' = call, Overtake(r), late' \subseteq late,
         \A q \in Sessions \ {call[r].session} : rows'[q] = rows[q],
         \A q \in Runs \ {r} : pc'[q] = pc[q] /\ loop'[q] = loop[q],
         pc[r] = "terminated" => pc'[r] = "terminated",
         Live(r)' => Current(r)',
         \A w \in late' : w.by # r
  PROVE  CurrentInv'
<1> DEFINE s == call[r].session
<1>1. LateOwned'
  BY DEF CurrentInv, LateOwned, TypeOK
<1>2. \A q \in Runs \ {r} : q \notin overtaken' => q \notin overtaken /\ ~MayStillSave(q, s)
  BY DEF Overtake
<1>3. ASSUME NEW q \in Runs \ {r}, q \notin overtaken', Live(q)' PROVE Current(q)'
  <2>1. Live(q) /\ q \notin overtaken /\ call[q].session # s /\ call[q].session \in Sessions
    BY <1>2, <1>3 DEF MayStillSave, Live, TypeOK
  <2>2. Current(q)
    BY <2>1 DEF CurrentInv
  <2> QED
    BY <2>1, <2>2 DEF Current, Knows
<1>4. ASSUME NEW w \in late', w.by \notin overtaken' PROVE Knows(w.snapshot.trace, w.session)'
  <2>1. /\ w \in late /\ w.by \in Runs \ {r} /\ w.session \in Sessions
        /\ w.session = call[w.by].session
    BY DEF CurrentInv, LateOwned, TypeOK
  <2>2. w.by \notin overtaken /\ w.session # s
    BY <1>2, <1>4, <2>1 DEF MayStillSave
  <2>3. Knows(w.snapshot.trace, w.session)
    BY <2>1, <2>2 DEF CurrentInv
  <2> QED
    BY <2>1, <2>2, <2>3 DEF Knows
<1> QED
  BY <1>1, <1>3, <1>4 DEF CurrentInv

(* The turn that is saved becomes the last of the row.                     *)
LEMMA CheckpointKeeps ==
  ASSUME TypeOK, CurrentInv, NEW r \in Runs, Checkpoint(r)
  PROVE  CurrentInv'
<1> DEFINE s == call[r].session
           new == [loop[r] EXCEPT !.turn = loop[r].turn + 1]
<1>1. /\ pc[r] = "save" /\ s \in Sessions /\ loop[r] \in LoopState
      /\ pc' = [pc EXCEPT ![r] = "turn"]
      /\ loop' = [loop EXCEPT ![r] = new]
      /\ UNCHANGED <<call, late>>
  BY DEF Checkpoint, Goto, TypeOK
<1>2. /\ new.turn = loop[r].turn + 1 /\ new.trace = loop[r].trace
      /\ loop[r].turn \in Nat /\ loop[r].trace \in Seq(Turn)
  BY <1>1 DEF LoopState
<1> HIDE DEF new
<1>3. /\ pc'[r] = "turn" /\ loop'[r] = new
      /\ \A q \in Runs \ {r} : pc'[q] = pc[q] /\ loop'[q] = loop[q]
      /\ Live(r)
  BY <1>1 DEF TypeOK, Live, Returned
<1>4. CASE Save(s, SnapshotOf(r)) /\ Overtake(r)
  <2>1. rows' = [rows EXCEPT ![s] = SnapshotOf(r)]
    BY <1>1, <1>4, SnapshotOfType, SaveReplaces DEF TypeOK
  <2>2. /\ rows'[s] = SnapshotOf(r)
        /\ \A q \in Sessions \ {s} : rows'[q] = rows[q]
    BY <1>1, <2>1 DEF TypeOK, RepoTypeOK
  <2>3. Extends(loop[r].trace, loop[r].trace)
    BY <1>2, ExtendsItself
  <2>4. rows'[s].trace = loop[r].trace /\ rows'[s].iteration_count = loop[r].turn + 1
    BY <2>2 DEF SnapshotOf
  <2>5. Current(r)'
    BY <1>1, <1>2, <1>3, <2>3, <2>4 DEF Current, Knows
  <2>6. \A w \in late' : w.by # r
    BY <1>1 DEF CurrentInv, LateOwned
  <2> QED
    BY <1>1, <1>3, <1>4, <2>2, <2>5, <2>6, SaveKeeps
<1>5. CASE UNCHANGED <<rows, overtaken>>
  <2>1. r \notin overtaken => Knows(loop'[r].trace, s)
    BY <1>2, <1>3 DEF CurrentInv, Current
  <2> QED
    BY <1>1, <1>2, <1>3, <1>5, <2>1, LoopGrowsKeeps
<1> QED
  BY <1>4, <1>5 DEF Checkpoint

(* A queued write lands, or is lost.                                       *)
LEMMA LateWriteKeeps ==
  ASSUME TypeOK, CurrentInv, NEW r \in Runs, LateWrite(r)
  PROVE  CurrentInv'
<1>1. PICK w \in late :
        /\ w.by = r
        /\ \/ Save(w.session, w.snapshot) /\ Overtake(r)
           \/ UNCHANGED <<rows, overtaken>>
        /\ late' = late \ {w}
        /\ UNCHANGED <<call, pc, loop>>
  BY DEF LateWrite
<1>2. /\ w.session \in Sessions /\ w.snapshot \in Snapshot
      /\ w.session = call[r].session /\ pc[r] = "terminated"
      /\ \A v \in late' : v.by # r
  BY <1>1 DEF TypeOK, CurrentInv, LateOwned
<1>3. CASE Save(w.session, w.snapshot) /\ Overtake(r)
  <2>1. \A s \in Sessions \ {w.session} : rows'[s] = rows[s]
    BY <1>2, <1>3, SaveReplaces DEF TypeOK, RepoTypeOK
  <2>2. ~Live(r)'
    BY <1>1, <1>2 DEF Live, Returned
  <2> QED
    BY <1>1, <1>2, <1>3, <2>1, <2>2, SaveKeeps
<1>4. CASE UNCHANGED <<rows, overtaken>>
  <2>1. \A s \in Sessions : NothingNew(s)
    BY <1>4 DEF NothingNew
  <2> QED
    BY <1>1, <1>4, <2>1, CurrentKept DEF Live
<1> QED
  BY <1>1, <1>3, <1>4

(* The clock runs out, perhaps on a checkpoint under way.                  *)
LEMMA TimeoutKeeps ==
  ASSUME TypeOK, CurrentInv, NEW r \in Runs, Timeout(r)
  PROVE  CurrentInv'
<1> DEFINE s == call[r].session
           w == [by |-> r, session |-> s, snapshot |-> SnapshotOf(r)]
<1>1. /\ pc[r] \in Guarded /\ Return(r, "terminated") /\ UNCHANGED <<rows, call, overtaken>>
      /\ Live(r) /\ pc[r] # "terminated"
      /\ \A q \in Sessions : NothingNew(q)
  BY DEF Timeout, Guarded, Live, Returned, NothingNew
<1>2. CASE UNCHANGED late
  BY <1>1, <1>2, ReturnKeeps DEF Returned
<1>3. CASE late' = late \cup {w}
  <2>1. /\ ~Live(r)' /\ pc'[r] = "terminated"
        /\ \A q \in Runs \ {r} : pc'[q] = pc[q] /\ loop'[q] = loop[q]
    BY <1>1 DEF Return, TypeOK, Live, Returned
  <2>2. w.by = r /\ w.session = s /\ w.snapshot.trace = loop[r].trace
    BY DEF SnapshotOf
  <2> HIDE DEF w
  <2>3. \A v \in late : v.by # r
    BY <1>1 DEF CurrentInv, LateOwned
  <2>4. LateOwned'
    BY <1>1, <1>3, <2>1, <2>2, <2>3 DEF CurrentInv, LateOwned, TypeOK
  <2>5. ASSUME NEW q \in Runs \ overtaken, Live(q)' PROVE Current(q)'
    <3>1. q # r /\ Live(q) /\ loop'[q] = loop[q]
      BY <2>1, <2>5 DEF Live
    <3> QED
      BY <1>1, <3>1 DEF CurrentInv, Current, Knows
  <2>6. \A v \in late' : v.by \notin overtaken => Knows(v.snapshot.trace, v.session)'
    BY <1>1, <1>3, <2>2 DEF CurrentInv, Current, Knows
  <2> QED
    BY <1>1, <2>4, <2>5, <2>6 DEF CurrentInv
<1> QED
  BY <1>2, <1>3 DEF Timeout

(* A run begins: its trace is its row's.                                   *)
LEMMA ResumeKeeps ==
  ASSUME TypeOK, CurrentInv, NEW r \in Runs, Resume(r)
  PROVE  CurrentInv'
<1> DEFINE s == call[r].session
<1>1. /\ pc[r] = "idle" /\ s \in Sessions /\ rows[s] # NoRow
      /\ pc' = [pc EXCEPT ![r] = "mark"]
      /\ loop' = [loop EXCEPT ![r] = LoopOf(rows[s])]
      /\ UNCHANGED <<rows, call, late, overtaken>>
  BY DEF Resume, Goto, Visible, TypeOK
<1>2. /\ loop'[r] = LoopOf(rows[s])
      /\ \A q \in Runs \ {r} : pc'[q] = pc[q] /\ loop'[q] = loop[q]
  BY <1>1 DEF TypeOK
<1>3. rows[s].trace \in Seq(Turn) /\ rows[s].iteration_count \in Nat
  BY <1>1 DEF TypeOK, RepoTypeOK, Snapshot
<1>4. Extends(rows[s].trace, rows[s].trace)
  BY <1>3, ExtendsItself
<1>5. Current(r)'
  BY <1>1, <1>2, <1>3, <1>4 DEF Current, Knows, LoopOf
<1>6. \A q \in Sessions : NothingNew(q)
  BY <1>1 DEF NothingNew
<1>7. \A q \in Runs : Live(q)' => (Live(q) /\ loop'[q] = loop[q]) \/ Current(q)'
  BY <1>2, <1>5 DEF Live
<1> QED
  BY <1>1, <1>2, <1>6, <1>7, CurrentKept

(* The steps of a live run.                                                *)
LEMMA RunStepKeeps ==
  ASSUME TypeOK, TracesInv, CurrentInv, NEW r \in Runs, RunStep(r)
  PROVE  CurrentInv'
<1> DEFINE s == call[r].session
           row == rows[s]
<1>1. pc[r] \in {"mark", "acquire", "turn", "tool", "save", "finishing"}
  BY DEF RunStep, MarkRunning, Acquire, AcquireFails, ThinkOn, ChooseTool, CallTool, Finish,
         LlmFails, MaxIterationsReached, Checkpoint, EndSession
<1>2. /\ Live(r) /\ LoopInv(r) /\ pc[r] # "terminated"
      /\ loop[r] \in LoopState /\ loop[r].trace \in Seq(Turn) /\ loop[r].turn \in Nat
      /\ s \in Sessions /\ call[r].tenant \in Tenants
      /\ r \notin overtaken => Knows(loop[r].trace, s)
  BY <1>1 DEF Live, Returned, CurrentInv, Current, TracesInv, LoopsGenuine, TypeOK, LoopState
<1>3. row # NoRow => row.trace \in Seq(Turn)
  BY <1>2 DEF TypeOK, RepoTypeOK, Snapshot
<1>4. CASE MarkRunning(r)
  <2>1. /\ UNCHANGED <<call, loop, late, overtaken>>
        /\ pc' = [pc EXCEPT ![r] = "acquire"]
        /\ UpdateStatus(s, call[r].tenant, "running") \/ UNCHANGED rows
    BY <1>4 DEF MarkRunning, Goto
  <2>2. \A q \in Sessions : NothingNew(q)
    BY <1>2, <2>1, StatusAddsNothing DEF SessionStatus
  <2>3. \A q \in Runs : (pc[q] = "terminated" => pc'[q] = "terminated") /\ (Live(q)' => Live(q))
    BY <1>2, <2>1 DEF TypeOK, Live
  <2> QED
    BY <2>1, <2>2, <2>3, CurrentKept
<1>5. CASE Acquire(r)
  <2>1. /\ UNCHANGED <<rows, call, loop, late, overtaken>>
        /\ \A q \in Runs \ {r} : pc'[q] = pc[q]
    BY <1>5 DEF Acquire, Goto, TypeOK
  <2> QED
    BY <1>2, <2>1, LoopGrowsKeeps
<1>6. CASE ThinkOn(r) \/ ChooseTool(r) \/ Finish(r)
  <2>1. /\ \A q \in Runs \ {r} : pc'[q] = pc[q] /\ loop'[q] = loop[q]
        /\ loop'[r].turn = loop[r].turn
        /\ UNCHANGED <<rows, call, late, overtaken>>
    BY <1>6, ResponseAppends
  <2>2. PICK turn \in Turn : loop'[r].trace = Append(loop[r].trace, turn)
    BY <1>6, ResponseAppends
  <2>3. r \notin overtaken => Knows(loop'[r].trace, s)
    BY <1>2, <1>3, <2>2, ExtendsAppended DEF Knows
  <2> QED
    BY <1>2, <2>1, <2>3, LoopGrowsKeeps
<1>7. CASE CallTool(r)
  <2>1. /\ pc[r] = "tool"
        /\ \A q \in Runs \ {r} : pc'[q] = pc[q] /\ loop'[q] = loop[q]
        /\ loop'[r].turn = loop[r].turn
        /\ loop'[r].trace = Answered(loop[r].trace)
        /\ UNCHANGED <<rows, call, late, overtaken>>
    BY <1>7, CallAnswers
  <2>2. Len(loop[r].trace) = loop[r].turn + 1
    BY <1>2, <2>1 DEF LoopInv
  <2>3. row # NoRow /\ r \notin overtaken => Len(row.trace) < Len(loop[r].trace)
    <3> SUFFICES ASSUME row # NoRow, r \notin overtaken PROVE Len(row.trace) < Len(loop[r].trace)
      OBVIOUS
    <3>1. row.iteration_count <= loop[r].turn
      BY <1>2 DEF CurrentInv, Current
    <3>2. Len(row.trace) = row.iteration_count
      BY <1>2 DEF TracesInv, RowsGenuine, Boundary
    <3>3. Len(row.trace) \in Nat
      BY <1>3
    <3> QED
      BY <1>2, <2>2, <3>1, <3>2, <3>3
  <2>4. r \notin overtaken => Knows(loop'[r].trace, s)
    BY <1>2, <1>3, <2>1, <2>3, ExtendsAnswered DEF Knows
  <2> QED
    BY <1>2, <2>1, <2>4, LoopGrowsKeeps
<1>8. CASE Checkpoint(r)
  BY <1>8, CheckpointKeeps
<1>9. CASE AcquireFails(r) \/ LlmFails(r) \/ MaxIterationsReached(r)
  <2>1. /\ UNCHANGED <<rows, call, late, overtaken>>
        /\ Return(r, "failed") \/ Return(r, "terminated")
    BY <1>9 DEF AcquireFails, LlmFails, MaxIterationsReached
  <2>2. \A q \in Sessions : NothingNew(q)
    BY <2>1 DEF NothingNew
  <2> QED
    BY <1>2, <2>1, <2>2, ReturnKeeps DEF Returned
<1>10. CASE EndSession(r)
  <2>1. /\ Return(r, "ok") /\ UNCHANGED <<call, late, overtaken>>
        /\ UpdateStatus(s, call[r].tenant, "ended") \/ UNCHANGED rows
    BY <1>10 DEF EndSession
  <2>2. \A q \in Sessions : NothingNew(q)
    BY <1>2, <2>1, StatusAddsNothing DEF SessionStatus
  <2> QED
    BY <1>2, <2>1, <2>2, ReturnKeeps DEF Returned
<1> QED
  BY <1>4, <1>5, <1>6, <1>7, <1>8, <1>9, <1>10 DEF RunStep

(* Every step preserves the invariant.                                     *)
LEMMA CurrentNext ==
  ASSUME TypeOK, TracesInv, CurrentInv, [Next]_vars
  PROVE  CurrentInv'
<1>1. ASSUME NEW s \in Sessions, NEW t \in Tenants, Create(s, t) \/ DeleteSession(s, t)
      PROVE  CurrentInv'
  <2>1. UNCHANGED <<call, pc, loop, late, overtaken>>
    BY <1>1 DEF Create, DeleteSession
  <2>2. \A q \in Sessions : NothingNew(q)
    <3>1. CASE Create(s, t)
      <4>1. PICK status \in {"idle", "paused"},
                 messages \in {<<>>, <<Header("system"), Header("user")>>} :
              rows[s] = NoRow /\ Save(s, FreshSnapshot(t, status, messages))
        BY <3>1 DEF Create
      <4>2. rows' = [rows EXCEPT ![s] = FreshSnapshot(t, status, messages)]
        BY <4>1 DEF Save, Upserted
      <4>3. rows'[s] = FreshSnapshot(t, status, messages) /\ \A q \in Sessions \ {s} : rows'[q] = rows[q]
        BY <4>2 DEF TypeOK, RepoTypeOK
      <4> QED
        BY <4>3 DEF NothingNew, FreshSnapshot
    <3>2. CASE DeleteSession(s, t)
      BY <3>2 DEF DeleteSession, Delete, NothingNew, TypeOK, RepoTypeOK
    <3> QED
      BY <1>1, <3>1, <3>2
  <2> QED
    BY <2>1, <2>2, CurrentKept DEF Live
<1>2. ASSUME NEW r \in Runs, Resume(r) PROVE CurrentInv'
  BY <1>2, ResumeKeeps
<1>3. ASSUME NEW r \in Runs, ResumeFails(r) PROVE CurrentInv'
  <2>1. /\ Return(r, "failed") /\ pc[r] = "idle" /\ UNCHANGED <<rows, call, late, overtaken>>
        /\ \A s \in Sessions : NothingNew(s)
    BY <1>3 DEF ResumeFails, NothingNew
  <2> QED
    BY <2>1, ReturnKeeps DEF Returned
<1>4. ASSUME NEW r \in Runs, RunStep(r) PROVE CurrentInv'
  BY <1>4, RunStepKeeps
<1>5. ASSUME NEW r \in Runs, Timeout(r) PROVE CurrentInv'
  BY <1>5, TimeoutKeeps
<1>6. ASSUME NEW r \in Runs, LateWrite(r) PROVE CurrentInv'
  BY <1>6, LateWriteKeeps
<1>7. CASE Crash
  <2>1. late' = {} /\ overtaken' = overtaken /\ \A r \in Runs : ~Live(r)'
    BY <1>7 DEF Crash, Live, Returned, TypeOK
  <2> QED
    BY <2>1 DEF CurrentInv, LateOwned
<1>8. CASE Restart
  <2>1. MarkRunningAsPaused /\ UNCHANGED <<call, pc, loop, late, overtaken>>
    BY <1>8 DEF Restart
  <2>2. \A s \in Sessions : NothingNew(s)
    BY <2>1, RecoveryKeepsTurns DEF NothingNew
  <2> QED
    BY <2>1, <2>2, CurrentKept DEF Live
<1>9. CASE UNCHANGED vars
  <2>1. UNCHANGED <<rows, call, pc, loop, late, overtaken>>
    BY <1>9 DEF vars
  <2>2. \A s \in Sessions : NothingNew(s)
    BY <2>1 DEF NothingNew
  <2> QED
    BY <2>1, <2>2, CurrentKept DEF Live
<1> QED
  BY <1>1, <1>2, <1>3, <1>4, <1>5, <1>6, <1>7, <1>8, <1>9 DEF Next

(* The inductive invariant behind the next two theorems: a run into whose  *)
(* session no other has written since it loaded it knows every turn the    *)
(* row holds, in its loop and in the write it leaves behind when the wall  *)
(* clock cuts it off; however many runs are at work, with callers that     *)
(* take turns or without.                                                  *)
THEOREM CurrentInvariant == Spec => [](TypeOK /\ TracesInv /\ CurrentInv)
<1>1. Init => CurrentInv
  BY DEF Init, CurrentInv, LateOwned, Live
<1>2. TypeOK /\ TracesInv /\ CurrentInv /\ [Next]_vars => CurrentInv'
  BY CurrentNext
<1> QED
  BY <1>1, <1>2, TracesInvariant, PTL DEF Spec

(* A durable turn is acted out again by a run that was overtaken only: any *)
(* other is past its row's turns when it calls a tool.                     *)
THEOREM NoDurableTurnReplayedHolds == Spec => []NoDurableTurnReplayed
<1>1. CurrentInv => NoDurableTurnReplayed
  BY DEF CurrentInv, Current, NoDurableTurnReplayed, Live, Returned
<1> QED
  BY <1>1, CurrentInvariant, PTL

--------------------------------------------------------------------------------
(* Callers that take turns on a session: what Exclusive buys.              *)

(* No other run works on a run's session, and none lives while the process *)
(* is down.                                                                *)
Apart ==
  /\ \A r, q \in Runs : Live(r) /\ Live(q) /\ call[r].session = call[q].session => r = q
  /\ \A r \in Runs : Live(r) => up

(* The run's row is there and says running, or is as far as the run found  *)
(* it.                                                                     *)
Marked(r) ==
  LET row == rows[call[r].session] IN
  /\ Visible(call[r].session, call[r].tenant)
  /\ row.status = "running" \/ row.iteration_count = loop[r].start

ExclusiveInv ==
  /\ Apart
  /\ \A r \in Runs : Live(r) => Marked(r)
  /\ \A w \in late : w.snapshot.status = "running"

(* A run whose row is left alone.                                          *)
LEMMA MarkedKept ==
  ASSUME NEW r \in Runs, Marked(r), call' = call, loop'[r].start = loop[r].start,
         rows'[call[r].session] = rows[call[r].session]
  PROVE  Marked(r)'
BY DEF Marked, Visible

(* A step of a live run that writes to its own row only, and goes on or    *)
(* returns.                                                                *)
LEMMA RunKeepsExclusive ==
  ASSUME TypeOK, ExclusiveInv, NEW r \in Runs, Live(r), UNCHANGED <<call, up>>,
         \A w \in late' : w.snapshot.status = "running",
         \A q \in Runs \ {r} : pc'[q] = pc[q] /\ loop'[q] = loop[q],
         \A s \in Sessions \ {call[r].session} : rows'[s] = rows[s],
         Live(r)' => Marked(r)'
  PROVE  ExclusiveInv'
<1>1. \A q \in Runs : Live(q)' => Live(q)
  BY DEF Live
<1>2. Apart'
  BY <1>1 DEF ExclusiveInv, Apart
<1>3. ASSUME NEW q \in Runs \ {r}, Live(q)' PROVE Marked(q)'
  <2>1. Live(q) /\ call[q].session # call[r].session /\ call[q].session \in Sessions
    BY <1>1, <1>3 DEF ExclusiveInv, Apart, TypeOK
  <2> QED
    BY <2>1, MarkedKept DEF ExclusiveInv
<1> QED
  BY <1>2, <1>3 DEF ExclusiveInv

(* A step of a caller that found the session quiet.                        *)
LEMMA CallerKeepsExclusive ==
  ASSUME TypeOK, ExclusiveInv, NEW s \in Sessions, Quiet(s), UNCHANGED <<call, pc, loop, late, up>>,
         \A q \in Sessions \ {s} : rows'[q] = rows[q]
  PROVE  ExclusiveInv'
<1>1. Apart'
  BY DEF ExclusiveInv, Apart, Live
<1>2. ASSUME NEW r \in Runs, Live(r)' PROVE Marked(r)'
  <2>1. Live(r) /\ call[r].session # s /\ call[r].session \in Sessions
    BY <1>2 DEF Live, Quiet, TypeOK
  <2> QED
    BY <2>1, MarkedKept DEF ExclusiveInv
<1> QED
  BY <1>1, <1>2 DEF ExclusiveInv

(* A run begins.                                                           *)
LEMMA ResumeKeepsExclusive ==
  ASSUME TypeOK, ExclusiveInv, Exclusive, NEW r \in Runs, Resume(r)
  PROVE  ExclusiveInv'
<1> DEFINE s == call[r].session
<1>1. /\ pc[r] = "idle" /\ up /\ Quiet(s) /\ s \in Sessions
      /\ Visible(s, call[r].tenant)
      /\ pc' = [pc EXCEPT ![r] = "mark"]
      /\ loop' = [loop EXCEPT ![r] = LoopOf(rows[s])]
      /\ UNCHANGED <<rows, call, late, up>>
  BY DEF Resume, Goto, MayTouch, TypeOK
<1>2. /\ loop'[r] = LoopOf(rows[s])
      /\ \A q \in Runs \ {r} : pc'[q] = pc[q] /\ loop'[q] = loop[q] /\ (Live(q)' <=> Live(q))
  BY <1>1 DEF TypeOK, Live
<1>3. Marked(r)'
  BY <1>1, <1>2 DEF Marked, LoopOf, Visible
<1>4. Apart'
  BY <1>1, <1>2 DEF ExclusiveInv, Apart, Quiet
<1>5. \A q \in Runs : Live(q)' => Marked(q)'
  BY <1>1, <1>2, <1>3, MarkedKept DEF ExclusiveInv
<1> QED
  BY <1>1, <1>4, <1>5 DEF ExclusiveInv

(* The steps of a live run.                                                *)
LEMMA RunStepKeepsExclusive ==
  ASSUME TypeOK, ExclusiveInv, NEW r \in Runs, RunStep(r) \/ Timeout(r)
  PROVE  ExclusiveInv'
<1> DEFINE s == call[r].session
<1>1. /\ pc[r] \in {"mark", "acquire", "turn", "tool", "save", "finishing"}
      /\ UNCHANGED <<call, up>>
      /\ UNCHANGED late \/ Timeout(r)
  BY DEF RunStep, MarkRunning, Acquire, AcquireFails, ThinkOn, ChooseTool, CallTool, Finish,
         LlmFails, MaxIterationsReached, Checkpoint, EndSession, Timeout, Guarded
<1>2. /\ Live(r) /\ Marked(r)
      /\ s \in Sessions /\ call[r].tenant \in Tenants
      /\ loop[r] \in LoopState
  BY <1>1 DEF Live, Returned, ExclusiveInv, TypeOK
<1>3. UNCHANGED late => \A w \in late' : w.snapshot.status = "running"
  BY DEF ExclusiveInv
<1>4. CASE MarkRunning(r)
  <2>1. /\ \A q \in Runs \ {r} : pc'[q] = pc[q]
        /\ UNCHANGED <<loop, late>>
        /\ UpdateStatus(s, call[r].tenant, "running") \/ UNCHANGED rows
    BY <1>4 DEF MarkRunning, Goto, TypeOK
  <2>2. /\ \A q \in Sessions \ {s} : rows'[q] = rows[q]
        /\ rows[s] # NoRow =>
                /\ rows'[s] # NoRow
                /\ rows'[s].tenant = rows[s].tenant
                /\ rows'[s].iteration_count = rows[s].iteration_count
                /\ rows'[s].status = rows[s].status \/ rows'[s].status = "running"
    BY <1>2, <2>1, StatusKeepsTurns DEF SessionStatus
  <2>3. Marked(r)'
    BY <1>1, <1>2, <2>1, <2>2 DEF Marked, Visible
  <2> QED
    BY <1>1, <1>2, <1>3, <2>1, <2>2, <2>3, RunKeepsExclusive
<1>5. CASE Acquire(r) \/ ThinkOn(r) \/ ChooseTool(r) \/ Finish(r) \/ CallTool(r)
  <2>1. /\ \A q \in Runs \ {r} : pc'[q] = pc[q] /\ loop'[q] = loop[q]
        /\ loop'[r].start = loop[r].start
        /\ UNCHANGED <<rows, late>>
    <3>1. CASE Acquire(r)
      BY <3>1 DEF Acquire, Goto, TypeOK
    <3>2. CASE ThinkOn(r) \/ ChooseTool(r) \/ Finish(r)
      BY <3>2, ResponseAppends
    <3>3. CASE CallTool(r)
      BY <3>3, CallAnswers
    <3> QED
      BY <1>5, <3>1, <3>2, <3>3
  <2>2. Marked(r)'
    BY <1>1, <1>2, <2>1, MarkedKept
  <2> QED
    BY <1>1, <1>2, <1>3, <2>1, <2>2, RunKeepsExclusive
<1>6. CASE Checkpoint(r)
  <2> DEFINE new == [loop[r] EXCEPT !.turn = loop[r].turn + 1]
  <2>1. loop' = [loop EXCEPT ![r] = new] /\ new.start = loop[r].start
    BY <1>2, <1>6 DEF Checkpoint, LoopState
  <2> HIDE DEF new
  <2>2. /\ \A q \in Runs \ {r} : pc'[q] = pc[q] /\ loop'[q] = loop[q]
        /\ loop'[r].start = loop[r].start
        /\ UNCHANGED late
    BY <1>6, <2>1 DEF Checkpoint, Goto, TypeOK
  <2>3. CASE Save(s, SnapshotOf(r))
    <3>1. rows' = [rows EXCEPT ![s] = SnapshotOf(r)]
      BY <1>2, <2>3, SnapshotOfType, SaveReplaces DEF TypeOK
    <3>2. /\ rows'[s] = SnapshotOf(r) /\ rows'[s] # NoRow
          /\ \A q \in Sessions \ {s} : rows'[q] = rows[q]
      BY <1>2, <3>1, SnapshotOfType, NoRowAssumption DEF TypeOK, RepoTypeOK
    <3>3. Marked(r)'
      BY <1>1, <3>2 DEF Marked, Visible, SnapshotOf
    <3> QED
      BY <1>1, <1>2, <1>3, <2>2, <3>2, <3>3, RunKeepsExclusive
  <2>4. CASE UNCHANGED rows
    <3>1. Marked(r)'
      BY <1>1, <1>2, <2>2, <2>4, MarkedKept
    <3> QED
      BY <1>1, <1>2, <1>3, <2>2, <2>4, <3>1, RunKeepsExclusive
  <2> QED
    BY <1>6, <2>3, <2>4 DEF Checkpoint
<1>7. ASSUME NEW outcome \in Returned, Return(r, outcome),
             \A w \in late' : w.snapshot.status = "running",
             \A q \in Sessions \ {s} : rows'[q] = rows[q]
      PROVE  ExclusiveInv'
  <2>1. ~Live(r)' /\ \A q \in Runs \ {r} : pc'[q] = pc[q] /\ loop'[q] = loop[q]
    BY <1>7 DEF Return, TypeOK, Live
  <2> QED
    BY <1>1, <1>2, <1>7, <2>1, RunKeepsExclusive
<1>8. CASE AcquireFails(r) \/ LlmFails(r) \/ MaxIterationsReached(r)
  <2>1. UNCHANGED <<rows, late>> /\ (Return(r, "failed") \/ Return(r, "terminated"))
    BY <1>8 DEF AcquireFails, LlmFails, MaxIterationsReached
  <2> QED
    BY <1>3, <1>7, <2>1 DEF Returned
<1>9. CASE EndSession(r)
  <2>1. /\ Return(r, "ok") /\ UNCHANGED late
        /\ UpdateStatus(s, call[r].tenant, "ended") \/ UNCHANGED rows
    BY <1>9 DEF EndSession
  <2>2. \A q \in Sessions \ {s} : rows'[q] = rows[q]
    BY <1>2, <2>1, StatusKeepsTurns DEF SessionStatus
  <2> QED
    BY <1>3, <1>7, <2>1, <2>2 DEF Returned
<1>10. CASE Timeout(r)
  <2>1. /\ Return(r, "terminated") /\ UNCHANGED rows
        /\ late' \subseteq late \cup {[by |-> r, session |-> s, snapshot |-> SnapshotOf(r)]}
    BY <1>10 DEF Timeout
  <2>2. \A w \in late' : w.snapshot.status = "running"
    BY <2>1 DEF ExclusiveInv, SnapshotOf
  <2> QED
    BY <1>7, <2>1, <2>2 DEF Returned
<1> QED
  BY <1>4, <1>5, <1>6, <1>8, <1>9, <1>10 DEF RunStep

(* A queued write lands, on a row that is the same tenant's and says       *)
(* running from then on.                                                   *)
LEMMA LateWriteKeepsExclusive ==
  ASSUME TypeOK, ExclusiveInv, NEW r \in Runs, LateWrite(r)
  PROVE  ExclusiveInv'
<1>1. PICK w \in late :
        /\ Save(w.session, w.snapshot) \/ UNCHANGED rows
        /\ late' = late \ {w}
        /\ UNCHANGED <<call, pc, loop, up>>
  BY DEF LateWrite
<1>2. w.session \in Sessions /\ w.snapshot \in Snapshot /\ w.snapshot.status = "running"
  BY DEF TypeOK, ExclusiveInv
<1>3. Apart' /\ \A v \in late' : v.snapshot.status = "running"
  BY <1>1 DEF ExclusiveInv, Apart, Live
<1>4. ASSUME NEW q \in Runs, Live(q)' PROVE Marked(q)'
  <2>1. Live(q) /\ Marked(q) /\ call[q].session \in Sessions
    BY <1>1, <1>4 DEF ExclusiveInv, Live, TypeOK
  <2>2. CASE Save(w.session, w.snapshot) /\ call[q].session = w.session
    <3>1. /\ rows' = [rows EXCEPT ![w.session] = w.snapshot]
          /\ rows[w.session] # NoRow => rows[w.session].tenant = w.snapshot.tenant
      BY <1>2, <2>2, SaveReplaces DEF TypeOK, Save, CanSave
    <3>2. rows'[w.session] = w.snapshot /\ rows'[w.session] # NoRow
      BY <1>2, <3>1, NoRowAssumption DEF TypeOK, RepoTypeOK
    <3> QED
      BY <1>1, <1>2, <2>1, <2>2, <3>1, <3>2 DEF Marked, Visible
  <2>3. CASE UNCHANGED rows \/ call[q].session # w.session
    <3>1. rows'[call[q].session] = rows[call[q].session]
      BY <1>1, <1>2, <2>1, <2>3, SaveReplaces DEF TypeOK, RepoTypeOK
    <3> QED
      BY <1>1, <2>1, <3>1, MarkedKept
  <2> QED
    BY <1>1, <2>2, <2>3
<1> QED
  BY <1>3, <1>4 DEF ExclusiveInv

(* While callers take turns, every step preserves the invariant.           *)
LEMMA ExclusiveNext ==
  ASSUME Exclusive, TypeOK, ExclusiveInv, [Next]_vars
  PROVE  ExclusiveInv'
<1>1. ASSUME NEW s \in Sessions, NEW t \in Tenants, Create(s, t) \/ DeleteSession(s, t)
      PROVE  ExclusiveInv'
  <2>1. /\ Quiet(s) /\ UNCHANGED <<call, pc, loop, late, up>>
        /\ \A q \in Sessions \ {s} : rows'[q] = rows[q]
    BY <1>1 DEF Create, DeleteSession, MayTouch, Save, Delete, TypeOK, RepoTypeOK
  <2> QED
    BY <2>1, CallerKeepsExclusive
<1>2. ASSUME NEW r \in Runs, Resume(r) PROVE ExclusiveInv'
  BY <1>2, ResumeKeepsExclusive
<1>3. ASSUME NEW r \in Runs, ResumeFails(r) PROVE ExclusiveInv'
  <2>1. /\ UNCHANGED <<rows, call, late, up>> /\ ~Live(r)'
        /\ \A q \in Runs \ {r} : pc'[q] = pc[q] /\ loop'[q] = loop[q]
    BY <1>3 DEF ResumeFails, Return, TypeOK, Live, Returned
  <2>2. \A q \in Runs : Live(q)' => q # r /\ Live(q)
    BY <2>1 DEF Live
  <2>3. Apart'
    BY <2>1, <2>2 DEF ExclusiveInv, Apart
  <2>4. \A q \in Runs : Live(q)' => Marked(q)'
    BY <2>1, <2>2, MarkedKept DEF ExclusiveInv
  <2> QED
    BY <2>1, <2>3, <2>4 DEF ExclusiveInv
<1>4. ASSUME NEW r \in Runs, RunStep(r) \/ Timeout(r) PROVE ExclusiveInv'
  BY <1>4, RunStepKeepsExclusive
<1>5. ASSUME NEW r \in Runs, LateWrite(r) PROVE ExclusiveInv'
  BY <1>5, LateWriteKeepsExclusive
<1>6. CASE Crash
  <2>1. late' = {} /\ \A r \in Runs : ~Live(r)'
    BY <1>6 DEF Crash, Live, Returned, TypeOK
  <2> QED
    BY <2>1 DEF ExclusiveInv, Apart
<1>7. CASE Restart
  <2>1. ~up /\ up' /\ UNCHANGED <<call, pc, loop, late>>
    BY <1>7 DEF Restart
  <2>2. \A r \in Runs : ~Live(r)'
    BY <2>1 DEF ExclusiveInv, Apart, Live
  <2> QED
    BY <2>1, <2>2 DEF ExclusiveInv, Apart
<1>8. CASE UNCHANGED vars
  <2>1. UNCHANGED <<rows, call, pc, loop, late, up>>
    BY <1>8 DEF vars
  <2>2. Apart'
    BY <2>1 DEF ExclusiveInv, Apart, Live
  <2>3. \A q \in Runs : Live(q)' => Marked(q)'
    BY <2>1, MarkedKept DEF ExclusiveInv, Live
  <2> QED
    BY <2>1, <2>2, <2>3 DEF ExclusiveInv
<1> QED
  BY <1>1, <1>2, <1>3, <1>4, <1>5, <1>6, <1>7, <1>8 DEF Next

(* While callers take turns: a run is alone on its session, but for the    *)
(* writes cut-off runs left behind, and its row is there, says running or  *)
(* is as far as the run found it.                                          *)
THEOREM ExclusiveInvariant == Spec => [](TypeOK /\ (Exclusive => ExclusiveInv))
<1>1. Init => (Exclusive => ExclusiveInv)
  BY DEF Init, ExclusiveInv, Apart, Live
<1>2. TypeOK /\ (Exclusive => ExclusiveInv) /\ [Next]_vars => (Exclusive => ExclusiveInv)'
  BY ExclusiveNext
<1> QED
  BY <1>1, <1>2, TypeInvariant, PTL DEF Spec

(* Crash recovery finds every interrupted session: its row says running,   *)
(* or is as it was before the run, whose status update had failed.         *)
THEOREM CrashDetectableHolds == Spec => []CrashDetectable
<1>1. (Exclusive => ExclusiveInv) => CrashDetectable
  BY DEF ExclusiveInv, CrashDetectable, Marked, Live, Returned, Guarded
<1> QED
  BY <1>1, ExclusiveInvariant, PTL

--------------------------------------------------------------------------------
(* How a turn gets lost.                                                   *)

(* A step that adds nothing to a row keeps the turns it has, unless it     *)
(* deletes them: the row is made anew from none only.                      *)
LEMMA KeptIsPrefix ==
  ASSUME TypeOK, NEW s \in Sessions, rows[s] # NoRow, rows'[s].trace = rows[s].trace
  PROVE  IsPrefix(rows[s].trace, rows'[s].trace)
<1>1. rows[s].trace \in Seq(Turn)
  BY DEF TypeOK, RepoTypeOK, Snapshot
<1> QED
  BY <1>1, ExtendsItself, ExtendsIsPrefix

(* A run's write: over a session's row that had turns the run does not     *)
(* know only if the run was overtaken.                                     *)
LEMMA WriteLoses ==
  ASSUME TypeOK, NEW r \in Runs, NEW snapshot \in Snapshot, call[r].session \in Sessions,
         Save(call[r].session, snapshot),
         r \notin overtaken => Knows(snapshot.trace, call[r].session),
         NEW s \in Sessions, rows[s] # NoRow, rows'[s] # NoRow,
         ~IsPrefix(rows[s].trace, rows'[s].trace)
  PROVE  r \in overtaken /\ call[r].session = s
<1>1. rows' = [rows EXCEPT ![call[r].session] = snapshot]
  BY SaveReplaces DEF TypeOK
<1>2. CASE s # call[r].session
  <2>1. rows'[s] = rows[s]
    BY <1>1, <1>2 DEF TypeOK, RepoTypeOK
  <2> QED
    BY <2>1, KeptIsPrefix
<1>3. CASE s = call[r].session
  <2>1. rows'[s].trace = snapshot.trace
    BY <1>1, <1>3 DEF TypeOK, RepoTypeOK
  <2>2. rows[s].trace \in Seq(Turn) /\ snapshot.trace \in Seq(Turn)
    BY DEF TypeOK, RepoTypeOK, Snapshot
  <2>3. ~Extends(rows[s].trace, snapshot.trace)
    BY <2>1, <2>2, ExtendsIsPrefix
  <2> QED
    BY <1>3, <2>3 DEF Knows
<1> QED
  BY <1>2, <1>3

(* The two writes that can lose a turn.                                    *)
LEMMA LosingSteps ==
  ASSUME TypeOK, CurrentInv, [Next]_vars,
         NEW s \in Sessions, rows[s] # NoRow, rows'[s] # NoRow,
         ~IsPrefix(rows[s].trace, rows'[s].trace)
  PROVE  \E r \in overtaken : call[r].session = s /\ (Checkpoint(r) \/ LateWrite(r))
<1>same. rows'[s].trace # rows[s].trace
  BY KeptIsPrefix
<1> DEFINE Lost == \E r \in overtaken : call[r].session = s /\ (Checkpoint(r) \/ LateWrite(r))
<1>1. ASSUME NEW q \in Sessions, NEW t \in Tenants, Create(q, t) \/ DeleteSession(q, t)
      PROVE  FALSE
  <2>1. rows'[s] = rows[s]
    BY <1>1 DEF Create, DeleteSession, Save, Delete, TypeOK, RepoTypeOK
  <2> QED
    BY <1>same, <2>1
<1>2. ASSUME NEW r \in Runs, MarkRunning(r) \/ EndSession(r) PROVE FALSE
  <2>1. call[r].session \in Sessions /\ call[r].tenant \in Tenants
    BY DEF TypeOK
  <2>2. PICK status \in SessionStatus :
          UpdateStatus(call[r].session, call[r].tenant, status) \/ UNCHANGED rows
    BY <1>2 DEF MarkRunning, EndSession, SessionStatus
  <2>3. rows'[s].trace = rows[s].trace
    BY <2>1, <2>2, StatusKeepsTurns
  <2> QED
    BY <1>same, <2>3
<1>3. ASSUME NEW r \in Runs, Checkpoint(r) PROVE Lost
  <2>1. /\ call[r].session \in Sessions /\ SnapshotOf(r) \in Snapshot
        /\ SnapshotOf(r).trace = loop[r].trace /\ Live(r)
    BY <1>3, SnapshotOfType DEF TypeOK, SnapshotOf, Checkpoint, Live, Returned
  <2>2. r \notin overtaken => Knows(SnapshotOf(r).trace, call[r].session)
    BY <2>1 DEF CurrentInv, Current
  <2>3. Save(call[r].session, SnapshotOf(r))
    BY <1>3, <1>same DEF Checkpoint
  <2>4. r \in overtaken /\ call[r].session = s
    BY <2>1, <2>2, <2>3, WriteLoses
  <2> QED
    BY <1>3, <2>4
<1>4. ASSUME NEW r \in Runs, LateWrite(r) PROVE Lost
  <2>1. PICK w \in late : w.by = r /\ (Save(w.session, w.snapshot) \/ UNCHANGED rows)
    BY <1>4 DEF LateWrite
  <2>2. /\ w.session \in Sessions /\ w.snapshot \in Snapshot /\ w.session = call[r].session
        /\ r \notin overtaken => Knows(w.snapshot.trace, call[r].session)
    BY <2>1 DEF TypeOK, CurrentInv, LateOwned
  <2>3. Save(call[r].session, w.snapshot)
    BY <1>same, <2>1, <2>2
  <2>4. r \in overtaken /\ call[r].session = s
    BY <2>2, <2>3, WriteLoses
  <2> QED
    BY <1>4, <2>4
<1>5. ASSUME Restart PROVE FALSE
  BY <1>5, <1>same, RecoveryKeepsTurns DEF Restart
<1>6. ASSUME UNCHANGED rows PROVE FALSE
  BY <1>same, <1>6
<1>7. CASE \E r \in Runs : Resume(r) \/ ResumeFails(r) \/ Timeout(r) \/ Acquire(r)
             \/ AcquireFails(r) \/ ThinkOn(r) \/ ChooseTool(r) \/ CallTool(r) \/ Finish(r)
             \/ LlmFails(r) \/ MaxIterationsReached(r)
  <2>1. UNCHANGED rows
    BY <1>7 DEF Resume, ResumeFails, Timeout, Acquire, AcquireFails, ThinkOn, ChooseTool,
       CallTool, Finish, LlmFails, MaxIterationsReached
  <2> QED
    BY <1>6, <2>1
<1>8. CASE Crash \/ UNCHANGED vars
  <2>1. UNCHANGED rows
    BY <1>8 DEF Crash, vars
  <2> QED
    BY <1>6, <2>1
<1> QED
  BY <1>1, <1>2, <1>3, <1>4, <1>5, <1>7, <1>8 DEF Next, RunStep

(* While callers take turns, a run is overtaken with a write queued only:  *)
(* its own, or that of one the wall clock cut off before it.               *)
LEMMA OvertakenLate ==
  ASSUME TypeOK, Exclusive, ExclusiveInv, [Next]_vars, overtaken' # overtaken
  PROVE  late # {}
<1>1. PICK r \in Runs : Checkpoint(r) \/ LateWrite(r)
  BY DEF Next, vars, RunStep, Create, DeleteSession, Crash, Restart, Resume, ResumeFails,
     MarkRunning, Acquire, AcquireFails, ThinkOn, ChooseTool, CallTool, Finish, LlmFails,
     MaxIterationsReached, Timeout, EndSession
<1>2. CASE LateWrite(r)
  BY <1>2 DEF LateWrite
<1>3. CASE Checkpoint(r)
  <2>1. Overtake(r) /\ Live(r)
    BY <1>3 DEF Checkpoint, Live, Returned
  <2>2. PICK q \in Runs \ {r} : MayStillSave(q, call[r].session)
    BY <2>1 DEF Overtake
  <2>3. ~Live(q)
    BY <2>1, <2>2 DEF MayStillSave, ExclusiveInv, Apart
  <2> QED
    BY <2>2, <2>3 DEF MayStillSave
<1> QED
  BY <1>1, <1>2, <1>3

(* A durable turn is lost by a run that was overtaken only, whatever the   *)
(* callers, the clock, the crashes and the database do; and while callers  *)
(* take turns, none is overtaken but where a write outlived its run.       *)
THEOREM NoTurnLostHolds == Spec => NoTurnLost
<1>1. TypeOK /\ CurrentInv /\ (Exclusive => ExclusiveInv) /\ [Next]_vars
        => /\ \A s \in Sessions :
                rows[s] # NoRow /\ rows'[s] # NoRow /\ ~IsPrefix(rows[s].trace, rows'[s].trace) =>
                  \E r \in overtaken : call[r].session = s /\ (Checkpoint(r) \/ LateWrite(r))
           /\ Exclusive /\ overtaken' # overtaken => late # {}
  BY LosingSteps, OvertakenLate
<1> QED
  BY <1>1, CurrentInvariant, ExclusiveInvariant, PTL DEF Spec, NoTurnLost

--------------------------------------------------------------------------------
(* Word for word: the history a trace stands for, and what is shown of it. *)

(* The messages of one more turn come last.                                *)
LEMMA TurnMessagesType ==
  ASSUME NEW trace \in Seq(Turn), NEW k \in 1..Len(trace)
  PROVE  TurnMessages(trace, k) \in Seq(Message)
<1>1. PICK by, observed, said : /\ by = trace[k].by
                                /\ observed = [role |-> "observation", turn |-> k - 1, by |-> by]
                                /\ said = [role |-> "assistant", turn |-> k - 1, by |-> by]
  OBVIOUS
<1>2. trace[k] \in Turn /\ k - 1 \in Nat
  BY ElementOfSeq
<1>3. observed \in Message /\ said \in Message
  BY <1>1, <1>2 DEF Turn, Message
<1>4. PICK S : S = Message
  OBVIOUS
<1>5. <<observed, said>> \in Seq(S) /\ <<said>> \in Seq(S)
  BY <1>3, <1>4
<1> QED
  BY <1>1, <1>4, <1>5 DEF TurnMessages

HistoryAlong(run, trace) ==
  /\ run \in [0..Len(trace) -> Seq(Message)]
  /\ run[0] = <<>>
  /\ \A k \in 1..Len(trace) : run[k] = run[k - 1] \o TurnMessages(trace, k)

(* The history grows turn by turn.                                         *)
LEMMA HistoryRuns ==
  ASSUME NEW trace \in Seq(Turn)
  PROVE  \E run : HistoryAlong(run, trace) /\ History(trace) = run[Len(trace)]
<1>1. PICK n \in Nat : n = Len(trace)
  OBVIOUS
<1>2. PICK seqs \in [1..n -> Seq(Message)] :
        seqs = [k \in 1..Len(trace) |-> TurnMessages(trace, k)]
  BY <1>1, TurnMessagesType
<1>3. PICK run \in [0..n -> Seq(Message)] : FlattensAlong(run, seqs, n) /\ FlattenSeq(seqs) = run[n]
  BY FlattenRuns
<1>4. HistoryAlong(run, trace)
  BY <1>1, <1>2, <1>3 DEF HistoryAlong, FlattensAlong
<1>5. History(trace) = run[n]
  BY <1>2, <1>3 DEF History
<1> QED
  BY <1>1, <1>4, <1>5

(* No turns, no history.                                                   *)
LEMMA HistoryOfNone == History(<<>>) = <<>>
<1>1. <<>> \in Seq(Turn) /\ Len(<<>>) = 0
  OBVIOUS
<1>2. PICK run : HistoryAlong(run, <<>>) /\ History(<<>>) = run[Len(<<>>)]
  BY <1>1, HistoryRuns
<1> QED
  BY <1>1, <1>2 DEF HistoryAlong

(* A history is one of messages.                                           *)
LEMMA HistoryType ==
  ASSUME NEW trace \in Seq(Turn)
  PROVE  History(trace) \in Seq(Message)
<1>1. PICK run : HistoryAlong(run, trace) /\ History(trace) = run[Len(trace)]
  BY HistoryRuns
<1>2. Len(trace) \in 0..Len(trace)
  OBVIOUS
<1> QED
  BY <1>1, <1>2 DEF HistoryAlong

(* A trace that goes on adds the messages of its last turn.                *)
LEMMA HistoryGrows ==
  ASSUME NEW trace \in Seq(Turn), NEW longer \in Seq(Turn), Len(longer) = Len(trace) + 1,
         \A k \in 1..Len(trace) : longer[k] = trace[k]
  PROVE  History(longer) = History(trace) \o TurnMessages(longer, Len(longer))
<1>1. PICK n \in Nat : n = Len(trace)
  OBVIOUS
<1>2. PICK before : HistoryAlong(before, trace) /\ History(trace) = before[n]
  BY <1>1, HistoryRuns
<1>3. PICK run : HistoryAlong(run, longer) /\ History(longer) = run[n + 1]
  BY <1>1, HistoryRuns
<1>4. \A k \in 1..n : TurnMessages(longer, k) = TurnMessages(trace, k)
  BY <1>1 DEF TurnMessages
<1>5. /\ run[0] = <<>> /\ before[0] = <<>>
      /\ \A k \in 1..n : before[k] = before[k - 1] \o TurnMessages(trace, k)
      /\ \A k \in 1..n + 1 : run[k] = run[k - 1] \o TurnMessages(longer, k)
  BY <1>1, <1>2, <1>3 DEF HistoryAlong
<1> DEFINE T == {k \in 0..n : run[k] # before[k]}
<1>6. T = {}
  <2> SUFFICES ASSUME T # {} PROVE FALSE
    OBVIOUS
  <2>1. PICK k \in T : \A m \in T : k <= m
    <3>1. T \in SUBSET Nat
      OBVIOUS
    <3> HIDE DEF T
    <3> QED
      BY <3>1, LeastNatural
  <2>2. k \in 1..n /\ k - 1 \in 0..n
    BY <1>5, <2>1
  <2>3. k - 1 \notin T
    BY <2>1, <2>2
  <2>4. run[k - 1] = before[k - 1]
    BY <2>2, <2>3
  <2>5. k \in 1..n + 1
    BY <2>2
  <2>6. run[k] = before[k]
    BY <1>4, <1>5, <2>2, <2>4, <2>5
  <2> QED
    BY <2>1, <2>6
<1>7. n \in 0..n /\ n + 1 \in 1..n + 1 /\ (n + 1) - 1 = n
  OBVIOUS
<1>8. run[n] = before[n]
  BY <1>6, <1>7
<1>9. run[n + 1] = run[n] \o TurnMessages(longer, n + 1)
  BY <1>5, <1>7
<1> QED
  BY <1>1, <1>2, <1>3, <1>8, <1>9

--------------------------------------------------------------------------------
(* A history opens with the system prompt and closes with the last n       *)
(* messages (or all) of what happened.                                     *)
Shows(messages, history, n) ==
  /\ Len(messages) >= 1 /\ messages[1] = Header("system")
  /\ \A i \in 0..n - 1 : i < Len(history) =>
       /\ i < Len(messages) - 1
       /\ messages[Len(messages) - i] = history[Len(history) - i]

(* What shows more shows less.                                             *)
LEMMA ShowsLess ==
  ASSUME NEW messages, NEW history, NEW n \in Nat, NEW m \in Nat, m <= n,
         Shows(messages, history, n)
  PROVE  Shows(messages, history, m)
  BY DEF Shows

(* What is said next is shown with what was shown before.                  *)
LEMMA ShowsMore ==
  ASSUME NEW S, NEW messages \in Seq(S), NEW history \in Seq(S), NEW said \in Seq(S), NEW n \in Nat,
         Shows(messages, history, n)
  PROVE  Shows(messages \o said, history \o said, n + Len(said))
<1>1. PICK k \in Nat, l \in Nat, p \in Nat : k = Len(messages) /\ l = Len(history) /\ p = Len(said)
  OBVIOUS
<1>2. PICK m, h : m = messages \o said /\ h = history \o said
  OBVIOUS
<1>3. /\ Len(m) = k + p /\ Len(h) = l + p
      /\ \A i \in 1..k : m[i] = messages[i]
      /\ \A i \in 1..l : h[i] = history[i]
      /\ \A i \in 1..p : m[k + i] = said[i] /\ h[l + i] = said[i]
  BY <1>1, <1>2
<1>4. k >= 1 /\ messages[1] = Header("system")
  BY <1>1 DEF Shows
<1>5. ASSUME NEW i \in 0..(n + p) - 1, i < l + p
      PROVE  i < (k + p) - 1 /\ m[(k + p) - i] = h[(l + p) - i]
  <2>1. CASE i < p
    <3>1. p - i \in 1..p /\ (k + p) - i = k + (p - i) /\ (l + p) - i = l + (p - i)
      BY <2>1
    <3>2. m[k + (p - i)] = h[l + (p - i)]
      BY <1>3, <3>1
    <3>3. m[(k + p) - i] = h[(l + p) - i]
      BY <3>1, <3>2
    <3>4. i < (k + p) - 1
      BY <1>4, <2>1
    <3> QED
      BY <3>3, <3>4
  <2>2. CASE ~(i < p)
    <3>1. PICK j \in 0..n - 1 : j = i - p
      BY <2>2
    <3>2. j < l
      BY <1>5, <3>1
    <3>3. j < k - 1 /\ messages[k - j] = history[l - j]
      BY <1>1, <3>2 DEF Shows
    <3>4. k - j \in 1..k /\ l - j \in 1..l /\ (k + p) - i = k - j /\ (l + p) - i = l - j
      BY <3>1, <3>2, <3>3
    <3>5. m[k - j] = h[l - j]
      BY <1>3, <3>3, <3>4
    <3>6. m[(k + p) - i] = h[(l + p) - i]
      BY <3>4, <3>5
    <3>7. i < (k + p) - 1
      BY <3>1, <3>3
    <3> QED
      BY <3>6, <3>7
  <2> QED
    BY <2>1, <2>2
<1>6. Len(m) >= 1 /\ m[1] = Header("system")
  BY <1>3, <1>4
<1>7. Shows(m, h, n + p)
  BY <1>3, <1>5, <1>6 DEF Shows
<1> QED
  BY <1>1, <1>2, <1>7

(* Where the elements of a concatenation come from.                        *)
LEMMA Joined ==
  ASSUME NEW S, NEW first \in Seq(S), NEW second \in Seq(S)
  PROVE  /\ Len(first \o second) = Len(first) + Len(second)
         /\ \A i \in 1..Len(first) : (first \o second)[i] = first[i]
         /\ \A i \in 1..Len(second) : (first \o second)[Len(first) + i] = second[i]
  OBVIOUS

(* The window check leaves the last keep messages and the system prompt.   *)
LEMMA ShowsWindowed ==
  ASSUME NEW S, NEW messages \in Seq(S), NEW history \in Seq(S), NEW keep \in Nat, NEW summary \in S,
         Shows(messages, history, keep),
         NEW sent \in CW!Windowed(messages, keep, summary)
  PROVE  Shows(sent, history, keep)
<1>1. CASE sent = messages
  BY <1>1
<1>2. CASE sent # messages
  <2>1. PICK k \in Nat, l \in Nat : k = Len(messages) /\ l = Len(history)
    OBVIOUS
  <2>2. k > keep + 3
    BY <1>2, <2>1 DEF CW!Windowed, CW!Compressible
  <2>3. PICK recent \in Seq(S) :
          /\ recent = CW!Recent(messages, keep) /\ Len(recent) = keep
          /\ \A i \in 1..keep : recent[i] = messages[(k - keep) + i]
    <3>1. PICK recent : recent = SubSeq(messages, (k - keep) + 1, k)
      OBVIOUS
    <3>2. (k - keep) + 1 \in 1..k + 1 /\ k - ((k - keep) + 1) + 1 = keep
          /\ \A i \in 1..keep : (k - keep) + 1 + i - 1 = (k - keep) + i
      BY <2>2
    <3>3. recent \in Seq(S) /\ Len(recent) = keep
      BY <2>1, <2>2, <3>1, <3>2, SubSeqProperties
    <3>4. \A i \in 1..keep : recent[i] = messages[(k - keep) + i]
      BY <2>1, <2>2, <3>1, <3>2, <3>3, SubSeqProperties
    <3>5. recent = CW!Recent(messages, keep)
      BY <2>1, <3>1 DEF CW!Recent
    <3> QED
      BY <3>3, <3>4, <3>5
  <2>4. PICK opening \in Seq(S), o \in 1..3 :
          sent = opening \o recent /\ Len(opening) = o /\ opening[1] = messages[1]
    <3>1. messages[1] \in S /\ messages[2] \in S
      BY <2>1, <2>2
    <3>2. PICK first \in S, second \in S : first = messages[1] /\ second = messages[2]
      BY <3>1
    <3>3. PICK a, b, c : /\ a = <<first, second, summary>>
                         /\ b = <<first, summary>> /\ c = <<first>>
      OBVIOUS
    <3>4. /\ a \in Seq(S) /\ Len(a) = 3 /\ a[1] = first
          /\ b \in Seq(S) /\ Len(b) = 2 /\ b[1] = first
          /\ c \in Seq(S) /\ Len(c) = 1 /\ c[1] = first
      BY <3>3
    <3>5. sent \in {a \o recent, b \o recent, c \o recent}
      BY <1>2, <2>3, <3>2, <3>3 DEF CW!Windowed, CW!Compressed, CW!Fallback, CW!Minimal
    <3>6. 1 \in 1..3 /\ 2 \in 1..3 /\ 3 \in 1..3
      OBVIOUS
    <3> QED
      BY <3>2, <3>4, <3>5, <3>6, Zenon
  <2>5. /\ Len(sent) = o + keep /\ sent[1] = opening[1]
        /\ \A i \in 1..keep : sent[o + i] = recent[i]
    <3>1. PICK p \in Nat : p = Len(recent) /\ p = keep
      BY <2>3
    <3>2. sent = opening \o recent /\ Len(opening) = o /\ o \in Nat /\ 1 \in 1..o
      BY <2>4
    <3>3. Len(sent) = o + p /\ sent[1] = opening[1]
      BY <3>1, <3>2, Joined
    <3>4. \A i \in 1..Len(recent) : (opening \o recent)[Len(opening) + i] = recent[i]
      BY Joined
    <3> QED
      BY <3>1, <3>2, <3>3, <3>4
  <2>6. messages[1] = Header("system")
    BY DEF Shows
  <2>7. ASSUME NEW i \in 0..keep - 1, i < l
        PROVE  i < (o + keep) - 1 /\ sent[(o + keep) - i] = history[l - i]
    <3>1. keep - i \in 1..keep /\ (o + keep) - i = o + (keep - i) /\ (k - keep) + (keep - i) = k - i
      OBVIOUS
    <3>2. sent[o + (keep - i)] = messages[(k - keep) + (keep - i)]
      BY <2>3, <2>5, <3>1
    <3>3. messages[k - i] = history[l - i]
      BY <2>1, <2>7 DEF Shows
    <3>4. i < (o + keep) - 1
      OBVIOUS
    <3> QED
      BY <3>1, <3>2, <3>3, <3>4
  <2> QED
    BY <2>1, <2>4, <2>5, <2>6, <2>7 DEF Shows
<1> QED
  BY <1>1, <1>2

(* A suffix agrees element by element, counted from the end.               *)
LEMMA SuffixOf ==
  ASSUME NEW S, NEW s \in Seq(S), NEW t \in Seq(S), Len(s) <= Len(t),
         \A i \in 0..Len(s) - 1 : s[Len(s) - i] = t[Len(t) - i]
  PROVE  IsSuffix(s, t)
<1>1. PICK n \in Nat, m \in Nat : n = Len(s) /\ m = Len(t)
  OBVIOUS
<1>2. PICK a, b : a = Reverse(s) /\ b = Reverse(t)
  OBVIOUS
<1>3. /\ a \in Seq(S) /\ Len(a) = n /\ \A i \in 1..n : a[i] = s[(n - i) + 1]
      /\ b \in Seq(S) /\ Len(b) = m /\ \A i \in 1..m : b[i] = t[(m - i) + 1]
  BY <1>1, <1>2 DEF Reverse
<1>4. ASSUME NEW i \in 1..n PROVE a[i] = b[i]
  <2>1. i - 1 \in 0..n - 1 /\ (n - i) + 1 = n - (i - 1) /\ (m - i) + 1 = m - (i - 1) /\ i \in 1..m
    BY <1>1
  <2>2. s[n - (i - 1)] = t[m - (i - 1)]
    BY <1>1, <2>1
  <2> QED
    BY <1>3, <2>1, <2>2
<1>5. SubSeq(a, 1, n) = SubSeq(b, 1, n) /\ n <= m
  BY <1>1, <1>3, <1>4
<1> QED
  BY <1>2, <1>3, <1>5 DEF IsSuffix, IsPrefix

(* What a history shows is what it closes with.                            *)
LEMMA ShowsClosing ==
  ASSUME NEW S, NEW messages \in Seq(S), NEW history \in Seq(S), NEW shown \in Nat,
         Shows(messages, history, shown)
  PROVE  IsSuffix(IF Len(history) <= shown THEN history
                  ELSE SubSeq(history, Len(history) - shown + 1, Len(history)),
                  Tail(messages))
<1>1. PICK k \in Nat, l \in Nat : k = Len(messages) /\ l = Len(history)
  OBVIOUS
<1>2. k >= 1
  BY <1>1 DEF Shows
<1>3. PICK rest : rest = Tail(messages)
  OBVIOUS
<1>4. rest \in Seq(S) /\ Len(rest) = k - 1 /\ \A i \in 1..k - 1 : rest[i] = messages[i + 1]
  BY <1>1, <1>2, <1>3
<1>5. ASSUME NEW i \in 0..shown - 1, i < l
      PROVE  i < k - 1 /\ rest[(k - 1) - i] = history[l - i]
  <2>1. i < k - 1 /\ messages[k - i] = history[l - i]
    BY <1>1, <1>5 DEF Shows
  <2>2. (k - 1) - i \in 1..k - 1 /\ ((k - 1) - i) + 1 = k - i
    BY <2>1
  <2> QED
    BY <1>4, <2>1, <2>2
<1>6. CASE l <= shown
  <2>1. \A i \in 0..l - 1 : history[l - i] = rest[(k - 1) - i]
    BY <1>5, <1>6
  <2>2. l <= k - 1
    <3>1. CASE l = 0
      BY <1>2, <3>1
    <3>2. CASE l # 0
      <4>1. l - 1 \in 0..shown - 1 /\ l - 1 < l
        BY <1>6, <3>2
      <4>2. l - 1 < k - 1
        BY <1>5, <4>1
      <4> QED
        BY <4>2
    <3> QED
      BY <3>1, <3>2
  <2>3. IsSuffix(history, rest)
    BY <1>1, <1>4, <2>1, <2>2, SuffixOf
  <2> QED
    BY <1>1, <1>3, <1>6, <2>3
<1>7. CASE ~(l <= shown)
  <2>1. PICK closing : closing = SubSeq(history, (l - shown) + 1, l)
    OBVIOUS
  <2>2. /\ (l - shown) + 1 \in 1..l + 1 /\ (l - ((l - shown) + 1)) + 1 = shown
        /\ \A i \in 1..shown : (((l - shown) + 1) + i) - 1 = (l - shown) + i
    BY <1>7
  <2>3. closing \in Seq(S) /\ Len(closing) = shown
    BY <1>1, <1>7, <2>1, <2>2, SubSeqProperties
  <2>4. \A i \in 1..shown : closing[i] = history[(l - shown) + i]
    BY <1>1, <1>7, <2>1, <2>2, SubSeqProperties
  <2>5. ASSUME NEW i \in 0..shown - 1 PROVE closing[shown - i] = rest[(k - 1) - i]
    <3>1. shown - i \in 1..shown /\ (l - shown) + (shown - i) = l - i /\ i < l
      BY <1>7
    <3>2. closing[shown - i] = history[l - i]
      BY <2>4, <3>1
    <3> QED
      BY <1>5, <3>1, <3>2
  <2>6. shown <= k - 1
    <3>1. CASE shown = 0
      BY <1>2, <3>1
    <3>2. CASE shown # 0
      <4>1. shown - 1 \in 0..shown - 1 /\ shown - 1 < l
        BY <1>7, <3>2
      <4> QED
        BY <1>5, <4>1
    <3> QED
      BY <3>1, <3>2
  <2>7. IsSuffix(closing, rest)
    BY <1>4, <2>3, <2>5, <2>6, SuffixOf
  <2> QED
    BY <1>1, <1>3, <1>7, <2>1, <2>7
<1> QED
  BY <1>6, <1>7

--------------------------------------------------------------------------------
(* How many messages the last turn of a trace is.                          *)
LastTurn(trace) == IF trace = <<>> THEN 0 ELSE Len(TurnMessages(trace, Len(trace)))

(* A snapshot shows what the model was shown for its last turn, and that   *)
(* turn.  One without messages has no turns.                               *)
Verbatim(messages, trace) ==
  IF messages = <<>> THEN trace = <<>>
  ELSE Shows(messages, History(trace), 2 * RecentTurns + LastTurn(trace))

LoopShows(r) ==
  /\ pc[r] \in {"mark", "acquire", "turn"} =>
       Shows(loop[r].messages, History(loop[r].trace), 2 * RecentTurns)
  /\ pc[r] = "tool" =>
       Shows(loop[r].messages, History(Front(loop[r].trace)), 2 * RecentTurns)
  /\ pc[r] = "save" =>
       loop[r].messages # <<>> /\ Verbatim(loop[r].messages, loop[r].trace)

RowsVerbatim == \A s \in Sessions : rows[s] # NoRow => Verbatim(rows[s].messages, rows[s].trace)
LateVerbatim == \A w \in late : Verbatim(w.snapshot.messages, w.snapshot.trace)
LoopsVerbatim == \A r \in Runs : LoopShows(r)

VerbatimInv == RowsVerbatim /\ LateVerbatim /\ LoopsVerbatim

(* Rows that are left alone, deleted, given a status or replaced by        *)
(* snapshots of which this is true keep it true.                           *)
LEMMA RowsKeepVerbatim ==
  ASSUME TypeOK, RowsVerbatim,
         \A s \in Sessions :
           \/ rows'[s] = rows[s]
           \/ rows'[s] = NoRow
           \/ /\ rows[s] # NoRow
              /\ \E status \in SessionStatus : rows'[s] = [rows[s] EXCEPT !.status = status]
           \/ Verbatim(rows'[s].messages, rows'[s].trace)
  PROVE  RowsVerbatim'
<1> SUFFICES ASSUME NEW s \in Sessions, rows'[s] # NoRow
             PROVE  Verbatim(rows'[s].messages, rows'[s].trace)
  BY DEF RowsVerbatim, Verbatim, History, Shows, LastTurn
<1>1. CASE rows[s] # NoRow /\ rows'[s] = rows[s]
  BY <1>1 DEF RowsVerbatim
<1>2. ASSUME rows[s] # NoRow, NEW status \in SessionStatus,
             rows'[s] = [rows[s] EXCEPT !.status = status]
      PROVE  Verbatim(rows'[s].messages, rows'[s].trace)
  <2>1. rows[s] \in Snapshot
    BY <1>2 DEF TypeOK, RepoTypeOK
  <2>2. rows'[s].trace = rows[s].trace /\ rows'[s].messages = rows[s].messages
    BY <1>2, <2>1 DEF Snapshot
  <2> QED
    BY <1>2, <2>2 DEF RowsVerbatim
<1> QED
  BY <1>1, <1>2

(* A step of one run leaves the others' loops alone.                       *)
LEMMA LoopsKeepVerbatim ==
  ASSUME TypeOK, LoopsVerbatim, NEW r \in Runs,
         NEW label, pc' = [pc EXCEPT ![r] = label],
         NEW new, loop' = [loop EXCEPT ![r] = new],
         LoopShows(r)'
  PROVE  LoopsVerbatim'
<1>1. ASSUME NEW q \in Runs \ {r} PROVE LoopShows(q)'
  <2>1. pc'[q] = pc[q] /\ loop'[q] = loop[q]
    BY DEF TypeOK
  <2> QED
    BY <2>1 DEF LoopsVerbatim, LoopShows
<1> QED
  BY <1>1 DEF LoopsVerbatim

(* A run that returns has no loop any more.                                *)
LEMMA ReturnsKeepVerbatim ==
  ASSUME TypeOK, LoopsVerbatim, NEW r \in Runs, NEW outcome \in Returned, Return(r, outcome)
  PROVE  LoopsVerbatim'
<1>1. pc'[r] = outcome
  BY DEF Return, TypeOK
<1>2. LoopShows(r)'
  BY <1>1 DEF LoopShows, Returned
<1> QED
  BY <1>2, LoopsKeepVerbatim DEF Return

(* A sequence with a last element is not empty.                            *)
LEMMA NotEmpty ==
  ASSUME NEW S, NEW s \in Seq(S), NEW n \in Nat, Len(s) = n + 1
  PROVE  s # <<>>
  OBVIOUS

(* One or two messages, and a history they are added to.                   *)
LEMMA SaidTypes ==
  ASSUME NEW S, NEW messages \in Seq(S), NEW first \in S, NEW second \in S
  PROVE  /\ <<first>> \in Seq(S) /\ Len(<<first>>) = 1
         /\ <<first, second>> \in Seq(S) /\ Len(<<first, second>>) = 2
         /\ Append(messages, first) = messages \o <<first>>
         /\ Append(messages, first) # <<>>
         /\ messages \o <<first, second>> # <<>>
  OBVIOUS

(* A turn that is only thought about.                                      *)
LEMMA ThoughtShown ==
  ASSUME NEW messages \in Seq(Message), NEW trace \in Seq(Turn), NEW n \in Nat, NEW turn \in Turn,
         NEW said \in Message, Shows(messages, History(trace), n),
         turn.kind # "act", said = [role |-> "assistant", turn |-> Len(trace), by |-> turn.by]
  PROVE  LET more == Append(messages, said)  longer == Append(trace, turn) IN
         more # <<>> /\ Shows(more, History(longer), n + LastTurn(longer))
<1>1. PICK more, longer : more = Append(messages, said) /\ longer = Append(trace, turn)
  OBVIOUS
<1>2. PICK k \in Nat : k = Len(trace)
  OBVIOUS
<1>3. /\ longer \in Seq(Turn) /\ Len(longer) = k + 1 /\ longer[k + 1] = turn
      /\ \A i \in 1..k : longer[i] = trace[i]
  BY <1>1, <1>2, AppendTurn
<1>4. TurnMessages(longer, k + 1) = <<said>>
  BY <1>2, <1>3 DEF TurnMessages
<1>5. PICK m : m = TurnMessages(longer, k + 1)
  OBVIOUS
<1>6. m \in Seq(Message) /\ Len(m) = 1 /\ longer # <<>>
  <2>1. <<said>> \in Seq(Message) /\ Len(<<said>>) = 1
    BY SaidTypes
  <2>2. longer # <<>>
    BY <1>3, NotEmpty
  <2> QED
    BY <1>4, <1>5, <2>1, <2>2
<1>7. more = messages \o m /\ more # <<>>
  <2>1. Append(messages, said) = messages \o <<said>> /\ Append(messages, said) # <<>>
    BY SaidTypes
  <2> QED
    BY <1>1, <1>4, <1>5, <2>1
<1>8. History(longer) = History(trace) \o m
  BY <1>2, <1>3, <1>5, HistoryGrows
<1>9. History(trace) \in Seq(Message)
  BY HistoryType
<1>10. Shows(messages \o m, History(trace) \o m, n + Len(m))
  BY <1>6, <1>9, ShowsMore
<1>11. LastTurn(longer) = Len(m)
  BY <1>3, <1>5, <1>6 DEF LastTurn
<1> QED
  BY <1>1, <1>7, <1>8, <1>10, <1>11

(* An action with its observation.                                         *)
LEMMA ActionShown ==
  ASSUME NEW messages \in Seq(Message), NEW trace \in Seq(Turn), NEW n \in Nat, NEW k \in Nat,
         Len(trace) = k + 1, Shows(messages, History(Front(trace)), n),
         NEW observed \in Message, NEW said \in Message,
         observed = [role |-> "observation", turn |-> k, by |-> trace[k + 1].by],
         said = [role |-> "assistant", turn |-> k, by |-> trace[k + 1].by]
  PROVE  LET more == messages \o <<observed, said>>  answered == Answered(trace) IN
         more # <<>> /\ Shows(more, History(answered), n + LastTurn(answered))
<1>1. PICK before, answered : before = Front(trace) /\ answered = Answered(trace)
  OBVIOUS
<1>2. before \in Seq(Turn) /\ Len(before) = k /\ \A i \in 1..k : before[i] = trace[i]
  BY <1>1 DEF Front
<1>3. /\ answered \in Seq(Turn) /\ Len(answered) = k + 1
      /\ answered[k + 1] = [kind |-> "act", by |-> trace[k + 1].by]
      /\ \A i \in 1..k : answered[i] = trace[i]
  <2>1. (k + 1) - 1 = k /\ k + 1 > 0
    OBVIOUS
  <2>2. /\ answered \in Seq(Turn)
        /\ Len(answered) = Len(trace)
        /\ \A i \in 1..(Len(trace) - 1) : answered[i] = trace[i]
        /\ Len(trace) > 0 =>
             answered[Len(trace)] = [kind |-> "act", by |-> trace[Len(trace)].by]
    BY <1>1, AnsweredTurn
  <2> QED
    BY <2>1, <2>2
<1>4. TurnMessages(answered, k + 1) = <<observed, said>>
  BY <1>3 DEF TurnMessages
<1>5. PICK m : m = TurnMessages(answered, k + 1)
  OBVIOUS
<1>6. m \in Seq(Message) /\ Len(m) = 2 /\ answered # <<>>
  <2>1. <<observed, said>> \in Seq(Message) /\ Len(<<observed, said>>) = 2
    BY SaidTypes
  <2>2. answered # <<>>
    BY <1>3, NotEmpty
  <2> QED
    BY <1>4, <1>5, <2>1, <2>2
<1>7. messages \o m # <<>>
  <2>1. messages \o <<observed, said>> # <<>>
    BY SaidTypes
  <2> QED
    BY <1>4, <1>5, <2>1
<1>8. History(answered) = History(before) \o m
  BY <1>2, <1>3, <1>5, HistoryGrows
<1>9. History(before) \in Seq(Message)
  BY <1>2, HistoryType
<1>10. Shows(messages \o m, History(before) \o m, n + Len(m))
  BY <1>1, <1>6, <1>9, ShowsMore
<1>11. LastTurn(answered) = Len(m)
  BY <1>3, <1>5, <1>6 DEF LastTurn
<1> QED
  BY <1>1, <1>4, <1>5, <1>7, <1>8, <1>10, <1>11

(* The last turn is some messages.                                         *)
LEMMA LastTurnType ==
  ASSUME NEW trace \in Seq(Turn)
  PROVE  LastTurn(trace) \in Nat
<1>1. CASE trace = <<>>
  BY <1>1 DEF LastTurn
<1>2. CASE trace # <<>>
  <2>1. Len(trace) \in 1..Len(trace)
    BY <1>2
  <2>2. TurnMessages(trace, Len(trace)) \in Seq(Message)
    BY <2>1, TurnMessagesType
  <2> QED
    BY <1>2, <2>2 DEF LastTurn
<1> QED
  BY <1>1, <1>2

(* The front of a sequence with one more element.                          *)
LEMMA FrontOfAppended ==
  ASSUME NEW S, NEW s \in Seq(S), NEW x \in S
  PROVE  Front(Append(s, x)) = s
  BY DEF Front

(* There are no messages yet.                                              *)
LEMMA VerbatimInit == Init => VerbatimInv
  BY DEF Init, RepoInit, VerbatimInv, RowsVerbatim, LateVerbatim, LoopsVerbatim, LoopShows

(* The rows after a save are the ones before and the snapshot.             *)
LEMMA SaveKeepsVerbatim ==
  ASSUME TypeOK, RowsVerbatim, NEW s \in Sessions, NEW snapshot \in Snapshot,
         Save(s, snapshot) \/ UNCHANGED rows, Verbatim(snapshot.messages, snapshot.trace)
  PROVE  RowsVerbatim'
<1>1. \A q \in Sessions : rows'[q] = rows[q] \/ (q = s /\ rows'[q] = snapshot)
  BY SaveReplaces DEF TypeOK, RepoTypeOK
<1>2. \A q \in Sessions : rows'[q] = rows[q] \/ Verbatim(rows'[q].messages, rows'[q].trace)
  BY <1>1
<1> QED
  BY <1>2, RowsKeepVerbatim

(* A status update touches no message.                                     *)
LEMMA StatusKeepsVerbatim ==
  ASSUME TypeOK, RowsVerbatim, NEW s \in Sessions, NEW t \in Tenants, NEW status \in SessionStatus,
         UpdateStatus(s, t, status) \/ UNCHANGED rows
  PROVE  RowsVerbatim'
<1>1. \A q \in Sessions :
        \/ rows'[q] = rows[q]
        \/ rows[q] # NoRow /\ rows'[q] = [rows[q] EXCEPT !.status = status]
  BY DEF UpdateStatus, Visible, TypeOK, RepoTypeOK
<1> QED
  BY <1>1, RowsKeepVerbatim

(* Every step keeps the last messages of every history word for word.      *)
LEMMA VerbatimNext ==
  ASSUME TypeOK, TypeOK', TracesInv, VerbatimInv, [Next]_vars
  PROVE  VerbatimInv'
<1> USE DEF VerbatimInv
<1>1. \A r \in Runs : /\ loop[r] \in LoopState
                     /\ loop[r].messages \in Seq(Message)
                     /\ loop[r].trace \in Seq(Turn)
                     /\ loop[r].turn \in Nat
                     /\ LoopInv(r) /\ LoopShows(r)
                     /\ call[r].session \in Sessions /\ call[r].tenant \in Tenants
  BY DEF TypeOK, LoopState, TracesInv, LoopsGenuine, LoopsVerbatim
<1>2. 2 * RecentTurns \in Nat
  BY AgentAssumption
<1>3. RowsVerbatim /\ LateVerbatim /\ LoopsVerbatim
  OBVIOUS
<1>4. UNCHANGED rows => RowsVerbatim'
  BY RowsKeepVerbatim
<1>5. late' \subseteq late => LateVerbatim'
  BY DEF LateVerbatim
<1>6. UNCHANGED <<pc, loop>> => LoopsVerbatim'
  BY DEF LoopsVerbatim, LoopShows
<1>7. ASSUME NEW s \in Sessions, NEW t \in Tenants, Create(s, t) PROVE VerbatimInv'
  <2>1. PICK status \in {"idle", "paused"},
             messages \in {<<>>, <<Header("system"), Header("user")>>} :
             Save(s, FreshSnapshot(t, status, messages))
    BY <1>7 DEF Create
  <2>2. PICK fresh : fresh = FreshSnapshot(t, status, messages)
    OBVIOUS
  <2>3. rows' = [rows EXCEPT ![s] = fresh]
    BY <1>7, <2>1, <2>2 DEF Create, Save, Upserted
  <2>4. Verbatim(fresh.messages, fresh.trace)
    <3>1. fresh.messages = messages /\ fresh.trace = <<>>
      BY <2>2 DEF FreshSnapshot
    <3>2. CASE messages = <<>>
      BY <3>1, <3>2 DEF Verbatim
    <3>3. CASE messages = <<Header("system"), Header("user")>>
      <4>1. Len(messages) = 2 /\ messages[1] = Header("system") /\ messages # <<>>
        BY <3>3
      <4>2. Len(History(<<>>)) = 0
        BY HistoryOfNone
      <4>3. Shows(messages, History(<<>>), 2 * RecentTurns + 0)
        BY <1>2, <4>1, <4>2 DEF Shows
      <4> QED
        BY <3>1, <4>1, <4>3 DEF Verbatim, LastTurn
    <3> QED
      BY <3>2, <3>3
  <2>5. \A q \in Sessions : rows'[q] = rows[q] \/ Verbatim(rows'[q].messages, rows'[q].trace)
    BY <2>3, <2>4 DEF TypeOK, RepoTypeOK
  <2>6. RowsVerbatim'
    BY <1>3, <2>5, RowsKeepVerbatim
  <2> QED
    BY <1>5, <1>6, <1>7, <2>6 DEF Create
<1>8. ASSUME NEW s \in Sessions, NEW t \in Tenants, DeleteSession(s, t) PROVE VerbatimInv'
  <2>1. RowsVerbatim'
    BY <1>3, <1>8, RowsKeepVerbatim DEF DeleteSession, Delete, TypeOK, RepoTypeOK
  <2> QED
    BY <1>5, <1>6, <1>8, <2>1 DEF DeleteSession
<1>9. ASSUME NEW r \in Runs, LateWrite(r) PROVE VerbatimInv'
  <2>1. PICK w \in late : /\ Save(w.session, w.snapshot) \/ UNCHANGED rows
                          /\ late' = late \ {w}
                          /\ UNCHANGED <<call, pc, loop, up, tools>>
    BY <1>9 DEF LateWrite
  <2>2. w.session \in Sessions /\ w.snapshot \in Snapshot
    BY DEF TypeOK
  <2>3. Verbatim(w.snapshot.messages, w.snapshot.trace)
    BY DEF LateVerbatim
  <2>4. RowsVerbatim'
    BY <1>3, <2>1, <2>2, <2>3, SaveKeepsVerbatim
  <2> QED
    BY <1>5, <1>6, <2>1, <2>4
<1>10. CASE Crash
  <2>1. \A r \in Runs : pc'[r] \notin {"mark", "acquire", "turn", "tool", "save"}
    BY <1>10 DEF Crash, Live, Returned
  <2>2. LoopsVerbatim'
    BY <2>1 DEF LoopsVerbatim, LoopShows
  <2> QED
    BY <1>4, <1>5, <1>10, <2>2 DEF Crash
<1>11. CASE Restart
  <2>1. \A s \in Sessions :
          \/ rows'[s] = rows[s]
          \/ rows[s] # NoRow /\ rows'[s] = [rows[s] EXCEPT !.status = "paused"]
    BY <1>11 DEF Restart, MarkRunningAsPaused, TypeOK, RepoTypeOK
  <2>2. RowsVerbatim'
    BY <1>3, <2>1, RowsKeepVerbatim DEF SessionStatus
  <2> QED
    BY <1>5, <1>6, <1>11, <2>2 DEF Restart
<1>12. ASSUME NEW r \in Runs, Resume(r) PROVE VerbatimInv'
  <2>1. PICK row : row = rows[call[r].session]
    OBVIOUS
  <2>2. row # NoRow /\ row \in Snapshot /\ row.messages # <<>> /\ Verbatim(row.messages, row.trace)
    BY <1>1, <1>12, <2>1 DEF Resume, Visible, RowsVerbatim, TypeOK, RepoTypeOK
  <2>3. loop'[r].messages = row.messages /\ loop'[r].trace = row.trace /\ pc'[r] = "mark"
    BY <1>12, <2>1 DEF Resume, LoopOf, Goto, TypeOK
  <2>4. row.trace \in Seq(Turn)
    BY <2>2 DEF Snapshot
  <2>5. LastTurn(row.trace) \in Nat
    BY <2>4, LastTurnType
  <2>6. Shows(row.messages, History(row.trace), 2 * RecentTurns)
    <3>1. PICK n \in Nat : n = 2 * RecentTurns + LastTurn(row.trace) /\ 2 * RecentTurns <= n
      BY <1>2, <2>5
    <3>2. Shows(row.messages, History(row.trace), n)
      BY <2>2, <3>1 DEF Verbatim
    <3> QED
      BY <1>2, <3>1, <3>2, ShowsLess
  <2>7. LoopShows(r)'
    <3>1. Shows(loop'[r].messages, History(loop'[r].trace), 2 * RecentTurns)
      BY <2>3, <2>6
    <3> QED
      BY <2>3, <3>1 DEF LoopShows, History
  <2>8. LoopsVerbatim'
    BY <1>3, <1>12, <2>7, LoopsKeepVerbatim DEF Resume, Goto
  <2> QED
    BY <1>4, <1>5, <1>12, <2>8 DEF Resume
<1>13. ASSUME NEW r \in Runs, NEW outcome \in Returned, Return(r, outcome),
              UNCHANGED rows, late' \subseteq late
       PROVE  VerbatimInv'
  BY <1>3, <1>4, <1>5, <1>13, ReturnsKeepVerbatim
<1>14. ASSUME NEW r \in Runs, ResumeFails(r) \/ AcquireFails(r) \/ LlmFails(r) \/ MaxIterationsReached(r)
       PROVE  VerbatimInv'
  BY <1>13, <1>14 DEF ResumeFails, AcquireFails, LlmFails, MaxIterationsReached, Returned
<1>15. ASSUME NEW r \in Runs, MarkRunning(r) PROVE VerbatimInv'
  <2>1. RowsVerbatim'
    BY <1>1, <1>3, <1>15, StatusKeepsVerbatim DEF MarkRunning, SessionStatus
  <2>2. pc[r] = "mark" /\ pc'[r] = "acquire" /\ loop' = [loop EXCEPT ![r] = loop[r]]
    BY <1>15 DEF MarkRunning, Goto, TypeOK
  <2>3. LoopShows(r)'
    BY <1>1, <1>15, <2>2 DEF LoopShows, MarkRunning
  <2>4. LoopsVerbatim'
    BY <1>3, <1>15, <2>2, <2>3, LoopsKeepVerbatim DEF MarkRunning, Goto
  <2> QED
    BY <1>5, <1>15, <2>1, <2>4 DEF MarkRunning
<1>16. ASSUME NEW r \in Runs, Acquire(r) PROVE VerbatimInv'
  <2>1. pc[r] = "acquire" /\ pc'[r] = "turn" /\ loop' = [loop EXCEPT ![r] = loop[r]]
    BY <1>16 DEF Acquire, Goto, TypeOK
  <2>2. LoopShows(r)'
    BY <1>1, <1>16, <2>1 DEF LoopShows, Acquire
  <2>3. LoopsVerbatim'
    BY <1>3, <1>16, <2>1, <2>2, LoopsKeepVerbatim DEF Acquire, Goto
  <2> QED
    BY <1>4, <1>5, <1>16, <2>3 DEF Acquire
<1>17. ASSUME NEW r \in Runs, ThinkOn(r) PROVE VerbatimInv'
  <2>1. PICK sent \in SentHistories(r) :
          loop' = [loop EXCEPT
                     ![r].messages = Append(sent, TurnMessage(r, "assistant")),
                     ![r].trace = Append(@, [kind |-> "think", by |-> r])]
    BY <1>17 DEF ThinkOn
  <2>2. PICK said \in Message : said = TurnMessage(r, "assistant")
    BY TurnMessageType
  <2>3. PICK turn \in Turn : turn = [kind |-> "think", by |-> r]
    BY DEF Turn
  <2>4. sent \in Seq(Message) /\ Shows(sent, History(loop[r].trace), 2 * RecentTurns)
    <3>1. sent \in Seq(Message)
      BY SentType
    <3>2. Shows(loop[r].messages, History(loop[r].trace), 2 * RecentTurns)
      BY <1>1, <1>17 DEF ThinkOn, LoopShows
    <3>3. History(loop[r].trace) \in Seq(Message) /\ loop[r].messages \in Seq(Message)
      BY <1>1, HistoryType
    <3>4. PICK summary \in Message : summary = Header("summary")
      BY HeaderType
    <3>5. sent \in CW!Windowed(loop[r].messages, 2 * RecentTurns, summary)
      BY <3>4 DEF SentHistories
    <3>6. Shows(sent, History(loop[r].trace), 2 * RecentTurns)
      BY <1>2, <3>2, <3>3, <3>5, ShowsWindowed
    <3> QED
      BY <3>1, <3>6
  <2>5. Len(loop[r].trace) = loop[r].turn
    BY <1>1, <1>17 DEF ThinkOn, LoopInv, Live, Returned
  <2>6. turn.kind # "act" /\ said = [role |-> "assistant", turn |-> Len(loop[r].trace), by |-> turn.by]
    BY <2>2, <2>3, <2>5 DEF TurnMessage
  <2>7. PICK more, longer : more = Append(sent, said) /\ longer = Append(loop[r].trace, turn)
    OBVIOUS
  <2>8. more # <<>> /\ Shows(more, History(longer), 2 * RecentTurns + LastTurn(longer))
    BY <1>1, <1>2, <2>4, <2>6, <2>7, ThoughtShown
  <2>9. PICK new : new = [loop[r] EXCEPT !.messages = more, !.trace = longer]
    OBVIOUS
  <2>10. loop' = [loop EXCEPT ![r] = new] /\ new.messages = more /\ new.trace = longer
    BY <1>1, <2>1, <2>2, <2>3, <2>7, <2>9 DEF TypeOK, LoopState
  <2>11. pc' = [pc EXCEPT ![r] = "save"] /\ pc'[r] = "save" /\ loop'[r] = new
    BY <1>17, <2>10 DEF ThinkOn, Goto, TypeOK
  <2>12. LoopShows(r)'
    <3>1. loop'[r].messages # <<>> /\ Verbatim(loop'[r].messages, loop'[r].trace)
      BY <2>8, <2>10, <2>11 DEF Verbatim
    <3> QED
      BY <2>11, <3>1 DEF LoopShows, Verbatim, History, LastTurn
  <2>13. LoopsVerbatim'
    BY <1>3, <2>10, <2>11, <2>12, LoopsKeepVerbatim
  <2> QED
    BY <1>4, <1>5, <1>17, <2>13 DEF ThinkOn
<1>18. ASSUME NEW r \in Runs, ChooseTool(r) PROVE VerbatimInv'
  <2>1. PICK sent \in SentHistories(r) :
          loop' = [loop EXCEPT
                     ![r].messages = sent,
                     ![r].trace = Append(@, [kind |-> "acting", by |-> r])]
    BY <1>18 DEF ChooseTool
  <2>2. PICK turn \in Turn : turn = [kind |-> "acting", by |-> r]
    BY DEF Turn
  <2>3. Shows(sent, History(loop[r].trace), 2 * RecentTurns)
    <3>1. Shows(loop[r].messages, History(loop[r].trace), 2 * RecentTurns)
      BY <1>1, <1>18 DEF ChooseTool, LoopShows
    <3>2. History(loop[r].trace) \in Seq(Message) /\ loop[r].messages \in Seq(Message)
      BY <1>1, HistoryType
    <3>3. PICK summary \in Message : summary = Header("summary")
      BY HeaderType
    <3>4. sent \in CW!Windowed(loop[r].messages, 2 * RecentTurns, summary)
      BY <3>3 DEF SentHistories
    <3> QED
      BY <1>2, <3>1, <3>2, <3>4, ShowsWindowed
  <2>4. PICK longer : longer = Append(loop[r].trace, turn)
    OBVIOUS
  <2>5. Front(longer) = loop[r].trace
    BY <1>1, <2>4, FrontOfAppended
  <2>6. PICK new : new = [loop[r] EXCEPT !.messages = sent, !.trace = longer]
    OBVIOUS
  <2>7. loop' = [loop EXCEPT ![r] = new] /\ new.messages = sent /\ new.trace = longer
    BY <1>1, <2>1, <2>2, <2>4, <2>6 DEF TypeOK, LoopState
  <2>8. pc' = [pc EXCEPT ![r] = "tool"] /\ pc'[r] = "tool" /\ loop'[r] = new
    BY <1>18, <2>7 DEF ChooseTool, Goto, TypeOK
  <2>9. LoopShows(r)'
    <3>1. Shows(loop'[r].messages, History(Front(loop'[r].trace)), 2 * RecentTurns)
      BY <2>3, <2>4, <2>5, <2>7, <2>8
    <3> QED
      BY <2>8, <3>1 DEF LoopShows
  <2>10. LoopsVerbatim'
    BY <1>3, <2>7, <2>8, <2>9, LoopsKeepVerbatim
  <2> QED
    BY <1>4, <1>5, <1>18, <2>10 DEF ChooseTool
<1>19. ASSUME NEW r \in Runs, CallTool(r) PROVE VerbatimInv'
  <2>1. PICK observed \in Message, said \in Message :
          observed = TurnMessage(r, "observation") /\ said = TurnMessage(r, "assistant")
    BY TurnMessageType
  <2>2. PICK trace \in Seq(Turn), k \in Nat : trace = loop[r].trace /\ k = loop[r].turn
    BY <1>1
  <2>3. Len(trace) = k + 1 /\ trace[k + 1] = [kind |-> "acting", by |-> r]
    BY <1>1, <1>19, <2>2 DEF CallTool, LoopInv, Live, Returned
  <2>4. Shows(loop[r].messages, History(Front(trace)), 2 * RecentTurns)
    BY <1>1, <1>19, <2>2 DEF CallTool, LoopShows
  <2>5. /\ observed = [role |-> "observation", turn |-> k, by |-> trace[k + 1].by]
        /\ said = [role |-> "assistant", turn |-> k, by |-> trace[k + 1].by]
    BY <2>1, <2>2, <2>3 DEF TurnMessage
  <2>6. PICK more, answered : more = loop[r].messages \o <<observed, said>> /\ answered = Answered(trace)
    OBVIOUS
  <2>7. more # <<>> /\ Shows(more, History(answered), 2 * RecentTurns + LastTurn(answered))
    <3>1. PICK messages \in Seq(Message), n \in Nat :
            messages = loop[r].messages /\ n = 2 * RecentTurns
      BY <1>1, <1>2
    <3>2. Shows(messages, History(Front(trace)), n)
      BY <2>4, <3>1
    <3>3. LET grown == messages \o <<observed, said>>  full == Answered(trace) IN
          grown # <<>> /\ Shows(grown, History(full), n + LastTurn(full))
      BY <2>3, <2>5, <3>2, ActionShown
    <3> QED
      BY <2>6, <3>1, <3>3
  <2>8. PICK new : new = [loop[r] EXCEPT !.messages = more, !.trace = answered]
    OBVIOUS
  <2>9. loop' = [loop EXCEPT ![r] = new] /\ new.messages = more /\ new.trace = answered
    BY <1>1, <1>19, <2>1, <2>2, <2>6, <2>8 DEF CallTool, Answered, TypeOK, LoopState
  <2>10. pc' = [pc EXCEPT ![r] = "save"] /\ pc'[r] = "save" /\ loop'[r] = new
    BY <1>19, <2>9 DEF CallTool, Goto, TypeOK
  <2>11. LoopShows(r)'
    <3>1. loop'[r].messages # <<>> /\ Verbatim(loop'[r].messages, loop'[r].trace)
      BY <2>7, <2>9, <2>10 DEF Verbatim
    <3> QED
      BY <2>10, <3>1 DEF LoopShows, Verbatim, History, LastTurn
  <2>12. LoopsVerbatim'
    BY <1>3, <2>9, <2>10, <2>11, LoopsKeepVerbatim
  <2> QED
    BY <1>4, <1>5, <1>19, <2>12 DEF CallTool
<1>20. ASSUME NEW r \in Runs, Finish(r) PROVE VerbatimInv'
  <2>1. PICK new : loop' = [loop EXCEPT ![r] = new]
    <3>1. loop' = [loop EXCEPT ![r] = [loop[r] EXCEPT !.trace = Append(loop[r].trace,
                                                   [kind |-> "finish", by |-> r])]]
      BY <1>20 DEF Finish
    <3> QED
      BY <3>1
  <2>2. pc' = [pc EXCEPT ![r] = "finishing"] /\ pc'[r] = "finishing"
    BY <1>20 DEF Finish, Goto, TypeOK
  <2>3. LoopShows(r)'
    BY <2>2 DEF LoopShows
  <2>4. LoopsVerbatim'
    BY <1>3, <2>1, <2>2, <2>3, LoopsKeepVerbatim
  <2> QED
    BY <1>4, <1>5, <1>20, <2>4 DEF Finish
<1>21. ASSUME NEW r \in Runs, pc[r] = "save"
       PROVE  SnapshotOf(r) \in Snapshot /\ Verbatim(SnapshotOf(r).messages, SnapshotOf(r).trace)
  BY <1>1, <1>21, SnapshotOfType DEF SnapshotOf, LoopShows
<1>22. ASSUME NEW r \in Runs, Checkpoint(r) PROVE VerbatimInv'
  <2>1. PICK snapshot \in Snapshot :
          snapshot = SnapshotOf(r) /\ Verbatim(snapshot.messages, snapshot.trace)
    BY <1>21, <1>22 DEF Checkpoint
  <2>2. RowsVerbatim'
    BY <1>1, <1>3, <1>22, <2>1, SaveKeepsVerbatim DEF Checkpoint
  <2>3. PICK new : /\ loop' = [loop EXCEPT ![r] = new]
                   /\ new.messages = loop[r].messages /\ new.trace = loop[r].trace
    <3>1. loop' = [loop EXCEPT ![r] = [loop[r] EXCEPT !.turn = loop[r].turn + 1]]
      BY <1>22 DEF Checkpoint
    <3>2. PICK new : new = [loop[r] EXCEPT !.turn = loop[r].turn + 1]
      OBVIOUS
    <3>3. new.messages = loop[r].messages /\ new.trace = loop[r].trace
      BY <1>1, <3>2 DEF LoopState
    <3> QED
      BY <3>1, <3>2, <3>3
  <2>4. pc[r] = "save" /\ pc' = [pc EXCEPT ![r] = "turn"] /\ pc'[r] = "turn" /\ loop'[r] = new
    BY <1>22, <2>3 DEF Checkpoint, Goto, TypeOK
  <2>5. Shows(loop[r].messages, History(loop[r].trace), 2 * RecentTurns)
    <3>1. loop[r].messages # <<>> /\ Verbatim(loop[r].messages, loop[r].trace)
      BY <1>1, <2>4 DEF LoopShows
    <3>2. PICK n \in Nat : n = 2 * RecentTurns + LastTurn(loop[r].trace) /\ 2 * RecentTurns <= n
      BY <1>1, <1>2, LastTurnType
    <3>3. Shows(loop[r].messages, History(loop[r].trace), n)
      BY <3>1, <3>2 DEF Verbatim
    <3> QED
      BY <1>2, <3>2, <3>3, ShowsLess
  <2>6. LoopShows(r)'
    <3>1. Shows(loop'[r].messages, History(loop'[r].trace), 2 * RecentTurns)
      BY <2>3, <2>4, <2>5
    <3> QED
      BY <2>4, <3>1 DEF LoopShows, History
  <2>7. LoopsVerbatim'
    BY <1>3, <2>3, <2>4, <2>6, LoopsKeepVerbatim
  <2> QED
    BY <1>5, <1>22, <2>2, <2>7 DEF Checkpoint
<1>23. ASSUME NEW r \in Runs, Timeout(r) PROVE VerbatimInv'
  <2>1. LateVerbatim'
    BY <1>3, <1>21, <1>23 DEF Timeout, LateVerbatim
  <2>2. LoopsVerbatim'
    BY <1>3, <1>23, ReturnsKeepVerbatim DEF Timeout, Returned
  <2> QED
    BY <1>4, <1>23, <2>1, <2>2 DEF Timeout
<1>24. ASSUME NEW r \in Runs, EndSession(r) PROVE VerbatimInv'
  <2>1. RowsVerbatim'
    BY <1>1, <1>3, <1>24, StatusKeepsVerbatim DEF EndSession, SessionStatus
  <2>2. LoopsVerbatim'
    BY <1>3, <1>24, ReturnsKeepVerbatim DEF EndSession, Returned
  <2> QED
    BY <1>5, <1>24, <2>1, <2>2 DEF EndSession
<1>25. CASE UNCHANGED vars
  BY <1>4, <1>5, <1>6, <1>25 DEF vars
<1> QED
  BY <1>7, <1>8, <1>9, <1>10, <1>11, <1>12, <1>14, <1>15, <1>16, <1>17, <1>18, <1>19, <1>20,
     <1>22, <1>23, <1>24, <1>25 DEF Next, RunStep

(* However often and by whichever run a history was compressed, a row      *)
(* opens with the system prompt and closes with its last turn and the      *)
(* messages the model was shown for it, word for word.                     *)
THEOREM RecentTurnsVerbatimHolds == Spec => []RecentTurnsVerbatim
<1>1. Spec => [](TypeOK /\ TracesInv)
  BY TracesInvariant
<1>2. Init => VerbatimInv
  BY VerbatimInit
<1>3. TypeOK /\ TypeOK' /\ TracesInv /\ VerbatimInv /\ [Next]_vars => VerbatimInv'
  BY VerbatimNext
<1>4. TypeOK /\ VerbatimInv => RecentTurnsVerbatim
  <2> SUFFICES ASSUME TypeOK, VerbatimInv, NEW s \in Sessions, rows[s] # NoRow, rows[s].trace # <<>>
               PROVE  LET messages == rows[s].messages
                          trace    == rows[s].trace
                          history  == History(trace)
                          shown    == 2 * RecentTurns + Len(TurnMessages(trace, Len(trace)))
                          closing  == IF Len(history) <= shown THEN history
                                      ELSE SubSeq(history, Len(history) - shown + 1, Len(history))
                      IN  messages[1] = Header("system") /\ IsSuffix(closing, Tail(messages))
    BY DEF RecentTurnsVerbatim
  <2>1. PICK messages \in Seq(Message), trace \in Seq(Turn) :
          messages = rows[s].messages /\ trace = rows[s].trace
    BY DEF TypeOK, RepoTypeOK, Snapshot
  <2>2. Verbatim(messages, trace) /\ trace # <<>>
    BY <2>1 DEF VerbatimInv, RowsVerbatim
  <2>3. PICK history \in Seq(Message) : history = History(trace)
    BY HistoryType
  <2>4. PICK shown \in Nat : /\ shown = 2 * RecentTurns + LastTurn(trace)
                             /\ shown = 2 * RecentTurns + Len(TurnMessages(trace, Len(trace)))
    BY <2>2, LastTurnType, AgentAssumption DEF LastTurn
  <2>5. Shows(messages, history, shown)
    BY <2>2, <2>3, <2>4 DEF Verbatim
  <2>6. messages[1] = Header("system")
    BY <2>5 DEF Shows
  <2>7. IsSuffix(IF Len(history) <= shown THEN history
                 ELSE SubSeq(history, Len(history) - shown + 1, Len(history)),
                 Tail(messages))
    BY <2>5, ShowsClosing
  <2> QED
    BY <2>1, <2>3, <2>4, <2>6, <2>7
<1> QED
  BY <1>1, <1>2, <1>3, <1>4, PTL DEF Spec

--------------------------------------------------------------------------------
(* The window check, with what messages weigh.                             *)

WindowType ==
  /\ weighed \in Seq(Weighted)
  /\ Weights # {}

(* A history that was checked needs no compression or cannot be compressed *)
(* any more.                                                               *)
WindowInv ==
  /\ WindowType
  /\ at = "thinking" => ~ShouldCompress(weighed) \/ ~Compressible(weighed, Keep)

(* What compression leaves is short.                                       *)
LEMMA CompressedLengths ==
  ASSUME NEW S, NEW summary \in S, NEW history \in Seq(S), NEW keep \in Nat, Compressible(history, keep)
  PROVE  /\ Compressed(history, keep, summary) \in Seq(S)
         /\ Len(Compressed(history, keep, summary)) = keep + 3
         /\ Fallback(history, keep, summary) \in Seq(S)
         /\ Len(Fallback(history, keep, summary)) = keep + 2
         /\ Minimal(history, keep) \in Seq(S)
         /\ Len(Minimal(history, keep)) = keep + 1
<1>1. PICK n \in Nat : n = Len(history) /\ n > keep + 3
  BY DEF Compressible
<1>2. PICK recent : recent = Recent(history, keep)
  OBVIOUS
<1>3. recent \in Seq(S) /\ Len(recent) = keep
  BY <1>1, <1>2 DEF Recent
<1>4. history[1] \in S /\ history[2] \in S
  BY <1>1
<1>5. <<history[1], history[2], summary>> \in Seq(S) /\ <<history[1], summary>> \in Seq(S) /\ <<history[1]>> \in Seq(S)
  BY <1>4
<1> QED
  BY <1>2, <1>3, <1>5 DEF Compressed, Fallback, Minimal

(* Nothing compression returns can be compressed again, and it is one of   *)
(* the histories AgentSession reckons with.                                *)
LEMMA ResultIs ==
  ASSUME NEW summary \in Weighted, NEW history \in Seq(Weighted), NEW keep \in Nat
  PROVE  /\ CompressContext(history, keep, summary) \in Seq(Weighted)
         /\ ~Compressible(CompressContext(history, keep, summary), keep)
         /\ CompressContext(history, keep, summary) \in Windowed(history, keep, summary)
<1>1. CASE ~Compressible(history, keep)
  BY <1>1 DEF CompressContext, Windowed
<1>2. CASE Compressible(history, keep)
  <2>1. PICK result : result = CompressContext(history, keep, summary)
    OBVIOUS
  <2>2. result \in {Compressed(history, keep, summary), Fallback(history, keep, summary), Minimal(history, keep)}
    BY <1>2, <2>1 DEF CompressContext
  <2>3. result \in Seq(Weighted) /\ Len(result) \in {keep + 1, keep + 2, keep + 3}
    BY <1>2, <2>2, CompressedLengths
  <2>4. ~Compressible(result, keep)
    BY <2>3 DEF Compressible
  <2> QED
    BY <1>2, <2>1, <2>2, <2>3, <2>4 DEF Windowed
<1> QED
  BY <1>1, <1>2

(* What a history weighs, message by message.                              *)
Heavier(sum, message) == sum + message.tokens

WeighsAlong(run, history) ==
  /\ run \in [0..Len(history) -> Nat]
  /\ run[0] = 0
  /\ \A k \in 1..Len(history) : run[k] = Heavier(run[k - 1], history[k])

(* The fold that weighs a history runs along it.                           *)
LEMMA TokensRun ==
  ASSUME Weights \subseteq Nat \ {0}, NEW history \in Seq(Weighted)
  PROVE  \E run : WeighsAlong(run, history) /\ Tokens(history) = run[Len(history)]
<1> DEFINE Is(g) == g = [s \in SUBSET DOMAIN history |->
                           IF s = {} THEN 0
                           ELSE g[s \ {Max(s)}] + history[Max(s)].tokens]
<1>1. PICK n \in Nat : n = Len(history)
  OBVIOUS
<1>2. PICK V : V = Nat
  OBVIOUS
<1>3. PICK fold : fold = CHOOSE g : Is(g)
  OBVIOUS
<1>4. DOMAIN history = 1..n /\ Tokens(history) = fold[1..n]
  BY <1>1, <1>3 DEF Tokens, FoldLeft, MapThenFoldSet, Max, Max
<1>5. 0 \in V
  BY <1>2
<1>6. PICK step \in [1..n -> [V -> V]] : \A k \in 1..n, v \in V : step[k][v] = Heavier(v, history[k])
  <2>1. ASSUME NEW k \in 1..n, NEW v \in V PROVE Heavier(v, history[k]) \in V
    <3>1. history[k] \in Weighted
      BY <1>1
    <3>2. history[k].tokens \in Nat
      BY <3>1 DEF Weighted
    <3> QED
      BY <1>2, <3>2 DEF Heavier
  <2>2. [k \in 1..n |-> [v \in V |-> Heavier(v, history[k])]] \in [1..n -> [V -> V]]
    BY <2>1
  <2> QED
    BY <2>2
<1>7. PICK g \in [SUBSET (1..n) -> V] : FoldsAlong(g, n, 0, step)
  BY <1>5, FoldExists
<1>8. \A s \in SUBSET (1..n) : s # {} => Max(s) \in 1..n /\ s \ {Max(s)} \in SUBSET (1..n)
  <2> SUFFICES ASSUME NEW s \in SUBSET (1..n), s # {} PROVE Max(s) \in s
    OBVIOUS
  <2>1. s \in SUBSET (0..n)
    OBVIOUS
  <2> QED
    BY <2>1, MaxIsGreatest
<1>9. Is(g)
  <2>1. ASSUME NEW s \in SUBSET (1..n)
        PROVE  g[s] = IF s = {} THEN 0 ELSE Heavier(g[s \ {Max(s)}], history[Max(s)])
    BY <1>6, <1>7, <1>8 DEF FoldsAlong
  <2> QED
    BY <1>4, <2>1 DEF Heavier
<1>10. Is(fold)
  BY <1>3, <1>9
<1>11. FoldsWithin(fold, n, V, 0, step)
  <2>1. \A s \in SUBSET (1..n) :
          fold[s] = IF s = {} THEN 0 ELSE Heavier(fold[s \ {Max(s)}], history[Max(s)])
    BY <1>4, <1>10 DEF Heavier
  <2> HIDE DEF Is
  <2>2. fold[{}] = 0
    BY <2>1
  <2>3. ASSUME NEW s \in SUBSET (1..n), s # {}, fold[s \ {Max(s)}] \in V
        PROVE  fold[s] = step[Max(s)][fold[s \ {Max(s)}]]
    BY <1>6, <1>8, <2>1, <2>3
  <2> QED
    BY <2>2, <2>3 DEF FoldsWithin
<1>12. PICK run \in [0..n -> V] : CountsAlong(run, n, 0, step)
  BY <1>5, AlongNumbers
<1>13. EndsAs(fold, run, n)
  <2>1. run \in [0..n -> V]
    BY <1>12
  <2>2. CountsAlong(run, n, 0, step)
    BY <1>12
  <2> QED
    BY <1>5, <1>11, <2>1, <2>2, FoldRuns
<1>14. WeighsAlong(run, history)
  <2>1. run[0] = 0
    BY <1>12 DEF CountsAlong
  <2>2. ASSUME NEW k \in 1..n PROVE run[k] = Heavier(run[k - 1], history[k])
    <3>1. k \in 0..n /\ k # 0 /\ run[k - 1] \in V
      OBVIOUS
    <3>2. run[k] = step[k][run[k - 1]]
      BY <1>12, <3>1 DEF CountsAlong
    <3> QED
      BY <1>6, <3>1, <3>2
  <2> QED
    BY <1>1, <1>2, <2>1, <2>2 DEF WeighsAlong
<1> QED
  BY <1>1, <1>4, <1>13, <1>14 DEF EndsAs

(* The last resort is lighter: it drops three messages at least.           *)
LEMMA MinimalIsLighter ==
  ASSUME Weights \subseteq Nat \ {0}, NEW history \in Seq(Weighted), NEW keep \in Nat,
         Compressible(history, keep)
  PROVE  Tokens(Minimal(history, keep)) < Tokens(history)
<1>1. PICK n \in Nat : n = Len(history) /\ n > keep + 3
  BY DEF Compressible
<1>2. PICK S : S = Weighted
  OBVIOUS
<1>3. PICK d \in Nat : d = n - keep /\ d > 3
  <2>1. n - keep \in Nat /\ n - keep > 3
    BY <1>1
  <2> QED
    BY <2>1
<1>4. PICK recent : recent = SubSeq(history, d + 1, n)
  OBVIOUS
<1>5. recent \in Seq(S) /\ Len(recent) = keep /\ \A j \in 1..keep : recent[j] = history[d + j]
  <2>1. history \in Seq(S) /\ keep = n - (d + 1) + 1 /\ d + 1 \in 1..n + 1
    BY <1>1, <1>2, <1>3
  <2>2. /\ SubSeq(history, d + 1, n) \in Seq(S) /\ Len(SubSeq(history, d + 1, n)) = keep
        /\ \A j \in 1..keep : SubSeq(history, d + 1, n)[j] = history[(d + 1) + j - 1]
    BY <1>1, <2>1
  <2>3. \A j \in 1..keep : (d + 1) + j - 1 = d + j
    OBVIOUS
  <2> QED
    BY <1>4, <2>2, <2>3
<1>6. PICK left : left = Minimal(history, keep)
  OBVIOUS
<1>7. /\ left \in Seq(S) /\ Len(left) = keep + 1
      /\ left[1] = history[1] /\ \A j \in 1..keep : left[j + 1] = history[d + j]
  <2>1. left = <<history[1]>> \o recent
    <3>1. Len(history) - keep + 1 = d + 1
      BY <1>1, <1>3
    <3> QED
      BY <1>1, <1>4, <1>6, <3>1 DEF Minimal, Recent
  <2>2. history[1] \in S
    BY <1>1, <1>2
  <2>3. <<history[1]>> \in Seq(S) /\ Len(<<history[1]>>) = 1 /\ <<history[1]>>[1] = history[1]
    BY <2>2
  <2>4. left = <<history[1]>> \o recent
    BY <2>1
  <2>5. left \in Seq(S)
    BY <1>5, <2>3, <2>4
  <2>6. Len(left) = keep + 1
    BY <1>5, <2>3, <2>4
  <2>7. left[1] = history[1]
    BY <1>5, <2>3, <2>4
  <2>8. ASSUME NEW j \in 1..keep PROVE left[j + 1] = history[d + j]
    <3>1. left[j + 1] = recent[j]
      BY <1>5, <2>3, <2>4
    <3> QED
      BY <1>5, <3>1
  <2> QED
    BY <2>5, <2>6, <2>7, <2>8
<1>8. PICK all : WeighsAlong(all, history) /\ Tokens(history) = all[n]
  BY <1>1, TokensRun
<1>9. PICK some : WeighsAlong(some, left) /\ Tokens(left) = some[keep + 1]
  BY <1>2, <1>7, TokensRun
<1>10. /\ all \in [0..n -> Nat] /\ all[0] = 0
       /\ \A k \in 1..n : all[k] = all[k - 1] + history[k].tokens
  BY <1>1, <1>8 DEF WeighsAlong, Heavier
<1>11. /\ some \in [0..keep + 1 -> Nat] /\ some[0] = 0
       /\ \A k \in 1..keep + 1 : some[k] = some[k - 1] + left[k].tokens
  BY <1>7, <1>9 DEF WeighsAlong, Heavier
<1>12. \A k \in 1..n : history[k].tokens \in Nat \ {0}
  <2> TAKE k \in 1..n
  <2>1. history[k] \in Weighted
    BY <1>1
  <2> QED
    BY <2>1 DEF Weighted
<1>13. some[1] = all[1]
  <2>1. 1 \in 1..n /\ 1 \in 1..keep + 1
    BY <1>1
  <2>2. all[1] = 0 + history[1].tokens
    BY <1>10, <2>1
  <2>3. some[1] = 0 + left[1].tokens
    BY <1>11, <2>1
  <2> QED
    BY <1>7, <2>2, <2>3
<1>14. all[1] < all[d]
  <2>1. all[2] = all[1] + history[2].tokens /\ all[1] \in Nat /\ all[2] \in Nat
    <3>1. 2 \in 1..n /\ 2 - 1 = 1 /\ 1 \in 0..n /\ 2 \in 0..n
      BY <1>1
    <3> QED
      BY <1>10, <3>1
  <2>2. all[1] < all[2]
    <3>1. 2 \in 1..n
      BY <1>1
    <3>2. history[2].tokens \in Nat \ {0}
      BY <1>12, <3>1
    <3> QED
      BY <2>1, <3>2
  <2> DEFINE T == {k \in Nat : k >= 2 /\ k <= n /\ ~(all[2] <= all[k])}
  <2>3. T = {}
    <3> SUFFICES ASSUME T # {} PROVE FALSE
      OBVIOUS
    <3>1. PICK k \in T : \A m \in T : k <= m
      <4>1. T \in SUBSET Nat
        OBVIOUS
      <4> HIDE DEF T
      <4> QED
        BY <4>1, LeastNatural
    <3>2. k \in Nat /\ k > 2 /\ k <= n /\ ~(all[2] <= all[k])
      BY <2>1, <3>1
    <3>3. k - 1 \in Nat /\ k - 1 >= 2 /\ k - 1 <= n /\ k - 1 \notin T
      BY <3>1, <3>2
    <3>4. all[2] <= all[k - 1]
      BY <3>3
    <3>5. k \in 1..n /\ k - 1 \in 0..n
      BY <3>2, <3>3
    <3>6. all[k] = all[k - 1] + history[k].tokens /\ history[k].tokens \in Nat /\ all[k - 1] \in Nat
      BY <1>10, <1>12, <3>5
    <3> QED
      BY <2>1, <3>2, <3>4, <3>6
  <2>4. all[2] <= all[d] /\ all[d] \in Nat
    <3>1. d >= 2 /\ d <= n /\ d \in 0..n
      BY <1>1, <1>3
    <3>2. all[d] \in Nat
      BY <1>10, <3>1
    <3> QED
      BY <2>3, <3>1, <3>2
  <2> QED
    BY <2>1, <2>2, <2>4
<1>15. all[1] \in Nat /\ all[d] \in Nat
  <2>1. 1 \in 0..n /\ d \in 0..n
    BY <1>1, <1>3
  <2> QED
    BY <1>10, <2>1
<1> DEFINE T == {j \in 0..keep : all[d + j] # some[j + 1] + (all[d] - all[1])}
<1>16. T = {}
  <2> SUFFICES ASSUME T # {} PROVE FALSE
    OBVIOUS
  <2>1. PICK k \in T : \A m \in T : k <= m
    <3>1. T \in SUBSET Nat
      OBVIOUS
    <3> HIDE DEF T
    <3> QED
      BY <3>1, LeastNatural
  <2>2. k \in 0..keep /\ all[d + k] # some[k + 1] + (all[d] - all[1])
    BY <2>1
  <2>3. k # 0
    <3>1. all[d + 0] = some[0 + 1] + (all[d] - all[1])
      <4>1. d + 0 = d /\ 0 + 1 = 1
        OBVIOUS
      <4> QED
        BY <1>13, <1>15, <4>1
    <3> HIDE DEF T
    <3> QED
      BY <2>2, <3>1
  <2>4. k - 1 \in 0..keep /\ k - 1 \notin T
    <3> HIDE DEF T
    <3>1. k \in 0..keep /\ k \in Nat
      BY <2>2
    <3> QED
      BY <2>1, <2>3, <3>1
  <2>5. all[d + (k - 1)] = some[(k - 1) + 1] + (all[d] - all[1])
    BY <2>4
  <2>6. k \in 1..keep /\ d + k \in 1..n /\ (d + k) - 1 = d + (k - 1) /\ k + 1 \in 1..keep + 1
        /\ (k + 1) - 1 = k /\ (k - 1) + 1 = k /\ k \in 0..keep + 1 /\ d + (k - 1) \in 0..n
    BY <1>1, <1>3, <2>2, <2>3
  <2>7. all[d + k] = all[d + (k - 1)] + history[d + k].tokens
    BY <1>10, <2>6
  <2>8. some[k + 1] = some[k] + left[k + 1].tokens
    BY <1>11, <2>6
  <2>9. left[k + 1] = history[d + k]
    BY <1>7, <2>6
  <2>10. some[k] \in Nat /\ history[d + k].tokens \in Nat
    BY <1>11, <1>12, <2>6
  <2>11. all[d + (k - 1)] = some[k] + (all[d] - all[1])
    BY <2>5, <2>6
  <2> HIDE DEF T
  <2>12. all[d + k] = (some[k] + (all[d] - all[1])) + history[d + k].tokens
    BY <2>7, <2>11
  <2>13. some[k + 1] = some[k] + history[d + k].tokens
    BY <2>8, <2>9
  <2>14. \A a, b, c, w \in Nat : (c + (b - a)) + w = (c + w) + (b - a)
    OBVIOUS
  <2>15. all[d + k] = some[k + 1] + (all[d] - all[1])
    BY <1>15, <2>10, <2>12, <2>13, <2>14
  <2> QED
    BY <2>2, <2>15
<1>17. all[n] = some[keep + 1] + (all[d] - all[1])
  <2>1. keep \in 0..keep /\ d + keep = n
    BY <1>1, <1>3
  <2>2. all[d + keep] = some[keep + 1] + (all[d] - all[1])
    BY <1>16, <2>1
  <2> QED
    BY <2>1, <2>2
<1>18. some[keep + 1] \in Nat
  <2>1. keep + 1 \in 0..keep + 1
    OBVIOUS
  <2> QED
    BY <1>11, <2>1
<1>19. some[keep + 1] < all[n]
  BY <1>14, <1>15, <1>17, <1>18
<1> QED
  BY <1>6, <1>8, <1>9, <1>19

(* So what compression returns is the history itself or lighter.           *)
LEMMA ResultIsLighter ==
  ASSUME Weights \subseteq Nat \ {0}, NEW summary \in Weighted,
         NEW history \in Seq(Weighted), NEW keep \in Nat
  PROVE  \/ CompressContext(history, keep, summary) = history
         \/ Tokens(CompressContext(history, keep, summary)) < Tokens(history)
<1>1. CASE ~Compressible(history, keep)
  BY <1>1 DEF CompressContext
<1>2. CASE Compressible(history, keep)
  <2>1. PICK full, fallback, minimal : /\ full = Compressed(history, keep, summary)
                                       /\ fallback = Fallback(history, keep, summary)
                                       /\ minimal = Minimal(history, keep)
    OBVIOUS
  <2>2. Len(full) = keep + 3 /\ Len(history) > keep + 3 /\ Len(history) \in Nat
    BY <1>2, <2>1, CompressedLengths DEF Compressible
  <2>3. ~(Len(full) >= Len(history))
    BY <2>2
  <2>4. Tokens(minimal) < Tokens(history)
    BY <1>2, <2>1, MinimalIsLighter
  <2>5. PICK result : result = CompressContext(history, keep, summary)
    OBVIOUS
  <2>6. result = IF Tokens(full) < Tokens(history) THEN full
                 ELSE IF Tokens(fallback) < Tokens(history) THEN fallback
                 ELSE minimal
    BY <1>2, <2>1, <2>3, <2>5 DEF CompressContext
  <2>7. CASE Tokens(full) < Tokens(history)
    BY <2>5, <2>6, <2>7
  <2>8. CASE ~(Tokens(full) < Tokens(history)) /\ Tokens(fallback) < Tokens(history)
    BY <2>5, <2>6, <2>8
  <2>9. CASE ~(Tokens(full) < Tokens(history)) /\ ~(Tokens(fallback) < Tokens(history))
    BY <2>4, <2>5, <2>6, <2>9
  <2> QED
    BY <2>7, <2>8, <2>9
<1> QED
  BY <1>1, <1>2

(* A summary is a message.                                                 *)
LEMMA SummaryIsMessage ==
  ASSUME NEW summary \in Summaries
  PROVE  summary \in Weighted
BY DEF Summaries, Weighted, Roles

(* The inductive invariant of the window check.                            *)
THEOREM WindowInvariant == HistorySpec => []WindowInv
<1>1. HistoryInit => WindowInv
  <2> SUFFICES ASSUME HistoryInit PROVE WindowInv
    OBVIOUS
  <2>1. PICK system \in Weights : \E user \in Weights :
          weighed = <<[role |-> "system", tokens |-> system], [role |-> "user", tokens |-> user]>>
    BY DEF HistoryInit
  <2>2. PICK user \in Weights :
          weighed = <<[role |-> "system", tokens |-> system], [role |-> "user", tokens |-> user]>>
    BY <2>1
  <2>3. PICK a, b : a = [role |-> "system", tokens |-> system] /\ b = [role |-> "user", tokens |-> user]
    OBVIOUS
  <2>4. a \in Weighted /\ b \in Weighted
    BY <2>3 DEF Weighted, Roles
  <2>5. PICK S : S = Weighted
    OBVIOUS
  <2>6. <<a, b>> \in Seq(S)
    BY <2>4, <2>5
  <2> QED
    BY <2>2, <2>3, <2>5, <2>6 DEF HistoryInit, WindowInv, WindowType
<1>2. WindowInv /\ [HistoryNext]_historyVars => WindowInv'
  <2> SUFFICES ASSUME WindowInv, [HistoryNext]_historyVars PROVE WindowInv'
    OBVIOUS
  <2>1. CASE TurnHead
    <3>1. CASE ~ShouldCompress(weighed) /\ weighed' = weighed
      BY <2>1, <3>1 DEF TurnHead, WindowInv, WindowType
    <3>2. CASE \E summary \in Summaries : weighed' = CompressContext(weighed, Keep, summary)
      <4>1. PICK summary \in Summaries : weighed' = CompressContext(weighed, Keep, summary)
        BY <3>2
      <4>2. Keep \in Nat
        BY WindowAssumption
      <4>3. weighed' \in Seq(Weighted) /\ ~Compressible(weighed', Keep)
        BY <4>1, <4>2, SummaryIsMessage, ResultIs DEF WindowInv, WindowType
      <4> QED
        BY <4>3 DEF WindowInv, WindowType
    <3> QED
      BY <2>1, <3>1, <3>2 DEF TurnHead
  <2>2. CASE TurnEnd
    <3>1. PICK a \in Weights : \E o \in Weights :
             \/ weighed' = Append(weighed, [role |-> "assistant", tokens |-> a])
             \/ weighed' = weighed \o <<[role |-> "observation", tokens |-> o], [role |-> "assistant", tokens |-> a]>>
      BY <2>2 DEF TurnEnd
    <3>2. PICK o \in Weights :
             \/ weighed' = Append(weighed, [role |-> "assistant", tokens |-> a])
             \/ weighed' = weighed \o <<[role |-> "observation", tokens |-> o], [role |-> "assistant", tokens |-> a]>>
      BY <3>1
    <3>3. PICK x, y : x = [role |-> "observation", tokens |-> o] /\ y = [role |-> "assistant", tokens |-> a]
      OBVIOUS
    <3>4. x \in Weighted /\ y \in Weighted
      BY <3>3 DEF Weighted, Roles
    <3>5. PICK S : S = Weighted
      OBVIOUS
    <3>6. weighed \in Seq(S)
      BY <3>5 DEF WindowInv, WindowType
    <3>7. Append(weighed, y) \in Seq(S) /\ weighed \o <<x, y>> \in Seq(S)
      BY <3>4, <3>5, <3>6
    <3>8. weighed' \in Seq(S)
      BY <3>2, <3>3, <3>7
    <3> QED
      BY <2>2, <3>5, <3>8 DEF TurnEnd, WindowInv, WindowType
  <2>3. CASE UNCHANGED historyVars
    <3>1. weighed' = weighed /\ at' = at
      BY <2>3 DEF historyVars
    <3> QED
      BY <3>1 DEF WindowInv, WindowType
  <2> QED
    BY <2>1, <2>2, <2>3 DEF HistoryNext
<1> QED
  BY <1>1, <1>2, PTL DEF HistorySpec

(* A history that is still too heavy when it was checked is one that       *)
(* compression leaves alone: no infinite re-compression (window.rs).       *)
THEOREM CompressedOnceHolds == HistorySpec => []CompressedOnce
<1>1. WindowInv => CompressedOnce
  BY DEF WindowInv, CompressedOnce, CompressContext
<1> QED
  BY <1>1, WindowInvariant, PTL

(* The window check never makes a history heavier, nor swaps it for        *)
(* another as heavy: it guarantees progress (window.rs).                   *)
THEOREM LighterOrUntouchedHolds == HistorySpec => LighterOrUntouched
<1>1. ASSUME WindowInv, TurnHead
      PROVE  weighed' = weighed \/ Tokens(weighed') < Tokens(weighed)
  <2>1. CASE \E summary \in Summaries : weighed' = CompressContext(weighed, Keep, summary)
    <3>1. PICK summary \in Summaries : weighed' = CompressContext(weighed, Keep, summary)
      BY <2>1
    <3>2. Keep \in Nat /\ Weights \subseteq Nat \ {0}
      BY WindowAssumption
    <3> QED
      BY <1>1, <3>1, <3>2, SummaryIsMessage, ResultIsLighter DEF WindowInv, WindowType
  <2> QED
    BY <1>1, <2>1 DEF TurnHead
<1>2. WindowInv /\ [HistoryNext]_historyVars =>
        [AtTurnHead => weighed' = weighed \/ Tokens(weighed') < Tokens(weighed)]_historyVars
  BY <1>1 DEF HistoryNext, TurnEnd, AtTurnHead, historyVars
<1> QED
  BY <1>2, WindowInvariant, PTL DEF HistorySpec, LighterOrUntouched
================================================================================
