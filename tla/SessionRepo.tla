------------------------------ MODULE SessionRepo ------------------------------
(***************************************************************************)
(* The session table behind jadepaw-db's SqliteSessionRepo, one SQL        *)
(* statement per operator.  SQLite runs one writer at a time, so each      *)
(* statement is atomic; nothing spans two of them.                         *)
(*                                                                         *)
(* A snapshot keeps what its readers tell apart: the owning tenant, the    *)
(* lifecycle status, the message history, the execution trace and the      *)
(* number of completed iterations.  Timestamps, the elapsed time, the      *)
(* guard configuration (written back as it was read) and the termination   *)
(* reason (always NULL) are left out.                                      *)
(***************************************************************************)
EXTENDS Naturals, Sequences

CONSTANTS
  Sessions,   \* session ids
  Tenants,    \* tenant ids
  Runs,       \* calls of resume_session, each made at most once
  NoRow,      \* the table holds no row for the session
  NoRun       \* the author of the messages a session is created with

ASSUME NoRunAssumption == NoRun \notin Runs

VARIABLE rows  \* the sessions table: a row or NoRow for every session id

SessionStatus == {"idle", "running", "paused", "ended"}

(* One ReAct turn of a trace, by the run that produced it.  "think" is a   *)
(* Thought alone, "acting" a Thought and an Action, "act" a Thought, an    *)
(* Action and its Observation, "finish" a Thought and the Finished step.   *)
Turn == [kind : {"think", "acting", "act", "finish"}, by : Runs]

(* A chat message: the system prompt, the user's question and a summary    *)
(* are headers (turn 0 by NoRun); a tool observation and an assistant      *)
(* response belong to a turn.                                              *)
Message == [role : {"system", "user", "summary", "observation", "assistant"},
            turn : Nat, by : Runs \cup {NoRun}]

Snapshot == [tenant : Tenants, status : SessionStatus,
             messages : Seq(Message), trace : Seq(Turn),
             iteration_count : Nat]

ASSUME NoRowAssumption == NoRow \notin Snapshot

RepoTypeOK == rows \in [Sessions -> Snapshot \cup {NoRow}]

RepoInit == rows = [s \in Sessions |-> NoRow]

--------------------------------------------------------------------------------
(* The row every statement but the upsert selects by both ids.             *)
Visible(s, t) == rows[s] # NoRow /\ rows[s].tenant = t

(* Mutant: the upsert without its WHERE clause.                            *)
CanAlwaysSave(s, t) == s \in Sessions /\ t \in Tenants

(* INSERT ... ON CONFLICT DO UPDATE ... WHERE tenant_id = excluded: over   *)
(* another tenant's row it writes nothing and reports a collision.         *)
CanSave(s, t) == rows[s] # NoRow => rows[s].tenant = t

(* The upsert sets every column but the ids.                               *)
Upserted(row, snapshot) ==
  IF row = NoRow THEN snapshot ELSE [snapshot EXCEPT !.tenant = row.tenant]

Save(s, snapshot) ==
  /\ CanSave(s, snapshot.tenant)
  /\ rows' = [rows EXCEPT ![s] = Upserted(@, snapshot)]

(* No transition is checked, and a missing row is no error.                *)
UpdateStatus(s, t, status) ==
  rows' = IF Visible(s, t) THEN [rows EXCEPT ![s].status = status] ELSE rows

Delete(s, t) ==
  rows' = IF Visible(s, t) THEN [rows EXCEPT ![s] = NoRow] ELSE rows

MarkRunningAsPaused ==
  rows' = [s \in Sessions |->
             IF rows[s] # NoRow /\ rows[s].status = "running"
             THEN [rows[s] EXCEPT !.status = "paused"]
             ELSE rows[s]]
================================================================================
