# Jadepaw in TLA+

A formal model of Jadepaw: TLA+ modules translated from the Rust source, the
TLC runs that model-check them on small instances, and theorems about them
that the TLAPS proof system checks for every instance.

Paths are relative to the repository; `agent/`, `db/`, `wasm/`, `skill/`,
`server/` and `core/` stand for `crates/jadepaw-<name>/src/`.

1. [The system](#1-the-system)
2. [The modules](#2-the-modules)
3. [What the runs show](#3-what-the-runs-show)
4. [Fairness](#4-fairness)
5. [What is proved](#5-what-is-proved)
6. [Where the code and its documentation part](#6-where-the-code-and-its-documentation-part)
7. [What is not modelled](#7-what-is-not-modelled)
8. [Plan](#8-plan)
9. [Running it](#9-running-it)

## 1. The system

Jadepaw runs LLM agents for many tenants. A session is a question and the
ReAct turns (think, perhaps call a tool, observe) that work on it; it survives
restarts in an SQLite table. A turn's tools run behind capability checks, a
session holds one WASM sandbox of a bounded pool, and skills, loaded and
unloaded while sessions run, add to the system prompt.

| Part | State | Operations | Talks to |
|---|---|---|---|
| Session resumption, `agent/lib.rs` | none of its own | `resume_session`, `run_agent` | session table, pool, loop, guard |
| ReAct loop, `agent/loop.rs` | messages, trace, iteration count, local to a run | `react_loop`: window check, skill swap, model call, tool call, checkpoint | LLM, tool registry, session table, SSE channel, skill registry |
| Termination guard, `agent/guard.rs` | a clock per run | `run_with_guard`, `validate` | drops the loop it guards |
| Context window, `agent/window.rs` | none | `compress_context`, `should_compress` | called by the loop |
| Session table, `db/sqlite_repo.rs` | one row per session id | `save`, `load`, `delete`, `update_status`, `mark_running_as_paused`, `list_by_tenant` | SQLite |
| Instance pool, `wasm/pool.rs` | semaphore, wasmtime allocator, `active_sessions` | `acquire`, the drop of a `SessionHandle` | wasmtime |
| Skill manager and registry, `skill/manager.rs`, `skill/registry.rs` | per tenant: loaded skills, one pending swap | `load`, `unload`; the loop's `take` of the swap | server routes, loop |
| Response parser, `agent/llm.rs` | none | `parse_next_action`, prompts, streaming | LLM |
| SSE channel, `agent/stream.rs` | a queue of 256 events | send, receive | loop, HTTP client |
| Tool registry, `agent/tool_registry.rs` | three concurrent maps | `register`, `call_tool`, `list_tools` | loop, skill manager |
| Resource limiters, `wasm/limits/` | a byte counter per tenant | `memory_growing`, `table_growing` | wasmtime |
| Epoch ticker, `wasm/epoch.rs` | a thread and its stop channel | tick, stop on drop | wasmtime |
| Capabilities and paths, `wasm/capability/mod.rs`, `wasm/path.rs` | none | pattern matching, normalisation | host functions |
| Host functions and tools, `wasm/host/`, `wasm/tool_impls/` | none | files, HTTP, logging | outside world |
| Skill index, `skill/index.rs`, `db/sqlite_skill_repo.rs` | one row per skill | scan, `sync_index` | file system, SQLite |
| Skill file parser, `skill/parser.rs`, `skill/validation.rs` | none | parse, validate | loader |
| Server, `server/` | shared handles | skill routes | skill manager |
| Bus, gateway | none | none (stubs) | nothing |

### How they interact

`resume_session` loads a snapshot by session and tenant id, marks the row
`running` (a failure is logged only), waits for a slot of the pool, and runs
`react_loop` under `run_with_guard`, which races the whole loop against the
wall clock and *drops* it when the clock wins. Every turn ends with a
checkpoint: an upsert of the whole snapshot. A final answer ends the loop
without one; then the row is marked `ended` and the slot given back.

Runs are tasks of a multi-threaded executor: they interleave at every `await`.
What they share is the session table, the pool, the registries, and whatever
their tools do. Nothing keeps two runs from working on one session.

### What is hard, and what would make it correct

* **Sessions.** A run works on a copy of the row and writes all of it back
  turns later; it can be cancelled while the write is queued, die with its
  process, and race another run, a deletion, or a new owner of its session id.
  Correct: the table always holds a turn boundary from which a run can go on;
  what is durable is lost or done twice only where a run writes that others wrote
  past; nothing crosses tenants; every run returns and gives its slot back.
* **Context window.** Histories are cut again and again by runs that do not
  know of each other's cuts. Correct: the recent turns survive word for word,
  a cut makes a history lighter, and is not repeated in vain.
* **Instance pool.** Callers come, queue, fail, give up and leave in any order.
  Correct: permits are conserved, whoever queues is served, a permit is worth a
  slot, and `active_sessions` tells the truth.
* **Skills.** A load is five steps on shared maps, and the change reaches the
  sessions through a one-place mailbox per tenant. Correct: a skill is loaded
  once and a turn thinks with the skills that are loaded, but for the ways to
  miss that the code leaves open, which the properties name.
* **Events.** The loop waits for room in a bounded channel; its client reads,
  goes away in the middle of a response, or (`run_agent`) gets the receiver
  only after the loop. Correct: the client is told what is done, a response
  that was cut short is not acted on, and the run returns.
* **Tools.** Names are looked up while tools are being registered, and a call
  can be dropped, or fail, before or after it had its effect. Correct: only
  what was granted and checked is done, an error that says not to try again had no effect,
  and a response is whole or says that it is cut.
* **Sandbox.** Guests share worker threads and a memory budget that is checked
  and charged in two steps, call host functions with integers that wrap, and
  are driven by a ticker thread that has to end. Correct: the budget is
  exceeded by a bounded amount, guests get their turns, host functions report
  what they did, and the ticker ends.
* **Skill index.** Start-up walks, reads and writes row by row, while files
  change, and may break off anywhere. Correct: nothing the walk came to is
  missing, rows and loaded skills come from the right directory, and nothing
  vanishes.

`PROJECT.json` lists each hazard at its line, with the properties that cover
it or the reason none does.

## 2. The modules

```
SessionRepo <-- AgentSession <-- MCAgentSession                        (TLC)
                  |    ^-------- AgentSessionProofs                    (TLAPS)
                  v INSTANCE           v
            ContextWindow <---- WindowedHistory                        (TLC)

LlmParse <-- ReactStream <-- ReactStreamProofs                  (TLC, TLAPS)

ToolRegistry <---- ToolCalls <-- MCToolCalls                           (TLC)
SandboxPath  <-----|  |    ^---- ToolCallsProofs                       (TLAPS)
Network      <--------+
SandboxPath  <---- Sandbox <---- MCSandbox                             (TLC)
Network      <-----|  |    ^---- SandboxProofs                         (TLAPS)
TenantQuota, EpochTicker <-+

SlotPool <-(refined by)- InstancePool <-- MCInstancePool               (TLC)
                            ^------------ InstancePoolProofs           (TLAPS)

SkillManager <-- MCSkillManager                                        (TLC)
       ^-------- SkillManagerProofs                                    (TLAPS)
SkillFile <-- SkillIndex <-- MCSkillIndex                              (TLC)
                    ^------- SkillIndexProofs                          (TLAPS)

FoldLemmas <-- the proofs that reason about folds or inductively       (TLAPS)
```

An arrow is EXTENDS unless it says otherwise. Operators that a comment calls
*Mutant* are not part of the model: each is a definition with a plausible
mistake in it, which a run is known to catch.

### SessionRepo

The session table, one SQL statement per operator. SQLite serialises writers,
so a statement is atomic and nothing spans two. `Save` is the upsert with its
tenant condition, `UpdateStatus` checks no transition, as in the code.
A snapshot keeps what readers tell apart. Timestamps, elapsed time, the guard
configuration (written back as it was read) and the termination reason (always
NULL) are left out.

### AgentSession

A run is one call of `resume_session`; `pc` is the await it is at.

| `pc` | in the code | actions from here |
|---|---|---|
| `idle` | before `repo.load` | `Resume`, `ResumeFails` |
| `mark` | `update_status(Running)` | `MarkRunning` |
| `acquire` | `pool.acquire` | `Acquire`, `AcquireFails` |
| `turn` | the model call at the head of a turn | `ThinkOn`, `ChooseTool`, `Finish`, `LlmFails`, `MaxIterationsReached` |
| `tool` | `call_tool` | `CallTool` |
| `save` | the turn-boundary `repo.save` | `Checkpoint` |
| `finishing` | `update_status(Ended)` | `EndSession` |
| `ok`, `failed`, `terminated`, `dead` | returned | none |

`Timeout` may fire at `turn`, `tool` and `save`, the awaits inside the guarded
loop, and drops the loop there. sqlx runs statements on a thread of its own, so
a checkpoint that was being written may land after its run is gone: it is put
in `late`, and `LateWrite` carries it out, or loses it, any time later, though
the session may have been resumed by then. `Crash` ends every run and loses
queued writes; `Restart` runs `mark_running_as_paused`. `Create` and
`DeleteSession` are the table's other users. Two history variables serve the
properties: `tools`, the tool calls that came back, and `overtaken`, the runs into
whose session another run has written since they loaded it.

A trace is kept per turn (`think`; `acting`, then `act` with the observation;
`finish`) and names the run that did it, so that properties can tell whose
work a row holds. A message is its role and its turn. The window check may
leave any history `ContextWindow!Windowed` allows.

Abstractions: time (the clock may run out anywhere, or never); the model and
the tools (any answer, or an error); database errors (any write may fail);
the guard configuration (accepted by `validate`, `max_iterations >= 1`). The
pool is present as its capacity, which is what `SlotPool` promises, and
`InstancePool` is shown to keep. The events to the SSE channel are ReactStream's:
its theorem `EventsFitHolds` is why sends may be left out here, with three
events a turn, the default of 20 turns, and 256 places. A panic of the parser,
which ReactStream has, ends a run here as `Timeout` does at the same place: its
state is gone and its row is as it was.

`Exclusive` says whether callers take turns: they touch a session only when every
call of `resume_session` for it has returned. That is all a caller can see; a
checkpoint of a run that returned may still be on its way. Nothing in the code
enforces even this. Properties that need it name it in their statement.

### ContextWindow, WindowedHistory

`ContextWindow` has the three results `compress_context` can return and the
condition under which it returns the history untouched. `WindowedHistory` adds
weights and the code's choice between the results, over the turns of a
session (`weighed` is its history, `HistorySpec` its specification): the 65% threshold, the order of the attempts, the comparison of
weights. Weights are data: any of a few numbers. Both modules take their results
from ContextWindow, so whatever is chosen by weight is one of those AgentSession
chooses from.

### SlotPool, InstancePool

`SlotPool` is the promise: at most `Capacity` users hold a slot, a guest runs in a
slot only, and a slot is free for the next, or handed to him, when the guest in it
is gone. `InstancePool` is `acquire()` and the drop of a
`SessionHandle`, step by step: semaphore (fair, as tokio documents it), store
instantiation, start function, registration in `active_sessions`; then the
drop in the order of the fields: map entry, store, permit. A caller can give up
in the queue, just after a permit was assigned to it, or while the guest
starts; each time what it holds is given back in the order Rust drops it.
The allocator is wasmtime's, with `AllocatorSlots` places: `wasm/engine.rs`
leaves it at the default whatever `max_concurrent` is. `DistinctIds` says
whether callers share session ids; the code lets them.

### SkillManager

`load` is read file, remove old, insert, merge the prompts, merge the tool
definitions, set the swap; each registry access locks one DashMap entry and is
one step, and nothing makes a tenant's calls wait for each other. `unload` enters at
the removal and sets a swap without tools. The loops take the swap at the head of
a turn. A session either has no row (`run_agent`) and starts with a prompt built
from what is loaded, or has one (`resume_session`) and goes on with the prompt in
it: `Stop` drops the prompt of the run, `TurnEnd` saves it or fails to, and a
checkpoint that was cut off may land later (`LateSave`). `Rows` are the rows from
before the server's start.

Four history variables say how a property can fail: `contended` (loads of a skill
were between remove and insert together), `mixed` (the tenant's latest changes
overlapped), `behind` and `unsaved` (a session, or its row, may have a prompt older
than what the tenant's loops took).

### LlmParse, ReactStream

`LlmParse` is `parse_next_action` over units of text: a directive, a
parenthesis, any other word, a byte that upper-casing takes away (`mark`), or a
letter that it makes a byte longer (`wide`). The search runs over the upper-cased
response and the cut is made in the response itself, as in the code; a cut behind
the end or within a letter panics, in `extract_thought` as in
`parse_next_action`. The parser is a function of the whole response, and the loop
calls it once the response has ended.

`ReactStream` is one `react_loop` with its client. The response comes unit by
unit (`Chunk`), and ends, fails, or is cut short: after every chunk `llm.rs`
looks whether the client is still there, and if not the loop goes on with what
it has, up to its next send. A parser that panics ends the run
(`ThoughtPanics`). Each step of the turn is a `pc` of its own, because each sends an event, and waits in the
send when the channel is full:

| `pc` | in the code | actions from here |
|---|---|---|
| `model` | the streaming call | `Chunk`, `StreamEnds`, `ModelFails` |
| `thought`, `action` | the sends before the call | `Thought`, `ThoughtPanics`, `Action` |
| `tool` | `call_tool` | `CallTool` |
| `observation` | the send after the call | `Observation` |
| `finish`, `exhausted` | the last send: the answer, or the error that the iterations are used up | `Finished`, `Exhausted` |

`client` is what has become of the receiver: `later` (held by `run_agent` until
the loop has returned), `reading`, or `gone`. `Timeout` drops the loop anywhere.
`called` and `cut` are history variables.

### ToolRegistry, SandboxPath, Network, ToolCalls

`ToolRegistry` is `register`: look the name up, then fill three concurrent maps,
one step each. `SandboxPath` has the paths: the lexical `normalize_path`,
`fs::canonicalize` over a file system with symbolic links, the check of a path
against the sandbox (`Valid`), what is opened under a path that passed it
(`Target`; a link in the last place is followed, also one that led to nothing),
and the patterns of capabilities. `Network` has the checks
of a request: scheme, method, the host cut out of the URL, the blocked ranges of
addresses, and the headers. All three are used by `ToolCalls` (the agent's
tools) and the latter two by `Sandbox` (the guests' host functions), which check
the same things in a different order and with different consequences.

`ToolCalls` is `call_tool` and the three tools: lookup, capability check,
dispatch; for a file, the operation a blocking thread carries out, and finishes
although the call was dropped; for a request, resolving, sending, and reading
the body chunk by chunk up to the cap. `effects` is a history variable: the
files opened for writing and the requests handed to the HTTP client, each with the
addresses its host was found to have. What becomes of a request then is left open
(section 7). A name server may answer differently every time.

### TenantQuota, EpochTicker, Sandbox

`TenantQuota` is the tenant's byte counter: the check, the commit, and the
growth itself, which an instance's own cap can still refuse, are separate steps of
a guest's thread. `EpochTicker` is the thread of `wasm/epoch.rs`: look for the
stop message, upgrade the weak reference, advance the epoch, and sleep; and
its guard, whose drop sends the message and joins. `Sandbox` composes both:
guests take turns on `Workers` threads, yield when their epoch deadline is
reached, grow their memories and tables, and call the four host functions of the
linker. A guest that is growing stays on its worker (a limiter is a plain
function), which is what bounds how many can be between check and commit. A
host function up to its first `.await` is one step; the worker is free while it
waits. Lengths and pointers have `Bits` bits and wrap.

### SkillFile, SkillIndex

`SkillFile` says which `SKILL.md` is accepted and with which error another is
refused: the checks of `parser.rs` and `validation.rs` in their order, over what
YAML makes of the front matter. `SkillIndex` is the server: `down`, `scanning`
(the walk, one directory a step; it follows no symbolic link, hence `Walked`, and
passes over what it cannot list, `Miss`), `reading`, `writing` (one INSERT a
step), `serving`. Files change, appear and disappear at any step, and `Stop` leads from
any step back to `down`; the rows stay. While serving, the routes list the
table, inspect a file, and load a skill for any of several `Clients` at once:
reading it, removing the old one and inserting the new one are steps of their own,
and the rest of a load is in SkillManager. `changed` and `missed` are history.

## 3. What the runs show

Passing runs:

| Run | Instance | Shows |
|---|---|---|
| `session_shared` | one session id, two tenants, two runs, 2 turns | with runs, deletion, takeover by the other tenant, timeouts, late writes and crashes all interleaved, a row is a whole turn boundary (`RowsAreTurnBoundaries`), every observation in it answers a call that was made (`RecordedCallsWereMade`), for the tenant that owns the row (`TenantsApart`), and an answer comes with its complete trace (`AnswersAreWhole`); a run that was not overtaken loses no durable turn and acts none out again (`NoTurnLost`, `NoDurableTurnReplayed`) |
| `session_exclusive` | one session, two runs in turn, 4 turns, keep 2 messages | through failed saves, timeouts and crashes no durable turn is lost (`NoTurnLost`) or acted out again (`NoDurableTurnReplayed`), except by a run that was overtaken, for which it takes a checkpoint cut off and still on its way; crash recovery finds every run that got anywhere (`CrashDetectable`); compressed in every way and by both runs, a snapshot ends with the recent turns word for word (`RecentTurnsVerbatim`) |
| `session_returns` | two runs, one slot, 2 turns | every run returns (`RunsReturn`), because of its clock though model and tools hang, or because of the iteration limit though the clock never runs out |
| `window` | keep 2, three weights, window 20, 4 turns | a compression makes a history lighter or leaves it (`LighterOrUntouched`), and one pass leaves nothing for the next to do (`CompressedOnce`) |
| `pool_safety` | four callers, two permits, two slots, two ids | permits, slots and tracked sessions fit together (`PermitsConserved`, `PermitImpliesSlot`, `TrackedIsHeld`), and the pool refines `SlotPool` |
| `pool_distinct` | four callers that share no id, two permits, one allocator slot | a live handle is tracked (`HeldIsTracked`) and whoever queues is served (`WaitersServed`), with an allocator smaller than the pool, so that `acquire()` fails with permits to spare |
| `skills` | one tenant, two skills, two calls that may overlap, two sessions, one of them with a row from before | a skill is loaded once unless loads of it met (`SkillNamesUnique`), and a turn sees the skills that are loaded unless it missed the change in one of three ways (`ChangesVisibleNextTurn`) |
| `turns` | responses of up to 5 of 7 kinds of units, 1 or 2 turns, 4 places in the channel | the client is told exactly the trace, but perhaps its last step (`SentIsTrace`); no tool is called unannounced and no cut response acted on (`DisconnectStops`); a call that is complete is not changed by what the model says next, but the parser may panic at it (`CallIsStable`); 3 places a turn and one are enough (`EventsFit`), and then, or with a client, the run returns (`StreamedRunsReturn`) |
| `tool_calls` | four registrations, two of one name; one call, of 34 requests under two grants; bodies of up to 3 units with a cap of 2 | what a name stands for settles (`NamesSettle`); errors that are final had no effect (`FinalErrorsHadNoEffect`); what is done is granted and checked, and inside the sandbox unless a link leads to nothing (`OnlyGrantedEffects`); responses are whole or say that they are cut (`ResponsesAreWholeOrCut`) |
| `sandbox` | three guests on two workers, two of which grow and one of which calls the host; 3-bit integers | the tenant's counter covers its memory and exceeds the budget by one growth at most (`BudgetOvershoot`); host functions report what they did (`HostResultsAreTrue`); a guest that waits for a worker gets one (`GuestsTakeTurns`); the ticker ends (`TickerStops`) |
| `skill_index` | two tenants, two clients; five directories, two of them spellings of one tenant, one behind a link, one no tenant's | no skill that the walk came to is missing from the list (`SkillsAreListed`) or leaves it (`ListedStays`), and rows and loaded skills come from their directory (`FromItsDirectory`) |

The one violation run is in section 6.

### Why the bounds are enough

* Two runs are the fewest that race, and enough for one to go on where another
  was cut off. A third adds no new conflict: rows are written whole, and every
  conflict is between a writer's copy and the row.
* Two turns give a first checkpoint, a second over it, and the limit. Four, in
  `session_exclusive` and `window`, are needed because a history is compressed
  only past `keep + 3` messages, and a second compression must meet the result
  of the first.
* Weights 1, 5 and 25 against a window of 20 make a message negligible, a
  quarter of the window, or larger than all of it, and a summary lighter or
  heavier than what it replaces: all of the code's comparisons go both ways.
* Four callers on two permits leave two in the queue, so that one can give up
  behind or before another.
* Two skills and two calls are the fewest for one load to overtake another and
  for a merge to have an order; two sessions are the fewest for one to take what
  the other misses, and one with a row from before the start can be resumed from a
  prompt that never had the change.
* `turns`: four places hold the events of one turn and its end but not of two,
  so runs with and without room are both there. Five units make a thought and
  a complete call, with text or a second directive after it, and a directive
  between units that shift the offsets either way or make the parser panic; two
  turns meet both ends of the loop.
* `tool_calls`: of four registrations two race for one name while a third and a
  fourth, or the call, come in between. The requests name paths with `..`,
  through a link inside and out of the sandbox, to what is not there, through a
  link that leads to nothing in a directory that is there and in one that is not;
  URLs with
  userinfo, port, query, no host, a host with private, shared, link-local, mixed,
  changing or no addresses, and one that is not granted. Bodies of 0 to 3 units meet the
  cap of 2 from below, at it, and from above, in chunks of any size. One call
  is enough: calls share the registry, which it races with, and the disk,
  whose content no property depends on. The theorems are for any number.
* `sandbox`: two workers and three guests make one guest wait and let two grow
  at once, the fewest that overshoot. With 3 bits a file of 9 bytes has a
  length that wraps to 1, which fits the buffer; an empty file is read to a
  buffer of negative length, which the code takes for an empty one. One link leads
  out of the sandbox and one to nothing.
* `skill_index`: two spellings of one tenant and a directory deeper than the
  others are the ways a row can come from somewhere else, and a directory behind a
  link can be loaded from though the walk does not come to it; the file of the
  first can be right, changed, unreadable or absent, that of the deepest misnamed.
  Two clients are the fewest whose loads overlap.

The theorems of section 5 lift what they cover to every instance.

## 4. Fairness

* `FairSpec` of AgentSession (session_returns) assumes of each run one of two
  things. `ClockRuns`: its status updates and its acquisition are carried out,
  and the wall clock goes off while it is in the loop; nothing is assumed of
  the model, the tools, or the checkpoint. Justified by the tokio timer in
  `run_with_guard` (`agent/guard.rs:99-183`), which polls its timeout beside
  the loop, by the executor, which polls every ready task, and by SQLite
  answering. `pool.acquire` is outside the guard: a run waits for a slot as
  long as the holders take. `AllAnswer`: the model, the tools and the database
  answer and the SSE channel has room, but the clock may never run out; the
  weak fairness is on the disjunction of a run's steps, so which answer comes
  is left open. The two runs of the instance may return for different reasons.
* `FairSpec` of InstancePool (pool_distinct): `acquire` is polled to its end and
  every handle is dropped some day, because its owner is a run under
  `run_with_guard`. That the queue is first in, first out is tokio's.

* `FairSpec` of ReactStream (turns): `WF(LoopStep)`, the model and the tools
  answer and the executor polls the loop; `WF(Read)`, a client that stays reads.
  The wall clock may never run out, so that the run must return for its own
  reasons. A client is under no obligation to stay.
* `FairSpec` of Sandbox (sandbox): `WF` of the ticker thread's steps and of a
  guest's yield at its deadline and its limiter's steps, which are threads that
  run; `WF(Joined /\ Shutdown)`, a drop that has joined returns; `SF(Schedule(g))`,
  tokio's queues leave no task for ever. That has to be strong: a worker becomes
  free and is taken by another guest over and over. Nothing makes a guest end,
  and no host function has to answer.

No other specification assumes fairness. Apart from `Schedule` it is weak: each
fair action, once enabled, stays enabled until it or a rival step of the same
run is taken; the one exception is the wait for a slot in AgentSession, where
`Cardinality(Holding) < MaxConcurrent` can come and go. With the finitely many
runs of an instance, each made once, slots are eventually free for good.

## 5. What is proved

For every value of the constants that satisfies the named assumptions, and with
nothing else taken for granted. The assumptions say that values standing for
"none" are not among the others (`NoRunAssumption`, `NoRowAssumption`), that
numbers are numbers and limits not zero (`AgentAssumption`, `PoolAssumption`,
`StreamAssumption`, `QuotaAssumption`, `SandboxAssumption`, `WindowAssumption`,
`SkillFileAssumption`), that a guest's calls have the arguments of the linker's
functions and its memory is one its integers can address (`SandboxAssumption`),
that the sandbox and every directory is where it is and a link leads to what is no
link, be it there or not (`PathAssumption`), that every tool called is one somebody
registers, and files are no links (`CallAssumption`), that "no call", "no swap" and
"no prompt" are none, and every session is a tenant's (`SkillAssumption`), that a
tenant's canonical name parses to the tenant and the walk comes to no other
directories than there are (`SkillIndexAssumption`), and that a path of several names, joined, has a slash
(`RequestAssumption`). TLC evaluates each of them on the instances.

**AgentSessionProofs.** `TypeInvariant` is type correctness. The safety
properties of a row are not inductive: a row is written from a run's copy or
from a late write, and both stem from rows read earlier. The inductive
invariant `TracesInv` therefore says the same of all three places a trace can
be: `RowsGenuine`, `LateGenuine`, `LoopsGenuine`. Each turn is whole (but the
one being acted), of the session and tenant of its row, and backed by an entry
of `tools`, and the counts fit the lengths. With it: `RowsAreTurnBoundariesHold`,
`RecordedCallsWereMadeHolds`, `TenantsApartHolds`, `AnswersAreWholeHolds`. The
argument for an action is: what it appends is genuine (`Finish`, `ThinkOn`,
`CallTool`), and what it copies was (`Resume`, `Checkpoint`, `Timeout`,
`LateWrite`); `Save` replaces exactly one row and only one of the same tenant
(`SaveReplaces`). These theorems hold with any number of concurrent runs,
since no part of the invariant needs `Exclusive`.

What a run knows of its row is `CurrentInv`, again for any number of concurrent
runs. Whoever was not overtaken, a live run or one whose write is queued, *knows*
the row: its trace is the row's or longer (`Knows`, `Extends`), and a live run is past
what the row holds (`Current`); a queued write is the only one of a run that is over
(`LateOwned`). The history variable is what makes it inductive: a write makes the
row what its writer knows, and all the others that may still write are overtaken by
it, so that nothing has to be said of them any more (`SaveKeeps`). Status updates,
recovery, new and deleted rows add no turn to a row (`NothingNew`). From it:
`NoDurableTurnReplayedHolds`, and with the lemma that the steps that lose a turn are
checkpoints, on time or late (`LosingSteps`), the first part of `NoTurnLostHolds`.

What callers that take turns add is `ExclusiveInv`: at most one run is live on a
session (`Apart`), its row is there and says running or is as the run found it
(`Marked`), and whatever is queued says running. It gives `CrashDetectableHolds` and
the second part of `NoTurnLostHolds`: a checkpoint overtakes nobody then but a run
that left a write behind. It does not give more: such a write may land after the next
run has resumed, and callers cannot wait for it.

`RecentTurnsVerbatimHolds` needs neither. Its invariant `VerbatimInv` says of
rows, late writes and running loops that the messages open with the system
prompt and *show* the end of the full history (`Shows(messages, history, n)`: the
last `n` messages of both are the same, as far as the history reaches). A result
of the window check shows the last `2 * RecentTurns` messages of what it was
given, whichever of `Windowed`'s it is; a turn adds the same messages on both
sides; so a turn's end shows what the head of it showed and its own messages. The
full history is a concatenation of the turns' messages (`FlattenSeq`), and what is
needed of it is that one more turn adds its messages at the end (`FlattenRuns`).

The theorems about the **window check** are in the same module, which EXTENDS
WindowedHistory as well: the two have ContextWindow in common. `WindowInv`: a history that the
model was shown is light enough or too short to be compressed; hence
`CompressedOnceHolds`, because each of the three results is that short.
`LighterOrUntouchedHolds` rests on weights as prefix sums: the system prompt and
the last messages of a history weigh less than all of it when anything is between
them, and weights are not zero (`MinimalIsLighter`).

**InstancePoolProofs.** The inductive invariant is `PoolInv`: types, permits
conserved, the queue exactly the waiting callers, the stores exactly those of
callers at the places that have one, and every tracked session held. It gives
`PermitsConservedHolds`, `TrackedIsHeldHolds`, `PermitImpliesSlotHolds` (from the stores being among the owners of permits:
a counting argument) and `PoolImplementsSlotPool`: the initial states map to
`SlotPool`'s, and every step to taking, releasing or handing over a slot, to
starting or stopping the guest in it, or to a stutter; a slot is released or handed
over after its guest was stopped, which is what the order of the fields of a
`SessionHandle` is for.

`HeldIsTrackedHolds` adds, for callers that share no id, that two handles never
have one entry of `active_sessions` between them (`DistinctInv`).

**ReactStreamProofs.** `StreamInv`: an action is told before its tool is called
(`CallsAreTold`), a cut response is followed by a send that fails (`CutIsOver`),
and what is unread is at most three events for each turn done plus those of the
turn under way (`UnreadIsCounted`, the part that makes `EventsFit` inductive).
It gives `DisconnectStopsHolds` and `EventsFitHolds`. `StepsOut` relates the trace
and what was sent at each `pc`: equal, or one step ahead while that step is being
sent; hence `SentIsTraceHolds`; a parser that panics returns like an error (`PanicKeeps`).
`CallIsStableHolds` is about the parser, for
responses of any length and of all units, those whose upper case is shorter or
longer among them: what the parser found in a text is found at the same place in
a longer one, because first places stay first (`FindAppended`, `ClosingAppended`);
upper-casing a longer text begins with the upper case of the shorter and goes on with
that of the next unit (`UpperAppended`, `RaisedIs`), so its offsets are the same,
shifted or not (`FindRaised`, `FromRaised`). What can change is whether a cut is
possible: text after a call can bring a directive that `extract_thought` cuts at.

**ToolCallsProofs.** Five invariants, each on top of those before. `NamesInv` is the
registry's: maps fit the steps, a name that is in the index stays, and two
registrations past the check overlapped; hence `NamesSettleHolds`. `EffectsInv`:
an effect belongs to a call that is past all the checks with final errors, or to
a thread that goes on after its call was dropped; hence
`FinalErrorsHadNoEffectHolds`. `GrantInv`: what a call passed holds of the tool
found and of the URL, at whatever place it is, though the registry changes.
`InsideInv`: the file of an operation under way is one `validate_sandbox_path`
let pass, and what was read or written is inside the sandbox, unless the path ended
in a link that led to nothing when it was checked (`EndsInStaleLink`). The argument
is about the path functions: following a path, link by link, ends at what is no link
or nowhere (`CanonicalOf`), so what is opened is what was found to be within the
sandbox, or its canonical parent with a name that is not `..` (`ValidLeadsInside`).
With `GrantInv` it gives `OnlyGrantedEffectsHolds`. Of a request it says what was
checked before it was handed over (`RequestIsChecked`) and nothing of where it went. `ResponseInv`: what is kept is the
beginning of what was sent, up to the cap, and until the reading ends no more than
the cap was sent; hence `ResponsesAreWholeOrCutHolds`.

**SandboxProofs.** `BudgetInv`: one of the growths between check and commit was
checked while the counter left room for it and for one growth of each *other*
worker (`RoomForOne`). The bound alone is not inductive: it has to be shared out
among the growths under way, and there are never more of those than workers.
`OvershootIsBounded` follows. `CountInv`: the counter covers the sum of what the
guests have and of what was charged and is still to be grown (`Held`); each step
changes one term of that sum (`SumChanges`), and a guest that ends takes its term
away while the counter stays.
Together they give `BudgetOvershootHolds`.

`HostResultsAreTrueHolds` is for integers of any width. `CapInv` keeps memories
within `MaxBytes`, which the guest's integers can address. With it a length that
wraps is no danger: a read is carried out only if the *whole* file, unwrapped, fits
the guest's memory, so that its length is below `2^(Bits - 1)` and `len() as i32` is
the length itself (`HostInv` says the same of what was told). A write that succeeded
was checked, and what was checked leads inside or ends in a stale link, whatever
files are made in between. For a status, the host that `extract_host_from_url` cuts
out of the URL that is sent, without userinfo, is the host that was checked
(`HostOf` and `RequestUrl`, by first and last places of delimiters); which host the
HTTP client takes it for is not part of the model.

**SkillManagerProofs.** `TypeInvariant`, step by step for the registry, the sessions
and the history; `retain` gives a list of the skills that are kept, in order
(`RetainIs`). `SkillNamesUniqueHolds`: unless loads of a skill met (`contended`), at
most one call is between its removal and its insertion, no skill of the name is
loaded then, and one at most at any time (`UniqueInv`). `ChangesVisibleHolds` adds
`VisibleInv`: while a tenant's changes do not overlap, a call past its merge goes on
to set what is loaded, and between calls the pending swap is what is loaded
(`ChangesInv`); between calls and without a swap, what is loaded is what every prompt
says that is not behind, and every row that is not (`ShownInv`). Neither theorem has
a condition on how calls or sessions interleave: the history variables say which
interleavings cost something, and a prompt that was behind is put right by the next
swap it takes.

**SkillIndexProofs.** `IndexInv`: a skill whose file did not change is, at every
step of a start-up, still to be walked, found, read, or in the table, as the
step allows, unless the walk could not list it (`NoneLost`); a request and what it
loaded was read from the path it asks for, whatever other clients load
(`RequestsRead`); and no key has two rows (`NoneTwice`). It gives
`SkillsAreListedHolds`, `FromItsDirectoryHolds` and, as a step property,
`ListedStaysHolds`.

**FoldLemmas.** Weights, sums, paths, lists that are filtered and histories are
folds, and what a fold does for sequences of any length is an induction. The
library's induction theorems take the formula as a parameter, which no prover
here can instantiate, so inductions are arguments about the least counterexample
(`LeastNatural`, from the well-foundedness of the naturals). The folds of the
community modules are recursive functions over the *subsets* of a finite set, whose
existence has to be shown before anything is said of them (`AlongSubsets`,
`FoldExists`); `FoldRuns` then says that a fold ends where its step ends taken
along 1, 2, ..., n, and `SumChanges` that a sum changes by what one of its terms
changes. Each proof module applies them to its own steps, which are functions on
the types its invariant gives.

Some theorems led to corrections. `HostResultsAreTrue` had to admit a buffer of
negative length, which the code takes for an empty one and which no instance had;
the instance has it now. Several assumptions on constants (in `PathAssumption`,
`SkillAssumption`, `StreamAssumption`, `SandboxAssumption`) are what the proofs
found the models to rely on.

### Only model-checked

Every invariant and every action property of the passing runs is a theorem.
What TLC alone shows is liveness: `RunsReturn`, `WaitersServed`,
`StreamedRunsReturn`, `GuestsTakeTurns` and `TickerStops`. Each rests on fairness,
that is on ENABLED, which the prover does not reason about. The theorems say
nothing about whether anything happens.

## 6. Where the code and its documentation part

One is a run that TLC ends with a counterexample:

| Run | Property | What happens |
|---|---|---|
| `session_ended` | `EndedNeverRunsAgain` | `db/repository.rs:80-81` promises an error for `ended -> running`; `update_status` checks no transition and `resume_session` does not look at the status it loaded |

The others are behaviours of the models that a reader of the code or its
documentation may not expect. They bound what the properties can say.

Sessions:

* The upsert asks for no version. Of two runs on one session, the one that writes
  last wins, and the other's turns are lost and may be acted out again. Callers that
  take turns are not quite safe either: the wall clock drops a run in its checkpoint
  (`agent/guard.rs:173`), the caller resumes the session, and the checkpoint lands
  after the new run has loaded the row, or has saved over it. `NoTurnLost` and
  `NoDurableTurnReplayed` say that nothing else loses or repeats a durable turn.
* A status update that fails is logged only (`agent/lib.rs:277`): until its first
  checkpoint, such a run is not found by crash recovery. `CrashDetectable` has that
  case as its second alternative.
* A checkpoint is an upsert (`db/sqlite_repo.rs:89-101`). A session deleted
  under a run is inserted again, trace and all, at its next checkpoint, though
  `db/repository.rs:67` says `delete` removes "a session and all its data".
* `db/models.rs:33` says ended means completed or terminated; a terminated run
  returns before the status update (`agent/lib.rs:351`).
* `compress_context` returns `n_msgs_to_keep + 3` messages or fewer as they are,
  and its last resort keeps the recent messages whatever they weigh
  (`agent/window.rs:117`, `:194`): few but heavy messages are sent although they
  exceed the window that `window.rs:88` says the history is made to fit.
* `parse_next_action` and `extract_thought` find offsets in the upper-cased response
  and use them in the response (`agent/llm.rs:267`, `:369`): a character whose upper
  case has another length shifts the name of the tool; and where the shifted offset
  is behind the end (after U+0149, whose upper case is longer) or within a character
  (U+0131, whose upper case is shorter, at the wrong place), the cut panics
  (`:276`, `:378`). The run is over then, with no error for its client. The model's
  text decides whether that happens, and text that follows a complete call can make
  it happen: `CallIsStable` admits it.
* `run_agent` hands the receiver of its events out after the loop
  (`agent/lib.rs`): nothing is streamed while it runs, and a run with more events
  than places waits for its wall clock.

Pool and limiters:

* `active_sessions` has one entry per session id (`wasm/pool.rs:110`): of two
  handles of one session, the first drop removes it. `HeldIsTracked` is
  therefore checked for callers that share no id.
* The tenant's budget is never given back: no code decrements the counter. And
  the server's stores have the instance's limiter only; `TenantQuotaLimiter` is
  built in tests (`wasm/limits/tenant_quota.rs:8-10`).

Skills:

* A swap is the tenant's, but the first of its loops takes it
  (`agent/loop.rs:200`): its other sessions do not see the change. Nor does the
  session itself if it is resumed from a row without it: the turn that took the swap
  finished, failed or was cut off before its checkpoint (`:393`), or the checkpoint
  failed, or an older one landed late. `resume_session` builds a prompt from what is
  loaded and does not use it (`agent/lib.rs:306-320`).
* Two loads of one skill that remove before either inserts leave it twice
  (`skill/manager.rs:129`); and the swap of the one that is overtaken overwrites
  the newer (`:135`). `SkillNamesUnique` and `ChangesVisibleNextTurn` state these
  ways, and that there are no others.
* The walk follows no symbolic link and drops the errors of directories
  (`skill/loader.rs:72-75`), while inspect and load follow links: a skill behind a
  link can be inspected and loaded and is not listed.
* The swap of an unload, or of a load without a tool registry, which is how the
  server loads, describes no tool (`skill/manager.rs:177`, `:253`), though
  `skill/registry.rs:153` says it carries those of all active skills.
* `skill/loader.rs` indexes global skills under the nil tenant, and no tenant's
  list or load leads there. So is what lies in a directory `global` inside a tenant's
  own. A directory whose tenant is a UUID in another
  spelling, or which lies deeper, is indexed but cannot be loaded, and two
  directories of one tenant and name overwrite each other's row.
* Rows of deleted files stay, since nothing calls the repository's `delete`, and
  every start-up sets `created_at` again.
* The limit of a description counts bytes, its documentation characters
  (`skill/validation.rs:77`).

Tools and host functions:

* Two tools of one name that are registered at once are both listed
  (`agent/tool_registry.rs:119`); the one whose name was inserted last is called.
* A capability's path patterns are matched, by the host functions, against the
  path as it was given, and where it leads is checked against the sandbox only;
  the file tools look at the sandbox alone.
* A path whose last component is a link that leads to nothing does not exist for
  `validate_sandbox_path` (`wasm/path.rs:124`): its directory is checked instead, and
  a write follows the link and makes the file where it leads, inside the sandbox or
  not. `OnlyGrantedEffects` and `HostResultsAreTrue` except that case.
* The authority of a URL ends, for the checks, at its first `/` even if a `?` comes
  before it (`core/tool.rs:60-89`); the HTTP client is handed the URL and reads it by
  itself. It also resolves the host by itself, which `http_tool.rs:19-31` accepts, and
  follows one redirect (`http_tool.rs:61`, `wasm/session.rs:90`), whose target nobody
  checks. The properties therefore say what was checked before a request was handed
  over, and nothing of the server that got it.

## 7. What is not modelled

* **Data.** Wording, prompts, JSON, YAML, timestamps, token counts: what no
  property is about. Time: the wall clock may run out anywhere, so the limit per
  run against the `elapsed_ms` that is saved is out of reach; nothing in the code
  compares the two.
* **Engine.** Fuel: a guest may end at any time, which covers running out of it.
  Wasmtime's own memory checks, the configuration of the engine, and the
  compilation of modules are wasmtime's.
* **Network.** What `reqwest` does with a request: how it reads the URL, what it is
  told when it resolves the host again, and the one redirect it follows. The models
  end where the request is handed over and leave its outcome open.
* **Paths.** Names are atoms: a wildcard in the middle of a name (`log*.txt`) is
  left out. Links do not change, and a directory is none; a file is never made in
  the way of a directory.
* **Repositories.** `list_by_tenant`, and the skill repository's `delete` and
  `get_by_name`, which nothing calls.
* **Core types** are types without behaviour, and **bus** and **gateway** are empty
  stubs.

Outside its tests the repository calls neither `resume_session` nor
`mark_running_as_paused`: `server/main.rs` starts the skill routes only. The
models take both as what their documentation says they are for, and session
rows are first saved as the tests do (`tests/session_persistence.rs`,
`make_snapshot`). Likewise the tenant's limiter is installed in Sandbox as its
tests install it.

## 8. Plan

Every component that keeps state or decides something is modelled; the
proofs cover every safety property the runs check. What would add most next:

1. The slots of AgentSession as an instance of SlotPool, and a journal of turns
   (a list per session that grows, but for the writes of overtaken runs) that
   AgentSession implements: `NoTurnLostHolds` is most of that refinement's step.
2. A clock in AgentSession, if the code comes to compare `elapsed_ms` with the
   wall-clock limit.
3. SkillManager with its load as an operation of SkillIndex, so that files that
   change under a load and loads that overtake each other meet.

## 9. Running it

    tlc -workers 2 -config session_shared.cfg MCAgentSession.tla
    tlapm AgentSessionProofs.tla

Each run's module and configuration, the expected outcome, and the line of code
each definition stands for are in `PROJECT.json`. Configurations check for
deadlock except `window`, whose loop returns after `max_iterations` turns,
`tool_calls`, whose calls return and registrations end, and `sandbox`, whose
guests may all end and whose ticker stops.
