------------------------------ MODULE SkillManager ------------------------------
(***************************************************************************)
(* Skills: SkillManager::load and unload (jadepaw-skill/src/manager.rs),   *)
(* the registry they share (registry.rs) and the ReAct loops that pick up  *)
(* a change at the head of a turn (jadepaw-agent/src/loop.rs).             *)
(*                                                                         *)
(* Every registry method locks one tenant's entry of a DashMap and lets it *)
(* go, so it is one atomic step; load and unload are several, on server    *)
(* threads that interleave with each other and with the loops.             *)
(*                                                                         *)
(* A skill is its name and the tools its manifest declares, which here     *)
(* also tell one version of its file from the next.  Every skill is loaded *)
(* with priority 0, so get_active's stable sort leaves the order alone.    *)
(***************************************************************************)
EXTENDS Naturals, Sequences, SequencesExt

CONSTANTS
  Tenants,
  Names,       \* skill names, each a directory of the tenant's
  Tools,       \* tool names a manifest may declare
  Registered,  \* those the tool registry knows
  Calls,       \* calls of load and unload
  Loops,       \* sessions with their ReAct loops
  TenantOf,    \* the tenant of each session
  NoSwap,      \* no swap is pending
  NotMade,     \* the call is still to come, ...
  Returned,    \* ... or over
  NoPrompt,    \* no prompt, or no row
  Rows         \* messages[0] in each session's row from before the start

Skill == [name : Names, tools : SUBSET Tools]

SystemPrompt == [skills : Seq(Skill), tools : SUBSET Tools]
SkillSwap == [block : Seq(Skill), tools : SUBSET Tools]

Call == [tenant : Tenants, name : Names, lookup : BOOLEAN, tools : SUBSET Tools,
         block : Seq(Skill), step : {"remove", "insert", "merge", "define", "set"}]

ASSUME SkillAssumption ==
  /\ Registered \subseteq Tools
  /\ TenantOf \in [Loops -> Tenants]
  /\ Rows \in [Loops -> SystemPrompt \cup {NoPrompt}]
  /\ NoSwap \notin SkillSwap /\ {NotMade, Returned} \cap Call = {} /\ NoPrompt \notin SystemPrompt

VARIABLES
  active,   \* loaded_skills of each tenant
  pending,  \* pending_swap of each tenant
  calls,    \* the local state of each call that is under way
  lpc,      \* where the loop of each session is
  prompt,   \* messages[0] of that loop
  saved,    \* messages[0] in the session's row: run_agent's sessions have none
  late,     \* one in a checkpoint that was cut off and may still be written
  \* History, for the properties only:
  contended,  \* <<tenant, name>>: loads of it were between remove and insert together
  mixed,      \* tenants whose latest loads and unloads overlap
  behind,     \* sessions whose prompt may be older than what its tenant's loops took
  unsaved     \* sessions whose row may be so

registry == <<active, pending, calls>>
sessions == <<lpc, prompt, saved, late>>
history == <<contended, mixed, behind, unsaved>>
vars == <<registry, sessions, history>>

(* SkillSwap: the skill block, and the tools to describe.                  *)
Swap(block, tools) == [block |-> block, tools |-> tools]

(* What a system prompt says: the skills of its block, and the tools it    *)
(* describes.                                                              *)
PromptWithTools(tools) == [skills |-> <<>>, tools |-> tools]
AugmentedPrompt(block, tools) == [skills |-> block, tools |-> tools]

Init ==
  /\ active = [t \in Tenants |-> <<>>]
  /\ pending = [t \in Tenants |-> NoSwap]
  /\ calls = [c \in Calls |-> NotMade]
  /\ lpc = [l \in Loops |-> "new"]
  /\ prompt = [l \in Loops |-> NoPrompt]
  /\ saved = Rows
  /\ late = [l \in Loops |-> NoPrompt]
  /\ contended = {} /\ mixed = {} /\ behind = {}
  /\ unsaved = {l \in Loops : Rows[l] # NoPrompt}

LoopsOf(t) == {l \in Loops : TenantOf[l] = t}

Prompted(l) == lpc[l] \in {"head", "thinking"}

UnderWay(c) == calls[c] \notin {NotMade, Returned}

Idle(t) == \A c \in Calls : UnderWay(c) => calls[c].tenant # t

--------------------------------------------------------------------------------
(* load() and unload()                                                     *)

At(c, step) == UnderWay(c) /\ calls[c].step = step

(* Nothing makes a call wait for the tenant's others.                      *)
Begin(c, t, name, lookup, tools, step) ==
  /\ calls[c] = NotMade
  /\ calls' = [calls EXCEPT ![c] =
                 [tenant |-> t, name |-> name, lookup |-> lookup,
                  tools |-> tools, block |-> <<>>, step |-> step]]
  /\ mixed' = IF Idle(t) THEN mixed \ {t} ELSE mixed \cup {t}

(* Another load is about to insert the skill.                              *)
Inserting(c, t, name) ==
  \E d \in Calls \ {c} : At(d, "insert") /\ calls[d].tenant = t /\ calls[d].name = name

(* The file is read and parsed.  Given a tool registry, the tools are      *)
(* looked up there, and one that is missing ends the load, as a file that  *)
(* cannot be read or parsed does; the registry is not touched then.        *)
ReadFile(c, t, name) ==
  /\ \E lookup \in BOOLEAN, tools \in SUBSET Tools :
       /\ lookup => tools \subseteq Registered
       /\ Begin(c, t, name, lookup, tools, "remove")
  /\ UNCHANGED <<active, pending, sessions, contended, behind, unsaved>>

(* Mutant: nothing is removed.                                             *)
WithoutNothing(t, name) == active[t]

(* Vec::retain: the others, in their order.                                *)
Retain(skills, name) ==
  FoldLeft(LAMBDA kept, skill : IF skill.name = name THEN kept ELSE Append(kept, skill),
           <<>>, skills)

Without(t, name) == Retain(active[t], name)

(* A version loaded before goes first, ...                                 *)
RemoveOld(c) ==
  LET t == calls[c].tenant  name == calls[c].name IN
  /\ At(c, "remove")
  /\ active' = [active EXCEPT ![t] = Without(t, name)]
  /\ calls' = [calls EXCEPT ![c].step = "insert"]
  /\ contended' = IF Inserting(c, t, name) THEN contended \cup {<<t, name>>}
                  ELSE contended \ {<<t, name>>}
  /\ UNCHANGED <<pending, sessions, mixed, behind, unsaved>>

(* ... the new one is pushed, ...                                          *)
Insert(c) ==
  /\ At(c, "insert")
  /\ active' = [active EXCEPT ![calls[c].tenant] =
                  Append(@, [name |-> calls[c].name, tools |-> calls[c].tools])]
  /\ calls' = [calls EXCEPT ![c].step = "merge"]
  /\ UNCHANGED <<pending, sessions, history>>

(* ... and the skill block is built from what is loaded by then.           *)
MergeActive(c) ==
  /\ At(c, "merge")
  /\ calls' = [calls EXCEPT ![c].block = active[calls[c].tenant],
                            ![c].step = "define"]
  /\ UNCHANGED <<active, pending, sessions, history>>

ToolsOf(skills) == UNION {skills[k].tools : k \in 1..Len(skills)}

(* The tool definitions come from a second look at the loaded skills, and  *)
(* from none without a tool registry.                                      *)
MergeToolDefinitions(c) ==
  /\ At(c, "define")
  /\ calls' = [calls EXCEPT
                 ![c].tools = IF calls[c].lookup
                              THEN ToolsOf(active[calls[c].tenant]) \cap Registered
                              ELSE {},
                 ![c].step = "set"]
  /\ UNCHANGED <<active, pending, sessions, history>>

(* The last swap set is the one that counts.                               *)
SetPendingSwap(c) ==
  /\ At(c, "set")
  /\ pending' = [pending EXCEPT ![calls[c].tenant] =
                   Swap(calls[c].block, calls[c].tools)]
  /\ calls' = [calls EXCEPT ![c] = Returned]
  /\ UNCHANGED <<active, sessions, history>>

(* unload(): the rest is as in load, but the swap describes no tool.       *)
Unload(c, t, name) ==
  /\ Begin(c, t, name, FALSE, {}, "merge")
  /\ active' = [active EXCEPT ![t] = Without(t, name)]
  /\ contended' = IF Inserting(c, t, name) THEN contended ELSE contended \ {<<t, name>>}
  /\ UNCHANGED <<pending, sessions, behind, unsaved>>

--------------------------------------------------------------------------------
(* The sessions: run_agent's, which persist nothing, and those with a row, *)
(* which resume_session runs.                                              *)

(* run_agent asks whether any skill is loaded, and if so reads them; the   *)
(* first prompt describes every registered tool.                           *)
StartSession(l) ==
  /\ lpc[l] = "new" /\ saved[l] = NoPrompt
  /\ \/ /\ active[TenantOf[l]] # <<>>
        /\ lpc' = [lpc EXCEPT ![l] = "starting"]
        /\ UNCHANGED prompt
     \/ /\ active[TenantOf[l]] = <<>>
        /\ lpc' = [lpc EXCEPT ![l] = "head"]
        /\ prompt' = [prompt EXCEPT ![l] = PromptWithTools(Registered)]
  /\ UNCHANGED <<registry, saved, late, history>>

BuildPrompt(l) ==
  /\ lpc[l] = "starting"
  /\ lpc' = [lpc EXCEPT ![l] = "head"]
  /\ prompt' = [prompt EXCEPT ![l] = AugmentedPrompt(active[TenantOf[l]], Registered)]
  /\ UNCHANGED <<registry, saved, late, history>>

(* resume_session builds a prompt too and does not use it: the messages    *)
(* are those of the row.                                                   *)
ResumeSession(l) ==
  /\ lpc[l] = "new" /\ saved[l] # NoPrompt
  /\ lpc' = [lpc EXCEPT ![l] = "head"]
  /\ prompt' = [prompt EXCEPT ![l] = saved[l]]
  /\ behind' = behind \cup (unsaved \cap {l})
  /\ UNCHANGED <<registry, saved, late, contended, mixed, unsaved>>

(* What a loop takes no other loop of the tenant will see, and no row has  *)
(* it yet.  A swap that overlapping changes built may itself be old.       *)
Taken(l, t) ==
  /\ behind' = (behind \cup {m \in LoopsOf(t) : Prompted(m)})
                 \ (IF t \in mixed THEN {} ELSE {l})
  /\ unsaved' = unsaved \cup {m \in LoopsOf(t) : saved[m] # NoPrompt}

(* Mutant: the pending swap is cleared but not applied.                    *)
TurnHeadDiscards(l) ==
  LET t == TenantOf[l] IN
  /\ lpc[l] = "head"
  /\ lpc' = [lpc EXCEPT ![l] = "thinking"]
  /\ pending' = [pending EXCEPT ![t] = NoSwap]
  /\ IF pending[t] = NoSwap THEN UNCHANGED <<behind, unsaved>> ELSE Taken(l, t)
  /\ UNCHANGED <<active, calls, prompt, saved, late, contended, mixed>>

(* Mutant: the swap is applied though there is none.                       *)
TurnHeadUnchecked(l) ==
  LET t == TenantOf[l] IN
  /\ lpc[l] = "head"
  /\ lpc' = [lpc EXCEPT ![l] = "thinking"]
  /\ pending' = [pending EXCEPT ![t] = NoSwap]
  /\ prompt' = [prompt EXCEPT ![l] = pending[t]]
  /\ Taken(l, t)
  /\ UNCHANGED <<active, calls, saved, late, contended, mixed>>

(* The head of a turn takes the tenant's swap, if there is one.  The block *)
(* of no skills is empty.                                                  *)
TurnHead(l) ==
  LET t == TenantOf[l]  swap == pending[t] IN
  /\ lpc[l] = "head"
  /\ lpc' = [lpc EXCEPT ![l] = "thinking"]
  /\ pending' = [pending EXCEPT ![t] = NoSwap]
  /\ IF swap = NoSwap THEN UNCHANGED <<prompt, behind, unsaved>>
     ELSE /\ prompt' = [prompt EXCEPT ![l] =
                          IF swap.block = <<>> THEN PromptWithTools(swap.tools)
                          ELSE AugmentedPrompt(swap.block, swap.tools)]
          /\ Taken(l, t)
  /\ UNCHANGED <<active, calls, saved, late, contended, mixed>>

(* The rest of the turn: a session with a row saves its messages, or fails *)
(* to, and goes on.                                                        *)
TurnEnd(l) ==
  /\ lpc[l] = "thinking"
  /\ lpc' = [lpc EXCEPT ![l] = "head"]
  /\ \/ UNCHANGED <<saved, unsaved>>
     \/ /\ saved[l] # NoPrompt
        /\ saved' = [saved EXCEPT ![l] = prompt[l]]
        /\ unsaved' = IF l \in behind THEN unsaved \cup {l} ELSE unsaved \ {l}
  /\ UNCHANGED <<registry, prompt, late, contended, mixed, behind>>

(* The run ends: with an answer or an error, which save nothing, or cut    *)
(* off by the clock, perhaps in a checkpoint.                              *)
Stop(l) ==
  /\ Prompted(l)
  /\ lpc' = [lpc EXCEPT ![l] = "new"]
  /\ prompt' = [prompt EXCEPT ![l] = NoPrompt]
  /\ \/ UNCHANGED late
     \/ /\ lpc[l] = "thinking" /\ saved[l] # NoPrompt
        /\ late' = [late EXCEPT ![l] = prompt[l]]
  /\ behind' = behind \ {l}
  /\ UNCHANGED <<registry, saved, contended, mixed, unsaved>>

(* A checkpoint that was cut off lands, whatever was saved since.          *)
LateSave(l) ==
  /\ late[l] # NoPrompt
  /\ saved' = [saved EXCEPT ![l] = late[l]]
  /\ late' = [late EXCEPT ![l] = NoPrompt]
  /\ unsaved' = unsaved \cup {l}
  /\ UNCHANGED <<registry, lpc, prompt, contended, mixed, behind>>

--------------------------------------------------------------------------------
Proceed(c) ==
  \/ RemoveOld(c) \/ Insert(c) \/ MergeActive(c) \/ MergeToolDefinitions(c)
  \/ SetPendingSwap(c)

Next ==
  \/ \E c \in Calls, t \in Tenants, name \in Names : ReadFile(c, t, name) \/ Unload(c, t, name)
  \/ \E c \in Calls : Proceed(c)
  \/ \E l \in Loops :
       \/ StartSession(l) \/ BuildPrompt(l) \/ TurnHead(l) \/ TurnEnd(l)
       \/ Stop(l) \/ ResumeSession(l) \/ LateSave(l)

Spec == Init /\ [][Next]_vars

--------------------------------------------------------------------------------
(* Every variable of the model has its type.                               *)
TypeOK ==
  /\ active \in [Tenants -> Seq(Skill)]
  /\ pending \in [Tenants -> SkillSwap \cup {NoSwap}]
  /\ calls \in [Calls -> Call \cup {NotMade, Returned}]
  /\ lpc \in [Loops -> {"new", "starting", "head", "thinking"}]
  /\ prompt \in [Loops -> SystemPrompt \cup {NoPrompt}]
  /\ \A l \in Loops : Prompted(l) => prompt[l] # NoPrompt
  /\ saved \in [Loops -> SystemPrompt \cup {NoPrompt}]
  /\ late \in [Loops -> SystemPrompt \cup {NoPrompt}]
  /\ contended \subseteq Tenants \X Names
  /\ mixed \subseteq Tenants
  /\ behind \subseteq {l \in Loops : Prompted(l)}
  /\ unsaved \subseteq {l \in Loops : saved[l] # NoPrompt}

(* A tenant has a skill loaded once, however often it was loaded, unless   *)
(* two loads of it were between their remove and their insert together:    *)
(* then it is there twice, until it is next removed by a call that is      *)
(* alone.  registry.rs:57-59 leaves uniqueness to load ("SkillManager::load *)
(* checks before insert"), and merge_active and unload rely on it.         *)
SkillNamesUnique ==
  \A t \in Tenants : \A j, k \in 1..Len(active[t]) :
    active[t][j].name = active[t][k].name =>
      j = k \/ <<t, active[t][j].name>> \in contended

(* loop.rs:196-197: "skill changes are visible on the very next turn".  A  *)
(* loop that passes the head of a turn while no load or unload of its      *)
(* tenant is under way thinks with exactly the skills that are loaded, and *)
(* there are three ways to miss a change and no other: another loop of the *)
(* tenant took the swap; the session was resumed from a row without it,    *)
(* older than the server or its last swap, or written late; or the swap    *)
(* was built by changes that overlapped.  A loop that missed one catches   *)
(* up with the next swap it takes.                                         *)
ChangesVisibleNextTurn ==
  [][\A l \in Loops :
       lpc[l] = "head" /\ lpc'[l] = "thinking" /\ Idle(TenantOf[l]) /\ l \notin behind' =>
         prompt'[l].skills = active[TenantOf[l]]]_vars
================================================================================
