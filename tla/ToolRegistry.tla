------------------------------ MODULE ToolRegistry ------------------------------
(***************************************************************************)
(* The tool registry (jadepaw-agent/src/tool_registry.rs): three maps that *)
(* a registration fills one after the other, while others register and     *)
(* calls look tools up.  A tool is known by the registration that brought  *)
(* it, which is also its ToolId.                                           *)
(***************************************************************************)
EXTENDS Integers, FiniteSets

CONSTANTS
  Registrations,  \* the calls of register, one tool each
  NameOf          \* the name each tool has

VARIABLES
  registration,  \* how far each call of register has got
  name_index,    \* from names to ToolIds
  ranked,        \* the ToolIds in tools_priority
  tools,         \* the ToolIds in tools
  overlapping    \* history: the pairs of registrations under way at once

registryVars == <<registration, name_index, ranked, tools, overlapping>>

RegistryInit ==
  /\ registration = [r \in Registrations |-> "new"]
  /\ name_index = <<>>
  /\ ranked = {}
  /\ tools = {}
  /\ overlapping = {}

Registering == {r \in Registrations : registration[r] \in {"checked", "indexed", "ranked"}}

Indexed(name, id) == [n \in DOMAIN name_index \cup {name} |->
                        IF n = name THEN id ELSE name_index[n]]

Taken(name) == name \in DOMAIN name_index

(* Mutant: the fresh ToolId is looked for, instead of the name.            *)
CheckId(r) ==
  /\ registration[r] = "new"
  /\ registration' = [registration EXCEPT ![r] = "checked"]
  /\ overlapping' = overlapping \cup {{r, q} : q \in Registering}
  /\ UNCHANGED <<name_index, ranked, tools>>

(* Is the name taken?  The priority of the tool that has it goes into the  *)
(* error.                                                                  *)
Check(r) ==
  /\ registration[r] = "new"
  /\ registration' = [registration EXCEPT
       ![r] = IF Taken(NameOf[r]) THEN "refused" ELSE "checked"]
  /\ overlapping' = overlapping \cup {{r, q} : q \in Registering}
  /\ UNCHANGED <<name_index, ranked, tools>>

InsertName(r) ==
  /\ registration[r] = "checked"
  /\ registration' = [registration EXCEPT ![r] = "indexed"]
  /\ name_index' = Indexed(NameOf[r], r)
  /\ UNCHANGED <<ranked, tools, overlapping>>

InsertPriority(r) ==
  /\ registration[r] = "indexed"
  /\ registration' = [registration EXCEPT ![r] = "ranked"]
  /\ ranked' = ranked \cup {r}
  /\ UNCHANGED <<name_index, tools, overlapping>>

InsertTool(r) ==
  /\ registration[r] = "ranked"
  /\ registration' = [registration EXCEPT ![r] = "ok"]
  /\ tools' = tools \cup {r}
  /\ UNCHANGED <<name_index, ranked, overlapping>>

Register(r) == Check(r) \/ InsertName(r) \/ InsertPriority(r) \/ InsertTool(r)

(* get_by_name, atomic under the lock on the name: a name whose tool is    *)
(* not there yet is unknown.                                               *)
Found(name) == Taken(name) /\ name_index[name] \in tools

(* list_tools shows every tool, whatever the index says.                   *)
Listed(name) == {t \in tools : NameOf[t] = name}

--------------------------------------------------------------------------------
(* Two tools of one name are listed only if they were registered at once.  *)
(* Whatever can be called has its priority, and once nothing of a name is  *)
(* being registered, a tool that is listed can be called by its name, or   *)
(* was overtaken by one registered at the same time.                       *)
NamesSettle ==
  /\ \A t \in tools : \A u \in Listed(NameOf[t]) \ {t} : {t, u} \in overlapping
  /\ \A n \in DOMAIN name_index : Found(n) => name_index[n] \in ranked
  /\ \A t \in tools :
       (\A r \in Registering : NameOf[r] # NameOf[t]) =>
         /\ Found(NameOf[t])
         /\ t = name_index[NameOf[t]] \/ {t, name_index[NameOf[t]]} \in overlapping
================================================================================
