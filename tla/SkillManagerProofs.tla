--------------------------- MODULE SkillManagerProofs ---------------------------
(***************************************************************************)
(* Theorems about SkillManager, for any tenants, skills, tools, callers    *)
(* and sessions.                                                           *)
(***************************************************************************)
EXTENDS SkillManager, FoldLemmas

--------------------------------------------------------------------------------
(* What a removal leaves.                                                  *)

Kept(kept, skill, name) == IF skill.name = name THEN kept ELSE Append(kept, skill)

RetainsAlong(run, skills, name) ==
  /\ run \in [0..Len(skills) -> Seq(Skill)]
  /\ run[0] = <<>>
  /\ \A k \in 1..Len(skills) : run[k] = Kept(run[k - 1], skills[k], name)

(* A removal goes through the skills one by one.                           *)
LEMMA RetainRuns ==
  ASSUME NEW skills \in Seq(Skill), NEW name
  PROVE  \E run : RetainsAlong(run, skills, name) /\ Retain(skills, name) = run[Len(skills)]
<1> DEFINE Is(g) == g = [s \in SUBSET DOMAIN skills |->
                           IF s = {} THEN <<>>
                           ELSE IF skills[Max(s)].name = name THEN g[s \ {Max(s)}]
                           ELSE Append(g[s \ {Max(s)}], skills[Max(s)])]
<1>1. PICK n \in Nat : n = Len(skills)
  OBVIOUS
<1>2. PICK V : V = Seq(Skill)
  OBVIOUS
<1>3. PICK fold : fold = CHOOSE g : Is(g)
  OBVIOUS
<1>4. DOMAIN skills = 1..n /\ Retain(skills, name) = fold[1..n]
  BY <1>1, <1>3 DEF Retain, FoldLeft, MapThenFoldSet
<1>5. <<>> \in V
  BY <1>2
<1>6. PICK step \in [1..n -> [V -> V]] : \A k \in 1..n, v \in V : step[k][v] = Kept(v, skills[k], name)
  <2>1. ASSUME NEW k \in 1..n, NEW v \in V PROVE Kept(v, skills[k], name) \in V
    <3>1. skills[k] \in Skill
      BY <1>4
    <3>2. PICK S : S = Skill
      OBVIOUS
    <3>3. skills[k] \in S /\ v \in Seq(S)
      BY <1>2, <3>1, <3>2
    <3>4. Append(v, skills[k]) \in Seq(S)
      BY <3>3
    <3> QED
      BY <1>2, <3>2, <3>4 DEF Kept
  <2>2. [k \in 1..n |-> [v \in V |-> Kept(v, skills[k], name)]] \in [1..n -> [V -> V]]
    BY <2>1
  <2> QED
    BY <2>2
<1>7. PICK g \in [SUBSET (1..n) -> V] : FoldsAlong(g, n, <<>>, step)
  BY <1>5, FoldExists
<1>8. \A s \in SUBSET (1..n) : s # {} => Max(s) \in 1..n /\ s \ {Max(s)} \in SUBSET (1..n)
  <2> SUFFICES ASSUME NEW s \in SUBSET (1..n), s # {} PROVE Max(s) \in s
    OBVIOUS
  <2>1. s \in SUBSET (0..n)
    OBVIOUS
  <2> QED
    BY <2>1, MaxIsGreatest
<1>9. Is(g)
  <2>1. ASSUME NEW s \in SUBSET (1..n)
        PROVE  g[s] = IF s = {} THEN <<>> ELSE Kept(g[s \ {Max(s)}], skills[Max(s)], name)
    BY <1>6, <1>7, <1>8 DEF FoldsAlong
  <2> QED
    BY <1>4, <2>1 DEF Kept
<1>10. Is(fold)
  BY <1>3, <1>9
<1>11. FoldsWithin(fold, n, V, <<>>, step)
  <2>1. \A s \in SUBSET (1..n) :
          fold[s] = IF s = {} THEN <<>> ELSE Kept(fold[s \ {Max(s)}], skills[Max(s)], name)
    BY <1>4, <1>10 DEF Kept
  <2> HIDE DEF Is
  <2>2. fold[{}] = <<>>
    BY <2>1
  <2>3. ASSUME NEW s \in SUBSET (1..n), s # {}, fold[s \ {Max(s)}] \in V
        PROVE  fold[s] = step[Max(s)][fold[s \ {Max(s)}]]
    BY <1>6, <1>8, <2>1, <2>3
  <2> QED
    BY <2>2, <2>3 DEF FoldsWithin
<1>12. PICK run \in [0..n -> V] : CountsAlong(run, n, <<>>, step)
  BY <1>5, AlongNumbers
<1>13. EndsAs(fold, run, n)
  <2>1. run \in [0..n -> V]
    BY <1>12
  <2>2. CountsAlong(run, n, <<>>, step)
    BY <1>12
  <2> QED
    BY <1>5, <1>11, <2>1, <2>2, FoldRuns
<1>14. RetainsAlong(run, skills, name)
  <2>1. run[0] = <<>>
    BY <1>12 DEF CountsAlong
  <2>2. ASSUME NEW k \in 1..n PROVE run[k] = Kept(run[k - 1], skills[k], name)
    <3>1. k \in 0..n /\ k # 0 /\ run[k - 1] \in V
      OBVIOUS
    <3>2. run[k] = step[k][run[k - 1]]
      BY <1>12, <3>1 DEF CountsAlong
    <3> QED
      BY <1>6, <3>1, <3>2
  <2> QED
    BY <1>1, <1>2, <2>1, <2>2 DEF RetainsAlong
<1> QED
  BY <1>1, <1>4, <1>13, <1>14 DEF EndsAs

OnceOnly(skills, name) ==
  \A j, k \in 1..Len(skills) : skills[j].name = name /\ skills[k].name = name => j = k

LacksName(skills, name) == \A k \in 1..Len(skills) : skills[k].name # name

(* The skill that is removed is gone, and no other comes or multiplies.    *)
LEMMA RetainIs ==
  ASSUME NEW skills \in Seq(Skill), NEW name, NEW other
  PROVE  /\ Retain(skills, name) \in Seq(Skill)
         /\ LacksName(Retain(skills, name), name)
         /\ LacksName(skills, other) => LacksName(Retain(skills, name), other)
         /\ OnceOnly(skills, other) => OnceOnly(Retain(skills, name), other)
<1>1. PICK run : RetainsAlong(run, skills, name) /\ Retain(skills, name) = run[Len(skills)]
  BY RetainRuns
<1>2. PICK n \in Nat : n = Len(skills)
  OBVIOUS
<1>3. run \in [0..n -> Seq(Skill)] /\ run[0] = <<>>
  BY <1>1, <1>2 DEF RetainsAlong
<1> DEFINE From(k) == \A j \in 1..Len(run[k]) : \E i \in 1..k : run[k][j].name = skills[i].name
           Good(k) == /\ LacksName(run[k], name)
                      /\ From(k)
                      /\ OnceOnly(skills, other) => OnceOnly(run[k], other)
           T == {k \in 0..n : ~Good(k)}
<1>4. T = {}
  <2> SUFFICES ASSUME T # {} PROVE FALSE
    OBVIOUS
  <2>1. PICK k \in T : \A m \in T : k <= m
    <3>1. T \in SUBSET Nat
      OBVIOUS
    <3> HIDE DEF T
    <3> QED
      BY <3>1, LeastNatural
  <2>2. Good(0)
    BY <1>3 DEF LacksName, OnceOnly
  <2>3. k \in 1..n /\ k - 1 \in 0..n /\ ~Good(k)
    BY <2>1, <2>2
  <2>4. Good(k - 1)
    <3>1. k - 1 \notin T
      BY <2>1, <2>3
    <3> QED
      BY <2>3, <3>1
  <2>5. PICK before, skill : before = run[k - 1] /\ skill = skills[k]
    OBVIOUS
  <2>6. before \in Seq(Skill) /\ skill \in Skill
    BY <1>2, <1>3, <2>3, <2>5
  <2>7. run[k] = Kept(before, skill, name)
    BY <1>1, <1>2, <2>3, <2>5 DEF RetainsAlong
  <2>8. /\ LacksName(before, name)
        /\ \A j \in 1..Len(before) : \E i \in 1..k - 1 : before[j].name = skills[i].name
        /\ OnceOnly(skills, other) => OnceOnly(before, other)
    BY <2>4, <2>5
  <2> HIDE DEF Good
  <2>9. CASE skill.name = name
    <3>1. run[k] = before
      BY <2>7, <2>9 DEF Kept
    <3>2. \A i \in 1..k - 1 : i \in 1..k
      BY <2>3
    <3> QED
      BY <2>3, <2>8, <3>1, <3>2 DEF Good
  <2>10. CASE skill.name # name
    <3>1. run[k] = Append(before, skill)
      BY <2>7, <2>10 DEF Kept
    <3>2. PICK m \in Nat : m = Len(before)
      BY <2>6
    <3>3. /\ Len(run[k]) = m + 1 /\ run[k][m + 1] = skill
          /\ \A j \in 1..m : run[k][j] = before[j]
      BY <2>6, <3>1, <3>2
    <3>4. \A j \in 1..m + 1 : j \in 1..m \/ j = m + 1
      OBVIOUS
    <3>5. LacksName(run[k], name)
      BY <2>8, <2>10, <3>2, <3>3, <3>4 DEF LacksName
    <3>6. From(k)
      <4>1. \A i \in 1..k - 1 : i \in 1..k
        BY <2>3
      <4>2. ASSUME NEW j \in 1..m PROVE \E i \in 1..k : run[k][j].name = skills[i].name
        <5>1. PICK i \in 1..k - 1 : before[j].name = skills[i].name
          BY <2>8, <3>2
        <5>2. i \in 1..k /\ run[k][j].name = skills[i].name
          BY <3>3, <4>1, <5>1
        <5> QED
          BY <5>2
      <4>3. k \in 1..k /\ run[k][m + 1].name = skills[k].name
        BY <2>3, <2>5, <3>3
      <4>4. \A j \in 1..m + 1 : \E i \in 1..k : run[k][j].name = skills[i].name
        BY <3>4, <4>2, <4>3
      <4> QED
        BY <3>3, <4>4
    <3>7. ASSUME OnceOnly(skills, other) PROVE OnceOnly(run[k], other)
      <4>1. ASSUME NEW j \in 1..m, skill.name = other PROVE run[k][j].name # other
        <5>1. PICK i \in 1..k - 1 : before[j].name = skills[i].name
          BY <2>8, <3>2
        <5>2. i # k /\ i \in 1..Len(skills) /\ k \in 1..Len(skills)
          BY <1>2, <2>3
        <5>3. skills[i].name # other
          BY <2>5, <3>7, <4>1, <5>2 DEF OnceOnly
        <5> QED
          BY <3>3, <5>1, <5>3
      <4>2. \A i, j \in 1..m : run[k][i].name = other /\ run[k][j].name = other => i = j
        BY <2>8, <3>2, <3>3, <3>7 DEF OnceOnly
      <4> QED
        BY <3>3, <3>4, <4>1, <4>2 DEF OnceOnly
    <3> QED
      BY <2>3, <3>5, <3>6, <3>7 DEF Good
  <2> QED
    BY <2>9, <2>10
<1>5. n \in 0..n
  OBVIOUS
<1>6. Good(n)
  BY <1>4, <1>5
<1>7. ASSUME LacksName(skills, other) PROVE LacksName(run[n], other)
  <2>1. \A j \in 1..Len(run[n]) : \E i \in 1..n : run[n][j].name = skills[i].name
    BY <1>6
  <2> QED
    BY <1>2, <1>7, <2>1 DEF LacksName
<1> HIDE DEF Good
<1>8. LacksName(run[n], name) /\ (OnceOnly(skills, other) => OnceOnly(run[n], other))
  BY <1>6 DEF Good
<1> QED
  BY <1>1, <1>2, <1>3, <1>5, <1>7, <1>8

--------------------------------------------------------------------------------
(* The types.                                                              *)

(* What a push leaves.                                                     *)
LEMMA SkillsGrow ==
  ASSUME NEW S, NEW skills \in Seq(S), NEW skill \in S
  PROVE  /\ Append(skills, skill) \in Seq(S)
         /\ Len(Append(skills, skill)) = Len(skills) + 1
         /\ Append(skills, skill)[Len(skills) + 1] = skill
         /\ \A k \in 1..Len(skills) : Append(skills, skill)[k] = skills[k]
  OBVIOUS

(* A call that takes a step is a record, and stays one.                    *)
LEMMA CallAt ==
  ASSUME TypeOK, NEW c \in Calls, NEW step, At(c, step)
  PROVE  /\ calls[c] \in Call /\ calls[c].step = step /\ UnderWay(c)
         /\ calls[c].tenant \in Tenants /\ calls[c].name \in Names
         /\ calls[c].tools \in SUBSET Tools /\ calls[c].block \in Seq(Skill)
         /\ calls[c].lookup \in BOOLEAN
  BY DEF TypeOK, At, UnderWay, Call

(* What a call that begins is.                                             *)
LEMMA BeginIs ==
  ASSUME TypeOK, NEW c \in Calls, NEW t \in Tenants, NEW name \in Names,
         NEW lookup \in BOOLEAN, NEW tools \in SUBSET Tools,
         NEW step \in {"remove", "merge"}, Begin(c, t, name, lookup, tools, step)
  PROVE  /\ calls' \in [Calls -> Call \cup {NotMade, Returned}]
         /\ ~UnderWay(c) /\ UnderWay(c)'
         /\ calls'[c].tenant = t /\ calls'[c].name = name /\ calls'[c].step = step
         /\ \A d \in Calls \ {c} : calls'[d] = calls[d]
<1>1. <<>> \in Seq(Skill)
  OBVIOUS
<1>2. PICK call : call = [tenant |-> t, name |-> name, lookup |-> lookup,
                          tools |-> tools, block |-> <<>>, step |-> step]
  OBVIOUS
<1>3. call \in Call /\ call.tenant = t /\ call.name = name /\ call.step = step
  BY <1>1, <1>2 DEF Call
<1>4. calls' = [calls EXCEPT ![c] = call] /\ calls[c] = NotMade
  BY <1>2 DEF Begin
<1> QED
  BY <1>3, <1>4, SkillAssumption DEF TypeOK, UnderWay

(* What a call that goes on is: only its step and what it holds change.    *)
Goes(c, step) ==
  /\ calls' \in [Calls -> Call \cup {NotMade, Returned}]
  /\ UnderWay(c) /\ UnderWay(c)'
  /\ calls'[c].tenant = calls[c].tenant /\ calls'[c].name = calls[c].name
  /\ calls'[c].step = step
  /\ \A d \in Calls \ {c} : calls'[d] = calls[d]

(* A call whose step, block or tools are exchanged goes on.                *)
LEMMA GoesOn ==
  ASSUME TypeOK, NEW c \in Calls, UnderWay(c), NEW call \in Call, NEW step,
         call.tenant = calls[c].tenant, call.name = calls[c].name, call.step = step,
         calls' = [calls EXCEPT ![c] = call]
  PROVE  Goes(c, step)
  BY SkillAssumption DEF TypeOK, UnderWay, Goes

(* The steps of a load and of the end of an unload, one by one.            *)
LEMMA RemoveOldGoes ==
  ASSUME TypeOK, NEW c \in Calls, RemoveOld(c)
  PROVE  Goes(c, "insert")
<1>1. calls[c] \in Call /\ UnderWay(c)
  BY CallAt DEF RemoveOld
<1>2. PICK call : call = [calls[c] EXCEPT !.step = "insert"]
  OBVIOUS
<1>3. call \in Call /\ call.tenant = calls[c].tenant /\ call.name = calls[c].name
      /\ call.step = "insert"
  BY <1>1, <1>2 DEF Call
<1>4. calls' = [calls EXCEPT ![c] = call]
  BY <1>2 DEF RemoveOld
<1> QED
  BY <1>1, <1>3, <1>4, GoesOn

(* The skill is pushed, and the blocks are merged next.                    *)
LEMMA InsertGoes ==
  ASSUME TypeOK, NEW c \in Calls, Insert(c)
  PROVE  Goes(c, "merge")
<1>1. calls[c] \in Call /\ UnderWay(c)
  BY CallAt DEF Insert
<1>2. PICK call : call = [calls[c] EXCEPT !.step = "merge"]
  OBVIOUS
<1>3. call \in Call /\ call.tenant = calls[c].tenant /\ call.name = calls[c].name
      /\ call.step = "merge"
  BY <1>1, <1>2 DEF Call
<1>4. calls' = [calls EXCEPT ![c] = call]
  BY <1>2 DEF Insert
<1> QED
  BY <1>1, <1>3, <1>4, GoesOn

(* The block is what is loaded at that moment.                             *)
LEMMA MergeActiveGoes ==
  ASSUME TypeOK, NEW c \in Calls, MergeActive(c)
  PROVE  Goes(c, "define") /\ calls'[c].block = active[calls[c].tenant]
<1>1. calls[c] \in Call /\ UnderWay(c) /\ calls[c].tenant \in Tenants
  BY CallAt DEF MergeActive
<1>2. PICK call : call = [calls[c] EXCEPT !.block = active[calls[c].tenant], !.step = "define"]
  OBVIOUS
<1>3. active[calls[c].tenant] \in Seq(Skill)
  BY <1>1 DEF TypeOK
<1>4. call \in Call /\ call.tenant = calls[c].tenant /\ call.name = calls[c].name
      /\ call.step = "define" /\ call.block = active[calls[c].tenant]
  BY <1>1, <1>2, <1>3 DEF Call
<1>5. calls' = [calls EXCEPT ![c] = call]
  BY <1>2 DEF MergeActive
<1>6. calls'[c] = call
  BY <1>5 DEF TypeOK
<1> QED
  BY <1>1, <1>4, <1>5, <1>6, GoesOn

(* The block stays while the tools are looked at.                          *)
LEMMA MergeToolDefinitionsGoes ==
  ASSUME TypeOK, NEW c \in Calls, MergeToolDefinitions(c)
  PROVE  Goes(c, "set") /\ calls'[c].block = calls[c].block
<1>1. calls[c] \in Call /\ UnderWay(c)
  BY CallAt DEF MergeToolDefinitions
<1>2. PICK tools : tools = IF calls[c].lookup
                           THEN ToolsOf(active[calls[c].tenant]) \cap Registered
                           ELSE {}
  OBVIOUS
<1>3. tools \in SUBSET Tools
  BY <1>2, SkillAssumption
<1>4. PICK call : call = [calls[c] EXCEPT !.tools = tools, !.step = "set"]
  OBVIOUS
<1>5. call \in Call /\ call.tenant = calls[c].tenant /\ call.name = calls[c].name
      /\ call.step = "set" /\ call.block = calls[c].block
  BY <1>1, <1>3, <1>4 DEF Call
<1>6. calls' = [calls EXCEPT ![c] = call]
  BY <1>2, <1>4 DEF MergeToolDefinitions
<1>7. calls'[c] = call
  BY <1>6 DEF TypeOK
<1> QED
  BY <1>1, <1>5, <1>6, <1>7, GoesOn

(* The call returns and leaves its block in the swap of its tenant.        *)
LEMMA SetPendingSwapEnds ==
  ASSUME TypeOK, NEW c \in Calls, SetPendingSwap(c)
  PROVE  /\ UnderWay(c) /\ calls[c].step = "set" /\ calls[c].tenant \in Tenants
         /\ calls' \in [Calls -> Call \cup {NotMade, Returned}]
         /\ ~UnderWay(c)' /\ \A d \in Calls \ {c} : calls'[d] = calls[d]
         /\ pending' \in [Tenants -> SkillSwap \cup {NoSwap}]
         /\ pending'[calls[c].tenant] # NoSwap
         /\ pending'[calls[c].tenant].block = calls[c].block
         /\ \A t \in Tenants \ {calls[c].tenant} : pending'[t] = pending[t]
<1>1. /\ UnderWay(c) /\ calls[c].step = "set" /\ calls[c].tenant \in Tenants
      /\ calls[c].block \in Seq(Skill) /\ calls[c].tools \in SUBSET Tools
  BY CallAt DEF SetPendingSwap
<1>2. PICK swap : swap = Swap(calls[c].block, calls[c].tools)
  OBVIOUS
<1>3. swap \in SkillSwap /\ swap.block = calls[c].block
  BY <1>1, <1>2 DEF Swap, SkillSwap
<1>4. swap # NoSwap
  BY <1>3, SkillAssumption
<1>5. pending' = [pending EXCEPT ![calls[c].tenant] = swap]
  BY <1>2 DEF SetPendingSwap
<1>6. calls' = [calls EXCEPT ![c] = Returned]
  BY DEF SetPendingSwap
<1> QED
  BY <1>1, <1>3, <1>4, <1>5, <1>6 DEF TypeOK, UnderWay

(* What is loaded, pending and under way keeps its type.                   *)
RegistryOK ==
  /\ active \in [Tenants -> Seq(Skill)]
  /\ pending \in [Tenants -> SkillSwap \cup {NoSwap}]
  /\ calls \in [Calls -> Call \cup {NotMade, Returned}]

SessionSteps(l) ==
  \/ StartSession(l) \/ BuildPrompt(l) \/ TurnHead(l) \/ TurnEnd(l)
  \/ Stop(l) \/ ResumeSession(l) \/ LateSave(l)

(* Every step keeps the types of what the calls share.                     *)
LEMMA RegistryStep ==
  ASSUME TypeOK, [Next]_vars
  PROVE  RegistryOK'
<1> USE SkillAssumption
<1>0. RegistryOK
  BY DEF TypeOK, RegistryOK
<1>1. ASSUME NEW c \in Calls, NEW t \in Tenants, NEW name \in Names, ReadFile(c, t, name)
      PROVE  RegistryOK'
  <2>1. PICK lookup \in BOOLEAN, tools \in SUBSET Tools : Begin(c, t, name, lookup, tools, "remove")
    BY <1>1 DEF ReadFile
  <2>2. calls' \in [Calls -> Call \cup {NotMade, Returned}]
    BY <2>1, BeginIs
  <2> QED
    BY <1>0, <1>1, <2>2 DEF ReadFile, RegistryOK
<1>2. ASSUME NEW c \in Calls, NEW t \in Tenants, NEW name \in Names, Unload(c, t, name)
      PROVE  RegistryOK'
  <2>1. Begin(c, t, name, FALSE, {}, "merge")
    BY <1>2 DEF Unload
  <2>2. calls' \in [Calls -> Call \cup {NotMade, Returned}]
    BY <2>1, BeginIs
  <2>3. Without(t, name) \in Seq(Skill)
    BY <1>0, RetainIs DEF Without, RegistryOK
  <2> QED
    BY <1>0, <1>2, <2>2, <2>3 DEF Unload, RegistryOK
<1>3. ASSUME NEW c \in Calls, RemoveOld(c)
      PROVE  RegistryOK'
  <2>1. calls[c].tenant \in Tenants
    BY <1>3, CallAt DEF RemoveOld
  <2>2. Without(calls[c].tenant, calls[c].name) \in Seq(Skill)
    BY <1>0, <2>1, RetainIs DEF Without, RegistryOK
  <2>3. calls' \in [Calls -> Call \cup {NotMade, Returned}]
    BY <1>3, RemoveOldGoes DEF Goes
  <2> QED
    BY <1>0, <1>3, <2>2, <2>3 DEF RemoveOld, RegistryOK
<1>4. ASSUME NEW c \in Calls, Insert(c)
      PROVE  RegistryOK'
  <2>1. calls[c].tenant \in Tenants /\ calls[c].name \in Names /\ calls[c].tools \in SUBSET Tools
    BY <1>4, CallAt DEF Insert
  <2>2. [name |-> calls[c].name, tools |-> calls[c].tools] \in Skill
    BY <2>1 DEF Skill
  <2>3. Append(active[calls[c].tenant], [name |-> calls[c].name, tools |-> calls[c].tools])
          \in Seq(Skill)
    BY <1>0, <2>1, <2>2, SkillsGrow DEF RegistryOK
  <2>4. calls' \in [Calls -> Call \cup {NotMade, Returned}]
    BY <1>4, InsertGoes DEF Goes
  <2> QED
    BY <1>0, <1>4, <2>3, <2>4 DEF Insert, RegistryOK
<1>5. ASSUME NEW c \in Calls, MergeActive(c)
      PROVE  RegistryOK'
  BY <1>0, <1>5, MergeActiveGoes DEF Goes, MergeActive, RegistryOK
<1>6. ASSUME NEW c \in Calls, MergeToolDefinitions(c)
      PROVE  RegistryOK'
  BY <1>0, <1>6, MergeToolDefinitionsGoes DEF Goes, MergeToolDefinitions, RegistryOK
<1>7. ASSUME NEW c \in Calls, SetPendingSwap(c)
      PROVE  RegistryOK'
  BY <1>0, <1>7, SetPendingSwapEnds DEF SetPendingSwap, RegistryOK
<1>8. ASSUME NEW l \in Loops, TurnHead(l)
      PROVE  RegistryOK'
  BY <1>0, <1>8 DEF TurnHead, RegistryOK
<1>9. ASSUME NEW l \in Loops,
             \/ StartSession(l) \/ BuildPrompt(l) \/ TurnEnd(l)
             \/ Stop(l) \/ ResumeSession(l) \/ LateSave(l)
      PROVE  RegistryOK'
  <2>1. UNCHANGED registry
    BY <1>9 DEF StartSession, BuildPrompt, TurnEnd, Stop, ResumeSession, LateSave
  <2> QED
    BY <1>0, <2>1 DEF registry, RegistryOK
<1>10. CASE UNCHANGED vars
  BY <1>0, <1>10 DEF vars, registry, RegistryOK
<1> QED
  BY <1>1, <1>2, <1>3, <1>4, <1>5, <1>6, <1>7, <1>8, <1>9, <1>10 DEF Next, Proceed

(* The sessions keep their types.                                          *)
SessionsOK ==
  /\ lpc \in [Loops -> {"new", "starting", "head", "thinking"}]
  /\ prompt \in [Loops -> SystemPrompt \cup {NoPrompt}]
  /\ \A l \in Loops : Prompted(l) => prompt[l] # NoPrompt
  /\ saved \in [Loops -> SystemPrompt \cup {NoPrompt}]
  /\ late \in [Loops -> SystemPrompt \cup {NoPrompt}]

(* What a loop says is a prompt.                                           *)
LEMMA Says ==
  ASSUME NEW block \in Seq(Skill), NEW tools \in SUBSET Tools
  PROVE  /\ AugmentedPrompt(block, tools) \in SystemPrompt
         /\ AugmentedPrompt(block, tools).skills = block
         /\ PromptWithTools(tools) \in SystemPrompt
         /\ PromptWithTools(tools).skills = <<>>
<1>1. <<>> \in Seq(Skill)
  OBVIOUS
<1> QED
  BY <1>1 DEF AugmentedPrompt, PromptWithTools, SystemPrompt

(* A loop whose prompt is set.                                             *)
LEMMA PromptSet ==
  ASSUME SessionsOK, NEW l \in Loops, NEW said \in SystemPrompt,
         NEW pc \in {"head", "thinking"},
         lpc' = [lpc EXCEPT ![l] = pc], prompt' = [prompt EXCEPT ![l] = said],
         UNCHANGED <<saved, late>>
  PROVE  SessionsOK' /\ prompt'[l] = said
<1>1. said # NoPrompt
  BY SkillAssumption
<1> QED
  BY <1>1 DEF SessionsOK, Prompted

(* What the head of a turn leaves as the prompt.                           *)
LEMMA HeadPrompt ==
  ASSUME TypeOK, NEW l \in Loops, TurnHead(l)
  PROVE  /\ SessionsOK'
         /\ pending[TenantOf[l]] = NoSwap => prompt'[l] = prompt[l]
         /\ pending[TenantOf[l]] # NoSwap => prompt'[l].skills = pending[TenantOf[l]].block
<1>0. SessionsOK /\ TenantOf[l] \in Tenants
  BY SkillAssumption DEF TypeOK, SessionsOK
<1>1. PICK swap : swap = pending[TenantOf[l]]
  OBVIOUS
<1>2. CASE swap = NoSwap
  <2>1. UNCHANGED <<prompt, saved, late>> /\ lpc' = [lpc EXCEPT ![l] = "thinking"] /\ lpc[l] = "head"
    BY <1>1, <1>2 DEF TurnHead
  <2> QED
    BY <1>0, <1>1, <1>2, <2>1 DEF SessionsOK, Prompted
<1>3. CASE swap # NoSwap
  <2>1. swap.block \in Seq(Skill) /\ swap.tools \in SUBSET Tools
    BY <1>0, <1>1, <1>3 DEF TypeOK, SkillSwap
  <2>2. PICK said : said = IF swap.block = <<>> THEN PromptWithTools(swap.tools)
                           ELSE AugmentedPrompt(swap.block, swap.tools)
    OBVIOUS
  <2>3. said \in SystemPrompt /\ said.skills = swap.block
    BY <2>1, <2>2, Says
  <2>4. /\ prompt' = [prompt EXCEPT ![l] = said] /\ lpc' = [lpc EXCEPT ![l] = "thinking"]
        /\ UNCHANGED <<saved, late>>
    BY <1>1, <1>3, <2>2 DEF TurnHead
  <2>5. SessionsOK' /\ prompt'[l] = said
    BY <1>0, <2>3, <2>4, PromptSet
  <2> QED
    BY <1>1, <1>3, <2>3, <2>5
<1> QED
  BY <1>2, <1>3

(* What a session that starts reads.                                       *)
LEMMA StartPrompt ==
  ASSUME TypeOK, NEW l \in Loops, StartSession(l)
  PROVE  SessionsOK' /\ (Prompted(l)' => prompt'[l].skills = active[TenantOf[l]])
<1>0. SessionsOK /\ Registered \in SUBSET Tools
  BY SkillAssumption DEF TypeOK, SessionsOK
<1>1. CASE active[TenantOf[l]] # <<>>
  <2>1. lpc' = [lpc EXCEPT ![l] = "starting"] /\ UNCHANGED <<prompt, saved, late>>
    BY <1>1 DEF StartSession
  <2> QED
    BY <1>0, <2>1 DEF SessionsOK, Prompted
<1>2. CASE active[TenantOf[l]] = <<>>
  <2>1. <<>> \in Seq(Skill)
    OBVIOUS
  <2>2. PICK said : said = PromptWithTools(Registered)
    OBVIOUS
  <2>3. said \in SystemPrompt /\ said.skills = <<>>
    BY <1>0, <2>1, <2>2, Says
  <2>4. /\ prompt' = [prompt EXCEPT ![l] = said] /\ lpc' = [lpc EXCEPT ![l] = "head"]
        /\ UNCHANGED <<saved, late>>
    BY <1>2, <2>2 DEF StartSession
  <2>5. SessionsOK' /\ prompt'[l] = said
    BY <1>0, <2>3, <2>4, PromptSet
  <2> QED
    BY <1>2, <2>3, <2>5
<1> QED
  BY <1>1, <1>2

(* A fresh session's prompt has what is loaded when it is built.           *)
LEMMA BuiltPrompt ==
  ASSUME TypeOK, NEW l \in Loops, BuildPrompt(l)
  PROVE  SessionsOK' /\ prompt'[l].skills = active[TenantOf[l]]
<1>0. SessionsOK /\ Registered \in SUBSET Tools /\ active[TenantOf[l]] \in Seq(Skill)
  BY SkillAssumption DEF TypeOK, SessionsOK
<1>1. PICK said : said = AugmentedPrompt(active[TenantOf[l]], Registered)
  OBVIOUS
<1>2. said \in SystemPrompt /\ said.skills = active[TenantOf[l]]
  BY <1>0, <1>1, Says
<1>3. /\ prompt' = [prompt EXCEPT ![l] = said] /\ lpc' = [lpc EXCEPT ![l] = "head"]
      /\ UNCHANGED <<saved, late>>
  BY <1>1 DEF BuildPrompt
<1>4. SessionsOK' /\ prompt'[l] = said
  BY <1>0, <1>2, <1>3, PromptSet
<1> QED
  BY <1>2, <1>4

(* A resumed session's prompt is its row's.                                *)
LEMMA ResumedPrompt ==
  ASSUME TypeOK, NEW l \in Loops, ResumeSession(l)
  PROVE  SessionsOK' /\ prompt'[l] = saved[l]
<1>0. SessionsOK
  BY DEF TypeOK, SessionsOK
<1>1. PICK said : said = saved[l]
  OBVIOUS
<1>2. said \in SystemPrompt
  BY <1>0, <1>1 DEF SessionsOK, ResumeSession
<1>3. /\ prompt' = [prompt EXCEPT ![l] = said] /\ lpc' = [lpc EXCEPT ![l] = "head"]
      /\ UNCHANGED <<saved, late>>
  BY <1>1 DEF ResumeSession
<1>4. SessionsOK' /\ prompt'[l] = said
  BY <1>0, <1>2, <1>3, PromptSet
<1> QED
  BY <1>1, <1>4

(* Every step keeps the types of the sessions.                             *)
LEMMA SessionsStep ==
  ASSUME TypeOK, [Next]_vars
  PROVE  SessionsOK'
<1>0. SessionsOK
  BY DEF TypeOK, SessionsOK
<1>1. CASE UNCHANGED sessions
  BY <1>0, <1>1 DEF sessions, SessionsOK, Prompted
<1>2. ASSUME NEW c \in Calls, NEW t \in Tenants, NEW name \in Names,
             ReadFile(c, t, name) \/ Unload(c, t, name)
      PROVE  SessionsOK'
  BY <1>1, <1>2 DEF ReadFile, Unload
<1>3. ASSUME NEW c \in Calls, Proceed(c)
      PROVE  SessionsOK'
  BY <1>1, <1>3 DEF Proceed, RemoveOld, Insert, MergeActive, MergeToolDefinitions, SetPendingSwap
<1>4. ASSUME NEW l \in Loops, TurnEnd(l)
      PROVE  SessionsOK'
  <2>1. lpc[l] = "thinking" /\ lpc' = [lpc EXCEPT ![l] = "head"] /\ UNCHANGED <<prompt, late>>
    BY <1>4 DEF TurnEnd
  <2>2. saved' = saved \/ saved' = [saved EXCEPT ![l] = prompt[l]]
    BY <1>4 DEF TurnEnd
  <2> QED
    BY <1>0, <2>1, <2>2 DEF SessionsOK, Prompted
<1>5. ASSUME NEW l \in Loops, Stop(l)
      PROVE  SessionsOK'
  <2>1. /\ lpc' = [lpc EXCEPT ![l] = "new"] /\ prompt' = [prompt EXCEPT ![l] = NoPrompt]
        /\ saved' = saved
    BY <1>5 DEF Stop
  <2>2. late' = late \/ late' = [late EXCEPT ![l] = prompt[l]]
    BY <1>5 DEF Stop
  <2> QED
    BY <1>0, <2>1, <2>2 DEF SessionsOK, Prompted
<1>6. ASSUME NEW l \in Loops, LateSave(l)
      PROVE  SessionsOK'
  BY <1>0, <1>6 DEF LateSave, SessionsOK, Prompted
<1>7. CASE UNCHANGED vars
  BY <1>1, <1>7 DEF vars
<1> QED
  BY <1>2, <1>3, <1>4, <1>5, <1>6, <1>7, StartPrompt, BuiltPrompt, ResumedPrompt, HeadPrompt DEF Next

(* So do the history variables.                                            *)
HistoryOK ==
  /\ contended \subseteq Tenants \X Names
  /\ mixed \subseteq Tenants
  /\ behind \subseteq {l \in Loops : Prompted(l)}
  /\ unsaved \subseteq {l \in Loops : saved[l] # NoPrompt}

(* Every step keeps the types of the history variables.                    *)
LEMMA HistoryStep ==
  ASSUME TypeOK, [Next]_vars
  PROVE  HistoryOK'
<1> USE SkillAssumption
<1>0. HistoryOK /\ SessionsOK
  BY DEF TypeOK, HistoryOK, SessionsOK
<1>1. ASSUME NEW c \in Calls, NEW t \in Tenants, NEW name \in Names,
             ReadFile(c, t, name) \/ Unload(c, t, name)
      PROVE  HistoryOK'
  <2>1. /\ UNCHANGED <<lpc, saved, behind, unsaved>>
        /\ mixed' \in {mixed \cup {t}, mixed \ {t}}
        /\ contended' \in {contended, contended \ {<<t, name>>}}
    BY <1>1 DEF ReadFile, Unload, Begin, sessions
  <2> QED
    BY <1>0, <2>1 DEF HistoryOK, Prompted
<1>2. ASSUME NEW c \in Calls, RemoveOld(c)
      PROVE  HistoryOK'
  <2>1. calls[c].tenant \in Tenants /\ calls[c].name \in Names
    BY <1>2, CallAt DEF RemoveOld
  <2>2. PICK t \in Tenants, name \in Names : t = calls[c].tenant /\ name = calls[c].name
    BY <2>1
  <2>3. /\ UNCHANGED <<lpc, saved, mixed, behind, unsaved>>
        /\ contended' \in {contended \cup {<<t, name>>}, contended \ {<<t, name>>}}
    BY <1>2, <2>2 DEF RemoveOld, sessions
  <2> QED
    BY <1>0, <2>3 DEF HistoryOK, Prompted
<1>3. CASE UNCHANGED <<lpc, saved, history>>
  BY <1>0, <1>3 DEF history, HistoryOK, Prompted
<1>4. ASSUME NEW c \in Calls,
             Insert(c) \/ MergeActive(c) \/ MergeToolDefinitions(c) \/ SetPendingSwap(c)
      PROVE  HistoryOK'
  BY <1>3, <1>4 DEF Insert, MergeActive, MergeToolDefinitions, SetPendingSwap, sessions
<1>5. ASSUME NEW l \in Loops, StartSession(l) \/ BuildPrompt(l)
      PROVE  HistoryOK'
  <2>1. UNCHANGED <<saved, history>> /\ lpc[l] \in {"new", "starting"}
    BY <1>5 DEF StartSession, BuildPrompt
  <2>2. \A m \in Loops \ {l} : lpc'[m] = lpc[m]
    BY <1>0, <1>5 DEF StartSession, BuildPrompt, SessionsOK
  <2> QED
    BY <1>0, <2>1, <2>2 DEF history, HistoryOK, Prompted
<1>6. ASSUME NEW l \in Loops, ResumeSession(l)
      PROVE  HistoryOK'
  <2>1. lpc' = [lpc EXCEPT ![l] = "head"] /\ behind' = behind \cup (unsaved \cap {l})
        /\ UNCHANGED <<saved, contended, mixed, unsaved>>
    BY <1>6 DEF ResumeSession
  <2> QED
    BY <1>0, <2>1 DEF HistoryOK, SessionsOK, Prompted
<1>7. ASSUME NEW l \in Loops, TurnHead(l)
      PROVE  HistoryOK'
  <2>1. lpc' = [lpc EXCEPT ![l] = "thinking"] /\ lpc[l] = "head"
        /\ UNCHANGED <<saved, contended, mixed>>
    BY <1>7 DEF TurnHead
  <2>2. \A m \in Loops : Prompted(m)' <=> Prompted(m)
    BY <1>0, <2>1 DEF SessionsOK, Prompted
  <2>3. UNCHANGED <<behind, unsaved>> \/ Taken(l, TenantOf[l])
    BY <1>7 DEF TurnHead
  <2>4. /\ behind' \subseteq behind \cup {m \in Loops : Prompted(m)}
        /\ unsaved' \subseteq unsaved \cup {m \in Loops : saved[m] # NoPrompt}
    BY <2>3 DEF Taken, LoopsOf
  <2> QED
    BY <1>0, <2>1, <2>2, <2>4 DEF HistoryOK
<1>8. ASSUME NEW l \in Loops, TurnEnd(l)
      PROVE  HistoryOK'
  <2>1. lpc[l] = "thinking" /\ lpc' = [lpc EXCEPT ![l] = "head"]
        /\ UNCHANGED <<contended, mixed, behind>>
    BY <1>8 DEF TurnEnd
  <2>2. prompt[l] # NoPrompt /\ \A m \in Loops : Prompted(m)' <=> Prompted(m)
    BY <1>0, <2>1 DEF SessionsOK, Prompted
  <2>3. CASE UNCHANGED <<saved, unsaved>>
    BY <1>0, <2>1, <2>2, <2>3 DEF HistoryOK
  <2>4. CASE /\ saved[l] # NoPrompt
             /\ saved' = [saved EXCEPT ![l] = prompt[l]]
             /\ unsaved' = IF l \in behind THEN unsaved \cup {l} ELSE unsaved \ {l}
    BY <1>0, <2>1, <2>2, <2>4 DEF HistoryOK, SessionsOK
  <2> QED
    BY <1>8, <2>3, <2>4 DEF TurnEnd
<1>9. ASSUME NEW l \in Loops, Stop(l)
      PROVE  HistoryOK'
  <2>1. lpc' = [lpc EXCEPT ![l] = "new"] /\ behind' = behind \ {l}
        /\ UNCHANGED <<saved, contended, mixed, unsaved>>
    BY <1>9 DEF Stop
  <2> QED
    BY <1>0, <2>1 DEF HistoryOK, SessionsOK, Prompted
<1>10. ASSUME NEW l \in Loops, LateSave(l)
       PROVE  HistoryOK'
  <2>1. saved' = [saved EXCEPT ![l] = late[l]] /\ late[l] # NoPrompt
        /\ unsaved' = unsaved \cup {l} /\ UNCHANGED <<lpc, contended, mixed, behind>>
    BY <1>10 DEF LateSave
  <2> QED
    BY <1>0, <2>1 DEF HistoryOK, SessionsOK, Prompted
<1>11. CASE UNCHANGED vars
  BY <1>3, <1>11 DEF vars, sessions
<1> QED
  BY <1>1, <1>2, <1>4, <1>5, <1>6, <1>7, <1>8, <1>9, <1>10, <1>11 DEF Next, Proceed

(* Every variable keeps its type.                                          *)
LEMMA TypeStep ==
  ASSUME TypeOK, [Next]_vars
  PROVE  TypeOK'
<1>1. RegistryOK' /\ SessionsOK' /\ HistoryOK'
  BY RegistryStep, SessionsStep, HistoryStep
<1> QED
  BY <1>1 DEF TypeOK, RegistryOK, SessionsOK, HistoryOK

(* The first state has the model's types.                                  *)
LEMMA TypeInit == Init => TypeOK
<1>1. <<>> \in Seq(Skill)
  OBVIOUS
<1> QED
  BY <1>1, SkillAssumption DEF Init, TypeOK, Prompted

(* Every reachable state has the model's types.                            *)
THEOREM TypeInvariant == Spec => []TypeOK
  BY TypeInit, TypeStep, PTL DEF Spec

--------------------------------------------------------------------------------
(* One skill of a name.                                                    *)

Inserts(c, t, name) == At(c, "insert") /\ calls[c].tenant = t /\ calls[c].name = name

(* But for loads of it that meet between remove and insert, a skill is     *)
(* there once, one load at most is about to insert it, and until it does   *)
(* there is none.                                                          *)
UniqueAt(t, name) ==
  <<t, name>> \notin contended =>
    /\ OnceOnly(active[t], name)
    /\ \A c, d \in Calls : Inserts(c, t, name) /\ Inserts(d, t, name) => c = d
    /\ \A c \in Calls : Inserts(c, t, name) => LacksName(active[t], name)

UniqueInv == \A t \in Tenants, name \in Names : UniqueAt(t, name)

(* A step of nobody who inserts the skill.                                 *)
LEMMA UniqueKeeps ==
  ASSUME NEW t \in Tenants, NEW name \in Names, UniqueAt(t, name),
         <<t, name>> \in contended' <=> <<t, name>> \in contended,
         OnceOnly(active[t], name) => OnceOnly(active[t]', name),
         LacksName(active[t], name) => LacksName(active[t]', name),
         \A d \in Calls : Inserts(d, t, name)' => Inserts(d, t, name)
  PROVE  UniqueAt(t, name)'
<1>1. SUFFICES ASSUME <<t, name>> \notin contended'
               PROVE  /\ OnceOnly(active[t]', name)
                      /\ \A c, d \in Calls : Inserts(c, t, name)' /\ Inserts(d, t, name)' => c = d
                      /\ \A c \in Calls : Inserts(c, t, name)' => LacksName(active[t]', name)
  BY DEF UniqueAt
<1> QED
  BY <1>1 DEF UniqueAt

(* A push of another skill, or of the only one of its name.                *)
LEMMA PushNames ==
  ASSUME NEW skills \in Seq(Skill), NEW skill \in Skill, NEW name
  PROVE  /\ LacksName(skills, name) => OnceOnly(Append(skills, skill), name)
         /\ skill.name # name /\ OnceOnly(skills, name) => OnceOnly(Append(skills, skill), name)
         /\ skill.name # name /\ LacksName(skills, name) => LacksName(Append(skills, skill), name)
<1>1. PICK longer : longer = Append(skills, skill)
  OBVIOUS
<1>2. PICK m \in Nat : m = Len(skills)
  OBVIOUS
<1>3. Len(longer) = m + 1 /\ longer[m + 1] = skill /\ \A k \in 1..m : longer[k] = skills[k]
  BY <1>1, <1>2, SkillsGrow
<1>4. \A k \in 1..m + 1 : k \in 1..m \/ k = m + 1
  OBVIOUS
<1>5. LacksName(skills, name) => OnceOnly(longer, name)
  BY <1>2, <1>3, <1>4 DEF LacksName, OnceOnly
<1>6. skill.name # name /\ OnceOnly(skills, name) => OnceOnly(longer, name)
  BY <1>2, <1>3, <1>4 DEF OnceOnly
<1>7. skill.name # name /\ LacksName(skills, name) => LacksName(longer, name)
  BY <1>2, <1>3, <1>4 DEF LacksName
<1> QED
  BY <1>1, <1>5, <1>6, <1>7

(* Every step keeps a skill there once, unless its loads met.              *)
LEMMA UniqueStep ==
  ASSUME TypeOK, UniqueInv, [Next]_vars
  PROVE  UniqueInv'
<1> SUFFICES ASSUME NEW t \in Tenants, NEW name \in Names
             PROVE  UniqueAt(t, name)'
  BY DEF UniqueInv
<1>0. UniqueAt(t, name) /\ active[t] \in Seq(Skill)
  BY DEF UniqueInv, TypeOK
<1>1. ASSUME NEW c \in Calls, NEW s \in Tenants, NEW other \in Names, ReadFile(c, s, other)
      PROVE  UniqueAt(t, name)'
  <2>1. PICK lookup \in BOOLEAN, tools \in SUBSET Tools : Begin(c, s, other, lookup, tools, "remove")
    BY <1>1 DEF ReadFile
  <2>2. calls'[c].step = "remove" /\ \A d \in Calls \ {c} : calls'[d] = calls[d]
    BY <2>1, BeginIs
  <2>3. \A d \in Calls : Inserts(d, t, name)' => Inserts(d, t, name)
    BY <2>2 DEF Inserts, At, UnderWay
  <2>4. active' = active /\ contended' = contended
    BY <1>1 DEF ReadFile
  <2> QED
    BY <1>0, <2>3, <2>4, UniqueKeeps
<1>2. ASSUME NEW c \in Calls, NEW s \in Tenants, NEW other \in Names, Unload(c, s, other)
      PROVE  UniqueAt(t, name)'
  <2>1. Begin(c, s, other, FALSE, {}, "merge")
    BY <1>2 DEF Unload
  <2>2. /\ calls'[c].step = "merge" /\ ~UnderWay(c)
        /\ \A d \in Calls \ {c} : calls'[d] = calls[d]
    BY <2>1, BeginIs
  <2>3. \A d \in Calls : Inserts(d, t, name)' => Inserts(d, t, name) /\ d # c
    BY <2>2 DEF Inserts, At, UnderWay
  <2>4. active' = [active EXCEPT ![s] = Without(s, other)]
    BY <1>2 DEF Unload
  <2>5. contended' = IF Inserting(c, s, other) THEN contended ELSE contended \ {<<s, other>>}
    BY <1>2 DEF Unload
  <2>6. CASE t = s /\ name = other
    <3>1. active[t]' = Retain(active[t], name)
      BY <2>4, <2>6 DEF TypeOK, Without
    <3>2. LacksName(active[t]', name)
      BY <1>0, <3>1, RetainIs
    <3>3. OnceOnly(active[t]', name)
      BY <3>2 DEF LacksName, OnceOnly
    <3>4. CASE Inserting(c, t, name)
      <4>1. contended' = contended
        BY <2>5, <2>6, <3>4
      <4> QED
        BY <1>0, <2>3, <3>2, <3>3, <4>1, UniqueKeeps
    <3>5. CASE ~Inserting(c, t, name)
      <4>1. \A d \in Calls : ~Inserts(d, t, name)'
        BY <2>3, <3>5 DEF Inserting, Inserts
      <4> QED
        BY <3>3, <4>1 DEF UniqueAt
    <3> QED
      BY <3>4, <3>5
  <2>7. CASE t # s
    <3>1. active[t]' = active[t]
      BY <2>4, <2>7 DEF TypeOK
    <3>2. <<t, name>> \in contended' <=> <<t, name>> \in contended
      BY <2>5, <2>7
    <3> QED
      BY <1>0, <2>3, <3>1, <3>2, UniqueKeeps
  <2>8. CASE t = s /\ name # other
    <3>1. active[t]' = Retain(active[t], other)
      BY <2>4, <2>8 DEF TypeOK, Without
    <3>2. /\ OnceOnly(active[t], name) => OnceOnly(active[t]', name)
          /\ LacksName(active[t], name) => LacksName(active[t]', name)
      BY <1>0, <3>1, RetainIs
    <3>3. <<t, name>> \in contended' <=> <<t, name>> \in contended
      BY <2>5, <2>8
    <3> QED
      BY <1>0, <2>3, <3>2, <3>3, UniqueKeeps
  <2> QED
    BY <2>6, <2>7, <2>8
<1>3. ASSUME NEW c \in Calls, RemoveOld(c)
      PROVE  UniqueAt(t, name)'
  <2>1. calls[c].tenant \in Tenants /\ calls[c].name \in Names
    BY <1>3, CallAt DEF RemoveOld
  <2>2. PICK s \in Tenants, other \in Names : s = calls[c].tenant /\ other = calls[c].name
    BY <2>1
  <2>3. /\ calls'[c].tenant = s /\ calls'[c].name = other
        /\ \A d \in Calls \ {c} : calls'[d] = calls[d]
    BY <1>3, <2>2, RemoveOldGoes DEF Goes
  <2>4. \A d \in Calls \ {c} : Inserts(d, t, name)' => Inserts(d, t, name)
    BY <2>3 DEF Inserts, At, UnderWay
  <2>5. active' = [active EXCEPT ![s] = Without(s, other)]
    BY <1>3, <2>2 DEF RemoveOld
  <2>6. contended' = IF Inserting(c, s, other) THEN contended \cup {<<s, other>>}
                     ELSE contended \ {<<s, other>>}
    BY <1>3, <2>2 DEF RemoveOld
  <2>7. CASE t = s /\ name = other
    <3>1. active[t]' = Retain(active[t], name)
      BY <2>5, <2>7 DEF TypeOK, Without
    <3>2. LacksName(active[t]', name)
      BY <1>0, <3>1, RetainIs
    <3>3. OnceOnly(active[t]', name)
      BY <3>2 DEF LacksName, OnceOnly
    <3>4. CASE Inserting(c, t, name)
      BY <2>6, <2>7, <3>4 DEF UniqueAt
    <3>5. CASE ~Inserting(c, t, name)
      <4>1. \A d \in Calls : Inserts(d, t, name)' => d = c
        BY <2>4, <3>5 DEF Inserting, Inserts
      <4> QED
        BY <3>2, <3>3, <4>1 DEF UniqueAt
    <3> QED
      BY <3>4, <3>5
  <2>8. CASE t # s
    <3>1. active[t]' = active[t]
      BY <2>5, <2>8 DEF TypeOK
    <3>2. <<t, name>> \in contended' <=> <<t, name>> \in contended
      BY <2>6, <2>8
    <3>3. ~Inserts(c, t, name)'
      BY <2>3, <2>8 DEF Inserts
    <3> QED
      BY <1>0, <2>4, <3>1, <3>2, <3>3, UniqueKeeps
  <2>9. CASE t = s /\ name # other
    <3>1. active[t]' = Retain(active[t], other)
      BY <2>5, <2>9 DEF TypeOK, Without
    <3>2. /\ OnceOnly(active[t], name) => OnceOnly(active[t]', name)
          /\ LacksName(active[t], name) => LacksName(active[t]', name)
      BY <1>0, <3>1, RetainIs
    <3>3. <<t, name>> \in contended' <=> <<t, name>> \in contended
      BY <2>6, <2>9
    <3>4. ~Inserts(c, t, name)'
      BY <2>3, <2>9 DEF Inserts
    <3> QED
      BY <1>0, <2>4, <3>2, <3>3, <3>4, UniqueKeeps
  <2> QED
    BY <2>7, <2>8, <2>9
<1>4. ASSUME NEW c \in Calls, Insert(c)
      PROVE  UniqueAt(t, name)'
  <2>1. /\ At(c, "insert") /\ calls[c].tenant \in Tenants /\ calls[c].name \in Names
        /\ calls[c].tools \in SUBSET Tools
    BY <1>4, CallAt DEF Insert
  <2>2. PICK s \in Tenants, skill \in Skill :
          s = calls[c].tenant /\ skill = [name |-> calls[c].name, tools |-> calls[c].tools]
    BY <2>1 DEF Skill
  <2>3. calls'[c].step = "merge" /\ \A d \in Calls \ {c} : calls'[d] = calls[d]
    BY <1>4, InsertGoes DEF Goes
  <2>4. \A d \in Calls : Inserts(d, t, name)' => Inserts(d, t, name) /\ d # c
    BY <2>3 DEF Inserts, At, UnderWay
  <2>5. active' = [active EXCEPT ![s] = Append(active[s], skill)] /\ contended' = contended
    BY <1>4, <2>2 DEF Insert, history
  <2>6. CASE t # s
    <3>1. active[t]' = active[t]
      BY <2>5, <2>6 DEF TypeOK
    <3> QED
      BY <1>0, <2>4, <2>5, <3>1, UniqueKeeps
  <2>7. CASE t = s /\ name # skill.name
    <3>1. active[t]' = Append(active[t], skill)
      BY <2>5, <2>7 DEF TypeOK
    <3>2. /\ OnceOnly(active[t], name) => OnceOnly(active[t]', name)
          /\ LacksName(active[t], name) => LacksName(active[t]', name)
      BY <1>0, <2>7, <3>1, PushNames
    <3> QED
      BY <1>0, <2>4, <2>5, <3>2, UniqueKeeps
  <2>8. CASE t = s /\ name = skill.name
    <3>1. Inserts(c, t, name)
      BY <2>1, <2>2, <2>8 DEF Inserts
    <3>2. SUFFICES ASSUME <<t, name>> \notin contended
                   PROVE  UniqueAt(t, name)'
      BY <2>5 DEF UniqueAt
    <3>3. LacksName(active[t], name) /\ \A d \in Calls : Inserts(d, t, name) => d = c
      BY <1>0, <3>1, <3>2 DEF UniqueAt
    <3>4. active[t]' = Append(active[t], skill)
      BY <2>5, <2>8 DEF TypeOK
    <3>5. OnceOnly(active[t]', name)
      BY <1>0, <3>3, <3>4, PushNames
    <3>6. \A d \in Calls : ~Inserts(d, t, name)'
      BY <2>4, <3>3
    <3> QED
      BY <3>5, <3>6 DEF UniqueAt
  <2> QED
    BY <2>6, <2>7, <2>8
<1>5. ASSUME NEW c \in Calls, MergeActive(c) \/ MergeToolDefinitions(c) \/ SetPendingSwap(c)
      PROVE  UniqueAt(t, name)'
  <2>1. \A d \in Calls \ {c} : calls'[d] = calls[d]
    BY <1>5, MergeActiveGoes, MergeToolDefinitionsGoes, SetPendingSwapEnds DEF Goes
  <2>2. UnderWay(c)' => calls'[c].step \in {"define", "set"}
    BY <1>5, MergeActiveGoes, MergeToolDefinitionsGoes, SetPendingSwapEnds DEF Goes
  <2>3. \A d \in Calls : Inserts(d, t, name)' => Inserts(d, t, name)
    BY <2>1, <2>2 DEF Inserts, At, UnderWay
  <2>4. active' = active /\ contended' = contended
    BY <1>5 DEF MergeActive, MergeToolDefinitions, SetPendingSwap, history
  <2> QED
    BY <1>0, <2>3, <2>4, UniqueKeeps
<1>6. CASE UNCHANGED <<active, calls, contended>>
  <2>1. \A d \in Calls : Inserts(d, t, name)' => Inserts(d, t, name)
    BY <1>6 DEF Inserts, At, UnderWay
  <2> QED
    BY <1>0, <1>6, <2>1, UniqueKeeps
<1>7. ASSUME NEW l \in Loops, SessionSteps(l)
      PROVE  UNCHANGED <<active, calls, contended>>
  BY <1>7 DEF SessionSteps, StartSession, BuildPrompt, TurnHead, TurnEnd, Stop, ResumeSession,
              LateSave, registry, history
<1>8. CASE UNCHANGED vars
  BY <1>6, <1>8 DEF vars, registry, history
<1> QED
  BY <1>1, <1>2, <1>3, <1>4, <1>5, <1>6, <1>7, <1>8 DEF Next, Proceed, SessionSteps

(* Nothing is loaded at first.                                             *)
LEMMA UniqueInit == Init => UniqueInv
  BY DEF Init, UniqueInv, UniqueAt, Inserts, At, UnderWay, OnceOnly, LacksName

(* A tenant has a skill once, although load removes the old version and    *)
(* inserts the new one in two steps that nothing keeps apart: twice only   *)
(* from the time two loads of it are between those steps until it is next  *)
(* removed with no load in between.                                        *)
THEOREM SkillNamesUniqueHolds == Spec => []SkillNamesUnique
<1>1. Init => TypeOK /\ UniqueInv
  BY TypeInit, UniqueInit
<1>2. TypeOK /\ UniqueInv /\ [Next]_vars => TypeOK' /\ UniqueInv'
  BY TypeStep, UniqueStep
<1>3. ASSUME TypeOK, UniqueInv PROVE SkillNamesUnique
  <2>1. SUFFICES ASSUME NEW t \in Tenants, NEW j \in 1..Len(active[t]), NEW k \in 1..Len(active[t]),
                        active[t][j].name = active[t][k].name,
                        <<t, active[t][j].name>> \notin contended
                 PROVE  j = k
    BY DEF SkillNamesUnique
  <2>2. active[t] \in Seq(Skill)
    BY <1>3 DEF TypeOK
  <2>3. active[t][j] \in Skill
    BY <2>2
  <2>4. PICK name \in Names : name = active[t][j].name
    BY <2>3 DEF Skill
  <2>5. OnceOnly(active[t], name)
    BY <1>3, <2>1, <2>4 DEF UniqueInv, UniqueAt
  <2> QED
    BY <2>1, <2>4, <2>5 DEF OnceOnly
<1> QED
  BY <1>1, <1>2, <1>3, PTL DEF Spec

--------------------------------------------------------------------------------
(* Changes are seen at the next turn.                                      *)

Of(c, t) == UnderWay(c) /\ calls[c].tenant = t

(* While a tenant's changes do not overlap, a call that has built its      *)
(* block goes on to set it while it is still what is loaded, and between   *)
(* the calls the pending swap is what is loaded.                           *)
ChangesInv(t) ==
  t \notin mixed =>
    /\ \A c, d \in Calls : Of(c, t) /\ Of(d, t) => c = d
    /\ \A c \in Calls : Of(c, t) /\ calls[c].step \in {"define", "set"} => calls[c].block = active[t]
    /\ Idle(t) /\ pending[t] # NoSwap => pending[t].block = active[t]

(* Between the calls, without a pending swap, a prompt that is not behind  *)
(* is what is loaded, and so is a row's that is not.                       *)
Shown(l, t) ==
  /\ Prompted(l) /\ l \notin behind => prompt[l].skills = active[t]
  /\ saved[l] # NoPrompt /\ l \notin unsaved => saved[l].skills = active[t]

ShownInv(t) == Idle(t) /\ pending[t] = NoSwap => \A l \in LoopsOf(t) : Shown(l, t)

(* What a step of a call does: nothing to the sessions, nothing to other   *)
(* tenants, and it ends with a swap.                                       *)
CallStep(c, s) ==
  /\ \A d \in Calls \ {c} : calls'[d] = calls[d]
  /\ UnderWay(c) => calls[c].tenant = s
  /\ UnderWay(c)' => calls'[c].tenant = s
  /\ ~UnderWay(c)' => pending'[s] # NoSwap
  /\ \A u \in Tenants \ {s} :
       active'[u] = active[u] /\ pending'[u] = pending[u] /\ (u \in mixed' <=> u \in mixed)
  /\ UNCHANGED <<lpc, prompt, saved, behind, unsaved>>

(* A call that begins touches its own tenant only, and is alone there or   *)
(* has the tenant mixed.                                                   *)
LEMMA BeginSteps ==
  ASSUME TypeOK, NEW c \in Calls, NEW s \in Tenants, NEW name \in Names,
         ReadFile(c, s, name) \/ Unload(c, s, name)
  PROVE  /\ CallStep(c, s) /\ Of(c, s)'
         /\ calls'[c].step \in {"remove", "merge"}
         /\ s \notin mixed' => Idle(s)
<1>1. PICK lookup \in BOOLEAN, tools \in SUBSET Tools, step \in {"remove", "merge"} :
        Begin(c, s, name, lookup, tools, step)
  BY DEF ReadFile, Unload
<1>2. /\ ~UnderWay(c) /\ UnderWay(c)'
      /\ calls'[c].tenant = s /\ calls'[c].step = step
      /\ \A d \in Calls \ {c} : calls'[d] = calls[d]
  BY <1>1, BeginIs
<1>3. mixed' = IF Idle(s) THEN mixed \ {s} ELSE mixed \cup {s}
  BY <1>1 DEF Begin
<1>4. pending' = pending /\ UNCHANGED <<lpc, prompt, saved, behind, unsaved>>
  BY DEF ReadFile, Unload, sessions
<1>5. \A u \in Tenants \ {s} : active'[u] = active[u]
  BY DEF ReadFile, Unload, TypeOK
<1> QED
  BY <1>2, <1>3, <1>4, <1>5 DEF CallStep, Of

(* So does one that goes on; and it does not change who overlaps.          *)
LEMMA ProceedSteps ==
  ASSUME TypeOK, NEW c \in Calls, Proceed(c)
  PROVE  \E s \in Tenants : CallStep(c, s) /\ Of(c, s) /\ mixed' = mixed
<1>1. CASE RemoveOld(c) \/ Insert(c) \/ MergeActive(c) \/ MergeToolDefinitions(c)
  <2>1. UnderWay(c) /\ calls[c].tenant \in Tenants
    BY <1>1, CallAt DEF RemoveOld, Insert, MergeActive, MergeToolDefinitions
  <2>2. PICK s \in Tenants : s = calls[c].tenant
    BY <2>1
  <2>3. /\ UnderWay(c)' /\ calls'[c].tenant = s
        /\ \A d \in Calls \ {c} : calls'[d] = calls[d]
    BY <1>1, <2>2, RemoveOldGoes, InsertGoes, MergeActiveGoes, MergeToolDefinitionsGoes DEF Goes
  <2>4. pending' = pending /\ mixed' = mixed /\ UNCHANGED <<lpc, prompt, saved, behind, unsaved>>
    BY <1>1 DEF RemoveOld, Insert, MergeActive, MergeToolDefinitions, sessions, history
  <2>5. \A u \in Tenants \ {s} : active'[u] = active[u]
    BY <1>1, <2>2 DEF RemoveOld, Insert, MergeActive, MergeToolDefinitions, TypeOK
  <2> QED
    BY <2>1, <2>2, <2>3, <2>4, <2>5 DEF CallStep, Of
<1>2. CASE SetPendingSwap(c)
  <2>1. UnderWay(c) /\ calls[c].tenant \in Tenants
    BY <1>2, SetPendingSwapEnds
  <2>2. PICK s \in Tenants : s = calls[c].tenant
    BY <2>1
  <2>3. /\ ~UnderWay(c)' /\ pending'[s] # NoSwap
        /\ \A d \in Calls \ {c} : calls'[d] = calls[d]
        /\ \A u \in Tenants \ {s} : pending'[u] = pending[u]
    BY <1>2, <2>2, SetPendingSwapEnds
  <2>4. active' = active /\ mixed' = mixed /\ UNCHANGED <<lpc, prompt, saved, behind, unsaved>>
    BY <1>2 DEF SetPendingSwap, sessions, history
  <2> QED
    BY <2>1, <2>2, <2>3, <2>4 DEF CallStep, Of
<1> QED
  BY <1>1, <1>2 DEF Proceed

(* The other tenants see nothing of a call.                                *)
LEMMA OthersCalls ==
  ASSUME NEW c \in Calls, NEW s \in Tenants, CallStep(c, s), NEW t \in Tenants \ {s}
  PROVE  /\ Idle(t)' <=> Idle(t)
         /\ \A d \in Calls : Of(d, t)' => Of(d, t) /\ calls'[d] = calls[d]
<1>1. \A d \in Calls : Of(d, t)' <=> Of(d, t)
  BY DEF CallStep, Of, UnderWay
<1>2. (Idle(t) <=> \A d \in Calls : ~Of(d, t)) /\ (Idle(t)' <=> \A d \in Calls : ~Of(d, t)')
  BY DEF Idle, Of
<1>3. ASSUME NEW d \in Calls, Of(d, t)' PROVE calls'[d] = calls[d]
  BY <1>3 DEF CallStep, Of
<1> QED
  BY <1>1, <1>2, <1>3

(* The calls of one tenant change nothing for another.                     *)
LEMMA ChangesApart ==
  ASSUME NEW c \in Calls, NEW s \in Tenants, CallStep(c, s), NEW t \in Tenants \ {s}, ChangesInv(t)
  PROVE  ChangesInv(t)'
<1>1. /\ Idle(t)' <=> Idle(t)
      /\ \A d \in Calls : Of(d, t)' => Of(d, t) /\ calls'[d] = calls[d]
  BY OthersCalls
<1>2. active'[t] = active[t] /\ pending'[t] = pending[t] /\ (t \in mixed' <=> t \in mixed)
  BY DEF CallStep
<1>3. SUFFICES ASSUME t \notin mixed'
               PROVE  /\ \A d, e \in Calls : Of(d, t)' /\ Of(e, t)' => d = e
                      /\ \A d \in Calls : Of(d, t)' /\ calls'[d].step \in {"define", "set"} =>
                                            calls'[d].block = active'[t]
                      /\ Idle(t)' /\ pending'[t] # NoSwap => pending'[t].block = active'[t]
  BY DEF ChangesInv
<1>4. /\ \A d, e \in Calls : Of(d, t) /\ Of(e, t) => d = e
      /\ \A d \in Calls : Of(d, t) /\ calls[d].step \in {"define", "set"} => calls[d].block = active[t]
      /\ Idle(t) /\ pending[t] # NoSwap => pending[t].block = active[t]
  BY <1>2, <1>3 DEF ChangesInv
<1> QED
  BY <1>1, <1>2, <1>4

(* The tenant's only call goes on.                                         *)
LEMMA ChangesAlone ==
  ASSUME NEW c \in Calls, NEW t \in Tenants, CallStep(c, t),
         \A d \in Calls \ {c} : ~Of(d, t),
         Of(c, t)' /\ calls'[c].step \in {"define", "set"} => calls'[c].block = active'[t],
         ~Of(c, t)' => pending'[t].block = active'[t]
  PROVE  ChangesInv(t)'
<1>1. \A d \in Calls \ {c} : ~Of(d, t)'
  BY DEF CallStep, Of, UnderWay
<1>2. Idle(t)' => ~Of(c, t)'
  BY DEF Idle, Of
<1> QED
  BY <1>1, <1>2 DEF ChangesInv

(* Every step keeps a tenant's calls, while they do not overlap, true to   *)
(* what is loaded.                                                         *)
LEMMA ChangesStep ==
  ASSUME TypeOK, NEW t \in Tenants, ChangesInv(t), [Next]_vars
  PROVE  ChangesInv(t)'
<1>1. ASSUME NEW c \in Calls, NEW s \in Tenants, NEW name \in Names,
             ReadFile(c, s, name) \/ Unload(c, s, name)
      PROVE  ChangesInv(t)'
  <2>1. /\ CallStep(c, s) /\ Of(c, s)' /\ calls'[c].step \in {"remove", "merge"}
        /\ s \notin mixed' => Idle(s)
    BY <1>1, BeginSteps
  <2>2. CASE s # t
    BY <2>1, <2>2, ChangesApart
  <2>3. CASE s = t
    <3>1. SUFFICES ASSUME t \notin mixed' PROVE ChangesInv(t)'
      BY DEF ChangesInv
    <3>2. \A d \in Calls \ {c} : ~Of(d, t)
      BY <2>1, <2>3, <3>1 DEF Idle, Of
    <3> QED
      BY <2>1, <2>3, <3>2, ChangesAlone
  <2> QED
    BY <2>2, <2>3
<1>2. ASSUME NEW c \in Calls, Proceed(c)
      PROVE  ChangesInv(t)'
  <2>1. PICK s \in Tenants : CallStep(c, s) /\ Of(c, s) /\ mixed' = mixed
    BY <1>2, ProceedSteps
  <2>2. CASE s # t
    BY <2>1, <2>2, ChangesApart
  <2>3. CASE s = t
    <3>1. SUFFICES ASSUME t \notin mixed PROVE ChangesInv(t)'
      BY <2>1 DEF ChangesInv
    <3>2. \A d \in Calls \ {c} : ~Of(d, t)
      BY <2>1, <2>3, <3>1 DEF ChangesInv
    <3>3. calls[c].tenant = t /\ calls[c].step \in {"define", "set"} => calls[c].block = active[t]
      BY <2>1, <2>3, <3>1 DEF ChangesInv, Of
    <3>4. calls[c].tenant = t
      BY <2>1, <2>3 DEF Of
    <3>5. CASE RemoveOld(c) \/ Insert(c)
      <4>1. UnderWay(c)' /\ calls'[c].tenant = t /\ calls'[c].step \in {"insert", "merge"}
        BY <3>4, <3>5, RemoveOldGoes, InsertGoes DEF Goes
      <4> QED
        BY <2>1, <2>3, <3>2, <4>1, ChangesAlone DEF Of
    <3>6. CASE MergeActive(c)
      <4>1. UnderWay(c)' /\ calls'[c].tenant = t /\ calls'[c].block = active[t]
        BY <3>4, <3>6, MergeActiveGoes DEF Goes
      <4>2. active' = active
        BY <3>6 DEF MergeActive
      <4> QED
        BY <2>1, <2>3, <3>2, <4>1, <4>2, ChangesAlone DEF Of
    <3>7. CASE MergeToolDefinitions(c)
      <4>1. UnderWay(c)' /\ calls'[c].tenant = t /\ calls'[c].block = calls[c].block
        BY <3>4, <3>7, MergeToolDefinitionsGoes DEF Goes
      <4>2. active' = active /\ calls[c].step = "define"
        BY <3>7 DEF MergeToolDefinitions, At
      <4>3. calls'[c].block = active'[t]
        BY <3>3, <3>4, <4>1, <4>2
      <4> QED
        BY <2>1, <2>3, <3>2, <4>1, <4>3, ChangesAlone DEF Of
    <3>8. CASE SetPendingSwap(c)
      <4>1. ~UnderWay(c)' /\ pending'[t].block = calls[c].block /\ calls[c].step = "set"
        BY <3>4, <3>8, SetPendingSwapEnds
      <4>2. active' = active
        BY <3>8 DEF SetPendingSwap
      <4>3. pending'[t].block = active'[t]
        BY <3>3, <3>4, <4>1, <4>2
      <4> QED
        BY <2>1, <2>3, <3>2, <4>1, <4>3, ChangesAlone DEF Of
    <3> QED
      BY <1>2, <3>5, <3>6, <3>7, <3>8 DEF Proceed
  <2> QED
    BY <2>2, <2>3
<1>3. CASE UNCHANGED <<active, calls, mixed>> /\ pending'[t] \in {pending[t], NoSwap}
  <2>1. (Idle(t)' <=> Idle(t)) /\ \A c \in Calls : Of(c, t)' <=> Of(c, t)
    BY <1>3 DEF Idle, Of, UnderWay
  <2> QED
    BY <1>3, <2>1 DEF ChangesInv
<1>4. ASSUME NEW l \in Loops, SessionSteps(l)
      PROVE  UNCHANGED <<active, calls, mixed>> /\ pending'[t] \in {pending[t], NoSwap}
  <2>1. CASE TurnHead(l)
    BY <2>1 DEF TurnHead, TypeOK
  <2>2. CASE ~TurnHead(l)
    BY <1>4, <2>2 DEF SessionSteps, StartSession, BuildPrompt, TurnEnd, Stop, ResumeSession,
                      LateSave, registry, history
  <2> QED
    BY <2>1, <2>2
<1>5. CASE UNCHANGED vars
  BY <1>3, <1>5 DEF vars, registry, history
<1> QED
  BY <1>1, <1>2, <1>3, <1>4, <1>5 DEF Next, SessionSteps

(* What the head of a turn shows: what is loaded, but for a loop that is   *)
(* behind afterwards.                                                      *)
LEMMA HeadShows ==
  ASSUME TypeOK, NEW l \in Loops, NEW t \in Tenants, t = TenantOf[l],
         ChangesInv(t), ShownInv(t), TurnHead(l), Idle(t), l \notin behind'
  PROVE  prompt'[l].skills = active[t]
<1>1. CASE pending[t] = NoSwap
  <2>1. prompt'[l] = prompt[l]
    BY <1>1, HeadPrompt
  <2>2. behind' = behind /\ Prompted(l)
    BY <1>1 DEF TurnHead, Prompted
  <2> QED
    BY <1>1, <2>1, <2>2 DEF ShownInv, Shown, LoopsOf
<1>2. CASE pending[t] # NoSwap
  <2>1. prompt'[l].skills = pending[t].block
    BY <1>2, HeadPrompt
  <2>2. Taken(l, t) /\ lpc[l] = "head"
    BY <1>2 DEF TurnHead
  <2>3. t \notin mixed
    BY <2>2 DEF Taken, LoopsOf, Prompted
  <2> QED
    BY <1>2, <2>1, <2>3 DEF ChangesInv
<1> QED
  BY <1>1, <1>2

(* A step of one session, which may take the swap.                         *)
LEMMA ShownKeeps ==
  ASSUME TypeOK, NEW l \in Loops, NEW t \in Tenants, ShownInv(t), UNCHANGED <<active, calls>>,
         pending'[t] = pending[t],
         \A m \in LoopsOf(t) \ {l} : Shown(m, t) => Shown(m, t)',
         l \in LoopsOf(t) /\ Idle(t) /\ pending[t] = NoSwap /\ Shown(l, t) => Shown(l, t)'
  PROVE  ShownInv(t)'
<1>1. Idle(t)' <=> Idle(t)
  BY DEF Idle, UnderWay
<1>2. LoopsOf(t)' = LoopsOf(t)
  BY DEF LoopsOf
<1>3. SUFFICES ASSUME Idle(t), pending[t] = NoSwap, NEW m \in LoopsOf(t)
               PROVE  Shown(m, t)'
  BY <1>1, <1>2 DEF ShownInv
<1>4. Shown(m, t)
  BY <1>3 DEF ShownInv
<1> QED
  BY <1>3, <1>4

(* Every step keeps the prompts and rows that are not behind true to what  *)
(* is loaded.                                                              *)
LEMMA ShownStep ==
  ASSUME TypeOK, NEW t \in Tenants, ChangesInv(t), ShownInv(t), [Next]_vars
  PROVE  ShownInv(t)'
<1> USE SkillAssumption
<1>1. ASSUME NEW c \in Calls, NEW s \in Tenants, CallStep(c, s)
      PROVE  ShownInv(t)'
  <2>1. CASE s = t
    <3>1. ~(Idle(t)' /\ pending'[t] = NoSwap)
      BY <1>1, <2>1 DEF CallStep, Idle
    <3> QED
      BY <3>1 DEF ShownInv
  <2>2. CASE s # t
    <3>1. Idle(t)' <=> Idle(t)
      BY <1>1, <2>2, OthersCalls
    <3>2. /\ active'[t] = active[t] /\ pending'[t] = pending[t]
          /\ UNCHANGED <<lpc, prompt, saved, behind, unsaved>>
      BY <1>1, <2>2 DEF CallStep
    <3> QED
      BY <3>1, <3>2 DEF ShownInv, Shown, LoopsOf, Prompted
  <2> QED
    BY <2>1, <2>2
<1>2. ASSUME NEW l \in Loops, StartSession(l) \/ BuildPrompt(l)
      PROVE  ShownInv(t)'
  <2>1. UNCHANGED <<registry, saved, behind, unsaved>>
    BY <1>2 DEF StartSession, BuildPrompt, history
  <2>2. \A m \in Loops \ {l} : lpc'[m] = lpc[m] /\ prompt'[m] = prompt[m]
    BY <1>2 DEF StartSession, BuildPrompt, TypeOK
  <2>3. Prompted(l)' => prompt'[l].skills = active[TenantOf[l]]
    BY <1>2, StartPrompt, BuiltPrompt
  <2>4. ASSUME NEW m \in LoopsOf(t), Shown(m, t) PROVE Shown(m, t)'
    BY <2>1, <2>2, <2>3, <2>4 DEF Shown, Prompted, LoopsOf, registry
  <2> QED
    BY <2>1, <2>4, ShownKeeps DEF registry
<1>3. ASSUME NEW l \in Loops, ResumeSession(l)
      PROVE  ShownInv(t)'
  <2>1. UNCHANGED <<registry, saved, unsaved>> /\ behind' = behind \cup (unsaved \cap {l})
    BY <1>3 DEF ResumeSession
  <2>2. \A m \in Loops \ {l} : lpc'[m] = lpc[m] /\ prompt'[m] = prompt[m]
    BY <1>3 DEF ResumeSession, TypeOK
  <2>3. prompt'[l] = saved[l] /\ saved[l] # NoPrompt
    BY <1>3, ResumedPrompt DEF ResumeSession
  <2>4. ASSUME NEW m \in LoopsOf(t), Shown(m, t) PROVE Shown(m, t)'
    <3>1. CASE m = l
      BY <2>1, <2>3, <2>4, <3>1 DEF Shown, registry
    <3>2. CASE m # l
      BY <2>1, <2>2, <2>4, <3>2 DEF Shown, Prompted, LoopsOf, registry
    <3> QED
      BY <3>1, <3>2
  <2> QED
    BY <2>1, <2>4, ShownKeeps DEF registry
<1>4. ASSUME NEW l \in Loops, TurnHead(l)
      PROVE  ShownInv(t)'
  <2>1. /\ UNCHANGED <<active, calls, saved>> /\ lpc[l] = "head" /\ lpc'[l] = "thinking"
        /\ \A m \in Loops \ {l} : lpc'[m] = lpc[m] /\ prompt'[m] = prompt[m]
    BY <1>4 DEF TurnHead, TypeOK
  <2>2. \A m \in Loops : Prompted(m)' <=> Prompted(m)
    BY <2>1 DEF Prompted
  <2>3. Idle(t)' <=> Idle(t)
    BY <2>1 DEF Idle, UnderWay
  <2>4. CASE pending[TenantOf[l]] = NoSwap
    <3>1. UNCHANGED <<pending, behind, unsaved>> /\ prompt'[l] = prompt[l]
      BY <1>4, <2>4, HeadPrompt DEF TurnHead, TypeOK
    <3>2. ASSUME NEW m \in LoopsOf(t), Shown(m, t) PROVE Shown(m, t)'
      BY <2>1, <2>2, <3>1, <3>2 DEF Shown, LoopsOf
    <3> QED
      BY <2>1, <3>1, <3>2, ShownKeeps
  <2>5. CASE pending[TenantOf[l]] # NoSwap /\ TenantOf[l] # t
    <3>1. pending'[t] = pending[t] /\ Taken(l, TenantOf[l])
      BY <1>4, <2>5 DEF TurnHead, TypeOK
    <3>2. \A m \in LoopsOf(t) : m # l /\ (m \in behind' <=> m \in behind)
                                /\ (m \in unsaved' <=> m \in unsaved)
      BY <2>5, <3>1 DEF Taken, LoopsOf
    <3>3. ASSUME NEW m \in LoopsOf(t), Shown(m, t) PROVE Shown(m, t)'
      BY <2>1, <2>2, <3>2, <3>3 DEF Shown, LoopsOf
    <3> QED
      BY <2>1, <3>1, <3>3, ShownKeeps
  <2>6. CASE pending[TenantOf[l]] # NoSwap /\ TenantOf[l] = t
    <3>1. Taken(l, t)
      BY <1>4, <2>6 DEF TurnHead
    <3>2. SUFFICES ASSUME Idle(t), NEW m \in LoopsOf(t) PROVE Shown(m, t)'
      BY <2>3 DEF ShownInv, LoopsOf
    <3>3. saved'[m] # NoPrompt => m \in unsaved'
      BY <2>1, <3>1 DEF Taken
    <3>4. m # l /\ Prompted(m) => m \in behind'
      BY <3>1 DEF Taken
    <3>5. l \notin behind' => prompt'[l].skills = active[t]
      BY <1>4, <2>6, <3>2, HeadShows
    <3> QED
      BY <2>1, <2>2, <3>3, <3>4, <3>5 DEF Shown, LoopsOf
  <2> QED
    BY <2>4, <2>5, <2>6
<1>5. ASSUME NEW l \in Loops, TurnEnd(l)
      PROVE  ShownInv(t)'
  <2>1. UNCHANGED <<registry, prompt, behind>> /\ lpc[l] = "thinking" /\ lpc' = [lpc EXCEPT ![l] = "head"]
    BY <1>5 DEF TurnEnd
  <2>2. Prompted(l) /\ \A m \in Loops : Prompted(m)' <=> Prompted(m)
    BY <2>1 DEF Prompted, TypeOK
  <2>3. CASE UNCHANGED <<saved, unsaved>>
    <3>1. ASSUME NEW m \in LoopsOf(t), Shown(m, t) PROVE Shown(m, t)'
      BY <2>1, <2>2, <2>3, <3>1 DEF Shown, LoopsOf, registry
    <3> QED
      BY <2>1, <3>1, ShownKeeps DEF registry
  <2>4. CASE /\ saved' = [saved EXCEPT ![l] = prompt[l]]
             /\ unsaved' = IF l \in behind THEN unsaved \cup {l} ELSE unsaved \ {l}
    <3>1. ASSUME NEW m \in LoopsOf(t), Shown(m, t) PROVE Shown(m, t)'
      <4>1. CASE m = l
        <5>1. saved'[l] = prompt[l] /\ (l \in unsaved' <=> l \in behind)
          BY <2>4 DEF TypeOK
        <5> QED
          BY <2>1, <2>2, <3>1, <4>1, <5>1 DEF Shown, registry
      <4>2. CASE m # l
        <5>1. saved'[m] = saved[m] /\ (m \in unsaved' <=> m \in unsaved)
          BY <2>4, <4>2 DEF TypeOK, LoopsOf
        <5> QED
          BY <2>1, <2>2, <3>1, <5>1 DEF Shown, LoopsOf, registry
      <4> QED
        BY <4>1, <4>2
    <3> QED
      BY <2>1, <3>1, ShownKeeps DEF registry
  <2> QED
    BY <1>5, <2>3, <2>4 DEF TurnEnd
<1>6. ASSUME NEW l \in Loops, Stop(l)
      PROVE  ShownInv(t)'
  <2>1. UNCHANGED <<registry, saved, unsaved>> /\ lpc' = [lpc EXCEPT ![l] = "new"]
        /\ behind' = behind \ {l} /\ prompt' = [prompt EXCEPT ![l] = NoPrompt]
    BY <1>6 DEF Stop
  <2>2. ~Prompted(l)' /\ \A m \in Loops \ {l} : Prompted(m)' <=> Prompted(m)
    BY <2>1 DEF Prompted, TypeOK
  <2>3. \A m \in Loops \ {l} : prompt'[m] = prompt[m]
    BY <2>1 DEF TypeOK
  <2>4. ASSUME NEW m \in LoopsOf(t), Shown(m, t) PROVE Shown(m, t)'
    BY <2>1, <2>2, <2>3, <2>4 DEF Shown, LoopsOf, registry
  <2> QED
    BY <2>1, <2>4, ShownKeeps DEF registry
<1>7. ASSUME NEW l \in Loops, LateSave(l)
      PROVE  ShownInv(t)'
  <2>1. UNCHANGED <<registry, lpc, prompt, behind>> /\ unsaved' = unsaved \cup {l}
        /\ saved' = [saved EXCEPT ![l] = late[l]]
    BY <1>7 DEF LateSave
  <2>2. \A m \in Loops \ {l} : saved'[m] = saved[m]
    BY <2>1 DEF TypeOK
  <2>3. ASSUME NEW m \in LoopsOf(t), Shown(m, t) PROVE Shown(m, t)'
    BY <2>1, <2>2, <2>3 DEF Shown, Prompted, LoopsOf, registry
  <2> QED
    BY <2>1, <2>3, ShownKeeps DEF registry
<1>8. CASE UNCHANGED vars
  BY <1>8 DEF vars, registry, sessions, history, ShownInv, Shown, Idle, UnderWay, Prompted, LoopsOf
<1>9. ASSUME NEW c \in Calls, NEW s \in Tenants, NEW name \in Names,
             ReadFile(c, s, name) \/ Unload(c, s, name)
      PROVE  ShownInv(t)'
  BY <1>1, <1>9, BeginSteps
<1>10. ASSUME NEW c \in Calls, Proceed(c)
       PROVE  ShownInv(t)'
  BY <1>1, <1>10, ProceedSteps
<1> QED
  BY <1>2, <1>3, <1>4, <1>5, <1>6, <1>7, <1>8, <1>9, <1>10 DEF Next

VisibleInv == TypeOK /\ \A t \in Tenants : ChangesInv(t) /\ ShownInv(t)

(* Nothing is loaded or pending at first, and what a row says may be old.  *)
LEMMA VisibleInit == Init => VisibleInv
<1>1. ASSUME Init, NEW t \in Tenants PROVE ChangesInv(t) /\ ShownInv(t)
  BY <1>1 DEF Init, ChangesInv, ShownInv, Shown, Of, UnderWay, Prompted, LoopsOf
<1> QED
  BY <1>1, TypeInit DEF VisibleInv

(* Every step keeps both, for every tenant.                                *)
LEMMA VisibleStep ==
  ASSUME VisibleInv, [Next]_vars
  PROVE  VisibleInv'
<1>1. TypeOK'
  BY TypeStep DEF VisibleInv
<1>2. ASSUME NEW t \in Tenants PROVE ChangesInv(t)' /\ ShownInv(t)'
  BY ChangesStep, ShownStep DEF VisibleInv
<1> QED
  BY <1>1, <1>2 DEF VisibleInv

(* A loop that passes the head of a turn with no change under way thinks   *)
(* with exactly the skills that are loaded, however many changes there     *)
(* were and in whatever order they and the tenant's sessions, their stops, *)
(* failed or late saves and resumptions interleave, unless it is behind:   *)
(* another loop took the swap, its row was older, or overlapping changes   *)
(* built the swap it took.                                                 *)
THEOREM ChangesVisibleHolds == Spec => ChangesVisibleNextTurn
<1>1. VisibleInv /\ [Next]_vars =>
        [\A l \in Loops :
           lpc[l] = "head" /\ lpc'[l] = "thinking" /\ Idle(TenantOf[l]) /\ l \notin behind' =>
             prompt'[l].skills = active[TenantOf[l]]]_vars
  <2>1. SUFFICES ASSUME VisibleInv, [Next]_vars, NEW l \in Loops,
                        lpc[l] = "head", lpc'[l] = "thinking", Idle(TenantOf[l]), l \notin behind'
                 PROVE  prompt'[l].skills = active[TenantOf[l]]
    OBVIOUS
  <2>2. TypeOK /\ TenantOf[l] \in Tenants
    BY <2>1, SkillAssumption DEF VisibleInv
  <2>3. TurnHead(l)
    <3>1. lpc' # lpc
      BY <2>1
    <3>2. PICK m \in Loops : SessionSteps(m)
      BY <2>1, <3>1 DEF Next, Proceed, vars, sessions, ReadFile, Unload, RemoveOld, Insert,
                        MergeActive, MergeToolDefinitions, SetPendingSwap, SessionSteps
    <3>3. lpc'[m] # "thinking" \/ TurnHead(m)
      BY <2>2, <3>1, <3>2 DEF TypeOK, SessionSteps, StartSession, BuildPrompt, TurnEnd, Stop,
                              ResumeSession, LateSave
    <3>4. m = l
      BY <2>1, <2>2, <3>1, <3>2 DEF TypeOK, SessionSteps, StartSession, BuildPrompt, TurnHead,
                                    TurnEnd, Stop, ResumeSession, LateSave
    <3> QED
      BY <2>1, <3>3, <3>4
  <2> QED
    BY <2>1, <2>2, <2>3, HeadShows DEF VisibleInv
<1> QED
  BY <1>1, VisibleInit, VisibleStep, PTL DEF Spec, ChangesVisibleNextTurn
================================================================================
