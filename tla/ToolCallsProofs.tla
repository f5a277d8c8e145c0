---------------------------- MODULE ToolCallsProofs -----------------------------
(***************************************************************************)
(* Theorems about ToolRegistry and ToolCalls, for any number of            *)
(* registrations and sessions, and any requests, grants and servers.       *)
(***************************************************************************)
EXTENDS ToolCalls, FoldLemmas

--------------------------------------------------------------------------------
(* Names: the registry alone.                                              *)

IndexedStates == {"indexed", "ranked", "ok"}
PastCheck     == {"checked"} \cup IndexedStates

NamesType ==
  /\ registration \in [Registrations -> {"new", "refused"} \cup PastCheck]
  /\ name_index = [n \in DOMAIN name_index |-> name_index[n]]

(* The maps are filled in the order of the steps.                          *)
MapsFollowSteps ==
  /\ tools = {r \in Registrations : registration[r] = "ok"}
  /\ ranked = {r \in Registrations : registration[r] \in {"ranked", "ok"}}

(* A name leads to a tool that has it and whose registration put it there. *)
IndexIsRight ==
  \A n \in DOMAIN name_index :
    /\ name_index[n] \in Registrations
    /\ NameOf[name_index[n]] = n
    /\ registration[name_index[n]] \in IndexedStates

(* Whoever has put its name there still finds it taken.                    *)
NamesStayTaken ==
  \A r \in Registrations : registration[r] \in IndexedStates => Taken(NameOf[r])

(* Two registrations of one name get past the check only together.         *)
RivalsOverlap ==
  \A r, q \in Registrations :
    /\ r # q /\ NameOf[r] = NameOf[q]
    /\ registration[r] \in PastCheck /\ registration[q] \in PastCheck
    => {r, q} \in overlapping

NamesInv == NamesType /\ MapsFollowSteps /\ IndexIsRight /\ NamesStayTaken /\ RivalsOverlap

(* An empty registry is in order.                                          *)
LEMMA NamesInit == RegistryInit => NamesInv
BY DEF RegistryInit, NamesInv, NamesType, MapsFollowSteps, IndexIsRight, NamesStayTaken,
       RivalsOverlap, PastCheck, IndexedStates

(* The check lets a name in only if none that is past its insertion has    *)
(* it; all others of the name that are under way are noted.                *)
LEMMA NamesCheck ==
  ASSUME NamesInv, NEW r \in Registrations, Check(r)
  PROVE  NamesInv'
<1> USE DEF PastCheck, IndexedStates
<1>1. /\ NamesType' /\ MapsFollowSteps' /\ IndexIsRight'
  BY DEF NamesInv, NamesType, MapsFollowSteps, IndexIsRight, Check
<1>2. NamesStayTaken'
  BY DEF NamesInv, NamesType, NamesStayTaken, Check, Taken
<1>3. ASSUME NEW p \in Registrations, NEW q \in Registrations, p # q, NameOf[p] = NameOf[q],
             registration'[p] \in PastCheck, registration'[q] \in PastCheck
      PROVE  {p, q} \in overlapping'
  <2>1. CASE p # r /\ q # r
    BY <1>3, <2>1 DEF NamesInv, NamesType, RivalsOverlap, Check
  <2>2. ASSUME NEW x \in Registrations, x # r, NameOf[x] = NameOf[r],
               registration'[x] \in PastCheck, registration'[r] \in PastCheck
        PROVE  {r, x} \in overlapping'
    <3>1. registration'[r] = "checked" /\ ~Taken(NameOf[r]) /\ registration[x] = registration'[x]
      BY <2>2 DEF Check, NamesInv, NamesType
    <3>2. x \in Registering
      BY <2>2, <3>1 DEF NamesInv, NamesStayTaken, Registering
    <3> QED
      BY <3>2 DEF Check
  <2>3. {p, q} = {q, p}
    OBVIOUS
  <2> QED
    BY <1>3, <2>1, <2>2, <2>3
<1> QED
  BY <1>1, <1>2, <1>3 DEF NamesInv, RivalsOverlap

(* A name that is inserted is the registration's, which is past its check. *)
LEMMA NamesInsert ==
  ASSUME NamesInv, NEW r \in Registrations, InsertName(r)
  PROVE  NamesInv'
<1> USE DEF PastCheck, IndexedStates
<1>1. /\ registration[r] = "checked"
      /\ registration' = [registration EXCEPT ![r] = "indexed"]
      /\ DOMAIN name_index' = DOMAIN name_index \cup {NameOf[r]}
      /\ \A n \in DOMAIN name_index' : name_index'[n] = IF n = NameOf[r] THEN r ELSE name_index[n]
  BY DEF InsertName, Indexed
<1>2. NamesType' /\ MapsFollowSteps'
  BY <1>1 DEF NamesInv, NamesType, MapsFollowSteps, InsertName, Indexed
<1>3. IndexIsRight'
  BY <1>1 DEF NamesInv, NamesType, IndexIsRight
<1>4. NamesStayTaken'
  BY <1>1 DEF NamesInv, NamesType, NamesStayTaken, Taken
<1>5. RivalsOverlap'
  BY <1>1 DEF NamesInv, NamesType, RivalsOverlap, InsertName
<1> QED
  BY <1>2, <1>3, <1>4, <1>5 DEF NamesInv

(* Every step of a registration keeps the maps in order.                   *)
LEMMA NamesRegister ==
  ASSUME NamesInv, NEW r \in Registrations, Register(r)
  PROVE  NamesInv'
<1> USE DEF PastCheck, IndexedStates
<1>1. CASE Check(r)
  BY <1>1, NamesCheck
<1>2. CASE InsertName(r)
  BY <1>2, NamesInsert
<1>3. CASE InsertPriority(r)
  <2>1. NamesType' /\ MapsFollowSteps' /\ IndexIsRight'
    BY <1>3 DEF NamesInv, NamesType, MapsFollowSteps, IndexIsRight, InsertPriority
  <2> QED
    BY <1>3, <2>1 DEF NamesInv, NamesType, NamesStayTaken, RivalsOverlap, InsertPriority, Taken
<1>4. CASE InsertTool(r)
  <2>1. NamesType' /\ MapsFollowSteps' /\ IndexIsRight'
    BY <1>4 DEF NamesInv, NamesType, MapsFollowSteps, IndexIsRight, InsertTool
  <2> QED
    BY <1>4, <2>1 DEF NamesInv, NamesType, NamesStayTaken, RivalsOverlap, InsertTool, Taken
<1> QED
  BY <1>1, <1>2, <1>3, <1>4 DEF Register

(* So does whatever leaves the registry alone.                             *)
LEMMA NamesStutter ==
  ASSUME NamesInv, UNCHANGED registryVars
  PROVE  NamesInv'
BY DEF registryVars, NamesInv, NamesType, MapsFollowSteps, IndexIsRight, NamesStayTaken,
       RivalsOverlap, Taken

(* A call never touches the registry.                                      *)
LEMMA CallsLeaveRegistry ==
  ASSUME NEW s \in Sessions, CallStep(s)
  PROVE  UNCHANGED registryVars
BY DEF CallStep, Lookup, CheckCapability, StartFile, ReadFile, WriteFile, StartHttp, Resolve, Send,
       Chunk, BodyFails, BodyEnds, Drop

(* The inductive invariant of the registry.                                *)
THEOREM NamesInvariant == Spec => []NamesInv
<1>1. Init => NamesInv
  BY NamesInit DEF Init
<1>2. NamesInv /\ [Next]_vars => NamesInv'
  BY NamesRegister, NamesStutter, CallsLeaveRegistry DEF Next, vars
<1> QED
  BY <1>1, <1>2, PTL DEF Spec

(* A registered tool can be called by its name, or was overtaken by one    *)
(* that was registered at the same time; and two tools of one name are     *)
(* listed only in that case (tool_registry.rs:111).                        *)
THEOREM NamesSettleHolds == Spec => []NamesSettle
<1>1. NamesInv => NamesSettle
  <2> SUFFICES ASSUME NamesInv PROVE NamesSettle
    OBVIOUS
  <2> USE DEF PastCheck, IndexedStates
  <2>1. ASSUME NEW t \in tools, NEW u \in Listed(NameOf[t]) \ {t}
        PROVE  {t, u} \in overlapping
    BY <2>1 DEF NamesInv, MapsFollowSteps, RivalsOverlap, Listed
  <2>2. ASSUME NEW n \in DOMAIN name_index, Found(n)
        PROVE  name_index[n] \in ranked
    BY <2>2 DEF NamesInv, MapsFollowSteps, Found
  <2>3. ASSUME NEW t \in tools, \A r \in Registering : NameOf[r] # NameOf[t]
        PROVE  Found(NameOf[t]) /\ (t = name_index[NameOf[t]] \/ {t, name_index[NameOf[t]]} \in overlapping)
    <3>1. t \in Registrations /\ registration[t] = "ok" /\ Taken(NameOf[t])
      BY <2>3 DEF NamesInv, MapsFollowSteps, NamesStayTaken
    <3> DEFINE u == name_index[NameOf[t]]
    <3>2. u \in Registrations /\ NameOf[u] = NameOf[t] /\ registration[u] \in IndexedStates
      BY <3>1 DEF NamesInv, IndexIsRight, Taken
    <3>3. registration[u] = "ok"
      BY <2>3, <3>2 DEF Registering
    <3> QED
      BY <3>1, <3>2, <3>3 DEF NamesInv, MapsFollowSteps, RivalsOverlap, Found
  <2> QED
    BY <2>1, <2>2, <2>3 DEF NamesSettle
<1> QED
  BY <1>1, NamesInvariant, PTL

--------------------------------------------------------------------------------
(* The calls.  The results are left untyped: which error a check reports   *)
(* is the business of SelectSeq.                                           *)

CallType ==
  /\ DOMAIN call = Sessions
  /\ call = [s \in Sessions |-> call[s]]
  /\ \A s \in Sessions :
       call[s] = [pc |-> call[s].pc, id |-> call[s].id, addresses |-> call[s].addresses,
                  response |-> call[s].response, result |-> call[s].result]
  /\ DOMAIN io = Sessions
  /\ io = [s \in Sessions |-> io[s]]

(* A thread works for a call that waits for it, or was dropped.            *)
ThreadsAreAwaited ==
  \A s \in Sessions : io[s] \in {"file_read", "file_write"} => call[s].pc \in {"io", "dropped"}

(* Whatever was done was done at the last await of a call; from there on   *)
(* there is no final error left.                                           *)
EffectsAreLate ==
  \A e \in effects :
    /\ e.session \in Sessions
    /\ call[e.session].pc \in {"body", "drain", "dropped", "returned"}
    /\ call[e.session].pc = "returned" /\ call[e.session].result.is_error =>
         call[e.session].result.retryable

EffectsInv == CallType /\ ThreadsAreAwaited /\ EffectsAreLate

(* What the two ways to change a call leave of it.                         *)
LEMMA GotoChanges ==
  ASSUME CallType, NEW s \in Sessions, NEW pc, Goto(s, pc)
  PROVE  /\ DOMAIN call' = Sessions /\ call' = [t \in Sessions |-> call'[t]]
         /\ \A t \in Sessions :
              call'[t] = [pc |-> call'[t].pc, id |-> call'[t].id, addresses |-> call'[t].addresses,
                          response |-> call'[t].response, result |-> call'[t].result]
         /\ call'[s].pc = pc /\ call'[s].id = call[s].id
         /\ call'[s].response = call[s].response
         /\ \A t \in Sessions \ {s} : call'[t] = call[t]
<1>1. call' = [t \in Sessions |-> IF t = s THEN [call[s] EXCEPT !.pc = pc] ELSE call[t]]
  BY DEF Goto, CallType
<1>2. call[s] = [pc |-> call[s].pc, id |-> call[s].id, addresses |-> call[s].addresses,
                 response |-> call[s].response, result |-> call[s].result]
  BY DEF CallType
<1>3. [call[s] EXCEPT !.pc = pc] = [pc |-> pc, id |-> call[s].id, addresses |-> call[s].addresses,
                                    response |-> call[s].response, result |-> call[s].result]
  BY <1>2
<1>4. call'[s] = [pc |-> pc, id |-> call[s].id, addresses |-> call[s].addresses,
                  response |-> call[s].response, result |-> call[s].result]
  BY <1>1, <1>3
<1>5. \A t \in Sessions \ {s} : call'[t] = call[t]
  BY <1>1
<1> QED
  BY <1>1, <1>4, <1>5 DEF CallType

(* What a return leaves of the calls.                                      *)
LEMMA ReturnChanges ==
  ASSUME CallType, NEW s \in Sessions, NEW result, Return(s, result)
  PROVE  /\ DOMAIN call' = Sessions /\ call' = [t \in Sessions |-> call'[t]]
         /\ \A t \in Sessions :
              call'[t] = [pc |-> call'[t].pc, id |-> call'[t].id, addresses |-> call'[t].addresses,
                          response |-> call'[t].response, result |-> call'[t].result]
         /\ call'[s].pc = "returned" /\ call'[s].id = call[s].id
         /\ call'[s].response = call[s].response /\ call'[s].result = result
         /\ \A t \in Sessions \ {s} : call'[t] = call[t]
<1>1. call' = [t \in Sessions |-> IF t = s THEN [call[s] EXCEPT !.pc = "returned", !.result = result]
                                  ELSE call[t]]
  BY DEF Return, CallType
<1>2. call[s] = [pc |-> call[s].pc, id |-> call[s].id, addresses |-> call[s].addresses,
                 response |-> call[s].response, result |-> call[s].result]
  BY DEF CallType
<1> DEFINE moved == [call[s] EXCEPT !.pc = "returned"]
<1>3. moved = [pc |-> "returned", id |-> call[s].id, addresses |-> call[s].addresses,
               response |-> call[s].response, result |-> call[s].result]
  BY <1>2
<1>6. [call[s] EXCEPT !.pc = "returned", !.result = result] = [moved EXCEPT !.result = result]
  OBVIOUS
<1> HIDE DEF moved
<1>7. [moved EXCEPT !.result = result]
        = [pc |-> "returned", id |-> call[s].id, addresses |-> call[s].addresses,
           response |-> call[s].response, result |-> result]
  BY <1>3
<1>4. call'[s] = [pc |-> "returned", id |-> call[s].id, addresses |-> call[s].addresses,
                  response |-> call[s].response, result |-> result]
  BY <1>1, <1>6, <1>7
<1>5. \A t \in Sessions \ {s} : call'[t] = call[t]
  BY <1>1
<1> QED
  BY <1>1, <1>4, <1>5 DEF CallType

(* A lookup that finds its tool, and a chunk, change two fields.           *)
LEMMA FoundChanges ==
  ASSUME CallType, NEW s \in Sessions, NEW id,
         call' = [call EXCEPT ![s].pc = "check", ![s].id = id]
  PROVE  /\ CallType' \/ io' # io
         /\ call'[s].pc = "check" /\ call'[s].id = id
         /\ call'[s].response = call[s].response
         /\ \A t \in Sessions \ {s} : call'[t] = call[t]
<1> DEFINE moved == [call[s] EXCEPT !.pc = "check"]
<1>1. call' = [t \in Sessions |-> IF t = s THEN [call[s] EXCEPT !.pc = "check", !.id = id]
                                  ELSE call[t]]
  BY DEF CallType
<1>2. call[s] = [pc |-> call[s].pc, id |-> call[s].id, addresses |-> call[s].addresses,
                 response |-> call[s].response, result |-> call[s].result]
  BY DEF CallType
<1>3. moved = [pc |-> "check", id |-> call[s].id, addresses |-> call[s].addresses,
               response |-> call[s].response, result |-> call[s].result]
  BY <1>2
<1>4. [call[s] EXCEPT !.pc = "check", !.id = id] = [moved EXCEPT !.id = id]
  OBVIOUS
<1> HIDE DEF moved
<1>5. [moved EXCEPT !.id = id] = [pc |-> "check", id |-> id, addresses |-> call[s].addresses,
                                  response |-> call[s].response, result |-> call[s].result]
  BY <1>3
<1>6. call'[s] = [pc |-> "check", id |-> id, addresses |-> call[s].addresses,
                  response |-> call[s].response, result |-> call[s].result]
  BY <1>1, <1>4, <1>5
<1>7. \A t \in Sessions \ {s} : call'[t] = call[t]
  BY <1>1
<1> QED
  BY <1>1, <1>6, <1>7 DEF CallType

(* What a chunk leaves of the calls.                                       *)
LEMMA ChunkChanges ==
  ASSUME CallType, NEW s \in Sessions, NEW response, NEW pc,
         call' = [call EXCEPT ![s].response = response, ![s].pc = pc]
  PROVE  /\ CallType' \/ io' # io
         /\ call'[s].pc = pc /\ call'[s].id = call[s].id
         /\ call'[s].response = response
         /\ \A t \in Sessions \ {s} : call'[t] = call[t]
<1> DEFINE read == [call[s] EXCEPT !.response = response]
<1>1. call' = [t \in Sessions |-> IF t = s THEN [call[s] EXCEPT !.response = response, !.pc = pc]
                                  ELSE call[t]]
  BY DEF CallType
<1>2. call[s] = [pc |-> call[s].pc, id |-> call[s].id, addresses |-> call[s].addresses,
                 response |-> call[s].response, result |-> call[s].result]
  BY DEF CallType
<1>3. read = [pc |-> call[s].pc, id |-> call[s].id, addresses |-> call[s].addresses,
              response |-> response, result |-> call[s].result]
  BY <1>2
<1>4. [call[s] EXCEPT !.response = response, !.pc = pc] = [read EXCEPT !.pc = pc]
  OBVIOUS
<1> HIDE DEF read
<1>5. [read EXCEPT !.pc = pc] = [pc |-> pc, id |-> call[s].id, addresses |-> call[s].addresses,
                                 response |-> response, result |-> call[s].result]
  BY <1>3
<1>6. call'[s] = [pc |-> pc, id |-> call[s].id, addresses |-> call[s].addresses,
                  response |-> response, result |-> call[s].result]
  BY <1>1, <1>4, <1>5
<1>7. \A t \in Sessions \ {s} : call'[t] = call[t]
  BY <1>1
<1> QED
  BY <1>1, <1>6, <1>7 DEF CallType

(* What a host that was found to be public leaves of the calls.            *)
LEMMA ResolvedChanges ==
  ASSUME CallType, NEW s \in Sessions, NEW addresses,
         call' = [call EXCEPT ![s].pc = "send", ![s].addresses = addresses]
  PROVE  /\ CallType' \/ io' # io
         /\ call'[s].pc = "send" /\ call'[s].id = call[s].id
         /\ call'[s].addresses = addresses /\ call'[s].response = call[s].response
         /\ \A t \in Sessions \ {s} : call'[t] = call[t]
<1> DEFINE moved == [call[s] EXCEPT !.pc = "send"]
<1>1. call' = [t \in Sessions |-> IF t = s THEN [call[s] EXCEPT !.pc = "send", !.addresses = addresses]
                                  ELSE call[t]]
  BY DEF CallType
<1>2. call[s] = [pc |-> call[s].pc, id |-> call[s].id, addresses |-> call[s].addresses,
                 response |-> call[s].response, result |-> call[s].result]
  BY DEF CallType
<1>3. moved = [pc |-> "send", id |-> call[s].id, addresses |-> call[s].addresses,
               response |-> call[s].response, result |-> call[s].result]
  BY <1>2
<1>4. [call[s] EXCEPT !.pc = "send", !.addresses = addresses] = [moved EXCEPT !.addresses = addresses]
  OBVIOUS
<1> HIDE DEF moved
<1>5. [moved EXCEPT !.addresses = addresses]
        = [pc |-> "send", id |-> call[s].id, addresses |-> addresses,
           response |-> call[s].response, result |-> call[s].result]
  BY <1>3
<1>6. call'[s] = [pc |-> "send", id |-> call[s].id, addresses |-> addresses,
                  response |-> call[s].response, result |-> call[s].result]
  BY <1>1, <1>4, <1>5
<1>7. \A t \in Sessions \ {s} : call'[t] = call[t]
  BY <1>1
<1> QED
  BY <1>1, <1>6, <1>7 DEF CallType

--------------------------------------------------------------------------------
(* Each step of a call keeps EffectsInv.                                   *)

(* A step before the last await, and before any effect.                    *)
LEMMA EarlyStep ==
  ASSUME EffectsInv, NEW s \in Sessions, CallType',
         call[s].pc \in {"lookup", "check", "dispatch", "resolve"},
         \A t \in Sessions \ {s} : call'[t] = call[t],
         effects' = effects,
         \A t \in Sessions \ {s} : io'[t] = io[t],
         io'[s] \in {"file_read", "file_write"} => call'[s].pc \in {"io", "dropped"}
  PROVE  EffectsInv'
<1>1. ThreadsAreAwaited'
  BY DEF EffectsInv, ThreadsAreAwaited
<1>2. \A e \in effects : e.session \in Sessions \ {s}
  BY DEF EffectsInv, EffectsAreLate
<1>3. EffectsAreLate'
  BY <1>2 DEF EffectsInv, EffectsAreLate
<1> QED
  BY <1>1, <1>3 DEF EffectsInv

(* A lookup has no effect.                                                 *)
LEMMA LookupKeeps ==
  ASSUME EffectsInv, NEW s \in Sessions, Lookup(s)
  PROVE  EffectsInv'
<1>1. CallType /\ call[s].pc = "lookup" /\ io' = io /\ effects' = effects
  BY DEF EffectsInv, Lookup
<1>2. io[s] \notin {"file_read", "file_write"}
  BY <1>1 DEF EffectsInv, ThreadsAreAwaited
<1>3. CallType' /\ \A t \in Sessions \ {s} : call'[t] = call[t]
  <2>1. CASE Found(asked[s].request.name)
    BY <1>1, <2>1, FoundChanges DEF Lookup
  <2>2. CASE ~Found(asked[s].request.name)
    BY <1>1, <2>2, ReturnChanges DEF Lookup, CallType
  <2> QED
    BY <2>1, <2>2
<1> QED
  BY <1>1, <1>2, <1>3, EarlyStep

(* A capability check has none either; its errors are final.               *)
LEMMA CheckKeeps ==
  ASSUME EffectsInv, NEW s \in Sessions, CheckCapability(s)
  PROVE  EffectsInv'
<1>1. CallType /\ call[s].pc = "check" /\ io' = io /\ effects' = effects
  BY DEF EffectsInv, CheckCapability
<1>2. io[s] \notin {"file_read", "file_write"}
  BY <1>1 DEF EffectsInv, ThreadsAreAwaited
<1>3. CallType' /\ \A t \in Sessions \ {s} : call'[t] = call[t]
  <2>1. CASE Granted(s, call[s].id)
    BY <1>1, <2>1, GotoChanges DEF CheckCapability, CallType
  <2>2. CASE ~Granted(s, call[s].id)
    BY <1>1, <2>2, ReturnChanges DEF CheckCapability, CallType
  <2> QED
    BY <2>1, <2>2
<1> QED
  BY <1>1, <1>2, <1>3, EarlyStep

(* A file operation is handed to its thread when every check is passed.    *)
LEMMA StartFileKeeps ==
  ASSUME EffectsInv, NEW s \in Sessions, StartFile(s)
  PROVE  EffectsInv'
<1>1. CallType /\ call[s].pc = "dispatch" /\ effects' = effects
      /\ asked[s].request.name \in {"file_read", "file_write"}
  BY DEF EffectsInv, StartFile
<1>2. io[s] \notin {"file_read", "file_write"}
  BY <1>1 DEF EffectsInv, ThreadsAreAwaited
<1>3. \/ \E error : Return(s, error) /\ io' = io
      \/ Goto(s, "io") /\ io' = [io EXCEPT ![s] = asked[s].request.name]
  BY DEF StartFile
<1>4. CASE \E error : Return(s, error) /\ io' = io
  <2>1. CallType' /\ \A t \in Sessions \ {s} : call'[t] = call[t]
    BY <1>1, <1>4, ReturnChanges DEF CallType
  <2> QED
    BY <1>1, <1>2, <1>4, <2>1, EarlyStep
<1>5. CASE Goto(s, "io") /\ io' = [io EXCEPT ![s] = asked[s].request.name]
  <2>1. /\ DOMAIN io' = Sessions /\ io' = [t \in Sessions |-> io'[t]]
        /\ \A t \in Sessions \ {s} : io'[t] = io[t]
    BY <1>1, <1>5 DEF CallType
  <2>2. CallType' /\ call'[s].pc = "io" /\ \A t \in Sessions \ {s} : call'[t] = call[t]
    BY <1>1, <1>5, <2>1, GotoChanges DEF CallType
  <2> QED
    BY <1>1, <2>1, <2>2, EarlyStep
<1> QED
  BY <1>3, <1>4, <1>5

(* A request begins with its checks, whose errors are final.               *)
LEMMA StartHttpKeeps ==
  ASSUME EffectsInv, NEW s \in Sessions, StartHttp(s)
  PROVE  EffectsInv'
<1>1. CallType /\ call[s].pc = "dispatch" /\ io' = io /\ effects' = effects
      /\ (Goto(s, "resolve") \/ \E error : Return(s, error))
  BY DEF EffectsInv, StartHttp
<1>2. io[s] \notin {"file_read", "file_write"}
  BY <1>1 DEF EffectsInv, ThreadsAreAwaited
<1>3. CallType' /\ \A t \in Sessions \ {s} : call'[t] = call[t]
  BY <1>1, GotoChanges, ReturnChanges DEF CallType
<1> QED
  BY <1>1, <1>2, <1>3, EarlyStep

(* Resolving asks no server.                                               *)
LEMMA ResolveKeeps ==
  ASSUME EffectsInv, NEW s \in Sessions, Resolve(s)
  PROVE  EffectsInv'
<1>1. CallType /\ call[s].pc = "resolve" /\ io' = io /\ effects' = effects
      /\ \/ \E addresses : call' = [call EXCEPT ![s].pc = "send", ![s].addresses = addresses]
         \/ \E error : Return(s, error)
  BY DEF EffectsInv, Resolve
<1>2. io[s] \notin {"file_read", "file_write"}
  BY <1>1 DEF EffectsInv, ThreadsAreAwaited
<1>3. CallType' /\ \A t \in Sessions \ {s} : call'[t] = call[t]
  BY <1>1, ResolvedChanges, ReturnChanges DEF CallType
<1> QED
  BY <1>1, <1>2, <1>3, EarlyStep

(* A step from the last await on, whether it has an effect or not.         *)
LEMMA LateStep ==
  ASSUME EffectsInv, NEW s \in Sessions, CallType',
         \A t \in Sessions \ {s} : call'[t] = call[t],
         \A e \in effects' \ effects : e.session = s,
         call'[s].pc \in {"body", "drain", "dropped", "returned"},
         call'[s].pc = "returned" /\ call'[s].result.is_error => call'[s].result.retryable,
         \A t \in Sessions \ {s} : io'[t] = io[t],
         io'[s] \in {"file_read", "file_write"} => call'[s].pc \in {"io", "dropped"}
  PROVE  EffectsInv'
<1>1. ThreadsAreAwaited'
  BY DEF EffectsInv, ThreadsAreAwaited
<1>2. EffectsAreLate'
  BY DEF EffectsInv, EffectsAreLate
<1> QED
  BY <1>1, <1>2 DEF EffectsInv

(* The thread's answer reaches the call, or the call is gone.              *)
LEMMA AnswerChanges ==
  ASSUME CallType, NEW s \in Sessions, NEW result, Answer(s, result),
         call[s].pc \in {"io", "dropped"}
  PROVE  /\ CallType' /\ io'[s] = "done"
         /\ \A t \in Sessions \ {s} : call'[t] = call[t] /\ io'[t] = io[t]
         /\ \/ call[s].pc = "io" /\ call'[s].pc = "returned" /\ call'[s].result = result
            \/ call[s].pc = "dropped" /\ call'[s] = call[s]
<1>1. /\ DOMAIN io' = Sessions /\ io' = [t \in Sessions |-> io'[t]] /\ io'[s] = "done"
      /\ \A t \in Sessions \ {s} : io'[t] = io[t]
  BY DEF Answer, CallType
<1>2. CASE call[s].pc = "io"
  BY <1>1, <1>2, ReturnChanges DEF Answer, CallType
<1>3. CASE call[s].pc = "dropped"
  BY <1>1, <1>3 DEF Answer, CallType
<1> QED
  BY <1>2, <1>3

(* A file that was read is unchanged.                                      *)
LEMMA ReadFileKeeps ==
  ASSUME EffectsInv, NEW s \in Sessions, ReadFile(s)
  PROVE  EffectsInv'
<1>1. PICK result : Answer(s, result)
  BY DEF ReadFile
<1>2. CallType /\ call[s].pc \in {"io", "dropped"} /\ effects' = effects
  BY DEF ReadFile, EffectsInv, ThreadsAreAwaited
<1>3. CASE call[s].pc = "io"
  <2>1. \A e \in effects : e.session \in Sessions \ {s}
    BY <1>3 DEF EffectsInv, EffectsAreLate
  <2>2. EffectsAreLate'
    BY <1>1, <1>2, <2>1, AnswerChanges DEF EffectsInv, EffectsAreLate
  <2>3. ThreadsAreAwaited'
    BY <1>1, <1>2, AnswerChanges DEF EffectsInv, ThreadsAreAwaited
  <2> QED
    BY <1>1, <1>2, <2>2, <2>3, AnswerChanges DEF EffectsInv
<1>4. CASE call[s].pc = "dropped"
  BY <1>1, <1>2, <1>4, AnswerChanges, LateStep
<1> QED
  BY <1>2, <1>3, <1>4

(* A write that fails may be tried again.                                  *)
LEMMA WriteFileKeeps ==
  ASSUME EffectsInv, NEW s \in Sessions, WriteFile(s)
  PROVE  EffectsInv'
<1>1. PICK result : /\ Answer(s, result)
                    /\ result.is_error => result.retryable
                    /\ \A e \in effects' \ effects : e.session = s
  BY DEF WriteFile, Error, Ok
<1>2. CallType /\ call[s].pc \in {"io", "dropped"}
  BY DEF WriteFile, EffectsInv, ThreadsAreAwaited
<1> QED
  BY <1>1, <1>2, AnswerChanges, LateStep

(* A step of a request under way: no thread works for it.                  *)
LEMMA RequestStep ==
  ASSUME EffectsInv, NEW s \in Sessions, CallType', io' = io,
         call[s].pc \in {"send", "body", "drain"},
         \A t \in Sessions \ {s} : call'[t] = call[t],
         \A e \in effects' \ effects : e.session = s,
         call'[s].pc \in {"body", "drain", "dropped", "returned"},
         call'[s].pc = "returned" /\ call'[s].result.is_error => call'[s].result.retryable
  PROVE  EffectsInv'
<1>1. io[s] \notin {"file_read", "file_write"}
  BY DEF EffectsInv, ThreadsAreAwaited
<1> QED
  BY <1>1, LateStep

(* A request that was sent is past every final error.                      *)
LEMMA SendKeeps ==
  ASSUME EffectsInv, NEW s \in Sessions, Send(s)
  PROVE  EffectsInv'
<1>1. CallType /\ call[s].pc = "send" /\ io' = io
  BY DEF Send, EffectsInv
<1>2. Requested(s).session = s
  BY DEF Requested
<1>3. \A e \in effects' \ effects : e.session = s
  BY <1>2 DEF Send
<1>4. Goto(s, "body") \/ Return(s, Error("REQUEST_FAILED", TRUE))
  BY DEF Send
<1>5. CASE Goto(s, "body")
  <2>1. CallType'
    BY <1>1, <1>5, GotoChanges DEF CallType
  <2> QED
    BY <1>1, <1>3, <1>5, <2>1, GotoChanges, RequestStep
<1>6. CASE Return(s, Error("REQUEST_FAILED", TRUE))
  <2>1. CallType'
    BY <1>1, <1>6, ReturnChanges DEF CallType
  <2>2. Error("REQUEST_FAILED", TRUE).retryable
    BY DEF Error
  <2>3. call'[s].pc = "returned" /\ call'[s].result = Error("REQUEST_FAILED", TRUE)
        /\ \A t \in Sessions \ {s} : call'[t] = call[t]
    BY <1>1, <1>6, ReturnChanges
  <2> QED
    BY <1>1, <1>3, <2>1, <2>2, <2>3, RequestStep
<1> QED
  BY <1>4, <1>5, <1>6

(* Reading on has no further effect.                                       *)
LEMMA ChunkKeeps ==
  ASSUME EffectsInv, NEW s \in Sessions, Chunk(s)
  PROVE  EffectsInv'
<1>1. CallType /\ call[s].pc = "body" /\ io' = io /\ effects' = effects
  BY DEF Chunk, EffectsInv
<1>2. PICK response, pc : /\ call' = [call EXCEPT ![s].response = response, ![s].pc = pc]
                          /\ pc \in {"drain", "body"}
  BY DEF Chunk
<1>3. CallType' /\ call'[s].pc = pc /\ \A t \in Sessions \ {s} : call'[t] = call[t]
  BY <1>1, <1>2, ChunkChanges
<1> QED
  BY <1>1, <1>2, <1>3, RequestStep

(* A body that breaks off may be asked for again.                          *)
LEMMA BodyKeeps ==
  ASSUME EffectsInv, NEW s \in Sessions, BodyFails(s) \/ BodyEnds(s)
  PROVE  EffectsInv'
<1>1. CallType /\ call[s].pc \in {"body", "drain"} /\ io' = io /\ effects' = effects
  BY DEF BodyFails, BodyEnds, EffectsInv
<1>2. PICK result : Return(s, result) /\ (result.is_error => result.retryable)
  BY DEF BodyFails, BodyEnds, Error, Ok
<1>3. CallType' /\ call'[s].pc = "returned" /\ call'[s].result = result
      /\ \A t \in Sessions \ {s} : call'[t] = call[t]
  BY <1>1, <1>2, ReturnChanges DEF CallType
<1> QED
  BY <1>1, <1>2, <1>3, RequestStep

(* A call that is dropped returns no error; its thread goes on.            *)
LEMMA DropKeeps ==
  ASSUME EffectsInv, NEW s \in Sessions, Drop(s)
  PROVE  EffectsInv'
<1>1. CallType /\ Goto(s, "dropped") /\ io' = io /\ effects' = effects
  BY DEF Drop, EffectsInv
<1>2. CallType' /\ call'[s].pc = "dropped" /\ \A t \in Sessions \ {s} : call'[t] = call[t]
  BY <1>1, GotoChanges DEF CallType
<1> QED
  BY <1>1, <1>2, LateStep

(* The inductive invariant of the calls.                                   *)
THEOREM EffectsInvariant == Spec => []EffectsInv
<1>1. Init => EffectsInv
  <2> SUFFICES ASSUME Init PROVE EffectsInv
    OBVIOUS
  <2> DEFINE first == [pc |-> "lookup", id |-> None, addresses |-> {}, response |-> NoResponse,
                       result |-> NoResult]
  <2>1. call = [s \in Sessions |-> first] /\ io = [s \in Sessions |-> "idle"] /\ effects = {}
    BY DEF Init
  <2>2. first = [pc |-> first.pc, id |-> first.id, addresses |-> first.addresses,
                 response |-> first.response, result |-> first.result]
    OBVIOUS
  <2> HIDE DEF first
  <2> QED
    BY <2>1, <2>2 DEF EffectsInv, CallType, ThreadsAreAwaited, EffectsAreLate
<1>2. ASSUME EffectsInv, [Next]_vars PROVE EffectsInv'
  <2>1. CASE UNCHANGED callVars
    BY <1>2, <2>1 DEF callVars, EffectsInv, CallType, ThreadsAreAwaited, EffectsAreLate
  <2>2. ASSUME NEW s \in Sessions, CallStep(s) PROVE EffectsInv'
    BY <1>2, <2>2, LookupKeeps, CheckKeeps, StartFileKeeps, ReadFileKeeps, WriteFileKeeps,
       StartHttpKeeps, ResolveKeeps, SendKeeps, ChunkKeeps, BodyKeeps, DropKeeps DEF CallStep
  <2> QED
    BY <1>2, <2>1, <2>2 DEF Next, vars
<1> QED
  BY <1>1, <1>2, PTL DEF Spec

(* A tool that failed for good changed nothing: no file was opened for     *)
(* writing, and no server was asked (ToolResult::Error's retryable).       *)
THEOREM FinalErrorsHadNoEffectHolds == Spec => []FinalErrorsHadNoEffect
<1>1. EffectsInv => FinalErrorsHadNoEffect
  BY DEF EffectsInv, EffectsAreLate, FinalErrorsHadNoEffect
<1> QED
  BY <1>1, EffectsInvariant, PTL

--------------------------------------------------------------------------------
(* What a step of a call does to that call, for the proofs that follow.    *)
Untouched(s) ==
  /\ \A t \in Sessions \ {s} : call'[t] = call[t]
  /\ asked' = asked

(* It keeps the tool that was looked up.                                   *)
SameTool(s) == call'[s].id = call[s].id

(* A call that goes on keeps its tool and its response.                    *)
LEMMA GotoMoves ==
  ASSUME CallType, NEW s \in Sessions, NEW pc, Goto(s, pc), asked' = asked
  PROVE  Untouched(s) /\ SameTool(s) /\ call'[s].pc = pc /\ call'[s].response = call[s].response
BY GotoChanges DEF Untouched, SameTool

(* A call that returns keeps its tool and its response.                    *)
LEMMA ReturnMoves ==
  ASSUME CallType, NEW s \in Sessions, NEW result, Return(s, result), asked' = asked
  PROVE  /\ Untouched(s) /\ SameTool(s)
         /\ call'[s].pc = "returned" /\ call'[s].response = call[s].response
         /\ call'[s].result = result
BY ReturnChanges DEF Untouched, SameTool

(* An answer of a thread returns, or finds nobody.                         *)
LEMMA AnswerMoves ==
  ASSUME CallType, NEW s \in Sessions, NEW result, Answer(s, result),
         call[s].pc \in {"io", "dropped"}, asked' = asked
  PROVE  /\ Untouched(s) /\ SameTool(s) /\ call'[s].response = call[s].response
         /\ call'[s].pc = "returned" \/ call'[s].pc = call[s].pc
<1>1. CASE call[s].pc = "io"
  BY <1>1, ReturnMoves DEF Answer
<1>2. CASE call[s].pc = "dropped"
  BY <1>2 DEF Answer, Untouched, SameTool
<1> QED
  BY <1>1, <1>2

--------------------------------------------------------------------------------
(* What was granted.                                                       *)

PastLookup == {"check", "dispatch", "io", "resolve", "send", "body", "drain", "dropped"}

(* The checks of call_tool hold from where they were made, ...             *)
ChecksHold(s) ==
  /\ call[s].pc \in PastLookup => NameOf[call[s].id] = asked[s].request.name
  /\ call[s].pc \in PastLookup \ {"check"} => Granted(s, call[s].id)

(* ... and so do those of http_request.                                    *)
AddressesChecked(s) ==
  /\ call[s].pc \in {"resolve", "send"} =>
       asked[s].request.name = "http_request" /\ "url" \in DOMAIN Args(s)
  /\ call[s].pc = "send" => /\ call[s].addresses \in AddressesOf[HostOf(Args(s).url)]
                            /\ Resolution(call[s].addresses) = "resolved"

EffectsGranted == \A e \in effects : ByGrantedTool(e) /\ CheckedBeforeSent(e)

GrantInv ==
  /\ \A s \in Sessions : ChecksHold(s) /\ AddressesChecked(s)
  /\ EffectsGranted

(* A call that nothing happens to keeps what holds of it.                  *)
LEMMA OtherCallsKeep ==
  ASSUME NEW t, call'[t] = call[t], asked' = asked
  PROVE  /\ ChecksHold(t)' <=> ChecksHold(t)
         /\ AddressesChecked(t)' <=> AddressesChecked(t)
<1>1. Args(t)' = Args(t) /\ asked'[t] = asked[t]
  BY DEF Args
<1>2. Granted(t, call[t].id)' <=> Granted(t, call[t].id)
  BY <1>1 DEF Granted
<1>3. ChecksHold(t)' <=> ChecksHold(t)
  BY <1>1, <1>2 DEF ChecksHold
<1>4. AddressesChecked(t)' <=> AddressesChecked(t)
  BY <1>1 DEF AddressesChecked
<1> QED
  BY <1>3, <1>4

(* What was done stays granted: its call keeps its tool.                   *)
LEMMA EffectsStayGranted ==
  ASSUME GrantInv, EffectsInv, NEW s \in Sessions, Untouched(s),
         SameTool(s) \/ call[s].pc = "lookup"
  PROVE  \A e \in effects : ByGrantedTool(e)' /\ CheckedBeforeSent(e)'
<1> SUFFICES ASSUME NEW e \in effects PROVE ByGrantedTool(e)' /\ CheckedBeforeSent(e)'
  OBVIOUS
<1>1. call'[e.session].id = call[e.session].id /\ asked' = asked
  BY DEF Untouched, SameTool, EffectsInv, EffectsAreLate
<1>2. ByGrantedTool(e) /\ CheckedBeforeSent(e)
  BY DEF GrantInv, EffectsGranted
<1>3. ByGrantedTool(e)'
  BY <1>1, <1>2 DEF ByGrantedTool
<1>4. CheckedBeforeSent(e)'
  BY <1>1, <1>2 DEF CheckedBeforeSent
<1> QED
  BY <1>3, <1>4

(* To keep GrantInv, a step only has to be right about its own call, and   *)
(* about what it does.                                                     *)
LEMMA GrantStep ==
  ASSUME GrantInv, EffectsInv, NEW s \in Sessions, Untouched(s),
         SameTool(s) \/ call[s].pc = "lookup",
         ChecksHold(s)', AddressesChecked(s)',
         \A e \in effects' \ effects : ByGrantedTool(e)' /\ CheckedBeforeSent(e)'
  PROVE  GrantInv'
<1>1. \A t \in Sessions : ChecksHold(t)' /\ AddressesChecked(t)'
  BY OtherCallsKeep DEF GrantInv, Untouched
<1>2. EffectsGranted'
  BY EffectsStayGranted DEF EffectsGranted
<1> QED
  BY <1>1, <1>2 DEF GrantInv

(* A step that neither passes a check nor does anything.                   *)
LEMMA PlainStep ==
  ASSUME GrantInv, EffectsInv, NEW s \in Sessions, Untouched(s), SameTool(s),
         effects' = effects,
         \/ call'[s].pc = "returned"
         \/ /\ call[s].pc \in PastLookup \ {"check"}
            /\ call'[s].pc \in {"io", "body", "drain", "dropped"}
  PROVE  GrantInv'
<1>1. Args(s)' = Args(s) /\ asked'[s] = asked[s]
  BY DEF Args, Untouched
<1>2. Granted(s, call[s].id)' <=> Granted(s, call[s].id)
  BY <1>1 DEF Granted, SameTool
<1>3. ChecksHold(s)' /\ AddressesChecked(s)'
  BY <1>1, <1>2 DEF GrantInv, ChecksHold, AddressesChecked, PastLookup, SameTool
<1> QED
  BY <1>3, GrantStep

(* What a call is granted depends on its request and tool only.            *)
LEMMA GrantStays ==
  ASSUME NEW s, asked' = asked, SameTool(s)
  PROVE  Granted(s, call[s].id)' <=> Granted(s, call[s].id)
<1>1. Args(s)' = Args(s) /\ asked'[s] = asked[s]
  BY DEF Args
<1> QED
  BY <1>1 DEF Granted, SameTool

--------------------------------------------------------------------------------
(* Each step of a call keeps GrantInv.                                     *)

(* A tool that was found has the name that was asked for.                  *)
LEMMA LookupGrants ==
  ASSUME GrantInv, EffectsInv, NamesInv, NEW s \in Sessions, Lookup(s)
  PROVE  GrantInv'
<1>1. CallType /\ call[s].pc = "lookup" /\ asked' = asked /\ effects' = effects
  BY DEF EffectsInv, Lookup
<1>2. CASE Found(asked[s].request.name)
  <2> DEFINE id == name_index[asked[s].request.name]
  <2>1. NameOf[id] = asked[s].request.name
    BY <1>2 DEF NamesInv, IndexIsRight, Found, Taken
  <2>2. call' = [call EXCEPT ![s].pc = "check", ![s].id = id]
    BY <1>2 DEF Lookup
  <2> HIDE DEF id
  <2>3. call'[s].pc = "check" /\ call'[s].id = id /\ Untouched(s)
    BY <1>1, <2>2, FoundChanges DEF Untouched
  <2>4. ChecksHold(s)' /\ AddressesChecked(s)'
    BY <1>1, <2>1, <2>3 DEF ChecksHold, AddressesChecked
  <2> QED
    BY <1>1, <2>3, <2>4, GrantStep
<1>3. CASE ~Found(asked[s].request.name)
  <2>1. Return(s, Error("UNKNOWN_TOOL", FALSE))
    BY <1>3 DEF Lookup
  <2> QED
    BY <1>1, <2>1, ReturnMoves, PlainStep
<1> QED
  BY <1>2, <1>3

(* A call that passes the check is granted its tool.                       *)
LEMMA CheckGrants ==
  ASSUME GrantInv, EffectsInv, NEW s \in Sessions, CheckCapability(s)
  PROVE  GrantInv'
<1>1. CallType /\ call[s].pc = "check" /\ asked' = asked /\ effects' = effects
  BY DEF EffectsInv, CheckCapability
<1>2. CASE Granted(s, call[s].id)
  <2>1. Untouched(s) /\ SameTool(s) /\ call'[s].pc = "dispatch"
    BY <1>1, <1>2, GotoMoves DEF CheckCapability
  <2>3. Granted(s, call[s].id)'
    BY <1>1, <1>2, <2>1, GrantStays
  <2>4. ChecksHold(s)' /\ AddressesChecked(s)'
    BY <1>1, <2>1, <2>3 DEF GrantInv, ChecksHold, AddressesChecked, SameTool, PastLookup
  <2> QED
    BY <1>1, <2>1, <2>4, GrantStep
<1>3. CASE ~Granted(s, call[s].id)
  <2>1. Return(s, Error("CAPABILITY_DENIED", FALSE))
    BY <1>3 DEF CheckCapability
  <2> QED
    BY <1>1, <2>1, ReturnMoves, PlainStep
<1> QED
  BY <1>2, <1>3

(* A file operation is one of a granted call.                              *)
LEMMA StartFileGrants ==
  ASSUME GrantInv, EffectsInv, NEW s \in Sessions, StartFile(s)
  PROVE  GrantInv'
<1>1. /\ CallType /\ call[s].pc = "dispatch" /\ asked' = asked /\ effects' = effects
      /\ Goto(s, "io") \/ \E error : Return(s, error)
  BY DEF EffectsInv, StartFile
<1>2. CASE Goto(s, "io")
  BY <1>1, <1>2, GotoMoves, PlainStep DEF PastLookup
<1>3. CASE \E error : Return(s, error)
  BY <1>1, <1>3, ReturnMoves, PlainStep
<1> QED
  BY <1>1, <1>2, <1>3

(* What a thread reads or writes, a granted call asked for.                *)
LEMMA ReadFileGrants ==
  ASSUME GrantInv, EffectsInv, NEW s \in Sessions, ReadFile(s)
  PROVE  GrantInv'
<1>1. PICK result : Answer(s, result)
  BY DEF ReadFile
<1>2. CallType /\ call[s].pc \in {"io", "dropped"} /\ asked' = asked /\ effects' = effects
  BY DEF ReadFile, EffectsInv, ThreadsAreAwaited
<1>3. call[s].pc = "io" => call'[s].pc = "returned"
  BY <1>1, <1>2, ReturnMoves DEF Answer
<1> QED
  BY <1>1, <1>2, <1>3, AnswerMoves, PlainStep DEF PastLookup

(* A file is opened for writing by a call that was granted its tool.       *)
LEMMA WriteFileGrants ==
  ASSUME GrantInv, EffectsInv, NEW s \in Sessions, WriteFile(s)
  PROVE  GrantInv'
<1>1. PICK result : Answer(s, result)
  BY DEF WriteFile
<1>2. /\ CallType /\ call[s].pc \in {"io", "dropped"} /\ asked' = asked
      /\ \A e \in effects' \ effects : e = [session |-> s, file |-> File(s)]
  BY DEF WriteFile, EffectsInv, ThreadsAreAwaited
<1>3. /\ Untouched(s) /\ SameTool(s)
      /\ call'[s].pc = "returned" \/ call'[s].pc = call[s].pc
  BY <1>1, <1>2, AnswerMoves
<1>4. NameOf[call[s].id] = asked[s].request.name /\ Granted(s, call[s].id)
  BY <1>2 DEF GrantInv, ChecksHold, PastLookup
<1>6. Granted(s, call[s].id)'
  BY <1>2, <1>3, <1>4, GrantStays
<1>7. ChecksHold(s)' /\ AddressesChecked(s)'
  BY <1>2, <1>3, <1>4, <1>6 DEF ChecksHold, AddressesChecked, SameTool, PastLookup
<1>8. \A e \in effects' \ effects : ByGrantedTool(e)' /\ CheckedBeforeSent(e)'
  BY <1>2, <1>3, <1>4 DEF ByGrantedTool, CheckedBeforeSent, SameTool, Granted
<1> QED
  BY <1>3, <1>7, <1>8, GrantStep

(* A request is one of a granted call.                                     *)
LEMMA StartHttpGrants ==
  ASSUME GrantInv, EffectsInv, NEW s \in Sessions, StartHttp(s)
  PROVE  GrantInv'
<1>1. /\ CallType /\ call[s].pc = "dispatch" /\ asked' = asked /\ effects' = effects
      /\ asked[s].request.name = "http_request"
  BY DEF EffectsInv, StartHttp
<1>2. CASE AllPass(HttpChecks(s))
  <2>1. Untouched(s) /\ SameTool(s) /\ call'[s].pc = "resolve"
    BY <1>1, <1>2, GotoMoves DEF StartHttp
  <2>2. "url" \in DOMAIN Args(s)
    <3>1. 2 \in DOMAIN HttpChecks(s)
          /\ HttpChecks(s)[2] = Unless("url" \in DOMAIN Args(s), "INVALID_ARGS")
      BY DEF HttpChecks
    <3>2. ~Unless("url" \in DOMAIN Args(s), "INVALID_ARGS").fails
      BY <1>2, <3>1 DEF AllPass
    <3> QED
      BY <3>2 DEF Unless
  <2>3. Args(s)' = Args(s)
    BY <1>1 DEF Args
  <2>4. Granted(s, call[s].id)'
    BY <1>1, <2>1, GrantStays DEF GrantInv, ChecksHold, PastLookup
  <2>5. ChecksHold(s)' /\ AddressesChecked(s)'
    BY <1>1, <2>1, <2>2, <2>3, <2>4
       DEF GrantInv, ChecksHold, AddressesChecked, SameTool, PastLookup
  <2> QED
    BY <1>1, <2>1, <2>5, GrantStep
<1>3. CASE ~AllPass(HttpChecks(s))
  BY <1>1, <1>3, ReturnMoves, PlainStep DEF StartHttp
<1> QED
  BY <1>2, <1>3

(* A host that was resolved was found to have public addresses only.       *)
LEMMA ResolveGrants ==
  ASSUME GrantInv, EffectsInv, NEW s \in Sessions, Resolve(s)
  PROVE  GrantInv'
<1> DEFINE Public(addresses) ==
             /\ addresses \in AddressesOf[HostOf(Args(s).url)]
             /\ Resolution(addresses) = "resolved"
             /\ call' = [call EXCEPT ![s].pc = "send", ![s].addresses = addresses]
<1>1. /\ CallType /\ call[s].pc = "resolve" /\ asked' = asked /\ effects' = effects
      /\ (\E addresses : Public(addresses)) \/ \E error : Return(s, error)
  BY DEF EffectsInv, Resolve
<1>2. CASE \E addresses : Public(addresses)
  <2> PICK addresses : Public(addresses)
    BY <1>2
  <2>1. Untouched(s) /\ SameTool(s) /\ call'[s].pc = "send" /\ call'[s].addresses = addresses
    BY <1>1, ResolvedChanges DEF Untouched, SameTool
  <2>2. Args(s)' = Args(s)
    BY <1>1 DEF Args
  <2>3. Granted(s, call[s].id)'
    BY <1>1, <2>1, GrantStays DEF GrantInv, ChecksHold, PastLookup
  <2>4. ChecksHold(s)'
    BY <1>1, <2>1, <2>3 DEF GrantInv, ChecksHold, SameTool, PastLookup
  <2>5. AddressesChecked(s)'
    BY <1>1, <2>1, <2>2 DEF GrantInv, AddressesChecked
  <2> QED
    BY <1>1, <2>1, <2>4, <2>5, GrantStep
<1>3. CASE \E error : Return(s, error)
  BY <1>1, <1>3, ReturnMoves, PlainStep
<1> QED
  BY <1>1, <1>2, <1>3

(* What is handed over: its host was granted and resolved.                 *)
LEMMA RequestIsChecked ==
  ASSUME GrantInv, NEW s \in Sessions, call[s].pc = "send"
  PROVE  ByGrantedTool(Requested(s)) /\ CheckedBeforeSent(Requested(s))
<1> DEFINE host == HostOf(Args(s).url)
           addresses == call[s].addresses
           headers == IF "headers" \in DOMAIN Args(s) THEN SentHeaders(Args(s).headers) ELSE {}
<1>1. /\ asked[s].request.name = "http_request" /\ "url" \in DOMAIN Args(s)
      /\ addresses \in AddressesOf[host] /\ Resolution(addresses) = "resolved"
      /\ NameOf[call[s].id] = asked[s].request.name /\ Granted(s, call[s].id)
  BY DEF GrantInv, ChecksHold, AddressesChecked, PastLookup
<1>2. /\ Requested(s).session = s /\ HostOf(Requested(s).url) = host
      /\ Requested(s).addresses = addresses /\ Requested(s).headers = headers
  BY DEF Requested
<1>3. CanAccessDomain(host, asked[s].grant.domains) /\ call[s].id \in asked[s].grant.tools
  BY <1>1 DEF Granted
<1>4. addresses # {} /\ \A a \in addresses : ~IsBlocked(a)
  BY <1>1 DEF Resolution
<1>5. \A h \in headers : h.name \notin ForbiddenHeaders
  BY DEF SentHeaders
<1> HIDE DEF host, addresses, headers
<1> QED
  BY <1>1, <1>2, <1>3, <1>4, <1>5 DEF ByGrantedTool, CheckedBeforeSent

(* A request is handed over for a call that passed all the checks.         *)
LEMMA SendGrants ==
  ASSUME GrantInv, EffectsInv, NEW s \in Sessions, Send(s)
  PROVE  GrantInv'
<1>1. /\ CallType /\ call[s].pc = "send" /\ asked' = asked
      /\ \A e \in effects' \ effects : e = Requested(s)
      /\ Goto(s, "body") \/ \E error : Return(s, error)
  BY DEF EffectsInv, Send
<1>2. Untouched(s) /\ SameTool(s) /\ call'[s].pc \in {"body", "returned"}
  BY <1>1, GotoMoves, ReturnMoves
<1>4. Granted(s, call[s].id)'
  BY <1>1, <1>2, GrantStays DEF GrantInv, ChecksHold, PastLookup
<1>5. ChecksHold(s)' /\ AddressesChecked(s)'
  BY <1>1, <1>2, <1>4 DEF GrantInv, ChecksHold, AddressesChecked, SameTool, PastLookup
<1>6. ByGrantedTool(Requested(s)) /\ CheckedBeforeSent(Requested(s)) /\ Requested(s).session = s
  BY <1>1, RequestIsChecked DEF Requested
<1>7. \A e : e = Requested(s) => ByGrantedTool(e)' /\ CheckedBeforeSent(e)'
  BY <1>1, <1>2, <1>6 DEF ByGrantedTool, CheckedBeforeSent, SameTool
<1> QED
  BY <1>1, <1>2, <1>5, <1>7, GrantStep

(* The rest of a call does nothing more.                                   *)
LEMMA LaterGrants ==
  ASSUME GrantInv, EffectsInv, NEW s \in Sessions,
         Chunk(s) \/ BodyFails(s) \/ BodyEnds(s) \/ Drop(s)
  PROVE  GrantInv'
<1>1. /\ CallType /\ asked' = asked /\ effects' = effects
      /\ call[s].pc \in PastLookup \ {"check"}
  BY DEF EffectsInv, Chunk, BodyFails, BodyEnds, Drop, PastLookup
<1>2. CASE Chunk(s)
  <2>1. PICK response, pc : /\ call' = [call EXCEPT ![s].response = response, ![s].pc = pc]
                            /\ pc \in {"drain", "body"}
    BY <1>2 DEF Chunk
  <2>2. CallType' /\ call'[s].pc = pc /\ call'[s].id = call[s].id
        /\ \A t \in Sessions \ {s} : call'[t] = call[t]
    BY <1>1, <1>2, <2>1, ChunkChanges DEF Chunk
  <2>3. call'[s].pc \in {"drain", "body"}
    BY <2>1, <2>2
  <2>4. Untouched(s) /\ SameTool(s)
    BY <1>1, <2>2 DEF Untouched, SameTool
  <2> QED
    BY <1>1, <2>3, <2>4, PlainStep
<1>3. CASE BodyFails(s) \/ BodyEnds(s)
  BY <1>1, <1>3, ReturnMoves, PlainStep DEF BodyFails, BodyEnds
<1>4. CASE Drop(s)
  BY <1>1, <1>4, GotoMoves, PlainStep DEF Drop
<1> QED
  BY <1>2, <1>3, <1>4

(* The registry may change under a call: GrantInv does not depend on it.   *)
LEMMA RegistryGrants ==
  ASSUME GrantInv, UNCHANGED callVars
  PROVE  GrantInv'
<1>1. call' = call /\ asked' = asked /\ effects' = effects
  BY DEF callVars
<1>2. \A s \in Sessions : ChecksHold(s)' /\ AddressesChecked(s)'
  BY <1>1, OtherCallsKeep DEF GrantInv
<1>3. EffectsGranted'
  BY <1>1 DEF GrantInv, EffectsGranted, ByGrantedTool, CheckedBeforeSent
<1> QED
  BY <1>2, <1>3 DEF GrantInv

(* The inductive invariant, on top of those of the names and the calls.    *)
THEOREM GrantInvariant == Spec => []GrantInv
<1>1. Init => GrantInv
  BY DEF Init, GrantInv, ChecksHold, AddressesChecked, EffectsGranted, PastLookup
<1>2. ASSUME GrantInv, EffectsInv, NamesInv, [Next]_vars PROVE GrantInv'
  <2>1. CASE UNCHANGED callVars
    BY <1>2, <2>1, RegistryGrants
  <2>2. ASSUME NEW s \in Sessions, CallStep(s) PROVE GrantInv'
    BY <1>2, <2>2, LookupGrants, CheckGrants, StartFileGrants, ReadFileGrants, WriteFileGrants,
       StartHttpGrants, ResolveGrants, SendGrants, LaterGrants DEF CallStep
  <2> QED
    BY <1>2, <2>1, <2>2 DEF Next, vars
<1> QED
  BY <1>1, <1>2, NamesInvariant, EffectsInvariant, PTL DEF Spec

--------------------------------------------------------------------------------
(* What was read of a response.                                            *)

(* The lesser of two numbers.                                              *)
LEMMA MinOfTwo ==
  ASSUME NEW a \in Nat, NEW b \in Nat
  PROVE  Min({a, b}) = IF a <= b THEN a ELSE b
<1> DEFINE m == IF a <= b THEN a ELSE b
<1>1. m \in {a, b} /\ \A y \in {a, b} : m <= y
  OBVIOUS
<1>2. \A x \in {a, b} : (\A y \in {a, b} : x <= y) => x = m
  OBVIOUS
<1> HIDE DEF m
<1>3. Min({a, b}) = m
  BY <1>1, <1>2 DEF Min
<1> QED
  BY <1>3 DEF m

(* What the server sends, cut in two, joins again.                         *)
LEMMA UnitsJoin ==
  ASSUME NEW n \in Nat, NEW first, first = n + 1, NEW last \in Nat, n <= last
  PROVE  Units(1, n) \o Units(first, last) = Units(1, last)
<1> DEFINE p == Units(1, n)
           q == Units(first, last)
           all == Units(1, last)
<1>1. p \in Seq(Nat) /\ Len(p) = n /\ \A k \in 1..n : p[k] = k
  BY DEF Units
<1>2. q \in Seq(Nat) /\ Len(q) = last - n /\ \A k \in 1..last - n : q[k] = n + k
  BY DEF Units
<1>3. all \in Seq(Nat) /\ Len(all) = last /\ \A k \in 1..last : all[k] = k
  BY DEF Units
<1> HIDE DEF p, q, all
<1>4. p \o q \in Seq(Nat) /\ Len(p \o q) = last
  BY <1>1, <1>2
<1>5. \A k \in 1..last : (p \o q)[k] = all[k]
  BY <1>1, <1>2, <1>3
<1>6. p \o q = all
  BY <1>3, <1>4, <1>5
<1> QED
  BY <1>6 DEF p, q, all

(* The first units of a chunk are those up to the cap.                     *)
LEMMA UnitsCut ==
  ASSUME NEW n \in Nat, NEW first, first = n + 1, NEW cap \in Nat, NEW last \in Nat,
         n <= cap, cap <= last
  PROVE  SubSeq(Units(first, last), 1, cap - n) = Units(first, cap)
<1> DEFINE q == Units(first, last)
           kept == Units(first, cap)
<1>1. q \in Seq(Nat) /\ Len(q) = last - n /\ \A k \in 1..last - n : q[k] = n + k
  BY DEF Units
<1>2. kept \in Seq(Nat) /\ Len(kept) = cap - n /\ \A k \in 1..cap - n : kept[k] = n + k
  BY DEF Units
<1> HIDE DEF q, kept
<1>3. /\ SubSeq(q, 1, cap - n) \in Seq(Nat) /\ Len(SubSeq(q, 1, cap - n)) = cap - n
      /\ \A k \in 1..cap - n : SubSeq(q, 1, cap - n)[k] = q[k]
  BY <1>1
<1>4. SubSeq(q, 1, cap - n) = kept
  BY <1>1, <1>2, <1>3
<1> QED
  BY <1>4 DEF q, kept

(* A chunk is kept up to the cap.                                          *)
LEMMA KeptIsRight ==
  ASSUME NEW n \in Nat, n <= BodyCap, NEW first, first = n + 1, NEW last \in Nat, n < last
  PROVE  Kept(Units(1, n), Units(first, last)) =
           [body |-> Units(1, Min({last, BodyCap})),
            truncated |-> IF last > BodyCap THEN TRUE ELSE FALSE]
<1> DEFINE body == Units(1, n)
           chunk == Units(first, last)
<1>1. BodyCap \in Nat
  BY CallAssumption
<1>2. Len(body) = n
  BY DEF Units
<1>3. Len(chunk) = last - n
  BY DEF Units
<1>4. CASE last > BodyCap
  <2>1. Min({last, BodyCap}) = BodyCap
    BY <1>1, <1>4, MinOfTwo
  <2>2. SubSeq(chunk, 1, BodyCap - n) = Units(first, BodyCap)
    BY <1>1, <1>4, UnitsCut
  <2>3. body \o Units(first, BodyCap) = Units(1, BodyCap)
    BY <1>1, UnitsJoin
  <2> HIDE DEF body, chunk
  <2>4. Len(body) + Len(chunk) > BodyCap
    BY <1>1, <1>2, <1>3, <1>4
  <2>5. body \o SubSeq(chunk, 1, BodyCap - Len(body)) = Units(1, BodyCap)
    BY <1>2, <2>2, <2>3
  <2>6. Kept(body, chunk) = [body |-> Units(1, BodyCap), truncated |-> TRUE]
    BY <2>4, <2>5 DEF Kept
  <2> QED
    BY <1>4, <2>1, <2>6 DEF body, chunk
<1>5. CASE ~(last > BodyCap)
  <2>1. Min({last, BodyCap}) = last
    BY <1>1, <1>5, MinOfTwo
  <2>2. body \o chunk = Units(1, last)
    <3>1. n <= last
      OBVIOUS
    <3> QED
      BY <3>1, UnitsJoin
  <2> HIDE DEF body, chunk
  <2>3. ~(Len(body) + Len(chunk) > BodyCap)
    BY <1>1, <1>2, <1>3, <1>5
  <2>4. Kept(body, chunk) = [body |-> Units(1, last), truncated |-> FALSE]
    BY <2>2, <2>3 DEF Kept
  <2> QED
    BY <1>5, <2>1, <2>4 DEF body, chunk
<1> QED
  BY <1>4, <1>5

(* The response of a call is what was sent, up to the cap.                 *)
ResponseRight(response) ==
  /\ response.sent \in Nat
  /\ response.body = Units(1, Min({response.sent, BodyCap}))
  /\ response.truncated = IF response.sent > BodyCap THEN TRUE ELSE FALSE

ResponseInv ==
  \A s \in Sessions :
    /\ ResponseRight(call[s].response)
    /\ call[s].pc \in {"lookup", "check", "dispatch", "resolve", "send", "body"} =>
         call[s].response.sent <= BodyCap

(* Only a chunk changes a response.                                        *)
LEMMA ResponseStays ==
  ASSUME EffectsInv, NEW s \in Sessions, CallStep(s), ~Chunk(s)
  PROVE  /\ \A t \in Sessions : call'[t].response = call[t].response
         /\ \A t \in Sessions :
              call'[t].pc \in {"lookup", "check", "dispatch", "resolve", "send", "body"} =>
                call[t].pc \in {"lookup", "check", "dispatch", "resolve", "send", "body"}
<1> USE DEF EffectsInv
<1>1. ASSUME NEW result, Return(s, result), call[s].pc # "none"
      PROVE  /\ \A t \in Sessions : call'[t].response = call[t].response
             /\ call'[s].pc = "returned" /\ \A t \in Sessions \ {s} : call'[t] = call[t]
  BY <1>1, ReturnChanges
<1>2. ASSUME NEW pc, Goto(s, pc)
      PROVE  /\ \A t \in Sessions : call'[t].response = call[t].response
             /\ call'[s].pc = pc /\ \A t \in Sessions \ {s} : call'[t] = call[t]
  BY <1>2, GotoChanges
<1>3. CASE Lookup(s) /\ Found(asked[s].request.name)
  <2>1. call[s].pc = "lookup"
        /\ call' = [call EXCEPT ![s].pc = "check", ![s].id = name_index[asked[s].request.name]]
    BY <1>3 DEF Lookup
  <2>2. call'[s].response = call[s].response /\ \A t \in Sessions \ {s} : call'[t] = call[t]
    BY <2>1, FoundChanges
  <2> QED
    BY <2>1, <2>2
<1>4. CASE ReadFile(s) \/ WriteFile(s)
  <2>1. PICK result : Answer(s, result)
    BY <1>4 DEF ReadFile, WriteFile
  <2>2. call[s].pc \in {"io", "dropped"}
    BY <1>4 DEF ReadFile, WriteFile, ThreadsAreAwaited
  <2>3. CASE call[s].pc = "io"
    BY <1>1, <2>1, <2>3 DEF Answer
  <2>4. CASE call[s].pc = "dropped"
    BY <2>1, <2>4 DEF Answer
  <2> QED
    BY <2>2, <2>3, <2>4
<1>6. CASE Resolve(s)
  <2>1. call[s].pc = "resolve"
        /\ \/ \E addresses : call' = [call EXCEPT ![s].pc = "send", ![s].addresses = addresses]
           \/ \E error : Return(s, error)
    BY <1>6 DEF Resolve
  <2>2. CASE \E error : Return(s, error)
    BY <1>1, <2>1, <2>2
  <2>3. CASE \E addresses : call' = [call EXCEPT ![s].pc = "send", ![s].addresses = addresses]
    <3>1. call'[s].response = call[s].response /\ \A t \in Sessions \ {s} : call'[t] = call[t]
      BY <2>3, ResolvedChanges
    <3> QED
      BY <2>1, <3>1
  <2> QED
    BY <2>1, <2>2, <2>3
<1>5. CASE /\ ~(Lookup(s) /\ Found(asked[s].request.name))
           /\ ~ReadFile(s) /\ ~WriteFile(s) /\ ~Resolve(s)
  <2>1. /\ (\E result : Return(s, result)) \/ (\E pc : Goto(s, pc))
        /\ call[s].pc \in {"lookup", "check", "dispatch", "resolve", "send", "body", "io", "drain"}
        /\ call[s].pc \in {"io", "drain"} =>
             (\E result : Return(s, result)) \/ Goto(s, "dropped")
    BY <1>5 DEF CallStep, Lookup, CheckCapability, StartFile, StartHttp, Send, BodyFails,
       BodyEnds, Drop
  <2> QED
    BY <1>1, <1>2, <2>1
<1> QED
  BY <1>3, <1>4, <1>5, <1>6

(* The inductive invariant of the responses.                               *)
THEOREM ResponseInvariant == Spec => []ResponseInv
<1>1. Init => ResponseInv
  <2> SUFFICES ASSUME Init, NEW s \in Sessions
               PROVE  ResponseRight(call[s].response) /\ call[s].response.sent <= BodyCap
    BY DEF ResponseInv
  <2>1. call[s].response = NoResponse /\ BodyCap \in Nat
    BY CallAssumption DEF Init
  <2>2. Min({0, BodyCap}) = 0
    BY <2>1, MinOfTwo
  <2>3. Units(1, 0) = <<>>
    BY DEF Units
  <2> QED
    BY <2>1, <2>2, <2>3 DEF NoResponse, ResponseRight
<1>2. ASSUME ResponseInv, EffectsInv, [Next]_vars PROVE ResponseInv'
  <2>1. CASE UNCHANGED callVars
    BY <1>2, <2>1 DEF callVars, ResponseInv, ResponseRight
  <2>2. ASSUME NEW s \in Sessions, CallStep(s), ~Chunk(s) PROVE ResponseInv'
    <3>1. \A t \in Sessions : call'[t].response = call[t].response
      BY <1>2, <2>2, ResponseStays
    <3>2. ASSUME NEW t \in Sessions PROVE ResponseRight(call'[t].response)
      BY <1>2, <3>1, <3>2 DEF ResponseInv
    <3>3. ASSUME NEW t \in Sessions, call'[t].pc \in {"lookup", "check", "dispatch", "resolve", "send", "body"}
          PROVE  call'[t].response.sent <= BodyCap
      <4>1. call[t].pc \in {"lookup", "check", "dispatch", "resolve", "send", "body"}
        BY <1>2, <2>2, <3>3, ResponseStays
      <4> QED
        BY <1>2, <3>1, <4>1 DEF ResponseInv
    <3> QED
      BY <3>2, <3>3 DEF ResponseInv, ResponseRight
  <2>3. ASSUME NEW s \in Sessions, Chunk(s) PROVE ResponseInv'
    <3> DEFINE n == call[s].response.sent
    <3>1. CallType /\ call[s].pc = "body"
      BY <1>2, <2>3 DEF EffectsInv, Chunk
    <3>2. n \in Nat /\ n <= BodyCap /\ call[s].response.body = Units(1, n)
      BY <1>2, <3>1, MinOfTwo, CallAssumption DEF ResponseInv, ResponseRight
    <3>3. PICK last \in n + 1..MaxBody :
            LET kept == Kept(call[s].response.body, Units(n + 1, last)) IN
            call' = [call EXCEPT ![s].response = [body |-> kept.body, truncated |-> kept.truncated,
                                                  sent |-> last],
                                 ![s].pc = IF kept.truncated THEN "drain" ELSE "body"]
      BY <2>3 DEF Chunk
    <3> DEFINE kept == Kept(call[s].response.body, Units(n + 1, last))
               response == [body |-> kept.body, truncated |-> kept.truncated, sent |-> last]
               pc == IF kept.truncated THEN "drain" ELSE "body"
    <3>4. last \in Nat /\ n < last
      BY <3>2, <3>3, CallAssumption
    <3>5. kept = [body |-> Units(1, Min({last, BodyCap})),
                  truncated |-> IF last > BodyCap THEN TRUE ELSE FALSE]
      BY <3>2, <3>4, KeptIsRight
    <3>6. call' = [call EXCEPT ![s].response = response, ![s].pc = pc]
      BY <3>3
    <3>7. ResponseRight(response) /\ (pc = "body" => response.sent <= BodyCap)
          /\ pc \in {"body", "drain"}
      <4> HIDE DEF kept
      <4>1. /\ kept.body = Units(1, Min({last, BodyCap}))
            /\ kept.truncated = IF last > BodyCap THEN TRUE ELSE FALSE
        BY <3>5
      <4>2. /\ response.sent = last /\ response.body = Units(1, Min({last, BodyCap}))
            /\ response.truncated = IF last > BodyCap THEN TRUE ELSE FALSE
        BY <4>1
      <4>3. pc = IF last > BodyCap THEN "drain" ELSE "body"
        BY <4>1
      <4>4. ResponseRight(response)
        BY <3>4, <4>2 DEF ResponseRight
      <4>5. CASE last > BodyCap
        BY <4>3, <4>4, <4>5
      <4>6. CASE ~(last > BodyCap)
        BY <3>4, <4>2, <4>3, <4>4, <4>6, CallAssumption
      <4> QED
        BY <4>5, <4>6
    <3> HIDE DEF response, pc, kept, n
    <3>8. PICK new, after : new = response /\ after = pc
      OBVIOUS
    <3>9. /\ call'[s].pc = after /\ call'[s].response = new
          /\ \A t \in Sessions \ {s} : call'[t] = call[t]
      <4>1. call' = [call EXCEPT ![s].response = new, ![s].pc = after]
        BY <3>6, <3>8
      <4>2. /\ CallType' \/ io' # io
            /\ call'[s].pc = after /\ call'[s].id = call[s].id
            /\ call'[s].response = new
            /\ \A t \in Sessions \ {s} : call'[t] = call[t]
        BY <2>3, <3>1, <4>1, ChunkChanges
      <4> QED
        BY <4>2
    <3>10. ResponseRight(new) /\ (after = "body" => new.sent <= BodyCap)
           /\ after \in {"body", "drain"}
      BY <3>7, <3>8
    <3> QED
      BY <1>2, <3>9, <3>10 DEF ResponseInv, ResponseRight
  <2> QED
    BY <1>2, <2>1, <2>2, <2>3 DEF Next, vars
<1> QED
  BY <1>1, <1>2, EffectsInvariant, PTL DEF Spec

(* A response is what the server sent, in order, up to the cap, and says   *)
(* that it is cut exactly when more was sent (http_tool.rs:385-402).       *)
THEOREM ResponsesAreWholeOrCutHolds == Spec => []ResponsesAreWholeOrCut
<1>1. ResponseInv => ResponsesAreWholeOrCut
  BY DEF ResponseInv, ResponseRight, ResponsesAreWholeOrCut
<1> QED
  BY <1>1, ResponseInvariant, PTL

--------------------------------------------------------------------------------
(* Where paths lead.                                                       *)

There == (Tree \ DOMAIN Links) \cup {Links[l] : l \in DOMAIN Links} \cup {Nowhere}

(* No path leads through ".." once it is looked up.                        *)
LEMMA NowhereIsNoPath == Nowhere \notin Seq(STRING \ {".."}) /\ Nowhere \notin Tree
<1>1. Nowhere \notin Seq(STRING \ {".."})
  <2> SUFFICES ASSUME Nowhere \in Seq(STRING \ {".."}) PROVE FALSE
    OBVIOUS
  <2>1. Len(Nowhere) = 2 /\ Nowhere[1] = ".."
    BY DEF Nowhere
  <2>2. \A k \in 1..Len(Nowhere) : Nowhere[k] \in STRING \ {".."}
    OBVIOUS
  <2>3. Nowhere[1] \in STRING \ {".."}
    BY <2>1, <2>2
  <2> QED
    BY <2>1, <2>3
<1> QED
  BY <1>1, PathAssumption

(* Follow goes from one place to another, component after component.       *)
LEMMA Follows ==
  ASSUME NEW at \in There, NEW component
  PROVE  Follow(at, component) \in There
BY PathAssumption DEF Follow, There

Leads(run, path) ==
  /\ run \in [0..Len(path) -> There]
  /\ run[0] = <<>> /\ \A k \in 1..Len(path) : run[k] = Follow(run[k - 1], path[k])

(* Canonical is where following a path component by component ends.        *)
LEMMA CanonicalRuns ==
  ASSUME NEW S, NEW path \in Seq(S), NEW run, Leads(run, path)
  PROVE  Canonical(path) = run[Len(path)]
<1> DEFINE Is(g) == g = [s \in SUBSET DOMAIN path |->
                           IF s = {} THEN <<>> ELSE Follow(g[s \ {Max(s)}], path[Max(s)])]
<1>1. PICK n \in Nat : n = Len(path)
  OBVIOUS
<1>2. PICK V : V = There
  OBVIOUS
<1>3. PICK fold : fold = CHOOSE g : Is(g)
  OBVIOUS
<1>4. DOMAIN path = 1..n /\ Canonical(path) = fold[1..n]
  BY <1>1, <1>3 DEF Canonical, FoldLeft, MapThenFoldSet
<1>5. <<>> \in V
  BY <1>2, PathAssumption DEF There
<1>6. PICK step \in [1..n -> [V -> V]] : \A k \in 1..n, at \in V : step[k][at] = Follow(at, path[k])
  <2>1. [k \in 1..n |-> [at \in V |-> Follow(at, path[k])]] \in [1..n -> [V -> V]]
    BY <1>2, Follows
  <2> QED
    BY <2>1
<1>7. PICK g \in [SUBSET (1..n) -> V] : FoldsAlong(g, n, <<>>, step)
  BY <1>5, FoldExists
<1>8. \A s \in SUBSET (1..n) : s # {} => Max(s) \in 1..n /\ s \ {Max(s)} \in SUBSET (1..n)
  <2> SUFFICES ASSUME NEW s \in SUBSET (1..n), s # {} PROVE Max(s) \in s
    OBVIOUS
  <2>1. s \in SUBSET (0..n)
    OBVIOUS
  <2> QED
    BY <2>1, MaxIsGreatest
<1>9. Is(g)
  <2> SUFFICES ASSUME NEW s \in SUBSET (1..n)
               PROVE  g[s] = IF s = {} THEN <<>> ELSE Follow(g[s \ {Max(s)}], path[Max(s)])
    BY <1>4
  <2> QED
    BY <1>6, <1>7, <1>8 DEF FoldsAlong
<1>10. Is(fold)
  BY <1>3, <1>9
<1>11. FoldsWithin(fold, n, V, <<>>, step)
  <2>1. \A s \in SUBSET (1..n) :
          fold[s] = IF s = {} THEN <<>> ELSE Follow(fold[s \ {Max(s)}], path[Max(s)])
    BY <1>4, <1>10
  <2> HIDE DEF Is
  <2>2. fold[{}] = <<>>
    BY <2>1
  <2>3. ASSUME NEW s \in SUBSET (1..n), s # {}, fold[s \ {Max(s)}] \in V
        PROVE  fold[s] = step[Max(s)][fold[s \ {Max(s)}]]
    BY <1>6, <1>8, <2>1, <2>3
  <2> QED
    BY <2>2, <2>3 DEF FoldsWithin
<1>12. run \in [0..n -> V]
  BY <1>1, <1>2 DEF Leads
<1>13. CountsAlong(run, n, <<>>, step)
  <2>1. ASSUME NEW k \in 1..n PROVE run[k] = step[k][run[k - 1]]
    <3>1. run[k - 1] \in V
      BY <1>12
    <3>2. run[k] = Follow(run[k - 1], path[k])
      BY <1>1 DEF Leads
    <3> QED
      BY <1>6, <3>1, <3>2
  <2>2. SUFFICES ASSUME NEW k \in 0..n
                 PROVE  run[k] = IF k = 0 THEN <<>> ELSE step[k][run[k - 1]]
    BY DEF CountsAlong
  <2>3. CASE k # 0
    <3>1. k \in 1..n
      BY <2>3
    <3> QED
      BY <2>1, <2>3, <3>1
  <2>4. CASE k = 0
    <3>1. run[0] = <<>>
      BY DEF Leads
    <3> QED
      BY <2>4, <3>1
  <2> QED
    BY <2>3, <2>4
<1>14. EndsAs(fold, run, n)
  BY <1>5, <1>11, <1>12, <1>13, FoldRuns
<1> QED
  BY <1>1, <1>4, <1>14 DEF EndsAs

(* A path leads where its last component leads from where the rest does.   *)
LEMMA CanonicalOf ==
  ASSUME NEW S, NEW path \in Seq(S)
  PROVE  /\ Canonical(path) \in There
         /\ path = <<>> => Canonical(path) = <<>>
         /\ path # <<>> => Canonical(path) = Follow(Canonical(Front(path)), Last(path))
<1>1. PICK n \in Nat : n = Len(path)
  OBVIOUS
<1>2. PICK V : V = There
  OBVIOUS
<1>3. <<>> \in V
  BY <1>2, PathAssumption DEF There
<1>4. PICK step \in [1..n -> [V -> V]] : \A k \in 1..n, at \in V : step[k][at] = Follow(at, path[k])
  <2>1. [k \in 1..n |-> [at \in V |-> Follow(at, path[k])]] \in [1..n -> [V -> V]]
    BY <1>2, Follows
  <2> QED
    BY <2>1
<1>5. PICK run \in [0..n -> V] : CountsAlong(run, n, <<>>, step)
  BY <1>3, AlongNumbers
<1>6. run[0] = <<>>
  BY <1>5 DEF CountsAlong
<1>7. ASSUME NEW k \in 1..n PROVE run[k] = Follow(run[k - 1], path[k])
  <2>1. k \in 0..n /\ k # 0 /\ run[k - 1] \in V
    OBVIOUS
  <2>2. run[k] = step[k][run[k - 1]]
    BY <1>5, <2>1 DEF CountsAlong
  <2> QED
    BY <1>4, <2>1, <2>2
<1>8. Canonical(path) = run[n]
  BY <1>1, <1>2, <1>6, <1>7, CanonicalRuns DEF Leads
<1>9. ASSUME path # <<>>
      PROVE  Canonical(path) = Follow(Canonical(Front(path)), Last(path))
  <2>1. n \in 1..n /\ n - 1 \in Nat /\ n - 1 \in 0..n
    BY <1>1, <1>9
  <2>2. /\ Front(path) \in Seq(S) /\ Len(Front(path)) = n - 1
        /\ \A k \in 1..n - 1 : Front(path)[k] = path[k]
    BY <1>1, <2>1 DEF Front
  <2>3. PICK before : before = [k \in 0..n - 1 |-> run[k]]
    OBVIOUS
  <2>4. before \in [0..n - 1 -> V]
    BY <2>1, <2>3
  <2>5. before[0] = <<>>
    BY <1>6, <2>1, <2>3
  <2>6. ASSUME NEW k \in 1..n - 1 PROVE before[k] = Follow(before[k - 1], Front(path)[k])
    <3>1. k \in 1..n /\ k \in 0..n - 1 /\ k - 1 \in 0..n - 1
      BY <2>1
    <3> QED
      BY <1>7, <2>2, <2>3, <3>1
  <2>7. Canonical(Front(path)) = before[n - 1]
    BY <1>2, <2>2, <2>4, <2>5, <2>6, CanonicalRuns DEF Leads
  <2>8. before[n - 1] = run[n - 1]
    BY <2>1, <2>3
  <2> QED
    BY <1>1, <1>7, <1>8, <2>1, <2>7, <2>8 DEF Last
<1> QED
  BY <1>1, <1>2, <1>6, <1>8, <1>9


(* Whatever is there and is no link leads to itself.                       *)
LEMMA CanonicalOfThere ==
  ASSUME NEW path \in Tree \ DOMAIN Links
  PROVE  Canonical(path) = path
<1>1. PICK S : Tree \ DOMAIN Links \subseteq Seq(S) /\ ".." \notin S
  BY PathAssumption
<1> DEFINE T == {n \in Nat : \E p \in Tree \ DOMAIN Links : Len(p) = n /\ Canonical(p) # p}
<1>2. T = {}
  <2> SUFFICES ASSUME T # {} PROVE FALSE
    OBVIOUS
  <2>1. PICK n \in T : \A m \in T : n <= m
    <3>1. T \in SUBSET Nat
      OBVIOUS
    <3> HIDE DEF T
    <3> QED
      BY <3>1, LeastNatural
  <2>2. PICK p \in Tree \ DOMAIN Links : Len(p) = n /\ Canonical(p) # p
    OBVIOUS
  <2>3. p \in Seq(S) /\ p # <<>>
    BY <1>1, <2>2, CanonicalOf
  <2> DEFINE at == Front(p)
  <2>4. at \in Tree \ DOMAIN Links
    BY <2>2, <2>3, PathAssumption
  <2>5. Len(at) = n - 1 /\ n - 1 \in Nat /\ Append(at, Last(p)) = p
    BY <2>2, <2>3 DEF Front, Last
  <2>6. n - 1 \notin T
    BY <2>1, <2>5
  <2>7. Canonical(at) = at
    BY <2>4, <2>5, <2>6
  <2>8. Last(p) # ".."
    BY <1>1, <2>3 DEF Last
  <2>9. Canonical(p) = Follow(at, Last(p))
    BY <2>3, <2>7, CanonicalOf
  <2>10. Follow(at, Last(p)) = p
    BY <2>2, <2>4, <2>5, <2>8 DEF Follow
  <2> QED
    BY <2>2, <2>9, <2>10
<1>3. Len(path) \in Nat
  BY <1>1
<1> QED
  BY <1>2, <1>3

(* What is left of a path is a path.                                       *)
LEMMA Takes ==
  ASSUME NEW S, ".." \in S, NEW stack \in Seq(S), NEW component \in S
  PROVE  Take(stack, component) \in Seq(S)
<1>1. stack # <<>> => Front(stack) \in Seq(S)
  BY DEF Front
<1>2. CASE component \in {"", "."}
  BY <1>2 DEF Take
<1>3. CASE component = ".."
  <2>1. Take(stack, component) = IF stack = <<>> THEN <<"..">> ELSE Front(stack)
    BY <1>3 DEF Take
  <2>2. <<"..">> \in Seq(S)
    OBVIOUS
  <2> QED
    BY <1>1, <2>1, <2>2
<1>4. CASE component \notin {"", "."} /\ component # ".."
  <2>1. Take(stack, component) = Append(stack, component)
    BY <1>4 DEF Take
  <2> QED
    BY <2>1
<1> QED
  BY <1>2, <1>3, <1>4

(* A normalized path is a path.                                            *)
LEMMA NormalizeType ==
  ASSUME NEW S, ".." \in S, NEW path \in Seq(S)
  PROVE  Normalize(path) \in Seq(S)
<1> DEFINE Is(g) == g = [s \in SUBSET DOMAIN path |->
                           IF s = {} THEN <<>> ELSE Take(g[s \ {Max(s)}], path[Max(s)])]
<1>1. PICK n \in Nat : n = Len(path)
  OBVIOUS
<1>2. PICK V : V = Seq(S)
  OBVIOUS
<1>3. PICK fold : fold = CHOOSE g : Is(g)
  OBVIOUS
<1>4. DOMAIN path = 1..n /\ (Normalize(path) = <<"..">> \/ Normalize(path) = fold[1..n])
  BY <1>1, <1>3 DEF Normalize, FoldLeft, MapThenFoldSet
<1>5. <<>> \in V
  BY <1>2
<1>6. PICK step \in [1..n -> [V -> V]] : \A k \in 1..n, v \in V : step[k][v] = Take(v, path[k])
  <2>1. \A k \in 1..n : path[k] \in S
    BY <1>4
  <2>2. [k \in 1..n |-> [v \in V |-> Take(v, path[k])]] \in [1..n -> [V -> V]]
    BY <1>2, <2>1, Takes
  <2> QED
    BY <2>2
<1>7. PICK g \in [SUBSET (1..n) -> V] : FoldsAlong(g, n, <<>>, step)
  BY <1>5, FoldExists
<1>8. \A s \in SUBSET (1..n) : s # {} => Max(s) \in 1..n /\ s \ {Max(s)} \in SUBSET (1..n)
  <2> SUFFICES ASSUME NEW s \in SUBSET (1..n), s # {} PROVE Max(s) \in s
    OBVIOUS
  <2>1. s \in SUBSET (0..n)
    OBVIOUS
  <2> QED
    BY <2>1, MaxIsGreatest
<1>9. Is(g)
  <2> SUFFICES ASSUME NEW s \in SUBSET (1..n)
               PROVE  g[s] = IF s = {} THEN <<>> ELSE Take(g[s \ {Max(s)}], path[Max(s)])
    BY <1>4
  <2> QED
    BY <1>6, <1>7, <1>8 DEF FoldsAlong
<1>10. Is(fold)
  BY <1>3, <1>9
<1>11. FoldsWithin(fold, n, V, <<>>, step)
  <2>1. \A s \in SUBSET (1..n) :
          fold[s] = IF s = {} THEN <<>> ELSE Take(fold[s \ {Max(s)}], path[Max(s)])
    BY <1>4, <1>10
  <2> HIDE DEF Is
  <2>2. fold[{}] = <<>>
    BY <2>1
  <2>3. ASSUME NEW s \in SUBSET (1..n), s # {}, fold[s \ {Max(s)}] \in V
        PROVE  fold[s] = step[Max(s)][fold[s \ {Max(s)}]]
    BY <1>6, <1>8, <2>1, <2>3
  <2> QED
    BY <2>2, <2>3 DEF FoldsWithin
<1>12. PICK run \in [0..n -> V] : CountsAlong(run, n, <<>>, step)
  BY <1>5, AlongNumbers
<1>13. EndsAs(fold, run, n)
  <2>1. run \in [0..n -> V]
    BY <1>12
  <2>2. CountsAlong(run, n, <<>>, step)
    BY <1>12
  <2> QED
    BY <1>5, <1>11, <2>1, <2>2, FoldRuns
<1>14. run[n] \in V
  OBVIOUS
<1>15. <<"..">> \in Seq(S)
  OBVIOUS
<1> QED
  BY <1>2, <1>4, <1>13, <1>14, <1>15 DEF EndsAs

(* A sequence of some is a sequence of more.                               *)
LEMMA SeqOfMore ==
  ASSUME NEW R, NEW S, R \subseteq S, NEW s \in Seq(R)
  PROVE  s \in Seq(S)
<1>1. Len(s) \in Nat /\ s \in [1..Len(s) -> R]
  OBVIOUS
<1>2. s \in [1..Len(s) -> S]
  BY <1>1
<1> QED
  BY <1>1, <1>2

(* Of a path in the sandbox that is not the sandbox itself, the directory  *)
(* is in the sandbox.                                                      *)
LEMMA DirectoryIsWithin ==
  ASSUME NEW S, Root \in Seq(S), NEW file \in Seq(S), Within(file), file # Root
  PROVE  Within(Front(file))
<1>1. /\ Len(Root) <= Len(file)
      /\ SubSeq(Root, 1, Len(Root)) = SubSeq(file, 1, Len(Root))
  BY DEF Within, IsPrefix
<1>2. Len(Root) # Len(file)
  BY <1>1, SubSeqFull
<1>3. Len(file) \in Nat /\ Len(Root) \in Nat /\ Len(file) # 0 /\ Len(Root) <= Len(file) - 1
  BY <1>1, <1>2
<1>4. Len(Front(file)) = Len(file) - 1
  <2>1. Front(file) = SubSeq(file, 1, Len(file) - 1)
    BY DEF Front
  <2>2. PICK n \in Nat : n = Len(file) - 1
    BY <1>3
  <2>3. Len(SubSeq(file, 1, n)) = n
    BY <1>3, <2>2
  <2> QED
    BY <2>1, <2>2, <2>3
<1>5. SubSeq(Front(file), 1, Len(Root)) = SubSeq(file, 1, Len(Root))
  BY <1>1, <1>3, <1>4 DEF Front
<1> QED
  BY <1>1, <1>3, <1>4, <1>5 DEF Within, IsPrefix

(* What is in a directory of the sandbox is in the sandbox.                *)
LEMMA WithinAppend ==
  ASSUME NEW S, Root \in Seq(S), NEW at \in Seq(S), NEW component \in S, Within(at)
  PROVE  Within(Append(at, component))
<1>1. /\ Len(Root) <= Len(at) /\ Len(Root) \in Nat /\ Len(at) \in Nat
      /\ SubSeq(Root, 1, Len(Root)) = SubSeq(at, 1, Len(Root))
  BY DEF Within, IsPrefix
<1>2. Len(Append(at, component)) = Len(at) + 1
  OBVIOUS
<1>3. SubSeq(Append(at, component), 1, Len(Root)) = SubSeq(at, 1, Len(Root))
  BY <1>1, <1>2
<1> QED
  BY <1>1, <1>2, <1>3 DEF Within, IsPrefix

(* A valid path leads into the sandbox, or ends in a link of the sandbox   *)
(* that led to nothing.                                                    *)
LEMMA ValidLeadsInside ==
  ASSUME NEW path, NEW files, Nowhere \notin files, Valid(path, files)
  PROVE  Within(Target(path)) \/ EndsInStaleLink(path)
<1>1. PICK led, parent : led = Canonical(Candidate(path)) /\ parent = Parent(path)
  OBVIOUS
<1>2. Nowhere \notin Tree
  BY NowhereIsNoPath
<1>3. CASE led \in Tree \cup files
  BY <1>1, <1>2, <1>3 DEF Valid, Target
<1>4. CASE led \notin Tree \cup files /\ led # Nowhere
  BY <1>1, <1>4 DEF Valid, EndsInStaleLink
<1>5. CASE led \notin Tree \cup files /\ led = Nowhere
  <2>1. PICK last : last = Last(Candidate(path))
    OBVIOUS
  <2>2. PICK S : S = (STRING \ {".."}) \cup {last}
    OBVIOUS
  <2>3. parent \in Tree /\ Within(parent) /\ Target(path) = Append(parent, last)
    BY <1>1, <1>5, <2>1 DEF Valid, Target
  <2>4. \A p \in Tree : p \in Seq(S)
    <3>1. STRING \ {".."} \subseteq S
      BY <2>2
    <3>2. \A p \in Seq(STRING \ {".."}) : p \in Seq(S)
      BY <3>1, SeqOfMore
    <3> QED
      BY <3>2, PathAssumption
  <2>5. Root \in Seq(S) /\ parent \in Seq(S) /\ last \in S
    BY <2>2, <2>3, <2>4, PathAssumption
  <2> QED
    BY <2>3, <2>5, WithinAppend
<1> QED
  BY <1>3, <1>4, <1>5

(* What a file may be: something in a directory, not the sandbox itself.   *)
FilePlace(file) ==
  /\ file \in Seq(STRING \ {".."}) \ {Root}
  /\ file \notin DOMAIN Links /\ Front(file) \in Tree \ DOMAIN Links

(* A file that can be made is in place.                                    *)
LEMMA MadeInPlace ==
  ASSUME NEW path \in Seq(STRING), NEW files, \A f \in files : FilePlace(f),
         CanBeFile(Target(path), files)
  PROVE  FilePlace(Target(path))
<1>1. PICK S : S = STRING \cup {".."}
  OBVIOUS
<1>2. ".." \in S /\ Tree \subseteq Seq(S) /\ Root \in Seq(S) /\ path \in Seq(S)
  <2>1. STRING \subseteq S /\ STRING \ {".."} \subseteq S /\ ".." \in S
    BY <1>1
  <2>2. \A s \in Seq(STRING \ {".."}) : s \in Seq(S)
    BY <2>1, SeqOfMore
  <2>3. path \in Seq(S)
    BY <2>1, SeqOfMore
  <2> QED
    BY <2>1, <2>2, <2>3, PathAssumption
<1>3. PICK candidate \in Seq(S) : candidate = Candidate(path)
  <2>1. Normalize(path) \in Seq(S)
    BY <1>2, NormalizeType
  <2>2. Root \o Normalize(path) \in Seq(S)
    BY <1>2, <2>1
  <2> QED
    BY <2>2 DEF Candidate
<1>4. PICK led, parent, file : led = Canonical(candidate) /\ parent = Canonical(Front(candidate))
                               /\ file = Target(path)
  OBVIOUS
<1>5. file = IF led # Nowhere THEN led ELSE Append(parent, Last(candidate))
  BY <1>3, <1>4 DEF Target, Parent
<1>6. /\ led \in There
      /\ candidate = <<>> => led = <<>>
      /\ candidate # <<>> => /\ Last(candidate) \in S
                             /\ parent \in There
                             /\ led = Follow(parent, Last(candidate))
  <2>1. candidate # <<>> => Front(candidate) \in Seq(S) /\ Last(candidate) \in S
    BY DEF Front, Last
  <2> QED
    BY <1>4, <2>1, CanonicalOf
<1>7. CASE file \in files
  BY <1>4, <1>7
<1>8. CASE file \notin files
  <2>1. file \notin Tree /\ Front(file) \in Tree \ DOMAIN Links
    BY <1>4, <1>8 DEF CanBeFile
  <2>2. file \in Seq(STRING \ {".."})
    <3>1. CASE led # Nowhere
      BY <1>5, <1>6, <3>1, PathAssumption DEF There
    <3>2. CASE led = Nowhere
      <4>1. candidate # <<>>
        BY <1>6, <3>2 DEF Nowhere
      <4>2. PICK last \in S : last = Last(candidate)
        BY <1>6, <4>1
      <4>3. file = Append(parent, last) /\ parent \in There /\ led = Follow(parent, last)
        BY <1>5, <1>6, <3>2, <4>1, <4>2
      <4>4. parent \in Seq(S)
        <5>1. Nowhere \in Seq(S)
          BY <1>2 DEF Nowhere
        <5>2. \A l \in DOMAIN Links : Links[l] \in Seq(S)
          <6>1. STRING \ {".."} \subseteq S
            BY <1>1
          <6>2. \A s \in Seq(STRING \ {".."}) : s \in Seq(S)
            BY <6>1, SeqOfMore
          <6> QED
            BY <6>2, PathAssumption
        <5> QED
          BY <1>2, <4>3, <5>1, <5>2 DEF There
      <4>5. Front(file) = parent
        BY <4>3, <4>4 DEF Front
      <4>6. parent \in Tree \ DOMAIN Links
        BY <2>1, <4>5
      <4>7. Front(parent) \in Tree \ DOMAIN Links
        <5>1. CASE parent = <<>>
          <6>1. Len(parent) = 0 /\ Front(parent) = SubSeq(parent, 1, Len(parent) - 1)
            BY <5>1 DEF Front
          <6>2. Front(parent) = <<>>
            BY <5>1, <6>1
          <6> QED
            BY <6>2, PathAssumption
        <5>2. CASE parent # <<>>
          BY <4>6, <5>2, PathAssumption
        <5> QED
          BY <5>1, <5>2
      <4>8. last # ".."
        <5> SUFFICES ASSUME last = ".." PROVE FALSE
          OBVIOUS
        <5>1. led = Front(parent)
          BY <4>3, <4>6, <4>7 DEF Follow
        <5> QED
          BY <3>2, <4>7, <5>1, NowhereIsNoPath
      <4>9. last \in STRING \ {".."}
        BY <1>1, <4>2, <4>8
      <4>10. parent \in Seq(STRING \ {".."})
        BY <4>6, PathAssumption
      <4>11. Append(parent, last) \in Seq(STRING \ {".."})
        BY <4>9, <4>10
      <4> QED
        BY <4>3, <4>11
    <3> QED
      BY <3>1, <3>2
  <2> QED
    BY <1>4, <2>1, <2>2, PathAssumption DEF FilePlace
<1> QED
  BY <1>7, <1>8

(* A file in place whose path leads into the sandbox has its directory     *)
(* there, and is no link.                                                  *)
LEMMA PlaceIsInside ==
  ASSUME NEW file, FilePlace(file), Within(file)
  PROVE  Within(Canonical(Front(file))) /\ file \notin DOMAIN Links
<1>1. Root \in Seq(STRING \ {".."})
  BY PathAssumption
<1>2. Within(Front(file))
  BY <1>1, DirectoryIsWithin DEF FilePlace
<1>3. Canonical(Front(file)) = Front(file)
  BY CanonicalOfThere DEF FilePlace
<1> QED
  BY <1>2, <1>3 DEF FilePlace

(* The path of a session was found valid.                                  *)
PathChecked(s) ==
  "path" \in DOMAIN Args(s) /\ (Within(File(s)) \/ EndsInStaleLink(Args(s).path))

(* Files are in place, a thread is at work on one whose path was found     *)
(* valid, and whatever was written is where that leads.                    *)
InsideInv ==
  /\ asked \in [Sessions -> [request : Requests, grant : Grants]]
  /\ io = [s \in Sessions |-> io[s]]
  /\ \A f \in DOMAIN disk : FilePlace(f)
  /\ \A s \in Sessions : io[s] \in {"file_read", "file_write"} => PathChecked(s)
  /\ \A e \in effects : e.session \in Sessions /\ InsideSandbox(e)

(* What holds of the path of a session depends on what it asked only.      *)
LEMMA PathsStay ==
  ASSUME asked' = asked
  PROVE  /\ \A s : PathChecked(s)' <=> PathChecked(s)
         /\ \A e : InsideSandbox(e)' <=> InsideSandbox(e)
<1>1. \A s : Args(s)' = Args(s)
  BY DEF Args
<1> QED
  BY <1>1 DEF PathChecked, InsideSandbox, File

(* The inductive invariant of what is written.                             *)
THEOREM InsideInvariant == Spec => []InsideInv
<1>1. Init => InsideInv
  <2> SUFFICES ASSUME Init PROVE InsideInv
    OBVIOUS
  <2>1. \A f \in DOMAIN disk : FilePlace(f)
    <3> SUFFICES ASSUME NEW f \in DOMAIN Files PROVE FilePlace(f)
      BY DEF Init
    <3>1. f \in Tree \ DOMAIN Links /\ f # Root
      BY CallAssumption
    <3>2. Front(f) \in Tree \ DOMAIN Links
      <4>1. CASE f = <<>>
        <5>1. Len(f) = 0 /\ Front(f) = SubSeq(f, 1, Len(f) - 1)
          BY <4>1 DEF Front
        <5>2. Front(f) = <<>>
          BY <4>1, <5>1
        <5> QED
          BY <5>2, PathAssumption
      <4>2. CASE f # <<>>
        BY <3>1, <4>2, PathAssumption
      <4> QED
        BY <4>1, <4>2
    <3> QED
      BY <3>1, <3>2, PathAssumption DEF FilePlace
  <2> QED
    BY <2>1 DEF Init, InsideInv
<1>2. ASSUME InsideInv, [Next]_vars PROVE InsideInv'
  <2>1. CASE UNCHANGED callVars
    BY <1>2, <2>1, PathsStay DEF InsideInv, callVars
  <2>2. ASSUME NEW s \in Sessions, CallStep(s) PROVE InsideInv'
    <3>1. asked' = asked
      BY <2>2 DEF CallStep, Lookup, CheckCapability, StartFile, ReadFile, WriteFile, StartHttp,
         Resolve, Send, Chunk, BodyFails, BodyEnds, Drop
    <3>2. ASSUME NEW state, io' = [io EXCEPT ![s] = state],
                 state \in {"file_read", "file_write"} => PathChecked(s),
                 \A f \in DOMAIN disk' : FilePlace(f),
                 \A e \in effects' \ effects : e.session \in Sessions /\ InsideSandbox(e)
          PROVE  InsideInv'
      <4>1. \A t \in Sessions : io'[t] \in {"file_read", "file_write"} => PathChecked(t)
        BY <1>2, <3>2 DEF InsideInv
      <4>2. \A e \in effects' : e.session \in Sessions /\ InsideSandbox(e)
        BY <1>2, <3>2 DEF InsideInv
      <4> QED
        BY <1>2, <3>1, <3>2, <4>1, <4>2, PathsStay DEF InsideInv
    <3>3. ASSUME io' = io, disk' = disk,
                 \A e \in effects' \ effects : e.session \in Sessions /\ InsideSandbox(e)
          PROVE  InsideInv'
      BY <1>2, <3>1, <3>3, PathsStay DEF InsideInv
    <3>4. CASE StartFile(s)
      <4>1. effects' = effects /\ disk' = disk
        BY <3>4 DEF StartFile
      <4>2. CASE io' = io
        BY <3>3, <4>1, <4>2
      <4> DEFINE checks == IF asked[s].request.name = "file_read" THEN ReadChecks(s)
                           ELSE WriteChecks(s)
      <4>3. CASE AllPass(checks) /\ io' = [io EXCEPT ![s] = asked[s].request.name]
        <5> DEFINE given == "path" \in DOMAIN Args(s)
                   valid == Valid(Args(s).path, DOMAIN disk)
        <5>1. /\ 1 \in DOMAIN checks /\ 2 \in DOMAIN checks
              /\ \/ checks[1] = Unless(given, "INVALID_ARGS")
                 \/ checks[1] = Unless({"path", "content"} \subseteq DOMAIN Args(s), "INVALID_ARGS")
              /\ checks[2] = Unless(given => valid, "PATH_VALIDATION_ERROR")
          BY DEF ReadChecks, WriteChecks
        <5>2. ~checks[1].fails /\ ~checks[2].fails
          BY <4>3, <5>1 DEF AllPass
        <5> HIDE DEF checks
        <5>4. given
          <6>1. CASE checks[1] = Unless(given, "INVALID_ARGS")
            <7>1. ~Unless(given, "INVALID_ARGS").fails
              BY <5>2, <6>1
            <7> QED
              BY <7>1 DEF Unless
          <6>2. CASE checks[1] = Unless({"path", "content"} \subseteq DOMAIN Args(s), "INVALID_ARGS")
            <7>1. ~Unless({"path", "content"} \subseteq DOMAIN Args(s), "INVALID_ARGS").fails
              BY <5>2, <6>2
            <7> QED
              BY <7>1 DEF Unless
          <6> QED
            BY <5>1, <6>1, <6>2
        <5>5. given => valid
          <6>1. ~Unless(given => valid, "PATH_VALIDATION_ERROR").fails
            BY <5>1, <5>2
          <6> QED
            BY <6>1 DEF Unless
        <5>6. Nowhere \notin DOMAIN disk
          BY <1>2, NowhereIsNoPath DEF InsideInv, FilePlace
        <5>7. Within(Target(Args(s).path)) \/ EndsInStaleLink(Args(s).path)
          BY <5>4, <5>5, <5>6, ValidLeadsInside
        <5>3. PathChecked(s)
          BY <5>4, <5>7 DEF PathChecked, File
        <5> QED
          BY <1>2, <3>2, <4>1, <4>3, <5>3 DEF InsideInv
      <4> QED
        BY <3>4, <4>2, <4>3 DEF StartFile
    <3>5. CASE ReadFile(s)
      BY <1>2, <3>2, <3>5 DEF ReadFile, Answer, InsideInv
    <3>6. CASE WriteFile(s)
      <4>1. io[s] = "file_write" /\ io' = [io EXCEPT ![s] = "done"]
        BY <3>6 DEF WriteFile, Answer
      <4>2. CASE UNCHANGED <<disk, effects>>
        BY <1>2, <3>2, <4>1, <4>2 DEF InsideInv
      <4>3. CASE /\ CanBeFile(File(s), DOMAIN disk)
                 /\ DOMAIN disk' = DOMAIN disk \cup {File(s)}
                 /\ effects' = effects \cup {[session |-> s, file |-> File(s)]}
        <5>1. PathChecked(s)
          BY <1>2, <4>1 DEF InsideInv
        <5>2. Args(s).path \in Seq(STRING)
          BY <1>2, <5>1, CallAssumption DEF InsideInv, Args, PathChecked
        <5>3. FilePlace(File(s))
          BY <1>2, <4>3, <5>2, MadeInPlace DEF InsideInv, File
        <5>4. \A f \in DOMAIN disk' : FilePlace(f)
          BY <1>2, <4>3, <5>3 DEF InsideInv
        <5>5. \A e \in effects' \ effects : e.session = s /\ e.file = File(s)
          BY <4>3
        <5>6. Within(File(s)) => Within(Canonical(Front(File(s)))) /\ File(s) \notin DOMAIN Links
          BY <5>3, PlaceIsInside
        <5>7. \A e \in effects' \ effects : e.session \in Sessions /\ InsideSandbox(e)
          BY <5>1, <5>5, <5>6 DEF InsideSandbox, PathChecked
        <5> QED
          BY <3>2, <4>1, <5>4, <5>7
      <4> QED
        BY <3>6, <4>2, <4>3 DEF WriteFile
    <3>7. CASE Send(s)
      <4>1. \A e \in effects' \ effects : e = Requested(s)
        BY <3>7 DEF Send
      <4>2. InsideSandbox(Requested(s)) /\ Requested(s).session = s
        BY DEF Requested, InsideSandbox
      <4> QED
        BY <3>3, <3>7, <4>1, <4>2 DEF Send
    <3>8. CASE \/ Lookup(s) \/ CheckCapability(s) \/ StartHttp(s) \/ Resolve(s) \/ Chunk(s)
               \/ BodyFails(s) \/ BodyEnds(s) \/ Drop(s)
      <4>1. io' = io /\ effects' = effects /\ disk' = disk
        BY <3>8 DEF Lookup, CheckCapability, StartHttp, Resolve, Chunk, BodyFails, BodyEnds, Drop
      <4> QED
        BY <3>3, <4>1
    <3> QED
      BY <2>2, <3>4, <3>5, <3>6, <3>7, <3>8 DEF CallStep
  <2> QED
    BY <1>2, <2>1, <2>2 DEF Next, vars
<1> QED
  BY <1>1, <1>2, PTL DEF Spec

(* Whatever is done for a session is done by a tool that was granted to    *)
(* it, at a host that was checked or in a file where its path was checked  *)
(* to lead: in the sandbox, but for a link that led to nothing             *)
(* (tool_registry.rs:194, path.rs:101).                                    *)
THEOREM OnlyGrantedEffectsHolds == Spec => []OnlyGrantedEffects
<1>1. GrantInv /\ InsideInv => OnlyGrantedEffects
  BY DEF GrantInv, EffectsGranted, InsideInv, OnlyGrantedEffects
<1> QED
  BY <1>1, GrantInvariant, InsideInvariant, PTL
================================================================================
