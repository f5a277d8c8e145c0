---------------------------- MODULE WindowedHistory -----------------------------
(***************************************************************************)
(* One message history over the turns of a session, with what its messages *)
(* weigh in tokens: the window check at the head of each turn              *)
(* (jadepaw-agent/src/loop.rs) and compress_context itself (window.rs),    *)
(* whose choice between its three results AgentSession leaves open.        *)
(*                                                                         *)
(* How many tokens a message or a summary has is data: any of Weights.     *)
(***************************************************************************)
EXTENDS ContextWindow, Integers, SequencesExt

CONSTANTS
  Keep,           \* n_msgs_to_keep
  Window,         \* model_context_window, in tokens
  Weights,        \* what a message may weigh
  MaxTurns        \* GuardConfig::max_iterations

ASSUME WindowAssumption ==
  /\ Keep \in Nat
  /\ Window \in Nat
  /\ Weights \subseteq Nat \ {0}
  /\ MaxTurns \in Nat \ {0}

VARIABLES
  weighed,   \* the history, its messages weighed
  turns,     \* turns completed
  at         \* is the loop at the head of a turn or in the model's hands?

historyVars == <<weighed, turns, at>>

Roles == {"system", "user", "summary", "observation", "assistant"}

Weighted == [role : Roles, tokens : Weights]

Tokens(history) == FoldLeft(LAMBDA sum, message : sum + message.tokens, 0, history)

(* More than 65% of the window.                                            *)
ShouldCompress(history) == 100 * Tokens(history) > 65 * Window

(* Mutant: the weight of the result is not looked at.                      *)
CompressContextUnweighed(history, keep, summary) ==
  IF Compressible(history, keep) THEN Compressed(history, keep, summary) ELSE history

(* The first of the three results that is lighter than the history, the    *)
(* last one if none is.                                                    *)
CompressContext(history, keep, summary) ==
  LET full     == Compressed(history, keep, summary)
      fallback == Fallback(history, keep, summary)
      Shrinks(result) == Tokens(result) < Tokens(history)
  IN  IF ~Compressible(history, keep) THEN history
      ELSE IF Len(full) >= Len(history) THEN fallback
      ELSE IF Shrinks(full) THEN full
      ELSE IF Shrinks(fallback) THEN fallback
      ELSE Minimal(history, keep)

Summaries == [role : {"summary"}, tokens : Weights]

HistoryInit ==
  /\ \E system, user \in Weights :
       weighed = <<[role |-> "system", tokens |-> system],
                    [role |-> "user", tokens |-> user]>>
  /\ turns = 0
  /\ at = "head"

(* Once max_iterations turns are completed the loop returns.               *)
TurnHead ==
  /\ at = "head"
  /\ turns < MaxTurns
  /\ \/ /\ ~ShouldCompress(weighed)
        /\ UNCHANGED weighed
     \/ /\ ShouldCompress(weighed)
        /\ \E summary \in Summaries :
             weighed' = CompressContext(weighed, Keep, summary)
  /\ at' = "thinking"
  /\ UNCHANGED turns

(* The rest of the turn: a thought, or the answer of a tool and the        *)
(* response that asked for it.                                             *)
TurnEnd ==
  /\ at = "thinking"
  /\ \E a, o \in Weights :
       LET assistant   == [role |-> "assistant", tokens |-> a]
           observation == [role |-> "observation", tokens |-> o]
       IN  \/ weighed' = Append(weighed, assistant)
           \/ weighed' = weighed \o <<observation, assistant>>
  /\ turns' = turns + 1
  /\ at' = "head"

HistoryNext == TurnHead \/ TurnEnd

HistorySpec == HistoryInit /\ [][HistoryNext]_historyVars

--------------------------------------------------------------------------------
AtTurnHead == at = "head" /\ at' = "thinking"

(* window.rs:182-185 means "to guarantee progress": a summary may outweigh *)
(* what it stands for, but the window check never makes a history heavier, *)
(* nor swaps it for another as heavy.                                      *)
LighterOrUntouched ==
  [][AtTurnHead =>
       weighed' = weighed \/ Tokens(weighed') < Tokens(weighed)]_historyVars

(* window.rs:113-115: no "infinite re-compression".  A history that is     *)
(* still too heavy when it was checked is one compression leaves alone,    *)
(* whatever its summary would weigh.                                       *)
CompressedOnce ==
  at = "thinking" /\ ShouldCompress(weighed) =>
    \A summary \in Summaries : CompressContext(weighed, Keep, summary) = weighed
================================================================================
