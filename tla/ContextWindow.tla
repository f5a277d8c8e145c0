----------------------------- MODULE ContextWindow -----------------------------
(***************************************************************************)
(* The context-window compression of jadepaw-agent/src/window.rs: what     *)
(* compress_context makes of a message history before an LLM call.         *)
(*                                                                         *)
(* A message is any value.  What it weighs in BPE tokens is left out here: *)
(* Windowed gives every history the function can return for some weights   *)
(* (WindowedHistory has the weights).                                      *)
(* "keep" is n_msgs_to_keep, twice GuardConfig::recent_turns.              *)
(***************************************************************************)
EXTENDS Naturals, Sequences

(* Mutant: the split is one message late.                                  *)
RecentButOne(messages, keep) ==
  SubSeq(messages, Len(messages) - keep + 2, Len(messages))

(* The last keep messages: body[split..] in the code, where the body is    *)
(* everything after the system and the user message.                       *)
Recent(messages, keep) ==
  SubSeq(messages, Len(messages) - keep + 1, Len(messages))

(* Mutant: one message more than is kept is enough.                        *)
CompressibleByOne(messages, keep) == Len(messages) > keep + 2

(* Too short a history is returned as it is.                               *)
Compressible(messages, keep) == Len(messages) > keep + 3

(* [system prompt, user message, summary] and the recent messages.         *)
Compressed(messages, keep, summary) ==
  <<messages[1], messages[2], summary>> \o Recent(messages, keep)

(* aggressive_fallback: the user message goes too.                         *)
Fallback(messages, keep, summary) ==
  <<messages[1], summary>> \o Recent(messages, keep)

(* The last resort drops the summary as well.                              *)
Minimal(messages, keep) == <<messages[1]>> \o Recent(messages, keep)

(* Everything the window check at the head of a turn can leave: the        *)
(* history untouched (below 65% of the window, or too short), or one of    *)
(* the three compressed forms.                                             *)
Windowed(messages, keep, summary) ==
  {messages} \cup
  IF Compressible(messages, keep)
  THEN { Compressed(messages, keep, summary),
         Fallback(messages, keep, summary),
         Minimal(messages, keep) }
  ELSE {}
================================================================================
