-------------------------------- MODULE LlmParse --------------------------------
(***************************************************************************)
(* The response parser of jadepaw-agent/src/llm.rs: what parse_next_action *)
(* makes of a model's response.                                            *)
(*                                                                         *)
(* A response is a sequence of units.  A directive is one unit ("thought", *)
(* "action", "final" stand for THOUGHT:, ACTION: and FINAL ANSWER: in any  *)
(* case), so is a parenthesis, and every other unit but "mark" is text.    *)
(* White space is no unit: a trimmed text is empty when it has none.       *)
(*                                                                         *)
(* "mark" is a byte that upper-casing takes away, such as the second byte  *)
(* of the letter U+0131, and "wide" a letter that it makes one byte longer,*)
(* such as U+0149.  The parser searches the upper-cased response and cuts  *)
(* the response itself at the offsets it found: it panics if one is behind *)
(* the end, or in a letter.                                                *)
(***************************************************************************)
EXTENDS Integers, Sequences, FiniteSets, SequencesExt

Unit == {"thought", "action", "final", "(", ")", "word", "mark", "wide"}

Text == Seq(Unit)

Find(text, unit) == SelectInSeq(text, LAMBDA u : u = unit)

From(text, first) == SubSeq(text, first, Len(text))

(* to_uppercase, as far as it moves what follows.                          *)
Raised(kept, unit) ==
  IF unit = "mark" THEN kept
  ELSE IF unit = "wide" THEN Append(Append(kept, "word"), "word")
  ELSE Append(kept, unit)

Upper(text) ==
  LET kept[k \in 0..Len(text)] == IF k = 0 THEN <<>> ELSE Raised(kept[k - 1], text[k])
  IN  kept[Len(text)]

(* A text can be cut before a place: it has one there, which is no mark.   *)
CanCut(text, place) ==
  place <= Len(text) + 1 /\ (place \in 2..Len(text) => text[place] # "mark")

(* Mutant: the last parenthesis closes the arguments.                      *)
ClosingLast == [text \in Text |-> SelectLastInSeq(text, LAMBDA u : u = ")")]

(* Where the first parenthesis opened is closed, 0 if it never is.         *)
Closing ==
  [text \in Text |->
     LET open == Find(text, "(")
         Number(unit, k) == Cardinality({i \in open..k : text[i] = unit})
         ends == {k \in open + 1..Len(text) :
                    open # 0 /\ Number("(", k) = Number(")", k)}
     IN  IF ends = {} THEN 0 ELSE Min(ends)]

Finish(answer) == [kind |-> "finish", answer |-> answer]
Act(tool, args) == [kind |-> "act", tool |-> tool, args |-> args]
ContinueThinking == [kind |-> "continue"]
Panicked == [kind |-> "panic"]

(* What follows ACTION: a call tool(args) whose parentheses are balanced   *)
(* (what comes after them is dropped), or else all of it as the tool's     *)
(* name, unless there is none.                                             *)
ParseAction ==
  [request \in Text |->
     LET open == Find(request, "(") IN
     IF open > 1 /\ Closing[request] # 0
     THEN Act(SubSeq(request, 1, open - 1),
              SubSeq(request, open + 1, Closing[request] - 1))
     ELSE IF request # <<>> /\ open # 1 THEN Act(request, <<>>)
     ELSE ContinueThinking]

ParseAnswer ==
  [answer \in Text |-> IF answer = <<>> THEN ContinueThinking ELSE Finish(answer)]

(* The first directive decides; an action that is none leaves the word to  *)
(* a final answer behind it.                                               *)
ParseDirective ==
  [text \in Text |-> [upper \in Text |->
     LET final  == Find(upper, "final")
         action == Find(upper, "action")
         answer == IF final = 0 THEN ContinueThinking
                   ELSE IF ~CanCut(text, final + 1) THEN Panicked
                   ELSE ParseAnswer[From(text, final + 1)]
     IN  IF action = 0 \/ (final # 0 /\ final < action) THEN answer
         ELSE IF ~CanCut(text, action + 1) THEN Panicked
         ELSE IF ParseAction[From(text, action + 1)] # ContinueThinking
         THEN ParseAction[From(text, action + 1)]
         ELSE answer]]

(* extract_thought: what follows THOUGHT: is cut before the first FINAL    *)
(* ANSWER:, or else the first ACTION:.                                     *)
CanCutThought ==
  [text \in Text |-> [upper \in Text |->
     LET final  == Find(upper, "final")
         action == Find(upper, "action")
     IN  CanCut(text, IF final # 0 THEN final ELSE action)]]

(* Directives count only after the first THOUGHT:, if there is one.        *)
ParseFrom ==
  [response \in Text |-> [capitals \in Text |->
     LET start == Find(capitals, "thought") + 1
         text  == From(response, start)
         upper == From(capitals, start)
     IN  IF \/ ~CanCut(response, start)
            \/ start # 1 /\ ~CanCutThought[text][upper]
         THEN Panicked
         ELSE ParseDirective[text][upper]]]

ParseNextAction(response) == ParseFrom[response][Upper(response)]
================================================================================
