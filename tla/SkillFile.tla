-------------------------------- MODULE SkillFile --------------------------------
(***************************************************************************)
(* What a SKILL.md file says (jadepaw-skill/src/parser.rs) and what it may *)
(* say (validation.rs): a skill's directory has the skill's name.          *)
(*                                                                         *)
(* A file is the size of its text, what YAML makes of its front matter,    *)
(* and the fields found there.  A field holds text, an array or something  *)
(* else; front matter that is no mapping has no fields.  Fields that are   *)
(* only passed on (constraints, author, metadata) are left out.            *)
(***************************************************************************)
EXTENDS Naturals, Sequences, SequencesExt

CONSTANTS
  MaxFileSize,     \* MAX_SKILL_FILE_SIZE, 1 MB in the code
  MaxName,         \* 64 in the code
  MaxDescription   \* 1024 in the code, in bytes of UTF-8

ASSUME SkillFileAssumption == {MaxFileSize, MaxName, MaxDescription} \subseteq Nat

(* Characters that stand for all others.                                   *)
Lowercase == {"a", "b"}
Digits == {"1"}
NameChars == Lowercase \cup Digits \cup {"-"}

Text(chars) == [is |-> "text", value |-> chars]
Array(items) == [is |-> "array", value |-> items]
Other == [is |-> "other", value |-> <<>>]

Ok(manifest) == [error |-> "none", manifest |-> manifest]
Err(error) == [error |-> error, manifest |-> <<>>]

(* validate_skill_name: kebab case.                                        *)
ValidName(name) ==
  /\ Len(name) \in 1..MaxName
  /\ Range(name) \subseteq NameChars
  /\ "-" \notin {Head(name), Last(name)}
  /\ \A k \in 2..Len(name) : <<name[k - 1], name[k]>> # <<"-", "-">>

(* validate_skill_description: counted in bytes.                           *)
ValidDescription(description) == Len(description) <= MaxDescription

(* A field that is text, or the one it has when it is not.                 *)
TextOf(file, key, otherwise) ==
  IF key \in DOMAIN file.fields /\ file.fields[key].is = "text"
  THEN file.fields[key].value ELSE otherwise

HasText(file, key) == key \in DOMAIN file.fields /\ file.fields[key].is = "text"

(* The tools are the texts in an array; anything else declares none.       *)
ToolsOf(file) ==
  IF "tools" \in DOMAIN file.fields /\ file.fields["tools"].is = "array"
  THEN {item.value : item \in {i \in Range(file.fields["tools"].value) : i.is = "text"}}
  ELSE {}

Manifest(file) ==
  [name |-> TextOf(file, "name", <<>>), description |-> TextOf(file, "description", <<>>),
   tools |-> ToolsOf(file), version |-> TextOf(file, "version", <<>>)]

(* What is wrong with a file, but for its directory, in the order of the   *)
(* checks.                                                                 *)
Faults(file) ==
  LET fault(holds, error) == IF holds THEN <<>> ELSE <<error>>
  IN  fault(file.size <= MaxFileSize, "ParseError")
        \o fault(file.yaml # "broken", "ParseError")
        \o fault(file.yaml # "absent", "MissingFrontmatter")
        \o fault(HasText(file, "name"), "MissingField")
        \o fault(HasText(file, "description"), "MissingField")
        \o fault(ValidName(Manifest(file).name), "InvalidName")
        \o fault(ValidDescription(Manifest(file).description), "FieldTooLong")

(* Mutant: the name is not compared with the directory's.                  *)
ParsedAnywhere(file, dir_name) ==
  IF Faults(file) = <<>> THEN Ok(Manifest(file)) ELSE Err(Head(Faults(file)))

(* parse_skill_file: the first fault, or the manifest.                     *)
Parsed(file, dir_name) ==
  IF Faults(file) # <<>> THEN Err(Head(Faults(file)))
  ELSE IF Manifest(file).name # dir_name THEN Err("NameDirectoryMismatch")
  ELSE Ok(Manifest(file))
================================================================================
