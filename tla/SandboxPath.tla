------------------------------ MODULE SandboxPath -------------------------------
(***************************************************************************)
(* The paths a guest or a tool may name (jadepaw-wasm/src/path.rs) and the *)
(* patterns that grant them (jadepaw-wasm/src/capability/mod.rs).          *)
(*                                                                         *)
(* A path is a sequence of components, as split at its slashes: "" comes   *)
(* from a leading, trailing or double slash.  The file system is a set of  *)
(* absolute paths and the symbolic links among them, with where they lead  *)
(* in the end, be it there or not.  What files there are, and which of     *)
(* them have been made since, is the business of its users.                *)
(***************************************************************************)
EXTENDS Integers, Sequences, FiniteSets, SequencesExt

CONSTANTS
  Root,        \* the canonical path of the sandbox
  Tree,        \* the paths there are at first, links included
  Links,       \* a function from some of them to where they lead
  MaxPathLen   \* the longest path looked at, 4096 bytes in the code

(* No path: it would have to lead through "..".                            *)
Nowhere == <<"..", "..">>

(* Whatever there is is in a directory, which is no link; and the sandbox  *)
(* is where it was found to be when it was canonicalized.                  *)
ASSUME PathAssumption ==
  /\ Tree \subseteq Seq(STRING \ {".."})
  /\ {<<>>, Root} \subseteq Tree \ DOMAIN Links
  /\ \A p \in Tree \ {<<>>} : Front(p) \in Tree \ DOMAIN Links
  /\ DOMAIN Links \subseteq Tree
  /\ \A l \in DOMAIN Links : Links[l] \in Seq(STRING \ {".."}) \ DOMAIN Links
  /\ MaxPathLen \in Nat

(* Lexically: what ".." takes back is gone; above the root it stays, until *)
(* another takes it back.                                                  *)
Take(stack, component) ==
  CASE component \in {"", "."} -> stack
    [] component = ".." -> IF stack = <<>> THEN <<"..">> ELSE Front(stack)
    [] OTHER -> Append(stack, component)

(* A path that is too long is "..".                                        *)
Normalize(path) ==
  IF Len(path) > MaxPathLen THEN <<"..">> ELSE FoldLeft(Take, <<>>, path)

(* fs::canonicalize: follows what is there, link by link; if the last of   *)
(* them leads to nothing, this is still where.                             *)
Follow(at, component) ==
  LET next == IF component = ".." THEN Front(at) ELSE Append(at, component)
  IN  IF at \notin Tree \/ next \notin Tree THEN Nowhere
      ELSE IF next \in DOMAIN Links THEN Links[next] ELSE next

Canonical(path) == FoldLeft(Follow, <<>>, path)

Within(path) == IsPrefix(Root, path)

Candidate(path) == Root \o Normalize(path)

Parent(path) == Canonical(Front(Candidate(path)))

(* validate_sandbox_path, given the files there are: what the path leads   *)
(* to is there and in the sandbox; or it is not there, and the directory   *)
(* of its last component is, which is not looked at itself.  Below a file  *)
(* that has been made since, a path is refused here; the code accepts it   *)
(* and cannot open it.                                                     *)
Valid(path, files) ==
  LET led == Canonical(Candidate(path)) IN
  IF led \in Tree \cup files THEN Within(led)
  ELSE Parent(path) \in Tree /\ Within(Parent(path))

(* What is opened under the path that validate_sandbox_path returns: a     *)
(* link in its last place is followed.                                     *)
Target(path) ==
  IF Canonical(Candidate(path)) # Nowhere THEN Canonical(Candidate(path))
  ELSE Append(Parent(path), Last(Candidate(path)))

(* A file is there, or can be made in the directory that it would be in.   *)
CanBeFile(path, files) ==
  path \in files \/ (path \notin Tree /\ Front(path) \in Tree \ (DOMAIN Links \cup files))

(* The last component is a link, in a directory of the sandbox, that leads *)
(* to nothing, or to what has only been made since.                        *)
EndsInStaleLink(path) ==
  Canonical(Candidate(path)) \notin Tree \cup {Nowhere} /\ Within(Parent(path))

--------------------------------------------------------------------------------
(* Capability patterns.  A path pattern is a path whose last component may *)
(* be a wildcard; one after the beginning of a name is left out, as names  *)
(* have no beginnings here.                                                *)

Wild == "*"

(* "*", "dir/*" (dir itself is meant too) and an exact path.               *)
PathMatches(path, pattern) ==
  \/ pattern = <<Wild>>
  \/ path = pattern
  \/ pattern # <<>> /\ Last(pattern) = Wild /\ IsPrefix(Front(pattern), path)

(* A domain is the sequence of its labels: "*", an exact domain, or        *)
(* "*.domain" for whatever is under it.                                    *)
DomainMatches(domain, pattern) ==
  \/ pattern = <<Wild>>
  \/ domain = pattern
  \/ /\ pattern # <<>> /\ Head(pattern) = Wild
     /\ Len(domain) >= Len(pattern)
     /\ IsSuffix(Tail(pattern), domain)

(* can_read_file, can_write_file and can_access_domain: what no pattern    *)
(* grants is denied.                                                       *)
CanUseFile(path, patterns) == \E p \in patterns : PathMatches(path, p)
CanAccessDomain(domain, patterns) == \E p \in patterns : DomainMatches(domain, p)
================================================================================
