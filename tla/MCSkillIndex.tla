------------------------------ MODULE MCSkillIndex -------------------------------
(* A tenant whose directory is there in two spellings, with a directory of  *)
(* global skills under one of them, a directory behind a symbolic link, and *)
(* one that is no tenant's.                                                 *)
EXTENDS SkillIndex, TLC

MCTenants == {"t", "nil"}

T == <<"t">>          \* a UUID, as to_string writes it, ...
TUpper == <<"T">>     \* ... and in upper case
Global == <<"global">>
Nil == <<"0">>
A == <<"a">>
B == <<"b">>

MCTenantNamed == (T :> "t") @@ (TUpper :> "t") @@ (Global :> "nil") @@ (Nil :> "nil")

MCCanonicalName == ("t" :> T) @@ ("nil" :> Nil)

MCDirs == {<<T, A>>, <<TUpper, A>>, <<T, Global, A>>, <<Nil, A>>, <<B, A>>}

MCWalked == MCDirs \ {<<Nil, A>>}

File(name, description) ==
  [size |-> 1, yaml |-> "map",
   fields |-> ("name" :> Text(name)) @@ ("description" :> Text(description))
                @@ ("tools" :> Array(<<Text("read"), Other>>))]

MCContents ==
  (<<T, A>> :> {File(A, A), File(A, <<"a", "b", "a">>), Unreadable, Absent})
  @@ (<<TUpper, A>> :> {File(A, B)})
  @@ (<<T, Global, A>> :> {File(A, A), File(<<"global", "/", "a">>, A)})
  @@ (<<Nil, A>> :> {File(A, A)})
  @@ (<<B, A>> :> {File(A, A)})

MCSymmetry == Permutations(Clients)

MCRequested == {<<A>>, <<Global, A>>}

(* The reference for ValidName, for names of at most three characters:     *)
(* words of letters and digits, with one hyphen between them.              *)
KebabNames ==
  LET words == UNION {[1..n -> Lowercase \cup Digits] : n \in 1..MaxName}
  IN  words \cup {v \o <<"-">> \o w : v, w \in words}

ASSUME NamesAreKebabCase ==
  /\ MaxName = 3
  /\ \A n \in 0..4 : \A name \in [1..n -> NameChars \cup {"A"}] :
       ValidName(name) <=> name \in KebabNames /\ Len(name) <= MaxName
================================================================================
