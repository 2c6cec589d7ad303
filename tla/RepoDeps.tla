------------------------------- MODULE RepoDeps ------------------------------
(***************************************************************************)
(* RepoDeps of maintain/deps.go: which repositories of the set a go.mod    *)
(* requires, and which it requires of the set's owners outside the set.    *)
(* One action per iteration of the loop over the requirements.             *)
(*                                                                         *)
(* A module path is the sequence of its elements, a repository the pair of *)
(* owner and name.  Elements that differ in case only are different here   *)
(* and the same to GitHub.                                                 *)
(***************************************************************************)
EXTENDS Naturals, Sequences

CONSTANTS
    Elements,   \* the elements of module paths
    Lower,      \* element -> the same in lower case
    Sets,       \* the lists of repositories RepoDeps may be given
    GoMods      \* the lists of required module paths

ASSUME ElementsAssumption == Lower \in [Elements -> Elements]

Repositories == Elements \X Elements

\* strings.ToLower of a repository.
Folded(key) == <<Lower[key[1]], Lower[key[2]]>>

\* The set names a repository once, however it is spelt.
ASSUME InputsAssumption ==
    /\ GoMods \subseteq Seq(Seq(Elements))
    /\ \A keys \in Sets :
          /\ keys \in Seq(Repositories)
          /\ \A m, n \in DOMAIN keys : Folded(keys[m]) = Folded(keys[n]) => m = n

VARIABLES
    keys, requires,     \* the arguments
    maintained, unmaintained,
    i                   \* the requirement under consideration

vars == <<keys, requires, maintained, unmaintained, i>>

Init ==
    /\ keys \in Sets /\ requires \in GoMods
    /\ maintained = <<>> /\ unmaintained = <<>>
    /\ i = 1

------------------------------------------------------------------------------

Contains(s, x) == \E n \in DOMAIN s : s[n] = x

\* A module path with an owner and a name after the host, whatever follows.
onGitHub(path) ==
    /\ Len(path) >= 3 /\ path[1] = "github.com"
    /\ path[2] # "" /\ path[3] # ""

moduleRepo(path) == <<path[2], path[3]>>

\* The positions in keys of the repository, spelt as it may be.
known(key) == {n \in DOMAIN keys : Folded(keys[n]) = Folded(key)}

\* Whether the owner of the repository owns one of the set.
owned(key) == \E n \in DOMAIN keys : Lower[keys[n][1]] = Lower[key[1]]

Required == moduleRepo(requires[i])

Advance == i <= Len(requires) /\ i' = i + 1 /\ UNCHANGED <<keys, requires>>

\* Mutant: the edge is spelt as the module path spells it.
MaintainedAsSpelt ==
    /\ Advance
    /\ onGitHub(requires[i]) /\ known(Required) # {}
    /\ maintained' = IF Contains(maintained, Required) THEN maintained
                     ELSE Append(maintained, Required)
    /\ UNCHANGED unmaintained

\* One of the set, spelt as the set spells it.
Maintained ==
    /\ Advance
    /\ onGitHub(requires[i])
    /\ \E n \in known(Required) :
          maintained' = IF Contains(maintained, keys[n]) THEN maintained
                        ELSE Append(maintained, keys[n])
    /\ UNCHANGED unmaintained

\* Mutant: a repository is noted for each of its modules.
UnmaintainedAgain ==
    /\ Advance
    /\ onGitHub(requires[i]) /\ known(Required) = {} /\ owned(Required)
    /\ unmaintained' = Append(unmaintained, Required)
    /\ UNCHANGED maintained

\* Another of an owner of the set.
Unmaintained ==
    /\ Advance
    /\ onGitHub(requires[i]) /\ known(Required) = {} /\ owned(Required)
    /\ unmaintained' = IF Contains(unmaintained, Required) THEN unmaintained
                       ELSE Append(unmaintained, Required)
    /\ UNCHANGED maintained

Neither ==
    /\ Advance
    /\ onGitHub(requires[i]) => known(Required) = {} /\ ~owned(Required)
    /\ UNCHANGED <<maintained, unmaintained>>

Done == i > Len(requires) /\ UNCHANGED vars

Next == Maintained \/ Unmaintained \/ Neither \/ Done

Spec == Init /\ [][Next]_vars

------------------------------------------------------------------------------
(* Properties.                                                             *)

TypeOK ==
    /\ keys \in Sets /\ requires \in GoMods
    /\ maintained \in Seq(Repositories) /\ unmaintained \in Seq(Repositories)
    /\ i \in 1 .. Len(requires) + 1

Once(s) == \A m, n \in DOMAIN s : s[m] = s[n] => m = n

\* The requirements considered so far that are of a repository on GitHub whose
\* spelling differs from that of key in case only.
Mentions(key) ==
    {m \in 1 .. i - 1 :
        /\ Len(requires[m]) >= 3 /\ requires[m][1] = "github.com"
        /\ Folded(<<requires[m][2], requires[m][3]>>) = Folded(key)
        /\ requires[m][2] # "" /\ requires[m][3] # ""}

\* The edges are exactly the repositories of the set that are required,
\* however a requirement spells them and whatever it takes of them, each once
\* and spelt as the graph's keys are, so that New finds them (lines 14-18).
EdgesExact ==
    /\ Once(maintained)
    /\ \A n \in DOMAIN maintained : Contains(keys, maintained[n])
    /\ \A n \in DOMAIN keys : Contains(maintained, keys[n]) <=> Mentions(keys[n]) # {}

\* What is reported as unmaintained is required, is of an owner of the set and
\* is not in the set; and every such repository is reported (lines 15-18).
GapsExact ==
    /\ Once(unmaintained)
    /\ \A n \in DOMAIN unmaintained :
          /\ Mentions(unmaintained[n]) # {}
          /\ owned(unmaintained[n]) /\ known(unmaintained[n]) = {}
    /\ \A m \in 1 .. i - 1 : Len(requires[m]) >= 3 =>
          LET key == <<requires[m][2], requires[m][3]>>
          IN m \in Mentions(key) /\ owned(key) /\ known(key) = {}
                => Contains(unmaintained, key)

------------------------------------------------------------------------------
(* What a comment says and the code does not do.                           *)

\* "Each repository is named once, however many of its modules are required"
\* (lines 17-18), names being case-insensitive (lines 20-21).
NamedOnce ==
    \A m, n \in DOMAIN unmaintained :
        Folded(unmaintained[m]) = Folded(unmaintained[n]) => m = n
==============================================================================
