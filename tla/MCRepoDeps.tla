----------------------------- MODULE MCRepoDeps ------------------------------
(***************************************************************************)
(* Two owners and two names, one owner and one name in two spellings, and  *)
(* every list of at most three module paths on GitHub and elsewhere.       *)
(***************************************************************************)
EXTENDS RepoDeps

MCElements == {"github.com", "golang.org", "own", "Own", "other", "kit", "Kit", "v2", ""}

MCLower ==
    [e \in MCElements |-> IF e = "Own" THEN "own" ELSE IF e = "Kit" THEN "kit" ELSE e]

MCSets ==
    {<<>>, <<<<"Own", "kit">>>>, <<<<"own", "v2">>>>,
     <<<<"other", "Kit">>, <<"Own", "Kit">>>>}

Paths ==
    {<<"github.com", o, r>> : o \in {"own", "Own", "other"}, r \in {"kit", "Kit"}}
    \cup {<<"github.com", "own", "kit", "v2">>, <<"golang.org", "own", "kit">>,
          <<"github.com", "own">>, <<"github.com", "own", "">>, <<>>}

MCGoMods == UNION {[1 .. n -> Paths] : n \in 0 .. 3}
==============================================================================
