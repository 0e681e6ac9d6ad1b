----------------------------- MODULE Selections -----------------------------
(***************************************************************************)
(* What a solver may answer: for each thing one of its options.            *)
(***************************************************************************)
EXTENDS FiniteSetsExt

\* c, and o for x.
With(c, x, o) == [y \in {x} \cup DOMAIN c |-> IF y = x THEN o ELSE c[y]]

\* The functions c with c[x] \in options[x], built one x after the other.
Selections(options) ==
    FoldSet(LAMBDA x, some : {With(c, x, o) : c \in some, o \in options[x]},
            {<<>>}, DOMAIN options)
=============================================================================
