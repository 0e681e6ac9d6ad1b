--------------------------- MODULE MCAnalysisCache ---------------------------
(* Two jobs on one cluster, with requests that meet in the cached files. *)
EXTENDS AnalysisCache, TLC

CONSTANTS a, b, older, outdated

Asks(file, usage, historical, overflow) ==
    [file |-> file, usage |-> usage, historical |-> historical, overflow |-> overflow]

Plain    == Asks("none", FALSE, FALSE, 1)
Live     == Asks("none", TRUE, FALSE, 1)        \* bypasses the caches
Own(o)   == Asks("own", TRUE, FALSE, o)
OwnPlain == Asks("own", FALSE, FALSE, 1)
Cached   == Asks("cached", FALSE, TRUE, 1)

Both(x, y) == a :> x @@ b :> y

MCMixes == {Both(Plain, Plain), Both(Plain, Live), Both(Plain, Cached),
            Both(Own(1), Own(2)), Both(Own(1), OwnPlain), Both(Own(2), Cached)}
=============================================================================
