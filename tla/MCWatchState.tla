---------------------------- MODULE MCWatchState ----------------------------
(* Two pods, four changes, two errors: enough for a list that is broken off    *)
(* between its pods, changes during the list, and a second list.               *)
EXTENDS WatchState
=============================================================================
