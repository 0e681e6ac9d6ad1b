----------------------------- MODULE AnalysisCache -----------------------------
(***************************************************************************)
(* Analyses of one cluster (service.rs) over the files they share          *)
(* (state_cache.rs).  Every job runs analyze_inner: it takes a snapshot    *)
(* (from a file, the cache or the cluster), normalizes it, builds the      *)
(* solver's input and reports; snapshot, normalized cluster and input are  *)
(* kept in files, the last two under a hash of what they were made from.   *)
(*                                                                         *)
(* write_json_at truncates or creates <file>.tmp, fills it and renames it; *)
(* nothing is locked, and every job uses the same name.  A file that is    *)
(* open is an inode: a rename by another job moves it under its writer.    *)
(*                                                                         *)
(* Data is what the properties tell apart: a snapshot is who collected it, *)
(* when, and whether it has usage and history; the rest says from what it  *)
(* was made.  Hashes do not collide.                                       *)
(***************************************************************************)
EXTENDS Integers, Sequences

CONSTANTS Job,
          Mixes,        \* the requests the jobs may come with
          Overflow,     \* values of max_memory_overflow_probability_percent
          Older,        \* who collected the snapshot found at the start
          Outdated,     \* the same, when its schema_version is not this program's
          MaxAge,       \* SYSLENS_SOLVER_STATE_MAX_AGE_HOURS, in ticks
          MaxClock,     \* bound
          MaxFaults     \* bound: collections and writes that fail

ASSUME AgeAssumption == MaxAge \in Nat /\ MaxClock \in Nat
                        /\ {Older, Outdated} \cap Job = {}

\* file: no snapshot file, one of the job's own (with memory history), or the
\* cached snapshot named explicitly.  usage: use_usage_adjusted_requests.
\* historical: a Prometheus is configured.
Request ==
    [file: {"none", "own", "cached"}, usage: BOOLEAN, historical: BOOLEAN,
     overflow: Overflow]

ASSUME RequestAssumption == Mixes \subseteq [Job -> Request]

VARIABLES request,      \* [Job -> Request]
          clock, faults,
          files,        \* published files: path -> <<"whole", value, mtime>> ...
          tmp,          \* the .tmp of a path, while there is one
          fd,           \* the inode a job has open: at "tmp", "pub", "gone"; "no"
          todo,         \* the write a job has in hand: [path, value], or none
          pc,           \* where analyze_inner stands
          data,         \* its locals: snap, norm, input, and the first attempt
          overlapped    \* history: paths two writers had open at once

jobVars   == <<fd, todo, pc, data>>
cacheVars == <<request, clock, faults, files, tmp, jobVars, overlapped>>

-----------------------------------------------------------------------------
\* What is stored, and under which name.
Snapshot(by, at, usage, mem) == [by |-> by, at |-> at, usage |-> usage, mem |-> mem]

NoData == <<>>                          \* no key; the content of a broken file
NoSnapshot == Snapshot("nobody", 0, FALSE, FALSE)
NoNorm     == [of |-> NoSnapshot, usage |-> FALSE, overflow |-> {}]
NoInput    == [of |-> NoNorm, strict |-> FALSE]

SnapshotPath   == <<"snapshot", NoData>>
NormPath(key)  == <<"normalized", key>>
InputPath(key) == <<"input", key>>

\* bypass_temporal_caches
Bypass(j) == request[j].usage /\ (request[j].file = "none" \/ request[j].historical)

\* normalization_key: all the options but the overflow bound.
NormKey(j) == [snap |-> data[j].snap, usage |-> request[j].usage]

InputKey_NoCluster(j, strict) == [norm |-> request[j].usage, strict |-> strict]
InputKey(j, strict) == [norm |-> NormKey(j), strict |-> strict]

\* Normalizer: the overflow bound counts only over a memory history.
Normalized(j) ==
    [of       |-> data[j].snap,
     usage    |-> request[j].usage,
     overflow |-> IF request[j].usage /\ data[j].snap.mem
                  THEN {request[j].overflow} ELSE {}]

\* build_input, build_input_strict
BuiltInput(j, strict) == [of |-> data[j].norm, strict |-> strict]

Whole(file) == file[1] = "whole"
Value(file) == file[2]
Mtime(file) == file[3]

Exists(path) == path \in DOMAIN files
Store(f, path, file) == [p \in DOMAIN f \cup {path} |-> IF p = path THEN file ELSE f[p]]
Removed(f, path)     == [p \in DOMAIN f \ {path} |-> f[p]]

-----------------------------------------------------------------------------
\* write_json_at, one system call at a time.  The write in hand:
Path(j) == Head(todo[j]).path

Idle(j)    == todo[j] = <<>>
Stamp(path) == IF path = SnapshotPath THEN clock ELSE 0

\* fs::write opens <file>.tmp: a .tmp that is there loses what it held.
Open(j) ==
    /\ ~Idle(j) /\ fd[j] = "no"
    /\ tmp' = Store(tmp, Path(j), <<"empty", NoData, Stamp(Path(j))>>)
    /\ fd' = [fd EXCEPT ![j] = "tmp"]
    /\ overlapped' = overlapped \cup
           {Path(j) : k \in {k \in Job \ {j} : ~Idle(k) /\ fd[k] # "no"
                                               /\ Path(k) = Path(j)}}
    /\ UNCHANGED <<request, clock, faults, files, todo, pc, data>>

\* The bytes go to the inode, wherever it is by now.  What another writer put
\* there first may show through.
Torn(j) == <<"torn", NoData, Stamp(Path(j))>>

Written(j, old) ==
    LET own == <<"whole", Head(todo[j]).value, Stamp(Path(j))>>
    IN  IF old[1] = "empty" \/ (Whole(old) /\ Value(old) = Value(own))
        THEN {own}
        ELSE {own, Torn(j)}

Inode(j) == IF fd[j] = "tmp" THEN tmp[Path(j)] ELSE files[Path(j)]

ToInode(j, file) ==
    IF fd[j] = "tmp"
    THEN tmp' = Store(tmp, Path(j), file) /\ UNCHANGED files
    ELSE files' = Store(files, Path(j), file) /\ UNCHANGED tmp

Fill(j) ==
    /\ ~Idle(j) /\ fd[j] \in {"tmp", "pub", "gone"}
    /\ IF fd[j] = "gone" THEN UNCHANGED <<files, tmp>>
       ELSE \E file \in Written(j, Inode(j)) : ToInode(j, file)
    /\ fd' = [fd EXCEPT ![j] = "closed"]
    /\ UNCHANGED <<request, clock, faults, todo, pc, data, overlapped>>

\* A write that fails leaves a part of the file and is only logged.
WriteFails_Ignored(j) ==
    /\ ~Idle(j) /\ fd[j] \in {"tmp", "pub", "gone"}
    /\ faults < MaxFaults /\ faults' = faults + 1
    /\ IF fd[j] = "gone" THEN UNCHANGED <<files, tmp>> ELSE ToInode(j, Torn(j))
    /\ fd' = [fd EXCEPT ![j] = "closed"]
    /\ UNCHANGED <<request, clock, todo, pc, data, overlapped>>

WriteFails(j) ==
    /\ ~Idle(j) /\ fd[j] \in {"tmp", "pub", "gone"}
    /\ faults < MaxFaults /\ faults' = faults + 1
    /\ IF fd[j] = "gone" THEN UNCHANGED <<files, tmp>> ELSE ToInode(j, Torn(j))
    /\ fd' = [fd EXCEPT ![j] = "no"]
    /\ todo' = [todo EXCEPT ![j] = Tail(@)]
    /\ UNCHANGED <<request, clock, pc, data, overlapped>>

\* Open descriptors follow the inode.  Without a .tmp the rename fails, which
\* is logged as well.
Moved(k, path) ==
    IF Idle(k) \/ Path(k) # path THEN fd[k]
    ELSE CASE fd[k] = "tmp" -> "pub"
           [] fd[k] = "pub" -> "gone"
           [] OTHER -> fd[k]

Rename(j) ==
    /\ ~Idle(j) /\ fd[j] = "closed"
    /\ IF Path(j) \in DOMAIN tmp
       THEN /\ files' = Store(files, Path(j), tmp[Path(j)])
            /\ tmp' = Removed(tmp, Path(j))
            /\ fd' = [k \in Job |-> IF k = j THEN "no" ELSE Moved(k, Path(j))]
       ELSE /\ fd' = [fd EXCEPT ![j] = "no"]
            /\ UNCHANGED <<files, tmp>>
    /\ todo' = [todo EXCEPT ![j] = Tail(@)]
    /\ UNCHANGED <<request, clock, faults, pc, data, overlapped>>

WriteStep(j) == Open(j) \/ Fill(j) \/ WriteFails(j) \/ Rename(j)

-----------------------------------------------------------------------------
\* analyze_inner.  A job goes on when its writes are through.
At(j, place) == pc[j] = place /\ Idle(j)

Write(path, value) == [path |-> path, value |-> value]

GoTo(j, place, writes, locals) ==
    /\ pc' = [pc EXCEPT ![j] = place]
    /\ todo' = [todo EXCEPT ![j] = writes]
    /\ data' = [data EXCEPT ![j] = locals]
    /\ UNCHANGED <<request, clock, files, tmp, fd, overlapped>>

Nothing == [snap |-> NoSnapshot, norm |-> NoNorm, input |-> NoInput,
            strict |-> NoInput, grouped |-> "ok"]

Fails(j) == GoTo(j, "failed", <<>>, Nothing)

Succeeds(j, input) ==
    GoTo(j, "succeeded", <<>>,
         [data[j] EXCEPT !.input = input, !.strict = NoInput, !.grouped = "ok"])

WithSnapshot(j, snap) == [data[j] EXCEPT !.snap = snap]

\* load_snapshot_from_path: the cached snapshot may be too old or of another
\* schema, unless it is named as a file.  write_snapshot stamps its own schema,
\* so only a snapshot found at the start has another.
TooOld_Late(file) == clock - Mtime(file) > MaxAge + 1
TooOld(file) == clock - Mtime(file) > MaxAge
OtherSchema(file) == Whole(file) /\ Value(file).by = Outdated

Usable(j) ==
    /\ Exists(SnapshotPath)
    /\ LET file == files[SnapshotPath]
       IN  request[j].file = "cached" \/ (~TooOld(file) /\ ~OtherSchema(file))

LoadsFile(j) == request[j].file = "cached" \/ (request[j].file = "none" /\ ~Bypass(j))

LoadSnapshot(j) ==
    /\ At(j, "collect")
    /\ \/ /\ request[j].file = "own"
          /\ GoTo(j, "overlay", <<>>,
                  WithSnapshot(j, Snapshot("file", 0, TRUE, TRUE)))
       \/ /\ request[j].file = "none"
          /\ Bypass(j) \/ ~Usable(j)
          /\ GoTo(j, "live", <<>>, data[j])
       \/ /\ LoadsFile(j) /\ Usable(j) /\ Whole(files[SnapshotPath])
          /\ GoTo(j, "refresh", <<>>, WithSnapshot(j, Value(files[SnapshotPath])))
       \/ /\ LoadsFile(j) /\ Usable(j) /\ ~Whole(files[SnapshotPath])
          /\ Fails(j)                                    \* it does not decode
       \/ /\ request[j].file = "cached" /\ ~Usable(j)
          /\ Fails(j)
    /\ UNCHANGED faults

\* KubeCollector::collect; usage depends on the metrics server.
CollectLive(j) ==
    /\ At(j, "live")
    /\ \E usage \in BOOLEAN :
          LET snap == Snapshot(j, clock, usage, FALSE)
          IN  GoTo(j, "refresh",
                   IF Bypass(j) THEN <<>> ELSE <<Write(SnapshotPath, snap)>>,
                   WithSnapshot(j, snap))
    /\ UNCHANGED faults

\* Without usage in it the snapshot is patched from the metrics server, and
\* the cached one replaced, whichever way the job got it.
Refresh(j) ==
    /\ At(j, "refresh")
    /\ LET snap == data[j].snap
           full == [snap EXCEPT !.usage = TRUE]
       IN  \/ /\ ~snap.usage /\ request[j].file = "none"
              /\ GoTo(j, "overlay", <<Write(SnapshotPath, full)>>,
                      WithSnapshot(j, full))
           \/ GoTo(j, "overlay", <<>>, data[j])
    /\ UNCHANGED faults

\* overlay_historical_pod_usage changes the job's own copy; a failure is logged.
Overlay(j) ==
    /\ At(j, "overlay")
    /\ \/ /\ request[j].historical
          /\ GoTo(j, "normalize", <<>>, WithSnapshot(j, [data[j].snap EXCEPT !.mem = TRUE]))
       \/ GoTo(j, "normalize", <<>>, data[j])
    /\ UNCHANGED faults

\* What is cached under path is taken, and fails the job when it does not
\* decode; otherwise it is made, and kept.  make is what the job would make.
FromCache(j, path, make, next, local) ==
    \/ /\ Bypass(j)
       /\ GoTo(j, next, <<>>, [data[j] EXCEPT ![local] = make])
    \/ /\ ~Bypass(j) /\ ~Exists(path)
       /\ GoTo(j, next, <<Write(path, make)>>, [data[j] EXCEPT ![local] = make])
    \/ /\ ~Bypass(j) /\ Exists(path) /\ Whole(files[path])
       /\ GoTo(j, next, <<>>, [data[j] EXCEPT ![local] = Value(files[path])])
    \/ /\ ~Bypass(j) /\ Exists(path) /\ ~Whole(files[path])
       /\ Fails(j)

Normalize(j) ==
    /\ At(j, "normalize")
    /\ FromCache(j, NormPath(NormKey(j)), Normalized(j), "input",
                 "norm")
    /\ UNCHANGED faults

PrepareInput(j) ==
    /\ At(j, "input")
    /\ FromCache(j, InputPath(InputKey(j, FALSE)), BuiltInput(j, FALSE), "solve",
                 "input")
    /\ UNCHANGED faults

\* Grouped solve.  When it fails and grouping has lost detail the strict input
\* is tried; an infeasible model ends the job, other errors give the baseline.
Solve(j) ==
    /\ At(j, "solve")
    /\ \/ Succeeds(j, data[j].input)
       \/ \E outcome \in {"infeasible", "error"} :
             GoTo(j, "strict", <<>>, [data[j] EXCEPT !.grouped = outcome])
       \/ Fails(j)
    /\ UNCHANGED faults

PrepareStrict(j) ==
    /\ At(j, "strict")
    /\ FromCache(j, InputPath(InputKey(j, TRUE)), BuiltInput(j, TRUE), "retry",
                 "strict")
    /\ UNCHANGED faults

SolveStrict(j) ==
    /\ At(j, "retry")
    /\ \/ Succeeds(j, data[j].strict)
       \/ Fails(j)                                       \* infeasible as well
       \/ /\ data[j].grouped = "error"
          /\ Succeeds(j, data[j].input)            \* baseline_solution
    /\ UNCHANGED faults

\* Resolving usage or prices, a file, or the collection may fail.
GivesUp(j) ==
    /\ pc[j] \in {"collect", "live", "normalize"} /\ Idle(j)
    /\ faults < MaxFaults /\ faults' = faults + 1
    /\ Fails(j)

Finished(j) == pc[j] \in {"succeeded", "failed"} /\ Idle(j)

Analyze(j) ==
    \/ WriteStep(j)
    \/ LoadSnapshot(j) \/ CollectLive(j) \/ Refresh(j) \/ Overlay(j)
    \/ Normalize(j) \/ PrepareInput(j) \/ Solve(j) \/ PrepareStrict(j)
    \/ SolveStrict(j) \/ GivesUp(j)

\* A tick is hours and a job takes minutes: none passes between the moment a
\* job has its snapshot and the end of its write.  Later ticks change nothing.
Tick ==
    /\ clock < MaxClock
    /\ \E j \in Job : pc[j] = "collect"
    /\ \A j \in Job :
          /\ pc[j] # "refresh"
          /\ ~Idle(j) => Path(j) # SnapshotPath
    /\ clock' = clock + 1
    /\ UNCHANGED <<request, faults, files, tmp, jobVars, overlapped>>

CacheInit ==
    /\ request \in Mixes
    /\ clock = 0 /\ faults = 0
    /\ \/ files = NoData
       \/ \E by \in {Older, Outdated}, usage \in BOOLEAN :
             files = Store(NoData, SnapshotPath,
                           <<"whole", Snapshot(by, 0, usage, FALSE), 0>>)
    /\ tmp = NoData
    /\ fd = [j \in Job |-> "no"]
    /\ todo = [j \in Job |-> <<>>]
    /\ pc = [j \in Job |-> "collect"]
    /\ data = [j \in Job |-> Nothing]
    /\ overlapped = {}

CacheNext == Tick \/ \E j \in Job : Analyze(j)
CacheSpec == CacheInit /\ [][CacheNext]_cacheVars

-----------------------------------------------------------------------------
\* What a reader may rely on, although nothing is locked: a published file is
\* whole unless two jobs were writing it at the same time.
WholeUnlessOverlapped ==
    \A path \in DOMAIN files : Whole(files[path]) \/ path \in overlapped

\* The report of a job speaks of one snapshot and of the options of its own
\* request.  Only the overflow bound may be another job's: one that read the
\* same snapshot with the same options but that one.
SameBut(n, m) == n.of = m.of /\ n.usage = m.usage

Rival(j) == \E k \in Job \ {j} :
                /\ request[k].file = request[j].file
                /\ request[k].usage = request[j].usage
                /\ request[k].overflow # request[j].overflow

ReportIsOfRequest ==
    \A j \in Job :
        pc[j] = "succeeded" =>
            /\ SameBut(data[j].norm, Normalized(j))
            /\ SameBut(data[j].input.of, Normalized(j))
            /\ ~Rival(j) => /\ data[j].norm = Normalized(j)
                            /\ data[j].input.of = data[j].norm

\* Without a snapshot file a job works on a cluster collected at most twice
\* the age limit before: a refresh of its usage renews the file once.
SnapshotIsRecent ==
    [][\A j \in Job : pc[j] = "collect" /\ pc'[j] = "refresh"
                                        /\ request[j].file = "none"
          => clock - data'[j].snap.at <= 2 * MaxAge]_cacheVars
=============================================================================
