------------------------------- MODULE JobServer -------------------------------
(***************************************************************************)
(* The job manager of server.rs and the pages that watch its jobs          *)
(* (static/index.html).  POST /api/solve/start inserts a job and spawns    *)
(* its analysis; every progress update is published by a task of its own;  *)
(* GET /api/jobs/:id/events subscribes to the job's broadcast channel and  *)
(* then reads its progress for the first event.  A page whose stream ends  *)
(* asks for the status and connects again.  Jobs live in memory: a restart *)
(* of the server forgets them and counts their ids from 1 again.           *)
(*                                                                         *)
(* The channel holds 32 updates and an analysis sends fewer, so no         *)
(* subscriber lags (ChannelAssumption); its sender is kept by the job, so  *)
(* no stream ends by itself.                                               *)
(***************************************************************************)
EXTENDS Integers, Sequences, SequencesExt, FiniteSets

CONSTANTS Page,         \* pages; each starts one analysis
          Stages,       \* progress updates of an analysis
          Nobody,
          MaxDrops,     \* bound: connections lost, pages reloaded
          MaxRestarts   \* bound

ChannelCapacity == 32

ASSUME ChannelAssumption ==
    Stages \in Nat /\ Stages + 1 <= ChannelCapacity /\ Nobody \notin Page

VARIABLES seq,          \* JobStateMap::seq
          jobs,         \* JobStateMap::jobs, by id
          analyses,     \* running analyses: id -> the last stage reported
          updates,      \* spawned publish calls that have not got the lock yet
          pages, drops, restarts

managerVars == <<seq, jobs, analyses, updates>>
vars == <<managerVars, pages, drops, restarts>>

-----------------------------------------------------------------------------
Update(stage, done) == [stage |-> stage, done |-> done]
Queued   == Update(0, FALSE)
TheEnd   == Update(Stages + 1, TRUE)
NoReport == [of |-> Nobody]

Put(f, k, v) == [x \in DOMAIN f \cup {k} |-> IF x = k THEN v ELSE f[x]]
Without(f, k) == [x \in DOMAIN f \ {k} |-> f[x]]

Known(id) == id \in DOMAIN jobs

\* The state of a page: where it is, its job, the events on the way to it, and
\* the report it rendered.  run is history: which run of the server gave the id.
NewPage == [at |-> "start", id |-> 0, run |-> 0, queue |-> <<>>, report |-> NoReport]

Subscribed(page) == page.at \in {"subscribed", "open"}

\* Sender::send reaches whoever has subscribed.
Sent(id, update) ==
    [p \in Page |->
        IF Subscribed(pages[p]) /\ pages[p].id = id
        THEN [pages[p] EXCEPT !.queue = Append(@, update)]
        ELSE pages[p]]

-----------------------------------------------------------------------------
\* JobManager::start
NewId_Shared == IF seq = 0 THEN 1 ELSE seq
NewId == seq + 1

Start(p) ==
    /\ pages[p].at = "start"
    /\ seq' = NewId
    /\ jobs' = Put(jobs, seq', [of |-> p, progress |-> Queued, done |-> FALSE,
                                report |-> NoReport])
    /\ analyses' = Put(analyses, seq', 0)
    /\ pages' = [pages EXCEPT ![p].at = "connect", ![p].id = seq',
                              ![p].run = restarts]
    /\ UNCHANGED <<updates, drops, restarts>>

\* emit_progress: the callback spawns the publish call and returns.
Report(id) ==
    /\ analyses[id] < Stages
    /\ analyses' = [analyses EXCEPT ![id] = @ + 1]
    /\ updates' = updates \cup {[id |-> id, stage |-> analyses[id] + 1]}
    /\ UNCHANGED <<seq, jobs, pages, drops, restarts>>

\* publish: nothing is published of a job that is done.
Accepts_Always(id) == Known(id)
Accepts(id) == Known(id) /\ ~jobs[id].done

Publish(u) ==
    /\ updates' = updates \ {u}
    /\ IF Accepts(u.id)
       THEN /\ jobs' = [jobs EXCEPT ![u.id].progress = Update(u.stage, FALSE)]
            /\ pages' = Sent(u.id, Update(u.stage, FALSE))
       ELSE UNCHANGED <<jobs, pages>>
    /\ UNCHANGED <<seq, analyses, drops, restarts>>

\* finish_success, finish_error: all under one lock.
Concluded(job, report) ==
    [job EXCEPT !.progress = TheEnd, !.done = TRUE, !.report = report]

Finish(id) ==
    /\ \E ok \in BOOLEAN :
          /\ ok => analyses[id] = Stages
          /\ jobs' = [jobs EXCEPT ![id] =
                          Concluded(@, IF ok THEN [of |-> @.of] ELSE NoReport)]
    /\ pages' = Sent(id, TheEnd)
    /\ analyses' = Without(analyses, id)
    /\ UNCHANGED <<seq, updates, drops, restarts>>

-----------------------------------------------------------------------------
\* job_events, in its two steps under two locks.
Subscribe(p) ==
    /\ pages[p].at = "connect"
    /\ pages' = [pages EXCEPT
           ![p].at    = IF Known(pages[p].id) THEN "subscribed" ELSE "refused",
           ![p].queue = <<>>]
    /\ UNCHANGED <<managerVars, drops, restarts>>

FirstEvent_Empty(p) ==
    /\ pages[p].at = "subscribed"
    /\ pages' = [pages EXCEPT ![p].at = "open"]
    /\ UNCHANGED <<managerVars, drops, restarts>>

FirstEvent(p) ==
    /\ pages[p].at = "subscribed"
    /\ pages' = [pages EXCEPT ![p].at = "open",
                              ![p].queue = <<jobs[pages[p].id].progress>> \o @]
    /\ UNCHANGED <<managerVars, drops, restarts>>

\* onmessage: the end closes the stream, and the page asks for the report.
Receive(p) ==
    /\ pages[p].at = "open" /\ pages[p].queue # <<>>
    /\ LET update == Head(pages[p].queue)
       IN  pages' = [pages EXCEPT
               ![p].at    = IF update.done THEN "fetch" ELSE "open",
               ![p].queue = IF update.done THEN <<>> ELSE Tail(@)]
    /\ UNCHANGED <<managerVars, drops, restarts>>

StatusReport(id) == IF Known(id) THEN jobs[id].report ELSE NoReport

Ended(p, report) == [pages EXCEPT ![p].at = "ended", ![p].queue = <<>>,
                                  ![p].report = report]

FetchReport(p) ==
    /\ pages[p].at = "fetch"
    /\ pages' = Ended(p, StatusReport(pages[p].id))
    /\ UNCHANGED <<managerVars, drops, restarts>>

\* The connection breaks, or the page is loaded again.
Drop(p) ==
    /\ Subscribed(pages[p])
    /\ drops < MaxDrops /\ drops' = drops + 1
    /\ pages' = [pages EXCEPT ![p].at = "error", ![p].queue = <<>>]
    /\ UNCHANGED <<managerVars, restarts>>

\* onerror, reconnectActiveJob: ask for the status.  A broken stream is opened
\* again by the browser, one that was refused is not.
Poll_Once(p) ==
    /\ pages[p].at \in {"error", "refused"}
    /\ pages' = IF Known(pages[p].id) /\ ~jobs[pages[p].id].done
                THEN [pages EXCEPT ![p].at = "deaf"]
                ELSE Ended(p, StatusReport(pages[p].id))
    /\ UNCHANGED <<managerVars, drops, restarts>>

Poll(p) ==
    /\ pages[p].at \in {"error", "refused"}
    /\ LET id == pages[p].id
       IN  pages' = IF Known(id) /\ ~jobs[id].done
                    THEN [pages EXCEPT ![p].at = IF @ = "error" THEN "connect"
                                                               ELSE "deaf"]
                    ELSE Ended(p, StatusReport(id))
    /\ UNCHANGED <<managerVars, drops, restarts>>

\* The server dies and comes back.  A page that asks meanwhile gives up.
Restart ==
    /\ restarts < MaxRestarts /\ restarts' = restarts + 1
    /\ seq' = 0 /\ jobs' = <<>> /\ analyses' = <<>> /\ updates' = {}
    /\ \E down \in SUBSET {p \in Page : pages[p].at \in {"fetch", "error", "refused"}} :
          pages' = [p \in Page |->
              CASE p \in down -> [pages[p] EXCEPT !.at = "ended"]
                [] p \notin down /\ pages[p].at \in {"connect", "subscribed", "open"} ->
                       [pages[p] EXCEPT !.at = "error", !.queue = <<>>]
                [] OTHER -> pages[p]]
    /\ UNCHANGED drops

-----------------------------------------------------------------------------
Init ==
    /\ seq = 0 /\ jobs = <<>> /\ analyses = <<>> /\ updates = {}
    /\ pages = [p \in Page |-> NewPage]
    /\ drops = 0 /\ restarts = 0

Manager == (\E id \in DOMAIN analyses : Report(id) \/ Finish(id))
           \/ \E u \in updates : Publish(u)

Watch(p) == Subscribe(p) \/ FirstEvent(p) \/ Receive(p) \/ FetchReport(p) \/ Poll(p)

Next ==
    \/ Manager
    \/ \E p \in Page : Start(p) \/ Watch(p) \/ Drop(p)
    \/ Restart

\* Spawned tasks run, an analysis ends, and a page reads what it is sent.
Fairness ==
    /\ \A id \in 1..Cardinality(Page) :
          WF_vars(id \in DOMAIN analyses /\ (Report(id) \/ Finish(id)))
    /\ \A p \in Page : WF_vars(Watch(p))

Spec == Init /\ [][Next]_vars /\ Fairness

-----------------------------------------------------------------------------
\* The end of a job is the last thing its stream says and is never missing from
\* it: not when the job ends between the subscription and the first event, nor
\* when updates that were spawned earlier are published later.
EndIsOnTheStream ==
    \A p \in Page :
        LET page == pages[p]
        IN  page.at = "open" /\ Known(page.id) /\ jobs[page.id].done
                => page.queue # <<>> /\ Last(page.queue) = TheEnd

\* Once done a job says so for ever, with the same outcome, until a restart.
DoneIsFinal ==
    [][\A id \in DOMAIN jobs :
          jobs[id].done /\ restarts' = restarts => Known(id)' /\ jobs'[id] = jobs[id]]_vars

\* Ids are counted from 1 again after a restart, and a page asks by its old one.
\* The report it renders is that of its own analysis or, only then, that of the
\* page to which a later run of the server gave the same id.
ReportIsOwn ==
    \A p \in Page :
        pages[p].report # NoReport =>
            LET owner == pages[p].report.of
            IN  \/ owner = p
                \/ /\ pages[owner].id = pages[p].id
                   /\ pages[owner].run > pages[p].run

\* Whatever order updates arrive in and however often the connection breaks, a
\* page that watches an analysis learns that it ended, unless the run of the
\* server that analyses is over.
WatcherLearnsTheEnd ==
    \A p \in Page : pages[p].at = "connect" ~>
                        pages[p].at = "ended" \/ restarts > pages[p].run
=============================================================================
