----------------------------- MODULE ServerProofs -----------------------------
(***************************************************************************)
(* What the analysis server promises: first what a page may believe of its *)
(* stream and of the report it gets, for any number of pages, updates,     *)
(* broken connections and restarts; then what the analysis behind a job    *)
(* may believe of the files it shares with others that write them without  *)
(* a lock, for any number of jobs, requests, failures and snapshot ages.   *)
(* That a page learns of the end at all is liveness and stays with TLC.    *)
(***************************************************************************)
EXTENDS JobServer, AnalysisCache, SequenceTheorems, TLAPS

\* Pages, jobs and streams: JobServer.
Updates == [stage : Nat, done : BOOLEAN]
Reports == [of : Page \cup {Nobody}]
Jobs    == [of : Page, progress : Updates, done : BOOLEAN, report : Reports]
Places  == {"start", "connect", "subscribed", "open", "fetch", "error", "refused",
            "deaf", "ended"}
PageStates == [at : Places, id : Nat, run : Nat, queue : Seq(Updates), report : Reports]

TypeOK ==
    /\ seq \in Nat /\ drops \in Nat /\ restarts \in Nat
    /\ DOMAIN jobs \subseteq 1..seq
    /\ jobs \in [DOMAIN jobs -> Jobs]
    /\ analyses \in [DOMAIN analyses -> Nat]
    /\ updates \subseteq [id : Nat, stage : Nat]
    /\ pages \in [Page -> PageStates]

\* A job that is done shows its end; a report is of its own analysis.
JobsOk ==
    \A id \in DOMAIN jobs :
        /\ jobs[id].done => jobs[id].progress = TheEnd
        /\ jobs[id].report # NoReport => jobs[id].report.of = jobs[id].of

\* An analysis that runs has a job that is not done.
AnalysesOk ==
    \A id \in DOMAIN analyses : id \in DOMAIN jobs /\ ~ jobs[id].done

\* Before its first event a stream may lack the end of a job that was done when the
\* page subscribed: the first event will be that end.  Later it is in the queue.
StreamOk(page) ==
    Subscribed(page) =>
        /\ Known(page.id)
        /\ jobs[page.id].done =>
              \/ page.queue # <<>> /\ Last(page.queue) = TheEnd
              \/ page.at = "subscribed" /\ page.queue = <<>>

StreamsOk == \A p \in Page : StreamOk(pages[p])

\* In one run of the server an id is of one page, the one its job is of.  Pages of
\* earlier runs may have the same id.
OwnersOk ==
    /\ \A id \in DOMAIN jobs :
          LET owner == pages[jobs[id].of]
          IN  owner.at # "start" /\ owner.id = id /\ owner.run = restarts
    /\ \A p \in Page :
          /\ pages[p].run <= restarts
          /\ pages[p].at # "start" /\ pages[p].run = restarts =>
                Known(pages[p].id) /\ jobs[pages[p].id].of = p

\* A report that is not the page's own was asked for under an id which a later run
\* of the server had given to its owner.
ReportOk(p) ==
    pages[p].report # NoReport =>
        LET owner == pages[p].report.of
        IN  /\ owner \in Page /\ pages[p].at # "start" /\ pages[owner].at # "start"
            /\ \/ owner = p
               \/ /\ pages[owner].id = pages[p].id
                  /\ pages[owner].run > pages[p].run

ReportsOk == \A p \in Page : ReportOk(p)

IInv == TypeOK /\ JobsOk /\ AnalysesOk /\ StreamsOk /\ OwnersOk /\ ReportsOk

-----------------------------------------------------------------------------
(* The values that stand for nothing are well typed. *)
LEMMA Constants ==
    /\ TheEnd \in Updates /\ Queued \in Updates /\ TheEnd.done /\ ~ Queued.done
    /\ NoReport \in Reports /\ Stages \in Nat
    /\ \A p \in Page : [of |-> p] \in Reports /\ [of |-> p] # NoReport
BY ChannelAssumption DEF TheEnd, Queued, Update, Updates, NoReport, Reports

\* An event at the end of a queue is its last one, and leaves what is before it.
LEMMA AppendedIsLast ==
    ASSUME NEW q \in Seq(Updates), NEW u \in Updates
    PROVE  Append(q, u) \in Seq(Updates) /\ Append(q, u) # <<>> /\ Last(Append(q, u)) = u
BY DEF Last

(* Prepending an update leaves the last one last. *)
LEMMA FirstKeepsLast ==
    ASSUME NEW q \in Seq(Updates), NEW u \in Updates
    PROVE  /\ <<u>> \o q \in Seq(Updates) /\ <<u>> \o q # <<>>
           /\ Last(<<u>> \o q) = IF q = <<>> THEN u ELSE Last(q)
BY DEF Last

(* Taking an update off leaves the last one last. *)
LEMMA TailKeepsLast ==
    ASSUME NEW q \in Seq(Updates), q # <<>>
    PROVE  /\ Head(q) \in Updates /\ Tail(q) \in Seq(Updates)
           /\ Tail(q) # <<>> => Last(Tail(q)) = Last(q)
           /\ Tail(q) = <<>> => Last(q) = Head(q)
<1>1. /\ Len(q) \in Nat /\ Len(q) >= 1 /\ Head(q) = q[1]
      /\ Len(Tail(q)) = Len(q) - 1 /\ Head(q) \in Updates /\ Tail(q) \in Seq(Updates)
      /\ \A i \in 1..Len(Tail(q)) : Tail(q)[i] = q[i + 1]
      /\ Tail(q) # <<>> => Len(Tail(q)) \in Nat \ {0}
  <2>1. /\ Len(q) \in Nat \ {0} /\ Head(q) = q[1]
    BY EmptySeq
  <2>2. /\ Len(Tail(q)) = Len(q) - 1 /\ Head(q) \in Updates /\ Tail(q) \in Seq(Updates)
        /\ \A i \in 1..Len(Tail(q)) : Tail(q)[i] = q[i + 1]
    BY HeadTailProperties, Zenon
  <2>3. Tail(q) # <<>> => Len(Tail(q)) \in Nat \ {0}
    BY <2>2, EmptySeq
  <2> QED BY <2>1, <2>2, <2>3
<1>2. ASSUME Tail(q) # <<>> PROVE Last(Tail(q)) = Last(q)
  <2> DEFINE n == Len(Tail(q))
  <2>1. n \in 1..n /\ n + 1 = Len(q)
    BY <1>1, <1>2
  <2>2. Tail(q)[n] = q[n + 1]
    BY <1>1, <2>1
  <2> QED BY <2>1, <2>2 DEF Last
<1>3. ASSUME Tail(q) = <<>> PROVE Last(q) = Head(q)
  <2> DEFINE n == Len(Tail(q))
             m == Len(q)
  <2>1. n = 0
    BY <1>3, EmptySeq, Zenon
  <2>2. m \in Nat /\ n = m - 1
    BY <1>1
  <2> HIDE DEF n, m
  <2>3. m = 1
    BY <2>1, <2>2
  <2> QED BY <1>1, <2>3 DEF Last, m
<1> QED BY <1>1, <1>2, <1>3

(* The invariant holds at the start. *)
LEMMA InitInv == Init => IInv
BY Constants
   DEF Init, IInv, TypeOK, JobsOk, AnalysesOk, StreamsOk, StreamOk, OwnersOk, NewPage,
       ReportsOk, ReportOk, PageStates, Subscribed, Places, Known

-----------------------------------------------------------------------------
\* Once started a page keeps its id, and the run that gave it.
SameStart(p) ==
    /\ pages'[p].id = pages[p].id /\ pages'[p].run = pages[p].run
    /\ pages'[p].at = "start" <=> pages[p].at = "start"

SameOwners ==
    /\ restarts' = restarts /\ DOMAIN jobs' = DOMAIN jobs
    /\ \A id \in DOMAIN jobs : jobs'[id].of = jobs[id].of

(* While the server runs its jobs keep their owners. *)
LEMMA OwnersKept ==
    ASSUME IInv, SameOwners, \A p \in Page : SameStart(p)
    PROVE  OwnersOk'
<1>1. \A id \in DOMAIN jobs : jobs[id].of \in Page
    BY DEF IInv, TypeOK, Jobs
<1> QED BY <1>1 DEF IInv, OwnersOk, SameOwners, SameStart, Known

(* Reports stay what they were, whatever becomes of the jobs. *)
LEMMA ReportsKept ==
    ASSUME IInv, \A p \in Page : SameStart(p),
           NEW p \in Page, pages'[p].report = pages[p].report
    PROVE  ReportOk(p)'
BY DEF IInv, ReportsOk, ReportOk, SameStart

\* The report of the job that has the id of a page is of that page, or of one to
\* which this run gave the id when the page had it from an earlier one.
LEMMA ReportAsked ==
    ASSUME IInv, \A q \in Page : SameStart(q),
           NEW p \in Page, pages[p].at # "start",
           pages'[p].report = StatusReport(pages[p].id)
    PROVE  ReportOk(p)'
<1> DEFINE id    == pages[p].id
           owner == jobs[id].of
<1>1. CASE pages'[p].report = NoReport
    BY <1>1 DEF ReportOk
<1>2. CASE pages'[p].report # NoReport
  <2>1. /\ id \in DOMAIN jobs /\ owner \in Page
        /\ pages'[p].report.of = owner
    BY <1>2 DEF StatusReport, Known, IInv, JobsOk, TypeOK, Jobs
  <2>2. pages[owner].at # "start" /\ pages[owner].id = id /\ pages[owner].run = restarts
    BY <2>1 DEF IInv, OwnersOk
  <2>3. owner = p \/ pages[owner].run > pages[p].run
    <3>1. pages[p].run \in Nat /\ restarts \in Nat /\ pages[p].run <= restarts
      BY DEF IInv, TypeOK, PageStates, OwnersOk
    <3>2. CASE pages[p].run = restarts
      BY <3>2 DEF IInv, OwnersOk
    <3> QED BY <2>2, <3>1, <3>2
  <2> QED BY <2>1, <2>2, <2>3 DEF ReportOk, SameStart
<1> QED BY <1>1, <1>2

-----------------------------------------------------------------------------
\* A new id is nobody's: no page and no analysis has it before a restart.
LEMMA StartInv ==
    ASSUME IInv, NEW p \in Page, Start(p)
    PROVE  IInv'
<1> DEFINE job == [of |-> p, progress |-> Queued, done |-> FALSE, report |-> NoReport]
<1>1. /\ seq' = seq + 1 /\ seq' \notin DOMAIN jobs
      /\ jobs' = [x \in DOMAIN jobs \cup {seq'} |-> IF x = seq' THEN job ELSE jobs[x]]
      /\ analyses' = [x \in DOMAIN analyses \cup {seq'} |->
                          IF x = seq' THEN 0 ELSE analyses[x]]
      /\ pages' = [pages EXCEPT ![p].at = "connect", ![p].id = seq',
                                ![p].run = restarts]
      /\ pages[p].at = "start"
      /\ UNCHANGED <<updates, drops, restarts>>
    BY DEF Start, NewId, Put, IInv, TypeOK
<1>2. job \in Jobs /\ ~ job.done /\ job.report = NoReport /\ job.of = p
    BY Constants DEF Jobs
<1> HIDE DEF job
<1>3. /\ DOMAIN jobs' = DOMAIN jobs \cup {seq'} /\ jobs'[seq'] = job
      /\ \A x \in DOMAIN jobs : jobs'[x] = jobs[x]
    BY <1>1
<1>4. /\ pages'[p].at = "connect" /\ pages'[p].id = seq' /\ pages'[p].run = restarts
      /\ pages'[p].report = pages[p].report
      /\ \A q \in Page \ {p} : pages'[q] = pages[q]
    BY <1>1 DEF IInv, TypeOK, PageStates
<1>5. TypeOK'
  <2>1. jobs' \in [DOMAIN jobs' -> Jobs] /\ DOMAIN jobs' \subseteq 1..seq'
    BY <1>1, <1>2, <1>3 DEF IInv, TypeOK
  <2>2. analyses' \in [DOMAIN analyses' -> Nat]
    BY <1>1 DEF IInv, TypeOK
  <2>3. pages'[p] \in PageStates
    <3>1. pages[p] \in PageStates /\ seq' \in Nat /\ restarts \in Nat
      BY <1>1 DEF IInv, TypeOK
    <3>2. pages'[p] = [pages[p] EXCEPT !.at = "connect", !.id = seq', !.run = restarts]
      BY <1>1 DEF IInv, TypeOK
    <3> QED BY <3>1, <3>2 DEF Places, PageStates
  <2>4. pages' \in [Page -> PageStates]
    BY <1>1, <2>3 DEF IInv, TypeOK
  <2> QED BY <1>1, <2>1, <2>2, <2>4 DEF IInv, TypeOK
<1>6. JobsOk'
    BY <1>2, <1>3 DEF IInv, JobsOk
<1>7. AnalysesOk'
    BY <1>1, <1>2, <1>3 DEF IInv, AnalysesOk
<1>8. StreamsOk'
    BY <1>3, <1>4 DEF IInv, StreamsOk, StreamOk, Subscribed, Known
<1>9. OwnersOk'
  <2>1. \A id \in DOMAIN jobs : jobs[id].of \in Page \ {p}
    BY <1>1 DEF IInv, TypeOK, Jobs, OwnersOk
  <2>2. restarts \in Nat
    BY DEF IInv, TypeOK
  <2>3. ASSUME NEW id \in DOMAIN jobs'
        PROVE  LET owner == pages'[jobs'[id].of]
               IN  owner.at # "start" /\ owner.id = id /\ owner.run = restarts
    <3>1. CASE id = seq'
      BY <1>2, <1>3, <1>4, <3>1
    <3>2. CASE id \in DOMAIN jobs
      BY <1>3, <1>4, <2>1, <3>2 DEF IInv, OwnersOk
    <3> QED BY <1>3, <2>3, <3>1, <3>2
  <2>4. ASSUME NEW q \in Page
        PROVE  /\ pages'[q].run <= restarts
               /\ pages'[q].at # "start" /\ pages'[q].run = restarts =>
                     pages'[q].id \in DOMAIN jobs' /\ jobs'[pages'[q].id].of = q
    <3>1. CASE q = p
      BY <1>2, <1>3, <1>4, <2>2, <3>1
    <3>2. CASE q # p
      BY <1>3, <1>4, <3>2 DEF IInv, OwnersOk, Known
    <3> QED BY <3>1, <3>2
  <2> QED BY <1>1, <2>3, <2>4 DEF OwnersOk, Known
<1>10. ReportsOk'
  <2> SUFFICES ASSUME NEW q \in Page, pages'[q].report # NoReport
               PROVE  ReportOk(q)'
    BY DEF ReportsOk, ReportOk
  <2>1. ReportOk(p) /\ ReportOk(q) /\ pages[p].at = "start"
    BY <1>1 DEF IInv, ReportsOk
  <2>2. q # p /\ pages'[q] = pages[q]
    BY <1>4, <2>1 DEF ReportOk
  <2> DEFINE owner == pages[q].report.of
  <2>3. owner # p /\ pages'[owner] = pages[owner]
    BY <1>4, <2>1, <2>2 DEF ReportOk
  <2> QED BY <2>1, <2>2, <2>3 DEF ReportOk
<1> QED BY <1>5, <1>6, <1>7, <1>8, <1>9, <1>10 DEF IInv

(* A progress report keeps the invariant. *)
LEMMA ReportInv ==
    ASSUME IInv, NEW id \in DOMAIN analyses, Report(id)
    PROVE  IInv'
<1>1. /\ analyses' = [analyses EXCEPT ![id] = @ + 1]
      /\ updates' = updates \cup {[id |-> id, stage |-> analyses[id] + 1]}
      /\ UNCHANGED <<seq, jobs, pages, drops, restarts>>
    BY DEF Report
<1>2. id \in Nat /\ analyses[id] \in Nat
    BY DEF IInv, TypeOK, AnalysesOk
<1>3. TypeOK'
    BY <1>1, <1>2 DEF IInv, TypeOK
<1>4. JobsOk' /\ AnalysesOk' /\ StreamsOk' /\ OwnersOk' /\ ReportsOk'
    BY <1>1
       DEF IInv, TypeOK, JobsOk, AnalysesOk, StreamsOk, StreamOk, OwnersOk, ReportsOk,
           ReportOk, Known
<1> QED BY <1>3, <1>4 DEF IInv

\* What is sent goes to the end of every stream of the job.
LEMMA SentKeepsPages ==
    ASSUME IInv, NEW id, NEW u \in Updates
    PROVE  /\ Sent(id, u) \in [Page -> PageStates]
           /\ \A p \in Page :
                 /\ Sent(id, u)[p].at = pages[p].at
                 /\ Sent(id, u)[p].id = pages[p].id /\ Sent(id, u)[p].run = pages[p].run
                 /\ Sent(id, u)[p].report = pages[p].report
                 /\ Subscribed(pages[p]) /\ pages[p].id = id =>
                       /\ Sent(id, u)[p].queue # <<>>
                       /\ Last(Sent(id, u)[p].queue) = u
                 /\ ~ (Subscribed(pages[p]) /\ pages[p].id = id) =>
                       Sent(id, u)[p].queue = pages[p].queue
<1> SUFFICES ASSUME NEW p \in Page
             PROVE  /\ Sent(id, u)[p] \in PageStates
                    /\ Sent(id, u)[p].at = pages[p].at
                    /\ Sent(id, u)[p].id = pages[p].id /\ Sent(id, u)[p].run = pages[p].run
                    /\ Sent(id, u)[p].report = pages[p].report
                    /\ Subscribed(pages[p]) /\ pages[p].id = id =>
                          /\ Sent(id, u)[p].queue # <<>>
                          /\ Last(Sent(id, u)[p].queue) = u
                    /\ ~ (Subscribed(pages[p]) /\ pages[p].id = id) =>
                          Sent(id, u)[p].queue = pages[p].queue
    BY DEF Sent
<1>1. pages[p] \in PageStates
    BY DEF IInv, TypeOK
<1>2. /\ Append(pages[p].queue, u) \in Seq(Updates)
      /\ Append(pages[p].queue, u) # <<>> /\ Last(Append(pages[p].queue, u)) = u
    BY <1>1, AppendedIsLast DEF PageStates
<1> QED BY <1>1, <1>2 DEF Sent, PageStates

(* An update that reaches the channel keeps the invariant. *)
LEMMA PublishInv ==
    ASSUME IInv, NEW u \in updates, Publish(u)
    PROVE  IInv'
<1> DEFINE update == Update(u.stage, FALSE)
<1>1. UNCHANGED <<seq, analyses, drops, restarts>> /\ updates' \subseteq updates
    BY DEF Publish
<1>2. update \in Updates /\ ~ update.done
    BY DEF Update, Updates, IInv, TypeOK
<1>3. CASE Accepts(u.id)
  <2>1. /\ jobs' = [jobs EXCEPT ![u.id].progress = update]
        /\ pages' = Sent(u.id, update)
        /\ u.id \in DOMAIN jobs /\ ~ jobs[u.id].done
    BY <1>3 DEF Publish, Accepts, Known
  <2> HIDE DEF update
  <2>2. /\ DOMAIN jobs' = DOMAIN jobs /\ jobs' \in [DOMAIN jobs -> Jobs]
        /\ \A id \in DOMAIN jobs :
              /\ jobs'[id].of = jobs[id].of /\ jobs'[id].done = jobs[id].done
              /\ jobs'[id].report = jobs[id].report
              /\ jobs[id].done => jobs'[id].progress = jobs[id].progress
    BY <1>2, <2>1 DEF IInv, TypeOK, Jobs
  <2>3. TypeOK'
    BY <1>1, <1>2, <2>1, <2>2, SentKeepsPages DEF IInv, TypeOK
  <2>4. JobsOk' /\ AnalysesOk'
    BY <1>1, <2>2 DEF IInv, JobsOk, AnalysesOk
  <2>5. StreamsOk'
    <3> SUFFICES ASSUME NEW p \in Page PROVE StreamOk(pages[p])'
      BY DEF StreamsOk
    <3>1. /\ pages'[p].at = pages[p].at /\ pages'[p].id = pages[p].id
          /\ Subscribed(pages[p]) /\ pages[p].id # u.id =>
                pages'[p].queue = pages[p].queue
      BY <1>2, <2>1, SentKeepsPages
    <3>2. StreamOk(pages[p])
      BY DEF IInv, StreamsOk
    <3> QED BY <2>1, <2>2, <3>1, <3>2 DEF StreamOk, Subscribed, Known
  <2>6. OwnersOk' /\ ReportsOk'
    <3>1. SameOwners /\ \A p \in Page : SameStart(p) /\ pages'[p].report = pages[p].report
      BY <1>1, <1>2, <2>1, <2>2, SentKeepsPages DEF SameOwners, SameStart
    <3> QED BY <3>1, OwnersKept, ReportsKept DEF ReportsOk
  <2> QED BY <2>3, <2>4, <2>5, <2>6 DEF IInv
<1>4. CASE ~ Accepts(u.id)
  <2>1. UNCHANGED <<jobs, pages>>
    BY <1>4 DEF Publish
  <2> QED BY <1>1, <2>1 DEF IInv, TypeOK, JobsOk, AnalysesOk, StreamsOk, StreamOk,
                            OwnersOk, ReportsOk, ReportOk, Known
<1> QED BY <1>3, <1>4

\* The end of a job reaches every stream of it.
LEMMA FinishInv ==
    ASSUME IInv, NEW id \in DOMAIN analyses, Finish(id)
    PROVE  IInv'
<1>1. /\ UNCHANGED <<seq, updates, drops, restarts>>
      /\ pages' = Sent(id, TheEnd) /\ analyses' = Without(analyses, id)
    BY DEF Finish
<1>2. id \in DOMAIN jobs /\ ~ jobs[id].done
    BY DEF IInv, AnalysesOk
<1>3. PICK report \in {[of |-> jobs[id].of], NoReport} :
         jobs' = [jobs EXCEPT ![id] = Concluded(@, report)]
    BY DEF Finish
<1>4. report \in Reports /\ (report # NoReport => report.of = jobs[id].of)
    BY <1>2, <1>3, Constants DEF IInv, TypeOK, Jobs
<1>5. /\ Concluded(jobs[id], report) \in Jobs
      /\ Concluded(jobs[id], report).progress = TheEnd
      /\ Concluded(jobs[id], report).of = jobs[id].of
      /\ Concluded(jobs[id], report).report = report
    BY <1>2, <1>4, Constants DEF Concluded, IInv, TypeOK, Jobs
<1>6. /\ DOMAIN jobs' = DOMAIN jobs /\ jobs' \in [DOMAIN jobs -> Jobs]
      /\ jobs'[id] = Concluded(jobs[id], report)
      /\ \A k \in DOMAIN jobs \ {id} : jobs'[k] = jobs[k]
      /\ \A k \in DOMAIN jobs : jobs'[k].of = jobs[k].of
    BY <1>2, <1>3, <1>5 DEF IInv, TypeOK
<1>7. /\ DOMAIN analyses' = DOMAIN analyses \ {id}
      /\ analyses' \in [DOMAIN analyses' -> Nat]
    BY <1>1 DEF Without, IInv, TypeOK
<1>8. TypeOK'
    BY <1>1, <1>6, <1>7, SentKeepsPages, Constants DEF IInv, TypeOK
<1>9. JobsOk' /\ AnalysesOk'
    BY <1>2, <1>4, <1>5, <1>6, <1>7 DEF IInv, JobsOk, AnalysesOk
<1>10. StreamsOk'
    BY <1>1, <1>2, <1>6, SentKeepsPages, Constants
       DEF IInv, StreamsOk, StreamOk, Subscribed, Known
<1>11. OwnersOk' /\ ReportsOk'
  <2>1. SameOwners /\ \A p \in Page : SameStart(p) /\ pages'[p].report = pages[p].report
    BY <1>1, <1>6, SentKeepsPages, Constants DEF SameOwners, SameStart
  <2> QED BY <2>1, OwnersKept, ReportsKept DEF ReportsOk
<1> QED BY <1>8, <1>9, <1>10, <1>11 DEF IInv

-----------------------------------------------------------------------------
\* What follows is the page's own.  It changes the pages, and drops.
PageOk(p) ==
    /\ pages'[p] \in PageStates
    /\ StreamOk(pages'[p])
    /\ SameStart(p) /\ pages[p].at # "start"
    /\ pages'[p].report \in {pages[p].report, StatusReport(pages[p].id)}

(* A step of one page keeps the invariant if that page stays sound. *)
LEMMA PageInv ==
    ASSUME IInv, UNCHANGED <<managerVars, restarts>>, drops' \in Nat,
           pages' \in [Page -> PageStates],
           NEW p \in Page, PageOk(p), \A q \in Page \ {p} : pages'[q] = pages[q]
    PROVE  IInv'
<1>1. TypeOK' /\ JobsOk' /\ AnalysesOk'
    BY DEF IInv, TypeOK, JobsOk, AnalysesOk, managerVars
<1>2. StreamsOk'
    BY DEF IInv, StreamsOk, StreamOk, PageOk, managerVars, Known
<1>3. SameOwners /\ \A q \in Page : SameStart(q)
    BY DEF SameOwners, SameStart, PageOk, managerVars
<1>4. OwnersOk'
    BY <1>3, OwnersKept
<1>5. ReportsOk'
  <2> SUFFICES ASSUME NEW q \in Page PROVE ReportOk(q)'
    BY DEF ReportsOk
  <2>1. CASE pages'[q].report = pages[q].report
    BY <1>3, <2>1, ReportsKept
  <2>2. CASE q = p /\ pages'[p].report = StatusReport(pages[p].id)
    BY <1>3, <2>2, ReportAsked DEF PageOk
  <2> QED BY <2>1, <2>2 DEF PageOk
<1> QED BY <1>1, <1>2, <1>4, <1>5 DEF IInv

(* A page that watches or drops a stream keeps the invariant. *)
LEMMA WatchInv ==
    ASSUME IInv, NEW p \in Page, Watch(p) \/ Drop(p)
    PROVE  IInv'
<1>1. /\ UNCHANGED <<managerVars, restarts>> /\ drops' \in Nat
      /\ pages[p] \in PageStates /\ StreamOk(pages[p])
      /\ <<>> \in Seq(Updates)
      /\ StatusReport(pages[p].id) \in Reports
    BY Constants
       DEF Watch, Subscribe, FirstEvent, Receive, FetchReport, Poll, Drop, IInv, TypeOK,
           StreamsOk, StatusReport, Known, Jobs
<1>2. \A page \in PageStates :
         pages' = [pages EXCEPT ![p] = page] =>
            /\ pages' \in [Page -> PageStates] /\ pages'[p] = page
            /\ \A q \in Page \ {p} : pages'[q] = pages[q]
    BY DEF IInv, TypeOK
<1>3. SUFFICES \E page \in PageStates : pages' = [pages EXCEPT ![p] = page] /\ PageOk(p)
    BY <1>1, <1>2, PageInv
<1>4. ASSUME Subscribe(p)
      PROVE  \E page \in PageStates : pages' = [pages EXCEPT ![p] = page] /\ PageOk(p)
  <2> DEFINE page == [pages[p] EXCEPT
                         !.at    = IF Known(pages[p].id) THEN "subscribed" ELSE "refused",
                         !.queue = <<>>]
  <2>1. pages' = [pages EXCEPT ![p] = page] /\ pages[p].at = "connect"
    BY <1>4 DEF Subscribe, IInv, TypeOK
  <2>2. page \in PageStates
    BY <1>1 DEF Places, PageStates
  <2>3. PageOk(p)
    BY <1>2, <2>1, <2>2 DEF PageOk, SameStart, PageStates, StreamOk, Subscribed
  <2> QED BY <2>1, <2>2, <2>3
<1>5. ASSUME FirstEvent(p)
      PROVE  \E page \in PageStates : pages' = [pages EXCEPT ![p] = page] /\ PageOk(p)
  <2> DEFINE first == jobs[pages[p].id].progress
             page  == [pages[p] EXCEPT !.at = "open", !.queue = <<first>> \o @]
  <2>1. pages' = [pages EXCEPT ![p] = page] /\ pages[p].at = "subscribed"
    BY <1>5 DEF FirstEvent, IInv, TypeOK
  <2>2. /\ Known(pages[p].id) /\ first \in Updates
        /\ jobs[pages[p].id].done => first = TheEnd
    BY <1>1, <2>1 DEF StreamOk, Subscribed, Known, IInv, TypeOK, JobsOk, Jobs
  <2>3. /\ <<first>> \o pages[p].queue \in Seq(Updates)
        /\ <<first>> \o pages[p].queue # <<>>
        /\ Last(<<first>> \o pages[p].queue)
              = IF pages[p].queue = <<>> THEN first ELSE Last(pages[p].queue)
    BY <1>1, <2>2, FirstKeepsLast DEF PageStates
  <2> HIDE DEF first
  <2>4. page \in PageStates /\ page.queue = <<first>> \o pages[p].queue
    BY <1>1, <2>3 DEF Places, PageStates
  <2>5. PageOk(p)
    BY <1>1, <1>2, <2>1, <2>2, <2>3, <2>4 DEF PageOk, SameStart, PageStates, StreamOk, Subscribed
  <2> QED BY <2>1, <2>4, <2>5
<1>6. ASSUME Receive(p)
      PROVE  \E page \in PageStates : pages' = [pages EXCEPT ![p] = page] /\ PageOk(p)
  <2> DEFINE update == Head(pages[p].queue)
             page   == [pages[p] EXCEPT
                           !.at    = IF update.done THEN "fetch" ELSE "open",
                           !.queue = IF update.done THEN <<>> ELSE Tail(@)]
  <2>1. /\ pages' = [pages EXCEPT ![p] = page]
        /\ pages[p].at = "open" /\ pages[p].queue # <<>>
    BY <1>6 DEF Receive, IInv, TypeOK
  <2>2. /\ update \in Updates /\ Tail(pages[p].queue) \in Seq(Updates)
        /\ Tail(pages[p].queue) # <<>> => Last(Tail(pages[p].queue)) = Last(pages[p].queue)
        /\ Tail(pages[p].queue) = <<>> => Last(pages[p].queue) = update
    BY <1>1, <2>1, TailKeepsLast DEF PageStates
  <2>3. jobs[pages[p].id].done => Last(pages[p].queue) = TheEnd
    BY <1>1, <2>1 DEF StreamOk, Subscribed
  <2> HIDE DEF update
  <2>4. page \in PageStates
    BY <1>1, <2>2 DEF Places, PageStates
  <2>5. /\ page.id = pages[p].id /\ page.run = pages[p].run
        /\ page.report = pages[p].report
        /\ page.at = IF update.done THEN "fetch" ELSE "open"
        /\ page.queue = IF update.done THEN <<>> ELSE Tail(pages[p].queue)
    BY <1>1 DEF PageStates
  <2> HIDE DEF page
  <2>6. StreamOk(page)
    <3>1. CASE update.done
      BY <2>5, <3>1 DEF StreamOk, Subscribed
    <3>2. CASE ~ update.done
      <4>1. Known(pages[p].id)
        BY <1>1, <2>1 DEF StreamOk, Subscribed
      <4>2. jobs[pages[p].id].done =>
               Tail(pages[p].queue) # <<>> /\ Last(Tail(pages[p].queue)) = TheEnd
        BY <2>2, <2>3, <3>2, Constants
      <4> QED BY <2>5, <3>2, <4>1, <4>2 DEF StreamOk
    <3> QED BY <3>1, <3>2
  <2>7. pages'[p] = page
    BY <1>2, <2>1, <2>4
  <2>8. StreamOk(pages'[p])
    BY <2>6, <2>7
  <2>9. PageOk(p)
    BY <2>1, <2>4, <2>5, <2>7, <2>8 DEF PageOk, SameStart
  <2> QED BY <2>1, <2>4, <2>9
<1>7. ASSUME FetchReport(p) \/ Poll(p)
      PROVE  \E page \in PageStates : pages' = [pages EXCEPT ![p] = page] /\ PageOk(p)
  <2> DEFINE report == StatusReport(pages[p].id)
             ended  == [pages[p] EXCEPT !.at = "ended", !.queue = <<>>, !.report = report]
             again  == [pages[p] EXCEPT !.at = IF @ = "error" THEN "connect" ELSE "deaf"]
  <2>1. /\ pages' = [pages EXCEPT ![p] = ended] \/ pages' = [pages EXCEPT ![p] = again]
        /\ pages[p].at \in {"fetch", "error", "refused"}
    BY <1>7 DEF FetchReport, Poll, Ended, IInv, TypeOK
  <2>2. report \in Reports
    BY <1>1
  <2> HIDE DEF report
  <2>3. ended \in PageStates /\ again \in PageStates
    BY <1>1, <2>2 DEF Places, PageStates
  <2>4. /\ ended.id = pages[p].id /\ ended.at = "ended" /\ ended.report = report
        /\ again.id = pages[p].id /\ again.at \in {"connect", "deaf"}
        /\ again.report = pages[p].report
        /\ ended.run = pages[p].run /\ again.run = pages[p].run
    BY <1>1 DEF PageStates
  <2> HIDE DEF ended, again
  <2>5. pages'[p] = ended \/ pages'[p] = again
    BY <1>2, <2>1, <2>3
  <2>6. PageOk(p)
    BY <2>1, <2>3, <2>4, <2>5 DEF PageOk, SameStart, StreamOk, Subscribed, report
  <2> QED BY <2>1, <2>3, <2>6
<1>8. ASSUME Drop(p)
      PROVE  \E page \in PageStates : pages' = [pages EXCEPT ![p] = page] /\ PageOk(p)
  <2> DEFINE page == [pages[p] EXCEPT !.at = "error", !.queue = <<>>]
  <2>1. pages' = [pages EXCEPT ![p] = page] /\ Subscribed(pages[p])
    BY <1>8 DEF Drop, IInv, TypeOK
  <2>2. page \in PageStates
    BY <1>1 DEF Places, PageStates
  <2>3. PageOk(p)
    BY <1>2, <2>1, <2>2 DEF PageOk, SameStart, PageStates, StreamOk, Subscribed
  <2> QED BY <2>1, <2>2, <2>3
<1> QED BY <1>4, <1>5, <1>6, <1>7, <1>8 DEF Watch

(* A restart of the server keeps the invariant. *)
LEMMA RestartInv ==
    ASSUME IInv, Restart
    PROVE  IInv'
<1>1. /\ seq' = 0 /\ jobs' = <<>> /\ analyses' = <<>> /\ updates' = {}
      /\ restarts' = restarts + 1 /\ drops' = drops
    BY DEF Restart
<1>2. PICK down \in SUBSET {p \in Page : pages[p].at \in {"fetch", "error", "refused"}} :
         pages' = [p \in Page |->
              CASE p \in down -> [pages[p] EXCEPT !.at = "ended"]
                [] p \notin down /\ pages[p].at \in {"connect", "subscribed", "open"} ->
                       [pages[p] EXCEPT !.at = "error", !.queue = <<>>]
                [] OTHER -> pages[p]]
    BY DEF Restart
<1>3. ASSUME NEW p \in Page
      PROVE  /\ pages'[p] \in PageStates
             /\ ~ Subscribed(pages'[p])
  <2>1. /\ pages[p] \in PageStates
        /\ <<>> \in Seq(Updates)
    BY DEF IInv, TypeOK
  <2> QED BY <1>2, <2>1 DEF Places, PageStates, Subscribed
<1>4. TypeOK'
  <2>1. pages' \in [Page -> PageStates]
    BY <1>2, <1>3
  <2>2. /\ DOMAIN jobs' = {} /\ jobs' \in [DOMAIN jobs' -> Jobs]
        /\ analyses' \in [DOMAIN analyses' -> Nat]
    BY <1>1
  <2> QED BY <1>1, <2>1, <2>2 DEF IInv, TypeOK
<1>5. JobsOk' /\ AnalysesOk'
    BY <1>1 DEF JobsOk, AnalysesOk
<1>6. StreamsOk'
    BY <1>3 DEF StreamsOk, StreamOk
<1>7. ASSUME NEW p \in Page
      PROVE  /\ SameStart(p) /\ pages'[p].report = pages[p].report
             /\ pages'[p].run < restarts'
  <2>1. /\ pages[p] \in PageStates /\ restarts \in Nat /\ pages[p].run <= restarts
    BY DEF IInv, TypeOK, OwnersOk
  <2>2. \/ pages'[p] = pages[p]
        \/ /\ \/ pages'[p] = [pages[p] EXCEPT !.at = "ended"]
              \/ pages'[p] = [pages[p] EXCEPT !.at = "error", !.queue = <<>>]
           /\ pages[p].at # "start"
    BY <1>2
  <2>3. /\ pages'[p].id = pages[p].id /\ pages'[p].run = pages[p].run
        /\ pages'[p].report = pages[p].report
        /\ pages'[p].at = "start" <=> pages[p].at = "start"
    BY <2>1, <2>2 DEF PageStates
  <2> QED BY <1>1, <2>1, <2>3 DEF SameStart, PageStates
<1>8. OwnersOk'
    BY <1>1, <1>4, <1>7 DEF OwnersOk, TypeOK, PageStates
<1>9. ReportsOk'
    BY <1>7, ReportsKept DEF ReportsOk
<1> QED BY <1>4, <1>5, <1>6, <1>8, <1>9 DEF IInv

-----------------------------------------------------------------------------
(* Every step keeps the invariant. *)
LEMMA NextInv == IInv /\ [Next]_vars => IInv'
<1> SUFFICES ASSUME IInv, [Next]_vars PROVE IInv'
    OBVIOUS
<1>1. CASE UNCHANGED vars
    BY <1>1 DEF vars, managerVars, IInv, TypeOK, JobsOk, AnalysesOk, StreamsOk, StreamOk,
                OwnersOk, ReportsOk, ReportOk, Known
<1>2. CASE Next
    BY <1>2, StartInv, ReportInv, PublishInv, FinishInv, WatchInv, RestartInv
       DEF Next, Manager
<1> QED BY <1>1, <1>2

(* server.rs: jobs, streams and pages stay well typed. *)
THEOREM TypeCorrect == Spec => []TypeOK
<1>1. IInv => TypeOK
    BY DEF IInv
<1> QED BY <1>1, InitInv, NextInv, PTL DEF Spec

\* A page whose stream is open will read the end of its job on it, however the
\* updates of the job overtook each other.
THEOREM StreamsEnd == Spec => []EndIsOnTheStream
<1>1. IInv => EndIsOnTheStream
    BY DEF IInv, StreamsOk, StreamOk, Subscribed, EndIsOnTheStream
<1> QED BY <1>1, InitInv, NextInv, PTL DEF Spec

\* However often the server restarts, the report a page shows is its own or that
\* of a page to which a later run gave the same id: a page that starts after the
\* last restart, and one whose id is not given again, gets no other than its own.
THEOREM ReportsAreOwn == Spec => []ReportIsOwn
<1>1. IInv => ReportIsOwn
    BY DEF IInv, ReportsOk, ReportOk, ReportIsOwn
<1> QED BY <1>1, InitInv, NextInv, PTL DEF Spec

\* No late update reopens a job that is done or changes its outcome.
THEOREM DoneStays == Spec => DoneIsFinal
<1>1. ASSUME IInv, Next, NEW id \in DOMAIN jobs, jobs[id].done, restarts' = restarts
      PROVE  Known(id)' /\ jobs'[id] = jobs[id]
  <2>1. ASSUME NEW p \in Page, Start(p)
        PROVE  Known(id)' /\ jobs'[id] = jobs[id]
    BY <1>1, <2>1 DEF Start, NewId, Put, Known, IInv, TypeOK
  <2>2. ASSUME NEW u \in updates, Publish(u)
        PROVE  Known(id)' /\ jobs'[id] = jobs[id]
    BY <1>1, <2>2 DEF Publish, Accepts, Known, IInv, TypeOK
  <2>3. ASSUME NEW k \in DOMAIN analyses, Finish(k)
        PROVE  Known(id)' /\ jobs'[id] = jobs[id]
    BY <1>1, <2>3 DEF Finish, Known, IInv, TypeOK, AnalysesOk
  <2>4. ASSUME UNCHANGED jobs
        PROVE  Known(id)' /\ jobs'[id] = jobs[id]
    BY <1>1, <2>4 DEF Known
  <2>5. ~ Restart
    <3>1. Restart => restarts' = restarts + 1
      BY DEF Restart
    <3> QED BY <1>1, <3>1 DEF IInv, TypeOK
  <2> QED BY <1>1, <2>1, <2>2, <2>3, <2>4, <2>5
          DEF Next, Manager, Watch, Report, Subscribe, FirstEvent, Receive, FetchReport,
              Poll, Drop, managerVars
<1>2. IInv /\ [Next]_vars =>
         [\A id \in DOMAIN jobs :
             jobs[id].done /\ restarts' = restarts
                => Known(id)' /\ jobs'[id] = jobs[id]]_vars
    BY <1>1
<1> QED BY <1>2, InitInv, NextInv, PTL DEF Spec, DoneIsFinal

-----------------------------------------------------------------------------
\* Analyses and the files they share: AnalysisCache.
Snapshots == [by : Job \cup {Older, Outdated, "file", "nobody"}, at : Nat, usage : BOOLEAN,
              mem : BOOLEAN]
Norms     == [of : Snapshots, usage : BOOLEAN, overflow : SUBSET Overflow]
Inputs    == [of : Norms, strict : BOOLEAN]
Locals    == [snap : Snapshots, norm : Norms, input : Inputs, strict : Inputs,
              grouped : {"ok", "infeasible", "error"}]
JobPlaces == {"collect", "live", "refresh", "overlay", "normalize", "input", "solve",
              "strict", "retry", "succeeded", "failed"}

CacheTypeOK ==
    /\ request \in [Job -> Request]
    /\ clock \in Nat
    /\ fd \in [Job -> {"tmp", "pub", "gone", "closed", "no"}]
    /\ DOMAIN todo = Job /\ DOMAIN pc = Job /\ DOMAIN data = Job
    /\ \A j \in Job : Idle(j) \/ \E w : todo[j] = <<w>>

-----------------------------------------------------------------------------
\* Who has a file open, and what is in it.
Writing(j, path) == ~ Idle(j) /\ fd[j] # "no" /\ Path(j) = path

IdleOk == \A j \in Job : Idle(j) => fd[j] = "no"

\* Without an overlap the .tmp of a path is its only writer's, who empties it,
\* fills it and then publishes it.
AloneAt(path) ==
    path \notin overlapped =>
        \A j \in Job : Writing(j, path) =>
            /\ \A k \in Job \ {j} : ~ Writing(k, path)
            /\ path \in DOMAIN tmp
            /\ \/ fd[j] = "tmp" /\ tmp[path][1] = "empty"
               \/ fd[j] = "closed" /\ Whole(tmp[path])

AloneOk == \A path : AloneAt(path)

-----------------------------------------------------------------------------
\* What follows is about the requests req.  From what a normalized cluster was made.
NormalizedOf(req, k, snap, usage) ==
    [of       |-> snap,
     usage    |-> usage,
     overflow |-> IF usage /\ snap.mem THEN {req[k].overflow} ELSE {}]

\* It was made by a job with this key; over a memory history the job had its own file.
MadeFor(req, norm, key) ==
    \E k \in Job :
        /\ req[k].usage = key.usage
        /\ key.usage /\ key.snap.mem => req[k].file = "own"
        /\ norm = NormalizedOf(req, k, key.snap, key.usage)

\* A file without usage is as old as its snapshot; with usage it may have been
\* renewed once.
Fresh(snap, mtime) ==
    mtime \in Nat /\ mtime - snap.at <= IF snap.usage THEN MaxAge ELSE 0

Fits(req, path, value, mtime) ==
    /\ path = SnapshotPath => value \in Snapshots /\ ~ value.mem /\ Fresh(value, mtime)
    /\ \A key : path = NormPath(key) => value \in Norms /\ MadeFor(req, value, key)
    /\ \A key : path = InputPath(key) =>
          value \in Inputs /\ MadeFor(req, value.of, key.norm)

FileFits(req, path, file) == Whole(file) => Fits(req, path, Value(file), Mtime(file))

FilesFit ==
    /\ \A path \in DOMAIN files : FileFits(request, path, files[path])
    /\ \A path \in DOMAIN tmp : FileFits(request, path, tmp[path])

HandsFit ==
    \A j \in Job : ~ Idle(j) => Fits(request, Path(j), Head(todo[j]).value, clock)

-----------------------------------------------------------------------------
\* What a job has in its hands at each place.
From(req, j, snap, norm) ==
    IF req[j].usage /\ (req[j].file = "none" \/ req[j].historical)
    THEN norm = NormalizedOf(req, j, snap, req[j].usage)
    ELSE MadeFor(req, norm, [snap |-> snap, usage |-> req[j].usage])

JobOk(req, now, j, place, d) ==
    /\ place \in JobPlaces /\ d \in Locals
    /\ d.snap.mem => req[j].file = "own" \/ req[j].historical
    /\ place = "refresh" =>
          /\ ~ d.snap.mem
          /\ req[j].file = "none" /\ ~ d.snap.usage => now - d.snap.at <= MaxAge
    /\ place \in {"input", "solve", "strict", "retry", "succeeded"} =>
          From(req, j, d.snap, d.norm)
    /\ place \in {"solve", "strict", "retry", "succeeded"} =>
          From(req, j, d.snap, d.input.of)
    /\ place = "retry" => From(req, j, d.snap, d.strict.of)

LocalsOk == \A j \in Job : JobOk(request, clock, j, pc[j], data[j])

CacheInv == /\ CacheTypeOK /\ IdleOk /\ AloneOk /\ WholeUnlessOverlapped
        /\ FilesFit /\ HandsFit /\ LocalsOk

-----------------------------------------------------------------------------
(* A queue of one write is emptied by one step. *)
LEMMA OneWrite ==
    ASSUME NEW w
    PROVE  <<w>> # <<>> /\ Head(<<w>>) = w /\ Tail(<<w>>) = <<>>
OBVIOUS

(* The values that stand for nothing are well typed. *)
LEMMA Types ==
    /\ NoSnapshot \in Snapshots /\ ~ NoSnapshot.mem /\ NoNorm \in Norms
    /\ NoInput \in Inputs /\ Nothing \in Locals /\ ~ Nothing.snap.mem
BY DEF NoSnapshot, Snapshot, Snapshots, NoNorm, Norms, NoInput, Inputs, Nothing, Locals

\* The three kinds of paths differ, and keys are told apart.
LEMMA Paths ==
    /\ \A key : SnapshotPath # NormPath(key) /\ SnapshotPath # InputPath(key)
    /\ \A key, other : NormPath(key) # InputPath(other)
    /\ \A key, other : NormPath(key) = NormPath(other) => key = other
    /\ \A key, other : InputPath(key) = InputPath(other) => key = other
<1>1. \A a, b, c, d : <<a, b>> = <<c, d>> => a = c /\ b = d
    OBVIOUS
<1> QED BY <1>1 DEF SnapshotPath, NormPath, InputPath

(* Put changes one path of the directory and keeps the others. *)
LEMMA PutFile ==
    ASSUME NEW f, NEW path, NEW file
    PROVE  /\ DOMAIN Store(f, path, file) = DOMAIN f \cup {path}
           /\ Store(f, path, file)[path] = file
           /\ \A p \in DOMAIN f \ {path} : Store(f, path, file)[p] = f[p]
BY DEF Store

\* The snapshot that may be there at the start.
OldFile(by, usage) == <<"whole", Snapshot(by, 0, usage, FALSE), 0>>

(* A file an earlier run of the program left is whole and of no job of this
   one. *)
LEMMA OldFileFits ==
    ASSUME NEW by \in {Older, Outdated}, NEW usage \in BOOLEAN
    PROVE  Whole(OldFile(by, usage)) /\ FileFits(request, SnapshotPath, OldFile(by, usage))
<1>1. /\ Snapshot(by, 0, usage, FALSE) \in Snapshots
      /\ ~ Snapshot(by, 0, usage, FALSE).mem
      /\ Fresh(Snapshot(by, 0, usage, FALSE), 0)
    BY AgeAssumption DEF Snapshot, Snapshots, Fresh
<1>2. Fits(request, SnapshotPath, Snapshot(by, 0, usage, FALSE), 0)
    BY <1>1, Paths DEF Fits
<1> QED BY <1>2 DEF FileFits, Value, Mtime, Whole, OldFile

(* The invariant holds at the start. *)
LEMMA CacheInitInv == CacheInit => CacheInv
<1> SUFFICES ASSUME CacheInit PROVE CacheInv
    OBVIOUS
<1>1. CacheTypeOK /\ IdleOk /\ HandsFit
  <2>1. \A j \in Job : Idle(j) /\ fd[j] = "no"
    BY DEF CacheInit, Idle
  <2>2. request \in [Job -> Request] /\ clock \in Nat
    BY RequestAssumption DEF CacheInit
  <2>3. /\ fd \in [Job -> {"tmp", "pub", "gone", "closed", "no"}]
        /\ DOMAIN todo = Job /\ DOMAIN pc = Job /\ DOMAIN data = Job
    BY DEF CacheInit
  <2> QED BY <2>1, <2>2, <2>3 DEF CacheTypeOK, IdleOk, HandsFit
<1>2. AloneOk
    BY DEF CacheInit, AloneOk, AloneAt, Writing, Idle
<1>3. DOMAIN tmp = {} /\ DOMAIN NoData = {}
    BY DEF CacheInit, NoData
<1>4. files = NoData \/ \E by \in {Older, Outdated}, usage \in BOOLEAN :
                           files = Store(NoData, SnapshotPath, OldFile(by, usage))
    BY DEF CacheInit, OldFile
<1>5. \A path \in DOMAIN files :
         Whole(files[path]) /\ FileFits(request, path, files[path])
  <2>1. CASE files = NoData
    BY <1>3, <2>1
  <2>2. ASSUME NEW by \in {Older, Outdated}, NEW usage \in BOOLEAN,
               files = Store(NoData, SnapshotPath, OldFile(by, usage))
        PROVE  \A path \in DOMAIN files :
                  Whole(files[path]) /\ FileFits(request, path, files[path])
    <3>1. DOMAIN files = {SnapshotPath} /\ files[SnapshotPath] = OldFile(by, usage)
      BY <1>3, <2>2 DEF Store
    <3> QED BY <3>1, OldFileFits
  <2> QED BY <1>4, <2>1, <2>2
<1>6. WholeUnlessOverlapped /\ FilesFit
    BY <1>3, <1>5 DEF WholeUnlessOverlapped, FilesFit
<1>7. LocalsOk
    BY Types DEF CacheInit, LocalsOk, JobOk, JobPlaces, Nothing
<1> QED BY <1>1, <1>2, <1>6, <1>7 DEF CacheInv

-----------------------------------------------------------------------------
\* The steps of a write leave everything but the files to the jobs.
JobsKept == UNCHANGED <<request, clock, pc, data>>

(* Steps that touch no job keep what is said of every job. *)
LEMMA KeptJobs ==
    ASSUME CacheInv, JobsKept
    PROVE  LocalsOk'
BY DEF CacheInv, LocalsOk, JobsKept

\* It is enough to look at the one path that is written.
Untouched(p) ==
    /\ p \in overlapped => p \in overlapped'
    /\ p \in DOMAIN tmp => p \in DOMAIN tmp' /\ tmp'[p] = tmp[p]
    /\ \A k \in Job : Writing(k, p)' => Writing(k, p) /\ fd'[k] = fd[k]

(* Paths a step does not touch keep who has them open. *)
LEMMA AloneElsewhere ==
    ASSUME CacheInv, NEW path, AloneAt(path)', \A p : p # path => Untouched(p)
    PROVE  AloneOk'
<1> SUFFICES ASSUME NEW p, p # path PROVE AloneAt(p)'
    BY DEF AloneOk
<1>1. AloneAt(p)
    BY DEF CacheInv, AloneOk
<1>2. /\ p \notin overlapped' => p \notin overlapped
      /\ p \in DOMAIN tmp => p \in DOMAIN tmp' /\ tmp'[p] = tmp[p]
      /\ \A k \in Job : Writing(k, p)' => Writing(k, p) /\ fd'[k] = fd[k]
    BY DEF Untouched
<1> QED BY <1>1, <1>2 DEF AloneAt, Whole

(* Putting a fitting file keeps every file fitting. *)
LEMMA PutFits ==
    ASSUME NEW req, NEW f, NEW path, NEW file,
           \A p \in DOMAIN f : FileFits(req, p, f[p]), FileFits(req, path, file)
    PROVE  \A p \in DOMAIN Store(f, path, file) : FileFits(req, p, Store(f, path, file)[p])
BY DEF Store

(* Opening a temporary file keeps the invariant. *)
LEMMA OpenInv ==
    ASSUME CacheInv, NEW j \in Job, Open(j)
    PROVE  CacheInv'
<1>0. PICK path : path = Path(j)
    OBVIOUS
<1> DEFINE file == <<"empty", NoData, Stamp(path)>>
           others == {k \in Job \ {j} : Writing(k, path)}
<1>1. /\ ~ Idle(j) /\ fd[j] = "no"
      /\ tmp' = Store(tmp, path, file)
      /\ fd' = [fd EXCEPT ![j] = "tmp"]
      /\ overlapped' = overlapped \cup {path : k \in others}
      /\ UNCHANGED <<request, clock, faults, files, todo, pc, data>>
    BY <1>0 DEF Open, Writing
<1>2. file[1] = "empty" /\ ~ Whole(file)
    BY DEF Whole
<1> HIDE DEF file
<1>3. /\ fd'[j] = "tmp" /\ \A k \in Job \ {j} : fd'[k] = fd[k]
      /\ \A k \in Job : (Idle(k)' <=> Idle(k)) /\ Path(k)' = Path(k)
    BY <1>0, <1>1 DEF CacheInv, CacheTypeOK, Idle, Path
<1>4. /\ DOMAIN tmp' = DOMAIN tmp \cup {path} /\ tmp'[path] = file
      /\ \A p \in DOMAIN tmp \ {path} : tmp'[p] = tmp[p]
    BY <1>0, <1>1 DEF Store
<1>5. CacheTypeOK' /\ IdleOk'
    BY <1>0, <1>1, <1>3 DEF CacheInv, CacheTypeOK, IdleOk, Idle
<1>6. HandsFit'
    BY <1>0, <1>1, <1>3 DEF CacheInv, HandsFit
<1>7. AloneOk'
  <2>1. AloneAt(path)'
    <3> SUFFICES ASSUME path \notin overlapped', NEW i \in Job, Writing(i, path)'
                 PROVE  i = j
      <4>1. others = {} => \A k \in Job \ {j} : ~ Writing(k, path)'
        BY <1>3 DEF Writing
      <4>2. path \notin overlapped' => others = {}
        BY <1>0, <1>1
      <4> QED BY <1>2, <1>3, <1>4, <4>1, <4>2 DEF AloneAt, Whole
    <3>1. others = {}
      BY <1>0, <1>1
    <3> QED BY <1>3, <3>1 DEF Writing
  <2>2. \A p : p # path => Untouched(p)
    BY <1>0, <1>1, <1>3, <1>4 DEF Untouched, Writing
  <2> QED BY <2>1, <2>2, AloneElsewhere
<1>8. WholeUnlessOverlapped'
    BY <1>0, <1>1 DEF CacheInv, WholeUnlessOverlapped, Whole
<1>9. FilesFit'
  <2>1. \A p \in DOMAIN files' : FileFits(request', p, files'[p])
    BY <1>0, <1>1 DEF CacheInv, FilesFit
  <2>2. FileFits(request', path, file)
    BY <1>2 DEF FileFits
  <2>3. \A p \in DOMAIN tmp' : FileFits(request', p, tmp'[p])
    BY <1>0, <1>1, <1>4, <2>2 DEF CacheInv, FilesFit
  <2> QED BY <2>1, <2>3 DEF FilesFit
<1>10. LocalsOk'
    BY <1>0, <1>1, KeptJobs DEF JobsKept
<1> QED BY <1>5, <1>6, <1>7, <1>8, <1>9, <1>10 DEF CacheInv

\* What Fill and WriteFails have in common: one file of the path gets new content,
\* unless the inode is gone; a writer that is alone has the .tmp.
LEMMA ContentInv ==
    ASSUME CacheInv, NEW j \in Job, ~ Idle(j), fd[j] \in {"tmp", "pub", "gone"},
           UNCHANGED <<request, overlapped>>,
           NEW file, FileFits(request, Path(j), file),
           \/ fd[j] = "gone" /\ UNCHANGED <<files, tmp>>
           \/ fd[j] = "tmp" /\ tmp' = Store(tmp, Path(j), file) /\ UNCHANGED files
           \/ fd[j] = "pub" /\ files' = Store(files, Path(j), file) /\ UNCHANGED tmp
    PROVE  /\ FilesFit' /\ WholeUnlessOverlapped'
           /\ \A p \in DOMAIN tmp \ {Path(j)} : p \in DOMAIN tmp' /\ tmp'[p] = tmp[p]
           /\ Path(j) \notin overlapped =>
                 /\ \A k \in Job \ {j} : ~ Writing(k, Path(j))
                 /\ tmp[Path(j)][1] = "empty"
                 /\ Path(j) \in DOMAIN tmp' /\ tmp'[Path(j)] = file
<1>0. PICK path : path = Path(j)
    OBVIOUS
<1>1. path \notin overlapped =>
         /\ \A k \in Job \ {j} : ~ Writing(k, path)
         /\ path \in DOMAIN tmp /\ fd[j] = "tmp" /\ tmp[path][1] = "empty"
  <2>1. Writing(j, path)
    BY <1>0 DEF Writing
  <2>2. AloneAt(path)
    BY DEF CacheInv, AloneOk
  <2> QED BY <2>1, <2>2 DEF AloneAt
<1>2. FilesFit'
    BY <1>0, PutFits DEF CacheInv, FilesFit
<1>3. \A f, p : /\ p \in DOMAIN f => p \in DOMAIN Store(f, path, file)
                /\ p \in DOMAIN f /\ p # path => Store(f, path, file)[p] = f[p]
                /\ p \in DOMAIN Store(f, path, file) /\ p # path => p \in DOMAIN f
                /\ path \in DOMAIN Store(f, path, file) /\ Store(f, path, file)[path] = file
    BY DEF Store
<1>4. WholeUnlessOverlapped'
  <2> SUFFICES ASSUME NEW p \in DOMAIN files', p \notin overlapped
               PROVE  Whole(files'[p])
    BY DEF WholeUnlessOverlapped, Whole
  <2>1. p \in DOMAIN files /\ files'[p] = files[p]
    BY <1>0, <1>1, <1>3
  <2> QED BY <2>1 DEF CacheInv, WholeUnlessOverlapped
<1> QED BY <1>0, <1>1, <1>2, <1>3, <1>4

(* Writing the bytes keeps the invariant. *)
LEMMA FillInv ==
    ASSUME CacheInv, NEW j \in Job, Fill(j)
    PROVE  CacheInv'
<1>0. PICK path : path = Path(j)
    OBVIOUS
<1> DEFINE own  == <<"whole", Head(todo[j]).value, Stamp(path)>>
           torn == Torn(j)
<1>1. /\ ~ Idle(j) /\ fd[j] \in {"tmp", "pub", "gone"}
      /\ fd' = [fd EXCEPT ![j] = "closed"]
      /\ UNCHANGED <<request, clock, faults, todo, pc, data, overlapped>>
    BY DEF Fill
<1>2. /\ Whole(own) /\ FileFits(request, path, own)
      /\ ~ Whole(torn) /\ FileFits(request, path, torn)
  <2>1. Fits(request, path, Head(todo[j]).value, clock)
    BY <1>0, <1>1 DEF CacheInv, HandsFit
  <2>2. Fits(request, path, Head(todo[j]).value, Stamp(path))
    BY <2>1 DEF Fits, Stamp
  <2> QED BY <2>2 DEF FileFits, Whole, Value, Mtime, Torn
<1>3. \/ fd[j] = "gone" /\ UNCHANGED <<files, tmp>>
      \/ /\ fd[j] = "tmp" /\ UNCHANGED files
         /\ \/ tmp' = Store(tmp, path, own)
            \/ tmp' = Store(tmp, path, torn) /\ tmp[path][1] # "empty"
      \/ /\ fd[j] = "pub" /\ UNCHANGED tmp
         /\ files' = Store(files, path, own) \/ files' = Store(files, path, torn)
    BY <1>0, <1>1 DEF Fill, ToInode, Inode, Written
<1> HIDE DEF own, torn
<1>4. PICK file \in {own, torn} :
         /\ \/ fd[j] = "gone" /\ UNCHANGED <<files, tmp>>
            \/ fd[j] = "tmp" /\ tmp' = Store(tmp, Path(j), file) /\ UNCHANGED files
            \/ fd[j] = "pub" /\ files' = Store(files, Path(j), file) /\ UNCHANGED tmp
         /\ fd[j] = "tmp" /\ tmp[path][1] = "empty" => file = own
    BY <1>0, <1>3
<1>5. /\ FilesFit' /\ WholeUnlessOverlapped'
      /\ \A p \in DOMAIN tmp \ {path} : p \in DOMAIN tmp' /\ tmp'[p] = tmp[p]
      /\ path \notin overlapped =>
            /\ \A k \in Job \ {j} : ~ Writing(k, path)
            /\ tmp[path][1] = "empty"
            /\ path \in DOMAIN tmp' /\ tmp'[path] = file
    BY <1>0, <1>1, <1>2, <1>4, ContentInv
<1>6. /\ fd'[j] = "closed" /\ \A k \in Job \ {j} : fd'[k] = fd[k]
      /\ \A k \in Job : (Idle(k)' <=> Idle(k)) /\ Path(k)' = Path(k)
    BY <1>0, <1>1 DEF CacheInv, CacheTypeOK, Idle, Path
<1>7. CacheTypeOK' /\ IdleOk' /\ HandsFit'
  <2>1. CacheTypeOK' /\ IdleOk'
    BY <1>0, <1>1, <1>6 DEF CacheInv, CacheTypeOK, IdleOk, Idle
  <2>2. HandsFit'
    BY <1>0, <1>1, <1>6 DEF CacheInv, HandsFit
  <2> QED BY <2>1, <2>2
<1>8. AloneOk'
  <2>1. AloneAt(path)'
    <3> SUFFICES ASSUME path \notin overlapped
                 PROVE  /\ \A k \in Job \ {j} : ~ Writing(k, path)'
                        /\ path \in DOMAIN tmp' /\ Whole(tmp'[path])
      BY <1>0, <1>1, <1>6 DEF AloneAt, Whole
    <3>1. \A k \in Job \ {j} : ~ Writing(k, path)'
      BY <1>5, <1>6 DEF Writing
    <3>2. fd[j] = "tmp"
      <4>1. AloneAt(path) /\ Writing(j, path)
        BY <1>0, <1>1 DEF CacheInv, AloneOk, Writing
      <4> QED BY <1>0, <1>1, <4>1 DEF AloneAt
    <3>3. file = own
      BY <1>4, <1>5, <3>2
    <3> QED BY <1>2, <1>5, <3>1, <3>3
  <2>2. \A p : p # path => Untouched(p)
    BY <1>0, <1>1, <1>5, <1>6 DEF Untouched, Writing
  <2> QED BY <2>1, <2>2, AloneElsewhere
<1>9. LocalsOk'
    BY <1>0, <1>1, KeptJobs DEF JobsKept
<1> QED BY <1>5, <1>7, <1>8, <1>9 DEF CacheInv

(* A failed write keeps the invariant. *)
LEMMA WriteFailsInv ==
    ASSUME CacheInv, NEW j \in Job, WriteFails(j)
    PROVE  CacheInv'
<1>0. PICK path : path = Path(j)
    OBVIOUS
<1> DEFINE torn == Torn(j)
<1>1. /\ ~ Idle(j) /\ fd[j] \in {"tmp", "pub", "gone"}
      /\ fd' = [fd EXCEPT ![j] = "no"] /\ todo' = [todo EXCEPT ![j] = Tail(@)]
      /\ UNCHANGED <<request, clock, pc, data, overlapped>>
    BY DEF WriteFails
<1>2. FileFits(request, path, torn)
    BY <1>0 DEF FileFits, Whole, Torn
<1> HIDE DEF torn
<1>3. \/ fd[j] = "gone" /\ UNCHANGED <<files, tmp>>
      \/ fd[j] = "tmp" /\ tmp' = Store(tmp, Path(j), torn) /\ UNCHANGED files
      \/ fd[j] = "pub" /\ files' = Store(files, Path(j), torn) /\ UNCHANGED tmp
    BY <1>0, <1>1 DEF WriteFails, ToInode, torn
<1>4. /\ FilesFit' /\ WholeUnlessOverlapped'
      /\ \A p \in DOMAIN tmp \ {path} : p \in DOMAIN tmp' /\ tmp'[p] = tmp[p]
      /\ path \notin overlapped => \A k \in Job \ {j} : ~ Writing(k, path)
    BY <1>0, <1>1, <1>2, <1>3, ContentInv
<1>5. /\ todo'[j] = <<>> /\ fd'[j] = "no"
      /\ \A k \in Job \ {j} : fd'[k] = fd[k] /\ todo'[k] = todo[k]
  <2>1. PICK w : todo[j] = <<w>>
    BY <1>0, <1>1 DEF CacheInv, CacheTypeOK
  <2> QED BY <1>0, <1>1, <2>1, OneWrite DEF CacheInv, CacheTypeOK
<1>6. /\ Idle(j)' /\ \A k \in Job \ {j} : (Idle(k)' <=> Idle(k)) /\ Path(k)' = Path(k)
    BY <1>5 DEF Idle, Path
<1>7. CacheTypeOK' /\ IdleOk' /\ HandsFit'
  <2>1. CacheTypeOK' /\ IdleOk'
    BY <1>0, <1>1, <1>5, <1>6 DEF CacheInv, CacheTypeOK, IdleOk
  <2>2. HandsFit'
    BY <1>0, <1>1, <1>5, <1>6 DEF CacheInv, HandsFit
  <2> QED BY <2>1, <2>2
<1>8. AloneOk'
  <2>1. AloneAt(path)'
    <3>1. path \notin overlapped' => \A k \in Job : ~ Writing(k, path)'
      BY <1>0, <1>1, <1>4, <1>5, <1>6 DEF Writing
    <3> QED BY <3>1 DEF AloneAt
  <2>2. \A p : p # path => Untouched(p)
    BY <1>0, <1>1, <1>4, <1>5, <1>6 DEF Untouched, Writing
  <2> QED BY <2>1, <2>2, AloneElsewhere
<1>9. LocalsOk'
    BY <1>0, <1>1, KeptJobs DEF JobsKept
<1> QED BY <1>4, <1>7, <1>8, <1>9 DEF CacheInv

(* The rename keeps the invariant: what is published is what the job filled,
   unless another job had the file open. *)
LEMMA RenameInv ==
    ASSUME CacheInv, NEW j \in Job, Rename(j)
    PROVE  CacheInv'
<1>0. PICK path : path = Path(j)
    OBVIOUS
<1>1. /\ ~ Idle(j) /\ fd[j] = "closed"
      /\ todo' = [todo EXCEPT ![j] = Tail(@)]
      /\ UNCHANGED <<request, clock, faults, pc, data, overlapped>>
    BY <1>0 DEF Rename
<1>2. \/ /\ path \in DOMAIN tmp
         /\ files' = Store(files, path, tmp[path]) /\ tmp' = Removed(tmp, path)
         /\ fd' = [k \in Job |-> IF k = j THEN "no" ELSE Moved(k, path)]
      \/ UNCHANGED <<files, tmp>> /\ fd' = [fd EXCEPT ![j] = "no"] /\ path \notin DOMAIN tmp
    BY <1>0 DEF Rename
<1>3. /\ todo'[j] = <<>> /\ \A k \in Job \ {j} : todo'[k] = todo[k]
  <2>1. PICK w : todo[j] = <<w>>
    BY <1>0, <1>1 DEF CacheInv, CacheTypeOK
  <2> QED BY <1>0, <1>1, <2>1, OneWrite DEF CacheInv, CacheTypeOK
<1>4. /\ Idle(j)' /\ \A k \in Job \ {j} : (Idle(k)' <=> Idle(k)) /\ Path(k)' = Path(k)
    BY <1>3 DEF Idle, Path
<1>5. /\ fd' \in [Job -> {"tmp", "pub", "gone", "closed", "no"}] /\ fd'[j] = "no"
      /\ \A k \in Job \ {j} :
            /\ fd'[k] = "no" <=> fd[k] = "no"
            /\ ~ Idle(k) => Path(k) = path \/ fd'[k] = fd[k]
    BY <1>0, <1>2 DEF Moved, CacheInv, CacheTypeOK
<1>6. CacheTypeOK' /\ IdleOk' /\ HandsFit'
  <2>1. CacheTypeOK'
    BY <1>0, <1>1, <1>3, <1>4, <1>5 DEF CacheInv, CacheTypeOK
  <2>2. IdleOk'
    BY <1>4, <1>5 DEF CacheInv, IdleOk
  <2>3. HandsFit'
    BY <1>0, <1>1, <1>3, <1>4 DEF CacheInv, HandsFit
  <2> QED BY <2>1, <2>2, <2>3
<1>7. path \notin overlapped =>
         /\ \A k \in Job \ {j} : ~ Writing(k, path)
         /\ path \in DOMAIN tmp /\ Whole(tmp[path])
  <2>1. AloneAt(path) /\ Writing(j, path)
    BY <1>0, <1>1 DEF CacheInv, AloneOk, Writing
  <2> QED BY <1>0, <1>1, <2>1 DEF AloneAt
<1>8. /\ \A p \in DOMAIN tmp \ {path} : p \in DOMAIN tmp' /\ tmp'[p] = tmp[p]
      /\ \A p \in DOMAIN tmp' : p \in DOMAIN tmp /\ tmp'[p] = tmp[p]
      /\ \A p \in DOMAIN files' : \/ p \in DOMAIN files /\ files'[p] = files[p]
                                  \/ /\ p = path /\ path \in DOMAIN tmp
                                     /\ files'[p] = tmp[path]
    BY <1>2 DEF Store, Removed
<1>9. AloneOk'
  <2>1. AloneAt(path)'
    <3>1. path \notin overlapped' => \A k \in Job : ~ Writing(k, path)'
      BY <1>0, <1>1, <1>4, <1>5, <1>7 DEF Writing
    <3> QED BY <3>1 DEF AloneAt
  <2>2. \A p : p # path => Untouched(p)
    BY <1>0, <1>1, <1>4, <1>5, <1>8 DEF Untouched, Writing
  <2> QED BY <2>1, <2>2, AloneElsewhere
<1>10. WholeUnlessOverlapped'
    BY <1>0, <1>1, <1>7, <1>8 DEF CacheInv, WholeUnlessOverlapped, Whole
<1>11. FilesFit'
    BY <1>0, <1>1, <1>8 DEF CacheInv, FilesFit
<1>12. LocalsOk'
    BY <1>0, <1>1, KeptJobs DEF JobsKept
<1> QED BY <1>6, <1>9, <1>10, <1>11, <1>12 DEF CacheInv

-----------------------------------------------------------------------------
\* A step of analyze_inner: the job had nothing to write; now it has what fits.
LEMMA GoToInv ==
    ASSUME CacheInv, NEW j \in Job, Idle(j), NEW place, NEW d, NEW writes,
           GoTo(j, place, writes, d), JobOk(request, clock, j, place, d),
           \/ writes = <<>>
           \/ \E path, value : /\ writes = <<Write(path, value)>>
                               /\ Fits(request, path, value, clock)
    PROVE  CacheInv'
<1>1. /\ pc' = [pc EXCEPT ![j] = place] /\ todo' = [todo EXCEPT ![j] = writes]
      /\ data' = [data EXCEPT ![j] = d]
      /\ UNCHANGED <<request, clock, files, tmp, fd, overlapped>>
    BY DEF GoTo
<1>2. /\ todo'[j] = writes /\ pc'[j] = place /\ data'[j] = d
      /\ \A k \in Job \ {j} : todo'[k] = todo[k] /\ pc'[k] = pc[k] /\ data'[k] = data[k]
      /\ DOMAIN todo' = Job /\ DOMAIN pc' = Job /\ DOMAIN data' = Job
    BY <1>1 DEF CacheInv, CacheTypeOK
<1>3. /\ \A k \in Job \ {j} : (Idle(k)' <=> Idle(k)) /\ Path(k)' = Path(k)
      /\ fd[j] = "no"
    BY <1>2 DEF Idle, Path, CacheInv, IdleOk
<1>4. CacheTypeOK' /\ IdleOk'
  <2>1. Idle(j)' \/ \E w : todo'[j] = <<w>>
    BY <1>2 DEF Idle
  <2> QED BY <1>1, <1>2, <1>3, <2>1 DEF CacheInv, CacheTypeOK, IdleOk
<1>5. AloneOk' /\ WholeUnlessOverlapped' /\ FilesFit'
  <2>1. \A k \in Job : \A p : Writing(k, p)' <=> Writing(k, p)
    BY <1>1, <1>3 DEF Writing
  <2>2. AloneOk'
    BY <1>1, <2>1 DEF CacheInv, AloneOk, AloneAt, Whole
  <2> QED BY <1>1, <2>2 DEF CacheInv, WholeUnlessOverlapped, FilesFit, Whole
<1>6. HandsFit'
  <2>1. ~ Idle(j)' => Fits(request, Path(j)', Head(todo'[j]).value, clock)
    BY <1>2, OneWrite DEF Idle, Path, Write
  <2>2. \A k \in Job \ {j} : ~ Idle(k)' => Fits(request, Path(k)', Head(todo'[k]).value, clock)
    BY <1>2, <1>3 DEF CacheInv, HandsFit
  <2> QED BY <1>1, <2>1, <2>2 DEF HandsFit
<1>7. LocalsOk'
    BY <1>1, <1>2 DEF CacheInv, LocalsOk
<1> QED BY <1>4, <1>5, <1>6, <1>7 DEF CacheInv

\* Without bypassing the caches nobody works on usage over a memory history but
\* with a snapshot of his own.
LEMMA OwnHistory ==
    ASSUME CacheInv, NEW j \in Job
    PROVE  /\ request[j] \in Request /\ pc[j] \in JobPlaces /\ data[j] \in Locals
           /\ ~ Bypass(j) /\ request[j].usage /\ data[j].snap.mem => request[j].file = "own"
BY DEF CacheInv, CacheTypeOK, LocalsOk, JobOk, Bypass, Request

(* Taking the memory or file snapshot keeps the invariant. *)
LEMMA LoadSnapshotInv ==
    ASSUME CacheInv, NEW j \in Job, LoadSnapshot(j)
    PROVE  CacheInv'
<1>1. pc[j] = "collect" /\ Idle(j)
    BY DEF LoadSnapshot, At
<1>2. /\ data[j] \in Locals /\ request[j] \in Request /\ clock \in Nat
      /\ data[j].snap.mem => request[j].file = "own" \/ request[j].historical
    BY OwnHistory DEF CacheInv, LocalsOk, JobOk, CacheTypeOK
<1>3. CASE request[j].file = "own"
           /\ GoTo(j, "overlay", <<>>, WithSnapshot(j, Snapshot("file", 0, TRUE, TRUE)))
  <2>1. JobOk(request, clock, j, "overlay", WithSnapshot(j, Snapshot("file", 0, TRUE, TRUE)))
    BY <1>2, <1>3 DEF JobOk, JobPlaces, WithSnapshot, Locals, Snapshot, Snapshots
  <2> QED BY <1>1, <1>3, <2>1, GoToInv
<1>4. CASE GoTo(j, "live", <<>>, data[j])
  <2>1. JobOk(request, clock, j, "live", data[j])
    BY <1>2 DEF JobOk, JobPlaces
  <2> QED BY <1>1, <1>4, <2>1, GoToInv
<1>5. CASE Usable(j) /\ Whole(files[SnapshotPath])
           /\ GoTo(j, "refresh", <<>>, WithSnapshot(j, Value(files[SnapshotPath])))
  <2> DEFINE snap  == Value(files[SnapshotPath])
             mtime == Mtime(files[SnapshotPath])
  <2>1. snap \in Snapshots /\ ~ snap.mem /\ Fresh(snap, mtime)
    BY <1>5 DEF CacheInv, FilesFit, FileFits, Fits, Usable, Exists
  <2>2. request[j].file = "cached" \/ clock - mtime <= MaxAge
    BY <1>2, <1>5, <2>1, AgeAssumption DEF Usable, TooOld, Fresh
  <2> HIDE DEF snap, mtime
  <2>3. request[j].file = "none" /\ ~ snap.usage => clock - snap.at <= MaxAge
    BY <1>2, <2>1, <2>2, AgeAssumption DEF Fresh, Snapshots
  <2>4. WithSnapshot(j, snap) \in Locals /\ WithSnapshot(j, snap).snap = snap
    BY <1>2, <2>1 DEF WithSnapshot, Locals
  <2>5. JobOk(request, clock, j, "refresh", WithSnapshot(j, snap))
    BY <2>1, <2>3, <2>4 DEF JobOk, JobPlaces
  <2> QED BY <1>1, <1>5, <2>5, GoToInv DEF snap
<1>6. CASE Fails(j)
  <2>1. JobOk(request, clock, j, "failed", Nothing)
    BY Types DEF JobOk, JobPlaces
  <2> QED BY <1>1, <1>6, <2>1, GoToInv DEF Fails
<1> QED BY <1>3, <1>4, <1>5, <1>6 DEF LoadSnapshot

(* Collecting from the cluster keeps the invariant. *)
LEMMA CollectLiveInv ==
    ASSUME CacheInv, NEW j \in Job, CollectLive(j)
    PROVE  CacheInv'
<1>1. pc[j] = "live" /\ Idle(j)
    BY DEF CollectLive, At
<1>2. PICK usage \in BOOLEAN :
         LET snap == Snapshot(j, clock, usage, FALSE)
         IN  GoTo(j, "refresh",
                  IF Bypass(j) THEN <<>> ELSE <<Write(SnapshotPath, snap)>>,
                  WithSnapshot(j, snap))
    BY DEF CollectLive
<1> DEFINE snap == Snapshot(j, clock, usage, FALSE)
<1>3. /\ snap \in Snapshots /\ ~ snap.mem /\ snap.at = clock /\ clock \in Nat
      /\ Fresh(snap, clock)
    BY AgeAssumption DEF Snapshot, Snapshots, Fresh, CacheInv, CacheTypeOK
<1>4. Fits(request, SnapshotPath, snap, clock)
    BY <1>3, Paths DEF Fits
<1>5. GoTo(j, "refresh", IF Bypass(j) THEN <<>> ELSE <<Write(SnapshotPath, snap)>>,
           WithSnapshot(j, snap))
    BY <1>2
<1> HIDE DEF snap
<1>6. WithSnapshot(j, snap) \in Locals /\ WithSnapshot(j, snap).snap = snap
    BY <1>3, OwnHistory DEF WithSnapshot, Locals
<1>7. JobOk(request, clock, j, "refresh", WithSnapshot(j, snap))
    BY <1>3, <1>6, AgeAssumption DEF JobOk, JobPlaces
<1> QED BY <1>1, <1>4, <1>5, <1>7, GoToInv

(* The refresh of usage keeps the invariant. *)
LEMMA RefreshInv ==
    ASSUME CacheInv, NEW j \in Job, Refresh(j)
    PROVE  CacheInv'
<1> DEFINE snap == data[j].snap
           full == [snap EXCEPT !.usage = TRUE]
<1>1. /\ pc[j] = "refresh" /\ Idle(j) /\ data[j] \in Locals /\ snap \in Snapshots
      /\ clock \in Nat
      /\ ~ snap.mem
      /\ request[j].file = "none" /\ ~ snap.usage => clock - snap.at <= MaxAge
    BY OwnHistory DEF Refresh, At, Locals, CacheInv, LocalsOk, JobOk, CacheTypeOK
<1>2. CASE /\ ~ snap.usage /\ request[j].file = "none"
           /\ GoTo(j, "overlay", <<Write(SnapshotPath, full)>>, WithSnapshot(j, full))
  <2>1. /\ full \in Snapshots /\ full.at = snap.at /\ full.usage /\ full.mem = snap.mem
    BY <1>1 DEF Snapshots
  <2> HIDE DEF full
  <2>2. WithSnapshot(j, full) \in Locals /\ WithSnapshot(j, full).snap = full
    BY <1>1, <2>1 DEF WithSnapshot, Locals
  <2>3. JobOk(request, clock, j, "overlay", WithSnapshot(j, full))
    BY <1>1, <2>1, <2>2 DEF JobOk, JobPlaces
  <2>4. Fits(request, SnapshotPath, full, clock)
    BY <1>1, <1>2, <2>1, Paths DEF Fits, Fresh
  <2> QED BY <1>1, <1>2, <2>3, <2>4, GoToInv
<1>3. CASE GoTo(j, "overlay", <<>>, data[j])
  <2>1. JobOk(request, clock, j, "overlay", data[j])
    BY <1>1 DEF JobOk, JobPlaces
  <2> QED BY <1>1, <1>3, <2>1, GoToInv
<1> QED BY <1>2, <1>3 DEF Refresh

(* The metrics overlay keeps the invariant. *)
LEMMA OverlayInv ==
    ASSUME CacheInv, NEW j \in Job, Overlay(j)
    PROVE  CacheInv'
<1> DEFINE snap == data[j].snap
           more == [snap EXCEPT !.mem = TRUE]
<1>1. /\ pc[j] = "overlay" /\ Idle(j) /\ data[j] \in Locals /\ snap \in Snapshots
      /\ snap.mem => request[j].file = "own" \/ request[j].historical
    BY OwnHistory DEF Overlay, At, Locals, CacheInv, LocalsOk, JobOk
<1>2. CASE request[j].historical /\ GoTo(j, "normalize", <<>>, WithSnapshot(j, more))
  <2>1. more \in Snapshots
    BY <1>1 DEF Snapshots
  <2> HIDE DEF more
  <2>2. WithSnapshot(j, more) \in Locals
    BY <1>1, <2>1 DEF WithSnapshot, Locals
  <2>3. JobOk(request, clock, j, "normalize", WithSnapshot(j, more))
    BY <1>2, <2>2 DEF JobOk, JobPlaces
  <2> QED BY <1>1, <1>2, <2>3, GoToInv
<1>3. CASE GoTo(j, "normalize", <<>>, data[j])
  <2>1. JobOk(request, clock, j, "normalize", data[j])
    BY <1>1 DEF JobOk, JobPlaces
  <2> QED BY <1>1, <1>3, <2>1, GoToInv
<1> QED BY <1>2, <1>3 DEF Overlay

\* A value is made by the job, or taken from a file it fits.
Provided(j, path, make, v) ==
    \/ Bypass(j) /\ v = make
    \/ ~ Bypass(j) /\ \E mtime : Fits(request, path, v, mtime)

(* A stage that reads or makes its result keeps the invariant if the result
   suits the job. *)
LEMMA FromCacheInv ==
    ASSUME CacheInv, NEW j \in Job, Idle(j), NEW path, NEW make, NEW next, NEW local,
           FromCache(j, path, make, next, local),
           ~ Bypass(j) => Fits(request, path, make, clock),
           \A v : Provided(j, path, make, v) =>
                     JobOk(request, clock, j, next, [data[j] EXCEPT ![local] = v])
    PROVE  CacheInv'
<1>1. CASE Bypass(j) /\ GoTo(j, next, <<>>, [data[j] EXCEPT ![local] = make])
  <2>1. JobOk(request, clock, j, next, [data[j] EXCEPT ![local] = make])
    BY <1>1 DEF Provided
  <2> QED BY <1>1, <2>1, GoToInv
<1>2. CASE /\ ~ Bypass(j)
           /\ GoTo(j, next, <<Write(path, make)>>, [data[j] EXCEPT ![local] = make])
  <2>1. JobOk(request, clock, j, next, [data[j] EXCEPT ![local] = make])
    BY <1>2 DEF Provided
  <2> QED BY <1>2, <2>1, GoToInv
<1>3. CASE /\ ~ Bypass(j) /\ Exists(path) /\ Whole(files[path])
           /\ GoTo(j, next, <<>>, [data[j] EXCEPT ![local] = Value(files[path])])
  <2>1. Fits(request, path, Value(files[path]), Mtime(files[path]))
    BY <1>3 DEF CacheInv, FilesFit, FileFits, Exists
  <2>2. JobOk(request, clock, j, next, [data[j] EXCEPT ![local] = Value(files[path])])
    BY <1>3, <2>1 DEF Provided
  <2> QED BY <1>3, <2>2, GoToInv
<1>4. CASE Fails(j)
  <2>1. JobOk(request, clock, j, "failed", Nothing)
    BY Types DEF JobOk, JobPlaces
  <2> QED BY <1>4, <2>1, GoToInv DEF Fails
<1> QED BY <1>1, <1>2, <1>3, <1>4 DEF FromCache

(* Normalising keeps the invariant. *)
LEMMA NormalizeInv ==
    ASSUME CacheInv, NEW j \in Job, Normalize(j)
    PROVE  CacheInv'
<1> DEFINE path == NormPath(NormKey(j))
           make == Normalized(j)
<1>1. /\ Idle(j) /\ FromCache(j, path, make, "input", "norm")
      /\ data[j] \in Locals /\ request[j] \in Request
      /\ data[j].snap.mem => request[j].file = "own" \/ request[j].historical
    BY OwnHistory DEF Normalize, At, CacheInv, LocalsOk, JobOk
<1>2. make \in Norms /\ make = NormalizedOf(request, j, data[j].snap, request[j].usage)
    BY <1>1 DEF Normalized, NormalizedOf, Norms, Locals, Snapshots, Request
<1> HIDE DEF make
<1>3. ASSUME ~ Bypass(j) PROVE Fits(request, path, make, clock)
  <2>1. MadeFor(request, make, NormKey(j))
    BY <1>2, <1>3, OwnHistory DEF MadeFor, NormKey
  <2> QED BY <1>2, <2>1, Paths DEF Fits
<1>4. ASSUME NEW v, Provided(j, path, make, v)
      PROVE  JobOk(request, clock, j, "input", [data[j] EXCEPT !["norm"] = v])
  <2>1. v \in Norms /\ From(request, j, data[j].snap, v)
    <3>1. CASE Bypass(j) /\ v = make
      BY <1>2, <3>1 DEF From, Bypass
    <3>2. CASE ~ Bypass(j) /\ v \in Norms /\ MadeFor(request, v, NormKey(j))
      BY <3>2 DEF From, Bypass, NormKey
    <3> QED BY <1>4, <3>1, <3>2 DEF Provided, Fits
  <2> DEFINE d == [data[j] EXCEPT !["norm"] = v]
  <2>2. d \in Locals /\ d.snap = data[j].snap /\ d.norm = v
    BY <1>1, <2>1 DEF Locals
  <2> HIDE DEF d
  <2>3. JobOk(request, clock, j, "input", d)
    BY <1>1, <2>1, <2>2 DEF JobOk, JobPlaces
  <2> QED BY <2>3 DEF d
<1> QED BY <1>1, <1>3, <1>4, FromCacheInv

\* The input made from the normalized cluster of the job, grouped or strict.
LEMMA InputProvided ==
    ASSUME CacheInv, NEW j \in Job, pc[j] \in {"input", "solve", "strict", "retry"},
           NEW strict \in BOOLEAN
    PROVE  /\ ~ Bypass(j) =>
                 Fits(request, InputPath(InputKey(j, strict)), BuiltInput(j, strict), clock)
           /\ \A v : Provided(j, InputPath(InputKey(j, strict)), BuiltInput(j, strict), v) =>
                        v \in Inputs /\ From(request, j, data[j].snap, v.of)
<1> DEFINE path == InputPath(InputKey(j, strict))
           make == BuiltInput(j, strict)
<1>1. data[j] \in Locals /\ From(request, j, data[j].snap, data[j].norm)
    BY DEF CacheInv, LocalsOk, JobOk
<1>2. make \in Inputs /\ make.of = data[j].norm
    BY <1>1 DEF BuiltInput, Inputs, Locals
<1>3. InputKey(j, strict).norm = [snap |-> data[j].snap, usage |-> request[j].usage]
    BY DEF InputKey, NormKey
<1> HIDE DEF make
<1>4. ASSUME ~ Bypass(j) PROVE Fits(request, path, make, clock)
  <2>1. MadeFor(request, make.of, InputKey(j, strict).norm)
    BY <1>1, <1>2, <1>3, <1>4 DEF From, Bypass
  <2> QED BY <1>2, <2>1, Paths DEF Fits
<1>5. ASSUME NEW v, Provided(j, path, make, v)
      PROVE  v \in Inputs /\ From(request, j, data[j].snap, v.of)
  <2>1. CASE Bypass(j) /\ v = make
    BY <1>1, <1>2, <2>1
  <2>2. CASE /\ ~ Bypass(j) /\ v \in Inputs
             /\ MadeFor(request, v.of, InputKey(j, strict).norm)
    BY <1>3, <2>2 DEF From, Bypass
  <2> QED BY <1>5, <2>1, <2>2 DEF Provided, Fits
<1> QED BY <1>4, <1>5 DEF make

(* Preparing the input keeps the invariant. *)
LEMMA PrepareInputInv ==
    ASSUME CacheInv, NEW j \in Job, PrepareInput(j)
    PROVE  CacheInv'
<1>1. /\ pc[j] = "input" /\ Idle(j)
      /\ FromCache(j, InputPath(InputKey(j, FALSE)), BuiltInput(j, FALSE), "solve", "input")
      /\ JobOk(request, clock, j, "input", data[j])
    BY DEF PrepareInput, At, CacheInv, LocalsOk
<1>2. ASSUME NEW v \in Inputs, From(request, j, data[j].snap, v.of)
      PROVE  JobOk(request, clock, j, "solve", [data[j] EXCEPT !["input"] = v])
  <2> DEFINE d == [data[j] EXCEPT !["input"] = v]
  <2>1. d \in Locals /\ d.snap = data[j].snap /\ d.norm = data[j].norm /\ d.input = v
    BY <1>1 DEF JobOk, Locals
  <2> HIDE DEF d
  <2>2. JobOk(request, clock, j, "solve", d)
    BY <1>1, <1>2, <2>1 DEF JobOk, JobPlaces
  <2> QED BY <2>2 DEF d
<1>3. \A v : Provided(j, InputPath(InputKey(j, FALSE)), BuiltInput(j, FALSE), v) =>
                JobOk(request, clock, j, "solve", [data[j] EXCEPT !["input"] = v])
    BY <1>1, <1>2, InputProvided
<1> QED BY <1>1, <1>3, InputProvided, FromCacheInv

(* Preparing the strict input keeps the invariant. *)
LEMMA PrepareStrictInv ==
    ASSUME CacheInv, NEW j \in Job, PrepareStrict(j)
    PROVE  CacheInv'
<1>1. /\ pc[j] = "strict" /\ Idle(j)
      /\ FromCache(j, InputPath(InputKey(j, TRUE)), BuiltInput(j, TRUE), "retry", "strict")
      /\ JobOk(request, clock, j, "strict", data[j])
    BY DEF PrepareStrict, At, CacheInv, LocalsOk
<1>2. ASSUME NEW v \in Inputs, From(request, j, data[j].snap, v.of)
      PROVE  JobOk(request, clock, j, "retry", [data[j] EXCEPT !["strict"] = v])
  <2> DEFINE d == [data[j] EXCEPT !["strict"] = v]
  <2>1. /\ d \in Locals /\ d.snap = data[j].snap /\ d.norm = data[j].norm
        /\ d.input = data[j].input /\ d.strict = v
    BY <1>1 DEF JobOk, Locals
  <2> HIDE DEF d
  <2>2. JobOk(request, clock, j, "retry", d)
    BY <1>1, <1>2, <2>1 DEF JobOk, JobPlaces
  <2> QED BY <2>2 DEF d
<1>3. \A v : Provided(j, InputPath(InputKey(j, TRUE)), BuiltInput(j, TRUE), v) =>
                JobOk(request, clock, j, "retry", [data[j] EXCEPT !["strict"] = v])
    BY <1>1, <1>2, InputProvided
<1> QED BY <1>1, <1>3, InputProvided, FromCacheInv

\* The solves change neither the files nor what the report will speak of.
LEMMA SolvesInv ==
    ASSUME CacheInv, NEW j \in Job, Solve(j) \/ SolveStrict(j)
    PROVE  CacheInv'
<1>1. /\ Idle(j) /\ pc[j] \in {"solve", "retry"} /\ JobOk(request, clock, j, pc[j], data[j])
    BY DEF Solve, SolveStrict, At, CacheInv, LocalsOk
<1>2. ASSUME NEW input \in Inputs, From(request, j, data[j].snap, input.of),
             Succeeds(j, input)
      PROVE  CacheInv'
  <2> DEFINE d == [data[j] EXCEPT !.input = input, !.strict = NoInput, !.grouped = "ok"]
  <2>1. d \in Locals /\ d.snap = data[j].snap /\ d.norm = data[j].norm /\ d.input = input
    BY <1>1, Types DEF JobOk, Locals
  <2> HIDE DEF d
  <2>2. JobOk(request, clock, j, "succeeded", d)
    BY <1>1, <1>2, <2>1 DEF JobOk, JobPlaces
  <2> QED BY <1>1, <1>2, <2>2, GoToInv DEF Succeeds, d
<1>3. ASSUME Fails(j) PROVE CacheInv'
  <2>1. JobOk(request, clock, j, "failed", Nothing)
    BY Types DEF JobOk, JobPlaces
  <2> QED BY <1>1, <1>3, <2>1, GoToInv DEF Fails
<1>4. ASSUME NEW outcome \in {"infeasible", "error"}, pc[j] = "solve",
             GoTo(j, "strict", <<>>, [data[j] EXCEPT !.grouped = outcome])
      PROVE  CacheInv'
  <2> DEFINE d == [data[j] EXCEPT !.grouped = outcome]
  <2>1. /\ d \in Locals /\ d.snap = data[j].snap /\ d.norm = data[j].norm
        /\ d.input = data[j].input
    BY <1>1 DEF JobOk, Locals
  <2> HIDE DEF d
  <2>2. JobOk(request, clock, j, "strict", d)
    BY <1>1, <1>4, <2>1 DEF JobOk, JobPlaces
  <2> QED BY <1>1, <1>4, <2>2, GoToInv DEF d
<1>5. /\ data[j].input \in Inputs /\ From(request, j, data[j].snap, data[j].input.of)
      /\ data[j].strict \in Inputs
      /\ pc[j] = "retry" => From(request, j, data[j].snap, data[j].strict.of)
    BY <1>1 DEF JobOk, Locals
<1>6. CASE Solve(j)
    BY <1>2, <1>3, <1>4, <1>5, <1>6 DEF Solve, At
<1>7. CASE SolveStrict(j)
    BY <1>2, <1>3, <1>5, <1>7 DEF SolveStrict, At
<1> QED BY <1>6, <1>7

(* A job that fails keeps the invariant. *)
LEMMA GivesUpInv ==
    ASSUME CacheInv, NEW j \in Job, GivesUp(j)
    PROVE  CacheInv'
<1>1. Idle(j) /\ GoTo(j, "failed", <<>>, Nothing)
    BY DEF GivesUp, Fails
<1>2. JobOk(request, clock, j, "failed", Nothing)
    BY Types DEF JobOk, JobPlaces
<1> QED BY <1>1, <1>2, GoToInv

\* Time passes for nobody who has a snapshot in hand.
LEMMA TickInv ==
    ASSUME CacheInv, Tick
    PROVE  CacheInv'
<1>1. /\ clock' = clock + 1
      /\ UNCHANGED <<request, files, tmp, fd, todo, pc, data, overlapped>>
      /\ \A j \in Job : pc[j] # "refresh" /\ (~ Idle(j) => Path(j) # SnapshotPath)
    BY DEF Tick, jobVars
<1>2. CacheTypeOK' /\ IdleOk'
    BY <1>1 DEF CacheInv, CacheTypeOK, IdleOk, Idle
<1>3. AloneOk' /\ WholeUnlessOverlapped' /\ FilesFit'
    BY <1>1 DEF CacheInv, AloneOk, AloneAt, Writing, Idle, Path, Whole, WholeUnlessOverlapped,
                FilesFit
<1>4. HandsFit'
  <2> SUFFICES ASSUME NEW j \in Job, ~ Idle(j)
               PROVE  Fits(request, Path(j), Head(todo[j]).value, clock + 1)
    BY <1>1 DEF HandsFit, Idle, Path
  <2>1. Fits(request, Path(j), Head(todo[j]).value, clock) /\ Path(j) # SnapshotPath
    BY <1>1 DEF CacheInv, HandsFit
  <2> QED BY <2>1 DEF Fits
<1>5. LocalsOk'
  <2> SUFFICES ASSUME NEW j \in Job PROVE JobOk(request, clock + 1, j, pc[j], data[j])
    BY <1>1 DEF LocalsOk
  <2>1. JobOk(request, clock, j, pc[j], data[j]) /\ pc[j] # "refresh"
    BY <1>1 DEF CacheInv, LocalsOk
  <2> QED BY <2>1 DEF JobOk
<1> QED BY <1>2, <1>3, <1>4, <1>5 DEF CacheInv

-----------------------------------------------------------------------------
(* Every step keeps the invariant. *)
LEMMA CacheNextInv == CacheInv /\ [CacheNext]_cacheVars => CacheInv'
<1> SUFFICES ASSUME CacheInv, [CacheNext]_cacheVars PROVE CacheInv'
    OBVIOUS
<1>1. CASE UNCHANGED cacheVars
  <2>1. UNCHANGED <<request, clock, files, tmp, fd, todo, pc, data, overlapped>>
    BY <1>1 DEF cacheVars, jobVars
  <2> QED BY <2>1 DEF CacheInv, CacheTypeOK, IdleOk, AloneOk, AloneAt, Writing, Idle, Path, Whole,
                      WholeUnlessOverlapped, FilesFit, HandsFit, LocalsOk
<1>2. CASE CacheNext
    BY <1>2, OpenInv, FillInv, WriteFailsInv, RenameInv, LoadSnapshotInv, CollectLiveInv,
       RefreshInv, OverlayInv, NormalizeInv, PrepareInputInv, SolvesInv, PrepareStrictInv,
       GivesUpInv, TickInv DEF CacheNext, Analyze, WriteStep
<1> QED BY <1>1, <1>2

(* analysis_cache.rs, server.rs: jobs, files and caches stay well typed. *)
THEOREM CacheTypeCorrect == CacheSpec => []CacheTypeOK
<1>1. CacheInv => CacheTypeOK
    BY DEF CacheInv
<1> QED BY <1>1, CacheInitInv, CacheNextInv, PTL DEF CacheSpec

\* Without a lock, what breaks a published file is another writer of it and nothing
\* else: no failed write, no crash of one job and no order of renames does.
THEOREM FilesAreWhole == CacheSpec => []WholeUnlessOverlapped
<1>1. CacheInv => WholeUnlessOverlapped
    BY DEF CacheInv
<1> QED BY <1>1, CacheInitInv, CacheNextInv, PTL DEF CacheSpec

\* What the job itself would have made, but for the overflow bound.
LEMMA FromIsOwn ==
    ASSUME CacheInv, NEW j \in Job, NEW norm, From(request, j, data[j].snap, norm)
    PROVE  SameBut(norm, Normalized(j)) /\ (~ Rival(j) => norm = Normalized(j))
<1> DEFINE snap == data[j].snap
           own  == NormalizedOf(request, j, snap, request[j].usage)
<1>1. /\ own = Normalized(j) /\ own.of = snap /\ own.usage = request[j].usage
    BY DEF Normalized, NormalizedOf
<1>2. CASE Bypass(j)
  <2>1. norm = own
    BY <1>2 DEF From, Bypass
  <2> QED BY <1>1, <2>1 DEF SameBut
<1>3. CASE ~ Bypass(j)
  <2>1. PICK k \in Job :
           /\ request[k].usage = request[j].usage
           /\ request[j].usage /\ snap.mem => request[k].file = "own"
           /\ norm = NormalizedOf(request, k, snap, request[j].usage)
    BY <1>3 DEF From, Bypass, MadeFor
  <2>2. norm.of = snap /\ norm.usage = request[j].usage
    BY <2>1 DEF NormalizedOf
  <2>3. request[j].usage /\ snap.mem => request[j].file = "own"
    BY <1>3, OwnHistory
  <2>4. ~ Rival(j) /\ request[j].usage /\ snap.mem =>
           request[k].overflow = request[j].overflow
    BY <2>1, <2>3 DEF Rival
  <2>5. ~ Rival(j) => norm = own
    BY <2>1, <2>4 DEF NormalizedOf
  <2> QED BY <1>1, <2>2, <2>5 DEF SameBut
<1> QED BY <1>2, <1>3

\* Whatever other jobs keep in the caches, a report speaks of the job's own snapshot
\* and options, and of its own overflow bound unless a rival differs in just that.
THEOREM ReportsAreOfRequests == CacheSpec => []ReportIsOfRequest
<1>1. ASSUME CacheInv, NEW j \in Job, pc[j] = "succeeded"
      PROVE  /\ SameBut(data[j].norm, Normalized(j))
             /\ SameBut(data[j].input.of, Normalized(j))
             /\ ~ Rival(j) => /\ data[j].norm = Normalized(j)
                              /\ data[j].input.of = data[j].norm
  <2>1. /\ From(request, j, data[j].snap, data[j].norm)
        /\ From(request, j, data[j].snap, data[j].input.of)
    BY <1>1 DEF CacheInv, LocalsOk, JobOk
  <2> QED BY <1>1, <2>1, FromIsOwn
<1>2. CacheInv => ReportIsOfRequest
    BY <1>1 DEF ReportIsOfRequest
<1> QED BY <1>2, CacheInitInv, CacheNextInv, PTL DEF CacheSpec

\* A snapshot from the cache is younger than twice the age limit.
THEOREM SnapshotsAreRecent == CacheSpec => SnapshotIsRecent
<1>1. ASSUME CacheInv, CacheNext, NEW j \in Job, pc[j] = "collect", pc'[j] = "refresh",
             request[j].file = "none"
      PROVE  clock - data'[j].snap.at <= 2 * MaxAge
  <2>1. ASSUME LoadSnapshot(j)
        PROVE  clock - data'[j].snap.at <= 2 * MaxAge
    <3> DEFINE snap  == Value(files[SnapshotPath])
               mtime == Mtime(files[SnapshotPath])
    <3>1. /\ Usable(j) /\ Whole(files[SnapshotPath])
          /\ GoTo(j, "refresh", <<>>, WithSnapshot(j, snap))
      BY <1>1, <2>1 DEF LoadSnapshot, GoTo, Fails, CacheInv, CacheTypeOK
    <3>2. snap \in Snapshots /\ Fresh(snap, mtime)
      <4>1. FileFits(request, SnapshotPath, files[SnapshotPath])
        BY <1>1, <3>1 DEF CacheInv, FilesFit, Usable, Exists
      <4> QED BY <3>1, <4>1 DEF FileFits, Fits
    <3>3. ~ (clock - mtime > MaxAge)
      BY <1>1, <3>1 DEF Usable, TooOld
    <3>4. data'[j].snap = snap
      BY <1>1, <3>1, OwnHistory DEF GoTo, WithSnapshot, Locals, CacheInv, CacheTypeOK
    <3> HIDE DEF snap, mtime
    <3>5. /\ clock \in Nat /\ MaxAge \in Nat /\ mtime \in Nat /\ snap.at \in Nat
          /\ mtime - snap.at <= MaxAge
      BY <1>1, <3>2, AgeAssumption DEF Fresh, Snapshots, CacheInv, CacheTypeOK
    <3> QED BY <3>3, <3>4, <3>5
  <2>2. ASSUME NEW k \in Job, Analyze(k), k # j
        PROVE  pc'[j] = pc[j]
    <3>1. CASE WriteStep(k)
      BY <3>1 DEF WriteStep, Open, Fill, WriteFails, Rename
    <3>2. CASE ~ WriteStep(k)
      <4>1. \E place, writes, locals : GoTo(k, place, writes, locals)
        BY <2>2, <3>2, Zenon DEF Analyze, LoadSnapshot, CollectLive, Refresh, Overlay,
                     Normalize, PrepareInput, Solve, PrepareStrict, SolveStrict,
                     GivesUp, Fails, Succeeds, FromCache
      <4> QED BY <1>1, <2>2, <4>1 DEF GoTo, CacheInv, CacheTypeOK
    <3> QED BY <3>1, <3>2
  <2>3. ASSUME Analyze(j), ~ LoadSnapshot(j)
        PROVE  pc'[j] # "refresh"
    BY <1>1, <2>3 DEF Analyze, WriteStep, Open, Fill, WriteFails, Rename, CollectLive,
                      Refresh, Overlay, Normalize, PrepareInput, Solve, PrepareStrict,
                      SolveStrict, GivesUp, At, Fails, Succeeds, FromCache, GoTo, CacheInv,
                      CacheTypeOK
  <2>4. ASSUME Tick PROVE pc'[j] = pc[j]
    BY <2>4 DEF Tick, jobVars
  <2> QED BY <1>1, <2>1, <2>2, <2>3, <2>4 DEF CacheNext
<1>2. CacheInv /\ [CacheNext]_cacheVars =>
         [\A j \in Job : pc[j] = "collect" /\ pc'[j] = "refresh"
                                           /\ request[j].file = "none"
            => clock - data'[j].snap.at <= 2 * MaxAge]_cacheVars
    BY <1>1
<1> QED BY <1>2, CacheInitInv, CacheNextInv, PTL DEF CacheSpec, SnapshotIsRecent
=============================================================================
