---------------------------- MODULE GroomerProofs ----------------------------
(***************************************************************************)
(* What the deployed groomer does rests on what was so: the snapshot is    *)
(* grounded in the time it took (Grounded), the records it replays attest  *)
(* their conditions (Recalled), and so do the verdicts being executed      *)
(* (Decided).  Together, with TypeInv, they are ActInv, from which follow  *)
(* the promises about the creation of changes and about merges.            *)
(***************************************************************************)
EXTENDS GroomerTypes

-----------------------------------------------------------------------------
(* What is remembered of the time a snapshot takes.                         *)

\* Whoever takes the step, the repository is one.
LEMMA StepSound ==
    ASSUME TypeInv, [Next]_vars
    PROVE  Sound(repo')
BY TypeStep DEF TypeInv, TypeOK, Sound

\* What is remembered of a step.
LEMMA Remembered ==
    ASSUME TypeInv, [HNext]_hvars
    PROVE  /\ \A r \in during' : r \in during \/ r = repo'
           /\ step' # "idle" => during \subseteq during'
           /\ step' \in FetchSteps /\ HNext => repo' \in during'
<1>1. CASE HNext
  <2>1. step \in {"idle", "reconcile", "execute"} \cup FetchSteps
    BY DEF TypeInv, TypeOK, Steps
  <2>2. step \in {"reconcile", "execute"} => step' \notin FetchSteps
    <3>1. SUFFICES ASSUME step \in {"reconcile", "execute"} PROVE step' \notin FetchSteps
      OBVIOUS
    <3>2. ~StartPass /\ ~TakeSnapshot
      BY <3>1 DEF StartPass, TakeSnapshot, Fetch, ReadPage, Enrich, ReadBlockers,
         PullCalls, Listings, Range
    <3>3. CASE Reconcile \/ FinishPass \/ Die
      BY <3>3, FetchStepNames DEF Reconcile, FinishPass, Die, EndPass
    <3>4. CASE ExecuteNext
      BY <3>4, ExecuteFrame, FetchStepNames
    <3>5. CASE Others
      BY <3>1, <3>5, FetchStepNames DEF Others, fetching
    <3> QED
      BY <1>1, <3>2, <3>3, <3>4, <3>5 DEF HNext, Next, Groom
  <2> QED
    BY <1>1, <2>1, <2>2, FetchStepNames DEF HNext, Remember
<1>2. CASE ~HNext
  BY <1>2 DEF hvars
<1> QED
  BY <1>1, <1>2

\* The repository is remembered while it is being read.
LEMMA HistoryStep ==
    ASSUME TypeInv, History, [HNext]_hvars
    PROVE  History'
<1>1. [Next]_vars
  BY DEF HNext, hvars
<1>3. ASSUME NEW r \in during' PROVE Sound(r)
  BY <1>1, StepSound, Remembered DEF History
<1>4. step' \in FetchSteps => repo' \in during'
  <2>1. CASE HNext
    BY <2>1, Remembered
  <2>2. CASE UNCHANGED hvars
    BY <2>2 DEF hvars, vars, fetching, History
  <2> QED
    BY <2>1, <2>2
<1> QED
  BY <1>3, <1>4 DEF History

-----------------------------------------------------------------------------
(* What the snapshot says was so.                                           *)

\* What was so at some moment stays so.
LEMMA IssueStaysGrounded ==
    ASSUME during \subseteq during', NEW i, IssueGrounded(i),
           seen'.issues[i] = seen.issues[i]
    PROVE  IssueGrounded(i)'
BY DEF IssueGrounded

\* as does what was green,
LEMMA WasGreenStays ==
    ASSUME during \subseteq during', NEW p, WasGreen(p)
    PROVE  WasGreen(p)'
BY DEF WasGreen, Sometime

\* what is known of a pull request,
LEMMA PullStaysGrounded ==
    ASSUME during \subseteq during', NEW p, seen'.pulls[p] = seen.pulls[p],
           seen.unsure \subseteq seen'.unsure,
           PullGrounded(p), MergeableGrounded(p), GreenGrounded(p)
    PROVE  PullGrounded(p)' /\ MergeableGrounded(p)' /\ GreenGrounded(p)'
<1>1. PullGrounded(p)' /\ MergeableGrounded(p)'
  BY DEF PullGrounded, MergeableGrounded
<1>2. GreenGrounded(p)'
  BY WasGreenStays DEF GreenGrounded
<1> QED
  BY <1>1, <1>2

\* of the blockers of a record,
LEMMA DepsStayGrounded ==
    ASSUME during \subseteq during', NEW n, DepsGrounded(n), seen'.deps[n] = seen.deps[n],
           seen.unread \subseteq seen'.unread
    PROVE  DepsGrounded(n)'
BY DEF DepsGrounded

\* and of a record that was closed.
LEMMA ClosedStayGrounded ==
    ASSUME during \subseteq during', NEW n, WasClosed(n)
    PROVE  WasClosed(n)'
BY DEF WasClosed, IsClosed

\* A step that reads nothing leaves all that was read grounded.
LEMMA StaysGrounded ==
    ASSUME Grounded, during \subseteq during', seen' = seen
    PROVE  Grounded'
BY IssueStaysGrounded, PullStaysGrounded, DepsStayGrounded,
   ClosedStayGrounded DEF Grounded

\* A page of a listing is of the repository of this moment.
LEMMA BatchGrounded ==
    ASSUME IsSnapshot(seen), Coherent(repo), Grounded, repo \in during,
           during \subseteq during',
           NEW listing, NEW batch, batch \subseteq Listed(listing),
           seen' = WithBatch(listing, batch)
    PROVE  Grounded'
<1>1. CASE listing = "open_issues"
  <2>1. /\ seen'.pulls = seen.pulls /\ seen'.closed = seen.closed
        /\ seen'.native = seen.native /\ seen'.deps = seen.deps
        /\ seen'.unread = seen.unread /\ seen'.unsure = seen.unsure
        /\ seen'.issues = Extend(seen.issues, batch \cap Issues, IssueSeen)
    BY <1>1 DEF WithBatch, IsSnapshot, NothingSeen
  <2>2. ASSUME NEW i \in DOMAIN seen'.issues PROVE IssueGrounded(i)'
    <3>1. CASE seen'.issues[i] = IssueSeen(i)
      BY <3>1 DEF IssueSeen, IssueGrounded
    <3>2. CASE i \in DOMAIN seen.issues /\ seen'.issues[i] = seen.issues[i]
      BY <3>2, IssueStaysGrounded DEF Grounded
    <3> QED
      BY <2>1, <3>1, <3>2 DEF Extend
  <2> QED
    BY <2>1, <2>2, PullStaysGrounded, DepsStayGrounded, ClosedStayGrounded DEF Grounded
<1>2. CASE listing = "open_pulls"
  <2>1. /\ seen'.issues = seen.issues /\ seen'.closed = seen.closed
        /\ seen'.native = seen.native /\ seen'.deps = seen.deps
        /\ seen'.unread = seen.unread /\ seen'.unsure = seen.unsure
        /\ seen'.pulls = Extend(seen.pulls, batch, PullSeen)
    BY <1>2 DEF WithBatch, IsSnapshot, NothingSeen
  <2>2. ASSUME NEW p \in DOMAIN seen'.pulls
        PROVE  PullGrounded(p)' /\ MergeableGrounded(p)' /\ GreenGrounded(p)'
    <3>1. CASE p \in batch /\ seen'.pulls[p] = PullSeen(p)
      <4>1. /\ seen'.pulls[p].labels = repo.labels[p]
            /\ seen'.pulls[p].draft = repo.pulls[p].draft
            /\ seen'.pulls[p].mergeable = None /\ seen'.pulls[p].ci_green = None
        BY <3>1 DEF PullSeen
      <4>2. /\ (seen'.pulls[p].mergeable = TRUE) = FALSE
            /\ (seen'.pulls[p].ci_green = TRUE) = FALSE
        BY <4>1, TrackerAssumption
      <4>4. repo \in during'
        OBVIOUS
      <4> QED
        BY <4>1, <4>2, <4>4 DEF PullGrounded, MergeableGrounded, GreenGrounded
    <3>2. CASE p \in DOMAIN seen.pulls /\ seen'.pulls[p] = seen.pulls[p]
      BY <2>1, <3>2, PullStaysGrounded DEF Grounded
    <3> QED
      BY <2>1, <3>1, <3>2 DEF Extend
  <2> QED
    BY <2>1, <2>2, IssueStaysGrounded, DepsStayGrounded, ClosedStayGrounded DEF Grounded
<1>3. CASE listing \notin {"open_issues", "open_pulls"}
  <2>1. /\ seen'.issues = seen.issues /\ seen'.pulls = seen.pulls
        /\ seen'.native = seen.native /\ seen'.deps = seen.deps
        /\ seen'.unread = seen.unread /\ seen'.unsure = seen.unsure
        /\ seen'.closed \subseteq seen.closed \cup batch
    BY <1>3 DEF WithBatch, IsSnapshot, NothingSeen
  <2>2. ASSUME NEW n \in batch PROVE WasClosed(n)'
    <3>1. IsClosed(repo, n)
      BY <1>3 DEF Listed, IsClosed
    <3> QED
      BY <3>1 DEF WasClosed, IsClosed
  <2> QED
    BY <2>1, <2>2, IssueStaysGrounded, PullStaysGrounded, DepsStayGrounded,
       ClosedStayGrounded DEF Grounded
<1> QED
  BY <1>1, <1>2, <1>3

\* A detail is of one moment.
LEMMA DetailGrounded ==
    ASSUME IsSnapshot(seen), Grounded, repo \in during, during \subseteq during',
           NEW p \in DOMAIN seen.pulls, ReadDetail(p)
    PROVE  Grounded'
<1>1. CASE seen' = seen
  BY <1>1, StaysGrounded
<1>2. CASE seen' = [seen EXCEPT !.pulls[p].mergeable = repo.pulls[p].mergeable,
                         !.pulls[p].mergeable_state = repo.pulls[p].mergeable_state,
                         !.head = repo.pulls[p].head]
  <2> DEFINE pull == [seen.pulls[p] EXCEPT !.mergeable = repo.pulls[p].mergeable,
                               !.mergeable_state = repo.pulls[p].mergeable_state]
  <2>1. /\ seen'.issues = seen.issues /\ seen'.closed = seen.closed
        /\ seen'.native = seen.native /\ seen'.deps = seen.deps
        /\ seen'.unread = seen.unread /\ seen'.unsure = seen.unsure
        /\ seen'.pulls = [seen.pulls EXCEPT ![p] = pull]
    BY <1>2 DEF IsSnapshot, NothingSeen
  <2>2. /\ pull.labels = seen.pulls[p].labels /\ pull.draft = seen.pulls[p].draft
        /\ pull.mergeable = repo.pulls[p].mergeable
        /\ pull.mergeable_state = repo.pulls[p].mergeable_state
        /\ pull.ci_green = seen.pulls[p].ci_green
    BY DEF IsSnapshot, IsPullSeen
  <2> HIDE DEF pull
  <2>3. seen'.pulls[p] = pull
    BY <2>1
  <2>4. PullGrounded(p)'
    BY <2>2, <2>3 DEF PullGrounded, Grounded
  <2>5. MergeableGrounded(p)'
    BY <2>2, <2>3 DEF MergeableGrounded
  <2>6. GreenGrounded(p)'
    BY <2>1, <2>2, <2>3, WasGreenStays DEF GreenGrounded, Grounded
  <2> QED
    BY <2>1, <2>4, <2>5, <2>6, IssueStaysGrounded, PullStaysGrounded, DepsStayGrounded,
       ClosedStayGrounded DEF Grounded
<1> QED
  BY <1>1, <1>2 DEF ReadDetail

\* What is decided of CI was so; only without its statuses may a pull request be
\* taken for green when it is not.
LEMMA EnrichedGrounded ==
    ASSUME IsSnapshot(seen), Grounded, during \subseteq during',
           NEW p \in DOMAIN seen.pulls, NEW g, NEW unsure, seen.unsure \subseteq unsure,
           g = TRUE /\ p \notin unsure => WasGreen(p)',
           seen' = [Enriched(p, g) EXCEPT !.unsure = unsure]
    PROVE  Grounded'
<1>1. /\ Enriched(p, g).pulls =
            [seen.pulls EXCEPT ![p] = [seen.pulls[p] EXCEPT !.ci_green = g]]
      /\ Enriched(p, g).issues = seen.issues /\ Enriched(p, g).closed = seen.closed
      /\ Enriched(p, g).native = seen.native /\ Enriched(p, g).deps = seen.deps
      /\ Enriched(p, g).unread = seen.unread
      /\ DOMAIN Enriched(p, g) = DOMAIN NothingSeen
  BY DEF Enriched, IsSnapshot, NothingSeen
<1>2. /\ seen'.issues = seen.issues /\ seen'.closed = seen.closed
      /\ seen'.native = seen.native /\ seen'.deps = seen.deps
      /\ seen'.unread = seen.unread /\ seen'.unsure = unsure
      /\ seen'.pulls = [seen.pulls EXCEPT ![p] = [seen.pulls[p] EXCEPT !.ci_green = g]]
  BY <1>1 DEF NothingSeen
<1>3. PullGrounded(p)' /\ MergeableGrounded(p)' /\ GreenGrounded(p)'
  <2>1. /\ seen'.pulls[p].labels = seen.pulls[p].labels
        /\ seen'.pulls[p].draft = seen.pulls[p].draft
        /\ seen'.pulls[p].mergeable = seen.pulls[p].mergeable
        /\ seen'.pulls[p].mergeable_state = seen.pulls[p].mergeable_state
        /\ seen'.pulls[p].ci_green = g
    BY <1>2 DEF IsSnapshot, IsPullSeen
  <2>2. PullGrounded(p)' /\ MergeableGrounded(p)'
    BY <2>1 DEF PullGrounded, MergeableGrounded, Grounded
  <2>3. GreenGrounded(p)'
    BY <1>2, <2>1 DEF GreenGrounded
  <2> QED
    BY <2>2, <2>3
<1> QED
  BY <1>2, <1>3, IssueStaysGrounded, PullStaysGrounded, DepsStayGrounded,
     ClosedStayGrounded DEF Grounded

\* A record is itself with the value that one of its fields has.
LEMMA KeptField ==
    ASSUME IsSnapshot(seen), NEW p, NEW g
    PROVE  /\ Enriched(p, g) = [Enriched(p, g) EXCEPT !.unsure = seen.unsure]
           /\ [Enriched(p, g) EXCEPT !.unsure = @ \cup {p}]
                = [Enriched(p, g) EXCEPT !.unsure = seen.unsure \cup {p}]
<1>1. Enriched(p, g).unsure = seen.unsure
  BY DEF Enriched, IsSnapshot, NothingSeen
<1>2. ASSUME NEW h, NEW v, NEW w, NEW u, NEW e,
             e = [h EXCEPT !.pulls = v, !.head = w, !.runs = u]
      PROVE  e = [e EXCEPT !.unsure = e.unsure]
  BY <1>2
<1>3. Enriched(p, g) = [Enriched(p, g) EXCEPT !.unsure = Enriched(p, g).unsure]
  BY <1>2 DEF Enriched
<1> QED
  BY <1>1, <1>3

\* Check runs alone never make a change green.
LEMMA CheckRunsGrounded ==
    ASSUME IsSnapshot(seen), Grounded, during \subseteq during',
           NEW p \in DOMAIN seen.pulls, ReadCheckRuns(p)
    PROVE  Grounded'
<1>1. CASE seen' = [seen EXCEPT !.runs = repo.pulls[p].checks[seen.head].runs]
  <2>1. /\ seen'.issues = seen.issues /\ seen'.pulls = seen.pulls
        /\ seen'.closed = seen.closed /\ seen'.native = seen.native
        /\ seen'.deps = seen.deps /\ seen'.unread = seen.unread
        /\ seen'.unsure = seen.unsure
    BY <1>1 DEF IsSnapshot, NothingSeen
  <2> QED
    BY <2>1, IssueStaysGrounded, PullStaysGrounded, DepsStayGrounded,
       ClosedStayGrounded DEF Grounded
<1>2. ASSUME NEW g, g # TRUE, seen' = Enriched(p, g) PROVE Grounded'
  <2>1. seen' = [Enriched(p, g) EXCEPT !.unsure = seen.unsure]
    BY <1>2, KeptField
  <2> QED
    BY <1>2, <2>1, EnrichedGrounded
<1>3. None # TRUE
  BY TrackerAssumption
<1> QED
  BY <1>1, <1>2, <1>3 DEF ReadCheckRuns

\* Green are two surfaces of one commit without a failure or an open check.
LEMMA GreenSurfaces ==
    ASSUME NEW runs, NEW status, FetchCiState(runs, status) = TRUE,
           runs \in Surface, status \in Surface
    PROVE  /\ runs \in {"passing", "absent"} /\ status \in {"passing", "absent"}
           /\ "passing" \in {runs, status}
<1>1. None # TRUE
  BY TrackerAssumption
<1> QED
  BY <1>1 DEF FetchCiState, Surface

\* Both surfaces read, the head they were read for was green.
LEMMA StatusGrounded ==
    ASSUME IsSnapshot(seen), Grounded, repo \in during, during \subseteq during',
           repo \in Repositories, seen.head \in 0..MaxHead, seen.runs \in Surface,
           NEW p \in DOMAIN seen.pulls, p \in Pulls, WasHead(p), HadRuns(p), ReadStatus(p)
    PROVE  Grounded'
<1> DEFINE h == seen.head
           status == repo.pulls[p].checks[h].status
<1>1. CASE seen' = Enriched(p, FetchCiState(seen.runs, status))
  <2>1. ASSUME FetchCiState(seen.runs, status) = TRUE PROVE WasGreen(p)'
    <3>1. status \in Surface
      <4>1. repo.pulls[p] \in PullRequests
        BY DEF Repositories
      <4>2. repo.pulls[p].checks[h] \in Checks
        BY <4>1 DEF PullRequests
      <4> QED
        BY <4>2 DEF Checks
    <3>2. /\ seen.runs \in {"passing", "absent"} /\ status \in {"passing", "absent"}
          /\ "passing" \in {seen.runs, status}
      BY <2>1, <3>1, GreenSurfaces
    <3>3. \E r \in during : r.pulls[p].head = h
      BY DEF WasHead
    <3>4. \E r \in during : r.pulls[p].checks[h].runs = seen.runs
      BY DEF HadRuns
    <3>5. \E r \in during : r.pulls[p].checks[h].status = status
      OBVIOUS
    <3> HIDE DEF h, status
    <3>6. h \in 0..MaxHead
      BY DEF h
    <3>7. WasGreen(p)
      BY <3>2, <3>3, <3>4, <3>5, <3>6 DEF WasGreen, Sometime
    <3> QED
      BY <3>7, WasGreenStays
  <2>2. seen' = [Enriched(p, FetchCiState(seen.runs, status)) EXCEPT !.unsure = seen.unsure]
    BY <1>1, KeptField
  <2> HIDE DEF status
  <2> QED
    BY <2>1, <2>2, EnrichedGrounded
<1>2. CASE seen' = [Enriched(p, FetchCiState(seen.runs, "absent"))
                       EXCEPT !.unsure = @ \cup {p}]
  <2>1. seen' = [Enriched(p, FetchCiState(seen.runs, "absent"))
                    EXCEPT !.unsure = seen.unsure \cup {p}]
    BY <1>2, KeptField
  <2>2. seen.unsure \subseteq seen.unsure \cup {p} /\ p \in seen.unsure \cup {p}
    OBVIOUS
  <2> QED
    BY <2>1, <2>2, EnrichedGrounded
<1> QED
  BY <1>1, <1>2 DEF ReadStatus

\* However the calls about a pull request come out, what they say was so.
LEMMA EnrichPullGrounded ==
    ASSUME IsSnapshot(seen), Grounded, repo \in during, during \subseteq during',
           repo \in Repositories, NEW p \in DOMAIN seen.pulls, p \in Pulls,
           step \in {"check_runs", "status"} => seen.head \in 0..MaxHead /\ WasHead(p),
           step = "status" => seen.runs \in Surface /\ HadRuns(p),
           EnrichPull(p)
    PROVE  Grounded'
BY DetailGrounded, CheckRunsGrounded, StatusGrounded DEF EnrichPull

\* Blockers are read at one moment, all of them or, if the call fails, some.
LEMMA ReadBlockersOfGrounded ==
    ASSUME IsSnapshot(seen), Grounded, repo \in during, during \subseteq during',
           repo \in Repositories, Coherent(repo), NEW n \in Numbers, ReadBlockersOf(n)
    PROVE  Grounded'
<1>1. ASSUME NEW some \in SUBSET repo.blockers[n], NEW unread,
             seen.unread \subseteq unread,
             n \notin unread => some = repo.blockers[n],
             seen' = [seen EXCEPT !.deps = Extend(@, {n}, LAMBDA m : some),
                                  !.native = @ \cup (some \ repo.open),
                                  !.unread = unread]
      PROVE  Grounded'
  <2>1. /\ seen'.issues = seen.issues /\ seen'.pulls = seen.pulls
        /\ seen'.closed = seen.closed /\ seen'.unsure = seen.unsure
        /\ seen'.deps = Extend(seen.deps, {n}, LAMBDA m : some)
        /\ seen'.native = seen.native \cup (some \ repo.open)
        /\ seen'.unread = unread
    BY <1>1 DEF IsSnapshot, NothingSeen
  <2>2. /\ DOMAIN seen'.deps = DOMAIN seen.deps \cup {n}
        /\ seen'.deps[n] = some
        /\ \A m \in DOMAIN seen.deps \ {n} : seen'.deps[m] = seen.deps[m]
    BY <2>1 DEF Extend
  <2>3. DepsGrounded(n)'
    BY <1>1, <2>1, <2>2 DEF DepsGrounded
  <2>4. \A m \in DOMAIN seen'.deps : DepsGrounded(m)'
    BY <1>1, <2>1, <2>2, <2>3, DepsStayGrounded DEF Grounded
  <2>5. ASSUME NEW m \in some \ repo.open PROVE WasClosed(m)'
    <3>1. IsClosed(repo, m)
      BY DEF Coherent, IsClosed
    <3> QED
      BY <3>1 DEF WasClosed, IsClosed
  <2> QED
    BY <2>1, <2>4, <2>5, IssueStaysGrounded, PullStaysGrounded,
       ClosedStayGrounded DEF Grounded
<1>2. CASE seen' = [seen EXCEPT !.deps = Extend(@, {n}, LAMBDA m : repo.blockers[n]),
                                !.native = @ \cup (repo.blockers[n] \ repo.open)]
  <2>1. seen' = [seen EXCEPT !.deps = Extend(@, {n}, LAMBDA m : repo.blockers[n]),
                             !.native = @ \cup (repo.blockers[n] \ repo.open),
                             !.unread = seen.unread]
    BY <1>2 DEF IsSnapshot, NothingSeen
  <2> QED
    BY <1>1, <2>1
<1>3. ASSUME NEW some \in SUBSET repo.blockers[n],
             seen' = [seen EXCEPT !.deps = Extend(@, {n}, LAMBDA m : some),
                                  !.native = @ \cup (some \ repo.open),
                                  !.unread = @ \cup {n}]
      PROVE  Grounded'
  <2>1. /\ seen.unread \subseteq seen.unread \cup {n}
        /\ n \notin seen.unread \cup {n} => some = repo.blockers[n]
    OBVIOUS
  <2> QED
    BY <1>1, <1>3, <2>1
<1> QED
  BY <1>2, <1>3 DEF ReadBlockersOf

\* No call of fetch puts anything in the snapshot that was not so.
LEMMA FetchGrounded ==
    ASSUME TypeInv, History, Grounded, Reading, Fetch, during \subseteq during'
    PROVE  Grounded'
<1>1. /\ IsSnapshot(seen) /\ repo \in Repositories /\ Coherent(repo)
      /\ step \in FetchSteps
      /\ step \in PullCalls => work \subseteq DOMAIN seen.pulls
      /\ step \in {"check_runs", "status"} => seen.head \in 0..MaxHead
      /\ step = "status" => seen.runs \in Surface
      /\ step = "blockers" => work \subseteq SeenIds
  BY FetchStepNames
     DEF TypeInv, TypeOK, Fetch, ReadPage, Enrich, ReadBlockers, FetchSteps
<1>2. repo \in during
  BY <1>1 DEF History
<1>3. CASE ReadPage
  <2>1. Page(Listed(step), page) \subseteq Listed(step)
    BY DEF Page
  <2> QED
    BY <1>1, <1>2, <1>3, <2>1, BatchGrounded DEF ReadPage
<1>4. CASE Enrich
  <2>1. CASE work = {}
    BY <1>4, <2>1, StaysGrounded DEF Enrich
  <2>2. CASE work # {}
    <3>1. Newest(work) \in DOMAIN seen.pulls /\ Newest(work) \in Pulls
      BY <1>1, <1>4, <2>2, NewestIn DEF Enrich, IsSnapshot, Numbers
    <3>3. EnrichPull(Newest(work))
      BY <1>4, <2>2 DEF Enrich
    <3> QED
      BY <1>1, <1>2, <3>1, <3>3, EnrichPullGrounded DEF Reading
  <2> QED
    BY <2>1, <2>2
<1>5. CASE ReadBlockers
  <2>1. CASE work = {}
    BY <1>5, <2>1, StaysGrounded DEF ReadBlockers
  <2>2. CASE work # {}
    <3>1. NextRecord(work) \in Numbers
      BY <1>1, <1>5, <2>2, NextRecordIn DEF ReadBlockers, SeenIds, IsSnapshot, Numbers
    <3>2. ReadBlockersOf(NextRecord(work))
      BY <1>5, <2>2 DEF ReadBlockers
    <3> QED
      BY <1>1, <1>2, <3>1, <3>2, ReadBlockersOfGrounded
  <2> QED
    BY <2>1, <2>2
<1> QED
  BY <1>3, <1>4, <1>5 DEF Fetch

\* The empty snapshot says nothing.
LEMMA NothingGrounded ==
    ASSUME seen' = NothingSeen
    PROVE  Grounded'
BY DEF Grounded, NothingSeen

\* A head is read before its check runs, and these before its statuses.
LEMMA ReadingStep ==
    ASSUME TypeInv, History, Reading, [HNext]_hvars
    PROVE  Reading'
<1>1. step' # "idle" => during \subseteq during'
  BY Remembered
<1>2. SUFFICES ASSUME step' \in {"check_runs", "status"} PROVE Reading'
  BY DEF Reading
<1>3. during \subseteq during'
  BY <1>1, <1>2
<1>4. CASE UNCHANGED <<step, work, seen>>
  BY <1>3, <1>4 DEF Reading, WasHead, HadRuns
<1>5. CASE Enrich
  <2>1. work # {} /\ EnrichPull(Newest(work))
    BY <1>2, <1>5 DEF Enrich
  <2> DEFINE p == Newest(work)
  <2>2. IsSnapshot(seen) /\ repo \in during
    BY <1>5, FetchStepNames DEF TypeInv, TypeOK, Enrich, PullCalls, History
  <2> HIDE DEF p
  <2>3. CASE step = "detail" /\ ReadDetail(p)
    <3>1. /\ step' = "check_runs" /\ work' = work /\ seen'.head = repo.pulls[p].head
      BY <1>2, <2>2, <2>3 DEF ReadDetail, IsSnapshot, NothingSeen
    <3> QED
      BY <1>3, <2>2, <3>1 DEF Reading, WasHead, p
  <2>4. CASE step = "check_runs" /\ ReadCheckRuns(p)
    <3>1. /\ step' = "status" /\ work' = work
          /\ repo.pulls[p].checks[seen.head].runs # "failing"
          /\ seen' = [seen EXCEPT !.runs = repo.pulls[p].checks[seen.head].runs]
      BY <1>2, <2>4 DEF ReadCheckRuns, NextPull
    <3>2. /\ seen'.head = seen.head
          /\ seen'.runs = repo.pulls[p].checks[seen.head].runs
      BY <2>2, <3>1 DEF IsSnapshot, NothingSeen
    <3> QED
      BY <1>3, <2>2, <2>4, <3>1, <3>2 DEF Reading, WasHead, HadRuns, p
  <2>5. CASE step = "status" /\ ReadStatus(p)
    BY <1>2, <2>5 DEF ReadStatus, NextPull
  <2> QED
    BY <2>1, <2>3, <2>4, <2>5 DEF EnrichPull, p
<1>6. CASE TakeSnapshot /\ ~Enrich
  <2>1. CASE ReadPage
    BY <1>2, <2>1, ReadPageType
  <2>2. CASE ReadBlockers
    BY <1>2, <2>2, ReadBlockersType
  <2> QED
    BY <1>6, <2>1, <2>2 DEF TakeSnapshot, Fetch
<1>7. CASE StartPass \/ Reconcile \/ FinishPass \/ Die
  BY <1>2, <1>7 DEF StartPass, BeginFetch, Listings, Reconcile, FinishPass, Die, EndPass
<1>8. CASE ExecuteNext
  BY <1>2, <1>8, ExecuteFrame
<1>9. CASE Others
  BY <1>4, <1>9 DEF Others, fetching
<1> QED
  BY <1>4, <1>5, <1>6, <1>7, <1>8, <1>9
     DEF HNext, Next, Groom, TakeSnapshot, Fetch, hvars, vars, fetching

\* The snapshot stays grounded until the pass that took it ends.
LEMMA GroundedStep ==
    ASSUME TypeInv, History, Grounded, Reading, [HNext]_hvars
    PROVE  Grounded'
<1>1. step' # "idle" => during \subseteq during'
  BY Remembered
<1>2. CASE TakeSnapshot
  <2>1. step' # "idle"
    BY <1>2, FetchFrame, FetchStepNames DEF TakeSnapshot
  <2> QED
    BY <1>1, <1>2, <2>1, FetchGrounded DEF TakeSnapshot
<1>3. CASE StartPass \/ FinishPass \/ Die
  <2>1. seen' = NothingSeen
    BY <1>3 DEF StartPass, BeginFetch, FinishPass, Die, EndPass
  <2> QED
    BY <2>1, NothingGrounded
<1>4. CASE Reconcile \/ ExecuteNext \/ Others
  <2>1. seen' = seen /\ (step' = "idle" => step = "idle")
    BY <1>4, ExecuteFrame DEF Reconcile, Others, fetching
  <2>2. CASE step = "idle"
    BY <2>1, <2>2, NothingGrounded DEF TypeInv, TypeOK
  <2> QED
    BY <1>1, <2>1, <2>2, StaysGrounded
<1>5. CASE UNCHANGED hvars
  BY <1>5, StaysGrounded DEF hvars, vars, fetching
<1> QED
  BY <1>2, <1>3, <1>4, <1>5 DEF HNext, Next, Groom

-----------------------------------------------------------------------------
(* No probe is left out.                                                    *)

\* Every record that may have blockers is reached by the second loop before the
\* reconciler is given what it read.
LEMMA ProbedStep ==
    ASSUME TypeInv, ProbedAll, [Next]_vars
    PROVE  ProbedAll'
<1>1. CASE TakeSnapshot
  <2>1. /\ step' \in FetchSteps \cup {"reconcile"}
        /\ IsSnapshot(seen) /\ repo \in Repositories
        /\ step = "blockers" => work \subseteq SeenIds
    BY <1>1, FetchFrame DEF TakeSnapshot, TypeInv, TypeOK
  <2>2. CASE ReadPage
    BY <2>2, ReadPageType, FetchStepNames DEF ProbedAll
  <2>3. CASE Enrich
    <3>1. CASE work # {}
      BY <2>3, <3>1 DEF Enrich, EnrichPull, ReadDetail, ReadCheckRuns, ReadStatus, NextPull,
         PullCalls, ProbedAll
    <3>2. CASE work = {}
      <4>1. step' = "blockers" /\ work' = Probed /\ seen' = seen
        BY <2>3, <3>2 DEF Enrich
      <4> QED
        BY <4>1 DEF ProbedAll, Probed
    <3> QED
      BY <3>1, <3>2
  <2>4. CASE ReadBlockers
    <3>1. CASE work # {}
      <4> DEFINE n == NextRecord(work)
      <4>1. n \in Numbers
        BY <2>1, <2>4, <3>1, NextRecordIn DEF ReadBlockers, SeenIds, IsSnapshot, Numbers
      <4>2. ReadBlockersOf(n) /\ step = "blockers"
        BY <2>4, <3>1 DEF ReadBlockers
      <4> HIDE DEF n
      <4>3. /\ seen'.issues = seen.issues /\ seen'.pulls = seen.pulls
            /\ DOMAIN seen'.deps = DOMAIN seen.deps \cup {n}
            /\ work' = work \ {n} /\ step' = step
        BY <2>1, <4>1, <4>2, ReadBlockersOfType
      <4> QED
        BY <4>2, <4>3 DEF ProbedAll, Probed
    <3>2. CASE work = {}
      <4>1. step = "blockers" /\ step' = "reconcile" /\ seen' = seen
        BY <2>4, <3>2 DEF ReadBlockers
      <4> QED
        BY <3>2, <4>1 DEF ProbedAll, Probed
    <3> QED
      BY <3>1, <3>2
  <2> QED
    BY <1>1, <2>2, <2>3, <2>4 DEF TakeSnapshot, Fetch
<1>2. CASE StartPass \/ FinishPass \/ Die
  BY <1>2 DEF StartPass, BeginFetch, Listings, FinishPass, Die, EndPass, ProbedAll
<1>3. CASE Reconcile
  BY <1>3 DEF Reconcile, ProbedAll, Probed
<1>4. CASE ExecuteNext
  BY <1>4, ExecuteFrame DEF ProbedAll, Probed
<1>5. CASE Others \/ UNCHANGED vars
  BY <1>5 DEF Others, vars, fetching, ProbedAll, Probed
<1> QED
  BY <1>1, <1>2, <1>3, <1>4, <1>5 DEF Next, Groom

-----------------------------------------------------------------------------
(* The order of a listing, and the declarations made of blockers.           *)

\* The place of a record in a listing is below the length of the listing,
LEMMA NewerBounds ==
    ASSUME NEW S, S \subseteq Numbers, NEW n \in S
    PROVE  /\ Newer(S, n) \in Nat /\ Cardinality(S) \in Nat
           /\ Newer(S, n) < Cardinality(S)
<1> DEFINE T == {m \in S : m > n}
<1>0. IsFiniteSet(S) /\ n \in Nat
  BY FS_Subset, TrackerAssumption DEF Numbers
<1>1. T \subseteq S /\ n \notin T
  BY <1>0
<1>2. IsFiniteSet(T) /\ Cardinality(T) <= Cardinality(S) /\ Cardinality(T) # Cardinality(S)
  BY <1>0, <1>1, FS_Subset
<1>3. Cardinality(T) \in Nat /\ Cardinality(S) \in Nat
  BY <1>0, <1>2, FS_CardinalityType
<1>4. Newer(S, n) = Cardinality(T)
  BY DEF Newer
<1> QED
  BY <1>2, <1>3, <1>4

\* and no two records share one.
LEMMA NewerInjective ==
    ASSUME NEW S, S \subseteq Numbers, NEW m \in S, NEW n \in S, Newer(S, m) = Newer(S, n)
    PROVE  m = n
<1>1. ASSUME NEW j \in S, NEW k \in S, j < k PROVE Newer(S, j) # Newer(S, k)
  <2> DEFINE T == {x \in S : x > j}
             U == {x \in S : x > k}
  <2>1. IsFiniteSet(T)
    BY FS_Subset, TrackerAssumption DEF Numbers
  <2>2. U \subseteq T /\ k \in T /\ k \notin U
    <3>1. \A x \in S : x \in Nat
      BY TrackerAssumption DEF Numbers
    <3>2. \A x \in S : x > k => x > j
      BY <1>1, <3>1
    <3>3. k > j /\ ~(k > k)
      BY <1>1, <3>1
    <3> QED
      BY <3>2, <3>3
  <2>3. Newer(S, j) = Cardinality(T) /\ Newer(S, k) = Cardinality(U)
    BY DEF Newer
  <2> HIDE DEF T, U
  <2> QED
    BY <2>1, <2>2, <2>3, FS_Subset
<1>2. m \in Nat /\ n \in Nat
  BY TrackerAssumption DEF Numbers
<1> QED
  BY <1>1, <1>2

\* Every blocker that was read is declared.
LEMMA DepsOfAll ==
    ASSUME NEW n \in DOMAIN seen.deps, seen.deps[n] \subseteq Numbers,
           NEW d \in seen.deps[n]
    PROVE  DependencyOn(d) \in Range(DepsOf(n))
<1> DEFINE S == seen.deps[n]
           k == Newer(S, d) + 1
<1>1. k \in 1..Cardinality(S) /\ k - 1 = Newer(S, d)
  <2>1. /\ Newer(S, d) \in Nat /\ Cardinality(S) \in Nat
        /\ Newer(S, d) < Cardinality(S)
    BY NewerBounds
  <2> QED
    BY <2>1
<1>2. NewestFirst(S)[k] = CHOOSE m \in S : Newer(S, m) = k - 1
  BY <1>1 DEF NewestFirst
<1>3. NewestFirst(S)[k] = d
  BY <1>1, <1>2, NewerInjective
<1>4. DOMAIN NewestFirst(S) = 1..Cardinality(S)
  BY DEF NewestFirst
<1>5. DepsOf(n) = [j \in 1..Cardinality(S) |-> DependencyOn(NewestFirst(S)[j])]
  BY <1>4 DEF DepsOf
<1> HIDE DEF S, k
<1>6. k \in DOMAIN DepsOf(n) /\ DepsOf(n)[k] = DependencyOn(d)
  BY <1>1, <1>3, <1>5
<1> QED
  BY <1>6 DEF Range

\* A record declares nothing only if no blocker of it was read.
LEMMA DepsOfNone ==
    ASSUME NEW n
    PROVE  /\ Range(DepsOf(n)) = {} => DepsOf(n) = <<>>
           /\ DepsOf(n) # <<>> => n \in DOMAIN seen.deps /\ seen.deps[n] # {}
<1>1. CASE n \notin DOMAIN seen.deps
  BY <1>1 DEF DepsOf
<1>2. CASE n \in DOMAIN seen.deps
  <2> DEFINE S == seen.deps[n]
  <2>1. DOMAIN DepsOf(n) = 1..Cardinality(S)
    BY <1>2 DEF DepsOf, NewestFirst
  <2>2. DepsOf(n) = [j \in DOMAIN DepsOf(n) |-> DepsOf(n)[j]]
    BY <1>2 DEF DepsOf
  <2>3. Range(DepsOf(n)) = {} => DOMAIN DepsOf(n) = {}
    BY DEF Range
  <2>4. DOMAIN DepsOf(n) = {} => DepsOf(n) = <<>>
    BY <2>2
  <2>5. S = {} => Cardinality(S) = 0
    BY FS_EmptySet
  <2> QED
    BY <1>2, <2>1, <2>3, <2>4, <2>5
<1> QED
  BY <1>1, <1>2

-----------------------------------------------------------------------------
(* What verdicts rest on.                                                   *)

\* What is neither blocked nor undecidable, and has no label alone, is backed.
LEMMA BackedUnless ==
    ASSUME NEW n,
           R!IsItemBlocked(items[n], world) = FALSE,
           R!InState(items[n], world, "undecidable") = {},
           R!UnrepresentedGateLabels(items[n]) = {}
    PROVE  Backed(n)
<1>1. ASSUME NEW d \in R!Declared(items[n])
      PROVE  R!EvaluateDependency(d, world) = "satisfied"
  <2>1. /\ R!EvaluateDependency(d, world) # "unsatisfied"
        /\ R!EvaluateDependency(d, world) # "undecidable"
    BY DEF R!IsItemBlocked, R!InState
  <2> QED
    BY <2>1 DEF R!EvaluateDependency
<1> QED
  BY <1>1 DEF Backed

\* A change is called for afresh only where all that is declared is satisfied.
LEMMA FreshCreate ==
    ASSUME NEW n, items[n].verification = None, R!Fresh(n) = R!Act("create_pr")
    PROVE  Backed(n)
<1>1. /\ R!DispatchOnStage(items, world, n) = R!Act("create_pr")
      /\ R!InState(items[n], world, "undecidable") = {}
      /\ R!UnrepresentedGateLabels(items[n]) = {}
  BY DEF R!Fresh, R!ComputeDisposition, R!Terminal, R!Undecidable, R!Act
<1>2. R!DispositionInFlight(items, world, n) # R!Act("create_pr")
  BY DEF R!DispositionInFlight, R!DispositionOfChange, R!BlockedOn, R!Blocked, R!Act,
     R!Terminal
<1>3. R!DispositionMerged(items[n], world) # R!Act("create_pr")
  BY DEF R!DispositionMerged, R!DeadlinePassed, R!Act, R!Undecidable
<1>4. R!DispositionPreChange(items, world, n) = R!Act("create_pr")
  BY <1>1, <1>2, <1>3 DEF R!DispatchOnStage, R!Terminal, R!Act
<1>5. ~R!IsItemBlocked(items[n], world)
  BY <1>4 DEF R!DispositionPreChange, R!BlockedOn, R!Blocked, R!Act
<1> QED
  BY <1>1, <1>5, BackedUnless DEF R!IsItemBlocked

\* A merge is called for afresh only where it is confirmed.
LEMMA FreshMergeConfirmed ==
    ASSUME NEW n, items[n].verification = None, Merge(R!Fresh(n))
    PROVE  /\ Backed(n)
           /\ R!ClassifyLane(items[n], world)
           /\ items[n].change.condition \notin {"conflicted", "draft"}
<1>1. /\ R!ClassifyLane(items[n], world)
      /\ items[n].change.condition \notin {"conflicted", "draft"}
  BY FreshMerge DEF Merge, R!DispositionOfChange, R!Act, R!Terminal
<1> QED
  BY <1>1, FreshMerge, BackedUnless

\* A create_pr that is replayed was recorded for the very same declarations, all of
\* them satisfied then and now.
LEMMA ReplayedCreate ==
    ASSUME Recalled(memory), NEW n, R!Replayed(n), memory[n].verdict = R!Act("create_pr")
    PROVE  Backed(n)
<1> DEFINE fp == memory[n].fingerprint
<1>1. /\ n \in DOMAIN memory /\ ~R!Cyclic(n)
      /\ R!Matches(R!Fingerprint(items[n], R!ClosureOf(n)), fp)
  BY DEF R!Replayed, R!ShouldSkip, Recalled
<1>2. /\ fp = R!Fingerprint(items[n], R!ClosureOf(n)) /\ fp.closure # None
  BY <1>1 DEF R!Matches
<1>3. Attests(memory[n])
  BY <1>1 DEF Recalled
<1>4. /\ \A d \in DOMAIN fp.deps : [dep |-> d, state |-> "satisfied"] \in fp.closure
      /\ DOMAIN fp.deps = {} => fp.labels \cap GateLabels = {}
  BY <1>2, <1>3 DEF Attests
<1>5. /\ fp.closure = R!ClosureState(items, world, n) /\ fp.labels = items[n].labels
      /\ DOMAIN fp.deps = R!Declared(items[n])
  BY <1>1, <1>2 DEF R!Fingerprint, R!ClosureOf, R!LabelSetHash, R!DepsHash
<1> HIDE DEF fp
<1>6. ASSUME NEW d \in R!Declared(items[n])
      PROVE  R!EvaluateDependency(d, world) = "satisfied"
  <2>1. [dep |-> d, state |-> "satisfied"] \in R!ClosureState(items, world, n)
    BY <1>4, <1>5
  <2> QED
    BY <2>1 DEF R!ClosureState, R!Entry
<1>7. R!UnrepresentedGateLabels(items[n]) = {}
  BY <1>4, <1>5 DEF R!UnrepresentedGateLabels, R!Declared, R!Range
<1> QED
  BY <1>6, <1>7 DEF Backed

\* Fresh or replayed, a create_pr is backed.
LEMMA FinalCreate ==
    ASSUME Recalled(memory), NEW n, items[n].verification = None,
           R!FinalVerdict(n) = R!Act("create_pr")
    PROVE  Backed(n)
<1>1. R!Undecidable # R!Act("create_pr")
  BY DEF R!Undecidable, R!Act
<1> QED
  BY <1>1, VerdictOrigin, FreshCreate, ReplayedCreate

\* A record attests what its verdict was decided on.
LEMMA RecordedAttests ==
    ASSUME TypeInv, step = "reconcile", Recalled(memory), NEW n \in DOMAIN items
    PROVE  Recorded(n).generation = 0 /\ Attests(Recorded(n))
<1> DEFINE fp == Recorded(n).fingerprint
<1>1. /\ Recorded(n).generation = 0
      /\ Recorded(n).verdict = R!FinalVerdict(n)
      /\ fp = R!Fingerprint(items[n], R!ClosureOf(n))
  BY DEF Recorded, R!RecordOf, R!VerdictToRecord
<1>2. SUFFICES ASSUME R!FinalVerdict(n) = R!Act("create_pr"), fp.closure # None
               PROVE  /\ \A d \in DOMAIN fp.deps :
                            [dep |-> d, state |-> "satisfied"] \in fp.closure
                      /\ DOMAIN fp.deps = {} => fp.labels \cap GateLabels = {}
  BY <1>1 DEF Attests
<1>3. Backed(n)
  BY <1>2, SeenUnobliged, FinalCreate DEF TypeInv, TypeOK
<1>4. /\ fp.closure = R!ClosureState(items, world, n) /\ fp.labels = items[n].labels
      /\ DOMAIN fp.deps = R!Declared(items[n])
  BY <1>1, <1>2 DEF R!Fingerprint, R!ClosureOf, R!LabelSetHash, R!DepsHash
<1> HIDE DEF fp
<1>5. ASSUME NEW d \in R!Declared(items[n])
      PROVE  [dep |-> d, state |-> "satisfied"] \in R!ClosureState(items, world, n)
  <2>1. n \in R!Reachable(items, n)
    BY DEF R!Reachable
  <2>2. d \in R!ReachableDeps(items, n)
    BY <2>1 DEF R!ReachableDeps
  <2>3. R!Entry(d, world) = [dep |-> d, state |-> "satisfied"]
    BY <1>3 DEF Backed, R!Entry
  <2> QED
    BY <2>2, <2>3 DEF R!ClosureState
<1>6. R!Declared(items[n]) = {} => items[n].labels \cap GateLabels = {}
  <2>1. R!Declared(items[n]) = {} => items[n].deps = <<>>
    <3>1. items = SeenItems /\ n \in SeenIds
      BY DEF TypeInv, TypeOK
    <3>2. items[n].deps = DepsOf(n)
      BY <3>1 DEF SeenItems, IssueItem, PullItem, ItemRecord
    <3> QED
      BY <3>2, DepsOfNone DEF R!Declared, R!Range, Range
  <2> QED
    BY <1>3, <2>1 DEF Backed, R!UnrepresentedGateLabels
<1> QED
  BY <1>4, <1>5, <1>6

\* What was recorded can only be replayed where it would be decided again.
LEMMA RecalledStep ==
    ASSUME TypeInv, Recalled(memory), Recalled(durable), [Next]_vars
    PROVE  Recalled(memory)' /\ Recalled(durable)'
<1>1. CASE memory' \in {memory, durable, <<>>} /\ durable' \in {memory, durable}
  <2>1. Recalled(<<>>)
    BY DEF Recalled
  <2>2. Recalled(memory') /\ Recalled(durable')
    BY <1>1, <2>1
  <2> QED
    BY <2>2 DEF Recalled, Attests
<1>2. CASE Reconcile
  <2>1. /\ step = "reconcile" /\ durable' = durable
        /\ memory' = IF mode.kept
                     THEN [n \in DOMAIN memory \cup DOMAIN items |->
                              IF n \in DOMAIN items THEN Recorded(n) ELSE memory[n]]
                     ELSE memory
    BY <1>2 DEF Reconcile
  <2>2. \A n \in DOMAIN items : Recorded(n).generation = 0 /\ Attests(Recorded(n))
    BY <2>1, RecordedAttests
  <2>3. Recalled(memory')
    BY <2>1, <2>2 DEF Recalled
  <2> QED
    BY <2>1, <2>3 DEF Recalled, Attests
<1>3. CASE StartPass \/ TakeSnapshot \/ FinishPass \/ Die \/ Others \/ UNCHANGED vars
  BY <1>1, <1>3 DEF StartPass, TakeSnapshot, FinishPass, Die, EndPass, Others, vars,
     stores
<1>4. CASE ExecuteNext
  BY <1>1, <1>4, ExecuteFrame
<1> QED
  BY <1>2, <1>3, <1>4 DEF Next, Groom

\* The admission gate lets no change be opened for an issue that has one, not even
\* where an older verdict is replayed.
LEMMA GivenCreate ==
    ASSUME TypeInv, step = "reconcile", Recalled(memory),
           NEW i \in Issues \cap DOMAIN items,
           R!Given(i) = R!Act("create_pr")
    PROVE  Backed(i) /\ ChangeRefs(i) = {}
<1>1. R!Denial(i) = None /\ R!FinalVerdict(i) = R!Act("create_pr")
  BY DEF R!Given, R!Blocked, R!Act
<1>2. items = SeenItems /\ i \in SeenIds
  BY DEF TypeInv, TypeOK
<1>3. items[i] = IssueItem(i)
  BY <1>2 DEF SeenItems
<1>4. R!CanAdmit(items, world, i) = None
  BY <1>1, <1>3 DEF R!Denial, IssueItem, ItemRecord
<1>5. items[i].stage \in R!PreChangeStages
  BY <1>4, GroomerAssumption DEF R!CanAdmit, R!DenialReasons
<1>6. ChangeRefs(i) = {}
  BY <1>3, <1>5 DEF IssueItem, ItemRecord, R!PreChangeStages
<1> QED
  BY <1>1, <1>2, <1>6, SeenUnobliged, FinalCreate

\* Without a kept store a merge passed both gates on what this snapshot says.
LEMMA GivenMerge ==
    ASSUME TypeInv, step = "reconcile", ~mode.kept, NEW p \in DOMAIN items,
           Merge(R!Given(p))
    PROVE  /\ Backed(p)
           /\ Cardinality(seen.pulls[p].labels \cap LaneLabels) = 1
           /\ ~seen.pulls[p].draft
           /\ seen.pulls[p].mergeable = TRUE
           /\ seen.pulls[p].mergeable_state # "dirty"
           /\ seen.pulls[p].ci_green = TRUE
<1>1. p \in Pulls
  BY VerdictType DEF IsVerdictOf
<1>2. Merge(R!Fresh(p))
  <2>1. Merge(R!FinalVerdict(p))
    BY DEF R!Given, R!Blocked, Merge
  <2>2. ~R!Replayed(p)
    BY DEF TypeInv, R!Replayed, R!ShouldSkip
  <2> QED
    BY <2>1, <2>2, VerdictOrigin DEF Merge, R!Undecidable
<1>3. items = SeenItems /\ p \in SeenIds
  BY DEF TypeInv, TypeOK
<1>4. items[p] = PullItem(p) /\ seen.pulls[p].draft \in BOOLEAN
  BY <1>1, <1>3, TrackerAssumption DEF SeenItems, TypeInv, TypeOK, IsSnapshot, SeenIds,
     IsPullSeen
<1>5. /\ Backed(p) /\ R!ClassifyLane(items[p], world)
      /\ items[p].change.condition \notin {"conflicted", "draft"}
  BY <1>2, <1>3, SeenUnobliged, FreshMergeConfirmed
<1>6. /\ items[p].labels = seen.pulls[p].labels /\ items[p].change = ChangeOf(p)
  BY <1>4 DEF PullItem, ItemRecord
<1>7. /\ ChangeOf(p).condition \notin {"conflicted", "draft"}
      /\ ChangeOf(p).mergeable = TRUE /\ ChangeOf(p).ci_green = TRUE
      /\ \E lane : seen.pulls[p].labels \cap LaneLabels = {lane}
  BY <1>5, <1>6 DEF R!ClassifyLane, R!GateA, R!MatchLane
<1>8. ~seen.pulls[p].draft /\ seen.pulls[p].mergeable_state # "dirty"
  BY <1>4, <1>7 DEF ChangeOf, DeriveChangeCondition, Conflicts
<1> QED
  BY <1>5, <1>7, <1>8, FS_Singleton DEF ChangeOf

\* What is decided stays backed until the pass ends.
LEMMA DecidedStep ==
    ASSUME TypeInv, Recalled(memory), Decided, [Next]_vars
    PROVE  Decided'
<1>1. CASE Reconcile
  <2>1. /\ step = "reconcile"
        /\ results' = [n \in DOMAIN items |-> R!Given(n)]
        /\ seen' = seen /\ mode' = mode /\ items' = items /\ world' = world
    BY <1>1 DEF Reconcile, fetched
  <2>2. \A n : Backed(n)' = Backed(n) /\ ChangeRefs(n)' = ChangeRefs(n)
    BY <2>1 DEF Backed, ChangeRefs
  <2>3. \A i \in Issues \cap DOMAIN results' :
            results'[i] = R!Act("create_pr") => Backed(i)' /\ ChangeRefs(i)' = {}
    BY <2>1, <2>2, GivenCreate
  <2>4. \A p \in DOMAIN results' :
            Merge(results'[p]) /\ ~mode'.kept =>
                  /\ Backed(p)'
                  /\ Cardinality(seen'.pulls[p].labels \cap LaneLabels) = 1
                  /\ ~seen'.pulls[p].draft
                  /\ seen'.pulls[p].mergeable = TRUE
                  /\ seen'.pulls[p].mergeable_state # "dirty"
                  /\ seen'.pulls[p].ci_green = TRUE
    BY <2>1, <2>2, GivenMerge
  <2> QED
    BY <2>3, <2>4 DEF Decided, Merge, R!Act
<1>2. CASE /\ step' = step /\ seen' = seen /\ results' = results /\ mode' = mode
           /\ items' = items /\ world' = world
  <2>1. \A n : Backed(n)' = Backed(n) /\ ChangeRefs(n)' = ChangeRefs(n)
    BY <1>2 DEF Backed, ChangeRefs
  <2> QED
    BY <1>2, <2>1 DEF Decided, Merge, R!Act
<1>3. CASE Others \/ UNCHANGED vars
  BY <1>2, <1>3 DEF Others, vars, fetching, fetched
<1>4. CASE ExecuteNext
  BY <1>2, <1>4, ExecuteFrame
<1>5. CASE StartPass \/ TakeSnapshot \/ FinishPass \/ Die
  <2>1. step' # "execute"
    BY <1>5, FetchFrame, FetchStepNames
       DEF StartPass, BeginFetch, Listings, TakeSnapshot, FinishPass, Die, EndPass
  <2> QED
    BY <2>1 DEF Decided
<1> QED
  BY <1>1, <1>3, <1>4, <1>5 DEF Next, Groom

-----------------------------------------------------------------------------
(* The inductive invariant.                                                 *)

\* The invariant holds at first,
LEMMA ActInit == HInit => ActInv
BY TypeInit DEF HInit, Init, ActInv, History, Grounded, Reading, ProbedAll, Recalled,
   Decided, NothingSeen, FetchSteps, PullCalls, Listings, Range

\* every step keeps it,
LEMMA ActStep == ActInv /\ [HNext]_hvars => ActInv'
<1>1. [HNext]_hvars => [Next]_vars
  BY DEF HNext, hvars
<1> QED
  BY <1>1, TypeStep, HistoryStep, GroundedStep, ReadingStep, ProbedStep, RecalledStep,
     DecidedStep
     DEF ActInv

\* and so it always holds.
LEMMA ActInvariant == HSpec => []ActInv
BY ActInit, ActStep, PTL DEF HSpec

\* GitHubSnapshot.fetch reports nothing that was not so at some moment while it
\* ran: a call that fails leaves facts out or unknown and invents none, but for
\* the two that seen.unread and seen.unsure name.
THEOREM SnapshotGrounded == HSpec => []Grounded
BY ActInvariant, PTL DEF ActInv

-----------------------------------------------------------------------------
(* Who opens and who merges pull requests.                                  *)

\* The pull request opened is the one that was not known.
LEMMA OpenedFrom ==
    ASSUME NEW r \in Repositories, NEW names, NEW from, Unused(r) # {},
           NEW s, s = WithPull(r, NewPull(names, from))
    PROVE  /\ s.merged = r.merged
           /\ \A p \in Pulls \cap (s.known \ r.known) : s.pulls[p].from = from
<1> DEFINE o == Oldest(Unused(r))
<1>1. o \in Pulls
  <2>1. IsFiniteSet(Unused(r)) /\ \A k \in Unused(r) : k \in Nat
    BY FS_Subset, TrackerAssumption DEF Unused, Numbers
  <2> QED
    BY <2>1, SmallestNumber DEF Oldest, Unused
<1>2. /\ s.known = r.known \cup {o} /\ s.merged = r.merged
      /\ s.pulls = [r.pulls EXCEPT ![o] = NewPull(names, from)]
  BY DEF Repositories, WithPull
<1> HIDE DEF o
<1>3. DOMAIN r.pulls = Pulls
  BY DEF Repositories
<1>4. NewPull(names, from).from = from
  BY DEF NewPull
<1>5. s.pulls[o] = NewPull(names, from)
  BY <1>1, <1>2, <1>3
<1>6. \A p \in s.known \ r.known : p = o
  BY <1>2
<1> QED
  BY <1>2, <1>4, <1>5, <1>6

\* People merge nothing and open no change from a branch of the groomer's.
LEMMA OthersOpenNone ==
    ASSUME repo \in Repositories, TrackerNext
    PROVE  /\ repo'.merged = repo.merged
           /\ \A p \in Pulls \cap (repo'.known \ repo.known) : repo'.pulls[p].from = None
<1>1. ASSUME NEW n \in repo.known,
             Close(n) \/ Reopen(n) \/ Relabel(n) \/ Declare(n) \/ Chatter(n)
      PROVE  repo'.known = repo.known /\ repo'.merged = repo.merged
  BY <1>1 DEF Close, Reopen, Relabel, Declare, Chatter, Move, Repositories
<1>2. ASSUME NEW i \in Issues, File(i) \/ PushBranch(i)
      PROVE  repo'.known \subseteq repo.known \cup {i} /\ repo'.merged = repo.merged
  BY <1>2 DEF File, PushBranch, Move, Repositories
<1>3. ASSUME NEW i \in Issues, OpenPull(i)
      PROVE  /\ repo'.merged = repo.merged
             /\ \A p \in Pulls \cap (repo'.known \ repo.known) : repo'.pulls[p].from = None
  BY <1>3, OpenedFrom DEF OpenPull, Move
<1>4. ASSUME NEW p \in Pulls, NEW kind, NEW pull, Change(kind, p, pull)
      PROVE  repo'.known = repo.known /\ repo'.merged = repo.merged
  BY <1>4 DEF Change, Move, Repositories
<1>5. ASSUME NEW p \in Pulls,
             \/ Rename(p) \/ Push(p) \/ ReportRuns(p) \/ ReportStatus(p)
             \/ Redraft(p) \/ Rebase(p)
      PROVE  \E kind, pull : Change(kind, p, pull)
  BY <1>5 DEF Rename, Push, ReportRuns, ReportStatus, Redraft, Rebase
<1> QED
  BY <1>1, <1>2, <1>3, <1>4, <1>5, TrackerAssumption DEF TrackerNext

\* The executor opens one for a record whose verdict is create_pr, and merges one
\* whose verdict is automerge.
LEMMA PerformOpens ==
    ASSUME repo \in Repositories, NEW n \in Numbers, Formed(results[n]),
           ~WithoutCall(n), Perform(n)
    PROVE  /\ \A p \in Pulls : Merged(p) => p = n /\ Merge(results[n])
           /\ \A p \in Pulls \cap (repo'.known \ repo.known) :
                 repo'.pulls[p].from = n /\ results[n] = R!Act("create_pr")
<1>1. CASE results[n].kind = "blocked"
  <2>1. repo'.known = repo.known /\ repo'.merged = repo.merged
    BY <1>1 DEF Perform, SurfaceBlockedChain, WithMarker, Repositories
  <2> QED
    BY <2>1 DEF Merged
<1>2. CASE results[n].kind # "blocked"
  <2>1. DispatchAction(n) /\ results[n].kind = "act"
    BY <1>2 DEF Perform, WithoutCall, Formed, R!DispositionKinds
  <2>2. results[n] = R!Act(results[n].action)
    BY <2>1 DEF Formed
  <2>3. CASE results[n].action = "automerge" /\ Automerge(n)
    <3>1. repo'.known = repo.known /\ repo'.merged \subseteq repo.merged \cup {n}
      BY <2>3 DEF Automerge, WithMerge, Repositories
    <3> QED
      BY <2>1, <2>3, <3>1 DEF Merged, Merge
  <2>4. CASE results[n].action = "create_pr" /\ CreatePr(n)
    <3>1. CASE CanOpenFrom(repo, n)
      <4>1. PICK names : repo' = WithPull(repo, NewPull(names, n))
        BY <2>4, <3>1 DEF CreatePr
      <4> QED
        BY <2>2, <2>4, <3>1, <4>1, OpenedFrom DEF CanOpenFrom, Merged
    <3>2. CASE ~CanOpenFrom(repo, n)
      BY <2>4, <3>2 DEF CreatePr, Merged
    <3> QED
      BY <3>1, <3>2
  <2>5. CASE PushCommit(n) \/ AdvanceDraft(n)
    <3>1. repo'.known = repo.known /\ repo'.merged = repo.merged
      BY <2>5 DEF PushCommit, AdvanceDraft, Repositories
    <3> QED
      BY <3>1 DEF Merged
  <2> QED
    BY <2>1, <2>3, <2>4, <2>5 DEF DispatchAction, FixCi, ResolveConflicts
<1> QED
  BY <1>1, <1>2

\* So whatever is opened from the branch of an issue, and whatever is merged, is
\* what the executor was told to open or merge.
LEMMA WhoActs ==
    ASSUME TypeInv, [Next]_vars
    PROVE  /\ \A p \in Pulls : Merged(p) =>
                 step = "execute" /\ p \in DOMAIN results /\ Merge(results[p])
           /\ \A i \in Issues : Created(i) =>
                 step = "execute" /\ i \in DOMAIN results /\ results[i] = R!Act("create_pr")
<1>1. CASE repo' = repo
  BY <1>1 DEF Merged, Created
<1>2. CASE Others
  BY <1>2, OthersOpenNone, TrackerAssumption DEF Others, TypeInv, TypeOK, Merged, Created
<1>3. CASE ExecuteNext
  <2> DEFINE n == NextRecord(work)
  <2>1. step = "execute" /\ work # {} /\ ExecuteRecord(n)
    BY <1>3 DEF ExecuteNext, Execute
  <2>2. work \subseteq SeenIds /\ DOMAIN results = SeenIds /\ SeenIds \subseteq Numbers
    BY <2>1 DEF TypeInv, TypeOK, SeenIds, IsSnapshot, Numbers
  <2>3. n \in Numbers /\ n \in DOMAIN results
    BY <2>1, <2>2, NextRecordIn
  <2>4. Formed(results[n]) /\ repo \in Repositories
    BY <2>1, <2>3 DEF TypeInv, TypeOK, IsVerdictOf
  <2> HIDE DEF n
  <2>5. CASE ~WithoutCall(n) /\ Perform(n)
    BY <2>1, <2>3, <2>4, <2>5, PerformOpens DEF Created
  <2> QED
    BY <1>1, <2>1, <2>5 DEF ExecuteRecord
<1>4. CASE StartPass \/ TakeSnapshot \/ FinishPass \/ Reconcile \/ Die
  BY <1>1, <1>4 DEF StartPass, TakeSnapshot, FinishPass, Reconcile, Die, EndPass
<1> QED
  BY <1>1, <1>2, <1>3, <1>4 DEF Next, Groom, vars

-----------------------------------------------------------------------------
(* The promises.                                                            *)

\* A record that is backed was unblocked and not gated, unless its blockers could
\* not be read.
LEMMA BackedWas ==
    ASSUME ActInv, step = "execute", NEW n \in DOMAIN results, Backed(n),
           n \notin seen.unread
    PROVE  WasUnblocked(n) /\ WasUngated(n)
<1>1. /\ items = SeenItems /\ n \in SeenIds /\ world = SeenWorld /\ IsSnapshot(seen)
      /\ n \in Numbers
  BY DEF ActInv, TypeInv, TypeOK, IsSnapshot, SeenIds, Numbers
<1>2. /\ items[n].deps = DepsOf(n)
      /\ items[n].labels = IF n \in Issues THEN seen.issues[n].labels ELSE seen.pulls[n].labels
  BY <1>1 DEF SeenItems, IssueItem, PullItem, ItemRecord
<1>3. \E r \in during : items[n].labels = r.labels[n]
  BY <1>1, <1>2, TrackerAssumption
     DEF ActInv, Grounded, IssueGrounded, PullGrounded, SeenIds, IsSnapshot
<1>4. items[n].deps = <<>> => WasUngated(n)
  BY <1>3 DEF Backed, R!UnrepresentedGateLabels, WasUngated, Sometime
<1>5. CASE n \in DOMAIN seen.deps
  <2>1. PICK r \in during : seen.deps[n] = r.blockers[n]
    BY <1>5 DEF ActInv, Grounded, DepsGrounded
  <2>2. seen.deps[n] \subseteq Numbers
    BY <1>1, <2>1 DEF ActInv, History, Sound, Repositories
  <2>3. ASSUME NEW d \in seen.deps[n] PROVE WasClosed(d)
    <3>1. DependencyOn(d) \in R!Declared(items[n])
      BY <1>2, <1>5, <2>2, DepsOfAll DEF R!Declared, R!Range, Range
    <3>2. R!Holds(DependencyOn(d), world)
      BY <3>1 DEF Backed, R!EvaluateDependency
    <3>3. Qualify(d) \in SeenWorld.terminal_items
      BY <1>1, <3>2 DEF R!Holds, DependencyOn, R!SurfaceOf
    <3>4. /\ d \in Nat /\ Owner \in Nat
          /\ \A m \in seen.closed \cup seen.native : m \in Nat /\ m < Owner
      BY <1>1, <2>2, TrackerAssumption, SnapshotAssumption DEF IsSnapshot, Numbers
    <3>5. d \in seen.closed \cup seen.native
      BY <3>3, <3>4 DEF SeenWorld, Qualify
    <3> QED
      BY <3>5 DEF ActInv, Grounded
  <2>4. WasUnblocked(n)
    BY <2>1, <2>3 DEF WasUnblocked, Throughout, Sometime, WasClosed
  <2>5. items[n].deps # <<>> => WasUngated(n)
    BY <1>2, <2>1, DepsOfNone DEF WasUngated, Sometime
  <2> QED
    BY <1>4, <2>4, <2>5
<1>6. CASE n \notin DOMAIN seen.deps
  <2>1. n \in DOMAIN seen.issues /\ ~seen.issues[n].summary
    BY <1>1, <1>6 DEF ActInv, ProbedAll, Probed, SeenIds
  <2>2. PICK r \in during : r.blockers[n] = {}
    BY <2>1 DEF ActInv, Grounded, IssueGrounded
  <2>3. WasUnblocked(n)
    BY <2>2 DEF WasUnblocked, Throughout
  <2> QED
    BY <1>2, <1>4, <1>6, <2>3, DepsOfNone
<1> QED
  BY <1>5, <1>6

\* A change that is opened now was backed by the snapshot.
LEMMA CreatesUnblockedStep ==
    ASSUME ActInv, [Next]_vars, NEW i \in Issues, Created(i), i \notin seen.unread
    PROVE  WasUnblocked(i) /\ WasUngated(i)
<1>1. step = "execute" /\ i \in DOMAIN results /\ results[i] = R!Act("create_pr")
  BY WhoActs DEF ActInv
<1>2. Backed(i)
  BY <1>1 DEF ActInv, Decided
<1> QED
  BY <1>1, <1>2, BackedWas

\* A change is opened only for an issue that was unblocked and ungated while the
\* snapshot was taken, for every page size, with or without a kept store (README,
\* policy 4.3).
THEOREM CreatesOnlyUnblocked == HSpec => CreatesUnblocked
<1>1. ActInv /\ [HNext]_hvars =>
         [\A i \in Issues : Created(i) /\ i \notin seen.unread =>
             WasUnblocked(i) /\ WasUngated(i)]_hvars
  <2>1. [HNext]_hvars => [Next]_vars
    BY DEF HNext, hvars
  <2> QED
    BY <2>1, CreatesUnblockedStep
<1> QED
  BY <1>1, ActInvariant, PTL DEF HSpec, CreatesUnblocked

\* A change that is merged now was confirmed by the snapshot.
LEMMA MergesConfirmedStep ==
    ASSUME ActInv, [Next]_vars, NEW p \in Pulls, Merged(p), ~mode.kept
    PROVE  /\ Sometime(LAMBDA r : OneLane(r, p))
           /\ Sometime(LAMBDA r : ~r.pulls[p].draft)
           /\ Sometime(LAMBDA r : /\ r.pulls[p].mergeable = TRUE
                                  /\ r.pulls[p].mergeable_state # "dirty")
           /\ p \notin seen.unread => WasUnblocked(p) /\ WasUngated(p)
           /\ p \notin seen.unsure => WasGreen(p)
<1>1. step = "execute" /\ p \in DOMAIN results /\ Merge(results[p])
  BY WhoActs DEF ActInv
<1>2. /\ Backed(p)
      /\ Cardinality(seen.pulls[p].labels \cap LaneLabels) = 1
      /\ ~seen.pulls[p].draft
      /\ seen.pulls[p].mergeable = TRUE /\ seen.pulls[p].mergeable_state # "dirty"
      /\ seen.pulls[p].ci_green = TRUE
  BY <1>1 DEF ActInv, Decided
<1>3. p \in DOMAIN seen.pulls
  BY <1>1, TrackerAssumption DEF ActInv, TypeInv, TypeOK, IsSnapshot, SeenIds
<1>4. PullGrounded(p) /\ MergeableGrounded(p) /\ GreenGrounded(p)
  BY <1>3 DEF ActInv, Grounded
<1>5. /\ \E r \in during : OneLane(r, p)
      /\ \E r \in during : ~r.pulls[p].draft
  BY <1>2, <1>4 DEF PullGrounded, OneLane
<1>6. \E r \in during : r.pulls[p].mergeable = TRUE /\ r.pulls[p].mergeable_state # "dirty"
  BY <1>2, <1>4, TrackerAssumption DEF MergeableGrounded
<1>7. p \notin seen.unread => WasUnblocked(p) /\ WasUngated(p)
  BY <1>1, <1>2, BackedWas
<1>8. p \notin seen.unsure => WasGreen(p)
  BY <1>2, <1>4 DEF GreenGrounded
<1> QED
  BY <1>5, <1>6, <1>7, <1>8 DEF Sometime

\* What merges was, at some moments of the fetch, in one lane, no draft, mergeable,
\* unblocked, and green on both surfaces of CI of a commit that was the head
\* (classify_lane, Gates A and B).  It says nothing of what has turned since: the
\* merge reads nothing again.
THEOREM MergesOnlyConfirmed == HSpec => MergesConfirmed
<1>1. ActInv /\ [HNext]_hvars =>
         [\A p \in Pulls : Merged(p) /\ ~mode.kept =>
          /\ Sometime(LAMBDA r : OneLane(r, p))
          /\ Sometime(LAMBDA r : ~r.pulls[p].draft)
          /\ Sometime(LAMBDA r : /\ r.pulls[p].mergeable = TRUE
                                 /\ r.pulls[p].mergeable_state # "dirty")
          /\ p \notin seen.unread => WasUnblocked(p) /\ WasUngated(p)
          /\ p \notin seen.unsure => WasGreen(p)]_hvars
  <2>1. [HNext]_hvars => [Next]_vars
    BY DEF HNext, hvars
  <2> QED
    BY <2>1, MergesConfirmedStep
<1> QED
  BY <1>1, ActInvariant, PTL DEF HSpec, MergesConfirmed

-----------------------------------------------------------------------------
(* Listings of one page.                                                    *)

\* Below a page there is no second page.
LEMMA NoQuotient ==
    ASSUME NEW m \in Nat, NEW k \in Nat, m < k
    PROVE  m \div k = 0
OBVIOUS

\* The first page of a listing of open records is all of it.
LEMMA WholeListing ==
    ASSUME repo \in Repositories, OnePage, NEW S, S \subseteq repo.open
    PROVE  Page(S, 1) = S /\ LastPage(S, 1)
<1>1. S \subseteq Numbers /\ repo.open \subseteq Numbers
  BY DEF Repositories
<1>2. IsFiniteSet(repo.open) /\ IsFiniteSet(S) /\ Cardinality(S) <= Cardinality(repo.open)
  BY <1>1, FS_Subset, TrackerAssumption
<1>3. /\ Cardinality(S) \in Nat /\ Cardinality(repo.open) \in Nat
      /\ PageSize \in Nat \ {0}
  BY <1>2, FS_CardinalityType, SnapshotAssumption
<1>4. Cardinality(S) <= PageSize
  BY <1>2, <1>3 DEF OnePage
<1>5. ASSUME NEW n \in S PROVE Newer(S, n) \div PageSize = 0
  <2>1. Newer(S, n) \in Nat /\ Newer(S, n) < PageSize
    BY <1>1, <1>3, <1>4, NewerBounds
  <2> QED
    BY <1>3, <2>1, NoQuotient
<1> QED
  BY <1>3, <1>4, <1>5 DEF Page, LastPage

\* The calls about a pull request leave alone what it names.
LEMMA EnrichKeepsNames ==
    ASSUME IsSnapshot(seen), NEW p, EnrichPull(p)
    PROVE  /\ seen'.issues = seen.issues /\ DOMAIN seen'.pulls = DOMAIN seen.pulls
           /\ \A q \in DOMAIN seen.pulls : seen'.pulls[q].names = seen.pulls[q].names
<1> DEFINE Kept(s) ==
              /\ s.issues = seen.issues /\ DOMAIN s.pulls = DOMAIN seen.pulls
              /\ \A q \in DOMAIN seen.pulls : s.pulls[q].names = seen.pulls[q].names
<1>1. CASE ReadDetail(p)
  <2>1. CASE seen' = [seen EXCEPT !.pulls[p].mergeable = repo.pulls[p].mergeable,
                             !.pulls[p].mergeable_state = repo.pulls[p].mergeable_state,
                             !.head = repo.pulls[p].head]
    <3> DEFINE pull == [seen.pulls[p] EXCEPT !.mergeable = repo.pulls[p].mergeable,
                                 !.mergeable_state = repo.pulls[p].mergeable_state]
    <3>1. /\ seen'.issues = seen.issues
          /\ seen'.pulls = [seen.pulls EXCEPT ![p] = pull]
      BY <2>1 DEF IsSnapshot, NothingSeen
    <3>2. p \in DOMAIN seen.pulls => pull.names = seen.pulls[p].names
      BY DEF IsSnapshot, IsPullSeen
    <3> HIDE DEF pull
    <3> QED
      BY <3>1, <3>2
  <2> QED
    BY <1>1, <2>1 DEF ReadDetail
<1>2. ASSUME NEW g PROVE Kept(Enriched(p, g))
  BY DEF Enriched, IsSnapshot, NothingSeen, IsPullSeen
<1>3. ASSUME NEW g PROVE Kept([Enriched(p, g) EXCEPT !.unsure = @ \cup {p}])
  BY <1>2 DEF Enriched
<1>4. CASE ReadCheckRuns(p)
  <2>1. CASE seen' = [seen EXCEPT !.runs = repo.pulls[p].checks[seen.head].runs]
    BY <2>1 DEF IsSnapshot, NothingSeen
  <2> QED
    BY <1>2, <1>4, <2>1 DEF ReadCheckRuns
<1>5. CASE ReadStatus(p)
  <2>1. \E g : \/ seen' = Enriched(p, g)
              \/ seen' = [Enriched(p, g) EXCEPT !.unsure = @ \cup {p}]
    BY <1>5 DEF ReadStatus
  <2> PICK g : \/ seen' = Enriched(p, g)
               \/ seen' = [Enriched(p, g) EXCEPT !.unsure = @ \cup {p}]
    BY <2>1
  <2>2. Kept(Enriched(p, g)) /\ Kept([Enriched(p, g) EXCEPT !.unsure = @ \cup {p}])
    BY <1>2, <1>3
  <2> HIDE DEF Kept
  <2>3. Kept(seen')
    BY <2>2
  <2> QED
    BY <2>3 DEF Kept
<1> QED
  BY <1>1, <1>4, <1>5 DEF EnrichPull

\* Every listing of open records is read whole, at one moment.
LEMMA ListStep ==
    ASSUME TypeInv, History, ListInv, OnePage, [HNext]_hvars
    PROVE  ListInv'
<1>1. step' # "idle" => during \subseteq during'
  BY Remembered
<1>2. CASE ReadPage /\ TakeSnapshot
  <2>1. /\ IsSnapshot(seen) /\ repo \in Repositories /\ step \in Range(Listings)
    BY <1>2 DEF TypeInv, TypeOK, ReadPage
  <2>2. step \in FetchSteps /\ repo \in during /\ during \subseteq during'
    BY <1>1, <1>2, <2>1, FetchFrame, FetchStepNames DEF FetchSteps, History, TakeSnapshot
  <2>3. CASE step = "open_issues"
    <3>1. page = 1 /\ Listed(step) = repo.open
      BY <2>3 DEF ListInv, Listed
    <3>2. Page(Listed(step), page) = repo.open /\ LastPage(Listed(step), page)
      BY <2>1, <3>1, WholeListing
    <3>3. step' = "open_pulls" /\ page' = 1
      BY <1>2, <2>3, <3>2 DEF ReadPage, AfterListing, Listings, Last
    <3>4. seen'.issues = Extend(seen.issues, repo.open \cap Issues, IssueSeen)
      BY <1>2, <2>1, <2>3, <3>2 DEF ReadPage, WithBatch, IsSnapshot, NothingSeen
    <3>5. IssuesListed'
      BY <2>2, <3>4 DEF IssuesListed, Extend
    <3> QED
      BY <3>3, <3>5 DEF ListInv
  <2>4. CASE step = "open_pulls"
    <3>1. page = 1 /\ Listed(step) = OpenPulls(repo) /\ OpenPulls(repo) \subseteq repo.open
      BY <2>4 DEF ListInv, Listed, OpenPulls
    <3>2. Page(Listed(step), page) = OpenPulls(repo) /\ LastPage(Listed(step), page)
      BY <2>1, <3>1, WholeListing
    <3>3. step' = "closed_issues"
      BY <1>2, <2>4, <3>2 DEF ReadPage, AfterListing, Listings, Last
    <3>4. /\ seen'.pulls = Extend(seen.pulls, OpenPulls(repo), PullSeen)
          /\ seen'.issues = seen.issues
      BY <1>2, <2>1, <2>4, <3>2 DEF ReadPage, WithBatch, IsSnapshot, NothingSeen
    <3>5. PullsListed'
      BY <2>2, <3>4 DEF PullsListed, Extend, PullSeen, OpenPulls
    <3>6. IssuesListed'
      BY <2>2, <2>4, <3>4 DEF ListInv, IssuesListed
    <3> QED
      BY <3>3, <3>5, <3>6 DEF ListInv
  <2>5. CASE step \in {"closed_issues", "closed_pulls"}
    <3>1. step' \in {"closed_issues", "closed_pulls", "detail"}
      BY <1>2, <2>5 DEF ReadPage, AfterListing, Listings, Last
    <3>2. seen'.pulls = seen.pulls /\ seen'.issues = seen.issues
      BY <1>2, <2>1, <2>5 DEF ReadPage, WithBatch, IsSnapshot, NothingSeen
    <3> QED
      BY <2>2, <2>5, <3>1, <3>2 DEF ListInv, IssuesListed, PullsListed, OpenPulls
  <2> QED
    BY <2>1, <2>3, <2>4, <2>5 DEF Listings, Range
<1>3. CASE (Enrich \/ ReadBlockers) /\ TakeSnapshot
  <2>1. /\ seen'.issues = seen.issues /\ DOMAIN seen'.pulls = DOMAIN seen.pulls
        /\ \A p \in DOMAIN seen.pulls : seen'.pulls[p].names = seen.pulls[p].names
    <3>1. /\ IsSnapshot(seen) /\ repo \in Repositories
          /\ step = "blockers" => work \subseteq Numbers
      BY DEF TypeInv, TypeOK, IsSnapshot, SeenIds, Numbers
    <3>2. CASE seen' = seen
      BY <3>2
    <3>3. CASE Enrich /\ work # {}
      <4>1. EnrichPull(Newest(work))
        BY <3>3 DEF Enrich
      <4> QED
        BY <3>1, <4>1, EnrichKeepsNames
    <3>4. CASE ReadBlockers /\ work # {}
      <4>1. NextRecord(work) \in Numbers /\ ReadBlockersOf(NextRecord(work))
        BY <3>1, <3>4, NextRecordIn DEF ReadBlockers
      <4> QED
        BY <3>1, <4>1, ReadBlockersOfType
    <3> QED
      BY <1>3, <3>2, <3>3, <3>4 DEF Enrich, ReadBlockers
  <2>2. /\ step \in PullCalls \cup {"blockers"}
        /\ step' \in PullCalls \cup {"blockers", "reconcile"}
    BY <1>3 DEF Enrich, EnrichPull, ReadDetail, ReadCheckRuns, ReadStatus, NextPull,
       PullCalls, ReadBlockers, ReadBlockersOf
  <2> QED
    BY <1>1, <2>1, <2>2 DEF ListInv, IssuesListed, PullsListed, OpenPulls, PullCalls
<1>4. CASE StartPass
  BY <1>4 DEF StartPass, BeginFetch, Listings, ListInv
<1>5. CASE FinishPass \/ Die
  BY <1>5 DEF FinishPass, Die, EndPass, ListInv
<1>6. CASE /\ seen' = seen /\ page' = page
           /\ step' = step \/ (step = "reconcile" /\ step' = "execute")
  BY <1>1, <1>6 DEF ListInv, IssuesListed, PullsListed, OpenPulls
<1>7. CASE Reconcile \/ Others \/ UNCHANGED hvars
  <2>1. /\ seen' = seen /\ page' = page
        /\ step' = step \/ (step = "reconcile" /\ step' = "execute")
    BY <1>7 DEF Reconcile, Others, hvars, vars, fetching
  <2> QED
    BY <1>6, <2>1
<1>8. CASE ExecuteNext
  BY <1>6, <1>8, ExecuteFrame
<1> QED
  BY <1>2, <1>3, <1>4, <1>5, <1>7, <1>8 DEF HNext, Next, Groom, TakeSnapshot, Fetch

\* Nothing is listed at first.
LEMMA ListInit == HInit => ListInv
BY DEF HInit, Init, ListInv

\* As long as the open records fit on one page, their listings are of one moment.
LEMMA ListInvariant == HSpec /\ []OnePage => []ListInv
<1>1. ActInv /\ ListInv /\ OnePage /\ [HNext]_hvars => ListInv'
  BY ListStep DEF ActInv
<1> QED
  BY <1>1, ListInit, ActInvariant, PTL DEF HSpec

\* An issue that is named by no listed change was named by none.
LEMMA CreatesOneChangeStep ==
    ASSUME ActInv, ListInv, [Next]_vars, NEW i \in Issues, Created(i)
    PROVE  Sometime(LAMBDA r : \A p \in OpenPulls(r) : i \notin r.pulls[p].names)
<1>1. step = "execute" /\ i \in DOMAIN results /\ results[i] = R!Act("create_pr")
  BY WhoActs DEF ActInv
<1>2. ChangeRefs(i) = {}
  BY <1>1 DEF ActInv, Decided
<1>3. PICK r \in during : \A p \in OpenPulls(r) :
        p \in DOMAIN seen.pulls /\ seen.pulls[p].names = r.pulls[p].names
  BY <1>1 DEF ListInv, PullsListed
<1>4. \A p \in OpenPulls(r) : i \notin r.pulls[p].names
  BY <1>2, <1>3 DEF ChangeRefs
<1> QED
  BY <1>4 DEF Sometime

\* No change is opened for an issue that an open pull request names all the while
\* (policy 5.6), as long as the open records fit on one page.
THEOREM CreatesNoSecondChange == HSpec /\ []OnePage => CreatesOneChange
<1>1. ActInv /\ ListInv /\ [HNext]_hvars =>
         [\A i \in Issues : Created(i) =>
            Sometime(LAMBDA r : \A p \in OpenPulls(r) : i \notin r.pulls[p].names)]_hvars
  <2>1. [HNext]_hvars => [Next]_vars
    BY DEF HNext, hvars
  <2> QED
    BY <2>1, CreatesOneChangeStep
<1> QED
  BY <1>1, ActInvariant, ListInvariant, PTL DEF HSpec, CreatesOneChange

\* What was open all the while is in both listings of one page.
LEMMA ListedAll == ActInv /\ ListInv => NothingOpenIsMissed
<1> SUFFICES ASSUME ActInv, ListInv, step = "execute", NEW n \in Numbers,
                    during # {}, \A r \in during : n \in r.open
             PROVE  n \in DOMAIN results
  BY DEF NothingOpenIsMissed, Throughout
<1>1. IssuesListed /\ PullsListed
  BY DEF ListInv
<1>2. n \in SeenIds
  BY <1>1 DEF IssuesListed, PullsListed, OpenPulls, SeenIds, Numbers
<1> QED
  BY <1>2 DEF ActInv, TypeInv, TypeOK

\* A record that is open all the while is carried and given a verdict, as long as
\* the open records fit on one page (fetch, reconcile).
THEOREM MissesNothingOpen == HSpec /\ []OnePage => []NothingOpenIsMissed
BY ListedAll, ActInvariant, ListInvariant, PTL

-----------------------------------------------------------------------------
(* Marker comments.                                                         *)

Fields == {"known", "open", "merged", "labels", "blockers", "branches", "pulls",
           "marked", "pinned", "busy"}

\* The inductive invariant: where a marker is, a search of the first page
\* decides whether to add one.
MarkersOf(r) ==
    /\ DOMAIN r = Fields
    /\ r.marked \in [Numbers -> 0..2]
    /\ MarkersFindable(r)

MarkerInv == MarkersOf(repo)

\* No marker moves from r to s; first pages only ever fill up.
SameMarkers(r, s) ==
    /\ DOMAIN s = DOMAIN r
    /\ s.marked = r.marked
    /\ s.pinned = r.pinned
    /\ r.busy \subseteq s.busy

LEMMA SameMarkersKeep ==
    ASSUME NEW r, NEW s, MarkersOf(r), SameMarkers(r, s)
    PROVE  MarkersOf(s)
BY DEF MarkersOf, MarkersFindable, SameMarkers

LEMMA OpenedSameMarkers ==
    ASSUME NEW r, MarkersOf(r), NEW pull
    PROVE  SameMarkers(r, WithPull(r, pull))
BY DEF MarkersOf, SameMarkers, WithPull, Fields

\* People and CI write no marker.
LEMMA OthersKeepMarkers ==
    ASSUME MarkerInv, TrackerNext
    PROVE  SameMarkers(repo, repo')
<1>1. DOMAIN repo = Fields
  BY DEF MarkerInv, MarkersOf
<1>2. ASSUME NEW n \in repo.known, Close(n) \/ Reopen(n) \/ Relabel(n) \/ Declare(n)
      PROVE  SameMarkers(repo, repo')
  BY <1>1, <1>2 DEF Close, Reopen, Relabel, Declare, Move, SameMarkers, Fields
<1>3. ASSUME NEW n \in repo.known, Chatter(n)
      PROVE  SameMarkers(repo, repo')
  BY <1>1, <1>3 DEF Chatter, Move, SameMarkers, Fields
<1>4. ASSUME NEW i \in Issues, File(i) \/ PushBranch(i)
      PROVE  SameMarkers(repo, repo')
  BY <1>1, <1>4 DEF File, PushBranch, Move, SameMarkers, Fields
<1>5. ASSUME NEW i \in Issues, OpenPull(i)
      PROVE  SameMarkers(repo, repo')
  BY <1>5, OpenedSameMarkers DEF OpenPull, Move, MarkerInv
<1>6. ASSUME NEW p \in Pulls, NEW kind, NEW pull, Change(kind, p, pull)
      PROVE  SameMarkers(repo, repo')
  BY <1>1, <1>6 DEF Change, Move, SameMarkers, Fields
<1>7. ASSUME NEW p \in Pulls,
             \/ Rename(p) \/ Push(p) \/ ReportRuns(p) \/ ReportStatus(p)
             \/ Redraft(p) \/ Rebase(p)
      PROVE  \E kind, pull : Change(kind, p, pull)
  BY <1>7 DEF Rename, Push, ReportRuns, ReportStatus, Redraft, Rebase
<1> QED
  BY <1>2, <1>3, <1>4, <1>5, <1>6, <1>7 DEF TrackerNext

\* The executor writes one only where the first page has none, and then the
\* thread has none at all or is too long for it to be found.
LEMMA SurfacingKeepsMarkers ==
    ASSUME MarkerInv, NEW n, SurfaceBlockedChain(n)
    PROVE  MarkerInv'
<1>1. CASE n \in repo.pinned
  BY <1>1 DEF SurfaceBlockedChain, FindMarkerComment, MarkerInv
<1>2. CASE n \notin repo.pinned
  <2> DEFINE more == IF repo.marked[n] < 2 THEN repo.marked[n] + 1 ELSE repo.marked[n]
  <2>1. /\ DOMAIN repo' = Fields
        /\ repo'.pinned = IF n \in repo.busy THEN repo.pinned ELSE repo.pinned \cup {n}
        /\ repo'.busy = repo.busy
        /\ repo'.marked = [repo.marked EXCEPT ![n] = more]
    BY <1>2 DEF SurfaceBlockedChain, FindMarkerComment, WithMarker, MarkerInv,
                MarkersOf, Fields
  <2>2. \A m \in Numbers : repo.marked[m] \in 0..2
    BY DEF MarkerInv, MarkersOf
  <2>3. n \in Numbers => more \in 0..2
    BY <2>2
  <2>4. /\ repo'.marked \in [Numbers -> 0..2]
        /\ \A m \in Numbers : repo'.marked[m] = IF m = n THEN more ELSE repo.marked[m]
    BY <2>1, <2>3 DEF MarkerInv, MarkersOf
  <2>5. n \in Numbers /\ n \notin repo.busy => more = 1
    BY <1>2 DEF MarkerInv, MarkersOf, MarkersFindable
  <2> HIDE DEF more
  <2>6. MarkersFindable(repo')
    BY <1>2, <2>1, <2>4, <2>5 DEF MarkerInv, MarkersOf, MarkersFindable
  <2> QED
    BY <2>1, <2>4, <2>6 DEF MarkerInv, MarkersOf
<1> QED
  BY <1>1, <1>2

LEMMA DispatchKeepsMarkers ==
    ASSUME MarkerInv, NEW n, DispatchAction(n)
    PROVE  SameMarkers(repo, repo')
<1>1. DOMAIN repo = Fields
  BY DEF MarkerInv, MarkersOf
<1>2. Automerge(n) => SameMarkers(repo, repo')
  BY <1>1 DEF Automerge, WithMerge, SameMarkers, Fields
<1>3. CreatePr(n) => SameMarkers(repo, repo')
  BY <1>1, OpenedSameMarkers DEF CreatePr, SameMarkers, MarkerInv
<1>4. PushCommit(n) => SameMarkers(repo, repo')
  BY <1>1 DEF PushCommit, SameMarkers, Fields
<1>5. AdvanceDraft(n) => SameMarkers(repo, repo')
  BY DEF AdvanceDraft, SameMarkers
<1> QED
  BY <1>2, <1>3, <1>4, <1>5 DEF DispatchAction, FixCi, ResolveConflicts

LEMMA InitHasMarkers == TrackerInit => MarkerInv
<1> SUFFICES ASSUME TrackerInit PROVE MarkerInv
  OBVIOUS
<1>1. repo \in Starts /\ repo \in Repositories
  BY TrackerAssumption DEF TrackerInit
<1>2. DOMAIN repo = Fields /\ repo.marked \in [Numbers -> 0..2]
  BY <1>1 DEF Repositories, Fields
<1> QED
  BY <1>1, <1>2, ThreadsAssumption DEF MarkerInv, MarkersOf

\* Of the groomer's steps only those of the executor touch the repository.
LEMMA NextKeepsMarkers ==
    ASSUME MarkerInv, [Next]_vars
    PROVE  MarkerInv'
<1>1. ASSUME UNCHANGED repo PROVE MarkerInv'
  BY <1>1 DEF MarkerInv
<1>2. ASSUME SameMarkers(repo, repo') PROVE MarkerInv'
  BY <1>2, SameMarkersKeep DEF MarkerInv
<1>3. CASE StartPass
  BY <1>1, <1>3 DEF StartPass
<1>4. CASE TakeSnapshot
  BY <1>1, <1>4 DEF TakeSnapshot
<1>5. CASE Reconcile
  BY <1>1, <1>5 DEF Reconcile
<1>6. CASE ExecuteNext
  <2>1. PICK n : ExecuteRecord(n)
    BY <1>6 DEF ExecuteNext, Execute
  <2>2. UNCHANGED repo \/ Perform(n)
    BY <2>1 DEF ExecuteRecord
  <2>3. Perform(n) => SurfaceBlockedChain(n) \/ DispatchAction(n)
    BY DEF Perform
  <2> QED
    BY <1>1, <1>2, <2>2, <2>3, SurfacingKeepsMarkers, DispatchKeepsMarkers
<1>7. CASE FinishPass
  BY <1>1, <1>7 DEF FinishPass, EndPass
<1>8. CASE Die
  BY <1>1, <1>8 DEF Die, EndPass
<1>9. CASE Others
  BY <1>2, <1>9, OthersKeepMarkers DEF Others
<1>10. CASE UNCHANGED vars
  BY <1>1, <1>10 DEF vars
<1> QED
  BY <1>3, <1>4, <1>5, <1>6, <1>7, <1>8, <1>9, <1>10 DEF Next, Groom

\* No thread gets a second marker where the first can be found, whatever fails
\* and whenever a pass dies (github_executor.py: idempotent by construction).
THEOREM OneMarkerEver == HSpec => []OneMarker
<1>1. HInit => MarkerInv
  BY InitHasMarkers DEF HInit, Init
<1>2. MarkerInv /\ [HNext]_hvars => MarkerInv'
  BY NextKeepsMarkers DEF HNext, hvars
<1>3. MarkerInv => OneMarker
  BY DEF MarkerInv, MarkersOf, MarkersFindable, OneMarker
<1> QED
  BY <1>1, <1>2, <1>3, PTL DEF HSpec

=============================================================================
