---------------------------- MODULE GroomerTypes ----------------------------
(***************************************************************************)
(* Type correctness of the deployed groomer, for every set of records,     *)
(* page size, ceiling and number of failures.  TypeInv, the inductive      *)
(* invariant, adds to TypeOK what a verdict may look like: a pass would    *)
(* otherwise be able to merge a record that is no pull request.            *)
(***************************************************************************)
EXTENDS GroomerInvariants, NumberLemmas, TLAPS

-----------------------------------------------------------------------------
(* Every step leaves a repository.                                          *)

\* Opening a pull request uses a number nobody has seen.
LEMMA OpenedSound ==
    ASSUME NEW r \in Repositories, Coherent(r), NEW pull \in PullRequests,
           Unused(r) # {},
           NEW s, s = WithPull(r, pull)
    PROVE  Sound(s)
<1> DEFINE o == Oldest(Unused(r))
<1>1. o \in Unused(r)
  <2>1. IsFiniteSet(Unused(r))
    BY FS_Subset, TrackerAssumption DEF Unused, Numbers
  <2>2. \A k \in Unused(r) : k \in Nat
    BY TrackerAssumption DEF Unused
  <2> QED
    BY <2>1, <2>2, SmallestNumber DEF Oldest
<1>2. o \in Pulls /\ o \notin r.known
  BY <1>1 DEF Unused
<1> HIDE DEF o
<1>3. s \in Repositories
  BY <1>2 DEF Repositories, WithPull, o, Numbers
<1>4. /\ s.known = r.known \cup {o} /\ s.open = r.open \cup {o}
      /\ s.merged = r.merged /\ s.blockers = r.blockers
      /\ s.pulls = [r.pulls EXCEPT ![o] = pull]
  BY DEF Repositories, WithPull, o
<1>5. Coherent(s)
  BY <1>2, <1>4 DEF Coherent
<1> QED
  BY <1>3, <1>5 DEF Sound

\* One pull request changes, the others stay.
LEMMA PullSound ==
    ASSUME NEW r \in Repositories, Coherent(r), NEW p \in Pulls,
           NEW pull \in PullRequests,
           NEW s, s = [r EXCEPT !.pulls[p] = pull]
    PROVE  Sound(s)
<1>1. s \in Repositories
  BY DEF Repositories
<1>2. /\ s.known = r.known /\ s.open = r.open
      /\ s.merged = r.merged /\ s.blockers = r.blockers
  BY DEF Repositories
<1> QED
  BY <1>1, <1>2 DEF Sound, Coherent

\* A push makes a new head, and its checks start over.
LEMMA PushedType ==
    ASSUME NEW pull \in PullRequests, pull.head # MaxHead
    PROVE  Pushed(pull) \in PullRequests
<1>1. pull.head + 1 \in 0..MaxHead
  BY TrackerAssumption DEF PullRequests
<1>2. Unchecked \in Checks
  BY DEF Unchecked, Checks, Surface
<1>3. [pull.checks EXCEPT ![pull.head + 1] = Unchecked] \in [0..MaxHead -> Checks]
  BY <1>2 DEF PullRequests
<1> QED
  BY <1>1, <1>3 DEF PullRequests, Pushed

\* A pull request as it is opened is one.
LEMMA NewPullType ==
    ASSUME NEW names \in SUBSET Issues, NEW from \in Issues \cup {None}
    PROVE  NewPull(names, from) \in PullRequests
<1>1. Unchecked \in Checks
  BY DEF Unchecked, Checks, Surface
<1> QED
  BY <1>1, TrackerAssumption DEF NewPull, PullRequests, Tri, MergeableStates

\* What people and CI do to the repository.
LEMMA OthersSound ==
    ASSUME repo \in Repositories, Coherent(repo), TrackerNext
    PROVE  Sound(repo')
<1>1. ASSUME NEW n \in repo.known, Close(n) PROVE Sound(repo')
  <2>1. repo' = [repo EXCEPT !.open = @ \ {n}]
    BY <1>1 DEF Close, Move
  <2>2. repo' \in Repositories
    BY <2>1 DEF Repositories
  <2>3. /\ repo'.known = repo.known /\ repo'.open = repo.open \ {n}
        /\ repo'.merged = repo.merged
        /\ repo'.blockers = repo.blockers /\ repo'.pulls = repo.pulls
    BY <2>1 DEF Repositories
  <2> QED
    BY <2>2, <2>3 DEF Sound, Coherent
<1>2. ASSUME NEW n \in repo.known, Reopen(n) PROVE Sound(repo')
  <2>1. repo' = [repo EXCEPT !.open = @ \cup {n}] /\ n \notin repo.merged
    BY <1>2 DEF Reopen, Move
  <2>2. repo' \in Repositories
    BY <2>1 DEF Repositories
  <2>3. /\ repo'.known = repo.known /\ repo'.open = repo.open \cup {n}
        /\ repo'.merged = repo.merged
        /\ repo'.blockers = repo.blockers /\ repo'.pulls = repo.pulls
    BY <2>1 DEF Repositories
  <2>4. Coherent(repo')
    <3>1. repo'.open \cup repo'.merged \subseteq repo'.known
      BY <2>3 DEF Coherent
    <3>2. repo'.open \cap repo'.merged = {}
      BY <2>1, <2>3 DEF Coherent
    <3> QED
      BY <2>3, <3>1, <3>2 DEF Coherent
  <2> QED
    BY <2>2, <2>4 DEF Sound
<1>3. ASSUME NEW n \in repo.known, Relabel(n) PROVE Sound(repo')
  <2>1. PICK label \in GateLabels \cup LaneLabels :
            repo' = [repo EXCEPT !.labels[n] = Toggle(@, label)]
    BY <1>3 DEF Relabel, Move
  <2>2. repo' \in Repositories
    BY <2>1 DEF Repositories, Toggle
  <2>3. /\ repo'.known = repo.known /\ repo'.open = repo.open
        /\ repo'.merged = repo.merged
        /\ repo'.blockers = repo.blockers /\ repo'.pulls = repo.pulls
    BY <2>1 DEF Repositories
  <2> QED
    BY <2>2, <2>3 DEF Sound, Coherent
<1>4. ASSUME NEW n \in repo.known, Declare(n) PROVE Sound(repo')
  <2>1. PICK m \in repo.known : repo' = [repo EXCEPT !.blockers[n] = Toggle(@, m)]
    BY <1>4 DEF Declare, Move
  <2>2. repo' \in Repositories
    BY <2>1 DEF Repositories, Toggle
  <2>3. /\ repo'.known = repo.known /\ repo'.open = repo.open
        /\ repo'.merged = repo.merged
        /\ repo'.blockers = [repo.blockers EXCEPT ![n] = Toggle(@, m)]
        /\ repo'.pulls = repo.pulls
    BY <2>1 DEF Repositories
  <2>4. \A k \in Numbers : repo'.blockers[k] \subseteq repo.known
    BY <2>3 DEF Coherent, Toggle, Repositories
  <2> QED
    BY <2>2, <2>3, <2>4 DEF Sound, Coherent
<1>5. ASSUME NEW n \in repo.known, Chatter(n) PROVE Sound(repo')
  <2>1. repo' = [repo EXCEPT !.busy = @ \cup {n}]
    BY <1>5 DEF Chatter, Move
  <2>2. repo' \in Repositories
    BY <2>1 DEF Repositories
  <2>3. /\ repo'.known = repo.known /\ repo'.open = repo.open
        /\ repo'.merged = repo.merged
        /\ repo'.blockers = repo.blockers /\ repo'.pulls = repo.pulls
    BY <2>1 DEF Repositories
  <2> QED
    BY <2>2, <2>3 DEF Sound, Coherent
<1>6. ASSUME NEW i \in Issues, File(i) PROVE Sound(repo')
  <2>1. repo' = [repo EXCEPT !.known = @ \cup {i}, !.open = @ \cup {i}]
    BY <1>6 DEF File, Move
  <2>2. repo' \in Repositories
    BY <2>1 DEF Repositories, Numbers
  <2>3. /\ repo'.known = repo.known \cup {i} /\ repo'.open = repo.open \cup {i}
        /\ repo'.merged = repo.merged /\ i \notin repo.known
        /\ repo'.blockers = repo.blockers /\ repo'.pulls = repo.pulls
    BY <2>1, <1>6 DEF Repositories, File
  <2> QED
    BY <2>2, <2>3 DEF Sound, Coherent
<1>7. ASSUME NEW i \in Issues, PushBranch(i) PROVE Sound(repo')
  <2>1. repo' = [repo EXCEPT !.branches = @ \cup {i}]
    BY <1>7 DEF PushBranch, Move
  <2>2. repo' \in Repositories
    BY <2>1 DEF Repositories
  <2>3. /\ repo'.known = repo.known /\ repo'.open = repo.open
        /\ repo'.merged = repo.merged
        /\ repo'.blockers = repo.blockers /\ repo'.pulls = repo.pulls
    BY <2>1 DEF Repositories
  <2> QED
    BY <2>2, <2>3 DEF Sound, Coherent
<1>8. ASSUME NEW i \in Issues, OpenPull(i) PROVE Sound(repo')
  <2>1. NewPull({i}, None) \in PullRequests
    BY NewPullType
  <2> QED
    BY <1>8, <2>1, OpenedSound DEF OpenPull, Move
<1>9. ASSUME NEW p \in Pulls, NEW kind, NEW pull \in PullRequests,
             Change(kind, p, pull)
      PROVE  Sound(repo')
  BY <1>9, PullSound DEF Change, Move
<1>10. ASSUME NEW p \in Pulls,
             \/ Rename(p) \/ Push(p) \/ ReportRuns(p) \/ ReportStatus(p)
             \/ Redraft(p) \/ Rebase(p)
      PROVE  \E kind : \E pull \in PullRequests : Change(kind, p, pull)
  <2>1. repo.pulls[p] \in PullRequests
    BY DEF Repositories
  <2>2. CASE Rename(p)
    <3>1. PICK i \in Issues : Change("names", p, [repo.pulls[p] EXCEPT !.names = Toggle(@, i)])
      BY <2>2 DEF Rename
    <3>2. [repo.pulls[p] EXCEPT !.names = Toggle(@, i)] \in PullRequests
      BY <2>1 DEF PullRequests, Toggle
    <3> QED
      BY <3>1, <3>2
  <2>3. CASE Push(p)
    <3>1. repo.pulls[p].head # MaxHead
      BY <2>3, <2>1, TrackerAssumption DEF Push, PullRequests
    <3>2. Pushed(repo.pulls[p]) \in PullRequests
      BY <2>1, <3>1, PushedType
    <3>3. [Pushed(repo.pulls[p]) EXCEPT !.mergeable = None, !.mergeable_state = "unknown"]
             \in PullRequests
      BY <3>2 DEF PullRequests, Tri, MergeableStates
    <3> QED
      BY <2>3, <3>3 DEF Push
  <2>4. CASE ReportRuns(p)
    <3>1. PICK h \in 0..repo.pulls[p].head, s \in Surface :
             Change("ci", p, [repo.pulls[p] EXCEPT !.checks[h].runs = s])
      BY <2>4 DEF ReportRuns
    <3>2. h \in 0..MaxHead
      BY <2>1, TrackerAssumption DEF PullRequests
    <3>3. [repo.pulls[p] EXCEPT !.checks[h].runs = s] \in PullRequests
      BY <2>1, <3>2 DEF PullRequests, Checks
    <3> QED
      BY <3>1, <3>3
  <2>5. CASE ReportStatus(p)
    <3>1. PICK h \in 0..repo.pulls[p].head, s \in Surface :
             Change("ci", p, [repo.pulls[p] EXCEPT !.checks[h].status = s])
      BY <2>5 DEF ReportStatus
    <3>2. h \in 0..MaxHead
      BY <2>1, TrackerAssumption DEF PullRequests
    <3>3. [repo.pulls[p] EXCEPT !.checks[h].status = s] \in PullRequests
      BY <2>1, <3>2 DEF PullRequests, Checks
    <3> QED
      BY <3>1, <3>3
  <2>6. CASE Redraft(p)
    <3>1. [repo.pulls[p] EXCEPT !.draft = ~@] \in PullRequests
      BY <2>1 DEF PullRequests
    <3> QED
      BY <2>6, <3>1 DEF Redraft
  <2>7. CASE Rebase(p)
    <3>1. PICK m \in Mergeability :
             Change("mergeable", p, [repo.pulls[p] EXCEPT !.mergeable = m[1],
                                                          !.mergeable_state = m[2]])
      BY <2>7 DEF Rebase
    <3>2. m[1] \in Tri /\ m[2] \in MergeableStates
      BY TrackerAssumption
    <3>3. [repo.pulls[p] EXCEPT !.mergeable = m[1],
                                !.mergeable_state = m[2]] \in PullRequests
      BY <2>1, <3>2 DEF PullRequests
    <3> QED
      BY <3>1, <3>3
  <2> QED
    BY <1>10, <2>2, <2>3, <2>4, <2>5, <2>6, <2>7
<1> QED
  BY <1>1, <1>2, <1>3, <1>4, <1>5, <1>6, <1>7, <1>8, <1>9, <1>10 DEF TrackerNext

-----------------------------------------------------------------------------
(* The snapshot.                                                            *)

\* The loops take a record they have not reached,
LEMMA NewestIn ==
    ASSUME NEW S, S \subseteq Numbers, S # {}
    PROVE  Newest(S) \in S
<1>1. IsFiniteSet(S) /\ \A k \in S : k \in Nat
  BY FS_Subset, TrackerAssumption DEF Numbers
<1> QED
  BY <1>1, LargestNumber DEF Newest

\* The steps of a fetch.
LEMMA FetchStepNames ==
    FetchSteps = {"open_issues", "open_pulls", "closed_issues", "closed_pulls",
                  "detail", "check_runs", "status", "blockers"}
BY DEF FetchSteps, PullCalls, Listings, Range

\* whichever order they take them in.
LEMMA NextRecordIn ==
    ASSUME NEW S, S \subseteq Numbers, S # {}
    PROVE  NextRecord(S) \in S
BY NewestIn, NewestIn DEF NextRecord

\* A listing is followed by another or by the first loop.
LEMMA AfterListingType ==
    ASSUME NEW listing \in Range(Listings)
    PROVE  /\ AfterListing(listing) \in FetchSteps
           /\ AfterListing(listing) \notin {"check_runs", "status", "blockers"}
<1>2. Range(Listings) = {"open_issues", "open_pulls", "closed_issues", "closed_pulls"}
  BY DEF Listings, Range
<1>3. /\ AfterListing("open_issues") = "open_pulls"
      /\ AfterListing("open_pulls") = "closed_issues"
      /\ AfterListing("closed_issues") = "closed_pulls"
      /\ AfterListing("closed_pulls") = "detail"
  BY DEF Listings, Last, AfterListing
<1> QED
  BY <1>2, <1>3 DEF FetchSteps, PullCalls

\* A page adds records of the kind that was asked for.
LEMMA BatchType ==
    ASSUME IsSnapshot(seen), repo \in Repositories,
           NEW listing, NEW batch, batch \subseteq Listed(listing),
           NEW s, s = WithBatch(listing, batch)
    PROVE  IsSnapshot(s)
<1>1. CASE listing = "open_issues"
  <2>1. /\ DOMAIN s = DOMAIN NothingSeen
        /\ s.pulls = seen.pulls /\ s.closed = seen.closed /\ s.native = seen.native
        /\ s.issues = Extend(seen.issues, batch \cap Issues, IssueSeen)
    BY <1>1 DEF WithBatch, IsSnapshot, NothingSeen
  <2> QED
    BY <2>1 DEF Extend, IsSnapshot
<1>2. CASE listing = "open_pulls"
  <2>1. /\ DOMAIN s = DOMAIN NothingSeen
        /\ s.issues = seen.issues /\ s.closed = seen.closed /\ s.native = seen.native
        /\ s.pulls = Extend(seen.pulls, batch, PullSeen)
    BY <1>2 DEF WithBatch, IsSnapshot, NothingSeen
  <2>2. batch \subseteq Pulls
    BY <1>2 DEF Listed, OpenPulls
  <2>3. \A p \in Pulls : IsPullSeen(PullSeen(p))
    BY DEF IsPullSeen, PullSeen, Repositories, PullRequests, Tri, Numbers
  <2> QED
    BY <2>1, <2>2, <2>3 DEF Extend, IsSnapshot
<1>3. CASE listing \notin {"open_issues", "open_pulls"}
  <2>1. /\ DOMAIN s = DOMAIN NothingSeen
        /\ s.issues = seen.issues /\ s.pulls = seen.pulls /\ s.native = seen.native
        /\ s.closed \subseteq seen.closed \cup batch
    BY <1>3 DEF WithBatch, IsSnapshot, NothingSeen
  <2>2. batch \subseteq Numbers
    BY <1>3 DEF Listed, Repositories
  <2> QED
    BY <2>1, <2>2 DEF IsSnapshot
<1> QED
  BY <1>1, <1>2, <1>3

\* A listing is followed by the next one, the last one by the loops.
LEMMA ReadPageType ==
    ASSUME TypeInv, ReadPage
    PROVE  /\ IsSnapshot(seen')
           /\ page' \in Nat \ {0}
           /\ step' \in FetchSteps
           /\ step' = "detail" => work' = DOMAIN seen'.pulls
           /\ step' \notin {"check_runs", "status", "blockers"}
<1>1. /\ step \in Range(Listings) /\ page \in Nat \ {0}
      /\ IsSnapshot(seen) /\ repo \in Repositories
  BY DEF TypeInv, TypeOK, ReadPage
<1>2. IsSnapshot(seen')
  <2>1. Page(Listed(step), page) \subseteq Listed(step)
    BY DEF Page
  <2> QED
    BY <1>1, <2>1, BatchType DEF ReadPage
<1>3. step \in FetchSteps /\ step \notin PullCalls \cup {"blockers"}
  BY <1>1 DEF FetchSteps, PullCalls, Listings, Range
<1> QED
  BY <1>1, <1>2, <1>3, AfterListingType DEF ReadPage, PullCalls

\* CI is green, red or not known.
LEMMA FetchCiStateType == \A runs, status : FetchCiState(runs, status) \in Tri
BY DEF FetchCiState, Tri

\* What a call about a pull request changes: what is known of it and nothing else.
LEMMA DetailType ==
    ASSUME IsSnapshot(seen), repo \in Repositories, NEW p \in Pulls, ReadDetail(p)
    PROVE  /\ IsSnapshot(seen')
           /\ seen'.issues = seen.issues /\ DOMAIN seen'.pulls = DOMAIN seen.pulls
           /\ \/ step' = "check_runs" /\ work' = work /\ seen'.head \in 0..MaxHead
              \/ step' = step /\ work' = work \ {p}
<1>1. /\ repo.pulls[p].mergeable \in Tri /\ repo.pulls[p].head \in 0..MaxHead
      /\ repo.pulls[p].mergeable_state \in MergeableStates
  BY DEF Repositories, PullRequests
<1>2. CASE seen' = [seen EXCEPT !.pulls[p].mergeable = repo.pulls[p].mergeable,
                         !.pulls[p].mergeable_state = repo.pulls[p].mergeable_state,
                         !.head = repo.pulls[p].head]
  <2> DEFINE pull == [seen.pulls[p] EXCEPT !.mergeable = repo.pulls[p].mergeable,
                               !.mergeable_state = repo.pulls[p].mergeable_state]
  <2>1. p \in DOMAIN seen.pulls => IsPullSeen(pull)
    BY <1>1 DEF IsSnapshot, IsPullSeen
  <2>2. seen'.pulls = [seen.pulls EXCEPT ![p] = pull]
    BY <1>2 DEF IsSnapshot, NothingSeen
  <2> HIDE DEF pull
  <2>3. /\ DOMAIN seen' = DOMAIN NothingSeen
        /\ seen'.issues = seen.issues /\ seen'.closed = seen.closed
        /\ seen'.native = seen.native /\ seen'.head = repo.pulls[p].head
    BY <1>2 DEF IsSnapshot, NothingSeen
  <2>4. /\ DOMAIN seen'.pulls = DOMAIN seen.pulls
        /\ \A q \in DOMAIN seen.pulls : IsPullSeen(seen'.pulls[q])
    BY <2>1, <2>2 DEF IsSnapshot
  <2>5. IsSnapshot(seen')
    BY <2>3, <2>4 DEF IsSnapshot
  <2>6. \/ step' = "check_runs" /\ work' = work
        \/ step' = step /\ work' = work \ {p}
    BY DEF ReadDetail
  <2> QED
    BY <1>1, <2>3, <2>4, <2>5, <2>6
<1>3. CASE seen' = seen /\ step' = step /\ work' = work \ {p}
  BY <1>3
<1> QED
  BY <1>2, <1>3 DEF ReadDetail

\* CI of one is decided.
LEMMA EnrichedType ==
    ASSUME IsSnapshot(seen), NEW p, NEW g \in Tri, NEW s, s = Enriched(p, g)
    PROVE  /\ IsSnapshot(s)
           /\ s.issues = seen.issues /\ DOMAIN s.pulls = DOMAIN seen.pulls
           /\ IsSnapshot([s EXCEPT !.unsure = @ \cup {p}])
BY DEF Enriched, IsSnapshot, NothingSeen, IsPullSeen

\* Its check runs are read,
LEMMA CheckRunsType ==
    ASSUME IsSnapshot(seen), repo \in Repositories, NEW p \in Pulls,
           seen.head \in 0..MaxHead, ReadCheckRuns(p)
    PROVE  /\ IsSnapshot(seen')
           /\ seen'.issues = seen.issues /\ DOMAIN seen'.pulls = DOMAIN seen.pulls
           /\ \/ /\ step' = "status" /\ work' = work
                 /\ seen'.head = seen.head /\ seen'.runs \in Surface
              \/ step' = "detail" /\ work' = work \ {p}
<1>1. repo.pulls[p].checks[seen.head].runs \in Surface
  <2>1. repo.pulls[p] \in PullRequests
    BY DEF Repositories
  <2>2. repo.pulls[p].checks[seen.head] \in Checks
    BY <2>1 DEF PullRequests
  <2> QED
    BY <2>2 DEF Checks
<1>2. None \in Tri /\ FALSE \in Tri
  BY DEF Tri
<1>3. ASSUME seen' = [seen EXCEPT !.runs = repo.pulls[p].checks[seen.head].runs]
      PROVE  /\ IsSnapshot(seen')
             /\ seen'.issues = seen.issues /\ DOMAIN seen'.pulls = DOMAIN seen.pulls
             /\ seen'.head = seen.head /\ seen'.runs \in Surface
  BY <1>1, <1>3 DEF IsSnapshot, NothingSeen
<1>4. ASSUME NEW g \in Tri, seen' = Enriched(p, g), NextPull(p)
      PROVE  /\ IsSnapshot(seen')
             /\ seen'.issues = seen.issues /\ DOMAIN seen'.pulls = DOMAIN seen.pulls
             /\ step' = "detail" /\ work' = work \ {p}
  BY <1>4, EnrichedType DEF NextPull
<1> QED
  BY <1>2, <1>3, <1>4 DEF ReadCheckRuns

\* and its statuses.
LEMMA StatusType ==
    ASSUME IsSnapshot(seen), NEW p \in Pulls, ReadStatus(p)
    PROVE  /\ IsSnapshot(seen')
           /\ seen'.issues = seen.issues /\ DOMAIN seen'.pulls = DOMAIN seen.pulls
           /\ step' = "detail" /\ work' = work \ {p}
<1>1. PICK g \in Tri : \/ seen' = Enriched(p, g)
                       \/ seen' = [Enriched(p, g) EXCEPT !.unsure = @ \cup {p}]
  BY FetchCiStateType DEF ReadStatus
<1> DEFINE e == Enriched(p, g)
<1>2. /\ IsSnapshot(e) /\ e.issues = seen.issues /\ DOMAIN e.pulls = DOMAIN seen.pulls
      /\ IsSnapshot([e EXCEPT !.unsure = @ \cup {p}])
  BY EnrichedType
<1> HIDE DEF e
<1>3. [e EXCEPT !.unsure = @ \cup {p}].issues = e.issues
      /\ [e EXCEPT !.unsure = @ \cup {p}].pulls = e.pulls
  BY <1>2 DEF IsSnapshot, NothingSeen
<1> QED
  BY <1>1, <1>2, <1>3 DEF e, ReadStatus, NextPull

\* The first loop fills in the pull requests, then hands over to the second.
LEMMA EnrichType ==
    ASSUME TypeInv, Enrich
    PROVE  /\ IsSnapshot(seen')
           /\ page' = page
           /\ \/ step' \in PullCalls /\ work' \subseteq DOMAIN seen'.pulls
              \/ step' = "blockers" /\ work' \subseteq SeenIds'
           /\ step' \in {"check_runs", "status"} => work' # {} /\ seen'.head \in 0..MaxHead
           /\ step' = "status" => seen'.runs \in Surface
<1>1. /\ step \in PullCalls /\ work \subseteq DOMAIN seen.pulls
      /\ IsSnapshot(seen) /\ repo \in Repositories
      /\ step \in {"check_runs", "status"} => work # {} /\ seen.head \in 0..MaxHead
  BY DEF TypeInv, TypeOK, Enrich
<1>2. CASE work = {}
  <2>1. /\ seen' = seen /\ page' = page /\ step' = "blockers" /\ work' = Probed
    BY <1>2 DEF Enrich
  <2> QED
    BY <1>1, <2>1 DEF Probed, SeenIds
<1>3. CASE work # {}
  <2> DEFINE p == Newest(work)
  <2>1. EnrichPull(p)
    BY <1>3 DEF Enrich
  <2>2. p \in Pulls
    BY <1>1, <1>3, NewestIn DEF IsSnapshot, Numbers
  <2> HIDE DEF p
  <2>3. page' = page
    BY <2>1 DEF EnrichPull
  <2>4. CASE step = "detail"
    BY <1>1, <1>3, <2>1, <2>2, <2>3, <2>4, DetailType DEF EnrichPull, PullCalls
  <2>5. CASE step = "check_runs"
    BY <1>1, <1>3, <2>1, <2>2, <2>3, <2>5, CheckRunsType DEF EnrichPull, PullCalls
  <2>6. CASE step = "status"
    BY <1>1, <1>3, <2>1, <2>2, <2>3, <2>6, StatusType DEF EnrichPull, PullCalls
  <2> QED
    BY <1>1, <2>4, <2>5, <2>6 DEF PullCalls
<1> QED
  BY <1>2, <1>3

\* What a blocked_by call changes of the snapshot.
LEMMA ReadBlockersOfType ==
    ASSUME IsSnapshot(seen), repo \in Repositories, NEW n \in Numbers, ReadBlockersOf(n)
    PROVE  /\ IsSnapshot(seen')
           /\ seen'.issues = seen.issues /\ seen'.pulls = seen.pulls
           /\ DOMAIN seen'.deps = DOMAIN seen.deps \cup {n}
           /\ work' = work \ {n} /\ page' = page /\ step' = step
<1>1. repo.blockers[n] \subseteq Numbers
  BY DEF Repositories
<1>2. CASE seen' = [seen EXCEPT !.deps = Extend(@, {n}, LAMBDA m : repo.blockers[n]),
                                !.native = @ \cup (repo.blockers[n] \ repo.open)]
  <2>1. /\ DOMAIN seen' = DOMAIN NothingSeen
        /\ seen'.issues = seen.issues /\ seen'.pulls = seen.pulls
        /\ seen'.closed = seen.closed
        /\ seen'.native = seen.native \cup (repo.blockers[n] \ repo.open)
        /\ seen'.deps = Extend(seen.deps, {n}, LAMBDA m : repo.blockers[n])
    BY <1>2 DEF IsSnapshot, NothingSeen
  <2> QED
    BY <1>1, <2>1 DEF IsSnapshot, ReadBlockersOf, Extend
<1>3. ASSUME NEW some \in SUBSET repo.blockers[n],
             seen' = [seen EXCEPT !.deps = Extend(@, {n}, LAMBDA m : some),
                                  !.native = @ \cup (some \ repo.open),
                                  !.unread = @ \cup {n}]
      PROVE  /\ IsSnapshot(seen')
             /\ seen'.issues = seen.issues /\ seen'.pulls = seen.pulls
             /\ DOMAIN seen'.deps = DOMAIN seen.deps \cup {n}
  <2>1. /\ DOMAIN seen' = DOMAIN NothingSeen
        /\ seen'.issues = seen.issues /\ seen'.pulls = seen.pulls
        /\ seen'.closed = seen.closed
        /\ seen'.native = seen.native \cup (some \ repo.open)
        /\ seen'.deps = Extend(seen.deps, {n}, LAMBDA m : some)
    BY <1>3 DEF IsSnapshot, NothingSeen
  <2> QED
    BY <1>1, <2>1 DEF IsSnapshot, Extend
<1> QED
  BY <1>2, <1>3 DEF ReadBlockersOf

\* The second loop reads blockers, then hands over to the reconciler.
LEMMA ReadBlockersType ==
    ASSUME TypeInv, ReadBlockers
    PROVE  /\ IsSnapshot(seen')
           /\ page' = page
           /\ \/ step' = "blockers" /\ work' \subseteq SeenIds'
              \/ step' = "reconcile" /\ seen' = seen
<1>1. /\ step = "blockers" /\ work \subseteq SeenIds
      /\ IsSnapshot(seen) /\ repo \in Repositories
  BY DEF TypeInv, TypeOK, ReadBlockers
<1>2. CASE work = {}
  BY <1>1, <1>2 DEF ReadBlockers
<1>3. CASE work # {}
  <2>1. ReadBlockersOf(NextRecord(work))
    BY <1>3 DEF ReadBlockers
  <2>2. NextRecord(work) \in Numbers
    BY <1>1, <1>3, NextRecordIn DEF IsSnapshot, SeenIds, Numbers
  <2> QED
    BY <1>1, <2>1, <2>2, ReadBlockersOfType DEF SeenIds
<1> QED
  BY <1>2, <1>3

\* What fetch returns depends on nothing but what its calls returned.
LEMMA SameSeen ==
    ASSUME seen' = seen
    PROVE  SeenItems' = SeenItems /\ SeenWorld' = SeenWorld /\ SeenIds' = SeenIds
<1>1. SeenIds' = SeenIds
  BY DEF SeenIds
<1>2. \A n : DepsOf(n)' = DepsOf(n)
  BY DEF DepsOf
<1>3. \A n : ChangeRefs(n)' = ChangeRefs(n)
  BY DEF ChangeRefs
<1>4. \A n : IssueItem(n)' = IssueItem(n) /\ PullItem(n)' = PullItem(n)
  BY <1>2, <1>3 DEF IssueItem, PullItem, ChangeOf
<1>5. SeenItems' = SeenItems
  BY <1>1, <1>4 DEF SeenItems
<1> QED
  BY <1>1, <1>5 DEF SeenWorld

\* Whatever call is next, a snapshot remains one.
LEMMA FetchFrame ==
    ASSUME TypeInv, Fetch
    PROVE  /\ IsSnapshot(seen')
           /\ page' \in Nat \ {0}
           /\ step' \in FetchSteps \cup {"reconcile"}
           /\ step' \in PullCalls => work' \subseteq DOMAIN seen'.pulls
           /\ step' \in {"check_runs", "status"} => work' # {} /\ seen'.head \in 0..MaxHead
           /\ step' = "status" => seen'.runs \in Surface
           /\ step' = "blockers" => work' \subseteq SeenIds'
           /\ step' = "reconcile" => seen' = seen
<1>1. page \in Nat \ {0}
  BY DEF TypeInv, TypeOK
<1>2. CASE ReadPage
  BY <1>2, ReadPageType, FetchStepNames DEF PullCalls
<1>3. CASE Enrich
  BY <1>1, <1>3, EnrichType, FetchStepNames DEF PullCalls
<1>4. CASE ReadBlockers
  BY <1>1, <1>4, ReadBlockersType, FetchStepNames DEF PullCalls
<1> QED
  BY <1>2, <1>3, <1>4 DEF Fetch

\* A step of fetch keeps the type invariant.
LEMMA FetchType ==
    ASSUME TypeInv, TakeSnapshot
    PROVE  TypeInv'
<1>1. /\ IsSnapshot(seen')
      /\ page' \in Nat \ {0}
      /\ step' \in FetchSteps \cup {"reconcile"}
      /\ step' \in PullCalls => work' \subseteq DOMAIN seen'.pulls
      /\ step' \in {"check_runs", "status"} => work' # {} /\ seen'.head \in 0..MaxHead
      /\ step' = "status" => seen'.runs \in Surface
      /\ step' = "blockers" => work' \subseteq SeenIds'
      /\ step' = "reconcile" => seen' = seen
  BY FetchFrame DEF TakeSnapshot
<1>2. step' \notin {"idle", "execute"}
  BY <1>1, FetchStepNames
<1>3. /\ repo' = repo /\ mode' = mode /\ results' = results
      /\ memory' = memory /\ durable' = durable
  BY DEF TakeSnapshot, stores
<1>4. step' = "reconcile" => items' = SeenItems' /\ world' = SeenWorld' /\ DOMAIN items' = SeenIds'
  <2>1. step' = "reconcile" => items' = SeenItems /\ world' = SeenWorld
    BY DEF TakeSnapshot
  <2>2. DOMAIN SeenItems = SeenIds
    BY DEF SeenItems
  <2> QED
    BY <1>1, <2>1, <2>2, SameSeen
<1>5. TypeOK'
  BY <1>1, <1>2, <1>3, <1>4 DEF TypeInv, TypeOK, Steps
<1> QED
  BY <1>2, <1>3, <1>4, <1>5 DEF TypeInv

-----------------------------------------------------------------------------
(* The verdicts.                                                            *)

\* The snapshot gives no item an obligation.
LEMMA SeenUnobliged ==
    ASSUME items = SeenItems, NEW n \in SeenIds
    PROVE  items[n].verification = None
BY DEF SeenItems, IssueItem, PullItem, ItemRecord

\* A merge is called for only in flight, unblocked and with everything decided.
LEMMA FreshMerge ==
    ASSUME NEW n, items[n].verification = None, Merge(R!Fresh(n))
    PROVE  /\ items[n].change # None
           /\ R!IsItemBlocked(items[n], world) = FALSE
           /\ R!InState(items[n], world, "undecidable") = {}
           /\ R!UnrepresentedGateLabels(items[n]) = {}
           /\ Merge(R!DispositionOfChange(items[n], world))
<1> USE DEF Merge
<1>1. /\ Merge(R!DispatchOnStage(items, world, n))
      /\ R!InState(items[n], world, "undecidable") = {}
      /\ R!UnrepresentedGateLabels(items[n]) = {}
  BY DEF R!Fresh, R!ComputeDisposition, R!Terminal, R!Undecidable
<1>2. ~Merge(R!DispositionPreChange(items, world, n))
  BY DEF R!DispositionPreChange, R!BlockedOn, R!Blocked, R!Act
<1>3. ~Merge(R!DispositionMerged(items[n], world))
  BY DEF R!DispositionMerged, R!DeadlinePassed, R!Undecidable
<1>4. Merge(R!DispositionInFlight(items, world, n))
  BY <1>1, <1>2, <1>3 DEF R!DispatchOnStage, R!Terminal
<1> QED
  BY <1>1, <1>4 DEF R!DispositionInFlight, R!BlockedOn, R!Blocked, R!Terminal

\* A computed verdict is one of the four kinds, and an act is nothing but its action.
LEMMA FreshForm == \A n : Formed(R!Fresh(n))
<1> SUFFICES ASSUME NEW n PROVE Formed(R!Fresh(n))
  OBVIOUS
<1> USE DEF R!DispositionKinds, Formed
<1>1. Formed(R!DispositionOfChange(items[n], world))
  BY DEF R!DispositionOfChange, R!Act, R!Terminal
<1>2. Formed(R!DispositionPreChange(items, world, n))
  BY DEF R!DispositionPreChange, R!BlockedOn, R!Blocked, R!Act
<1>3. Formed(R!DispositionInFlight(items, world, n))
  BY <1>1 DEF R!DispositionInFlight, R!BlockedOn, R!Blocked, R!Terminal
<1>4. Formed(R!DispositionMerged(items[n], world))
  BY DEF R!DispositionMerged, R!Blocked, R!Act, R!Undecidable
<1>5. Formed(R!DispatchOnStage(items, world, n))
  BY <1>2, <1>3, <1>4 DEF R!DispatchOnStage, R!Terminal
<1> QED
  BY <1>5 DEF R!Fresh, R!ComputeDisposition, R!Terminal, R!Undecidable

\* A verdict is computed in this pass or replayed from the store.
LEMMA VerdictOrigin ==
    ASSUME NEW n
    PROVE  \/ R!FinalVerdict(n) = R!Fresh(n)
           \/ R!FinalVerdict(n) = R!Undecidable
           \/ R!Replayed(n) /\ R!FinalVerdict(n) = memory[n].verdict
BY DEF R!FinalVerdict, R!VerdictOf

\* Only pull requests are given the verdict to merge.
LEMMA VerdictType ==
    ASSUME TypeInv, step = "reconcile", NEW n \in DOMAIN items
    PROVE  IsVerdictOf(n, R!FinalVerdict(n)) /\ IsVerdictOf(n, R!Given(n))
<1>1. IsVerdictOf(n, R!FinalVerdict(n))
  <2>1. CASE R!FinalVerdict(n) = R!Fresh(n)
    <3>1. SUFFICES ASSUME Merge(R!Fresh(n)) PROVE n \in Pulls
      BY <2>1, FreshForm DEF IsVerdictOf, Formed
    <3>2. items = SeenItems /\ n \in SeenIds
      BY DEF TypeInv, TypeOK
    <3>3. n \in Issues => items[n].change = None
      BY <3>2 DEF SeenItems, IssueItem, ItemRecord
    <3>4. items[n].change # None
      BY <3>1, <3>2, SeenUnobliged, FreshMerge
    <3> QED
      BY <3>2, <3>3, <3>4 DEF TypeInv, TypeOK, IsSnapshot, SeenIds
  <2>2. CASE R!FinalVerdict(n) = R!Undecidable
    BY <2>2 DEF R!Undecidable, R!DispositionKinds, IsVerdictOf, Formed, Merge
  <2>3. CASE R!Replayed(n) /\ R!FinalVerdict(n) = memory[n].verdict
    <3>1. n \in DOMAIN memory
      BY <2>3 DEF R!Replayed, R!ShouldSkip
    <3> QED
      BY <3>1, <2>3 DEF TypeInv
  <2> QED
    BY <2>1, <2>2, <2>3, VerdictOrigin
<1>2. R!Given(n) = R!FinalVerdict(n) \/ R!Given(n).kind = "blocked"
  BY DEF R!Given, R!Blocked
<1> QED
  BY <1>1, <1>2 DEF IsVerdictOf, Formed, Merge, R!DispositionKinds

\* The reconciler keeps the type invariant.
LEMMA ReconcileType ==
    ASSUME TypeInv, Reconcile
    PROVE  TypeInv'
<1>1. /\ step = "reconcile" /\ step' = "execute"
      /\ work' = DOMAIN items
      /\ results' = [n \in DOMAIN items |-> R!Given(n)]
      /\ repo' = repo /\ page' = page /\ seen' = seen /\ mode' = mode
      /\ items' = items /\ world' = world /\ durable' = durable
  BY DEF Reconcile, fetched
<1>2. \A n \in DOMAIN memory' : IsVerdictOf(n, memory'[n].verdict)
  <2>1. ASSUME NEW n \in DOMAIN items PROVE Recorded(n).verdict = R!FinalVerdict(n)
    BY DEF Recorded, R!RecordOf, R!VerdictToRecord
  <2> QED
    BY <1>1, <2>1, VerdictType DEF Reconcile, TypeInv
<1>3. ~mode.kept => memory' = <<>>
  BY DEF Reconcile, TypeInv
<1>4. \A n \in DOMAIN results' : IsVerdictOf(n, results'[n])
  BY <1>1, VerdictType
<1>5. DOMAIN items = SeenIds /\ items = SeenItems /\ world = SeenWorld
  BY <1>1 DEF TypeInv, TypeOK
<1>6. TypeOK'
  BY <1>1, <1>5, SameSeen DEF TypeInv, TypeOK, Steps, PullCalls
<1> QED
  BY <1>1, <1>2, <1>3, <1>4, <1>5, <1>6, SameSeen DEF TypeInv

-----------------------------------------------------------------------------
(* The ends of a pass, and its effects.                                     *)

\* A pass that ends, or dies, leaves nothing but the store behind.
LEMMA EndPassType ==
    ASSUME TypeInv, EndPass, repo' = repo, durable' = durable \/ durable' = memory
    PROVE  TypeInv'
<1>1. IsSnapshot(NothingSeen)
  BY DEF IsSnapshot, NothingSeen
<1>2. /\ step' = "idle" /\ page' = 1 /\ work' = {} /\ seen' = NothingSeen
      /\ items' = <<>> /\ memory' = <<>> /\ mode' = mode
  BY DEF EndPass
<1>3. TypeOK'
  BY <1>1, <1>2 DEF TypeInv, TypeOK, Steps
<1> QED
  BY <1>2, <1>3 DEF TypeInv

\* A merge closes the pull request and what it fixes,
LEMMA MergedSound ==
    ASSUME NEW r \in Repositories, Coherent(r), NEW p \in Pulls, CanMerge(r, p),
           NEW fixed, NEW s, s = WithMerge(r, p, fixed)
    PROVE  Sound(s)
<1>1. s \in Repositories
  BY DEF Repositories, WithMerge
<1>2. /\ s.known = r.known /\ s.open = r.open \ ({p} \cup fixed)
      /\ s.merged = r.merged \cup {p}
      /\ s.blockers = r.blockers /\ s.pulls = r.pulls
  BY DEF Repositories, WithMerge
<1>3. Coherent(s)
  BY <1>2 DEF Coherent, CanMerge
<1> QED
  BY <1>1, <1>3 DEF Sound

\* and a comment changes its thread,
LEMMA MarkedSound ==
    ASSUME NEW r \in Repositories, Coherent(r), NEW n \in Numbers,
           NEW s, s = WithMarker(r, n)
    PROVE  Sound(s)
<1>1. r.marked[n] \in 0..2 /\ (r.marked[n] < 2 => r.marked[n] + 1 \in 0..2)
  BY DEF Repositories
<1>2. s \in Repositories
  BY <1>1 DEF Repositories, WithMarker
<1>3. /\ s.known = r.known /\ s.open = r.open /\ s.merged = r.merged
      /\ s.blockers = r.blockers /\ s.pulls = r.pulls
  BY DEF Repositories, WithMarker
<1> QED
  BY <1>2, <1>3 DEF Sound, Coherent

\* What the executor does to the repository.
LEMMA PerformSound ==
    ASSUME repo \in Repositories, Coherent(repo), NEW n \in Numbers,
           IsVerdictOf(n, results[n]), ~WithoutCall(n), Perform(n)
    PROVE  Sound(repo')
<1>1. CASE results[n].kind = "blocked"
  BY <1>1, MarkedSound DEF Sound, Perform, SurfaceBlockedChain
<1>2. CASE results[n].kind # "blocked"
  <2>1. DispatchAction(n) /\ results[n].kind = "act"
    BY <1>2 DEF Perform, WithoutCall, IsVerdictOf, Formed, R!DispositionKinds
  <2>2. CASE results[n].action = "automerge" /\ Automerge(n)
    <3>1. n \in Pulls
      BY <2>1, <2>2 DEF IsVerdictOf, Merge
    <3> QED
      BY <2>2, <3>1, MergedSound DEF Automerge, Sound
  <2>3. CASE CreatePr(n)
    <3>1. CASE CanOpenFrom(repo, n)
      <4>1. PICK names \in {{}} \cup (IF mode.provider THEN {{n}} ELSE {}) :
                repo' = WithPull(repo, NewPull(names, n))
        BY <2>3, <3>1 DEF CreatePr
      <4>2. n \in Issues
        BY <3>1 DEF CanOpenFrom, Repositories
      <4>3. NewPull(names, n) \in PullRequests
        BY <4>2, NewPullType
      <4> QED
        BY <3>1, <4>1, <4>3, OpenedSound DEF CanOpenFrom
    <3> QED
      BY <2>3, <3>1 DEF CreatePr, Sound
  <2>4. CASE PushCommit(n)
    <3>1. CASE n \in Pulls /\ repo.pulls[n].head # MaxHead
      <4>1. repo.pulls[n] \in PullRequests
        BY <3>1 DEF Repositories
      <4>2. repo' = [repo EXCEPT !.pulls[n] = Pushed(repo.pulls[n])]
        BY <2>4, <3>1 DEF PushCommit
      <4> QED
        BY <3>1, <4>1, <4>2, PushedType, PullSound
    <3>2. CASE n \notin Pulls \/ repo.pulls[n].head = MaxHead
      <4>1. repo' = repo
        BY <2>4, <3>2 DEF PushCommit, Repositories
      <4> QED
        BY <4>1 DEF Sound
    <3> QED
      BY <3>1, <3>2
  <2>5. CASE AdvanceDraft(n)
    BY <2>5 DEF AdvanceDraft, Sound
  <2> QED
    BY <2>1, <2>2, <2>3, <2>4, <2>5 DEF DispatchAction, FixCi, ResolveConflicts
<1> QED
  BY <1>1, <1>2

\* The executor touches the repository and its own loop.
LEMMA ExecuteFrame ==
    ASSUME TypeInv, ExecuteNext
    PROVE  /\ Sound(repo')
           /\ step = "execute" /\ step' = step
           /\ page' = page /\ seen' = seen /\ results' = results
           /\ mode' = mode /\ items' = items /\ world' = world
           /\ memory' = memory /\ durable' = durable
           /\ work' \subseteq work
<1>1. step = "execute" /\ work # {} /\ ExecuteRecord(NextRecord(work))
  BY DEF ExecuteNext, Execute
<1>2. /\ work \subseteq SeenIds /\ DOMAIN results = SeenIds /\ SeenIds \subseteq Numbers
      /\ repo \in Repositories /\ Coherent(repo)
  BY <1>1 DEF TypeInv, TypeOK, SeenIds, IsSnapshot, Numbers
<1> DEFINE n == NextRecord(work)
<1>3. n \in Numbers /\ n \in DOMAIN results
  BY <1>1, <1>2, NextRecordIn
<1>4. IsVerdictOf(n, results[n])
  BY <1>1, <1>3 DEF TypeInv
<1> HIDE DEF n
<1>5. ExecuteRecord(n)
  BY <1>1 DEF n
<1>6. Sound(repo')
  <2>1. repo' = repo \/ (~WithoutCall(n) /\ Perform(n))
    BY <1>5 DEF ExecuteRecord
  <2> QED
    BY <1>2, <1>3, <1>4, <2>1, PerformSound DEF Sound
<1> QED
  BY <1>1, <1>5, <1>6 DEF ExecuteRecord, ExecuteNext, fetched, stores

\* The executor keeps the type invariant.
LEMMA ExecuteType ==
    ASSUME TypeInv, ExecuteNext
    PROVE  TypeInv'
<1>1. /\ repo' \in Repositories /\ Coherent(repo')
  BY ExecuteFrame DEF Sound
<1>2. SeenIds' = SeenIds /\ SeenItems' = SeenItems /\ SeenWorld' = SeenWorld
  BY ExecuteFrame, SameSeen
<1>3. TypeOK'
  BY <1>1, <1>2, ExecuteFrame DEF TypeInv, TypeOK
<1> QED
  BY <1>2, <1>3, ExecuteFrame DEF TypeInv

\* So do people and CI, who touch nothing but the repository.
LEMMA OthersType ==
    ASSUME TypeInv, Others
    PROVE  TypeInv' /\ Sound(repo')
<1>1. Sound(repo')
  BY OthersSound DEF Others, TypeInv, TypeOK
<1>2. /\ step' = step /\ page' = page /\ work' = work /\ seen' = seen
      /\ results' = results /\ mode' = mode /\ items' = items /\ world' = world
      /\ memory' = memory /\ durable' = durable
  BY DEF Others, fetching, fetched, stores
<1>3. SeenIds' = SeenIds /\ SeenItems' = SeenItems /\ SeenWorld' = SeenWorld
  BY <1>2, SameSeen
<1>4. TypeOK'
  BY <1>1, <1>2, <1>3 DEF TypeInv, TypeOK, Sound
<1> QED
  BY <1>1, <1>2, <1>3, <1>4 DEF TypeInv

\* A pass starts with nothing seen.
LEMMA StartPassType ==
    ASSUME TypeInv, StartPass
    PROVE  TypeInv'
<1>1. /\ step' = "open_issues" /\ page' = 1 /\ work' = {} /\ seen' = NothingSeen
      /\ memory' = durable /\ repo' = repo /\ mode' = mode /\ durable' = durable
      /\ results' = results
  BY DEF StartPass, BeginFetch, Listings
<1>2. IsSnapshot(NothingSeen)
  BY DEF IsSnapshot, NothingSeen
<1>3. TypeOK'
  BY <1>1, <1>2, FetchStepNames DEF TypeInv, TypeOK, Steps
<1> QED
  BY <1>1, <1>3 DEF TypeInv, TypeOK

-----------------------------------------------------------------------------
(* The theorem.                                                             *)

\* The type invariant holds at first,
LEMMA TypeInit == Init => TypeInv
<1> SUFFICES ASSUME Init PROVE TypeInv
  OBVIOUS
<1>1. repo \in Repositories /\ Coherent(repo)
  BY TrackerAssumption DEF Init, TrackerInit
<1>2. IsSnapshot(NothingSeen)
  BY DEF IsSnapshot, NothingSeen
<1>3. TypeOK
  BY <1>1, <1>2 DEF Init, TypeOK, Steps
<1> QED
  BY <1>3 DEF Init, TypeInv

\* and every step keeps it.
LEMMA TypeStep ==
    ASSUME TypeInv, [Next]_vars
    PROVE  TypeInv'
<1>1. CASE StartPass
  BY <1>1, StartPassType
<1>2. CASE TakeSnapshot
  BY <1>2, FetchType
<1>3. CASE Reconcile
  BY <1>3, ReconcileType
<1>4. CASE ExecuteNext
  BY <1>4, ExecuteType
<1>5. CASE FinishPass
  BY <1>5, EndPassType DEF FinishPass, EndPass
<1>6. CASE Die
  BY <1>6, EndPassType DEF Die, EndPass
<1>7. CASE Others
  BY <1>7, OthersType
<1>8. CASE UNCHANGED vars
  <2>1. /\ step' = step /\ page' = page /\ work' = work /\ seen' = seen
        /\ results' = results /\ mode' = mode /\ items' = items /\ world' = world
        /\ memory' = memory /\ durable' = durable /\ repo' = repo
    BY <1>8 DEF vars, fetching, fetched, stores
  <2>2. SeenIds' = SeenIds /\ SeenItems' = SeenItems /\ SeenWorld' = SeenWorld
    BY <2>1, SameSeen
  <2>3. TypeOK'
    BY <2>1, <2>2 DEF TypeInv, TypeOK
  <2> QED
    BY <2>1, <2>2, <2>3 DEF TypeInv
<1> QED
  BY <1>1, <1>2, <1>3, <1>4, <1>5, <1>6, <1>7, <1>8 DEF Next, Groom

\* The groomer and the repository stay in states their code can produce: only
\* pull requests are merged, records are dropped only with the pass, and every loop
\* runs over records that were listed (fetch, reconcile, execute).
THEOREM TypeCorrect == HSpec => []TypeOK
<1>1. HInit => TypeInv
  BY TypeInit DEF HInit
<1>2. TypeInv /\ [HNext]_hvars => TypeInv'
  BY TypeStep DEF HNext, hvars
<1>3. TypeInv => TypeOK
  BY DEF TypeInv
<1> QED
  BY <1>1, <1>2, <1>3, PTL DEF HSpec
=============================================================================
