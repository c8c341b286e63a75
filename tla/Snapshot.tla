------------------------------ MODULE Snapshot ------------------------------
(***************************************************************************)
(* github_snapshot.py: GitHubSnapshot.fetch, call by call, over a          *)
(* repository that does not stand still, and the items and the world it    *)
(* makes of what the calls returned.                                       *)
(*                                                                         *)
(* One step is one call: anything may move between a listing and the next  *)
(* page of it, between the detail of a pull request and each of the two    *)
(* surfaces of CI for the head that the detail named.                      *)
(***************************************************************************)
EXTENDS Tracker, Sequences, SequencesExt

CONSTANTS Owner,        \* owner/name#, as an offset on the numbers it qualifies
          PageSize,     \* records per page of a listing
          FaultTypes    \* the calls that may fail, by kind

Listings == <<"open_issues", "open_pulls", "closed_issues", "closed_pulls">>

PullCalls == {"detail", "check_runs", "status"}

FetchSteps == Range(Listings) \cup PullCalls \cup {"blockers"}

ASSUME SnapshotAssumption ==
    /\ Owner \in Nat /\ \A n \in Numbers : n < Owner
    /\ PageSize \in Nat \ {0}
    /\ FaultTypes \subseteq {"listing", "detail", "check_runs", "status", "blocked_by",
                             "call", "auth", "crash"}

VARIABLES step,     \* what the groomer does next
          page,     \* the page of the listing it reads next
          work,     \* the records the loop it is in has not reached
          seen      \* what the calls of this fetch returned so far

fetching == <<step, page, work, seen>>

Fault(kind) == kind \in FaultTypes /\ Event

\* issues: labels and dependency summary of the listed open issues; pulls: the
\* listed open pull requests with what the calls about each added; deps: the
\* blockers read; unread: the records whose blocked_by failed; closed and
\* native: the ids observed closed, by the listings and as somebody's blocker;
\* repeated: was a record listed twice?  head and runs: of the pull request whose
\* CI is being read, the head its detail named and what the check runs said;
\* unsure: those whose statuses could not be read.
NothingSeen ==
    [issues |-> <<>>, pulls |-> <<>>, deps |-> <<>>, unread |-> {}, unsure |-> {},
     closed |-> {}, native |-> {}, repeated |-> FALSE, head |-> None, runs |-> None]

BeginFetch ==
    /\ step' = Listings[1]
    /\ page' = 1
    /\ work' = {}
    /\ seen' = NothingSeen

-----------------------------------------------------------------------------
(* _get_paginated over the four listings, newest record first.              *)

Newer(S, n) == Cardinality({m \in S : m > n})

Page(S, k) == {n \in S : Newer(S, n) \div PageSize = k - 1}

LastPage(S, k) == Cardinality(S) <= k * PageSize

\* The issues listings hold the pull requests too; they are skipped later.
Listed(listing) ==
    CASE listing = "open_issues"   -> repo.open
      [] listing = "open_pulls"    -> OpenPulls(repo)
      [] listing = "closed_issues" -> repo.known \ repo.open
      [] OTHER                     -> (repo.known \ repo.open) \cap Pulls

IssueSeen(i) == [labels |-> repo.labels[i], summary |-> repo.blockers[i] # {}]

PullSeen(p) ==
    [labels |-> repo.labels[p], names |-> repo.pulls[p].names,
     draft |-> repo.pulls[p].draft, mergeable |-> None, mergeable_state |-> None,
     ci_green |-> None]

\* dict semantics: the later of two listings of a record is kept.
Extend(f, S, Value(_)) ==
    [n \in DOMAIN f \cup S |-> IF n \in S THEN Value(n) ELSE f[n]]

WithBatch(listing, batch) ==
    CASE listing = "open_issues" ->
           [seen EXCEPT !.issues = Extend(@, batch \cap Issues, IssueSeen),
                        !.repeated = @ \/ batch \cap DOMAIN seen.issues # {}]
      [] listing = "open_pulls" ->
           [seen EXCEPT !.pulls = Extend(@, batch, PullSeen),
                        !.repeated = @ \/ batch \cap DOMAIN seen.pulls # {}]
      [] listing = "closed_issues" -> [seen EXCEPT !.closed = @ \cup (batch \cap Issues)]
      [] OTHER                     -> [seen EXCEPT !.closed = @ \cup batch]

\* The last listing over, the loops over what was listed.
AfterListing(listing) ==
    IF listing = Last(Listings) THEN "detail"
    ELSE Listings[1 + CHOOSE k \in DOMAIN Listings : Listings[k] = listing]

ReadPage ==
    /\ step \in Range(Listings)
    /\ seen' = WithBatch(step, Page(Listed(step), page))
    /\ IF LastPage(Listed(step), page)
       THEN /\ step' = AfterListing(step)
            /\ page' = 1
            /\ work' = IF step' = "detail" THEN DOMAIN seen'.pulls ELSE {}
       ELSE page' = page + 1 /\ UNCHANGED <<step, work>>
    /\ UNCHANGED events

-----------------------------------------------------------------------------
(* Per open pull request: mergeability and CI of its head.                  *)

\* _fetch_ci_state, of what the two calls said.
FetchCiState(runs, status) ==
    CASE runs = "failing" \/ status = "failing"                 -> FALSE
      [] runs = "pending" \/ status = "pending"                 -> None
      [] runs = "absent" /\ status = "absent"                   -> None
      [] OTHER                                                  -> TRUE

Probed_OnlyPulls == DOMAIN seen.pulls   \* mutant: issues are never probed

\* Issues whose summary reports no blocker are not probed; pull requests carry
\* no summary and always are.
Probed == {i \in DOMAIN seen.issues : seen.issues[i].summary} \cup DOMAIN seen.pulls

\* The detail: mergeability, and the head whose CI is asked for next.  A detail
\* that fails leaves what the listing said, which is nothing.
ReadDetail(p) ==
    \/ /\ seen' = [seen EXCEPT !.pulls[p].mergeable = repo.pulls[p].mergeable,
                               !.pulls[p].mergeable_state = repo.pulls[p].mergeable_state,
                               !.head = repo.pulls[p].head]
       /\ step' = "check_runs"
       /\ UNCHANGED <<work, events>>
    \/ /\ Fault("detail")
       /\ work' = work \ {p}
       /\ UNCHANGED <<step, seen>>

\* CI of p is decided, and the loop goes on.
Enriched(p, ci_green) ==
    [seen EXCEPT !.pulls[p].ci_green = ci_green, !.head = None, !.runs = None]

NextPull(p) == step' = "detail" /\ work' = work \ {p}

\* Check runs that cannot be read leave CI unknown, and a failing one decides;
\* in neither case are the statuses asked for.
ReadCheckRuns(p) ==
    LET runs == repo.pulls[p].checks[seen.head].runs
    IN  \/ /\ runs # "failing"
           /\ seen' = [seen EXCEPT !.runs = runs]
           /\ step' = "status"
           /\ UNCHANGED <<work, events>>
        \/ /\ runs = "failing"
           /\ seen' = Enriched(p, FALSE)
           /\ NextPull(p)
           /\ UNCHANGED events
        \/ /\ Fault("check_runs")
           /\ seen' = Enriched(p, None)
           /\ NextPull(p)

ReadStatus_HeadByNow(p) ==   \* mutant: the statuses of whatever the head is by now
    /\ seen' = Enriched(p, FetchCiState(seen.runs,
                              repo.pulls[p].checks[repo.pulls[p].head].status))
    /\ NextPull(p)
    /\ UNCHANGED events

\* Statuses that cannot be read count as none.
ReadStatus(p) ==
    /\ \/ /\ seen' = Enriched(p, FetchCiState(seen.runs,
                                              repo.pulls[p].checks[seen.head].status))
          /\ UNCHANGED events
       \/ /\ Fault("status")
          /\ seen' = [Enriched(p, FetchCiState(seen.runs, "absent"))
                         EXCEPT !.unsure = @ \cup {p}]
    /\ NextPull(p)

EnrichPull(p) ==
    /\ \/ step = "detail" /\ ReadDetail(p)
       \/ step = "check_runs" /\ ReadCheckRuns(p)
       \/ step = "status" /\ ReadStatus(p)
    /\ UNCHANGED page

Enrich ==
    /\ step \in PullCalls
    /\ IF work # {} THEN EnrichPull(Newest(work))
       ELSE /\ step' = "blockers"
            /\ work' = Probed
            /\ UNCHANGED <<page, seen, events>>

-----------------------------------------------------------------------------
(* Per record: its native blockers.                                         *)

\* Issues before pull requests, each newest first.
NextRecord(S) == IF S \cap Issues # {} THEN Newest(S \cap Issues) ELSE Newest(S)

\* A call that fails is an empty list, a malformed entry is left out.
ReadBlockersOf(n) ==
    /\ \/ /\ seen' = [seen EXCEPT !.deps = Extend(@, {n}, LAMBDA m : repo.blockers[n]),
                                  !.native = @ \cup (repo.blockers[n] \ repo.open)]
          /\ UNCHANGED events
       \/ /\ Fault("blocked_by")
          /\ \E some \in SUBSET repo.blockers[n] \ {repo.blockers[n]} :
                seen' = [seen EXCEPT !.deps = Extend(@, {n}, LAMBDA m : some),
                                     !.native = @ \cup (some \ repo.open),
                                     !.unread = @ \cup {n}]
    /\ work' = work \ {n}
    /\ UNCHANGED <<step, page>>

ReadBlockers ==
    /\ step = "blockers"
    /\ IF work # {} THEN ReadBlockersOf(NextRecord(work))
       ELSE step' = "reconcile" /\ UNCHANGED <<page, work, seen, events>>

\* SnapshotError: a listing that fails ends the fetch, and the pass with it.
ListingFails == step \in Range(Listings) /\ Fault("listing")

Fetch == ReadPage \/ Enrich \/ ReadBlockers

-----------------------------------------------------------------------------
(* The items and the world.                                                 *)

\* A native blocker is known by its qualified id, owner/name#number, whichever
\* repository it lives in; an item of this repository by its bare number.
Qualify(n) == Owner + n

\* _dependency_from_native
DependencyOn(n) ==
    [kind |-> IF n \in Pulls THEN "pr_terminal" ELSE "issue_terminal",
     target |-> Qualify(n)]

NewestFirst(S) == [k \in 1..Cardinality(S) |-> CHOOSE n \in S : Newer(S, n) = k - 1]

DepsOf(n) ==
    IF n \notin DOMAIN seen.deps THEN <<>>
    ELSE LET blockers == NewestFirst(seen.deps[n])
         IN  [k \in DOMAIN blockers |-> DependencyOn(blockers[k])]

\* _change_refs_by_issue
ChangeRefs(i) == {p \in DOMAIN seen.pulls : i \in seen.pulls[p].names}

\* _derive_change_condition
Conflicts(pull) == pull.mergeable = FALSE \/ pull.mergeable_state = "dirty"

DeriveChangeCondition(pull) ==
    CASE pull.draft                     -> "draft"
      [] ~pull.draft /\ Conflicts(pull) -> "conflicted"
      [] ~pull.draft /\ ~Conflicts(pull) /\ pull.ci_green = FALSE -> "ci_red"
      [] /\ ~pull.draft /\ ~Conflicts(pull) /\ pull.ci_green = TRUE
         /\ pull.mergeable = TRUE \/ pull.mergeable_state = "clean" -> "clean"
      [] OTHER                          -> "ci_pending"

\* Nothing fetches review threads: the change keeps the default count, zero.
ChangeOf(p) ==
    LET pull == seen.pulls[p]
    IN  [condition |-> DeriveChangeCondition(pull), mergeable |-> pull.mergeable,
         ci_green |-> pull.ci_green, security_threads |-> 0]

ItemRecord(stage, deps, labels, change, ref, additional_refs) ==
    [stage |-> stage, deps |-> deps, labels |-> labels, change |-> change,
     ref |-> ref, additional_refs |-> additional_refs, human_owned |-> FALSE,
     do_not_groom |-> FALSE, verification |-> None]

IssueItem_AlwaysProposed(i) ==   \* mutant: the changes that name it overlooked
    ItemRecord("proposed", DepsOf(i), seen.issues[i].labels, None, FALSE, FALSE)

IssueItem(i) ==
    ItemRecord(IF ChangeRefs(i) # {} THEN "in_flight" ELSE "proposed", DepsOf(i),
               seen.issues[i].labels, None, ChangeRefs(i) # {},
               Cardinality(ChangeRefs(i)) > 1)

PullItem(p) ==
    ItemRecord("in_flight", DepsOf(p), seen.pulls[p].labels, ChangeOf(p), TRUE, FALSE)

SeenIds == DOMAIN seen.issues \cup DOMAIN seen.pulls

SeenItems_OneRecordPerUnit ==   \* mutant: an issue with a change is left to it
    [n \in {m \in SeenIds : m \in Issues => ChangeRefs(m) = {}} |->
        IF n \in Issues THEN IssueItem(n) ELSE PullItem(n)]

SeenItems ==
    [n \in SeenIds |->
        IF n \in Issues THEN IssueItem(n) ELSE PullItem(n)]

\* Only the ids of closed records are observed.
SeenWorld ==
    [s3_objects |-> None, s3_prefixes |-> None,
     terminal_items |-> seen.closed \cup {Qualify(n) : n \in seen.closed \cup seen.native},
     pipeline_runs |-> None, reached_milestones |-> None, today |-> None]

=============================================================================
