-------------------------- MODULE GroomerProperties --------------------------
(***************************************************************************)
(* What the deployed groomer promises about the repository.                *)
(*                                                                         *)
(* A pass acts on facts that have aged, so a safety property cannot speak  *)
(* of the repository it acts on.  during remembers every repository there  *)
(* was while the snapshot was being taken: an act is justified if what it  *)
(* rests on was so at one of those moments.                                *)
(***************************************************************************)
EXTENDS GroomerProgress

VARIABLE during

hvars == <<vars, during>>

HInit == Init /\ during = {}

Remember ==
    during' = CASE step' = "idle"                    -> {}
                [] step \in {"reconcile", "execute"} -> during
                [] OTHER                             -> during \cup {repo'}

HNext == Next /\ Remember

HSpec == HInit /\ [][HNext]_hvars

\* A thread has one marker if one is on its first page, and none otherwise,
\* unless that page is full: the search of the first page decides it.
MarkersFindable(r) ==
    \A n \in Numbers :
        /\ n \in r.pinned => r.marked[n] = 1
        /\ n \notin r.pinned \cup r.busy => r.marked[n] = 0

\* The groomer meets the threads of its own past, or none.
ASSUME ThreadsAssumption == \A r \in Starts : MarkersFindable(r)

-----------------------------------------------------------------------------

IsPullSeen(pull) ==
    /\ DOMAIN pull =
          {"labels", "names", "draft", "mergeable", "mergeable_state", "ci_green"}
    /\ pull.labels \subseteq GateLabels \cup LaneLabels
    /\ pull.names \subseteq Issues
    /\ pull.draft \in BOOLEAN /\ pull.mergeable \in Tri /\ pull.ci_green \in Tri
    /\ pull.mergeable_state \in MergeableStates \cup {None}

IsSnapshot(s) ==
    /\ DOMAIN s = DOMAIN NothingSeen
    /\ DOMAIN s.issues \subseteq Issues
    /\ DOMAIN s.pulls \subseteq Pulls
    /\ \A p \in DOMAIN s.pulls : IsPullSeen(s.pulls[p])
    /\ s.closed \cup s.native \subseteq Numbers

\* The groomer and the repository are in states their code can produce: a pass
\* holds its snapshot only while it runs, and one disposition per record.
TypeOK ==
    /\ repo \in Repositories
    /\ Coherent(repo)
    /\ step \in Steps
    /\ page \in Nat \ {0}
    /\ IsSnapshot(seen)
    /\ step = "idle" => seen = NothingSeen /\ items = <<>> /\ memory = <<>>
    /\ step \in {"reconcile", "execute"} => DOMAIN items = SeenIds
    /\ step = "execute" => DOMAIN results = DOMAIN items
    /\ step \in PullCalls => work \subseteq DOMAIN seen.pulls
    /\ step \in {"check_runs", "status"} => work # {} /\ seen.head \in 0..MaxHead
    /\ step = "status" => seen.runs \in Surface
    /\ step \in {"blockers", "execute"} => work \subseteq SeenIds
    /\ ~mode.kept => durable = <<>>

-----------------------------------------------------------------------------
(* Acts.                                                                    *)

Sometime(P(_)) == \E r \in during : P(r)
Throughout(P(_)) == \A r \in during : P(r)

IsClosed(r, n) == n \in r.known \ r.open

\* Every blocker n had all along was closed at some moment.
WasUnblocked(n) ==
    \A d \in Numbers :
        Throughout(LAMBDA r : d \in r.blockers[n]) => Sometime(LAMBDA r : IsClosed(r, d))

WasUngated(n) ==
    Sometime(LAMBDA r : r.labels[n] \cap GateLabels = {} \/ r.blockers[n] # {})

Created(i) == \E p \in Pulls \cap (repo'.known \ repo.known) : repo'.pulls[p].from = i

\* A change is opened only for an issue that was unblocked (README, policy 4.3):
\* what blocked it all along had closed, however the listings, the closures and
\* the blocked_by calls interleave.  The exception is named: an issue whose
\* blocked_by call failed counts as one without blockers.
CreatesUnblocked ==
    [][\A i \in Issues : Created(i) /\ i \notin seen.unread =>
          WasUnblocked(i) /\ WasUngated(i)]_hvars

\* No second change is opened for an item that one already renders in flight:
\* at some moment no open pull request named the issue (policy 5.6).  One page
\* must hold a listing: the change that names it can slip between two pages.
CreatesOneChange ==
    [][\A i \in Issues : Created(i) =>
          Sometime(LAMBDA r : \A p \in OpenPulls(r) : i \notin r.pulls[p].names)]_hvars

\* Both surfaces of CI of one commit, which was the head at some moment, were
\* without a failure or an open check at some moment each, and one had a result.
WasGreen(p) ==
    \E h \in 0..MaxHead :
        /\ Sometime(LAMBDA r : r.pulls[p].head = h)
        /\ Sometime(LAMBDA r : r.pulls[p].checks[h].runs \in {"passing", "absent"})
        /\ Sometime(LAMBDA r : r.pulls[p].checks[h].status \in {"passing", "absent"})
        /\ Sometime(LAMBDA r : "passing" \in {r.pulls[p].checks[h].runs,
                                              r.pulls[p].checks[h].status})

\* What merges was confirmed while the snapshot was taken (lane_classifier.py,
\* Gates A and B): in one lane, no draft, mergeable, unblocked and green on both
\* surfaces of CI, each at some moment of the fetch.  Nothing is read again before
\* the merge, so it may land on a newer head or on checks that have turned since.
\* The exceptions are named: a blocked_by call that failed, a statuses call that
\* failed, and a store that is kept, which can replay a merge (run stale_merge).
MergesConfirmed ==
    [][\A p \in Pulls : Merged(p) /\ ~mode.kept =>
          /\ Sometime(LAMBDA r : OneLane(r, p))
          /\ Sometime(LAMBDA r : ~r.pulls[p].draft)
          /\ Sometime(LAMBDA r : /\ r.pulls[p].mergeable = TRUE
                                 /\ r.pulls[p].mergeable_state # "dirty")
          /\ p \notin seen.unread => WasUnblocked(p) /\ WasUngated(p)
          /\ p \notin seen.unsure => WasGreen(p)]_hvars

\* fetch carries every record that was open all the time it took, and the pass
\* has a disposition for it: an absence is never a verdict.  One page must hold
\* a listing; records can slip between two pages.
NothingOpenIsMissed ==
    step = "execute" =>
        \A n \in Numbers :
            during # {} /\ Throughout(LAMBDA r : n \in r.open) => n \in DOMAIN results

\* Re-running over a blocked record edits its comment and adds none, also after
\* passes that died or lost a reply (render_blocked_comment, policy 5.3), as
\* long as the comment is on the first page of the thread.
OneMarker == \A n \in Numbers : n \in repo.pinned => repo.marked[n] = 1

=============================================================================
