------------------------------- MODULE Tracker -------------------------------
(***************************************************************************)
(* The repository on GitHub as the groomer's calls meet it: issues and     *)
(* pull requests, their labels and native blockers, the checks of a head   *)
(* commit, comment threads.  External: it is modelled from the calls of    *)
(* github_snapshot.py and github_executor.py.  People and CI change it     *)
(* between any two of those calls.                                         *)
(*                                                                         *)
(* Numbers are allocated in order, so the newest record, which listings    *)
(* give first, has the largest number.                                     *)
(***************************************************************************)
EXTENDS Naturals, FiniteSets

CONSTANTS Issues,      \* issue numbers
          Pulls,       \* pull request numbers, used or not
          GateLabels,  \* labels with the prefix gate:
          LaneLabels,  \* the labels of the auto-merge lanes
          None,        \* Python's None
          Mergeability,  \* what mergeable and mergeable_state may say together
          Starts,      \* the repositories a behaviour may start from
          MaxHead,     \* bound on the pushes to one pull request
          Moves,       \* the kinds of change people and CI make
          MaxEvents    \* bound on the number of their changes and of failures

Numbers == Issues \cup Pulls

MoveTypes == {"state", "file", "labels", "blockers", "branch", "pull", "names",
              "push", "ci", "draft", "mergeable", "talk"}

Surface == {"absent", "pending", "passing", "failing"}

Tri == BOOLEAN \cup {None}

\* The two surfaces of CI, for one commit.
Checks == [runs : Surface, status : Surface]

\* unknown stands for every state that the code does not look for.
MergeableStates == {"clean", "dirty", "unknown"}

\* head counts the pushes; checks are those of every commit that was a head.
\* from is the issue whose branch feat/issue-N is the head branch, if it is one.
PullRequests ==
    [draft : BOOLEAN, names : SUBSET Issues, from : Issues \cup {None},
     head : 0..MaxHead, checks : [0..MaxHead -> Checks], mergeable : Tri,
     mergeable_state : MergeableStates, security_threads : Nat]

\* branches: the issues whose branch feat/issue-N has been pushed.  marked is
\* the number of marker comments of a thread (2 stands for more), pinned the
\* threads with one on the first page, busy those whose first page is full.
Repositories ==
    [known : SUBSET Numbers, open : SUBSET Numbers, merged : SUBSET Pulls,
     labels : [Numbers -> SUBSET (GateLabels \cup LaneLabels)],
     blockers : [Numbers -> SUBSET Numbers], branches : SUBSET Issues,
     pulls : [Pulls -> PullRequests], marked : [Numbers -> 0..2],
     pinned : SUBSET Numbers, busy : SUBSET Numbers]

\* Open and merged records are known, a merged one is not open, and a blocker is
\* a record too.
Coherent(r) ==
    /\ r.open \cup r.merged \subseteq r.known
    /\ r.open \cap r.merged = {}
    /\ \A n \in Numbers : r.blockers[n] \subseteq r.known

ASSUME TrackerAssumption ==
    /\ Issues \subseteq Nat /\ Pulls \subseteq Nat /\ Issues \cap Pulls = {}
    /\ IsFiniteSet(Numbers)
    /\ None \notin Issues /\ None \notin BOOLEAN
    /\ Mergeability \subseteq Tri \X MergeableStates
    /\ Starts \subseteq Repositories
    /\ \A r \in Starts : Coherent(r)
    /\ MaxHead \in Nat
    /\ Moves \subseteq MoveTypes
    /\ MaxEvents \in Nat

VARIABLES repo,   \* the repository
          events  \* changes made by anyone but the groomer, and failed calls

Newest(S) == CHOOSE n \in S : \A m \in S : m <= n
Oldest(S) == CHOOSE n \in S : \A m \in S : n <= m

OpenPulls(r) == r.open \cap Pulls

-----------------------------------------------------------------------------
(* What a call of the groomer does to the repository.                       *)

Unused(r) == Pulls \ r.known

Unchecked == [runs |-> "pending", status |-> "absent"]

NewPull(names, from) ==
    [draft |-> FALSE, names |-> names, from |-> from, head |-> 0,
     checks |-> [h \in 0..MaxHead |-> Unchecked], mergeable |-> None,
     mergeable_state |-> "unknown", security_threads |-> 0]

WithPull(r, pull) ==
    [r EXCEPT !.known = @ \cup {Oldest(Unused(r))},
              !.open = @ \cup {Oldest(Unused(r))},
              !.pulls[Oldest(Unused(r))] = pull]

\* POST pulls: the head branch must exist and have no other open pull request.
CanOpenFrom(r, i) ==
    /\ Unused(r) # {}
    /\ i \in r.branches
    /\ \A p \in OpenPulls(r) : r.pulls[p].from # i

\* PUT merge, whatever the head is by now.  Merging closes the issues that the
\* pull request names with a closing keyword.
CanMerge(r, p) ==
    p \in r.open /\ ~r.pulls[p].draft /\ r.pulls[p].mergeable # FALSE

WithMerge(r, p, fixed) ==
    [r EXCEPT !.open = @ \ ({p} \cup fixed), !.merged = @ \cup {p}]

\* A new head commit, with checks of its own.
Pushed(pull) ==
    [pull EXCEPT !.head = @ + 1, !.checks[pull.head + 1] = Unchecked]

\* POST comments, at the end of the thread.
WithMarker(r, n) ==
    [r EXCEPT !.marked[n] = IF @ < 2 THEN @ + 1 ELSE @,
              !.pinned = IF n \in r.busy THEN @ ELSE @ \cup {n}]

-----------------------------------------------------------------------------
(* People and CI.                                                           *)

Event == events < MaxEvents /\ events' = events + 1

Move(kind, r) == kind \in Moves /\ Event /\ repo' = r

Close(n) == n \in repo.open /\ Move("state", [repo EXCEPT !.open = @ \ {n}])

Reopen(n) ==
    /\ n \in repo.known \ (repo.open \cup repo.merged)
    /\ Move("state", [repo EXCEPT !.open = @ \cup {n}])

File(i) ==
    /\ i \notin repo.known
    /\ Move("file", [repo EXCEPT !.known = @ \cup {i}, !.open = @ \cup {i}])

Toggle(S, x) == IF x \in S THEN S \ {x} ELSE S \cup {x}

Relabel(n) ==
    \E label \in GateLabels \cup LaneLabels :
        Move("labels", [repo EXCEPT !.labels[n] = Toggle(@, label)])

Declare(n) ==
    \E m \in repo.known \ {n} :
        Move("blockers", [repo EXCEPT !.blockers[n] = Toggle(@, m)])

PushBranch(i) ==
    /\ i \notin repo.branches
    /\ Move("branch", [repo EXCEPT !.branches = @ \cup {i}])

\* A person opens a pull request from a branch of their own.
OpenPull(i) ==
    /\ Unused(repo) # {}
    /\ Move("pull", WithPull(repo, NewPull({i}, None)))

Change(kind, p, pull) ==
    p \in repo.open /\ Move(kind, [repo EXCEPT !.pulls[p] = pull])

Rename(p) ==
    \E i \in Issues :
        Change("names", p, [repo.pulls[p] EXCEPT !.names = Toggle(@, i)])

Push(p) ==
    /\ repo.pulls[p].head < MaxHead
    /\ Change("push", p, [Pushed(repo.pulls[p]) EXCEPT !.mergeable = None,
                                                      !.mergeable_state = "unknown"])

\* Checks of any commit start, finish, run again and turn, and may report for the
\* first time at any moment.
ReportRuns(p) ==
    \E h \in 0..repo.pulls[p].head, s \in Surface \ {"absent"} :
        /\ s # repo.pulls[p].checks[h].runs
        /\ Change("ci", p, [repo.pulls[p] EXCEPT !.checks[h].runs = s])

ReportStatus(p) ==
    \E h \in 0..repo.pulls[p].head, s \in Surface \ {"absent"} :
        /\ s # repo.pulls[p].checks[h].status
        /\ Change("ci", p, [repo.pulls[p] EXCEPT !.checks[h].status = s])

Redraft(p) == Change("draft", p, [repo.pulls[p] EXCEPT !.draft = ~@])

Rebase(p) ==
    \E m \in Mergeability :
        /\ m # <<repo.pulls[p].mergeable, repo.pulls[p].mergeable_state>>
        /\ Change("mergeable", p, [repo.pulls[p] EXCEPT !.mergeable = m[1],
                                                        !.mergeable_state = m[2]])

Chatter(n) ==
    /\ n \in repo.known \ repo.busy
    /\ Move("talk", [repo EXCEPT !.busy = @ \cup {n}])

TrackerInit == repo \in Starts /\ events = 0

TrackerNext ==
    /\ events < MaxEvents
    /\ \/ \E n \in repo.known : Close(n) \/ Reopen(n) \/ Relabel(n) \/ Declare(n)
                                   \/ Chatter(n)
       \/ \E i \in Issues : File(i) \/ PushBranch(i) \/ OpenPull(i)
       \/ \E p \in Pulls : Rename(p) \/ Push(p) \/ ReportRuns(p) \/ ReportStatus(p)
                              \/ Redraft(p) \/ Rebase(p)

=============================================================================
