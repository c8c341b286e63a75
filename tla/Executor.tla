------------------------------ MODULE Executor ------------------------------
(***************************************************************************)
(* github_executor.py: GitHubExecutor.execute, one record at a time in the *)
(* order of the results, over the repository as it has become since it was *)
(* read.                                                                   *)
(*                                                                         *)
(* A call whose reply is lost leaves the repository as one that succeeds   *)
(* does, and the loop remembers of neither more than a line of its report, *)
(* so the two are one transition.                                          *)
(***************************************************************************)
EXTENDS Snapshot

CONSTANT Modes   \* how the groomer may be deployed

ASSUME ModesAssumption == Modes \subseteq [kept : BOOLEAN, provider : BOOLEAN]

VARIABLES mode,      \* kept: is the generation store kept between passes?
                     \* provider: is there a model provider?
          results    \* the disposition of every record of this pass

JudgmentActions == {"fix_ci", "resolve_conflicts", "advance_draft"}

WithoutCall_NoProvider(n) ==   \* mutant: nothing is acted on without a provider
    \/ results[n].kind \in {"terminal", "undecidable"}
    \/ results[n].kind = "act" /\ ~mode.provider

\* TERMINAL is skipped, UNDECIDABLE is an error, and judgement needs a provider.
WithoutCall(n) ==
    \/ results[n].kind \in {"terminal", "undecidable"}
    \/ results[n].action \in JudgmentActions /\ ~mode.provider

FindMarkerComment_Never(n) == FALSE   \* mutant: the first page is not searched

FindMarkerComment_AnyComment(n) ==   \* mutant: some other comment is edited
    n \in repo.pinned \cup repo.busy

\* Only the first page of the thread is searched for the marker.
FindMarkerComment(n) == n \in repo.pinned

\* The comment found is edited in place.  Search and post are two calls, taken as
\* one step: one groomer runs at a time, and nobody else writes a marker.
SurfaceBlockedChain(n) ==
    repo' = IF FindMarkerComment(n) THEN repo ELSE WithMarker(repo, n)

\* The merge names no head commit, and nothing is read again before it.
Automerge(p) ==
    IF CanMerge(repo, p)
    THEN \E fixed \in {{}, repo.pulls[p].names} : repo' = WithMerge(repo, p, fixed)
    ELSE UNCHANGED repo

\* The pull request names its issue only if the provider's text does.
CreatePr(i) ==
    IF CanOpenFrom(repo, i)
    THEN \E names \in {{}} \cup (IF mode.provider THEN {{i}} ELSE {}) :
            repo' = WithPull(repo, NewPull(names, i))
    ELSE UNCHANGED repo

\* A commit of the same tree on top of the head: conflicts stay.
PushCommit(p) ==
    repo' = IF repo.pulls[p].head = MaxHead THEN repo
            ELSE [repo EXCEPT !.pulls[p] = Pushed(@)]

\* Whatever the provider says becomes the message of that commit.
FixCi(p) == PushCommit(p)

ResolveConflicts(p) == PushCommit(p)

\* This base class refuses every ready write.
AdvanceDraft(p) == UNCHANGED repo

DispatchAction(n) ==
    LET action == results[n].action
    IN  \/ action = "automerge" /\ Automerge(n)
        \/ action = "create_pr" /\ CreatePr(n)
        \/ action = "fix_ci" /\ FixCi(n)
        \/ action = "resolve_conflicts" /\ ResolveConflicts(n)
        \/ action = "advance_draft" /\ AdvanceDraft(n)

Perform(n) ==
    IF results[n].kind = "blocked" THEN SurfaceBlockedChain(n) ELSE DispatchAction(n)

\* An error is recorded and the loop goes on with the next record.
ExecuteRecord(n) ==
    /\ \/ WithoutCall(n) /\ UNCHANGED <<repo, events>>
       \/ ~WithoutCall(n) /\ Perform(n) /\ UNCHANGED events
       \/ ~WithoutCall(n) /\ Fault("call") /\ UNCHANGED repo
    /\ work' = work \ {n}
    /\ UNCHANGED <<step, page, seen, results>>

Execute == step = "execute" /\ work # {} /\ ExecuteRecord(NextRecord(work))

\* A 401 leaves execute: ExecutorAbortError, and no record after this one.
ExecuteAborts ==
    /\ step = "execute"
    /\ work # {}
    /\ ~WithoutCall(NextRecord(work))
    /\ Fault("auth")

=============================================================================
