------------------------------ MODULE MCTracker ------------------------------
(***************************************************************************)
(* Small repositories.  Issues 1 and 2, pull requests 3 and 4: a chain of  *)
(* two, two candidates for one slot, a person's change next to the         *)
(* groomer's.                                                              *)
(***************************************************************************)
EXTENDS Tracker

CONSTANTS gate, lane, lane2

Pull(names, runs, status, mergeable, threads) ==
    [draft |-> FALSE, names |-> names, from |-> None, head |-> 0,
     checks |-> [h \in 0..MaxHead |->
                    IF h = 0 THEN [runs |-> runs, status |-> status] ELSE Unchecked],
     mergeable |-> mergeable,
     mergeable_state |-> IF mergeable = TRUE THEN "clean" ELSE "unknown",
     security_threads |-> threads]

\* GitHub computes both from one test merge.
OneTestMerge == {<<TRUE, "clean">>, <<FALSE, "dirty">>, <<None, "unknown">>}

\* Issues 1 and 2 are open, with their branches; no pull request is.
Quiet ==
    [known |-> Issues, open |-> Issues, merged |-> {},
     labels |-> [n \in Numbers |-> {}], blockers |-> [n \in Numbers |-> {}],
     branches |-> Issues,
     pulls |-> [p \in Pulls |-> Pull({}, "absent", "absent", None, 0)],
     marked |-> [n \in Numbers |-> 0], pinned |-> {}, busy |-> {}]

Waiting == [Quiet EXCEPT !.blockers[2] = {1}, !.branches = {2}]

\* Issue 2 is not filed yet.
Young == [Quiet EXCEPT !.known = {1}, !.open = {1}]

WithOpenPull(r, pull) ==
    [r EXCEPT !.known = @ \cup {3}, !.open = @ \cup {3}, !.pulls[3] = pull,
              !.labels[3] = {lane}]

\* A change in a lane that waits for an issue, the only one or one of two, or for a
\* status.
Lone    == [WithOpenPull(Young, Pull({}, "passing", "passing", TRUE, 0))
              EXCEPT !.blockers[3] = {1}]
Parked  == [WithOpenPull(Quiet, Pull({}, "passing", "passing", TRUE, 0))
              EXCEPT !.blockers[3] = {1}]
Running == WithOpenPull(Waiting, Pull({2}, "passing", "pending", TRUE, 0))

\* A review of the change has left a security thread open.
Threaded == WithOpenPull(Quiet, Pull({}, "passing", "absent", TRUE, 1))

\* A change that names an issue and waits for its checks.
Named == WithOpenPull(Young, Pull({1}, "pending", "absent", TRUE, 0))

=============================================================================
