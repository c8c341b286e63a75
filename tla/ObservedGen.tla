----------------------------- MODULE ObservedGen -----------------------------
(***************************************************************************)
(* observed_gen.py: what the store remembers of an evaluation, when it may *)
(* be replayed instead of repeated, and the two kinds of stamp it carries. *)
(*                                                                         *)
(* A store is a partial function from ids to records: store.get(id) is     *)
(* None for an id outside its domain.  The fingerprint has no head_sha and *)
(* no body_hash: the reconciler never passes either, so both are None in   *)
(* every record and every comparison.  satisfied_tokens is not stored: it  *)
(* is always SatisfiedTokens of the stored closure.                        *)
(***************************************************************************)
EXTENDS Disposition

Fingerprint_NoClosure(item, closure) ==   \* mutant: blind to the world
    [labels  |-> LabelSetHash(item),
     deps    |-> DepsHash(item),
     closure |-> IF closure = None THEN None ELSE {}]

Fingerprint_NoLabels(item, closure) ==   \* mutant: blind to the labels
    [labels |-> {}, deps |-> DepsHash(item), closure |-> closure]

\* compute_fingerprint
Fingerprint(item, closure) ==
    [labels  |-> LabelSetHash(item),
     deps    |-> DepsHash(item),
     closure |-> closure]

\* InputFingerprint.matches: a None closure matches nothing, not even None.
Matches(fp, recorded) ==
    fp.closure # None /\ recorded.closure # None /\ fp = recorded

ShouldSkip_FingerprintOnly(id, item, store, closure, generation) ==   \* mutant
    /\ id \in DOMAIN store
    /\ Matches(Fingerprint(item, closure), store[id].fingerprint)

\* should_skip: recorded in this very generation, or nothing has moved.
ShouldSkip(id, item, store, closure, generation) ==
    /\ id \in DOMAIN store
    /\ \/ generation > 0 /\ store[id].generation = generation
       \/ Matches(Fingerprint(item, closure), store[id].fingerprint)

-----------------------------------------------------------------------------

SatisfiedTokens(closure) == {e.dep : e \in {f \in closure : f.state = "satisfied"}}

NewlySatisfied_FromSilence(closure, store, id) ==   \* mutant: silence read as unsatisfied
    IF id \notin DOMAIN store THEN {}
    ELSE SatisfiedTokens(closure) \
            (IF store[id].fingerprint.closure = None THEN {}
             ELSE SatisfiedTokens(store[id].fingerprint.closure))

\* newly_satisfied: nothing without a prior record that had a closure.
NewlySatisfied(closure, store, id) ==
    IF id \notin DOMAIN store \/ store[id].fingerprint.closure = None THEN {}
    ELSE SatisfiedTokens(closure) \ SatisfiedTokens(store[id].fingerprint.closure)

SetDefault_Assign(stamps, keys, time) ==   \* mutant: the latest entry wins
    [k \in DOMAIN stamps \cup keys |-> IF k \in keys THEN time ELSE stamps[k]]

\* dict.setdefault for every key of keys: the first entry wins.
SetDefault(stamps, keys, time) ==
    [k \in DOMAIN stamps \cup keys |->
        IF k \in DOMAIN stamps THEN stamps[k] ELSE time]

SatisfiedAt_NotCarried(id, store, closure, observed_at) ==   \* mutant: a pass without a date forgets
    IF closure = None \/ observed_at = None THEN <<>>
    ELSE SetDefault(IF id \in DOMAIN store THEN store[id].satisfied_at ELSE <<>>,
                    NewlySatisfied(closure, store, id), observed_at)

SatisfiedAt(id, store, closure, observed_at) ==
    LET carried == IF id \in DOMAIN store THEN store[id].satisfied_at ELSE <<>>
    IN  IF closure = None \/ observed_at = None THEN carried
        ELSE SetDefault(carried, NewlySatisfied(closure, store, id), observed_at)

StageEnteredAt(id, store, stage, observed_at) ==
    LET carried == IF id \in DOMAIN store THEN store[id].stage_entered_at ELSE <<>>
    IN  IF observed_at = None THEN carried
        ELSE SetDefault(carried, {stage}, observed_at)

\* record_evaluation: the record it puts for id.
RecordOf(id, item, store, generation, closure, verdict, stage, observed_at) ==
    [generation       |-> generation,
     fingerprint      |-> Fingerprint(item, closure),
     verdict          |-> verdict,
     stage            |-> stage,
     satisfied_at     |-> SatisfiedAt(id, store, closure, observed_at),
     stage_entered_at |-> StageEnteredAt(id, store, stage, observed_at)]

\* A record written before closures and dispositions were stored.
LegacyRecord(item) ==
    [generation       |-> 0,
     fingerprint      |-> Fingerprint(item, None),
     verdict          |-> None,
     stage            |-> None,
     satisfied_at     |-> <<>>,
     stage_entered_at |-> <<>>]

Put(store, id, record) ==
    [i \in DOMAIN store \cup {id} |-> IF i = id THEN record ELSE store[i]]

=============================================================================
