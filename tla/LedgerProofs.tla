----------------------------- MODULE LedgerProofs -----------------------------
(***************************************************************************)
(* The generation store implements two ledgers of dates (StampLedger), for *)
(* every set of items, declarations and worlds and any number of passes.   *)
(***************************************************************************)
EXTENDS ReconcilerProofs

-----------------------------------------------------------------------------
(* The date a pass stamps with is the day it runs on.                       *)

ClockInv == observed_at \in {None, cycle}

LEMMA ClockStep ==
    ASSUME TypeOK, ClockInv, [Next]_vars PROVE ClockInv'
<1>1. CASE StartPass
  BY <1>1 DEF StartPass, ClockInv
<1>2. CASE FinishPass
  BY <1>2 DEF FinishPass, ClockInv
<1>3. CASE InterruptPass
  BY <1>3 DEF InterruptPass, Die, ClockInv
<1>4. ASSUME NEW i \in DOMAIN items, ReconcileItem(i) PROVE ClockInv'
  BY <1>4 DEF ReconcileItem, config, ClockInv
<1>5. ASSUME NEW i \in DOMAIN items, AbortPass(i) PROVE ClockInv'
  BY <1>5 DEF AbortPass, Die, ClockInv
<1>6. CASE Observe
  BY <1>6 DEF Observe, config, ClockInv
<1>7. ASSUME NEW i \in DOMAIN items, EditItem(i) PROVE ClockInv'
  BY <1>7, EditFrame DEF ClockInv
<1>8. ASSUME NEW i \in ItemIds, Carry(i) PROVE ClockInv'
  BY <1>8 DEF Carry, config, ClockInv
<1>9. CASE UNCHANGED vars
  BY <1>9 DEF vars, ClockInv
<1> QED
  BY <1>1, <1>2, <1>3, <1>4, <1>5, <1>6, <1>7, <1>8, <1>9 DEF Next, Pass, Tracker

-----------------------------------------------------------------------------
(* What a step does to the clock and to the store.                          *)

\* A step that evaluates nothing moves the clock by one, or neither.
LEMMA QuietClock ==
    ASSUME TypeOK, [Next]_vars, \A i \in DOMAIN items : ~ReconcileItem(i)
    PROVE  store' = store /\ cycle' \in {cycle, cycle + 1}
<1>1. store' = store
  BY QuietStep
<1>2. CASE StartPass
  BY <1>1, <1>2 DEF StartPass
<1>3. CASE FinishPass
  BY <1>1, <1>3 DEF FinishPass
<1>4. CASE InterruptPass
  BY <1>1, <1>4 DEF InterruptPass, Die
<1>5. ASSUME NEW i \in DOMAIN items, AbortPass(i) PROVE cycle' = cycle
  BY <1>5 DEF AbortPass, Die
<1>6. CASE Observe
  BY <1>1, <1>6 DEF Observe, config
<1>7. ASSUME NEW i \in DOMAIN items, EditItem(i) PROVE cycle' = cycle
  BY <1>7, EditFrame
<1>8. ASSUME NEW i \in ItemIds, Carry(i) PROVE cycle' = cycle
  BY <1>8 DEF Carry, config
<1>9. CASE UNCHANGED vars
  BY <1>1, <1>9 DEF vars
<1> QED
  BY <1>1, <1>2, <1>3, <1>4, <1>5, <1>6, <1>7, <1>8, <1>9 DEF Next, Pass, Tracker

LEMMA SetDefaultDates ==
    ASSUME NEW f, NEW keys, NEW t, NEW k \in DOMAIN SetDefault(f, keys, t),
           k \notin DOMAIN f
    PROVE  SetDefault(f, keys, t)[k] = t
BY DEF SetDefault

\* A stamp that the record before did not hold bears the date of this pass.
LEMMA NewStampsAreDatedNow ==
    ASSUME ClockInv, NEW i \in DOMAIN items, ReconcileItem(i)
    PROVE  /\ \A s \in DOMAIN store'[i].stage_entered_at :
                 (i \in DOMAIN store => s \notin DOMAIN store[i].stage_entered_at)
                     => store'[i].stage_entered_at[s] = cycle
           /\ \A d \in DOMAIN store'[i].satisfied_at :
                 (i \in DOMAIN store => d \notin DOMAIN store[i].satisfied_at)
                     => store'[i].satisfied_at[d] = cycle
<1>1. /\ store'[i].stage_entered_at
             = StageEnteredAt(i, store, StageOf(i), observed_at)
      /\ store'[i].satisfied_at
             = SatisfiedAt(i, store, ClosureOf(i), observed_at)
  <2> DEFINE r == RecordOf(i, items[i], store, generation, ClosureOf(i),
                           VerdictToRecord(i), StageOf(i), observed_at)
  <2>1. store'[i] = r
    BY OneRecord
  <2>2. /\ r.stage_entered_at = StageEnteredAt(i, store, StageOf(i), observed_at)
        /\ r.satisfied_at = SatisfiedAt(i, store, ClosureOf(i), observed_at)
    BY DEF RecordOf
  <2> QED
    BY <2>1, <2>2
<1>2. ASSUME NEW s \in DOMAIN StageEnteredAt(i, store, StageOf(i), observed_at),
             i \in DOMAIN store => s \notin DOMAIN store[i].stage_entered_at
      PROVE  StageEnteredAt(i, store, StageOf(i), observed_at)[s] = cycle
  <2>1. observed_at # None
    BY <1>2, NoResults DEF StageEnteredAt
  <2> QED
    BY <1>2, <2>1, NoResults, SetDefaultDates DEF StageEnteredAt, ClockInv
<1>3. ASSUME NEW d \in DOMAIN SatisfiedAt(i, store, ClosureOf(i), observed_at),
             i \in DOMAIN store => d \notin DOMAIN store[i].satisfied_at
      PROVE  SatisfiedAt(i, store, ClosureOf(i), observed_at)[d] = cycle
  <2>1. observed_at # None /\ ClosureOf(i) # None
    BY <1>3, NoResults DEF SatisfiedAt
  <2> QED
    BY <1>3, <2>1, NoResults, SetDefaultDates DEF SatisfiedAt, ClockInv
<1> QED
  BY <1>1, <1>2, <1>3

\* What one item of the loop does to both maps of every record.
LEMMA StampsOfStep ==
    ASSUME ClockInv, NEW i \in DOMAIN items, ReconcileItem(i)
    PROVE  /\ cycle' = cycle
           /\ \A j \in DOMAIN store :
                 /\ j \in DOMAIN store'
                 /\ Extends(store[j].stage_entered_at, store'[j].stage_entered_at)
                 /\ Extends(store[j].satisfied_at, store'[j].satisfied_at)
           /\ \A j \in DOMAIN store' :
                 /\ \A s \in DOMAIN store'[j].stage_entered_at :
                       (j \in DOMAIN store => s \notin DOMAIN store[j].stage_entered_at)
                           => store'[j].stage_entered_at[s] = cycle
                 /\ \A d \in DOMAIN store'[j].satisfied_at :
                       (j \in DOMAIN store => d \notin DOMAIN store[j].satisfied_at)
                           => store'[j].satisfied_at[d] = cycle
<1>1. cycle' = cycle
  BY DEF ReconcileItem, config
<1>2. /\ DOMAIN store' = DOMAIN store \cup {i}
      /\ \A j \in DOMAIN store \ {i} : store'[j] = store[j]
  BY OneRecord
<1>3. i \in DOMAIN store =>
        /\ Extends(store[i].stage_entered_at, store'[i].stage_entered_at)
        /\ Extends(store[i].satisfied_at, store'[i].satisfied_at)
  <2> DEFINE r == RecordOf(i, items[i], store, generation, ClosureOf(i),
                           VerdictToRecord(i), StageOf(i), observed_at)
  <2>1. store'[i] = r
    BY OneRecord
  <2>2. i \in DOMAIN store => /\ Extends(store[i].satisfied_at, r.satisfied_at)
                              /\ Extends(store[i].stage_entered_at, r.stage_entered_at)
    BY RecordKeepsStamps
  <2> QED
    BY <2>1, <2>2
<1>4. \A f : Extends(f, f)
  BY DEF Extends
<1>5. \A j \in DOMAIN store :
         /\ j \in DOMAIN store'
         /\ Extends(store[j].stage_entered_at, store'[j].stage_entered_at)
         /\ Extends(store[j].satisfied_at, store'[j].satisfied_at)
  BY <1>2, <1>3, <1>4
<1>6. ASSUME NEW j \in DOMAIN store'
      PROVE  /\ \A s \in DOMAIN store'[j].stage_entered_at :
                   (j \in DOMAIN store => s \notin DOMAIN store[j].stage_entered_at)
                       => store'[j].stage_entered_at[s] = cycle
             /\ \A d \in DOMAIN store'[j].satisfied_at :
                   (j \in DOMAIN store => d \notin DOMAIN store[j].satisfied_at)
                       => store'[j].satisfied_at[d] = cycle
  <2>1. CASE j = i
    BY <2>1, NewStampsAreDatedNow
  <2>2. CASE j # i
    <3>1. j \in DOMAIN store /\ store'[j] = store[j]
      BY <1>2, <1>6, <2>2
    <3> QED
      BY <3>1
  <2> QED
    BY <2>1, <2>2
<1> QED
  BY <1>1, <1>5, <1>6

-----------------------------------------------------------------------------
(* The ledgers.                                                             *)

LEMMA EmptyBooks ==
    ASSUME Init PROVE DOMAIN StageBook = {} /\ DOMAIN FlipBook = {} /\ cycle = 0
<1>1. \A i \in DOMAIN store : /\ DOMAIN store[i].stage_entered_at = {}
                              /\ DOMAIN store[i].satisfied_at = {}
  <2>1. PICK carried \in SUBSET ItemIds :
            store = [i \in LegacyIds \cap carried |-> LegacyRecord(items[i])]
    BY DEF Init
  <2> QED
    BY <2>1, NoResults DEF LegacyRecord
<1>2. cycle = 0
  BY DEF Init
<1> QED
  BY <1>1, <1>2 DEF StageBook, FlipBook

LEMMA StageBookStep ==
    ASSUME ClockInv, NEW i \in DOMAIN items, ReconcileItem(i)
    PROVE  Stages!Next
<1> DEFINE K == DOMAIN StageBook' \ DOMAIN StageBook
<1>1. K \in SUBSET (ItemIds \X ItemStages)
  BY DEF StageBook
<1>2. \A k \in DOMAIN StageBook :
         k \in DOMAIN StageBook' /\ StageBook'[k] = StageBook[k]
  BY StampsOfStep DEF StageBook, Extends
<1>3. \A k \in K : StageBook'[k] = cycle
  BY StampsOfStep DEF StageBook
<1>4. StageBook' = [k \in DOMAIN StageBook \cup K |->
                       IF k \in K THEN cycle ELSE StageBook[k]]
  <2>1. DOMAIN StageBook' = DOMAIN StageBook \cup K
    BY <1>2
  <2>2. StageBook' = [k \in DOMAIN StageBook' |-> StageBook'[k]]
    BY DEF StageBook
  <2> QED
    BY <1>2, <1>3, <2>1, <2>2
<1>5. cycle' = cycle
  BY StampsOfStep
<1>6. Stages!Enter(K)
  BY <1>4, <1>5 DEF Stages!Enter
<1> QED
  BY <1>1, <1>6 DEF Stages!Next

LEMMA FlipBookStep ==
    ASSUME ClockInv, NEW i \in DOMAIN items, ReconcileItem(i)
    PROVE  Flips!Next
<1> DEFINE K == DOMAIN FlipBook' \ DOMAIN FlipBook
<1>1. K \in SUBSET (ItemIds \X Declarable)
  BY DEF FlipBook
<1>2. \A k \in DOMAIN FlipBook :
         k \in DOMAIN FlipBook' /\ FlipBook'[k] = FlipBook[k]
  BY StampsOfStep DEF FlipBook, Extends
<1>3. \A k \in K : FlipBook'[k] = cycle
  BY StampsOfStep DEF FlipBook
<1>4. FlipBook' = [k \in DOMAIN FlipBook \cup K |->
                      IF k \in K THEN cycle ELSE FlipBook[k]]
  <2>1. DOMAIN FlipBook' = DOMAIN FlipBook \cup K
    BY <1>2
  <2>2. FlipBook' = [k \in DOMAIN FlipBook' |-> FlipBook'[k]]
    BY DEF FlipBook
  <2> QED
    BY <1>2, <1>3, <2>1, <2>2
<1>5. cycle' = cycle
  BY StampsOfStep
<1>6. Flips!Enter(K)
  BY <1>4, <1>5 DEF Flips!Enter
<1> QED
  BY <1>1, <1>6 DEF Flips!Next

LEMMA BookStep ==
    ASSUME TypeOK, ClockInv, [Next]_vars
    PROVE  /\ [Stages!Next]_<<StageBook, cycle>>
           /\ [Flips!Next]_<<FlipBook, cycle>>
<1>1. ASSUME NEW i \in DOMAIN items, ReconcileItem(i)
      PROVE  Stages!Next /\ Flips!Next
  BY <1>1, StageBookStep, FlipBookStep
<1>2. CASE \A i \in DOMAIN items : ~ReconcileItem(i)
  <2>1. StageBook' = StageBook /\ FlipBook' = FlipBook
    BY <1>2, QuietClock DEF StageBook, FlipBook
  <2>2. cycle' = cycle \/ (Stages!Tick /\ Flips!Tick)
    BY <1>2, <2>1, QuietClock DEF Stages!Tick, Flips!Tick
  <2> QED
    BY <2>1, <2>2 DEF Stages!Next, Flips!Next
<1> QED
  BY <1>1, <1>2

\* The stage-entry stamps of all records are a ledger: each entry is made once
\* and dated with the pass that made it, in every behaviour of the reconciler.
THEOREM StagesRefineLedger == Spec => StagesImplementLedger
<1>1. Init => Stages!Init /\ ClockInv
  BY EmptyBooks DEF Stages!Init, Init, ClockInv
<1>2. TypeOK /\ ClockInv /\ [Next]_vars => ClockInv'
  BY ClockStep
<1>3. TypeOK /\ ClockInv /\ [Next]_vars => [Stages!Next]_<<StageBook, cycle>>
  BY BookStep
<1> QED
  BY <1>1, <1>2, <1>3, TypeCorrect, PTL DEF Spec, StagesImplementLedger, Stages!Spec

\* So are the satisfaction stamps: a flip is dated once, when it is noticed, and
\* the latency that is measured from it never changes afterwards.
THEOREM FlipsRefineLedger == Spec => FlipsImplementLedger
<1>1. Init => Flips!Init /\ ClockInv
  BY EmptyBooks DEF Flips!Init, Init, ClockInv
<1>2. TypeOK /\ ClockInv /\ [Next]_vars => ClockInv'
  BY ClockStep
<1>3. TypeOK /\ ClockInv /\ [Next]_vars => [Flips!Next]_<<FlipBook, cycle>>
  BY BookStep
<1> QED
  BY <1>1, <1>2, <1>3, TypeCorrect, PTL DEF Spec, FlipsImplementLedger, Flips!Spec

=============================================================================
