-------------------------- MODULE SuggestionFlowProofs --------------------------
(***************************************************************************)
(* What SuggestionFlow promises for any suggestions, patches and number of *)
(* user steps: its invariants, and that it implements SuggestionLifecycle. *)
(*                                                                         *)
(* Each handler learns something at one step and relies on it at a later   *)
(* one, while GitLab moves on and calls fail in between.  HandlerKnows     *)
(* says what it may rely on at each phase; it makes the invariants         *)
(* inductive.                                                              *)
(***************************************************************************)
EXTENDS SuggestionFlow, FiniteSetTheorems, TLAPS

(* Somebody clicked Apply on the patch of s. *)
Clicked(s) == \E u \in picked : Patch[u] = Patch[s]

HandlerKnows ==
    /\ at \in {"publish", "record"} =>
          \A s \in todo \cup batch : row[s] = "absent" /\ base[s] # Unposted
    /\ at \in {"adoptResolve", "adoptMark", "dismissResolve"} =>
          \A s, u \in todo : s = u
    /\ at \in {"adoptResolve", "adoptMark"} => todo \subseteq changed
    /\ at \in {"adoptLog", "applyLog"} => \A s \in todo : row[s] = "applied"
    /\ at \in {"dismissLog", "dismissMark"} => todo \subseteq closed
    /\ at = "applyMark" => \A s \in batch : Clicked(s)
    /\ at = "sweep" => batch \subseteq closed
    /\ at \in {"retire", "retireLog"} => todo \subseteq closed

HooksWerePicked == \A hook \in hooks : hook.picks \subseteq picked

ChangeIsRecorded == \A s \in Suggestions : TargetChanged(s) => s \in changed

UnpostedHasNoRow == \A s \in Suggestions : base[s] = Unposted => row[s] = "absent"

FlowInv ==
    /\ TypeOK
    /\ HandlerKnows
    /\ HooksWerePicked
    /\ ChangeIsRecorded
    /\ UnpostedHasNoRow
    /\ AdoptionHasEvidence
    /\ ReportedAdoptionWasMade
    /\ RetiredThreadsWereResolved

USE FlowAssumption

-----------------------------------------------------------------------------
LEMMA InitFlowInv == Init => FlowInv
<1> SUFFICES ASSUME Init PROVE FlowInv
  OBVIOUS
<1>1. TypeOK
  BY DEF Init, TypeOK, Phases
<1>2. QED
  BY <1>1 DEF Init, FlowInv, HandlerKnows, HooksWerePicked, UnpostedHasNoRow,
              ChangeIsRecorded, TargetChanged,
              AdoptionHasEvidence, ReportedAdoptionWasMade, RetiredThreadsWereResolved

(* What people do on GitLab only adds to the histories and leaves the bot be. *)
LEMMA GitLabKeepsFlowInv ==
    ASSUME FlowInv, TypeOK',
           UNCHANGED <<store, at, todo, batch, base>>,
           changed \subseteq changed', closed \subseteq closed', picked \subseteq picked',
           HooksWerePicked', ChangeIsRecorded'
    PROVE  FlowInv'
<1>1. HandlerKnows'
  BY DEF FlowInv, HandlerKnows, Clicked, store
<1>2. QED
  BY <1>1 DEF FlowInv, UnpostedHasNoRow, AdoptionHasEvidence, ReportedAdoptionWasMade,
              RetiredThreadsWereResolved, store

LEMMA UserStepsKeepFlowInv ==
    ASSUME FlowInv,
           \/ \E s \in Suggestions : UserTogglesThread(s)
           \/ \E S \in SUBSET Suggestions : UserApplies(S)
           \/ \E p \in Patches, version \in Versions : UserPushes(p, version)
    PROVE  FlowInv'
<1>1. ASSUME NEW s \in Suggestions, UserTogglesThread(s) PROVE FlowInv'
  <2>1. TypeOK'
    BY <1>1 DEF FlowInv, TypeOK, UserTogglesThread, UserStep, store
  <2>2. QED
    BY <1>1, <2>1, GitLabKeepsFlowInv
       DEF UserTogglesThread, FlowInv, HooksWerePicked, ChangeIsRecorded, TargetChanged
<1>2. ASSUME NEW S \in SUBSET Suggestions, UserApplies(S) PROVE FlowInv'
  <2>1. TypeOK'
    BY <1>2 DEF FlowInv, TypeOK, UserApplies, UserStep, MoveHead, store, Hook
  <2>2. HooksWerePicked'
    BY <1>2 DEF FlowInv, HooksWerePicked, UserApplies
  <2>3. ChangeIsRecorded'
    BY <1>2 DEF UserApplies, MoveHead, ChangeIsRecorded, TargetChanged
  <2>4. QED
    BY <1>2, <2>1, <2>2, <2>3, GitLabKeepsFlowInv DEF UserApplies, MoveHead
<1>3. ASSUME NEW p \in Patches, NEW version \in Versions, UserPushes(p, version)
      PROVE  FlowInv'
  <2>1. TypeOK'
    BY <1>3 DEF FlowInv, TypeOK, UserPushes, UserStep, MoveHead, store
  <2>2. ChangeIsRecorded'
    BY <1>3 DEF UserPushes, MoveHead, ChangeIsRecorded, TargetChanged
  <2>3. QED
    BY <1>3, <2>1, <2>2, GitLabKeepsFlowInv
       DEF UserPushes, MoveHead, FlowInv, HooksWerePicked
<1>4. QED
  BY <1>1, <1>2, <1>3
-----------------------------------------------------------------------------
(* Steps of the bot that leave the store alone. *)
LEMMA StoreStaysKeepsFlowInv ==
    ASSUME FlowInv, TypeOK', HandlerKnows', HooksWerePicked', ChangeIsRecorded',
           UnpostedHasNoRow', UNCHANGED store,
           changed \subseteq changed', closed \subseteq closed', picked \subseteq picked'
    PROVE  FlowInv'
BY DEF FlowInv, AdoptionHasEvidence, ReportedAdoptionWasMade,
       RetiredThreadsWereResolved, store

LEMMA CrashKeepsFlowInv == ASSUME FlowInv, Crash PROVE FlowInv'
<1>1. TypeOK' /\ HandlerKnows'
  BY DEF FlowInv, TypeOK, Phases, HandlerKnows, Crash, Finish, GoTo, gitlab, store
<1>2. QED
  BY <1>1, StoreStaysKeepsFlowInv
     DEF Crash, FlowInv, HooksWerePicked, ChangeIsRecorded, TargetChanged,
           UnpostedHasNoRow, gitlab, store

LEMMA StartsKeepFlowInv ==
    ASSUME FlowInv,
           \/ \E S \in SUBSET Suggestions : PostStart(S)
           \/ \E s \in Suggestions : AdoptStart(s) \/ DismissStart(s)
           \/ SweepStart
    PROVE  FlowInv'
<1>1. ASSUME NEW S \in SUBSET Suggestions, PostStart(S) PROVE FlowInv'
  <2>1. TypeOK'
    BY <1>1 DEF FlowInv, TypeOK, Phases, PostStart, GoTo, gitlab, store
  <2>2. HandlerKnows' /\ UnpostedHasNoRow'
    BY <1>1 DEF FlowInv, TypeOK, HandlerKnows, UnpostedHasNoRow, PostStart, GoTo, gitlab,
                store
  <2>3. ChangeIsRecorded'
    BY <1>1 DEF FlowInv, TypeOK, PostStart, ChangeIsRecorded, TargetChanged, gitlab
  <2>4. QED
    BY <1>1, <2>1, <2>2, <2>3, StoreStaysKeepsFlowInv
       DEF PostStart, FlowInv, HooksWerePicked, gitlab
<1>2. ASSUME NEW s \in Suggestions, AdoptStart(s) PROVE FlowInv'
  <2>1. TypeOK'
    BY <1>2 DEF FlowInv, TypeOK, Phases, AdoptStart, GoTo, gitlab, store
  <2>2. s \in changed
    BY <1>2 DEF AdoptStart, FlowInv, ChangeIsRecorded
  <2>3. HandlerKnows'
    BY <1>2, <2>2 DEF HandlerKnows, AdoptStart, GoTo, gitlab
  <2>4. QED
    BY <1>2, <2>1, <2>3, StoreStaysKeepsFlowInv
       DEF AdoptStart, FlowInv, HooksWerePicked, ChangeIsRecorded, TargetChanged,
           UnpostedHasNoRow, gitlab, store
<1>3. ASSUME NEW s \in Suggestions, DismissStart(s) PROVE FlowInv'
  <2>1. TypeOK' /\ HandlerKnows'
    BY <1>3 DEF FlowInv, TypeOK, Phases, HandlerKnows, DismissStart, GoTo, gitlab, store
  <2>2. QED
    BY <1>3, <2>1, StoreStaysKeepsFlowInv
       DEF DismissStart, FlowInv, HooksWerePicked, ChangeIsRecorded, TargetChanged,
           UnpostedHasNoRow, gitlab, store
<1>4. CASE SweepStart
  <2>1. TypeOK' /\ HandlerKnows'
    BY <1>4 DEF FlowInv, TypeOK, Phases, HandlerKnows, SweepStart, GoTo, gitlab, store
  <2>2. QED
    BY <1>4, <2>1, StoreStaysKeepsFlowInv
       DEF SweepStart, FlowInv, HooksWerePicked, ChangeIsRecorded, TargetChanged,
           UnpostedHasNoRow, gitlab, store
<1>5. QED
  BY <1>1, <1>2, <1>3, <1>4
LEMMA CallsKeepFlowInv ==
    ASSUME FlowInv, NEW s \in Suggestions,
           \/ Publish(s) \/ AdoptResolve(s) \/ DismissResolve(s) \/ Sweep(s) \/ SkipRetire(s)
    PROVE  FlowInv'
<1>1. ASSUME Publish(s) PROVE FlowInv'
  <2>1. TypeOK' /\ HandlerKnows'
    BY <1>1 DEF FlowInv, TypeOK, Phases, HandlerKnows, Publish, Resolve, Retired, Finish, GoTo,
                gitlab, store
  <2>2. QED
    BY <1>1, <2>1, StoreStaysKeepsFlowInv
       DEF Publish, Resolve, FlowInv, HooksWerePicked, ChangeIsRecorded, TargetChanged,
           UnpostedHasNoRow, gitlab, store
<1>2. ASSUME AdoptResolve(s) PROVE FlowInv'
  <2>1. TypeOK' /\ HandlerKnows'
    BY <1>2 DEF FlowInv, TypeOK, Phases, HandlerKnows, AdoptResolve, Resolve, Retired, Finish, GoTo,
                gitlab, store
  <2>2. QED
    BY <1>2, <2>1, StoreStaysKeepsFlowInv
       DEF AdoptResolve, Resolve, FlowInv, HooksWerePicked, ChangeIsRecorded, TargetChanged,
           UnpostedHasNoRow, gitlab, store
<1>3. ASSUME DismissResolve(s) PROVE FlowInv'
  <2>1. TypeOK' /\ HandlerKnows'
    BY <1>3 DEF FlowInv, TypeOK, Phases, HandlerKnows, DismissResolve, Resolve, Retired, Finish, GoTo,
                gitlab, store
  <2>2. QED
    BY <1>3, <2>1, StoreStaysKeepsFlowInv
       DEF DismissResolve, Resolve, FlowInv, HooksWerePicked, ChangeIsRecorded, TargetChanged,
           UnpostedHasNoRow, gitlab, store
<1>4. ASSUME Sweep(s) PROVE FlowInv'
  <2>1. TypeOK' /\ HandlerKnows'
    BY <1>4 DEF FlowInv, TypeOK, Phases, HandlerKnows, Sweep, Resolve, Retired, Finish, GoTo,
                gitlab, store
  <2>2. QED
    BY <1>4, <2>1, StoreStaysKeepsFlowInv
       DEF Sweep, Resolve, FlowInv, HooksWerePicked, ChangeIsRecorded, TargetChanged,
           UnpostedHasNoRow, gitlab, store
<1>5. ASSUME SkipRetire(s) PROVE FlowInv'
  <2>1. TypeOK' /\ HandlerKnows'
    BY <1>5 DEF FlowInv, TypeOK, Phases, HandlerKnows, SkipRetire, Resolve, Retired, Finish, GoTo,
                gitlab, store
  <2>2. QED
    BY <1>5, <2>1, StoreStaysKeepsFlowInv
       DEF SkipRetire, Resolve, FlowInv, HooksWerePicked, ChangeIsRecorded, TargetChanged,
           UnpostedHasNoRow, gitlab, store
<1>6. QED
  BY <1>1, <1>2, <1>3, <1>4, <1>5

LEMMA ApplyStartKeepsFlowInv ==
    ASSUME FlowInv, NEW hook \in hooks, ApplyStart(hook)
    PROVE  FlowInv'
<1>1. hook.picks \subseteq picked
  BY DEF FlowInv, HooksWerePicked
<1>2. \A n : \A loaded \in SUBSET Candidates(hook.picks) :
         \A s \in Oldest(loaded, n) : s \in Suggestions /\ Clicked(s)
  BY <1>1 DEF Oldest, Candidates, Clicked, FlowInv, TypeOK
<1>3. TypeOK' /\ HandlerKnows'
  BY <1>2 DEF FlowInv, TypeOK, Phases, HandlerKnows, Clicked, ApplyStart, Finish, GoTo, store
<1>4. QED
  BY <1>3, StoreStaysKeepsFlowInv
     DEF ApplyStart, FlowInv, HooksWerePicked, ChangeIsRecorded, TargetChanged,
         UnpostedHasNoRow, store

-----------------------------------------------------------------------------
(* Steps of the bot that write to the store. *)
LEMMA PostedAtType == ASSUME TypeOK
                      PROVE  Cardinality({u \in Suggestions : row[u] # "absent"}) \in Nat
<1>1. IsFiniteSet({u \in Suggestions : row[u] # "absent"})
  BY FS_Subset
<1>2. QED
  BY <1>1, FS_CardinalityType

LEMMA WritesKeepFlowInv ==
    ASSUME FlowInv, NEW s \in Suggestions,
           \/ AdoptMark(s) \/ AdoptLog(s) \/ DismissLog(s) \/ DismissMark(s) \/ ApplyLog(s)
           \/ Retire(s) \/ RetireLog(s)
    PROVE  FlowInv'
<1>1. ASSUME AdoptMark(s) PROVE FlowInv'
  <2>1. TypeOK' /\ HandlerKnows'
    BY <1>1 DEF FlowInv, TypeOK, Phases, HandlerKnows, Clicked, AdoptMark, UpdateState, Finish, GoTo,
                gitlab
  <2>2. HooksWerePicked' /\ ChangeIsRecorded' /\ UnpostedHasNoRow'
    BY <1>1 DEF FlowInv, TypeOK, HandlerKnows, HooksWerePicked, ChangeIsRecorded,
                TargetChanged, UnpostedHasNoRow, AdoptMark, UpdateState, Finish, GoTo, gitlab
  <2>3. AdoptionHasEvidence' /\ ReportedAdoptionWasMade' /\ RetiredThreadsWereResolved'
    BY <1>1 DEF FlowInv, TypeOK, HandlerKnows, AdoptionHasEvidence, ReportedAdoptionWasMade,
                RetiredThreadsWereResolved, AdoptMark, UpdateState, Finish, GoTo, gitlab
  <2>4. QED
    BY <2>1, <2>2, <2>3 DEF FlowInv
<1>2. ASSUME AdoptLog(s) PROVE FlowInv'
  <2>1. TypeOK' /\ HandlerKnows'
    BY <1>2 DEF FlowInv, TypeOK, Phases, HandlerKnows, Clicked, AdoptLog, LogAction, Finish, GoTo,
                gitlab
  <2>2. HooksWerePicked' /\ ChangeIsRecorded' /\ UnpostedHasNoRow'
    BY <1>2 DEF FlowInv, TypeOK, HandlerKnows, HooksWerePicked, ChangeIsRecorded,
                TargetChanged, UnpostedHasNoRow, AdoptLog, LogAction, Finish, GoTo, gitlab
  <2>3. AdoptionHasEvidence' /\ ReportedAdoptionWasMade' /\ RetiredThreadsWereResolved'
    BY <1>2 DEF FlowInv, TypeOK, HandlerKnows, AdoptionHasEvidence, ReportedAdoptionWasMade,
                RetiredThreadsWereResolved, AdoptLog, LogAction, Finish, GoTo, gitlab
  <2>4. QED
    BY <2>1, <2>2, <2>3 DEF FlowInv
<1>3. ASSUME DismissLog(s) PROVE FlowInv'
  <2>1. TypeOK' /\ HandlerKnows'
    BY <1>3 DEF FlowInv, TypeOK, Phases, HandlerKnows, Clicked, DismissLog, LogAction, GoTo,
                gitlab
  <2>2. HooksWerePicked' /\ ChangeIsRecorded' /\ UnpostedHasNoRow'
    BY <1>3 DEF FlowInv, TypeOK, HandlerKnows, HooksWerePicked, ChangeIsRecorded,
                TargetChanged, UnpostedHasNoRow, DismissLog, LogAction, GoTo, gitlab
  <2>3. AdoptionHasEvidence' /\ ReportedAdoptionWasMade' /\ RetiredThreadsWereResolved'
    BY <1>3 DEF FlowInv, TypeOK, HandlerKnows, AdoptionHasEvidence, ReportedAdoptionWasMade,
                RetiredThreadsWereResolved, DismissLog, LogAction, GoTo, gitlab
  <2>4. QED
    BY <2>1, <2>2, <2>3 DEF FlowInv
<1>4. ASSUME DismissMark(s) PROVE FlowInv'
  <2>1. TypeOK' /\ HandlerKnows'
    BY <1>4 DEF FlowInv, TypeOK, Phases, HandlerKnows, Clicked, DismissMark, UpdateState, Finish, GoTo,
                gitlab
  <2>2. HooksWerePicked' /\ ChangeIsRecorded' /\ UnpostedHasNoRow'
    BY <1>4 DEF FlowInv, TypeOK, HandlerKnows, HooksWerePicked, ChangeIsRecorded,
                TargetChanged, UnpostedHasNoRow, DismissMark, UpdateState, Finish, GoTo, gitlab
  <2>3. AdoptionHasEvidence' /\ ReportedAdoptionWasMade' /\ RetiredThreadsWereResolved'
    BY <1>4 DEF FlowInv, TypeOK, HandlerKnows, AdoptionHasEvidence, ReportedAdoptionWasMade,
                RetiredThreadsWereResolved, DismissMark, UpdateState, Finish, GoTo, gitlab
  <2>4. QED
    BY <2>1, <2>2, <2>3 DEF FlowInv
<1>5. ASSUME ApplyLog(s) PROVE FlowInv'
  <2>1. TypeOK' /\ HandlerKnows'
    BY <1>5 DEF FlowInv, TypeOK, Phases, HandlerKnows, Clicked, ApplyLog, LogAction, Finish, GoTo,
                gitlab
  <2>2. HooksWerePicked' /\ ChangeIsRecorded' /\ UnpostedHasNoRow'
    BY <1>5 DEF FlowInv, TypeOK, HandlerKnows, HooksWerePicked, ChangeIsRecorded,
                TargetChanged, UnpostedHasNoRow, ApplyLog, LogAction, Finish, GoTo, gitlab
  <2>3. AdoptionHasEvidence' /\ ReportedAdoptionWasMade' /\ RetiredThreadsWereResolved'
    BY <1>5 DEF FlowInv, TypeOK, HandlerKnows, AdoptionHasEvidence, ReportedAdoptionWasMade,
                RetiredThreadsWereResolved, ApplyLog, LogAction, Finish, GoTo, gitlab
  <2>4. QED
    BY <2>1, <2>2, <2>3 DEF FlowInv
<1>6. ASSUME Retire(s) PROVE FlowInv'
  <2>1. TypeOK' /\ HandlerKnows'
    BY <1>6 DEF FlowInv, TypeOK, Phases, HandlerKnows, Clicked, Retire, UpdateState, GoTo,
                gitlab
  <2>2. HooksWerePicked' /\ ChangeIsRecorded' /\ UnpostedHasNoRow'
    BY <1>6 DEF FlowInv, TypeOK, HandlerKnows, HooksWerePicked, ChangeIsRecorded,
                TargetChanged, UnpostedHasNoRow, Retire, UpdateState, GoTo, gitlab
  <2>3. AdoptionHasEvidence' /\ ReportedAdoptionWasMade' /\ RetiredThreadsWereResolved'
    BY <1>6 DEF FlowInv, TypeOK, HandlerKnows, AdoptionHasEvidence, ReportedAdoptionWasMade,
                RetiredThreadsWereResolved, Retire, UpdateState, GoTo, gitlab
  <2>4. QED
    BY <2>1, <2>2, <2>3 DEF FlowInv
<1>7. ASSUME RetireLog(s) PROVE FlowInv'
  <2>1. TypeOK' /\ HandlerKnows'
    BY <1>7 DEF FlowInv, TypeOK, Phases, HandlerKnows, Clicked, RetireLog, LogAction, Retired, Finish, GoTo,
                gitlab
  <2>2. HooksWerePicked' /\ ChangeIsRecorded' /\ UnpostedHasNoRow'
    BY <1>7 DEF FlowInv, TypeOK, HandlerKnows, HooksWerePicked, ChangeIsRecorded,
                TargetChanged, UnpostedHasNoRow, RetireLog, LogAction, Retired, Finish, GoTo, gitlab
  <2>3. AdoptionHasEvidence' /\ ReportedAdoptionWasMade' /\ RetiredThreadsWereResolved'
    BY <1>7 DEF FlowInv, TypeOK, HandlerKnows, AdoptionHasEvidence, ReportedAdoptionWasMade,
                RetiredThreadsWereResolved, RetireLog, LogAction, Retired, Finish, GoTo, gitlab
  <2>4. QED
    BY <2>1, <2>2, <2>3 DEF FlowInv
<1>8. QED
  BY <1>1, <1>2, <1>3, <1>4, <1>5, <1>6, <1>7

LEMMA RecordKeepsFlowInv ==
    ASSUME FlowInv, NEW s \in Suggestions, Record(s)
    PROVE  FlowInv'
<1>1. TypeOK' /\ HandlerKnows'
  BY PostedAtType DEF FlowInv, TypeOK, Phases, HandlerKnows, Record, Finish, GoTo, gitlab
<1>2. HooksWerePicked' /\ ChangeIsRecorded'
  BY DEF FlowInv, HooksWerePicked, ChangeIsRecorded, TargetChanged, Record, gitlab
<1>3. AdoptionHasEvidence' /\ ReportedAdoptionWasMade' /\ RetiredThreadsWereResolved'
  BY DEF FlowInv, TypeOK, HandlerKnows, AdoptionHasEvidence, ReportedAdoptionWasMade,
         RetiredThreadsWereResolved, Record, gitlab
<1>4. UnpostedHasNoRow'
  BY DEF FlowInv, TypeOK, HandlerKnows, UnpostedHasNoRow, Record, gitlab
<1>5. QED
  BY <1>1, <1>2, <1>3, <1>4 DEF FlowInv

LEMMA ApplyMarkKeepsFlowInv == ASSUME FlowInv, ApplyMark PROVE FlowInv'
<1>1. TypeOK' /\ HandlerKnows'
  BY DEF FlowInv, TypeOK, Phases, HandlerKnows, ApplyMark, Finish, GoTo, gitlab
<1>2. HooksWerePicked' /\ ChangeIsRecorded' /\ UnpostedHasNoRow'
  BY DEF FlowInv, HooksWerePicked, ChangeIsRecorded, TargetChanged, UnpostedHasNoRow,
         ApplyMark, gitlab
<1>3. AdoptionHasEvidence' /\ ReportedAdoptionWasMade' /\ RetiredThreadsWereResolved'
  BY DEF FlowInv, TypeOK, HandlerKnows, Clicked, AdoptionHasEvidence,
         ReportedAdoptionWasMade, RetiredThreadsWereResolved, ApplyMark, gitlab
<1>4. QED
  BY <1>1, <1>2, <1>3 DEF FlowInv

LEMMA NextFlowInv == FlowInv /\ [Next]_vars => FlowInv'
<1> SUFFICES ASSUME FlowInv, [Next]_vars PROVE FlowInv'
  OBVIOUS
<1>1. CASE UNCHANGED vars
  <2>1. TypeOK' /\ HandlerKnows'
    BY <1>1 DEF vars, gitlab, store, FlowInv, TypeOK, HandlerKnows, Clicked
  <2>2. QED
    BY <1>1, <2>1, StoreStaysKeepsFlowInv
       DEF vars, gitlab, store, FlowInv, HooksWerePicked, ChangeIsRecorded, TargetChanged,
           UnpostedHasNoRow
<1>2. CASE Next
  BY <1>2, UserStepsKeepFlowInv, CrashKeepsFlowInv, StartsKeepFlowInv, CallsKeepFlowInv,
     ApplyStartKeepsFlowInv, WritesKeepFlowInv, RecordKeepsFlowInv, ApplyMarkKeepsFlowInv
     DEF Next, Handler
<1>3. QED
  BY <1>1, <1>2

-----------------------------------------------------------------------------
(* The variables keep their types. *)
THEOREM FlowTypeCorrect == Spec => []TypeOK
BY InitFlowInv, NextFlowInv, PTL DEF Spec, FlowInv

(* No row becomes "applied" without evidence in the code. *)
THEOREM AdoptionsHaveEvidence == Spec => []AdoptionHasEvidence
BY InitFlowInv, NextFlowInv, PTL DEF Spec, FlowInv

(* An adoption in the event log was made, whatever failed in between. *)
THEOREM ReportedAdoptionsWereMade == Spec => []ReportedAdoptionWasMade
BY InitFlowInv, NextFlowInv, PTL DEF Spec, FlowInv

(* Dismissed and superseded rows had their threads resolved first. *)
THEOREM RetiredRowsHadThreadsResolved == Spec => []RetiredThreadsWereResolved
BY InitFlowInv, NextFlowInv, PTL DEF Spec, FlowInv
-----------------------------------------------------------------------------
(* The steps that write to the store, as steps of the lifecycle. *)
Adopted == {s \in Suggestions : log[s] \cap {"applied", "adopted_implicitly"} # {}}

LifecycleStep == [Lifecycle!Next]_(Lifecycle!vars)

LEMMA LogStep ==
    ASSUME TypeOK, NEW s \in Suggestions, NEW action, LogAction(s, action),
           action \in {"applied", "adopted_implicitly"} => row[s] = "applied"
    PROVE  LifecycleStep
<1>1. row' = row
  BY DEF LogAction
<1>2. CASE log' = log
  BY <1>1, <1>2 DEF LifecycleStep, Lifecycle!vars
<1>3. CASE log' = [log EXCEPT ![s] = @ \cup {action}]
  <2>1. CASE action \in {"applied", "adopted_implicitly"}
    <3>1. Adopted' = Adopted \cup {s}
      BY <1>3, <2>1 DEF Adopted, TypeOK
    <3>2. Lifecycle!Report(s)
      BY <1>1, <2>1, <3>1 DEF Lifecycle!Report, Adopted
    <3>3. QED
      BY <3>2 DEF LifecycleStep, Lifecycle!Next
  <2>2. CASE action \notin {"applied", "adopted_implicitly"}
    <3>1. Adopted' = Adopted
      BY <1>3, <2>2 DEF Adopted, TypeOK
    <3>2. QED
      BY <1>1, <3>1 DEF LifecycleStep, Lifecycle!vars, Adopted
  <2>3. QED
    BY <2>1, <2>2
<1>4. QED
  BY <1>2, <1>3 DEF LogAction

LEMMA RowStep ==
    ASSUME TypeOK, NEW s \in Suggestions, NEW to, log' = log,
           \/ row' = row
           \/ /\ row' = [row EXCEPT ![s] = to]
              /\ \/ row[s] = "absent" /\ to = "open"
                 \/ row[s] = "open" /\ to \in {"applied", "superseded"}
                 \/ row[s] \in {"open", "applied"} /\ to = "dismissed"
    PROVE  LifecycleStep
<1>1. CASE row' = row
  BY <1>1 DEF LifecycleStep, Lifecycle!vars
<1>2. CASE row' = [row EXCEPT ![s] = to]
  <2>1. row' = [u \in Suggestions |-> IF u \in {s} THEN to ELSE row[u]]
    BY <1>2 DEF TypeOK
  <2>2. \/ Lifecycle!Record(s)
        \/ Lifecycle!Adopt({s})
        \/ Lifecycle!Supersede(s)
        \/ Lifecycle!Dismiss(s)
        \/ row' = row
    BY <2>1, <1>2 DEF Lifecycle!Record, Lifecycle!Adopt, Lifecycle!Supersede, Lifecycle!Dismiss,
                Lifecycle!Move
  <2>3. {s} \in SUBSET Suggestions
    OBVIOUS
  <2>4. QED
    BY <1>1, <2>2, <2>3 DEF LifecycleStep, Lifecycle!Next
<1>3. QED
  BY <1>1, <1>2

LEMMA ApplyMarkStep == ASSUME TypeOK, ApplyMark PROVE LifecycleStep
<1> DEFINE updated == {s \in batch : row[s] = "open"}
<1>1. log' = log
  BY DEF ApplyMark
<1>2. CASE row' = row
  BY <1>1, <1>2 DEF LifecycleStep, Lifecycle!vars
<1>3. CASE row' = [s \in Suggestions |-> IF s \in updated THEN "applied" ELSE row[s]]
  <2>1. updated \in SUBSET Suggestions
    BY DEF TypeOK
  <2>2. Lifecycle!Adopt(updated)
    BY <1>1, <1>3 DEF Lifecycle!Adopt, Lifecycle!Move
  <2>3. QED
    BY <2>1, <2>2 DEF LifecycleStep, Lifecycle!Next
<1>4. QED
  BY <1>2, <1>3 DEF ApplyMark

LEMMA StoreStaysStep == ASSUME UNCHANGED store PROVE LifecycleStep
BY DEF store, LifecycleStep, Lifecycle!vars

LEMMA NextLifecycleStep == FlowInv /\ [Next]_vars => LifecycleStep
<1> SUFFICES ASSUME FlowInv, [Next]_vars PROVE LifecycleStep
  OBVIOUS
<1>0. TypeOK
  BY DEF FlowInv
<1>1. ASSUME NEW s \in Suggestions, Record(s) PROVE LifecycleStep
  <2>1. row[s] = "absent" /\ log' = log
    BY <1>1 DEF Record, FlowInv, HandlerKnows
  <2>2. row' = row \/ row' = [row EXCEPT ![s] = "open"]
    BY <1>1 DEF Record
  <2>3. QED
    BY <1>0, <2>1, <2>2, RowStep
<1>2. ASSUME NEW s \in Suggestions, AdoptMark(s) \/ DismissMark(s) \/ Retire(s)
      PROVE  LifecycleStep
  <2>1. log' = log
    BY <1>2 DEF AdoptMark, DismissMark, Retire, UpdateState
  <2>2. CASE AdoptMark(s)
    BY <1>0, <2>1, <2>2, RowStep DEF AdoptMark, UpdateState
  <2>3. CASE DismissMark(s)
    BY <1>0, <2>1, <2>3, RowStep DEF DismissMark, UpdateState
  <2>4. CASE Retire(s)
    BY <1>0, <2>1, <2>4, RowStep DEF Retire, UpdateState
  <2>5. QED
    BY <1>2, <2>2, <2>3, <2>4
<1>3. ASSUME NEW s \in Suggestions,
             AdoptLog(s) \/ DismissLog(s) \/ ApplyLog(s) \/ RetireLog(s)
      PROVE  LifecycleStep
  <2>1. CASE AdoptLog(s) \/ ApplyLog(s)
    <3>1. row[s] = "applied"
      BY <2>1 DEF AdoptLog, ApplyLog, FlowInv, HandlerKnows
    <3>2. QED
      BY <1>0, <2>1, <3>1, LogStep DEF AdoptLog, ApplyLog
  <2>2. CASE DismissLog(s)
    BY <1>0, <2>2, LogStep DEF DismissLog
  <2>3. CASE RetireLog(s)
    BY <1>0, <2>3, LogStep DEF RetireLog
  <2>4. QED
    BY <1>3, <2>1, <2>2, <2>3
<1>4. CASE ApplyMark
  BY <1>0, <1>4, ApplyMarkStep
<1>5. ASSUME NEW s \in Suggestions,
             \/ Publish(s) \/ AdoptStart(s) \/ AdoptResolve(s) \/ DismissStart(s)
             \/ DismissResolve(s) \/ Sweep(s) \/ SkipRetire(s) \/ UserTogglesThread(s)
      PROVE  UNCHANGED store
  BY <1>5 DEF Publish, AdoptStart, AdoptResolve, DismissStart, DismissResolve, Sweep,
              SkipRetire, UserTogglesThread
<1>6. ASSUME \/ \E S \in SUBSET Suggestions : UserApplies(S) \/ PostStart(S)
             \/ \E hook \in hooks : ApplyStart(hook)
             \/ \E p \in Patches, version \in Versions : UserPushes(p, version)
             \/ SweepStart \/ Crash \/ UNCHANGED vars
      PROVE  UNCHANGED store
  BY <1>6 DEF UserApplies, PostStart, ApplyStart, UserPushes, SweepStart, Crash, vars
<1>7. QED
  BY <1>1, <1>2, <1>3, <1>4, <1>5, <1>6, StoreStaysStep DEF Next, Handler

(* The store, the event log, the hooks, the commands and the crashes together
   implement the lifecycle: nothing leaves "dismissed" or "superseded", what
   was applied is never superseded, and no adoption is reported before it was
   made. *)
THEOREM FlowImplementsLifecycle == Spec => ImplementsLifecycle
<1>1. Init => Lifecycle!Init
  BY DEF Init, Lifecycle!Init
<1>2. QED
  BY <1>1, InitFlowInv, NextFlowInv, NextLifecycleStep, PTL
     DEF Spec, ImplementsLifecycle, Lifecycle!Spec, LifecycleStep
=============================================================================
