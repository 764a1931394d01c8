-------------------------- MODULE RowActions_proofs --------------------------
(***************************************************************************)
(* What holds of dismissing, marking read and ignoring for any rows and    *)
(* groups, however long the user goes on.                                  *)
(***************************************************************************)
EXTENDS RowActions, TLAPS

(* Clicks are told apart by their numbers: no entry but that of its own    *)
(* row carries the number of a timer that runs.                            *)
ClicksApart ==
  /\ undone \subseteq 1..clicks
  /\ \A k \in Keys : pending[k] <= clicks
  /\ \A t \in timers : t.click <= clicks
  /\ \A t \in timers, k \in Keys : pending[k] = t.click => k = t.key

(* A thread whose call succeeded and that has not left the screen since is *)
(* kept hidden by the committed keys alone, whatever becomes of its entry. *)
HiddenForGood ==
  /\ Keys \ items \subseteq left
  /\ (acked \cap items) \ left \subseteq committed

DInv == TypeOK /\ ClicksApart /\ HiddenForGood /\ GraceHonoured

RInv == RowTypeOK /\ MarkingIsHonest /\ DialogIsOfRow

DismissStep ==
  \/ User
  \/ \E ch \in Channels : Read(ch) \/ Show(ch)
  \/ \E t \in timers : Fire(t)
  \/ \E c \in calls : Callback(c)

(* Dismissing keeps what it relies on.                                     *)
LEMMA DismissKeeps ==
  ASSUME DInv, DismissStep
  PROVE  DInv'
<1> USE DismissAssumption DEF DInv, TypeOK, Timer, Call
<1>1. ASSUME NEW k \in Keys, Dismiss(k)
      PROVE  DInv'
  <2> USE <1>1 DEF Dismiss
  <2>1. clicks' = clicks + 1 /\ clicks' \in 1..MaxClicks
    OBVIOUS
  <2>2. TypeOK'
    BY <2>1
  <2>3. ClicksApart'
    <3>1. \A j \in Keys : pending'[j] = IF j = k THEN clicks' ELSE pending[j]
      OBVIOUS
    <3>2. \A t \in timers' : t \in timers \/ (t.key = k /\ t.click = clicks')
      OBVIOUS
    <3>3. undone' \subseteq 1..clicks'
      BY <2>1 DEF ClicksApart
    <3>4. \A j \in Keys : pending'[j] <= clicks'
      BY <2>1, <3>1 DEF ClicksApart
    <3>5. \A t \in timers' : t.click <= clicks'
      BY <2>1, <3>2 DEF ClicksApart
    <3>6. \A t \in timers', j \in Keys : pending'[j] = t.click => j = t.key
      BY <2>1, <3>1, <3>2 DEF ClicksApart
    <3> QED
      BY <3>3, <3>4, <3>5, <3>6 DEF ClicksApart
  <2>4. GraceHonoured'
    BY <2>1 DEF GraceHonoured, ClicksApart
  <2>5. HiddenForGood'
    BY DEF HiddenForGood
  <2> QED
    BY <2>2, <2>3, <2>4, <2>5
<1>2. ASSUME NEW ks \in SUBSET Keys, Undo(ks)
      PROVE  DInv'
  <2> DEFINE chosen == {k \in ks : pending[k] # 0}
  <2>1. /\ timers' = {t \in timers : ~(t.key \in chosen /\ pending[t.key] = t.click)}
        /\ pending' = [k \in Keys |-> IF k \in chosen THEN 0 ELSE pending[k]]
        /\ undone' = undone \cup {pending[k] : k \in chosen}
        /\ UNCHANGED <<calls, committed, items, dismissed, arriving, clicks, acked, left>>
    BY <1>2 DEF Undo
  <2>2. \A k \in chosen : pending[k] \in 1..clicks
    BY DEF ClicksApart
  <2>3. TypeOK'
    <3>1. pending' \in [Keys -> 0..MaxClicks] /\ timers' \subseteq Timer
      BY <2>1
    <3>2. undone' \subseteq 1..MaxClicks
      <4>1. \A k \in chosen : pending[k] \in 1..MaxClicks
        BY <2>2
      <4>2. undone \subseteq 1..MaxClicks
        OBVIOUS
      <4> HIDE DEF chosen
      <4> QED
        BY <2>1, <4>1, <4>2
    <3> QED
      BY <2>1, <3>1, <3>2
  <2>4. ClicksApart'
    <3>1. \A j \in Keys : pending'[j] = IF j \in chosen THEN 0 ELSE pending[j]
      BY <2>1
    <3>2. \A t \in timers' : t \in timers /\ t.click # 0
      BY <2>1
    <3>3. undone' \subseteq 1..clicks'
      BY <2>1, <2>2 DEF ClicksApart
    <3>4. \A j \in Keys : pending'[j] <= clicks'
      BY <2>1, <3>1 DEF ClicksApart
    <3>5. \A t \in timers' : t.click <= clicks'
      BY <2>1, <3>2 DEF ClicksApart
    <3>6. \A t \in timers', j \in Keys : pending'[j] = t.click => j = t.key
      BY <3>1, <3>2 DEF ClicksApart
    <3> QED
      BY <3>3, <3>4, <3>5, <3>6 DEF ClicksApart
  <2>5. GraceHonoured'
    <3> SUFFICES ASSUME NEW t \in timers', t.click \in undone' PROVE FALSE
      BY DEF GraceHonoured
    <3>1. t \in timers /\ ~(t.key \in chosen /\ pending[t.key] = t.click)
      BY <2>1
    <3>2. t.click \notin undone
      BY <3>1 DEF GraceHonoured
    <3>3. PICK k \in chosen : pending[k] = t.click
      BY <2>1, <3>2
    <3>4. k = t.key
      BY <3>1, <3>3 DEF ClicksApart
    <3> QED
      BY <3>1, <3>3, <3>4
  <2>6. HiddenForGood'
    BY <2>1 DEF HiddenForGood
  <2> QED
    BY <2>3, <2>4, <2>5, <2>6
<1>3. ASSUME NEW t \in timers, Fire(t)
      PROVE  DInv'
  <2>1. TypeOK'
    BY <1>3 DEF Fire
  <2>2. ClicksApart' /\ GraceHonoured' /\ HiddenForGood'
    BY <1>3 DEF Fire, ClicksApart, GraceHonoured, HiddenForGood
  <2> QED
    BY <2>1, <2>2
<1>4. ASSUME NEW c \in calls, Callback(c)
      PROVE  DInv'
  <2>1. c.key \in Keys
    OBVIOUS
  <2>2. CASE Answer(c)
    <3>1. TypeOK'
      BY <2>1, <2>2 DEF Answer, Advance
    <3> QED
      BY <2>2, <3>1 DEF Answer, ClicksApart, GraceHonoured, HiddenForGood
  <2>3. CASE Commit(c)
    <3>1. TypeOK'
      BY <2>1, <2>3 DEF Commit, Acked, Pruned, Advance
    <3> QED
      BY <2>3, <3>1 DEF Commit, Acked, Pruned, ClicksApart, GraceHonoured, HiddenForGood
  <2>4. CASE Fail(c)
    <3>1. TypeOK'
      BY <2>1, <2>4 DEF Fail
    <3>2. ClicksApart'
      BY <2>1, <2>4 DEF Fail, ClicksApart
    <3> QED
      BY <2>4, <3>1, <3>2 DEF Fail, GraceHonoured, HiddenForGood
  <2>5. CASE Finish(c)
    <3>1. TypeOK'
      BY <2>1, <2>5 DEF Finish
    <3>2. ClicksApart'
      BY <2>1, <2>5 DEF Finish, ClicksApart
    <3> QED
      BY <2>5, <3>1, <3>2 DEF Finish, GraceHonoured, HiddenForGood
  <2> QED
    BY <1>4, <2>2, <2>3, <2>4, <2>5 DEF Callback
<1>5. ASSUME NEW ch \in Channels, Read(ch)
      PROVE  DInv'
  <2>1. arriving' \in [Channels -> Seq(SUBSET Keys)]
    <3>1. Append(arriving[ch], Keys \ dismissed) \in Seq(SUBSET Keys)
      OBVIOUS
    <3> QED
      BY <1>5, <3>1 DEF Read
  <2> QED
    BY <1>5, <2>1 DEF Read, ClicksApart, GraceHonoured, HiddenForGood
<1>6. ASSUME NEW ch \in Channels, Show(ch)
      PROVE  DInv'
  <2>1. arriving[ch] \in Seq(SUBSET Keys) /\ arriving[ch] # <<>>
    BY <1>6 DEF Show
  <2>2. Head(arriving[ch]) \subseteq Keys /\ Tail(arriving[ch]) \in Seq(SUBSET Keys)
    BY <2>1
  <2>3. TypeOK'
    BY <1>6, <2>2 DEF Show, Pruned
  <2>4. HiddenForGood'
    BY <1>6 DEF Show, Pruned, HiddenForGood
  <2> QED
    BY <1>6, <2>3, <2>4 DEF Show, ClicksApart, GraceHonoured
<1> QED
  BY <1>1, <1>2, <1>3, <1>4, <1>5, <1>6 DEF DismissStep, User

LEMMA DismissStutters ==
  ASSUME DInv, UNCHANGED vars
  PROVE  DInv'
BY DEF DInv, TypeOK, ClicksApart, HiddenForGood, GraceHonoured, vars

-----------------------------------------------------------------------------
(* Each step of the rows is a step of dismissing or leaves it alone.       *)
LEMMA RowStepIsDismissStep == RowNext => DismissStep \/ UNCHANGED vars
BY DEF RowNext, RowUser, Answers, Replace, DismissStep, OpenTarget, RequestRule, MarkGroupRead,
   CloseMenu, OpenDialog, CloseDialog, Opened, Cancelled, Settled, Snippets

(* The number of things done stays in its bound.                           *)
LEMMA ActTypes ==
  ASSUME actions \in 0..MaxActions, Act
  PROVE  actions' \in 0..MaxActions
BY RowAssumption DEF Act

(* Marking keeps a group's name exactly while a call of it is unanswered.  *)
LEMMA MarkKeeps ==
  ASSUME RInv, TypeOK',
         \/ \E k \in Keys : OpenTarget(k) \/ Opened(k)
         \/ \E g \in Groups : MarkGroupRead(g)
         \/ \E g \in Groups, k \in Keys : Settled(g, k)
  PROVE  RInv'
<1> USE DEF RInv, RowTypeOK, ruleVars, vars
<1>1. DialogIsOfRow'
  BY DEF DialogIsOfRow, OpenTarget, Opened, MarkGroupRead, Settled
<1>2. ASSUME NEW k \in Keys, OpenTarget(k)
      PROVE  RowTypeOK' /\ MarkingIsHonest'
  BY <1>2, ActTypes DEF OpenTarget, MarkingIsHonest, Visible
<1>3. ASSUME NEW k \in Keys, Opened(k)
      PROVE  RowTypeOK' /\ MarkingIsHonest'
  BY <1>3 DEF Opened, MarkingIsHonest
<1>4. ASSUME NEW g \in Groups, MarkGroupRead(g)
      PROVE  RowTypeOK' /\ MarkingIsHonest'
  <2> DEFINE rows == {k \in Visible \ marked : GroupOf[k] = g}
  <2>1. /\ rows # {} /\ rows \subseteq Keys
        /\ marking' = marking \cup {g} /\ batch' = [batch EXCEPT ![g] = rows]
        /\ actions' \in 0..MaxActions
        /\ UNCHANGED <<vars, unread, marked, opened, ruleVars>>
    BY <1>4, ActTypes DEF MarkGroupRead, Visible, TypeOK
  <2>2. RowTypeOK'
    BY <2>1
  <2>3. MarkingIsHonest'
    BY <2>1 DEF MarkingIsHonest
  <2> QED
    BY <2>2, <2>3
<1>5. ASSUME NEW g \in Groups, NEW k \in Keys, Settled(g, k)
      PROVE  RowTypeOK' /\ MarkingIsHonest'
  <2>1. RowTypeOK'
    BY <1>5 DEF Settled
  <2>2. MarkingIsHonest'
    BY <1>5 DEF Settled, MarkingIsHonest
  <2> QED
    BY <2>1, <2>2
<1> QED
  BY <1>1, <1>2, <1>3, <1>4, <1>5

(* The dialog keeps to its row.                                            *)
LEMMA DialogKeeps ==
  ASSUME RInv, TypeOK',
         \/ \E k \in Keys : RequestRule(k) \/ Cancelled(k)
         \/ CloseMenu \/ OpenDialog \/ CloseDialog \/ Snippets
  PROVE  RInv'
<1> USE RowAssumption DEF RInv, RowTypeOK, readVars, vars, Fetch, Loading
<1>1. MarkingIsHonest'
  BY DEF MarkingIsHonest, RequestRule, Cancelled, CloseMenu, OpenDialog, CloseDialog, Snippets
<1>2. ASSUME NEW k \in Keys, RequestRule(k)
      PROVE  RowTypeOK' /\ DialogIsOfRow'
  BY <1>2, ActTypes DEF RequestRule, DialogIsOfRow
<1>3. ASSUME NEW k \in Keys, Cancelled(k)
      PROVE  RowTypeOK' /\ DialogIsOfRow'
  BY <1>3 DEF Cancelled, DialogIsOfRow
<1>4. CASE CloseMenu
  BY <1>1, <1>4 DEF CloseMenu, DialogIsOfRow
<1>5. CASE OpenDialog
  BY <1>1, <1>5 DEF OpenDialog, DialogIsOfRow
<1>6. CASE CloseDialog
  BY <1>1, <1>6 DEF CloseDialog, DialogIsOfRow
<1>7. CASE Snippets
  BY <1>1, <1>7 DEF Snippets, DialogIsOfRow
<1> QED
  BY <1>1, <1>2, <1>3, <1>4, <1>5, <1>6, <1>7

(* A snapshot restarts the fetch of an open dialog.                        *)
LEMMA ReplaceKeeps ==
  ASSUME RInv, TypeOK', NEW ch \in Channels, Replace(ch)
  PROVE  RInv'
BY RowAssumption DEF RInv, RowTypeOK, MarkingIsHonest, DialogIsOfRow, Replace, Fetch, Loading, readVars

(* Dismissing, its timers and its calls touch none of this.                *)
LEMMA OthersKeep ==
  ASSUME RInv, TypeOK', items' = items, UNCHANGED <<readVars, marked, ruleVars>>,
         actions' \in 0..MaxActions
  PROVE  RInv'
BY DEF RInv, RowTypeOK, MarkingIsHonest, DialogIsOfRow, readVars, ruleVars

LEMMA RowKeeps ==
  ASSUME RInv, TypeOK', [RowNext]_<<vars, rowVars>>
  PROVE  RInv'
<1>1. CASE User /\ Act /\ UNCHANGED <<readVars, marked, ruleVars>>
  <2>1. items' = items
    BY <1>1 DEF User, Dismiss, Undo
  <2>2. actions' \in 0..MaxActions
    BY <1>1, ActTypes DEF RInv, RowTypeOK
  <2> QED
    BY <1>1, <2>1, <2>2, OthersKeep
<1>2. CASE /\ \/ \E t \in timers : Fire(t)
              \/ \E c \in calls : Callback(c)
              \/ \E ch \in Channels : Read(ch)
           /\ UNCHANGED rowVars
  <2>1. items' = items
    BY <1>2 DEF Fire, Callback, Answer, Commit, Fail, Finish, Read
  <2> QED
    BY <1>2, <2>1, OthersKeep DEF rowVars, RInv, RowTypeOK
<1>3. CASE UNCHANGED <<vars, rowVars>>
  BY <1>3, OthersKeep DEF vars, rowVars, RInv, RowTypeOK
<1> QED
  BY <1>1, <1>2, <1>3, MarkKeeps, DialogKeeps, ReplaceKeeps DEF RowNext, RowUser, Answers

LEMMA InitOK == RowInit => DInv /\ RInv
<1> SUFFICES ASSUME RowInit PROVE DInv /\ RInv
  OBVIOUS
<1>1. DInv
  BY DismissAssumption DEF RowInit, Init, DInv, TypeOK, ClicksApart, HiddenForGood, GraceHonoured
<1>2. RInv
  BY <1>1, RowAssumption DEF RowInit, RInv, RowTypeOK, DInv, MarkingIsHonest, DialogIsOfRow, Init
<1> QED
  BY <1>1, <1>2

(* Clicks, timers and hidden rows stay apart; marks and the dialog belong  *)
(* to calls and rows that are there.                                       *)
THEOREM Invariance == RowSpec => [](DInv /\ RInv)
<1>1. DInv /\ RInv /\ [RowNext]_<<vars, rowVars>> => (DInv /\ RInv)'
  <2> SUFFICES ASSUME DInv, RInv, [RowNext]_<<vars, rowVars>> PROVE DInv' /\ RInv'
    OBVIOUS
  <2>1. DInv'
    BY RowStepIsDismissStep, DismissKeeps, DismissStutters
  <2> QED
    BY <2>1, RowKeeps DEF DInv
<1> QED
  BY InitOK, <1>1, PTL DEF RowSpec

-----------------------------------------------------------------------------
(* Every variable keeps its type.                                          *)
THEOREM TypeCorrect == RowSpec => []RowTypeOK
<1>1. DInv /\ RInv => RowTypeOK
  BY DEF RInv
<1> QED
  BY Invariance, <1>1, PTL

(* The timer of a click that was undone never fires, for any number of     *)
(* rows, clicks and repeated dismissals of one row.                        *)
THEOREM UndoneNeverFires == RowSpec => []GraceHonoured
<1>1. DInv /\ RInv => GraceHonoured
  BY DEF DInv
<1> QED
  BY Invariance, <1>1, PTL

(* A thread whose dismissal succeeded stays out of sight until a snapshot  *)
(* without it has been shown, for any order in which snapshots are read    *)
(* and shown, undo and repeated dismissals included.                       *)
THEOREM HiddenUntilGone == RowSpec => []HandledStaysHidden
<1>1. DInv /\ RInv => HandledStaysHidden
  BY DEF DInv, HiddenForGood, HandledStaysHidden, Hidden, TypeOK
<1> QED
  BY Invariance, <1>1, PTL

(* "Marking..." is shown for a group exactly while a call of its batch is  *)
(* unanswered, for any groups.                                             *)
THEOREM HonestMarking == RowSpec => []MarkingIsHonest
<1>1. DInv /\ RInv => MarkingIsHonest
  BY DEF RInv
<1> QED
  BY Invariance, <1>1, PTL

(* The dialog offers rules of the row it names and always has an answer,   *)
(* an error or a fetch under way.                                          *)
THEOREM DialogKeepsToRow == RowSpec => []DialogIsOfRow
<1>1. DInv /\ RInv => DialogIsOfRow
  BY DEF RInv
<1> QED
  BY Invariance, <1>1, PTL
=============================================================================
