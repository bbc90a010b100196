----------------------- MODULE OverlayControls_proofs -----------------------
(***************************************************************************)
(* Proofs about the dialogs' controls: the page shows the type it names,   *)
(* and one overlay map at a time is drawn, for any number of data types.   *)
(***************************************************************************)
EXTENDS OverlayControls, FiniteSetTheorems, TLAPS

\* OneOverlay without counting: what is drawn are not two types.
OneDrawn == ~reenabled => \A i, j \in Drawn : i = j

IInv == PageShowsSelected /\ OneDrawn

LEMMA DrawnTypes == Drawn \subseteq Types
  BY DEF Drawn

\* Not two drawn types is at most one.
LEMMA OneDrawnCounts == OneDrawn => OneOverlay
<1> SUFFICES ASSUME OneDrawn, ~reenabled
             PROVE  Cardinality(Drawn) <= 1
  BY DEF OneOverlay
<1>1. CASE Drawn = {}
  BY <1>1, FS_EmptySet
<1>2. CASE Drawn # {}
  <2>1. PICK i \in Drawn : TRUE
    BY <1>2
  <2>2. Drawn = {i}
    BY <2>1 DEF OneDrawn
  <2>3. Cardinality(Drawn) = 1
    BY <2>2, FS_Singleton
  <2> QED
    BY <2>3
<1> QED
  BY <1>1, <1>2

\* No box is ticked when the dialogs are made.
LEMMA InitIInv == Init => IInv
  BY WindAssumption DEF Init, IInv, PageShowsSelected, OneDrawn, Drawn

\* A step that ticks nothing, and changes nothing of what is drawn where a
\* box stays ticked, draws no more than before.
LEMMA FewerDrawn ==
  ASSUME OneDrawn, reenabled' = reenabled, Drawn' \subseteq Drawn
  PROVE  OneDrawn'
  BY DEF OneDrawn

\* A step after which one type is all that can be drawn.
LEMMA OnlyOneLeft ==
  ASSUME NEW i, Drawn' \subseteq {i}
  PROVE  OneDrawn'
  BY DEF OneDrawn

\* OnUpdateDisplay, ticked: of a type with an overlay map the rivals go.
LEMMA TickKeeps ==
  ASSUME IInv, NEW i \in Types, Tick(i)
  PROVE  IInv'
<1> USE DEF IInv, PageShowsSelected, Tick, Choose, Untick
<1>1. PageShowsSelected'
  OBVIOUS
<1>2. CASE Settings[i].overlay
  <2>1. Drawn' \subseteq {i}
    BY <1>2 DEF Drawn, Rivals
  <2> QED
    BY <1>1, <2>1, OnlyOneLeft
<1>3. CASE ~Settings[i].overlay
  <2>1. Drawn' \subseteq Drawn
    BY <1>3 DEF Drawn
  <2> QED
    BY <1>1, <2>1, FewerDrawn
<1> QED
  BY <1>2, <1>3

LEMMA UntickBoxKeeps ==
  ASSUME IInv, NEW i \in Types, UntickBox(i)
  PROVE  IInv'
<1> USE DEF IInv, PageShowsSelected, UntickBox
<1>1. PageShowsSelected'
  OBVIOUS
<1>2. Drawn' \subseteq Drawn
  BY DEF Drawn
<1> QED
  BY <1>1, <1>2, FewerDrawn

LEMMA ChoiceKeeps ==
  ASSUME IInv, NEW i \in Types, OnDataTypeChoice(i)
  PROVE  IInv'
<1> USE DEF IInv, PageShowsSelected, OnDataTypeChoice, Choose
<1>1. PageShowsSelected'
  OBVIOUS
<1>2. Drawn' \subseteq Drawn
  BY DEF Drawn
<1> QED
  BY <1>1, <1>2, FewerDrawn

LEMMA CyclonesKeep ==
  ASSUME IInv, ClickCyclones
  PROVE  IInv'
<1> USE DEF IInv, PageShowsSelected, ClickCyclones, Untick
<1>1. PageShowsSelected'
  OBVIOUS
<1>2. Drawn' \subseteq Drawn
  BY DEF Drawn
<1> QED
  BY <1>1, <1>2, FewerDrawn

\* OnUpdateOverlayConfig: a map that can be drawn at once drives the others
\* out; one of a hidden or unticked type is not drawn.
LEMMA OverlayMapKeeps ==
  ASSUME IInv, ClickOverlayMap
  PROVE  IInv'
<1> DEFINE i == m_cDataType
<1> USE DEF IInv, PageShowsSelected, ClickOverlayMap, Store, Untick
<1>1. PageShowsSelected'
  OBVIOUS
<1>2. /\ Settings'[i] = [controls EXCEPT !.overlay = ~controls.overlay]
      /\ \A j \in Types \ {i} : Settings'[j] = Settings[j]
      /\ \A j \in Types : ticked'[j] => ticked[j]
      /\ controls = Settings[i]
  OBVIOUS
<1>3. CASE ~controls.overlay /\ controls.enabled /\ ticked[i]
  <2>1. \A j \in Rivals(i) : ~ticked'[j]
    BY <1>3 DEF Rivals
  <2>2. Drawn' \subseteq {i}
    BY <1>2, <2>1 DEF Drawn, Rivals
  <2> QED
    BY <1>1, <2>2, OnlyOneLeft
<1>4. CASE ~(~controls.overlay /\ controls.enabled /\ ticked[i])
  <2>1. i \notin Drawn'
    BY <1>2, <1>4 DEF Drawn
  <2>2. Drawn' \subseteq Drawn
    BY <1>2, <2>1 DEF Drawn
  <2> QED
    BY <1>1, <2>2, FewerDrawn
<1> QED
  BY <1>3, <1>4

\* OnEnabled: a map that comes back sets the history variable.
LEMMA EnabledKeeps ==
  ASSUME IInv, ClickEnabled
  PROVE  IInv'
<1> DEFINE i == m_cDataType
<1> USE DEF IInv, PageShowsSelected, ClickEnabled, Store
<1>1. PageShowsSelected'
  OBVIOUS
<1>2. /\ Settings'[i] = [controls EXCEPT !.enabled = ~controls.enabled]
      /\ \A j \in Types \ {i} : Settings'[j] = Settings[j]
  OBVIOUS
<1>3. CASE reenabled'
  BY <1>1, <1>3 DEF OneDrawn
<1>4. CASE ~reenabled'
  <2>1. i \notin Drawn'
    BY <1>2, <1>4 DEF Drawn
  <2>2. Drawn' \subseteq Drawn
    BY <1>2, <2>1 DEF Drawn
  <2>3. ~reenabled /\ reenabled' = reenabled
    BY <1>4
  <2> QED
    BY <1>1, <2>2, <2>3, FewerDrawn
<1> QED
  BY <1>3, <1>4

LEMMA NextIInv == IInv /\ [Next]_vars => IInv'
<1> SUFFICES ASSUME IInv, [Next]_vars
             PROVE  IInv'
  OBVIOUS
<1>1. CASE Next
  BY <1>1, TickKeeps, UntickBoxKeeps, ChoiceKeeps, CyclonesKeep, OverlayMapKeeps,
     EnabledKeeps DEF Next
<1>2. CASE UNCHANGED vars
  BY <1>2 DEF vars, IInv, PageShowsSelected, OneDrawn, Drawn
<1> QED
  BY <1>1, <1>2

THEOREM Inductive == Spec => []IInv
  BY InitIInv, NextIInv, PTL DEF Spec

\* The controls of the configuration dialog's page show the settings of the
\* type selected on it, after every sequence of clicks in the two dialogs.
THEOREM PageCorrect == Spec => []PageShowsSelected
<1>1. IInv => PageShowsSelected
  BY DEF IInv
<1> QED
  BY <1>1, Inductive, PTL

\* At most one overlay map is drawn, for any number of data types, as long as
\* none came back through OnEnabled.
THEOREM OneOverlayMap == Spec => []OneOverlay
<1>1. IInv => OneOverlay
  BY OneDrawnCounts DEF IInv
<1> QED
  BY <1>1, Inductive, PTL
=============================================================================
