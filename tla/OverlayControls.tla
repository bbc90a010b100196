--------------------------- MODULE OverlayControls ---------------------------
(***************************************************************************)
(* The check boxes of the main dialog (which data are displayed), the data *)
(* page of the configuration dialog (how the selected data are drawn) and  *)
(* the settings RenderOverlay reads.  The page has one set of controls for *)
(* all data types: they hold the settings of the selected one, and every   *)
(* change writes all of them back.  Of the ways to draw, the overlay map   *)
(* covers the chart, so the handlers try to keep one at a time.            *)
(*                                                                         *)
(* Of a data type's settings the two that decide what is drawn are kept.   *)
(* All handlers run on the main thread, one at a time.                     *)
(***************************************************************************)
EXTENDS FiniteSets, Naturals

CONSTANTS
    Types,  \* the data types (ClimatologyOverlaySettings::SettingsType)
    WIND    \* the one with index 0

ASSUME WindAssumption == IsFiniteSet(Types) /\ WIND \in Types

VARIABLES
    Settings,    \* m_Settings.Settings
    controls,    \* m_cbEnabled and m_cbOverlayMap
    m_cDataType, \* its selection
    ticked,      \* the check boxes of the main dialog
    cyclones,    \* m_cbCyclones
    reenabled    \* history: an overlay map came back through m_cbEnabled

vars == <<Settings, controls, m_cDataType, ticked, cyclones, reenabled>>

\* What RenderOverlay draws as an overlay map.
Drawn == {i \in Types : ticked[i] /\ Settings[i].enabled /\ Settings[i].overlay}

\* SettingEnabled(i) and m_bOverlayMap, for every type but one: what the
\* handlers untick (a type whose check box is hidden included).
Rivals(i) == {j \in Types \ {i} : ticked[j] /\ Settings[j].overlay}
Untick(types) == [i \in Types |-> ticked[i] /\ i \notin types]

\* SetDataTypeSettings: the whole page is written back.
Store(page) ==
    /\ controls' = page
    /\ Settings' = [Settings EXCEPT ![m_cDataType] = page]

\* OnDataTypeChoice: the page shows the settings of type i.
Choose(i) ==
    /\ m_cDataType' = i
    /\ controls' = Settings[i]

-----------------------------------------------------------------------------
Tick_KeepPage(i) ==
    /\ Settings[i].enabled
    /\ ~ticked[i]
    /\ m_cDataType' = i
    /\ ticked' = [Untick(IF Settings[i].overlay THEN Rivals(i) ELSE {}) EXCEPT ![i] = TRUE]
    /\ UNCHANGED <<Settings, controls, cyclones, reenabled>>

\* OnUpdateDisplay: the box of a visible type is ticked; the page follows.
Tick(i) ==
    /\ Settings[i].enabled
    /\ ~ticked[i]
    /\ Choose(i)
    /\ ticked' = [Untick(IF Settings[i].overlay THEN Rivals(i) ELSE {}) EXCEPT ![i] = TRUE]
    /\ UNCHANGED <<Settings, cyclones, reenabled>>

UntickBox(i) ==
    /\ Settings[i].enabled
    /\ ticked[i]
    /\ ticked' = [ticked EXCEPT ![i] = FALSE]
    /\ UNCHANGED <<Settings, controls, m_cDataType, cyclones, reenabled>>

\* The cyclones box has the same handler and is no data type: cursetting
\* stays 0, and ticking it unticks the rivals of the wind.
ClickCyclones ==
    /\ cyclones' = ~cyclones
    /\ ticked' = Untick(IF cyclones' /\ Settings[WIND].overlay THEN Rivals(WIND) ELSE {})
    /\ UNCHANGED <<Settings, controls, m_cDataType, reenabled>>

\* The user selects another type on the page.
OnDataTypeChoice(i) ==
    /\ Choose(i)
    /\ UNCHANGED <<Settings, ticked, cyclones, reenabled>>

ClickOverlayMap_NoRivals ==
    /\ Store([controls EXCEPT !.overlay = ~@])
    /\ UNCHANGED <<ticked, m_cDataType, cyclones, reenabled>>

\* OnUpdateOverlayConfig.
ClickOverlayMap ==
    LET i == m_cDataType IN
    /\ Store([controls EXCEPT !.overlay = ~@])
    /\ ticked' = Untick(IF controls'.overlay /\ controls.enabled /\ ticked[i]
                        THEN Rivals(i) ELSE {})
    /\ UNCHANGED <<m_cDataType, cyclones, reenabled>>

\* OnEnabled: the box of the main dialog is shown or hidden, and keeps its tick.
ClickEnabled ==
    /\ Store([controls EXCEPT !.enabled = ~@])
    /\ reenabled' = (reenabled \/ (controls'.enabled /\ controls.overlay /\ ticked[m_cDataType]))
    /\ UNCHANGED <<m_cDataType, ticked, cyclones>>

-----------------------------------------------------------------------------
\* The settings come from the configuration file; no box is ticked yet.
Init ==
    /\ Settings \in [Types -> [enabled : BOOLEAN, overlay : BOOLEAN]]
    /\ m_cDataType \in Types
    /\ controls = Settings[m_cDataType]
    /\ ticked = [i \in Types |-> FALSE]
    /\ cyclones = FALSE
    /\ reenabled = FALSE

Next ==
    \/ \E i \in Types : Tick(i) \/ UntickBox(i) \/ OnDataTypeChoice(i)
    \/ ClickCyclones
    \/ ClickOverlayMap
    \/ ClickEnabled

Spec == Init /\ [][Next]_vars

-----------------------------------------------------------------------------
\* Type correctness, and the page's promise: its controls show the settings
\* of the type it names, so that a click on one of them changes nothing else
\* of this type and nothing of another.
PageShowsSelected ==
    /\ Settings \in [Types -> [enabled : BOOLEAN, overlay : BOOLEAN]]
    /\ m_cDataType \in Types
    /\ controls = Settings[m_cDataType]
    /\ ticked \in [Types -> BOOLEAN]
    /\ {cyclones, reenabled} \subseteq BOOLEAN

\* "must disable all others to have only 1 overlay at a time": at most one
\* overlay map is drawn, however the two dialogs are used together, as long
\* as no overlay map comes back through "Enabled", which unticks nothing.
OneOverlay == ~reenabled => Cardinality(Drawn) <= 1
=============================================================================
