------------------------------ MODULE IsoBars ------------------------------
(***************************************************************************)
(* Isobar maps: RenderOverlay, RenderIsoBars and IsoBarMap::Recompute.     *)
(* Drawing the chart computes a missing map on the spot, row by row, and   *)
(* shows a progress dialog whose updates run other handlers: the           *)
(* configuration dialog may change what the map is computed from, and the  *)
(* chart may be drawn again, which starts at the top of all this while the *)
(* first drawing is still in it.  So drawings form a stack.  The main      *)
(* dialog, with the timeline, is the progress dialog's parent and disabled *)
(* meanwhile, so the month stays.                                          *)
(***************************************************************************)
EXTENDS Integers, Sequences, FiniteSets

CONSTANTS
    Count,    \* SETTINGS_COUNT: data types that have isobars
    Months,   \* of the timeline, and all of them together
    January,  \* month 0
    SeaDepth, \* SEADEPTH: the setting that is the same all year
    Options,  \* what spacing, step and units can be
    Rows,     \* latitudes of a map
    Maps,     \* addresses of ClimatologyIsoBarMap objects
    NoMap,    \* NULL
    MaxDepth  \* bound: drawings within drawings

Settings == 1..Count

\* A ClimatologyIsoBarMap, and what has been drawn.
Object == [month : Months, option : Options, rows : 0..Rows, computing : BOOLEAN,
           needs : BOOLEAN]
Drawings == [setting : Settings, map : Maps]

ASSUME IsoBarsAssumption ==
    /\ Count \in Nat \ {0} /\ Rows \in Nat \ {0} /\ MaxDepth \in Nat
    /\ January \in Months /\ SeaDepth \in Settings
    /\ NoMap \notin Maps /\ NoMap \notin Object /\ NoMap \notin Drawings

VARIABLES
    isobars,  \* m_bEnabled and m_bIsoBars, per setting
    options,  \* m_iIsoBarSpacing, m_iIsoBarStep, m_Units, per setting
    month,    \* m_CurrentTimeline and m_bAllTimes
    slot,     \* m_pIsobars[month], per setting
    map,      \* the object at an address; NoMap where there is none
    stack,    \* the calls of RenderOverlay, the running one last
    drawn,    \* history: the map the last step drew; NoMap if it drew none
    broken    \* history: maps whose computation gave up halfway

heap == <<slot, map>>
config == <<isobars, options, month>>
vars == <<config, heap, stack, drawn, broken>>

-----------------------------------------------------------------------------
(* The running call                                                        *)

\* A call of RenderOverlay is at a setting: about to draw its isobars, or
\* computing them, or inside an update of the dialog meanwhile.
Draws(s) == [setting |-> s, at |-> "render", month |-> month, map |-> NoMap, row |-> 0,
             dialog |-> FALSE]

Running == stack # <<>>
Top == stack[Len(stack)]
At(place) == Running /\ Top.at = place /\ Top.setting <= Count
Become(call) == stack' = [stack EXCEPT ![Len(stack)] = call]
GoOn == Draws(Top.setting + 1)
DrawAgain == Draws(Top.setting)

Busy(m) == \E i \in DOMAIN stack : stack[i].map = m

\* Handlers run when nothing is drawn, and in the updates of the dialog.
Handling == Running => Top.at = "events"

-----------------------------------------------------------------------------
(* RenderOverlay and RenderIsoBars                                         *)

Paint ==
    /\ Handling
    /\ Len(stack) < MaxDepth
    /\ stack' = Append(stack, Draws(1))
    /\ drawn' = NoMap
    /\ UNCHANGED <<config, heap, broken>>

Painted ==
    /\ Running
    /\ Top.setting > Count
    /\ stack' = SubSeq(stack, 1, Len(stack) - 1)
    /\ drawn' = NoMap
    /\ UNCHANGED <<config, heap, broken>>

Skip ==
    /\ At("render")
    /\ ~isobars[Top.setting]
    /\ Become(GoOn)
    /\ drawn' = NoMap
    /\ UNCHANGED <<config, heap, broken>>

MonthOf(s) == IF s = SeaDepth THEN January ELSE month

\* What the running call finds in its slot.
Found == slot[Top.setting][MonthOf(Top.setting)]
SameSettings == map[Found].option = options[Top.setting]
Drawing == At("render") /\ isobars[Top.setting]

Shows(m) == drawn' = [setting |-> Top.setting, map |-> m]

Plot ==
    /\ Drawing
    /\ Found # NoMap
    /\ SameSettings
    /\ Shows(Found)
    /\ Become(GoOn)
    /\ UNCHANGED <<config, heap, broken>>

\* Another call computes it, or one did and gave up: m_bNeedsRecompute.
Leave ==
    /\ Drawing
    /\ Found # NoMap
    /\ ~SameSettings
    /\ map[Found].computing
    /\ map' = [map EXCEPT ![Found].needs = TRUE]
    /\ Become(GoOn)
    /\ drawn' = NoMap
    /\ UNCHANGED <<config, slot, broken>>

\* delete, new and the call of Recompute up to its loop.
New ==
    /\ \E new \in Maps :
        /\ map[new] = NoMap
        /\ map' = [m \in Maps |->
            IF m = new
            THEN [month |-> MonthOf(Top.setting), option |-> options[Top.setting],
                  rows |-> 0, computing |-> TRUE, needs |-> FALSE]
            ELSE IF m = Found THEN NoMap ELSE map[m]]
        /\ slot' = [slot EXCEPT ![Top.setting][MonthOf(Top.setting)] = new]
        /\ Become([Top EXCEPT !.at = "compute", !.month = MonthOf(Top.setting), !.map = new])
        /\ broken' = broken \ {new, Found}
    /\ drawn' = NoMap
    /\ UNCHANGED config

Create_Always ==
    /\ Drawing
    /\ ~(Found # NoMap /\ SameSettings)
    /\ New

Create ==
    /\ Drawing
    /\ ~(Found # NoMap /\ (SameSettings \/ map[Found].computing))
    /\ New

-----------------------------------------------------------------------------
(* IsoBarMap::Recompute                                                    *)

InLoop == At("compute") /\ Top.row < Rows /\ ~map[Top.map].needs

\* The rest of a turn of the loop.
AddRow(dialog) ==
    /\ map' = [map EXCEPT ![Top.map].rows = Top.row + 1]
    /\ Become([Top EXCEPT !.row = @ + 1, !.at = "compute", !.dialog = dialog])

ComputeRow ==
    /\ InLoop
    /\ AddRow(Top.dialog)
    /\ drawn' = NoMap
    /\ UNCHANGED <<config, slot, broken>>

\* After half a second the dialog appears; then, every 1.2 s, an update.
Update ==
    /\ InLoop
    /\ Become([Top EXCEPT !.at = "events"])
    /\ drawn' = NoMap
    /\ UNCHANGED <<config, heap, broken>>

Updated ==
    /\ At("events")
    /\ AddRow(TRUE)
    /\ drawn' = NoMap
    /\ UNCHANGED <<config, slot, broken>>

Interrupt_Restart ==
    /\ At("compute") /\ Top.row < Rows
    /\ map[Top.map].needs
    /\ broken' = broken \cup {Top.map}
    /\ Become([Top EXCEPT !.row = 0])
    /\ drawn' = NoMap
    /\ UNCHANGED <<config, heap>>

\* The settings changed meanwhile: "return false", then "goto recompute", with
\* m_bComputing still set.
Interrupt ==
    /\ At("compute") /\ Top.row < Rows
    /\ map[Top.map].needs
    /\ broken' = broken \cup {Top.map}
    /\ Become(DrawAgain)
    /\ drawn' = NoMap
    /\ UNCHANGED <<config, heap>>

Cancel_KeepMap ==
    /\ At("events") /\ Top.dialog
    /\ ~map[Top.map].needs
    /\ isobars' = [isobars EXCEPT ![Top.setting] = FALSE]
    /\ Become(GoOn)
    /\ drawn' = NoMap
    /\ UNCHANGED <<options, month, heap, broken>>

\* The user cancelled: pIsobars = NULL and DisableIsoBars.  Nothing points to
\* the object any more; that it is never freed makes no difference here.
Cancel ==
    /\ At("events") /\ Top.dialog
    /\ ~map[Top.map].needs
    /\ slot' = [slot EXCEPT ![Top.setting][Top.month] = NoMap]
    /\ map' = [map EXCEPT ![Top.map] = NoMap]
    /\ isobars' = [isobars EXCEPT ![Top.setting] = FALSE]
    /\ broken' = broken \ {Top.map}
    /\ Become(GoOn)
    /\ drawn' = NoMap
    /\ UNCHANGED <<options, month>>

\* Both: the changed settings win.
CancelTooLate ==
    /\ At("events") /\ Top.dialog
    /\ map[Top.map].needs
    /\ broken' = broken \cup {Top.map}
    /\ Become(DrawAgain)
    /\ drawn' = NoMap
    /\ UNCHANGED <<config, heap>>

Finish_Plot ==
    /\ At("compute") /\ Top.row = Rows
    /\ map' = [map EXCEPT ![Top.map].computing = FALSE]
    /\ Shows(Top.map)
    /\ Become(GoOn)
    /\ UNCHANGED <<config, slot, broken>>

\* "return true", then "goto recompute", which looks at the settings again.
Finish ==
    /\ At("compute") /\ Top.row = Rows
    /\ map' = [map EXCEPT ![Top.map].computing = FALSE]
    /\ Become(DrawAgain)
    /\ drawn' = NoMap
    /\ UNCHANGED <<config, slot, broken>>

-----------------------------------------------------------------------------
(* The dialogs                                                             *)

\* The configuration dialog: a refresh of the chart is under way.
Change(s, o) ==
    /\ Handling
    /\ options' = [options EXCEPT ![s] = o]
    /\ drawn' = NoMap
    /\ UNCHANGED <<isobars, month, heap, stack, broken>>

Tick(s) ==
    /\ Handling
    /\ isobars' = [isobars EXCEPT ![s] = ~@]
    /\ drawn' = NoMap
    /\ UNCHANGED <<options, month, heap, stack, broken>>

\* The timeline.
Turn(m) ==
    /\ ~Running
    /\ month' = m
    /\ drawn' = NoMap
    /\ UNCHANGED <<isobars, options, heap, stack, broken>>

-----------------------------------------------------------------------------
Init ==
    /\ isobars \in [Settings -> BOOLEAN]
    /\ options \in [Settings -> Options]
    /\ month \in Months
    /\ slot = [s \in Settings |-> [m \in Months |-> NoMap]]
    /\ map = [m \in Maps |-> NoMap]
    /\ stack = <<>>
    /\ drawn = NoMap
    /\ broken = {}

Render == Painted \/ Skip \/ Plot \/ Leave \/ Create
Recompute == ComputeRow \/ Update \/ Interrupt \/ Finish
Dialog == Updated \/ Cancel \/ CancelTooLate
Configure == \E s \in Settings : Tick(s) \/ \E o \in Options : Change(s, o)

Next == Render \/ Recompute \/ Dialog \/ Paint \/ Configure \/ \E m \in Months : Turn(m)

Spec == Init /\ [][Next]_vars

\* The main thread goes on with what it does, and the queue of events an
\* update finds is finite.
Fairness == WF_vars(Render \/ Recompute) /\ SF_vars(Dialog)

FairSpec == Spec /\ Fairness

-----------------------------------------------------------------------------
\* Type correctness.
Calls == [setting : 1..(Count + 1), at : {"render", "compute", "events"}, month : Months,
          map : Maps \cup {NoMap}, row : 0..Rows, dialog : BOOLEAN]

TypeOK ==
    /\ isobars \in [Settings -> BOOLEAN]
    /\ options \in [Settings -> Options]
    /\ month \in Months
    /\ slot \in [Settings -> [Months -> Maps \cup {NoMap}]]
    /\ map \in [Maps -> Object \cup {NoMap}]
    /\ stack \in Seq(Calls)
    /\ drawn \in Drawings \cup {NoMap}
    /\ broken \subseteq Maps

\* A drawing within a drawing never deletes the map the outer one computes,
\* nor computes it itself: IsoBarMap::Recompute returns to an object that is
\* there and is its own.
NothingFreedInUse ==
    \A i \in DOMAIN stack : stack[i].at # "render" =>
        /\ map[stack[i].map] # NoMap
        /\ \A j \in DOMAIN stack : i # j => stack[j].map # stack[i].map

\* The chart shows isobars of the settings and the month in force, though they
\* may change while the map is computed.
ChartShowsSettings ==
    drawn # NoMap =>
        /\ map[drawn.map].option = options[drawn.setting]
        /\ map[drawn.map].month = MonthOf(drawn.setting)

\* The chart shows half a map only while that is being computed, or after a
\* change of settings broke its computation off; never after a cancellation.
OnlyWholeMaps ==
    drawn # NoMap =>
        map[drawn.map].rows = Rows \/ Busy(drawn.map) \/ drawn.map \in broken

\* If the user lets go of the controls and the chart, drawing ends: "goto
\* recompute" does not go round for ever.
RenderEnds ==
    <>[][~(Configure \/ Paint)]_vars => (Running ~> ~Running)
=============================================================================
