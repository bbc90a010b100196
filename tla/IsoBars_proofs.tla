--------------------------- MODULE IsoBars_proofs ---------------------------
(***************************************************************************)
(* Proofs about the isobar maps: a drawing within a drawing never frees or *)
(* computes the map the outer one is in, and what is drawn is of the       *)
(* settings and the month in force, and whole unless its computation is    *)
(* under way or was broken off.  All rest on who owns a map: a slot, and,  *)
(* while it is computed, the one call that computes it.                    *)
(***************************************************************************)
EXTENDS IsoBars, SequenceTheorems, TLAPS

Computes(call) == call.at # "render"

\* Only the running call is anywhere but in an update of the dialog.
Nested == \A i \in 1..Len(stack) : i < Len(stack) => stack[i].at = "events"

\* A slot's map is there, of the slot's month and of no other slot.
SlotsOwn ==
    \A s \in Settings, m \in Months : slot[s][m] # NoMap =>
        /\ map[slot[s][m]] # NoMap
        /\ map[slot[s][m]].month = m
        /\ \A t \in Settings, n \in Months : slot[t][n] = slot[s][m] => t = s /\ n = m

\* The map a call computes: in its slot, and marked.  An update of the dialog is
\* in the middle of the loop.
OwnsIn(call, slots, maps) ==
    /\ call.at = "events" => call.row < Rows
    /\ call.setting \in Settings
    /\ call.map # NoMap
    /\ slots[call.setting][call.month] = call.map
    /\ maps[call.map].computing = TRUE
Owns(call) == OwnsIn(call, slot, map)
OwnsNext(call) == OwnsIn(call, slot', map')

CallsOwn ==
    \A i \in 1..Len(stack) :
        IF Computes(stack[i]) THEN Owns(stack[i]) ELSE stack[i].map = NoMap

\* No two calls compute one map.
CallsApart ==
    \A i, j \in 1..Len(stack) :
        (i # j /\ Computes(stack[i]) /\ Computes(stack[j])) => stack[i].map # stack[j].map

IInv == TypeOK /\ Nested /\ SlotsOwn /\ CallsOwn /\ CallsApart

-----------------------------------------------------------------------------
\* What Become does to the stack.
LEMMA Becoming ==
  ASSUME TypeOK, Running, NEW call \in Calls, Become(call)
  PROVE  /\ Len(stack) \in Nat \ {0}
         /\ stack' \in Seq(Calls)
         /\ Len(stack') = Len(stack)
         /\ stack'[Len(stack)] = call
         /\ \A i \in 1..Len(stack) : i # Len(stack) => stack'[i] = stack[i]
  BY DEF TypeOK, Running, Become

LEMMA TopTyped == TypeOK /\ Running => Len(stack) \in 1..Len(stack) /\ Top \in Calls
  BY DEF TypeOK, Running, Top

LEMMA DrawsTyped ==
  ASSUME TypeOK, NEW s \in 1..(Count + 1)
  PROVE  Draws(s) \in Calls /\ ~Computes(Draws(s)) /\ Draws(s).map = NoMap
  BY IsoBarsAssumption DEF TypeOK, Draws, Calls, Computes

LEMMA GoOnTyped ==
  ASSUME TypeOK, Running, Top.setting \in Settings
  PROVE  GoOn \in Calls /\ ~Computes(GoOn) /\ GoOn.map = NoMap
<1>1. Top.setting + 1 \in 1..(Count + 1)
  BY IsoBarsAssumption DEF Settings
<1> QED
  BY <1>1, DrawsTyped DEF GoOn

LEMMA DrawAgainTyped ==
  ASSUME TypeOK, Running
  PROVE  DrawAgain \in Calls /\ ~Computes(DrawAgain) /\ DrawAgain.map = NoMap
<1>1. Top.setting \in 1..(Count + 1)
  BY TopTyped DEF Calls
<1> QED
  BY <1>1, DrawsTyped DEF DrawAgain

\* The running call goes on to draw, and no map changes hands.
LEMMA BackToDrawing ==
  ASSUME IInv, Running, NEW call \in Calls, Become(call), ~Computes(call), call.map = NoMap,
         TypeOK', SlotsOwn',
         \A i \in 1..Len(stack) : (i # Len(stack) /\ Computes(stack[i])) => OwnsNext(stack[i])
  PROVE  IInv'
<1>1. /\ Len(stack) \in Nat \ {0}
      /\ Len(stack') = Len(stack)
      /\ stack'[Len(stack)] = call
      /\ \A i \in 1..Len(stack) : i # Len(stack) => stack'[i] = stack[i]
  BY Becoming DEF IInv
<1>2. Nested'
  BY <1>1 DEF IInv, Nested
<1>3. CallsOwn'
  <2> SUFFICES ASSUME NEW i \in 1..Len(stack)
               PROVE  IF Computes(stack'[i]) THEN OwnsNext(stack'[i])
                      ELSE stack'[i].map = NoMap
    BY <1>1 DEF CallsOwn, Computes, Owns, OwnsNext
  <2>1. CASE i = Len(stack)
    BY <1>1, <2>1
  <2>2. CASE i # Len(stack)
    <3>1. stack'[i] = stack[i]
      BY <1>1, <2>2
    <3>2. CASE Computes(stack[i])
      BY <3>1, <3>2, <2>2
    <3>3. CASE ~Computes(stack[i])
      BY <3>1, <3>3 DEF IInv, CallsOwn
    <3> QED
      BY <3>2, <3>3
  <2> QED
    BY <2>1, <2>2
<1>4. CallsApart'
  BY <1>1 DEF IInv, CallsApart, Computes
<1> QED
  BY <1>2, <1>3, <1>4 DEF IInv
\* The running call goes on computing its map.
LEMMA GoesOnComputing ==
  ASSUME IInv, Running, NEW call \in Calls, Become(call), Computes(Top), Computes(call),
         call.map = Top.map, OwnsNext(call), TypeOK', SlotsOwn',
         Nested',
         \A i \in 1..Len(stack) : (i # Len(stack) /\ Computes(stack[i])) => OwnsNext(stack[i])
  PROVE  IInv'
<1>1. /\ Len(stack) \in Nat \ {0}
      /\ Len(stack') = Len(stack)
      /\ stack'[Len(stack)] = call
      /\ \A i \in 1..Len(stack) : i # Len(stack) => stack'[i] = stack[i]
  BY Becoming DEF IInv
<1>2. CallsOwn'
  <2> SUFFICES ASSUME NEW i \in 1..Len(stack)
               PROVE  IF Computes(stack'[i]) THEN OwnsNext(stack'[i])
                      ELSE stack'[i].map = NoMap
    BY <1>1 DEF CallsOwn, Computes, Owns, OwnsNext
  <2>1. CASE i = Len(stack)
    BY <1>1, <2>1
  <2>2. CASE i # Len(stack)
    <3>1. stack'[i] = stack[i]
      BY <1>1, <2>2
    <3>2. CASE Computes(stack[i])
      BY <3>1, <3>2, <2>2
    <3>3. CASE ~Computes(stack[i])
      BY <3>1, <3>3 DEF IInv, CallsOwn
    <3> QED
      BY <3>2, <3>3
  <2> QED
    BY <2>1, <2>2
<1>3. CallsApart'
  BY <1>1 DEF IInv, CallsApart, Computes, Top
<1> QED
  BY <1>2, <1>3 DEF IInv

\* The running call at a place, and the others' maps.
LEMMA AtPlace ==
  ASSUME IInv, NEW place, At(place)
  PROVE  Running /\ Top \in Calls /\ Top.setting \in Settings /\ Len(stack) \in 1..Len(stack)
<1>1. Running /\ Top \in Calls /\ Len(stack) \in 1..Len(stack)
  BY TopTyped DEF IInv, At
<1> QED
  BY <1>1, IsoBarsAssumption DEF At, Calls, Settings

LEMMA TopOwns ==
  ASSUME IInv, NEW place \in {"compute", "events"}, At(place)
  PROVE  /\ Computes(Top) /\ Owns(Top)
         /\ Top.map \in Maps /\ map[Top.map] \in Object
         /\ \A i \in 1..Len(stack) :
                (i # Len(stack) /\ Computes(stack[i])) => stack[i].map # Top.map
<1>1. Running /\ Top \in Calls /\ Len(stack) \in 1..Len(stack)
  BY AtPlace
<1>2. Computes(Top)
  BY DEF At, Computes
<1>3. Owns(Top)
  BY <1>1, <1>2 DEF IInv, CallsOwn, Top
<1>4. Top.map \in Maps
  BY <1>1, <1>3 DEF Owns, OwnsIn, Calls
<1>5. map[Top.map] \in Object
  BY <1>1, <1>3, <1>4 DEF Owns, OwnsIn, IInv, SlotsOwn, TypeOK, Calls
<1>6. \A i \in 1..Len(stack) :
        (i # Len(stack) /\ Computes(stack[i])) => stack[i].map # Top.map
  BY <1>1, <1>2 DEF IInv, CallsApart, Top
<1> QED
  BY <1>2, <1>3, <1>4, <1>5, <1>6

\* The calls of which the running one is none.
LEMMA OthersOwn ==
  ASSUME IInv, NEW i \in 1..Len(stack), Computes(stack[i])
  PROVE  /\ Owns(stack[i]) /\ stack[i] \in Calls /\ stack[i].map \in Maps
         /\ stack[i].month \in Months
<1>1. stack[i] \in Calls /\ Owns(stack[i])
  BY DEF IInv, TypeOK, CallsOwn
<1> QED
  BY <1>1 DEF Owns, OwnsIn, Calls

-----------------------------------------------------------------------------
LEMMA InitIInv == Init => IInv
<1> SUFFICES ASSUME Init PROVE IInv
  OBVIOUS
<1>1. TypeOK
  BY IsoBarsAssumption DEF Init, TypeOK
<1> QED
  BY <1>1 DEF Init, IInv, Nested, SlotsOwn, CallsOwn, CallsApart

\* RenderOverlay is called and returns.
LEMMA PaintKeeps ==
  ASSUME IInv, Paint
  PROVE  IInv'
<1>1. /\ Draws(1) \in Calls /\ ~Computes(Draws(1)) /\ Draws(1).map = NoMap
  BY DrawsTyped, IsoBarsAssumption DEF IInv
<1>2. /\ stack' \in Seq(Calls) /\ Len(stack') = Len(stack) + 1 /\ Len(stack) \in Nat
      /\ stack'[Len(stack) + 1] = Draws(1)
      /\ \A i \in 1..Len(stack) : stack'[i] = stack[i]
  BY <1>1 DEF IInv, TypeOK, Paint
<1> USE DEF Paint, heap, config
<1>3. TypeOK'
  BY <1>2 DEF IInv, TypeOK
<1>4. Nested'
  <2>1. \A i \in 1..Len(stack) : stack[i].at = "events"
    BY <1>2 DEF Handling, Running, Top, IInv, Nested
  <2> QED
    BY <1>2, <2>1 DEF Nested
<1>5. SlotsOwn'
  BY DEF IInv, SlotsOwn
<1>6. CallsOwn'
  BY <1>1, <1>2 DEF IInv, CallsOwn, Owns, OwnsIn, Computes
<1>7. CallsApart'
  BY <1>1, <1>2 DEF IInv, CallsApart, Computes
<1> QED
  BY <1>3, <1>4, <1>5, <1>6, <1>7 DEF IInv

\* The stack without the call that returns.
LEMMA PoppedStack ==
  ASSUME TypeOK, Painted
  PROVE  /\ stack' \in Seq(Calls) /\ Len(stack') = Len(stack) - 1
         /\ \A i \in 1..Len(stack') : stack'[i] = stack[i]
<1>1. Len(stack) \in Nat \ {0} /\ stack \in Seq(Calls)
  BY DEF TypeOK, Painted, Running
<1>2. 1 \in Int /\ Len(stack) - 1 \in Int
  BY <1>1
<1>3. \A i \in 1..(Len(stack) - 1) : stack[i] \in Calls
  BY <1>1
<1> DEFINE left == SubSeq(stack, 1, Len(stack) - 1)
<1>4. /\ left \in Seq(Calls)
      /\ Len(left) = IF 1 <= Len(stack) - 1 THEN Len(stack) - 1 - 1 + 1 ELSE 0
      /\ \A i \in 1..(Len(stack) - 1 - 1 + 1) : left[i] = stack[1 + i - 1]
  BY <1>2, <1>3, SubSeqProperties
<1> HIDE DEF left
<1>5. stack' = left
  BY DEF Painted, left
<1> QED
  BY <1>1, <1>4, <1>5

LEMMA PaintedKeeps ==
  ASSUME IInv, Painted
  PROVE  IInv'
<1>1. Len(stack) \in Nat \ {0}
  BY DEF IInv, TypeOK, Painted, Running
<1>2. /\ stack' \in Seq(Calls) /\ Len(stack') = Len(stack) - 1
      /\ \A i \in 1..Len(stack') : stack'[i] = stack[i]
  BY PoppedStack DEF IInv
<1> USE DEF Painted, heap, config
<1>3. TypeOK'
  BY <1>2 DEF IInv, TypeOK
<1>4. Nested'
  BY <1>1, <1>2 DEF IInv, Nested
<1>5. SlotsOwn'
  BY DEF IInv, SlotsOwn
<1>6. CallsOwn'
  BY <1>1, <1>2 DEF IInv, CallsOwn, Owns, OwnsIn, Computes
<1>7. CallsApart'
  <2>1. \A i \in 1..Len(stack') : i \in 1..Len(stack)
    BY <1>1, <1>2
  <2> QED
    BY <1>2, <2>1 DEF IInv, CallsApart, Computes
<1> QED
  BY <1>3, <1>4, <1>5, <1>6, <1>7 DEF IInv

\* Skip and Plot change neither settings nor maps.
LEMMA HeapStays ==
  ASSUME IInv, UNCHANGED heap
  PROVE  /\ SlotsOwn'
         /\ \A i \in 1..Len(stack) : Computes(stack[i]) => OwnsNext(stack[i])
<1>1. SlotsOwn'
  BY DEF IInv, SlotsOwn, heap
<1>2. \A i \in 1..Len(stack) : Computes(stack[i]) => OwnsNext(stack[i])
  BY OthersOwn DEF Owns, OwnsNext, heap
<1> QED
  BY <1>1, <1>2

LEMMA SkipKeeps ==
  ASSUME IInv, Skip
  PROVE  IInv'
<1>1. /\ Running /\ Top.setting \in Settings
  BY AtPlace DEF Skip
<1>2. GoOn \in Calls /\ ~Computes(GoOn) /\ GoOn.map = NoMap
  BY <1>1, GoOnTyped DEF IInv
<1>3. Become(GoOn) /\ UNCHANGED heap
  BY DEF Skip
<1>4. TypeOK'
  BY <1>1, <1>2, <1>3, Becoming DEF IInv, TypeOK, Skip, config, heap
<1> QED
  BY <1>1, <1>2, <1>3, <1>4, HeapStays, BackToDrawing

LEMMA MonthOfTyped == TypeOK => \A s \in Settings : MonthOf(s) \in Months
  BY IsoBarsAssumption DEF TypeOK, MonthOf

\* What a drawing finds is a map of its setting and month.
LEMMA FoundTyped ==
  ASSUME IInv, Drawing, Found # NoMap
  PROVE  Found \in Maps /\ map[Found] \in Object /\ map[Found].month = MonthOf(Top.setting)
<1>1. Top.setting \in Settings /\ MonthOf(Top.setting) \in Months
  BY AtPlace, MonthOfTyped DEF Drawing, IInv
<1>2. map[Found] # NoMap /\ map[Found].month = MonthOf(Top.setting)
  BY <1>1 DEF IInv, SlotsOwn, Found
<1> QED
  BY <1>1, <1>2 DEF IInv, TypeOK, Found

LEMMA PlotKeeps ==
  ASSUME IInv, Plot
  PROVE  IInv'
<1>1. /\ Running /\ Top.setting \in Settings
  BY AtPlace DEF Plot, Drawing
<1>2. GoOn \in Calls /\ ~Computes(GoOn) /\ GoOn.map = NoMap
  BY <1>1, GoOnTyped DEF IInv
<1>3. Become(GoOn) /\ UNCHANGED heap
  BY DEF Plot
<1>4. drawn' \in Drawings
  BY <1>1, FoundTyped DEF Plot, Shows, Drawings
<1>5. TypeOK'
  BY <1>1, <1>2, <1>3, <1>4, Becoming DEF IInv, TypeOK, Plot, config, heap
<1> QED
  BY <1>1, <1>2, <1>3, <1>5, HeapStays, BackToDrawing

\* m_bNeedsRecompute or another row of a map: it stays whose it was.
LEMMA MapTouched ==
  ASSUME IInv, NEW m \in Maps, NEW object \in Object, map[m] \in Object,
         object.month = map[m].month, object.computing = map[m].computing,
         map' = [map EXCEPT ![m] = object], UNCHANGED slot
  PROVE  /\ map' \in [Maps -> Object \cup {NoMap}]
         /\ SlotsOwn'
         /\ \A i \in 1..Len(stack) : Computes(stack[i]) => OwnsNext(stack[i])
<1>1. map' \in [Maps -> Object \cup {NoMap}]
  BY DEF IInv, TypeOK
<1>2. \A n \in Maps : map[n] # NoMap =>
        map'[n] # NoMap /\ map'[n].month = map[n].month
                       /\ map'[n].computing = map[n].computing
  BY IsoBarsAssumption DEF IInv, TypeOK
<1>3. SlotsOwn'
  BY <1>2 DEF IInv, SlotsOwn, TypeOK
<1>4. \A i \in 1..Len(stack) : Computes(stack[i]) => OwnsNext(stack[i])
  <2> SUFFICES ASSUME NEW i \in 1..Len(stack), Computes(stack[i])
               PROVE  OwnsNext(stack[i])
    OBVIOUS
  <2>1. /\ OwnsIn(stack[i], slot, map) /\ stack[i].map \in Maps /\ stack[i].month \in Months
    BY OthersOwn DEF Owns
  <2>2. map[stack[i].map] # NoMap
    BY <2>1 DEF OwnsIn, IInv, SlotsOwn
  <2> QED
    BY <1>2, <2>1, <2>2 DEF OwnsNext, OwnsIn
<1> QED
  BY <1>1, <1>3, <1>4

LEMMA LeaveKeeps ==
  ASSUME IInv, Leave
  PROVE  IInv'
<1>1. /\ Running /\ Top.setting \in Settings
  BY AtPlace DEF Leave, Drawing
<1>2. GoOn \in Calls /\ ~Computes(GoOn) /\ GoOn.map = NoMap
  BY <1>1, GoOnTyped DEF IInv
<1>3. Found \in Maps /\ map[Found] \in Object
  BY FoundTyped DEF Leave
<1> DEFINE object == [map[Found] EXCEPT !.needs = TRUE]
<1>4. object \in Object /\ object.month = map[Found].month
                         /\ object.computing = map[Found].computing
  BY <1>3 DEF Object
<1>5. map' = [map EXCEPT ![Found] = object]
  BY DEF Leave
<1> HIDE DEF object
<1>6. /\ map' \in [Maps -> Object \cup {NoMap}] /\ SlotsOwn'
      /\ \A i \in 1..Len(stack) : Computes(stack[i]) => OwnsNext(stack[i])
  BY <1>3, <1>4, <1>5, MapTouched DEF Leave
<1>7. Become(GoOn)
  BY DEF Leave
<1>8. TypeOK'
  BY <1>1, <1>2, <1>6, <1>7, Becoming DEF IInv, TypeOK, Leave, config
<1> QED
  BY <1>1, <1>2, <1>6, <1>7, <1>8, BackToDrawing

\* delete and new: what is deleted is not being computed, and so no call's.
LEMMA CreateKeeps ==
  ASSUME IInv, Create
  PROVE  IInv'
<1> DEFINE s == Top.setting
           n == MonthOf(Top.setting)
<1>1. /\ Running /\ Top \in Calls /\ s \in Settings /\ n \in Months
  BY AtPlace, MonthOfTyped DEF Create, Drawing, IInv
<1>2. PICK new \in Maps :
        /\ map[new] = NoMap
        /\ map' = [m \in Maps |->
            IF m = new
            THEN [month |-> n, option |-> options[s], rows |-> 0, computing |-> TRUE,
                  needs |-> FALSE]
            ELSE IF m = Found THEN NoMap ELSE map[m]]
        /\ slot' = [slot EXCEPT ![s][n] = new]
        /\ Become([Top EXCEPT !.at = "compute", !.month = n, !.map = new])
        /\ broken' = broken \ {new, Found}
  BY DEF Create, New
<1> DEFINE object == [month |-> n, option |-> options[s], rows |-> 0, computing |-> TRUE,
                      needs |-> FALSE]
           call == [Top EXCEPT !.at = "compute", !.month = n, !.map = new]
<1>3. object \in Object /\ object # NoMap
  <2>1. options[s] \in Options /\ 0 \in 0..Rows
    BY <1>1, IsoBarsAssumption DEF IInv, TypeOK
  <2>2. object \in Object
    BY <1>1, <2>1 DEF Object
  <2> QED
    BY <2>2, IsoBarsAssumption
<1>4. /\ call \in Calls /\ call.at = "compute" /\ call.setting = s /\ call.month = n
      /\ call.map = new
  BY <1>1, <1>2 DEF Calls
<1>5. Found = slot[s][n]
  BY DEF Found
<1>6. Found # NoMap => map[Found].computing # TRUE
  BY DEF Create
<1>7. map' = [m \in Maps |->
            IF m = new THEN object ELSE IF m = Found THEN NoMap ELSE map[m]]
  BY <1>2
<1>8. /\ object.month = n /\ object.computing = TRUE
  OBVIOUS
<1> HIDE DEF object, call
<1>9. /\ Len(stack) \in Nat \ {0} /\ stack' \in Seq(Calls) /\ Len(stack') = Len(stack)
      /\ stack'[Len(stack)] = call
      /\ \A i \in 1..Len(stack) : i # Len(stack) => stack'[i] = stack[i]
  BY <1>1, <1>2, <1>4, Becoming DEF IInv, call
<1>10. new # NoMap /\ new \in Maps
  BY <1>2, IsoBarsAssumption
<1>11. \A t \in Settings, k \in Months : slot[t][k] # new
  BY <1>2, <1>10 DEF IInv, SlotsOwn
<1>12. \A t \in Settings, k \in Months :
         slot'[t][k] = IF t = s /\ k = n THEN new ELSE slot[t][k]
  BY <1>1, <1>2 DEF IInv, TypeOK
<1> HIDE DEF n, s
<1>13. TypeOK'
  <2>1. slot' \in [Settings -> [Months -> Maps \cup {NoMap}]]
    BY <1>1, <1>2 DEF IInv, TypeOK
  <2>2. map' \in [Maps -> Object \cup {NoMap}]
    BY <1>3, <1>7 DEF IInv, TypeOK
  <2>3. drawn' = NoMap /\ UNCHANGED config /\ broken' \subseteq Maps
    BY <1>2 DEF Create, New, IInv, TypeOK
  <2> QED
    BY <1>9, <2>1, <2>2, <2>3 DEF IInv, TypeOK, config
<1>14. SlotsOwn'
  <2> SUFFICES ASSUME NEW t \in Settings, NEW k \in Months, slot'[t][k] # NoMap
               PROVE  /\ map'[slot'[t][k]] # NoMap
                      /\ map'[slot'[t][k]].month = k
                      /\ \A u \in Settings, j \in Months :
                            slot'[u][j] = slot'[t][k] => u = t /\ j = k
    BY DEF SlotsOwn
  <2>1. CASE t = s /\ k = n
    <3>1. slot'[t][k] = new
      BY <1>12, <2>1
    <3>2. map'[new] = object
      BY <1>7, <1>10
    <3>3. \A u \in Settings, j \in Months : slot'[u][j] = new => u = s /\ j = n
      BY <1>11, <1>12
    <3> QED
      BY <1>3, <1>8, <2>1, <3>1, <3>2, <3>3
  <2>2. CASE ~(t = s /\ k = n)
    <3>1. slot'[t][k] = slot[t][k] /\ slot[t][k] \in Maps /\ slot[t][k] # new
      BY <1>11, <1>12, <2>2 DEF IInv, TypeOK
    <3>2. slot[t][k] # Found
      BY <1>1, <1>5, <2>2, <3>1 DEF IInv, SlotsOwn
    <3>3. map'[slot[t][k]] = map[slot[t][k]]
      BY <1>7, <3>1, <3>2
    <3> QED
      BY <1>12, <3>1, <3>3 DEF IInv, SlotsOwn
  <2> QED
    BY <2>1, <2>2
<1>15. OwnsNext(call)
  BY <1>1, <1>2, <1>4, <1>7, <1>8, <1>10, <1>12 DEF OwnsNext, OwnsIn
<1>16. \A i \in 1..Len(stack) :
         Computes(stack[i]) => OwnsNext(stack[i]) /\ stack[i].map # new
  <2> SUFFICES ASSUME NEW i \in 1..Len(stack), Computes(stack[i])
               PROVE  OwnsNext(stack[i]) /\ stack[i].map # new
    OBVIOUS
  <2>1. /\ OwnsIn(stack[i], slot, map) /\ stack[i].map \in Maps /\ stack[i].month \in Months
    BY OthersOwn DEF Owns
  <2>2. stack[i].map # new
    BY <1>11, <2>1 DEF OwnsIn
  <2>3. stack[i].map # Found
    BY <1>6, <2>1 DEF OwnsIn
  <2>4. ~(stack[i].setting = s /\ stack[i].month = n)
    BY <1>5, <2>1, <2>3 DEF OwnsIn
  <2> QED
    BY <1>7, <1>12, <2>1, <2>2, <2>3, <2>4 DEF OwnsNext, OwnsIn
<1>17. Nested'
  BY <1>9 DEF IInv, Nested
<1>18. CallsOwn'
  <2> SUFFICES ASSUME NEW i \in 1..Len(stack)
               PROVE  IF Computes(stack'[i]) THEN OwnsNext(stack'[i])
                      ELSE stack'[i].map = NoMap
    BY <1>9 DEF CallsOwn, Computes, Owns, OwnsNext
  <2>1. CASE i = Len(stack)
    BY <1>4, <1>9, <1>15, <2>1 DEF Computes
  <2>2. CASE i # Len(stack)
    BY <1>9, <1>16, <2>2 DEF IInv, CallsOwn
  <2> QED
    BY <2>1, <2>2
<1>19. CallsApart'
  BY <1>4, <1>9, <1>16 DEF IInv, CallsApart, Computes
<1> QED
  BY <1>13, <1>14, <1>17, <1>18, <1>19 DEF IInv

\* The rest of a turn of the loop.
LEMMA AddRowKeeps ==
  ASSUME IInv, NEW place \in {"compute", "events"}, At(place), Top.row < Rows,
         NEW dialog \in BOOLEAN, AddRow(dialog), UNCHANGED <<config, slot, broken>>,
         drawn' = NoMap
  PROVE  IInv'
<1>1. Running /\ Top \in Calls /\ Top.setting \in Settings
  BY AtPlace
<1>2. Computes(Top) /\ Owns(Top) /\ Top.map \in Maps /\ map[Top.map] \in Object
  BY TopOwns
<1> DEFINE object == [map[Top.map] EXCEPT !.rows = Top.row + 1]
           call == [Top EXCEPT !.row = @ + 1, !.at = "compute", !.dialog = dialog]
<1>3. Top.row + 1 \in 0..Rows
  BY <1>1, IsoBarsAssumption DEF Calls
<1>4. object \in Object /\ object.month = map[Top.map].month
                         /\ object.computing = map[Top.map].computing
  BY <1>2, <1>3 DEF Object
<1>5. /\ call \in Calls /\ call.at = "compute" /\ call.map = Top.map
      /\ call.setting = Top.setting /\ call.month = Top.month
  BY <1>1, <1>3 DEF Calls
<1>6. map' = [map EXCEPT ![Top.map] = object] /\ Become(call)
  BY DEF AddRow
<1> HIDE DEF object, call
<1>7. /\ map' \in [Maps -> Object \cup {NoMap}] /\ SlotsOwn'
      /\ \A i \in 1..Len(stack) : Computes(stack[i]) => OwnsNext(stack[i])
  BY <1>2, <1>4, <1>6, MapTouched
<1>8. OwnsNext(call)
  <2>1. Len(stack) \in 1..Len(stack) /\ Top = stack[Len(stack)]
    BY AtPlace DEF Top
  <2> QED
    BY <1>2, <1>5, <1>7, <2>1 DEF OwnsNext, OwnsIn
<1>9. TypeOK'
  BY <1>1, <1>5, <1>6, <1>7, Becoming DEF IInv, TypeOK, config
<1>10. Nested'
  BY <1>1, <1>5, <1>6, Becoming DEF IInv, Nested
<1>11. Computes(call)
  BY <1>5 DEF Computes
<1> QED
  BY <1>1, <1>2, <1>5, <1>6, <1>7, <1>8, <1>9, <1>10, <1>11, GoesOnComputing

LEMMA ComputeRowKeeps == IInv /\ ComputeRow => IInv'
<1> SUFFICES ASSUME IInv, ComputeRow PROVE IInv'
  OBVIOUS
<1>1. At("compute") /\ Top.row < Rows /\ Top.dialog \in BOOLEAN
  BY AtPlace DEF ComputeRow, InLoop, Calls
<1> QED
  BY <1>1, AddRowKeeps DEF ComputeRow

LEMMA UpdateKeeps ==
  ASSUME IInv, Update
  PROVE  IInv'
<1>1. Running /\ Top \in Calls /\ Top.setting \in Settings /\ Len(stack) \in 1..Len(stack)
  BY AtPlace DEF Update, InLoop
<1>2. Computes(Top) /\ Owns(Top)
  BY TopOwns DEF Update, InLoop
<1> DEFINE call == [Top EXCEPT !.at = "events"]
<1>3. /\ call \in Calls /\ call.at = "events" /\ call.map = Top.map
      /\ call.setting = Top.setting /\ call.month = Top.month
  BY <1>1 DEF Calls
<1>4. Become(call) /\ UNCHANGED heap
  BY DEF Update
<1> HIDE DEF call
<1>5. SlotsOwn' /\ \A i \in 1..Len(stack) : Computes(stack[i]) => OwnsNext(stack[i])
  BY <1>4, HeapStays
<1>6. OwnsNext(call) /\ Computes(call)
  <2>1. call.row < Rows
    BY <1>1 DEF call, Update, InLoop, Calls
  <2> QED
    BY <1>1, <1>2, <1>3, <1>5, <2>1 DEF OwnsNext, OwnsIn, Top, Computes
<1>7. TypeOK'
  BY <1>1, <1>3, <1>4, Becoming DEF IInv, TypeOK, config, heap, Update
<1>8. Nested'
  BY <1>1, <1>3, <1>4, Becoming DEF IInv, Nested
<1> QED
  BY <1>1, <1>2, <1>3, <1>4, <1>5, <1>6, <1>7, <1>8, GoesOnComputing

LEMMA UpdatedKeeps ==
  ASSUME IInv, Updated
  PROVE  IInv'
<1>1. At("events") /\ Running /\ Top \in Calls
  BY AtPlace DEF Updated
<1>2. Top.row < Rows
  BY <1>1, TopOwns DEF Owns, OwnsIn, At
<1> QED
  BY <1>1, <1>2, AddRowKeeps DEF Updated

\* Both ways to give a computation up for changed settings.
LEMMA GivesUpKeeps ==
  ASSUME IInv, NEW place \in {"compute", "events"}, At(place), Become(DrawAgain),
         broken' = broken \cup {Top.map}, drawn' = NoMap, UNCHANGED <<config, heap>>
  PROVE  IInv'
<1>1. Running /\ Top.map \in Maps
  BY AtPlace, TopOwns
<1>2. DrawAgain \in Calls /\ ~Computes(DrawAgain) /\ DrawAgain.map = NoMap
  BY <1>1, DrawAgainTyped DEF IInv
<1>3. TypeOK'
  BY <1>1, <1>2, Becoming DEF IInv, TypeOK, config, heap
<1> QED
  BY <1>1, <1>2, <1>3, HeapStays, BackToDrawing

LEMMA InterruptKeeps == IInv /\ Interrupt => IInv'
  BY GivesUpKeeps DEF Interrupt

LEMMA CancelTooLateKeeps == IInv /\ CancelTooLate => IInv'
  BY GivesUpKeeps DEF CancelTooLate

\* The map of a call changes, or goes: the other calls have others.
LEMMA OthersKeep ==
  ASSUME IInv, NEW place \in {"compute", "events"}, At(place),
         \A m \in Maps : m # Top.map => map'[m] = map[m],
         \A t \in Settings, k \in Months :
            slot[t][k] # Top.map => slot'[t][k] = slot[t][k],
         NEW i \in 1..Len(stack), i # Len(stack), Computes(stack[i])
  PROVE  OwnsNext(stack[i])
<1>1. /\ OwnsIn(stack[i], slot, map) /\ stack[i].map \in Maps /\ stack[i].month \in Months
  BY OthersOwn DEF Owns
<1>2. stack[i].map # Top.map
  BY TopOwns
<1> QED
  BY <1>1, <1>2 DEF OwnsNext, OwnsIn

LEMMA FinishKeeps ==
  ASSUME IInv, Finish
  PROVE  IInv'
<1>1. Running /\ Top.map \in Maps /\ map[Top.map] \in Object
  BY AtPlace, TopOwns DEF Finish
<1>2. DrawAgain \in Calls /\ ~Computes(DrawAgain) /\ DrawAgain.map = NoMap
  BY <1>1, DrawAgainTyped DEF IInv
<1> DEFINE object == [map[Top.map] EXCEPT !.computing = FALSE]
<1>3. object \in Object /\ object.month = map[Top.map].month
  BY <1>1 DEF Object
<1>4. map' = [map EXCEPT ![Top.map] = object] /\ UNCHANGED slot
  BY DEF Finish
<1>5. object # NoMap
  BY <1>3, IsoBarsAssumption
<1> HIDE DEF object
<1>6. \A m \in Maps : m # Top.map => map'[m] = map[m]
  BY <1>4 DEF IInv, TypeOK
<1>7. map'[Top.map] = object
  BY <1>1, <1>4 DEF IInv, TypeOK
<1>8. SlotsOwn'
  BY <1>3, <1>4, <1>5, <1>6, <1>7 DEF IInv, SlotsOwn, TypeOK
<1>9. TypeOK'
  <2>1. map' \in [Maps -> Object \cup {NoMap}]
    BY <1>3, <1>4 DEF IInv, TypeOK
  <2> QED
    BY <1>1, <1>2, <1>4, <2>1, Becoming DEF IInv, TypeOK, config, Finish
<1>10. \A i \in 1..Len(stack) : (i # Len(stack) /\ Computes(stack[i])) => OwnsNext(stack[i])
  BY <1>4, <1>6, OthersKeep DEF Finish
<1> QED
  BY <1>1, <1>2, <1>8, <1>9, <1>10, BackToDrawing DEF Finish

LEMMA CancelKeeps ==
  ASSUME IInv, Cancel
  PROVE  IInv'
<1> DEFINE s == Top.setting
           n == Top.month
<1>1. /\ Running /\ Top \in Calls /\ s \in Settings /\ Top.map \in Maps
  BY AtPlace, TopOwns DEF Cancel
<1>2. GoOn \in Calls /\ ~Computes(GoOn) /\ GoOn.map = NoMap
  BY <1>1, GoOnTyped DEF IInv
<1>3. slot[s][n] = Top.map /\ n \in Months
  BY <1>1, TopOwns DEF Cancel, Owns, OwnsIn, Calls
<1>4. /\ map' = [map EXCEPT ![Top.map] = NoMap]
      /\ slot' = [slot EXCEPT ![s][n] = NoMap]
  BY DEF Cancel
<1> HIDE DEF s, n
<1>5. \A m \in Maps : m # Top.map => map'[m] = map[m]
  BY <1>4 DEF IInv, TypeOK
<1>6. \A t \in Settings, k \in Months :
        slot'[t][k] = IF t = s /\ k = n THEN NoMap ELSE slot[t][k]
  BY <1>1, <1>3, <1>4 DEF IInv, TypeOK
<1>7. \A t \in Settings, k \in Months :
        slot'[t][k] # NoMap => slot'[t][k] = slot[t][k] /\ slot[t][k] # Top.map
  <2>1. Top.map # NoMap
    BY <1>1, IsoBarsAssumption
  <2> QED
    BY <1>1, <1>3, <1>6, <2>1 DEF IInv, SlotsOwn
<1>8. SlotsOwn'
  <2> SUFFICES ASSUME NEW t \in Settings, NEW k \in Months, slot'[t][k] # NoMap
               PROVE  /\ map'[slot'[t][k]] # NoMap
                      /\ map'[slot'[t][k]].month = k
                      /\ \A u \in Settings, j \in Months :
                            slot'[u][j] = slot'[t][k] => u = t /\ j = k
    BY DEF SlotsOwn
  <2>1. slot'[t][k] = slot[t][k] /\ slot[t][k] # Top.map /\ slot[t][k] \in Maps
    BY <1>7 DEF IInv, TypeOK
  <2>2. map'[slot[t][k]] = map[slot[t][k]]
    BY <1>5, <2>1
  <2> QED
    BY <1>7, <2>1, <2>2 DEF IInv, SlotsOwn
<1>9. TypeOK'
  <2>1. map' \in [Maps -> Object \cup {NoMap}]
    BY <1>4 DEF IInv, TypeOK
  <2>2. slot' \in [Settings -> [Months -> Maps \cup {NoMap}]]
    BY <1>4 DEF IInv, TypeOK
  <2>3. isobars' \in [Settings -> BOOLEAN] /\ broken' \subseteq Maps
    BY DEF Cancel, IInv, TypeOK
  <2>4. drawn' = NoMap /\ UNCHANGED <<options, month>> /\ Become(GoOn)
    BY DEF Cancel
  <2>5. stack' \in Seq(Calls)
    BY <1>1, <1>2, <2>4, Becoming DEF IInv
  <2> QED
    BY <2>1, <2>2, <2>3, <2>4, <2>5 DEF IInv, TypeOK
<1>10. \A i \in 1..Len(stack) : (i # Len(stack) /\ Computes(stack[i])) => OwnsNext(stack[i])
  <2>1. \A t \in Settings, k \in Months :
          slot[t][k] # Top.map => slot'[t][k] = slot[t][k]
    BY <1>3, <1>6
  <2> QED
    BY <1>5, <2>1, OthersKeep DEF Cancel
<1> QED
  BY <1>1, <1>2, <1>8, <1>9, <1>10, BackToDrawing DEF Cancel

\* The dialogs touch neither the maps nor the calls.
LEMMA DialogsKeep ==
  ASSUME IInv, UNCHANGED <<heap, stack, broken>>, drawn' = NoMap,
         isobars' \in [Settings -> BOOLEAN], options' \in [Settings -> Options],
         month' \in Months
  PROVE  IInv'
<1>1. TypeOK'
  BY DEF IInv, TypeOK, heap
<1> QED
  BY <1>1 DEF IInv, Nested, SlotsOwn, CallsOwn, CallsApart, Owns, OwnsIn, Computes, heap

LEMMA ConfigureKeeps ==
  ASSUME IInv, Configure \/ (\E m \in Months : Turn(m))
  PROVE  IInv'
<1>1. ASSUME NEW s \in Settings, Tick(s) PROVE IInv'
  BY <1>1, DialogsKeep DEF Tick, IInv, TypeOK
<1>2. ASSUME NEW s \in Settings, NEW o \in Options, Change(s, o) PROVE IInv'
  BY <1>2, DialogsKeep DEF Change, IInv, TypeOK
<1>3. ASSUME NEW m \in Months, Turn(m) PROVE IInv'
  BY <1>3, DialogsKeep DEF Turn, IInv, TypeOK
<1> QED
  BY <1>1, <1>2, <1>3 DEF Configure

LEMMA NextIInv == IInv /\ [Next]_vars => IInv'
<1> SUFFICES ASSUME IInv, [Next]_vars PROVE IInv'
  OBVIOUS
<1>1. CASE UNCHANGED vars
  BY <1>1 DEF vars, config, heap, IInv, TypeOK, Nested, SlotsOwn, CallsOwn, CallsApart, Owns,
              OwnsIn, Computes
<1>2. CASE Next
  BY <1>2, PaintKeeps, PaintedKeeps, SkipKeeps, PlotKeeps, LeaveKeeps, CreateKeeps,
     ComputeRowKeeps, UpdateKeeps, InterruptKeeps, FinishKeeps, UpdatedKeeps, CancelKeeps,
     CancelTooLateKeeps, ConfigureKeeps
     DEF Next, Render, Recompute, Dialog
<1> QED
  BY <1>1, <1>2

LEMMA AlwaysIInv == Spec => []IInv
  BY InitIInv, NextIInv, PTL DEF Spec

\* Types hold in every state.
THEOREM TypeCorrect == Spec => []TypeOK
<1>1. IInv => TypeOK
  BY DEF IInv
<1> QED
  BY <1>1, AlwaysIInv, PTL

LEMMA UsedApart == IInv => NothingFreedInUse
<1> SUFFICES ASSUME IInv, NEW i \in 1..Len(stack), Computes(stack[i])
             PROVE  /\ map[stack[i].map] # NoMap
                    /\ \A j \in 1..Len(stack) : i # j => stack[j].map # stack[i].map
  BY DEF NothingFreedInUse, Computes, IInv, TypeOK
<1>1. /\ OwnsIn(stack[i], slot, map) /\ stack[i].month \in Months
  BY OthersOwn DEF Owns
<1>2. map[stack[i].map] # NoMap
  BY <1>1 DEF OwnsIn, IInv, SlotsOwn
<1>3. \A j \in 1..Len(stack) : i # j => stack[j].map # stack[i].map
  BY <1>1 DEF OwnsIn, IInv, CallsOwn, CallsApart
<1> QED
  BY <1>2, <1>3

\* A map being computed is there, and computed by one call only: RenderIsoBars
\* called from inside Recompute never deletes the map Recompute returns to.
THEOREM NoUseAfterFree == Spec => []NothingFreedInUse
  BY UsedApart, AlwaysIInv, PTL

\* Only Plot draws, and what it finds is of its slot's month.
LEMMA PlotShows ==
  ASSUME IInv, Plot
  PROVE  ChartShowsSettings'
<1>1. map[Found].option = options[Top.setting] /\ map[Found].month = MonthOf(Top.setting)
  BY FoundTyped DEF Plot, SameSettings
<1>2. /\ drawn' = [setting |-> Top.setting, map |-> Found]
      /\ UNCHANGED <<map, options, month>>
  BY DEF Plot, Shows, heap, config
<1> QED
  BY <1>1, <1>2 DEF ChartShowsSettings, MonthOf

LEMMA OthersDrawNothing ==
  ASSUME Next, ~Plot
  PROVE  drawn' = NoMap
  BY DEF Next, Render, Recompute, Dialog, Configure, Painted, Skip, Leave, Create, New,
         ComputeRow, Update, Interrupt, Finish, Updated, Cancel, CancelTooLate, Paint, Tick,
         Change, Turn

\* The isobars drawn are of the settings and the month in force, though both
\* may change while a map is computed.
THEOREM ChartIsCurrent == Spec => []ChartShowsSettings
<1>1. Init => ChartShowsSettings
  BY DEF Init, ChartShowsSettings
<1>2. ASSUME IInv, ChartShowsSettings, [Next]_vars
      PROVE  ChartShowsSettings'
  <2>1. CASE UNCHANGED vars
    BY <1>2, <2>1 DEF vars, config, heap, ChartShowsSettings, MonthOf
  <2>2. CASE Plot
    BY <1>2, <2>2, PlotShows
  <2>3. CASE Next /\ ~Plot
    BY <2>3, OthersDrawNothing DEF ChartShowsSettings
  <2> QED
    BY <1>2, <2>1, <2>2, <2>3
<1> QED
  BY <1>1, <1>2, AlwaysIInv, PTL DEF Spec
-----------------------------------------------------------------------------
\* A call's row is the number of rows its map has; 0 before it has one.
RowsCounted ==
    \A i \in 1..Len(stack) :
        stack[i].row = IF Computes(stack[i]) THEN map[stack[i].map].rows ELSE 0

\* Each map is whole, being computed, or of a computation that was broken off.
Accounted(m) == map[m].rows = Rows \/ Busy(m) \/ m \in broken
MapsAccounted == \A m \in Maps : map[m] # NoMap => Accounted(m)

WInv == RowsCounted /\ MapsAccounted

LEMMA BusyIs == TypeOK => \A m : Busy(m) <=> \E i \in 1..Len(stack) : stack[i].map = m
  BY DEF TypeOK, Busy

\* A step of the running call: it says how many rows the map has that it goes on
\* with, and what becomes of the one it had.
LEMMA CallAccounts ==
  ASSUME IInv, IInv', WInv, Running, NEW call \in Calls, Become(call),
         call.row = IF Computes(call) THEN map'[call.map].rows ELSE 0,
         \A m \in Maps : (m # Top.map /\ m # call.map /\ map'[m] # NoMap) =>
            /\ map[m] # NoMap /\ map'[m].rows = map[m].rows
            /\ m \in broken => m \in broken',
         (Top.map # call.map /\ Top.map \in Maps /\ map'[Top.map] # NoMap) =>
            map'[Top.map].rows = Rows \/ Top.map \in broken'
  PROVE  WInv'
<1>1. /\ Len(stack) \in Nat \ {0}
      /\ Len(stack') = Len(stack)
      /\ stack'[Len(stack)] = call
      /\ \A i \in 1..Len(stack) : i # Len(stack) => stack'[i] = stack[i]
  BY Becoming DEF IInv
<1>2. Len(stack) \in 1..Len(stack) /\ Top = stack[Len(stack)]
  BY <1>1 DEF Top
<1>3. RowsCounted'
  <2> SUFFICES ASSUME NEW i \in 1..Len(stack)
               PROVE  stack'[i].row = IF Computes(stack'[i]) THEN map'[stack'[i].map].rows ELSE 0
    BY <1>1 DEF RowsCounted, Computes
  <2>1. CASE i = Len(stack)
    BY <1>1, <2>1
  <2>2. CASE i # Len(stack) /\ ~Computes(stack[i])
    BY <1>1, <2>2 DEF WInv, RowsCounted
  <2>3. CASE i # Len(stack) /\ Computes(stack[i])
    <3>1. stack'[i] = stack[i] /\ stack[i].map \in Maps
      BY <1>1, <2>3, OthersOwn
    <3>2. map[stack[i].map].rows = stack[i].row
      BY <2>3, <3>1 DEF WInv, RowsCounted
    <3>3. stack[i].map # Top.map
      BY <1>2, <2>3, <3>1, UsedApart DEF NothingFreedInUse, Computes, IInv, TypeOK
    <3>4. stack[i].map # call.map /\ map'[stack[i].map] # NoMap
      <4>1. NothingFreedInUse'
        BY UsedApart, PTL
      <4>2. i \in DOMAIN stack' /\ Len(stack) \in DOMAIN stack'
        BY <1>1 DEF IInv, TypeOK
      <4> QED
        BY <1>1, <2>3, <3>1, <4>1, <4>2 DEF NothingFreedInUse, Computes
    <3> QED
      BY <1>1, <2>3, <3>1, <3>2, <3>3, <3>4
  <2> QED
    BY <2>1, <2>2, <2>3
<1>4. MapsAccounted'
  <2> SUFFICES ASSUME NEW m \in Maps, map'[m] # NoMap
               PROVE  map'[m].rows = Rows \/ Busy(m)' \/ m \in broken'
    BY DEF MapsAccounted, Accounted
  <2>1. Busy(m)' <=> \E i \in 1..Len(stack) : stack'[i].map = m
    <3>1. TypeOK' => (Busy(m)' <=> \E i \in 1..Len(stack') : stack'[i].map = m)
      BY DEF TypeOK, Busy
    <3> QED
      BY <1>1, <3>1 DEF IInv
  <2>2. CASE m = call.map
    BY <1>1, <1>2, <2>1, <2>2
  <2>3. CASE m # call.map /\ m = Top.map
    BY <2>3
  <2>4. CASE m # call.map /\ m # Top.map
    <3>1. map[m] # NoMap /\ map'[m].rows = map[m].rows /\ (m \in broken => m \in broken')
      BY <2>4
    <3>2. ASSUME NEW i \in 1..Len(stack), stack[i].map = m PROVE Busy(m)'
      BY <1>1, <1>2, <2>1, <2>4, <3>2
    <3>3. map[m].rows = Rows \/ Busy(m) \/ m \in broken
      BY <3>1 DEF WInv, MapsAccounted, Accounted
    <3> QED
      BY <3>1, <3>2, <3>3, BusyIs DEF IInv
  <2> QED
    BY <2>2, <2>3, <2>4
<1> QED
  BY <1>3, <1>4 DEF WInv

\* A call that computes nothing has no map.
LEMMA TopDraws ==
  ASSUME IInv, Running, ~Computes(Top)
  PROVE  Top.map \notin Maps /\ (WInv => Top.row = 0)
<1>1. Len(stack) \in 1..Len(stack)
  BY TopTyped DEF IInv
<1> QED
  BY <1>1, IsoBarsAssumption DEF IInv, CallsOwn, Top, WInv, RowsCounted

\* Skip, Plot, Leave: a drawing goes on, and the maps have the rows they had.
LEMMA DrawingAccounts ==
  ASSUME IInv, IInv', WInv, Drawing \/ At("render"), Become(GoOn), UNCHANGED <<slot, broken>>,
         \A m \in Maps : map'[m] # NoMap => map[m] # NoMap /\ map'[m].rows = map[m].rows
  PROVE  WInv'
<1>1. Running /\ Top.setting \in Settings /\ ~Computes(Top)
  BY AtPlace DEF Drawing, At, Computes
<1>2. GoOn \in Calls /\ ~Computes(GoOn) /\ GoOn.row = 0
  BY <1>1, GoOnTyped DEF IInv, GoOn, Draws
<1>3. Top.map \notin Maps
  BY <1>1, TopDraws
<1> QED
  BY <1>1, <1>2, <1>3, CallAccounts

LEMMA SkipAccounts == IInv /\ IInv' /\ WInv /\ Skip => WInv'
  BY DrawingAccounts DEF Skip, heap

LEMMA PlotAccounts == IInv /\ IInv' /\ WInv /\ Plot => WInv'
  BY DrawingAccounts DEF Plot, heap

LEMMA LeaveAccounts ==
  ASSUME IInv, IInv', WInv, Leave
  PROVE  WInv'
<1>1. Found \in Maps /\ map[Found] \in Object
  BY FoundTyped DEF Leave
<1>2. \A m \in Maps : map'[m] # NoMap => map[m] # NoMap /\ map'[m].rows = map[m].rows
  BY <1>1, IsoBarsAssumption DEF Leave, IInv, TypeOK, Object
<1> QED
  BY <1>2, DrawingAccounts DEF Leave

\* The new map has no row yet, and the old one is gone.
LEMMA CreateAccounts ==
  ASSUME IInv, IInv', WInv, Create
  PROVE  WInv'
<1>1. Running /\ Top \in Calls /\ ~Computes(Top) /\ Top.setting \in Settings
  BY AtPlace DEF Create, Drawing, At, Computes
<1>2. Top.map \notin Maps /\ MonthOf(Top.setting) \in Months
  BY <1>1, TopDraws, MonthOfTyped DEF IInv
<1>3. PICK new \in Maps :
        /\ map' = [m \in Maps |->
            IF m = new
            THEN [month |-> MonthOf(Top.setting), option |-> options[Top.setting],
                  rows |-> 0, computing |-> TRUE, needs |-> FALSE]
            ELSE IF m = Found THEN NoMap ELSE map[m]]
        /\ Become([Top EXCEPT !.at = "compute", !.month = MonthOf(Top.setting), !.map = new])
        /\ broken' = broken \ {new, Found}
  BY DEF Create, New
<1> DEFINE call == [Top EXCEPT !.at = "compute", !.month = MonthOf(Top.setting), !.map = new]
<1>4. call \in Calls /\ call.map = new /\ call.row = Top.row
  BY <1>1, <1>2, <1>3 DEF Calls
<1>5. map'[new].rows = 0
  BY <1>3
<1>6. \A m \in Maps : (m # new /\ map'[m] # NoMap) =>
        /\ map[m] # NoMap /\ map'[m].rows = map[m].rows
        /\ m \in broken => m \in broken'
  BY <1>3
<1>7. Top.row = 0 /\ Become(call) /\ Computes(call)
  BY <1>1, <1>3, <1>4, TopDraws DEF Computes
<1> HIDE DEF call
<1> QED
  BY <1>1, <1>2, <1>3, <1>4, <1>5, <1>6, <1>7, CallAccounts

LEMMA AddRowAccounts ==
  ASSUME IInv, IInv', WInv, NEW place \in {"compute", "events"}, At(place), Top.row < Rows,
         NEW dialog \in BOOLEAN, AddRow(dialog), UNCHANGED broken
  PROVE  WInv'
<1>1. /\ Running /\ Top \in Calls /\ Top.map \in Maps /\ map[Top.map] \in Object
  BY AtPlace, TopOwns
<1>0. Top.row + 1 \in 0..Rows
  BY <1>1, IsoBarsAssumption DEF Calls
<1> DEFINE call == [Top EXCEPT !.row = @ + 1, !.at = "compute", !.dialog = dialog]
<1>2. /\ call \in Calls /\ Computes(call) /\ call.map = Top.map /\ call.row = Top.row + 1
  BY <1>0, <1>1 DEF Calls, Computes
<1>3. Become(call) /\ map' = [map EXCEPT ![Top.map].rows = Top.row + 1]
  BY DEF AddRow
<1> HIDE DEF call
<1>4. map'[Top.map].rows = Top.row + 1
  BY <1>1, <1>3 DEF IInv, TypeOK, Object
<1>5. \A m \in Maps : m # Top.map => map'[m] = map[m]
  BY <1>3 DEF IInv, TypeOK
<1> QED
  BY <1>1, <1>2, <1>3, <1>4, <1>5, CallAccounts

LEMMA ComputeRowAccounts == IInv /\ IInv' /\ WInv /\ ComputeRow => WInv'
<1> SUFFICES ASSUME IInv, IInv', WInv, ComputeRow PROVE WInv'
  OBVIOUS
<1>1. At("compute") /\ Top.row < Rows /\ Top.dialog \in BOOLEAN
  BY AtPlace DEF ComputeRow, InLoop, Calls
<1> QED
  BY <1>1, AddRowAccounts DEF ComputeRow

LEMMA UpdatedAccounts == IInv /\ IInv' /\ WInv /\ Updated => WInv'
<1> SUFFICES ASSUME IInv, IInv', WInv, Updated PROVE WInv'
  OBVIOUS
<1>1. At("events") /\ Running /\ Top \in Calls
  BY AtPlace DEF Updated
<1>2. Top.row < Rows
  BY <1>1, TopOwns DEF Owns, OwnsIn, At
<1> QED
  BY <1>1, <1>2, AddRowAccounts DEF Updated

LEMMA UpdateAccounts ==
  ASSUME IInv, IInv', WInv, Update
  PROVE  WInv'
<1>1. Running /\ Top \in Calls /\ Len(stack) \in 1..Len(stack) /\ Computes(Top)
  BY AtPlace, TopOwns DEF Update, InLoop
<1> DEFINE call == [Top EXCEPT !.at = "events"]
<1>2. /\ call \in Calls /\ Computes(call) /\ call.map = Top.map /\ call.row = Top.row
  BY <1>1 DEF Calls, Computes
<1>3. Become(call) /\ UNCHANGED heap /\ UNCHANGED broken
  BY DEF Update
<1> HIDE DEF call
<1>4. Top.row = map[Top.map].rows
  BY <1>1 DEF WInv, RowsCounted, Top
<1> QED
  BY <1>1, <1>2, <1>3, <1>4, CallAccounts DEF heap

\* A call lets go of its map: that is whole, broken off, or gone.
LEMMA LetsGoAccounts ==
  ASSUME IInv, IInv', WInv, NEW place \in {"compute", "events"}, At(place),
         Become(DrawAgain) \/ Become(GoOn),
         \A m \in Maps : m # Top.map =>
            map'[m] = map[m] /\ (m \in broken => m \in broken'),
         map'[Top.map] # NoMap => map'[Top.map].rows = Rows \/ Top.map \in broken'
  PROVE  WInv'
<1>1. Running /\ Top.setting \in Settings
  BY AtPlace
<1>2. /\ GoOn \in Calls /\ ~Computes(GoOn) /\ GoOn.row = 0
      /\ DrawAgain \in Calls /\ ~Computes(DrawAgain) /\ DrawAgain.row = 0
  BY <1>1, GoOnTyped, DrawAgainTyped DEF IInv, GoOn, DrawAgain, Draws
<1>3. PICK call \in {GoOn, DrawAgain} : Become(call)
  OBVIOUS
<1>4. call \in Calls /\ ~Computes(call) /\ call.row = 0
  BY <1>2
<1> QED
  BY <1>1, <1>3, <1>4, CallAccounts

LEMMA GivesUpAccounts == IInv /\ IInv' /\ WInv /\ (Interrupt \/ CancelTooLate) => WInv'
  BY LetsGoAccounts DEF Interrupt, CancelTooLate, heap

LEMMA CancelAccounts ==
  ASSUME IInv, IInv', WInv, Cancel
  PROVE  WInv'
<1>1. Top.map \in Maps
  BY TopOwns DEF Cancel
<1>2. /\ map'[Top.map] = NoMap /\ \A m \in Maps : m # Top.map => map'[m] = map[m]
      /\ broken' = broken \ {Top.map}
  BY <1>1 DEF Cancel, IInv, TypeOK
<1> QED
  BY <1>2, LetsGoAccounts DEF Cancel

LEMMA FinishAccounts ==
  ASSUME IInv, IInv', WInv, Finish
  PROVE  WInv'
<1>1. /\ Top.map \in Maps /\ map[Top.map] \in Object /\ Computes(Top)
      /\ Len(stack) \in 1..Len(stack)
  BY AtPlace, TopOwns DEF Finish
<1>2. map[Top.map].rows = Rows
  BY <1>1 DEF WInv, RowsCounted, Top, Finish
<1>3. /\ map'[Top.map].rows = Rows /\ \A m \in Maps : m # Top.map => map'[m] = map[m]
  BY <1>1, <1>2 DEF Finish, IInv, TypeOK, Object
<1> QED
  BY <1>3, LetsGoAccounts DEF Finish

\* RenderOverlay is called and returns: neither call has a map.
LEMMA PaintAccounts ==
  ASSUME IInv, IInv', WInv, Paint
  PROVE  WInv'
<1>1. /\ Len(stack') = Len(stack) + 1 /\ Len(stack) \in Nat
      /\ stack'[Len(stack) + 1] = Draws(1)
      /\ \A i \in 1..Len(stack) : stack'[i] = stack[i]
  BY DrawsTyped, IsoBarsAssumption DEF IInv, TypeOK, Paint
<1>2. RowsCounted'
  BY <1>1 DEF WInv, RowsCounted, Computes, Draws, Paint, heap
<1>3. \A m : Busy(m) => Busy(m)'
  BY <1>1 DEF IInv, TypeOK, Busy
<1>4. MapsAccounted'
  BY <1>3 DEF WInv, MapsAccounted, Accounted, Paint, heap
<1> QED
  BY <1>2, <1>4 DEF WInv

LEMMA PaintedAccounts ==
  ASSUME IInv, IInv', WInv, Painted
  PROVE  WInv'
<1>1. Len(stack) \in Nat \ {0} /\ Running /\ Len(stack) \in 1..Len(stack)
  BY DEF IInv, TypeOK, Painted, Running
<1>2. /\ Len(stack') = Len(stack) - 1
      /\ \A i \in 1..Len(stack') : stack'[i] = stack[i]
  BY <1>1, PoppedStack DEF IInv
<1>3. ~Computes(Top)
  BY <1>1, IsoBarsAssumption DEF Painted, IInv, CallsOwn, Owns, OwnsIn, Top, Settings
<1>4. Top.map \notin Maps
  BY <1>1, <1>3, TopDraws
<1>5. RowsCounted'
  BY <1>1, <1>2 DEF WInv, RowsCounted, Computes, Painted, heap
<1>6. \A m \in Maps : Busy(m) => Busy(m)'
  <2> SUFFICES ASSUME NEW m \in Maps, NEW i \in 1..Len(stack), stack[i].map = m
               PROVE  Busy(m)'
    BY BusyIs DEF IInv
  <2>1. i \in 1..Len(stack')
    BY <1>1, <1>2, <1>4 DEF Top
  <2>2. i \in DOMAIN stack'
    BY <2>1 DEF IInv, TypeOK
  <2> QED
    BY <1>2, <2>1, <2>2 DEF Busy
<1>7. MapsAccounted'
  BY <1>6 DEF WInv, MapsAccounted, Accounted, Painted, heap
<1> QED
  BY <1>5, <1>7 DEF WInv

LEMMA MapsStayAccounted ==
  ASSUME WInv, UNCHANGED <<map, stack, broken>>
  PROVE  WInv'
BY DEF WInv, RowsCounted, Computes, MapsAccounted, Accounted, Busy

LEMMA NextWInv == IInv /\ WInv /\ [Next]_vars => WInv'
<1> SUFFICES ASSUME IInv, WInv, [Next]_vars PROVE WInv'
  OBVIOUS
<1>1. IInv'
  BY NextIInv
<1>2. CASE UNCHANGED vars
  BY <1>2, MapsStayAccounted DEF vars, heap
<1>3. CASE Configure \/ \E m \in Months : Turn(m)
  BY <1>3, MapsStayAccounted DEF Configure, Tick, Change, Turn, heap
<1>4. CASE Next
  BY <1>1, <1>3, <1>4, PaintAccounts, PaintedAccounts, SkipAccounts, PlotAccounts,
     LeaveAccounts, CreateAccounts, ComputeRowAccounts, UpdateAccounts, GivesUpAccounts,
     FinishAccounts, UpdatedAccounts, CancelAccounts
     DEF Next, Render, Recompute, Dialog
<1> QED
  BY <1>2, <1>4

\* Half a map is drawn only while it is computed or after its computation was
\* broken off: a cancelled one is out of its slot, and no drawing finds it.
THEOREM WholeMapsOnly == Spec => []OnlyWholeMaps
<1>1. Init => WInv /\ OnlyWholeMaps
  BY DEF Init, WInv, RowsCounted, MapsAccounted, OnlyWholeMaps
<1>2. ASSUME IInv, WInv, OnlyWholeMaps, [Next]_vars
      PROVE  OnlyWholeMaps'
  <2>1. CASE UNCHANGED vars
    BY <1>2, <2>1 DEF vars, heap, OnlyWholeMaps, Busy
  <2>2. CASE Plot
    <3>1. drawn' = [setting |-> Top.setting, map |-> Found] /\ map'[Found] # NoMap
          /\ Found \in Maps
      BY <1>2, <2>2, FoundTyped, IsoBarsAssumption DEF Plot, Shows, heap
    <3>2. WInv'
      BY <1>2, NextWInv
    <3> QED
      BY <3>1, <3>2 DEF WInv, MapsAccounted, Accounted, OnlyWholeMaps
  <2>3. CASE Next /\ ~Plot
    BY <2>3, OthersDrawNothing DEF OnlyWholeMaps
  <2> QED
    BY <1>2, <2>1, <2>2, <2>3
<1> QED
  BY <1>1, <1>2, NextWInv, AlwaysIInv, PTL DEF Spec
=============================================================================
