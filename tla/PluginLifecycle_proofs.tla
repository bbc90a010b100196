----------------------- MODULE PluginLifecycle_proofs -----------------------
(***************************************************************************)
(* Proofs about the plugin's life, for any files, averages and order of    *)
(* the load: however provider calls, toolbar clicks, failures, downloads   *)
(* and a second load interleave, an answer and a box have their data.      *)
(***************************************************************************)
EXTENDS PluginLifecycle, TLAPS

\* The two singletons, the constructor and its outcome.
Nesting ==
    /\ load = "none" => loads = 0
    /\ load # "none" => loads = 1 /\ dialog /\ ~factory
    /\ dialog <=> factory \/ load # "none"
    /\ completed => factory /\ failed = {}
    /\ load = "download" => ~versioned

\* What a load has read of what it has come past.
LoadKnown ==
    /\ loaded \cap Files \subseteq disk
    /\ load = "reading" =>
        /\ failed \cap disk = {}
        /\ \A i \in 1..(step - 1) : Order[i] \in Files => Order[i] \in loaded \cup failed
    /\ dialog /\ load # "reading" /\ ~aborted =>
        /\ Files \subseteq loaded \cup failed
        /\ Theatres \subseteq loaded => cached

\* A box has its data, or it has failed to load and the box is disabled.  The
\* cyclone box outlives a second load, which frees the theatres and reads them
\* again: their files are still there.
BoxesKnown ==
    /\ ~dialog => boxes = {}
    /\ boxes \cap Scalars \subseteq loaded
    /\ ElNino \in boxes => ElNino \notin failed
    /\ Cyclones \in boxes => Theatres \subseteq disk /\ Theatres \cap failed = {}

IInv == TypeOK /\ Nesting /\ LoadKnown /\ BoxesKnown

-----------------------------------------------------------------------------
(* Facts the action lemmas share                                           *)

LEMMA Kinds ==
    /\ Vectors \subseteq Files /\ Scalars \subseteq Files /\ Theatres \subseteq Files
    /\ ElNino \in Files /\ Averages \cap Files = {}
    /\ \A a \in Averages : AverageOf[a] \subseteq Vectors
    /\ ElNino \in Boxes /\ Cyclones \in Boxes /\ Averages \subseteq Boxes /\ Scalars \subseteq Boxes
BY KindsAssumption DEF Files, Vectors, Averages, Boxes, Range

LEMMA OrderTyping ==
    /\ Len(Order) \in Nat
    /\ \A i \in 1..Len(Order) : Order[i] \in Range(Order)
    /\ Range(Order) = Files \cup Averages
    /\ \A f \in Files : \E i \in 1..Len(Order) : Order[i] = f
<1>1. Order \in Seq(Files \cup Averages) /\ Range(Order) = Files \cup Averages
  BY OrderAssumption
<1>2. Len(Order) \in Nat /\ DOMAIN Order = 1..Len(Order)
  BY <1>1
<1> QED
  BY <1>1, <1>2 DEF Range

LEMMA InitIInv == Init => IInv
<1> SUFFICES ASSUME Init PROVE IInv
  OBVIOUS
<1>1. TypeOK
  <2>1. step \in 1..(Len(Order) + 1)
    BY OrderTyping DEF Init
  <2>2. {disk, failed, queue} \subseteq SUBSET Files /\ loaded \subseteq Range(Order)
        /\ boxes \subseteq Boxes /\ loads \in {0, 1} /\ caller \in Creators
    BY DEF Init, Creators
  <2>3. {active, advertised, dialog, shown, factory, completed, versioned,
         second, cached, lost, aborted} \subseteq BOOLEAN
    BY DEF Init
  <2>4. load \in {"none", "reading", "check", "ask", "download", "return"}
    BY DEF Init
  <2> QED
    BY <2>1, <2>2, <2>3, <2>4 DEF TypeOK
<1>2. Nesting /\ LoadKnown /\ BoxesKnown
  BY DEF Init, Nesting, LoadKnown, BoxesKnown
<1> QED
  BY <1>1, <1>2 DEF IInv

\* A click, a message or a start touches neither the load nor its data.
LEMMA EventsKeep ==
    ASSUME IInv, InitPlugin \/ Request \/ Toolbar \/ Close
    PROVE  IInv'
<1>1. /\ UNCHANGED <<dialog, factory, completed, loaded, cached, failed, boxes, aborted, disk,
                     queue, lost, versioned, load, loads, second, caller, step>>
      /\ active' \in BOOLEAN /\ advertised' \in BOOLEAN /\ shown' \in BOOLEAN
  BY DEF InitPlugin, Request, Toolbar, Close, session, data, download, IInv, TypeOK
<1>2. TypeOK'
  BY <1>1 DEF IInv, TypeOK
<1>3. Nesting' /\ BoxesKnown'
  BY <1>1 DEF IInv, Nesting, BoxesKnown
<1>4. LoadKnown'
  BY <1>1 DEF IInv, LoadKnown
<1> QED
  BY <1>2, <1>3, <1>4 DEF IInv

\* The questions and verdicts between two loads leave the data alone.
LEMMA VerdictsKeep ==
    ASSUME IInv, Check \/ Decline \/ Accept \/ AbortDownload \/ Incomplete
    PROVE  IInv'
<1>1. /\ UNCHANGED <<active, advertised, dialog, shown, factory, completed, loaded, cached,
                     failed, boxes, aborted, disk, versioned, loads, second, caller, step>>
      /\ load \in {"check", "ask", "download"} /\ load' \in {"return", "ask", "download"}
      /\ load' = "download" => ~versioned
  BY DEF Check, Decline, Accept, AbortDownload, Incomplete, session, data, download
<1>2. queue' \subseteq Files /\ lost' \in BOOLEAN
  BY DEF Check, Decline, Accept, AbortDownload, Incomplete, download, data, IInv, TypeOK
<1>3. TypeOK'
  BY <1>1, <1>2 DEF IInv, TypeOK
<1>4. Nesting' /\ BoxesKnown'
  BY <1>1 DEF IInv, Nesting, BoxesKnown
<1>5. LoadKnown'
  BY <1>1 DEF IInv, LoadKnown
<1> QED
  BY <1>3, <1>4, <1>5 DEF IInv

\* What every step of LoadInternal does, whatever its reader.
ReadsOne(f) ==
    /\ load = "reading" /\ step \in 1..Len(Order) /\ f = Order[step]
    /\ step' = step + 1
    /\ UNCHANGED <<session, completed, cached, aborted, download, versioned, load, loads,
                   second, caller>>
    /\ loaded \subseteq loaded' /\ loaded' \subseteq loaded \cup {f}
    /\ failed \subseteq failed' /\ failed' \subseteq failed \cup ({f} \ disk)
    /\ f \in Files => (IF f \in disk THEN f \in loaded' ELSE f \in failed')
    /\ f \in Files /\ f \notin disk => loaded' = loaded
    /\ failed' \subseteq failed \cup Files
    /\ boxes' \subseteq Boxes
    /\ boxes' \cap Scalars \subseteq boxes \cup loaded'
    /\ ElNino \in boxes' => ElNino \in boxes /\ (f = ElNino => f \in disk)
    /\ Cyclones \in boxes' => Cyclones \in boxes \/ Theatres \subseteq loaded'

LEMMA ReadStepFacts ==
    ASSUME IInv, ReadStep
    PROVE  \E f \in Range(Order) : ReadsOne(f)
<1>1. ASSUME NEW f, Reading(f)
      PROVE  /\ load = "reading" /\ step \in 1..Len(Order) /\ f = Order[step]
             /\ step' = step + 1 /\ f \in Range(Order)
             /\ UNCHANGED <<session, completed, cached, aborted, download, versioned, load, loads,
                            second, caller>>
  <2>1. step \in 1..Len(Order)
    BY <1>1, OrderTyping DEF Reading, IInv, TypeOK
  <2> QED
    BY <1>1, <2>1, OrderTyping DEF Reading
<1>2. boxes \subseteq Boxes
  BY DEF IInv, TypeOK
<1>3. ASSUME NEW f \in Vectors, ReadVector(f) PROVE ReadsOne(f)
  <2>1. PICK average \in Averages, opened \in BOOLEAN :
            Reading(f) /\ Outcome(f, boxes \cup {b \in {average} : opened})
    BY <1>3 DEF ReadVector, Opens
  <2>2. f \in Files /\ f # ElNino
    BY Kinds, KindsAssumption DEF Freed
  <2>3. average \in Boxes /\ average \notin Scalars /\ average # ElNino /\ average # Cyclones
    BY Kinds, KindsAssumption
  <2> QED
    BY <2>1, <2>2, <2>3, <1>1, <1>2 DEF Outcome, ReadsOne
<1>4. ASSUME NEW f \in Averages, Average(f) PROVE ReadsOne(f)
  <2>1. f \notin Files
    BY Kinds
  <2>2. /\ UNCHANGED <<failed, boxes>> /\ Reading(f)
        /\ loaded \subseteq loaded' /\ loaded' \subseteq loaded \cup {f}
    BY <1>4 DEF Average
  <2> QED
    BY <2>1, <2>2, <1>1, <1>2, Kinds DEF ReadsOne
<1>5. ASSUME NEW f \in Scalars, ReadScalar(f) \/ LoseScalar(f) PROVE ReadsOne(f)
  <2>1. f \in Files /\ f \in Boxes /\ f # ElNino /\ f # Cyclones
    BY Kinds, KindsAssumption
  <2>2. /\ Reading(f)
        /\ IF f \in disk THEN Outcome(f, boxes \cup {f}) ELSE Outcome(f, boxes)
    BY <1>5 DEF ReadScalar, LoseScalar
  <2> QED
    BY <2>1, <2>2, <1>1, <1>2 DEF Outcome, ReadsOne
<1>6. ASSUME NEW f \in Theatres, ReadTheatre(f) PROVE ReadsOne(f)
  <2>1. f \in Files /\ Cyclones \in Boxes /\ Cyclones \notin Scalars /\ Cyclones # ElNino
        /\ f # ElNino
    BY Kinds, KindsAssumption DEF Freed
  <2>2. Reading(f) /\ Outcome(f, boxes \cup {b \in {Cyclones} : Theatres \subseteq loaded'})
    BY <1>6 DEF ReadTheatre
  <2> QED
    BY <2>1, <2>2, <1>1, <1>2 DEF Outcome, ReadsOne
<1>7. ASSUME ReadElNinoYears PROVE ReadsOne(ElNino)
  <2>1. Reading(ElNino) /\ Outcome(ElNino, boxes \ ({ElNino} \ disk))
    BY <1>7 DEF ReadElNinoYears
  <2> QED
    BY <2>1, <1>1, <1>2, Kinds DEF Outcome, ReadsOne
<1>8. \E f : ReadsOne(f)
  BY <1>3, <1>4, <1>5, <1>6, <1>7 DEF ReadStep
<1> QED
  BY <1>8, OrderTyping DEF ReadsOne

LEMMA ReadStepKeeps ==
    ASSUME IInv, ReadStep
    PROVE  IInv'
<1> PICK f \in Range(Order) : ReadsOne(f)
  BY ReadStepFacts
<1> USE DEF ReadsOne
<1>1. UNCHANGED <<active, advertised, dialog, shown, factory, disk, queue, lost>>
  BY DEF session, download
<1>2. step' \in 1..(Len(Order) + 1)
  BY OrderTyping
<1>3. loaded' \subseteq Range(Order) /\ failed' \subseteq Files
  BY DEF IInv, TypeOK
<1>4. TypeOK'
  BY <1>1, <1>2, <1>3 DEF IInv, TypeOK
<1>5. Nesting'
  BY <1>1 DEF IInv, Nesting
<1>6. loaded' \cap Files \subseteq disk /\ failed' \cap disk = {}
  BY DEF IInv, LoadKnown
<1>7. LoadKnown'
  <2>1. ASSUME NEW i \in 1..(step' - 1), Order[i] \in Files
        PROVE  Order[i] \in loaded' \cup failed'
    <3>1. CASE i = step
      BY <2>1, <3>1
    <3>2. CASE i # step
      <4>1. i \in 1..(step - 1)
        BY <3>2
      <4> QED
        BY <2>1, <4>1 DEF IInv, LoadKnown
    <3> QED
      BY <3>1, <3>2
  <2> QED
    BY <1>1, <1>6, <2>1 DEF LoadKnown
<1>8. BoxesKnown'
  <2>1. dialog
    BY DEF IInv, Nesting
  <2>2. ElNino \in boxes' => ElNino \notin failed'
    BY DEF IInv, BoxesKnown
  <2>3. Cyclones \in boxes' => Theatres \subseteq disk /\ Theatres \cap failed' = {}
    <3>1. CASE Theatres \subseteq loaded'
      BY <3>1, <1>6, Kinds
    <3>2. CASE Cyclones \in boxes
      BY <3>2 DEF IInv, BoxesKnown
    <3> QED
      BY <3>1, <3>2
  <2> QED
    BY <1>1, <2>1, <2>2, <2>3 DEF IInv, BoxesKnown
<1> QED
  BY <1>4, <1>5, <1>7, <1>8 DEF IInv

\* A load that was not cut short has come past every file.
LEMMA BuildCacheKeeps ==
    ASSUME IInv, BuildCache
    PROVE  IInv'
<1>1. /\ load = "reading" /\ step > Len(Order) /\ load' = "check"
      /\ (Theatres \subseteq loaded => cached') /\ cached' \in BOOLEAN
      /\ UNCHANGED <<active, advertised, dialog, shown, factory, completed, loaded, failed, boxes,
                     aborted, disk, queue, lost, versioned, loads, second, caller, step>>
  BY DEF BuildCache, session, download
<1>2. TypeOK'
  BY <1>1 DEF IInv, TypeOK
<1>3. Nesting' /\ BoxesKnown'
  BY <1>1 DEF IInv, Nesting, BoxesKnown
<1>4. Files \subseteq loaded \cup failed
  <2>1. 1..Len(Order) \subseteq 1..(step - 1)
    BY <1>1, OrderTyping DEF IInv, TypeOK
  <2> QED
    BY <1>1, <2>1, OrderTyping DEF IInv, LoadKnown
<1>5. LoadKnown'
  BY <1>1, <1>4 DEF IInv, LoadKnown
<1> QED
  BY <1>2, <1>3, <1>5 DEF IInv

LEMMA CancelKeeps ==
    ASSUME IInv, Cancel
    PROVE  IInv'
<1>1. /\ load = "reading" /\ load' = "check" /\ aborted' = TRUE
      /\ UNCHANGED <<active, advertised, dialog, shown, factory, completed, loaded, cached, failed,
                     boxes, disk, queue, lost, versioned, loads, second, caller, step>>
  BY DEF Cancel, session, download
<1>2. TypeOK'
  BY <1>1 DEF IInv, TypeOK
<1>3. Nesting' /\ BoxesKnown' /\ LoadKnown'
  BY <1>1 DEF IInv, Nesting, BoxesKnown, LoadKnown
<1> QED
  BY <1>2, <1>3 DEF IInv

LEMMA DownloadKeeps ==
    ASSUME IInv, NEW f \in Files, Download(f)
    PROVE  IInv'
<1>1. /\ load = "download" /\ disk \subseteq disk' /\ disk' \subseteq Files
      /\ queue' \subseteq Files /\ lost' \in BOOLEAN
      /\ UNCHANGED <<active, advertised, dialog, shown, factory, completed, loaded, cached, failed,
                     boxes, aborted, versioned, load, loads, second, caller, step>>
  BY DEF Download, session, data, IInv, TypeOK
<1>2. TypeOK'
  BY <1>1 DEF IInv, TypeOK
<1>3. Nesting' /\ BoxesKnown' /\ LoadKnown'
  BY <1>1 DEF IInv, Nesting, BoxesKnown, LoadKnown
<1> QED
  BY <1>2, <1>3 DEF IInv

\* The second Load() frees all but the arrays and the ENSO years.
LEMMA LoadAgainKeeps ==
    ASSUME IInv, LoadAgain
    PROVE  IInv'
<1>1. /\ load = "download" /\ load' = "reading" /\ step' = 1 /\ failed' = {}
      /\ cached' = FALSE /\ aborted' = FALSE /\ second' = TRUE /\ loaded' = loaded \ Freed
      /\ UNCHANGED <<active, advertised, dialog, shown, factory, completed, boxes, disk, queue,
                     lost, versioned, loads, caller>>
  BY DEF LoadAgain, StartLoad, session, download
<1>2. TypeOK'
  <2>1. step' \in 1..(Len(Order) + 1)
    BY <1>1, OrderTyping
  <2>2. loaded' \subseteq Range(Order)
    BY <1>1 DEF IInv, TypeOK
  <2> QED
    BY <1>1, <2>1, <2>2 DEF IInv, TypeOK
<1>3. Nesting' /\ LoadKnown'
  BY <1>1 DEF IInv, Nesting, LoadKnown
<1>4. BoxesKnown'
  BY <1>1, KindsAssumption DEF IInv, Nesting, BoxesKnown
<1> QED
  BY <1>2, <1>3, <1>4 DEF IInv

LEMMA CreateKeeps ==
    ASSUME IInv, NEW c \in Creators, Create(c)
    PROVE  IInv'
<1>1. ~dialog /\ load = "none" /\ loads = 0 /\ ~factory
  BY DEF Create, IInv, Nesting
<1>2. /\ dialog' = TRUE /\ shown' = FALSE /\ caller' = c /\ loads' = loads + 1
      /\ second' = FALSE /\ load' = "reading" /\ step' = 1 /\ failed' = {} /\ cached' = FALSE
      /\ aborted' = FALSE /\ loaded' = {} /\ completed' = FALSE /\ boxes' = {ElNino}
      /\ UNCHANGED <<active, advertised, factory, disk, queue, lost, versioned>>
  BY DEF Create, StartConstructor, StartLoad, download
<1>3. TypeOK'
  <2>1. step' \in 1..(Len(Order) + 1)
    BY <1>2, OrderTyping
  <2>2. boxes' \subseteq Boxes /\ loads' \in {0, 1}
    BY <1>1, <1>2, Kinds
  <2> QED
    BY <1>2, <2>1, <2>2 DEF IInv, TypeOK
<1>4. Nesting' /\ LoadKnown'
  BY <1>1, <1>2 DEF Nesting, LoadKnown
<1>5. BoxesKnown'
  BY <1>2, KindsAssumption DEF BoxesKnown
<1> QED
  BY <1>3, <1>4, <1>5 DEF IInv

LEMMA ReturnKeeps ==
    ASSUME IInv, Return
    PROVE  IInv'
<1>1. load = "return" /\ loads = 1 /\ dialog
  BY DEF Return, IInv, Nesting
<1>2. /\ completed' = (failed = {}) /\ factory' = TRUE /\ load' = "none" /\ loads' = loads - 1
      /\ advertised' = (advertised \/ completed') /\ shown' = (caller = "toolbar")
      /\ second' = FALSE /\ step' = 1 /\ lost' = FALSE /\ caller' = "toolbar"
      /\ UNCHANGED <<active, dialog, loaded, cached, failed, boxes, aborted, disk, queue, versioned>>
  BY DEF Return, data
<1>3. TypeOK'
  <2>1. {advertised', shown', completed'} \subseteq BOOLEAN
    BY <1>2 DEF IInv, TypeOK
  <2>2. step' \in 1..(Len(Order) + 1) /\ loads' \in {0, 1}
    BY <1>1, <1>2, OrderTyping
  <2>3. caller' \in Creators
    BY <1>2 DEF Creators
  <2>4. {active, dialog, second, versioned, cached, aborted, factory', lost', second'}
        \subseteq BOOLEAN
    BY <1>2 DEF IInv, TypeOK
  <2>5. {active', advertised', dialog', shown', factory', completed', versioned',
         second', cached', lost', aborted'} \subseteq BOOLEAN
    BY <1>2, <2>1, <2>4
  <2>6. /\ {disk', failed', queue'} \subseteq SUBSET Files
        /\ loaded' \subseteq Range(Order) /\ boxes' \subseteq Boxes /\ load' = "none"
    BY <1>2 DEF IInv, TypeOK
  <2> QED
    BY <2>2, <2>3, <2>5, <2>6 DEF TypeOK
<1>4. Nesting'
  <2>1. completed' => failed' = {}
    BY <1>2
  <2> QED
    BY <1>1, <1>2, <2>1 DEF Nesting
<1>5. LoadKnown' /\ BoxesKnown'
  BY <1>1, <1>2 DEF IInv, LoadKnown, BoxesKnown
<1> QED
  BY <1>3, <1>4, <1>5 DEF IInv

LEMMA DeInitKeeps ==
    ASSUME IInv, DeInit
    PROVE  IInv'
<1>1. /\ load = "none" /\ active' = FALSE /\ advertised' = FALSE /\ dialog' = FALSE
      /\ shown' = FALSE /\ factory' = FALSE /\ completed' = FALSE /\ loaded' = {}
      /\ cached' = FALSE /\ failed' = {} /\ boxes' = {} /\ aborted' = FALSE
      /\ UNCHANGED <<disk, queue, lost, versioned, load, loads, second, caller, step>>
  BY DEF DeInit, download
<1>2. TypeOK'
  BY <1>1 DEF IInv, TypeOK
<1>3. Nesting' /\ LoadKnown' /\ BoxesKnown'
  BY <1>1 DEF IInv, Nesting, LoadKnown, BoxesKnown
<1> QED
  BY <1>2, <1>3 DEF IInv

LEMMA NextIInv == IInv /\ [Next]_vars => IInv'
<1> SUFFICES ASSUME IInv, [Next]_vars PROVE IInv'
  OBVIOUS
<1>1. CASE InitPlugin \/ Request \/ Toolbar \/ Close
  BY <1>1, EventsKeep
<1>2. CASE DeInit
  BY <1>2, DeInitKeeps
<1>3. ASSUME NEW c \in Creators, Create(c) PROVE IInv'
  BY <1>3, CreateKeeps
<1>4. CASE LoadStep
  BY <1>4, ReadStepKeeps, BuildCacheKeeps, CancelKeeps, VerdictsKeep, DownloadKeeps,
     LoadAgainKeeps, ReturnKeeps DEF LoadStep
<1>5. CASE UNCHANGED vars
  <2>1. TypeOK' /\ Nesting'
    BY <1>5 DEF vars, session, data, download, IInv, TypeOK, Nesting
  <2>2. LoadKnown' /\ BoxesKnown'
    BY <1>5 DEF vars, session, data, download, IInv, LoadKnown, BoxesKnown
  <2> QED
    BY <2>1, <2>2 DEF IInv
<1> QED
  BY <1>1, <1>2, <1>3, <1>4, <1>5 DEF Next

LEMMA InvariantHolds == Spec => []IInv
BY InitIInv, NextIInv, PTL DEF Spec

-----------------------------------------------------------------------------
(* What is proved of the plugin's life                                     *)

\* Type correctness of the two singletons' state.
THEOREM TypeCorrect == Spec => []TypeOK
BY InvariantHolds, PTL DEF IInv

\* Whatever calls nest in the event loops of CreateOverlayFactory, one factory
\* is under construction at a time, and none of its fields answers meanwhile.
THEOREM NothingHalfBuilt == Spec => []NoHalfBuiltAnswer
<1>1. IInv => NoHalfBuiltAnswer
  BY DEF IInv, Nesting, NoHalfBuiltAnswer, Status
<1> QED
  BY <1>1, InvariantHolds, PTL

LEMMA AnswersHaveData == IInv => ValuesAreRead
<1> SUFFICES ASSUME IInv, ~aborted PROVE ValuesAreRead
  BY DEF ValuesAreRead
<1>1. ASSUME completed PROVE Files \subseteq loaded /\ cached
  <2>1. factory /\ failed = {} /\ load = "none" /\ dialog
    BY <1>1 DEF IInv, Nesting
  <2> QED
    BY <2>1, Kinds DEF IInv, LoadKnown
<1>2. ASSUME NEW c \in Consumers \ {"crossings"}, NEW f \in Asks(c), Status(c, f) = "value"
      PROVE  f \in loaded /\ (f \in Averages => AverageOf[f] \subseteq loaded)
  <2>1. f \in Vectors \cup Scalars \cup Averages
    BY <1>2 DEF Asks
  <2>2. Has(c, f)
    BY <1>2 DEF Status
  <2>3. CASE c = "atlas"
    BY <2>2, <2>3, Kinds DEF Has
  <2>4. CASE c # "atlas"
    <3>1. completed /\ (f \in Freed => f \in loaded)
      BY <1>2, <2>2, <2>4 DEF Has, Consumers
    <3> QED
      BY <1>1, <2>1, <3>1, Kinds DEF Freed
  <2> QED
    BY <2>3, <2>4
<1> QED
  BY <1>1, <1>2, Kinds DEF ValuesAreRead

\* A value the providers, the readout or the wind atlas give was read from its
\* file, unless the user cut the load short (LoadInternal, getValueMonth).
THEOREM EveryValueWasRead == Spec => []ValuesAreRead
BY AnswersHaveData, InvariantHolds, PTL

\* A check box the user can tick has its data, after a second load too.
THEOREM EveryBoxHasData == Spec => []BoxesHaveData
<1>1. IInv => BoxesHaveData
  BY Kinds DEF IInv, Nesting, LoadKnown, BoxesKnown, BoxesHaveData
<1> QED
  BY <1>1, InvariantHolds, PTL

LEMMA StepKeepsVersioned ==
    ASSUME IInv, [Next]_vars, versioned
    PROVE  disk' = disk
<1>1. ASSUME NEW f \in Files, Download(f) PROVE FALSE
  BY <1>1 DEF Download, IInv, Nesting
<1>2. ASSUME ReadStep PROVE disk' = disk
  BY <1>2, ReadStepFacts DEF ReadsOne, download
<1>3. CASE LoadStep
  BY <1>1, <1>2, <1>3 DEF LoadStep, BuildCache, Cancel, Check, Decline, Accept, AbortDownload,
     Incomplete, LoadAgain, Return, download
<1> QED
  BY <1>3 DEF Next, InitPlugin, DeInit, Request, Create, StartConstructor, Toolbar, Close,
     vars, download

\* No path of the constructor writes a file of a versioned dataset.
THEOREM VersionedStays == Spec => VersionedUntouched
<1>1. IInv /\ [Next]_vars => [versioned => disk' = disk]_vars
  BY StepKeepsVersioned
<1> QED
  BY <1>1, InvariantHolds, PTL DEF Spec, VersionedUntouched
=============================================================================
