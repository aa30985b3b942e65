---------------------------- MODULE SessionProofs ----------------------------
(***************************************************************************)
(* Theorems about CharDevice, for every number of boards and of files, and *)
(* about Sessions, for every number of processes, names, boards and        *)
(* handles.                                                                *)
(***************************************************************************)
EXTENDS Sessions, FiniteSetTheorems, SequenceTheorems, WellFoundedInduction, TLAPS

Steps == {"none", "detect", "alloc", "probe", "request", "buffers", "hardware",
          "clean", "free"}
OfBoard == Kinds \cup {"pde"}
Opened == {f \in Files : files[f] # None}

ModuleType ==
  [state: {"out", "coming", "live", "going"}, step: Steps, board: -1 .. MaxDevice - 1,
   inner: BOOLEAN, loads: Nat]

DeviceType ==
  /\ mod \in ModuleType
  /\ pde \in [Minors -> Extension \cup {None}]
  /\ files \in [Files -> OpenFile \cup {None}]
  /\ refs \in Int

\* Where db2k_init and db2k_cleanup are, by the state of the module.
Phases ==
  /\ mod.state \in {"out", "live"} <=> mod.step = "none"
  /\ mod.state = "going" => mod.step \in {"clean", "free"}
  /\ mod.step \in {"detect", "alloc"} => Found = {}
  /\ mod.step \in {"probe", "request"} => 0 \in Found
  /\ mod.step \in {"buffers", "hardware", "free"} => mod.board \in Found
  /\ mod.step \in {"clean", "free"} => \A i \in Found : i <= mod.board

\* The kernel has given to a board exactly what its extension notes, but for
\* what db2k_cleanup has already given back of the board it is at.
Noted ==
  \A k \in OfBoard, i \in Minors :
     <<k, i>> \in held <=>
        /\ i \in Found
        /\ k = "pde" \/ k \in pde[i].has
        /\ mod.step = "free" /\ mod.board = i => k \in {"irq", "regions", "pde"}

\* Nothing else is held but entries and major number of the module.
Others ==
  /\ held \subseteq (OfBoard \X Minors) \cup On("module", Global)
  /\ again \subseteq On("module", Global)
  /\ mod.state = "out" \/ mod.step = "detect" => held \subseteq On("module", {"proc"})

\* Boards are found and freed in order.
InRow == \E n \in 0 .. MaxDevice : Found = 0 .. n - 1

Full(i) == {"readbuf", "writebuf", "in_buf", "out_buf", "map"} \subseteq pde[i].has

\* How far db2k_init has come with the boards.
Equipped ==
  /\ mod.step = "probe" => \A i \in Found : pde[i].has = {}
  /\ mod.step \in {"request", "buffers", "hardware"} => \A i \in Found : "map" \in pde[i].has
  /\ mod.step \in {"buffers", "hardware"} => \A i \in Found : i < mod.board => Full(i)
  /\ mod.step = "hardware" => Full(mod.board)
  /\ mod.state = "live" => \A i \in Found : Full(i)
  /\ \A i \in Found : pde[i].online => Full(i)
  /\ \A i \in Found : "irq" \in pde[i].has => "map" \in pde[i].has

\* While the module is in, its count is at least that of its files, so that
\* rmmod finds it in use; and only a file opened during db2k_init can lose it.
Counted ==
  /\ refs >= 0
  /\ mod.state # "out" => refs >= 2 * Cardinality(Opened)
  /\ mod.state = "going" => Opened = {}
  /\ \A f \in Opened : ~files[f].early => mod.state = "live" /\ files[f].minor \in Found

DevInv == DeviceType /\ Phases /\ Noted /\ Others /\ InRow /\ Equipped /\ Counted

LEMMA FourBuffers ==
  /\ FirstBuffers(4) = {"readbuf", "writebuf", "in_buf", "out_buf"}
  /\ Kinds = {"readbuf", "writebuf", "in_buf", "out_buf", "map", "regions", "irq"}
<1>1. 1 .. 4 = {1, 2, 3, 4}
  OBVIOUS
<1>2. FirstBuffers(4) = {Buffers[1], Buffers[2], Buffers[3], Buffers[4]}
  BY <1>1 DEF FirstBuffers
<1>3. Buffers[1] = "readbuf" /\ Buffers[2] = "writebuf" /\ Buffers[3] = "in_buf"
      /\ Buffers[4] = "out_buf"
  BY DEF Buffers
<1>4. FirstBuffers(4) = {"readbuf", "writebuf", "in_buf", "out_buf"}
  BY <1>2, <1>3
<1> QED BY <1>4 DEF Kinds

LEMMA SomeBuffers ==
  ASSUME NEW n \in 0 .. 4
  PROVE  FirstBuffers(n) \subseteq FirstBuffers(4)
BY DEF FirstBuffers

\* What the invariant says of the property: that it is enough.
LEMMA InvSound == DevInv => ModuleSound
<1> SUFFICES ASSUME DevInv PROVE ModuleSound
  OBVIOUS
<1> USE FourBuffers DEF DevInv
<1>1. LeavesNothing
  BY DEF LeavesNothing, Others
<1>2. ASSUME NEW i \in Found, Full(i), mod.step # "free"
      PROVE  On(i, FirstBuffers(4) \cup {"map", "pde"}) \subseteq held
  <2>1. \A k \in {"readbuf", "writebuf", "in_buf", "out_buf", "map", "pde"} : <<k, i>> \in held
    BY <1>2 DEF Noted, OfBoard, Full, Found
  <2> QED BY <2>1 DEF On
<1>3. ASSUME NEW f \in Files, files[f] # None, ~files[f].early
      PROVE  /\ mod.state = "live" /\ pde[files[f].minor] # None
             /\ On(files[f].minor, FirstBuffers(4) \cup {"map", "pde"}) \subseteq held
  <2>1. mod.state = "live" /\ files[f].minor \in Found /\ mod.step # "free"
    BY <1>3 DEF Counted, Opened, Phases
  <2>2. Full(files[f].minor)
    BY <2>1 DEF Equipped
  <2> QED BY <2>1, <2>2, <1>2 DEF Found
<1>4. ASSUME NEW i \in Found, pde[i].online, mod.step \notin {"clean", "free"}
      PROVE  On(i, FirstBuffers(4) \cup {"map"}) \subseteq held
  BY <1>4, <1>2 DEF Equipped, On
<1>5. ASSUME NEW i \in Minors, <<"irq", i>> \in held
      PROVE  <<"map", i>> \in held \/ mod.step = "free"
  BY <1>5 DEF Noted, OfBoard, Equipped
<1> QED BY <1>1, <1>3, <1>4, <1>5 DEF ModuleSound, CallsAreBacked

\* There is no module yet.
LEMMA InitInv == InitDevice => DevInv
<1> SUFFICES ASSUME InitDevice PROVE DevInv
  OBVIOUS
<1> USE DeviceAssumption, NoneAssumption DEF InitDevice, ModuleType
<1>1. Found = {} /\ Opened = {}
  BY DEF Found, Opened
<1>2. DeviceType
  BY DEF DeviceType, Steps, Minors
<1>3. Phases /\ Others
  BY <1>1 DEF Phases, Others
<1>4. Noted /\ Equipped
  BY <1>1 DEF Noted, Equipped
<1>5. InRow
  <2>1. Found = 0 .. 0 - 1 /\ 0 \in 0 .. MaxDevice
    BY <1>1
  <2> QED BY <2>1 DEF InRow
<1>6. Counted
  BY <1>1, FS_EmptySet DEF Counted
<1> QED BY <1>2, <1>3, <1>4, <1>5, <1>6 DEF DevInv

LEMMA KindNames ==
  /\ OfBoard = {"readbuf", "writebuf", "in_buf", "out_buf", "map", "regions", "irq", "pde"}
  /\ Kinds = OfBoard \ {"pde"}
  /\ Global = {"proc", "chrdev"} /\ "proc" \notin OfBoard /\ "chrdev" \notin OfBoard
BY FourBuffers DEF OfBoard, Global

LEMMA CleanupEntered ==
  ASSUME mod \in ModuleType, NEW state \in {"coming", "going"}, NEW inner \in BOOLEAN,
         Cleanup(state, inner)
  PROVE  /\ mod' \in ModuleType /\ mod'.state = state /\ mod'.step = "clean"
         /\ mod'.board = MaxDevice - 1
<1>1. MaxDevice - 1 \in -1 .. MaxDevice - 1
  BY DeviceAssumption
<1> QED BY <1>1 DEF Cleanup, ModuleType, Steps

LEMMA Gone ==
  ASSUME mod \in ModuleType, NEW step \in Steps, Go(step)
  PROVE  mod' \in ModuleType /\ mod'.state = mod.state /\ mod'.step = step
         /\ mod'.board = mod.board
BY DEF Go, ModuleType

\* db2k_init, db2k_cleanup, modprobe and rmmod keep the invariant.
LEMMA LoadInv == DevInv /\ Load => DevInv'
<1> SUFFICES ASSUME DevInv, Load PROVE DevInv'
  OBVIOUS
<1> USE DeviceAssumption, NoneAssumption, KindNames DEF DevInv
<1>1. /\ mod.state = "out" /\ mod.step = "none"
      /\ mod'.state = "coming" /\ mod'.step = "detect" /\ mod'.board = mod.board
  BY DEF Load, DeviceType, At, ModuleType
<1>9. mod' \in ModuleType
  <2>1. mod.loads + 1 \in Nat
    BY DEF DeviceType, ModuleType
  <2> QED BY <2>1 DEF Load, DeviceType, ModuleType, Steps
<1>2. Found = {} /\ Found' = {} /\ Opened = {} /\ Opened' = {}
  BY DEF Load, Found, Noted, Opened
<1>3. DeviceType'
  BY <1>9 DEF Load, DeviceType
<1>4. Phases' /\ InRow'
  BY <1>1, <1>2 DEF Phases, InRow, Load
<1>5. Others'
  BY <1>1 DEF Load, Others, On
<1>6. Noted'
  BY <1>2 DEF Load, Noted, On, Global
<1>7. Equipped'
  BY <1>1, <1>2 DEF Equipped
<1>8. Counted'
  BY <1>1, <1>2, FS_EmptySet DEF Counted, Load, DeviceType
<1> QED BY <1>3, <1>4, <1>5, <1>6, <1>7, <1>8

LEMMA DetectNoneInv == DevInv /\ DetectNone => DevInv'
<1> SUFFICES ASSUME DevInv, DetectNone PROVE DevInv'
  OBVIOUS
<1> USE DeviceAssumption, NoneAssumption, KindNames DEF DevInv
<1>1. /\ mod.state = "coming" /\ mod.step = "detect"
      /\ mod' \in ModuleType /\ mod'.state = "out" /\ mod'.step = "none" /\ mod'.board = mod.board
  BY DEF DetectNone, DeviceType, At, ModuleType, Steps
<1>2. Found = {} /\ Found' = {} /\ Opened' = Opened
  BY <1>1 DEF DetectNone, Found, Opened, Phases
<1>3. DeviceType' /\ Phases' /\ InRow' /\ Others'
  BY <1>1, <1>2 DEF DetectNone, DeviceType, Phases, InRow, Others
<1>4. Noted' /\ Equipped'
  BY <1>1, <1>2 DEF DetectNone, Noted, Equipped
<1>5. Counted'
  BY <1>1, <1>2 DEF DetectNone, Counted
<1> QED BY <1>3, <1>4, <1>5

LEMMA RegisterInv == DevInv /\ Register => DevInv'
<1> SUFFICES ASSUME DevInv, Register PROVE DevInv'
  OBVIOUS
<1> USE DeviceAssumption, NoneAssumption, KindNames DEF DevInv
<1>1. /\ mod.state = "coming" /\ mod.step = "detect"
      /\ mod' \in ModuleType /\ mod'.state = "coming" /\ mod'.step = "alloc" /\ mod'.board = mod.board
  BY DEF Register, DeviceType, At, Go, ModuleType, Steps
<1>2. Found = {} /\ Found' = {} /\ Opened' = Opened
  BY <1>1 DEF Register, Found, Opened, Phases
<1>3. DeviceType' /\ Phases' /\ InRow' /\ Others'
  BY <1>1, <1>2 DEF Register, DeviceType, Phases, InRow, Others, On
<1>4. Noted' /\ Equipped'
  BY <1>1, <1>2 DEF Register, Noted, Equipped, On
<1>5. Counted'
  BY <1>1, <1>2 DEF Register, Counted
<1> QED BY <1>3, <1>4, <1>5

LEMMA RegisterFailsInv == DevInv /\ RegisterFails => DevInv'
<1> SUFFICES ASSUME DevInv, RegisterFails PROVE DevInv'
  OBVIOUS
<1> USE DeviceAssumption, NoneAssumption, KindNames DEF DevInv
<1>1. /\ mod.state = "coming" /\ mod.step = "detect"
      /\ mod' \in ModuleType /\ mod'.state = "live" /\ mod'.step = "none" /\ mod'.board = mod.board
  BY DEF RegisterFails, DeviceType, At, Go, ModuleType, Steps
<1>2. Found = {} /\ Found' = {} /\ Opened' = Opened
  BY <1>1 DEF RegisterFails, Found, Opened, Phases
<1>3. DeviceType' /\ Phases' /\ InRow' /\ Others'
  BY <1>1, <1>2 DEF RegisterFails, DeviceType, Phases, InRow, Others, On
<1>4. Noted' /\ Equipped'
  BY <1>1, <1>2 DEF RegisterFails, Noted, Equipped, On
<1>5. Counted'
  BY <1>1, <1>2 DEF RegisterFails, Counted
<1> QED BY <1>3, <1>4, <1>5

LEMMA AllocInv == DevInv /\ Alloc => DevInv'
<1> SUFFICES ASSUME DevInv, Alloc PROVE DevInv'
  OBVIOUS
<1> USE DeviceAssumption, NoneAssumption, KindNames DEF DevInv
<1>0. PICK n \in Minors \cup {MaxDevice} :
        /\ pde' = [i \in Minors |-> IF i < n THEN NewPde ELSE None]
        /\ held' = held \cup ({"pde"} \X (0 .. n - 1))
        /\ \/ n > 0 /\ Go("probe")
           \/ n < MaxDevice /\ Cleanup("coming", FALSE)
  BY DEF Alloc
<1>1. /\ mod.state = "coming" /\ mod.step = "alloc" /\ mod' \in ModuleType
      /\ mod'.state = "coming" /\ n \in 0 .. MaxDevice
      /\ \/ n > 0 /\ mod'.step = "probe"
         \/ mod'.step = "clean" /\ mod'.board = MaxDevice - 1
  <2>1. n \in 0 .. MaxDevice
    BY DEF Minors
  <2> QED BY <1>0, <2>1, CleanupEntered, Gone DEF Alloc, DeviceType, At, Steps
<1>2. NewPde \in Extension /\ NewPde.has = {} /\ NewPde.online = FALSE
  BY DEF NewPde, Extension
<1>3. Found = {} /\ Found' = 0 .. n - 1 /\ Opened' = Opened
  BY <1>0, <1>1, <1>2 DEF Alloc, Found, Opened, Phases, Minors
<1>4. \A i \in Found' : pde'[i] = NewPde
  BY <1>0, <1>1, <1>3 DEF Minors
<1>5. DeviceType'
  BY <1>0, <1>1, <1>2 DEF Alloc, DeviceType
<1>6. Phases'
  BY <1>1, <1>3 DEF Phases, Minors
<1>7. InRow'
  BY <1>1, <1>3 DEF InRow
<1>8. Others'
  BY <1>0, <1>1 DEF Alloc, Others, Minors
<1>9. Noted'
  <2> SUFFICES ASSUME NEW k \in OfBoard, NEW i \in Minors
               PROVE  <<k, i>> \in held' <=> i \in 0 .. n - 1 /\ k = "pde"
    BY <1>1, <1>2, <1>3, <1>4 DEF Noted
  <2> QED BY <1>0, <1>3 DEF Noted
<1>10. Equipped'
  BY <1>1, <1>2, <1>4 DEF Equipped
<1>11. Counted'
  BY <1>1, <1>3 DEF Alloc, Counted
<1> QED BY <1>5, <1>6, <1>7, <1>8, <1>9, <1>10, <1>11

LEMMA ProbeInv == DevInv /\ Probe => DevInv'
<1> SUFFICES ASSUME DevInv, Probe PROVE DevInv'
  OBVIOUS
<1> USE DeviceAssumption, NoneAssumption, KindNames DEF DevInv
<1>0. PICK n \in 0 .. Cardinality(Found) :
        /\ Take({"map"}, 0 .. n - 1)
        /\ \/ n = Cardinality(Found) /\ Go("request")
           \/ Cleanup("coming", FALSE)
  BY DEF Probe
<1>1. PICK m \in 0 .. MaxDevice : Found = 0 .. m - 1
  BY DEF InRow
<1>2. Cardinality(Found) = m /\ n \in 0 .. m /\ Found \subseteq Minors
  <2>1. Cardinality(0 .. m - 1) = IF 0 > m - 1 THEN 0 ELSE m - 1 - 0 + 1
    <3>1. 0 \in Int /\ m - 1 \in Int
      OBVIOUS
    <3> QED BY <3>1, FS_Interval
  <2>2. Cardinality(Found) = m
    BY <2>1, <1>1
  <2>3. Found \subseteq Minors
    BY DEF Found
  <2> QED BY <2>2, <2>3
<1>3. /\ mod.state = "coming" /\ mod.step = "probe" /\ mod' \in ModuleType
      /\ mod'.state = "coming"
      /\ \/ n = m /\ mod'.step = "request"
         \/ mod'.step = "clean" /\ mod'.board = MaxDevice - 1
  BY <1>0, <1>2, CleanupEntered, Gone DEF Probe, DeviceType, At, Steps
<1>4. /\ \A i \in Minors \ (0 .. n - 1) : pde'[i] = pde[i]
      /\ \A i \in 0 .. n - 1 : pde'[i] \in Extension /\ pde'[i].has = pde[i].has \cup {"map"}
                                 /\ pde'[i].online = pde[i].online
  BY <1>0, <1>1, <1>2 DEF Take, DeviceType, Extension, Found
<1>5. Found' = Found /\ Opened' = Opened
  BY <1>1, <1>2, <1>4 DEF Probe, Found, Opened
<1>6. DeviceType'
  BY <1>0, <1>3, <1>4 DEF Probe, Take, DeviceType
<1>7. Phases'
  BY <1>1, <1>3, <1>5 DEF Phases, Minors
<1>8. InRow'
  BY <1>5 DEF InRow
<1>9. Others'
  BY <1>0, <1>1, <1>2, <1>3 DEF Probe, Take, Others, Minors
<1>10. Noted'
  <2> SUFFICES ASSUME NEW k \in OfBoard, NEW i \in Minors
               PROVE  <<k, i>> \in held' <=> i \in Found /\ (k = "pde" \/ k \in pde'[i].has)
    BY <1>3, <1>5 DEF Noted
  <2>1. <<k, i>> \in held' <=> <<k, i>> \in held \/ (k = "map" /\ i \in 0 .. n - 1)
    BY <1>0 DEF Take
  <2> QED BY <2>1, <1>1, <1>2, <1>3, <1>4 DEF Noted
<1>11. Equipped'
  BY <1>1, <1>2, <1>3, <1>4, <1>5 DEF Equipped, Full, DeviceType, Extension
<1>12. Counted'
  BY <1>3, <1>5 DEF Probe, Counted
<1> QED BY <1>6, <1>7, <1>8, <1>9, <1>10, <1>11, <1>12

LEMMA RequestInv == DevInv /\ Request => DevInv'
<1> SUFFICES ASSUME DevInv, Request PROVE DevInv'
  OBVIOUS
<1> USE DeviceAssumption, NoneAssumption, KindNames DEF DevInv
<1>0. PICK irqs \in SUBSET Found :
        /\ held' = held \cup ({"regions"} \X Found) \cup ({"irq"} \X irqs)
        /\ pde' = [i \in Minors |->
                     IF i \notin Found THEN None
                     ELSE [pde[i] EXCEPT !.has = @ \cup {"regions"}
                             \cup (IF i \in irqs THEN {"irq"} ELSE {})]]
  BY DEF Request
<1>1. /\ mod.state = "coming" /\ mod.step = "request" /\ mod' \in ModuleType
      /\ mod'.state = "coming" /\ mod'.step = "buffers" /\ mod'.board = 0
  <2>1. 0 \in -1 .. MaxDevice - 1
    OBVIOUS
  <2> QED BY <2>1 DEF Request, DeviceType, At, ModuleType, Steps
<1>2. /\ \A i \in Minors \ Found : pde'[i] = None
      /\ \A i \in Found :
           /\ pde'[i] \in Extension
           /\ pde'[i].has = pde[i].has \cup {"regions"} \cup (IF i \in irqs THEN {"irq"} ELSE {})
           /\ pde'[i].online = pde[i].online
  BY <1>0 DEF DeviceType, Extension, Found
<1>3. Found' = Found /\ Opened' = Opened
  BY <1>2 DEF Request, Found, Opened
<1>4. DeviceType'
  BY <1>0, <1>1, <1>2 DEF Request, DeviceType
<1>5. Phases' /\ InRow'
  BY <1>1, <1>3 DEF Phases, InRow
<1>6. Others'
  BY <1>0, <1>1 DEF Request, Others, Found
<1>7. Noted'
  <2> SUFFICES ASSUME NEW k \in OfBoard, NEW i \in Minors
               PROVE  <<k, i>> \in held' <=> i \in Found /\ (k = "pde" \/ k \in pde'[i].has)
    BY <1>1, <1>3 DEF Noted
  <2>1. <<k, i>> \in held' <=>
          <<k, i>> \in held \/ (k = "regions" /\ i \in Found) \/ (k = "irq" /\ i \in irqs)
    BY <1>0
  <2>2. CASE i \in Found
    <3>1. k \in pde'[i].has <=>
            k \in pde[i].has \/ k = "regions" \/ (k = "irq" /\ i \in irqs)
      BY <2>2, <1>2
    <3> QED BY <2>1, <2>2, <3>1, <1>1 DEF Noted
  <2>3. CASE i \notin Found
    BY <2>1, <2>3, <1>0, <1>1 DEF Noted
  <2> QED BY <2>2, <2>3
<1>8. Equipped'
  BY <1>1, <1>2, <1>3 DEF Equipped, Full, Minors, Found
<1>9. Counted'
  BY <1>1, <1>3 DEF Request, Counted
<1> QED BY <1>4, <1>5, <1>6, <1>7, <1>8, <1>9

LEMMA AllocateBuffersInv == DevInv /\ AllocateBuffers => DevInv'
<1> SUFFICES ASSUME DevInv, AllocateBuffers PROVE DevInv'
  OBVIOUS
<1> USE DeviceAssumption, NoneAssumption, KindNames DEF DevInv
<1>0. PICK n \in 0 .. 4 :
        /\ Take(FirstBuffers(n), {mod.board})
        /\ IF n = 4 THEN Go("hardware") ELSE Cleanup("coming", TRUE)
  BY DEF AllocateBuffers
<1>1. /\ mod.state = "coming" /\ mod.step = "buffers" /\ mod' \in ModuleType
      /\ mod'.state = "coming" /\ mod.board \in Found
      /\ \/ n = 4 /\ mod'.step = "hardware" /\ mod'.board = mod.board
         \/ mod'.step = "clean" /\ mod'.board = MaxDevice - 1
  BY <1>0, CleanupEntered, Gone DEF AllocateBuffers, DeviceType, At, Steps, Phases
<1>2. FirstBuffers(n) \subseteq {"readbuf", "writebuf", "in_buf", "out_buf"}
      /\ (n = 4 => FirstBuffers(n) = {"readbuf", "writebuf", "in_buf", "out_buf"})
  BY FourBuffers, SomeBuffers
<1>3. /\ \A i \in Minors \ {mod.board} : pde'[i] = pde[i]
      /\ pde'[mod.board] \in Extension
      /\ pde'[mod.board].has = pde[mod.board].has \cup FirstBuffers(n)
      /\ pde'[mod.board].online = pde[mod.board].online
  BY <1>0, <1>1, <1>2 DEF Take, DeviceType, Extension, Found
<1>4. Found' = Found /\ Opened' = Opened /\ Found \subseteq Minors
  BY <1>1, <1>3 DEF AllocateBuffers, Found, Opened
<1>5. DeviceType'
  BY <1>0, <1>1, <1>3, <1>4 DEF AllocateBuffers, Take, DeviceType
<1>6. Phases' /\ InRow'
  BY <1>1, <1>4 DEF Phases, InRow, Minors
<1>7. Others'
  BY <1>0, <1>1, <1>2, <1>4 DEF AllocateBuffers, Take, Others
<1>8. Noted'
  <2> SUFFICES ASSUME NEW k \in OfBoard, NEW i \in Minors
               PROVE  <<k, i>> \in held' <=> i \in Found /\ (k = "pde" \/ k \in pde'[i].has)
    BY <1>1, <1>4 DEF Noted
  <2>1. <<k, i>> \in held' <=> <<k, i>> \in held \/ (k \in FirstBuffers(n) /\ i = mod.board)
    BY <1>0 DEF Take
  <2> QED BY <2>1, <1>1, <1>2, <1>3 DEF Noted
<1>9. Equipped'
  BY <1>1, <1>2, <1>3, <1>4 DEF Equipped, Full
<1>10. Counted'
  BY <1>1, <1>4 DEF AllocateBuffers, Counted
<1> QED BY <1>5, <1>6, <1>7, <1>8, <1>9, <1>10

LEMMA StartHardwareInv == DevInv /\ StartHardware => DevInv'
<1> SUFFICES ASSUME DevInv, StartHardware PROVE DevInv'
  OBVIOUS
<1> USE DeviceAssumption, NoneAssumption, KindNames DEF DevInv
<1>1. /\ mod.state = "coming" /\ mod.step = "hardware" /\ mod.board \in Found
      /\ mod.board \in Minors
  BY DEF StartHardware, At, Phases, Found
<1>2. /\ \A i \in Minors \ {mod.board} : pde'[i] = pde[i]
      /\ pde'[mod.board] \in Extension /\ pde'[mod.board].has = pde[mod.board].has
  <2>1. pde[mod.board] \in Extension /\ pde \in [Minors -> Extension \cup {None}]
    BY <1>1 DEF DeviceType, Found
  <2>2. [pde[mod.board] EXCEPT !.online = TRUE] \in Extension
        /\ [pde[mod.board] EXCEPT !.online = TRUE].has = pde[mod.board].has
    BY <2>1 DEF Extension
  <2>3. pde' = pde
        \/ pde' = [pde EXCEPT ![mod.board] = [pde[mod.board] EXCEPT !.online = TRUE]]
    BY DEF StartHardware
  <2> QED BY <1>1, <2>1, <2>2, <2>3
<1>3. Found' = Found /\ Opened' = Opened /\ \A i \in Found : pde'[i].has = pde[i].has
  BY <1>1, <1>2 DEF StartHardware, Found, Opened
<1>4. /\ mod' \in ModuleType
      /\ \/ /\ mod'.state = "coming" /\ mod'.step = "buffers"
            /\ mod'.board = mod.board + 1 /\ mod'.board \in Found
         \/ mod'.state = "live" /\ mod'.step = "none" /\ mod.board + 1 \notin Found
         \/ mod'.state = "coming" /\ mod'.step = "clean" /\ mod'.board = MaxDevice - 1
  <2>1. CASE NextBoard /\ mod.board + 1 \in Found
    <3>1. mod.board + 1 \in -1 .. MaxDevice - 1
      BY <2>1 DEF Found, Minors
    <3> QED BY <2>1, <3>1, <1>1 DEF NextBoard, DeviceType, ModuleType, Steps
  <2>2. CASE NextBoard /\ mod.board + 1 \notin Found
    BY <2>2 DEF NextBoard, DeviceType, ModuleType, Steps
  <2>3. CASE Cleanup("coming", FALSE)
    BY <2>3, CleanupEntered DEF DeviceType
  <2> QED BY <2>1, <2>2, <2>3 DEF StartHardware
<1>5. DeviceType'
  <2>1. pde' \in [Minors -> Extension \cup {None}]
    BY <1>1, <1>2 DEF StartHardware, DeviceType
  <2> QED BY <2>1, <1>4 DEF StartHardware, DeviceType
<1>6. Phases' /\ InRow'
  BY <1>3, <1>4 DEF Phases, InRow, Found, Minors
<1>7. Others'
  BY <1>1, <1>4 DEF StartHardware, Others
<1>8. Noted'
  BY <1>1, <1>3, <1>4 DEF StartHardware, Noted
<1>9. Equipped'
  <2>1. \A i \in Found : i <= mod.board => Full(i)
    BY <1>1 DEF Equipped, Found, Minors
  <2>2. \A i \in Found : i <= mod.board => Full(i)'
    BY <2>1, <1>3 DEF Full
  <2>3. mod'.state = "live" => \A i \in Found : i <= mod.board
    <3>1. PICK n \in 0 .. MaxDevice : Found = 0 .. n - 1
      BY DEF InRow
    <3> QED BY <3>1, <1>1, <1>4
  <2>4. mod'.step = "buffers" => mod'.board = mod.board + 1 /\ \A i \in Found : i \in Int
    BY <1>4 DEF Found, Minors
  <2>5. \A i \in Found : pde'[i].online => Full(i)'
    <3>1. \A i \in Found : i # mod.board => pde'[i].online = pde[i].online
      BY <1>2 DEF Found
    <3> QED BY <2>2, <3>1, <1>1, <1>3 DEF Equipped, Full, Found, Minors
  <2> QED BY <1>1, <1>3, <1>4, <2>2, <2>3, <2>4, <2>5 DEF Equipped, Minors
<1>10. Counted'
  BY <1>1, <1>3, <1>4 DEF StartHardware, Counted
<1> QED BY <1>5, <1>6, <1>7, <1>8, <1>9, <1>10

LEMMA CleanBuffersInv == DevInv /\ CleanBuffers => DevInv'
<1> SUFFICES ASSUME DevInv, CleanBuffers PROVE DevInv'
  OBVIOUS
<1> USE DeviceAssumption, NoneAssumption, KindNames DEF DevInv
<1>1. mod.step = "clean" /\ mod.board \in Minors /\ mod.state \in {"coming", "going"}
  BY DEF CleanBuffers, Phases, DeviceType, ModuleType
<1>2. Found' = Found /\ Opened' = Opened /\ pde' = pde
  BY DEF CleanBuffers, Found, Opened
<1>3. CASE pde[mod.board] = None
  <2>1. /\ mod' \in ModuleType /\ mod'.state = mod.state /\ mod'.step = mod.step
        /\ mod'.board = mod.board - 1
    <3>1. mod.board - 1 \in -1 .. MaxDevice - 1
      BY <1>1 DEF Minors
    <3> QED BY <1>3, <3>1 DEF CleanBuffers, DeviceType, ModuleType
  <2>2. mod.board \notin Found
    BY <1>3 DEF Found
  <2>3. DeviceType' /\ Phases' /\ InRow'
    BY <1>1, <1>2, <2>1, <2>2 DEF CleanBuffers, DeviceType, Phases, InRow, Found, Minors
  <2>4. Others' /\ Noted' /\ Equipped' /\ Counted'
    BY <1>1, <1>2, <1>3, <2>1 DEF CleanBuffers, Others, Noted, Equipped, Counted, Full
  <2> QED BY <2>3, <2>4
<1>4. CASE pde[mod.board] # None
  <2>1. /\ mod' \in ModuleType /\ mod'.state = mod.state /\ mod'.step = "free"
        /\ mod'.board = mod.board
    BY <1>4, Gone DEF CleanBuffers, DeviceType, Steps
  <2>2. mod.board \in Found /\ pde[mod.board].has \subseteq Kinds
    BY <1>1, <1>4 DEF Found, DeviceType, Extension
  <2>3. On(mod.board, pde[mod.board].has \ {"irq", "regions"}) \subseteq held
    BY <1>1, <2>2 DEF On, Noted
  <2>4. DeviceType' /\ Phases' /\ InRow'
    BY <1>1, <1>2, <2>1, <2>2 DEF CleanBuffers, DeviceType, Phases, InRow
  <2>5. Others'
    BY <1>1, <1>4, <2>1, <2>3 DEF CleanBuffers, Release, Others
  <2>6. Noted'
    <3> SUFFICES ASSUME NEW k \in OfBoard, NEW i \in Minors
                 PROVE  <<k, i>> \in held' <=>
                          /\ i \in Found
                          /\ k = "pde" \/ k \in pde[i].has
                          /\ i = mod.board => k \in {"irq", "regions", "pde"}
      BY <1>2, <2>1 DEF Noted
    <3>1. <<k, i>> \in held' <=>
            <<k, i>> \in held /\ ~(i = mod.board /\ k \in pde[i].has \ {"irq", "regions"})
      BY <1>4 DEF CleanBuffers, Release, On
    <3> QED BY <3>1, <2>2, <1>1 DEF Noted
  <2>7. Equipped' /\ Counted'
    BY <1>1, <1>2, <2>1 DEF CleanBuffers, Equipped, Counted, Full
  <2> QED BY <2>4, <2>5, <2>6, <2>7
<1> QED BY <1>3, <1>4

LEMMA CleanPdeInv == DevInv /\ CleanPde => DevInv'
<1> SUFFICES ASSUME DevInv, CleanPde PROVE DevInv'
  OBVIOUS
<1> USE DeviceAssumption, NoneAssumption, KindNames DEF DevInv
<1>1. /\ mod.step = "free" /\ mod.board \in Found /\ mod.board \in Minors
      /\ mod.state \in {"coming", "going"}
      /\ pde[mod.board].has \subseteq Kinds
  BY DEF CleanPde, Phases, Found, DeviceType, ModuleType, Extension
<1>2. /\ mod' \in ModuleType /\ mod'.state = mod.state /\ mod'.step = "clean"
      /\ mod'.board = mod.board - 1
  <2>1. mod.board - 1 \in -1 .. MaxDevice - 1
    BY <1>1 DEF Minors
  <2> QED BY <2>1 DEF CleanPde, DeviceType, ModuleType, Steps
<1>3. /\ pde' = [pde EXCEPT ![mod.board] = None]
      /\ \A i \in Minors \ {mod.board} : pde'[i] = pde[i]
      /\ pde'[mod.board] = None
  BY <1>1 DEF CleanPde, DeviceType
<1>4. Found' = Found \ {mod.board} /\ Opened' = Opened
  BY <1>1, <1>3 DEF CleanPde, Found, Opened
<1>5. On(mod.board, (pde[mod.board].has \cap {"irq", "regions"}) \cup {"pde"}) \subseteq held
  BY <1>1 DEF On, Noted
<1>6. DeviceType'
  BY <1>2, <1>3 DEF CleanPde, DeviceType
<1>7. Phases'
  BY <1>1, <1>2, <1>4 DEF Phases, Found, Minors
<1>8. InRow'
  <2>1. PICK n \in 0 .. MaxDevice : Found = 0 .. n - 1
    BY DEF InRow
  <2>2. mod.board = n - 1 /\ n >= 1
    BY <2>1, <1>1 DEF Phases, Minors
  <2>3. Found' = 0 .. (n - 1) - 1 /\ n - 1 \in 0 .. MaxDevice
    BY <2>1, <2>2, <1>4
  <2> QED BY <2>3 DEF InRow
<1>9. Others'
  BY <1>1, <1>2, <1>5 DEF CleanPde, Release, Others
<1>10. Noted'
  <2> SUFFICES ASSUME NEW k \in OfBoard, NEW i \in Minors
               PROVE  <<k, i>> \in held' <=>
                        i \in Found /\ i # mod.board /\ (k = "pde" \/ k \in pde[i].has)
    BY <1>2, <1>3, <1>4 DEF Noted
  <2>1. <<k, i>> \in held' <=>
          /\ <<k, i>> \in held
          /\ ~(i = mod.board /\ (k \in pde[i].has \cap {"irq", "regions"} \/ k = "pde"))
    BY DEF CleanPde, Release, On
  <2> QED BY <2>1, <1>1 DEF Noted
<1>11. Equipped'
  BY <1>1, <1>2, <1>3, <1>4 DEF Equipped, Full, Found
<1>12. Counted'
  BY <1>1, <1>2, <1>4 DEF CleanPde, Counted
<1> QED BY <1>6, <1>7, <1>8, <1>9, <1>10, <1>11, <1>12

LEMMA CleanModuleInv == DevInv /\ CleanModule => DevInv'
<1> SUFFICES ASSUME DevInv, CleanModule PROVE DevInv'
  OBVIOUS
<1> USE DeviceAssumption, NoneAssumption, KindNames DEF DevInv
<1>1. /\ mod.step = "clean" /\ mod.board = -1 /\ mod.state \in {"coming", "going"}
  BY DEF CleanModule, Phases, DeviceType, ModuleType
<1>2. Found = {} /\ Found' = {} /\ Opened' = Opened
  BY <1>1 DEF CleanModule, Phases, Found, Opened, Minors
<1>3. held' = {} /\ again' \subseteq On("module", Global)
  BY <1>1, <1>2 DEF CleanModule, Release, Others, Noted
<1>4. \/ /\ mod' \in ModuleType /\ mod'.state = "coming" /\ mod'.step = "clean"
         /\ mod'.board = MaxDevice - 1 /\ refs' = refs /\ mod.inner
      \/ mod' \in ModuleType /\ mod'.state = "out" /\ mod'.step = "none" /\ refs' = 0
  <2>1. CASE mod.inner
    BY <2>1, CleanupEntered DEF CleanModule, DeviceType
  <2>2. CASE ~mod.inner
    <3>1. 0 \in -1 .. MaxDevice - 1
      OBVIOUS
    <3>2. mod' = [mod EXCEPT !.state = "out", !.step = "none", !.board = 0] /\ refs' = 0
      BY <2>2 DEF CleanModule
    <3>3. mod' \in ModuleType /\ mod'.state = "out" /\ mod'.step = "none"
      BY <3>1, <3>2 DEF DeviceType, ModuleType, Steps
    <3> QED BY <3>2, <3>3
  <2> QED BY <2>1, <2>2
<1>5. DeviceType'
  BY <1>4 DEF CleanModule, DeviceType
<1>6. Phases' /\ InRow'
  BY <1>2, <1>4 DEF Phases, InRow, CleanModule
<1>7. Others' /\ Noted' /\ Equipped'
  BY <1>2, <1>3, <1>4 DEF Others, Noted, Equipped
<1>8. Counted'
  BY <1>1, <1>2, <1>4 DEF CleanModule, Counted
<1> QED BY <1>5, <1>6, <1>7, <1>8

LEMMA LoadScriptInv == DevInv /\ LoadScript => DevInv'
<1> SUFFICES ASSUME DevInv, LoadScript PROVE DevInv'
  OBVIOUS
<1> USE DeviceAssumption, NoneAssumption, KindNames DEF DevInv
<1>1. Found' = Found /\ Opened' = Opened
  BY DEF LoadScript, Found, Opened
<1>2. DeviceType' /\ Phases' /\ InRow' /\ Others'
  BY <1>1 DEF LoadScript, DeviceType, Phases, InRow, Others
<1>3. Noted' /\ Equipped' /\ Counted'
  BY <1>1 DEF LoadScript, Noted, Equipped, Counted, Full
<1> QED BY <1>2, <1>3

LEMMA RmmodInv == DevInv /\ Rmmod => DevInv'
<1> SUFFICES ASSUME DevInv, Rmmod PROVE DevInv'
  OBVIOUS
<1> USE DeviceAssumption, NoneAssumption, KindNames DEF DevInv
<1>1. /\ mod.state = "live" /\ mod.step = "none"
      /\ mod' \in ModuleType /\ mod'.state = "going" /\ mod'.step = "clean"
      /\ mod'.board = MaxDevice - 1
  BY CleanupEntered DEF Rmmod, At, DeviceType
<1>2. Found' = Found /\ Opened' = Opened
  BY DEF Rmmod, Found, Opened
<1>3. Opened = {}
  <2>1. IsFiniteSet(Opened) /\ Cardinality(Opened) \in Nat
    BY FS_Subset, FS_CardinalityType DEF Opened
  <2>2. Cardinality(Opened) = 0
    BY <2>1, <1>1 DEF Rmmod, Counted
  <2> QED BY <2>1, <2>2, FS_EmptySet
<1>4. DeviceType' /\ InRow'
  BY <1>1, <1>2 DEF Rmmod, DeviceType, InRow
<1>5. Phases' /\ Others'
  BY <1>1, <1>2 DEF Rmmod, Phases, Others, Found, Minors
<1>6. Noted' /\ Equipped'
  BY <1>1, <1>2 DEF Rmmod, Noted, Equipped, Full
<1>7. Counted'
  BY <1>1, <1>2, <1>3 DEF Rmmod, Counted
<1> QED BY <1>4, <1>5, <1>6, <1>7

LEMMA ModuleInv == DevInv /\ ModuleNext => DevInv'
BY LoadInv, DetectNoneInv, RegisterInv, RegisterFailsInv, AllocInv, ProbeInv, RequestInv,
   AllocateBuffersInv, StartHardwareInv, CleanBuffersInv, CleanPdeInv, CleanModuleInv,
   LoadScriptInv, RmmodInv
DEF ModuleNext

---------------------------------------------------------------------------
\* File operations change neither the module nor what it holds; what they owe
\* to the invariant is the count.
SameBoards ==
  /\ UNCHANGED <<mod, held, again>>
  /\ pde' \in [Minors -> Extension \cup {None}]
  /\ \A i \in Minors :
       /\ pde'[i] = None <=> pde[i] = None
       /\ pde[i] # None => pde'[i].has = pde[i].has /\ pde'[i].online = pde[i].online

LEMMA FileStep ==
  ASSUME DevInv, SameBoards, Counted', files' \in [Files -> OpenFile \cup {None}], refs' \in Int
  PROVE  DevInv'
<1> USE DEF DevInv, SameBoards
<1>1. Found' = Found
  BY DEF Found
<1>2. DeviceType' /\ Phases' /\ InRow' /\ Others'
  BY <1>1 DEF DeviceType, Phases, InRow, Others
<1>3. Noted'
  BY <1>1 DEF Noted, Found
<1>4. Equipped'
  BY <1>1 DEF Equipped, Full, Found, Phases
<1> QED BY <1>2, <1>3, <1>4

LEMMA FewerFiles ==
  ASSUME NEW f \in Files
  PROVE  /\ IsFiniteSet(Opened) /\ Cardinality(Opened) \in Nat
         /\ f \in Opened => /\ Cardinality(Opened \ {f}) = Cardinality(Opened) - 1
                            /\ Cardinality(Opened \ {f}) \in Nat
         /\ f \notin Opened => Cardinality(Opened \cup {f}) = Cardinality(Opened) + 1
<1>1. IsFiniteSet(Opened)
  BY DeviceAssumption, FS_Subset DEF Opened
<1> QED BY <1>1, FS_CardinalityType, FS_AddElement, FS_RemoveElement

\* A call that changes one extension and not what it has.
LEMMA OneBoard ==
  ASSUME DevInv, NEW m \in Found, NEW c \in Int, NEW r \in BOOLEAN,
         UNCHANGED <<mod, held, again>>,
         pde' = [pde EXCEPT ![m] = [@ EXCEPT !.count = c, !.running = r]]
  PROVE  /\ SameBoards /\ Found' = Found
         /\ pde'[m].count = c /\ pde'[m].running = r
         /\ \A i \in Minors \ {m} : pde'[i] = pde[i]
<1> USE NoneAssumption
<1>1. pde \in [Minors -> Extension \cup {None}] /\ m \in Minors /\ pde[m] \in Extension
  BY DEF DevInv, DeviceType, Found
<1> DEFINE e == [pde[m] EXCEPT !.count = c, !.running = r]
<1>2. e \in Extension /\ e.has = pde[m].has /\ e.online = pde[m].online /\ e.count = c
      /\ e.running = r
  BY <1>1 DEF Extension
<1>3. pde' = [pde EXCEPT ![m] = e]
  OBVIOUS
<1> HIDE DEF e
<1>4. SameBoards
  BY <1>1, <1>2, <1>3 DEF SameBoards
<1> QED BY <1>1, <1>2, <1>3, <1>4 DEF SameBoards, Found

LEMMA OpenInv == ASSUME DevInv, NEW f \in Files, NEW m \in Minors, Open(f, m) PROVE DevInv'
<1> USE NoneAssumption
<1> DEFINE file == [minor |-> m, fds |-> 1, mapped |-> FALSE, early |-> mod.state = "coming"]
<1>1. /\ m \in Found /\ pde[m] \in Extension /\ mod.state \in {"coming", "live"}
      /\ f \notin Opened
  BY DEF Open, CanOpen, Found, Opened, DevInv, DeviceType
<1>2. SameBoards /\ Found' = Found
  <2>1. pde[m].count + 1 \in Int /\ pde[m].running \in BOOLEAN
    BY <1>1 DEF Extension
  <2>2. pde' = [pde EXCEPT ![m] = [@ EXCEPT !.count = pde[m].count + 1,
                                            !.running = pde[m].running]]
    BY <1>1 DEF Open, Extension, DevInv, DeviceType
  <2> QED BY <1>1, <2>1, <2>2, OneBoard DEF Open
<1>3. file \in OpenFile /\ file.early = (mod.state = "coming") /\ file.minor = m
  BY DEF OpenFile
<1>4. files' = [files EXCEPT ![f] = file] /\ refs' = refs + 2
  BY DEF Open
<1> HIDE DEF file
<1>5. files' \in [Files -> OpenFile \cup {None}] /\ refs' \in Int
  BY <1>3, <1>4 DEF DevInv, DeviceType
<1>6. Opened' = Opened \cup {f}
  BY <1>3, <1>4 DEF Opened, DevInv, DeviceType
<1>7. Counted'
  <2>1. \A g \in Opened : g # f => files'[g] = files[g]
    BY <1>4 DEF DevInv, DeviceType, Opened
  <2>2. files'[f] = file
    BY <1>4 DEF DevInv, DeviceType
  <2>3. refs' >= 2 * Cardinality(Opened') /\ refs' >= 0
    BY <1>1, <1>4, <1>6, FewerFiles DEF DevInv, Counted, DeviceType
  <2>4. mod' = mod
    BY <1>2 DEF SameBoards
  <2> QED BY <1>1, <1>2, <1>3, <1>6, <2>1, <2>2, <2>3, <2>4 DEF DevInv, Counted
<1> QED BY <1>2, <1>5, <1>7, FileStep

\* A call that leaves boards and count alone, and of one file no more than the
\* number of its descriptors and whether it is mapped.
LEMMA OneFile ==
  ASSUME DevInv, NEW f \in Opened, NEW n \in Nat, NEW b \in BOOLEAN, SameBoards,
         Found' = Found, refs' = refs,
         files' = [files EXCEPT ![f] = [@ EXCEPT !.fds = n, !.mapped = b]]
  PROVE  DevInv'
<1> USE NoneAssumption
<1>1. files \in [Files -> OpenFile \cup {None}] /\ f \in Files /\ files[f] \in OpenFile
  BY DEF DevInv, DeviceType, Opened
<1> DEFINE file == [files[f] EXCEPT !.fds = n, !.mapped = b]
<1>2. file \in OpenFile /\ file.early = files[f].early /\ file.minor = files[f].minor
  BY <1>1 DEF OpenFile
<1>3. files' = [files EXCEPT ![f] = file]
  OBVIOUS
<1> HIDE DEF file
<1>4. files' \in [Files -> OpenFile \cup {None}] /\ refs' \in Int
  BY <1>1, <1>2, <1>3 DEF DevInv, DeviceType
<1>5. Opened' = Opened
  BY <1>1, <1>2, <1>3 DEF Opened
<1>6. \A g \in Opened : files'[g].early = files[g].early /\ files'[g].minor = files[g].minor
  BY <1>1, <1>2, <1>3 DEF Opened
<1>7. mod' = mod
  BY DEF SameBoards
<1>8. Counted'
  BY <1>5, <1>6, <1>7 DEF DevInv, Counted
<1> QED BY <1>4, <1>8, FileStep

\* And one that ends a file.
LEMMA FileGoes ==
  ASSUME DevInv, NEW f \in Opened, SameBoards, Found' = Found,
         files' = [files EXCEPT ![f] = None], refs' \in {refs, refs - 2},
         mod.state = "out" => refs' = refs
  PROVE  DevInv'
<1> USE NoneAssumption
<1>1. files \in [Files -> OpenFile \cup {None}] /\ f \in Files
  BY DEF DevInv, DeviceType, Opened
<1>2. files' \in [Files -> OpenFile \cup {None}] /\ refs' \in Int
  BY <1>1 DEF DevInv, DeviceType
<1>3. Opened' = Opened \ {f} /\ \A g \in Opened' : files'[g] = files[g]
  BY <1>1 DEF Opened
<1>4. mod' = mod
  BY DEF SameBoards
<1>5. refs' >= 0 /\ (mod.state # "out" => refs' >= 2 * Cardinality(Opened'))
  BY <1>1, <1>3, FewerFiles DEF DevInv, Counted, DeviceType
<1>6. Counted'
  BY <1>3, <1>4, <1>5 DEF DevInv, Counted
<1> QED BY <1>2, <1>6, FileStep

LEMMA NoBoard ==
  ASSUME DevInv, UNCHANGED <<mod, pde, held, again>>
  PROVE  SameBoards /\ Found' = Found
BY DEF SameBoards, Found, DevInv, DeviceType

\* What is known of a file a call is made on.
LEMMA OfFile ==
  ASSUME DevInv, NEW f \in Files, files[f] # None
  PROVE  /\ f \in Opened /\ files[f] \in OpenFile /\ files[f].fds \in Nat
         /\ files[f].mapped \in BOOLEAN /\ files[f].minor \in Minors
         /\ Backed(f) => /\ mod.state # "out" /\ files[f].minor \in Found
                         /\ pde[files[f].minor] \in Extension
                         /\ pde[files[f].minor].count \in Int
                         /\ pde[files[f].minor].running \in BOOLEAN
<1>1. f \in Opened /\ files[f] \in OpenFile
  BY DEF DevInv, DeviceType, Opened
<1>2. files[f].fds \in Nat /\ files[f].mapped \in BOOLEAN /\ files[f].minor \in Minors
  BY <1>1 DEF OpenFile
<1>3. ASSUME Backed(f)
      PROVE  /\ mod.state # "out" /\ files[f].minor \in Found
             /\ pde[files[f].minor] \in Extension
  BY <1>2, <1>3 DEF Backed, Found, DevInv, DeviceType
<1> QED BY <1>1, <1>2, <1>3 DEF Extension

\* A file's record with other descriptors, and the one with another mapping.
LEMMA FileFields ==
  ASSUME DevInv, NEW f \in Files, files[f] # None, NEW n \in Nat, NEW b \in BOOLEAN
  PROVE  /\ [files[f] EXCEPT !.fds = n]
               = [files[f] EXCEPT !.fds = n, !.mapped = files[f].mapped]
         /\ [files[f] EXCEPT !.mapped = b]
               = [files[f] EXCEPT !.fds = files[f].fds, !.mapped = b]
         /\ [files EXCEPT ![f].fds = n] = [files EXCEPT ![f] = [files[f] EXCEPT !.fds = n]]
         /\ [files EXCEPT ![f].mapped = b]
               = [files EXCEPT ![f] = [files[f] EXCEPT !.mapped = b]]
         /\ files = [files EXCEPT ![f] = [files[f] EXCEPT !.fds = files[f].fds,
                                                         !.mapped = files[f].mapped]]
<1>1. files \in [Files -> OpenFile \cup {None}] /\ files[f] \in OpenFile
  BY OfFile DEF DevInv, DeviceType
<1> QED BY <1>1 DEF OpenFile

LEMMA DupInv == ASSUME DevInv, NEW f \in Files, Dup(f) PROVE DevInv'
<1>1. files[f] # None /\ files[f].fds + 1 \in Nat
  BY OfFile DEF Dup
<1>2. files' = [files EXCEPT ![f] = [files[f] EXCEPT !.fds = files[f].fds + 1,
                                                   !.mapped = files[f].mapped]]
  BY <1>1, FileFields, OfFile DEF Dup
<1>3. SameBoards /\ Found' = Found /\ refs' = refs
  BY NoBoard DEF Dup
<1>4. f \in Opened /\ files[f].mapped \in BOOLEAN
  BY <1>1, OfFile
<1> HIDE DEF Opened
<1> QED BY <1>1, <1>2, <1>3, <1>4, OneFile

LEMMA CloseFdInv == ASSUME DevInv, NEW f \in Files, CloseFd(f) PROVE DevInv'
<1> DEFINE m == files[f].minor
           n == files[f].fds - 1
<1>1. /\ files[f] # None /\ Backed(f) /\ n \in Nat
      /\ pde' = [pde EXCEPT ![m] = Flushed(@)] /\ UNCHANGED <<mod, held, again>>
  BY OfFile DEF CloseFd
<1>2. SameBoards /\ Found' = Found
  <2>1. pde[m].count - 1 \in Int /\ m \in Found
    BY <1>1, OfFile
  <2>2. pde' = [pde EXCEPT ![m] = [@ EXCEPT !.count = pde[m].count - 1, !.running = FALSE]]
    BY <1>1 DEF Flushed
  <2> QED BY <2>1, <2>2, <1>1, OneBoard
<1>3. CASE n = 0 /\ ~files[f].mapped
  <2>1. files' = [files EXCEPT ![f] = None] /\ refs' = refs - 2
    BY <1>1, <1>3, OfFile DEF CloseFd, Dropped, OpenFile
  <2> QED BY <2>1, <1>1, <1>2, OfFile, FileGoes
<1>4. CASE ~(n = 0 /\ ~files[f].mapped)
  <2>1. files' = [files EXCEPT ![f] = [files[f] EXCEPT !.fds = n]] /\ refs' = refs
    BY <1>1, <1>4, OfFile DEF CloseFd, Dropped, OpenFile
  <2> HIDE DEF n
  <2>2. files' = [files EXCEPT ![f] = [files[f] EXCEPT !.fds = n, !.mapped = files[f].mapped]]
    BY <2>1, <1>1, FileFields, OfFile
  <2>3. f \in Opened /\ files[f].mapped \in BOOLEAN /\ refs' = refs
    BY <2>1, <1>1, OfFile
  <2> QED BY <2>2, <2>3, <1>1, <1>2, OneFile
<1> QED BY <1>3, <1>4

LEMMA MmapInv == ASSUME DevInv, NEW f \in Files, Mmap(f) PROVE DevInv'
<1>1. files[f] # None
  BY DEF Mmap
<1>2. files' = [files EXCEPT ![f] = [files[f] EXCEPT !.fds = files[f].fds, !.mapped = TRUE]]
  BY <1>1, FileFields, OfFile DEF Mmap
<1> QED BY <1>1, <1>2, OfFile, OneFile, NoBoard DEF Mmap

LEMMA MunmapInv == ASSUME DevInv, NEW f \in Files, Munmap(f) PROVE DevInv'
<1>1. files[f] # None /\ UNCHANGED <<mod, pde, held, again>>
  BY DEF Munmap
<1>2. SameBoards /\ Found' = Found
  BY <1>1, NoBoard
<1>3. CASE files[f].fds = 0
  <2>1. /\ files' = [files EXCEPT ![f] = None]
        /\ refs' = IF mod.state = "out" THEN refs ELSE refs - 2
    BY <1>1, <1>3, OfFile DEF Munmap, Dropped, OpenFile
  <2> QED BY <2>1, <1>1, <1>2, OfFile, FileGoes
<1>4. CASE files[f].fds # 0
  <2>1. files' = [files EXCEPT ![f] = [files[f] EXCEPT !.mapped = FALSE]] /\ refs' = refs
    BY <1>1, <1>4, OfFile DEF Munmap, Dropped, OpenFile
  <2>2. files' = [files EXCEPT ![f] = [files[f] EXCEPT !.fds = files[f].fds, !.mapped = FALSE]]
    BY <2>1, <1>1, FileFields, OfFile
  <2> QED BY <2>1, <2>2, <1>1, <1>2, OfFile, OneFile
<1> QED BY <1>3, <1>4

LEMMA ArmInv == ASSUME DevInv, NEW f \in Files, Arm(f) PROVE DevInv'
<1> DEFINE m == files[f].minor
<1>1. /\ files[f] # None /\ Backed(f) /\ UNCHANGED <<mod, held, again, refs, files>>
      /\ pde' = [pde EXCEPT ![m].running = TRUE]
  BY DEF Arm
<1>2. SameBoards /\ Found' = Found
  <2>1. pde[m].count \in Int /\ m \in Found /\ pde[m] \in Extension
    BY <1>1, OfFile
  <2>2. pde' = [pde EXCEPT ![m] = [@ EXCEPT !.count = pde[m].count, !.running = TRUE]]
    BY <2>1, <1>1 DEF Extension, DevInv, DeviceType, Found
  <2> QED BY <2>1, <2>2, <1>1, OneBoard
<1>3. files' = [files EXCEPT ![f] = [files[f] EXCEPT !.fds = files[f].fds,
                                                   !.mapped = files[f].mapped]]
  BY <1>1, FileFields, OfFile
<1> QED BY <1>1, <1>2, <1>3, OfFile, OneFile

LEMMA KilledInv == ASSUME DevInv, NEW f \in Files, Killed(f) PROVE DevInv'
<1> DEFINE m == files[f].minor
<1>1. /\ files[f] # None /\ Backed(f) /\ UNCHANGED <<mod, held, again>>
      /\ files' = [files EXCEPT ![f] = None] /\ refs' = refs - 2
      /\ pde' = [pde EXCEPT ![m].count = @ - files[f].fds]
  BY DEF Killed
<1>2. SameBoards /\ Found' = Found
  <2>1. /\ pde[m].count - files[f].fds \in Int /\ m \in Found /\ pde[m] \in Extension
        /\ pde[m].running \in BOOLEAN
    BY <1>1, OfFile
  <2>2. pde' = [pde EXCEPT ![m] = [@ EXCEPT !.count = pde[m].count - files[f].fds,
                                            !.running = pde[m].running]]
    BY <2>1, <1>1 DEF Extension, DevInv, DeviceType, Found
  <2> DEFINE c == pde[m].count - files[f].fds
             r == pde[m].running
  <2>3. pde' = [pde EXCEPT ![m] = [@ EXCEPT !.count = c, !.running = r]]
    BY <2>2
  <2>4. c \in Int /\ r \in BOOLEAN /\ m \in Found /\ UNCHANGED <<mod, held, again>>
    BY <2>1, <1>1
  <2> HIDE DEF c, r, m
  <2> QED BY <2>3, <2>4, OneBoard
<1> QED BY <1>1, <1>2, OfFile, FileGoes

LEMMA OopsInv == ASSUME DevInv, NEW f \in Files, Oops(f) PROVE DevInv'
BY OfFile, FileGoes, NoBoard DEF Oops

LEMMA NextInv == DevInv /\ [ModuleNext \/ FileNext]_devVars => DevInv'
<1> SUFFICES ASSUME DevInv, [ModuleNext \/ FileNext]_devVars PROVE DevInv'
  OBVIOUS
<1>1. CASE ModuleNext
  BY <1>1, ModuleInv
<1>2. CASE FileNext
  BY <1>2, OpenInv, DupInv, CloseFdInv, MmapInv, MunmapInv, ArmInv, KilledInv, OopsInv
     DEF FileNext
<1>3. CASE UNCHANGED devVars
  <2>1. SameBoards /\ Found' = Found /\ Opened' = Opened
    BY <1>3, NoBoard DEF devVars, Opened
  <2>2. Counted'
    BY <1>3, <2>1 DEF devVars, Counted, DevInv
  <2> QED BY <1>3, <2>1, <2>2, FileStep DEF devVars, DevInv, DeviceType
<1> QED BY <1>1, <1>2, <1>3

\* Wherever db2k_init fails and however programs open, map and close while the
\* module comes and goes, the module takes down what it set up, gives nothing of
\* a board back twice, and takes nothing from a file that was opened after
\* db2k_init.
THEOREM ModuleIsSound == DeviceSpec => []ModuleSound
<1>1. InitDevice => DevInv
  BY InitInv
<1>2. DevInv /\ [ModuleNext \/ FileNext]_devVars => DevInv'
  BY NextInv
<1>3. DevInv => ModuleSound
  BY InvSound
<1> QED BY <1>1, <1>2, <1>3, PTL DEF DeviceSpec
-----------------------------------------------------------------------------
Entry == [pid: Programs, name: Names, handle: Handles]
InOpen == [step: {"look", "read", "open"}, name: Names, handle: Handles, board: Minors,
           type: Minors \cup {None}, raced: BOOLEAN]

Tables ==
  /\ lock \in [Programs -> Seq(Entry)]
  /\ dd \in [Programs -> [Handles -> Files \cup {None}]]
  /\ call \in [Programs -> {Idle} \cup InOpen]
  /\ started \in [Programs -> SUBSET Handles]
  /\ reading \in [Minors -> BOOLEAN]
  /\ shared \in SUBSET Minors

\* The processes that have a descriptor of a file.
Holders(f) == {p \in Programs : \E h \in Handles : dd[p][h] = f}

\* An open file has as many descriptors as processes that hold it, and none of
\* them holds it under two handles.
FilesHeld ==
  /\ \A f \in Opened : /\ files[f].fds = Cardinality(Holders(f))
                       /\ files[f].mapped = FALSE /\ files[f].early = FALSE
  /\ \A p \in Programs, h \in Handles : dd[p][h] # None => dd[p][h] \in Opened
  /\ \A p \in Programs, h, g \in Handles : dd[p][h] = dd[p][g] /\ dd[p][h] # None => h = g

\* What no fork has shared has one holder.
OneHolder ==
  \A p, q \in Programs, h, g \in Handles :
     dd[p][h] = dd[q][g] /\ dd[p][h] # None /\ files[dd[p][h]].minor \notin shared => p = q

\* The module is not loaded again.
Loaded == mod.state # "coming" /\ mod.inner = FALSE

\* A process has no handle twice.
Distinct(p, t) ==
  \A i, j \in DOMAIN t : i # j /\ t[i].pid = p /\ t[j].pid = p => t[i].handle # t[j].handle
OneEntry == \A p \in Programs : Distinct(p, lock[p])

\* A handle that is not being opened has a file of the board of its name.
Served ==
  \A p \in Programs : \A e \in Own(p) :
     (call[p] # Idle => call[p].handle # e.handle) =>
        /\ dd[p][e.handle] # None
        /\ files[dd[p][e.handle]].minor = Board[e.name]

\* One that is has none, whatever entry it is of is of the name given, and the
\* boards are gone through up to the one that matches.
Opening ==
  \A p \in Programs : call[p] # Idle =>
     /\ dd[p][call[p].handle] = None
     /\ \A e \in Own(p) : e.handle = call[p].handle => e.name = call[p].name
     /\ call[p].board <= Board[call[p].name]
     /\ call[p].step = "open" => call[p].board = Board[call[p].name]

\* A reader who has not been raced reads the type and not the end of the file.
Typed ==
  \A p \in Programs : call[p] # Idle /\ ~call[p].raced =>
     /\ call[p].step = "read" => ~reading[call[p].board]
     /\ call[p].step = "open" => call[p].type = call[p].board

\* user_count is right for what no fork has shared, and never above one.
OfBoardM(m) == {f \in Files : files[f] # None /\ files[f].minor = m}
Users ==
  \A m \in Found : /\ pde[m].count <= 1
                   /\ m \notin shared => pde[m].count = Cardinality(OfBoardM(m))

\* What a process has started has a file and runs.
Running ==
  \A p \in Programs : \A h \in started[p] :
     /\ dd[p][h] # None
     /\ files[dd[p][h]].minor \notin shared => pde[files[dd[p][h]].minor].running = TRUE

SInv ==
  /\ DevInv /\ Tables /\ FilesHeld /\ OneHolder /\ Loaded /\ OneEntry /\ Served /\ Opening
  /\ Typed /\ Users /\ Running

\* freeHandle takes the one entry and no other.
LEMMA FreedKeeps ==
  ASSUME NEW p \in Programs, NEW t \in Seq(Entry), NEW h \in Handles, Distinct(p, t)
  PROVE  /\ Freed(p, t, h) \in Seq(Entry)
         /\ \A i \in DOMAIN Freed(p, t, h) : \E a \in DOMAIN t : Freed(p, t, h)[i] = t[a]
         /\ \A i \in DOMAIN Freed(p, t, h) :
              ~(Freed(p, t, h)[i].pid = p /\ Freed(p, t, h)[i].handle = h)
         /\ \A q \in Programs : Distinct(q, t) => Distinct(q, Freed(p, t, h))
<1> DEFINE n == Len(t)
           gone == {k \in 1 .. n : t[k].pid = p /\ t[k].handle = h}
<1>1. n \in Nat /\ DOMAIN t = 1 .. n /\ \A i \in 1 .. n : t[i] \in Entry
  BY LenProperties, ElementOfSeq
<1>2. CASE gone = {}
  <2>1. Freed(p, t, h) = t
    BY <1>2 DEF Freed
  <2> QED BY <2>1, <1>1, <1>2
<1>3. CASE gone # {}
  <2> DEFINE k == CHOOSE k \in gone : TRUE
             u == [t EXCEPT ![k] = t[n]]
             r == SubSeq(u, 1, n - 1)
  <2>1. k \in gone
    BY <1>3
  <2>2. Freed(p, t, h) = r
    BY <1>3 DEF Freed
  <2>3. k \in 1 .. n /\ n \in 1 .. n /\ t[k].pid = p /\ t[k].handle = h
    BY <2>1, <1>1
  <2> HIDE DEF k, gone
  <2>4. \A i \in 1 .. n : u[i] = (IF i = k THEN t[n] ELSE t[i]) /\ u[i] \in Entry
    BY <2>3, <1>1
  <2> HIDE DEF u
  <2>5. r \in Seq(Entry) /\ Len(r) = n - 1 /\ \A i \in 1 .. n - 1 : r[i] = u[i]
    <3>1. \A i \in 1 .. n - 1 : u[i] \in Entry
      BY <2>4
    <3>2. 1 \in Int /\ n - 1 \in Int
      BY <1>1
    <3>3. /\ r \in Seq(Entry)
          /\ Len(r) = IF 1 <= n - 1 THEN n - 1 - 1 + 1 ELSE 0
          /\ \A i \in 1 .. n - 1 - 1 + 1 : r[i] = u[1 + i - 1]
      BY <3>1, <3>2, SubSeqProperties
    <3> QED BY <3>3, <1>1, <2>3
  <2> HIDE DEF r
  <2>6. DOMAIN r = 1 .. n - 1
    BY <2>5, LenProperties
  <2> DEFINE from(i) == IF i = k THEN n ELSE i
  <2>7. \A i \in 1 .. n - 1 : from(i) \in 1 .. n /\ from(i) # k /\ r[i] = t[from(i)]
    BY <2>3, <2>4, <2>5, <1>1
  <2>8. \A i, j \in 1 .. n - 1 : i # j => from(i) # from(j)
    BY <1>1
  <2> HIDE DEF from
  <2>9. \A i \in 1 .. n - 1 : ~(r[i].pid = p /\ r[i].handle = h)
    BY <2>3, <2>7, <1>1 DEF Distinct
  <2>10. \A q \in Programs : Distinct(q, t) => Distinct(q, r)
    BY <2>6, <2>7, <2>8, <1>1 DEF Distinct
  <2> QED BY <2>2, <2>5, <2>6, <2>7, <2>9, <2>10, <1>1
<1> QED BY <1>2, <1>3

LEMMA OwnIn ==
  ASSUME Tables, NEW p \in Programs
  PROVE  /\ lock[p] \in Seq(Entry) /\ DOMAIN lock[p] = 1 .. Len(lock[p])
         /\ \A i \in DOMAIN lock[p] : lock[p][i] \in Entry
         /\ \A e \in Own(p) : e \in Entry /\ e.pid = p /\ e.handle \in Handles
<1>1. lock[p] \in Seq(Entry)
  BY DEF Tables
<1>2. DOMAIN lock[p] = 1 .. Len(lock[p]) /\ \A i \in DOMAIN lock[p] : lock[p][i] \in Entry
  BY <1>1, LenProperties, ElementOfSeq
<1> QED BY <1>1, <1>2 DEF Own, Entries, Entry

\* The invariant is enough.
LEMMA SInvSound == SInv => ModuleSound /\ HandleWorks /\ Undisturbed
<1> SUFFICES ASSUME SInv PROVE ModuleSound /\ HandleWorks /\ Undisturbed
  OBVIOUS
<1> USE DEF SInv
<1>1. ModuleSound
  BY InvSound
<1>2. \A p \in Programs, h \in Handles :
        dd[p][h] # None => /\ dd[p][h] \in Files /\ files[dd[p][h]] # None
                           /\ files[dd[p][h]].fds > 0
  <2> SUFFICES ASSUME NEW p \in Programs, NEW h \in Handles, dd[p][h] # None
               PROVE  /\ dd[p][h] \in Files /\ files[dd[p][h]] # None
                      /\ files[dd[p][h]].fds > 0
    OBVIOUS
  <2> DEFINE f == dd[p][h]
  <2>1. f \in Opened /\ files[f].fds = Cardinality(Holders(f)) /\ p \in Holders(f)
    BY DEF FilesHeld, Holders
  <2>2. IsFiniteSet(Holders(f))
    BY SessionAssumption, FS_Subset DEF Holders
  <2>3. Cardinality(Holders(f)) \in Nat /\ Cardinality(Holders(f)) # 0
    BY <2>1, <2>2, FS_CardinalityType, FS_EmptySet
  <2> QED BY <2>1, <2>3 DEF Opened
<1>3. HandleIsItsBoards
  <2>1. ASSUME NEW p \in Programs, NEW e \in Own(p), call[p] # Idle => call[p].handle # e.handle
        PROVE  /\ dd[p][e.handle] # None
               /\ files[dd[p][e.handle]] # None
               /\ files[dd[p][e.handle]].minor = Board[e.name]
               /\ files[dd[p][e.handle]].fds > 0
    BY <2>1, <1>2, OwnIn DEF Served
  <2>2. ASSUME NEW p \in Programs, NEW i \in DOMAIN lock[p], NEW j \in DOMAIN lock[p],
               i # j, lock[p][i].pid = p, lock[p][j].pid = p
        PROVE  lock[p][i].handle # lock[p][j].handle
    BY <2>2 DEF OneEntry, Distinct
  <2> QED BY <2>1, <2>2 DEF HandleIsItsBoards
<1>4. TypeKnown
  BY DEF TypeKnown, Typed, Idle
<1>5. Undisturbed
  <2>1. \A m \in Minors : pde[m] # None =>
          pde[m].count <= 1 /\ (m \notin shared => pde[m].count = Cardinality(OfBoardM(m)))
    BY DEF Users, Found
  <2> QED BY <2>1 DEF Undisturbed, OfBoardM, Running
<1> QED BY <1>1, <1>3, <1>4, <1>5 DEF HandleWorks

LEMMA InitDevInv == InitSessions => DevInv
<1> SUFFICES ASSUME InitSessions PROVE DevInv
  OBVIOUS
<1> USE DeviceAssumption, NoneAssumption DEF InitSessions
<1>1. Ready \in Extension /\ Ready.has = Kinds /\ Ready.online = TRUE
  BY DEF Ready, Extension
<1>2. Found = Minors /\ Opened = {} /\ \A i \in Minors : pde[i] = Ready
  BY <1>1 DEF Found, Opened
<1>3. DeviceType
  BY <1>1 DEF DeviceType, ModuleType, Steps
<1>4. Phases /\ Others
  BY FourBuffers DEF Phases, Others, OfBoard
<1>5. InRow
  <2>1. Found = 0 .. MaxDevice - 1 /\ MaxDevice \in 0 .. MaxDevice
    BY <1>2 DEF Minors
  <2> QED BY <2>1 DEF InRow
<1>6. Noted
  <2>1. \A k \in OfBoard, i \in Minors : <<k, i>> \in held
    BY DEF OfBoard
  <2> QED BY <2>1, <1>1, <1>2 DEF Noted, OfBoard
<1>7. Equipped
  BY <1>1, <1>2, FourBuffers DEF Equipped, Full
<1>8. Counted
  BY <1>2, FS_EmptySet DEF Counted
<1> QED BY <1>3, <1>4, <1>5, <1>6, <1>7, <1>8 DEF DevInv

LEMMA InitSInv == InitSessions => SInv
<1> SUFFICES ASSUME InitSessions PROVE SInv
  OBVIOUS
<1> USE DeviceAssumption, SessionAssumption DEF InitSessions, NoSessions
<1>1. Opened = {} /\ \A p \in Programs, h \in Handles : dd[p][h] = None
  BY DEF Opened
<1>2. \A p \in Programs : lock[p] = <<>> /\ call[p] = Idle /\ started[p] = {}
  OBVIOUS
<1>3. Tables
  BY EmptySeq DEF Tables
<1>4. FilesHeld /\ OneHolder /\ Loaded
  BY <1>1 DEF FilesHeld, OneHolder, Loaded
<1>5. \A p \in Programs : DOMAIN lock[p] = {} /\ Own(p) = {}
  BY <1>2, EmptySeq DEF Own, Entries
<1>6. OneEntry /\ Served /\ Opening /\ Typed /\ Running
  BY <1>2, <1>5 DEF OneEntry, Distinct, Served, Opening, Typed, Running
<1>7. Users
  <2>1. \A m \in Minors : OfBoardM(m) = {}
    BY DEF OfBoardM
  <2>2. \A m \in Minors : pde[m].count = 0
    BY DEF Ready
  <2>3. Cardinality({}) = 0
    BY FS_EmptySet
  <2> HIDE DEF InitSessions, NoSessions
  <2>4. ASSUME NEW m \in Minors
        PROVE  pde[m].count = Cardinality(OfBoardM(m)) /\ pde[m].count <= 1
    <3>1. OfBoardM(m) = {} /\ pde[m].count = 0
      BY <2>1, <2>2
    <3>2. Cardinality(OfBoardM(m)) = 0
      BY <3>1, <2>3
    <3> HIDE DEF OfBoardM
    <3> QED BY <3>1, <3>2
  <2> QED BY <2>4 DEF Users, Found
<1> QED BY InitDevInv, <1>3, <1>4, <1>6, <1>7 DEF SInv

\* Nothing of the device, the descriptors and the tables changes.
LEMMA OnlyCalls ==
  ASSUME SInv, UNCHANGED <<devVars, dd, started, shared>>
  PROVE  DevInv' /\ FilesHeld' /\ OneHolder' /\ Loaded' /\ Users' /\ Running'
<1>1. Opened' = Opened /\ Found' = Found
  BY DEF devVars, Opened, Found
<1>2. DevInv'
  <2>1. SameBoards /\ Counted'
    BY <1>1, NoBoard DEF SInv, DevInv, Counted, devVars
  <2> QED BY <2>1, FileStep DEF SInv, DevInv, DeviceType, devVars
<1>3. FilesHeld' /\ OneHolder'
  BY <1>1 DEF SInv, FilesHeld, OneHolder, Holders, devVars
<1>4. Loaded' /\ Users' /\ Running'
  BY <1>1 DEF SInv, Loaded, Users, OfBoardM, Running, devVars
<1> QED BY <1>2, <1>3, <1>4

\* Reading the type changes only where the readers are.
LEMMA RaceKeeps ==
  ASSUME Tables, NEW p \in Programs, NEW m \in Minors, call[p] \in InOpen, NEW c \in InOpen,
         call' = [Race(p, m) EXCEPT ![p] = c]
  PROVE  /\ call' \in [Programs -> {Idle} \cup InOpen] /\ call'[p] = c
         /\ \A q \in Programs \ {p} :
              /\ call'[q] = Idle <=> call[q] = Idle
              /\ call[q] # Idle =>
                   /\ call'[q].step = call[q].step /\ call'[q].name = call[q].name
                   /\ call'[q].handle = call[q].handle /\ call'[q].board = call[q].board
                   /\ call'[q].type = call[q].type
                   /\ call'[q].raced <=>
                        (call[q].raced \/ (call[q].step = "read" /\ call[q].board = m))
<1>1. call \in [Programs -> {Idle} \cup InOpen] /\ \A d \in InOpen : d # Idle
  <2>1. Idle.step = "idle"
    BY DEF Idle
  <2> QED BY <2>1 DEF Tables, InOpen
<1>2. ASSUME NEW q \in Programs, q # p
      PROVE  call'[q] = IF call[q].step = "read" /\ call[q].board = m
                        THEN [call[q] EXCEPT !.raced = TRUE] ELSE call[q]
  BY <1>2 DEF Race
<1>3. \A d \in InOpen : LET e == [d EXCEPT !.raced = TRUE] IN
        /\ e \in InOpen /\ e.step = d.step /\ e.name = d.name /\ e.handle = d.handle
        /\ e.board = d.board /\ e.type = d.type /\ e.raced = TRUE
  BY DEF InOpen
<1>4. call'[p] = c /\ DOMAIN call' = Programs
  BY DEF Race
<1>5. Idle.step # "read"
  BY DEF Idle
<1>6. ASSUME NEW q \in Programs, q # p
      PROVE  /\ call'[q] \in {Idle} \cup InOpen
             /\ call'[q] = Idle <=> call[q] = Idle
             /\ call[q] # Idle =>
                  /\ call'[q].step = call[q].step /\ call'[q].name = call[q].name
                  /\ call'[q].handle = call[q].handle /\ call'[q].board = call[q].board
                  /\ call'[q].type = call[q].type
                  /\ call'[q].raced <=>
                        (call[q].raced \/ (call[q].step = "read" /\ call[q].board = m))
  <2>1. CASE call[q] = Idle
    BY <2>1, <1>2, <1>5, <1>6
  <2>2. CASE call[q] \in InOpen /\ call[q].step = "read" /\ call[q].board = m
    <3>1. call'[q] = [call[q] EXCEPT !.raced = TRUE]
      BY <2>2, <1>2, <1>6
    <3> QED BY <3>1, <2>2, <1>1, <1>3
  <2>3. CASE call[q] \in InOpen /\ ~(call[q].step = "read" /\ call[q].board = m)
    <3>1. call'[q] = call[q]
      BY <2>3, <1>2, <1>6
    <3>2. call[q].raced \in BOOLEAN
      BY <2>3 DEF InOpen
    <3> QED BY <3>1, <3>2, <2>3, <1>1
  <2> QED BY <2>1, <2>2, <2>3, <1>1
<1>7. call' \in [Programs -> {Idle} \cup InOpen]
  <2>1. call' = [q \in Programs |-> call'[q]]
    BY DEF Race
  <2> QED BY <2>1, <1>4, <1>6
<1> QED BY <1>4, <1>6, <1>7

LEMMA OpenTypeInv == ASSUME SInv, NEW p \in Programs, OpenType(p) PROVE SInv'
<1> DEFINE m == call[p].board
           c == [call[p] EXCEPT !.step = "read", !.raced = FALSE]
<1>1. /\ call[p].step = "look" /\ UNCHANGED <<devVars, lock, dd, started, shared>>
      /\ reading' = [reading EXCEPT ![m] = FALSE]
      /\ call' = [Race(p, m) EXCEPT ![p].step = "read", ![p].raced = FALSE]
  BY DEF OpenType, Marked
<1>2. call[p] \in InOpen /\ m \in Minors /\ Tables
  BY <1>1 DEF SInv, Tables, Idle, InOpen
<1>3. /\ c \in InOpen /\ c.step = "read" /\ c.raced = FALSE /\ c.board = m
      /\ c.name = call[p].name /\ c.handle = call[p].handle
  BY <1>2 DEF InOpen
<1>4. call' = [Race(p, m) EXCEPT ![p] = c]
  <2>1. Race(p, m)[p] = call[p] /\ DOMAIN Race(p, m) = Programs
    BY DEF Race
  <2> QED BY <2>1, <1>1
<1> HIDE DEF c
<1>5. /\ call' \in [Programs -> {Idle} \cup InOpen] /\ call'[p] = c
      /\ \A q \in Programs \ {p} :
           /\ call'[q] = Idle <=> call[q] = Idle
           /\ call[q] # Idle =>
                /\ call'[q].step = call[q].step /\ call'[q].name = call[q].name
                /\ call'[q].handle = call[q].handle /\ call'[q].board = call[q].board
                /\ call'[q].type = call[q].type
                /\ call'[q].raced <=>
                     (call[q].raced \/ (call[q].step = "read" /\ call[q].board = m))
  BY <1>2, <1>3, <1>4, RaceKeeps
<1>6. call[p] # Idle /\ Idle.step = "idle"
  BY <1>1 DEF Idle
<1>7. DevInv' /\ FilesHeld' /\ OneHolder' /\ Loaded' /\ Users' /\ Running'
  BY <1>1, OnlyCalls
<1>8. Tables' /\ OneEntry'
  BY <1>1, <1>2, <1>5 DEF SInv, Tables, OneEntry
<1>9. \A q \in Programs : Own(q)' = Own(q)
  BY <1>1 DEF Own, Entries
<1>10. Opening' /\ Served'
  <2>1. ASSUME NEW q \in Programs, call'[q] # Idle
        PROVE  /\ dd'[q][call'[q].handle] = None
               /\ \A e \in Own(q)' : e.handle = call'[q].handle => e.name = call'[q].name
               /\ call'[q].board <= Board[call'[q].name]
               /\ call'[q].step = "open" => call'[q].board = Board[call'[q].name]
    <3>1. /\ call[q] # Idle /\ call'[q].handle = call[q].handle /\ call'[q].name = call[q].name
          /\ call'[q].board <= Board[call'[q].name]
          /\ call'[q].step = "open" => call'[q].board = Board[call'[q].name]
      <4>1. CASE q = p
        BY <4>1, <1>3, <1>5, <1>6 DEF SInv, Opening
      <4>2. CASE q # p
        BY <4>2, <2>1, <1>5 DEF SInv, Opening
      <4> QED BY <4>1, <4>2
    <3>2. /\ dd[q][call[q].handle] = None
          /\ \A e \in Own(q) : e.handle = call[q].handle => e.name = call[q].name
      BY <3>1 DEF SInv, Opening
    <3>3. Own(q)' = Own(q) /\ dd' = dd
      BY <1>1, <1>9
    <3> QED BY <3>1, <3>2, <3>3
  <2>2. ASSUME NEW q \in Programs, NEW e \in Own(q)', call'[q] # Idle => call'[q].handle # e.handle
        PROVE  dd'[q][e.handle] # None /\ files'[dd'[q][e.handle]].minor = Board[e.name]
    <3>0. dd' = dd /\ files' = files
      BY <1>1 DEF devVars
    <3>1. call[q] # Idle => call[q].handle # e.handle
      <4>1. CASE q = p
        BY <4>1, <2>2, <1>2, <1>3, <1>5, <1>6
      <4>2. CASE q # p
        BY <4>2, <2>2, <1>5
      <4> QED BY <4>1, <4>2
    <3>2. e \in Own(q)
      BY <2>2, <1>9
    <3> QED BY <3>0, <3>1, <3>2 DEF SInv, Served
  <2> QED BY <2>1, <2>2 DEF Opening, Served
<1>11. Typed'
  <2>1. \A n \in Minors : reading'[n] = IF n = m THEN FALSE ELSE reading[n]
    BY <1>1, <1>2 DEF Tables
  <2>2. \A q \in Programs : call[q] # Idle => call[q].board \in Minors
    BY <1>2 DEF Tables, InOpen
  <2>3. ASSUME NEW q \in Programs, call'[q] # Idle, ~call'[q].raced
        PROVE  /\ call'[q].step = "read" => ~reading'[call'[q].board]
               /\ call'[q].step = "open" => call'[q].type = call'[q].board
    <3>1. CASE q = p
      BY <3>1, <2>1, <1>2, <1>3, <1>5
    <3>2. CASE q # p
      BY <3>2, <2>1, <2>2, <2>3, <1>5 DEF SInv, Typed
    <3> QED BY <3>1, <3>2
  <2> QED BY <2>3 DEF Typed
<1> QED BY <1>7, <1>8, <1>10, <1>11 DEF SInv

LEMMA ReadTypeInv == ASSUME SInv, NEW p \in Programs, ReadType(p) PROVE SInv'
<1> DEFINE m == call[p].board
           last == m = Board[call[p].name]
           c == [call[p] EXCEPT !.step = IF last THEN "open" ELSE "look",
                                !.board = IF last THEN m ELSE m + 1,
                                !.type = IF reading[m] THEN None ELSE m]
<1>1. /\ call[p].step = "read" /\ UNCHANGED <<devVars, lock, dd, started, shared>>
      /\ reading' = [reading EXCEPT ![m] = ~@]
      /\ call' = [Race(p, m) EXCEPT
             ![p].step = IF last THEN "open" ELSE "look",
             ![p].board = IF last THEN m ELSE m + 1,
             ![p].type = IF reading[m] THEN None ELSE m]
  BY DEF ReadType
<1>6. call[p] # Idle /\ Idle.step = "idle"
  BY <1>1 DEF Idle
<1>2. call[p] \in InOpen /\ m \in Minors /\ Tables
  BY <1>6 DEF SInv, Tables, InOpen
<1>3. /\ c \in InOpen /\ c.name = call[p].name /\ c.handle = call[p].handle
      /\ c.raced = call[p].raced /\ c.step # "read" /\ c.board <= Board[c.name]
      /\ c.step = "open" => /\ c.board = m /\ m = Board[c.name]
                            /\ c.type = IF reading[m] THEN None ELSE m
  <2>1. m <= Board[call[p].name] /\ Board[call[p].name] \in Minors
    BY <1>2, <1>6, SessionAssumption DEF SInv, Opening, InOpen
  <2>2. ~last => m + 1 \in Minors /\ m + 1 <= Board[call[p].name]
    BY <2>1, <1>2, DeviceAssumption DEF Minors
  <2> HIDE DEF last, m
  <2>3. /\ c \in InOpen /\ c.name = call[p].name /\ c.handle = call[p].handle
        /\ c.raced = call[p].raced /\ c.step = (IF last THEN "open" ELSE "look")
        /\ c.board = (IF last THEN m ELSE m + 1)
        /\ c.type = (IF reading[m] THEN None ELSE m)
    BY <2>2, <1>2 DEF InOpen
  <2> HIDE DEF c
  <2> QED BY <2>1, <2>2, <2>3 DEF last, m
<1>4. call' = [Race(p, m) EXCEPT ![p] = c]
  <2>1. Race(p, m)[p] = call[p] /\ DOMAIN Race(p, m) = Programs
    BY DEF Race
  <2> HIDE DEF last
  <2> QED BY <2>1, <1>1
<1> HIDE DEF c
<1>5. /\ call' \in [Programs -> {Idle} \cup InOpen] /\ call'[p] = c
      /\ \A q \in Programs \ {p} :
           /\ call'[q] = Idle <=> call[q] = Idle
           /\ call[q] # Idle =>
                /\ call'[q].step = call[q].step /\ call'[q].name = call[q].name
                /\ call'[q].handle = call[q].handle /\ call'[q].board = call[q].board
                /\ call'[q].type = call[q].type
                /\ call'[q].raced <=>
                     (call[q].raced \/ (call[q].step = "read" /\ call[q].board = m))
  BY <1>2, <1>3, <1>4, RaceKeeps
<1>7. DevInv' /\ FilesHeld' /\ OneHolder' /\ Loaded' /\ Users' /\ Running'
  BY <1>1, OnlyCalls
<1>8. Tables' /\ OneEntry'
  <2>1. reading' \in [Minors -> BOOLEAN]
    BY <1>1, <1>2 DEF Tables
  <2> QED BY <2>1, <1>1, <1>2, <1>5 DEF SInv, Tables, OneEntry
<1>9. \A q \in Programs : Own(q)' = Own(q)
  BY <1>1 DEF Own, Entries
<1>10. Opening' /\ Served'
  <2>1. ASSUME NEW q \in Programs, call'[q] # Idle
        PROVE  /\ dd'[q][call'[q].handle] = None
               /\ \A e \in Own(q)' : e.handle = call'[q].handle => e.name = call'[q].name
               /\ call'[q].board <= Board[call'[q].name]
               /\ call'[q].step = "open" => call'[q].board = Board[call'[q].name]
    <3>1. /\ call[q] # Idle /\ call'[q].handle = call[q].handle /\ call'[q].name = call[q].name
          /\ call'[q].board <= Board[call'[q].name]
          /\ call'[q].step = "open" => call'[q].board = Board[call'[q].name]
      <4>1. CASE q = p
        BY <4>1, <1>3, <1>5, <1>6 DEF SInv, Opening
      <4>2. CASE q # p
        BY <4>2, <2>1, <1>5 DEF SInv, Opening
      <4> QED BY <4>1, <4>2
    <3>2. /\ dd[q][call[q].handle] = None
          /\ \A e \in Own(q) : e.handle = call[q].handle => e.name = call[q].name
      BY <3>1 DEF SInv, Opening
    <3>3. Own(q)' = Own(q) /\ dd' = dd
      BY <1>1, <1>9
    <3> QED BY <3>1, <3>2, <3>3
  <2>2. ASSUME NEW q \in Programs, NEW e \in Own(q)', call'[q] # Idle => call'[q].handle # e.handle
        PROVE  dd'[q][e.handle] # None /\ files'[dd'[q][e.handle]].minor = Board[e.name]
    <3>0. dd' = dd /\ files' = files
      BY <1>1 DEF devVars
    <3>1. call[q] # Idle => call[q].handle # e.handle
      <4>1. CASE q = p
        <5>1. c # Idle /\ call'[q] = c /\ c.handle = call[q].handle
          BY <4>1, <1>3, <1>5, <1>6 DEF InOpen
        <5> QED BY <5>1, <2>2
      <4>2. CASE q # p
        BY <4>2, <2>2, <1>5
      <4> QED BY <4>1, <4>2
    <3>2. e \in Own(q)
      BY <2>2, <1>9
    <3> QED BY <3>0, <3>1, <3>2 DEF SInv, Served
  <2> QED BY <2>1, <2>2 DEF Opening, Served
<1>11. Typed'
  <2>1. \A n \in Minors : n # m => reading'[n] = reading[n]
    BY <1>1, <1>2 DEF Tables
  <2>2. ~call[p].raced => ~reading[m]
    BY <1>1, <1>6 DEF SInv, Typed
  <2>3. \A q \in Programs : call[q] # Idle => call[q].board \in Minors
    BY <1>2 DEF Tables, InOpen
  <2> QED BY <2>1, <2>2, <2>3, <1>3, <1>5 DEF SInv, Typed
<1> QED BY <1>7, <1>8, <1>10, <1>11 DEF SInv

\* What freeHandle leaves in the table.
LEMMA FreedOwn ==
  ASSUME Tables, OneEntry, NEW p \in Programs, NEW h \in Handles,
         lock' = [lock EXCEPT ![p] = Freed(p, @, h)]
  PROVE  /\ lock' \in [Programs -> Seq(Entry)] /\ OneEntry'
         /\ \A q \in Programs \ {p} : Own(q)' = Own(q)
         /\ \A e \in Own(p)' : e \in Own(p) /\ e.handle # h
<1>1. lock[p] \in Seq(Entry) /\ Distinct(p, lock[p])
  BY DEF Tables, OneEntry
<1> DEFINE t == Freed(p, lock[p], h)
<1>2. /\ t \in Seq(Entry)
      /\ \A i \in DOMAIN t : \E a \in DOMAIN lock[p] : t[i] = lock[p][a]
      /\ \A i \in DOMAIN t : ~(t[i].pid = p /\ t[i].handle = h)
      /\ \A q \in Programs : Distinct(q, lock[p]) => Distinct(q, t)
  BY <1>1, FreedKeeps
<1>3. lock'[p] = t /\ \A q \in Programs \ {p} : lock'[q] = lock[q]
  BY DEF Tables
<1> HIDE DEF t
<1>4. lock' \in [Programs -> Seq(Entry)]
  BY <1>2, <1>3 DEF Tables
<1>5. OneEntry'
  BY <1>1, <1>2, <1>3 DEF OneEntry
<1>6. \A q \in Programs \ {p} : Own(q)' = Own(q)
  BY <1>3 DEF Own, Entries
<1>7. \A e \in Own(p)' : e \in Own(p) /\ e.handle # h
  BY <1>2, <1>3 DEF Own, Entries
<1> QED BY <1>4, <1>5, <1>6, <1>7

LEMMA OpenFailsInv == ASSUME SInv, NEW p \in Programs, OpenFails(p) PROVE SInv'
<1> DEFINE h == call[p].handle
<1>1. /\ call[p].step = "open" /\ lock' = [lock EXCEPT ![p] = Freed(p, @, h)]
      /\ call' = [call EXCEPT ![p] = Idle] /\ UNCHANGED <<devVars, dd, started, reading, shared>>
  BY DEF OpenFails
<1>2. Tables /\ call[p] # Idle /\ h \in Handles
  BY <1>1 DEF SInv, Tables, Idle, InOpen
<1>3. DevInv' /\ FilesHeld' /\ OneHolder' /\ Loaded' /\ Users' /\ Running'
  BY <1>1, OnlyCalls
<1>4. /\ lock' \in [Programs -> Seq(Entry)] /\ OneEntry'
      /\ \A q \in Programs \ {p} : Own(q)' = Own(q)
      /\ \A e \in Own(p)' : e \in Own(p) /\ e.handle # h
  BY <1>1, <1>2, FreedOwn DEF SInv
<1>5. call'[p] = Idle /\ \A q \in Programs \ {p} : call'[q] = call[q]
  BY <1>1, <1>2 DEF Tables
<1>6. Tables'
  BY <1>1, <1>2, <1>4 DEF Tables
<1>7. Opening' /\ Typed'
  BY <1>1, <1>4, <1>5 DEF SInv, Opening, Typed
<1>8. Served'
  <2>1. ASSUME NEW q \in Programs, NEW e \in Own(q)', call'[q] # Idle => call'[q].handle # e.handle
        PROVE  dd'[q][e.handle] # None /\ files'[dd'[q][e.handle]].minor = Board[e.name]
    <3>1. e \in Own(q) /\ (call[q] # Idle => call[q].handle # e.handle)
      BY <2>1, <1>4, <1>5
    <3>2. dd' = dd /\ files' = files
      BY <1>1 DEF devVars
    <3> QED BY <3>1, <3>2 DEF SInv, Served
  <2> QED BY <2>1 DEF Served
<1> QED BY <1>3, <1>4, <1>6, <1>7, <1>8 DEF SInv

---------------------------------------------------------------------------
\* What is known of a descriptor.
LEMMA HeldFile ==
  ASSUME SInv, NEW p \in Programs, NEW h \in Handles, dd[p][h] # None
  PROVE  LET f == dd[p][h] IN
         /\ f \in Files /\ f \in Opened /\ files[f] \in OpenFile /\ files[f].mapped = FALSE
         /\ mod.state = "live" /\ files[f].minor \in Found /\ files[f].minor \in Minors
         /\ pde[files[f].minor] \in Extension
         /\ Backed(f) /\ p \in Holders(f) /\ IsFiniteSet(Holders(f))
         /\ files[f].fds = Cardinality(Holders(f)) /\ files[f].fds \in Nat /\ files[f].fds > 0
         /\ \A g \in Handles : dd[p][g] = f => g = h
<1> DEFINE f == dd[p][h]
<1>1. /\ f \in Opened /\ files[f].fds = Cardinality(Holders(f)) /\ files[f].mapped = FALSE
      /\ ~files[f].early /\ p \in Holders(f) /\ \A g \in Handles : dd[p][g] = f => g = h
  BY DEF SInv, FilesHeld, Holders
<1>2. f \in Files /\ files[f] # None
  BY <1>1 DEF Opened
<1>3. mod.state = "live" /\ files[f].minor \in Found
  BY <1>1 DEF SInv, DevInv, Counted
<1>4. files[f] \in OpenFile /\ files[f].fds \in Nat
  BY <1>2, OfFile DEF SInv
<1>5. files[f].minor \in Minors /\ pde[files[f].minor] # None /\ pde[files[f].minor] \in Extension
  BY <1>3 DEF Found, SInv, DevInv, DeviceType
<1>6. IsFiniteSet(Holders(f))
  BY SessionAssumption, FS_Subset DEF Holders
<1>7. Cardinality(Holders(f)) # 0
  BY <1>1, <1>6, FS_EmptySet
<1>8. Backed(f)
  BY <1>3, <1>5 DEF Backed
<1> HIDE DEF f
<1>9. files[f].fds > 0
  BY <1>1, <1>4, <1>7
<1> QED BY <1>1, <1>2, <1>3, <1>4, <1>5, <1>6, <1>8, <1>9 DEF f

\* A board that no fork has shared has one file.
LEMMA OnlyFile ==
  ASSUME SInv, NEW m \in Found, m \notin shared
  PROVE  /\ IsFiniteSet(OfBoardM(m)) /\ pde[m].count = Cardinality(OfBoardM(m))
         /\ \A f, g \in OfBoardM(m) : f = g
<1>1. IsFiniteSet(OfBoardM(m))
  BY DeviceAssumption, FS_Subset DEF OfBoardM
<1>2. pde[m].count = Cardinality(OfBoardM(m)) /\ pde[m].count <= 1
  BY DEF SInv, Users
<1>3. ASSUME NEW f \in OfBoardM(m), NEW g \in OfBoardM(m), f # g PROVE FALSE
  <2>1. IsFiniteSet({g}) /\ Cardinality({g}) = 1
    BY FS_Singleton
  <2>2. Cardinality({g} \cup {f}) = 2
    BY <2>1, <1>3, FS_AddElement
  <2>3. Cardinality({g} \cup {f}) <= Cardinality(OfBoardM(m))
    BY <1>1, <1>3, FS_Subset
  <2>4. Cardinality(OfBoardM(m)) \in Nat
    BY <1>1, FS_CardinalityType
  <2> QED BY <2>2, <2>3, <2>4, <1>2
<1> QED BY <1>1, <1>2, <1>3

\* And that file one holder.
LEMMA SoleHolder ==
  ASSUME SInv, NEW p \in Programs, NEW h \in Handles, dd[p][h] # None,
         files[dd[p][h]].minor \notin shared
  PROVE  Holders(dd[p][h]) = {p} /\ files[dd[p][h]].fds = 1
<1>1. Holders(dd[p][h]) = {p}
  BY HeldFile DEF SInv, OneHolder, Holders
<1>2. Cardinality({p}) = 1
  BY FS_Singleton
<1> QED BY <1>1, <1>2, HeldFile

LEMMA DaqArmInv ==
  ASSUME SInv, NEW p \in Programs, NEW h \in Handles, DaqArm(p, h) PROVE SInv'
<1> DEFINE f == dd[p][h]
           m == files[f].minor
<1>1. /\ f # None /\ Arm(f) /\ UNCHANGED <<lock, dd, call, reading, shared>>
      /\ started' = [started EXCEPT ![p] = @ \cup {h}]
  BY DEF DaqArm
<1>2. /\ f \in Files /\ m \in Found /\ m \in Minors /\ pde[m] \in Extension
  BY <1>1, HeldFile
<1>3. DevInv'
  BY <1>1, <1>2, ArmInv DEF SInv
<1>4. /\ UNCHANGED <<mod, files>>
      /\ pde' = [pde EXCEPT ![m].running = TRUE]
  BY <1>1 DEF Arm
<1>5. /\ pde'[m] = [pde[m] EXCEPT !.running = TRUE]
      /\ \A i \in Minors \ {m} : pde'[i] = pde[i]
  BY <1>2, <1>4 DEF SInv, DevInv, DeviceType
<1>6. /\ pde'[m].running = TRUE /\ pde'[m].count = pde[m].count /\ pde'[m] # None
  BY <1>2, <1>5, NoneAssumption DEF Extension
<1>7. Opened' = Opened /\ Found' = Found
  <2>1. Opened' = Opened
    BY <1>4 DEF Opened
  <2>2. Found' = Found
    BY <1>2, <1>5, <1>6 DEF Found
  <2> QED BY <2>1, <2>2
<1> HIDE DEF f, m
<1>8. Tables' /\ OneEntry' /\ Loaded' /\ FilesHeld' /\ OneHolder'
  <2>1. started' \in [Programs -> SUBSET Handles]
    BY <1>1 DEF SInv, Tables
  <2>2. Tables'
    BY <2>1, <1>1 DEF SInv, Tables
  <2>3. FilesHeld' /\ OneHolder'
    BY <1>1, <1>4, <1>7 DEF SInv, FilesHeld, OneHolder, Holders
  <2> QED BY <2>2, <2>3, <1>1, <1>4 DEF SInv, OneEntry, Loaded
<1>9. Served' /\ Opening' /\ Typed'
  <2>1. \A q \in Programs : Own(q)' = Own(q)
    BY <1>1 DEF Own, Entries
  <2> QED BY <2>1, <1>1, <1>4 DEF SInv, Served, Opening, Typed
<1>10. Users'
  <2>1. \A i \in Minors : OfBoardM(i)' = OfBoardM(i)
    BY <1>4 DEF OfBoardM
  <2>2. \A i \in Found : i \in Minors /\ pde'[i].count = pde[i].count
    BY <1>5, <1>6 DEF Found
  <2> QED BY <2>1, <2>2, <1>1, <1>7 DEF SInv, Users
<1>11. Running'
  <2>1. ASSUME NEW q \in Programs, NEW g \in started'[q]
        PROVE  /\ dd'[q][g] # None
               /\ files'[dd'[q][g]].minor \notin shared' =>
                    pde'[files'[dd'[q][g]].minor].running = TRUE
    <3>1. CASE q = p /\ g = h
      BY <3>1, <1>1, <1>4, <1>6 DEF f, m
    <3>2. CASE ~(q = p /\ g = h)
      <4>1. g \in started[q] /\ g \in Handles
        BY <2>1, <3>2, <1>1 DEF SInv, Tables
      <4>2. /\ dd[q][g] # None
            /\ files[dd[q][g]].minor \notin shared => pde[files[dd[q][g]].minor].running = TRUE
        BY <4>1 DEF SInv, Running
      <4>3. files[dd[q][g]].minor \in Minors
        BY <4>1, <4>2, HeldFile
      <4> QED BY <4>2, <4>3, <1>1, <1>4, <1>5, <1>6
    <3> QED BY <3>1, <3>2
  <2> QED BY <2>1 DEF Running
<1> QED BY <1>3, <1>8, <1>9, <1>10, <1>11 DEF SInv

\* The module goes when no file is open.
LEMMA GoingInv ==
  ASSUME SInv, UNCHANGED sessionVars, UNCHANGED files, DevInv', Loaded', Opened = {},
         \A i \in Minors : pde'[i] \in {pde[i], None}
  PROVE  SInv'
<1> USE DEF sessionVars
<1>1. \A p \in Programs, h \in Handles : dd[p][h] = None
  BY DEF SInv, FilesHeld
<1>2. \A p \in Programs : started[p] = {}
  BY <1>1 DEF SInv, Running, Tables
<1>3. Opened' = {}
  BY DEF Opened
<1>4. Tables' /\ OneEntry' /\ FilesHeld' /\ OneHolder' /\ Running'
  BY <1>1, <1>2, <1>3 DEF SInv, Tables, OneEntry, FilesHeld, OneHolder, Running
<1>5. Served' /\ Opening' /\ Typed'
  <2>1. \A q \in Programs : Own(q)' = Own(q)
    BY DEF Own, Entries
  <2> QED BY <2>1 DEF SInv, Served, Opening, Typed
<1>6. Users'
  <2>1. \A i \in Minors : OfBoardM(i)' = OfBoardM(i)
    BY DEF OfBoardM
  <2>2. \A i \in Found' : i \in Minors /\ i \in Found /\ pde'[i] = pde[i]
    BY DEF Found
  <2>3. shared' = shared /\ Users
    BY DEF SInv
  <2> HIDE DEF sessionVars
  <2> QED BY <2>1, <2>2, <2>3 DEF Users
<1> QED BY <1>4, <1>5, <1>6 DEF SInv

LEMMA ModuleGoesInv ==
  ASSUME SInv, Rmmod \/ CleanBuffers \/ CleanPde \/ CleanModule, UNCHANGED sessionVars
  PROVE  SInv'
<1>1. DevInv'
  BY RmmodInv, CleanBuffersInv, CleanPdeInv, CleanModuleInv DEF SInv
<1>2. mod \in ModuleType /\ pde \in [Minors -> Extension \cup {None}]
  BY DEF SInv, DevInv, DeviceType
<1>3. CASE Rmmod
  <2>1. mod.state = "live" /\ refs = 0 /\ UNCHANGED <<pde, files>> /\ Cleanup("going", FALSE)
    BY <1>3 DEF Rmmod, At
  <2>2. Opened = {}
    <3>1. IsFiniteSet(Opened)
      BY DeviceAssumption, FS_Subset DEF Opened
    <3>2. Cardinality(Opened) \in Nat /\ (Cardinality(Opened) = 0 => Opened = {})
      BY <3>1, FS_CardinalityType, FS_EmptySet
    <3>3. refs >= 2 * Cardinality(Opened)
      BY <2>1 DEF SInv, DevInv, Counted
    <3> QED BY <2>1, <3>2, <3>3
  <2>3. Loaded'
    BY <2>1, <1>2 DEF Cleanup, Loaded, ModuleType
  <2> QED BY <2>1, <2>2, <2>3, <1>1, GoingInv
<1>4. CASE CleanBuffers \/ CleanPde \/ CleanModule
  <2>1. mod.state = "going" /\ mod.inner = FALSE
    BY <1>4, <1>2 DEF CleanBuffers, CleanPde, CleanModule, SInv, DevInv, Phases, Loaded, ModuleType
  <2>2. Opened = {}
    BY <2>1 DEF SInv, DevInv, Counted
  <2>3. Loaded' /\ UNCHANGED files /\ \A i \in Minors : pde'[i] \in {pde[i], None}
    BY <1>4, <1>2, <2>1 DEF CleanBuffers, CleanPde, CleanModule, Go, Loaded, ModuleType
  <2> QED BY <2>2, <2>3, <1>1, GoingInv
<1> QED BY <1>3, <1>4

---------------------------------------------------------------------------
\* A session gives up its descriptor, if it has one.
Closes(p, h) ==
  /\ CloseDevice(p, h)
  /\ dd' = [dd EXCEPT ![p][h] = None]
  /\ started' = [started EXCEPT ![p] = @ \ {h}]
  /\ shared' = shared

LEMMA CloseKeeps ==
  ASSUME SInv, NEW p \in Programs, NEW h \in Handles, Closes(p, h)
  PROVE  /\ DevInv' /\ FilesHeld' /\ OneHolder' /\ Loaded' /\ Users' /\ Running'
         /\ dd' \in [Programs -> [Handles -> Files \cup {None}]]
         /\ started' \in [Programs -> SUBSET Handles]
         /\ dd'[p][h] = None
         /\ \A q \in Programs, g \in Handles : ~(q = p /\ g = h) => dd'[q][g] = dd[q][g]
         /\ \A q \in Programs, g \in Handles :
              dd'[q][g] # None => files'[dd'[q][g]].minor = files[dd'[q][g]].minor
<1> DEFINE d == dd[p][h]
<1>1. /\ dd' \in [Programs -> [Handles -> Files \cup {None}]]
      /\ started' \in [Programs -> SUBSET Handles]
      /\ dd'[p][h] = None
      /\ \A q \in Programs, g \in Handles : ~(q = p /\ g = h) => dd'[q][g] = dd[q][g]
  BY DEF Closes, SInv, Tables
<1>2. \A q \in Programs, g \in Handles : g \in started'[q] <=> g \in started[q] /\ ~(q = p /\ g = h)
  BY DEF Closes, SInv, Tables
<1>3. CASE d = None
  <2>1. UNCHANGED devVars
    BY <1>3 DEF Closes, CloseDevice
  <2>2. dd' = dd
    BY <1>3 DEF Closes, SInv, Tables
  <2>3. h \notin started[p]
    BY <1>3 DEF SInv, Running
  <2>4. started' = started
    BY <2>3 DEF Closes, SInv, Tables
  <2>5. DevInv' /\ FilesHeld' /\ OneHolder' /\ Loaded' /\ Users' /\ Running'
    BY <2>1, <2>2, <2>4, OnlyCalls DEF Closes
  <2> QED BY <1>1, <2>1, <2>5 DEF devVars
<1>4. CASE d # None
  <2>0. PICK f \in Files : f = dd[p][h]
    BY <1>4, HeldFile
  <2> DEFINE m == files[f].minor
             n == files[f].fds
  <2>1. /\ f \in Files /\ f \in Opened /\ files[f] \in OpenFile /\ files[f].mapped = FALSE
        /\ mod.state = "live" /\ m \in Found /\ m \in Minors /\ pde[m] \in Extension
        /\ Backed(f) /\ p \in Holders(f) /\ IsFiniteSet(Holders(f))
        /\ n = Cardinality(Holders(f)) /\ n \in Nat /\ n > 0
        /\ \A g \in Handles : dd[p][g] = f => g = h
    BY <1>4, <2>0, HeldFile
  <2>2. CloseFd(f) /\ shared' = shared
    BY <1>4, <2>0, <2>1 DEF Closes, CloseDevice
  <2>3. DevInv'
    BY <2>1, <2>2, CloseFdInv DEF SInv
  <2>4. /\ pde'[m].count = pde[m].count - 1 /\ pde'[m] # None
        /\ \A i \in Minors \ {m} : pde'[i] = pde[i]
    <3>1. pde' = [pde EXCEPT ![m] = Flushed(@)]
      BY <2>2 DEF CloseFd
    <3>2. pde'[m] = [pde[m] EXCEPT !.count = pde[m].count - 1, !.running = FALSE]
      BY <2>1, <3>1 DEF Flushed, SInv, DevInv, DeviceType
    <3>3. pde[m].count - 1 \in Int
      BY <2>1 DEF Extension
    <3>4. pde'[m] \in Extension /\ pde'[m].count = pde[m].count - 1
      BY <2>1, <3>2, <3>3 DEF Extension
    <3> QED BY <3>1, <3>4, NoneAssumption, <2>1 DEF SInv, DevInv, DeviceType
  <2>5. mod' = mod /\ files' = [files EXCEPT ![f] =
                        IF n = 1 THEN None ELSE [files[f] EXCEPT !.fds = n - 1]]
    <3> DEFINE less == [files[f] EXCEPT !.fds = n - 1]
    <3>1. mod' = mod /\ files' = [files EXCEPT ![f] = Dropped([files[f] EXCEPT !.fds = @ - 1], refs).file]
      BY <2>2 DEF CloseFd
    <3>2. [files[f] EXCEPT !.fds = @ - 1] = less
      OBVIOUS
    <3>3. less.fds = n - 1 /\ less.mapped = FALSE
      BY <2>1 DEF OpenFile
    <3> HIDE DEF less
    <3>4. Dropped(less, refs).file = IF n = 1 THEN None ELSE less
      BY <3>3, <2>1 DEF Dropped
    <3> QED BY <3>1, <3>2, <3>4 DEF less
  <2>6. /\ \A g \in Files \ {f} : files'[g] = files[g]
        /\ n = 1 => files'[f] = None
        /\ n # 1 => /\ files'[f] # None /\ files'[f].fds = n - 1 /\ files'[f].minor = m
                    /\ files'[f].mapped = FALSE /\ files'[f].early = files[f].early
    <3>1. files'[f] = IF n = 1 THEN None ELSE [files[f] EXCEPT !.fds = n - 1]
      BY <2>1, <2>5 DEF SInv, DevInv, DeviceType
    <3>2. n # 1 => /\ [files[f] EXCEPT !.fds = n - 1] \in OpenFile
                   /\ [files[f] EXCEPT !.fds = n - 1].fds = n - 1
                   /\ [files[f] EXCEPT !.fds = n - 1].minor = m
                   /\ [files[f] EXCEPT !.fds = n - 1].mapped = FALSE
                   /\ [files[f] EXCEPT !.fds = n - 1].early = files[f].early
      <4>1. n # 1 => n - 1 \in Nat
        BY <2>1
      <4> QED BY <4>1, <2>1 DEF OpenFile
    <3>3. \A g \in Files \ {f} : files'[g] = files[g]
      BY <2>5 DEF SInv, DevInv, DeviceType
    <3> QED BY <3>1, <3>2, <3>3, NoneAssumption
  <2> HIDE DEF d, m, n
  <2>7. /\ Holders(f)' = Holders(f) \ {p}
        /\ \A g \in Files \ {f} : Holders(g)' = Holders(g)
    <3>1. f # None /\ f = dd[p][h]
      BY <1>4, <2>0 DEF d
    <3>2. \A q \in Programs : (\E g \in Handles : dd'[q][g] = f)
                                 <=> q # p /\ \E g \in Handles : dd[q][g] = f
      BY <1>1, <2>1, <3>1
    <3>3. \A k \in Files \ {f}, q \in Programs :
            (\E g \in Handles : dd'[q][g] = k) <=> \E g \in Handles : dd[q][g] = k
      BY <1>1, <3>1, SessionAssumption
    <3> QED BY <3>2, <3>3 DEF Holders
  <2>8. /\ Cardinality(Holders(f) \ {p}) = n - 1
        /\ n = 1 => Holders(f) \ {p} = {}
    <3>1. Cardinality(Holders(f) \ {p}) = n - 1 /\ IsFiniteSet(Holders(f) \ {p})
      BY <2>1, FS_RemoveElement
    <3>2. Cardinality(Holders(f) \ {p}) = 0 => Holders(f) \ {p} = {}
      BY <3>1, FS_EmptySet
    <3> QED BY <2>1, <3>1, <3>2
  <2>9. \A q \in Programs, g \in Handles :
          dd'[q][g] # None =>
             /\ dd'[q][g] = dd[q][g] /\ dd[q][g] \in Opened /\ dd[q][g] \in Files
             /\ n = 1 => dd[q][g] # f
    <3> SUFFICES ASSUME NEW q \in Programs, NEW g \in Handles, dd'[q][g] # None
                 PROVE  /\ dd'[q][g] = dd[q][g] /\ dd[q][g] \in Opened /\ dd[q][g] \in Files
                        /\ n = 1 => dd[q][g] # f
      OBVIOUS
    <3>1. dd'[q][g] = dd[q][g] /\ dd[q][g] # None
      BY <1>1
    <3>2. dd[q][g] \in Opened /\ dd[q][g] \in Files
      BY <3>1, HeldFile
    <3>3. ASSUME n = 1, dd[q][g] = f PROVE FALSE
      <4>1. q \in Holders(f)'
        BY <3>1, <3>3 DEF Holders
      <4> QED BY <4>1, <2>7, <2>8, <3>3
    <3> QED BY <3>1, <3>2, <3>3
  <2>10. /\ \A k \in Files : k \in Opened' <=> k \in Opened /\ (n = 1 => k # f)
         /\ \A k \in Opened' : k \in Files
    BY <2>1, <2>6 DEF Opened
  <2>11. \A k \in Opened' : /\ files'[k].minor = files[k].minor
                            /\ files'[k].early = files[k].early
                            /\ files'[k].mapped = FALSE
                            /\ k # f => files'[k] = files[k]
    BY <2>1, <2>6, <2>10 DEF m, SInv, FilesHeld
  <2>12. FilesHeld'
    <3>1. ASSUME NEW k \in Opened'
          PROVE  files'[k].fds = Cardinality(Holders(k)') /\ files'[k].mapped = FALSE
                 /\ files'[k].early = FALSE
      <4>1. k \in Opened /\ k \in Files
        BY <2>10
      <4>2. files[k].fds = Cardinality(Holders(k)) /\ files[k].early = FALSE
        BY <4>1 DEF SInv, FilesHeld
      <4>3. CASE k = f
        BY <4>2, <4>3, <2>6, <2>7, <2>8, <2>10, <2>11
      <4>4. CASE k # f
        BY <4>1, <4>2, <4>4, <2>7, <2>11
      <4> QED BY <4>3, <4>4
    <3>2. \A q \in Programs, g \in Handles : dd'[q][g] # None => dd'[q][g] \in Opened'
      BY <2>9, <2>10
    <3>3. \A q \in Programs, g, k \in Handles : dd'[q][g] = dd'[q][k] /\ dd'[q][g] # None => g = k
      BY <2>9 DEF SInv, FilesHeld
    <3> QED BY <3>1, <3>2, <3>3 DEF FilesHeld
  <2>13. \A q \in Programs, g \in Handles :
           dd'[q][g] # None => files'[dd'[q][g]].minor = files[dd'[q][g]].minor
    BY <2>9, <2>10, <2>11
  <2>14. OneHolder'
    BY <2>2, <2>9, <2>13 DEF SInv, OneHolder
  <2>15. Loaded'
    BY <2>5 DEF SInv, Loaded
  <2>16. Users'
    <3>1. Found' = Found
      BY <2>1, <2>4 DEF Found
    <3>2. ASSUME NEW i \in Found
          PROVE  /\ pde'[i].count <= 1
                 /\ i \notin shared => pde'[i].count = Cardinality(OfBoardM(i)')
      <4>0. i \in Minors /\ pde[i].count <= 1
        BY DEF SInv, Users, Found
      <4>1. CASE i # m
        <5>1. OfBoardM(i)' = OfBoardM(i)
          BY <4>1, <2>1, <2>6 DEF OfBoardM, m
        <5> QED BY <4>0, <4>1, <5>1, <2>4 DEF SInv, Users
      <4>2. CASE i = m
        <5>1. pde[m].count \in Int /\ pde'[m].count = pde[m].count - 1
          BY <2>1, <2>4 DEF Extension
        <5>2. ASSUME i \notin shared PROVE pde'[i].count = Cardinality(OfBoardM(i)')
          <6>1. n = 1
            BY <5>2, <4>2, <1>4, <2>0, SoleHolder DEF d, m, n
          <6>2. OfBoardM(i)' = OfBoardM(i) \ {f} /\ f \in OfBoardM(i)
            BY <6>1, <4>2, <2>1, <2>6 DEF OfBoardM, m, Opened
          <6>3. IsFiniteSet(OfBoardM(i)) /\ pde[i].count = Cardinality(OfBoardM(i))
            BY <5>2, <4>2, OnlyFile
          <6>4. Cardinality(OfBoardM(i) \ {f}) = Cardinality(OfBoardM(i)) - 1
            BY <6>2, <6>3, FS_RemoveElement
          <6>5. pde'[i].count = pde[i].count - 1
            BY <4>2, <5>1
          <6> QED BY <6>2, <6>3, <6>4, <6>5
        <5> QED BY <4>0, <4>2, <5>1, <5>2
      <4> QED BY <4>1, <4>2
    <3> QED BY <2>2, <3>1, <3>2 DEF Users
  <2>17. Running'
    <3>1. ASSUME NEW q \in Programs, NEW g \in started'[q]
          PROVE  /\ dd'[q][g] # None
                 /\ files'[dd'[q][g]].minor \notin shared =>
                      pde'[files'[dd'[q][g]].minor].running = TRUE
      <4>1. g \in Handles /\ g \in started[q] /\ ~(q = p /\ g = h)
        BY <3>1, <1>1, <1>2
      <4>2. /\ dd[q][g] # None /\ dd'[q][g] = dd[q][g]
            /\ files[dd[q][g]].minor \notin shared =>
                 pde[files[dd[q][g]].minor].running = TRUE
        BY <4>1, <1>1 DEF SInv, Running
      <4>3. files'[dd'[q][g]].minor = files[dd[q][g]].minor
        BY <4>1, <4>2, <2>13
      <4>4. /\ dd[q][g] \in Files /\ dd[q][g] \in Opened
            /\ files[dd[q][g]].minor \in Minors
        BY <4>1, <4>2, HeldFile
      <4>5. ASSUME files[dd[q][g]].minor = m, m \notin shared PROVE FALSE
        <5>1. dd[q][g] \in OfBoardM(m) /\ f \in OfBoardM(m)
          BY <4>4, <4>5, <2>1 DEF OfBoardM, Opened, m
        <5>2. dd[q][g] = f
          BY <5>1, <4>5, <2>1, OnlyFile
        <5>3. q = p
          BY <5>2, <4>1, <4>5, <2>0, <2>1, <4>2 DEF SInv, OneHolder, m
        <5> QED BY <5>2, <5>3, <4>1, <2>1
      <4> QED BY <4>2, <4>3, <4>4, <4>5, <2>4
    <3> QED BY <2>2, <3>1 DEF Running
  <2> QED BY <1>1, <2>3, <2>12, <2>13, <2>14, <2>15, <2>16, <2>17
<1> QED BY <1>3, <1>4

LEMMA DaqCloseInv ==
  ASSUME SInv, NEW p \in Programs, NEW h \in Handles, DaqClose(p, h) PROVE SInv'
<1>1. /\ call[p] = Idle /\ Closes(p, h) /\ lock' = [lock EXCEPT ![p] = Freed(p, @, h)]
      /\ UNCHANGED <<call, reading>> /\ shared' = shared
  BY DEF DaqClose, Closes
<1>2. /\ DevInv' /\ FilesHeld' /\ OneHolder' /\ Loaded' /\ Users' /\ Running'
      /\ dd' \in [Programs -> [Handles -> Files \cup {None}]]
      /\ started' \in [Programs -> SUBSET Handles]
      /\ dd'[p][h] = None
      /\ \A q \in Programs, g \in Handles : ~(q = p /\ g = h) => dd'[q][g] = dd[q][g]
      /\ \A q \in Programs, g \in Handles :
           dd'[q][g] # None => files'[dd'[q][g]].minor = files[dd'[q][g]].minor
  BY <1>1, CloseKeeps
<1>3. /\ lock' \in [Programs -> Seq(Entry)] /\ OneEntry'
      /\ \A q \in Programs \ {p} : Own(q)' = Own(q)
      /\ \A e \in Own(p)' : e \in Own(p) /\ e.handle # h
  BY <1>1, FreedOwn DEF SInv
<1>4. Tables'
  BY <1>1, <1>2, <1>3 DEF SInv, Tables
<1>5. Typed'
  BY <1>1 DEF SInv, Typed
<1>6. Served'
  <2>1. ASSUME NEW q \in Programs, NEW e \in Own(q)', call'[q] # Idle => call'[q].handle # e.handle
        PROVE  dd'[q][e.handle] # None /\ files'[dd'[q][e.handle]].minor = Board[e.name]
    <3>1. e \in Own(q) /\ ~(q = p /\ e.handle = h)
      BY <1>3
    <3>2. e.handle \in Handles
      BY <3>1, OwnIn DEF SInv
    <3>3. dd[q][e.handle] # None /\ files[dd[q][e.handle]].minor = Board[e.name]
      BY <2>1, <3>1, <1>1 DEF SInv, Served
    <3> QED BY <3>1, <3>2, <3>3, <1>2
  <2> QED BY <2>1 DEF Served
<1>7. Opening'
  <2>1. ASSUME NEW q \in Programs, call'[q] # Idle
        PROVE  /\ dd'[q][call'[q].handle] = None
               /\ \A e \in Own(q)' : e.handle = call'[q].handle => e.name = call'[q].name
               /\ call'[q].board <= Board[call'[q].name]
               /\ call'[q].step = "open" => call'[q].board = Board[call'[q].name]
    <3>1. q # p /\ call'[q] = call[q] /\ Own(q)' = Own(q) /\ call[q].handle \in Handles
      BY <2>1, <1>1, <1>3 DEF SInv, Tables, InOpen
    <3>2. dd'[q][call[q].handle] = dd[q][call[q].handle]
      BY <3>1, <1>2
    <3> QED BY <2>1, <3>1, <3>2 DEF SInv, Opening
  <2> QED BY <2>1 DEF Opening
<1> QED BY <1>2, <1>3, <1>4, <1>5, <1>6, <1>7 DEF SInv

\* daqOpen begins, with the entry of the name in the table.
LEMMA BeginInv ==
  ASSUME SInv, NEW p \in Programs, NEW n \in Names, NEW h \in Handles, call[p] = Idle,
         Begin(p, n, h), lock' \in [Programs -> Seq(Entry)], OneEntry',
         \A q \in Programs \ {p} : Own(q)' = Own(q),
         \A e \in Own(p)' : IF e.handle = h THEN e.name = n ELSE e \in Own(p)
  PROVE  SInv'
<1> DEFINE c == Looks(n, h)
<1>1. /\ Closes(p, h) /\ call' = [call EXCEPT ![p] = c] /\ UNCHANGED <<reading, shared>>
  BY DEF Begin, Closes
<1>2. /\ DevInv' /\ FilesHeld' /\ OneHolder' /\ Loaded' /\ Users' /\ Running'
      /\ dd' \in [Programs -> [Handles -> Files \cup {None}]]
      /\ started' \in [Programs -> SUBSET Handles]
      /\ dd'[p][h] = None
      /\ \A q \in Programs, g \in Handles : ~(q = p /\ g = h) => dd'[q][g] = dd[q][g]
      /\ \A q \in Programs, g \in Handles :
           dd'[q][g] # None => files'[dd'[q][g]].minor = files[dd'[q][g]].minor
  BY <1>1, CloseKeeps
<1>3. c \in InOpen /\ c.step = "look" /\ c.name = n /\ c.handle = h /\ c.board = 0
  <2>1. 0 \in Minors
    BY DeviceAssumption DEF Minors
  <2> QED BY <2>1 DEF InOpen, Looks
<1>4. c # Idle /\ 0 <= Board[n]
  BY <1>3, SessionAssumption DEF Idle, Minors
<1> HIDE DEF c
<1>5. call'[p] = c /\ \A q \in Programs \ {p} : call'[q] = call[q]
  BY <1>1 DEF SInv, Tables
<1>6. Tables'
  BY <1>1, <1>2, <1>3 DEF SInv, Tables
<1>7. Typed'
  BY <1>1, <1>3, <1>5 DEF SInv, Typed
<1>8. Served'
  <2>1. ASSUME NEW q \in Programs, NEW e \in Own(q)', call'[q] # Idle => call'[q].handle # e.handle
        PROVE  dd'[q][e.handle] # None /\ files'[dd'[q][e.handle]].minor = Board[e.name]
    <3>1. e \in Own(q) /\ ~(q = p /\ e.handle = h)
      BY <2>1, <1>3, <1>4, <1>5
    <3>2. e.handle \in Handles
      BY <3>1, OwnIn DEF SInv
    <3>3. call[q] # Idle => call[q].handle # e.handle
      BY <2>1, <1>5
    <3>4. dd[q][e.handle] # None /\ files[dd[q][e.handle]].minor = Board[e.name]
      BY <3>1, <3>3 DEF SInv, Served
    <3> QED BY <3>1, <3>2, <3>4, <1>2
  <2> QED BY <2>1 DEF Served
<1>9. Opening'
  <2>1. ASSUME NEW q \in Programs, call'[q] # Idle
        PROVE  /\ dd'[q][call'[q].handle] = None
               /\ \A e \in Own(q)' : e.handle = call'[q].handle => e.name = call'[q].name
               /\ call'[q].board <= Board[call'[q].name]
               /\ call'[q].step = "open" => call'[q].board = Board[call'[q].name]
    <3>1. CASE q = p
      BY <3>1, <1>2, <1>3, <1>4, <1>5
    <3>2. CASE q # p
      <4>1. call'[q] = call[q] /\ Own(q)' = Own(q) /\ call[q].handle \in Handles
        BY <2>1, <3>2, <1>5 DEF SInv, Tables, InOpen
      <4>2. dd'[q][call[q].handle] = dd[q][call[q].handle]
        BY <3>2, <4>1, <1>2
      <4> QED BY <2>1, <4>1, <4>2 DEF SInv, Opening
    <3> QED BY <3>1, <3>2
  <2> QED BY <2>1 DEF Opening
<1> QED BY <1>2, <1>6, <1>7, <1>8, <1>9 DEF SInv

LEMMA DaqOpenKnownInv ==
  ASSUME SInv, NEW p \in Programs, NEW n \in Names, DaqOpenKnown(p, n) PROVE SInv'
<1>1. PICK e \in Own(p) : e.name = n /\ Begin(p, n, e.handle)
  BY DEF DaqOpenKnown, Known
<1>2. call[p] = Idle /\ lock' = lock /\ e.handle \in Handles
  BY OwnIn DEF DaqOpenKnown, SInv
<1>3. lock' \in [Programs -> Seq(Entry)] /\ OneEntry'
  BY <1>2 DEF SInv, Tables, OneEntry
<1>4. \A q \in Programs : Own(q)' = Own(q)
  BY <1>2 DEF Own, Entries
<1>5. \A d \in Own(p) : d.handle = e.handle => d = e
  BY DEF SInv, OneEntry, Distinct, Own, Entries
<1>6. \A d \in Own(p)' : IF d.handle = e.handle THEN d.name = n ELSE d \in Own(p)
  BY <1>1, <1>4, <1>5
<1>7. \A q \in Programs \ {p} : Own(q)' = Own(q)
  BY <1>4
<1> QED BY <1>1, <1>2, <1>3, <1>6, <1>7, BeginInv

\* openHandle takes the first free handle.
LEMMA FreeHandle ==
  ASSUME NEW p \in Programs, FreeHandles(p) # {}
  PROVE  Free(p) \in Handles /\ ~Valid(p, Free(p))
<1>1. FreeHandles(p) \in SUBSET Nat
  BY DEF FreeHandles, Handles
<1>2. PICK h \in FreeHandles(p) : \A g \in FreeHandles(p) : ~(<<g, h>> \in OpToRel(<, Nat))
  BY <1>1, WFMin, NatLessThanWellFounded
<1> HIDE DEF FreeHandles
<1>3. \A g \in FreeHandles(p) : ~(g < h)
  BY <1>1, <1>2 DEF OpToRel
<1>4. \A g \in FreeHandles(p) : h <= g
  BY <1>1, <1>3
<1>5. Free(p) \in FreeHandles(p)
  BY <1>2, <1>4 DEF Free
<1> QED BY <1>5 DEF FreeHandles

LEMMA DaqOpenInv ==
  ASSUME SInv, NEW p \in Programs, NEW n \in Names, DaqOpen(p, n) PROVE SInv'
<1> DEFINE h == Free(p)
           new == [pid |-> p, name |-> n, handle |-> h]
           t == lock[p]
<1>1. /\ call[p] = Idle /\ Begin(p, n, h) /\ lock' = [lock EXCEPT ![p] = Append(t, new)]
      /\ FreeHandles(p) # {}
  BY DEF DaqOpen
<1>2. h \in Handles /\ ~Valid(p, h)
  BY <1>1, FreeHandle
<1>3. t \in Seq(Entry) /\ new \in Entry /\ new.pid = p /\ new.name = n /\ new.handle = h
  BY <1>2 DEF SInv, Tables, Entry
<1>4. \A i \in DOMAIN t : t[i].pid = p => t[i].handle # h
  BY <1>2 DEF Valid, Own, Entries
<1> HIDE DEF h, new, t
<1> DEFINE u == Append(t, new)
<1>5. /\ u \in Seq(Entry) /\ Len(t) \in Nat /\ DOMAIN t = 1 .. Len(t)
      /\ DOMAIN u = 1 .. Len(t) + 1
      /\ \A i \in 1 .. Len(t) : u[i] = t[i]
      /\ u[Len(t) + 1] = new
  <2>1. u \in Seq(Entry) /\ Len(u) = Len(t) + 1 /\ (\A i \in 1 .. Len(t) : u[i] = t[i])
        /\ u[Len(t) + 1] = new
    BY <1>3, AppendProperties
  <2>2. Len(t) \in Nat /\ DOMAIN t = 1 .. Len(t) /\ DOMAIN u = 1 .. Len(u)
    BY <1>3, <2>1, LenProperties
  <2> QED BY <2>1, <2>2
<1> HIDE DEF u
<1>6. lock'[p] = u /\ \A q \in Programs \ {p} : lock'[q] = lock[q]
  BY <1>1 DEF u, SInv, Tables
<1>7. lock' \in [Programs -> Seq(Entry)]
  BY <1>1, <1>5 DEF u, SInv, Tables
<1>8. OneEntry'
  <2>1. Distinct(p, t)
    BY DEF SInv, OneEntry, t
  <2>2. Distinct(p, u)
    BY <2>1, <1>3, <1>4, <1>5 DEF Distinct
  <2>3. \A q \in Programs : Distinct(q, lock'[q])
    BY <2>2, <1>6 DEF SInv, OneEntry
  <2> QED BY <2>3 DEF OneEntry
<1>9. \A q \in Programs \ {p} : Own(q)' = Own(q)
  BY <1>6 DEF Own, Entries
<1>10. \A e \in Own(p)' : IF e.handle = h THEN e.name = n ELSE e \in Own(p)
  <2>1. \A e \in Own(p)' : e.pid = p /\ \E i \in DOMAIN u : e = u[i]
    BY <1>6 DEF Own, Entries
  <2>2. \A i \in DOMAIN t : t[i].pid = p => t[i] \in Own(p)
    BY DEF Own, Entries, t
  <2> QED BY <2>1, <2>2, <1>3, <1>4, <1>5
<1> QED BY <1>1, <1>2, <1>7, <1>8, <1>9, <1>10, BeginInv

---------------------------------------------------------------------------
LEMMA OpenDeviceInv == ASSUME SInv, NEW p \in Programs, OpenDevice(p) PROVE SInv'
<1>1. PICK f \in Files, m \in Minors, h \in Handles :
        /\ m = call[p].board /\ h = call[p].handle
        /\ Open(f, m) /\ dd' = [dd EXCEPT ![p][h] = f]
  <2>1. call[p] \in InOpen
    BY DEF OpenDevice, SInv, Tables, Idle
  <2> QED BY <2>1 DEF OpenDevice, InOpen
<1>2. /\ call[p] # Idle /\ call[p].step = "open" /\ call' = [call EXCEPT ![p] = Idle]
      /\ UNCHANGED <<lock, started, reading, shared>>
  BY DEF OpenDevice, Idle
<1> DEFINE file == [minor |-> m, fds |-> 1, mapped |-> FALSE, early |-> mod.state = "coming"]
<1>3. /\ files[f] = None /\ CanOpen(m) /\ ~Busy(m) /\ UNCHANGED <<mod, held, again>>
      /\ files' = [files EXCEPT ![f] = file]
      /\ pde' = [pde EXCEPT ![m].count = @ + 1]
  BY <1>1 DEF Open
<1>4. DevInv'
  BY <1>1, OpenInv DEF SInv
<1>5. m \in Found /\ pde[m] \in Extension /\ pde[m].count = 0 /\ mod.state = "live"
  BY <1>3 DEF CanOpen, Busy, Found, SInv, Loaded, DevInv, DeviceType
<1>6. file.minor = m /\ file.fds = 1 /\ file.mapped = FALSE /\ file.early = FALSE /\ file # None
  <2>1. file \in OpenFile
    BY <1>5 DEF OpenFile
  <2> QED BY <2>1, <1>5, NoneAssumption
<1> HIDE DEF file
<1>7. files'[f] = file /\ \A g \in Files \ {f} : files'[g] = files[g]
  BY <1>3 DEF SInv, DevInv, DeviceType
<1>8. /\ pde'[m].count = 1 /\ pde'[m].running = pde[m].running /\ pde'[m] # None
      /\ \A i \in Minors \ {m} : pde'[i] = pde[i]
  <2>1. pde'[m] = [pde[m] EXCEPT !.count = pde[m].count + 1]
    BY <1>3 DEF SInv, DevInv, DeviceType
  <2>2. pde'[m] = [pde[m] EXCEPT !.count = 1]
    BY <2>1, <1>5
  <2>3. pde'[m] \in Extension /\ pde'[m].count = 1 /\ pde'[m].running = pde[m].running
    BY <2>2, <1>5 DEF Extension
  <2> QED BY <2>3, <1>3, NoneAssumption DEF SInv, DevInv, DeviceType
<1>9. Opened' = Opened \cup {f} /\ f \notin Opened /\ Found' = Found
  <2>1. Opened' = Opened \cup {f} /\ f \notin Opened
    BY <1>3, <1>6, <1>7 DEF Opened
  <2>2. Found' = Found
    BY <1>5, <1>8 DEF Found
  <2> QED BY <2>1, <2>2
<1>10. /\ dd' \in [Programs -> [Handles -> Files \cup {None}]]
       /\ dd'[p][h] = f /\ dd[p][h] = None
       /\ \A q \in Programs, g \in Handles : ~(q = p /\ g = h) => dd'[q][g] = dd[q][g]
  BY <1>1, <1>2 DEF SInv, Tables, Opening
<1>11. \A q \in Programs, g \in Handles :
         /\ dd[q][g] # f
         /\ dd[q][g] # None => dd[q][g] \in Files /\ dd[q][g] \in Opened
         /\ dd[q][g] # None => files[dd[q][g]].minor \in Minors
  BY <1>9, SessionAssumption, HeldFile DEF SInv, FilesHeld
<1>12. \A q \in Programs, g \in Handles :
         dd[q][g] # None => dd'[q][g] = dd[q][g] /\ files'[dd'[q][g]] = files[dd[q][g]]
  BY <1>7, <1>10, <1>11
<1>13. call'[p] = Idle /\ \A q \in Programs \ {p} : call'[q] = call[q]
  BY <1>2 DEF SInv, Tables
<1>14. Tables' /\ OneEntry' /\ Loaded'
  BY <1>2, <1>3, <1>10 DEF SInv, Tables, OneEntry, Loaded
<1>15. f # None
  BY SessionAssumption
<1>16. FilesHeld'
  <2>1. Holders(f)' = {p} /\ \A g \in Files \ {f} : Holders(g)' = Holders(g)
    <3>1. Holders(f)' = {p}
      BY <1>10, <1>11 DEF Holders
    <3>2. \A g \in Files \ {f}, q \in Programs :
            (\E k \in Handles : dd'[q][k] = g) <=> \E k \in Handles : dd[q][k] = g
      BY <1>10, SessionAssumption
    <3> QED BY <3>1, <3>2 DEF Holders
  <2>2. Cardinality({p}) = 1
    BY FS_Singleton
  <2>3. ASSUME NEW g \in Opened'
        PROVE  files'[g].fds = Cardinality(Holders(g)') /\ files'[g].mapped = FALSE
               /\ files'[g].early = FALSE
    <3>1. CASE g = f
      BY <3>1, <2>1, <2>2, <1>6, <1>7
    <3>2. CASE g # f
      <4>1. g \in Opened /\ g \in Files
        BY <3>2, <1>9 DEF Opened
      <4> QED BY <4>1, <3>2, <2>1, <1>7 DEF SInv, FilesHeld
    <3> QED BY <3>1, <3>2
  <2>4. \A q \in Programs, g \in Handles : dd'[q][g] # None => dd'[q][g] \in Opened'
    BY <1>9, <1>10, <1>11
  <2>5. \A q \in Programs, g, k \in Handles : dd'[q][g] = dd'[q][k] /\ dd'[q][g] # None => g = k
    BY <1>10, <1>11 DEF SInv, FilesHeld
  <2> QED BY <2>3, <2>4, <2>5 DEF FilesHeld
<1>17. OneHolder'
  <2>1. ASSUME NEW q \in Programs, NEW r \in Programs, NEW g \in Handles, NEW k \in Handles,
               dd'[q][g] = dd'[r][k], dd'[q][g] # None, files'[dd'[q][g]].minor \notin shared
        PROVE  q = r
    <3>1. CASE dd'[q][g] = f
      BY <3>1, <2>1, <1>10, <1>11
    <3>2. CASE dd'[q][g] # f
      <4>1. dd[q][g] = dd[r][k] /\ dd[q][g] # None /\ dd'[q][g] = dd[q][g]
        BY <3>2, <2>1, <1>10
      <4>2. files[dd[q][g]].minor \notin shared
        BY <4>1, <2>1, <1>12
      <4> QED BY <4>1, <4>2 DEF SInv, OneHolder
    <3> QED BY <3>1, <3>2
  <2> QED BY <2>1, <1>2 DEF OneHolder
<1>18. Users'
  <2>1. ASSUME NEW i \in Found
        PROVE  pde'[i].count <= 1 /\ (i \notin shared => pde'[i].count = Cardinality(OfBoardM(i)'))
    <3>0. i \in Minors
      BY DEF Found
    <3>1. CASE i # m
      <4>1. OfBoardM(i)' = OfBoardM(i)
        BY <3>1, <1>3, <1>6, <1>7 DEF OfBoardM
      <4> QED BY <3>0, <3>1, <4>1, <1>8 DEF SInv, Users
    <3>2. CASE i = m
      <4>1. ASSUME i \notin shared PROVE pde'[i].count = Cardinality(OfBoardM(i)')
        <5>1. IsFiniteSet(OfBoardM(i)) /\ Cardinality(OfBoardM(i)) = 0
          BY <4>1, <3>2, <1>5, OnlyFile
        <5>2. OfBoardM(i) = {}
          BY <5>1, FS_EmptySet
        <5>3. OfBoardM(i)' = {f}
          BY <5>2, <3>2, <1>6, <1>7 DEF OfBoardM
        <5>4. Cardinality({f}) = 1
          BY FS_Singleton
        <5> QED BY <3>2, <5>3, <5>4, <1>8
      <4> QED BY <3>2, <4>1, <1>8
    <3> QED BY <3>1, <3>2
  <2> QED BY <2>1, <1>2, <1>9 DEF Users
<1>19. Running'
  <2>1. ASSUME NEW q \in Programs, NEW g \in started[q]
        PROVE  /\ dd'[q][g] # None
               /\ files'[dd'[q][g]].minor \notin shared =>
                    pde'[files'[dd'[q][g]].minor].running = TRUE
    <3>1. /\ g \in Handles /\ dd[q][g] # None
          /\ files[dd[q][g]].minor \notin shared => pde[files[dd[q][g]].minor].running = TRUE
      BY DEF SInv, Running, Tables
    <3>2. dd'[q][g] = dd[q][g] /\ files'[dd'[q][g]] = files[dd[q][g]]
          /\ files[dd[q][g]].minor \in Minors
      BY <3>1, <1>11, <1>12
    <3> QED BY <3>1, <3>2, <1>8
  <2> QED BY <2>1, <1>2 DEF Running
<1>20. \A q \in Programs : Own(q)' = Own(q)
  BY <1>2 DEF Own, Entries
<1>21. Opening' /\ Typed'
  <2>1. Typed'
    BY <1>2, <1>13 DEF SInv, Typed
  <2>2. ASSUME NEW q \in Programs, call'[q] # Idle
        PROVE  /\ dd'[q][call'[q].handle] = None
               /\ \A e \in Own(q)' : e.handle = call'[q].handle => e.name = call'[q].name
               /\ call'[q].board <= Board[call'[q].name]
               /\ call'[q].step = "open" => call'[q].board = Board[call'[q].name]
    <3>1. q # p /\ call'[q] = call[q] /\ Own(q)' = Own(q) /\ call[q].handle \in Handles
      BY <2>2, <1>13, <1>20 DEF SInv, Tables, InOpen
    <3>2. dd'[q][call[q].handle] = dd[q][call[q].handle]
      BY <3>1, <1>10
    <3> QED BY <2>2, <3>1, <3>2 DEF SInv, Opening
  <2> QED BY <2>1, <2>2 DEF Opening
<1>22. Served'
  <2>1. ASSUME NEW q \in Programs, NEW e \in Own(q)', call'[q] # Idle => call'[q].handle # e.handle
        PROVE  dd'[q][e.handle] # None /\ files'[dd'[q][e.handle]].minor = Board[e.name]
    <3>1. e \in Own(q) /\ e.handle \in Handles
      BY <1>20, OwnIn DEF SInv
    <3>2. CASE q = p /\ e.handle = h
      <4>1. e.name = call[p].name /\ m = Board[call[p].name]
        BY <3>1, <3>2, <1>1, <1>2 DEF SInv, Opening
      <4> QED BY <4>1, <3>2, <1>6, <1>7, <1>10, <1>15
    <3>3. CASE ~(q = p /\ e.handle = h)
      <4>1. call[q] # Idle => call[q].handle # e.handle
        BY <2>1, <3>3, <1>1, <1>13
      <4>2. dd[q][e.handle] # None /\ files[dd[q][e.handle]].minor = Board[e.name]
        BY <3>1, <4>1 DEF SInv, Served
      <4> QED BY <3>1, <4>2, <1>12
    <3> QED BY <3>2, <3>3
  <2> QED BY <2>1 DEF Served
<1> QED BY <1>4, <1>14, <1>16, <1>17, <1>18, <1>19, <1>21, <1>22 DEF SInv

LEMMA ForkInv ==
  ASSUME SInv, NEW p \in Programs, NEW c \in Programs, Fork(p, c) PROVE SInv'
<1> DEFINE fs == OpenFiles(p)
<1>1. /\ shared = {} /\ p # c /\ New(c) /\ UNCHANGED <<mod, pde, held, again, refs, nodes>>
      /\ UNCHANGED <<call, started, reading>>
      /\ lock' = [lock EXCEPT ![c] = lock[p]] /\ dd' = [dd EXCEPT ![c] = dd[p]]
      /\ files' = [f \in Files |-> IF f \in fs THEN [files[f] EXCEPT !.fds = @ + 1]
                                   ELSE files[f]]
      /\ shared' = shared \cup {files[f].minor : f \in fs}
  BY DEF Fork
<1>2. /\ call[c] = Idle /\ (\A h \in Handles : dd[c][h] = None)
      /\ \A e \in Entries(p) : e.pid # c
  BY <1>1 DEF New, Unused
<1>3. /\ \A f \in fs : f \in Files /\ f \in Opened /\ files[f] \in OpenFile
                       /\ IsFiniteSet(Holders(f)) /\ files[f].fds \in Nat
                       /\ p \in Holders(f) /\ files[f].minor \in Minors
      /\ \A h \in Handles : dd[p][h] # None => dd[p][h] \in fs
  BY HeldFile DEF OpenFiles
<1>4. \A f \in fs : /\ files'[f] \in OpenFile /\ files'[f].fds = files[f].fds + 1
                    /\ files'[f].minor = files[f].minor
                    /\ files'[f].mapped = files[f].mapped /\ files'[f].early = files[f].early
  <2>1. ASSUME NEW f \in fs
        PROVE  /\ files'[f] \in OpenFile /\ files'[f].fds = files[f].fds + 1
               /\ files'[f].minor = files[f].minor
               /\ files'[f].mapped = files[f].mapped /\ files'[f].early = files[f].early
    <3>1. files[f] \in OpenFile /\ files[f].fds + 1 \in Nat
      BY <1>3
    <3>2. files'[f] = [files[f] EXCEPT !.fds = files[f].fds + 1]
      BY <1>1, <1>3
    <3> QED BY <3>1, <3>2 DEF OpenFile
  <2> QED BY <2>1
<1>5. \A f \in Files \ fs : files'[f] = files[f]
  BY <1>1
<1> HIDE DEF fs
<1>6. Opened' = Opened /\ Found' = Found
  <2>1. \A f \in Files : files'[f] # None <=> files[f] # None
    BY <1>3, <1>4, <1>5, NoneAssumption
  <2> QED BY <2>1, <1>1 DEF Opened, Found
<1>7. /\ dd' \in [Programs -> [Handles -> Files \cup {None}]] /\ dd'[c] = dd[p]
      /\ \A q \in Programs \ {c} : dd'[q] = dd[q]
  BY <1>1 DEF SInv, Tables
<1>8. /\ lock' \in [Programs -> Seq(Entry)] /\ lock'[c] = lock[p]
      /\ \A q \in Programs \ {c} : lock'[q] = lock[q]
  BY <1>1 DEF SInv, Tables
<1>9. \A f \in Files : files[f] # None =>
        /\ files'[f] \in OpenFile /\ files'[f].minor = files[f].minor
        /\ files'[f].mapped = files[f].mapped /\ files'[f].early = files[f].early
  BY <1>4, <1>5, OfFile DEF SInv
<1>10. DevInv'
  <2>1. SameBoards
    BY <1>1, NoBoard DEF SInv
  <2>2. Counted'
    <3>1. \A f \in Opened : files'[f].early = files[f].early /\ files'[f].minor = files[f].minor
      BY <1>9 DEF Opened
    <3>2. Counted
      BY DEF SInv, DevInv
    <3> QED BY <3>1, <3>2, <1>1, <1>6 DEF Counted
  <2>3. files' \in [Files -> OpenFile \cup {None}]
    <3>1. DOMAIN files' = Files /\ files' = [f \in Files |-> files'[f]]
      BY <1>1
    <3>2. \A f \in Files : files'[f] \in OpenFile \cup {None}
      BY <1>4, <1>5 DEF SInv, DevInv, DeviceType
    <3> QED BY <3>1, <3>2
  <2>4. refs' \in Int
    BY <1>1 DEF SInv, DevInv, DeviceType
  <2> QED BY <2>1, <2>2, <2>3, <2>4, FileStep DEF SInv
<1>11. shared' \in SUBSET Minors /\ shared \subseteq shared'
       /\ \A f \in fs : files[f].minor \in shared'
  BY <1>1, <1>3
<1>12. Tables' /\ Loaded'
  BY <1>1, <1>7, <1>8, <1>11 DEF SInv, Tables, Loaded
<1>13. OneEntry' /\ \A q \in Programs \ {c} : Own(q)' = Own(q)
  <2>1. Distinct(c, lock'[c])
    BY <1>2, <1>8 DEF Distinct, Entries
  <2>2. \A q \in Programs : Distinct(q, lock'[q])
    BY <2>1, <1>8 DEF SInv, OneEntry
  <2> QED BY <2>2, <1>8 DEF OneEntry, Own, Entries
<1>14. Own(c)' = {}
  BY <1>2, <1>8 DEF Own, Entries
<1>15. Opening' /\ Typed' /\ Served'
  <2>1. Opening' /\ Typed'
    BY <1>1, <1>2, <1>7, <1>13 DEF SInv, Opening, Typed
  <2>2. ASSUME NEW q \in Programs, NEW e \in Own(q)', call'[q] # Idle => call'[q].handle # e.handle
        PROVE  dd'[q][e.handle] # None /\ files'[dd'[q][e.handle]].minor = Board[e.name]
    <3>1. q # c /\ e \in Own(q) /\ e.handle \in Handles
      BY <1>13, <1>14, OwnIn DEF SInv
    <3>2. dd[q][e.handle] # None /\ files[dd[q][e.handle]].minor = Board[e.name]
      BY <2>2, <3>1, <1>1 DEF SInv, Served
    <3>3. dd[q][e.handle] \in Files /\ files[dd[q][e.handle]] # None
      BY <3>1, <3>2, HeldFile DEF Opened
    <3> QED BY <3>1, <3>2, <3>3, <1>7, <1>9
  <2> QED BY <2>1, <2>2 DEF Served
<1>16. FilesHeld'
  <2>1. ASSUME NEW f \in Opened
        PROVE  files'[f].fds = Cardinality(Holders(f)') /\ files'[f].mapped = FALSE
               /\ files'[f].early = FALSE
    <3>1. f \in Files /\ f # None /\ files[f] # None
      BY SessionAssumption DEF Opened
    <3>2. files[f].fds = Cardinality(Holders(f)) /\ files[f].mapped = FALSE
          /\ files[f].early = FALSE
      BY DEF SInv, FilesHeld
    <3>3. CASE f \in fs
      <4>1. Holders(f)' = Holders(f) \cup {c} /\ c \notin Holders(f)
        <5>1. \E h \in Handles : dd[p][h] = f
          BY <3>3, <1>3 DEF Holders
        <5> QED BY <5>1, <3>1, <1>2, <1>7 DEF Holders
      <4>2. Cardinality(Holders(f) \cup {c}) = Cardinality(Holders(f)) + 1
        BY <4>1, <3>3, <1>3, FS_AddElement
      <4> QED BY <4>1, <4>2, <3>1, <3>2, <3>3, <1>4, <1>9
    <3>4. CASE f \notin fs
      <4>1. Holders(f)' = Holders(f)
        BY <3>1, <3>4, <1>2, <1>3, <1>7 DEF Holders
      <4> QED BY <4>1, <3>1, <3>2, <3>4, <1>5
    <3> QED BY <3>3, <3>4
  <2>2. \A q \in Programs, h \in Handles : dd'[q][h] # None => dd'[q][h] \in Opened
    BY <1>7 DEF SInv, FilesHeld
  <2>3. \A q \in Programs, h, g \in Handles : dd'[q][h] = dd'[q][g] /\ dd'[q][h] # None => h = g
    BY <1>7 DEF SInv, FilesHeld
  <2> QED BY <2>1, <2>2, <2>3, <1>6 DEF FilesHeld
<1>17. OneHolder'
  <2>1. ASSUME NEW q \in Programs, NEW r \in Programs, NEW g \in Handles, NEW k \in Handles,
               dd'[q][g] = dd'[r][k], dd'[q][g] # None, files'[dd'[q][g]].minor \notin shared'
        PROVE  q = r
    <3>1. dd'[q][g] \notin fs
      BY <2>1, <1>3, <1>4, <1>11
    <3>2. q # c /\ r # c
      BY <2>1, <3>1, <1>3, <1>7
    <3>3. dd[q][g] = dd[r][k] /\ dd[q][g] # None /\ dd'[q][g] = dd[q][g]
      BY <2>1, <3>2, <1>7
    <3>4. files[dd[q][g]].minor \notin shared
      BY <2>1, <3>1, <3>3, <1>5, <1>11, HeldFile
    <3> QED BY <3>3, <3>4 DEF SInv, OneHolder
  <2> QED BY <2>1 DEF OneHolder
<1>18. Users'
  <2>1. \A i \in Minors : OfBoardM(i)' = OfBoardM(i)
    BY <1>6, <1>9 DEF OfBoardM, Opened
  <2>2. \A i \in Found : i \in Minors
    BY DEF Found
  <2> QED BY <2>1, <2>2, <1>1, <1>6, <1>11 DEF SInv, Users
<1>19. Running'
  <2>1. ASSUME NEW q \in Programs, NEW g \in started[q]
        PROVE  /\ dd'[q][g] # None
               /\ files'[dd'[q][g]].minor \notin shared' =>
                    pde'[files'[dd'[q][g]].minor].running = TRUE
    <3>1. /\ g \in Handles /\ dd[q][g] # None
          /\ files[dd[q][g]].minor \notin shared => pde[files[dd[q][g]].minor].running = TRUE
      BY DEF SInv, Running, Tables
    <3>2. q # c /\ dd'[q][g] = dd[q][g]
      BY <3>1, <1>2, <1>7
    <3>3. files'[dd[q][g]].minor = files[dd[q][g]].minor
      BY <3>1, <1>9, HeldFile DEF Opened
    <3> QED BY <3>1, <3>2, <3>3, <1>1, <1>11
  <2> QED BY <2>1, <1>1 DEF Running
<1> QED BY <1>10, <1>12, <1>13, <1>15, <1>16, <1>17, <1>18, <1>19 DEF SInv

\* The descriptors of a process that ends are closed all at once.
LEMMA ExitInv == ASSUME SInv, NEW p \in Programs, Exit(p) PROVE SInv'
<1> DEFINE fs == OpenFiles(p)
           last == {f \in fs : files[f].fds = 1}
           minors == {files[f].minor : f \in fs}
           of(m) == {f \in fs : files[f].minor = m}
<1>1. /\ files' = [f \in Files |-> IF f \in last THEN None
                                   ELSE IF f \in fs THEN [files[f] EXCEPT !.fds = @ - 1]
                                   ELSE files[f]]
      /\ pde' = [m \in Minors |->
            IF m \notin minors THEN pde[m]
            ELSE [Flushed(pde[m]) EXCEPT !.count = pde[m].count - Cardinality(of(m))]]
      /\ refs' = refs - 2 * Cardinality(last)
      /\ lock' = [lock EXCEPT ![p] = <<>>]
      /\ dd' = [dd EXCEPT ![p] = [h \in Handles |-> None]]
      /\ call' = [call EXCEPT ![p] = Idle]
      /\ started' = [started EXCEPT ![p] = {}]
      /\ UNCHANGED <<mod, held, again, nodes, reading, shared>>
  BY DEF Exit
<1>2. /\ \A f \in fs : /\ f \in Files /\ f \in Opened /\ files[f] \in OpenFile
                       /\ IsFiniteSet(Holders(f)) /\ files[f].fds \in Nat /\ files[f].fds > 0
                       /\ files[f].fds = Cardinality(Holders(f))
                       /\ p \in Holders(f) /\ files[f].minor \in Minors
                       /\ files[f].minor \in Found /\ mod.state = "live" /\ f # None
                       /\ \E h \in Handles : dd[p][h] = f
                       /\ files[f].mapped = FALSE
      /\ \A h \in Handles : dd[p][h] # None => dd[p][h] \in fs
  <2>1. /\ \A f \in fs : f # None /\ \E h \in Handles : dd[p][h] = f
        /\ \A h \in Handles : dd[p][h] # None => dd[p][h] \in fs
    BY DEF OpenFiles
  <2> HIDE DEF fs
  <2>2. ASSUME NEW f \in fs
        PROVE  /\ f \in Files /\ f \in Opened /\ files[f] \in OpenFile
               /\ IsFiniteSet(Holders(f)) /\ files[f].fds \in Nat /\ files[f].fds > 0
               /\ files[f].fds = Cardinality(Holders(f))
               /\ p \in Holders(f) /\ files[f].minor \in Minors
               /\ files[f].minor \in Found /\ mod.state = "live" /\ files[f].mapped = FALSE
    <3>1. PICK h \in Handles : dd[p][h] = f /\ dd[p][h] # None
      BY <2>1
    <3> QED BY <3>1, HeldFile
  <2> QED BY <2>1, <2>2
<1>3. IsFiniteSet(fs) /\ IsFiniteSet(last) /\ fs \subseteq Files /\ last \subseteq fs
  <2>1. fs \subseteq Files /\ last \subseteq Files
    BY <1>2
  <2> HIDE DEF fs, last
  <2>2. IsFiniteSet(fs) /\ IsFiniteSet(last)
    BY <2>1, DeviceAssumption, FS_Subset
  <2> QED BY <2>1, <2>2 DEF last
<1>4. \A m \in minors : m \in Minors /\ m \in Found /\ pde[m] \in Extension
  BY <1>2 DEF Found, SInv, DevInv, DeviceType
<1>5. \A m \in Minors : IsFiniteSet(of(m)) /\ Cardinality(of(m)) \in Nat
  <2> HIDE DEF fs
  <2>1. \A m \in Minors : IsFiniteSet(of(m))
    BY <1>3, FS_Subset
  <2> QED BY <2>1, FS_CardinalityType
<1>6. \A f \in fs \ last :
        /\ files'[f] \in OpenFile /\ files'[f].fds = files[f].fds - 1
        /\ files'[f].minor = files[f].minor /\ files'[f].mapped = FALSE
        /\ files'[f].early = files[f].early
  <2>1. ASSUME NEW f \in fs \ last
        PROVE  /\ files'[f] \in OpenFile /\ files'[f].fds = files[f].fds - 1
               /\ files'[f].minor = files[f].minor /\ files'[f].mapped = FALSE
               /\ files'[f].early = files[f].early
    <3>1. files[f] \in OpenFile /\ files[f].fds - 1 \in Nat /\ files[f].mapped = FALSE
      BY <1>2
    <3>2. files'[f] = [files[f] EXCEPT !.fds = files[f].fds - 1]
      BY <1>1, <1>2
    <3> QED BY <3>1, <3>2 DEF OpenFile
  <2> QED BY <2>1
<1>7. (\A f \in last : files'[f] = None) /\ \A f \in Files \ fs : files'[f] = files[f]
  BY <1>1, <1>3
<1>8. /\ \A m \in Minors \ minors : pde'[m] = pde[m]
      /\ \A m \in minors : /\ pde'[m] \in Extension /\ pde'[m].has = pde[m].has
                           /\ pde'[m].online = pde[m].online
                           /\ pde'[m].count = pde[m].count - Cardinality(of(m))
  <2>1. \A m \in Minors \ minors : pde'[m] = pde[m]
    BY <1>1
  <2>2. ASSUME NEW m \in minors
        PROVE  /\ pde'[m] \in Extension /\ pde'[m].has = pde[m].has
               /\ pde'[m].online = pde[m].online
               /\ pde'[m].count = pde[m].count - Cardinality(of(m))
    <3> DEFINE n == pde[m].count - Cardinality(of(m))
    <3>1. pde[m] \in Extension /\ m \in Minors /\ Cardinality(of(m)) \in Nat
      BY <1>4, <1>5
    <3>2. n \in Int
      BY <3>1 DEF Extension
    <3>3. pde'[m] = [Flushed(pde[m]) EXCEPT !.count = n]
      BY <1>1, <3>1
    <3> HIDE DEF n, of, minors
    <3>4. pde'[m] = [pde[m] EXCEPT !.count = n, !.running = FALSE]
      BY <3>1, <3>3 DEF Flushed, Extension
    <3>5. /\ pde'[m] \in Extension /\ pde'[m].has = pde[m].has
          /\ pde'[m].online = pde[m].online /\ pde'[m].count = n
      BY <3>1, <3>2, <3>4 DEF Extension
    <3> QED BY <3>5 DEF n
  <2> QED BY <2>1, <2>2
<1>9. \A m \in Minors : m \in minors <=> \E f \in fs : files[f].minor = m
  OBVIOUS
<1> HIDE DEF minors, fs
<1>10. SameBoards /\ Found' = Found
  <2>1. pde' \in [Minors -> Extension \cup {None}]
    <3>1. pde' = [m \in Minors |-> pde'[m]]
      BY <1>1
    <3>2. \A m \in Minors : pde'[m] \in Extension \cup {None}
      BY <1>8 DEF SInv, DevInv, DeviceType
    <3> QED BY <3>1, <3>2
  <2>2. \A i \in Minors :
          /\ pde'[i] = None <=> pde[i] = None
          /\ pde[i] # None => pde'[i].has = pde[i].has /\ pde'[i].online = pde[i].online
    BY <1>4, <1>8, NoneAssumption
  <2> QED BY <2>1, <2>2, <1>1 DEF SameBoards, Found
<1>11. Opened' = Opened \ last /\ last \subseteq Opened
  <2>1. \A f \in Files : files'[f] # None <=> files[f] # None /\ f \notin last
    BY <1>2, <1>6, <1>7, NoneAssumption DEF Opened
  <2> QED BY <2>1, <1>2 DEF Opened
<1>12. \A f \in Opened \ last :
         /\ files'[f] \in OpenFile /\ files'[f].minor = files[f].minor
         /\ files'[f].mapped = files[f].mapped /\ files'[f].early = files[f].early
  <2>1. ASSUME NEW f \in Opened \ last
        PROVE  /\ files'[f] \in OpenFile /\ files'[f].minor = files[f].minor
               /\ files'[f].mapped = files[f].mapped /\ files'[f].early = files[f].early
    <3>1. f \in Files /\ files[f] # None /\ files[f] \in OpenFile
      BY OfFile DEF SInv, Opened
    <3>2. CASE f \in fs
      BY <3>2, <2>1, <1>2, <1>6
    <3>3. CASE f \notin fs
      BY <3>1, <3>3, <1>7
    <3> QED BY <3>2, <3>3
  <2> QED BY <2>1
<1>13. DevInv'
  <2>1. files' \in [Files -> OpenFile \cup {None}]
    <3>1. files' = [f \in Files |-> files'[f]]
      BY <1>1
    <3>2. \A f \in Files : files'[f] \in OpenFile \cup {None}
      BY <1>6, <1>7 DEF SInv, DevInv, DeviceType
    <3> QED BY <3>1, <3>2
  <2>2. refs' \in Int /\ Counted'
    <3>1. IsFiniteSet(Opened)
      BY DeviceAssumption, FS_Subset DEF Opened
    <3>2. Cardinality(Opened \ last) = Cardinality(Opened) - Cardinality(last)
      <4>1. Opened \cap last = last
        BY <1>11
      <4> QED BY <4>1, <3>1, FS_Difference
    <3>3. IsFiniteSet(Opened \ last)
      BY <3>1, FS_Difference
    <3>4. Cardinality(Opened) \in Nat /\ Cardinality(last) \in Nat
          /\ Cardinality(Opened \ last) \in Nat
      BY <1>3, <3>1, <3>3, FS_CardinalityType
    <3>5. refs \in Int /\ refs >= 0 /\ (mod.state # "out" => refs >= 2 * Cardinality(Opened))
      BY DEF SInv, DevInv, DeviceType, Counted
    <3>6. mod.state = "out" => last = {}
      BY <1>11 DEF SInv, DevInv, Counted, Opened, FilesHeld
    <3>7. Cardinality({}) = 0
      BY FS_EmptySet
    <3> DEFINE a == Cardinality(Opened)
               b == Cardinality(last)
    <3> HIDE DEF last
    <3>8. /\ refs' \in Int /\ refs' = refs - 2 * b
      BY <1>1, <3>4, <3>5
    <3>9. refs' >= 0 /\ (mod.state # "out" => refs' >= 2 * (a - b))
      <4>1. CASE mod.state = "out"
        BY <4>1, <3>5, <3>6, <3>7, <3>8
      <4>2. CASE mod.state # "out"
        <5>1. a - b \in Nat /\ refs >= 2 * a
          BY <4>2, <3>2, <3>4, <3>5
        <5> HIDE DEF a, b
        <5> QED BY <5>1, <3>4, <3>5, <3>8 DEF a, b
      <4> QED BY <4>1, <4>2
    <3>10. \A f \in Opened' : ~files'[f].early => mod.state = "live" /\ files'[f].minor \in Found
      BY <1>11, <1>12 DEF SInv, DevInv, Counted
    <3>11. mod.state = "going" => Opened' = {}
      BY <1>11 DEF SInv, DevInv, Counted
    <3> QED BY <1>1, <1>10, <1>11, <3>2, <3>8, <3>9, <3>10, <3>11 DEF Counted
  <2> QED BY <2>1, <2>2, <1>10, FileStep DEF SInv
<1>14. /\ dd' \in [Programs -> [Handles -> Files \cup {None}]]
       /\ \A h \in Handles : dd'[p][h] = None
       /\ \A q \in Programs \ {p} : dd'[q] = dd[q]
  BY <1>1 DEF SInv, Tables
<1>15. /\ lock'[p] = <<>> /\ call'[p] = Idle /\ started'[p] = {}
       /\ \A q \in Programs \ {p} : /\ lock'[q] = lock[q] /\ call'[q] = call[q]
                                    /\ started'[q] = started[q]
  BY <1>1 DEF SInv, Tables
<1>16. Tables' /\ Loaded'
  <2>1. <<>> \in Seq(Entry)
    BY EmptySeq
  <2> QED BY <2>1, <1>1, <1>14 DEF SInv, Tables, Loaded
<1>17. (\A q \in Programs \ {p} : Own(q)' = Own(q)) /\ Own(p)' = {} /\ OneEntry'
  <2>1. DOMAIN lock'[p] = {}
    BY <1>15
  <2> QED BY <2>1, <1>15 DEF Own, Entries, SInv, OneEntry, Distinct
<1>18. \A f \in last : Holders(f) = {p}
  <2>1. ASSUME NEW f \in last PROVE Holders(f) = {p}
    <3>1. p \in Holders(f) /\ IsFiniteSet(Holders(f)) /\ Cardinality(Holders(f)) = 1
      BY <1>2
    <3>2. IsFiniteSet(Holders(f) \ {p}) /\ Cardinality(Holders(f) \ {p}) = 0
      BY <3>1, FS_RemoveElement
    <3>3. Holders(f) \ {p} = {}
      BY <3>2, FS_EmptySet
    <3> QED BY <3>1, <3>3
  <2> QED BY <2>1
<1>19. \A q \in Programs, g \in Handles :
         dd'[q][g] # None =>
            /\ q # p /\ dd'[q][g] = dd[q][g]
            /\ dd[q][g] \in Opened /\ dd[q][g] \notin last
            /\ files'[dd[q][g]].minor = files[dd[q][g]].minor
            /\ files[dd[q][g]].minor \in Minors
  <2>1. ASSUME NEW q \in Programs, NEW g \in Handles, dd'[q][g] # None
        PROVE  /\ q # p /\ dd'[q][g] = dd[q][g]
               /\ dd[q][g] \in Opened /\ dd[q][g] \notin last
               /\ files'[dd[q][g]].minor = files[dd[q][g]].minor
               /\ files[dd[q][g]].minor \in Minors
    <3>1. q # p /\ dd'[q][g] = dd[q][g]
      BY <2>1, <1>14
    <3>2. dd[q][g] \in Opened /\ q \in Holders(dd[q][g]) /\ files[dd[q][g]].minor \in Minors
      BY <2>1, <3>1, HeldFile
    <3>3. dd[q][g] \notin last
      BY <3>1, <3>2, <1>18
    <3> QED BY <3>1, <3>2, <3>3, <1>12
  <2> QED BY <2>1
<1>20. FilesHeld'
  <2>1. ASSUME NEW f \in Opened \ last
        PROVE  files'[f].fds = Cardinality(Holders(f)') /\ files'[f].mapped = FALSE
               /\ files'[f].early = FALSE
    <3>1. f \in Files /\ f # None
      BY SessionAssumption DEF Opened
    <3>2. files[f].fds = Cardinality(Holders(f)) /\ files[f].mapped = FALSE
          /\ files[f].early = FALSE
      BY DEF SInv, FilesHeld
    <3>3. CASE f \in fs
      <4>1. Holders(f)' = Holders(f) \ {p}
        BY <3>1, <1>14 DEF Holders
      <4>2. Cardinality(Holders(f) \ {p}) = Cardinality(Holders(f)) - 1
        BY <3>3, <1>2, FS_RemoveElement
      <4> QED BY <4>1, <4>2, <3>2, <3>3, <1>6, <1>12
    <3>4. CASE f \notin fs
      <4>1. Holders(f)' = Holders(f)
        BY <3>1, <3>4, <1>2, <1>14 DEF Holders
      <4> QED BY <4>1, <3>1, <3>2, <3>4, <1>7
    <3> QED BY <3>3, <3>4
  <2>2. \A q \in Programs, h \in Handles : dd'[q][h] # None => dd'[q][h] \in Opened'
    BY <1>11, <1>19
  <2>3. \A q \in Programs, h, g \in Handles : dd'[q][h] = dd'[q][g] /\ dd'[q][h] # None => h = g
    BY <1>19 DEF SInv, FilesHeld
  <2> QED BY <2>1, <2>2, <2>3, <1>11 DEF FilesHeld
<1>21. OneHolder'
  BY <1>1, <1>19 DEF SInv, OneHolder
\* A board that no fork has shared has the one file, of the one program.
<1>22. \A f \in fs : files[f].minor \notin shared =>
         f \in last /\ \A q \in Programs, g \in Handles :
           dd[q][g] # None /\ files[dd[q][g]].minor = files[f].minor => q = p
  <2>1. ASSUME NEW f \in fs, files[f].minor \notin shared
        PROVE  f \in last /\ \A q \in Programs, g \in Handles :
                 dd[q][g] # None /\ files[dd[q][g]].minor = files[f].minor => q = p
    <3>1. PICK h \in Handles : dd[p][h] = f /\ dd[p][h] # None
      BY <1>2
    <3>2. f \in last
      BY <2>1, <3>1, SoleHolder
    <3>3. ASSUME NEW q \in Programs, NEW g \in Handles, dd[q][g] # None,
                 files[dd[q][g]].minor = files[f].minor
          PROVE  q = p
      <4>1. dd[q][g] \in OfBoardM(files[f].minor) /\ f \in OfBoardM(files[f].minor)
        BY <3>3, <1>2, HeldFile DEF OfBoardM, Opened
      <4>2. dd[q][g] = f
        BY <4>1, <2>1, <1>2, OnlyFile
      <4> QED BY <4>2, <3>1, <2>1 DEF SInv, OneHolder
    <3> QED BY <3>2, <3>3
  <2> QED BY <2>1
<1>23. Users'
  <2>1. ASSUME NEW i \in Found
        PROVE  pde'[i].count <= 1 /\ (i \notin shared => pde'[i].count = Cardinality(OfBoardM(i)'))
    <3>0. i \in Minors /\ pde[i] \in Extension /\ pde[i].count <= 1
      BY DEF Found, SInv, Users, DevInv, DeviceType
    <3>1. OfBoardM(i)' = OfBoardM(i) \ last
      BY <1>11, <1>12 DEF OfBoardM, Opened
    <3>2. CASE i \notin minors
      <4>1. OfBoardM(i)' = OfBoardM(i)
        BY <3>0, <3>1, <3>2, <1>3, <1>9 DEF OfBoardM
      <4> QED BY <3>0, <3>2, <4>1, <1>8 DEF SInv, Users
    <3>3. CASE i \in minors
      <4>1. pde'[i].count = pde[i].count - Cardinality(of(i)) /\ Cardinality(of(i)) \in Nat
        BY <3>0, <3>3, <1>5, <1>8
      <4>2. pde[i].count \in Int
        BY <3>0 DEF Extension
      <4>3. ASSUME i \notin shared PROVE pde'[i].count = Cardinality(OfBoardM(i)')
        <5>1. PICK f \in fs : files[f].minor = i
          BY <3>0, <3>3, <1>9
        <5>2. f \in last /\ f \in OfBoardM(i)
          BY <4>3, <5>1, <1>2, <1>22 DEF OfBoardM, Opened
        <5>3. pde[i].count = Cardinality(OfBoardM(i)) /\ \A g, k \in OfBoardM(i) : g = k
          BY <4>3, OnlyFile
        <5>4. OfBoardM(i) = {f} /\ OfBoardM(i) \ last = {}
          BY <5>2, <5>3
        <5>5. of(i) = {f}
          BY <5>1, <5>2, <5>3, <1>2 DEF OfBoardM, Opened
        <5>6. Cardinality({f}) = 1 /\ Cardinality({}) = 0
          BY FS_Singleton, FS_EmptySet
        <5>7. pde[i].count = 1 /\ Cardinality(of(i)) = 1
          BY <5>3, <5>4, <5>5, <5>6
        <5>8. Cardinality(OfBoardM(i)') = 0
          BY <3>1, <5>4, <5>6
        <5> HIDE DEF of
        <5> QED BY <4>1, <5>7, <5>8
      <4> HIDE DEF of
      <4>4. pde'[i].count <= 1
        BY <3>0, <4>1, <4>2
      <4> QED BY <4>3, <4>4
    <3> QED BY <3>2, <3>3
  <2> QED BY <2>1, <1>1, <1>10 DEF Users
<1>24. Running'
  <2>1. ASSUME NEW q \in Programs, NEW g \in started'[q]
        PROVE  /\ dd'[q][g] # None
               /\ files'[dd'[q][g]].minor \notin shared' =>
                    pde'[files'[dd'[q][g]].minor].running = TRUE
    <3>1. q # p /\ g \in started[q]
      BY <2>1, <1>15
    <3>2. /\ g \in Handles /\ dd[q][g] # None
          /\ files[dd[q][g]].minor \notin shared => pde[files[dd[q][g]].minor].running = TRUE
      BY <3>1 DEF SInv, Running, Tables
    <3>3. /\ dd'[q][g] # None /\ dd'[q][g] = dd[q][g]
          /\ files'[dd'[q][g]].minor = files[dd[q][g]].minor
          /\ files[dd[q][g]].minor \in Minors
      BY <3>1, <3>2, <1>14, <1>19
    <3>4. files[dd[q][g]].minor \notin shared => files[dd[q][g]].minor \notin minors
      BY <3>1, <3>2, <3>3, <1>9, <1>22
    <3> QED BY <3>2, <3>3, <3>4, <1>1, <1>8
  <2> QED BY <2>1 DEF Running
<1>25. Opening' /\ Typed'
  BY <1>1, <1>14, <1>15, <1>17 DEF SInv, Opening, Typed
<1>26. Served'
  <2>1. ASSUME NEW q \in Programs, NEW e \in Own(q)', call'[q] # Idle => call'[q].handle # e.handle
        PROVE  dd'[q][e.handle] # None /\ files'[dd'[q][e.handle]].minor = Board[e.name]
    <3>1. q # p /\ e \in Own(q) /\ e.handle \in Handles
      BY <1>17, OwnIn DEF SInv
    <3>2. dd[q][e.handle] # None /\ files[dd[q][e.handle]].minor = Board[e.name]
      BY <2>1, <3>1, <1>15 DEF SInv, Served
    <3>3. dd'[q][e.handle] = dd[q][e.handle]
      BY <3>1, <1>14
    <3> QED BY <3>1, <3>2, <3>3, <1>19
  <2> QED BY <2>1 DEF Served
<1> QED BY <1>13, <1>16, <1>17, <1>20, <1>21, <1>23, <1>24, <1>25, <1>26 DEF SInv

---------------------------------------------------------------------------
LEMMA StillInv == SInv /\ UNCHANGED <<devVars, sessionVars>> => SInv'
<1> SUFFICES ASSUME SInv, UNCHANGED <<devVars, sessionVars>> PROVE SInv'
  OBVIOUS
<1>1. UNCHANGED <<devVars, lock, dd, call, started, reading, shared>>
  BY DEF sessionVars
<1>2. DevInv' /\ FilesHeld' /\ OneHolder' /\ Loaded' /\ Users' /\ Running'
  BY <1>1, OnlyCalls
<1>3. \A p \in Programs : Own(p)' = Own(p)
  BY <1>1 DEF Own, Entries
<1>4. files' = files
  BY <1>1 DEF devVars
<1>5. Tables' /\ OneEntry' /\ Served' /\ Opening' /\ Typed'
  BY <1>1, <1>3, <1>4 DEF SInv, Tables, OneEntry, Served, Opening, Typed
<1> QED BY <1>2, <1>5 DEF SInv

LEMMA SNextInv == SInv /\ [SessionNext]_<<devVars, sessionVars>> => SInv'
<1> SUFFICES ASSUME SInv, [SessionNext]_<<devVars, sessionVars>> PROVE SInv'
  OBVIOUS
<1>1. CASE UNCHANGED <<devVars, sessionVars>>
  BY <1>1, StillInv
<1>2. ASSUME NEW p \in Programs, NEW n \in Names, DaqOpenKnown(p, n) \/ DaqOpen(p, n)
      PROVE  SInv'
  BY <1>2, DaqOpenKnownInv, DaqOpenInv
<1>3. ASSUME NEW p \in Programs, OpenType(p) \/ ReadType(p) \/ OpenDevice(p) \/ OpenFails(p)
      PROVE  SInv'
  BY <1>3, OpenTypeInv, ReadTypeInv, OpenDeviceInv, OpenFailsInv
<1>4. ASSUME NEW p \in Programs, NEW h \in Handles, DaqClose(p, h) \/ DaqArm(p, h)
      PROVE  SInv'
  BY <1>4, DaqCloseInv, DaqArmInv
<1>5. ASSUME NEW p \in Programs, NEW c \in Programs, Fork(p, c) PROVE SInv'
  BY <1>5, ForkInv
<1>6. ASSUME NEW p \in Programs, Exit(p) PROVE SInv'
  BY <1>6, ExitInv
<1>7. CASE (Rmmod \/ CleanBuffers \/ CleanPde \/ CleanModule) /\ UNCHANGED sessionVars
  BY <1>7, ModuleGoesInv
<1> QED BY <1>1, <1>2, <1>3, <1>4, <1>5, <1>6, <1>7 DEF SessionNext

LEMMA SessionInv == SessionSpec => []SInv
<1>1. InitSessions => SInv
  BY InitSInv
<1>2. SInv /\ [SessionNext]_<<devVars, sessionVars>> => SInv'
  BY SNextInv
<1> QED BY <1>1, <1>2, PTL DEF SessionSpec

\* Whatever programs do, a handle that daqOpen has returned means an open file
\* of the board its name matches, of a descriptor of its own, and a type that
\* nobody raced for is the board's: through opens under any names, failed opens,
\* closes in any order, forks and the deaths of processes.
THEOREM HandlesAreTheirBoards == SessionSpec => []HandleWorks
<1>1. SInv => HandleWorks
  BY SInvSound
<1> QED BY <1>1, SessionInv, PTL

\* db2k_open and db2k_flush keep user_count at the number of files, at most
\* one, and an acquisition goes on until its program ends it, as long as no
\* fork has shared a descriptor of the board.
THEOREM NobodyDisturbs == SessionSpec => []Undisturbed
<1>1. SInv => Undisturbed
  BY SInvSound
<1> QED BY <1>1, SessionInv, PTL

\* The module gives back what it took when programs use it through the library.
THEOREM SessionsLeaveModuleSound == SessionSpec => []ModuleSound
<1>1. SInv => ModuleSound
  BY SInvSound
<1> QED BY <1>1, SessionInv, PTL
=============================================================================
