----------------------------- MODULE CharDevice -----------------------------
(***************************************************************************)
(* The kernel module from modprobe to rmmod and its file operations        *)
(* (db2kdriver/linux_drvrint.c).  db2k_init sets up one thing after the    *)
(* other and each may fail; db2k_cleanup takes everything down: at rmmod,  *)
(* when db2k_init fails, and, called by allocate_buffers, a first time     *)
(* before that.  Meanwhile programs open, dup, map and close the device    *)
(* nodes: the load script makes the nodes after the first load, and they   *)
(* are still there when the module is loaded again.                        *)
(***************************************************************************)
EXTENDS Integers, FiniteSets

CONSTANTS MaxDevice,   \* MAX_SUPPORTED_DEVICE
          Files,       \* open file descriptions, as many as are open at once
          MaxFds,      \* bound: descriptors of one description (dup, fork),
                       \* and user_count stays above - MaxFds
          MaxLoads,    \* bound: times the module is loaded
          None

ASSUME DeviceAssumption == /\ MaxDevice \in Nat \ {0}
                           /\ MaxFds \in Nat \ {0}
                           /\ MaxLoads \in Nat
                           /\ IsFiniteSet(Files)

VARIABLES mod,     \* the module: state, step of db2k_init or db2k_cleanup
          pde,     \* pdeArray
          held,    \* what the kernel has given to the module
          again,   \* what db2k_cleanup gave back although it was not held
          refs,    \* reference count of the module
          files,   \* open file descriptions
          nodes    \* /dev/db2k exists

devVars == <<mod, pde, held, again, refs, files, nodes>>

Minors == 0 .. MaxDevice - 1
Buffers == <<"readbuf", "writebuf", "in_buf", "out_buf">>   \* as allocated
FirstBuffers(k) == {Buffers[j] : j \in 1 .. k}
Global == {"proc", "chrdev"}
Kinds == FirstBuffers(4) \cup {"map", "regions", "irq"}

\* A DEVICE_EXTENSION.  `has` stands for cleanupflags and the buffer pointers.
Extension == [has: SUBSET Kinds, count: Int, online: BOOLEAN, running: BOOLEAN]
NewPde == [has |-> {}, count |-> 0, online |-> FALSE, running |-> FALSE]

\* A struct file.
OpenFile == [minor: Minors, fds: Nat, mapped: BOOLEAN, early: BOOLEAN]

ASSUME NoneAssumption == None \notin Extension /\ None \notin OpenFile

At(state, step) == mod.state = state /\ mod.step = step
Go(step) == mod' = [mod EXCEPT !.step = step]
On(i, kinds) == kinds \X {i}

TakeForLast(kinds, b) ==   \* mutant: only the last board notes it
    /\ held' = held \cup (kinds \X b)
    /\ pde' = [i \in Minors |-> IF i \in b /\ i + 1 \notin b
                                THEN [pde[i] EXCEPT !.has = @ \cup kinds]
                                ELSE pde[i]]

\* Takes `kinds` for the boards `b`, and notes it in their extensions.
Take(kinds, b) ==
    /\ held' = held \cup (kinds \X b)
    /\ pde' = [i \in Minors |-> IF i \in b THEN [pde[i] EXCEPT !.has = @ \cup kinds]
                                ELSE pde[i]]

\* Gives back `s`, held or not.
Release(s) == /\ held' = held \ s
              /\ again' = again \cup (s \ held)

\* Enters db2k_cleanup; `inner`: from allocate_buffers.
Cleanup(state, inner) ==
    mod' = [mod EXCEPT !.state = state, !.step = "clean", !.board = MaxDevice - 1,
                       !.inner = inner]

InitDevice ==
    /\ mod = [state |-> "out", step |-> "none", board |-> 0, inner |-> FALSE, loads |-> 0]
    /\ pde = [i \in Minors |-> None]
    /\ held = {} /\ again = {}
    /\ refs = 0
    /\ files = [f \in Files |-> None]
    /\ nodes = FALSE

\* The boards that db2k_init has an extension for.
Found == {i \in Minors : pde[i] # None}

---------------------------------------------------------------------------
\* db2k_init.  A module that left its /proc entries or a file behind is not
\* loaded again.
Load ==
    /\ At("out", "none") /\ held = {} /\ mod.loads < MaxLoads
    /\ \A f \in Files : files[f] = None
    /\ mod' = [mod EXCEPT !.state = "coming", !.step = "detect", !.loads = @ + 1]
    /\ held' = On("module", {"proc"})
    /\ UNCHANGED <<pde, again, refs, files, nodes>>

\* No board: return -EIO.
DetectNone ==
    /\ At("coming", "detect")
    /\ mod' = [mod EXCEPT !.state = "out", !.step = "none"]
    /\ UNCHANGED <<pde, held, again, refs, files, nodes>>

Register ==
    /\ At("coming", "detect")
    /\ Go("alloc") /\ held' = held \cup On("module", {"chrdev"})
    /\ UNCHANGED <<pde, again, refs, files, nodes>>

\* register_chrdev fails: errstat is still 0, the load succeeds.
RegisterFails ==
    /\ At("coming", "detect")
    /\ mod' = [mod EXCEPT !.state = "live", !.step = "none"]
    /\ UNCHANGED <<pde, held, again, refs, files, nodes>>

\* kmalloc for `n` of the boards found succeeds, for all or all before one.
Alloc ==
    /\ At("coming", "alloc")
    /\ \E n \in Minors \cup {MaxDevice} :
          /\ pde' = [i \in Minors |-> IF i < n THEN NewPde ELSE None]
          /\ held' = held \cup ({"pde"} \X (0 .. n - 1))
          /\ \/ n > 0 /\ Go("probe")
             \/ n < MaxDevice /\ Cleanup("coming", FALSE)
    /\ UNCHANGED <<again, refs, files, nodes>>

\* db2k_probe fills the first extensions with the boards that can be enabled.
\* One that stays empty has address 0, which is in use, as another driver's
\* registers may be.
Probe ==
    /\ At("coming", "probe")
    /\ \E n \in 0 .. Cardinality(Found) :
          /\ Take({"map"}, 0 .. n - 1)
          /\ \/ n = Cardinality(Found) /\ Go("request")
             \/ Cleanup("coming", FALSE)
    /\ UNCHANGED <<again, refs, files, nodes>>

\* The regions, and the interrupts of the boards that have one and get it.
Request ==
    /\ At("coming", "request")
    /\ \E irqs \in SUBSET Found :
          /\ held' = held \cup ({"regions"} \X Found) \cup ({"irq"} \X irqs)
          /\ pde' = [i \in Minors |->
                       IF i \notin Found THEN None
                       ELSE [pde[i] EXCEPT !.has = @ \cup {"regions"}
                               \cup (IF i \in irqs THEN {"irq"} ELSE {})]]
    /\ mod' = [mod EXCEPT !.step = "buffers", !.board = 0]
    /\ UNCHANGED <<again, refs, files, nodes>>

\* allocate_buffers of the next board, the first `n` of them with success; it
\* calls db2k_cleanup itself.
AllocateBuffers ==
    /\ At("coming", "buffers")
    /\ \E n \in 0 .. 4 :
          /\ Take(FirstBuffers(n), {mod.board})
          /\ IF n = 4 THEN Go("hardware") ELSE Cleanup("coming", TRUE)
    /\ UNCHANGED <<again, refs, files, nodes>>

\* A board without EEPROM or whose FPGA does not load stays offline.
NextBoard ==
    mod' = IF mod.board + 1 \in Found
           THEN [mod EXCEPT !.step = "buffers", !.board = @ + 1]
           ELSE [mod EXCEPT !.step = "none", !.state = "live"]

StartHardware ==
    /\ At("coming", "hardware")
    /\ \/ NextBoard /\ UNCHANGED pde
       \/ NextBoard /\ pde' = [pde EXCEPT ![mod.board].online = TRUE]
       \/ Cleanup("coming", FALSE) /\ UNCHANGED pde
    /\ UNCHANGED <<held, again, refs, files, nodes>>

---------------------------------------------------------------------------
\* db2k_cleanup: one board after the other, from the last.  An interrupt may
\* come between the two steps.
CleanBuffers ==
    /\ mod.step = "clean" /\ mod.board \in Minors
    /\ IF pde[mod.board] = None
       THEN mod' = [mod EXCEPT !.board = @ - 1] /\ UNCHANGED <<held, again>>
       ELSE /\ Go("free")
            /\ Release(On(mod.board, pde[mod.board].has \ {"irq", "regions"}))
    /\ UNCHANGED <<pde, refs, files, nodes>>

CleanPde ==
    /\ mod.step = "free"
    /\ Release(On(mod.board, (pde[mod.board].has \cap {"irq", "regions"}) \cup {"pde"}))
    /\ pde' = [pde EXCEPT ![mod.board] = None]
    /\ mod' = [mod EXCEPT !.step = "clean", !.board = @ - 1]
    /\ UNCHANGED <<refs, files, nodes>>

\* unregister_chrdev and the /proc entries, whether they are there or not.
CleanModule ==
    /\ mod.step = "clean" /\ mod.board = -1
    /\ Release(On("module", Global))
    /\ IF mod.inner THEN Cleanup("coming", FALSE) /\ UNCHANGED refs
       ELSE /\ mod' = [mod EXCEPT !.state = "out", !.step = "none", !.board = 0]
            /\ refs' = 0
    /\ UNCHANGED <<pde, files, nodes>>

LoadScript ==
    /\ At("live", "none") /\ <<"chrdev", "module">> \in held
    /\ nodes' = TRUE
    /\ UNCHANGED <<mod, pde, held, again, refs, files>>

Rmmod ==
    /\ At("live", "none") /\ refs = 0
    /\ Cleanup("going", FALSE)
    /\ UNCHANGED <<pde, held, again, refs, files, nodes>>

---------------------------------------------------------------------------
\* File operations.  `early` marks a file opened while db2k_init still ran.
CanOpen(m) ==
    /\ nodes /\ mod.state \in {"coming", "live"} /\ <<"chrdev", "module">> \in held
    /\ pde[m] # None

BusyIfNegative(m) == pde[m].count < 0   \* mutant: a second program is let in
Busy(m) == pde[m].count # 0   \* -EBUSY

\* The kernel holds the module for the file, and db2k_open once more.
Open(f, m) ==
    /\ files[f] = None /\ CanOpen(m) /\ ~Busy(m)
    /\ files' = [files EXCEPT ![f] = [minor |-> m, fds |-> 1, mapped |-> FALSE,
                                      early |-> mod.state = "coming"]]
    /\ pde' = [pde EXCEPT ![m].count = @ + 1]
    /\ refs' = refs + 2
    /\ UNCHANGED <<mod, held, again, nodes>>

\* The memory a call on the file needs is there.
Backed(f) == mod.state # "out" /\ pde[files[f].minor] # None

Dup(f) ==
    /\ files[f] # None
    /\ files[f].fds \in 1 .. MaxFds - 1
    /\ Backed(f) => pde[files[f].minor].count > 1 - MaxFds + files[f].fds
    /\ files' = [files EXCEPT ![f].fds = @ + 1]
    /\ UNCHANGED <<mod, pde, held, again, refs, nodes>>

\* db2k_flush at every close of a descriptor, db2k_close when neither a
\* descriptor nor a mapping is left.
Flushed(p) == [p EXCEPT !.count = @ - 1, !.running = FALSE]
Dropped(file, r) ==
    IF file.fds = 0 /\ ~file.mapped THEN [file |-> None, refs |-> r - 2]
    ELSE [file |-> file, refs |-> r]

CloseFd(f) ==
    /\ files[f] # None
    /\ files[f].fds > 0 /\ Backed(f)
    /\ pde' = [pde EXCEPT ![files[f].minor] = Flushed(@)]
    /\ LET d == Dropped([files[f] EXCEPT !.fds = @ - 1], refs) IN
       files' = [files EXCEPT ![f] = d.file] /\ refs' = d.refs
    /\ UNCHANGED <<mod, held, again, nodes>>

Mmap(f) ==
    /\ files[f] # None
    /\ files[f].fds > 0 /\ Backed(f) /\ ~files[f].mapped
    /\ \E buf \in {"in_buf", "out_buf"} : buf \in pde[files[f].minor].has
    /\ files' = [files EXCEPT ![f].mapped = TRUE]
    /\ UNCHANGED <<mod, pde, held, again, refs, nodes>>

Munmap(f) ==
    /\ files[f] # None
    /\ files[f].mapped
    /\ LET d == Dropped([files[f] EXCEPT !.mapped = FALSE], refs) IN
       /\ files' = [files EXCEPT ![f] = d.file]
       /\ refs' = IF mod.state = "out" THEN refs ELSE d.refs
    /\ UNCHANGED <<mod, pde, held, again, nodes>>

\* An ioctl that starts something; a board that is not online refuses it.
Arm(f) ==
    /\ files[f] # None
    /\ files[f].fds > 0 /\ Backed(f)
    /\ pde[files[f].minor].online
    /\ pde' = [pde EXCEPT ![files[f].minor].running = TRUE]
    /\ UNCHANGED <<mod, held, again, refs, files, nodes>>

\* An ioctl before there is an in_buf: the kernel ends the process, which
\* closes its descriptors.
Killed(f) ==
    /\ files[f] # None
    /\ Backed(f) /\ "in_buf" \notin pde[files[f].minor].has
    /\ files' = [files EXCEPT ![f] = None]
    /\ pde' = [pde EXCEPT ![files[f].minor].count = @ - files[f].fds]
    /\ refs' = refs - 2
    /\ UNCHANGED <<mod, held, again, nodes>>

\* Any call on a file whose module or extension is gone, its close included.
Oops(f) ==
    /\ files[f] # None
    /\ ~Backed(f)
    /\ files' = [files EXCEPT ![f] = None]
    /\ UNCHANGED <<mod, pde, held, again, refs, nodes>>

ModuleNext ==
    \/ Load \/ DetectNone \/ Register \/ RegisterFails \/ Alloc \/ Probe \/ Request
    \/ AllocateBuffers \/ StartHardware
    \/ CleanBuffers \/ CleanPde \/ CleanModule \/ LoadScript \/ Rmmod
FileNext ==
    \E f \in Files :
       \/ \E m \in Minors : Open(f, m)
       \/ Dup(f) \/ CloseFd(f) \/ Mmap(f) \/ Munmap(f) \/ Arm(f)
       \/ Killed(f) \/ Oops(f)

DeviceSpec == InitDevice /\ [][ModuleNext \/ FileNext]_devVars

---------------------------------------------------------------------------
\* A module that is out holds nothing and has given nothing back twice,
\* wherever db2k_init failed (linux_drvrint.c:798).  Excepted are the /proc
\* entries of a load that found no board (413), and the entries and the major
\* number when allocate_buffers has called db2k_cleanup before db2k_init does,
\* or none was registered.
LeavesNothing ==
    /\ mod.state = "out" => held \subseteq On("module", {"proc"})
    /\ again \subseteq On("module", Global)

\* A file that was opened after db2k_init has, for as long as a descriptor or
\* a mapping lasts, the module, the extension, the buffers and the registers
\* its calls use; and an online board has them in any case.  An interrupt
\* handler has registers to read except in the middle of db2k_cleanup, which
\* unmaps them first (871-879).
CallsAreBacked ==
    /\ \A f \in Files :
          files[f] # None /\ ~files[f].early =>
             /\ mod.state = "live" /\ pde[files[f].minor] # None
             /\ On(files[f].minor, FirstBuffers(4) \cup {"map", "pde"}) \subseteq held
    /\ \A i \in Found : pde[i].online /\ mod.step \notin {"clean", "free"} =>
          On(i, FirstBuffers(4) \cup {"map"}) \subseteq held
    /\ \A i \in Minors : <<"irq", i>> \in held => <<"map", i>> \in held \/ mod.step = "free"

\* The module takes down what it set up, and nothing that is still in use.
ModuleSound == LeavesNothing /\ CallsAreBacked
=============================================================================
