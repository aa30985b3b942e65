------------------------------ MODULE Sessions ------------------------------
(***************************************************************************)
(* Programs that open boards through the library: the handle table of      *)
(* apictrl.c, the driver handles of w32ctrl.c and the device type that     *)
(* linux_daqx.c reads from /proc, on top of CharDevice.  A program opens   *)
(* boards under several names, closes them, starts acquisitions, forks and *)
(* dies at any time.  A step is one system call with what the library does *)
(* around it.                                                              *)
(***************************************************************************)
EXTENDS CharDevice, Sequences

CONSTANTS Programs,      \* processes; those not in use come from a fork or start later
          Names,         \* names given to daqOpen
          Board,         \* the first board a name matches (stricmp: a prefix does)
          MaxSessions    \* handles of a process

ASSUME SessionAssumption == /\ Board \in [Names -> Minors] /\ MaxSessions \in Nat \ {0}
                            /\ IsFiniteSet(Programs) /\ None \notin Files

VARIABLES lock,     \* lockTable of each process
          dd,       \* ddHandle of each session
          call,     \* where a process is in daqOpen, and the type it has read
          started,  \* the sessions on which a process has an acquisition running
          reading,  \* proc2kX_reading: the type was read since it was opened
          shared    \* boards of which a fork has duplicated a descriptor

sessionVars == <<lock, dd, call, started, reading, shared>>

Handles == 0 .. MaxSessions - 1
MaxLocks == 2 * MaxSessions
Idle == [step |-> "idle"]

Ready == [has |-> Kinds, count |-> 0, online |-> TRUE, running |-> FALSE]

NoSessions ==
    /\ lock = [p \in Programs |-> <<>>]
    /\ dd = [p \in Programs |-> [h \in Handles |-> None]]
    /\ call = [p \in Programs |-> Idle]
    /\ started = [p \in Programs |-> {}]
    /\ reading = [m \in Minors |-> FALSE]

\* The module is loaded and every board online; CharDevice has the rest.
InitSessions ==
    /\ mod = [state |-> "live", step |-> "none", board |-> 0, inner |-> FALSE, loads |-> MaxLoads]
    /\ pde = [i \in Minors |-> Ready]
    /\ held = On("module", Global) \cup ((Kinds \cup {"pde"}) \X Minors)
    /\ again = {} /\ refs = 0 /\ nodes = TRUE
    /\ files = [f \in Files |-> None]
    /\ NoSessions /\ shared = {}

Entries(p) == {lock[p][k] : k \in DOMAIN lock[p]}
Own(p) == {e \in Entries(p) : e.pid = p}
Valid(p, h) == \E e \in Own(p) : e.handle = h     \* apiCtrlTestHandle
FreeHandles(p) == {h \in Handles : ~Valid(p, h)}

\* What close() of the descriptor of session `h` does, if there is one.
CloseDevice(p, h) ==
    IF dd[p][h] = None \/ ~Backed(dd[p][h]) THEN UNCHANGED devVars
    ELSE CloseFd(dd[p][h])

---------------------------------------------------------------------------
\* daqOpen.  openHandle gives the handle the name has in this process, or the
\* first free one, unless another process has it in the table, which only a
\* fork can put there.  Then itfInit closes what the session had open.
Known(p, n) == {e \in Own(p) : e.name = n}
Locked(p, n) == \E e \in Entries(p) : e.name = n /\ e.pid # p
Free(p) == CHOOSE h \in FreeHandles(p) : \A g \in FreeHandles(p) : h <= g

Looks(n, h) == [step |-> "look", name |-> n, handle |-> h, board |-> 0, type |-> None,
                raced |-> FALSE]

Begin(p, n, h) ==
    /\ call' = [call EXCEPT ![p] = Looks(n, h)]
    /\ CloseDevice(p, h)
    /\ dd' = [dd EXCEPT ![p][h] = None]
    /\ started' = [started EXCEPT ![p] = @ \ {h}]
    /\ UNCHANGED <<reading, shared>>

DaqOpenKnown(p, n) ==
    /\ call[p] = Idle /\ Known(p, n) # {}
    /\ \E e \in Known(p, n) : Begin(p, n, e.handle)
    /\ UNCHANGED lock

DaqOpen(p, n) ==
    /\ call[p] = Idle /\ Known(p, n) = {} /\ ~Locked(p, n)
    /\ Len(lock[p]) < MaxLocks /\ FreeHandles(p) # {}
    /\ lock' = [lock EXCEPT ![p] = Append(@, [pid |-> p, name |-> n, handle |-> Free(p)])]
    /\ Begin(p, n, Free(p))

\* searchForDbrdVxdName reads the type of every board up to the one that
\* matches.  Opening the /proc entry clears the flag all readers share; the
\* second read after that is taken for the end of the file.
Marked(m) == [reading EXCEPT ![m] = FALSE]

\* The other processes that are between open and read of this entry.
Race(p, m) == [q \in Programs |->
    IF q # p /\ call[q].step = "read" /\ call[q].board = m
    THEN [call[q] EXCEPT !.raced = TRUE] ELSE call[q]]

OpenType(p) ==
    /\ call[p].step = "look"
    /\ LET m == call[p].board IN
       /\ reading' = Marked(m)
       /\ call' = [Race(p, m) EXCEPT ![p].step = "read", ![p].raced = FALSE]
    /\ UNCHANGED <<devVars, lock, dd, started, shared>>

ReadType(p) ==
    /\ call[p].step = "read"
    /\ LET m == call[p].board IN
       /\ reading' = [reading EXCEPT ![m] = ~@]
       /\ call' = [Race(p, m) EXCEPT
             ![p].step = IF m = Board[call[p].name] THEN "open" ELSE "look",
             ![p].board = IF m = Board[call[p].name] THEN m ELSE m + 1,
             ![p].type = IF reading[m] THEN None ELSE m]
    /\ UNCHANGED <<devVars, lock, dd, started, shared>>

FreedLast(p, table, h) ==   \* mutant: the last entry is dropped, the one that goes stays
    IF \E k \in DOMAIN table : table[k].pid = p /\ table[k].handle = h
    THEN SubSeq(table, 1, Len(table) - 1) ELSE table

\* freeHandle: the last entry takes the place of the one that goes.
Freed(p, table, h) ==
    LET n == Len(table)
        gone == {k \in 1 .. n : table[k].pid = p /\ table[k].handle = h} IN
    IF gone = {} THEN table
    ELSE LET k == CHOOSE k \in gone : TRUE IN
         SubSeq([table EXCEPT ![k] = table[n]], 1, n - 1)

OpenDevice(p) ==
    /\ call[p].step = "open"
    /\ \E f \in Files :
          /\ Open(f, call[p].board)
          /\ dd' = [dd EXCEPT ![p][call[p].handle] = f]
    /\ call' = [call EXCEPT ![p] = Idle]
    /\ UNCHANGED <<lock, started, reading, shared>>

\* -EBUSY, or no device: daqOpen closes the session and returns no handle.
OpenFails(p) ==
    /\ call[p].step = "open"
    /\ CanOpen(call[p].board) => Busy(call[p].board)
    /\ lock' = [lock EXCEPT ![p] = Freed(p, @, call[p].handle)]
    /\ call' = [call EXCEPT ![p] = Idle]
    /\ UNCHANGED <<devVars, dd, started, reading, shared>>

---------------------------------------------------------------------------
\* daqClose: disarm, free the handle, close the device.
DaqClose(p, h) ==
    /\ call[p] = Idle /\ Valid(p, h)
    /\ CloseDevice(p, h)
    /\ lock' = [lock EXCEPT ![p] = Freed(p, @, h)]
    /\ dd' = [dd EXCEPT ![p][h] = None]
    /\ started' = [started EXCEPT ![p] = @ \ {h}]
    /\ UNCHANGED <<call, reading, shared>>

\* daqAdcArm or daqDacWaveArm.
DaqArm(p, h) ==
    /\ call[p] = Idle /\ Valid(p, h) /\ dd[p][h] # None /\ h \notin started[p]
    /\ Arm(dd[p][h])
    /\ started' = [started EXCEPT ![p] = @ \cup {h}]
    /\ UNCHANGED <<lock, dd, call, reading, shared>>

Unused(p) == call[p] = Idle /\ lock[p] = <<>> /\ \A h \in Handles : dd[p][h] = None

\* A process number that is in no table.
New(c) == Unused(c) /\ \A q \in Programs : \A e \in Entries(q) : e.pid # c

\* fork: the child has the tables of the parent, whose process number is in
\* its entries, and its descriptors.  Bound: there is one fork.
OpenFiles(p) == {dd[p][h] : h \in Handles} \ {None}
Fork(p, c) ==
    /\ shared = {}
    /\ p # c /\ call[p] = Idle /\ New(c) /\ OpenFiles(p) # {}
    /\ \A f \in OpenFiles(p) : files[f].fds < MaxFds
    /\ lock' = [lock EXCEPT ![c] = lock[p]]
    /\ dd' = [dd EXCEPT ![c] = dd[p]]
    /\ files' = [f \in Files |-> IF f \in OpenFiles(p) THEN [files[f] EXCEPT !.fds = @ + 1]
                                 ELSE files[f]]
    /\ shared' = shared \cup {files[f].minor : f \in OpenFiles(p)}
    /\ UNCHANGED <<mod, pde, held, again, refs, nodes, call, started, reading>>

\* The end of a process, wherever it is: the kernel closes its descriptors.
Exit(p) ==
    /\ ~Unused(p)
    /\ LET fs == OpenFiles(p)
           last == {f \in fs : files[f].fds = 1}
           minors == {files[f].minor : f \in fs} IN
       /\ files' = [f \in Files |-> IF f \in last THEN None
                                    ELSE IF f \in fs THEN [files[f] EXCEPT !.fds = @ - 1]
                                    ELSE files[f]]
       /\ pde' = [m \in Minors |->
             IF m \notin minors THEN pde[m]
             ELSE [Flushed(pde[m]) EXCEPT
                      !.count = pde[m].count - Cardinality({f \in fs : files[f].minor = m})]]
       /\ refs' = refs - 2 * Cardinality(last)
    /\ lock' = [lock EXCEPT ![p] = <<>>]
    /\ dd' = [dd EXCEPT ![p] = [h \in Handles |-> None]]
    /\ call' = [call EXCEPT ![p] = Idle]
    /\ started' = [started EXCEPT ![p] = {}]
    /\ UNCHANGED <<mod, held, again, nodes, reading, shared>>

SessionNext ==
    \/ \E p \in Programs :
          \/ \E n \in Names : DaqOpenKnown(p, n) \/ DaqOpen(p, n)
          \/ OpenType(p) \/ ReadType(p) \/ OpenDevice(p) \/ OpenFails(p)
          \/ \E h \in Handles : DaqClose(p, h) \/ DaqArm(p, h)
          \/ \E c \in Programs : Fork(p, c)
          \/ Exit(p)
    \/ (Rmmod \/ CleanBuffers \/ CleanPde \/ CleanModule) /\ UNCHANGED sessionVars

SessionSpec == InitSessions /\ [][SessionNext]_<<devVars, sessionVars>>

---------------------------------------------------------------------------
\* A handle that daqOpen has returned means, until it is closed or opened
\* again, an open file of the board its name matches, and one of its own:
\* through every order of opens under several names, failed opens, closes out
\* of order (the table is filled up from its end), forks and deaths of others.
HandleIsItsBoards ==
    \A p \in Programs :
       /\ \A e \in Own(p) :
             (call[p] # Idle => call[p].handle # e.handle) =>
                /\ dd[p][e.handle] # None
                /\ files[dd[p][e.handle]] # None
                /\ files[dd[p][e.handle]].minor = Board[e.name]
                /\ files[dd[p][e.handle]].fds > 0
       /\ \A i, j \in DOMAIN lock[p] :
             i # j /\ lock[p][i].pid = p /\ lock[p][j].pid = p =>
                lock[p][i].handle # lock[p][j].handle

\* As long as no fork has shared a descriptor of a board, user_count counts
\* its files, there is at most one, and an acquisition that a program has
\* started goes on until that program stops it: the opens and closes of others,
\* refused or not, and under whatever name, leave it alone.  (A child that
\* closes its copies, opens any board with its parent's handle 0, or ends, stops
\* the parent's acquisition and leaves user_count below zero: linux_drvrint.c:991.)
Undisturbed ==
    /\ \A m \in Minors \ shared :
          pde[m] # None =>
             pde[m].count = Cardinality({f \in Files : files[f] # None /\ files[f].minor = m})
    /\ \A m \in Minors : pde[m] # None => pde[m].count <= 1
    /\ \A p \in Programs : \A h \in started[p] :
          LET m == files[dd[p][h]].minor IN m \notin shared => pde[m].running

\* A session has the device type of its board, unless another program read or
\* opened the type of the same board between the open and the read of this one:
\* the flag that marks the end of the file belongs to all readers
\* (linux_drvrint.c:193), and the loser takes its board for type 0.
TypeKnown ==
    \A p \in Programs :
       call[p].step = "open" =>
          call[p].type = call[p].board \/ call[p].raced

\* A handle is one of the board that the program asked for, and of its type.
HandleWorks == HandleIsItsBoards /\ TypeKnown
=============================================================================
