----------------------------- MODULE MCSessions -----------------------------
(* Instances of CharDevice and Sessions for TLC, side by side: `part` tells *)
(* which of the two a behaviour is about.  In the first the module comes    *)
(* and goes and bare files are opened; in the second it is loaded and the   *)
(* library opens the files.                                                 *)
EXTENDS Sessions, TLC

CONSTANTS n0, n1, a0

VARIABLE part

\* a0 is a longer spelling of n0.
MCBoard == n0 :> 0 @@ n1 :> 1 @@ a0 :> 0
Sym == Permutations(Programs) \cup Permutations(Files)

MCInit == \/ part = "module" /\ InitDevice /\ NoSessions
             /\ shared = Minors   \* a bare file may be dup'ed
          \/ part = "sessions" /\ InitSessions
MCNext == /\ \/ part = "module" /\ (ModuleNext \/ FileNext) /\ UNCHANGED sessionVars
             \/ part = "sessions" /\ SessionNext
          /\ UNCHANGED part
MCSpec == MCInit /\ [][MCNext]_<<devVars, sessionVars, part>>
=============================================================================
