------------------------ MODULE AdcRefinementProofs ------------------------
(***************************************************************************)
(* The engine of AdcAcquisition implements AdcDriver, for every ring,      *)
(* buffer and request: each of its steps is a step of AdcDriver, leaves    *)
(* alone what AdcDriver shows, or breaks the promise at one of the places  *)
(* named by Harmful.                                                       *)
(***************************************************************************)
EXTENDS AdcProofs, AdcRefinement

(* The driver of AdcDriver is known by its fields.                         *)
Fields == {"acq", "xfer", "ok", "error", "asked", "total", "taken", "waiting",
           "count", "size", "cyclic"}
IsDrv(v) == v = [f \in Fields |-> v[f]]

(* w differs from v in the fields X at most.                               *)
But(X, v, w) == IsDrv(w) /\ \A f \in Fields \ X : w[f] = v[f]

LEMMA SameDrv ==
  ASSUME NEW v, IsDrv(v), NEW w, But({}, v, w)
  PROVE  w = v
<1>1. \A f \in Fields : w[f] = v[f]
  BY DEF But
<1> QED BY <1>1 DEF IsDrv, But

LEMMA ViewFields ==
  ASSUME NEW d, NEW n, NEW a
  PROVE  LET v == ViewOf(d, n, a)
         IN  /\ IsDrv(v) /\ v.acq = d.acqActive /\ v.xfer = d.transferActive
             /\ v.ok = d.configured /\ v.error = d.error /\ v.asked = TotalOf(d)
             /\ v.total = TotalOf(a) /\ v.taken = d.sent + d.toMove + d.dropped + n
             /\ v.waiting = d.toMove + n /\ v.count = d.inUser /\ v.size = d.size
             /\ v.cyclic = d.cyclic
BY DEF ViewOf, IsDrv, Fields

(* The operators of AdcDriver, by what they change.                        *)
LEMMA IoctlFields ==
  ASSUME NEW v, IsDrv(v)
  PROVE  /\ LET w == Driver!Refused(v) IN But({"ok"}, v, w) /\ w.ok = FALSE
         /\ LET w == Driver!Disarmed(v)
            IN  But({"acq", "waiting"}, v, w) /\ w.acq = FALSE /\ w.waiting = 0
         /\ LET w == Driver!Stopped(v) IN But({"xfer"}, v, w) /\ w.xfer = FALSE
         /\ LET w == [v EXCEPT !.error = "None"] IN But({"error"}, v, w) /\ w.error = "None"
<1>1. LET w == Driver!Refused(v) IN But({"ok"}, v, w) /\ w.ok = FALSE
  BY DEF Driver!Refused, IsDrv, But, Fields
<1>2. LET w == Driver!Disarmed(v)
      IN  But({"acq", "waiting"}, v, w) /\ w.acq = FALSE /\ w.waiting = 0
  BY DEF Driver!Disarmed, IsDrv, But, Fields
<1>3. LET w == Driver!Stopped(v) IN But({"xfer"}, v, w) /\ w.xfer = FALSE
  BY DEF Driver!Stopped, IsDrv, But, Fields
<1>4. LET w == [v EXCEPT !.error = "None"] IN But({"error"}, v, w) /\ w.error = "None"
  BY DEF IsDrv, But, Fields
<1> QED BY <1>1, <1>2, <1>3, <1>4

LEMMA ConfiguredFields ==
  ASSUME NEW v, IsDrv(v), NEW n
  PROVE  /\ LET w == Driver!Configured(v, n)
            IN  But({"ok", "asked"}, v, w) /\ w.ok = TRUE /\ w.asked = n
         /\ LET w == [Driver!Refused(v) EXCEPT !.asked = n]
            IN  But({"ok", "asked"}, v, w) /\ w.ok = FALSE /\ w.asked = n
<1>1. LET w == Driver!Configured(v, n)
      IN  But({"ok", "asked"}, v, w) /\ w.ok = TRUE /\ w.asked = n
  BY DEF Driver!Configured, IsDrv, But, Fields
<1>2. LET w == [Driver!Refused(v) EXCEPT !.asked = n]
      IN  But({"ok", "asked"}, v, w) /\ w.ok = FALSE /\ w.asked = n
  BY DEF Driver!Refused, IsDrv, But, Fields
<1> QED BY <1>1, <1>2

LEMMA ArmFields ==
  ASSUME NEW v, IsDrv(v)
  PROVE  /\ LET w == Driver!Cleared(v)
            IN  /\ But({"taken", "waiting", "count"}, v, w)
                /\ w.taken = 0 /\ w.waiting = 0 /\ w.count = 0
         /\ LET w == Driver!Armed(v)
            IN  /\ But({"acq", "error", "total", "taken", "waiting", "count"}, v, w)
                /\ w.taken = 0 /\ w.waiting = 0 /\ w.count = 0
                /\ w.acq = TRUE /\ w.error = "None" /\ w.total = v.asked
<1>1. LET w == Driver!Cleared(v)
      IN  /\ But({"taken", "waiting", "count"}, v, w)
          /\ w.taken = 0 /\ w.waiting = 0 /\ w.count = 0
  BY DEF Driver!Cleared, IsDrv, But, Fields
<1> DEFINE c == Driver!Cleared(v)
<1>2. Driver!Armed(v) = [c EXCEPT !.acq = TRUE, !.error = "None", !.total = v.asked]
  BY DEF Driver!Armed
<1> HIDE DEF c
<1>3. LET w == Driver!Armed(v)
      IN  /\ But({"acq", "error", "total"}, c, w)
          /\ w.acq = TRUE /\ w.error = "None" /\ w.total = v.asked
  BY <1>1, <1>2 DEF c, IsDrv, But, Fields
<1>4. LET w == Driver!Armed(v)
      IN  /\ But({"acq", "error", "total", "taken", "waiting", "count"}, v, w)
          /\ w.taken = 0 /\ w.waiting = 0 /\ w.count = 0
  BY <1>1, <1>3 DEF c, But, Fields
<1> QED BY <1>1, <1>3, <1>4

LEMMA HandedFields ==
  ASSUME NEW v, IsDrv(v), NEW n
  PROVE  LET w == Driver!Handed(v, n)
             full == ~v.cyclic /\ v.count + n > v.size
         IN  /\ But({"xfer", "waiting", "count"}, v, w)
             /\ ~v.xfer => /\ w.waiting = v.waiting + n
                           /\ w.count = v.count /\ w.xfer = v.xfer
             /\ v.xfer /\ full => /\ w.waiting = v.waiting + n - (v.size - v.count)
                                  /\ w.count = v.size /\ w.xfer = FALSE
             /\ v.xfer /\ ~full => /\ w.waiting = v.waiting
                                   /\ w.count = v.count + n /\ w.xfer = v.xfer
<1> DEFINE full == ~v.cyclic /\ v.count + n > v.size
<1>1. CASE ~v.xfer
  <2>1. Driver!Handed(v, n) = [v EXCEPT !.waiting = v.waiting + n]
    BY <1>1 DEF Driver!Handed
  <2> QED BY <1>1, <2>1 DEF IsDrv, But, Fields
<1>2. CASE v.xfer /\ full
  <2>1. Driver!Handed(v, n) = [v EXCEPT !.waiting = v.waiting + n - (v.size - v.count),
                                        !.count = v.size, !.xfer = FALSE]
    BY <1>2 DEF Driver!Handed, Driver!Full
  <2> QED BY <1>2, <2>1 DEF IsDrv, But, Fields
<1>3. CASE v.xfer /\ ~full
  <2>1. Driver!Handed(v, n) = [v EXCEPT !.count = v.count + n]
    BY <1>3 DEF Driver!Handed, Driver!Full
  <2> HIDE DEF full
  <2>2. LET w == Driver!Handed(v, n)
        IN  But({"count"}, v, w) /\ w.count = v.count + n
    BY <2>1 DEF IsDrv, But, Fields
  <2> QED BY <1>3, <2>2 DEF But, Fields, full
<1> QED BY <1>1, <1>2, <1>3

LEMMA EndedFields ==
  ASSUME NEW v, IsDrv(v)
  PROVE  LET w == Driver!Ended(v)
         IN  But({"acq", "xfer"}, v, w) /\ w.acq = FALSE /\ w.xfer = FALSE
BY DEF Driver!Ended, IsDrv, But, Fields

(* A step that changes nothing of what is shown.                           *)
Unseen(d, e) ==
  /\ e.acqActive = d.acqActive /\ e.transferActive = d.transferActive
  /\ e.configured = d.configured /\ e.error = d.error
  /\ e.stop = d.stop /\ e.pre = d.pre /\ e.post = d.post
  /\ e.sent = d.sent /\ e.toMove = d.toMove /\ e.dropped = d.dropped
  /\ e.inUser = d.inUser /\ e.size = d.size /\ e.cyclic = d.cyclic

LEMMA UnseenView ==
  ASSUME NEW d, NEW e, Unseen(d, e), NEW n, NEW a
  PROVE  ViewOf(e, n, a) = ViewOf(d, n, a)
BY DEF Unseen, ViewOf, TotalOf

LEMMA AlikeUnseen ==
  ASSUME NEW d, NEW e, Alike(d, e), e.error = d.error
  PROVE  Unseen(d, e)
BY DEF Alike, SameRequest, SameTransfer, Unseen
-----------------------------------------------------------------------------
(* From d to e, n more scans are handed over and nothing else is seen, but *)
(* for the end of the acquisition.                                         *)
Moved(d, e, n) ==
  LET full == d.transferActive /\ Fills(d, n)
  IN  /\ n \in Nat /\ e.current <= d.current
      /\ e.configured = d.configured /\ e.error = d.error /\ e.dropped = d.dropped
      /\ e.stop = d.stop /\ e.pre = d.pre /\ e.post = d.post
      /\ e.size = d.size /\ e.cyclic = d.cyclic
      /\ e.sent + e.toMove = d.sent + d.toMove + n
      /\ ~d.transferActive => e.toMove = d.toMove + n /\ e.inUser = d.inUser
      /\ full => e.toMove = d.toMove + n - (d.size - d.inUser) /\ e.inUser = d.size
      /\ d.transferActive /\ ~full => e.toMove = d.toMove /\ e.inUser = d.inUser + n
      /\ e.acqActive => d.acqActive /\ (e.transferActive <=> d.transferActive /\ ~full)
      /\ ~e.acqActive => ~e.transferActive /\ e.event = "POSTSTOP"

LEMMA CopiedMoves ==
  ASSUME NEW d, IsPde(d), NEW e, IsPde(e), NEW n \in Nat, Copied(d, e, n),
         d.transferActive /\ Fills(d, n) => d.toMove = 0,
         d.acqActive, e.error = d.error
  PROVE  Moved(d, e, n)
<1>1. /\ e.current = d.current /\ d.current \in Int
      /\ e.configured = d.configured /\ e.dropped = d.dropped
      /\ e.stop = d.stop /\ e.pre = d.pre /\ e.post = d.post
      /\ e.size = d.size /\ e.cyclic = d.cyclic /\ e.acqActive = d.acqActive
      /\ e.transferActive <=> d.transferActive /\ ~Fills(d, n)
  BY DEF Copied, SameCounter, SameRequest, IsPde, Counts
<1>2. /\ d.sent \in Int /\ d.toMove \in Int /\ d.inUser \in Int /\ d.size \in Int
  BY DEF IsPde, Counts
<1>3. /\ e.sent + e.toMove = d.sent + d.toMove + n
      /\ ~d.transferActive => e.toMove = d.toMove + n /\ e.inUser = d.inUser
      /\ d.transferActive /\ Fills(d, n) =>
           e.toMove = d.toMove + n - (d.size - d.inUser) /\ e.inUser = d.size
      /\ d.transferActive /\ ~Fills(d, n) => e.toMove = d.toMove /\ e.inUser = d.inUser + n
  BY <1>2 DEF Copied, Room
<1> QED BY <1>1, <1>3 DEF Moved

LEMMA OnStopError ==
  ASSUME scans \in Nat, NEW d, IsPde(d)
  PROVE  OnStop(d).error = d.error
<1> DEFINE post == SetupPostStopEvent(d)
           back == [post EXCEPT !.current = d.last]
           e == ComputeScansAcquired(back, 0)
           copied == CopyNewScans(e, e.current - e.last)
           g == AdcDisarmAcquisition(copied)
<1>1. IsPde(post) /\ post.last = d.last /\ post.error = d.error
  BY DEF SetupPostStopEvent, IsPde, Flags, Counts, Others, Events
<1>2. IsPde(back) /\ back.error = d.error
  <2>1. d.last \in Int
    BY DEF IsPde, Counts
  <2> HIDE DEF post
  <2> QED BY <1>1, <2>1 DEF IsPde, Flags, Counts, Others
<1>3. back = [SetupPostStopEvent(d) EXCEPT !.current = d.last]
  BY DEF back
<1> HIDE DEF back
<1>4. IsPde(e) /\ e.error = d.error
  BY <1>2, ComputeType DEF Kept
<1> HIDE DEF e
<1>5. IsPde(copied) /\ copied.error = d.error
  <2>1. e.current - e.last \in Int
    BY <1>4 DEF IsPde, Counts
  <2> QED BY <1>4, <2>1, CopyNewScansType DEF Kept
<1> HIDE DEF copied
<1>6. IsPde(g) /\ g.error = d.error
  BY <1>5, DisarmAcquisitionType
<1> HIDE DEF g
<1>7. AdcStop(g).error = d.error
  BY <1>6, StopType DEF Kept
<1>8. OnStop(d) = AdcStop(g)
  BY <1>1, <1>3 DEF OnStop, g, copied, e
<1> QED BY <1>7, <1>8

(* The scans that the search for the stop event hands over.                *)
LEMMA StopPhaseMoves ==
  ASSUME scans \in Nat, NEW d, IsPde(d), NEW acquired \in Nat, Ready(d, acquired)
  PROVE  LET e == StopPhase(d, acquired)
         IN  Snatched(d, e) \/ \E n \in Nat : Moved(d, e, n)
<1> DEFINE c == CheckForStop(d, acquired)
           o == c.occurred
           b == c.d
           e == StopPhase(d, acquired)
<1> SUFFICES Snatched(d, e) \/ \E n \in Nat : Moved(d, e, n)
  OBVIOUS
<1>1. e = IF o THEN OnStop(b) ELSE CopyNewScans(b, acquired)
  BY DEF StopPhase, Ready
<1>2. /\ IsPde(b) /\ AlikeButStop(d, b) /\ StopFound(d, acquired, o, b)
      /\ b.error = d.error
  BY CheckForStopType, CheckForStopFields DEF Kept
<1>3. \A n : Fills(b, n) = Fills(d, n) /\ Room(b, n) = Room(d, n)
  BY <1>2 DEF Fills, Room, AlikeButStop, SameTransfer
<1> HIDE DEF c, o, b, e
<1>4. /\ b.transferActive = d.transferActive /\ b.toMove = d.toMove
      /\ b.inUser = d.inUser /\ b.size = d.size /\ b.cyclic = d.cyclic
      /\ b.sent = d.sent /\ b.dropped = d.dropped /\ b.current = d.current
      /\ b.last = d.last /\ b.configured = d.configured /\ b.acqActive = d.acqActive
      /\ b.userOpen = d.userOpen /\ b.stop = d.stop /\ b.pre = d.pre /\ b.post = d.post
  BY <1>2 DEF AlikeButStop, SameTransfer, SameCounter, SameRequest
<1>5. /\ d.transferActive /\ d.toMove # 0 => call.at = "startTake" /\ d.toMove > 0
      /\ d.acqActive /\ (~d.cyclic => d.inUser <= d.size)
      /\ (d.transferActive => d.userOpen)
  BY DEF Ready, IsPde, Counts
<1>6. CASE o
  <2>1. d.last <= b.stopScan /\ b.stopScan <= d.current
    BY <1>2, <1>6 DEF StopFound, Ready, AtLeast, IsPde, Counts
  <2> DEFINE n == b.stopScan - d.last
  <2>2. Finished(b, e, n) /\ e.error = d.error
    BY <1>1, <1>2, <1>4, <1>5, <1>6, <2>1, OnStopFields, OnStopError
  <2>3. n \in Nat
    BY <1>2, <2>1 DEF IsPde, Counts
  <2> HIDE DEF n
  <2>4. /\ ~e.transferActive /\ e.event = "POSTSTOP" /\ ~e.acqActive
        /\ e.current = b.stopScan
    BY <2>2 DEF Finished, Quiet
  <2>5. CASE d.transferActive /\ d.toMove # 0
    BY <1>5, <2>4, <2>5 DEF Snatched
  <2>6. CASE ~(d.transferActive /\ d.toMove # 0)
    <3>1. /\ d.sent \in Int /\ d.toMove \in Int /\ d.inUser \in Int /\ d.size \in Int
      BY DEF IsPde, Counts
    <3>2. /\ e.configured = d.configured /\ e.dropped = d.dropped
          /\ e.stop = d.stop /\ e.pre = d.pre /\ e.post = d.post
          /\ e.size = d.size /\ e.cyclic = d.cyclic
      BY <1>4, <2>2 DEF Finished
    <3>3. /\ e.toMove = IF ~d.transferActive THEN d.toMove + n
                        ELSE IF Fills(d, n) THEN n - Room(d, n) ELSE d.toMove
          /\ e.sent = IF d.transferActive THEN d.sent + Room(d, n) ELSE d.sent
          /\ e.inUser = IF d.transferActive THEN d.inUser + Room(d, n) ELSE d.inUser
      BY <1>3, <1>4, <2>2 DEF Finished
    <3>4. /\ e.sent + e.toMove = d.sent + d.toMove + n
          /\ ~d.transferActive => e.toMove = d.toMove + n /\ e.inUser = d.inUser
          /\ d.transferActive /\ Fills(d, n) =>
               e.toMove = d.toMove + n - (d.size - d.inUser) /\ e.inUser = d.size
          /\ d.transferActive /\ ~Fills(d, n) => e.toMove = d.toMove /\ e.inUser = d.inUser + n
      BY <2>3, <2>6, <3>1, <3>3 DEF Room
    <3>5. Moved(d, e, n)
      BY <2>1, <2>2, <2>3, <2>4, <3>2, <3>4 DEF Moved
    <3> QED BY <2>3, <3>5
  <2> QED BY <2>5, <2>6
<1>7. CASE ~o
  <2>1. Copied(b, e, acquired) /\ IsPde(e) /\ e.error = d.error
    BY <1>1, <1>2, <1>4, <1>5, <1>7, CopyNewScansFields, CopyNewScansType DEF Kept
  <2>2. CASE d.transferActive /\ Fills(d, acquired) /\ d.toMove # 0
    <3>1. ~e.transferActive
      BY <1>3, <2>1, <2>2 DEF Copied
    <3> QED BY <1>5, <2>2, <3>1 DEF Snatched
  <2>3. CASE ~(d.transferActive /\ Fills(d, acquired) /\ d.toMove # 0)
    <3>1. Moved(b, e, acquired)
      BY <1>2, <1>3, <1>4, <1>5, <2>1, <2>3, CopiedMoves
    <3>2. Moved(d, e, acquired)
      BY <1>2, <1>3, <1>4, <3>1 DEF Moved
    <3> QED BY <3>2
  <2> QED BY <2>2, <2>3
<1> QED BY <1>6, <1>7

LEMMA MovedTwice ==
  ASSUME NEW d, IsPde(d), NEW t, IsPde(t), NEW e, IsPde(e), t.acqActive,
         NEW m \in Nat, Moved(d, t, m), NEW n \in Nat, Moved(t, e, n)
  PROVE  Moved(d, e, m + n)
<1>1. /\ d.sent \in Int /\ d.toMove \in Int /\ d.inUser \in Int /\ d.size \in Int
      /\ t.sent \in Int /\ t.toMove \in Int /\ t.inUser \in Int
      /\ d.current \in Int /\ t.current \in Int /\ e.current \in Int
      /\ e.sent \in Int /\ e.toMove \in Int /\ m + n \in Nat
  BY DEF IsPde, Counts
<1>2. /\ e.current <= d.current
      /\ e.configured = d.configured /\ e.error = d.error /\ e.dropped = d.dropped
      /\ e.stop = d.stop /\ e.pre = d.pre /\ e.post = d.post
      /\ e.size = d.size /\ e.cyclic = d.cyclic
      /\ e.sent + e.toMove = d.sent + d.toMove + (m + n)
      /\ e.acqActive => d.acqActive
      /\ ~e.acqActive => ~e.transferActive /\ e.event = "POSTSTOP"
  BY <1>1 DEF Moved
<1>3. CASE ~d.transferActive
  <2>1. ~t.transferActive /\ t.toMove = d.toMove + m /\ t.inUser = d.inUser
    BY <1>3 DEF Moved
  <2>2. /\ e.toMove = t.toMove + n /\ e.inUser = t.inUser
        /\ e.acqActive => ~e.transferActive
    BY <2>1 DEF Moved
  <2>3. e.toMove = d.toMove + (m + n) /\ e.inUser = d.inUser
    BY <1>1, <2>1, <2>2
  <2> QED BY <1>1, <1>2, <1>3, <2>2, <2>3 DEF Moved
<1>4. CASE d.transferActive /\ Fills(d, m)
  <2>1. /\ ~t.transferActive /\ t.toMove = d.toMove + m - (d.size - d.inUser)
        /\ t.inUser = d.size
    BY <1>4 DEF Moved
  <2>2. /\ e.toMove = t.toMove + n /\ e.inUser = t.inUser
        /\ e.acqActive => ~e.transferActive
    BY <2>1 DEF Moved
  <2>3. e.toMove = d.toMove + (m + n) - (d.size - d.inUser) /\ e.inUser = d.size
    BY <1>1, <2>1, <2>2
  <2>4. Fills(d, m + n)
    BY <1>1, <1>4 DEF Fills
  <2> QED BY <1>1, <1>2, <1>4, <2>2, <2>3, <2>4 DEF Moved
<1>5. CASE d.transferActive /\ ~Fills(d, m)
  <2>1. /\ t.transferActive /\ t.toMove = d.toMove /\ t.inUser = d.inUser + m
        /\ t.size = d.size /\ t.cyclic = d.cyclic
    BY <1>5 DEF Moved
  <2>2. Fills(t, n) <=> Fills(d, m + n)
    BY <1>1, <2>1 DEF Fills
  <2>3. CASE Fills(t, n)
    <3>1. /\ e.toMove = t.toMove + n - (t.size - t.inUser) /\ e.inUser = t.size
          /\ e.acqActive => ~e.transferActive
      BY <2>1, <2>3 DEF Moved
    <3>2. e.toMove = d.toMove + (m + n) - (d.size - d.inUser) /\ e.inUser = d.size
      BY <1>1, <2>1, <3>1
    <3> QED BY <1>1, <1>2, <1>5, <2>2, <2>3, <3>1, <3>2 DEF Moved
  <2>4. CASE ~Fills(t, n)
    <3>1. /\ e.toMove = t.toMove /\ e.inUser = t.inUser + n
          /\ e.acqActive => e.transferActive
      BY <2>1, <2>4 DEF Moved
    <3>2. e.toMove = d.toMove /\ e.inUser = d.inUser + (m + n)
      BY <1>1, <2>1, <3>1
    <3> QED BY <1>1, <1>2, <1>5, <2>2, <2>4, <3>1, <3>2 DEF Moved
  <2> QED BY <2>3, <2>4
<1> QED BY <1>3, <1>4, <1>5

(* The trigger is not there yet, and nothing is seen of the callback; or   *)
(* it is, and the scans before it are handed over with those after it.     *)
LEMMA TriggerPhaseMoves ==
  ASSUME Running, NEW d, NEW acquired, Scanned(d, acquired), d.event = "TRIGGER",
         acquired > 0, acquired + d.toMove <= RingScans
  PROVE  LET e == TriggerPhase(d, acquired)
         IN  Unseen(d, e) \/ \E n \in Nat : Moved(d, e, n)
<1> DEFINE c == CheckForTrigger(d, acquired)
           b == c.d
           t == OnTrigger(b)
           left == b.current - b.trigScan + 1
           e == TriggerPhase(d, acquired)
<1> SUFFICES Unseen(d, e) \/ \E n \in Nat : Moved(d, e, n)
  OBVIOUS
<1>1. /\ IsPde(d) /\ acquired \in Nat /\ scans \in Nat /\ d.toMove = 0
      /\ d.acqActive /\ d.pre \in Nat
      /\ ~d.cyclic => d.inUser <= d.size
      /\ d.transferActive => d.userOpen
  BY RunningFacts DEF Running, Ledger, Held, Scanned, SameTransfer, SameRequest, IsPde
<1>2. /\ IsPde(b) /\ AlikeButTrigger(d, b) /\ TriggerFound(d, acquired, c.occurred, b)
      /\ b.error = d.error
  <2>1. acquired \in Int
    BY <1>1
  <2>2. IsPde(b) /\ b.error = d.error
    BY <1>1, <2>1, CheckForTriggerType DEF Kept
  <2>3. AlikeButTrigger(d, b) /\ TriggerFound(d, acquired, c.occurred, b)
    BY <1>1, CheckForTriggerFields
  <2> QED BY <2>2, <2>3
<1>3. e = IF c.occurred THEN StopPhase(t, left) ELSE b
  BY <1>1 DEF TriggerPhase
<1> HIDE DEF c, b, e
<1>4. Unseen(d, b)
  BY <1>2 DEF AlikeButTrigger, SameTransfer, SameRequest, Unseen
<1>5. CASE ~c.occurred
  BY <1>3, <1>4, <1>5
<1>6. CASE c.occurred
  <2>1. TriggerFound(d, acquired, TRUE, b)
    BY <1>2, <1>6 DEF TriggerFound
  <2>2. /\ IsPde(t) /\ left \in Nat /\ Ready(t, left) /\ t.current = d.current
        /\ t.transferActive => t.toMove = 0
    BY <1>2, <2>1, TriggerReady
  <2>3. /\ b.transferActive = d.transferActive /\ b.toMove = 0
        /\ b.inUser = d.inUser /\ b.size = d.size /\ b.cyclic = d.cyclic
        /\ b.sent = d.sent /\ b.dropped = d.dropped /\ b.current = d.current
        /\ b.configured = d.configured /\ b.acqActive = d.acqActive
        /\ b.userOpen = d.userOpen /\ b.stop = d.stop /\ b.pre = d.pre /\ b.post = d.post
    BY <1>1, <1>2 DEF AlikeButTrigger, SameTransfer, SameCounter, SameRequest
  <2>4. Triggers(b, t) /\ t.error = b.error
    BY <1>1, <1>2, <2>3, OnTriggerFields, OnTriggerType
  <2> HIDE DEF t, left
  <2>5. Moved(d, t, d.pre) /\ t.acqActive
    <3>1. /\ d.sent \in Int /\ d.toMove \in Int /\ d.inUser \in Int /\ d.size \in Int
          /\ d.current \in Int
      BY <1>1 DEF IsPde, Counts
    <3>2. Fills(b, d.pre) = Fills(d, d.pre) /\ Room(b, d.pre) = Room(d, d.pre)
      BY <2>3 DEF Fills, Room
    <3>3. /\ t.current = d.current
          /\ t.configured = d.configured /\ t.error = d.error /\ t.dropped = d.dropped
          /\ t.stop = d.stop /\ t.pre = d.pre /\ t.post = d.post
          /\ t.size = d.size /\ t.cyclic = d.cyclic /\ t.acqActive = d.acqActive
          /\ t.transferActive <=> d.transferActive /\ ~Fills(d, d.pre)
      BY <1>2, <2>3, <2>4, <3>2 DEF Triggers, SameRequest
    <3>4. /\ t.toMove = IF ~d.transferActive THEN d.toMove + d.pre
                        ELSE IF Fills(d, d.pre) THEN d.pre - Room(d, d.pre) ELSE d.toMove
          /\ t.sent = IF d.transferActive THEN d.sent + Room(d, d.pre) ELSE d.sent
          /\ t.inUser = IF d.transferActive THEN d.inUser + Room(d, d.pre) ELSE d.inUser
      BY <1>1, <2>3, <2>4, <3>2 DEF Triggers
    <3>5. /\ t.sent + t.toMove = d.sent + d.toMove + d.pre
          /\ ~d.transferActive => t.toMove = d.toMove + d.pre /\ t.inUser = d.inUser
          /\ d.transferActive /\ Fills(d, d.pre) =>
               t.toMove = d.toMove + d.pre - (d.size - d.inUser) /\ t.inUser = d.size
          /\ d.transferActive /\ ~Fills(d, d.pre) =>
               t.toMove = d.toMove /\ t.inUser = d.inUser + d.pre
      BY <1>1, <3>1, <3>4 DEF Room
    <3> QED BY <1>1, <3>1, <3>3, <3>5 DEF Moved
  <2>6. Snatched(t, e) \/ \E n \in Nat : Moved(t, e, n)
    BY <1>1, <1>3, <1>6, <2>2, StopPhaseMoves
  <2>7. ~Snatched(t, e)
    BY <2>2 DEF Snatched
  <2>8. PICK n \in Nat : Moved(t, e, n)
    BY <2>6, <2>7
  <2>9. IsPde(e)
    <3>1. left \in Int
      BY <2>2
    <3> QED BY <1>1, <1>3, <1>6, <2>2, <3>1, StopPhaseType
  <2>10. Moved(d, e, d.pre + n) /\ d.pre + n \in Nat
    BY <1>1, <2>2, <2>5, <2>8, <2>9, MovedTwice
  <2> QED BY <2>10
<1> QED BY <1>5, <1>6

(* A fatal error: the scans that wait are thrown away, but for those that  *)
(* adcStart holds.                                                         *)
Failed(d, e) ==
  /\ ~e.acqActive /\ ~e.transferActive /\ e.error \in {"Hardware", "Overrun"}
  /\ e.configured = d.configured /\ e.stop = d.stop /\ e.pre = d.pre /\ e.post = d.post
  /\ e.inUser = d.inUser /\ e.size = d.size /\ e.cyclic = d.cyclic
  /\ e.sent = d.sent /\ e.toMove = 0 /\ e.dropped = d.dropped + d.toMove

LEMMA FatalFails ==
  ASSUME NEW d, IsPde(d), NEW acquired, fault \/ Overrun(d, acquired), fault \in BOOLEAN
  PROVE  Failed(d, AdcCheckFatalErrors(d, acquired))
<1> DEFINE e == AdcCheckFatalErrors(d, acquired)
           Cut(x, y) ==
             /\ ~y.acqActive /\ ~y.transferActive /\ y.error = x.error
             /\ y.configured = x.configured /\ y.stop = x.stop
             /\ y.pre = x.pre /\ y.post = x.post
             /\ y.inUser = x.inUser /\ y.size = x.size /\ y.cyclic = x.cyclic
             /\ y.sent = x.sent /\ y.toMove = 0 /\ y.dropped = x.dropped + x.toMove
<1>1. ASSUME NEW x, IsPde(x)
      PROVE  IsPde(AdcStop(AdcDisarm(x))) /\ Cut(x, AdcStop(AdcDisarm(x)))
  <2> DEFINE y == AdcDisarm(x)
             z == AdcStop(y)
  <2>1. IsPde(y) /\ Quiet(y) /\ y.error = x.error
    BY <1>1, DisarmType
  <2>2. /\ y.stop = x.stop /\ y.pre = x.pre /\ y.post = x.post
        /\ y.configured = x.configured
        /\ y.inUser = x.inUser /\ y.size = x.size /\ y.cyclic = x.cyclic
        /\ y.sent = x.sent /\ y.toMove = 0 /\ y.dropped = x.dropped + x.toMove
    BY <1>1, DisarmFields
  <2> HIDE DEF y
  <2>3. IsPde(z) /\ z.error = y.error
    BY <2>1, StopType DEF Kept
  <2>4. /\ SameRequest(y, z) /\ z.size = y.size /\ z.cyclic = y.cyclic
        /\ z.dropped = y.dropped /\ z.inUser = y.inUser /\ z.sent = y.sent
        /\ z.toMove = y.toMove /\ ~z.transferActive
    BY <2>1, StopFields
  <2> HIDE DEF z
  <2>5. Cut(x, z)
    BY <2>1, <2>2, <2>3, <2>4 DEF SameRequest, Quiet
  <2> QED BY <2>3, <2>5 DEF z, y
<1>2. CASE fault
  <2> DEFINE x == [d EXCEPT !.error = "Hardware"]
  <2>1. IsPde(x) /\ SameTransfer(d, x) /\ SameRequest(d, x) /\ x.error = "Hardware"
    BY SMTT(30) DEF SameTransfer, SameRequest, IsPde, Flags, Counts, Others
  <2>2. e = AdcStop(AdcDisarm(x))
    BY <1>2 DEF AdcCheckFatalErrors
  <2> HIDE DEF x, e
  <2>3. Cut(x, e)
    BY <1>1, <2>1, <2>2
  <2> QED BY <2>1, <2>3 DEF Failed, SameTransfer, SameRequest, e
<1>3. CASE ~fault
  <2> DEFINE y == AdcStop(AdcDisarm(d))
  <2>1. IsPde(y) /\ Cut(d, y)
    BY <1>1
  <2>2. e = [y EXCEPT !.error = "Overrun"]
    BY <1>3 DEF AdcCheckFatalErrors
  <2> HIDE DEF y, e, Cut
  <2>3. SameTransfer(y, e) /\ SameRequest(y, e) /\ e.error = "Overrun"
    BY <2>1, <2>2, SMTT(30) DEF SameTransfer, SameRequest, IsPde, Flags, Counts, Others
  <2> QED BY <2>1, <2>3 DEF Cut, Failed, SameTransfer, SameRequest, e
<1> QED BY <1>2, <1>3

(* What a callback shows of itself: an error, new scans, or nothing; and   *)
(* nothing at all between adcStart's copy and the moves of its two heads.  *)
Shown(d) ==
  \/ Unseen(pde, d)
  \/ call.at # "startAdvance" /\ Failed(pde, d)
  \/ /\ call.at # "startAdvance"
     /\ \E n \in Nat : \E g :
          IsPde(g) /\ Unseen(pde, g) /\ g.current <= scans /\ Moved(g, d, n)

LEMMA CallbackShown ==
  ASSUME Running, NEW lag \in Nat
  PROVE  LET d == CheckEventsAndMoveData(pde, lag) IN Harmful(d) \/ Shown(d)
<1> DEFINE e == ComputeScansAcquired(pde, lag)
           acquired == e.current - e.last
           f == AdcCheckFatalErrors(e, acquired)
           d == CheckEventsAndMoveData(pde, lag)
<1> SUFFICES Harmful(d) \/ Shown(d)
  OBVIOUS
<1>1. /\ IsPde(pde) /\ scans \in Nat /\ pde.event \in {"TRIGGER", "STOP"}
      /\ fault \in BOOLEAN /\ pde.acqActive
  BY RunningFacts DEF Running
<1>2. /\ 0 <= pde.current /\ pde.current <= pde.read /\ pde.read <= scans
      /\ 0 <= pde.lastPass
  BY <1>1 DEF Running, Ledger, Ordered
<1>3. IsPde(e) /\ e.error = pde.error
  BY <1>1, ComputeType DEF Kept
<1>4. /\ SameTransfer(pde, e) /\ SameRequest(pde, e) /\ e.stale = pde.stale
      /\ e.event = pde.event
      /\ e.trigCount = pde.trigCount /\ e.trigScan = pde.trigScan
      /\ e.trigSw = pde.trigSw
      /\ e.stopCount = pde.stopCount /\ e.stopScan = pde.stopScan
      /\ e.stopSw = pde.stopSw
      /\ e.lastPass = pde.lastPass /\ e.last = pde.current /\ e.current = e.read
      /\ pde.read <= e.read /\ e.read <= scans
      /\ \/ e.trigHw \/ pde.event # "TRIGGER" \/ pde.source # "Hardware"
         \/ e.read = pde.read
      /\ pde.trigHw => e.trigHw
  BY <1>1, <1>2, ComputeFields
<1>5. d = IF fault \/ Overrun(e, acquired) THEN f
          ELSE IF f.event = "TRIGGER" THEN TriggerPhase(f, acquired)
          ELSE StopPhase(f, acquired)
  BY DEF CheckEventsAndMoveData
<1> HIDE DEF e, f, d
<1>6. /\ acquired \in Nat /\ e.current = pde.current + acquired
      /\ e.current \in Int /\ pde.current \in Int /\ pde.read \in Int
  BY <1>1, <1>2, <1>3, <1>4 DEF IsPde, Counts
<1> HIDE DEF acquired
<1>7. CASE fault \/ Overrun(e, acquired)
  <2>1. Failed(e, d)
    BY <1>1, <1>3, <1>5, <1>7, FatalFails DEF f
  <2>2. Failed(pde, d)
    BY <1>4, <2>1 DEF Failed, SameTransfer, SameRequest
  <2>3. call.at = "startAdvance" => Harmful(d)
    BY <2>2 DEF Failed, Harmful
  <2> QED BY <2>2, <2>3 DEF Shown
<1>8. CASE ~(fault \/ Overrun(e, acquired))
  <2>1. f = [e EXCEPT !.lastPass = acquired]
    BY <1>8 DEF f, AdcCheckFatalErrors
  <2>2. /\ IsPde(f) /\ SameEvents(e, f) /\ SameTransfer(e, f) /\ SameRequest(e, f)
        /\ f.stale = e.stale /\ f.last = e.last /\ f.current = e.current
        /\ f.read = e.read /\ f.lastPass = acquired /\ f.error = e.error
    BY <1>3, <1>6, <2>1, SMTT(30) DEF SameEvents, SameTransfer, SameRequest,
                                      IsPde, Flags, Counts, Others
  <2>3. SameTransfer(pde, f) /\ SameRequest(pde, f)
    BY <1>4, <2>2 DEF SameTransfer, SameRequest
  <2>4. Scanned(f, acquired)
    <3>1. /\ f.event = e.event /\ f.trigCount = e.trigCount /\ f.trigScan = e.trigScan
          /\ f.trigSw = e.trigSw /\ f.trigHw = e.trigHw /\ f.stopCount = e.stopCount
          /\ f.stopScan = e.stopScan /\ f.stopSw = e.stopSw /\ f.source = e.source
          /\ e.source = pde.source
      BY <1>4, <2>2 DEF SameEvents, SameRequest
    <3>2. 0 <= f.lastPass
      BY <1>6, <2>2
    <3>3. /\ f.stale = pde.stale /\ f.event = pde.event
          /\ f.trigCount = pde.trigCount /\ f.trigScan = pde.trigScan
          /\ f.trigSw = pde.trigSw
          /\ f.stopCount = pde.stopCount /\ f.stopScan = pde.stopScan
          /\ f.stopSw = pde.stopSw
          /\ f.last = pde.current /\ f.current = f.read
          /\ f.current = pde.current + acquired
          /\ pde.read <= f.read /\ f.read <= scans
      BY <1>4, <1>6, <2>2, <3>1
    <3>4. /\ \/ f.trigHw \/ f.event # "TRIGGER" \/ f.source # "Hardware"
             \/ f.read = pde.read
          /\ pde.trigHw => f.trigHw
      BY <1>4, <2>2, <3>1
    <3> QED BY <1>6, <2>2, <2>3, <3>2, <3>3, <3>4 DEF Scanned
  <2>5. acquired + f.toMove <= RingScans
    <3>1. f.toMove = e.toMove /\ e.toMove \in Int /\ e.lastPass \in Int
      BY <1>3, <2>2 DEF SameTransfer, IsPde, Counts
    <3> QED BY <1>2, <1>4, <1>6, <1>8, <3>1, SizesAssumption DEF Overrun
  <2>6. f.event = pde.event /\ f.current <= scans /\ Unseen(pde, f)
    BY <1>3, <1>4, <2>2, <2>3 DEF SameEvents, SameTransfer, SameRequest, Unseen
  <2>7. CASE acquired = 0
    <3>1. d = f
      BY <1>5, <1>8, <2>7 DEF TriggerPhase, StopPhase
    <3> QED BY <2>6, <3>1 DEF Shown
  <2>8. CASE acquired > 0
    <3>1. CASE f.event = "TRIGGER"
      <4>1. d = TriggerPhase(f, acquired)
        BY <1>5, <1>8, <3>1
      <4>2. call.at # "startAdvance"
        BY <2>6, <3>1 DEF Running, Ledger, Held, Holding
      <4>3. Unseen(f, d) \/ \E n \in Nat : Moved(f, d, n)
        BY <2>4, <2>5, <2>8, <3>1, <4>1, TriggerPhaseMoves
      <4>4. Unseen(f, d) => Unseen(pde, d)
        BY <2>6 DEF Unseen
      <4> QED BY <2>2, <2>6, <4>2, <4>3, <4>4 DEF Shown
    <3>2. CASE f.event = "STOP"
      <4>1. d = StopPhase(f, acquired)
        BY <1>5, <1>8, <3>2
      <4>2. CASE call.at = "startAdvance"
        BY <2>4, <2>8, <4>1, <4>2, AdvanceHarmed
      <4>3. CASE call.at # "startAdvance"
        <5>1. Ready(f, acquired)
          BY <2>4, <2>5, <2>8, <3>2, <4>3, StopReady
        <5>2. Snatched(f, d) \/ \E n \in Nat : Moved(f, d, n)
          BY <1>1, <1>6, <2>2, <4>1, <5>1, StopPhaseMoves
        <5>3. Snatched(f, d) => Harmful(d)
          BY <2>3 DEF Snatched, Harmful, SameTransfer
        <5> QED BY <2>2, <2>6, <4>3, <5>2, <5>3 DEF Shown
      <4> QED BY <4>2, <4>3
    <3> QED BY <1>1, <2>6, <3>1, <3>2
  <2> QED BY <1>6, <2>7, <2>8
<1> QED BY <1>7, <1>8
-----------------------------------------------------------------------------
(* What the refinement needs besides the ledger: a bound on the scans that *)
(* a callback may find, a scan count that can be asked for, and scans left *)
(* over when adcStart fills the buffer.                                    *)
Asked(d) == d.pre + d.post \in TotalsAsked
LeftOver(d) == call.at = "startAdvance" /\ call.full => d.toMove > 0
Ample(d) == scans <= MaxScans /\ Asked(d) /\ LeftOver(d)

RInv == DInv /\ (~hist.raced => Ample(pde))

(* The steps of AdcDriver that keep its promise, and those it does not see. *)
Simulated ==
  \/ DriverView' = DriverView
  \/ Driver!Configure \/ Driver!Arm \/ Driver!Disarm \/ Driver!Stop \/ Driver!Status
  \/ Driver!Start \/ Driver!Backlog \/ Driver!NoBacklog
  \/ Driver!Callback \/ Driver!Fault

(* An acquisition no race has touched.                                     *)
Untouched ==
  /\ IsPde(pde) /\ scans \in Nat /\ fault \in BOOLEAN /\ call \in Calls
  /\ hist \in [raced: BOOLEAN, arms: Nat,
               armed: [source: Sources, stop: StopSources, pre: Nat, post: Nat]]
  /\ Ledger(pde) /\ Flagging(pde) /\ Ample(pde)

LEMMA SameBut ==
  ASSUME NEW v, NEW X, NEW u, But(X, v, u), NEW w, But(X, v, w), \A f \in X : u[f] = w[f]
  PROVE  u = w
<1>1. \A f \in Fields : u[f] = w[f]
  BY DEF But
<1> QED BY <1>1 DEF But, IsDrv

LEMMA InitRInv == Init => RInv
<1> SUFFICES ASSUME Init PROVE Ample(pde)
  BY InitDInv DEF RInv
<1>1. pde.pre = 0 /\ pde.post = 0 /\ scans = 0 /\ call.at = "none"
  BY DEF Init, InitPde, Idle
<1>2. 0 \in TotalsAsked
  BY DEF TotalsAsked
<1> QED BY <1>1, <1>2, SizesAssumption DEF Ample, Asked, LeftOver

LEMMA TotalAsked ==
  ASSUME NEW d, Asked(d)
  PROVE  TotalOf(d) \in TotalsAsked
BY DEF TotalOf, Asked, TotalsAsked

LEMMA RequestAsked ==
  ASSUME NEW c \in Configs
  PROVE  c.pre + c.post \in TotalsAsked
BY DEF TotalsAsked

(* A step that leaves the counts asked for and does not begin to advance.  *)
LEMMA StaysAmple ==
  ASSUME Ample(pde), scans' \in {scans, 0}, pde'.pre = pde.pre, pde'.post = pde.post,
         call'.at # "startAdvance"
  PROVE  Ample(pde)'
BY SizesAssumption DEF Ample, Asked, LeftOver, TotalsAsked

LEMMA ArgUnseen ==
  ASSUME NEW d, IsPde(d)
  PROVE  IsPde(WithArg(d)) /\ Unseen(d, WithArg(d))
BY WithArgType, WithArgFields, AlikeUnseen DEF Kept

LEMMA UnseenStep ==
  ASSUME Unseen(pde, pde'), call'.n = call.n, hist'.armed = hist.armed
  PROVE  Simulated
<1>1. ViewOf(pde', call'.n, hist'.armed) = ViewOf(pde, call.n, hist.armed)
  BY UnseenView
<1> QED BY <1>1 DEF Simulated, DriverView

(* adcConfigure.                                                           *)
LEMMA ConfigureSimulated ==
  ASSUME Untouched, AdcConfigure
  PROVE  Simulated /\ Ample(pde)'
<1> DEFINE d == WithArg(pde)
           v == ViewOf(pde, call.n, hist.armed)
           u == ViewOf(pde', call'.n, hist'.armed)
<1>1. /\ IsPde(pde) /\ Ample(pde) /\ call.at = "none"
      /\ scans' = scans /\ call' = call /\ hist' = hist
  BY DEF Untouched, AdcConfigure, Begins, OneStep
<1>2. IsPde(d) /\ Unseen(pde, d)
  BY <1>1, ArgUnseen
<1> HIDE DEF d
<1>3. /\ IsDrv(v) /\ v.acq = pde.acqActive
      /\ \A e : LET w == ViewOf(e, call.n, hist.armed)
                IN  /\ e.acqActive = d.acqActive /\ e.transferActive = d.transferActive
                    /\ e.error = d.error /\ e.sent = d.sent /\ e.toMove = d.toMove
                    /\ e.dropped = d.dropped /\ e.inUser = d.inUser
                    /\ e.size = d.size /\ e.cyclic = d.cyclic
                    => /\ But({"ok", "asked"}, v, w)
                       /\ w.ok = e.configured /\ w.asked = TotalOf(e)
                       /\ TotalOf(e) = TotalOf(pde) => But({"ok"}, v, w)
  BY <1>2, ViewFields DEF Unseen, But, Fields
<1> HIDE DEF v
<1>4. CASE pde.acqActive /\ OneStep([d EXCEPT !.configured = FALSE])
  <2>1. pde' = [d EXCEPT !.configured = FALSE]
    BY <1>4 DEF OneStep
  <2>2. /\ pde'.acqActive = d.acqActive /\ pde'.transferActive = d.transferActive
        /\ pde'.error = d.error /\ pde'.sent = d.sent /\ pde'.toMove = d.toMove
        /\ pde'.dropped = d.dropped /\ pde'.inUser = d.inUser
        /\ pde'.size = d.size /\ pde'.cyclic = d.cyclic /\ pde'.configured = FALSE
        /\ pde'.stop = d.stop /\ pde'.pre = d.pre /\ pde'.post = d.post
    BY <1>2, <2>1, SMTT(30) DEF IsPde, Flags, Counts, Others
  <2>3. TotalOf(pde') = TotalOf(pde)
    BY <1>2, <2>2 DEF TotalOf, Unseen
  <2>4. But({"ok"}, v, u) /\ u.ok = FALSE
    BY <1>1, <1>3, <2>2, <2>3
  <2>5. But({"ok"}, v, Driver!Refused(v)) /\ Driver!Refused(v).ok = FALSE
    BY <1>3, IoctlFields
  <2>6. u = Driver!Refused(v)
    BY <2>4, <2>5, SameBut
  <2>7. Simulated
    BY <1>3, <1>4, <2>6 DEF Simulated, Driver!Configure, DriverView, v
  <2>8. pde'.pre = pde.pre /\ pde'.post = pde.post
    BY <1>2, <2>2 DEF Unseen
  <2> QED BY <1>1, <2>7, <2>8, StaysAmple
<1>5. ASSUME ~pde.acqActive, NEW c \in Configs,
             OneStep([d EXCEPT !.configured = FALSE, !.source = c.source, !.stop = c.stop])
      PROVE  Simulated /\ Ample(pde)'
  <2>1. pde' = [d EXCEPT !.configured = FALSE, !.source = c.source, !.stop = c.stop]
    BY <1>5 DEF OneStep
  <2>2. /\ pde'.acqActive = d.acqActive /\ pde'.transferActive = d.transferActive
        /\ pde'.error = d.error /\ pde'.sent = d.sent /\ pde'.toMove = d.toMove
        /\ pde'.dropped = d.dropped /\ pde'.inUser = d.inUser
        /\ pde'.size = d.size /\ pde'.cyclic = d.cyclic /\ pde'.configured = FALSE
        /\ pde'.pre = d.pre /\ pde'.post = d.post
    BY <1>2, <2>1, SMTT(30) DEF IsPde, Flags, Counts, Others
  <2>3. pde'.pre = pde.pre /\ pde'.post = pde.post
    BY <1>2, <2>2 DEF Unseen
  <2>4. Ample(pde)'
    BY <1>1, <2>3, StaysAmple
  <2> DEFINE k == TotalOf(pde')
             w == [Driver!Refused(v) EXCEPT !.asked = k]
  <2>5. k \in TotalsAsked
    <3>1. Asked(pde')
      BY <1>1, <2>3 DEF Ample, Asked
    <3> QED BY <3>1, TotalAsked
  <2>6. But({"ok", "asked"}, v, u) /\ u.ok = FALSE /\ u.asked = k
    BY <1>1, <1>3, <2>2
  <2> HIDE DEF k
  <2>7. But({"ok", "asked"}, v, w) /\ w.ok = FALSE /\ w.asked = k
    BY <1>3, ConfiguredFields
  <2> HIDE DEF u, w
  <2>8. u = w
    <3>1. \A f \in {"ok", "asked"} : u[f] = w[f]
      BY <2>6, <2>7
    <3> QED BY <2>6, <2>7, <3>1, SameBut
  <2>9. Simulated
    BY <1>3, <1>5, <2>5, <2>8 DEF Simulated, Driver!Configure, DriverView, v, u, w
  <2> QED BY <2>4, <2>9
<1>6. ASSUME ~pde.acqActive, NEW c \in Configs,
             OneStep([d EXCEPT !.configured = TRUE, !.source = c.source, !.stop = c.stop,
                               !.pre = c.pre, !.post = c.post,
                               !.trigCount = c.pre, !.stopCount = c.post])
      PROVE  Simulated /\ Ample(pde)'
  <2>1. pde' = [d EXCEPT !.configured = TRUE, !.source = c.source, !.stop = c.stop,
                         !.pre = c.pre, !.post = c.post,
                         !.trigCount = c.pre, !.stopCount = c.post]
    BY <1>6 DEF OneStep
  <2>2. /\ pde'.acqActive = d.acqActive /\ pde'.transferActive = d.transferActive
        /\ pde'.error = d.error /\ pde'.sent = d.sent /\ pde'.toMove = d.toMove
        /\ pde'.dropped = d.dropped /\ pde'.inUser = d.inUser
        /\ pde'.size = d.size /\ pde'.cyclic = d.cyclic /\ pde'.configured = TRUE
        /\ pde'.pre = c.pre /\ pde'.post = c.post
    BY <1>2, <2>1, SMTT(30) DEF IsPde, Flags, Counts, Others
  <2>3. Asked(pde')
    BY <2>2, RequestAsked DEF Asked
  <2>4. Ample(pde)'
    BY <1>1, <2>3 DEF Ample, Asked, LeftOver
  <2> DEFINE k == TotalOf(pde')
             w == Driver!Configured(v, k)
  <2>5. k \in TotalsAsked
    BY <2>3, TotalAsked
  <2>6. But({"ok", "asked"}, v, u) /\ u.ok = TRUE /\ u.asked = k
    BY <1>1, <1>3, <2>2
  <2> HIDE DEF k
  <2>7. But({"ok", "asked"}, v, w) /\ w.ok = TRUE /\ w.asked = k
    BY <1>3, ConfiguredFields
  <2> HIDE DEF u, w
  <2>8. u = w
    <3>1. \A f \in {"ok", "asked"} : u[f] = w[f]
      BY <2>6, <2>7
    <3> QED BY <2>6, <2>7, <3>1, SameBut
  <2>9. Simulated
    BY <1>3, <1>6, <2>5, <2>8 DEF Simulated, Driver!Configure, DriverView, v, u, w
  <2> QED BY <2>4, <2>9
<1> QED BY <1>4, <1>5, <1>6 DEF AdcConfigure, d

LEMMA DisarmView ==
  ASSUME NEW d, IsPde(d), NEW a
  PROVE  ViewOf(AdcDisarm(d), 0, a) = Driver!Disarmed(ViewOf(d, 0, a))
<1> DEFINE e == AdcDisarm(d)
           v == ViewOf(d, 0, a)
           u == ViewOf(e, 0, a)
           w == Driver!Disarmed(v)
<1>1. /\ ~e.acqActive /\ e.acqActive \in BOOLEAN /\ e.error = d.error
      /\ e.stop = d.stop /\ e.pre = d.pre /\ e.post = d.post
      /\ e.configured = d.configured /\ e.transferActive = d.transferActive
      /\ e.inUser = d.inUser /\ e.size = d.size /\ e.cyclic = d.cyclic
      /\ e.sent = d.sent /\ e.toMove = 0 /\ e.dropped = d.dropped + d.toMove
  BY DisarmType, DisarmFields DEF Quiet, IsPde, Flags
<1>2. /\ d.sent \in Int /\ d.toMove \in Int /\ d.dropped \in Int
  BY DEF IsPde, Counts
<1> HIDE DEF e
<1>3. e.sent + e.toMove + e.dropped + 0 = d.sent + d.toMove + d.dropped + 0
  BY <1>1, <1>2
<1>4. IsDrv(v) /\ IsDrv(u) /\ But({"acq", "waiting"}, v, u) /\ u.acq = FALSE /\ u.waiting = 0
  BY <1>1, <1>3, ViewFields DEF But, Fields, TotalOf
<1>5. But({"acq", "waiting"}, v, w) /\ w.acq = FALSE /\ w.waiting = 0
  BY <1>4, IoctlFields
<1> HIDE DEF u, w
<1>6. \A f \in {"acq", "waiting"} : u[f] = w[f]
  BY <1>4, <1>5
<1>7. u = w
  BY <1>4, <1>5, <1>6, SameBut
<1> QED BY <1>7 DEF u, w, e

LEMMA StopView ==
  ASSUME NEW d, IsPde(d), NEW n, NEW a
  PROVE  ViewOf(AdcStop(d), n, a) = Driver!Stopped(ViewOf(d, n, a))
<1> DEFINE e == AdcStop(d)
           v == ViewOf(d, n, a)
           u == ViewOf(e, n, a)
           w == Driver!Stopped(v)
<1>1. /\ ~e.transferActive /\ e.transferActive \in BOOLEAN /\ e.error = d.error
      /\ e.acqActive = d.acqActive
      /\ e.stop = d.stop /\ e.pre = d.pre /\ e.post = d.post
      /\ e.configured = d.configured
      /\ e.inUser = d.inUser /\ e.size = d.size /\ e.cyclic = d.cyclic
      /\ e.sent = d.sent /\ e.toMove = d.toMove /\ e.dropped = d.dropped
  BY StopType, StopFields DEF Kept, SameRequest, IsPde, Flags
<1> HIDE DEF e
<1>2. IsDrv(v) /\ But({"xfer"}, v, u) /\ u.xfer = FALSE
  BY <1>1, ViewFields DEF But, Fields, TotalOf
<1>3. But({"xfer"}, v, w) /\ w.xfer = FALSE
  BY <1>2, IoctlFields
<1> HIDE DEF u, w
<1>4. u = w
  BY <1>2, <1>3, SameBut
<1> QED BY <1>4 DEF u, w, e

(* adcArm up to its wait, adcDisarm, adcStop and adcGetStatus.             *)
LEMMA CallSimulated ==
  ASSUME Untouched, AdcArmBegin \/ AdcDisarmCall \/ AdcStopCall \/ AdcGetStatus
  PROVE  Simulated /\ Ample(pde)'
<1> DEFINE d == WithArg(pde)
           a == hist.armed
<1>1. /\ IsPde(pde) /\ Ample(pde) /\ call.at = "none" /\ call.n = 0
      /\ scans' = scans /\ hist' = hist
      /\ call' = call \/ call' = [Idle EXCEPT !.at = "armWait"]
  BY DEF Untouched, Ledger, Held, Holding, AdcArmBegin, AdcDisarmCall, AdcStopCall,
         AdcGetStatus, Begins, OneStep
<1>2. call'.n = 0 /\ call'.at # "startAdvance"
  BY <1>1 DEF Idle
<1>3. IsPde(d) /\ Unseen(pde, d)
  BY <1>1, ArgUnseen
<1>4. ViewOf(d, 0, a) = DriverView
  BY <1>1, <1>3, UnseenView DEF DriverView
<1> HIDE DEF d
<1>5. ASSUME pde' = d PROVE Simulated /\ Ample(pde)'
  BY <1>1, <1>2, <1>3, <1>5, UnseenStep, StaysAmple DEF Unseen
<1> DEFINE e == AdcDisarm(d)
<1>6. /\ IsPde(e) /\ e.pre = pde.pre /\ e.post = pde.post
      /\ ViewOf(e, 0, a) = Driver!Disarmed(DriverView)
  BY <1>3, <1>4, DisarmType, DisarmFields, DisarmView DEF Unseen
<1> HIDE DEF e
<1>7. ASSUME NEW g, IsPde(g), g = e \/ Unseen(e, g), pde' = g
      PROVE  Simulated /\ Ample(pde)'
  <2>1. ViewOf(g, 0, a) = ViewOf(e, 0, a) /\ g.pre = e.pre /\ g.post = e.post
    BY <1>7, UnseenView DEF Unseen
  <2>2. DriverView' = Driver!Disarmed(DriverView)
    BY <1>1, <1>2, <1>6, <1>7, <2>1 DEF DriverView
  <2>3. Ample(pde)'
    BY <1>1, <1>2, <1>6, <1>7, <2>1, StaysAmple
  <2> QED BY <2>2, <2>3 DEF Simulated, Driver!Disarm
<1>8. CASE AdcArmBegin
  <2>1. CASE OneStep(d)
    BY <1>5, <2>1 DEF OneStep
  <2>2. CASE ~OneStep(d)
    <3> DEFINE x == e.die \/ pde.running
               g == [e EXCEPT !.die = x]
    <3>1. pde' = g
      BY <1>8, <2>2 DEF AdcArmBegin, d, e
    <3>2. x \in BOOLEAN
      BY <1>1, <1>6 DEF IsPde, Flags
    <3> HIDE DEF x
    <3>3. IsPde(g) /\ Unseen(e, g)
      BY <1>6, <3>2, SMTT(30) DEF Unseen, IsPde, Flags, Counts, Others
    <3> HIDE DEF g
    <3> QED BY <1>7, <3>1, <3>3
  <2> QED BY <2>1, <2>2
<1>9. CASE AdcDisarmCall
  <2>1. pde' = e
    BY <1>9 DEF AdcDisarmCall, OneStep, d, e
  <2> QED BY <1>6, <1>7, <2>1
<1>10. CASE AdcStopCall
  <2>1. pde' = AdcStop(d) /\ call' = call
    BY <1>10 DEF AdcStopCall, OneStep, d
  <2>2. /\ AdcStop(d).pre = pde.pre /\ AdcStop(d).post = pde.post
        /\ ViewOf(AdcStop(d), 0, a) = Driver!Stopped(DriverView)
    BY <1>3, <1>4, StopFields, StopView DEF SameRequest, Unseen
  <2>3. DriverView' = Driver!Stopped(DriverView)
    BY <1>1, <1>2, <2>1, <2>2 DEF DriverView
  <2>4. Ample(pde)'
    BY <1>1, <1>2, <2>1, <2>2, StaysAmple
  <2> QED BY <2>3, <2>4 DEF Simulated, Driver!Stop
<1>11. CASE AdcGetStatus
  <2> DEFINE g == [d EXCEPT !.error = "None"]
             v == ViewOf(d, 0, a)
             u == ViewOf(g, 0, a)
             w == [v EXCEPT !.error = "None"]
  <2>1. pde' = g
    BY <1>11 DEF AdcGetStatus, OneStep, d
  <2>2. /\ g.acqActive = d.acqActive /\ g.transferActive = d.transferActive
        /\ g.configured = d.configured /\ g.error = "None"
        /\ g.stop = d.stop /\ g.pre = d.pre /\ g.post = d.post
        /\ g.sent = d.sent /\ g.toMove = d.toMove /\ g.dropped = d.dropped
        /\ g.inUser = d.inUser /\ g.size = d.size /\ g.cyclic = d.cyclic
    BY <1>3, SMTT(30) DEF IsPde, Flags, Counts, Others
  <2> HIDE DEF g
  <2>3. IsDrv(v) /\ But({"error"}, v, u) /\ u.error = "None"
    BY <2>2, ViewFields DEF But, Fields, TotalOf
  <2>4. But({"error"}, v, w) /\ w.error = "None"
    BY <2>3, IoctlFields
  <2> HIDE DEF u, w, v
  <2>5. u = w
    BY <2>3, <2>4, SameBut
  <2>6. DriverView' = [DriverView EXCEPT !.error = "None"]
    BY <1>1, <1>2, <1>4, <2>1, <2>5 DEF DriverView, u, w, v
  <2>7. Ample(pde)'
    BY <1>1, <1>2, <1>3, <2>1, <2>2, StaysAmple DEF Unseen
  <2> QED BY <2>6, <2>7 DEF Simulated, Driver!Status
<1> QED BY <1>8, <1>9, <1>10, <1>11

(* adcStart up to its look at the scans that wait: what its first step     *)
(* sets is not seen.                                                       *)
LEMMA StartBeginSimulated ==
  ASSUME Untouched, AdcStartBegin
  PROVE  Simulated /\ Ample(pde)'
<1> DEFINE d == WithArg(pde)
           e == [d EXCEPT !.userOpen = TRUE]
<1>1. /\ IsPde(pde) /\ Ample(pde) /\ call.at = "none" /\ call.n = 0
      /\ scans' = scans /\ hist' = hist
  BY DEF Untouched, Ledger, Held, Holding, AdcStartBegin, Begins, OneStep
<1>2. IsPde(d) /\ Unseen(pde, d)
  BY <1>1, ArgUnseen
<1>3. \/ pde' = d /\ call' = call
      \/ pde' = e /\ call' = [Idle EXCEPT !.at = "startOpen"]
  BY DEF AdcStartBegin, OneStep
<1> HIDE DEF d
<1>4. Unseen(d, e)
  BY <1>2, SMTT(30) DEF Unseen, IsPde, Flags, Counts, Others
<1> HIDE DEF e
<1>5. Unseen(pde, pde')
  BY <1>2, <1>3, <1>4 DEF Unseen
<1>6. call'.n = 0 /\ call'.at # "startAdvance"
  BY <1>1, <1>3 DEF Idle
<1> QED BY <1>1, <1>5, <1>6, UnseenStep, StaysAmple DEF Unseen

LEMMA StartSimulated ==
  ASSUME Untouched, AdcStartActive
  PROVE  Simulated /\ Ample(pde)'
<1> DEFINE v == ViewOf(pde, call.n, hist.armed)
           u == ViewOf(pde', call'.n, hist'.armed)
<1>1. /\ IsPde(pde) /\ Ample(pde) /\ call.at = "startOpen" /\ call.n = 0 /\ call \in Calls
      /\ scans' = scans /\ hist' = hist /\ call' = [call EXCEPT !.at = "startTake"]
      /\ ~pde.transferActive /\ pde.configured
  BY DEF Untouched, Ledger, Held, Holding, AdcStartActive
<1>2. PICK t \in Transfers :
        pde' = [pde EXCEPT !.size = t.size, !.cyclic = t.cyclic, !.userHead = 0,
                  !.inUser = 0, !.transferActive = TRUE]
  BY DEF AdcStartActive
<1>3. t.cyclic \in BOOLEAN
  BY RequestsAssumption
<1>4. /\ pde'.acqActive = pde.acqActive /\ pde'.transferActive = TRUE
      /\ pde'.configured = pde.configured /\ pde'.error = pde.error
      /\ pde'.stop = pde.stop /\ pde'.pre = pde.pre /\ pde'.post = pde.post
      /\ pde'.sent = pde.sent /\ pde'.toMove = pde.toMove /\ pde'.dropped = pde.dropped
      /\ pde'.inUser = 0 /\ pde'.size = t.size /\ pde'.cyclic = t.cyclic
  <2>1. IsPde(pde)
    BY <1>1
  <2>2. /\ pde'.acqActive = pde.acqActive /\ pde'.transferActive = TRUE
        /\ pde'.configured = pde.configured /\ pde'.cyclic = t.cyclic
    BY <1>2, <2>1, Zenon DEF IsPde, Flags, Counts, Others
  <2>3. /\ pde'.error = pde.error
        /\ pde'.stop = pde.stop /\ pde'.pre = pde.pre /\ pde'.post = pde.post
        /\ pde'.sent = pde.sent /\ pde'.toMove = pde.toMove /\ pde'.dropped = pde.dropped
        /\ pde'.inUser = 0 /\ pde'.size = t.size
    BY <1>2, <2>1, SMTT(30) DEF IsPde, Flags, Counts, Others
  <2> QED BY <2>2, <2>3
<1>5. call'.n = 0 /\ call'.at = "startTake"
  BY <1>1 DEF Calls
<1> DEFINE k == t.size
           c == t.cyclic
           w == Driver!Started(v, k, c)
<1>6. /\ IsDrv(v) /\ But({"xfer", "count", "size", "cyclic"}, v, u)
      /\ u.xfer = TRUE /\ u.count = 0 /\ u.size = k /\ u.cyclic = c
      /\ v.xfer = pde.transferActive /\ v.ok = pde.configured
  <2>1. TotalOf(pde') = TotalOf(pde)
    BY <1>4 DEF TotalOf
  <2>2. /\ IsDrv(v) /\ v.acq = pde.acqActive /\ v.xfer = pde.transferActive
        /\ v.ok = pde.configured /\ v.error = pde.error /\ v.asked = TotalOf(pde)
        /\ v.total = TotalOf(hist.armed) /\ v.taken = pde.sent + pde.toMove + pde.dropped + call.n
        /\ v.waiting = pde.toMove + call.n /\ v.count = pde.inUser
        /\ v.size = pde.size /\ v.cyclic = pde.cyclic
    BY ViewFields
  <2>3. /\ IsDrv(u) /\ u.acq = pde'.acqActive /\ u.xfer = pde'.transferActive
        /\ u.ok = pde'.configured /\ u.error = pde'.error /\ u.asked = TotalOf(pde')
        /\ u.total = TotalOf(hist'.armed) /\ u.taken = pde'.sent + pde'.toMove + pde'.dropped + call'.n
        /\ u.waiting = pde'.toMove + call'.n /\ u.count = pde'.inUser
        /\ u.size = pde'.size /\ u.cyclic = pde'.cyclic
    BY ViewFields
  <2> HIDE DEF v, u
  <2>4. /\ u.acq = v.acq /\ u.ok = v.ok /\ u.error = v.error /\ u.asked = v.asked
        /\ u.total = v.total
    BY <1>1, <1>4, <2>1, <2>2, <2>3
  <2>5. u.taken = v.taken /\ u.waiting = v.waiting
    BY <1>1, <1>4, <1>5, <2>2, <2>3
  <2>6. But({"xfer", "count", "size", "cyclic"}, v, u)
    BY <2>3, <2>4, <2>5 DEF But, Fields
  <2>7. u.xfer = TRUE /\ u.count = 0 /\ u.size = t.size /\ u.cyclic = t.cyclic
    BY <1>4, <2>3
  <2> QED BY <2>2, <2>6, <2>7
<1> HIDE DEF v, u, k, c, w
<1>7. /\ But({"xfer", "count", "size", "cyclic"}, v, w)
      /\ w.xfer = TRUE /\ w.count = 0 /\ w.size = k /\ w.cyclic = c
  <2>1. w = [v EXCEPT !.xfer = TRUE, !.count = 0, !.size = k, !.cyclic = c]
    BY DEF w, Driver!Started
  <2>2. IsDrv(v)
    BY <1>6
  <2> QED BY <2>1, <2>2 DEF IsDrv, But, Fields
<1>8. \A f \in {"xfer", "count", "size", "cyclic"} : u[f] = w[f]
  BY <1>6, <1>7
<1>9. u = w
  BY <1>6, <1>7, <1>8, SameBut
<1>10. Driver!CanStart(v) /\ u = Driver!Started(v, u.size, c)
  BY <1>1, <1>6, <1>9 DEF Driver!CanStart, w
<1>11. Driver!Start
  BY <1>3, <1>10 DEF Driver!Start, DriverView, u, v, c
<1>12. Ample(pde)'
  BY <1>1, <1>4, <1>5, StaysAmple
<1> QED BY <1>11, <1>12 DEF Simulated

(* adcSoftTrig: nothing of it is seen.                                     *)
LEMMA SoftTrigSimulated ==
  ASSUME Untouched, AdcSoftTrigScan \/ AdcSoftTrigFlag
  PROVE  Simulated /\ Ample(pde)'
<1>1. IsPde(pde) /\ scans \in Nat /\ Ample(pde) /\ call \in Calls
  BY DEF Untouched
<1>2. call.n = 0
  BY DEF Untouched, Ledger, Held, Holding, AdcSoftTrigScan, AdcSoftTrigFlag, Begins
<1>3. /\ scans' = scans /\ hist' = hist /\ call'.n = 0 /\ call'.at # "startAdvance"
  <2>1. CASE AdcSoftTrigScan
    <3>1. /\ call.at = "none" /\ scans' = scans /\ hist' = hist
          /\ call' = call \/ call' = [Idle EXCEPT !.at = "trigFlag", !.event = pde.event]
      BY <2>1 DEF AdcSoftTrigScan, Begins, OneStep
    <3> QED BY <1>2, <3>1 DEF Idle
  <2>2. CASE AdcSoftTrigFlag
    BY <2>2 DEF AdcSoftTrigFlag, Idle
  <2> QED BY <2>1, <2>2
<1>4. SUFFICES Unseen(pde, pde')
  BY <1>1, <1>2, <1>3, UnseenStep, StaysAmple DEF Unseen
<1> DEFINE d == WithArg(pde)
<1>5. IsPde(d) /\ Unseen(pde, d)
  BY <1>1, ArgUnseen
<1> HIDE DEF d
<1>6. CASE AdcSoftTrigScan
  <2>1. CASE OneStep(d)
    BY <1>5, <2>1 DEF OneStep
  <2>2. CASE ~OneStep(d)
    <3>1. PICK lag \in 0..FifoScans :
            LET r == ReadAcqScanCounter(d, lag)
            IN  pde' = [r EXCEPT
                  !.trigScan = IF r.event = "TRIGGER" THEN r.read ELSE @,
                  !.stopScan = IF r.event = "STOP" THEN r.read ELSE @]
      BY <1>6, <2>2 DEF AdcSoftTrigScan, d
    <3> DEFINE r == ReadAcqScanCounter(d, lag)
               s == IF r.event = "TRIGGER" THEN r.read ELSE r.trigScan
               t == IF r.event = "STOP" THEN r.read ELSE r.stopScan
    <3>2. lag \in Nat
      BY SizesAssumption
    <3>3. IsPde(r) /\ SameTransfer(d, r) /\ SameRequest(d, r) /\ r.error = d.error
      BY <1>1, <1>5, <3>2, ReadType, ReadFields DEF Kept
    <3>4. pde' = [r EXCEPT !.trigScan = s, !.stopScan = t]
      BY <3>1
    <3> HIDE DEF r, s, t
    <3>5. Unseen(r, pde')
      BY <3>3, <3>4, SMTT(30) DEF Unseen, IsPde, Flags, Counts, Others
    <3> QED BY <1>5, <3>3, <3>5 DEF Unseen, SameTransfer, SameRequest
  <2> QED BY <2>1, <2>2
<1>7. CASE AdcSoftTrigFlag
  <2>1. PICK e \in {call.event, pde.event} :
          pde' = [pde EXCEPT !.trigSw = @ \/ e = "TRIGGER", !.stopSw = @ \/ e = "STOP"]
    BY <1>7 DEF AdcSoftTrigFlag
  <2> QED BY <1>1, <2>1, SMTT(30) DEF Unseen, IsPde, Flags, Counts, Others
<1> QED BY <1>6, <1>7

(* adcArm after its wait.                                                  *)
LEMMA ArmSimulated ==
  ASSUME Untouched, AdcArmTimeout \/ AdcArmInitFailure \/ AdcArmDone
  PROVE  Simulated /\ Ample(pde)'
<1> DEFINE v == ViewOf(pde, call.n, hist.armed)
           u == ViewOf(pde', call'.n, hist'.armed)
           r == Rearmed(pde)
<1>1. /\ IsPde(pde) /\ scans \in Nat /\ Ample(pde) /\ call.at = "armWait"
      /\ call'.at = "none" /\ call'.n = 0 /\ scans' \in {scans, 0}
  BY DEF Untouched, AdcArmTimeout, AdcArmInitFailure, AdcArmDone, Idle
<1>2. call.n = 0 /\ pde.configured /\ ~pde.acqActive
  BY <1>1 DEF Untouched, Ledger, Held, Holding, Requested
<1>3. CASE AdcArmTimeout
  <2>1. pde' = pde /\ hist' = hist
    BY <1>3 DEF AdcArmTimeout
  <2> QED BY <1>1, <1>2, <2>1, UnseenStep, StaysAmple DEF Unseen
<1>4. /\ IsPde(r) /\ SameRequest(pde, r) /\ r.error = pde.error
      /\ r.toMove = 0 /\ r.inUser = 0 /\ r.sent = 0 /\ r.dropped = 0
      /\ r.size = pde.size /\ r.cyclic = pde.cyclic
      /\ r.transferActive = pde.transferActive
  <2> DEFINE s == pde.pre % RingScans
  <2>1. r = [pde EXCEPT !.event = "TRIGGER", !.trigCount = pde.pre, !.stopCount = pde.post,
              !.trigSw = FALSE, !.trigHw = FALSE, !.stopSw = FALSE,
              !.read = 0, !.current = 0, !.last = 0, !.lastPass = 0,
              !.toMove = 0, !.inUser = 0, !.head = 0, !.search = s,
              !.sent = 0, !.dropped = 0, !.stale = FALSE]
    BY DEF Rearmed
  <2> HIDE DEF s
  <2>2. r.transferActive = pde.transferActive
    BY <1>1, <2>1, SMTT(30) DEF IsPde, Flags, Counts, Others
  <2> QED BY <1>1, <2>2, RearmedType, RearmedFields
<1> HIDE DEF r
<1>5. /\ IsDrv(v) /\ Driver!CanArm(v) /\ v.asked = TotalOf(pde)
      /\ But({"acq", "error", "total", "taken", "waiting", "count"}, v, Driver!Armed(v))
      /\ LET w == Driver!Armed(v)
         IN  /\ w.taken = 0 /\ w.waiting = 0 /\ w.count = 0
             /\ w.acq = TRUE /\ w.error = "None" /\ w.total = v.asked
      /\ But({"taken", "waiting", "count"}, v, Driver!Cleared(v))
      /\ LET w == Driver!Cleared(v) IN w.taken = 0 /\ w.waiting = 0 /\ w.count = 0
  <2>1. /\ IsDrv(v) /\ v.asked = TotalOf(pde) /\ v.acq = pde.acqActive
        /\ v.ok = pde.configured
    BY ViewFields
  <2>2. Driver!CanArm(v)
    BY <1>2, <2>1 DEF Driver!CanArm
  <2> HIDE DEF v
  <2> QED BY <2>1, <2>2, ArmFields
<1>6. CASE AdcArmInitFailure
  <2>1. pde' = AdcDisarm(r) /\ hist' = hist
    BY <1>6 DEF AdcArmInitFailure, r
  <2>2. /\ ~pde'.acqActive /\ pde'.acqActive \in BOOLEAN /\ pde'.error = r.error
        /\ pde'.stop = r.stop /\ pde'.pre = r.pre /\ pde'.post = r.post
        /\ pde'.configured = r.configured /\ pde'.transferActive = r.transferActive
        /\ pde'.inUser = r.inUser /\ pde'.size = r.size /\ pde'.cyclic = r.cyclic
        /\ pde'.sent = r.sent /\ pde'.toMove = 0 /\ pde'.dropped = r.dropped + r.toMove
    BY <1>4, <2>1, DisarmType, DisarmFields DEF Quiet, IsPde, Flags
  <2>3. /\ pde'.acqActive = pde.acqActive /\ pde'.error = pde.error
        /\ pde'.stop = pde.stop /\ pde'.pre = pde.pre /\ pde'.post = pde.post
        /\ pde'.configured = pde.configured /\ pde'.transferActive = pde.transferActive
        /\ pde'.inUser = 0 /\ pde'.size = pde.size /\ pde'.cyclic = pde.cyclic
        /\ pde'.sent = 0 /\ pde'.toMove = 0 /\ pde'.dropped = 0
    BY <1>1, <1>2, <1>4, <2>2 DEF SameRequest, IsPde, Flags
  <2> DEFINE w == Driver!Cleared(v)
  <2>4. /\ But({"taken", "waiting", "count"}, v, u)
        /\ u.taken = 0 /\ u.waiting = 0 /\ u.count = 0
    BY <1>1, <2>1, <2>3, ViewFields DEF But, Fields, TotalOf
  <2> HIDE DEF u, w
  <2>5. \A f \in {"taken", "waiting", "count"} : u[f] = w[f]
    BY <1>5, <2>4 DEF w
  <2>6. u = w
    BY <1>5, <2>4, <2>5, SameBut DEF w
  <2>7. Driver!Arm
    BY <1>5, <2>6 DEF Driver!Arm, DriverView, u, v, w
  <2> QED BY <1>1, <2>3, <2>7, StaysAmple DEF Simulated
<1>7. CASE AdcArmDone
  <2> DEFINE p == IF pde.source = "Hardware" THEN "waiting" ELSE "on"
  <2>1. /\ pde' = [r EXCEPT !.pacer = p, !.dma = TRUE, !.acqActive = TRUE, !.error = "None",
                            !.running = TRUE, !.die = FALSE]
        /\ hist'.armed = [source |-> pde.source, stop |-> pde.stop,
                          pre |-> pde.pre, post |-> pde.post]
    BY <1>7 DEF AdcArmDone, Untouched, r
  <2> HIDE DEF p
  <2>2. /\ pde'.acqActive = TRUE /\ pde'.error = "None"
        /\ pde'.stop = r.stop /\ pde'.pre = r.pre /\ pde'.post = r.post
        /\ pde'.configured = r.configured /\ pde'.transferActive = r.transferActive
        /\ pde'.inUser = r.inUser /\ pde'.size = r.size /\ pde'.cyclic = r.cyclic
        /\ pde'.sent = r.sent /\ pde'.toMove = r.toMove /\ pde'.dropped = r.dropped
    BY <1>4, <2>1, SMTT(30) DEF IsPde, Flags, Counts, Others
  <2>3. /\ pde'.stop = pde.stop /\ pde'.pre = pde.pre /\ pde'.post = pde.post
        /\ pde'.configured = pde.configured /\ pde'.transferActive = pde.transferActive
        /\ pde'.inUser = 0 /\ pde'.size = pde.size /\ pde'.cyclic = pde.cyclic
        /\ pde'.sent = 0 /\ pde'.toMove = 0 /\ pde'.dropped = 0
    BY <1>4, <2>2 DEF SameRequest
  <2>4. TotalOf(hist'.armed) = TotalOf(pde) /\ TotalOf(pde') = TotalOf(pde)
    BY <2>1, <2>3 DEF TotalOf
  <2> DEFINE w == Driver!Armed(v)
             X == {"acq", "error", "total", "taken", "waiting", "count"}
  <2>5. /\ But(X, v, u) /\ u.taken = 0 /\ u.waiting = 0 /\ u.count = 0
        /\ u.acq = TRUE /\ u.error = "None" /\ u.total = v.asked
    BY <1>1, <1>5, <2>2, <2>3, <2>4, ViewFields DEF But, Fields
  <2> HIDE DEF u, w
  <2>6. \A f \in X : u[f] = w[f]
    BY <1>5, <2>5 DEF w
  <2>7. u = w
    BY <1>5, <2>5, <2>6, SameBut DEF w
  <2>8. Driver!Arm
    BY <1>5, <2>7 DEF Driver!Arm, DriverView, u, v, w
  <2> QED BY <1>1, <2>3, <2>8, StaysAmple DEF Simulated
<1> QED BY <1>3, <1>6, <1>7

(* adcStart after its beginning: scans go from the ring into its hands and *)
(* from there to the buffer, and nothing is seen of it before they do.     *)
Lifted(d, e) ==
  /\ e.acqActive = d.acqActive /\ e.transferActive = d.transferActive
  /\ e.configured = d.configured /\ e.error = d.error
  /\ e.stop = d.stop /\ e.pre = d.pre /\ e.post = d.post
  /\ e.sent = d.sent /\ e.dropped = d.dropped
  /\ e.inUser = d.inUser /\ e.size = d.size /\ e.cyclic = d.cyclic

LEMMA LiftedStep ==
  ASSUME IsPde(pde), IsPde(pde'), call.n \in Int, call'.n \in Int, Lifted(pde, pde'),
         pde'.toMove + call'.n = pde.toMove + call.n, hist'.armed = hist.armed
  PROVE  Simulated
<1> DEFINE v == ViewOf(pde, call.n, hist.armed)
           u == ViewOf(pde', call'.n, hist'.armed)
<1>1. pde'.sent + pde'.toMove + pde'.dropped + call'.n
        = pde.sent + pde.toMove + pde.dropped + call.n
  BY DEF Lifted, IsPde, Counts
<1>2. IsDrv(v) /\ But({}, v, u)
  BY <1>1, ViewFields DEF Lifted, But, Fields, TotalOf
<1> HIDE DEF v, u
<1>3. u = v
  BY <1>2, SameDrv
<1> QED BY <1>3 DEF Simulated, DriverView, v, u

LEMMA StartCopySimulated ==
  ASSUME Untouched, AdcStartTake \/ AdcStartCopy, IsPde(pde')
  PROVE  Simulated /\ Ample(pde)'
<1>1. /\ IsPde(pde) /\ scans \in Nat /\ call \in Calls /\ Ample(pde)
      /\ scans' = scans /\ hist' = hist
      /\ pde.toMove \in Int /\ pde.inUser \in Int /\ pde.size \in Int /\ call.n \in Int
  BY DEF Untouched, AdcStartTake, AdcStartCopy, IsPde, Counts, Calls
<1>2. CASE AdcStartTake
  <2>1. call.at = "startTake" /\ call.n = 0
    BY <1>2 DEF Untouched, Ledger, Held, Holding, AdcStartTake
  <2>2. CASE pde.toMove = 0
    <3>1. pde' = pde /\ call'.n = 0 /\ call'.at = "none"
      BY <1>2, <2>2 DEF AdcStartTake, Idle
    <3> QED BY <1>1, <2>1, <3>1, UnseenStep, StaysAmple DEF Unseen
  <2>3. CASE pde.toMove # 0
    <3>1. /\ pde' = [pde EXCEPT !.toMove = 0]
          /\ call' = [call EXCEPT !.at = "startCopy", !.n = pde.toMove]
      BY <1>2, <2>3 DEF AdcStartTake
    <3>2. call'.at = "startCopy" /\ call'.n = pde.toMove
      BY <1>1, <3>1 DEF Calls
    <3>3. Lifted(pde, pde') /\ pde'.toMove = 0
      BY <1>1, <3>1, SMTT(30) DEF Lifted, IsPde, Flags, Counts, Others
    <3>4. pde'.toMove + call'.n = pde.toMove + call.n
      BY <1>1, <2>1, <3>2, <3>3
    <3>5. pde'.pre = pde.pre /\ pde'.post = pde.post
      BY <3>3 DEF Lifted
    <3> QED BY <1>1, <3>2, <3>3, <3>4, <3>5, LiftedStep, StaysAmple
  <2> QED BY <2>2, <2>3
<1>3. CASE AdcStartCopy
  <2> DEFINE n == call.n
             m == Room(pde, n)
  <2>1. /\ call.at = "startCopy" /\ n \in Nat
        /\ pde.transferActive => pde.toMove = 0 /\ pde.userOpen
        /\ ~pde.cyclic => pde.inUser <= pde.size
    BY <1>1, <1>3 DEF Untouched, Ledger, Held, Holding, AdcStartCopy
  <2>2. /\ m \in Int /\ m >= 0
        /\ Fills(pde, n) => n - m > 0
        /\ ~Fills(pde, n) => m = n
    BY <1>1, <2>1 DEF Room, Fills
  <2>3. CASE ~pde.transferActive
    <3>1. /\ pde' = [pde EXCEPT !.toMove = pde.toMove + n]
          /\ call' = [call EXCEPT !.at = "startEnd", !.n = 0]
      BY <1>3, <2>3 DEF AdcStartCopy
    <3>2. call'.at = "startEnd" /\ call'.n = 0
      BY <1>1, <3>1 DEF Calls
    <3>3. Lifted(pde, pde') /\ pde'.toMove = pde.toMove + n
      BY <1>1, <3>1, SMTT(30) DEF Lifted, IsPde, Flags, Counts, Others
    <3>4. pde'.toMove + call'.n = pde.toMove + call.n
      BY <1>1, <3>2, <3>3
    <3>5. pde'.pre = pde.pre /\ pde'.post = pde.post
      BY <3>3 DEF Lifted
    <3> QED BY <1>1, <3>2, <3>3, <3>4, <3>5, LiftedStep, StaysAmple
  <2>4. CASE pde.transferActive
    <3> DEFINE kept == IF Fills(pde, n) THEN [pde EXCEPT !.toMove = n - m] ELSE pde
    <3>1. /\ pde' = MemCopy(kept, m)
          /\ call' = [call EXCEPT !.at = "startAdvance", !.n = m, !.full = Fills(pde, n)]
      BY <1>3, <2>1, <2>2, <2>4 DEF AdcStartCopy, OutOfBounds
    <3> HIDE DEF n, m
    <3>2. call'.n = m /\ (call'.full <=> Fills(pde, n))
      BY <1>1, <3>1 DEF Calls
    <3>3. /\ IsPde(kept) /\ Lifted(pde, kept)
          /\ kept.toMove = (IF Fills(pde, n) THEN n - m ELSE 0)
      <4>1. n - m \in Int
        BY <2>1, <2>2
      <4>2. CASE Fills(pde, n)
        <5> DEFINE j == n - m
        <5>1. kept = [pde EXCEPT !.toMove = j]
          BY <4>2
        <5> HIDE DEF j, kept
        <5>2. j \in Int
          BY <4>1 DEF j
        <5>3. IsPde(kept) /\ Lifted(pde, kept) /\ kept.toMove = j
          BY <1>1, <5>1, <5>2, SMTT(30) DEF Lifted, IsPde, Flags, Counts, Others
        <5> QED BY <4>2, <5>3 DEF j
      <4>3. CASE ~Fills(pde, n)
        <5>1. kept = pde /\ pde.toMove = 0
          BY <2>1, <2>4, <4>3
        <5> HIDE DEF kept
        <5> QED BY <1>1, <4>3, <5>1 DEF Lifted
      <4> QED BY <4>2, <4>3
    <3> HIDE DEF kept
    <3>4. /\ SameRequest(kept, pde') /\ SameTransfer(kept, pde') /\ pde'.error = kept.error
      BY <1>1, <2>2, <3>1, <3>3, MemCopyFields, MemCopyType DEF Kept
    <3>5. Lifted(pde, pde') /\ pde'.toMove = (IF Fills(pde, n) THEN n - m ELSE 0)
      BY <3>3, <3>4 DEF Lifted, SameRequest, SameTransfer
    <3>6. pde'.toMove + call'.n = pde.toMove + call.n
      BY <1>1, <2>1, <2>2, <2>4, <3>2, <3>5 DEF n
    <3>7. Simulated
      BY <1>1, <2>2, <3>2, <3>5, <3>6, LiftedStep
    <3>8. Ample(pde)'
      BY <1>1, <2>2, <3>2, <3>5 DEF Ample, Asked, LeftOver, Lifted
    <3> QED BY <3>7, <3>8
  <2> QED BY <2>3, <2>4
<1> QED BY <1>2, <1>3

LEMMA StartEndSimulated ==
  ASSUME Untouched, AdcStartAdvance \/ AdcStartEnd
  PROVE  Simulated /\ Ample(pde)'
<1> DEFINE v == ViewOf(pde, call.n, hist.armed)
           u == ViewOf(pde', call'.n, hist'.armed)
<1>1. /\ IsPde(pde) /\ scans \in Nat /\ call \in Calls /\ Ample(pde)
      /\ scans' = scans /\ hist' = hist
      /\ pde.toMove \in Int /\ pde.inUser \in Int /\ pde.size \in Int /\ call.n \in Int
      /\ pde.sent \in Int /\ pde.dropped \in Int
  BY DEF Untouched, AdcStartAdvance, AdcStartEnd, IsPde, Counts, Calls
<1>2. CASE AdcStartAdvance
  <2> DEFINE d == Advance(pde, call.n)
  <2>1. /\ pde' = (IF call.full THEN AdcStop(d) ELSE d) /\ call.at = "startAdvance"
        /\ call' = [call EXCEPT !.at = "startEnd", !.n = 0]
    <3>1. call.at = "startAdvance" /\ call.n \in Int /\ call.n >= 0 /\ pde.userOpen
      BY <1>1, <1>2 DEF Untouched, Ledger, Held, AdcStartAdvance
    <3> QED BY <1>2, <3>1 DEF AdcStartAdvance, OutOfBounds
  <2>2. call'.at = "startEnd" /\ call'.n = 0
    BY <1>1, <2>1 DEF Calls
  <2>3. /\ IsPde(d) /\ SameRequest(pde, d) /\ d.error = pde.error
        /\ d.transferActive = pde.transferActive /\ d.toMove = pde.toMove
        /\ d.size = pde.size /\ d.cyclic = pde.cyclic /\ d.dropped = pde.dropped
        /\ d.inUser = pde.inUser + call.n /\ d.sent = pde.sent + call.n
    <3>1. IsPde(pde) /\ call.n \in Int
      BY <1>1
    <3>2. IsPde(d) /\ d.error = pde.error
      BY <3>1, AdvanceType DEF Kept
    <3>3. /\ SameRequest(pde, d) /\ d.transferActive = pde.transferActive
          /\ d.toMove = pde.toMove /\ d.size = pde.size /\ d.cyclic = pde.cyclic
          /\ d.dropped = pde.dropped
          /\ d.inUser = pde.inUser + call.n /\ d.sent = pde.sent + call.n
      BY <3>1, AdvanceFields
    <3> QED BY <3>2, <3>3
  <2> HIDE DEF d
  <2>4. /\ SameRequest(d, pde') /\ pde'.error = d.error /\ pde'.toMove = d.toMove
        /\ pde'.size = d.size /\ pde'.cyclic = d.cyclic /\ pde'.dropped = d.dropped
        /\ pde'.inUser = d.inUser /\ pde'.sent = d.sent
        /\ pde'.transferActive = (IF call.full THEN FALSE ELSE d.transferActive)
    <3>1. AdcStop(d).transferActive = FALSE
      BY <2>3 DEF AdcStop, IsPde, Flags
    <3> QED BY <2>1, <2>3, <3>1, StopType, StopFields DEF SameRequest, Kept
  <2>5. /\ pde'.acqActive = pde.acqActive /\ pde'.configured = pde.configured
        /\ pde'.stop = pde.stop /\ pde'.pre = pde.pre /\ pde'.post = pde.post
        /\ pde'.error = pde.error /\ pde'.toMove = pde.toMove
        /\ pde'.size = pde.size /\ pde'.cyclic = pde.cyclic /\ pde'.dropped = pde.dropped
        /\ pde'.inUser = pde.inUser + call.n /\ pde'.sent = pde.sent + call.n
        /\ pde'.transferActive = (IF call.full THEN FALSE ELSE pde.transferActive)
    BY <2>3, <2>4 DEF SameRequest
  <2>6. /\ pde.transferActive /\ (~pde.cyclic => pde.inUser + call.n <= pde.size)
        /\ call.full => ~pde.cyclic /\ pde.inUser + call.n = pde.size /\ pde.toMove > 0
        /\ ~call.full => pde.toMove = 0
    BY <1>1, <2>1 DEF Untouched, Ledger, Held, Ample, LeftOver
  <2> DEFINE z == [v EXCEPT !.waiting = 0]
             w == Driver!Handed(z, v.waiting)
             X == {"xfer", "waiting", "count"}
  <2>7. /\ IsDrv(v) /\ v.xfer = pde.transferActive /\ v.waiting = pde.toMove + call.n
        /\ v.count = pde.inUser /\ v.size = pde.size /\ v.cyclic = pde.cyclic
    BY ViewFields
  <2>8. /\ But(X, v, u) /\ u.xfer = (IF call.full THEN FALSE ELSE v.xfer)
        /\ u.waiting = pde.toMove /\ u.count = pde.inUser + call.n
    <3>1. pde'.sent + pde'.toMove + pde'.dropped + call'.n
            = pde.sent + pde.toMove + pde.dropped + call.n
      BY <1>1, <2>2, <2>5
    <3>2. pde'.toMove + call'.n = pde.toMove
      BY <1>1, <2>2, <2>5
    <3>3. /\ IsDrv(u) /\ u.acq = pde'.acqActive /\ u.ok = pde'.configured
          /\ u.error = pde'.error /\ u.asked = TotalOf(pde') /\ u.total = TotalOf(hist'.armed)
          /\ u.taken = pde'.sent + pde'.toMove + pde'.dropped + call'.n
          /\ u.size = pde'.size /\ u.cyclic = pde'.cyclic
          /\ u.xfer = pde'.transferActive /\ u.waiting = pde'.toMove + call'.n
          /\ u.count = pde'.inUser
      BY ViewFields
    <3>4. TotalOf(pde') = TotalOf(pde)
      BY <2>5 DEF TotalOf
    <3> HIDE DEF u
    <3>5. /\ IsDrv(u) /\ u.acq = pde.acqActive /\ u.ok = pde.configured
          /\ u.error = pde.error /\ u.asked = TotalOf(pde) /\ u.total = TotalOf(hist.armed)
          /\ u.taken = pde.sent + pde.toMove + pde.dropped + call.n
          /\ u.size = pde.size /\ u.cyclic = pde.cyclic
          /\ u.xfer = pde'.transferActive /\ u.waiting = pde.toMove
          /\ u.count = pde.inUser + call.n
      BY <1>1, <2>5, <3>1, <3>2, <3>3, <3>4
    <3>6. /\ v.acq = pde.acqActive /\ v.ok = pde.configured
          /\ v.error = pde.error /\ v.asked = TotalOf(pde) /\ v.total = TotalOf(hist.armed)
          /\ v.taken = pde.sent + pde.toMove + pde.dropped + call.n
          /\ v.size = pde.size /\ v.cyclic = pde.cyclic
      BY ViewFields
    <3> HIDE DEF v, u
    <3>7. But(X, v, u)
      BY <3>5, <3>6 DEF But, Fields
    <3> QED BY <2>5, <2>7, <3>5, <3>7
  <2> HIDE DEF v, u
  <2>9. But({"waiting"}, v, z) /\ z.waiting = 0
    BY <2>7 DEF IsDrv, But, Fields
  <2>10. /\ IsDrv(z) /\ z.xfer = v.xfer /\ z.count = v.count /\ z.size = v.size
         /\ z.cyclic = v.cyclic
    BY <2>9 DEF But, Fields
  <2> DEFINE k == v.waiting
             full == ~z.cyclic /\ z.count + k > z.size
  <2> HIDE DEF z, k
  <2>11. /\ But(X, z, w)
         /\ z.xfer /\ full => /\ w.waiting = z.waiting + k - (z.size - z.count)
                              /\ w.count = z.size /\ w.xfer = FALSE
         /\ z.xfer /\ ~full => /\ w.waiting = z.waiting
                               /\ w.count = z.count + k /\ w.xfer = z.xfer
    BY <2>10, HandedFields DEF k
  <2>12. full <=> call.full
    BY <1>1, <2>6, <2>7, <2>10 DEF k
  <2> HIDE DEF w, full
  <2>13. /\ But(X, v, w)
    BY <2>9, <2>11 DEF But, Fields
  <2>14. /\ u.xfer = w.xfer /\ u.waiting = w.waiting /\ u.count = w.count
    <3>1. z.xfer /\ k = pde.toMove + call.n /\ z.waiting = 0
      BY <2>6, <2>7, <2>9, <2>10 DEF k
    <3>2. CASE call.full
      <4>1. /\ w.waiting = 0 + k - (pde.size - pde.inUser)
            /\ w.count = pde.size /\ w.xfer = FALSE
        BY <2>7, <2>10, <2>11, <2>12, <3>1, <3>2
      <4>2. u.xfer = FALSE /\ pde.inUser + call.n = pde.size
        BY <2>6, <2>8, <3>2
      <4>3. u.waiting = w.waiting /\ u.count = w.count
        BY <1>1, <2>8, <3>1, <4>1, <4>2
      <4> QED BY <4>1, <4>2, <4>3
    <3>3. CASE ~call.full
      <4>1. w.waiting = 0 /\ w.count = pde.inUser + k /\ w.xfer = v.xfer
        BY <2>7, <2>10, <2>11, <2>12, <3>1, <3>3
      <4>2. u.xfer = v.xfer /\ pde.toMove = 0
        BY <2>6, <2>8, <3>3
      <4>3. u.waiting = w.waiting /\ u.count = w.count
        BY <1>1, <2>8, <3>1, <4>1, <4>2
      <4> QED BY <4>1, <4>2, <4>3
    <3> QED BY <3>2, <3>3
  <2>15. u = w
    BY <2>8, <2>13, <2>14, SameBut
  <2>16. Driver!Backlog
    BY <2>15 DEF Driver!Backlog, DriverView, u, v, w, z, k
  <2> QED BY <1>1, <2>2, <2>5, <2>16, StaysAmple DEF Simulated
<1>3. CASE AdcStartEnd
  <2>1. /\ call.at = "startEnd" /\ call.n = 0 /\ call'.n = 0 /\ call'.at = "none"
    BY <1>3 DEF Untouched, Ledger, Held, Holding, AdcStartEnd, Idle
  <2>2. CASE pde.acqActive
    <3>1. pde' = pde
      BY <1>3, <2>2 DEF AdcStartEnd
    <3> QED BY <1>1, <2>1, <3>1, UnseenStep, StaysAmple DEF Unseen
  <2>3. CASE ~pde.acqActive
    <3>1. pde' = AdcStop(pde)
      BY <1>3, <2>3 DEF AdcStartEnd
    <3>2. pde'.pre = pde.pre /\ pde'.post = pde.post
      BY <1>1, <3>1, StopFields DEF SameRequest
    <3>3. u = Driver!Stopped(v) /\ v.acq = pde.acqActive
      BY <1>1, <2>1, <3>1, StopView, ViewFields
    <3>4. Driver!NoBacklog
      BY <2>3, <3>3 DEF Driver!NoBacklog, DriverView
    <3> QED BY <1>1, <2>1, <3>2, <3>4, StaysAmple DEF Simulated
  <2> QED BY <2>2, <2>3
<1> QED BY <1>2, <1>3

(* The board, and a program whose copies are undefined: nothing is seen.   *)
LEMMA BoardSimulated ==
  ASSUME Untouched, Board \/ UNCHANGED vars
  PROVE  Simulated /\ Ample(pde)'
<1>1. IsPde(pde) /\ scans \in Nat /\ Ample(pde)
  BY DEF Untouched
<1>2. /\ call' = call /\ hist' = hist /\ (scans' = scans \/ (scans' = scans + 1 /\ scans < MaxScans))
      /\ pde' = pde \/ pde' = [pde EXCEPT !.pacer = "on"]
  <2>1. CASE Board
    BY <2>1 DEF Board, BoardScan, BoardTrigger, BoardFault
  <2>2. CASE UNCHANGED vars
    BY <2>2 DEF vars
  <2> QED BY <2>1, <2>2
<1>3. Unseen(pde, pde')
  BY <1>1, <1>2, SMTT(30) DEF Unseen, IsPde, Flags, Counts, Others
<1>4. Ample(pde)'
  BY <1>1, <1>2, <1>3, SizesAssumption DEF Ample, Asked, LeftOver, Unseen
<1> QED BY <1>2, <1>3, <1>4, UnseenStep
-----------------------------------------------------------------------------
(* The scans owed so far: while the acquisition is active fewer than were  *)
(* asked for, at its end as many, and never more than have been taken.     *)
LEMMA OwedAndAsked ==
  ASSUME NEW e, IsPde(e), Ledger(e), call \in Calls, scans \in Nat, e.current <= scans,
         hist.armed \in [source: Sources, stop: StopSources, pre: Nat, post: Nat],
         e.acqActive \/ e.event = "POSTSTOP"
  PROVE  LET t     == e.sent + e.toMove + e.dropped + call.n
             total == TotalOf(hist.armed)
         IN  /\ t <= scans + 1
             /\ e.acqActive => total = 0 \/ t < total
             /\ ~e.acqActive => total = 0 \/ total = t
<1> DEFINE t     == e.sent + e.toMove + e.dropped + call.n
           total == TotalOf(hist.armed)
<1> SUFFICES /\ t <= scans + 1
             /\ e.acqActive => total = 0 \/ t < total
             /\ ~e.acqActive => total = 0 \/ total = t
  OBVIOUS
<1>1. /\ e.sent \in Int /\ e.toMove \in Int /\ e.dropped \in Int /\ call.n \in Int
      /\ e.first \in Int /\ e.current \in Int /\ e.trigScan \in Int
      /\ e.pre \in Nat /\ e.post \in Nat /\ e.event \in Events
  BY DEF IsPde, Counts, Calls
<1>2. /\ t \in Int /\ hist.armed.pre \in Nat /\ hist.armed.post \in Nat
      /\ total = IF hist.armed.stop = "ScanCount" THEN hist.armed.pre + hist.armed.post ELSE 0
  BY <1>1 DEF TotalOf
<1>3. CASE e.event = "TRIGGER"
  <2>1. e.sent = 0 /\ e.toMove = 0 /\ e.dropped = 0 /\ call.n = 0 /\ e.acqActive
    BY <1>3 DEF Ledger, Held
  <2>2. hist.armed \in Configs
    BY <2>1 DEF Ledger, Requested
  <2>3. hist.armed.stop = "ScanCount" => hist.armed.post > 0
    BY <1>2, <2>2, RequestsAssumption
  <2> QED BY <1>2, <2>1, <2>3
<1>4. ASSUME e.event # "TRIGGER" PROVE t <= scans + 1 /\ e.first + t = e.current + 1
  <2>1. /\ e.first + e.sent + e.toMove + e.dropped + call.n = e.current + 1
        /\ e.first >= 0
    BY <1>1, <1>4 DEF Ledger, Owed, Events
  <2> QED BY <1>1, <2>1
<1>5. CASE e.event = "STOP"
  <2>1. /\ e.acqActive /\ hist.armed = Request(e) /\ e.first = e.trigScan - e.pre
        /\ e.stop = "ScanCount" => e.trigScan - 1 + e.post > e.current
    BY <1>5 DEF Ledger, Requested, Triggered
  <2>2. hist.armed.stop = e.stop /\ hist.armed.pre = e.pre /\ hist.armed.post = e.post
    BY <2>1 DEF Request
  <2> HIDE DEF t, total
  <2> QED BY <1>1, <1>2, <1>4, <1>5, <2>1, <2>2
<1>6. CASE e.event = "POSTSTOP"
  <2>1. /\ ~e.acqActive
        /\ hist.armed.stop = "ScanCount" =>
             e.current + 1 = e.first + hist.armed.pre + hist.armed.post
    BY <1>6 DEF Ledger, Requested, Ended
  <2> HIDE DEF t, total
  <2> QED BY <1>1, <1>2, <1>4, <1>6, <2>1
<1> QED BY <1>1, <1>3, <1>5, <1>6 DEF Events

(* New scans are a callback of AdcDriver.                                  *)
LEMMA MovedIsCallback ==
  ASSUME Untouched, Running, IsPde(pde'), Ledger(pde'), call' = call,
         hist'.armed = hist.armed, NEW n \in Nat, NEW g, IsPde(g), Unseen(pde, g),
         g.current <= scans, Moved(g, pde', n)
  PROVE  Driver!Callback
<1> DEFINE v == ViewOf(pde, call.n, hist.armed)
           u == ViewOf(pde', call'.n, hist'.armed)
           z == [v EXCEPT !.taken = v.taken + n]
           w == Driver!Handed(z, n)
           full == ~pde.cyclic /\ pde.inUser + n > pde.size
           X == {"acq", "xfer", "waiting", "count", "taken"}
<1>1. /\ pde.toMove \in Int /\ pde.inUser \in Int /\ pde.size \in Int /\ call.n \in Int
      /\ pde.sent \in Int /\ pde.dropped \in Int /\ g.current \in Int /\ scans \in Nat
      /\ pde'.toMove \in Int /\ pde'.sent \in Int /\ pde'.current \in Int
      /\ call \in Calls /\ scans <= MaxScans
      /\ hist.armed \in [source: Sources, stop: StopSources, pre: Nat, post: Nat]
  BY DEF Untouched, Ample, IsPde, Counts, Calls
<1>2. Fills(g, n) <=> full
  BY DEF Unseen, Fills
<1>3. pde.acqActive = TRUE
  BY RunningFacts DEF Running, IsPde, Flags
<1> HIDE DEF full
<1>4. /\ pde'.configured = pde.configured /\ pde'.error = pde.error
      /\ pde'.dropped = pde.dropped
      /\ pde'.stop = pde.stop /\ pde'.pre = pde.pre /\ pde'.post = pde.post
      /\ pde'.size = pde.size /\ pde'.cyclic = pde.cyclic
      /\ pde'.sent + pde'.toMove = pde.sent + pde.toMove + n
  BY DEF Unseen, Moved
<1>5. /\ ~pde.transferActive => pde'.toMove = pde.toMove + n /\ pde'.inUser = pde.inUser
      /\ pde.transferActive /\ full =>
           pde'.toMove = pde.toMove + n - (pde.size - pde.inUser) /\ pde'.inUser = pde.size
      /\ pde.transferActive /\ ~full =>
           pde'.toMove = pde.toMove /\ pde'.inUser = pde.inUser + n
      /\ pde'.acqActive => (pde'.transferActive <=> pde.transferActive /\ ~full)
      /\ ~pde'.acqActive => ~pde'.transferActive /\ pde'.event = "POSTSTOP"
  BY <1>2 DEF Unseen, Moved
<1>6. pde'.current <= scans
  BY <1>1 DEF Moved
<1>7. /\ IsDrv(v) /\ v.acq = TRUE /\ v.ok = pde.configured /\ v.error = pde.error
      /\ v.asked = TotalOf(pde) /\ v.total = TotalOf(hist.armed)
      /\ v.taken = pde.sent + pde.toMove + pde.dropped + call.n
      /\ v.waiting = pde.toMove + call.n /\ v.count = pde.inUser /\ v.size = pde.size
      /\ v.cyclic = pde.cyclic /\ v.xfer = pde.transferActive
  BY <1>3, ViewFields
<1>8. /\ IsDrv(u) /\ u.acq = pde'.acqActive /\ u.ok = pde'.configured
      /\ u.error = pde'.error /\ u.asked = TotalOf(pde') /\ u.total = TotalOf(hist'.armed)
      /\ u.taken = pde'.sent + pde'.toMove + pde'.dropped + call'.n
      /\ u.size = pde'.size /\ u.cyclic = pde'.cyclic
      /\ u.xfer = pde'.transferActive /\ u.waiting = pde'.toMove + call'.n
      /\ u.count = pde'.inUser
  BY ViewFields
<1>9. TotalOf(pde') = TotalOf(pde)
  BY <1>4 DEF TotalOf
<1> HIDE DEF v, u
<1>10. But(X, v, u) /\ u.total = v.total /\ u.taken = v.taken + n
  <2>1. u.taken = v.taken + n
    BY <1>1, <1>4, <1>7, <1>8
  <2> QED BY <1>4, <1>7, <1>8, <1>9, <2>1 DEF But, Fields
<1>11. But({"taken"}, v, z) /\ z.taken = v.taken + n
  BY <1>7 DEF IsDrv, But, Fields
<1>12. IsDrv(z) /\ z.xfer = v.xfer /\ z.count = v.count /\ z.size = v.size
       /\ z.cyclic = v.cyclic /\ z.waiting = v.waiting /\ z.acq = v.acq
  BY <1>11 DEF But, Fields
<1> HIDE DEF z
<1> DEFINE zfull == ~z.cyclic /\ z.count + n > z.size
<1>13. /\ But({"xfer", "waiting", "count"}, z, w)
       /\ ~z.xfer => w.waiting = z.waiting + n /\ w.count = z.count /\ w.xfer = z.xfer
       /\ z.xfer /\ zfull => /\ w.waiting = z.waiting + n - (z.size - z.count)
                             /\ w.count = z.size /\ w.xfer = FALSE
       /\ z.xfer /\ ~zfull => /\ w.waiting = z.waiting
                              /\ w.count = z.count + n /\ w.xfer = z.xfer
  BY <1>12, HandedFields
<1>14. zfull <=> full
  BY <1>7, <1>12 DEF full
<1> HIDE DEF w, zfull
<1>15. But(X, v, w) /\ w.taken = u.taken /\ w.acq = TRUE
  BY <1>7, <1>10, <1>11, <1>12, <1>13 DEF But, Fields
<1>16. u.waiting = w.waiting /\ u.count = w.count
  <2>1. z.waiting = pde.toMove + call.n /\ z.count = pde.inUser /\ z.size = pde.size
        /\ (z.xfer <=> pde.transferActive)
    BY <1>7, <1>12
  <2>2. CASE ~pde.transferActive
    <3>1. w.waiting = z.waiting + n /\ w.count = z.count
      BY <1>13, <2>1, <2>2
    <3>2. u.waiting = pde.toMove + n + call.n /\ u.count = pde.inUser
      BY <1>5, <1>8, <2>2
    <3> QED BY <1>1, <2>1, <3>1, <3>2
  <2>3. CASE pde.transferActive /\ full
    <3>1. w.waiting = z.waiting + n - (z.size - z.count) /\ w.count = z.size
      BY <1>13, <1>14, <2>1, <2>3
    <3>2. /\ u.waiting = pde.toMove + n - (pde.size - pde.inUser) + call.n
          /\ u.count = pde.size
      BY <1>5, <1>8, <2>3
    <3> QED BY <1>1, <2>1, <3>1, <3>2
  <2>4. CASE pde.transferActive /\ ~full
    <3>1. w.waiting = z.waiting /\ w.count = z.count + n
      BY <1>13, <1>14, <2>1, <2>4
    <3>2. u.waiting = pde.toMove + call.n /\ u.count = pde.inUser + n
      BY <1>5, <1>8, <2>4
    <3> QED BY <1>1, <2>1, <3>1, <3>2
  <2> QED BY <2>2, <2>3, <2>4
<1>17. w.xfer \in BOOLEAN /\ (w.xfer <=> pde.transferActive /\ ~full)
  <2>1. pde.transferActive \in BOOLEAN
    BY DEF Untouched, IsPde, Flags
  <2> QED BY <1>7, <1>12, <1>13, <1>14, <2>1
<1>18. /\ u.taken <= scans + 1
       /\ pde'.acqActive => v.total = 0 \/ u.taken < v.total
       /\ ~pde'.acqActive => v.total = 0 \/ v.total = u.taken
  <2> DEFINE t == pde'.sent + pde'.toMove + pde'.dropped + call.n
  <2>1. t <= scans + 1 /\ (pde'.acqActive => TotalOf(hist.armed) = 0 \/ t < TotalOf(hist.armed))
        /\ (~pde'.acqActive => TotalOf(hist.armed) = 0 \/ TotalOf(hist.armed) = t)
    BY <1>1, <1>5, <1>6, OwedAndAsked
  <2> HIDE DEF t
  <2>2. u.taken = t /\ v.total = TotalOf(hist.armed)
    BY <1>7, <1>8 DEF t
  <2> QED BY <2>1, <2>2
<1>19. n \in 0..(MaxScans + 1)
  <2>1. v.taken \in Int /\ v.taken >= 0
    BY <1>1, <1>7 DEF Untouched, Ledger, Held
  <2> QED BY <1>1, <1>10, <1>18, <2>1, SizesAssumption
<1>20. pde'.acqActive \in BOOLEAN /\ pde'.transferActive \in BOOLEAN
  BY DEF IsPde, Flags
<1>21. w = Driver!Took(v, n)
  BY DEF w, z, Driver!Took
<1>22. CASE pde'.acqActive
  <2>1. u.acq = w.acq /\ u.xfer = w.xfer
    BY <1>5, <1>8, <1>15, <1>17, <1>20, <1>22
  <2>2. \A f \in X : u[f] = w[f]
    BY <1>15, <1>16, <2>1
  <2>3. u = w
    BY <1>10, <1>15, <2>2, SameBut
  <2>4. v.total = 0 \/ v.taken + n < v.total
    BY <1>10, <1>18, <1>22
  <2>5. u = Driver!Took(v, n)
    BY <1>21, <2>3
  <2> QED BY <1>7, <1>19, <2>4, <2>5 DEF Driver!Callback, DriverView, u, v
<1>23. CASE ~pde'.acqActive
  <2> DEFINE y == Driver!Ended(w)
  <2>1. IsDrv(w)
    BY <1>15 DEF But
  <2>2. But({"acq", "xfer"}, w, y) /\ y.acq = FALSE /\ y.xfer = FALSE
    BY <2>1, EndedFields
  <2> HIDE DEF y
  <2>3. /\ But(X, v, y) /\ y.waiting = w.waiting /\ y.count = w.count /\ y.taken = w.taken
    BY <1>15, <2>2 DEF But, Fields
  <2>4. u.acq = FALSE /\ u.xfer = FALSE
    BY <1>5, <1>8, <1>20, <1>23
  <2>5. \A f \in X : u[f] = y[f]
    BY <1>15, <1>16, <2>2, <2>3, <2>4
  <2>6. u = y
    BY <1>10, <2>3, <2>5, SameBut
  <2>7. v.total \in {0, v.taken + n}
    BY <1>10, <1>18, <1>23
  <2>8. u = Driver!Ended(Driver!Took(v, n))
    BY <1>21, <2>6 DEF y
  <2> QED BY <1>7, <1>19, <2>7, <2>8 DEF Driver!Callback, DriverView, u, v
<1> QED BY <1>22, <1>23

(* A fatal error is a fault of AdcDriver.                                  *)
LEMMA FailedIsFault ==
  ASSUME Untouched, Running, IsPde(pde'), call' = call, hist'.armed = hist.armed,
         Failed(pde, pde')
  PROVE  Driver!Fault
<1> DEFINE v == ViewOf(pde, call.n, hist.armed)
           u == ViewOf(pde', call'.n, hist'.armed)
           e == pde'.error
           k == call.n
           c == Driver!Ended(v)
           w == [c EXCEPT !.error = e, !.waiting = k]
           X == {"acq", "xfer", "error", "waiting"}
<1>1. /\ pde.toMove \in Int /\ call.n \in Int /\ pde.sent \in Int /\ pde.dropped \in Int
      /\ pde.toMove >= 0 /\ call.n >= 0
  BY DEF Untouched, Ledger, Held, IsPde, Counts, Calls
<1>2. pde.acqActive = TRUE
  BY RunningFacts DEF Running, IsPde, Flags
<1>3. /\ pde'.acqActive = FALSE /\ pde'.transferActive = FALSE
      /\ e \in {"Hardware", "Overrun"}
  BY DEF Failed, IsPde, Flags
<1>4. /\ pde'.configured = pde.configured
      /\ pde'.stop = pde.stop /\ pde'.pre = pde.pre /\ pde'.post = pde.post
      /\ pde'.inUser = pde.inUser /\ pde'.size = pde.size /\ pde'.cyclic = pde.cyclic
      /\ pde'.sent = pde.sent /\ pde'.toMove = 0
      /\ pde'.dropped = pde.dropped + pde.toMove
  BY DEF Failed
<1>5. /\ IsDrv(v) /\ v.acq = TRUE /\ v.ok = pde.configured
      /\ v.asked = TotalOf(pde) /\ v.total = TotalOf(hist.armed)
      /\ v.taken = pde.sent + pde.toMove + pde.dropped + call.n
      /\ v.waiting = pde.toMove + call.n /\ v.count = pde.inUser /\ v.size = pde.size
      /\ v.cyclic = pde.cyclic
  BY <1>2, ViewFields
<1>6. /\ IsDrv(u) /\ u.acq = pde'.acqActive /\ u.ok = pde'.configured
      /\ u.error = pde'.error /\ u.asked = TotalOf(pde') /\ u.total = TotalOf(hist'.armed)
      /\ u.taken = pde'.sent + pde'.toMove + pde'.dropped + call'.n
      /\ u.size = pde'.size /\ u.cyclic = pde'.cyclic
      /\ u.xfer = pde'.transferActive /\ u.waiting = pde'.toMove + call'.n
      /\ u.count = pde'.inUser
  BY ViewFields
<1>7. TotalOf(pde') = TotalOf(pde)
  BY <1>4 DEF TotalOf
<1> HIDE DEF v, u
<1>8. u.taken = v.taken /\ u.waiting = call.n
  BY <1>1, <1>4, <1>5, <1>6
<1>9. But(X, v, u)
  BY <1>4, <1>5, <1>6, <1>7, <1>8 DEF But, Fields
<1> HIDE DEF e, k
<1>10. But(X, v, w) /\ w.acq = FALSE /\ w.xfer = FALSE /\ w.error = e /\ w.waiting = k
  <2>1. But({"acq", "xfer"}, v, c) /\ c.acq = FALSE /\ c.xfer = FALSE
    BY <1>5, EndedFields
  <2> HIDE DEF c
  <2>2. /\ But({"error", "waiting"}, c, w) /\ w.error = e /\ w.waiting = k
        /\ w.acq = FALSE /\ w.xfer = FALSE
    BY <2>1 DEF IsDrv, But, Fields
  <2> HIDE DEF w
  <2>3. But(X, v, w)
    BY <2>1, <2>2 DEF But, Fields
  <2> QED BY <2>2, <2>3
<1> HIDE DEF w
<1>11. u.acq = FALSE /\ u.xfer = FALSE /\ u.error = e /\ u.waiting = k
  BY <1>3, <1>6, <1>8 DEF e, k
<1>12. \A f \in X : u[f] = w[f]
  BY <1>10, <1>11
<1>13. u = [Driver!Ended(v) EXCEPT !.error = e, !.waiting = k]
  <2>1. u = w
    BY <1>9, <1>10, <1>12, SameBut
  <2> QED BY <2>1 DEF w
<1>14. k \in 0..v.waiting
  BY <1>1, <1>5 DEF k
<1> QED BY <1>3, <1>5, <1>13, <1>14 DEF Driver!Fault, DriverView, u, v

(* The timer callback.                                                     *)
LEMMA TimerSimulated ==
  ASSUME Untouched, AdcEventL, ~hist'.raced, IsPde(pde')
  PROVE  Simulated /\ Ample(pde)'
<1>1. /\ IsPde(pde) /\ scans \in Nat /\ fault \in BOOLEAN /\ call \in Calls
      /\ Ledger(pde) /\ Flagging(pde) /\ Ample(pde)
      /\ hist \in [raced: BOOLEAN, arms: Nat,
                   armed: [source: Sources, stop: StopSources, pre: Nat, post: Nat]]
  BY DEF Untouched
<1>2. /\ scans' = scans /\ call' = call /\ hist'.armed = hist.armed /\ ~Harmful(pde')
  <2>1. hist' = [hist EXCEPT !.raced = hist.raced \/ Harmful(pde')]
        /\ UNCHANGED <<scans, fault, call>>
    BY DEF AdcEventL
  <2>2. hist'.armed = hist.armed /\ hist'.raced = (hist.raced \/ Harmful(pde'))
    BY <1>1, <2>1
  <2> QED BY <2>1, <2>2
<1>3. ASSUME Unseen(pde, pde') PROVE Simulated /\ Ample(pde)'
  <2>1. Simulated
    BY <1>2, <1>3, UnseenStep
  <2>2. Ample(pde)'
    BY <1>1, <1>2, <1>3 DEF Ample, Asked, LeftOver, Unseen
  <2> QED BY <2>1, <2>2
<1>4. CASE pde.die \/ ~pde.dma
  <2>1. pde' = [pde EXCEPT !.running = FALSE]
    BY <1>4 DEF AdcEventL
  <2>2. Unseen(pde, pde')
    BY <1>1, <2>1, SMTT(30) DEF Unseen, IsPde, Flags, Counts, Others
  <2> QED BY <1>3, <2>2
<1>5. CASE ~pde.die /\ pde.dma
  <2>1. PICK lag \in 0..FifoScans :
          LET d == CheckEventsAndMoveData(pde, lag) IN pde' = [d EXCEPT !.running = d.dma]
    BY <1>5 DEF AdcEventL
  <2> DEFINE d == CheckEventsAndMoveData(pde, lag)
  <2>2. Running
    BY <1>1, <1>5 DEF Running
  <2>3. lag \in Nat
    BY SizesAssumption
  <2>4. IsPde(d)
    BY <1>1, <2>3, CallbackType
  <2>5. Outcome(d) /\ (Harmful(d) \/ Shown(d))
    BY <2>2, <2>3, CallbackLedger, CallbackShown
  <2>6. pde' = [d EXCEPT !.running = d.dma]
    BY <2>1
  <2> HIDE DEF d
  <2>7. Alike(d, pde') /\ pde'.error = d.error
    BY <2>4, <2>6, SMTT(30) DEF Alike, SameEvents, SameCounter, SameRequest, SameTransfer,
                                IsPde, Flags, Counts, Others
  <2>8. ~Harmful(d)
    BY <1>2, <2>7, AlikeLedger
  <2>9. Unseen(d, pde') /\ Ledger(pde')
    BY <2>5, <2>7, <2>8, AlikeLedger, AlikeUnseen DEF Outcome
  <2>10. CASE Unseen(pde, d)
    <3>1. Unseen(pde, pde')
      BY <2>9, <2>10 DEF Unseen
    <3> QED BY <1>3, <3>1
  <2>11. ASSUME call.at # "startAdvance", pde'.pre = pde.pre, pde'.post = pde.post
         PROVE  Ample(pde)'
    BY <1>1, <1>2, <2>11, StaysAmple
  <2>12. CASE call.at # "startAdvance" /\ Failed(pde, d)
    <3>1. Failed(pde, pde')
      BY <2>9, <2>12 DEF Failed, Unseen
    <3>2. Driver!Fault
      BY <1>2, <2>2, <3>1, FailedIsFault
    <3>3. pde'.pre = pde.pre /\ pde'.post = pde.post
      BY <3>1 DEF Failed
    <3> QED BY <2>11, <2>12, <3>2, <3>3 DEF Simulated
  <2>13. CASE call.at # "startAdvance" /\
             \E n \in Nat : \E g :
               IsPde(g) /\ Unseen(pde, g) /\ g.current <= scans /\ Moved(g, d, n)
    <3>1. PICK n \in Nat : \E g :
            IsPde(g) /\ Unseen(pde, g) /\ g.current <= scans /\ Moved(g, d, n)
      BY <2>13
    <3>2. PICK g : IsPde(g) /\ Unseen(pde, g) /\ g.current <= scans /\ Moved(g, d, n)
      BY <3>1
    <3>3. Moved(g, pde', n)
      BY <2>7, <2>9, <3>2 DEF Moved, Unseen, Alike, SameCounter, SameEvents
    <3>4. Driver!Callback
      BY <1>2, <2>2, <2>9, <3>2, <3>3, MovedIsCallback
    <3>5. pde'.pre = pde.pre /\ pde'.post = pde.post
      BY <3>2, <3>3 DEF Moved, Unseen
    <3> QED BY <2>11, <2>13, <3>4, <3>5 DEF Simulated
  <2> QED BY <2>5, <2>8, <2>10, <2>12, <2>13 DEF Shown
<1> QED BY <1>1, <1>4, <1>5 DEF IsPde, Flags
-----------------------------------------------------------------------------
LEMMA StepSimulated ==
  ASSUME RInv, [Next]_vars, ~hist'.raced
  PROVE  Simulated /\ Ample(pde)'
<1>1. ~hist.raced /\ DInv
  BY RacedStays DEF RInv
<1>2. Untouched
  BY <1>1 DEF RInv, DInv, IInv, TypeOK, Calls, Untouched
<1>3. IsPde(pde')
  BY <1>1, NextDInv DEF DInv, IInv, TypeOK
<1>4. CASE AdcEventL
  BY <1>2, <1>3, <1>4, TimerSimulated
<1>5. CASE Program
  BY <1>2, <1>5, ConfigureSimulated, CallSimulated, StartBeginSimulated, SoftTrigSimulated
     DEF Program
<1>6. CASE Continue
  BY <1>2, <1>3, <1>6, ArmSimulated, StartSimulated, StartCopySimulated, StartEndSimulated,
     SoftTrigSimulated DEF Continue
<1>7. CASE Board \/ UNCHANGED vars
  BY <1>2, <1>7, BoardSimulated
<1>8. CASE Undefined
  BY <1>2, <1>8, BoardSimulated DEF Undefined
<1> QED BY <1>4, <1>5, <1>6, <1>7, <1>8 DEF Next

LEMMA NextRInv == RInv /\ [Next]_vars => RInv'
<1> SUFFICES ASSUME RInv, [Next]_vars PROVE RInv'
  OBVIOUS
<1>1. DInv'
  BY NextDInv DEF RInv
<1>2. ~hist'.raced => Ample(pde)'
  BY StepSimulated
<1> QED BY <1>1, <1>2 DEF RInv

LEMMA RefinedInvariance == Spec => []RInv
<1> QED BY InitRInv, NextRInv, PTL DEF Spec

LEMMA InitRefined == Init => Driver!Init
<1> SUFFICES ASSUME Init PROVE Driver!Init
  OBVIOUS
<1>1. /\ pde.acqActive = FALSE /\ pde.transferActive = FALSE /\ pde.configured = FALSE
      /\ pde.error = "None" /\ pde.stop = "ScanCount" /\ pde.pre = 0 /\ pde.post = 0
      /\ pde.sent = 0 /\ pde.toMove = 0 /\ pde.dropped = 0 /\ pde.inUser = 0
      /\ pde.size = 1 /\ pde.cyclic = FALSE /\ pde.wild = FALSE
      /\ call.n = 0 /\ hist.raced = FALSE
      /\ hist.armed.stop = "ScanCount" /\ hist.armed.pre = 0 /\ hist.armed.post = 0
  BY DEF Init, InitPde, Idle
<1>2. TotalOf(pde) = 0 /\ TotalOf(hist.armed) = 0
  BY <1>1 DEF TotalOf
<1>3. DriverView = Driver!InitDrv
  <2> DEFINE v == ViewOf(pde, call.n, hist.armed)
             w == Driver!InitDrv
  <2>1. /\ IsDrv(v) /\ v.acq = FALSE /\ v.xfer = FALSE /\ v.ok = FALSE
        /\ v.error = "None" /\ v.asked = 0 /\ v.total = 0 /\ v.taken = 0
        /\ v.waiting = 0 /\ v.count = 0 /\ v.size = 1 /\ v.cyclic = FALSE
    BY <1>1, <1>2, ViewFields
  <2>2. /\ IsDrv(w) /\ w.acq = FALSE /\ w.xfer = FALSE /\ w.ok = FALSE
        /\ w.error = "None" /\ w.asked = 0 /\ w.total = 0 /\ w.taken = 0
        /\ w.waiting = 0 /\ w.count = 0 /\ w.size = 1 /\ w.cyclic = FALSE
    BY DEF Driver!InitDrv, IsDrv, Fields
  <2> HIDE DEF v, w
  <2>3. But(Fields, v, v) /\ But(Fields, v, w) /\ \A f \in Fields : v[f] = w[f]
    BY <2>1, <2>2 DEF But, Fields
  <2>4. v = w
    BY <2>3, SameBut
  <2> QED BY <2>4 DEF DriverView, v, w
<1> QED BY <1>1, <1>3 DEF Driver!Init

LEMMA StepRefined ==
  RInv /\ [Next]_vars => [Driver!Next]_<<DriverView, hist.raced \/ pde.wild>>
<1> SUFFICES ASSUME RInv, [Next]_vars
             PROVE  [Driver!Next]_<<DriverView, hist.raced \/ pde.wild>>
  OBVIOUS
<1>1. CASE hist'.raced \/ pde'.wild
  BY <1>1 DEF Driver!Next
<1>2. CASE ~hist'.raced /\ ~pde'.wild
  <2>1. ~hist.raced /\ ~pde.wild
    BY <1>2, RacedStays DEF RInv, DInv, Ledger, Held
  <2>2. Simulated
    BY <1>2, StepSimulated
  <2>3. UNCHANGED (hist.raced \/ pde.wild)
    BY <1>2, <2>1
  <2> QED BY <2>2, <2>3 DEF Simulated, Driver!Next
<1> QED BY <1>1, <1>2

(* Every behaviour of the engine, whatever the ring, the buffer, the       *)
(* requests and the interleaving of callbacks with the steps of the        *)
(* ioctls, is a behaviour of AdcDriver as far as the ioctls show it: each  *)
(* scan is owed once, waits or is delivered once, and an acquisition of a  *)
(* scan count ends with exactly that many; until a callback hits adcStart  *)
(* or adcSoftTrig where the two do not commute.                            *)
THEOREM EngineImplementsDriver == Spec => ImplementsDriver
<1> QED BY InitRefined, StepRefined, RefinedInvariance, PTL
        DEF Spec, Driver!Spec, ImplementsDriver
=============================================================================
