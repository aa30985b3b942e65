-------------------------- MODULE AdcSessionProofs --------------------------
(***************************************************************************)
(* That what a handle of the library holds of the driver is so             *)
(* (LibraryAgrees of AdcSession) and that the cells daqAdcTransferBufData  *)
(* copies are those where the driver has the next scans (ReadsContinue),   *)
(* for every scan count, every length of buffer and every program of       *)
(* AdcExamples.                                                            *)
(***************************************************************************)
EXTENDS AdcExamples, SequenceTheorems, WellFoundedInduction, TLAPS

Steps == {"device", "disarm", "stop", "opened", "arm", "closed", "set", "file", "buffer",
          "start", "getStat", "waitDone", "waitData", "bufStat", "sample", "sampleArm",
          "backlog", "disarmStat", "stopWait", "unmap", "bufWait", "bufCheck", "copy"}

(* A length that a buffer may have.                                        *)
Legal(n) == n \in Nat \ {0} /\ n + MaxScans < Top

(* Types, with the scans that the driver owes.                             *)
Drivers == [acq: BOOLEAN, xfer: BOOLEAN, ok: BOOLEAN, error: {"None", "Overrun"},
            asked: Int, total: Int, taken: Nat, waiting: Nat, count: Nat, size: Nat,
            cyclic: BOOLEAN]

Owes(d) == /\ d \in Drivers /\ d.count + d.waiting <= d.taken /\ d.taken <= MaxScans
           /\ d.xfer /\ ~d.cyclic => d.count <= d.size

Handles == [open: BOOLEAN, acq: BOOLEAN, xfer: BOOLEAN, changed: BOOLEAN, conf: Int,
            len: Nat, mode: Modes, mapped: BOOLEAN, count: 0..MaxScans, head: Int,
            tail: Int, avail: Int, err: {"None"}, last: Int,
            file: {"none", "named", "open"}]

Keeps(l) == l \in Handles /\ l.len + MaxScans < Top /\ (l.mode.buf => l.len > 0)

Histories == [read: Int, failed: SUBSET {"library", "device"},
              undefined: {"nothing", "free", "read", "copy"}]

(* The head, the tail and what is between them are in the buffer.          *)
View(l) == /\ l.head \in 0..(l.len - 1) /\ l.tail \in 0..l.len /\ l.avail \in 0..l.len
           /\ l.len \in Nat \ {0}

(* Steps that only come right after the one that asks for them.            *)
Sudden == {"device", "bufWait", "bufCheck", "copy", "disarmStat", "backlog", "sample",
           "stopWait"}

Calm(s) == s # <<>> => s[1] \notin Sudden

Has(s, op) == \E i \in 1..Len(s) : s[i] = op

(* The order of the steps in a call.                                       *)
Flow(s) ==
  /\ s \in Seq(Steps)
  /\ \A i \in 2..Len(s) : s[i] \notin Sudden
  /\ \A i \in 1..(Len(s) - 1) : s[i] # "closed"
  /\ \A i \in 1..Len(s) : s[i] = "buffer" => i = 1 \/ (i = 2 /\ s[1] = "set")
  /\ s # <<>> /\ s[1] = "sample" => Len(s) >= 2 /\ s[2] = "sampleArm"
  /\ s # <<>> /\ s[1] = "stopWait" => Len(s) >= 2
  /\ s # <<>> /\ s[1] = "device" => s = Open.todo

Calls == [todo: Seq(Steps), n: Nat \cup {Refusal},
          how: {"NoWait", "RetNotDone", "RetAvail", "Newest", "Wait"}, mode: Modes]

(* A call on its way.                                                      *)
Going(c) ==
  /\ c \in Calls /\ Flow(c.todo)
  /\ c.n = Refusal /\ c.todo # <<>> => c.todo = <<"set">>
  /\ Has(c.todo, "buffer") => Legal(c.n)

Ordinary(c) == Going(c) /\ Calm(c.todo)
-----------------------------------------------------------------------------
(* Sequences of steps.                                                     *)
LEMMA TailOf ==
  ASSUME NEW S, NEW s \in Seq(S), s # <<>>
  PROVE  /\ Tail(s) \in Seq(S) /\ Len(Tail(s)) = Len(s) - 1 /\ Len(s) \in Nat \ {0}
         /\ \A i \in 1..(Len(s) - 1) : Tail(s)[i] = s[i + 1]
         /\ s[1] \in S /\ Head(s) = s[1]
         /\ Tail(s) = <<>> <=> Len(s) = 1
<1> DEFINE t == Tail(s)
<1>1. /\ t \in Seq(S) /\ Len(t) = Len(s) - 1 /\ Len(s) \in Nat \ {0} /\ Head(s) = s[1]
      /\ s[1] \in S
  OBVIOUS
<1>2. \A i \in 1..(Len(s) - 1) : t[i] = s[i + 1]
  OBVIOUS
<1>3. t = <<>> <=> Len(s) = 1
  <2> HIDE DEF t
  <2>1. t = <<>> <=> Len(t) = 0
    BY <1>1
  <2> QED BY <1>1, <2>1
<1> QED BY <1>1, <1>2, <1>3

LEMMA FlowTail ==
  ASSUME NEW s, Flow(s), s # <<>>
  PROVE  /\ Flow(Tail(s))
         /\ Calm(Tail(s))
         /\ s[1] # "set" => ~Has(Tail(s), "buffer")
         /\ Has(Tail(s), "buffer") => Has(s, "buffer")
         /\ Has(Tail(s), "closed") => Has(s, "closed")
<1> DEFINE t == Tail(s)
<1>1. /\ t \in Seq(Steps) /\ Len(t) = Len(s) - 1 /\ Len(s) \in Nat \ {0}
      /\ \A i \in 1..Len(t) : t[i] = s[i + 1] /\ i + 1 \in 2..Len(s)
      /\ t = <<>> <=> Len(s) = 1
  <2>1. s \in Seq(Steps)
    BY DEF Flow
  <2> QED BY <2>1, TailOf
<1> HIDE DEF t
<1>2. \A i \in 1..Len(t) : t[i] \notin Sudden
  BY <1>1 DEF Flow
<1>3. \A i \in 1..(Len(t) - 1) : t[i] # "closed"
  <2>1. \A i \in 1..(Len(t) - 1) : i \in 1..Len(t) /\ i + 1 \in 1..(Len(s) - 1)
    BY <1>1
  <2> QED BY <1>1, <2>1 DEF Flow
<1>4. \A i \in 1..Len(t) : t[i] = "buffer" => i = 1 /\ s[1] = "set"
  <2>1. \A i \in 1..Len(t) : i + 1 \in 1..Len(s) /\ i + 1 # 1 /\ i \in Int
    BY <1>1
  <2>2. \A i \in 1..Len(s) : s[i] = "buffer" => i = 1 \/ (i = 2 /\ s[1] = "set")
    BY DEF Flow
  <2> QED BY <1>1, <2>1, <2>2
<1>5. t # <<>> => 1 \in 1..Len(t)
  BY <1>1
<1>6. Flow(t)
  <2>1. \A i \in 2..Len(t) : i \in 1..Len(t)
    OBVIOUS
  <2>2. /\ \A i \in 2..Len(t) : t[i] \notin Sudden
        /\ t # <<>> => t[1] \notin Sudden
    BY <1>2, <1>5, <2>1
  <2>3. "sample" \in Sudden /\ "stopWait" \in Sudden /\ "device" \in Sudden
    BY DEF Sudden
  <2>4. \A i \in 1..Len(t) : t[i] = "buffer" => i = 1 \/ (i = 2 /\ t[1] = "set")
    BY <1>4
  <2> QED BY <1>1, <1>3, <2>2, <2>3, <2>4 DEF Flow
<1>7. /\ s[1] # "set" => ~Has(t, "buffer")
      /\ Has(t, "buffer") => Has(s, "buffer")
      /\ Has(t, "closed") => Has(s, "closed")
  <2>1. \A i \in 1..Len(t) : i + 1 \in 1..Len(s)
    BY <1>1
  <2> QED BY <1>1, <1>4, <2>1 DEF Has
<1> QED BY <1>2, <1>5, <1>6, <1>7 DEF t, Calm

(* A step that comes suddenly, before the rest of a call.                  *)
Inserted == {"backlog", "disarmStat", "unmap", "bufWait", "bufCheck", "copy"}

Before(op, t, u) ==
  /\ Flow(u) /\ ~Has(u, "buffer") /\ u # <<>> /\ u[1] = op /\ Tail(u) = t
  /\ Has(u, "closed") => Has(t, "closed")
  /\ Len(u) = Len(t) + 1 /\ \A i \in 1..Len(t) : u[i + 1] = t[i]

LEMMA FlowOne ==
  ASSUME NEW t, Flow(t), Calm(t), ~Has(t, "buffer"), NEW op \in Inserted
  PROVE  Before(op, t, <<op>> \o t)
<1> DEFINE u == <<op>> \o t
<1>1. t \in Seq(Steps) /\ Len(t) \in Nat /\ op \in Steps
  BY DEF Flow, Steps, Inserted
<1>2. /\ u \in Seq(Steps) /\ Len(u) = Len(t) + 1 /\ u[1] = op
      /\ \A i \in 1..Len(t) : u[i + 1] = t[i]
      /\ \A i \in 2..Len(u) : u[i] = t[i - 1] /\ i - 1 \in 1..Len(t)
  <2>1. <<op>> \in Seq(Steps) /\ Len(<<op>>) = 1 /\ <<op>>[1] = op
    BY <1>1
  <2> QED BY <1>1, <2>1, ConcatProperties
<1> HIDE DEF u
<1>3. u # <<>>
  BY <1>1, <1>2
<1>4. \A i \in 1..Len(t) : t[i] \notin Sudden
  <2>1. \A i \in 1..Len(t) : i = 1 \/ i \in 2..Len(t)
    BY <1>1
  <2>2. t # <<>> \/ Len(t) = 0
    BY <1>1
  <2> QED BY <1>1, <2>1, <2>2 DEF Flow, Calm
<1>5. \A i \in 1..Len(t) : t[i] # "buffer"
  BY DEF Has
<1>6. op \notin {"closed", "buffer", "sample", "stopWait", "device"}
  BY DEF Inserted
<1>7. Tail(u) = t
  <2>1. Tail(u) \in Seq(Steps) /\ Len(Tail(u)) = Len(t)
        /\ \A i \in 1..Len(t) : Tail(u)[i] = t[i]
    <3>1. Len(u) - 1 = Len(t)
      BY <1>1, <1>2
    <3> QED BY <1>2, <1>3, <3>1, TailOf
  <2> QED BY <1>1, <2>1, SeqEqual
<1>8. \A i \in 1..Len(u) : i = 1 \/ i \in 2..Len(u)
  BY <1>1, <1>2
<1>9. \A i \in 1..Len(u) : u[i] # "buffer"
  BY <1>2, <1>5, <1>6, <1>8
<1>10. \A i \in 1..(Len(u) - 1) : u[i] # "closed"
  <2> SUFFICES ASSUME NEW i \in 1..(Len(u) - 1), i # 1 PROVE u[i] # "closed"
    BY <1>2, <1>6
  <2>1. i \in 2..Len(u) /\ i - 1 \in 1..(Len(t) - 1)
    BY <1>1, <1>2
  <2> QED BY <1>2, <2>1 DEF Flow
<1>11. Flow(u)
  <2>1. \A i \in 2..Len(u) : u[i] \notin Sudden
    BY <1>2, <1>4
  <2> QED BY <1>2, <1>6, <1>9, <1>10, <2>1 DEF Flow
<1>12. Has(u, "closed") => Has(t, "closed")
  BY <1>2, <1>6, <1>8 DEF Has
<1>13. ~Has(u, "buffer")
  BY <1>9 DEF Has
<1>14. Before(op, t, u)
  BY <1>2, <1>3, <1>7, <1>11, <1>12, <1>13 DEF Before
<1> QED BY <1>14 DEF u

LEMMA FlowTwo ==
  ASSUME NEW t, Flow(t), Calm(t), ~Has(t, "buffer"),
         NEW u, u = <<"stopWait", "unmap">> \o t
  PROVE  /\ Flow(u) /\ ~Has(u, "buffer") /\ u # <<>> /\ u[1] = "stopWait"
         /\ Has(u, "closed") => Has(t, "closed")
<1> DEFINE v == <<"unmap">> \o t
<1>1. t \in Seq(Steps) /\ Len(t) \in Nat /\ {"unmap", "stopWait"} \subseteq Steps
  BY DEF Flow, Steps
<1>2. /\ Flow(v) /\ ~Has(v, "buffer") /\ v # <<>> /\ v[1] = "unmap"
      /\ Has(v, "closed") => Has(t, "closed")
      /\ Len(v) = Len(t) + 1 /\ \A i \in 1..Len(t) : v[i + 1] = t[i]
  <2>1. "unmap" \in Inserted
    BY DEF Inserted
  <2>2. Before("unmap", t, v)
    BY <2>1, FlowOne
  <2> HIDE DEF v
  <2> QED BY <2>2 DEF Before
<1> HIDE DEF v
<1>3. /\ u \in Seq(Steps) /\ Len(u) = Len(t) + 2 /\ u[1] = "stopWait" /\ u[2] = "unmap"
      /\ \A i \in 1..Len(t) : u[i + 2] = t[i]
  <2> DEFINE w == <<"stopWait", "unmap">>
  <2>1. w \in Seq(Steps) /\ Len(w) = 2 /\ w[1] = "stopWait" /\ w[2] = "unmap"
    BY <1>1
  <2>2. u = w \o t
    OBVIOUS
  <2> HIDE DEF w
  <2> QED BY <1>1, <2>1, <2>2, ConcatProperties
<1>4. \A i \in 2..Len(u) : i - 1 \in 1..Len(v) /\ u[i] = v[i - 1]
  <2> SUFFICES ASSUME NEW i \in 2..Len(u) PROVE i - 1 \in 1..Len(v) /\ u[i] = v[i - 1]
    OBVIOUS
  <2>1. CASE i = 2
    BY <1>1, <1>2, <1>3, <2>1
  <2>2. CASE i # 2
    <3> DEFINE j == i - 2
    <3>1. j \in 1..Len(t) /\ j + 2 = i /\ j + 1 = i - 1 /\ j + 1 \in 1..Len(v)
      BY <1>1, <1>2, <1>3, <2>2
    <3> HIDE DEF j
    <3>2. u[j + 2] = t[j] /\ v[j + 1] = t[j]
      BY <1>2, <1>3, <3>1
    <3> QED BY <3>1, <3>2
  <2> QED BY <2>1, <2>2
<1>5. u # <<>> /\ Len(u) = Len(v) + 1 /\ v \in Seq(Steps) /\ Len(v) \in Nat
  BY <1>1, <1>2, <1>3 DEF Flow
<1>6. \A i \in 1..Len(v) : v[i] \notin Sudden /\ v[i] # "buffer"
  <2>1. \A i \in 1..Len(v) : i = 1 \/ i \in 2..Len(v)
    BY <1>5
  <2>2. "unmap" \notin Sudden
    BY DEF Sudden
  <2> QED BY <1>2, <2>1, <2>2 DEF Flow, Has
<1>7. \A i \in 1..Len(u) : i = 1 \/ i \in 2..Len(u)
  BY <1>5
<1>8. \A i \in 1..(Len(u) - 1) : u[i] # "closed"
  <2> SUFFICES ASSUME NEW i \in 1..(Len(u) - 1), i # 1 PROVE u[i] # "closed"
    BY <1>3
  <2>1. i \in 2..Len(u) /\ i - 1 \in 1..(Len(v) - 1)
    BY <1>5
  <2> QED BY <1>2, <1>4, <2>1 DEF Flow
<1>9. /\ \A i \in 2..Len(u) : u[i] \notin Sudden
      /\ \A i \in 1..Len(u) : u[i] # "buffer"
      /\ Has(u, "closed") => Has(v, "closed")
  BY <1>3, <1>4, <1>6, <1>7 DEF Has
<1>10. Flow(u)
  <2>1. u[1] = "stopWait" /\ Len(u) >= 2
    BY <1>1, <1>3
  <2> QED BY <1>3, <1>8, <1>9, <2>1 DEF Flow
<1> QED BY <1>2, <1>3, <1>5, <1>9, <1>10 DEF Has

(* What is kept of a call after an error: Cleanup, by the least index at   *)
(* which it would go wrong.                                                *)
CleanSteps == {"getStat", "disarm", "stop"}

LEMMA LeastNatural ==
  ASSUME NEW T \in SUBSET Nat, T # {}
  PROVE  \E x \in T : \A y \in T : x <= y
<1>1. PICK x \in T : \A y \in T : ~(<<y, x>> \in OpToRel(<, Nat))
  BY WFMin, NatLessThanWellFounded
<1>2. \A y \in T : ~(y < x)
  BY <1>1 DEF OpToRel
<1> QED BY <1>2

KeptStep(s, i, before) ==
  IF s[i] \in CleanSteps THEN Append(before, s[i]) ELSE before

Kept(s, n, g) == g = [i \in 0..n |-> IF i = 0 THEN <<>> ELSE KeptStep(s, i, g[i - 1])]

LEMMA HasKept ==
  ASSUME NEW s, NEW n \in Nat
  PROVE  \E g : Kept(s, n, g)
<1> DEFINE T == {k \in Nat : ~\E g : Kept(s, k, g)}
<1>1. SUFFICES ASSUME T # {} PROVE FALSE
  OBVIOUS
<1>2. PICK k \in T : \A y \in T : k <= y
  <2>1. T \in SUBSET Nat
    OBVIOUS
  <2> HIDE DEF T
  <2> QED BY <1>1, <2>1, LeastNatural
<1>3. k # 0
  <2>1. Kept(s, 0, [i \in 0..0 |-> <<>>])
    BY DEF Kept
  <2> QED BY <2>1
<1>4. k - 1 \in Nat /\ k \in Nat
  BY <1>3
<1>5. PICK g : Kept(s, k - 1, g)
  <2>1. k - 1 \notin T
    <3> HIDE DEF T
    <3> QED BY <1>2, <1>4
  <2> QED BY <1>4, <2>1
<1> DEFINE h == [i \in 0..k |-> IF i = k THEN KeptStep(s, k, g[k - 1]) ELSE g[i]]
<1>6. Kept(s, k, h)
  <2>1. \A i \in 0..(k - 1) : g[i] = IF i = 0 THEN <<>> ELSE KeptStep(s, i, g[i - 1])
    BY <1>5 DEF Kept
  <2>2. ASSUME NEW i \in 0..k PROVE h[i] = IF i = 0 THEN <<>> ELSE KeptStep(s, i, h[i - 1])
    <3>1. CASE i = k
      <4>1. k - 1 \in 0..k /\ h[k - 1] = g[k - 1]
        BY <1>4
      <4> QED BY <1>3, <3>1, <4>1
    <3>2. CASE i # k /\ i # 0
      <4>1. i \in 0..(k - 1) /\ i - 1 \in 0..k /\ i - 1 # k
        BY <1>4, <3>2
      <4>2. h[i] = g[i] /\ h[i - 1] = g[i - 1]
        BY <3>2, <4>1
      <4> QED BY <2>1, <3>2, <4>1, <4>2
    <3>3. CASE i # k /\ i = 0
      <4>1. 0 \in 0..(k - 1)
        BY <1>3, <1>4
      <4> QED BY <2>1, <3>3, <4>1
    <3> QED BY <3>1, <3>2, <3>3
  <2>3. h = [i \in 0..k |-> h[i]]
    OBVIOUS
  <2> HIDE DEF h
  <2>4. h = [i \in 0..k |-> IF i = 0 THEN <<>> ELSE KeptStep(s, i, h[i - 1])]
    BY <2>2, <2>3
  <2> QED BY <2>4 DEF Kept
<1> QED BY <1>4, <1>6

LEMMA CleanupType ==
  ASSUME NEW s, Len(s) \in Nat
  PROVE  Cleanup(s) \in Seq(CleanSteps)
<1> DEFINE n == Len(s)
           g == CHOOSE g : Kept(s, n, g)
           T == {i \in 0..n : g[i] \notin Seq(CleanSteps)}
<1>1. Kept(s, n, g)
  BY HasKept
<1>2. Cleanup(s) = g[n]
  BY DEF Cleanup, Kept, KeptStep, CleanSteps
<1> HIDE DEF g
<1>3. T = {}
  <2> SUFFICES ASSUME T # {} PROVE FALSE
    OBVIOUS
  <2>1. PICK i \in T : \A y \in T : i <= y
    <3>1. T \in SUBSET Nat
      OBVIOUS
    <3> HIDE DEF T
    <3> QED BY <3>1, LeastNatural
  <2>2. i \in 0..n /\ g[i] \notin Seq(CleanSteps)
    BY <2>1
  <2>3. g[i] = IF i = 0 THEN <<>> ELSE KeptStep(s, i, g[i - 1])
    BY <1>1, <2>2 DEF Kept
  <2>4. i # 0
    BY <2>2, <2>3
  <2>5. i - 1 \in 0..n /\ i - 1 \notin T
    <3>1. i - 1 \in 0..n /\ i - 1 < i /\ i \in Int
      BY <2>2, <2>4
    <3> HIDE DEF T
    <3> QED BY <2>1, <3>1
  <2> DEFINE b == g[i - 1]
  <2>6. b \in Seq(CleanSteps)
    BY <2>5
  <2>7. g[i] = KeptStep(s, i, b)
    BY <2>3, <2>4
  <2> HIDE DEF b
  <2> QED BY <2>2, <2>6, <2>7 DEF KeptStep
<1> QED BY <1>2, <1>3

LEMMA CleanFlow ==
  ASSUME NEW s \in Seq(CleanSteps)
  PROVE  Flow(s) /\ Calm(s) /\ ~Has(s, "buffer") /\ ~Has(s, "closed")
<1>1. \A i \in 1..Len(s) : s[i] \in CleanSteps
  OBVIOUS
<1>2. s \in Seq(Steps)
  <2>1. CleanSteps \subseteq Steps
    BY DEF CleanSteps, Steps
  <2> QED BY <2>1, SeqMonotonic
<1>3. \A x \in CleanSteps : x \notin Sudden /\ x \notin {"closed", "buffer", "sample", "stopWait",
                                                         "device"}
  BY DEF CleanSteps, Sudden
<1>4. Len(s) \in Nat /\ (s # <<>> => 1 \in 1..Len(s))
  OBVIOUS
<1>5. /\ \A i \in 1..Len(s) : s[i] \notin Sudden /\ s[i] # "closed" /\ s[i] # "buffer"
      /\ s # <<>> => s[1] \notin {"sample", "stopWait", "device"}
  BY <1>1, <1>3, <1>4
<1>6. /\ \A i \in 2..Len(s) : i \in 1..Len(s)
      /\ \A i \in 1..(Len(s) - 1) : i \in 1..Len(s)
  BY <1>4
<1> QED BY <1>2, <1>4, <1>5, <1>6 DEF Flow, Calm, Has

(* After an error.                                                         *)
LEMMA AfterErrorFlow ==
  ASSUME Flow(call.todo), call.todo # <<>>, NEW t, t = AfterError(Head(call.todo))
  PROVE  /\ Flow(t) /\ Calm(t)
         /\ ~Has(t, "buffer")
         /\ Has(t, "closed") => Has(call.todo, "closed")
         /\ call.todo = <<"set">> => t = <<>>
<1> DEFINE s == call.todo
           op == Head(s)
           r == Tail(s)
<1>1. /\ s \in Seq(Steps) /\ op = s[1] /\ r \in Seq(Steps)
      /\ Len(s) \in Nat \ {0} /\ Len(r) = Len(s) - 1 /\ (r = <<>> <=> Len(s) = 1)
  <2>1. s \in Seq(Steps) /\ s # <<>>
    BY DEF Flow
  <2> HIDE DEF s
  <2> QED BY <2>1, TailOf
<1>2. /\ Flow(r) /\ Calm(r) /\ (s[1] # "set" => ~Has(r, "buffer"))
      /\ Has(r, "closed") => Has(s, "closed")
  BY FlowTail
<1>3. t = IF op \in {"set", "buffer", "start", "sample"} THEN <<>>
          ELSE IF op = "stopWait" THEN Tail(r)
          ELSE IF op = "disarmStat" THEN r ELSE Cleanup(r)
  BY DEF AfterError, Rest
<1>4. call.todo = <<"set">> => op = "set"
  OBVIOUS
<1>5. Flow(s)
  OBVIOUS
<1> HIDE DEF s, r, op
<1>6. CASE op \in {"set", "buffer", "start", "sample"}
  <2>1. t = <<>>
    BY <1>3, <1>6
  <2>2. t \in Seq(CleanSteps)
    BY <2>1, EmptySeq
  <2> QED BY <2>1, <2>2, CleanFlow
<1>7. CASE op = "stopWait"
  <2>1. r # <<>> /\ ~Has(r, "buffer")
    <3>1. s # <<>> /\ s[1] = "stopWait"
      BY <1>1, <1>7 DEF s
    <3>2. Len(s) >= 2
      BY <1>5, <3>1 DEF Flow
    <3>3. r # <<>> /\ ~Has(r, "buffer")
      BY <1>1, <1>2, <3>1, <3>2
    <3> QED BY <3>3
  <2>2. t = Tail(r)
    BY <1>3, <1>7
  <2>3. /\ Flow(t) /\ Calm(t) /\ (Has(t, "buffer") => Has(r, "buffer"))
        /\ Has(t, "closed") => Has(r, "closed")
    BY <1>2, <2>1, <2>2, FlowTail
  <2> QED BY <1>2, <1>4, <1>7, <2>1, <2>3 DEF s
<1>8. CASE op \notin {"set", "buffer", "start", "sample", "stopWait", "disarmStat"}
  <2>1. Len(r) \in Nat
    BY <1>1
  <2>2. t \in Seq(CleanSteps)
    BY <1>3, <1>8, <2>1, CleanupType
  <2> QED BY <1>4, <1>8, <2>2, CleanFlow
<1>9. CASE op = "disarmStat"
  <2>1. t = r
    BY <1>3, <1>9
  <2>2. s[1] # "set"
    BY <1>1, <1>9
  <2> QED BY <1>2, <1>4, <1>9, <2>1, <2>2 DEF s
<1> QED BY <1>6, <1>7, <1>8, <1>9
-----------------------------------------------------------------------------
(* What a step leaves of the call.                                         *)
Quieter == Has(call'.todo, "closed") => Has(call.todo, "closed")

LEMMA NoCallGoing == Ordinary(NoCall) /\ NoCall.todo = <<>> /\ ~Has(<<>>, "closed")
<1>1. <<>> \in Seq(CleanSteps) /\ <<>> \in Seq(Steps)
  BY EmptySeq
<1>2. Flow(<<>>) /\ Calm(<<>>) /\ ~Has(<<>>, "buffer") /\ ~Has(<<>>, "closed")
  BY <1>1, CleanFlow
<1>3. NoCall \in Calls /\ NoCall.todo = <<>>
  BY <1>1 DEF NoCall, Calls, Modes
<1> QED BY <1>2, <1>3 DEF Ordinary, Going

LEMMA LeftGoing ==
  ASSUME Going(call), NEW t, Flow(t), Has(t, "buffer") => Has(call.todo, "buffer"),
         call.n = Refusal => t = <<>>, Left(t)
  PROVE  /\ Going(call') /\ call'.todo = t
         /\ t # <<>> => call'.n = call.n /\ call'.how = call.how /\ call'.mode = call.mode
<1>1. call \in Calls
  BY DEF Going
<1>2. CASE t = <<>>
  BY <1>2, NoCallGoing DEF Left, Ordinary
<1>3. CASE t # <<>>
  <2>1. call' = [call EXCEPT !.todo = t] /\ t \in Seq(Steps)
    BY <1>3 DEF Left, Flow
  <2>2. /\ call' \in Calls /\ call'.todo = t /\ call'.n = call.n /\ call'.how = call.how
        /\ call'.mode = call.mode
    BY <1>1, <2>1 DEF Calls
  <2> QED BY <1>3, <2>2 DEF Going
<1> QED BY <1>2, <1>3

LEMMA OneStep ==
  ASSUME Going(call), call.todo # <<>>
  PROVE  /\ call.todo \in Seq(Steps) /\ Head(call.todo) = call.todo[1]
         /\ call.n = Refusal => Rest = <<>> /\ call.todo = <<"set">> /\ call.todo[1] = "set"
<1>1. call.todo \in Seq(Steps)
  BY DEF Going, Flow
<1>2. call.n = Refusal => call.todo = <<"set">>
  BY DEF Going
<1>3. Tail(<<"set">>) = <<>> /\ <<"set">>[1] = "set"
  OBVIOUS
<1>4. call.n = Refusal => Tail(call.todo) = <<>> /\ call.todo[1] = "set"
  <2> SUFFICES ASSUME call.n = Refusal PROVE Tail(call.todo) = <<>> /\ call.todo[1] = "set"
    OBVIOUS
  <2>1. call.todo = <<"set">>
    BY <1>2
  <2> QED BY <1>3, <2>1, Zenon
<1>5. Head(call.todo) = call.todo[1]
  BY <1>1
<1> QED BY <1>1, <1>2, <1>4, <1>5 DEF Rest

LEMMA GoOnCall ==
  ASSUME Going(call), call.todo # <<>>, GoOn
  PROVE  Ordinary(call') /\ Quieter /\ call'.todo = Tail(call.todo)
<1> DEFINE t == Tail(call.todo)
<1>1. /\ Flow(t) /\ Calm(t) /\ (Has(t, "buffer") => Has(call.todo, "buffer"))
      /\ Has(t, "closed") => Has(call.todo, "closed")
  BY FlowTail DEF Going
<1>2. call.n = Refusal => t = <<>>
  BY OneStep DEF Rest
<1>3. Left(t)
  BY DEF GoOn, Rest
<1> HIDE DEF t
<1>4. Going(call') /\ call'.todo = t
  BY <1>1, <1>2, <1>3, LeftGoing
<1> QED BY <1>1, <1>4 DEF Ordinary, Quieter, t

LEMMA GiveUpCall ==
  ASSUME Going(call), call.todo # <<>>, GiveUp
  PROVE  Ordinary(call') /\ Quieter
<1> DEFINE t == AfterError(Head(call.todo))
<1>1. Flow(call.todo)
  BY DEF Going
<1>2. /\ Flow(t) /\ Calm(t) /\ ~Has(t, "buffer") /\ (Has(t, "closed") => Has(call.todo, "closed"))
      /\ call.todo = <<"set">> => t = <<>>
  BY <1>1, AfterErrorFlow
<1>3. call.n = Refusal => t = <<>>
  BY <1>2, OneStep
<1>4. Left(t)
  BY DEF GiveUp
<1> HIDE DEF t
<1>5. Going(call') /\ call'.todo = t
  BY <1>2, <1>3, <1>4, LeftGoing
<1> QED BY <1>2, <1>5 DEF Ordinary, Quieter

LEMMA ThenCall ==
  ASSUME Going(call), call.todo # <<>>, call.todo[1] # "set", NEW op \in Inserted, Then(<<op>>)
  PROVE  /\ Going(call') /\ Quieter /\ call'.todo # <<>> /\ call'.todo[1] = op
         /\ call'.todo = <<op>> \o Tail(call.todo) /\ Tail(call'.todo) = Tail(call.todo)
         /\ call'.n = call.n /\ call'.how = call.how
<1> DEFINE r == Tail(call.todo)
           t == <<op>> \o r
<1>1. Flow(call.todo)
  BY DEF Going
<1>2. /\ Flow(r) /\ Calm(r) /\ ~Has(r, "buffer") /\ (Has(r, "closed") => Has(call.todo, "closed"))
  BY <1>1, FlowTail
<1>3. call.n # Refusal
  BY OneStep
<1>4. Left(t)
  BY DEF Then, Rest
<1> HIDE DEF r
<1>5. Before(op, r, t)
  BY <1>2, FlowOne
<1>6. t = <<op>> \o r
  OBVIOUS
<1> HIDE DEF t
<1>7. /\ Flow(t) /\ ~Has(t, "buffer") /\ t # <<>> /\ t[1] = op /\ Tail(t) = r
      /\ Has(t, "closed") => Has(r, "closed")
  BY <1>5 DEF Before
<1>8. Going(call') /\ call'.todo = t /\ call'.n = call.n /\ call'.how = call.how
  BY <1>3, <1>4, <1>7, LeftGoing
<1> QED BY <1>2, <1>6, <1>7, <1>8 DEF Quieter, r

LEMMA ThenStop ==
  ASSUME Going(call), call.todo # <<>>, call.todo[1] # "set", Then(<<"stopWait", "unmap">>)
  PROVE  /\ Going(call') /\ Quieter /\ call'.todo # <<>> /\ call'.todo[1] = "stopWait"
<1> DEFINE r == Tail(call.todo)
           t == <<"stopWait", "unmap">> \o r
<1>1. Flow(call.todo)
  BY DEF Going
<1>2. /\ Flow(r) /\ Calm(r) /\ ~Has(r, "buffer") /\ (Has(r, "closed") => Has(call.todo, "closed"))
  BY <1>1, FlowTail
<1>3. call.n # Refusal
  BY OneStep
<1>4. Left(t)
  BY DEF Then, Rest
<1> HIDE DEF r
<1>5. /\ Flow(t) /\ ~Has(t, "buffer") /\ t # <<>> /\ t[1] = "stopWait"
      /\ Has(t, "closed") => Has(r, "closed")
  BY <1>2, FlowTwo
<1> HIDE DEF t
<1>6. Going(call') /\ call'.todo = t
  BY <1>3, <1>4, <1>5, LeftGoing
<1> QED BY <1>2, <1>5, <1>6 DEF Quieter, r

(* daqAdcTransferBufData goes on to copy n scans.                          *)
LEMMA ReadsCall ==
  ASSUME Going(call), call.todo # <<>>, call.todo[1] # "set", NEW n \in Nat, Reads(n)
  PROVE  /\ Going(call') /\ Quieter /\ call'.todo # <<>> /\ call'.todo[1] = "copy"
         /\ call'.n = n /\ call'.how = call.how
<1> DEFINE r == Tail(call.todo)
           t == <<"copy">> \o r
<1>1. Flow(call.todo) /\ call \in Calls
  BY DEF Going
<1>2. /\ Flow(r) /\ Calm(r) /\ ~Has(r, "buffer") /\ (Has(r, "closed") => Has(call.todo, "closed"))
  BY <1>1, FlowTail
<1>3. call' = [call EXCEPT !.todo = t, !.n = n]
  BY DEF Reads, Rest
<1> HIDE DEF r
<1>4. Before("copy", r, t)
  <2>1. "copy" \in Inserted
    BY DEF Inserted
  <2> QED BY <1>2, <2>1, FlowOne
<1> HIDE DEF t
<1>5. /\ Flow(t) /\ ~Has(t, "buffer") /\ t # <<>> /\ t[1] = "copy"
      /\ Has(t, "closed") => Has(r, "closed")
  BY <1>4 DEF Before
<1>6. /\ call' \in Calls /\ call'.todo = t /\ call'.n = n /\ call'.how = call.how
  <2>1. t \in Seq(Steps)
    BY <1>5 DEF Flow
  <2> QED BY <1>1, <1>3, <2>1 DEF Calls
<1>7. n # Refusal
  BY DEF Refusal
<1>8. Going(call')
  BY <1>5, <1>6, <1>7 DEF Going
<1> QED BY <1>2, <1>5, <1>6, <1>8 DEF Quieter, r
-----------------------------------------------------------------------------
(* The driver, between the ioctls that start something.                    *)
Quiet(d, e) ==
  /\ Owes(e) /\ e.asked = d.asked /\ e.total = d.total /\ e.size = d.size
  /\ e.acq => d.acq
  /\ e.xfer => d.xfer
  /\ e.count >= d.count
  /\ ~d.xfer => e.count = d.count

LEMMA QuietSelf ==
  ASSUME NEW d, Owes(d)
  PROVE  Quiet(d, d)
BY DEF Quiet, Owes, Drivers

LEMMA QuietTwice ==
  ASSUME NEW d, NEW e, NEW f, Owes(d), Quiet(d, e), Quiet(e, f)
  PROVE  Quiet(d, f)
<1>1. d.count \in Nat /\ e.count \in Nat /\ f.count \in Nat
  BY DEF Quiet, Owes, Drivers
<1> QED BY <1>1 DEF Quiet

LEMMA QuietIs ==
  ASSUME NEW d, NEW e \in Drivers, e.count + e.waiting <= e.taken, e.taken <= MaxScans,
         e.xfer /\ ~e.cyclic => e.count <= e.size,
         e.asked = d.asked, e.total = d.total, e.size = d.size,
         e.acq => d.acq, e.xfer => d.xfer, e.count >= d.count, ~d.xfer => e.count = d.count
  PROVE  Quiet(d, e)
BY DEF Quiet, Owes

(* The same counts, with flags that may only be cleared.                   *)
LEMMA QuietSame ==
  ASSUME NEW d, Owes(d), NEW e \in Drivers, e.asked = d.asked, e.total = d.total,
         e.size = d.size, e.count = d.count, e.taken = d.taken, e.cyclic = d.cyclic,
         e.waiting <= d.waiting, e.acq => d.acq, e.xfer => d.xfer
  PROVE  Quiet(d, e)
<1>1. /\ d.count \in Nat /\ d.waiting \in Nat /\ d.taken \in Nat /\ e.waiting \in Nat
      /\ d.count + d.waiting <= d.taken /\ d.taken <= MaxScans
  BY DEF Owes, Drivers
<1>2. e.count + e.waiting <= e.taken /\ e.taken <= MaxScans /\ e.count >= d.count
  BY <1>1
<1>3. d.xfer /\ ~d.cyclic => d.count <= d.size
  BY DEF Owes
<1>4. e.xfer /\ ~e.cyclic => e.count <= e.size
  BY <1>3
<1> QED BY <1>2, <1>4, QuietIs

LEMMA QuietEnds ==
  ASSUME NEW d, Owes(d)
  PROVE  /\ Quiet(d, Driver!Refused(d)) /\ Quiet(d, Driver!Disarmed(d))
         /\ Quiet(d, Driver!Stopped(d)) /\ Quiet(d, Driver!Ended(d))
         /\ Quiet(d, [d EXCEPT !.error = "None"])
         /\ ~Driver!Disarmed(d).acq /\ ~Driver!Stopped(d).xfer
         /\ Driver!Stopped(d).acq = d.acq
<1>1. /\ d \in Drivers /\ d.count \in Nat /\ d.waiting \in Nat /\ d.taken \in Nat
  BY DEF Owes, Drivers
<1>2. Quiet(d, Driver!Refused(d))
  <2> DEFINE e == Driver!Refused(d)
  <2>1. /\ e \in Drivers /\ e.asked = d.asked /\ e.total = d.total /\ e.size = d.size
        /\ e.count = d.count /\ e.taken = d.taken /\ e.cyclic = d.cyclic
        /\ e.waiting = d.waiting /\ e.acq = d.acq /\ e.xfer = d.xfer
    BY <1>1 DEF Driver!Refused, Drivers
  <2> HIDE DEF e
  <2>2. e.waiting <= d.waiting
    BY <1>1, <2>1
  <2>3. (e.acq => d.acq) /\ (e.xfer => d.xfer)
    BY <2>1
  <2>4. Quiet(d, e)
    BY <2>1, <2>2, <2>3, QuietSame
  <2> QED BY <2>4 DEF e
<1>3. Quiet(d, Driver!Disarmed(d)) /\ ~Driver!Disarmed(d).acq
  <2> DEFINE e == Driver!Disarmed(d)
  <2>1. /\ e \in Drivers /\ e.asked = d.asked /\ e.total = d.total /\ e.size = d.size
        /\ e.count = d.count /\ e.taken = d.taken /\ e.cyclic = d.cyclic
        /\ e.waiting = 0 /\ ~e.acq /\ e.xfer = d.xfer
    BY <1>1 DEF Driver!Disarmed, Drivers
  <2> HIDE DEF e
  <2>2. e.waiting <= d.waiting
    BY <1>1, <2>1
  <2>3. (e.acq => d.acq) /\ (e.xfer => d.xfer)
    BY <2>1
  <2>4. Quiet(d, e)
    BY <2>1, <2>2, <2>3, QuietSame
  <2> QED BY <2>1, <2>4 DEF e
<1>4. Quiet(d, Driver!Stopped(d)) /\ ~Driver!Stopped(d).xfer /\ Driver!Stopped(d).acq = d.acq
  <2> DEFINE e == Driver!Stopped(d)
  <2>1. /\ e \in Drivers /\ e.asked = d.asked /\ e.total = d.total /\ e.size = d.size
        /\ e.count = d.count /\ e.taken = d.taken /\ e.cyclic = d.cyclic
        /\ e.waiting = d.waiting /\ e.acq = d.acq /\ ~e.xfer
    BY <1>1 DEF Driver!Stopped, Drivers
  <2> HIDE DEF e
  <2>2. e.waiting <= d.waiting
    BY <1>1, <2>1
  <2>3. (e.acq => d.acq) /\ (e.xfer => d.xfer)
    BY <2>1
  <2>4. Quiet(d, e)
    BY <2>1, <2>2, <2>3, QuietSame
  <2> QED BY <2>1, <2>4 DEF e
<1>5. Quiet(d, Driver!Ended(d))
  <2> DEFINE e == Driver!Ended(d)
  <2>1. /\ e \in Drivers /\ e.asked = d.asked /\ e.total = d.total /\ e.size = d.size
        /\ e.count = d.count /\ e.taken = d.taken /\ e.cyclic = d.cyclic
        /\ e.waiting = d.waiting /\ ~e.acq /\ ~e.xfer
    BY <1>1 DEF Driver!Ended, Drivers
  <2> HIDE DEF e
  <2>2. e.waiting <= d.waiting
    BY <1>1, <2>1
  <2>4. Quiet(d, e)
    BY <2>1, <2>2, QuietSame
  <2> QED BY <2>4 DEF e
<1>6. Quiet(d, [d EXCEPT !.error = "None"])
  BY <1>1 DEF Quiet, Owes, Drivers
<1> QED BY <1>2, <1>3, <1>4, <1>5, <1>6

LEMMA QuietFlush ==
  ASSUME NEW d, Owes(d)
  PROVE  Quiet(d, Flushed(d)) /\ ~Flushed(d).acq /\ ~Flushed(d).xfer
<1> DEFINE e == Driver!Disarmed(d)
<1>1. Quiet(d, e) /\ ~e.acq
  BY QuietEnds
<1>2. Flushed(d) = Driver!Stopped(e)
  BY DEF Flushed
<1> HIDE DEF e
<1>3. Owes(e)
  BY <1>1 DEF Quiet
<1>4. Quiet(e, Flushed(d)) /\ ~Flushed(d).xfer /\ Flushed(d).acq = e.acq
  BY <1>2, <1>3, QuietEnds
<1> QED BY <1>1, <1>4, QuietTwice

LEMMA HandedQuiet ==
  ASSUME NEW d \in Drivers, NEW n \in Nat, d.count + d.waiting + n <= d.taken,
         d.taken <= MaxScans, d.xfer /\ ~d.cyclic => d.count <= d.size
  PROVE  Quiet(d, Driver!Handed(d, n)) /\ Driver!Handed(d, n).acq = d.acq
<1> DEFINE h == Driver!Handed(d, n)
<1>1. /\ d.count \in Nat /\ d.waiting \in Nat /\ d.taken \in Nat /\ d.size \in Nat
      /\ d.acq \in BOOLEAN /\ d.xfer \in BOOLEAN /\ d.cyclic \in BOOLEAN /\ MaxScans \in Nat
  BY SessionAssumption DEF Drivers
<1>2. CASE ~d.xfer
  <2>1. h = [d EXCEPT !.waiting = @ + n]
    BY <1>2 DEF Driver!Handed
  <2> HIDE DEF h
  <2>2. /\ h \in Drivers /\ h.asked = d.asked /\ h.total = d.total /\ h.size = d.size
        /\ h.acq = d.acq /\ h.xfer = d.xfer /\ h.cyclic = d.cyclic /\ h.count = d.count
        /\ h.waiting = d.waiting + n /\ h.taken = d.taken
    BY <1>1, <2>1 DEF Drivers
  <2>3. h.count + h.waiting <= h.taken /\ h.count >= d.count
    BY <1>1, <2>2
  <2>4. /\ h.taken <= MaxScans /\ (h.xfer /\ ~h.cyclic => h.count <= h.size)
        /\ (h.acq => d.acq) /\ (h.xfer => d.xfer)
    BY <1>2, <2>2
  <2>5. Quiet(d, h)
    BY <2>2, <2>3, <2>4, QuietIs
  <2> QED BY <2>2, <2>5 DEF h
<1>3. CASE d.xfer /\ Driver!Full(d, n)
  <2> DEFINE w == d.waiting + n - (d.size - d.count)
  <2>1. ~d.cyclic /\ d.count + n > d.size
    BY <1>3 DEF Driver!Full
  <2>2. h = [d EXCEPT !.waiting = w, !.count = d.size, !.xfer = FALSE]
    BY <1>3 DEF Driver!Handed
  <2>3. w \in Nat /\ d.size + w = d.count + d.waiting + n /\ d.size >= d.count
    BY <1>1, <1>3, <2>1
  <2> HIDE DEF h, w
  <2>4. /\ h \in Drivers /\ h.asked = d.asked /\ h.total = d.total /\ h.size = d.size
        /\ h.acq = d.acq /\ ~h.xfer /\ h.cyclic = d.cyclic /\ h.count = d.size
        /\ h.waiting = w /\ h.taken = d.taken
    BY <1>1, <2>2, <2>3 DEF Drivers
  <2>5. h.count + h.waiting <= h.taken /\ h.taken <= MaxScans /\ h.count >= d.count
    BY <1>1, <2>3, <2>4
  <2>6. h.acq => d.acq
    BY <2>4
  <2>7. Quiet(d, h)
    BY <1>3, <2>4, <2>5, <2>6, QuietIs
  <2> QED BY <2>4, <2>7 DEF h
<1>4. CASE d.xfer /\ ~Driver!Full(d, n)
  <2>1. d.cyclic \/ d.count + n <= d.size
    BY <1>1, <1>4 DEF Driver!Full
  <2>2. h = [d EXCEPT !.count = @ + n]
    BY <1>4 DEF Driver!Handed
  <2> HIDE DEF h
  <2>3. /\ h \in Drivers /\ h.asked = d.asked /\ h.total = d.total /\ h.size = d.size
        /\ h.acq = d.acq /\ h.xfer = d.xfer /\ h.cyclic = d.cyclic /\ h.count = d.count + n
        /\ h.waiting = d.waiting /\ h.taken = d.taken
    BY <1>1, <2>2 DEF Drivers
  <2>4. h.count + h.waiting <= h.taken /\ h.count >= d.count
    BY <1>1, <2>3
  <2>5. /\ h.taken <= MaxScans /\ (h.xfer /\ ~h.cyclic => h.count <= h.size)
        /\ (h.acq => d.acq) /\ (h.xfer => d.xfer)
    BY <1>4, <2>1, <2>3
  <2>6. Quiet(d, h)
    BY <1>4, <2>3, <2>4, <2>5, QuietIs
  <2> QED BY <2>3, <2>6 DEF h
<1> QED BY <1>2, <1>3, <1>4

LEMMA TookQuiet ==
  ASSUME NEW d, Owes(d), NEW n \in Nat, d.taken + n <= MaxScans
  PROVE  Quiet(d, Driver!Took(d, n)) /\ Quiet(d, Driver!Ended(Driver!Took(d, n)))
<1> DEFINE e == [d EXCEPT !.taken = @ + n]
           h == Driver!Took(d, n)
<1>1. /\ d \in Drivers /\ d.taken \in Nat /\ d.count \in Nat /\ d.waiting \in Nat
      /\ d.count + d.waiting <= d.taken
  BY DEF Owes, Drivers
<1>2. /\ e \in Drivers /\ e.taken = d.taken + n /\ e.count = d.count /\ e.waiting = d.waiting
      /\ e.asked = d.asked /\ e.total = d.total /\ e.size = d.size /\ e.acq = d.acq
      /\ e.xfer = d.xfer /\ e.cyclic = d.cyclic
  BY <1>1 DEF Drivers
<1>3. h = Driver!Handed(e, n)
  BY DEF Driver!Took
<1> HIDE DEF e, h
<1>4. /\ e.count + e.waiting + n <= e.taken /\ e.taken <= MaxScans
      /\ e.xfer /\ ~e.cyclic => e.count <= e.size
  BY <1>1, <1>2 DEF Owes
<1>5. Quiet(e, h)
  BY <1>2, <1>3, <1>4, HandedQuiet
<1>6. Quiet(d, h)
  BY <1>2, <1>5 DEF Quiet
<1>7. Quiet(h, Driver!Ended(h))
  BY <1>6, QuietEnds DEF Quiet
<1> QED BY <1>6, <1>7, QuietTwice DEF h

LEMMA DriverQuiet ==
  ASSUME Owes(drv), DriverStep
  PROVE  Quiet(drv, drv') /\ drv.acq
<1>1. drv \in Drivers /\ drv.taken \in Nat /\ drv.waiting \in Nat /\ drv'.taken <= MaxScans
  BY DEF Owes, Drivers, DriverStep
<1>2. CASE Driver!Callback
  <2>1. PICK n \in 0..1 : drv' = Driver!Took(drv, n) \/ drv' = Driver!Ended(Driver!Took(drv, n))
    BY <1>2 DEF Driver!Callback
  <2>2. n \in Nat /\ drv.acq
    BY <1>2 DEF Driver!Callback
  <2>3. Driver!Took(drv, n).taken = drv.taken + n
        /\ Driver!Ended(Driver!Took(drv, n)).taken = drv.taken + n
    <3> DEFINE e == [drv EXCEPT !.taken = @ + n]
               h == Driver!Handed(e, n)
    <3>1. e \in Drivers /\ e.taken = drv.taken + n
      BY <1>1, <2>2 DEF Drivers
    <3>2. Driver!Took(drv, n) = h
      BY DEF Driver!Took
    <3> HIDE DEF e
    <3>3. h.taken = e.taken /\ Driver!Ended(h).taken = e.taken
      BY <3>1 DEF Driver!Handed, Driver!Ended, Drivers
    <3> QED BY <3>1, <3>2, <3>3
  <2>4. drv.taken + n <= MaxScans
    BY <1>1, <2>1, <2>3
  <2> QED BY <2>1, <2>2, <2>4, TookQuiet
<1>3. CASE Driver!Fault
  <2>1. PICK e \in {"Overrun"}, w \in 0..drv.waiting :
          drv' = [Driver!Ended(drv) EXCEPT !.error = e, !.waiting = w]
    BY <1>3 DEF Driver!Fault
  <2>2. drv.acq
    BY <1>3 DEF Driver!Fault
  <2> DEFINE h == Driver!Ended(drv)
  <2>3. Quiet(drv, h) /\ h.waiting = drv.waiting /\ ~h.acq /\ ~h.xfer /\ h \in Drivers
    BY <1>1, QuietEnds DEF Driver!Ended, Drivers
  <2>4. drv' = [h EXCEPT !.error = e, !.waiting = w]
    BY <2>1
  <2> HIDE DEF h
  <2>5. h.count + h.waiting <= h.taken /\ h.taken <= MaxScans
    BY <2>3 DEF Quiet, Owes
  <2>6. /\ drv' \in Drivers /\ drv'.count = h.count /\ drv'.waiting = w /\ drv'.taken = h.taken
        /\ ~drv'.acq /\ ~drv'.xfer /\ drv'.asked = h.asked /\ drv'.total = h.total
        /\ drv'.size = h.size
    <3>1. h \in Drivers /\ e \in {"None", "Overrun"} /\ w \in Nat /\ ~h.acq /\ ~h.xfer
      BY <1>1, <2>3
    <3> QED BY <2>4, <3>1 DEF Drivers
  <2>7. h.count \in Nat /\ h.waiting \in Nat /\ h.taken \in Nat /\ w \in Nat /\ w <= h.waiting
    BY <1>1, <2>3 DEF Drivers
  <2>8. drv'.count + drv'.waiting <= drv'.taken
    BY <2>5, <2>6, <2>7
  <2> QED BY <2>2, <2>3, <2>5, <2>6, <2>8 DEF Quiet, Owes
<1> QED BY <1>2, <1>3 DEF DriverStep

(* adcStart with scans that waited.                                        *)
LEMMA BacklogQuiet ==
  ASSUME Owes(drv), Backlog
  PROVE  Quiet(drv, drv')
<1> DEFINE e == [drv EXCEPT !.waiting = 0]
           h == Driver!Handed(e, drv.waiting)
<1>1. /\ drv \in Drivers /\ drv.taken \in Nat /\ drv.count \in Nat /\ drv.waiting \in Nat
      /\ drv.count + drv.waiting <= drv.taken /\ drv.taken <= MaxScans
  BY DEF Owes, Drivers
<1>2. /\ e \in Drivers /\ e.taken = drv.taken /\ e.count = drv.count /\ e.waiting = 0
      /\ e.asked = drv.asked /\ e.total = drv.total /\ e.size = drv.size /\ e.acq = drv.acq
      /\ e.xfer = drv.xfer /\ e.cyclic = drv.cyclic
  BY <1>1 DEF Drivers
<1>3. drv' = h \/ drv' = Driver!Stopped(h)
  BY DEF Backlog
<1> HIDE DEF e
<1>4. e.count + e.waiting + drv.waiting <= e.taken
      /\ (e.xfer /\ ~e.cyclic => e.count <= e.size)
  BY <1>1, <1>2 DEF Owes
<1>5. Quiet(e, h)
  BY <1>1, <1>2, <1>4, HandedQuiet
<1> HIDE DEF h
<1>6. Quiet(drv, h)
  BY <1>2, <1>5 DEF Quiet
<1>7. Quiet(h, Driver!Stopped(h))
  BY <1>6, QuietEnds DEF Quiet
<1> QED BY <1>3, <1>6, <1>7, QuietTwice

(* The ioctls that start something.                                        *)
LEMMA ConfiguredFacts ==
  ASSUME NEW d, Owes(d), NEW n \in Int, NEW e, e = Driver!Configured(d, n)
  PROVE  /\ Owes(e) /\ e.asked = n /\ e.ok /\ e.total = d.total /\ e.size = d.size
         /\ e.acq = d.acq /\ e.xfer = d.xfer /\ e.count = d.count /\ e.cyclic = d.cyclic
BY DEF Owes, Drivers, Driver!Configured

LEMMA StartedFacts ==
  ASSUME NEW d, Owes(d), NEW n \in Nat, NEW c \in BOOLEAN, NEW e, e = Driver!Started(d, n, c)
  PROVE  /\ Owes(e) /\ e.asked = d.asked /\ e.total = d.total /\ e.size = n
         /\ e.acq = d.acq /\ e.xfer /\ e.count = 0
<1>1. /\ d \in Drivers /\ d.taken \in Nat /\ d.count \in Nat /\ d.waiting \in Nat
      /\ d.count + d.waiting <= d.taken /\ d.taken <= MaxScans
  BY DEF Owes, Drivers
<1>2. /\ e \in Drivers /\ e.asked = d.asked /\ e.total = d.total /\ e.size = n
      /\ e.acq = d.acq /\ e.xfer /\ e.count = 0 /\ e.taken = d.taken /\ e.waiting = d.waiting
  BY <1>1 DEF Drivers, Driver!Started
<1> QED BY <1>1, <1>2 DEF Owes

LEMMA ArmedFacts ==
  ASSUME NEW d, Owes(d), NEW e \in {Driver!Armed(d), Driver!Cleared(d)}
  PROVE  /\ Owes(e) /\ e.asked = d.asked /\ e.size = d.size /\ e.count = 0 /\ e.xfer = d.xfer
         /\ e = Driver!Armed(d) => e.acq /\ e.total = d.asked
         /\ e = Driver!Cleared(d) => e.acq = d.acq /\ e.total = d.total
<1>1. d \in Drivers /\ 0 <= MaxScans
  BY SessionAssumption DEF Owes
<1> DEFINE f == Driver!Cleared(d)
<1>2. /\ f \in Drivers /\ f.asked = d.asked /\ f.size = d.size /\ f.count = 0 /\ f.waiting = 0
      /\ f.taken = 0 /\ f.xfer = d.xfer /\ f.acq = d.acq /\ f.total = d.total
  BY <1>1 DEF Driver!Cleared, Drivers
<1>3. Driver!Armed(d) = [f EXCEPT !.acq = TRUE, !.error = "None", !.total = d.asked]
  BY DEF Driver!Armed
<1>4. f = Driver!Cleared(d)
  OBVIOUS
<1>5. d.asked \in Int
  BY <1>1 DEF Drivers
<1> HIDE DEF f
<1> DEFINE a == Driver!Armed(d)
<1>6. /\ a \in Drivers /\ a.asked = d.asked /\ a.size = d.size /\ a.count = 0 /\ a.waiting = 0
      /\ a.taken = 0 /\ a.xfer = d.xfer /\ a.acq /\ a.total = d.asked
  BY <1>2, <1>3, <1>5 DEF Drivers
<1> HIDE DEF a
<1>7. /\ Owes(f)
      /\ Owes(a)
  <2>1. f.size \in Nat /\ a.size \in Nat
    BY <1>2, <1>6 DEF Drivers
  <2> QED BY <1>1, <1>2, <1>6, <2>1 DEF Owes
<1>8. CASE e = f
  <2>1. e # a \/ (e = a /\ e.acq /\ e.total = d.asked)
    BY <1>6
  <2> QED BY <1>2, <1>4, <1>7, <1>8, <2>1 DEF a
<1>9. CASE e = a
  <2>1. e # f \/ (e = f /\ e.acq = d.acq /\ e.total = d.total)
    BY <1>2
  <2> QED BY <1>4, <1>6, <1>7, <1>9, <2>1 DEF a
<1> QED BY <1>4, <1>8, <1>9 DEF a
-----------------------------------------------------------------------------
(* Places in a ring.                                                       *)
LEMMA ModRange ==
  ASSUME NEW a \in Int, NEW b \in Nat \ {0}
  PROVE  a % b \in 0..(b - 1) /\ a = b * (a \div b) + (a % b) /\ a \div b \in Int
OBVIOUS

LEMMA Multiples ==
  ASSUME NEW b \in Nat \ {0}, NEW k \in Int
  PROVE  /\ b * k \in Int
         /\ k >= 1 => b * k >= b
         /\ k <= -1 => b * k <= -b
         /\ k = 0 => b * k = 0
<1>1. CASE k >= 1
  <2>1. b * k = b + b * (k - 1) /\ b * (k - 1) >= 0 /\ b * k \in Int
    BY <1>1
  <2> QED BY <1>1, <2>1
<1>2. CASE k <= -1
  <2>1. b * k = b * (k + 1) - b /\ b * (k + 1) <= 0 /\ b * k \in Int
    BY <1>2
  <2> QED BY <1>2, <2>1
<1>3. CASE k = 0
  BY <1>3
<1> QED BY <1>1, <1>2, <1>3

LEMMA DivUnique ==
  ASSUME NEW a \in Int, NEW b \in Nat \ {0}, NEW q \in Int, NEW r \in 0..(b - 1),
         a = b * q + r
  PROVE  a % b = r /\ a \div b = q
<1> DEFINE k == (a \div b) - q
           x == b * k
<1>1. a % b \in 0..(b - 1) /\ a = b * (a \div b) + (a % b) /\ a \div b \in Int
  BY ModRange
<1>2. k \in Int /\ x = r - (a % b)
  BY <1>1
<1>3. /\ x \in Int
      /\ k >= 1 => x >= b
      /\ k <= -1 => x <= -b
      /\ k = 0 => x = 0
  <2> HIDE DEF k
  <2> QED BY <1>2, Multiples
<1>4. k = 0 /\ x = 0
  <2> HIDE DEF k, x
  <2> QED BY <1>1, <1>2, <1>3
<1> QED BY <1>1, <1>2, <1>4

(* A ring of b cells with its head at the place of cnt and its tail at     *)
(* that of read: what is between them.                                     *)
LEMMA Apart ==
  ASSUME NEW b \in Nat \ {0}, NEW tail \in 0..b, NEW head \in 0..(b - 1), NEW read \in Nat,
         NEW cnt \in Nat, read <= cnt, tail % b = read % b, head = cnt % b,
         NEW gap, gap = IF tail > head THEN (b - tail) + head ELSE head - tail
  PROVE  /\ gap \in 0..(b - 1) /\ gap <= cnt - read
         /\ tail = head /\ read < cnt => b <= cnt - read
<1> DEFINE r == read % b
           qc == cnt \div b
           qr == read \div b
           qt == tail \div b
<1>1. r \in 0..(b - 1) /\ read = b * qr + r /\ qr \in Int
  BY ModRange
<1>2. cnt = b * qc + head /\ qc \in Int
  BY ModRange
<1>3. tail = b * qt + r /\ qt \in Int
  <2>1. tail \in Int
    OBVIOUS
  <2> QED BY <2>1, ModRange
<1> HIDE DEF r, qc, qr, qt
<1> DEFINE k == (qc - qr) + qt
           x == b * k
<1>4. k \in Int /\ x = (cnt - read) + (tail - head)
  <2>1. x = ((b * qc) - (b * qr)) + (b * qt)
    BY <1>1, <1>2, <1>3
  <2> QED BY <1>1, <1>2, <1>3, <2>1
<1>5. /\ x \in Int
      /\ k >= 1 => x >= b
      /\ k <= -1 => x <= -b
      /\ k = 0 => x = 0
  <2> HIDE DEF k
  <2> QED BY <1>4, Multiples
<1> HIDE DEF k, x
<1>6. gap \in 0..(b - 1)
  OBVIOUS
<1>7. gap <= cnt - read
  BY <1>4, <1>5
<1>8. tail = head /\ read < cnt => b <= cnt - read
  BY <1>4, <1>5
<1> QED BY <1>6, <1>7, <1>8

(* Adding a to a place.                                                    *)
LEMMA ModMove ==
  ASSUME NEW a \in Int, NEW b \in Nat \ {0}, NEW x \in Int, NEW y \in Int, x % b = y % b
  PROVE  (x + a) % b = (y + a) % b
<1> DEFINE r == x % b
           qx == x \div b
           qy == y \div b
           z == r + a
           q == z \div b
           m == z % b
<1>1. r \in 0..(b - 1) /\ x = b * qx + r /\ qx \in Int /\ y = b * qy + r /\ qy \in Int
  BY ModRange
<1> HIDE DEF r, qx, qy
<1>2. z \in Int /\ x + a = b * qx + z /\ y + a = b * qy + z
  <2>1. b * qx \in Int /\ b * qy \in Int
    BY <1>1
  <2> QED BY <1>1, <2>1
<1> HIDE DEF z
<1>3. m \in 0..(b - 1) /\ z = b * q + m /\ q \in Int
  BY <1>2, ModRange
<1> HIDE DEF m, q
<1>4. x + a = b * (qx + q) + m /\ y + a = b * (qy + q) + m
  <2>1. b * (qx + q) = b * qx + b * q /\ b * (qy + q) = b * qy + b * q
    BY <1>1, <1>3
  <2>2. b * qx \in Int /\ b * qy \in Int /\ b * q \in Int
    BY <1>1, <1>3
  <2> QED BY <1>2, <1>3, <2>1, <2>2
<1>5. (x + a) % b = m
  <2>1. x + a \in Int /\ qx + q \in Int
    BY <1>1, <1>3
  <2> DEFINE u == x + a
             v == qx + q
  <2>2. u \in Int /\ v \in Int /\ u = b * v + m
    BY <1>4, <2>1
  <2> HIDE DEF u, v
  <2>3. u % b = m
    BY <1>3, <2>2, DivUnique
  <2> QED BY <2>3 DEF u
<1>6. (y + a) % b = m
  <2>1. y + a \in Int /\ qy + q \in Int
    BY <1>1, <1>3
  <2> DEFINE u == y + a
             v == qy + q
  <2>2. u \in Int /\ v \in Int /\ u = b * v + m
    BY <1>4, <2>1
  <2> HIDE DEF u, v
  <2>3. u % b = m
    BY <1>3, <2>2, DivUnique
  <2> QED BY <2>3 DEF u
<1> QED BY <1>5, <1>6

LEMMA ModSmall ==
  ASSUME NEW b \in Nat \ {0}, NEW r \in 0..(b - 1)
  PROVE  r % b = r /\ (r + b) % b = r /\ b % b = 0
<1>1. r \in Int /\ r = b * 0 + r /\ r + b \in Int /\ r + b = b * 1 + r /\ b \in Int
      /\ b = b * 1 + 0 /\ 0 \in 0..(b - 1)
  OBVIOUS
<1>2. r % b = r /\ b % b = 0
  BY <1>1, DivUnique
<1> DEFINE y == r + b
<1>3. y \in Int /\ y = b * 1 + r
  BY <1>1
<1> HIDE DEF y
<1>4. y % b = r
  BY <1>3, DivUnique
<1> QED BY <1>2, <1>4 DEF y
-----------------------------------------------------------------------------
(* Status calls.                                                           *)
LEMMA ModeFacts ==
  ASSUME NEW m \in Modes
  PROVE  /\ m.buf \in BOOLEAN /\ m.cyclic \in BOOLEAN /\ m.ignore \in BOOLEAN
         /\ m.ignore => m.buf
<1>1. \/ m = Mode(FALSE, FALSE, FALSE) \/ m = Mode(TRUE, FALSE, FALSE)
      \/ m = Mode(TRUE, TRUE, FALSE) \/ m = Mode(TRUE, TRUE, TRUE)
  BY DEF Modes
<1>2. CASE m = Mode(FALSE, FALSE, FALSE)
  BY <1>2 DEF Mode
<1>3. CASE m = Mode(TRUE, FALSE, FALSE)
  BY <1>3 DEF Mode
<1>4. CASE m = Mode(TRUE, TRUE, FALSE)
  BY <1>4 DEF Mode
<1>5. CASE m = Mode(TRUE, TRUE, TRUE)
  BY <1>5 DEF Mode
<1> QED BY <1>1, <1>2, <1>3, <1>4, <1>5

LEMMA NewScansFacts ==
  ASSUME NEW l, Keeps(l), NEW n \in 0..MaxScans, NEW k, k = NewScans(l, n)
  PROVE  /\ k \in Nat /\ (k = 0 <=> n = l.count)
         /\ k <= l.len => n = l.count + k
<1>1. /\ l.count \in Nat /\ l.count <= MaxScans /\ l.len \in Nat /\ l.len + MaxScans < Top
      /\ MaxScans \in Nat /\ Top \in Nat
  BY SessionAssumption DEF Keeps, Handles
<1>2. k = IF l.count > n THEN n + Top - l.count ELSE n - l.count
  BY DEF NewScans
<1> QED BY <1>1, <1>2

(* Where the head goes.                                                    *)
LEMMA MovedFacts ==
  ASSUME NEW l, Keeps(l), l.len > 0, NEW real \in Nat, NEW m, m = Moved(l, real)
  PROVE  /\ m.open = l.open /\ m.changed = l.changed /\ m.conf = l.conf
         /\ m.len = l.len /\ m.mode = l.mode /\ m.mapped = l.mapped
         /\ m \in Handles /\ m.head = (l.head + real) % l.len /\ m.head \in 0..(l.len - 1)
         /\ m.tail = l.tail /\ m.avail \in Int
         /\ l.tail \in 0..l.len => m.avail \in 0..l.len
         /\ m.avail = IF l.tail = m.head \/ TooMuch(l, real) \/ l.avail = l.len THEN l.len
                      ELSE IF l.tail > m.head THEN (l.len - l.tail) + m.head
                      ELSE m.head - l.tail
<1> DEFINE head == (l.head + real) % l.len
           avail == IF l.tail = head \/ TooMuch(l, real) \/ l.avail = l.len THEN l.len
                    ELSE IF l.tail > head THEN (l.len - l.tail) + head ELSE head - l.tail
<1>1. /\ l \in Handles /\ l.head \in Int /\ l.tail \in Int /\ l.len \in Nat \ {0}
  BY DEF Keeps, Handles
<1>2. head \in 0..(l.len - 1)
  <2>1. l.head + real \in Int
    BY <1>1
  <2> QED BY <1>1, <2>1, ModRange
<1>3. m = [l EXCEPT !.head = head, !.avail = avail]
  BY DEF Moved, Between
<1> HIDE DEF head
<1>4. avail \in Int /\ (l.tail \in 0..l.len => avail \in 0..l.len)
  BY <1>1, <1>2
<1>5. avail = IF l.tail = head \/ TooMuch(l, real) \/ l.avail = l.len THEN l.len
              ELSE IF l.tail > head THEN (l.len - l.tail) + head ELSE head - l.tail
  OBVIOUS
<1> HIDE DEF avail
<1>6. m \in Handles /\ m.head = head /\ m.tail = l.tail /\ m.avail = avail
  <2>1. head \in Int /\ avail \in Int
    BY <1>2, <1>4
  <2> QED BY <1>1, <1>3, <2>1 DEF Handles
<1>7. /\ m.open = l.open /\ m.changed = l.changed /\ m.conf = l.conf
      /\ m.len = l.len /\ m.mode = l.mode /\ m.mapped = l.mapped
  BY <1>1, <1>3 DEF Handles
<1> QED BY <1>2, <1>4, <1>5, <1>6, <1>7 DEF head

(* What processNewData makes of the handle: p.lib.                         *)
Asking(l, d, real) ==
  IF d.error = "None" THEN ProcessNewData(l, d.count, real)
  ELSE [lib |-> l, err |-> d.error, lost |-> d.count # l.count]

LEMMA AskingFacts ==
  ASSUME NEW l, Keeps(l), NEW d, Owes(d), NEW real \in Nat, NEW p, p = Asking(l, d, real)
  PROVE  /\ \/ p.lib = l /\ p.lost
            \/ p.lib = l /\ ~p.lost /\ d.count = l.count
            \/ /\ p.lib = Moved(l, real) /\ l.len > 0 /\ p.err = "None"
               /\ p.lost <=> TooMuch(l, real)
               /\ ~Skipped(l, d.count) /\ NewScans(l, d.count) # 0
         /\ p.err \in {"None", "Overrun"} /\ p.lost \in BOOLEAN
<1>1. d.count \in 0..MaxScans /\ d.error \in {"None", "Overrun"}
  <2>1. /\ d.count \in Nat /\ d.waiting \in Nat /\ d.taken \in Nat /\ d.taken <= MaxScans
        /\ d.count + d.waiting <= d.taken /\ MaxScans \in Nat
    BY SessionAssumption DEF Owes, Drivers
  <2> QED BY <2>1 DEF Owes, Drivers
<1> DEFINE k == NewScans(l, d.count)
<1>2. k \in Nat /\ (k = 0 <=> d.count = l.count) /\ (k <= l.len => d.count = l.count + k)
  BY <1>1, NewScansFacts
<1>3. /\ l.mode.buf \in BOOLEAN /\ l.mode.ignore \in BOOLEAN /\ (l.mode.ignore => l.mode.buf)
      /\ l.len \in Nat /\ (l.mode.buf => l.len > 0)
  BY ModeFacts DEF Keeps, Handles
<1>4. CASE d.error # "None"
  <2>1. p = [lib |-> l, err |-> d.error, lost |-> d.count # l.count]
    BY <1>4 DEF Asking
  <2>2. p.lib = l /\ p.err = d.error /\ p.lost = (d.count # l.count)
    BY <2>1
  <2> QED BY <1>1, <2>2
<1>5. CASE d.error = "None" /\ k = 0
  <2>1. p = [lib |-> l, err |-> "None", lost |-> FALSE]
    BY <1>5 DEF Asking, ProcessNewData
  <2>2. p.lib = l /\ p.err = "None" /\ p.lost = FALSE /\ d.count = l.count
    BY <1>2, <1>5, <2>1
  <2> QED BY <2>2
<1>6. CASE d.error = "None" /\ k # 0 /\ Skipped(l, d.count)
  <2>1. p = [lib |-> l, err |-> IF l.file = "open" THEN "Overrun" ELSE "None", lost |-> TRUE]
    BY <1>6 DEF Asking, ProcessNewData
  <2>2. p.lib = l /\ p.err \in {"None", "Overrun"} /\ p.lost = TRUE
    BY <2>1
  <2> QED BY <2>2
<1>7. CASE d.error = "None" /\ k # 0 /\ ~Skipped(l, d.count) /\ TooMuch(l, real) /\ ~l.mode.ignore
  <2>1. p = [lib |-> l, err |-> "Overrun", lost |-> TRUE]
    BY <1>7 DEF Asking, ProcessNewData
  <2>2. p.lib = l /\ p.err = "Overrun" /\ p.lost = TRUE
    BY <2>1
  <2> QED BY <2>2
<1>8. CASE d.error = "None" /\ k # 0 /\ ~Skipped(l, d.count) /\ ~(TooMuch(l, real) /\ ~l.mode.ignore)
  <2>1. p = [lib |-> Moved(l, real), err |-> "None", lost |-> TooMuch(l, real)]
    BY <1>8 DEF Asking, ProcessNewData
  <2>2. p.lib = Moved(l, real) /\ p.err = "None" /\ p.lost = TooMuch(l, real)
    BY <2>1
  <2>3. TooMuch(l, real) \in BOOLEAN
    BY DEF TooMuch
  <2>4. l.len > 0
    <3>1. ~(k > l.len /\ ~l.mode.ignore)
      BY <1>8 DEF Skipped
    <3> HIDE DEF k
    <3> QED BY <1>2, <1>3, <1>8, <3>1
  <2> QED BY <1>8, <2>2, <2>3, <2>4
<1> QED BY <1>4, <1>5, <1>6, <1>7, <1>8

(* What the handle holds after a status call.                              *)
LEMMA StatusFacts ==
  ASSUME NEW l, Keeps(l), NEW d, Owes(d), NEW real \in Nat, NEW g, g = Status(l, d, real)
  PROVE  /\ Keeps(g.lib) /\ g.lib.open = l.open /\ g.lib.changed = l.changed
         /\ g.lib.conf = l.conf /\ g.lib.len = l.len /\ g.lib.mode = l.mode
         /\ g.lib.mapped = l.mapped /\ g.lib.tail = l.tail /\ g.lib.count = d.count
         /\ g.lib.xfer <=> l.xfer /\ d.xfer
         /\ g.lib.acq <=> l.acq /\ d.acq
         /\ g.scans = IF l.mode.buf THEN g.lib.avail ELSE d.count
         /\ g.scans \in Int
         /\ View(l) => View(g.lib)
         /\ g.err = Asking(l, d, real).err /\ g.lost = Asking(l, d, real).lost
         /\ g.lib.head = Asking(l, d, real).lib.head
         /\ g.lib.avail = Asking(l, d, real).lib.avail
<1> DEFINE p == Asking(l, d, real)
           q == p.lib
<1>1. /\ p.lib = l \/ (p.lib = Moved(l, real) /\ l.len > 0)
      /\ p.err \in {"None", "Overrun"} /\ p.lost \in BOOLEAN
  BY AskingFacts
<1>2. l \in Handles /\ l.err = "None" /\ l.len + MaxScans < Top /\ (l.mode.buf => l.len > 0)
  BY DEF Keeps, Handles
<1>3. d \in Drivers /\ d.count \in 0..MaxScans /\ d.acq \in BOOLEAN /\ d.xfer \in BOOLEAN
  <2>1. /\ d.count \in Nat /\ d.waiting \in Nat /\ d.taken \in Nat /\ d.taken <= MaxScans
        /\ d.count + d.waiting <= d.taken /\ MaxScans \in Nat
    BY SessionAssumption DEF Owes, Drivers
  <2> QED BY <2>1 DEF Owes, Drivers
<1>4. g = [err   |-> IF l.err # "None" THEN l.err ELSE p.err,
           lost  |-> p.lost,
           lucky |-> NewScans(l, d.count) \in {0, real} \/ p.err # "None" \/ Skipped(l, d.count),
           scans |-> IF l.mode.buf THEN p.lib.avail ELSE d.count,
           lib   |-> [p.lib EXCEPT !.err = "None", !.count = d.count,
                        !.xfer = l.xfer /\ d.xfer, !.acq = StaysActive(l, d),
                        !.file = IF l.acq /\ ~d.acq /\ @ = "open" THEN "named" ELSE @]]
  BY DEF Status, Asking
<1> HIDE DEF p
<1>5. /\ q \in Handles /\ q.open = l.open /\ q.changed = l.changed /\ q.conf = l.conf
      /\ q.len = l.len /\ q.mode = l.mode /\ q.mapped = l.mapped /\ q.tail = l.tail
      /\ q.head \in Int /\ q.avail \in Int
      /\ View(l) => View(q)
  <2>1. CASE q = l
    BY <1>2, <2>1 DEF Handles
  <2>2. CASE q = Moved(l, real) /\ l.len > 0
    <3> HIDE DEF q
    <3>1. /\ q \in Handles /\ q.head \in 0..(l.len - 1)
          /\ q.tail = l.tail /\ q.avail \in Int
          /\ l.tail \in 0..l.len => q.avail \in 0..l.len
          /\ q.open = l.open /\ q.changed = l.changed /\ q.conf = l.conf
          /\ q.len = l.len /\ q.mode = l.mode /\ q.mapped = l.mapped
      BY <2>2, MovedFacts
    <3>2. l.len \in Nat \ {0}
      BY <1>2, <2>2 DEF Handles
    <3> QED BY <3>1, <3>2 DEF View
  <2> QED BY <1>1, <2>1, <2>2
<1>6. /\ g.err = p.err /\ g.lost = p.lost /\ g.scans = (IF l.mode.buf THEN q.avail ELSE d.count)
      /\ g.lib = [q EXCEPT !.err = "None", !.count = d.count,
                        !.xfer = l.xfer /\ d.xfer, !.acq = l.acq /\ d.acq,
                        !.file = IF l.acq /\ ~d.acq /\ @ = "open" THEN "named" ELSE @]
  BY <1>2, <1>4 DEF StaysActive
<1> HIDE DEF q
<1> DEFINE m == g.lib
<1>7. /\ m \in Handles /\ m.open = q.open /\ m.changed = q.changed /\ m.conf = q.conf
      /\ m.len = q.len /\ m.mode = q.mode /\ m.mapped = q.mapped /\ m.tail = q.tail
      /\ m.head = q.head /\ m.avail = q.avail /\ m.count = d.count
      /\ m.xfer = (l.xfer /\ d.xfer) /\ m.acq = (l.acq /\ d.acq)
  <2>1. (l.xfer /\ d.xfer) \in BOOLEAN /\ (l.acq /\ d.acq) \in BOOLEAN
    OBVIOUS
  <2>2. (IF l.acq /\ ~d.acq /\ q.file = "open" THEN "named" ELSE q.file)
          \in {"none", "named", "open"}
    BY <1>5 DEF Handles
  <2> DEFINE x == l.xfer /\ d.xfer
             a == l.acq /\ d.acq
             f == IF l.acq /\ ~d.acq /\ q.file = "open" THEN "named" ELSE q.file
  <2>3. m = [q EXCEPT !.err = "None", !.count = d.count, !.xfer = x, !.acq = a, !.file = f]
    BY <1>6
  <2>4. x \in BOOLEAN /\ a \in BOOLEAN /\ f \in {"none", "named", "open"}
    BY <2>1, <2>2
  <2> HIDE DEF x, a, f, m
  <2>5. /\ m \in Handles /\ m.open = q.open /\ m.changed = q.changed /\ m.conf = q.conf
        /\ m.len = q.len /\ m.mode = q.mode /\ m.mapped = q.mapped /\ m.tail = q.tail
        /\ m.head = q.head /\ m.avail = q.avail /\ m.count = d.count
        /\ m.xfer = x /\ m.acq = a
    BY <1>3, <1>5, <2>3, <2>4 DEF Handles
  <2> QED BY <2>5 DEF x, a
<1> HIDE DEF m
<1>8. Keeps(m)
  BY <1>2, <1>5, <1>7 DEF Keeps
<1>9. View(l) => View(m)
  BY <1>5, <1>7 DEF View
<1>10. g.scans \in Int
  BY <1>3, <1>5, <1>6
<1>11. g.scans = IF l.mode.buf THEN m.avail ELSE d.count
  BY <1>6, <1>7
<1> QED BY <1>5, <1>6, <1>7, <1>8, <1>9, <1>10, <1>11 DEF m, p, q
-----------------------------------------------------------------------------
(* The head follows the driver, and the tail what the program has read.    *)
Follows(l, read) ==
  /\ ~l.mode.ignore /\ l.len \in Nat \ {0} /\ read \in Nat /\ l.count \in Nat /\ read <= l.count
  /\ l.tail \in 0..l.len /\ l.avail \in 0..l.len
  /\ l.head = l.count % l.len
  /\ l.tail % l.len = read % l.len
  /\ l.avail <= l.count - read

LEMMA StatusFollows ==
  ASSUME NEW l, Keeps(l), NEW d, Owes(d), NEW real \in Nat, NEW g, g = Status(l, d, real),
         NEW read, Follows(l, read), ~g.lost, g.lucky
  PROVE  Follows(g.lib, read)
<1> DEFINE p == Asking(l, d, real)
           b == l.len
           m == g.lib
<1>1. /\ m.len = b /\ m.mode = l.mode /\ m.tail = l.tail /\ m.count = d.count
      /\ m.head = p.lib.head /\ m.avail = p.lib.avail /\ g.lost = p.lost
  BY StatusFacts
<1>2. d.count \in 0..MaxScans /\ MaxScans \in Nat
  <2>1. /\ d.count \in Nat /\ d.waiting \in Nat /\ d.taken \in Nat /\ d.taken <= MaxScans
        /\ d.count + d.waiting <= d.taken /\ MaxScans \in Nat
    BY SessionAssumption DEF Owes, Drivers
  <2> QED BY <2>1
<1>3. g.lucky = (NewScans(l, d.count) \in {0, real} \/ p.err # "None" \/ Skipped(l, d.count))
  BY DEF Status, Asking
<1>4. \/ p.lib = l /\ d.count = l.count
      \/ /\ p.lib = Moved(l, real) /\ l.len > 0 /\ p.err = "None" /\ ~TooMuch(l, real)
         /\ ~Skipped(l, d.count) /\ NewScans(l, d.count) # 0
  BY <1>1, AskingFacts
<1> HIDE DEF p, m
<1>5. CASE p.lib = l /\ d.count = l.count
  BY <1>1, <1>5 DEF Follows, m
<1>6. CASE /\ p.lib = Moved(l, real) /\ l.len > 0 /\ p.err = "None" /\ ~TooMuch(l, real)
           /\ ~Skipped(l, d.count) /\ NewScans(l, d.count) # 0
  <2> DEFINE k == NewScans(l, d.count)
             q == p.lib
  <2>1. k = real /\ k # 0
    BY <1>3, <1>6
  <2>2. k <= b /\ k \in Nat /\ d.count = l.count + k
    <3>1. k \in Nat /\ (k <= l.len => d.count = l.count + k)
      BY <1>2, NewScansFacts
    <3>2. ~(k > l.len)
      BY <1>6 DEF Skipped, Follows
    <3>3. l.len \in Nat
      BY DEF Follows
    <3> HIDE DEF k
    <3> QED BY <3>1, <3>2, <3>3
  <2> HIDE DEF k
  <2>3. /\ q.head = (l.head + real) % b /\ q.head \in 0..(b - 1)
        /\ l.tail \in 0..b => q.avail \in 0..b
        /\ q.avail = IF l.tail = q.head \/ TooMuch(l, real) \/ l.avail = b THEN b
                      ELSE IF l.tail > q.head THEN (b - l.tail) + q.head
                      ELSE q.head - l.tail
    <3> HIDE DEF q
    <3> QED BY <1>6, MovedFacts DEF q
  <2>4. /\ b \in Nat \ {0} /\ read \in Nat /\ l.count \in Nat /\ read <= l.count
        /\ l.tail \in 0..b /\ l.avail \in 0..b /\ l.head = l.count % b
        /\ l.tail % b = read % b /\ l.avail <= l.count - read /\ ~l.mode.ignore
    BY DEF Follows
  <2> HIDE DEF q, b
  <2> DEFINE c == d.count
             gap == IF l.tail > q.head THEN (b - l.tail) + q.head ELSE q.head - l.tail
  <2>5. c \in Nat /\ read < c /\ c = l.count + real /\ read <= c
    BY <1>2, <2>1, <2>2, <2>4
  <2>6. q.head = c % b
    <3> DEFINE n == l.count
               h == l.head
    <3>1. n \in Int /\ b \in Nat \ {0} /\ h = n % b /\ real \in Int
      BY <2>4
    <3> HIDE DEF n, h
    <3>2. h \in 0..(b - 1)
      BY <3>1, ModRange
    <3>3. h \in Int /\ h % b = n % b
      <4>1. h % b = h
        BY <3>1, <3>2, ModSmall
      <4> QED BY <3>1, <3>2, <4>1
    <3>4. (h + real) % b = (n + real) % b
      BY <3>1, <3>3, ModMove
    <3> QED BY <2>3, <2>5, <3>4 DEF n, h
  <2> HIDE DEF c, gap
  <2>7. /\ gap <= c - read
        /\ l.tail = q.head /\ read < c => b <= c - read
    <3> DEFINE t == l.tail
               h == q.head
    <3>1. /\ t \in 0..b /\ h \in 0..(b - 1) /\ read <= c /\ t % b = read % b /\ h = c % b
          /\ b \in Nat \ {0} /\ read \in Nat /\ c \in Nat
      BY <2>3, <2>4, <2>5, <2>6
    <3>2. gap = IF t > h THEN (b - t) + h ELSE h - t
      BY DEF gap
    <3> HIDE DEF t, h
    <3>3. gap <= c - read /\ (t = h /\ read < c => b <= c - read)
      BY <3>1, <3>2, Apart
    <3> QED BY <3>3 DEF t, h
  <2>8. q.avail <= c - read
    <3>1. q.avail = IF l.tail = q.head \/ l.avail = b THEN b ELSE gap
      BY <1>6, <2>3 DEF gap
    <3>2. CASE l.tail = q.head
      BY <2>5, <2>7, <3>1, <3>2
    <3>3. CASE l.tail # q.head /\ l.avail = b
      BY <2>4, <2>5, <3>1, <3>3
    <3>4. CASE l.tail # q.head /\ l.avail # b
      BY <2>7, <3>1, <3>4
    <3> QED BY <3>2, <3>3, <3>4
  <2>9. /\ m.len = b /\ m.mode = l.mode /\ m.tail = l.tail /\ m.count = c /\ m.head = q.head
        /\ m.avail = q.avail
    BY <1>1 DEF c, q
  <2>10. q.avail \in 0..b
    BY <2>3, <2>4
  <2> QED BY <2>4, <2>5, <2>6, <2>8, <2>9, <2>10 DEF Follows, m
<1> QED BY <1>4, <1>5, <1>6
-----------------------------------------------------------------------------
(* What daqAdcTransferBufData copies.                                      *)
LEMMA ModTurn ==
  ASSUME NEW b \in Nat \ {0}, NEW x \in Int
  PROVE  (x + b) % b = x % b
<1> DEFINE q == x \div b
           r == x % b
           y == x + b
<1>1. r \in 0..(b - 1) /\ x = b * q + r /\ q \in Int
  BY ModRange
<1> HIDE DEF q, r
<1>2. y \in Int /\ y = b * (q + 1) + r
  <2>1. b * (q + 1) = b * q + b /\ b * q \in Int
    BY <1>1
  <2> QED BY <1>1, <2>1
<1> DEFINE v == q + 1
<1>3. v \in Int /\ y = b * v + r
  BY <1>1, <1>2
<1> HIDE DEF y, v
<1>4. y % b = r
  BY <1>1, <1>2, <1>3, DivUnique
<1> QED BY <1>4 DEF y, r

LEMMA TailFacts ==
  ASSUME NEW l, View(l), NEW n \in Nat, n <= l.avail, NEW t, t = NewTail(l, n)
  PROVE  /\ t \in Int
         /\ InBounds(l, n) => t \in 0..l.len /\ t % l.len = (l.tail + n) % l.len
<1> DEFINE b == l.len
           tail == l.tail
           head == l.head
<1>1. /\ b \in Nat \ {0} /\ tail \in 0..b /\ head \in 0..(b - 1) /\ n <= b
  BY DEF View
<1>2. Wraps(l, n) <=> tail > head /\ n > b - tail
  BY DEF Wraps
<1>3. t = IF Wraps(l, n) THEN n - (b - tail)
          ELSE IF tail > head /\ n = b - tail THEN 0
          ELSE IF tail <= head /\ n = b THEN tail
          ELSE tail + n
  BY DEF NewTail
<1>4. InBounds(l, n) /\ ~Wraps(l, n) => tail + n <= b
  <2> SUFFICES ASSUME InBounds(l, n), ~Wraps(l, n), n # 0 PROVE tail + n <= b
    BY <1>1
  <2>1. n - 1 \in 0..(n - 1) /\ n - 1 \in Nat
    OBVIOUS
  <2>2. Cell(l, n, n - 1) = tail + (n - 1)
    BY DEF Cell
  <2>3. Cell(l, n, n - 1) < b
    BY <2>1 DEF InBounds
  <2> HIDE DEF b, tail, head
  <2> QED BY <1>1, <2>2, <2>3
<1> HIDE DEF b, tail, head
<1>5. t \in Int
  BY <1>1, <1>3
<1>6. ASSUME InBounds(l, n) PROVE t \in 0..b /\ t % b = (tail + n) % b
  <2>1. tail + n \in Int /\ tail \in Int /\ b \in Int
    BY <1>1
  <2>2. CASE Wraps(l, n)
    <3>1. t = n - (b - tail) /\ t \in 0..b /\ t + b = tail + n
      BY <1>1, <1>2, <1>3, <2>2
    <3>2. (t + b) % b = t % b
      BY <1>1, <1>5, ModTurn
    <3> QED BY <3>1, <3>2
  <2>3. CASE ~Wraps(l, n) /\ tail > head /\ n = b - tail
    <3>1. t = 0 /\ t \in 0..b /\ t + b = tail + n
      BY <1>1, <1>3, <2>3
    <3>2. (t + b) % b = t % b
      BY <1>1, <1>5, ModTurn
    <3> QED BY <3>1, <3>2
  <2>4. CASE ~Wraps(l, n) /\ ~(tail > head /\ n = b - tail) /\ tail <= head /\ n = b
    <3>1. t = tail /\ t \in 0..b /\ t + b = tail + n
      BY <1>1, <1>3, <2>4
    <3>2. (t + b) % b = t % b
      BY <1>1, <1>5, ModTurn
    <3> QED BY <3>1, <3>2
  <2>5. CASE ~Wraps(l, n) /\ ~(tail > head /\ n = b - tail) /\ ~(tail <= head /\ n = b)
    <3>1. t = tail + n /\ t \in 0..b
      BY <1>1, <1>3, <1>4, <1>6, <2>5
    <3> QED BY <3>1
  <2> QED BY <2>2, <2>3, <2>4, <2>5
<1> QED BY <1>5, <1>6 DEF b, tail

(* A copy inside the buffer leaves the tail behind the scans read.         *)
StillFollows(l, n, m) ==
  \A read : InBounds(l, n) /\ Follows(l, read) => Follows(m, read + n)

LEMMA LoadedFacts ==
  ASSUME NEW l, Keeps(l), View(l), NEW n \in Nat, n <= l.avail, NEW m, m = Loaded(l, n)
  PROVE  /\ Keeps(m) /\ m.open = l.open /\ m.changed = l.changed /\ m.conf = l.conf
         /\ m.len = l.len /\ m.mode = l.mode /\ m.mapped = l.mapped /\ m.count = l.count
         /\ m.xfer = l.xfer /\ m.acq = l.acq
         /\ InBounds(l, n) => View(m)
         /\ StillFollows(l, n, m)
<1> DEFINE t == NewTail(l, n)
           gap == IF t > l.head THEN (l.len - t) + l.head ELSE l.head - t
           b == l.len
<1>1. /\ l \in Handles /\ l.len + MaxScans < Top /\ (l.mode.buf => l.len > 0)
      /\ l.head \in 0..(b - 1) /\ b \in Nat \ {0} /\ l.tail \in 0..b /\ l.avail \in 0..b
  BY DEF Keeps, View
<1>2. t \in Int /\ (InBounds(l, n) => t \in 0..b /\ t % b = (l.tail + n) % b)
  BY TailFacts
<1>3. m = [l EXCEPT !.tail = t, !.avail = gap]
  BY DEF Loaded, Between
<1> HIDE DEF t
<1>4. gap \in Int /\ (InBounds(l, n) => gap \in 0..b)
  BY <1>1, <1>2
<1>5. gap = IF t > l.head THEN (b - t) + l.head ELSE l.head - t
  OBVIOUS
<1> HIDE DEF gap
<1>6. /\ m \in Handles /\ m.open = l.open /\ m.changed = l.changed /\ m.conf = l.conf
      /\ m.len = l.len /\ m.mode = l.mode /\ m.mapped = l.mapped /\ m.count = l.count
      /\ m.xfer = l.xfer /\ m.acq = l.acq /\ m.tail = t /\ m.avail = gap /\ m.head = l.head
  BY <1>1, <1>2, <1>3, <1>4 DEF Handles
<1>7. Keeps(m)
  BY <1>1, <1>6 DEF Keeps
<1>8. InBounds(l, n) => View(m)
  BY <1>1, <1>2, <1>4, <1>6 DEF View
<1>9. ASSUME NEW read, InBounds(l, n), Follows(l, read) PROVE Follows(m, read + n)
  <2> DEFINE c == l.count
             e == read + n
             h == l.head
             tail == l.tail
  <2>1. /\ read \in Nat /\ c \in Nat /\ read <= c /\ h = c % b /\ tail % b = read % b
        /\ l.avail <= c - read /\ ~l.mode.ignore
    BY <1>9 DEF Follows
  <2>2. e \in Nat /\ e <= c
    BY <1>1, <2>1
  <2>3. t \in 0..b /\ t % b = (tail + n) % b /\ h \in 0..(b - 1) /\ tail \in Int /\ read \in Int
        /\ n \in Int /\ b \in Nat \ {0}
    BY <1>1, <1>2, <1>9, <2>1
  <2>4. gap = IF t > h THEN (b - t) + h ELSE h - t
    BY <1>5
  <2>5. e = read + n
    OBVIOUS
  <2> HIDE DEF c, e, h, tail
  <2>6. (tail + n) % b = (read + n) % b
    BY <2>1, <2>3, ModMove
  <2>7. t % b = e % b
    BY <2>3, <2>5, <2>6
  <2>8. gap <= c - e /\ gap \in 0..(b - 1)
    <3> HIDE DEF b
    <3> QED BY <2>1, <2>2, <2>3, <2>4, <2>7, Apart
  <2>9. gap \in 0..b
    BY <2>3, <2>8
  <2>10. Follows(m, e)
    <3>1. m.count = c /\ m.head = h /\ m.tail = t /\ m.avail = gap /\ m.len = b /\ m.mode = l.mode
      BY <1>6 DEF c, h
    <3> HIDE DEF b
    <3> QED BY <2>1, <2>2, <2>3, <2>7, <2>8, <2>9, <3>1 DEF Follows
  <2> QED BY <2>5, <2>10
<1> QED BY <1>6, <1>7, <1>8, <1>9 DEF StillFollows

(* The driver has scan s + 1 in the cell of s, unless it has lapped it.    *)
LEMMA ScanOfCell ==
  ASSUME NEW d, d.count \in Nat, d.size \in Nat \ {0}, NEW s \in Nat, s < d.count,
         d.count - s <= d.size, NEW p, p = s % d.size
  PROVE  ScanIn(d, p) = s + 1
<1> DEFINE c == d.count
           b == d.size
           q == s \div b
           r == (c - 1) - s
           a == (c - 1) - p
<1>1. p \in 0..(b - 1) /\ s = b * q + p /\ q \in Int
  <2>1. s \in Int /\ b \in Nat \ {0} /\ p = s % b /\ q = s \div b
    OBVIOUS
  <2> HIDE DEF b, q
  <2> QED BY <2>1, ModRange
<1>2. c \in Nat /\ b \in Nat \ {0} /\ s < c /\ c - s <= b
  OBVIOUS
<1>3. ScanIn(d, p) = IF c = 0 \/ p >= b \/ p > c - 1 THEN 0
                     ELSE p + 1 + (((c - 1) - p) \div b) * b
  BY DEF ScanIn
<1> HIDE DEF c, b, q
<1>4. r \in 0..(b - 1)
  BY <1>2
<1>5. q >= 0
  <2>1. /\ q <= -1 => b * q <= -b
        /\ b * q \in Int
    BY <1>1, <1>2, Multiples
  <2> QED BY <1>1, <1>2, <2>1
<1>6. a = b * q + r /\ a \in Int
  <2>1. b * q \in Int
    BY <1>1, <1>2
  <2> QED BY <1>1, <1>2, <2>1
<1>7. a \div b = q
  <2> HIDE DEF a, r
  <2> QED BY <1>1, <1>2, <1>4, <1>6, DivUnique
<1>8. p <= c - 1 /\ c # 0 /\ ~(p >= b)
  <2>1. b * q >= 0 /\ b * q \in Int
    <3>1. /\ q >= 1 => b * q >= b
          /\ q = 0 => b * q = 0
          /\ b * q \in Int
      BY <1>1, <1>2, Multiples
    <3> QED BY <1>1, <1>2, <1>5, <3>1
  <2> QED BY <1>1, <1>2, <2>1
<1>9. ScanIn(d, p) = p + 1 + q * b
  BY <1>1, <1>2, <1>3, <1>7, <1>8
<1>10. q * b = b * q /\ b * q \in Int
  BY <1>1, <1>2
<1> QED BY <1>1, <1>9, <1>10
-----------------------------------------------------------------------------
(* The inductive invariant.                                                *)

(* An example closes the device in its last call, and opens it first.      *)
Programmed ==
  /\ prog \in [name: Examples \cup {"any"}, at: Nat]
  /\ prog.name # "any" =>
       /\ prog.at \in 1..(Len(Script(prog.name)) + 1)
       /\ Has(call.todo, "closed") => prog.at = Len(Script(prog.name)) + 1
  /\ ~lib.open =>
       \/ call.todo = Open.todo
       \/ /\ call.todo = <<>>
          /\ prog.name = "any" \/ prog.at \in {1, Len(Script(prog.name)) + 1}

Idle ==
  /\ LibraryKnows
  /\ ~lib.open => ~drv.acq /\ ~drv.xfer
  /\ call.todo # <<>> /\ call.todo[1] = "disarmStat" => ~drv.acq

(* Until daqOpen sets its defaults, and while apiAdcReadSample runs, the   *)
(* driver may have another configuration than the handle.                  *)
Opening == {Open.todo, <<"disarm", "stop", "opened", "arm", "disarm">>,
            <<"stop", "opened", "arm", "disarm">>, <<"unmap", "opened", "arm", "disarm">>,
            <<"opened", "arm", "disarm">>}

Fresh == ~lib.acq /\ ~lib.xfer /\ ((~lib.open /\ call.todo = <<>>) \/ call.todo \in Opening)

ToSample(s) == s # <<>> /\ s[1] = "sampleArm"

Sampling ==
  /\ ~lib.acq /\ call.todo # <<>>
  /\ ToSample(call.todo) \/ (call.todo[1] = "backlog" /\ ToSample(Tail(call.todo)))

Obeyed == InSync /\ (~lib.changed => drv.asked = lib.conf \/ Fresh \/ Sampling)

Mapping == lib.mapped /\ lib.mode.buf /\ hist.undefined = "nothing" => View(lib)

Reading ==
  call.todo # <<>> /\ call.todo[1] \in {"bufWait", "bufCheck", "copy"} =>
    /\ lib.mode.buf /\ lib.mapped /\ call.n \in Nat
    /\ call.todo[1] = "copy" => call.n <= lib.avail

Followed ==
  hist.read # Unknown /\ lib.mode.buf /\ hist.undefined = "nothing" =>
    /\ Follows(lib, hist.read) /\ drv.size = lib.len
    /\ lib.count <= drv.count \/ (drv.count = 0 /\ ~drv.xfer)
    /\ call.todo # <<>> /\ call.todo[1] = "copy" => lib.count <= drv.count

Inv ==
  /\ Owes(drv) /\ Keeps(lib) /\ hist \in Histories /\ Going(call)
  /\ Programmed /\ Idle /\ Obeyed /\ Mapping /\ Reading /\ Followed

LEMMA InvNow ==
  ASSUME Inv
  PROVE  /\ Owes(drv) /\ Keeps(lib) /\ hist \in Histories /\ Going(call)
         /\ Programmed /\ Idle /\ Obeyed /\ Mapping /\ Reading /\ Followed
BY DEF Inv

(* Where a call is, and that it is a call of an open device.               *)
LEMMA AtFacts ==
  ASSUME Inv, NEW op, At(op)
  PROVE  /\ call.todo # <<>> /\ call.todo[1] = op /\ hist.undefined = "nothing"
         /\ op # "device" => lib.open
<1>1. /\ call.todo # <<>> /\ Head(call.todo) = op /\ hist.undefined = "nothing"
  BY DEF At
<1>2. call.todo[1] = op
  BY <1>1, OneStep, InvNow
<1>3. ~lib.open => op = "device"
  <2> SUFFICES ASSUME ~lib.open PROVE op = "device"
    OBVIOUS
  <2>1. call.todo = Open.todo
    BY <1>1, InvNow DEF Programmed
  <2>2. Head(Open.todo) = "device"
    BY DEF Open, Ops, NoCall
  <2> QED BY <1>1, <2>1, <2>2
<1> QED BY <1>1, <1>2, <1>3

(* The steps at which the driver may have another configuration.           *)
Loose == {"device", "disarm", "stop", "unmap", "opened", "backlog", "sampleArm"}

LEMMA HeadsFresh ==
  ASSUME call.todo # <<>>, call.todo[1] \notin Loose
  PROVE  ~Fresh /\ ~Sampling
<1>1. call.todo \notin Opening
  <2> SUFFICES ASSUME call.todo \in Opening PROVE call.todo[1] \in Loose
    OBVIOUS
  <2>1. Open.todo = <<"device", "disarm", "stop", "opened", "arm", "disarm">>
    BY DEF Open, Ops, NoCall
  <2> QED BY <2>1 DEF Opening, Loose
<1>2. ~Sampling
  BY DEF Sampling, ToSample, Loose
<1> QED BY <1>1, <1>2 DEF Fresh

LEMMA ProgrammedKept ==
  ASSUME Programmed, prog' = prog, Quieter, lib'.open
  PROVE  Programmed'
BY DEF Programmed, Quieter, Has

LEMMA ObeyedKept ==
  ASSUME Inv, NEW op, At(op), op \notin Loose, Quiet(drv, drv'),
         lib'.changed = lib.changed, lib'.conf = lib.conf
  PROVE  Obeyed'
<1>1. ~Fresh /\ ~Sampling
  BY AtFacts, HeadsFresh
<1>2. /\ drv.acq /\ ~lib.changed => drv.total = lib.conf
      /\ ~lib.changed => drv.asked = lib.conf
  BY <1>1, InvNow DEF Obeyed, InSync
<1>3. (drv'.acq => drv.acq) /\ drv'.total = drv.total /\ drv'.asked = drv.asked
  BY DEF Quiet
<1> QED BY <1>2, <1>3 DEF Obeyed, InSync

SameView(l, m) ==
  /\ m.len = l.len /\ m.mode = l.mode /\ m.count = l.count
  /\ m.head = l.head /\ m.tail = l.tail /\ m.avail = l.avail

LEMMA FollowedKept ==
  ASSUME Inv, Quiet(drv, drv'), SameView(lib, lib'), hist'.read \in {hist.read, Unknown},
         hist'.undefined = "nothing" => hist.undefined = "nothing",
         call' = call \/ (call'.todo # <<>> => call'.todo[1] # "copy")
  PROVE  Followed'
<1> SUFFICES ASSUME hist'.read # Unknown, lib'.mode.buf, hist'.undefined = "nothing"
    PROVE  /\ Follows(lib', hist'.read) /\ drv'.size = lib'.len
           /\ lib'.count <= drv'.count \/ (drv'.count = 0 /\ ~drv'.xfer)
           /\ call'.todo # <<>> /\ call'.todo[1] = "copy" => lib'.count <= drv'.count
  BY DEF Followed, Follows
<1>1. hist'.read = hist.read /\ lib'.mode = lib.mode
  BY DEF SameView
<1>2. /\ Follows(lib, hist.read) /\ drv.size = lib.len
      /\ lib.count <= drv.count \/ (drv.count = 0 /\ ~drv.xfer)
      /\ call.todo # <<>> /\ call.todo[1] = "copy" => lib.count <= drv.count
  BY <1>1, InvNow DEF Followed
<1>3. Follows(lib', hist'.read)
  BY <1>1, <1>2 DEF Follows, SameView
<1>4. /\ drv.count \in Nat /\ drv'.count \in Nat /\ lib.count \in Nat /\ drv'.count >= drv.count
      /\ (~drv.xfer => drv'.count = drv.count) /\ (drv'.xfer => drv.xfer) /\ drv'.size = drv.size
      /\ lib'.count = lib.count /\ lib'.len = lib.len
  BY <1>2, InvNow DEF Quiet, Owes, Drivers, Follows, SameView
<1>5. lib.count <= drv.count => lib'.count <= drv'.count
  BY <1>4
<1>6. drv.count = 0 /\ ~drv.xfer => drv'.count = 0 /\ ~drv'.xfer
  BY <1>4
<1>7. call'.todo # <<>> /\ call'.todo[1] = "copy" => call' = call
  OBVIOUS
<1> QED BY <1>2, <1>3, <1>4, <1>5, <1>6, <1>7

(* A step that leaves the driver and the handle as they are, or nearly so. *)
LEMMA PlainStep ==
  ASSUME Inv, NEW op, At(op), op \notin Loose, prog' = prog, Quiet(drv, drv'), Keeps(lib'),
         SameView(lib, lib'), lib'.open = lib.open, lib'.acq = lib.acq, lib'.xfer = lib.xfer,
         lib'.changed = lib.changed, lib'.conf = lib.conf, lib'.mapped = lib.mapped,
         hist' \in Histories, hist'.read = hist.read, Ordinary(call'), Quieter
  PROVE  Inv'
<1>1. /\ call.todo # <<>> /\ call.todo[1] = op /\ hist.undefined = "nothing" /\ lib.open
  <2>1. op # "device"
    BY DEF Loose
  <2> QED BY <2>1, AtFacts
<1>2. /\ Going(call') /\ (call'.todo # <<>> => call'.todo[1] \notin Sudden)
  BY DEF Ordinary, Calm
<1>3. /\ call'.todo # <<>> => /\ call'.todo[1] \notin {"bufWait", "bufCheck", "copy"}
                              /\ call'.todo[1] # "disarmStat" /\ call'.todo[1] # "copy"
  BY <1>2 DEF Sudden
<1>4. Owes(drv') /\ (drv'.acq => drv.acq) /\ (drv'.xfer => drv.xfer)
  BY DEF Quiet
<1>5. Programmed'
  BY <1>1, ProgrammedKept, InvNow
<1>6. Idle'
  BY <1>1, <1>3, <1>4, InvNow DEF Idle, LibraryKnows
<1>7. Obeyed'
  BY ObeyedKept
<1>8. Mapping'
  BY <1>1, InvNow DEF Mapping, View, SameView
<1>9. Reading'
  BY <1>3 DEF Reading
<1>10. Followed'
  BY <1>1, <1>3, FollowedKept
<1> QED BY <1>2, <1>4, <1>5, <1>6, <1>7, <1>8, <1>9, <1>10 DEF Inv

LEMMA RealsNat ==
  ASSUME Inv, NEW real \in Reals
  PROVE  real \in Nat
<1>1. drv.count \in 0..MaxScans
  <2>1. /\ drv.count \in Nat /\ drv.waiting \in Nat /\ drv.taken \in Nat /\ drv.taken <= MaxScans
        /\ drv.count + drv.waiting <= drv.taken /\ MaxScans \in Nat
    BY SessionAssumption, InvNow DEF Owes, Drivers
  <2> QED BY <2>1
<1>2. NewScans(lib, drv.count) \in Nat
  BY <1>1, NewScansFacts, InvNow
<1> QED BY <1>2, SessionAssumption DEF Reals

(* What the handle keeps of g, the answer to a status call.                *)
Took(l, m) ==
  /\ m.open = l.open /\ m.changed = l.changed /\ m.conf = l.conf /\ m.len = l.len
  /\ m.mode = l.mode /\ m.mapped = l.mapped /\ m.count = l.count /\ m.head = l.head
  /\ m.tail = l.tail /\ m.avail = l.avail
  /\ m.xfer <=> l.xfer

LEMMA StatusStep ==
  ASSUME Inv, NEW op, At(op), op \notin Loose, prog' = prog,
         NEW real \in Reals, NEW g, g = Status(lib, drv, real),
         drv' = [drv EXCEPT !.error = "None"],
         hist' \in Histories, hist'.read = IF g.lost THEN Unknown ELSE hist.read,
         hist'.undefined = IF g.lucky THEN hist.undefined ELSE "read",
         Keeps(lib'), Took(g.lib, lib'), drv.acq => lib'.acq,
         Going(call'), Quieter,
         call'.todo # <<>> => /\ call'.todo[1] # "disarmStat"
                              /\ call'.todo[1] \in {"bufWait", "bufCheck", "copy"} =>
                                   lib.mode.buf /\ lib.mapped /\ call'.n \in Nat
                              /\ call'.todo[1] = "copy" => call'.n <= g.lib.avail
  PROVE  Inv'
<1>1. /\ call.todo # <<>> /\ call.todo[1] = op /\ hist.undefined = "nothing" /\ lib.open
  <2>1. op # "device"
    BY DEF Loose
  <2> QED BY <2>1, AtFacts
<1>2. real \in Nat
  BY RealsNat
<1>3. /\ g.lib.open = lib.open /\ g.lib.changed = lib.changed
      /\ g.lib.conf = lib.conf /\ g.lib.len = lib.len /\ g.lib.mode = lib.mode
      /\ g.lib.mapped = lib.mapped /\ g.lib.tail = lib.tail /\ g.lib.count = drv.count
      /\ g.lib.xfer <=> lib.xfer /\ drv.xfer
      /\ View(lib) => View(g.lib)
  BY <1>2, StatusFacts, InvNow
<1>4. /\ Quiet(drv, drv') /\ drv'.count = drv.count /\ drv'.size = drv.size
      /\ drv'.acq = drv.acq /\ drv'.xfer = drv.xfer
  <2>1. Quiet(drv, drv')
    BY InvNow, QuietEnds
  <2>2. drv \in Drivers
    BY InvNow DEF Owes
  <2> QED BY <2>1, <2>2 DEF Drivers
<1>5. Owes(drv')
  BY <1>4 DEF Quiet
<1>6. Programmed'
  <2>1. lib'.open
    BY <1>1, <1>3 DEF Took
  <2> QED BY <2>1, ProgrammedKept, InvNow
<1>7. Idle'
  <2>1. lib'.open /\ (drv.xfer => lib'.xfer)
    BY <1>1, <1>3, InvNow DEF Took, Idle, LibraryKnows
  <2> QED BY <1>4, <2>1 DEF Idle, LibraryKnows
<1>8. Obeyed'
  <2>1. lib'.changed = lib.changed /\ lib'.conf = lib.conf
    BY <1>3 DEF Took
  <2> QED BY <1>4, <2>1, ObeyedKept
<1>9. Mapping'
  <2> SUFFICES ASSUME lib'.mapped, lib'.mode.buf PROVE View(lib')
    BY DEF Mapping
  <2>1. lib.mapped /\ lib.mode.buf
    BY <1>3 DEF Took
  <2>2. View(g.lib)
    BY <1>1, <1>3, <2>1, InvNow DEF Mapping
  <2> QED BY <2>2 DEF Took, View
<1>10. Reading'
  <2>1. lib'.mode = lib.mode /\ lib'.mapped = lib.mapped /\ lib'.avail = g.lib.avail
    BY <1>3 DEF Took
  <2> QED BY <2>1 DEF Reading
<1>11. Followed'
  <2> SUFFICES ASSUME hist'.read # Unknown, lib'.mode.buf, hist'.undefined = "nothing"
      PROVE  /\ Follows(lib', hist'.read) /\ drv'.size = lib'.len /\ lib'.count <= drv'.count
    BY DEF Followed, Follows
  <2>1. ~g.lost /\ hist'.read = hist.read /\ g.lucky /\ lib.mode.buf
    BY <1>3 DEF Took
  <2>2. Follows(lib, hist.read) /\ drv.size = lib.len
    BY <1>1, <2>1, InvNow DEF Followed
  <2>3. Follows(g.lib, hist.read)
    BY <1>2, <2>1, <2>2, StatusFollows, InvNow
  <2>4. Follows(lib', hist'.read)
    BY <2>1, <2>3 DEF Follows, Took
  <2>5. drv.count \in Nat
    BY InvNow DEF Owes, Drivers
  <2> QED BY <1>3, <1>4, <2>2, <2>4, <2>5 DEF Took
<1> QED BY <1>5, <1>6, <1>7, <1>8, <1>9, <1>10, <1>11 DEF Inv

(* What Asked says, for an answer with another error too.                  *)
LEMMA AskedFacts ==
  ASSUME Inv, NEW g, g.lost \in BOOLEAN, g.lucky \in BOOLEAN, Asked(g)
  PROVE  /\ drv' = [drv EXCEPT !.error = "None"] /\ hist' \in Histories
         /\ hist'.read = IF g.lost THEN Unknown ELSE hist.read
         /\ hist'.undefined = IF g.lucky THEN hist.undefined ELSE "read"
<1> DEFINE r == IF g.lost THEN Unknown ELSE hist.read
           f == IF g.err = "None" THEN hist.failed ELSE hist.failed \cup {Cause}
           u == IF g.lucky THEN hist.undefined ELSE "read"
<1>1. hist' = [hist EXCEPT !.read = r, !.failed = f, !.undefined = u]
  BY DEF Asked
<1>2. hist \in Histories
  BY InvNow
<1>3. r \in Int
  BY <1>2 DEF Histories, Unknown
<1>4. f \in SUBSET {"library", "device"}
  BY <1>2 DEF Histories, Cause
<1>5. u \in {"nothing", "free", "read", "copy"}
  BY <1>2 DEF Histories
<1> HIDE DEF r, f, u
<1>6. hist' \in Histories /\ hist'.read = r /\ hist'.undefined = u
  BY <1>1, <1>2, <1>3, <1>4, <1>5 DEF Histories
<1> QED BY <1>6 DEF Asked, r, u

LEMMA AnswerFacts ==
  ASSUME Inv, NEW real \in Reals, NEW g, g = Status(lib, drv, real)
  PROVE  /\ g.lost \in BOOLEAN /\ g.lucky \in BOOLEAN /\ Keeps(g.lib) /\ Took(g.lib, g.lib)
         /\ g.lib.acq <=> lib.acq /\ drv.acq
         /\ drv.acq => g.lib.acq
         /\ g.scans = IF lib.mode.buf THEN g.lib.avail ELSE drv.count
         /\ g.scans \in Int
         /\ \A x : [g EXCEPT !.err = x].lost = g.lost /\ [g EXCEPT !.err = x].lucky = g.lucky
         /\ lib.mapped /\ lib.mode.buf /\ hist.undefined = "nothing" => View(g.lib)
<1>1. real \in Nat
  BY RealsNat
<1>2. /\ Keeps(g.lib) /\ g.lost = Asking(lib, drv, real).lost
      /\ g.lib.acq <=> lib.acq /\ drv.acq
      /\ g.scans = IF lib.mode.buf THEN g.lib.avail ELSE drv.count
      /\ g.scans \in Int
      /\ View(lib) => View(g.lib)
  BY <1>1, StatusFacts, InvNow
<1>3. Asking(lib, drv, real).lost \in BOOLEAN
  BY <1>1, AskingFacts, InvNow
<1>4. /\ g.lucky \in BOOLEAN
      /\ \A x : [g EXCEPT !.err = x].lost = g.lost /\ [g EXCEPT !.err = x].lucky = g.lucky
  BY DEF Status
<1>5. drv.acq => lib.acq
  BY InvNow DEF Idle, LibraryKnows
<1>6. lib.mapped /\ lib.mode.buf /\ hist.undefined = "nothing" => View(lib)
  BY InvNow DEF Mapping
<1> QED BY <1>2, <1>3, <1>4, <1>5, <1>6 DEF Took
-----------------------------------------------------------------------------
(* The steps, those that ask for the status first.                         *)
LEMMA OrdinaryHead ==
  ASSUME Ordinary(call')
  PROVE  /\ Going(call')
         /\ call'.todo # <<>> => /\ call'.todo[1] # "disarmStat"
                                 /\ call'.todo[1] \notin {"bufWait", "bufCheck", "copy"}
                                 /\ call'.todo[1] # "copy"
BY DEF Ordinary, Calm, Sudden

LEMMA GoesOrGivesUp ==
  ASSUME Inv, NEW op, At(op), GoOn \/ GiveUp
  PROVE  Ordinary(call') /\ Quieter
<1>1. Going(call) /\ call.todo # <<>>
  BY AtFacts, InvNow
<1> QED BY <1>1, GoOnCall, GiveUpCall

LEMMA GetStatusStep ==
  ASSUME Inv, GetStatus, prog' = prog
  PROVE  Inv'
<1>1. PICK real \in Reals :
        LET g == Status(lib, drv, real)
        IN  /\ Asked(g) /\ lib' = [g.lib EXCEPT !.last = g.scans]
            /\ IF g.err = "None" THEN GoOn ELSE GiveUp
  BY DEF GetStatus
<1> DEFINE g == Status(lib, drv, real)
<1>2. /\ Asked(g) /\ lib' = [g.lib EXCEPT !.last = g.scans] /\ (GoOn \/ GiveUp)
      /\ g = Status(lib, drv, real)
  BY <1>1
<1>3. At("getStat") /\ "getStat" \notin Loose
  BY DEF GetStatus, Loose
<1> HIDE DEF g
<1>4. /\ g.lost \in BOOLEAN /\ g.lucky \in BOOLEAN /\ Keeps(g.lib) /\ g.scans \in Int
      /\ drv.acq => g.lib.acq
  BY <1>2, AnswerFacts
<1>5. /\ drv' = [drv EXCEPT !.error = "None"] /\ hist' \in Histories
      /\ hist'.read = IF g.lost THEN Unknown ELSE hist.read
      /\ hist'.undefined = IF g.lucky THEN hist.undefined ELSE "read"
  BY <1>2, <1>4, AskedFacts
<1>6. Keeps(lib') /\ Took(g.lib, lib') /\ (drv.acq => lib'.acq)
  <2> DEFINE l == g.lib
             s == g.scans
  <2>1. l \in Handles /\ l.len + MaxScans < Top /\ (l.mode.buf => l.len > 0) /\ s \in Int
        /\ lib' = [l EXCEPT !.last = s] /\ (drv.acq => l.acq)
    BY <1>2, <1>4 DEF Keeps
  <2> HIDE DEF l, s
  <2>2. Keeps(lib') /\ Took(l, lib') /\ lib'.acq = l.acq
    BY <2>1 DEF Keeps, Took, Handles
  <2> QED BY <2>1, <2>2 DEF l
<1>7. Ordinary(call') /\ Quieter
  BY <1>2, <1>3, GoesOrGivesUp
<1> QED BY <1>2, <1>3, <1>5, <1>6, <1>7, OrdinaryHead, StatusStep

LEMMA DisarmStatusStep ==
  ASSUME Inv, DisarmStatus, prog' = prog
  PROVE  Inv'
<1>1. PICK real \in Reals :
        LET g == Status(lib, drv, real)
        IN  /\ Asked(g)
            /\ IF g.err = "None" THEN GoOn /\ lib' = [g.lib EXCEPT !.acq = FALSE]
                                 ELSE GiveUp /\ lib' = g.lib
  BY DEF DisarmStatus
<1> DEFINE g == Status(lib, drv, real)
<1>2. /\ Asked(g) /\ (lib' = g.lib \/ lib' = [g.lib EXCEPT !.acq = FALSE]) /\ (GoOn \/ GiveUp)
      /\ g = Status(lib, drv, real)
  BY <1>1
<1>3. At("disarmStat") /\ "disarmStat" \notin Loose
  BY DEF DisarmStatus, Loose
<1> HIDE DEF g
<1>4. /\ g.lost \in BOOLEAN /\ g.lucky \in BOOLEAN /\ Keeps(g.lib) /\ Took(g.lib, g.lib)
  BY <1>2, AnswerFacts
<1>5. /\ drv' = [drv EXCEPT !.error = "None"] /\ hist' \in Histories
      /\ hist'.read = IF g.lost THEN Unknown ELSE hist.read
      /\ hist'.undefined = IF g.lucky THEN hist.undefined ELSE "read"
  BY <1>2, <1>4, AskedFacts
<1>6. ~drv.acq
  BY <1>3, AtFacts, InvNow DEF Idle
<1>7. Keeps(lib') /\ Took(g.lib, lib')
  <2> DEFINE l == g.lib
  <2>1. l \in Handles /\ l.len + MaxScans < Top /\ (l.mode.buf => l.len > 0)
        /\ (lib' = l \/ lib' = [l EXCEPT !.acq = FALSE])
    BY <1>2, <1>4 DEF Keeps
  <2> HIDE DEF l
  <2>2. CASE lib' = l
    BY <1>4, <2>2 DEF l
  <2>3. CASE lib' = [l EXCEPT !.acq = FALSE]
    <3>1. Keeps(lib') /\ Took(l, lib')
      BY <2>1, <2>3 DEF Keeps, Took, Handles
    <3> QED BY <3>1 DEF l
  <2> QED BY <2>1, <2>2, <2>3
<1>8. Ordinary(call') /\ Quieter
  BY <1>2, <1>3, GoesOrGivesUp
<1> QED BY <1>2, <1>3, <1>5, <1>6, <1>7, <1>8, OrdinaryHead, StatusStep

(* A wait: it goes on waiting, ends, or gives up.                          *)
LEMMA PollsStep ==
  ASSUME Inv, NEW op \in WaitOps, NEW Goes \in BOOLEAN, Polls(op, Goes), prog' = prog,
         Goes => \/ GoOn
                 \/ op = "bufWait" /\ Then(<<"bufCheck">>)
  PROVE  Inv'
<1>1. PICK real \in Reals :
        LET g == Status(lib, drv, real)
        IN  /\ Asked(g) /\ lib' = g.lib
            /\ IF g.err # "None" THEN GiveUp
               ELSE IF EventSet(op, g) THEN Goes ELSE UNCHANGED call
  BY DEF Polls
<1> DEFINE g == Status(lib, drv, real)
<1>2. /\ Asked(g) /\ lib' = g.lib /\ (Goes \/ GiveUp \/ call' = call)
      /\ g = Status(lib, drv, real)
  BY <1>1
<1>3. At(op) /\ op \notin Loose /\ op \notin {"disarmStat", "set", "copy"}
  BY DEF Polls, WaitOps, Loose
<1> HIDE DEF g
<1>4. /\ g.lost \in BOOLEAN /\ g.lucky \in BOOLEAN /\ Keeps(g.lib) /\ Took(g.lib, g.lib)
      /\ drv.acq => g.lib.acq
  BY <1>2, AnswerFacts
<1>5. /\ drv' = [drv EXCEPT !.error = "None"] /\ hist' \in Histories
      /\ hist'.read = IF g.lost THEN Unknown ELSE hist.read
      /\ hist'.undefined = IF g.lucky THEN hist.undefined ELSE "read"
  BY <1>2, <1>4, AskedFacts
<1>6. Going(call) /\ call.todo # <<>> /\ call.todo[1] = op
  BY <1>3, AtFacts, InvNow
<1>7. CASE GoOn \/ GiveUp
  <2>1. Ordinary(call') /\ Quieter
    BY <1>3, <1>7, GoesOrGivesUp
  <2> QED BY <1>2, <1>3, <1>4, <1>5, <2>1, OrdinaryHead, StatusStep
<1>8. CASE op = "bufWait" /\ Then(<<"bufCheck">>)
  <2>1. /\ Going(call') /\ Quieter /\ call'.todo # <<>> /\ call'.todo[1] = "bufCheck"
        /\ call'.n = call.n
    <3>1. "bufCheck" \in Inserted
      BY DEF Inserted
    <3> QED BY <1>3, <1>6, <1>8, <3>1, ThenCall
  <2>2. lib.mode.buf /\ lib.mapped /\ call.n \in Nat
    BY <1>6, <1>8, InvNow DEF Reading
  <2> QED BY <1>2, <1>3, <1>4, <1>5, <2>1, <2>2, StatusStep
<1>9. CASE call' = call
  <2>1. /\ Going(call') /\ Quieter /\ call'.todo[1] = op
    BY <1>6, <1>9 DEF Quieter, Going, Flow, Has
  <2>2. op = "bufWait" \/ op \notin {"bufWait", "bufCheck", "copy"}
    BY DEF WaitOps
  <2>3. op = "bufWait" => lib.mode.buf /\ lib.mapped /\ call'.n \in Nat
    BY <1>6, <1>9, InvNow DEF Reading
  <2> QED BY <1>2, <1>3, <1>4, <1>5, <2>1, <2>2, <2>3, StatusStep
<1> QED BY <1>2, <1>7, <1>8, <1>9

LEMMA WaitStep ==
  ASSUME Inv, Wait, prog' = prog
  PROVE  Inv'
<1>1. \/ \E op \in WaitOps : op # "bufWait" /\ Polls(op, GoOn)
      \/ Polls("bufWait", Then(<<"bufCheck">>))
  BY DEF Wait
<1>2. "bufWait" \in WaitOps
  BY DEF WaitOps
<1>3. GoOn \in BOOLEAN /\ Then(<<"bufCheck">>) \in BOOLEAN
  BY DEF GoOn, Then, Left
<1>4. ASSUME NEW op \in WaitOps, Polls(op, GoOn) PROVE Inv'
  BY <1>3, <1>4, PollsStep
<1>5. ASSUME Polls("bufWait", Then(<<"bufCheck">>)) PROVE Inv'
  BY <1>2, <1>3, <1>5, PollsStep
<1> QED BY <1>1, <1>4, <1>5

LEMMA FailedFacts ==
  ASSUME Inv, NEW why \in {"library", "device"}, Failed(why)
  PROVE  hist' \in Histories /\ hist'.read = hist.read /\ hist'.undefined = hist.undefined
<1>1. hist \in Histories
  BY InvNow
<1> QED BY <1>1 DEF Failed, Histories

LEMMA SameFacts ==
  ASSUME Inv
  PROVE  Quiet(drv, drv) /\ Keeps(lib) /\ SameView(lib, lib) /\ hist \in Histories
BY InvNow, QuietSelf DEF SameView

(* A call that is refused or times out.                                    *)
LEMMA GivenUp ==
  ASSUME Inv, NEW op, At(op), op \notin Loose, prog' = prog, GiveUp,
         NEW why \in {"library", "device"}, Failed(why), UNCHANGED <<drv, lib>>
  PROVE  Inv'
<1>1. hist' \in Histories /\ hist'.read = hist.read
  BY FailedFacts
<1>2. Ordinary(call') /\ Quieter
  BY GoesOrGivesUp
<1> QED BY <1>1, <1>2, SameFacts, PlainStep

LEMMA TimesOutStep ==
  ASSUME Inv, TimesOut, prog' = prog
  PROVE  Inv'
<1>1. PICK op \in WaitOps : At(op)
  BY DEF TimesOut
<1>2. op \notin Loose
  BY DEF WaitOps, Loose
<1>3. GiveUp /\ Failed("device") /\ UNCHANGED <<drv, lib>>
  BY DEF TimesOut
<1> QED BY <1>1, <1>2, <1>3, GivenUp

LEMMA SetDiskFileStep ==
  ASSUME Inv, SetDiskFile, prog' = prog
  PROVE  Inv'
<1>1. At("file") /\ "file" \notin Loose
  BY DEF SetDiskFile, Loose
<1>2. CASE lib.acq /\ Refuse
  BY <1>1, <1>2, GivenUp DEF Refuse
<1>3. CASE GoOn /\ lib' = [lib EXCEPT !.file = "named"] /\ UNCHANGED <<drv, hist>>
  <2>1. /\ Keeps(lib') /\ SameView(lib, lib') /\ lib'.open = lib.open /\ lib'.acq = lib.acq
        /\ lib'.xfer = lib.xfer /\ lib'.changed = lib.changed /\ lib'.conf = lib.conf
        /\ lib'.mapped = lib.mapped
    BY <1>3, SameFacts DEF Keeps, Handles, SameView
  <2>2. Ordinary(call') /\ Quieter
    BY <1>1, <1>3, GoesOrGivesUp
  <2> QED BY <1>1, <1>3, <2>1, <2>2, SameFacts, PlainStep
<1> QED BY <1>2, <1>3 DEF SetDiskFile

LEMMA CopyNewestStep ==
  ASSUME Inv, CopyNewest, prog' = prog
  PROVE  Inv'
<1>1. At("copy") /\ "copy" \notin Loose /\ GoOn /\ UNCHANGED <<drv, lib, hist>>
  BY DEF CopyNewest, Loose
<1>2. Ordinary(call') /\ Quieter
  BY <1>1, GoesOrGivesUp
<1> QED BY <1>1, <1>2, SameFacts, PlainStep

(* daqAdcTransferBufData, with a buffer to read from.                      *)
LEMMA BufferFacts ==
  ASSUME Inv, NEW op \in {"bufStat", "bufCheck"}, At(op), op = "bufStat" => CanRead
  PROVE  /\ lib.mode.buf /\ lib.mapped /\ call.n \in Nat /\ View(lib)
         /\ Going(call) /\ call.todo # <<>> /\ call.todo[1] = op
         /\ op \notin Loose
<1>1. /\ Going(call) /\ call.todo # <<>> /\ call.todo[1] = op /\ hist.undefined = "nothing"
  BY AtFacts, InvNow
<1>2. call.n # Refusal
  BY <1>1, OneStep
<1>3. lib.mode.buf /\ lib.mapped /\ call.n \in Nat
  BY <1>1, <1>2, InvNow DEF Reading, CanRead, Going, Calls
<1>4. View(lib)
  BY <1>1, <1>3, InvNow DEF Mapping
<1> QED BY <1>1, <1>3, <1>4 DEF Loose

LEMMA AnswerStep ==
  ASSUME Inv, NEW op \in {"bufStat", "bufCheck"}, At(op), op = "bufStat" => CanRead,
         prog' = prog, NEW real \in Reals, NEW g, g = Status(lib, drv, real),
         NEW x, Asked([g EXCEPT !.err = x]), lib' = g.lib,
         \/ GoOn \/ GiveUp
         \/ Then(<<"bufWait">>)
         \/ ~(call.n > g.scans) /\ Reads(call.n)
         \/ Reads(g.scans)
  PROVE  Inv'
<1> DEFINE h == [g EXCEPT !.err = x]
<1>1. /\ lib.mode.buf /\ lib.mapped /\ call.n \in Nat /\ View(lib)
      /\ Going(call) /\ call.todo # <<>> /\ call.todo[1] = op /\ op \notin Loose
      /\ hist.undefined = "nothing"
  BY BufferFacts, AtFacts
<1>2. /\ g.lost \in BOOLEAN /\ g.lucky \in BOOLEAN /\ Keeps(g.lib) /\ Took(g.lib, g.lib)
      /\ drv.acq => g.lib.acq
      /\ g.scans = g.lib.avail /\ View(g.lib)
      /\ h.lost = g.lost /\ h.lucky = g.lucky
  BY <1>1, AnswerFacts
<1>3. Asked(h)
  OBVIOUS
<1> HIDE DEF h
<1>4. /\ drv' = [drv EXCEPT !.error = "None"] /\ hist' \in Histories
      /\ hist'.read = IF g.lost THEN Unknown ELSE hist.read
      /\ hist'.undefined = IF g.lucky THEN hist.undefined ELSE "read"
  BY <1>2, <1>3, AskedFacts
<1>5. g.scans \in Nat
  BY <1>2 DEF View
<1>6. call.todo[1] # "set"
  BY <1>1
<1>7. CASE GoOn \/ GiveUp
  <2>1. Ordinary(call') /\ Quieter
    BY <1>7, GoesOrGivesUp
  <2> QED BY <1>1, <1>2, <1>4, <2>1, OrdinaryHead, StatusStep
<1>8. CASE Then(<<"bufWait">>)
  <2>1. /\ Going(call') /\ Quieter /\ call'.todo # <<>> /\ call'.todo[1] = "bufWait"
        /\ call'.n = call.n
    <3>1. "bufWait" \in Inserted
      BY DEF Inserted
    <3> QED BY <1>1, <1>6, <1>8, <3>1, ThenCall
  <2> QED BY <1>1, <1>2, <1>4, <2>1, StatusStep
<1>9. ASSUME NEW n \in Nat, n <= g.scans, Reads(n) PROVE Inv'
  <2>1. /\ Going(call') /\ Quieter /\ call'.todo # <<>> /\ call'.todo[1] = "copy" /\ call'.n = n
    BY <1>1, <1>6, <1>9, ReadsCall
  <2> QED BY <1>1, <1>2, <1>4, <1>9, <2>1, StatusStep
<1>10. CASE ~(call.n > g.scans) /\ Reads(call.n)
  <2>1. call.n <= g.scans
    BY <1>1, <1>5, <1>10
  <2> QED BY <1>1, <1>9, <1>10, <2>1
<1>11. CASE Reads(g.scans)
  <2>1. g.scans <= g.scans
    BY <1>5
  <2> QED BY <1>5, <1>9, <1>11, <2>1
<1> QED BY <1>7, <1>8, <1>10, <1>11

LEMMA BufStatusStep ==
  ASSUME Inv, BufStatus, prog' = prog
  PROVE  Inv'
<1>1. At("bufStat") /\ "bufStat" \notin Loose
  BY DEF BufStatus, Loose
<1>2. CASE Refuse
  BY <1>1, <1>2, GivenUp DEF Refuse
<1>3. CASE CanRead /\ ~Refuse
  <2>1. PICK real \in Reals :
        LET g      == Status(lib, drv, real)
            few    == call.n > g.scans
            nodata == ~g.lib.xfer /\ g.scans = 0
            notnow == \/ call.how = "RetNotDone" /\ g.lib.xfer
                      \/ call.how \in {"NoWait", "Newest"} /\ few
            error  == \/ g.err # "None" \/ nodata
                      \/ call.how = "RetNotDone" /\ ~g.lib.xfer /\ few
        IN  /\ Asked([g EXCEPT !.err = IF error THEN "error" ELSE @])
            /\ lib' = g.lib
            /\ IF error THEN GiveUp
               ELSE IF notnow THEN GoOn
               ELSE IF ~few THEN Reads(call.n)
               ELSE IF call.how = "RetAvail" THEN Reads(g.scans)
               ELSE Then(<<"bufWait">>)
    BY <1>3 DEF BufStatus
  <2> DEFINE g == Status(lib, drv, real)
             few    == call.n > g.scans
             error  == \/ g.err # "None" \/ (~g.lib.xfer /\ g.scans = 0)
                       \/ call.how = "RetNotDone" /\ ~g.lib.xfer /\ few
             x == IF error THEN "error" ELSE g.err
  <2>2. /\ Asked([g EXCEPT !.err = x]) /\ lib' = g.lib
        /\ \/ GoOn \/ GiveUp
           \/ Then(<<"bufWait">>)
           \/ ~(call.n > g.scans) /\ Reads(call.n)
           \/ Reads(g.scans)
    BY <2>1
  <2>3. g = Status(lib, drv, real)
    OBVIOUS
  <2> HIDE DEF x, g
  <2>4. "bufStat" \in {"bufStat", "bufCheck"}
    OBVIOUS
  <2> QED BY <1>1, <1>3, <2>2, <2>3, <2>4, AnswerStep
<1> QED BY <1>2, <1>3 DEF BufStatus

LEMMA BufCheckStep ==
  ASSUME Inv, BufCheck, prog' = prog
  PROVE  Inv'
<1>1. At("bufCheck") /\ "bufCheck" \in {"bufStat", "bufCheck"} /\ "bufCheck" # "bufStat"
  BY DEF BufCheck
<1>2. PICK real \in Reals :
        LET g    == Status(lib, drv, real)
            over == g.scans < call.n /\ ~(drv.acq \/ drv.xfer)
        IN  /\ Asked([g EXCEPT !.err = IF over THEN "error" ELSE @])
            /\ lib' = g.lib
            /\ IF g.err # "None" \/ over THEN GiveUp
               ELSE IF g.scans >= call.n THEN Reads(call.n)
               ELSE Then(<<"bufWait">>)
  BY DEF BufCheck
<1> DEFINE g == Status(lib, drv, real)
           over == g.scans < call.n /\ ~(drv.acq \/ drv.xfer)
           x == IF over THEN "error" ELSE g.err
<1>3. g.scans \in Int /\ call.n \in Int
  <2>1. g = Status(lib, drv, real)
    OBVIOUS
  <2> HIDE DEF g
  <2>2. g.scans \in Int
    BY <2>1, AnswerFacts
  <2>3. call.n \in Nat
    BY <1>1, BufferFacts
  <2> QED BY <2>2, <2>3
<1>4. /\ Asked([g EXCEPT !.err = x]) /\ lib' = g.lib
      /\ \/ GoOn \/ GiveUp
         \/ Then(<<"bufWait">>)
         \/ ~(call.n > g.scans) /\ Reads(call.n)
         \/ Reads(g.scans)
  <2>1. /\ Asked([g EXCEPT !.err = x]) /\ lib' = g.lib
        /\ IF g.err # "None" \/ over THEN GiveUp
           ELSE IF g.scans >= call.n THEN Reads(call.n)
           ELSE Then(<<"bufWait">>)
    BY <1>2
  <2> HIDE DEF g, over, x
  <2> QED BY <1>3, <2>1
<1>5. g = Status(lib, drv, real)
  OBVIOUS
<1> HIDE DEF x, g
<1> QED BY <1>1, <1>4, <1>5, AnswerStep

(* What is copied has been read.                                           *)
LEMMA CopyStep ==
  ASSUME Inv, Copy, prog' = prog
  PROVE  Inv'
<1> DEFINE n == call.n
           r == IF hist.read = Unknown THEN hist.read ELSE hist.read + n
           u == IF InBounds(lib, n) THEN hist.undefined ELSE "copy"
<1>1. /\ At("copy") /\ lib' = Loaded(lib, n) /\ GoOn /\ UNCHANGED drv
      /\ hist' = [hist EXCEPT !.read = r, !.undefined = u]
  BY DEF Copy
<1>2. /\ Going(call) /\ call.todo # <<>> /\ call.todo[1] = "copy" /\ hist.undefined = "nothing"
      /\ lib.open
  BY <1>1, AtFacts, InvNow
<1>3. lib.mode.buf /\ lib.mapped /\ n \in Nat /\ n <= lib.avail
  BY <1>2, InvNow DEF Reading
<1>4. Keeps(lib) /\ View(lib)
  BY <1>2, <1>3, InvNow DEF Mapping
<1>5. /\ Keeps(lib') /\ lib'.open = lib.open /\ lib'.changed = lib.changed
      /\ lib'.conf = lib.conf /\ lib'.len = lib.len /\ lib'.mode = lib.mode
      /\ lib'.mapped = lib.mapped /\ lib'.count = lib.count
      /\ lib'.xfer = lib.xfer /\ lib'.acq = lib.acq
      /\ InBounds(lib, n) => View(lib')
      /\ StillFollows(lib, n, lib')
  <2> DEFINE m == lib'
  <2>1. m = Loaded(lib, n) /\ n \in Nat /\ n <= lib.avail
    BY <1>1, <1>3
  <2> HIDE DEF m, n, r, u
  <2>2. /\ Keeps(m) /\ m.open = lib.open /\ m.changed = lib.changed /\ m.conf = lib.conf
        /\ m.len = lib.len /\ m.mode = lib.mode /\ m.mapped = lib.mapped /\ m.count = lib.count
        /\ m.xfer = lib.xfer /\ m.acq = lib.acq
        /\ InBounds(lib, n) => View(m)
        /\ StillFollows(lib, n, m)
    BY <1>4, <2>1, LoadedFacts
  <2> QED BY <2>2 DEF m
<1>6. hist' \in Histories /\ hist'.read = r /\ hist'.undefined = u
  <2>1. hist \in Histories /\ r \in Int /\ u \in {"nothing", "free", "read", "copy"}
    BY <1>3, InvNow DEF Histories
  <2> HIDE DEF r, u
  <2> QED BY <1>1, <2>1 DEF Histories
<1>7. Ordinary(call') /\ Quieter
  BY <1>1, GoesOrGivesUp
<1>8. /\ Going(call')
      /\ call'.todo # <<>> => /\ call'.todo[1] # "disarmStat" /\ call'.todo[1] # "copy"
                              /\ call'.todo[1] \notin {"bufWait", "bufCheck", "copy"}
  BY <1>7, OrdinaryHead
<1>9. Programmed'
  BY <1>2, <1>5, <1>7, ProgrammedKept, InvNow
<1>10. Idle'
  BY <1>1, <1>2, <1>5, <1>8, InvNow DEF Idle, LibraryKnows
<1>11. Obeyed'
  <2>1. "copy" \notin Loose /\ Quiet(drv, drv')
    BY <1>1, SameFacts DEF Loose
  <2> QED BY <1>1, <1>5, <2>1, ObeyedKept
<1>12. Mapping'
  BY <1>5, <1>6 DEF Mapping
<1>13. Reading'
  BY <1>8 DEF Reading
<1>14. Followed'
  <2> SUFFICES ASSUME hist'.read # Unknown, lib'.mode.buf, hist'.undefined = "nothing"
      PROVE  /\ Follows(lib', hist'.read) /\ drv'.size = lib'.len
             /\ lib'.count <= drv'.count \/ (drv'.count = 0 /\ ~drv'.xfer)
    BY <1>8 DEF Followed, Follows
  <2>1. InBounds(lib, n) /\ hist.read # Unknown /\ hist'.read = hist.read + n
    BY <1>6
  <2>2. /\ Follows(lib, hist.read) /\ drv.size = lib.len
        /\ lib.count <= drv.count \/ (drv.count = 0 /\ ~drv.xfer)
    BY <1>2, <1>3, <2>1, InvNow DEF Followed
  <2>3. Follows(lib', hist'.read)
    <3> HIDE DEF n
    <3> QED BY <1>5, <2>1, <2>2 DEF StillFollows
  <2> QED BY <1>1, <1>5, <2>2, <2>3
<1>15. Owes(drv')
  BY <1>1, InvNow
<1> QED BY <1>5, <1>6, <1>8, <1>9, <1>10, <1>11, <1>12, <1>13, <1>14, <1>15 DEF Inv

(* Steps after which no step comes suddenly.                               *)
LEMMA OrdinaryStep ==
  ASSUME Inv, NEW op, At(op), op # "device", prog' = prog, Owes(drv'), Keeps(lib'),
         lib'.open = lib.open, hist' \in Histories, Ordinary(call'), Quieter,
         LibraryKnows', Obeyed', Mapping', Followed'
  PROVE  Inv'
<1>1. lib.open
  BY AtFacts
<1>2. /\ Going(call')
      /\ call'.todo # <<>> => /\ call'.todo[1] # "disarmStat"
                              /\ call'.todo[1] \notin {"bufWait", "bufCheck", "copy"}
  BY OrdinaryHead
<1>3. Programmed'
  BY <1>1, ProgrammedKept, InvNow
<1>4. Idle'
  BY <1>1, <1>2 DEF Idle
<1>5. Reading'
  BY <1>2 DEF Reading
<1> QED BY <1>2, <1>3, <1>4, <1>5 DEF Inv

LEMMA OrdinaryFollowed ==
  ASSUME Inv, Quiet(drv, drv'), SameView(lib, lib'), hist' = hist, Ordinary(call')
  PROVE  Followed'
<1>1. call'.todo # <<>> => call'.todo[1] # "copy"
  BY OrdinaryHead
<1> QED BY <1>1, FollowedKept

LEMMA ConfigureStep ==
  ASSUME Inv, Configure, prog' = prog
  PROVE  Inv'
<1>1. At("set") /\ "set" \notin Loose /\ "set" # "device"
  BY DEF Configure, Loose
<1>2. CASE Refuse
  BY <1>1, <1>2, GivenUp DEF Refuse
<1>3. CASE ~lib.acq /\ GoOn /\ lib' = Asks(lib, call.n) /\ UNCHANGED <<drv, hist>>
  <2> DEFINE n == call.n
  <2>1. n \in Int
    BY InvNow DEF Going, Calls, Refusal
  <2>2. lib' = [lib EXCEPT !.conf = n, !.changed = TRUE]
    BY <1>3 DEF Asks
  <2> HIDE DEF n
  <2>3. /\ Keeps(lib') /\ SameView(lib, lib') /\ lib'.open = lib.open /\ lib'.acq = lib.acq
        /\ lib'.xfer = lib.xfer /\ lib'.changed /\ lib'.mapped = lib.mapped
    BY <2>1, <2>2, SameFacts DEF Keeps, Handles, SameView
  <2>4. Ordinary(call') /\ Quieter
    BY <1>1, <1>3, GoesOrGivesUp
  <2>5. Followed'
    BY <1>3, <2>3, <2>4, SameFacts, OrdinaryFollowed
  <2>6. Mapping'
    BY <1>3, <2>3, InvNow DEF Mapping, View, SameView
  <2>7. LibraryKnows' /\ Obeyed'
    BY <1>3, <2>3, InvNow DEF Idle, LibraryKnows, Obeyed, InSync
  <2> QED BY <1>1, <1>3, <2>3, <2>4, <2>5, <2>6, <2>7, SameFacts, InvNow, OrdinaryStep
<1> QED BY <1>2, <1>3 DEF Configure

(* daqAdcTransferSetBuffer.                                                *)
LEMMA SetFacts ==
  ASSUME Inv, At("buffer"),
         NEW set, set = [lib EXCEPT !.len = call.n, !.mode = call.mode]
  PROVE  /\ set \in Handles /\ set.len = call.n /\ set.mode = call.mode /\ set.open = lib.open
         /\ set.acq = lib.acq /\ set.xfer = lib.xfer /\ set.changed = lib.changed
         /\ set.conf = lib.conf /\ set.mapped = lib.mapped
         /\ Legal(call.n) /\ call.mode \in Modes /\ Keeps(set)
<1>1. call.todo # <<>> /\ call.todo[1] = "buffer" /\ Going(call)
  BY AtFacts, InvNow
<1>2. 1 \in 1..Len(call.todo)
  BY <1>1 DEF Going, Flow
<1>3. Legal(call.n) /\ call.mode \in Modes
  BY <1>1, <1>2 DEF Going, Has, Calls
<1> DEFINE n == call.n
           m == call.mode
<1>4. n \in Nat \ {0} /\ n + MaxScans < Top /\ m \in Modes /\ set = [lib EXCEPT !.len = n, !.mode = m]
      /\ lib \in Handles
  BY <1>3, InvNow DEF Legal, Keeps
<1> HIDE DEF n, m
<1>5. /\ set \in Handles /\ set.len = n /\ set.mode = m /\ set.open = lib.open
      /\ set.acq = lib.acq /\ set.xfer = lib.xfer /\ set.changed = lib.changed
      /\ set.conf = lib.conf /\ set.mapped = lib.mapped
  BY <1>4 DEF Handles
<1>6. Keeps(set)
  BY <1>4, <1>5 DEF Keeps
<1> QED BY <1>3, <1>5, <1>6 DEF n, m

LEMMA SetBufferStep ==
  ASSUME Inv, SetBuffer, prog' = prog
  PROVE  Inv'
<1> DEFINE set == [lib EXCEPT !.len = call.n, !.mode = call.mode]
<1>1. At("buffer") /\ "buffer" \notin Loose /\ "buffer" # "device"
  BY DEF SetBuffer, Loose
<1>2. /\ set \in Handles /\ set.len = call.n /\ set.mode = call.mode /\ set.open = lib.open
      /\ set.acq = lib.acq /\ set.xfer = lib.xfer /\ set.changed = lib.changed
      /\ set.conf = lib.conf /\ set.mapped = lib.mapped
      /\ Legal(call.n) /\ call.mode \in Modes /\ Keeps(set)
  <2> DEFINE s == set
  <2>1. s = [lib EXCEPT !.len = call.n, !.mode = call.mode]
    OBVIOUS
  <2> HIDE DEF s, set
  <2>2. /\ s \in Handles /\ s.len = call.n /\ s.mode = call.mode /\ s.open = lib.open
        /\ s.acq = lib.acq /\ s.xfer = lib.xfer /\ s.changed = lib.changed
        /\ s.conf = lib.conf /\ s.mapped = lib.mapped
        /\ Legal(call.n) /\ call.mode \in Modes /\ Keeps(s)
    BY <1>1, <2>1, SetFacts
  <2> QED BY <2>2 DEF s
<1>3. \/ Refuse
      \/ /\ hist' = [hist EXCEPT !.undefined = "free"] /\ UNCHANGED <<drv, lib, call>>
      \/ /\ lib' = [set EXCEPT !.mapped = TRUE, !.head = 0, !.tail = 0, !.avail = 0, !.count = 0]
         /\ hist' = [hist EXCEPT !.read = Unknown] /\ GoOn /\ UNCHANGED drv
      \/ /\ ~lib.mapped /\ lib' = set /\ GiveUp /\ UNCHANGED drv
         /\ hist' = [hist EXCEPT !.read = Unknown, !.failed = @ \cup {"device"}]
      \/ /\ ~call.mode.buf /\ lib' = set /\ GoOn /\ UNCHANGED <<drv, hist>>
  BY DEF SetBuffer
<1> HIDE DEF set
<1>4. hist \in Histories /\ Owes(drv) /\ Unknown \in Int
  BY InvNow DEF Unknown
<1>5. CASE Refuse
  BY <1>1, <1>5, GivenUp DEF Refuse
<1>6. CASE hist' = [hist EXCEPT !.undefined = "free"] /\ UNCHANGED <<drv, lib, call>>
  <2>1. hist' \in Histories /\ hist'.read = hist.read /\ hist'.undefined = "free"
    BY <1>4, <1>6 DEF Histories
  <2>2. Programmed' /\ Idle' /\ Obeyed' /\ Reading'
    BY <1>6, InvNow DEF Programmed, Idle, LibraryKnows, Obeyed, InSync, Fresh, Sampling, Reading
  <2>3. Mapping' /\ Followed'
    BY <2>1 DEF Mapping, Followed
  <2>4. Owes(drv') /\ Keeps(lib') /\ Going(call')
    BY <1>6, InvNow
  <2> QED BY <2>1, <2>2, <2>3, <2>4 DEF Inv
<1>7. ASSUME hist' \in Histories, Keeps(lib'), GoOn \/ GiveUp, UNCHANGED drv, Mapping',
             hist'.read = Unknown \/ ~lib'.mode.buf,
             lib'.open = lib.open, lib'.acq = lib.acq, lib'.xfer = lib.xfer,
             lib'.changed = lib.changed, lib'.conf = lib.conf
      PROVE  Inv'
  <2>1. Ordinary(call') /\ Quieter
    BY <1>1, <1>7, GoesOrGivesUp
  <2>2. Obeyed'
    BY <1>1, <1>7, SameFacts, ObeyedKept
  <2>3. LibraryKnows'
    BY <1>7, InvNow DEF Idle, LibraryKnows
  <2>4. Followed'
    BY <1>7 DEF Followed
  <2> QED BY <1>1, <1>4, <1>7, <2>1, <2>2, <2>3, <2>4, OrdinaryStep
<1>8. CASE /\ lib' = [set EXCEPT !.mapped = TRUE, !.head = 0, !.tail = 0, !.avail = 0, !.count = 0]
           /\ hist' = [hist EXCEPT !.read = Unknown] /\ GoOn /\ UNCHANGED drv
  <2>1. hist' \in Histories /\ hist'.read = Unknown
    BY <1>4, <1>8 DEF Histories
  <2>2. /\ Keeps(lib') /\ lib'.open = set.open /\ lib'.acq = set.acq /\ lib'.xfer = set.xfer
        /\ lib'.changed = set.changed /\ lib'.conf = set.conf
        /\ lib'.head = 0 /\ lib'.tail = 0 /\ lib'.avail = 0 /\ lib'.len = set.len
    <3> DEFINE m == lib'
    <3>1. 0 \in 0..MaxScans /\ 0 \in Int
      BY SessionAssumption
    <3>2. m = [set EXCEPT !.mapped = TRUE, !.head = 0, !.tail = 0, !.avail = 0, !.count = 0]
      BY <1>8
    <3>3. set \in Handles /\ set.len + MaxScans < Top /\ (set.mode.buf => set.len > 0)
      BY <1>2 DEF Keeps
    <3> HIDE DEF m
    <3>4. /\ m \in Handles /\ m.open = set.open /\ m.acq = set.acq /\ m.xfer = set.xfer
          /\ m.changed = set.changed /\ m.conf = set.conf /\ m.mode = set.mode
          /\ m.head = 0 /\ m.tail = 0 /\ m.avail = 0 /\ m.len = set.len
      BY <3>1, <3>2, <3>3 DEF Handles
    <3> QED BY <3>3, <3>4 DEF Keeps, m
  <2>3. View(lib')
    BY <1>2, <2>2 DEF View, Legal
  <2>4. Mapping'
    BY <2>3 DEF Mapping
  <2> QED BY <1>2, <1>7, <1>8, <2>1, <2>2, <2>4
<1>9. CASE /\ ~lib.mapped /\ lib' = set /\ GiveUp /\ UNCHANGED drv
           /\ hist' = [hist EXCEPT !.read = Unknown, !.failed = @ \cup {"device"}]
  <2>1. hist' \in Histories /\ hist'.read = Unknown
    BY <1>4, <1>9 DEF Histories
  <2>2. Mapping'
    BY <1>2, <1>9 DEF Mapping
  <2> QED BY <1>2, <1>7, <1>9, <2>1, <2>2
<1>10. CASE ~call.mode.buf /\ lib' = set /\ GoOn /\ UNCHANGED <<drv, hist>>
  <2>1. Mapping' /\ hist' \in Histories
    BY <1>2, <1>4, <1>10 DEF Mapping
  <2> QED BY <1>2, <1>7, <1>10, <2>1
<1> QED BY <1>3, <1>5, <1>6, <1>8, <1>9, <1>10

(* daqOpen, step by step.                                                  *)
LEMMA OpeningTail ==
  ASSUME call.todo \in Opening
  PROVE  /\ call.todo[1] \in {"device", "disarm", "unmap"} => Tail(call.todo) \in Opening
         /\ call.todo[1] = "stop" => <<"unmap">> \o Tail(call.todo) \in Opening
         /\ call.todo[1] \in {"device", "disarm", "stop", "unmap", "opened"}
<1> DEFINE a == <<"device", "disarm", "stop", "opened", "arm", "disarm">>
           b == <<"disarm", "stop", "opened", "arm", "disarm">>
           c == <<"stop", "opened", "arm", "disarm">>
           d == <<"unmap", "opened", "arm", "disarm">>
           e == <<"opened", "arm", "disarm">>
<1>1. Open.todo = a
  BY DEF Open, Ops, NoCall
<1>2. Opening = {a, b, c, d, e}
  BY <1>1 DEF Opening
<1>3. a[1] = "device" /\ b[1] = "disarm" /\ c[1] = "stop" /\ d[1] = "unmap" /\ e[1] = "opened"
  OBVIOUS
<1>4. Tail(a) = b /\ Tail(b) = c /\ Tail(d) = e
  OBVIOUS
<1>5. <<"unmap">> \o Tail(c) = d
  <2>1. Tail(c) = e
    OBVIOUS
  <2>2. <<"unmap">> \o e = d
    <3> DEFINE w == <<"unmap">>
               v == w \o e
    <3>1. w \in Seq(Steps) /\ Len(w) = 1 /\ w[1] = "unmap"
      BY DEF Steps
    <3>2. e \in Seq(Steps) /\ Len(e) = 3 /\ e[1] = "opened" /\ e[2] = "arm" /\ e[3] = "disarm"
      BY DEF Steps
    <3>3. d \in Seq(Steps) /\ Len(d) = 4 /\ d[1] = "unmap" /\ d[2] = "opened" /\ d[3] = "arm"
          /\ d[4] = "disarm"
      BY DEF Steps
    <3> HIDE DEF w, d, e
    <3>4. v \in Seq(Steps) /\ Len(v) = 4
          /\ \A i \in 1..4 : v[i] = IF i <= 1 THEN w[i] ELSE e[i - 1]
      <4>1. /\ w \o e \in Seq(Steps)
            /\ Len(w \o e) = Len(w) + Len(e)
            /\ \A i \in 1 .. Len(w) + Len(e) :
                 (w \o e)[i] = IF i <= Len(w) THEN w[i] ELSE e[i - Len(w)]
        BY <3>1, <3>2, ConcatProperties
      <4>2. v = w \o e
        OBVIOUS
      <4> HIDE DEF v
      <4> QED BY <3>1, <3>2, <4>1, <4>2
    <3> HIDE DEF v
    <3>5. \A i \in 1..4 : v[i] = d[i]
      <4> SUFFICES ASSUME NEW i \in 1..4 PROVE v[i] = d[i]
        OBVIOUS
      <4>1. i = 1 \/ i = 2 \/ i = 3 \/ i = 4
        OBVIOUS
      <4> QED BY <3>1, <3>2, <3>3, <3>4, <4>1
    <3>6. v = d
      BY <3>3, <3>4, <3>5, SeqEqual
    <3> QED BY <3>6 DEF v, w
  <2> QED BY <2>1, <2>2
<1> HIDE DEF a, b, c, d, e
<1> QED BY <1>2, <1>3, <1>4, <1>5

LEMMA ScansAsked ==
  ASSUME Inv, call.todo # <<>>, Quiet(drv, drv'), lib'.changed = lib.changed,
         lib'.conf = lib.conf, ~lib.changed => drv.asked = lib.conf \/ Fresh' \/ Sampling'
  PROVE  Obeyed'
<1>1. (drv'.acq => drv.acq) /\ drv'.total = drv.total /\ drv'.asked = drv.asked
  BY DEF Quiet
<1> QED BY <1>1, InvNow DEF Obeyed, InSync

LEMMA DeviceStep ==
  ASSUME Inv, Device, prog' = prog
  PROVE  Inv'
<1>1. At("device") /\ GoOn /\ lib' = [lib EXCEPT !.open = TRUE] /\ drv' = Flushed(drv)
      /\ hist' = hist
  BY DEF Device
<1>2. call.todo # <<>> /\ call.todo[1] = "device" /\ Going(call)
  BY <1>1, AtFacts, InvNow
<1>3. Quiet(drv, drv') /\ ~drv'.acq /\ ~drv'.xfer
  BY <1>1, QuietFlush, InvNow
<1>4. /\ Keeps(lib') /\ SameView(lib, lib') /\ lib'.open /\ lib'.acq = lib.acq
      /\ lib'.xfer = lib.xfer /\ lib'.changed = lib.changed /\ lib'.conf = lib.conf
      /\ lib'.mapped = lib.mapped
  BY <1>1, InvNow DEF Keeps, Handles, SameView
<1>5. Ordinary(call') /\ Quieter /\ call'.todo = Tail(call.todo)
  BY <1>1, <1>2, GoOnCall
<1>6. /\ Going(call')
      /\ call'.todo # <<>> => /\ call'.todo[1] # "disarmStat"
                              /\ call'.todo[1] \notin {"bufWait", "bufCheck", "copy"}
  BY <1>5, OrdinaryHead
<1>7. Programmed'
  BY <1>4, <1>5, ProgrammedKept, InvNow
<1>8. Idle'
  BY <1>3, <1>4, <1>6 DEF Idle, LibraryKnows
<1>9. Obeyed'
  <2>1. ~Sampling
    BY <1>2 DEF Sampling, ToSample
  <2>2. Fresh => Fresh'
    BY <1>2, <1>4, <1>5, OpeningTail DEF Fresh
  <2>3. ~lib.changed => drv.asked = lib.conf \/ Fresh
    BY <2>1, InvNow DEF Obeyed
  <2> QED BY <1>2, <1>3, <1>4, <2>2, <2>3, ScansAsked
<1>10. Mapping'
  BY <1>1, <1>4, InvNow DEF Mapping, View, SameView
<1>11. Reading'
  BY <1>6 DEF Reading
<1>12. Followed'
  BY <1>1, <1>3, <1>4, <1>5, OrdinaryFollowed
<1> QED BY <1>1, <1>3, <1>4, <1>6, <1>7, <1>8, <1>9, <1>10, <1>11, <1>12, InvNow DEF Inv, Quiet

(* daqClose, in its last step.                                             *)
LEMMA ClosedStep ==
  ASSUME Inv, Closed, prog' = prog
  PROVE  Inv'
<1>1. At("closed") /\ GoOn /\ lib' = [lib EXCEPT !.open = FALSE] /\ drv' = Flushed(drv)
      /\ hist' = hist
  BY DEF Closed
<1>2. call.todo # <<>> /\ call.todo[1] = "closed" /\ Going(call)
  BY <1>1, AtFacts, InvNow
<1>3. Quiet(drv, drv') /\ ~drv'.acq /\ ~drv'.xfer
  BY <1>1, QuietFlush, InvNow
<1>4. /\ Keeps(lib') /\ SameView(lib, lib') /\ ~lib'.open /\ lib'.acq = lib.acq
      /\ lib'.xfer = lib.xfer /\ lib'.changed = lib.changed /\ lib'.conf = lib.conf
      /\ lib'.mapped = lib.mapped
  BY <1>1, InvNow DEF Keeps, Handles, SameView
<1>5. Ordinary(call') /\ Quieter /\ call'.todo = Tail(call.todo)
  BY <1>1, <1>2, GoOnCall
<1>6. call'.todo = <<>> /\ Has(call.todo, "closed")
  <2>1. call.todo \in Seq(Steps) /\ Len(call.todo) \in Nat \ {0}
        /\ (Tail(call.todo) = <<>> <=> Len(call.todo) = 1)
    BY <1>2, TailOf DEF Going, Flow
  <2>2. 1 \in 1..Len(call.todo)
    BY <2>1
  <2>3. \A i \in 1..(Len(call.todo) - 1) : call.todo[i] # "closed"
    BY <1>2 DEF Going, Flow
  <2>4. ~(1 \in 1..(Len(call.todo) - 1))
    BY <1>2, <2>3
  <2>5. Len(call.todo) = 1
    BY <2>1, <2>4
  <2> QED BY <1>2, <1>5, <2>1, <2>2, <2>5 DEF Has
<1>7. Programmed'
  <2>1. ~Has(call'.todo, "closed")
    BY <1>6, NoCallGoing
  <2> QED BY <1>4, <1>6, <2>1, InvNow DEF Programmed
<1>8. Idle'
  BY <1>3, <1>4, <1>6 DEF Idle, LibraryKnows
<1>9. Obeyed'
  <2>1. ~Fresh /\ ~Sampling
    BY <1>2, HeadsFresh DEF Loose
  <2>2. ~lib.changed => drv.asked = lib.conf
    BY <2>1, InvNow DEF Obeyed
  <2> QED BY <1>2, <1>3, <1>4, <2>2, ScansAsked
<1>10. Mapping'
  BY <1>1, <1>4, InvNow DEF Mapping, View, SameView
<1>11. Reading'
  BY <1>6 DEF Reading
<1>12. Followed'
  BY <1>1, <1>3, <1>4, <1>5, OrdinaryFollowed
<1> QED BY <1>1, <1>3, <1>4, <1>5, <1>7, <1>8, <1>9, <1>10, <1>11, <1>12, InvNow
        DEF Inv, Quiet, Ordinary

LEMMA OpenedStep ==
  ASSUME Inv, Opened, prog' = prog
  PROVE  Inv'
<1>1. At("opened") /\ GoOn /\ UNCHANGED <<drv, hist>> /\ "opened" # "device"
      /\ lib' = IF lib.acq THEN lib ELSE [Asks(lib, 0) EXCEPT !.file = "none"]
  BY DEF Opened
<1>2. call.todo # <<>> /\ call.todo[1] = "opened" /\ Going(call)
  BY <1>1, AtFacts, InvNow
<1>3. Ordinary(call') /\ Quieter
  BY <1>1, GoesOrGivesUp
<1>4. /\ Keeps(lib') /\ SameView(lib, lib') /\ lib'.open = lib.open /\ lib'.acq = lib.acq
      /\ lib'.xfer = lib.xfer /\ lib'.mapped = lib.mapped
      /\ lib' = lib \/ lib'.changed
      /\ lib' = lib => lib.acq \/ lib.changed
  <2>1. CASE lib.acq
    BY <1>1, <2>1, SameFacts
  <2>2. CASE ~lib.acq
    <3>1. lib' = [lib EXCEPT !.conf = 0, !.changed = TRUE, !.file = "none"]
      BY <1>1, <2>2 DEF Asks
    <3>2. lib \in Handles /\ lib.len + MaxScans < Top /\ (lib.mode.buf => lib.len > 0)
      BY InvNow DEF Keeps
    <3>3. /\ lib' \in Handles /\ lib'.open = lib.open /\ lib'.acq = lib.acq
          /\ lib'.xfer = lib.xfer /\ lib'.mapped = lib.mapped /\ lib'.changed
          /\ lib'.len = lib.len /\ lib'.mode = lib.mode /\ lib'.count = lib.count
          /\ lib'.head = lib.head /\ lib'.tail = lib.tail /\ lib'.avail = lib.avail
      <4> DEFINE l == lib
                 m == lib'
                 c == 0
                 f == "none"
      <4>1. /\ m = [l EXCEPT !.conf = c, !.changed = TRUE, !.file = f]
            /\ l \in Handles /\ c \in Int /\ f \in {"none", "named", "open"}
        BY <3>1, <3>2
      <4> HIDE DEF l, m, c, f
      <4>2. /\ m \in Handles /\ m.open = l.open /\ m.acq = l.acq
            /\ m.xfer = l.xfer /\ m.mapped = l.mapped /\ m.changed
            /\ m.len = l.len /\ m.mode = l.mode /\ m.count = l.count
            /\ m.head = l.head /\ m.tail = l.tail /\ m.avail = l.avail
        BY <4>1 DEF Handles
      <4> QED BY <4>2 DEF l, m
    <3> QED BY <3>2, <3>3 DEF Keeps, SameView
  <2> QED BY <2>1, <2>2
<1>5. Obeyed'
  <2>1. CASE lib'.changed
    BY <2>1 DEF Obeyed, InSync
  <2>2. CASE ~lib'.changed
    <3>1. lib' = lib /\ lib.acq /\ ~lib.changed
      BY <1>4, <2>2
    <3>2. drv.asked = lib.conf
      BY <3>1, InvNow DEF Obeyed, Fresh, Sampling
    <3> QED BY <1>1, <1>2, <3>1, <3>2, SameFacts, ScansAsked
  <2> QED BY <2>1, <2>2
<1>6. Mapping'
  BY <1>1, <1>4, InvNow DEF Mapping, View, SameView
<1>7. Followed'
  BY <1>1, <1>3, <1>4, SameFacts, OrdinaryFollowed
<1>8. LibraryKnows'
  BY <1>1, <1>4, InvNow DEF Idle, LibraryKnows
<1> QED BY <1>1, <1>3, <1>4, <1>5, <1>6, <1>7, <1>8, SameFacts, InvNow, OrdinaryStep

LEMMA UnmapStep ==
  ASSUME Inv, Unmap, prog' = prog
  PROVE  Inv'
<1>1. At("unmap") /\ GoOn /\ UNCHANGED <<drv, hist>> /\ "unmap" # "device"
      /\ lib' = [lib EXCEPT !.mapped = @ /\ ~lib.mode.buf]
  BY DEF Unmap
<1>2. call.todo # <<>> /\ call.todo[1] = "unmap" /\ Going(call)
  BY <1>1, AtFacts, InvNow
<1>3. Ordinary(call') /\ Quieter /\ call'.todo = Tail(call.todo)
  BY <1>1, <1>2, GoOnCall
<1>4. /\ Keeps(lib') /\ SameView(lib, lib') /\ lib'.open = lib.open /\ lib'.acq = lib.acq
      /\ lib'.xfer = lib.xfer /\ lib'.changed = lib.changed /\ lib'.conf = lib.conf
      /\ lib'.mapped = (lib.mapped /\ ~lib.mode.buf)
  <2> DEFINE x == lib.mapped /\ ~lib.mode.buf
  <2>1. x \in BOOLEAN /\ lib' = [lib EXCEPT !.mapped = x]
    BY <1>1
  <2> HIDE DEF x
  <2>2. /\ Keeps(lib') /\ SameView(lib, lib') /\ lib'.open = lib.open /\ lib'.acq = lib.acq
        /\ lib'.xfer = lib.xfer /\ lib'.changed = lib.changed /\ lib'.conf = lib.conf
        /\ lib'.mapped = x
    BY <2>1, SameFacts DEF Keeps, Handles, SameView
  <2> QED BY <2>2 DEF x
<1>5. Obeyed'
  <2>1. ~Sampling
    BY <1>2 DEF Sampling, ToSample
  <2>2. Fresh => Fresh'
    BY <1>2, <1>3, <1>4, OpeningTail DEF Fresh
  <2>3. ~lib.changed => drv.asked = lib.conf \/ Fresh
    BY <2>1, InvNow DEF Obeyed
  <2> QED BY <1>1, <1>2, <1>4, <2>2, <2>3, SameFacts, ScansAsked
<1>6. Mapping'
  BY <1>4 DEF Mapping, SameView
<1>7. Followed'
  BY <1>1, <1>3, <1>4, SameFacts, OrdinaryFollowed
<1>8. LibraryKnows'
  BY <1>1, <1>4, InvNow DEF Idle, LibraryKnows
<1> QED BY <1>1, <1>3, <1>4, <1>5, <1>6, <1>7, <1>8, SameFacts, InvNow, OrdinaryStep

LEMMA AdcDisarmStep ==
  ASSUME Inv, AdcDisarm, prog' = prog
  PROVE  Inv'
<1>1. At("disarm") /\ UNCHANGED <<lib, hist>> /\ "disarm" # "device"
  BY DEF AdcDisarm
<1>2. call.todo # <<>> /\ call.todo[1] = "disarm" /\ Going(call) /\ lib.open
  BY <1>1, AtFacts, InvNow
<1>3. Keeps(lib') /\ SameView(lib, lib') /\ hist' \in Histories
  BY <1>1, SameFacts
<1>4. Mapping'
  BY <1>1, InvNow DEF Mapping
<1>5. CASE ~lib.acq /\ GoOn /\ UNCHANGED drv
  <2>1. Ordinary(call') /\ Quieter /\ call'.todo = Tail(call.todo)
    BY <1>2, <1>5, GoOnCall
  <2>2. Obeyed'
    <3>1. ~Sampling
      BY <1>2 DEF Sampling, ToSample
    <3>2. Fresh => Fresh'
      BY <1>1, <1>2, <2>1, OpeningTail DEF Fresh
    <3>3. ~lib.changed => drv.asked = lib.conf \/ Fresh
      BY <3>1, InvNow DEF Obeyed
    <3> QED BY <1>1, <1>2, <1>5, <3>2, <3>3, SameFacts, ScansAsked
  <2>3. Followed'
    BY <1>1, <1>3, <1>5, <2>1, SameFacts, OrdinaryFollowed
  <2>4. LibraryKnows'
    BY <1>1, <1>5, InvNow DEF Idle, LibraryKnows
  <2> QED BY <1>1, <1>3, <1>4, <1>5, <2>1, <2>2, <2>3, <2>4, InvNow, OrdinaryStep
<1>6. CASE lib.acq /\ drv' = Driver!Disarmed(drv) /\ Then(<<"disarmStat">>)
  <2>1. Quiet(drv, drv') /\ ~drv'.acq
    BY <1>6, QuietEnds, InvNow
  <2>2. Going(call') /\ Quieter /\ call'.todo # <<>> /\ call'.todo[1] = "disarmStat"
    <3>1. "disarmStat" \in Inserted /\ call.todo[1] # "set"
      BY <1>2 DEF Inserted
    <3> QED BY <1>2, <1>6, <3>1, ThenCall
  <2>3. Obeyed'
    <3>1. ~lib.changed => drv.asked = lib.conf
      BY <1>6, InvNow DEF Obeyed, Fresh, Sampling
    <3> QED BY <1>1, <1>2, <2>1, <3>1, ScansAsked
  <2>4. Followed'
    BY <1>1, <1>3, <2>1, <2>2, FollowedKept
  <2>5. Idle'
    BY <1>1, <1>2, <2>1, InvNow DEF Idle, LibraryKnows, Quiet
  <2>6. Reading'
    BY <2>2 DEF Reading
  <2>7. Programmed'
    BY <1>1, <1>2, <2>2, ProgrammedKept, InvNow
  <2> QED BY <1>3, <1>4, <2>1, <2>2, <2>3, <2>4, <2>5, <2>6, <2>7 DEF Inv, Quiet
<1> QED BY <1>5, <1>6 DEF AdcDisarm

LEMMA TransferStopStep ==
  ASSUME Inv, TransferStop, prog' = prog
  PROVE  Inv'
<1>1. At("stop") /\ UNCHANGED <<lib, hist>> /\ "stop" # "device"
  BY DEF TransferStop
<1>2. call.todo # <<>> /\ call.todo[1] = "stop" /\ Going(call) /\ lib.open
  BY <1>1, AtFacts, InvNow
<1>3. Keeps(lib') /\ SameView(lib, lib') /\ hist' \in Histories
  BY <1>1, SameFacts
<1>4. Mapping'
  BY <1>1, InvNow DEF Mapping
<1>5. CASE ~lib.xfer /\ Then(<<"unmap">>) /\ UNCHANGED drv
  <2>1. /\ Going(call') /\ Quieter /\ call'.todo # <<>> /\ call'.todo[1] = "unmap"
        /\ call'.todo = <<"unmap">> \o Tail(call.todo)
    <3>1. "unmap" \in Inserted /\ call.todo[1] # "set"
      BY <1>2 DEF Inserted
    <3> QED BY <1>2, <1>5, <3>1, ThenCall
  <2>2. Obeyed'
    <3>1. ~Sampling
      BY <1>2 DEF Sampling, ToSample
    <3>2. Fresh => Fresh'
      BY <1>1, <1>2, <2>1, OpeningTail DEF Fresh
    <3>3. ~lib.changed => drv.asked = lib.conf \/ Fresh
      BY <3>1, InvNow DEF Obeyed
    <3> QED BY <1>1, <1>2, <1>5, <3>2, <3>3, SameFacts, ScansAsked
  <2>3. Followed'
    BY <1>1, <1>3, <1>5, <2>1, SameFacts, FollowedKept
  <2>4. Idle'
    BY <1>1, <1>2, <1>5, <2>1, InvNow DEF Idle, LibraryKnows
  <2>5. Reading'
    BY <2>1 DEF Reading
  <2>6. Programmed'
    BY <1>1, <1>2, <2>1, ProgrammedKept, InvNow
  <2> QED BY <1>3, <1>4, <1>5, <2>1, <2>2, <2>3, <2>4, <2>5, <2>6, InvNow DEF Inv
<1>6. CASE lib.xfer /\ drv' = Driver!Stopped(drv) /\ Then(<<"stopWait", "unmap">>)
  <2>1. Quiet(drv, drv') /\ ~drv'.xfer
    BY <1>6, QuietEnds, InvNow
  <2>2. Going(call') /\ Quieter /\ call'.todo # <<>> /\ call'.todo[1] = "stopWait"
    <3>1. call.todo[1] # "set"
      BY <1>2
    <3> QED BY <1>2, <1>6, <3>1, ThenStop
  <2>3. Obeyed'
    <3>1. ~Sampling
      BY <1>2 DEF Sampling, ToSample
    <3>2. ~lib.changed => drv.asked = lib.conf
      BY <1>6, <3>1, InvNow DEF Obeyed, Fresh
    <3> QED BY <1>1, <1>2, <2>1, <3>2, ScansAsked
  <2>4. Followed'
    BY <1>1, <1>3, <2>1, <2>2, FollowedKept
  <2>5. Idle'
    BY <1>1, <1>2, <2>1, <2>2, InvNow DEF Idle, LibraryKnows, Quiet
  <2>6. Reading'
    BY <2>2 DEF Reading
  <2>7. Programmed'
    BY <1>1, <1>2, <2>2, ProgrammedKept, InvNow
  <2> QED BY <1>3, <1>4, <2>1, <2>2, <2>3, <2>4, <2>5, <2>6, <2>7 DEF Inv, Quiet
<1> QED BY <1>5, <1>6 DEF TransferStop

LEMMA BacklogStep ==
  ASSUME Inv, Backlog, prog' = prog
  PROVE  Inv'
<1>1. At("backlog") /\ GoOn /\ UNCHANGED <<lib, hist>> /\ "backlog" # "device"
  BY DEF Backlog
<1>2. call.todo # <<>> /\ call.todo[1] = "backlog" /\ Going(call) /\ lib.open
  BY <1>1, AtFacts, InvNow
<1>3. Quiet(drv, drv')
  BY BacklogQuiet, InvNow
<1>4. Keeps(lib') /\ SameView(lib, lib') /\ hist' \in Histories
  BY <1>1, SameFacts
<1>5. Ordinary(call') /\ Quieter /\ call'.todo = Tail(call.todo)
  BY <1>1, <1>2, GoOnCall
<1>6. Obeyed'
  <2>1. ~Fresh
    BY <1>2, OpeningTail DEF Fresh
  <2>2. Sampling => Sampling'
    BY <1>1, <1>2, <1>5 DEF Sampling, ToSample
  <2>3. ~lib.changed => drv.asked = lib.conf \/ Sampling
    BY <2>1, InvNow DEF Obeyed
  <2> QED BY <1>1, <1>2, <1>3, <2>2, <2>3, ScansAsked
<1>7. Followed'
  BY <1>1, <1>3, <1>4, <1>5, OrdinaryFollowed
<1>8. Mapping'
  BY <1>1, InvNow DEF Mapping
<1>9. LibraryKnows'
  BY <1>1, <1>3, InvNow DEF Idle, LibraryKnows, Quiet
<1>10. Owes(drv')
  BY <1>3 DEF Quiet
<1> QED BY <1>1, <1>4, <1>5, <1>6, <1>7, <1>8, <1>9, <1>10, OrdinaryStep

(* A new transfer.                                                         *)
LEMMA RestartedFacts ==
  ASSUME NEW l, Keeps(l), NEW m, m = Restarted(l)
  PROVE  /\ Keeps(m) /\ m.open = l.open /\ m.acq = l.acq /\ m.xfer /\ m.changed = l.changed
         /\ m.conf = l.conf /\ m.len = l.len /\ m.mode = l.mode /\ m.mapped = l.mapped
         /\ m.count = 0 /\ m.head = 0 /\ m.tail = 0 /\ m.avail = 0
<1>1. /\ l \in Handles /\ l.len + MaxScans < Top /\ (l.mode.buf => l.len > 0)
      /\ 0 \in 0..MaxScans /\ 0 \in Int
  BY SessionAssumption DEF Keeps
<1> DEFINE z == 0
           k == [l EXCEPT !.xfer = TRUE, !.count = z, !.err = "None"]
<1>2. m = [k EXCEPT !.head = z, !.tail = z, !.avail = z, !.last = z]
  BY <1>1 DEF Restarted, Handles
<1>3. z \in Int /\ z \in 0..MaxScans
  BY <1>1
<1> HIDE DEF z
<1>4. /\ k \in Handles /\ k.open = l.open /\ k.acq = l.acq /\ k.xfer /\ k.changed = l.changed
      /\ k.conf = l.conf /\ k.len = l.len /\ k.mode = l.mode /\ k.mapped = l.mapped
      /\ k.count = z
  BY <1>1, <1>3 DEF Handles
<1> HIDE DEF k
<1>5. /\ m \in Handles /\ m.open = l.open /\ m.acq = l.acq /\ m.xfer /\ m.changed = l.changed
      /\ m.conf = l.conf /\ m.len = l.len /\ m.mode = l.mode /\ m.mapped = l.mapped
      /\ m.count = z /\ m.head = z /\ m.tail = z /\ m.avail = z
  BY <1>2, <1>3, <1>4 DEF Handles
<1>6. Keeps(m)
  BY <1>1, <1>5 DEF Keeps
<1> QED BY <1>5, <1>6 DEF z

LEMMA FreshFollows ==
  ASSUME NEW l, l.len \in Nat \ {0}, ~l.mode.ignore, l.count = 0, l.head = 0, l.tail = 0,
         l.avail = 0
  PROVE  Follows(l, 0)
<1> DEFINE b == l.len
<1>1. b \in Nat \ {0} /\ 0 \in 0..(b - 1) /\ 0 \in 0..b
  OBVIOUS
<1> HIDE DEF b
<1>2. 0 % b = 0
  BY <1>1, ModSmall
<1> QED BY <1>1, <1>2 DEF Follows, b

LEMMA RestartedView ==
  ASSUME Inv, hist.undefined = "nothing", lib'.mode = lib.mode, lib'.mapped = lib.mapped,
         lib'.len = lib.len, lib'.head = 0, lib'.tail = 0, lib'.avail = 0
  PROVE  Mapping'
<1> SUFFICES ASSUME lib.mapped, lib.mode.buf PROVE View(lib')
  BY DEF Mapping
<1>1. lib.len \in Nat \ {0}
  BY InvNow DEF Mapping, View
<1>2. 0 \in 0..(lib.len - 1) /\ 0 \in 0..lib.len
  BY <1>1
<1> QED BY <1>1, <1>2 DEF View

LEMMA TransferStartStep ==
  ASSUME Inv, TransferStart, prog' = prog
  PROVE  Inv'
<1>1. At("start") /\ "start" \notin Loose /\ "start" # "device"
  BY DEF TransferStart, Loose
<1>2. /\ call.todo # <<>> /\ call.todo[1] = "start" /\ Going(call) /\ lib.open
      /\ hist.undefined = "nothing"
  BY <1>1, AtFacts, InvNow
<1>3. \/ Refuse
      \/ /\ lib' = Restarted(lib) /\ drv' = Driver!Started(drv, lib.len, lib.mode.cyclic)
         /\ hist' = NewTransfer /\ Then(<<"backlog">>)
      \/ /\ lib' = Restarted(lib) /\ UNCHANGED drv /\ GiveUp
         /\ hist' = [hist EXCEPT !.read = Unknown, !.failed = @ \cup {"library"}]
  BY DEF TransferStart
<1>4. hist \in Histories /\ Unknown \in Int /\ 0 \in Int
  BY InvNow DEF Unknown
<1>5. CASE Refuse
  BY <1>1, <1>5, GivenUp DEF Refuse
<1>6. lib' = Restarted(lib) =>
        /\ Keeps(lib') /\ lib'.open = lib.open /\ lib'.acq = lib.acq /\ lib'.xfer
        /\ lib'.changed = lib.changed /\ lib'.conf = lib.conf /\ lib'.len = lib.len
        /\ lib'.mode = lib.mode /\ lib'.mapped = lib.mapped
        /\ lib'.count = 0 /\ lib'.head = 0 /\ lib'.tail = 0 /\ lib'.avail = 0
        /\ Mapping'
  <2> SUFFICES ASSUME lib' = Restarted(lib)
      PROVE /\ Keeps(lib') /\ lib'.open = lib.open /\ lib'.acq = lib.acq /\ lib'.xfer
            /\ lib'.changed = lib.changed /\ lib'.conf = lib.conf /\ lib'.len = lib.len
            /\ lib'.mode = lib.mode /\ lib'.mapped = lib.mapped
            /\ lib'.count = 0 /\ lib'.head = 0 /\ lib'.tail = 0 /\ lib'.avail = 0
            /\ Mapping'
    OBVIOUS
  <2>1. /\ Keeps(lib') /\ lib'.open = lib.open /\ lib'.acq = lib.acq /\ lib'.xfer
        /\ lib'.changed = lib.changed /\ lib'.conf = lib.conf /\ lib'.len = lib.len
        /\ lib'.mode = lib.mode /\ lib'.mapped = lib.mapped
        /\ lib'.count = 0 /\ lib'.head = 0 /\ lib'.tail = 0 /\ lib'.avail = 0
    BY RestartedFacts, InvNow
  <2> QED BY <1>2, <2>1, RestartedView
<1>7. CASE /\ lib' = Restarted(lib) /\ UNCHANGED drv /\ GiveUp
           /\ hist' = [hist EXCEPT !.read = Unknown, !.failed = @ \cup {"library"}]
  <2>1. hist' \in Histories /\ hist'.read = Unknown
    BY <1>4, <1>7 DEF Histories
  <2>2. Ordinary(call') /\ Quieter
    BY <1>1, <1>7, GoesOrGivesUp
  <2>3. Obeyed'
    BY <1>1, <1>6, <1>7, SameFacts, ObeyedKept
  <2>4. LibraryKnows'
    BY <1>6, <1>7, InvNow DEF Idle, LibraryKnows
  <2>5. Followed'
    BY <2>1 DEF Followed
  <2> QED BY <1>1, <1>6, <1>7, <2>1, <2>2, <2>3, <2>4, <2>5, InvNow, OrdinaryStep
<1>8. CASE /\ lib' = Restarted(lib) /\ drv' = Driver!Started(drv, lib.len, lib.mode.cyclic)
           /\ hist' = NewTransfer /\ Then(<<"backlog">>)
  <2>1. /\ Owes(drv') /\ drv'.asked = drv.asked /\ drv'.total = drv.total
        /\ drv'.size = lib.len /\ drv'.acq = drv.acq /\ drv'.count = 0
    <3>1. lib.len \in Nat /\ lib.mode.cyclic \in BOOLEAN
      BY ModeFacts, InvNow DEF Keeps, Handles
    <3> DEFINE n == lib.len
               c == lib.mode.cyclic
               e == drv'
    <3>2. e = Driver!Started(drv, n, c) /\ n \in Nat /\ c \in BOOLEAN
      BY <1>8, <3>1
    <3> HIDE DEF n, c, e
    <3>3. /\ Owes(e) /\ e.asked = drv.asked /\ e.total = drv.total
          /\ e.size = n /\ e.acq = drv.acq /\ e.count = 0
      BY <3>2, StartedFacts, InvNow
    <3> QED BY <3>3 DEF n, e
  <2>2. /\ Going(call') /\ Quieter /\ call'.todo # <<>> /\ call'.todo[1] = "backlog"
    <3>1. "backlog" \in Inserted /\ call.todo[1] # "set"
      BY <1>2 DEF Inserted
    <3> QED BY <1>2, <1>8, <3>1, ThenCall
  <2>3. /\ hist' \in Histories
        /\ hist'.read = IF lib.mode.buf /\ ~lib.mode.ignore THEN 0 ELSE Unknown
    <3> DEFINE r == IF lib.mode.buf /\ ~lib.mode.ignore THEN 0 ELSE Unknown
    <3>1. hist' = [hist EXCEPT !.read = r] /\ r \in Int
      BY <1>4, <1>8 DEF NewTransfer
    <3> HIDE DEF r
    <3>2. hist' \in Histories /\ hist'.read = r
      BY <1>4, <3>1 DEF Histories
    <3> QED BY <3>2 DEF r
  <2>4. Obeyed'
    <3>1. ~Fresh /\ ~Sampling
      BY <1>1, <1>2, HeadsFresh
    <3> QED BY <1>6, <1>8, <2>1, <3>1, InvNow DEF Obeyed, InSync
  <2>5. Idle'
    BY <1>2, <1>6, <1>8, <2>1, <2>2, InvNow DEF Idle, LibraryKnows
  <2>6. Reading'
    BY <2>2 DEF Reading
  <2>7. Followed'
    <3> SUFFICES ASSUME hist'.read # Unknown, lib'.mode.buf
        PROVE /\ Follows(lib', hist'.read) /\ drv'.size = lib'.len
              /\ lib'.count <= drv'.count
      BY DEF Followed, Follows
    <3>1. hist'.read = 0 /\ ~lib'.mode.ignore
      BY <1>6, <1>8, <2>3
    <3>2. lib'.len \in Nat \ {0}
      BY <1>6, <1>8 DEF Keeps, Handles
    <3>3. Follows(lib', 0)
      BY <1>6, <1>8, <3>1, <3>2, FreshFollows
    <3> QED BY <1>6, <1>8, <2>1, <3>1, <3>3
  <2>8. Programmed'
    BY <1>2, <1>6, <1>8, <2>2, ProgrammedKept, InvNow
  <2> QED BY <1>6, <1>8, <2>1, <2>2, <2>3, <2>4, <2>5, <2>6, <2>7, <2>8 DEF Inv
<1> QED BY <1>3, <1>5, <1>7, <1>8

(* apiAdcReadSample: its transfer, with a configuration of its own.        *)
LEMMA SampleStep ==
  ASSUME Inv, Sample, prog' = prog
  PROVE  Inv'
<1>1. At("sample") /\ "sample" \notin Loose
  BY DEF Sample, Loose
<1>2. /\ call.todo # <<>> /\ call.todo[1] = "sample" /\ Going(call) /\ lib.open
      /\ hist.undefined = "nothing"
  BY <1>1, AtFacts, InvNow
<1>3. CASE Refuse
  BY <1>1, <1>3, GivenUp DEF Refuse
<1>4. CASE /\ ~lib.acq /\ lib' = [Restarted(lib) EXCEPT !.changed = FALSE]
           /\ drv' = Driver!Started(Driver!Configured(drv, call.n), call.n, FALSE)
           /\ hist' = [hist EXCEPT !.read = Unknown] /\ Then(<<"backlog">>)
  <2>1. /\ Keeps(lib') /\ lib'.open = lib.open /\ lib'.acq = lib.acq /\ lib'.xfer
        /\ lib'.len = lib.len
        /\ lib'.mode = lib.mode /\ lib'.mapped = lib.mapped
        /\ lib'.head = 0 /\ lib'.tail = 0 /\ lib'.avail = 0
    <3> DEFINE l == Restarted(lib)
               m == lib'
    <3>1. l = Restarted(lib) /\ m = [l EXCEPT !.changed = FALSE]
      BY <1>4
    <3> HIDE DEF l, m
    <3>2. /\ Keeps(l) /\ l.open = lib.open /\ l.acq = lib.acq /\ l.xfer
          /\ l.len = lib.len /\ l.mode = lib.mode /\ l.mapped = lib.mapped
          /\ l.head = 0 /\ l.tail = 0 /\ l.avail = 0
      BY <3>1, RestartedFacts, InvNow
    <3>3. l \in Handles /\ l.len + MaxScans < Top /\ (l.mode.buf => l.len > 0)
      BY <3>2 DEF Keeps
    <3>4. /\ m \in Handles /\ m.open = l.open /\ m.acq = l.acq /\ m.xfer = l.xfer
          /\ m.len = l.len /\ m.mode = l.mode /\ m.mapped = l.mapped
          /\ m.head = l.head /\ m.tail = l.tail /\ m.avail = l.avail
      BY <3>1, <3>3 DEF Handles
    <3> QED BY <3>2, <3>3, <3>4 DEF Keeps, m
  <2>2. Owes(drv') /\ drv'.acq = drv.acq
    <3> DEFINE n == call.n
               d == Driver!Configured(drv, n)
               e == drv'
    <3>1. n \in Nat
      <4>1. n # Refusal
        BY <1>2, OneStep
      <4> QED BY <1>2, <4>1 DEF Going, Calls
    <3>2. n \in Int /\ d = Driver!Configured(drv, n) /\ e = Driver!Started(d, n, FALSE)
          /\ FALSE \in BOOLEAN
      BY <1>4, <3>1
    <3> HIDE DEF n, d, e
    <3>3. Owes(d) /\ d.acq = drv.acq
      BY <3>2, ConfiguredFacts, InvNow
    <3>4. Owes(e) /\ e.acq = d.acq
      BY <3>1, <3>2, <3>3, StartedFacts
    <3> QED BY <3>3, <3>4 DEF e
  <2>3. /\ Going(call') /\ Quieter /\ call'.todo # <<>> /\ call'.todo[1] = "backlog"
        /\ Tail(call'.todo) = Tail(call.todo)
    <3>1. "backlog" \in Inserted /\ call.todo[1] # "set"
      BY <1>2 DEF Inserted
    <3> QED BY <1>2, <1>4, <3>1, ThenCall
  <2>4. hist' \in Histories /\ hist'.read = Unknown
    <3>1. hist \in Histories /\ Unknown \in Int
      BY InvNow DEF Unknown
    <3> QED BY <1>4, <3>1 DEF Histories
  <2>5. ToSample(Tail(call.todo))
    <3>1. call.todo \in Seq(Steps) /\ Len(call.todo) >= 2 /\ call.todo[2] = "sampleArm"
      BY <1>2 DEF Going, Flow
    <3>2. /\ \A i \in 1..(Len(call.todo) - 1) : Tail(call.todo)[i] = call.todo[i + 1]
          /\ Tail(call.todo) = <<>> <=> Len(call.todo) = 1
          /\ Len(call.todo) \in Nat \ {0}
      BY <1>2, <3>1, TailOf
    <3>3. 1 \in 1..(Len(call.todo) - 1) /\ Len(call.todo) # 1 /\ 1 + 1 = 2
      BY <3>1, <3>2
    <3>4. Tail(call.todo)[1] = call.todo[1 + 1]
      BY <3>2, <3>3
    <3> QED BY <3>1, <3>2, <3>3, <3>4 DEF ToSample
  <2>6. ~drv.acq
    BY <1>4, InvNow DEF Idle, LibraryKnows
  <2>7. Obeyed'
    BY <1>4, <2>1, <2>2, <2>3, <2>5, <2>6 DEF Obeyed, InSync, Sampling
  <2>8. Idle'
    BY <1>2, <2>1, <2>2, <2>3, <2>6 DEF Idle, LibraryKnows
  <2>9. Reading'
    BY <2>3 DEF Reading
  <2>10. Mapping'
    BY <1>2, <2>1, RestartedView
  <2>11. Followed'
    BY <2>4 DEF Followed
  <2>12. Programmed'
    BY <1>2, <2>1, <2>3, ProgrammedKept, InvNow
  <2> QED BY <2>1, <2>2, <2>3, <2>4, <2>7, <2>8, <2>9, <2>10, <2>11, <2>12 DEF Inv
<1> QED BY <1>3, <1>4 DEF Sample

(* daqAdcArm, and the same in apiAdcReadSample: d is the driver with the   *)
(* configuration that it is given.                                         *)
LEMMA ArmedStep ==
  ASSUME Inv, NEW op \in {"arm", "sampleArm"}, At(op), prog' = prog,
         NEW d, Owes(d), d.acq = drv.acq, d.xfer = drv.xfer, d.count = drv.count,
         d.size = drv.size, NEW ready \in BOOLEAN, Armed(d, ready),
         Keeps(lib'), SameView(lib, lib'), lib'.open = lib.open, lib'.xfer = lib.xfer,
         lib'.mapped = lib.mapped, lib'.acq,
         ~lib'.changed => d.asked = lib'.conf /\ ~drv.acq
  PROVE  Inv'
<1>1. /\ call.todo # <<>> /\ hist.undefined = "nothing" /\ lib.open /\ op # "device"
  BY AtFacts
<1>2. \/ /\ drv' = Driver!Armed(d) /\ GoOn
         /\ hist' = [hist EXCEPT !.read = IF CountRestarts THEN Unknown ELSE @]
      \/ /\ drv' = Driver!Cleared(d) /\ GiveUp
         /\ hist' = [hist EXCEPT !.read = IF CountRestarts THEN Unknown ELSE @,
                                 !.failed = @ \cup {"device"}]
      \/ /\ drv' = d /\ GiveUp
         /\ Failed(IF ready THEN "library" ELSE "device")
  BY DEF Armed
<1>3. Ordinary(call') /\ Quieter
  BY <1>2, GoesOrGivesUp
<1>4. hist \in Histories /\ Unknown \in Int
  BY InvNow DEF Unknown
<1>5. /\ hist' \in Histories
      /\ \/ drv' = d /\ hist'.read = hist.read
         \/ hist'.read = IF CountRestarts THEN Unknown ELSE hist.read
      /\ hist'.undefined = "nothing"
  <2> DEFINE r == IF CountRestarts THEN Unknown ELSE hist.read
  <2>1. r \in Int
    BY <1>4 DEF Histories
  <2>2. CASE hist' = [hist EXCEPT !.read = r]
    <3> HIDE DEF r
    <3>1. hist' \in Histories /\ hist'.read = r /\ hist'.undefined = hist.undefined
      BY <1>4, <2>1, <2>2 DEF Histories
    <3> QED BY <1>1, <3>1 DEF r
  <2>3. CASE hist' = [hist EXCEPT !.read = r, !.failed = @ \cup {"device"}]
    <3> HIDE DEF r
    <3>1. hist' \in Histories /\ hist'.read = r /\ hist'.undefined = hist.undefined
      BY <1>4, <2>1, <2>3 DEF Histories
    <3> QED BY <1>1, <3>1 DEF r
  <2>4. CASE drv' = d /\ Failed(IF ready THEN "library" ELSE "device")
    <3>1. (IF ready THEN "library" ELSE "device") \in {"library", "device"}
      OBVIOUS
    <3>2. hist' \in Histories /\ hist'.read = hist.read /\ hist'.undefined = hist.undefined
      BY <2>4, <3>1, FailedFacts
    <3> QED BY <1>1, <2>4, <3>2
  <2> QED BY <1>2, <2>2, <2>3, <2>4
<1>6. /\ Owes(drv') /\ drv'.asked = d.asked /\ drv'.size = drv.size
      /\ \/ drv' = d
         \/ drv'.count = 0 /\ drv'.xfer = drv.xfer
      /\ \/ drv'.acq = drv.acq
         \/ drv'.total = d.asked
      /\ drv'.xfer = drv.xfer
  <2> DEFINE e == drv'
  <2>1. CASE e = d
    BY <2>1
  <2>2. CASE e = Driver!Armed(d) \/ e = Driver!Cleared(d)
    <3> HIDE DEF e
    <3>1. e \in {Driver!Armed(d), Driver!Cleared(d)}
      BY <2>2
    <3>2. /\ Owes(e) /\ e.asked = d.asked /\ e.size = d.size /\ e.count = 0 /\ e.xfer = d.xfer
          /\ e = Driver!Armed(d) => e.acq /\ e.total = d.asked
          /\ e = Driver!Cleared(d) => e.acq = d.acq /\ e.total = d.total
      BY <3>1, ArmedFacts
    <3>3. Owes(e) /\ e.asked = d.asked /\ e.size = drv.size /\ e.count = 0 /\ e.xfer = drv.xfer
          /\ (e.acq = drv.acq \/ e.total = d.asked)
      BY <2>2, <3>2
    <3> QED BY <3>3 DEF e
  <2> QED BY <1>2, <2>1, <2>2
<1>7. LibraryKnows'
  BY <1>6, InvNow DEF Idle, LibraryKnows
<1>8. Obeyed'
  BY <1>6 DEF Obeyed, InSync
<1>9. Mapping'
  BY <1>1, InvNow DEF Mapping, View, SameView
<1>10. Followed'
  <2> SUFFICES ASSUME hist'.read # Unknown, lib'.mode.buf
      PROVE  /\ Follows(lib', hist'.read) /\ drv'.size = lib'.len
             /\ lib'.count <= drv'.count \/ (drv'.count = 0 /\ ~drv'.xfer)
    <3>1. call'.todo # <<>> => call'.todo[1] # "copy"
      BY <1>3, OrdinaryHead
    <3> QED BY <3>1 DEF Followed, Follows
  <2>1. hist'.read = hist.read /\ (drv' = d \/ ~CountRestarts) /\ lib.mode.buf
    BY <1>5 DEF SameView
  <2>2. /\ Follows(lib, hist.read) /\ drv.size = lib.len
        /\ lib.count <= drv.count \/ (drv.count = 0 /\ ~drv.xfer)
    BY <1>1, <2>1, InvNow DEF Followed
  <2>3. Follows(lib', hist'.read) /\ drv'.size = lib'.len /\ lib'.count = lib.count
    BY <1>6, <2>1, <2>2 DEF Follows, SameView
  <2>4. CASE drv' = d
    BY <2>2, <2>3, <2>4
  <2>5. CASE ~CountRestarts /\ drv'.count = 0 /\ drv'.xfer = drv.xfer
    <3>1. drv.count \in Nat /\ lib.count \in Nat
      BY <2>2, InvNow DEF Owes, Drivers, Follows
    <3>2. CASE drv.xfer
      <4>1. ~(drv.count > 0)
        BY <2>5, <3>2 DEF CountRestarts
      <4> QED BY <2>2, <2>3, <2>5, <3>1, <3>2, <4>1
    <3>3. CASE ~drv.xfer
      BY <2>3, <2>5, <3>3
    <3> QED BY <3>2, <3>3
  <2> QED BY <1>6, <2>1, <2>4, <2>5
<1> QED BY <1>1, <1>3, <1>5, <1>6, <1>7, <1>8, <1>9, <1>10, OrdinaryStep

LEMMA SampleArmStep ==
  ASSUME Inv, SampleArm, prog' = prog
  PROVE  Inv'
<1>1. At("sampleArm") /\ lib' = [lib EXCEPT !.changed = TRUE, !.acq = TRUE] /\ Armed(drv, TRUE)
  BY DEF SampleArm
<1>2. /\ Keeps(lib') /\ SameView(lib, lib') /\ lib'.open = lib.open /\ lib'.xfer = lib.xfer
      /\ lib'.mapped = lib.mapped /\ lib'.acq /\ lib'.changed
  BY <1>1, InvNow DEF Keeps, Handles, SameView
<1>3. "sampleArm" \in {"arm", "sampleArm"} /\ TRUE \in BOOLEAN
  OBVIOUS
<1> QED BY <1>1, <1>2, <1>3, InvNow, ArmedStep

LEMMA AdcArmStep ==
  ASSUME Inv, AdcArm, prog' = prog
  PROVE  Inv'
<1>1. At("arm") /\ "arm" \notin Loose /\ "arm" \in {"arm", "sampleArm"}
  BY DEF AdcArm, Loose
<1>2. call.todo # <<>> /\ call.todo[1] = "arm" /\ Going(call) /\ lib.open
  BY <1>1, AtFacts, InvNow
<1>3. CASE Refuse
  BY <1>1, <1>3, GivenUp DEF Refuse
<1>4. CASE /\ drv' \in {drv, Driver!Refused(drv)}
           /\ GiveUp /\ Failed("library") /\ UNCHANGED lib
  <2>1. Quiet(drv, drv')
    BY <1>4, QuietEnds, SameFacts, InvNow
  <2>2. hist' \in Histories /\ hist'.read = hist.read
    BY <1>4, FailedFacts
  <2>3. Ordinary(call') /\ Quieter
    BY <1>1, <1>4, GoesOrGivesUp
  <2> QED BY <1>1, <1>4, <2>1, <2>2, <2>3, SameFacts, PlainStep
<1>5. CASE /\ ~lib.acq
           /\ \E opened \in BOOLEAN :
                /\ lib' = [lib EXCEPT !.changed = FALSE, !.acq = TRUE,
                             !.file = IF @ = "none" THEN @ ELSE IF opened THEN "open" ELSE "named"]
                /\ Armed(IF lib.changed THEN Driver!Configured(drv, lib.conf) ELSE drv,
                         opened \/ lib.file = "none")
  <2>1. PICK opened \in BOOLEAN :
          /\ lib' = [lib EXCEPT !.changed = FALSE, !.acq = TRUE,
                       !.file = IF @ = "none" THEN @ ELSE IF opened THEN "open" ELSE "named"]
          /\ Armed(IF lib.changed THEN Driver!Configured(drv, lib.conf) ELSE drv,
                   opened \/ lib.file = "none")
    BY <1>5
  <2> DEFINE d == IF lib.changed THEN Driver!Configured(drv, lib.conf) ELSE drv
             ready == opened \/ lib.file = "none"
             f == IF lib.file = "none" THEN lib.file ELSE IF opened THEN "open" ELSE "named"
  <2>2. Armed(d, ready) /\ ready \in BOOLEAN
    BY <2>1
  <2>3. ~drv.acq
    BY <1>5, InvNow DEF Idle, LibraryKnows
  <2>4. /\ Owes(d) /\ d.acq = drv.acq /\ d.xfer = drv.xfer /\ d.count = drv.count
        /\ d.size = drv.size /\ d.asked = lib.conf
    <3>1. CASE lib.changed
      <4> DEFINE n == lib.conf
                 e == d
      <4>1. n \in Int /\ e = Driver!Configured(drv, n)
        BY <3>1, InvNow DEF Keeps, Handles
      <4> HIDE DEF n, e, d
      <4>2. /\ Owes(e) /\ e.acq = drv.acq /\ e.xfer = drv.xfer /\ e.count = drv.count
            /\ e.size = drv.size /\ e.asked = n
        BY <4>1, ConfiguredFacts, InvNow
      <4> QED BY <4>2 DEF n, e
    <3>2. CASE ~lib.changed
      <4>1. ~Fresh /\ ~Sampling
        BY <1>1, <1>2, HeadsFresh
      <4>2. drv.asked = lib.conf
        BY <3>2, <4>1, InvNow DEF Obeyed
      <4> QED BY <3>2, <4>2, InvNow
    <3> QED BY <3>1, <3>2
  <2>5. lib' = [lib EXCEPT !.changed = FALSE, !.acq = TRUE, !.file = f]
        /\ f \in {"none", "named", "open"}
    BY <2>1
  <2> HIDE DEF d, ready, f
  <2>6. /\ Keeps(lib') /\ SameView(lib, lib') /\ lib'.open = lib.open /\ lib'.xfer = lib.xfer
        /\ lib'.mapped = lib.mapped /\ lib'.acq /\ lib'.conf = lib.conf
    <3> DEFINE l == lib
               m == lib'
    <3>1. /\ m = [l EXCEPT !.changed = FALSE, !.acq = TRUE, !.file = f]
          /\ l \in Handles /\ l.len + MaxScans < Top /\ (l.mode.buf => l.len > 0)
      BY <2>5, InvNow DEF Keeps
    <3> HIDE DEF l, m
    <3>2. /\ m \in Handles /\ m.open = l.open /\ m.xfer = l.xfer /\ m.mapped = l.mapped
          /\ m.acq /\ m.conf = l.conf /\ m.len = l.len /\ m.mode = l.mode /\ m.count = l.count
          /\ m.head = l.head /\ m.tail = l.tail /\ m.avail = l.avail
      BY <2>5, <3>1 DEF Handles
    <3>3. Keeps(m) /\ SameView(l, m)
      BY <3>1, <3>2 DEF Keeps, SameView
    <3> QED BY <3>2, <3>3 DEF l, m
  <2> QED BY <1>1, <2>2, <2>3, <2>4, <2>6, ArmedStep
<1> QED BY <1>3, <1>4, <1>5 DEF AdcArm
-----------------------------------------------------------------------------
(* The calls that programs make.                                           *)
Starting(c) ==
  Going(c) /\ c.todo # <<>> /\ c.todo[1] \notin {"disarmStat", "bufWait", "bufCheck", "copy"}

Stays(c) == Starting(c) /\ ~Has(c.todo, "closed")

LEMMA OpsFacts ==
  ASSUME NEW t \in Seq(Steps)
  PROVE  Ops(t) \in Calls /\ Ops(t).todo = t /\ Ops(t).n = 0
<1>1. <<>> \in Seq(Steps)
  BY EmptySeq
<1>2. NoCall \in Calls /\ NoCall.n = 0
  BY <1>1 DEF NoCall, Calls, Modes
<1> QED BY <1>2 DEF Ops, Calls

LEMMA OneOp ==
  ASSUME NEW op \in Steps, op \notin Sudden, NEW c \in Calls, c.todo = <<op>>,
         op # "set" => c.n \in Nat, op = "buffer" => Legal(c.n)
  PROVE  Starting(c) /\ (op # "closed" => Stays(c))
<1> DEFINE s == c.todo
<1>1. s \in Seq(Steps) /\ Len(s) = 1 /\ s[1] = op /\ s # <<>> /\ s = <<op>>
  OBVIOUS
<1> HIDE DEF s
<1>2. \A i \in 1..Len(s) : i = 1
  BY <1>1
<1>3. op \notin {"sample", "stopWait", "device"}
  BY DEF Sudden
<1>4. Flow(s)
  <2>1. \A i \in 2..Len(s) : FALSE
    BY <1>1
  <2>2. \A i \in 1..(Len(s) - 1) : FALSE
    BY <1>1
  <2> QED BY <1>1, <1>2, <1>3, <2>1, <2>2 DEF Flow
<1>5. Has(s, "buffer") => op = "buffer"
  BY <1>1, <1>2 DEF Has
<1>6. Has(s, "closed") => op = "closed"
  BY <1>1, <1>2 DEF Has
<1>7. c.n = Refusal => op = "set"
  BY DEF Refusal
<1>8. Going(c)
  BY <1>1, <1>4, <1>5, <1>7 DEF Going, s
<1>9. op \notin {"disarmStat", "bufWait", "bufCheck", "copy"}
  BY DEF Sudden
<1> QED BY <1>1, <1>6, <1>8, <1>9 DEF Starting, Stays, s

LEMMA PlainCalls ==
  /\ Stays(Start) /\ Stays(Arm) /\ Stays(GetStat) /\ Stays(WaitDone) /\ Stays(WaitData)
  /\ Stays(Disarm) /\ Stays(Stop) /\ Stays(SetFile)
<1>1. ASSUME NEW op \in {"start", "arm", "getStat", "waitDone", "waitData", "disarm", "stop",
                         "file"}
      PROVE  Stays(Ops(<<op>>))
  <2>1. op \in Steps /\ op \notin Sudden /\ op \notin {"buffer", "closed"}
    BY DEF Steps, Sudden
  <2>2. <<op>> \in Seq(Steps)
    BY <2>1
  <2>3. Ops(<<op>>) \in Calls /\ Ops(<<op>>).todo = <<op>> /\ Ops(<<op>>).n \in Nat
    <3> DEFINE t == <<op>>
    <3>1. t \in Seq(Steps)
      BY <2>2
    <3> HIDE DEF t
    <3>2. Ops(t) \in Calls /\ Ops(t).todo = t /\ Ops(t).n = 0
      BY <3>1, OpsFacts
    <3> QED BY <3>2 DEF t
  <2> QED BY <2>1, <2>3, OneOp
<1> QED BY <1>1 DEF Start, Arm, GetStat, WaitDone, WaitData, Disarm, Stop, SetFile

LEMMA SetCall ==
  ASSUME NEW n \in Nat \cup {Refusal}
  PROVE  Stays(Set(n))
<1> DEFINE o == Ops(<<"set">>)
           c == Set(n)
<1>1. "set" \in Steps /\ "set" \notin Sudden /\ "set" # "closed" /\ <<"set">> \in Seq(Steps)
  BY DEF Steps, Sudden
<1>2. o \in Calls /\ o.todo = <<"set">> /\ c = [o EXCEPT !.n = n]
  BY <1>1, OpsFacts DEF Set
<1> HIDE DEF o, c
<1>3. c \in Calls /\ c.todo = <<"set">>
  BY <1>2 DEF Calls
<1>4. Stays(c)
  BY <1>1, <1>3, OneOp
<1> QED BY <1>4 DEF c

LEMMA BufferCall ==
  ASSUME NEW n, Legal(n), NEW m \in Modes
  PROVE  Stays(Buffer(n, m))
<1> DEFINE o == Ops(<<"buffer">>)
           c == Buffer(n, m)
<1>1. "buffer" \in Steps /\ "buffer" \notin Sudden /\ "buffer" # "closed"
      /\ <<"buffer">> \in Seq(Steps) /\ n \in Nat
  BY DEF Steps, Sudden, Legal
<1>2. o \in Calls /\ o.todo = <<"buffer">> /\ c = [o EXCEPT !.n = n, !.mode = m]
  BY <1>1, OpsFacts DEF Buffer
<1> HIDE DEF o, c
<1>3. c \in Calls /\ c.todo = <<"buffer">> /\ c.n = n
  BY <1>1, <1>2 DEF Calls
<1>4. Stays(c)
  BY <1>1, <1>3, OneOp
<1> QED BY <1>4 DEF c

LEMMA BufDataCall ==
  ASSUME NEW n \in Nat, NEW how \in {"NoWait", "RetNotDone", "RetAvail", "Newest", "Wait"}
  PROVE  Stays(BufData(n, how))
<1> DEFINE o == Ops(<<"bufStat">>)
           c == BufData(n, how)
<1>1. "bufStat" \in Steps /\ "bufStat" \notin Sudden /\ "bufStat" # "closed"
      /\ <<"bufStat">> \in Seq(Steps) /\ "bufStat" # "buffer"
  BY DEF Steps, Sudden
<1>2. o \in Calls /\ o.todo = <<"bufStat">> /\ c = [o EXCEPT !.n = n, !.how = how]
  BY <1>1, OpsFacts DEF BufData
<1> HIDE DEF o, c
<1>3. c \in Calls /\ c.todo = <<"bufStat">> /\ c.n = n
  BY <1>2 DEF Calls
<1>4. Stays(c)
  BY <1>1, <1>3, OneOp
<1> QED BY <1>4 DEF c

LEMMA OpenCall == Stays(Open)
<1> DEFINE s == <<"device", "disarm", "stop", "opened", "arm", "disarm">>
<1>1. s \in Seq(Steps) /\ Len(s) = 6 /\ s # <<>>
  BY DEF Steps
<1>2. s[1] = "device" /\ s[2] = "disarm" /\ s[3] = "stop" /\ s[4] = "opened" /\ s[5] = "arm"
      /\ s[6] = "disarm"
  OBVIOUS
<1>3. Open = Ops(s)
  BY DEF Open
<1> HIDE DEF s
<1>4. Open \in Calls /\ Open.todo = s /\ Open.n = 0
  BY <1>1, <1>3, OpsFacts
<1>5. \A i \in 1..6 : i = 1 \/ i = 2 \/ i = 3 \/ i = 4 \/ i = 5 \/ i = 6
  OBVIOUS
<1>6. \A i \in 1..6 : /\ i # 1 => s[i] \notin Sudden
                      /\ s[i] # "closed" /\ s[i] # "buffer"
  BY <1>2, <1>5 DEF Sudden
<1>7. Flow(s) /\ ~Has(s, "buffer") /\ ~Has(s, "closed")
  <2>1. \A i \in 2..Len(s) : i \in 1..6 /\ i # 1
    BY <1>1
  <2>2. \A i \in 1..(Len(s) - 1) : i \in 1..6
    BY <1>1
  <2> QED BY <1>1, <1>2, <1>4, <1>6, <2>1, <2>2 DEF Flow, Has
<1> QED BY <1>1, <1>2, <1>4, <1>7 DEF Stays, Starting, Going, Refusal

LEMMA CloseCall == Starting(Close)
<1> DEFINE s == <<"disarm", "stop", "closed">>
<1>1. s \in Seq(Steps) /\ Len(s) = 3 /\ s # <<>>
  BY DEF Steps
<1>2. s[1] = "disarm" /\ s[2] = "stop" /\ s[3] = "closed"
  OBVIOUS
<1>3. Close = Ops(s)
  BY DEF Close
<1> HIDE DEF s
<1>4. Close \in Calls /\ Close.todo = s /\ Close.n = 0
  BY <1>1, <1>3, OpsFacts
<1>5. \A i \in 1..3 : i = 1 \/ i = 2 \/ i = 3
  OBVIOUS
<1>6. \A i \in 1..3 : /\ i # 3 => s[i] # "closed"
                      /\ s[i] \notin Sudden /\ s[i] # "buffer"
  BY <1>2, <1>5 DEF Sudden
<1>7. Flow(s) /\ ~Has(s, "buffer")
  <2>1. \A i \in 2..Len(s) : i \in 1..3
    BY <1>1
  <2>2. \A i \in 1..(Len(s) - 1) : i \in 1..3 /\ i # 3
    BY <1>1
  <2> QED BY <1>1, <1>2, <1>6, <2>1, <2>2 DEF Flow, Has
<1> QED BY <1>1, <1>2, <1>4, <1>7 DEF Starting, Going, Refusal

LEMMA ReadScanCall ==
  ASSUME NEW n, Legal(n)
  PROVE  Stays(ReadScanN(n))
<1> DEFINE s == <<"set", "buffer", "start", "arm", "waitDone", "bufStat", "disarm", "stop">>
           o == Ops(s)
           c == ReadScanN(n)
<1>1. s \in Seq(Steps) /\ Len(s) = 8 /\ s # <<>> /\ n \in Nat
  BY DEF Steps, Legal
<1>2. s[1] = "set" /\ s[2] = "buffer" /\ s[3] = "start" /\ s[4] = "arm" /\ s[5] = "waitDone"
      /\ s[6] = "bufStat" /\ s[7] = "disarm" /\ s[8] = "stop"
  OBVIOUS
<1>3. c = [o EXCEPT !.n = n]
  BY DEF ReadScanN
<1> HIDE DEF s
<1>4. o \in Calls /\ o.todo = s
  BY <1>1, OpsFacts
<1> HIDE DEF o, c
<1>5. c \in Calls /\ c.todo = s /\ c.n = n
  BY <1>1, <1>3, <1>4 DEF Calls
<1>6. \A i \in 1..8 : i = 1 \/ i = 2 \/ i = 3 \/ i = 4 \/ i = 5 \/ i = 6 \/ i = 7 \/ i = 8
  OBVIOUS
<1>7. \A i \in 1..8 : /\ s[i] # "closed" /\ s[i] \notin Sudden
                      /\ s[i] = "buffer" => i = 2
  BY <1>2, <1>6 DEF Sudden
<1>8. Flow(s) /\ ~Has(s, "closed")
  <2>1. \A i \in 2..Len(s) : i \in 1..8
    BY <1>1
  <2>2. \A i \in 1..(Len(s) - 1) : i \in 1..8
    BY <1>1
  <2> QED BY <1>1, <1>2, <1>7, <2>1, <2>2 DEF Flow, Has
<1>9. c.n # Refusal
  BY <1>1, <1>5 DEF Refusal
<1>10. Stays(c)
  BY <1>1, <1>2, <1>5, <1>8, <1>9 DEF Stays, Starting, Going
<1> QED BY <1>10 DEF c

LEMMA ReadSampleCall ==
  ASSUME NEW n \in Nat
  PROVE  Stays(ReadSample(n))
<1> DEFINE s == <<"sample", "sampleArm", "waitDone", "getStat", "disarm", "stop">>
           o == Ops(s)
           c == ReadSample(n)
<1>1. s \in Seq(Steps) /\ Len(s) = 6 /\ s # <<>>
  BY DEF Steps
<1>2. s[1] = "sample" /\ s[2] = "sampleArm" /\ s[3] = "waitDone" /\ s[4] = "getStat"
      /\ s[5] = "disarm" /\ s[6] = "stop"
  OBVIOUS
<1>3. c = [o EXCEPT !.n = n]
  BY DEF ReadSample
<1> HIDE DEF s
<1>4. o \in Calls /\ o.todo = s
  BY <1>1, OpsFacts
<1> HIDE DEF o, c
<1>5. c \in Calls /\ c.todo = s /\ c.n = n
  BY <1>1, <1>3, <1>4 DEF Calls
<1>6. \A i \in 1..6 : i = 1 \/ i = 2 \/ i = 3 \/ i = 4 \/ i = 5 \/ i = 6
  OBVIOUS
<1>7. \A i \in 1..6 : /\ s[i] # "closed" /\ s[i] # "buffer"
                      /\ i # 1 => s[i] \notin Sudden
  BY <1>2, <1>6 DEF Sudden
<1>8. Flow(s) /\ ~Has(s, "closed") /\ ~Has(s, "buffer")
  <2>1. \A i \in 2..Len(s) : i \in 1..6 /\ i # 1
    BY <1>1
  <2>2. \A i \in 1..(Len(s) - 1) : i \in 1..6
    BY <1>1
  <2>3. Len(s) >= 2
    BY <1>1
  <2> QED BY <1>1, <1>2, <1>7, <2>1, <2>2, <2>3 DEF Flow, Has
<1>9. c.n # Refusal
  BY <1>5 DEF Refusal
<1>10. Stays(c)
  BY <1>1, <1>2, <1>5, <1>8, <1>9 DEF Stays, Starting, Going
<1> QED BY <1>10 DEF c

LEMMA AnyCallStarts == \A c \in AnyCall : Starting(c)
<1>1. Scans \in Nat /\ Large \in Nat /\ Legal(1) /\ Counts \subseteq Nat
      /\ \A n \in Lengths : Legal(n)
  <2>1. Large \in Nat \ {0} /\ Large + MaxScans < Top /\ MaxScans \in Nat /\ Top \in Nat
    BY ExamplesAssumption, SessionAssumption
  <2>2. 1 + MaxScans < Top
    BY <2>1
  <2> QED BY <2>2, ExamplesAssumption, SessionAssumption DEF Legal
<1>2. \A n \in Counts \cup {Refusal} : Stays(Set(n))
  BY <1>1, SetCall
<1>3. \A n \in Lengths, m \in Modes : Stays(Buffer(n, m))
  BY <1>1, BufferCall
<1>4. \A n \in 1..Large : Stays(BufData(n, "Wait"))
  BY <1>1, BufDataCall
<1>5. Stays(BufData(1, "RetNotDone")) /\ Stays(BufData(Large, "RetAvail"))
      /\ Stays(BufData(Large, "Newest"))
  BY <1>1, BufDataCall
<1>6. Stays(ReadSample(1))
  BY ReadSampleCall
<1> QED BY <1>2, <1>3, <1>4, <1>5, <1>6, PlainCalls, OpenCall, CloseCall DEF AnyCall, Stays

(* The examples: they open the device first, and close it last.            *)
Fits(c) == c \in {UntilIdle, UntilKey} \/ Stays(c)

Well(s) ==
  /\ Len(s) \in Nat \ {0} /\ s[1] = Open /\ s[Len(s)] = Close
  /\ \A i \in 1..(Len(s) - 1) : Fits(s[i])

LEMMA ItemsFit ==
  /\ Fits(Open) /\ Fits(SetFile) /\ Fits(Start) /\ Fits(Arm) /\ Fits(GetStat)
  /\ Fits(WaitDone) /\ Fits(WaitData) /\ Fits(Disarm) /\ Fits(UntilIdle) /\ Fits(UntilKey)
  /\ Fits(Set(0)) /\ Fits(Set(Scans)) /\ Fits(Plain(Scans)) /\ Fits(Plain(Large))
  /\ Fits(Cyclic(Scans)) /\ Fits(Cyclic(Large)) /\ Fits(ReadScanN(1)) /\ Fits(ReadScanN(Scans))
  /\ \A how \in {"NoWait", "RetAvail", "Wait"} : Fits(BufData(Scans, how))
<1>1. Scans \in Nat /\ Legal(1) /\ Legal(Scans) /\ Legal(Large)
  <2>1. Large \in Nat \ {0} /\ Large + MaxScans < Top /\ MaxScans \in Nat /\ Top \in Nat
    BY ExamplesAssumption, SessionAssumption
  <2>2. 1 + MaxScans < Top
    BY <2>1
  <2> QED BY <2>2, ExamplesAssumption DEF Legal
<1>2. Stays(Set(0)) /\ Stays(Set(Scans))
  BY <1>1, SetCall
<1>3. /\ Stays(Plain(Scans)) /\ Stays(Plain(Large)) /\ Stays(Cyclic(Scans))
      /\ Stays(Cyclic(Large))
  BY <1>1, BufferCall DEF Plain, Cyclic, Modes
<1>4. Stays(ReadScanN(1)) /\ Stays(ReadScanN(Scans))
  BY <1>1, ReadScanCall
<1>5. \A how \in {"NoWait", "RetAvail", "Wait"} : Stays(BufData(Scans, how))
  BY <1>1, BufDataCall
<1> QED BY <1>2, <1>3, <1>4, <1>5, PlainCalls, OpenCall DEF Fits

LEMMA Ex02Well == Well(DaqAdcEx02)
BY ItemsFit DEF Well, DaqAdcEx02

LEMMA Ex03Well == Well(DaqAdcEx03)
BY ItemsFit DEF Well, DaqAdcEx03

LEMMA Ex04Well == Well(DaqAdcEx04)
BY ItemsFit DEF Well, DaqAdcEx04

LEMMA Ex05Well == Well(DaqAdcEx05)
BY ItemsFit DEF Well, DaqAdcEx05

LEMMA Ex06Well == Well(DaqAdcEx06)
BY ItemsFit DEF Well, DaqAdcEx06

LEMMA Ex07Well == Well(DaqAdcEx07)
BY ItemsFit DEF Well, DaqAdcEx07

LEMMA Ex08Well == Well(DaqAdcEx08)
BY ItemsFit DEF Well, DaqAdcEx08

LEMMA Ex10Well == Well(DaqAdcEx10)
BY ItemsFit DEF Well, DaqAdcEx10

LEMMA Ex11Well == Well(DaqAdcEx11)
BY ItemsFit DEF Well, DaqAdcEx11

LEMMA Ex13Well == Well(DaqAdcEx13)
BY ItemsFit DEF Well, DaqAdcEx13

LEMMA DBK82Well == Well(DBK82Ex)
BY ItemsFit DEF Well, DBK82Ex

LEMMA ScriptWell ==
  ASSUME NEW name \in Examples
  PROVE  Well(Script(name))
<1>1. /\ Script("Ex02") = DaqAdcEx02 /\ Script("Ex03") = DaqAdcEx03
      /\ Script("Ex04") = DaqAdcEx04 /\ Script("Ex05") = DaqAdcEx05
      /\ Script("Ex06") = DaqAdcEx06 /\ Script("Ex07") = DaqAdcEx07
      /\ Script("Ex08") = DaqAdcEx08 /\ Script("Ex10") = DaqAdcEx10
      /\ Script("Ex11") = DaqAdcEx11 /\ Script("Ex13") = DaqAdcEx13
      /\ Script("DBK82") = DBK82Ex
  BY DEF Script
<1> QED BY <1>1, Ex02Well, Ex03Well, Ex04Well, Ex05Well, Ex06Well, Ex07Well, Ex08Well,
           Ex10Well, Ex11Well, Ex13Well, DBK82Well DEF Examples
-----------------------------------------------------------------------------
(* The program, the driver by itself, and the end of a process.            *)
LEMMA NewCall ==
  ASSUME Inv, call.todo = <<>>, Starting(call'), UNCHANGED <<drv, lib>>,
         hist' \in Histories, hist'.read = hist.read, hist'.undefined = hist.undefined,
         ~lib.open => call' = Open, Programmed'
  PROVE  Inv'
<1>1. /\ Going(call') /\ call'.todo # <<>>
      /\ call'.todo[1] # "disarmStat" /\ call'.todo[1] # "copy"
      /\ call'.todo[1] \notin {"bufWait", "bufCheck", "copy"}
  BY DEF Starting
<1>2. Idle'
  BY <1>1, InvNow DEF Idle, LibraryKnows
<1>3. Obeyed'
  <2>1. ~Sampling
    BY DEF Sampling
  <2>2. Open.todo \in Opening
    BY DEF Opening
  <2>3. Fresh => Fresh'
    <3> SUFFICES ASSUME Fresh PROVE Fresh'
      OBVIOUS
    <3>1. call.todo \notin Opening
      <4> SUFFICES ASSUME call.todo \in Opening PROVE FALSE
        OBVIOUS
      <4>1. call.todo[1] \in {"device", "disarm", "stop", "unmap", "opened"}
        BY OpeningTail
      <4>2. <<>> \notin Opening
        <5>1. Open.todo = <<"device", "disarm", "stop", "opened", "arm", "disarm">>
          BY DEF Open, Ops, NoCall
        <5> QED BY <5>1 DEF Opening
      <4> QED BY <4>2
    <3>2. ~lib.open /\ ~lib.acq /\ ~lib.xfer
      BY <3>1 DEF Fresh
    <3> QED BY <2>2, <3>2 DEF Fresh
  <2> QED BY <2>1, <2>3, InvNow DEF Obeyed, InSync
<1>4. Mapping'
  BY InvNow DEF Mapping
<1>5. Reading'
  BY <1>1 DEF Reading
<1>6. Followed'
  BY <1>1, InvNow DEF Followed
<1>7. Owes(drv') /\ Keeps(lib')
  BY InvNow
<1> QED BY <1>1, <1>2, <1>3, <1>4, <1>5, <1>6, <1>7 DEF Inv

LEMMA CallAnyStep ==
  ASSUME Inv, CallAny
  PROVE  Inv'
<1>1. /\ call.todo = <<>> /\ prog.name = "any" /\ UNCHANGED <<drv, lib, prog>>
      /\ call' \in (IF lib.open THEN AnyCall ELSE {Open})
      /\ hist' = [hist EXCEPT !.failed = {}]
  BY DEF CallAny, Ready
<1>2. Starting(call') /\ (~lib.open => call' = Open)
  BY <1>1, AnyCallStarts, OpenCall DEF Stays
<1>3. hist' \in Histories /\ hist'.read = hist.read /\ hist'.undefined = hist.undefined
  BY <1>1, InvNow DEF Histories
<1>4. Programmed'
  BY <1>1, <1>2, InvNow DEF Programmed
<1> QED BY <1>1, <1>2, <1>3, <1>4, NewCall

LEMMA CallNextStep ==
  ASSUME Inv, CallNext
  PROVE  Inv'
<1> DEFINE s == Script(prog.name)
           at == prog.at
<1>1. /\ call.todo = <<>> /\ prog.name # "any" /\ UNCHANGED <<drv, lib, hist>>
      /\ ~(at > Len(s))
      /\ \/ s[at] = UntilIdle /\ Moves(IF lib.acq THEN -1 ELSE 1) /\ UNCHANGED call
         \/ s[at] = UntilKey /\ (Moves(-1) \/ Moves(1)) /\ UNCHANGED call
         \/ s[at] \notin {UntilIdle, UntilKey} /\ call' = s[at] /\ Moves(1)
  BY DEF CallNext, Ready, Finished, Item
<1>2. /\ prog \in [name: Examples \cup {"any"}, at: Nat] /\ prog.name \in Examples
      /\ at \in 1..(Len(s) + 1)
      /\ ~lib.open => at \in {1, Len(s) + 1}
  <2>1. prog \in [name: Examples \cup {"any"}, at: Nat] /\ at \in 1..(Len(s) + 1)
    BY <1>1, InvNow DEF Programmed
  <2>2. call.todo # Open.todo
    <3>1. Open.todo # <<>>
      BY OpenCall DEF Stays, Starting
    <3> QED BY <1>1, <3>1
  <2>3. ~lib.open => at \in {1, Len(s) + 1}
    BY <1>1, <2>2, InvNow DEF Programmed
  <2> QED BY <1>1, <2>1, <2>3
<1>3. /\ Len(s) \in Nat \ {0} /\ s[1] = Open /\ s[Len(s)] = Close
      /\ \A i \in 1..(Len(s) - 1) : Fits(s[i])
  BY <1>2, ScriptWell DEF Well
<1>4. ASSUME NEW k \in Int, Moves(k)
      PROVE  prog'.name = prog.name /\ prog'.at = at + k
             /\ (at + k \in Nat => prog' \in [name: Examples \cup {"any"}, at: Nat])
  BY <1>2, <1>4 DEF Moves
<1>5. Open \notin {UntilIdle, UntilKey}
  <2>1. Head(Open.todo) = "device" /\ Head(UntilIdle.todo) = "idle" /\ Head(UntilKey.todo) = "key"
    BY DEF Open, UntilIdle, UntilKey, Ops, NoCall
  <2> QED BY <2>1
<1>6. at \in 1..Len(s)
  BY <1>1, <1>2, <1>3
<1>7. ~lib.open => at = 1
  BY <1>2, <1>3, <1>6
<1>8. CASE s[at] \in {UntilIdle, UntilKey} /\ (Moves(-1) \/ Moves(1)) /\ UNCHANGED call
  <2>1. at # 1 /\ lib.open
    BY <1>3, <1>5, <1>7, <1>8
  <2>2. PICK k \in {-1, 1} : Moves(k)
    BY <1>8
  <2>3. k \in Int /\ at + k \in 1..(Len(s) + 1) /\ at + k \in Nat
    BY <1>2, <1>3, <1>6, <2>1
  <2>4. prog'.name = prog.name /\ prog'.at = at + k
        /\ prog' \in [name: Examples \cup {"any"}, at: Nat]
    BY <1>4, <2>2, <2>3
  <2>5. ~Has(call'.todo, "closed")
    BY <1>1, <1>8, NoCallGoing
  <2>6. Programmed'
    BY <1>1, <2>1, <2>3, <2>4, <2>5 DEF Programmed
  <2>7. Idle' /\ Obeyed' /\ Mapping' /\ Reading' /\ Followed'
    BY <1>1, <1>8, InvNow
       DEF Idle, LibraryKnows, Obeyed, InSync, Fresh, Sampling, Mapping, Reading, Followed
  <2> QED BY <1>1, <1>8, <2>6, <2>7, InvNow DEF Inv
<1>9. CASE s[at] \notin {UntilIdle, UntilKey} /\ call' = s[at] /\ Moves(1)
  <2>1. at + 1 \in 1..(Len(s) + 1) /\ at + 1 \in Nat /\ 1 \in Int
        /\ (at \in 1..(Len(s) - 1) \/ at = Len(s))
    BY <1>3, <1>6
  <2>2. prog'.name = prog.name /\ prog'.at = at + 1
        /\ prog' \in [name: Examples \cup {"any"}, at: Nat]
    BY <1>4, <1>9, <2>1
  <2>3. Starting(call') /\ (Has(call'.todo, "closed") => at = Len(s))
    BY <1>3, <1>9, <2>1, CloseCall DEF Fits, Stays
  <2>4. ~lib.open => call' = Open
    BY <1>3, <1>7, <1>9
  <2>5. Programmed'
    BY <1>1, <2>1, <2>2, <2>3, <2>4 DEF Programmed
  <2> QED BY <1>1, <2>3, <2>4, <2>5, InvNow, NewCall
<1>10. (IF lib.acq THEN -1 ELSE 1) = -1 \/ (IF lib.acq THEN -1 ELSE 1) = 1
  OBVIOUS
<1> QED BY <1>1, <1>8, <1>9, <1>10

LEMMA Begins ==
  ASSUME NEW d, Owes(d), ~d.acq, ~d.xfer, drv' = d, lib' = InitLib, call' = NoCall,
         hist' = InitHist, NEW name \in Programs, prog' = [name |-> name, at |-> 1]
  PROVE  Inv'
<1>1. /\ name \in Examples \cup {"any"} /\ MaxScans \in Nat /\ MaxScans < Top
      /\ 0 \in 0..MaxScans
  BY ExamplesAssumption, SessionAssumption
<1>2. /\ lib' \in Handles /\ lib'.len = 0 /\ ~lib'.mode.buf /\ ~lib'.open /\ ~lib'.acq
      /\ ~lib'.xfer /\ ~lib'.mapped
  BY <1>1 DEF InitLib, Handles, Mode, Modes
<1>3. Keeps(lib')
  BY <1>1, <1>2 DEF Keeps
<1>4. hist' \in Histories /\ hist'.read = Unknown
  BY DEF InitHist, Histories, Unknown
<1>5. Going(call') /\ call'.todo = <<>> /\ ~Has(call'.todo, "closed")
  BY NoCallGoing DEF Ordinary
<1>6. Programmed'
  <2>1. prog' \in [name: Examples \cup {"any"}, at: Nat] /\ prog'.name = name /\ prog'.at = 1
    BY <1>1
  <2>2. name # "any" => 1 \in 1..(Len(Script(name)) + 1)
    BY <1>1, ScriptWell DEF Well
  <2> QED BY <1>5, <2>1, <2>2 DEF Programmed
<1>7. Idle' /\ Obeyed' /\ Mapping' /\ Reading' /\ Followed'
  BY <1>2, <1>4, <1>5
     DEF Idle, LibraryKnows, Obeyed, InSync, Fresh, Mapping, Reading, Followed
<1> QED BY <1>3, <1>4, <1>5, <1>6, <1>7 DEF Inv

LEMMA ExitStep ==
  ASSUME Inv, Exit
  PROVE  Inv'
<1>1. PICK name \in Programs : Starts(name)
  BY DEF Exit
<1>2. /\ drv' = IF lib.open THEN Flushed(drv) ELSE drv
      /\ lib' = InitLib /\ call' = NoCall /\ hist' = InitHist
      /\ prog' = [name |-> name, at |-> 1]
  BY <1>1 DEF Exit, Starts
<1>3. Owes(drv') /\ ~drv'.acq /\ ~drv'.xfer
  BY <1>2, QuietFlush, InvNow DEF Quiet, Idle
<1> QED BY <1>2, <1>3, Begins

LEMMA DriverGoesOn ==
  ASSUME Inv, DriverStep
  PROVE  Inv'
<1>1. Quiet(drv, drv') /\ drv.acq /\ UNCHANGED <<lib, call, prog, hist>>
  BY DriverQuiet, InvNow DEF DriverStep
<1>2. /\ Owes(drv') /\ (drv'.acq => drv.acq) /\ (drv'.xfer => drv.xfer)
      /\ drv'.total = drv.total /\ drv'.asked = drv.asked
  BY <1>1 DEF Quiet
<1>3. Programmed' /\ Mapping' /\ Reading'
  BY <1>1, InvNow DEF Programmed, Mapping, Reading
<1>4. Idle'
  BY <1>1, <1>2, InvNow DEF Idle, LibraryKnows
<1>5. Obeyed'
  BY <1>1, <1>2, InvNow DEF Obeyed, InSync, Fresh, Sampling
<1>6. Followed'
  BY <1>1, SameFacts, FollowedKept
<1> QED BY <1>1, <1>2, <1>3, <1>4, <1>5, <1>6, InvNow DEF Inv

LEMMA Initially == Init => Inv
<1> SUFFICES ASSUME Init PROVE Inv
  OBVIOUS
<1>1. /\ drv = Driver!InitDrv /\ lib = InitLib /\ call = NoCall /\ hist = InitHist
      /\ prog \in [name: Programs, at: {1}]
  BY DEF Init
<1>2. /\ prog.name \in Examples \cup {"any"} /\ MaxScans \in Nat /\ MaxScans < Top
      /\ 0 \in 0..MaxScans
  BY <1>1, ExamplesAssumption, SessionAssumption
<1>3. Owes(drv) /\ ~drv.acq /\ ~drv.xfer
  BY <1>1, <1>2 DEF Driver!InitDrv, Owes, Drivers
<1>4. /\ lib \in Handles /\ lib.len = 0 /\ ~lib.mode.buf /\ ~lib.open /\ ~lib.acq
      /\ ~lib.xfer /\ ~lib.mapped
  BY <1>1, <1>2 DEF InitLib, Handles, Mode, Modes
<1>5. Keeps(lib)
  BY <1>2, <1>4 DEF Keeps
<1>6. hist \in Histories /\ hist.read = Unknown
  BY <1>1 DEF InitHist, Histories, Unknown
<1>7. Going(call) /\ call.todo = <<>> /\ ~Has(call.todo, "closed")
  BY <1>1, NoCallGoing DEF Ordinary
<1>8. Programmed
  <2>1. prog \in [name: Examples \cup {"any"}, at: Nat] /\ prog.at = 1
    BY <1>1, <1>2
  <2>2. prog.name # "any" => 1 \in 1..(Len(Script(prog.name)) + 1)
    BY <1>2, ScriptWell DEF Well
  <2> QED BY <1>7, <2>1, <2>2 DEF Programmed
<1>9. Idle /\ Obeyed /\ Mapping /\ Reading /\ Followed
  BY <1>3, <1>4, <1>6, <1>7
     DEF Idle, LibraryKnows, Obeyed, InSync, Fresh, Mapping, Reading, Followed
<1> QED BY <1>3, <1>5, <1>6, <1>7, <1>8, <1>9 DEF Inv

LEMMA Inductive == Inv /\ [Next]_vars => Inv'
<1> SUFFICES ASSUME Inv, [Next]_vars PROVE Inv'
  OBVIOUS
<1>1. CASE Step
  <2>1. prog' = prog
    BY <1>1 DEF Step
  <2> QED BY <1>1, <2>1, DeviceStep, ClosedStep, OpenedStep, ConfigureStep, SetDiskFileStep,
             SetBufferStep, TransferStartStep, BacklogStep, AdcArmStep, SampleStep,
             SampleArmStep, GetStatusStep, AdcDisarmStep, DisarmStatusStep, TransferStopStep,
             UnmapStep, WaitStep, TimesOutStep, BufStatusStep, BufCheckStep, CopyStep,
             CopyNewestStep DEF Step
<1>2. CASE UNCHANGED vars
  BY <1>2 DEF vars, Inv, Programmed, Idle, LibraryKnows, Obeyed, InSync, Fresh, Sampling,
              Mapping, Reading, Followed
<1> QED BY <1>1, <1>2, CallAnyStep, CallNextStep, DriverGoesOn, ExitStep DEF Next, Client
-----------------------------------------------------------------------------
(* What the invariant says.                                                *)
LEMMA InvAgrees == Inv => LibraryAgrees
<1> SUFFICES ASSUME Inv PROVE LibraryAgrees
  OBVIOUS
<1>1. lib.mapped /\ lib.mode.buf /\ hist.undefined = "nothing" =>
        lib.head < lib.len /\ {lib.head, lib.tail, lib.avail} \subseteq 0..lib.len
  <2> SUFFICES ASSUME View(lib)
      PROVE  lib.head < lib.len /\ {lib.head, lib.tail, lib.avail} \subseteq 0..lib.len
    BY InvNow DEF Mapping
  <2>1. lib.head \in 0..(lib.len - 1) /\ lib.len \in Nat \ {0}
    BY DEF View
  <2>2. lib.head < lib.len /\ lib.head \in 0..lib.len
    BY <2>1
  <2> QED BY <2>2 DEF View
<1>2. lib.file \in {"none", "named", "open"} /\ lib.len \in Nat
  BY InvNow DEF Keeps, Handles
<1>3. drv.taken \in 0..MaxScans
  BY SessionAssumption, InvNow DEF Owes, Drivers
<1>4. call.n \in Nat \cup {Refusal}
  BY InvNow DEF Going, Calls
<1> QED BY <1>1, <1>2, <1>3, <1>4, InvNow DEF LibraryAgrees, TypeOK, Idle, Obeyed

(* The cell that is copied from is that of the scan.                       *)
LEMMA CellOfScan ==
  ASSUME NEW l, View(l), NEW n \in Nat, n <= l.avail, InBounds(l, n), NEW read,
         Follows(l, read), NEW i \in 0..(n - 1)
  PROVE  Cell(l, n, i) = (read + i) % l.len
<1> DEFINE b == l.len
           tail == l.tail
           head == l.head
           cell == Cell(l, n, i)
<1>1. /\ b \in Nat \ {0} /\ tail \in 0..b /\ head \in 0..(b - 1) /\ n <= b
      /\ i \in Int /\ i >= 0 /\ i < n
  BY DEF View
<1>2. Wraps(l, n) <=> tail > head /\ n > b - tail
  BY DEF Wraps
<1>3. cell = IF Wraps(l, n) /\ i >= b - tail THEN i - (b - tail) ELSE tail + i
  BY DEF Cell
<1>4. cell < b
  BY DEF InBounds
<1>5. tail % b = read % b /\ read \in Int
  BY DEF Follows
<1> HIDE DEF b, tail, head, cell
<1>6. tail \in Int /\ b \in Int /\ tail + i \in Int
  BY <1>1
<1>7. (tail + i) % b = (read + i) % b
  BY <1>1, <1>5, <1>6, ModMove
<1>8. cell \in 0..(b - 1) /\ (cell = tail + i \/ cell + b = tail + i)
  BY <1>1, <1>2, <1>3, <1>4
<1>9. cell % b = cell /\ (cell + b) % b = cell
  BY <1>1, <1>8, ModSmall
<1>10. cell = (tail + i) % b
  <2>1. CASE cell = tail + i
    BY <1>9, <2>1
  <2>2. CASE cell + b = tail + i
    BY <1>9, <2>2
  <2> QED BY <1>8, <2>1, <2>2
<1> QED BY <1>7, <1>10 DEF b, cell

LEMMA NewestCellOfScan ==
  ASSUME NEW l, View(l), NEW n \in Nat, n <= l.len, n <= l.count, NEW read, Follows(l, read),
         NEW i \in 0..(n - 1)
  PROVE  NewestCell(l, n, i) = ((l.count - n) + i) % l.len
<1> DEFINE b == l.len
           head == l.head
           c == l.count
           cell == NewestCell(l, n, i)
           s == (c - n) + i
           k == i - n
<1>1. /\ b \in Nat \ {0} /\ head \in 0..(b - 1) /\ n <= b /\ head = c % b /\ c \in Nat
      /\ i \in Int /\ i >= 0 /\ i < n /\ n <= c
  BY DEF View, Follows
<1>2. cell = IF n - head <= 0 THEN i - (n - head)
             ELSE IF i < n - head THEN (b - (n - head)) + i ELSE i - (n - head)
  BY <1>1 DEF NewestCell
<1> HIDE DEF b, head, c, cell
<1>3. k \in Int /\ s = c + k /\ head \in Int /\ c \in Int /\ s \in Int
  BY <1>1
<1>4. cell \in 0..(b - 1) /\ (cell = head + k \/ cell = (head + k) + b)
  BY <1>1, <1>2
<1> HIDE DEF k, s
<1>5. head % b = c % b
  <2>1. head % b = head
    BY <1>1, ModSmall
  <2> QED BY <1>1, <2>1
<1>6. (head + k) % b = (c + k) % b
  <2>1. b \in Nat \ {0}
    BY <1>1
  <2>2. k \in Int /\ head \in Int /\ c \in Int
    BY <1>3
  <2> QED BY <1>5, <2>1, <2>2, ModMove
<1>7. head + k \in Int
  BY <1>3
<1>8. cell % b = (head + k) % b
  <2>1. ((head + k) + b) % b = (head + k) % b
    BY <1>1, <1>7, ModTurn
  <2> QED BY <1>4, <2>1
<1>9. cell % b = cell
  BY <1>1, <1>4, ModSmall
<1> QED BY <1>3, <1>6, <1>8, <1>9 DEF b, cell, s, c

LEMMA InvContinues == Inv => ReadsContinue
<1> DEFINE n == call.n
           read == hist.read
           b == lib.len
<1> SUFFICES ASSUME Inv, At("copy"), read # Unknown
    PROVE  IF call.how = "Newest" THEN Lapped(lib.count - n) \/ Newest
           ELSE ~InBounds(lib, n) \/ Lapped(read) \/ Continues
  BY DEF ReadsContinue
<1>1. call.todo # <<>> /\ call.todo[1] = "copy" /\ hist.undefined = "nothing"
  BY AtFacts
<1>2. lib.mode.buf /\ lib.mapped /\ n \in Nat /\ n <= lib.avail
  BY <1>1, InvNow DEF Reading
<1>3. View(lib)
  BY <1>1, <1>2, InvNow DEF Mapping
<1>4. Follows(lib, read) /\ drv.size = b /\ lib.count <= drv.count
  BY <1>1, <1>2, InvNow DEF Followed
<1>5. /\ read \in Nat /\ lib.count \in Nat /\ drv.count \in Nat /\ b \in Nat \ {0}
      /\ read <= lib.count /\ lib.avail <= lib.count - read /\ lib.avail \in Nat
      /\ lib.avail <= b /\ lib.count <= drv.count /\ drv.size \in Nat \ {0}
  BY <1>3, <1>4, InvNow DEF Follows, Owes, Drivers, View
<1>6. ASSUME InBounds(lib, n), ~Lapped(read), NEW i \in 0..(n - 1)
      PROVE  ScanIn(drv, Cell(lib, n, i)) = read + i + 1
  <2> DEFINE s == read + i
             p == Cell(lib, n, i)
  <2>1. ~(drv.count - read > b)
    BY <1>6 DEF Lapped
  <2>2. p = s % drv.size
    <3> HIDE DEF n, read
    <3> QED BY <1>2, <1>3, <1>4, <1>6, CellOfScan DEF b
  <2> HIDE DEF n, read, b, p
  <2>3. s \in Nat /\ s < drv.count /\ drv.count - s <= drv.size
    BY <1>2, <1>4, <1>5, <2>1
  <2> HIDE DEF s
  <2>4. ScanIn(drv, p) = s + 1
    BY <1>5, <2>2, <2>3, ScanOfCell
  <2> QED BY <2>4 DEF s, p, n, read
<1>7. ASSUME ~Lapped(lib.count - n), NEW i \in 0..(n - 1)
      PROVE  ScanIn(drv, NewestCell(lib, n, i)) = ((lib.count - n) + i) + 1
  <2> DEFINE s == (lib.count - n) + i
             p == NewestCell(lib, n, i)
  <2>1. ~(drv.count - (lib.count - n) > b)
    BY <1>7 DEF Lapped
  <2>2. n <= lib.count /\ n <= b
    <3> HIDE DEF n, read, b
    <3> QED BY <1>2, <1>5
  <2>3. p = s % drv.size
    <3> HIDE DEF n, read
    <3>1. NewestCell(lib, n, i) = ((lib.count - n) + i) % lib.len
      BY <1>2, <1>3, <1>4, <2>2, NewestCellOfScan DEF b
    <3> QED BY <1>4, <3>1 DEF b
  <2> HIDE DEF n, read, b, p
  <2>4. s \in Nat /\ s < drv.count /\ drv.count - s <= drv.size
    BY <1>2, <1>4, <1>5, <2>1, <2>2
  <2> HIDE DEF s
  <2>5. ScanIn(drv, p) = s + 1
    BY <1>5, <2>3, <2>4, ScanOfCell
  <2> QED BY <2>5 DEF s, p, n
<1>8. ~Lapped(lib.count - n) => Newest
  <2> SUFFICES ASSUME ~Lapped(lib.count - n), NEW i \in 0..(n - 1)
      PROVE  ScanIn(drv, NewestCell(lib, n, i)) = lib.count - n + i + 1
    BY DEF Newest
  <2>1. ScanIn(drv, NewestCell(lib, n, i)) = ((lib.count - n) + i) + 1
    BY <1>7
  <2> HIDE DEF n
  <2>2. ((lib.count - n) + i) + 1 = lib.count - n + i + 1
    BY <1>2, <1>5
  <2> QED BY <2>1, <2>2
<1>9. InBounds(lib, n) /\ ~Lapped(read) => Continues
  BY <1>6 DEF Continues
<1> QED BY <1>8, <1>9

LEMMA Invariance == Spec => []Inv
  BY Initially, Inductive, PTL DEF Spec

(* What a handle holds of the driver is so: what it takes for idle is      *)
(* idle, an armed acquisition has the configuration asked for last, and    *)
(* head and tail are in the buffer; through every call and its failures,   *)
(* examples that follow one another or die, and the driver going on by     *)
(* itself (apiadc.c:647-768, 2760-2909, 3700-3752).                        *)
THEOREM LibraryAlwaysAgrees == Spec => []LibraryAgrees
  BY Invariance, InvAgrees, PTL

(* The cells that daqAdcTransferBufData copies are those where the driver  *)
(* has the scans after the ones copied before, or the last ones counted,   *)
(* over every wrap of the buffer, with the exceptions that ReadsContinue   *)
(* names (apiadc.c:3139-3546).                                             *)
THEOREM ReadsAlwaysContinue == Spec => []ReadsContinue
  BY Invariance, InvContinues, PTL
=============================================================================
