--------------------------- MODULE InterruptProofs ---------------------------
(***************************************************************************)
(* Proofs about the interrupts of the HAL, for any interrupts and          *)
(* routines, any number of nested sections, and routines that let others   *)
(* interrupt them, that change what is enabled, or whose work faults:      *)
(* its critical sections, the priorities, and what the dispatch calls; and *)
(* about the alarms of the HAL and its time of day.                        *)
(***************************************************************************)
EXTENDS Interrupts, Alarms, HalClock, NumberFacts

(***************************************************************************)
(* A frame is at a level before each access it makes: how many sections it *)
(* is inside of, and whether interrupts are taken outside of them.         *)
(***************************************************************************)
Level == [depth : Nat, on : BOOLEAN]
At(n, b) == [depth |-> n, on |-> b]

Special == {"disable_all", "enable_all", "interruptible", "non_interruptible"}

\* An access takes a frame from level l to level m.
Step(op, l, m) ==
  /\ op = "disable_all" => m = At(l.depth + 1, l.on)
  /\ op = "enable_all" => l = At(m.depth + 1, m.on)
  /\ op = "interruptible" => l = At(0, FALSE) /\ m = At(0, TRUE)
  /\ op = "non_interruptible" => l = At(0, TRUE) /\ m = At(0, FALSE)
  /\ op \notin Special => m = l

\* The accesses c take a frame from l to m, through the levels s.
Levels(c, l, m, s) ==
  /\ s \in [1 .. Len(c) + 1 -> Level]
  /\ s[1] = l /\ s[Len(c) + 1] = m
  /\ \A i \in 1 .. Len(c) : Step(c[i].op, s[i], s[i + 1])
Leads(c, l, m) == c \in Seq(Operation) /\ \E s : Levels(c, l, m, s)

\* The statuses that the sections a frame is in have saved: only the outermost
\* may find interrupts enabled.
SavedAre(saved, l) ==
  /\ saved \in Seq(BOOLEAN) /\ Len(saved) = l.depth
  /\ \A j \in 1 .. l.depth : saved[j] <=> (j = l.depth /\ l.on)

\* A frame that runs with the status s: its accesses lead it out of every section.
FrameOK(f, s) ==
  \E l \in Level :
    /\ Leads(f.code, l, At(0, f.kind = "program"))
    /\ SavedAre(f.saved, l)
    /\ s <=> (l.depth = 0 /\ l.on)

Running == {"program", "routine"}
Entering == {"dispatch", "exception"}

\* The status that the frame k of a stack runs with, or will.
StatusOf(st, k, s) == IF k = 1 THEN s ELSE Head(st[k - 1].saved)

\* What holds of a frame k of a stack that runs, that is entering an interrupt or
\* an exception, and of its place.
RunsOK(st, k, s) == st[k].kind \in Running => FrameOK(st[k], StatusOf(st, k, s))
SavedOK(f) == f.saved \in {<<TRUE>>, <<FALSE>>} /\ (f.kind = "dispatch" => f.saved = <<TRUE>>)
EntersOK(st, k) ==
  st[k].kind \in Entering => SavedOK(st[k]) /\ k < Len(st) /\ st[k + 1].kind \in Running
FaultsOK(st, k) ==
  st[k].kind = "exception" =>
    k < Len(st) /\ st[k + 1].code # <<>> /\ Head(st[k + 1].code).op = "work"
CalledOK(st, k) == st[k].kind = "routine" => k < Len(st) /\ st[k + 1].kind = "dispatch"
LastOK(st, k) == st[k].kind = "program" <=> k = Len(st)

FrameAt(st, k, s) ==
  /\ RunsOK(st, k, s) /\ EntersOK(st, k) /\ FaultsOK(st, k)
  /\ CalledOK(st, k) /\ LastOK(st, k)
  /\ st[k].kind \in Entering /\ k = 1 => ~ s

StackOK(st, s) ==
  /\ st \in Seq(Frame) /\ st # <<>> /\ s \in BOOLEAN
  /\ \A k \in DOMAIN st : FrameAt(st, k, s)

IrqInv ==
  /\ ienable \in Masks /\ line \in Masks
  /\ alt_irq \in [Irqs -> Routines \cup {NULL}]
  /\ alt_irq_active \in Masks /\ alt_priority_mask \in Masks
  /\ StackOK(stack, status)

-----------------------------------------------------------------------------
(* Levels. *)

\* At makes a level.
LEMMA LevelFacts ==
  ASSUME NEW n \in Nat, NEW b \in BOOLEAN
  PROVE  At(n, b) \in Level /\ At(n, b).depth = n /\ At(n, b).on = b
BY DEF At, Level

\* Nothing left to do leads nowhere.
LEMMA LeadsNowhere ==
  ASSUME NEW l, NEW m, Leads(<<>>, l, m) PROVE l = m
<1>1. PICK s : Levels(<<>>, l, m, s)
  BY DEF Leads
<1> QED
  BY <1>1 DEF Levels

\* One access leads where its step does.
LEMMA LeadsOne ==
  ASSUME NEW o \in Operation, NEW l \in Level, NEW m \in Level, Step(o.op, l, m)
  PROVE  Leads(<<o>>, l, m)
<1>1. PICK c : c = <<o>>
  OBVIOUS
<1>2. c \in Seq(Operation) /\ Len(c) = 1 /\ c[1] = o
  BY <1>1
<1>3. PICK s : s = [i \in 1 .. 2 |-> IF i = 1 THEN l ELSE m]
  OBVIOUS
<1>4. s \in [1 .. 2 -> Level] /\ s[1] = l /\ s[2] = m
  BY <1>3
<1>5. Levels(c, l, m, s)
  BY <1>2, <1>4 DEF Levels
<1> QED
  BY <1>1, <1>2, <1>5 DEF Leads

\* One piece of code after another.
LEMMA LeadsOn ==
  ASSUME NEW c, NEW d, NEW l, NEW m, NEW n, Leads(c, l, m), Leads(d, m, n)
  PROVE  Leads(c \o d, l, n)
<1>1. c \in Seq(Operation) /\ d \in Seq(Operation)
  BY DEF Leads
<1>2. PICK s : Levels(c, l, m, s)
  BY DEF Leads
<1>3. PICK t : Levels(d, m, n, t)
  BY DEF Leads
<1>4. PICK a \in Nat : a = Len(c)
  BY <1>1
<1>5. PICK b \in Nat : b = Len(d)
  BY <1>1
<1>6. PICK e : e = c \o d
  OBVIOUS
<1>7. /\ e \in Seq(Operation) /\ Len(e) = a + b
      /\ \A i \in 1 .. a : e[i] = c[i]
      /\ \A i \in a + 1 .. a + b : e[i] = d[i - a]
  BY <1>1, <1>4, <1>5, <1>6
<1>8. /\ s \in [1 .. a + 1 -> Level] /\ s[1] = l /\ s[a + 1] = m
      /\ \A i \in 1 .. a : Step(c[i].op, s[i], s[i + 1])
  BY <1>2, <1>4 DEF Levels
<1>9. /\ t \in [1 .. b + 1 -> Level] /\ t[1] = m /\ t[b + 1] = n
      /\ \A i \in 1 .. b : Step(d[i].op, t[i], t[i + 1])
  BY <1>3, <1>5 DEF Levels
<1>10. PICK u : u = [i \in 1 .. (a + b) + 1 |-> IF i <= a + 1 THEN s[i] ELSE t[i - a]]
  OBVIOUS
<1>11. ASSUME NEW i \in 1 .. (a + b) + 1
       PROVE  /\ u[i] \in Level
              /\ i <= a + 1 => u[i] = s[i]
              /\ i >= a + 1 => u[i] = t[i - a]
  <2>1. CASE i <= a
    BY <1>8, <1>10, <2>1
  <2>2. CASE i = a + 1
    <3>1. i - a = 1 /\ a + 1 \in 1 .. a + 1
      BY <2>2
    <3> QED
      BY <1>8, <1>9, <1>10, <2>2, <3>1
  <2>3. CASE i > a + 1
    <3>1. i - a \in 1 .. b + 1
      BY <2>3
    <3> QED
      BY <1>9, <1>10, <2>3, <3>1
  <2> QED
    BY <2>1, <2>2, <2>3
<1>12. u \in [1 .. (a + b) + 1 -> Level]
  BY <1>10, <1>11
<1>13. u[1] = l /\ u[(a + b) + 1] = n
  <2>1. 1 \in 1 .. (a + b) + 1 /\ (a + b) + 1 \in 1 .. (a + b) + 1
    OBVIOUS
  <2>2. ((a + b) + 1) - a = b + 1
    OBVIOUS
  <2> QED
    BY <1>8, <1>9, <1>11, <2>1, <2>2
<1>14. ASSUME NEW i \in 1 .. a + b PROVE Step(e[i].op, u[i], u[i + 1])
  <2>1. i \in 1 .. (a + b) + 1 /\ i + 1 \in 1 .. (a + b) + 1
    OBVIOUS
  <2>2. CASE i <= a
    <3>1. i \in 1 .. a /\ i + 1 <= a + 1
      BY <2>2
    <3>2. u[i] = s[i] /\ u[i + 1] = s[i + 1] /\ e[i] = c[i]
      BY <1>7, <1>11, <2>1, <3>1
    <3> QED
      BY <1>8, <3>1, <3>2
  <2>3. CASE i > a
    <3>1. i - a \in 1 .. b /\ i \in a + 1 .. a + b /\ (i + 1) - a = (i - a) + 1
      BY <2>3
    <3>2. u[i] = t[i - a] /\ u[i + 1] = t[(i - a) + 1] /\ e[i] = d[i - a]
      BY <1>7, <1>11, <2>1, <2>3, <3>1
    <3> QED
      BY <1>9, <3>1, <3>2
  <2> QED
    BY <2>2, <2>3
<1>15. Levels(e, l, n, u)
  BY <1>7, <1>12, <1>13, <1>14 DEF Levels
<1> QED
  BY <1>6, <1>7, <1>15 DEF Leads

\* What is left after the first access.
LEMMA LeadsRest ==
  ASSUME NEW c, c # <<>>, NEW l, NEW n, Leads(c, l, n)
  PROVE  /\ Head(c) \in Operation
         /\ \E m \in Level : Step(Head(c).op, l, m) /\ Leads(Tail(c), m, n)
<1>1. c \in Seq(Operation)
  BY DEF Leads
<1>2. PICK s : Levels(c, l, n, s)
  BY DEF Leads
<1>3. PICK a \in Nat : a = Len(c) /\ a > 0
  BY <1>1
<1>4. PICK d : d = Tail(c)
  OBVIOUS
<1>5. /\ d \in Seq(Operation) /\ Len(d) = a - 1 /\ Head(c) = c[1] /\ Head(c) \in Operation
      /\ \A i \in 1 .. a - 1 : d[i] = c[i + 1]
  BY <1>1, <1>3, <1>4
<1>6. /\ s \in [1 .. a + 1 -> Level] /\ s[1] = l /\ s[a + 1] = n
      /\ \A i \in 1 .. a : Step(c[i].op, s[i], s[i + 1])
  BY <1>2, <1>3 DEF Levels
<1>7. PICK t : t = [i \in 1 .. a |-> s[i + 1]]
  OBVIOUS
<1>8. ASSUME NEW i \in 1 .. a PROVE t[i] = s[i + 1] /\ t[i] \in Level
  BY <1>6, <1>7
<1>9. (a - 1) + 1 = a /\ 1 \in 1 .. a /\ a \in 1 .. a
  BY <1>3
<1>10. t \in [1 .. a -> Level] /\ t[1] = s[2] /\ t[a] = n
  BY <1>6, <1>7, <1>8, <1>9
<1>11. ASSUME NEW i \in 1 .. a - 1 PROVE Step(d[i].op, t[i], t[i + 1])
  <2>1. i \in 1 .. a /\ i + 1 \in 1 .. a
    OBVIOUS
  <2>2. t[i] = s[i + 1] /\ t[i + 1] = s[(i + 1) + 1] /\ d[i] = c[i + 1]
    BY <1>5, <1>8, <2>1
  <2> QED
    BY <1>6, <2>1, <2>2
<1>12. Levels(d, s[2], n, t)
  BY <1>5, <1>9, <1>10, <1>11 DEF Levels
<1>13. s[2] \in Level /\ Step(c[1].op, l, s[2])
  BY <1>6, <1>9
<1> QED
  BY <1>4, <1>5, <1>12, <1>13 DEF Leads

-----------------------------------------------------------------------------
(* The code of the calls and of the routines. *)

\* Code that takes a frame out of as many sections as it takes it into.
Balanced(c) ==
  /\ c \in Seq(Operation)
  /\ \A n \in Nat : \A b \in BOOLEAN : Leads(c, At(n, b), At(n, b))

\* The accesses of a section are accesses.
LEMMA OperationFacts ==
  /\ disable_all \in Operation /\ disable_all.op = "disable_all"
  /\ enable_all \in Operation /\ enable_all.op = "enable_all"
BY DEF disable_all, enable_all, Operation

\* An access that opens and closes nothing is balanced.
LEMMA BalancedOne ==
  ASSUME NEW o \in Operation, o.op \notin Special PROVE Balanced(<<o>>)
<1>1. ASSUME NEW n \in Nat, NEW b \in BOOLEAN PROVE Leads(<<o>>, At(n, b), At(n, b))
  <2>1. Step(o.op, At(n, b), At(n, b))
    BY DEF Step, Special
  <2> QED
    BY <2>1, LevelFacts, LeadsOne
<1> QED
  BY <1>1 DEF Balanced

\* No code at all is balanced.
LEMMA BalancedNone == Balanced(<<>>)
<1>1. ASSUME NEW n \in Nat, NEW b \in BOOLEAN PROVE Leads(<<>>, At(n, b), At(n, b))
  <2>1. PICK s : s = [i \in 1 .. 1 |-> At(n, b)]
    OBVIOUS
  <2>2. s \in [1 .. 1 -> Level] /\ s[1] = At(n, b)
    BY <2>1, LevelFacts
  <2>3. PICK c : c = <<>>
    OBVIOUS
  <2>4. c \in Seq(Operation) /\ Len(c) = 0
    BY <2>3
  <2>5. Levels(c, At(n, b), At(n, b), s)
    BY <2>2, <2>4 DEF Levels
  <2> QED
    BY <2>3, <2>4, <2>5 DEF Leads
<1> QED
  BY <1>1 DEF Balanced

\* Balanced code after balanced code is balanced.
LEMMA BalancedOn ==
  ASSUME NEW c, NEW d, Balanced(c), Balanced(d) PROVE Balanced(c \o d)
<1>1. ASSUME NEW n \in Nat, NEW b \in BOOLEAN PROVE Leads(c \o d, At(n, b), At(n, b))
  BY LeadsOn DEF Balanced
<1>2. c \o d \in Seq(Operation)
  BY DEF Balanced
<1> QED
  BY <1>1, <1>2 DEF Balanced

\* A section around code that is balanced.
LEMMA BalancedSection ==
  ASSUME NEW c, Balanced(c)
  PROVE  Balanced(<<disable_all>> \o (c \o <<enable_all>>))
<1>1. ASSUME NEW n \in Nat, NEW b \in BOOLEAN
      PROVE  Leads(<<disable_all>> \o (c \o <<enable_all>>), At(n, b), At(n, b))
  <2>1. n + 1 \in Nat
    OBVIOUS
  <2>2. Step("disable_all", At(n, b), At(n + 1, b))
    BY <2>1, LevelFacts DEF Step, Special
  <2>3. Step("enable_all", At(n + 1, b), At(n, b))
    BY <2>1, LevelFacts DEF Step, Special
  <2>4. Leads(<<disable_all>>, At(n, b), At(n + 1, b))
    BY <2>1, <2>2, LevelFacts, LeadsOne, OperationFacts
  <2>5. Leads(<<enable_all>>, At(n + 1, b), At(n, b))
    BY <2>1, <2>3, LevelFacts, LeadsOne, OperationFacts
  <2>6. Leads(c, At(n + 1, b), At(n + 1, b))
    BY <2>1 DEF Balanced
  <2>7. Leads(c \o <<enable_all>>, At(n + 1, b), At(n, b))
    BY <2>5, <2>6, LeadsOn
  <2> QED
    BY <2>4, <2>7, LeadsOn
<1>2. PICK a : a = <<disable_all>>
  OBVIOUS
<1>3. PICK z : z = <<enable_all>>
  OBVIOUS
<1>4. a \in Seq(Operation) /\ z \in Seq(Operation) /\ c \in Seq(Operation)
  BY <1>2, <1>3, OperationFacts DEF Balanced
<1>5. a \o (c \o z) \in Seq(Operation)
  BY <1>4
<1> QED
  BY <1>1, <1>2, <1>3, <1>5 DEF Balanced

\* A sequence with an element in front, and without its first.
LEMMA InFront ==
  ASSUME NEW S, NEW t \in Seq(S), NEW f \in S
  PROVE  /\ <<f>> \o t \in Seq(S) /\ <<f>> \o t # <<>>
         /\ Len(<<f>> \o t) = Len(t) + 1 /\ (<<f>> \o t)[1] = f
         /\ \A i \in 2 .. Len(t) + 1 : (<<f>> \o t)[i] = t[i - 1]
OBVIOUS

\* A sequence without its first element.
LEMMA Behind ==
  ASSUME NEW S, NEW st \in Seq(S), st # <<>>
  PROVE  /\ Tail(st) \in Seq(S) /\ Len(Tail(st)) = Len(st) - 1
         /\ \A i \in 1 .. Len(st) - 1 : Tail(st)[i] = st[i + 1]
OBVIOUS

\* How code falls into pieces.
LEMMA Regrouped ==
  ASSUME NEW x \in Operation, NEW y \in Operation, NEW z \in Operation,
         NEW c \in Seq(Operation)
  PROVE  /\ <<x>> \o (<<y>> \o <<z>>) = <<x, y, z>>
         /\ <<x>> \o ((<<y>> \o c) \o <<z>>) = (<<x, y>> \o c) \o <<z>>
<1>1. PICK d : d = <<y>> \o c
  OBVIOUS
<1>2. PICK e : e = <<x, y>> \o c
  OBVIOUS
<1>3. PICK n \in Nat : n = Len(c)
  OBVIOUS
<1>4. /\ d \in Seq(Operation) /\ Len(d) = n + 1 /\ d[1] = y
      /\ \A i \in 2 .. n + 1 : d[i] = c[i - 1]
  BY <1>1, <1>3
<1>5. /\ e \in Seq(Operation) /\ Len(e) = n + 2 /\ e[1] = x /\ e[2] = y
      /\ \A i \in 3 .. n + 2 : e[i] = c[i - 2]
  BY <1>2, <1>3
<1>6. PICK v : v = d \o <<z>>
  OBVIOUS
<1>7. /\ v \in Seq(Operation) /\ Len(v) = n + 2 /\ v[n + 2] = z
      /\ \A i \in 1 .. n + 1 : v[i] = d[i]
  BY <1>4, <1>6
<1>8. PICK a : a = <<x>> \o v
  OBVIOUS
<1>9. /\ a \in Seq(Operation) /\ Len(a) = n + 3 /\ a[1] = x
      /\ \A i \in 2 .. n + 3 : a[i] = v[i - 1]
  BY <1>7, <1>8
<1>10. PICK b : b = e \o <<z>>
  OBVIOUS
<1>11. /\ b \in Seq(Operation) /\ Len(b) = n + 3 /\ b[n + 3] = z
       /\ \A i \in 1 .. n + 2 : b[i] = e[i]
  BY <1>5, <1>10
<1>12. ASSUME NEW i \in 1 .. n + 3 PROVE a[i] = b[i]
  <2>1. CASE i = 1
    BY <1>5, <1>9, <1>11, <2>1
  <2>2. CASE i = 2
    <3>1. a[2] = v[1] /\ v[1] = d[1] /\ b[2] = e[2]
      BY <1>7, <1>9, <1>11
    <3> QED
      BY <1>4, <1>5, <2>2, <3>1
  <2>3. CASE i \in 3 .. n + 2
    <3>1. a[i] = v[i - 1] /\ v[i - 1] = d[i - 1] /\ d[i - 1] = c[(i - 1) - 1]
      BY <1>4, <1>7, <1>9, <2>3
    <3>2. b[i] = e[i] /\ e[i] = c[i - 2] /\ (i - 1) - 1 = i - 2
      BY <1>5, <1>11, <2>3
    <3> QED
      BY <3>1, <3>2
  <2>4. CASE i = n + 3
    <3>1. a[i] = v[n + 2]
      BY <1>9, <2>4
    <3> QED
      BY <1>7, <1>10, <1>5, <2>4, <3>1
  <2> QED
    BY <2>1, <2>2, <2>3, <2>4
<1>13. a = b
  BY <1>9, <1>11, <1>12
<1>14. <<x>> \o (<<y>> \o <<z>>) = <<x, y, z>>
  <2>1. PICK p : p = <<y>> \o <<z>>
    OBVIOUS
  <2>2. p \in Seq(Operation) /\ Len(p) = 2 /\ p[1] = y /\ p[2] = z
    BY <2>1
  <2>3. PICK q : q = <<x>> \o p
    OBVIOUS
  <2>4. q \in Seq(Operation) /\ Len(q) = 3 /\ q[1] = x /\ q[2] = y /\ q[3] = z
    <3>1. /\ q \in Seq(Operation) /\ Len(q) = 3 /\ q[1] = x
          /\ \A i \in 2 .. 2 + 1 : q[i] = p[i - 1]
      BY <2>2, <2>3, InFront
    <3>2. q[2] = p[1] /\ q[3] = p[2]
      BY <3>1
    <3> QED
      BY <2>2, <3>1, <3>2
  <2>5. PICK r : r = <<x, y, z>>
    OBVIOUS
  <2>6. r \in Seq(Operation) /\ Len(r) = 3 /\ r[1] = x /\ r[2] = y /\ r[3] = z
    BY <2>5
  <2>7. \A i \in 1 .. 3 : q[i] = r[i]
    BY <2>4, <2>6
  <2>8. q = r
    BY <2>4, <2>6, <2>7
  <2> QED
    BY <2>1, <2>3, <2>5, <2>8
<1> QED
  <2>1. a = <<x>> \o ((<<y>> \o c) \o <<z>>) /\ b = (<<x, y>> \o c) \o <<z>>
    BY <1>1, <1>2, <1>6, <1>8, <1>10
  <2> QED
    BY <1>13, <1>14, <2>1

\* A section of one access.
LEMMA BalancedThree ==
  ASSUME NEW o \in Operation, o.op \notin Special
  PROVE  Balanced(<<disable_all, o, enable_all>>)
<1>1. Balanced(<<disable_all>> \o (<<o>> \o <<enable_all>>))
  BY BalancedOne, BalancedSection
<1>2. <<>> \in Seq(Operation)
  OBVIOUS
<1>3. <<disable_all>> \o (<<o>> \o <<enable_all>>) = <<disable_all, o, enable_all>>
  BY <1>2, OperationFacts, Regrouped
<1> QED
  BY <1>1, <1>3

\* The critical sections and the calls of the interrupt interface are balanced.
LEMMA BalancedCalls ==
  /\ Balanced(Section)
  /\ \A id \in Irqs : Balanced(alt_irq_enable(id)) /\ Balanced(alt_irq_disable(id))
  /\ \A id \in Irqs : Balanced(Clear(id))
  /\ Balanced(<<[op |-> "work"]>>)
<1>1. PICK w : w = [op |-> "work"]
  OBVIOUS
<1>2. w \in Operation /\ w.op \notin Special
  BY <1>1 DEF Operation, Special
<1>3. Balanced(Section)
  BY <1>1, <1>2, BalancedThree DEF Section
<1>4. ASSUME NEW id \in Irqs PROVE Balanced(alt_irq_enable(id))
  <2>1. PICK o : o = [op |-> "enable", id |-> id]
    OBVIOUS
  <2>2. o \in Operation /\ o.op \notin Special
    BY <2>1 DEF Operation, Special
  <2> QED
    BY <2>1, <2>2, BalancedThree DEF alt_irq_enable
<1>5. ASSUME NEW id \in Irqs PROVE Balanced(alt_irq_disable(id))
  <2>1. PICK o : o = [op |-> "disable", id |-> id]
    OBVIOUS
  <2>2. o \in Operation /\ o.op \notin Special
    BY <2>1 DEF Operation, Special
  <2> QED
    BY <2>1, <2>2, BalancedThree DEF alt_irq_disable
<1>6. ASSUME NEW id \in Irqs PROVE Balanced(Clear(id))
  <2>1. PICK o : o = [op |-> "clear", id |-> id]
    OBVIOUS
  <2>2. o \in Operation /\ o.op \notin Special
    BY <2>1 DEF Operation, Special
  <2> QED
    BY <2>1, <2>2, BalancedOne DEF Clear
<1>7. Balanced(<<[op |-> "work"]>>)
  BY <1>1, <1>2, BalancedOne
<1> QED
  BY <1>3, <1>4, <1>5, <1>6, <1>7

\* alt_iic_isr_register is balanced, the nested section in it included.
LEMMA BalancedRegister ==
  ASSUME NEW id \in Irqs, NEW r \in Routines \cup {NULL}
  PROVE  Balanced(alt_iic_isr_register(id, r))
<1>1. PICK o : o = [op |-> "store", id |-> id, routine |-> r]
  OBVIOUS
<1>2. o \in Operation /\ o.op \notin Special
  BY <1>1 DEF Operation, Special
<1>3. PICK c : c = (IF r # NULL THEN alt_irq_enable(id) ELSE alt_irq_disable(id))
  OBVIOUS
<1>4. Balanced(c)
  BY <1>3, BalancedCalls
<1>5. c \in Seq(Operation)
  BY <1>4 DEF Balanced
<1>6. Balanced(<<disable_all>> \o ((<<o>> \o c) \o <<enable_all>>))
  BY <1>2, <1>4, BalancedOne, BalancedOn, BalancedSection
<1>7. <<disable_all>> \o ((<<o>> \o c) \o <<enable_all>>) = (<<disable_all, o>> \o c) \o <<enable_all>>
  BY <1>2, <1>5, OperationFacts, Regrouped
<1> QED
  BY <1>1, <1>3, <1>6, <1>7 DEF alt_iic_isr_register

\* A routine lets others in only outside of every section, and ends as it began.
LEMMA LeadsInterruptible ==
  ASSUME NEW id \in Irqs, NEW c, Balanced(c)
  PROVE  Leads(Interruptible(id, c), At(0, FALSE), At(0, FALSE))
<1>1. PICK o : o = [op |-> "interruptible", id |-> id]
  OBVIOUS
<1>2. PICK p : p = [op |-> "non_interruptible"]
  OBVIOUS
<1>3. /\ o \in Operation /\ o.op = "interruptible"
      /\ p \in Operation /\ p.op = "non_interruptible"
  BY <1>1, <1>2 DEF Operation
<1>4. Step(o.op, At(0, FALSE), At(0, TRUE)) /\ Step(p.op, At(0, TRUE), At(0, FALSE))
  BY <1>3 DEF Step, Special
<1>5. At(0, FALSE) \in Level /\ At(0, TRUE) \in Level
  BY LevelFacts
<1>6. Leads(<<o>>, At(0, FALSE), At(0, TRUE)) /\ Leads(<<p>>, At(0, TRUE), At(0, FALSE))
  BY <1>3, <1>4, <1>5, LeadsOne
<1>7. Leads(c, At(0, TRUE), At(0, TRUE))
  BY DEF Balanced
<1>8. Leads(<<o>> \o c, At(0, FALSE), At(0, TRUE))
  BY <1>6, <1>7, LeadsOn
<1>9. Leads((<<o>> \o c) \o <<p>>, At(0, FALSE), At(0, FALSE))
  BY <1>6, <1>8, LeadsOn
<1> QED
  BY <1>1, <1>2, <1>9 DEF Interruptible

\* Whatever a routine does, it ends outside of every section.
LEMMA RoutinesLead ==
  ASSUME NEW id \in Irqs, NEW c \in Bodies(id)
  PROVE  Leads(c, At(0, FALSE), At(0, FALSE))
<1>1. ASSUME NEW d, Balanced(d) PROVE Leads(d, At(0, FALSE), At(0, FALSE))
  BY <1>1 DEF Balanced
<1>2. ASSUME NEW d \in Changes(id) PROVE Balanced(Clear(id) \o d)
  BY BalancedCalls, BalancedOn DEF Changes, Registered
<1>3. Balanced(Clear(id)) /\ Balanced(Clear(id) \o Section)
  BY BalancedCalls, BalancedOn
<1>4. CASE c \in {Clear(id), Clear(id) \o Section}
  BY <1>1, <1>3, <1>4
<1>5. CASE c = Interruptible(id, Clear(id) \o Section)
  BY <1>3, <1>5, LeadsInterruptible
<1>6. CASE \E d \in Changes(id) : c = Clear(id) \o d
  BY <1>1, <1>2, <1>6
<1>7. CASE \E d \in Changes(id) : c = Interruptible(id, Clear(id) \o d)
  BY <1>2, <1>7, LeadsInterruptible
<1> QED
  BY <1>4, <1>5, <1>6, <1>7 DEF Bodies

\* Whatever the program calls, it ends outside of every section.
LEMMA ProgramLeads ==
  ASSUME NEW c \in CallsMade
  PROVE  Leads(c, At(0, TRUE), At(0, TRUE))
<1>1. Balanced(c)
  BY BalancedCalls, BalancedRegister DEF CallsMade, Registered
<1> QED
  BY <1>1 DEF Balanced

-----------------------------------------------------------------------------
(* Stacks. *)

\* The frame on top of a stack that is in order.
LEMMA FirstIsOK ==
  ASSUME NEW st, NEW s, StackOK(st, s)
  PROVE  /\ st \in Seq(Frame) /\ st # <<>> /\ s \in BOOLEAN /\ Len(st) \in Nat \ {0}
         /\ Head(st) = st[1] /\ st[1] \in Frame /\ FrameAt(st, 1, s)
         /\ st = <<st[1]>> \o Tail(st)
<1>1. st \in Seq(Frame) /\ st # <<>> /\ s \in BOOLEAN
  BY DEF StackOK
<1>2. 1 \in DOMAIN st
  BY <1>1
<1>3. FrameAt(st, 1, s)
  BY <1>2 DEF StackOK
<1>4. Len(st) \in Nat \ {0} /\ Head(st) = st[1] /\ st[1] \in Frame
  BY <1>1
<1>5. PICK u : u = <<st[1]>> \o Tail(st)
  OBVIOUS
<1>6. PICK n \in Nat : n = Len(st) /\ n > 0
  BY <1>4
<1>7. PICK t : t = Tail(st)
  OBVIOUS
<1>8. t \in Seq(Frame) /\ Len(t) = n - 1 /\ \A i \in 1 .. n - 1 : t[i] = st[i + 1]
  BY <1>1, <1>6, <1>7
<1>9. u \in Seq(Frame) /\ Len(u) = n /\ u[1] = st[1] /\ \A i \in 2 .. n : u[i] = t[i - 1]
  BY <1>4, <1>5, <1>6, <1>7, <1>8
<1>10. ASSUME NEW i \in 1 .. n PROVE u[i] = st[i]
  <2>1. CASE i = 1
    BY <1>9, <2>1
  <2>2. CASE i # 1
    <3>1. i \in 2 .. n /\ i - 1 \in 1 .. n - 1 /\ (i - 1) + 1 = i
      BY <2>2
    <3> QED
      BY <1>8, <1>9, <3>1
  <2> QED
    BY <2>1, <2>2
<1>11. u = st
  BY <1>1, <1>6, <1>9, <1>10
<1> QED
  BY <1>1, <1>3, <1>4, <1>5, <1>11

\* What FrameAt says of a frame depends on what is above it only by the status.
LEMMA SameFrame ==
  ASSUME NEW st, NEW j \in Nat, NEW s, FrameAt(st, j, s),
         NEW u, NEW k \in Nat, NEW r, u[k] = st[j],
         j < Len(st) <=> k < Len(u), j = Len(st) <=> k = Len(u),
         j < Len(st) => u[k + 1] = st[j + 1],
         RunsOK(u, k, r), st[j].kind \in Entering /\ k = 1 => ~ r
  PROVE  FrameAt(u, k, r)
<1>1. EntersOK(u, k)
  BY DEF FrameAt, EntersOK
<1>2. FaultsOK(u, k)
  BY DEF FrameAt, FaultsOK
<1>3. CalledOK(u, k)
  BY DEF FrameAt, CalledOK
<1>4. LastOK(u, k)
  BY DEF FrameAt, LastOK
<1> QED
  BY <1>1, <1>2, <1>3, <1>4 DEF FrameAt

\* A frame that moves in the stack runs with the same status.
LEMMA SameRuns ==
  ASSUME NEW st, NEW j \in Nat, NEW s, FrameAt(st, j, s),
         NEW u, NEW k \in Nat, NEW r, u[k] = st[j],
         st[j].kind \in Running => StatusOf(u, k, r) = StatusOf(st, j, s)
  PROVE  RunsOK(u, k, r)
BY DEF FrameAt, RunsOK

\* The running frame gives way to one that goes on with the status r.
LEMMA ReplaceRunning ==
  ASSUME NEW st, NEW s, StackOK(st, s), st[1].kind \in Running,
         NEW r \in BOOLEAN, NEW f \in Frame, f.kind = st[1].kind, FrameOK(f, r)
  PROVE  StackOK(<<f>> \o Tail(st), r)
<1>1. /\ st \in Seq(Frame) /\ st # <<>> /\ s \in BOOLEAN /\ Len(st) \in Nat \ {0}
      /\ st[1] \in Frame /\ FrameAt(st, 1, s)
  BY FirstIsOK
<1>2. PICK n \in Nat : n = Len(st) /\ n > 0
  BY <1>1
<1>3. PICK t : t = Tail(st)
  OBVIOUS
<1>4. t \in Seq(Frame) /\ Len(t) = n - 1 /\ \A i \in 1 .. n - 1 : t[i] = st[i + 1]
  BY <1>1, <1>2, <1>3, Behind
<1>5. PICK u : u = <<f>> \o t
  OBVIOUS
<1>6. /\ u \in Seq(Frame) /\ u # <<>> /\ Len(u) = n /\ u[1] = f
      /\ \A i \in 2 .. n : u[i] = t[i - 1]
  BY <1>2, <1>4, <1>5, InFront
<1>7. ASSUME NEW i \in 2 .. n PROVE u[i] = st[i]
  <2>1. i - 1 \in 1 .. n - 1 /\ (i - 1) + 1 = i
    OBVIOUS
  <2> QED
    BY <1>4, <1>6, <2>1
<1>8. f.kind \notin Entering /\ f.kind # "dispatch" /\ f.kind # "exception"
  BY DEF Running, Entering
<1>9. f.kind = "routine" => 1 < n /\ st[2].kind = "dispatch"
  BY <1>1, <1>2 DEF FrameAt, CalledOK
<1>10. f.kind = "program" <=> 1 = n
  BY <1>1, <1>2 DEF FrameAt, LastOK
<1>11. FrameAt(u, 1, r)
  <2>1. f.kind = "routine" => 1 < n /\ u[2].kind = "dispatch"
    BY <1>2, <1>7, <1>9
  <2>2. RunsOK(u, 1, r)
    BY <1>6 DEF RunsOK, StatusOf
  <2>3. EntersOK(u, 1) /\ FaultsOK(u, 1)
    BY <1>6, <1>8 DEF EntersOK, FaultsOK
  <2>4. CalledOK(u, 1) /\ LastOK(u, 1)
    BY <1>6, <1>10, <2>1 DEF CalledOK, LastOK
  <2> QED
    BY <1>6, <1>8, <2>2, <2>3, <2>4 DEF FrameAt
<1>12. ASSUME NEW k \in 2 .. n PROVE FrameAt(u, k, r)
  <2>1. FrameAt(st, k, s) /\ u[k] = st[k] /\ k # 1
    BY <1>1, <1>2, <1>7 DEF StackOK
  <2>2. k < n => u[k + 1] = st[k + 1]
    <3>1. k < n => k + 1 \in 2 .. n
      OBVIOUS
    <3> QED
      BY <1>7, <3>1
  <2>5. (k < n <=> k < Len(u)) /\ (k = n <=> k = Len(u))
    BY <1>6
  <2>3. CASE k = 2
    <3>1. n # 1 /\ st[2].kind = "dispatch"
      <4>1. f.kind # "program"
        BY <1>10, <2>3
      <4> QED
        BY <1>9, <4>1, <2>3 DEF Running
    <3>2. u[k].kind \notin Running /\ u[k].kind # "routine"
      BY <2>1, <2>3, <3>1 DEF Running
    <3>3. RunsOK(u, k, r)
      BY <3>2 DEF RunsOK
    <3> QED
      BY <1>2, <2>1, <2>2, <2>5, <3>3, SameFrame
  <2>4. CASE k # 2
    <3>1. k - 1 \in 2 .. n
      BY <2>4
    <3>2. StatusOf(u, k, r) = StatusOf(st, k, s)
      BY <1>7, <2>1, <3>1 DEF StatusOf
    <3>3. RunsOK(u, k, r)
      BY <2>1, <3>2, SameRuns
    <3> QED
      BY <1>2, <2>1, <2>2, <2>5, <3>3, SameFrame
  <2> QED
    BY <2>3, <2>4
<1>13. \A k \in DOMAIN u : FrameAt(u, k, r)
  BY <1>6, <1>11, <1>12
<1> QED
  BY <1>3, <1>5, <1>6, <1>13 DEF StackOK

\* A frame is put on top, and what was on top keeps the status it has.
LEMMA PutOnTop ==
  ASSUME NEW st, NEW s, StackOK(st, s), NEW f \in Frame, f.kind # "program",
         FrameAt(<<f>> \o st, 1, FALSE),
         st[1].kind \in Running => Head(f.saved) = s
  PROVE  StackOK(<<f>> \o st, FALSE)
<1>1. /\ st \in Seq(Frame) /\ st # <<>> /\ s \in BOOLEAN /\ Len(st) \in Nat \ {0}
      /\ st[1] \in Frame /\ FrameAt(st, 1, s)
  BY FirstIsOK
<1>2. PICK n \in Nat : n = Len(st) /\ n > 0
  BY <1>1
<1>3. PICK u : u = <<f>> \o st
  OBVIOUS
<1>4. /\ u \in Seq(Frame) /\ u # <<>> /\ Len(u) = n + 1 /\ u[1] = f
      /\ \A i \in 2 .. n + 1 : u[i] = st[i - 1]
  BY <1>1, <1>2, <1>3, InFront
<1>5. ASSUME NEW k \in 2 .. n + 1 PROVE FrameAt(u, k, FALSE)
  <2>1. PICK j \in 1 .. n : j = k - 1 /\ k = j + 1
    OBVIOUS
  <2>2. FrameAt(st, j, s) /\ u[k] = st[j] /\ k # 1
    BY <1>1, <1>2, <1>4, <2>1 DEF StackOK
  <2>3. j < n => u[k + 1] = st[j + 1]
    <3>1. j < n => k + 1 \in 2 .. n + 1 /\ (k + 1) - 1 = j + 1
      BY <2>1
    <3> QED
      BY <1>4, <3>1
  <2>4. st[j].kind \in Running => StatusOf(u, k, FALSE) = StatusOf(st, j, s)
    <3>1. CASE j = 1
      <4>1. k - 1 = 1
        BY <2>1, <3>1
      <4> QED
        BY <1>4, <2>2, <3>1, <4>1 DEF StatusOf
    <3>2. CASE j # 1
      <4>1. k - 1 \in 2 .. n + 1 /\ (k - 1) - 1 = j - 1
        BY <2>1, <3>2
      <4>2. u[k - 1] = st[j - 1]
        BY <1>4, <4>1
      <4> QED
        BY <2>2, <3>2, <4>2 DEF StatusOf
    <3> QED
      BY <3>1, <3>2
  <2>5. (k < n + 1 <=> j < n) /\ (k = n + 1 <=> j = n)
    BY <2>1
  <2>6. (j < n <=> k < Len(u)) /\ (j = n <=> k = Len(u)) /\ j \in Nat /\ k \in Nat
    BY <1>4, <2>5
  <2>7. RunsOK(u, k, FALSE)
    BY <2>2, <2>4, <2>6, SameRuns
  <2> QED
    BY <1>2, <2>2, <2>3, <2>6, <2>7, SameFrame
<1>6. FrameAt(u, 1, FALSE)
  BY <1>3
<1>7. \A k \in DOMAIN u : FrameAt(u, k, FALSE)
  <2>1. DOMAIN u = 1 .. n + 1
    BY <1>4
  <2>2. ASSUME NEW k \in 1 .. n + 1 PROVE k = 1 \/ k \in 2 .. n + 1
    OBVIOUS
  <2> QED
    BY <1>5, <1>6, <2>1, <2>2
<1> QED
  BY <1>3, <1>4, <1>7 DEF StackOK

\* The frame on top is taken off.
LEMMA TakeOff ==
  ASSUME NEW st, NEW s, StackOK(st, s), st[1].kind # "program",
         NEW r \in BOOLEAN,
         st[2].kind \in Running => r = Head(st[1].saved),
         st[2].kind \in Entering => ~ r
  PROVE  StackOK(Tail(st), r) /\ Len(st) > 1 /\ Tail(st)[1] = st[2]
<1>1. /\ st \in Seq(Frame) /\ st # <<>> /\ s \in BOOLEAN /\ Len(st) \in Nat \ {0}
      /\ st[1] \in Frame /\ FrameAt(st, 1, s)
  BY FirstIsOK
<1>2. PICK n \in Nat : n = Len(st) /\ n > 0
  BY <1>1
<1>3. n > 1
  BY <1>1, <1>2 DEF FrameAt, LastOK
<1>4. PICK t : t = Tail(st)
  OBVIOUS
<1>5. t \in Seq(Frame) /\ Len(t) = n - 1 /\ \A i \in 1 .. n - 1 : t[i] = st[i + 1]
  BY <1>1, <1>2, <1>4, Behind
<1>6. t # <<>> /\ t[1] = st[2]
  BY <1>3, <1>5
<1>7. ASSUME NEW k \in 1 .. n - 1 PROVE FrameAt(t, k, r)
  <2>1. PICK j \in 2 .. n : j = k + 1 /\ k = j - 1
    OBVIOUS
  <2>2. FrameAt(st, j, s) /\ t[k] = st[j] /\ j # 1
    BY <1>1, <1>2, <1>5, <2>1 DEF StackOK
  <2>3. j < n => t[k + 1] = st[j + 1]
    <3>1. j < n => k + 1 \in 1 .. n - 1 /\ (k + 1) + 1 = j + 1
      BY <2>1
    <3> QED
      BY <1>5, <3>1
  <2>4. st[j].kind \in Running => StatusOf(t, k, r) = StatusOf(st, j, s)
    <3>1. CASE k = 1
      <4>1. j - 1 = 1 /\ j = 2
        BY <2>1, <3>1
      <4> QED
        BY <2>2, <3>1, <4>1 DEF StatusOf
    <3>2. CASE k # 1
      <4>1. k - 1 \in 1 .. n - 1 /\ (k - 1) + 1 = j - 1
        <5>1. k \in 2 .. n - 1 /\ j - 1 = k
          BY <2>1, <3>2
        <5> QED
          BY <5>1
      <4>2. t[k - 1] = st[j - 1]
        BY <1>5, <4>1
      <4> QED
        BY <2>2, <3>2, <4>2 DEF StatusOf
    <3> QED
      BY <3>1, <3>2
  <2>5. k < n - 1 <=> j < n
    BY <2>1
  <2>6. k = n - 1 <=> j = n
    BY <2>1
  <2>7. k = 1 => j = 2
    BY <2>1
  <2>8. (j < n <=> k < Len(t)) /\ (j = n <=> k = Len(t)) /\ j \in Nat /\ k \in Nat
    BY <1>5, <2>5, <2>6
  <2>9. RunsOK(t, k, r)
    BY <2>2, <2>4, <2>8, SameRuns
  <2> QED
    BY <1>2, <2>2, <2>3, <2>7, <2>8, <2>9, SameFrame
<1>8. \A k \in DOMAIN t : FrameAt(t, k, r)
  BY <1>5, <1>7
<1> QED
  BY <1>2, <1>3, <1>4, <1>5, <1>6, <1>8 DEF StackOK

-----------------------------------------------------------------------------
(* The accesses of a frame. *)

\* The fields of a frame.
LEMMA FrameParts ==
  ASSUME NEW f \in Frame
  PROVE  /\ f.kind \in {"program", "dispatch", "routine", "exception"}
         /\ f.code \in Seq(Operation) /\ f.saved \in Seq(BOOLEAN) /\ f.mask \in Masks
         /\ f.id \in Irqs \cup {NotConnected}
BY DEF Frame

\* A frame with the code c still to run, and the statuses v saved.
Moved(f, c, v) == [f EXCEPT !.code = c, !.saved = v]

\* Moving a frame on changes its code and what it saved.
LEMMA FrameSaves ==
  ASSUME NEW f \in Frame, NEW c \in Seq(Operation), NEW v \in Seq(BOOLEAN)
  PROVE  /\ Moved(f, c, v) \in Frame /\ Moved(f, c, v).kind = f.kind
         /\ Moved(f, c, v).code = c /\ Moved(f, c, v).saved = v
BY DEF Frame, Moved

\* A frame with the code c still to run, that keeps the mask m.
Masked(f, c, m) == [f EXCEPT !.code = c, !.mask = m]

\* Keeping a mask changes the code and the mask of a frame.
LEMMA FrameMasks ==
  ASSUME NEW f \in Frame, NEW c \in Seq(Operation), NEW m \in Masks
  PROVE  /\ Masked(f, c, m) \in Frame /\ Masked(f, c, m).kind = f.kind
         /\ Masked(f, c, m).code = c /\ Masked(f, c, m).saved = f.saved
BY DEF Frame, Masked

\* The running frame, before an access: the level it is at, and the one after.
LEMMA BeforeAccess ==
  ASSUME NEW st, NEW s, StackOK(st, s), st[1].kind \in Running, st[1].code # <<>>
  PROVE  /\ Head(st[1].code) \in Operation /\ Tail(st[1].code) \in Seq(Operation)
         /\ \E l \in Level : \E m \in Level :
              /\ Step(Head(st[1].code).op, l, m)
              /\ Leads(Tail(st[1].code), m, At(0, st[1].kind = "program"))
              /\ SavedAre(st[1].saved, l)
              /\ s <=> (l.depth = 0 /\ l.on)
<1>1. st[1] \in Frame /\ FrameAt(st, 1, s)
  BY FirstIsOK
<1>2. FrameOK(st[1], s)
  BY <1>1 DEF FrameAt, RunsOK, StatusOf
<1>3. PICK l \in Level : /\ Leads(st[1].code, l, At(0, st[1].kind = "program"))
                         /\ SavedAre(st[1].saved, l)
                         /\ s <=> (l.depth = 0 /\ l.on)
  BY <1>2 DEF FrameOK
<1>4. Head(st[1].code) \in Operation /\ Tail(st[1].code) \in Seq(Operation)
  BY <1>1, FrameParts
<1>5. \E m \in Level : /\ Step(Head(st[1].code).op, l, m)
                       /\ Leads(Tail(st[1].code), m, At(0, st[1].kind = "program"))
  BY <1>3, LeadsRest
<1> QED
  BY <1>3, <1>4, <1>5

\* Saving a status, and taking the last one back.
LEMMA Saves ==
  ASSUME NEW v, NEW l \in Level, SavedAre(v, l), NEW s \in BOOLEAN,
         s <=> (l.depth = 0 /\ l.on), NEW m, m = At(l.depth + 1, l.on)
  PROVE  m \in Level /\ SavedAre(<<s>> \o v, m) /\ ~ (m.depth = 0 /\ m.on)
<1>1. PICK n \in Nat : n = l.depth
  BY DEF Level
<1>2. PICK b \in BOOLEAN : b = l.on
  BY DEF Level
<1>3. n + 1 \in Nat /\ n + 1 # 0
  OBVIOUS
<1>4. m \in Level /\ m.depth = n + 1 /\ m.on = b
  BY <1>1, <1>2, <1>3, LevelFacts
<1>5. v \in Seq(BOOLEAN) /\ Len(v) = n /\ \A j \in 1 .. n : v[j] <=> (j = n /\ b)
  BY <1>1, <1>2 DEF SavedAre
<1>6. PICK w : w = <<s>> \o v
  OBVIOUS
<1>7. /\ w \in Seq(BOOLEAN) /\ Len(w) = n + 1 /\ w[1] = s
      /\ \A j \in 2 .. n + 1 : w[j] = v[j - 1]
  BY <1>5, <1>6, InFront
<1>8. ASSUME NEW j \in 1 .. n + 1 PROVE w[j] <=> (j = n + 1 /\ b)
  <2>1. CASE j = 1
    <3>1. w[j] <=> (n = 0 /\ b)
      BY <1>1, <1>2, <1>7, <2>1
    <3>2. n = 0 <=> j = n + 1
      BY <2>1
    <3> QED
      BY <3>1, <3>2
  <2>2. CASE j # 1
    <3>1. j \in 2 .. n + 1 /\ j - 1 \in 1 .. n /\ (j - 1 = n <=> j = n + 1)
      BY <2>2
    <3>2. w[j] = v[j - 1] /\ (v[j - 1] <=> (j - 1 = n /\ b))
      BY <1>5, <1>7, <3>1
    <3> QED
      BY <3>1, <3>2
  <2> QED
    BY <2>1, <2>2
<1>9. SavedAre(w, m)
  BY <1>4, <1>7, <1>8 DEF SavedAre
<1> QED
  BY <1>3, <1>4, <1>6, <1>9

\* alt_irq_enable_all takes back the status of the innermost section.
LEMMA TakesBack ==
  ASSUME NEW v, NEW l \in Level, SavedAre(v, l), NEW m \in Level,
         l = At(m.depth + 1, m.on)
  PROVE  /\ SavedAre(Tail(v), m) /\ Head(v) \in BOOLEAN
         /\ Head(v) <=> (m.depth = 0 /\ m.on)
<1>1. PICK n \in Nat : n = m.depth
  BY DEF Level
<1>2. PICK b \in BOOLEAN : b = m.on
  BY DEF Level
<1>3. n + 1 \in Nat /\ 1 \in 1 .. n + 1 /\ (1 = n + 1 <=> n = 0)
  OBVIOUS
<1>4. l.depth = n + 1 /\ l.on = b
  BY <1>1, <1>2, <1>3, LevelFacts
<1>5. v \in Seq(BOOLEAN) /\ Len(v) = n + 1 /\ \A j \in 1 .. n + 1 : v[j] <=> (j = n + 1 /\ b)
  BY <1>4 DEF SavedAre
<1>6. v # <<>> /\ Head(v) = v[1] /\ Head(v) \in BOOLEAN
  BY <1>3, <1>5
<1>7. PICK w : w = Tail(v)
  OBVIOUS
<1>8. w \in Seq(BOOLEAN) /\ Len(w) = (n + 1) - 1 /\ \A j \in 1 .. (n + 1) - 1 : w[j] = v[j + 1]
  BY <1>5, <1>6, <1>7, Behind
<1>9. ASSUME NEW j \in 1 .. n PROVE w[j] <=> (j = n /\ b)
  <2>1. j \in 1 .. (n + 1) - 1 /\ j + 1 \in 1 .. n + 1 /\ (j + 1 = n + 1 <=> j = n)
    OBVIOUS
  <2>2. w[j] = v[j + 1] /\ (v[j + 1] <=> (j + 1 = n + 1 /\ b))
    BY <1>5, <1>8, <2>1
  <2> QED
    BY <2>1, <2>2
<1>10. Len(w) = n
  BY <1>8
<1>11. SavedAre(w, m)
  BY <1>1, <1>2, <1>8, <1>9, <1>10 DEF SavedAre
<1> QED
  BY <1>1, <1>2, <1>3, <1>5, <1>6, <1>7, <1>11

\* The stack after an access that takes the running frame to level m.
LEMMA AfterAccess ==
  ASSUME NEW st, NEW s, StackOK(st, s), st[1].kind \in Running,
         NEW m \in Level, NEW g \in Frame, g.kind = st[1].kind,
         Leads(g.code, m, At(0, g.kind = "program")), SavedAre(g.saved, m),
         NEW r \in BOOLEAN, r <=> (m.depth = 0 /\ m.on)
  PROVE  StackOK(<<g>> \o Tail(st), r)
<1>1. FrameOK(g, r)
  BY DEF FrameOK
<1> QED
  BY <1>1, ReplaceRunning

\* What Accessing says, of a stack that is in order.
LEMMA AccessFacts ==
  ASSUME IrqInv, NEW op, Accessing(op)
  PROVE  /\ StackOK(stack, status) /\ status \in BOOLEAN
         /\ Top = stack[1] /\ stack[1].kind \in Running /\ stack[1] \in Frame
         /\ stack[1].code # <<>> /\ Head(stack[1].code).op = op
         /\ Head(stack[1].code) \in Operation /\ Tail(stack[1].code) \in Seq(Operation)
<1>1. StackOK(stack, status)
  BY DEF IrqInv
<1>2. Top = stack[1] /\ stack[1] \in Frame /\ status \in BOOLEAN
  BY <1>1, FirstIsOK DEF Top
<1>3. stack[1].kind \in Running /\ stack[1].code # <<>> /\ Head(stack[1].code).op = op
  BY <1>2 DEF Accessing, Runs, Running
<1> QED
  BY <1>1, <1>2, <1>3, BeforeAccess

\* An access that opens and closes no section, and masks nothing.
LEMMA PlainAccess ==
  ASSUME IrqInv, NEW op, Accessing(op), op \notin Special, Proceed(Top.saved),
         status' = status
  PROVE  StackOK(stack', status')
<1>1. /\ StackOK(stack, status) /\ status \in BOOLEAN
      /\ Top = stack[1] /\ stack[1].kind \in Running /\ stack[1] \in Frame
      /\ stack[1].code # <<>> /\ Head(stack[1].code).op = op
      /\ Tail(stack[1].code) \in Seq(Operation)
  BY AccessFacts
<1>2. PICK l \in Level, m \in Level :
        /\ Step(op, l, m)
        /\ Leads(Tail(stack[1].code), m, At(0, stack[1].kind = "program"))
        /\ SavedAre(stack[1].saved, l)
        /\ status <=> (l.depth = 0 /\ l.on)
  BY <1>1, BeforeAccess
<1>3. m = l
  BY <1>2 DEF Step
<1>4. stack[1].saved \in Seq(BOOLEAN)
  BY <1>1, FrameParts
<1>5. PICK g \in Frame :
        /\ g = Moved(stack[1], Tail(stack[1].code), stack[1].saved)
        /\ g.kind = stack[1].kind /\ g.code = Tail(stack[1].code) /\ g.saved = stack[1].saved
  <2>1. PICK g : g = Moved(stack[1], Tail(stack[1].code), stack[1].saved)
    OBVIOUS
  <2>2. g \in Frame
    BY <1>1, <1>4, <2>1, FrameSaves
  <2>3. g.kind = stack[1].kind /\ g.code = Tail(stack[1].code)
    BY ZenonT(60), <1>1, <1>4, <2>1, FrameSaves
  <2>4. g.saved = stack[1].saved
    BY ZenonT(60), <1>1, <1>4, <2>1, FrameSaves
  <2> QED
    BY <2>1, <2>2, <2>3, <2>4
<1>6. g \in Frame /\ g.kind = stack[1].kind /\ g.code = Tail(stack[1].code) /\ g.saved = stack[1].saved
  BY <1>5
<1>7. stack' = <<g>> \o Tail(stack)
  BY <1>1, <1>5 DEF Proceed, Moved
<1>8. StackOK(<<g>> \o Tail(stack), status)
  BY <1>1, <1>2, <1>3, <1>6, AfterAccess
<1> QED
  BY <1>7, <1>8

-----------------------------------------------------------------------------
(* The steps. *)

\* The parts of the invariant that are not about the stack.
Types ==
  /\ ienable \in Masks /\ line \in Masks
  /\ alt_irq \in [Irqs -> Routines \cup {NULL}]
  /\ alt_irq_active \in Masks /\ alt_priority_mask \in Masks

\* A step that changes neither enables, requests nor routines keeps their types.
LEMMA TypesStay ==
  ASSUME Types, UNCHANGED <<ienable, line, alt_irq, alt_irq_active, alt_priority_mask>>
  PROVE  Types'
BY DEF Types

\* alt_irq_disable_all keeps the invariant.
LEMMA DisableAllStep ==
  ASSUME IrqInv, DisableAll PROVE IrqInv'
<1>1. /\ StackOK(stack, status) /\ status \in BOOLEAN
      /\ Top = stack[1] /\ stack[1].kind \in Running /\ stack[1] \in Frame
      /\ stack[1].code # <<>> /\ Head(stack[1].code).op = "disable_all"
      /\ Tail(stack[1].code) \in Seq(Operation)
  BY AccessFacts DEF DisableAll
<1>2. PICK l \in Level, m \in Level :
        /\ Step("disable_all", l, m)
        /\ Leads(Tail(stack[1].code), m, At(0, stack[1].kind = "program"))
        /\ SavedAre(stack[1].saved, l)
        /\ status <=> (l.depth = 0 /\ l.on)
  BY <1>1, BeforeAccess
<1>3. m = At(l.depth + 1, l.on)
  BY <1>2 DEF Step
<1>4. SavedAre(<<status>> \o stack[1].saved, m) /\ ~ (m.depth = 0 /\ m.on)
  BY <1>1, <1>2, <1>3, Saves
<1>5. <<status>> \o stack[1].saved \in Seq(BOOLEAN)
  BY <1>4 DEF SavedAre
<1>6. PICK g \in Frame :
        /\ g = Moved(stack[1], Tail(stack[1].code), <<status>> \o stack[1].saved)
        /\ g.kind = stack[1].kind /\ g.code = Tail(stack[1].code)
        /\ g.saved = <<status>> \o stack[1].saved
  BY <1>1, <1>5, FrameSaves
<1>7. stack' = <<g>> \o Tail(stack)
  BY <1>1, <1>6 DEF DisableAll, Proceed, Moved
<1>8. StackOK(<<g>> \o Tail(stack), FALSE)
  BY <1>1, <1>2, <1>4, <1>6, AfterAccess
<1>9. Types'
  BY TypesStay DEF IrqInv, Types, DisableAll
<1> QED
  BY <1>7, <1>8, <1>9 DEF IrqInv, Types, DisableAll

\* alt_irq_enable_all keeps the invariant.
LEMMA EnableAllStep ==
  ASSUME IrqInv, EnableAll PROVE IrqInv'
<1>1. /\ StackOK(stack, status) /\ status \in BOOLEAN
      /\ Top = stack[1] /\ stack[1].kind \in Running /\ stack[1] \in Frame
      /\ stack[1].code # <<>> /\ Head(stack[1].code).op = "enable_all"
      /\ Tail(stack[1].code) \in Seq(Operation)
  BY AccessFacts DEF EnableAll
<1>2. PICK l \in Level, m \in Level :
        /\ Step("enable_all", l, m)
        /\ Leads(Tail(stack[1].code), m, At(0, stack[1].kind = "program"))
        /\ SavedAre(stack[1].saved, l)
        /\ status <=> (l.depth = 0 /\ l.on)
  BY <1>1, BeforeAccess
<1>3. l = At(m.depth + 1, m.on)
  BY <1>2 DEF Step
<1>4. /\ SavedAre(Tail(stack[1].saved), m) /\ Head(stack[1].saved) \in BOOLEAN
      /\ Head(stack[1].saved) <=> (m.depth = 0 /\ m.on)
  BY <1>2, <1>3, TakesBack
<1>5. Tail(stack[1].saved) \in Seq(BOOLEAN)
  BY <1>4 DEF SavedAre
<1>6. PICK g \in Frame :
        /\ g = Moved(stack[1], Tail(stack[1].code), Tail(stack[1].saved))
        /\ g.kind = stack[1].kind /\ g.code = Tail(stack[1].code)
        /\ g.saved = Tail(stack[1].saved)
  BY ZenonT(60), <1>1, <1>5, FrameSaves
<1>7. stack' = <<g>> \o Tail(stack) /\ status' = Head(stack[1].saved)
  BY <1>1, <1>6 DEF EnableAll, Proceed, Moved
<1>8. StackOK(<<g>> \o Tail(stack), Head(stack[1].saved))
  BY <1>1, <1>2, <1>4, <1>6, AfterAccess
<1>9. Types'
  BY TypesStay DEF IrqInv, Types, EnableAll
<1> QED
  BY <1>7, <1>8, <1>9 DEF IrqInv, Types

\* Work of a frame keeps the invariant.
LEMMA WorkStep ==
  ASSUME IrqInv, Work PROVE IrqInv'
<1>1. PICK op \in {"work", "repaired"} : Accessing(op)
  BY DEF Work
<1>2. StackOK(stack', status')
  BY <1>1, PlainAccess DEF Work, Special
<1>3. Types'
  BY TypesStay DEF IrqInv, Types, Work
<1> QED
  BY <1>2, <1>3 DEF IrqInv, Types

\* An access that names an interrupt names one that there is.
LEMMA NamesAnInterrupt ==
  ASSUME NEW a \in Operation
  PROVE  /\ a.op \in {"enable", "disable", "clear", "interruptible", "store"} => a.id \in Irqs
         /\ a.op = "store" => a.routine \in Routines \cup {NULL}
BY DEF Operation

\* Enabling an interrupt keeps the invariant.
LEMMA EnableStep ==
  ASSUME IrqInv, Enable PROVE IrqInv'
<1>1. /\ Top = stack[1] /\ Head(stack[1].code) \in Operation
      /\ Head(stack[1].code).op = "enable"
  BY AccessFacts DEF Enable
<1>2. Head(Top.code).id \in Irqs
  BY <1>1, NamesAnInterrupt
<1>3. StackOK(stack', status')
  BY PlainAccess DEF Enable, Special
<1>4. alt_irq_active' \in Masks
  BY <1>2 DEF IrqInv, Enable, Bit, Masks
<1> QED
  BY <1>3, <1>4 DEF IrqInv, Enable

\* Disabling an interrupt keeps the invariant.
LEMMA DisableStep ==
  ASSUME IrqInv, Disable PROVE IrqInv'
<1>1. StackOK(stack', status')
  BY PlainAccess DEF Disable, Special
<1>2. alt_irq_active' \in Masks
  BY DEF IrqInv, Disable, Masks
<1> QED
  BY <1>1, <1>2 DEF IrqInv, Disable

\* Storing a routine keeps the invariant.
LEMMA StoreStep ==
  ASSUME IrqInv, StoreRoutine PROVE IrqInv'
<1>1. /\ Top = stack[1] /\ Head(stack[1].code) \in Operation
      /\ Head(stack[1].code).op = "store"
  BY AccessFacts DEF StoreRoutine
<1>2. Head(Top.code).id \in Irqs /\ Head(Top.code).routine \in Routines \cup {NULL}
  BY <1>1, NamesAnInterrupt
<1>3. StackOK(stack', status')
  BY PlainAccess DEF StoreRoutine, Special
<1>4. alt_irq' \in [Irqs -> Routines \cup {NULL}]
  BY <1>2 DEF IrqInv, StoreRoutine
<1> QED
  BY <1>3, <1>4 DEF IrqInv, StoreRoutine

\* Answering a device keeps the invariant.
LEMMA AcknowledgeStep ==
  ASSUME IrqInv, Acknowledge PROVE IrqInv'
<1>1. StackOK(stack', status')
  BY PlainAccess DEF Acknowledge, Special
<1>2. line' \in Masks
  BY DEF IrqInv, Acknowledge, Masks
<1> QED
  BY <1>1, <1>2 DEF IrqInv, Acknowledge

\* alt_irq_interruptible keeps the invariant.
LEMMA InterruptibleStep ==
  ASSUME IrqInv, alt_irq_interruptible PROVE IrqInv'
<1>1. /\ StackOK(stack, status) /\ status \in BOOLEAN
      /\ Top = stack[1] /\ stack[1].kind \in Running /\ stack[1] \in Frame
      /\ stack[1].code # <<>> /\ Head(stack[1].code).op = "interruptible"
      /\ Tail(stack[1].code) \in Seq(Operation)
  BY AccessFacts DEF alt_irq_interruptible
<1>2. PICK l \in Level, m \in Level :
        /\ Step("interruptible", l, m)
        /\ Leads(Tail(stack[1].code), m, At(0, stack[1].kind = "program"))
        /\ SavedAre(stack[1].saved, l)
        /\ status <=> (l.depth = 0 /\ l.on)
  BY <1>1, BeforeAccess
<1>3. l = At(0, FALSE) /\ m = At(0, TRUE)
  BY <1>2 DEF Step
<1>4. l.depth = 0 /\ m.depth = 0 /\ m.on = TRUE
  BY <1>3, LevelFacts
<1>5. SavedAre(stack[1].saved, m)
  BY <1>2, <1>4 DEF SavedAre
<1>6. alt_priority_mask \in Masks
  BY DEF IrqInv
<1>7. PICK g \in Frame :
        /\ g = Masked(stack[1], Tail(stack[1].code), alt_priority_mask)
        /\ g.kind = stack[1].kind /\ g.code = Tail(stack[1].code)
        /\ g.saved = stack[1].saved
  <2>1. PICK g : g = Masked(stack[1], Tail(stack[1].code), alt_priority_mask)
    OBVIOUS
  <2>2. g \in Frame
    BY <1>1, <1>6, <2>1, FrameMasks
  <2>3. g.kind = stack[1].kind /\ g.code = Tail(stack[1].code) /\ g.saved = stack[1].saved
    BY <1>1, <1>6, <2>1, FrameMasks
  <2> QED
    BY <2>1, <2>2, <2>3
<1>8. stack' = <<g>> \o Tail(stack) /\ status' = TRUE
  BY <1>1, <1>7 DEF alt_irq_interruptible, Masked
<1>9. StackOK(<<g>> \o Tail(stack), TRUE)
  BY ZenonT(60), <1>1, <1>2, <1>4, <1>5, <1>7, AfterAccess
<1>10. alt_priority_mask' \in Masks /\ ienable' \in Masks
  BY DEF IrqInv, alt_irq_interruptible, Higher, Masks
<1> QED
  BY <1>8, <1>9, <1>10 DEF IrqInv, alt_irq_interruptible

\* alt_irq_non_interruptible keeps the invariant.
LEMMA NonInterruptibleStep ==
  ASSUME IrqInv, alt_irq_non_interruptible PROVE IrqInv'
<1>1. /\ StackOK(stack, status) /\ status \in BOOLEAN
      /\ Top = stack[1] /\ stack[1].kind \in Running /\ stack[1] \in Frame
      /\ stack[1].code # <<>> /\ Head(stack[1].code).op = "non_interruptible"
      /\ Tail(stack[1].code) \in Seq(Operation)
  BY AccessFacts DEF alt_irq_non_interruptible
<1>2. PICK l \in Level, m \in Level :
        /\ Step("non_interruptible", l, m)
        /\ Leads(Tail(stack[1].code), m, At(0, stack[1].kind = "program"))
        /\ SavedAre(stack[1].saved, l)
        /\ status <=> (l.depth = 0 /\ l.on)
  BY <1>1, BeforeAccess
<1>3. l = At(0, TRUE) /\ m = At(0, FALSE)
  BY <1>2 DEF Step
<1>4. l.depth = 0 /\ m.depth = 0 /\ m.on = FALSE
  BY <1>3, LevelFacts
<1>5. SavedAre(stack[1].saved, m)
  BY <1>2, <1>4 DEF SavedAre
<1>6. stack[1].saved \in Seq(BOOLEAN) /\ stack[1].mask \in Masks
  BY <1>1, FrameParts
<1>7. PICK g \in Frame :
        /\ g = Moved(stack[1], Tail(stack[1].code), stack[1].saved)
        /\ g.kind = stack[1].kind /\ g.code = Tail(stack[1].code)
        /\ g.saved = stack[1].saved
  <2>1. PICK g : g = Moved(stack[1], Tail(stack[1].code), stack[1].saved)
    OBVIOUS
  <2>2. g \in Frame
    BY <1>1, <1>6, <2>1, FrameSaves
  <2>3. g.kind = stack[1].kind /\ g.code = Tail(stack[1].code) /\ g.saved = stack[1].saved
    BY ZenonT(60), <1>1, <1>6, <2>1, FrameSaves
  <2> QED
    BY <2>1, <2>2, <2>3
<1>8. stack' = <<g>> \o Tail(stack) /\ status' = FALSE
  BY <1>1, <1>7 DEF alt_irq_non_interruptible, Proceed, Moved
<1>9. StackOK(<<g>> \o Tail(stack), FALSE)
  BY <1>1, <1>2, <1>4, <1>5, <1>7, AfterAccess
<1>10. alt_priority_mask' \in Masks /\ ienable' \in Masks
  BY <1>1, <1>6 DEF IrqInv, alt_irq_non_interruptible, Masks
<1> QED
  BY <1>8, <1>9, <1>10 DEF IrqInv, alt_irq_non_interruptible

\* The frame of an interrupt or an exception that the running frame enters.
LEMMA EntersFrame ==
  ASSUME NEW st, NEW s, StackOK(st, s), st[1].kind \in Running,
         NEW f \in Frame, f.kind \in Entering, f.saved = <<s>>,
         f.kind = "dispatch" => s,
         f.kind = "exception" => st[1].code # <<>> /\ Head(st[1].code).op = "work"
  PROVE  StackOK(<<f>> \o st, FALSE)
<1>1. /\ st \in Seq(Frame) /\ st # <<>> /\ s \in BOOLEAN /\ Len(st) \in Nat \ {0}
  BY FirstIsOK
<1>2. PICK u : u = <<f>> \o st
  OBVIOUS
<1>3. Len(u) = Len(st) + 1 /\ u[1] = f /\ \A i \in 2 .. Len(st) + 1 : u[i] = st[i - 1]
  BY <1>1, <1>2, InFront
<1>4. 1 < Len(u) /\ u[1 + 1] = st[1]
  <2>1. 2 \in 2 .. Len(st) + 1 /\ 2 - 1 = 1 /\ 1 + 1 = 2
    BY <1>1
  <2> QED
    BY <1>1, <1>3, <2>1
<1>5. SavedOK(f)
  <2>1. CASE s
    BY <2>1 DEF SavedOK
  <2>2. CASE ~ s
    <3>1. s = FALSE
      BY <1>1, <2>2
    <3> QED
      BY <2>2, <3>1 DEF SavedOK
  <2> QED
    BY <2>1, <2>2
<1>6. f.kind \notin Running /\ f.kind # "routine" /\ f.kind # "program"
  BY DEF Entering, Running
<1>7. RunsOK(u, 1, FALSE)
  BY <1>3, <1>6 DEF RunsOK
<1>8. EntersOK(u, 1) /\ FaultsOK(u, 1)
  BY <1>3, <1>4, <1>5 DEF EntersOK, FaultsOK
<1>9. CalledOK(u, 1)
  BY <1>3, <1>6 DEF CalledOK
<1>10. LastOK(u, 1)
  BY <1>1, <1>3, <1>6 DEF LastOK
<1>11. FrameAt(u, 1, FALSE)
  BY <1>7, <1>8, <1>9, <1>10 DEF FrameAt
<1>12. Head(f.saved) = s
  OBVIOUS
<1> QED
  BY <1>2, <1>6, <1>11, <1>12, PutOnTop

\* The frame of an interrupt or exception that is taken.
LEMMA EnteredFrame ==
  ASSUME status \in BOOLEAN, NEW kind \in Entering
  PROVE  /\ Entered(kind) \in Frame /\ Entered(kind).kind = kind
         /\ Entered(kind).saved = <<status>>
BY DEF Entered, Frame, Entering, Masks

\* Taking an interrupt keeps the invariant.
LEMMA TakeInterruptStep ==
  ASSUME IrqInv, TakeInterrupt PROVE IrqInv'
<1>1. StackOK(stack, status) /\ status
  BY DEF IrqInv, TakeInterrupt, Interrupted
<1>2. stack[1] \in Frame /\ FrameAt(stack, 1, status) /\ status \in BOOLEAN
  BY <1>1, FirstIsOK
<1>3. stack[1].kind \in Running
  <2>1. stack[1].kind \notin Entering
    BY <1>1, <1>2 DEF FrameAt
  <2> QED
    BY <1>2, <2>1, FrameParts DEF Running, Entering
<1>4. "dispatch" \in Entering
  BY DEF Entering
<1>5. PICK f \in Frame : f = Entered("dispatch") /\ f.kind = "dispatch" /\ f.saved = <<status>>
  BY <1>2, <1>4, EnteredFrame
<1>6. StackOK(<<f>> \o stack, FALSE)
  BY <1>1, <1>3, <1>4, <1>5, EntersFrame
<1>7. stack' = <<f>> \o stack /\ status' = FALSE
  BY <1>5 DEF TakeInterrupt, Push
<1>8. Types'
  BY TypesStay DEF IrqInv, Types, TakeInterrupt
<1> QED
  BY <1>6, <1>7, <1>8 DEF IrqInv, Types

\* An exception keeps the invariant.
LEMMA FaultStep ==
  ASSUME IrqInv, Fault PROVE IrqInv'
<1>1. /\ StackOK(stack, status) /\ status \in BOOLEAN /\ stack[1].kind \in Running
      /\ stack[1].code # <<>> /\ Head(stack[1].code).op = "work"
  BY AccessFacts DEF Fault
<1>2. "exception" \in Entering /\ "exception" # "dispatch"
  BY DEF Entering
<1>3. PICK f \in Frame : f = Entered("exception") /\ f.kind = "exception" /\ f.saved = <<status>>
  BY <1>1, <1>2, EnteredFrame
<1>4. StackOK(<<f>> \o stack, FALSE)
  BY <1>1, <1>2, <1>3, EntersFrame
<1>5. stack' = <<f>> \o stack /\ status' = FALSE
  BY <1>3 DEF Fault, Push
<1>6. Types'
  BY TypesStay DEF IrqInv, Types, Fault
<1> QED
  BY <1>4, <1>5, <1>6 DEF IrqInv, Types

\* The head of a sequence of one element.
LEMMA HeadOfOne ==
  ASSUME NEW x PROVE Head(<<x>>) = x
OBVIOUS

\* Below an interrupt or an exception is the frame that it came to, which goes on
\* with the status that was saved.
LEMMA BelowEntering ==
  ASSUME NEW st, NEW s, StackOK(st, s), st[1].kind \in Entering
  PROVE  /\ ~ s /\ Head(st[1].saved) \in BOOLEAN /\ st[1].saved = <<Head(st[1].saved)>>
         /\ st[1].kind = "dispatch" => Head(st[1].saved)
         /\ StackOK(Tail(st), Head(st[1].saved)) /\ Tail(st)[1] = st[2]
         /\ st[2].kind \in Running
         /\ st[1].kind = "exception" => st[2].code # <<>> /\ Head(st[2].code).op = "work"
<1>1. st[1] \in Frame /\ FrameAt(st, 1, s)
  BY FirstIsOK
<1>2. SavedOK(st[1]) /\ st[2].kind \in Running
  BY <1>1 DEF FrameAt, EntersOK
<1>3. st[1].kind = "exception" => st[2].code # <<>> /\ Head(st[2].code).op = "work"
  BY <1>1 DEF FrameAt, FaultsOK
<1>4. ~ s
  BY <1>1 DEF FrameAt
<1>5. /\ Head(st[1].saved) \in BOOLEAN /\ st[1].saved = <<Head(st[1].saved)>>
      /\ st[1].kind = "dispatch" => Head(st[1].saved)
  <2>1. CASE st[1].saved = <<TRUE>>
    <3>1. Head(st[1].saved) = TRUE
      BY <2>1, HeadOfOne
    <3> QED
      BY <2>1, <3>1
  <2>2. CASE st[1].saved = <<FALSE>>
    <3>1. st[1].kind # "dispatch"
      <4>1. <<TRUE>> # <<FALSE>>
        OBVIOUS
      <4> QED
        BY <1>2, <2>2, <4>1 DEF SavedOK
    <3>2. Head(st[1].saved) = FALSE
      BY <2>2, HeadOfOne
    <3> QED
      BY <2>2, <3>1, <3>2
  <2> QED
    BY <1>2, <2>1, <2>2 DEF SavedOK
<1>6. st[1].kind # "program" /\ st[2].kind \notin Entering
  BY <1>2 DEF Entering, Running
<1>7. StackOK(Tail(st), Head(st[1].saved)) /\ Tail(st)[1] = st[2]
  BY <1>5, <1>6, TakeOff
<1> QED
  BY <1>2, <1>3, <1>4, <1>5, <1>7

\* Taking an exception for an interrupt keeps the invariant: interrupts were enabled.
LEMMA MistakeStep ==
  ASSUME IrqInv, MistakeForInterrupt PROVE IrqInv'
<1>1. StackOK(stack, status)
  BY DEF IrqInv
<1>2. /\ Top = stack[1] /\ stack[1] \in Frame /\ status \in BOOLEAN
      /\ stack[1].kind = "exception" /\ stack[1].kind \in Entering
  BY <1>1, FirstIsOK DEF Top, MistakeForInterrupt, Entering
<1>3. /\ ~ status /\ stack[1].saved = <<Head(stack[1].saved)>>
      /\ StackOK(Tail(stack), Head(stack[1].saved)) /\ Tail(stack)[1] = stack[2]
      /\ stack[2].kind \in Running
  BY <1>1, <1>2, BelowEntering
<1>4. Head(stack[1].saved)
  BY <1>2 DEF MistakeForInterrupt
<1>5. PICK g : g = [stack[1] EXCEPT !.kind = "dispatch"]
  OBVIOUS
<1>6. g \in Frame /\ g.kind = "dispatch" /\ g.saved = stack[1].saved
  BY <1>2, <1>5 DEF Frame
<1>7. g.kind \in Entering /\ g.kind # "exception"
  BY <1>6 DEF Entering
<1>8. StackOK(<<g>> \o Tail(stack), FALSE)
  BY <1>3, <1>4, <1>6, <1>7, EntersFrame
<1>9. stack' = <<g>> \o Tail(stack) /\ status' = FALSE
  BY <1>2, <1>3, <1>5 DEF MistakeForInterrupt
<1>10. Types'
  BY TypesStay DEF IrqInv, Types, MistakeForInterrupt
<1> QED
  BY <1>8, <1>9, <1>10 DEF IrqInv, Types

\* The frame f with the code c still to run.
Recoded(f, c) == [f EXCEPT !.code = c]

\* Changing the code of a frame changes nothing else.
LEMMA FrameCodes ==
  ASSUME NEW f \in Frame, NEW c \in Seq(Operation)
  PROVE  /\ Recoded(f, c) \in Frame /\ Recoded(f, c).kind = f.kind
         /\ Recoded(f, c).code = c /\ Recoded(f, c).saved = f.saved
BY DEF Frame, Recoded

\* Having the instruction skipped, or run again, the frame goes on as it was.
LEMMA GoesOn ==
  ASSUME NEW st, NEW s, StackOK(st, s), st[1].kind \in Running,
         st[1].code # <<>>, Head(st[1].code).op = "work",
         NEW g, g \in {Skipped(st[1]), Repaired(st[1])}
  PROVE  StackOK(<<g>> \o Tail(st), s)
<1>1. /\ st[1] \in Frame /\ s \in BOOLEAN /\ Tail(st[1].code) \in Seq(Operation)
  BY FirstIsOK, BeforeAccess
<1>2. PICK l \in Level, m \in Level :
        /\ Step("work", l, m)
        /\ Leads(Tail(st[1].code), m, At(0, st[1].kind = "program"))
        /\ SavedAre(st[1].saved, l)
        /\ s <=> (l.depth = 0 /\ l.on)
  BY BeforeAccess
<1>3. m = l
  BY <1>2 DEF Step, Special
<1>4. PICK o : o = [op |-> "repaired"]
  OBVIOUS
<1>5. o \in Operation /\ o.op \notin Special
  BY <1>4 DEF Operation, Special
<1>6. Leads(<<o>>, l, l)
  <2>1. Step(o.op, l, l)
    BY <1>5 DEF Step, Special
  <2> QED
    BY <1>5, <2>1, LeadsOne
<1>7. PICK c : /\ g = Recoded(st[1], c) /\ Leads(c, l, At(0, st[1].kind = "program"))
  <2>1. CASE g = Skipped(st[1])
    BY <1>2, <1>3, <2>1 DEF Skipped, Recoded
  <2>2. CASE g = Repaired(st[1])
    <3>1. Leads(<<o>> \o Tail(st[1].code), l, At(0, st[1].kind = "program"))
      BY <1>2, <1>3, <1>6, LeadsOn
    <3> QED
      BY <1>4, <2>2, <3>1 DEF Repaired, Recoded
  <2> QED
    BY <2>1, <2>2
<1>8. c \in Seq(Operation)
  BY <1>7 DEF Leads
<1>9. g \in Frame /\ g.kind = st[1].kind
  BY <1>1, <1>7, <1>8, FrameCodes
<1>10. g.code = c
  BY <1>1, <1>7, <1>8, FrameCodes
<1>11. g.saved = st[1].saved
  BY <1>1, <1>7, <1>8, FrameCodes
<1> QED
  BY <1>1, <1>2, <1>7, <1>9, <1>10, <1>11, AfterAccess

\* Handling an exception keeps the invariant.
LEMMA HandleStep ==
  ASSUME IrqInv, HandleException PROVE IrqInv'
<1>1. StackOK(stack, status)
  BY DEF IrqInv
<1>2. /\ Top = stack[1] /\ stack[1].kind = "exception" /\ stack[1].kind \in Entering
  BY <1>1, FirstIsOK DEF Top, HandleException, Entering
<1>3. /\ StackOK(Tail(stack), Head(stack[1].saved)) /\ Tail(stack)[1] = stack[2]
      /\ stack[2].kind \in Running
      /\ stack[2].code # <<>> /\ Head(stack[2].code).op = "work"
  BY <1>1, <1>2, BelowEntering
<1>4. PICK result \in alt_instruction_exception_handler :
        stack' = <<IF result = "SKIP_INST" THEN Skipped(stack[2]) ELSE Repaired(stack[2])>>
                 \o Tail(Tail(stack))
  BY DEF HandleException
<1>5. PICK g : g = (IF result = "SKIP_INST" THEN Skipped(stack[2]) ELSE Repaired(stack[2]))
  OBVIOUS
<1>6. g \in {Skipped(stack[2]), Repaired(stack[2])}
  BY <1>5
<1>7. StackOK(<<g>> \o Tail(Tail(stack)), Head(stack[1].saved))
  BY <1>3, <1>6, GoesOn
<1>8. stack' = <<g>> \o Tail(Tail(stack)) /\ status' = Head(stack[1].saved)
  BY <1>2, <1>4, <1>5 DEF HandleException
<1>9. Types'
  BY TypesStay DEF IrqInv, Types, HandleException
<1> QED
  BY <1>7, <1>8, <1>9 DEF IrqInv, Types

\* A frame outside of every section has saved nothing.
LEMMA NothingSaved ==
  ASSUME NEW b \in BOOLEAN PROVE SavedAre(<<>>, At(0, b))
<1>1. PICK v : v = <<>>
  OBVIOUS
<1>2. v \in Seq(BOOLEAN) /\ Len(v) = 0
  BY <1>1
<1>3. At(0, b).depth = 0
  BY LevelFacts
<1>4. ASSUME NEW j \in 1 .. 0 PROVE FALSE
  OBVIOUS
<1>5. SavedAre(v, At(0, b))
  BY <1>2, <1>3, <1>4 DEF SavedAre
<1> QED
  BY <1>1, <1>5

\* A stack of one frame.
LEMMA OnlyOne ==
  ASSUME NEW t \in Seq(Frame), Len(t) = 0, NEW f \in Frame
  PROVE  t = <<>> /\ <<f>> \o t = <<f>>
<1>1. t = <<>>
  OBVIOUS
<1>2. PICK u : u = <<f>> \o t
  OBVIOUS
<1>3. u \in Seq(Frame) /\ Len(u) = 1 /\ u[1] = f
  BY <1>2, InFront
<1>4. PICK w : w = <<f>>
  OBVIOUS
<1>5. w \in Seq(Frame) /\ Len(w) = 1 /\ w[1] = f
  BY <1>4
<1>6. \A i \in 1 .. 1 : u[i] = w[i]
  BY <1>3, <1>5
<1>7. u = w
  BY <1>3, <1>5, <1>6
<1> QED
  BY <1>1, <1>2, <1>4, <1>7

\* The dispatch loop calls the routine of an interrupt there is.
LEMMA LowestIsPending ==
  ASSUME IrqInv, alt_irq_pending # {} PROVE Foremost(alt_irq_pending) \in Irqs
<1>1. alt_irq_pending \in SUBSET Irqs
  BY DEF IrqInv, Masks, alt_irq_pending
<1>2. alt_irq_pending \in SUBSET Nat
  BY <1>1, IrqAssumption
<1>3. \E i \in alt_irq_pending : \A j \in alt_irq_pending : i <= j
  BY <1>2, LeastElement
<1>4. Foremost(alt_irq_pending) \in alt_irq_pending
  BY <1>3 DEF Foremost
<1> QED
  BY <1>1, <1>4

\* Calling a routine keeps the invariant.
LEMMA CallRoutineStep ==
  ASSUME IrqInv, CallRoutine PROVE IrqInv'
<1>1. StackOK(stack, status)
  BY DEF IrqInv
<1>2. /\ Top = stack[1] /\ stack[1] \in Frame /\ stack[1].kind = "dispatch"
      /\ stack[1].kind \in Entering /\ stack[1].kind \notin Running
      /\ stack \in Seq(Frame) /\ stack # <<>> /\ Len(stack) \in Nat \ {0}
  BY <1>1, FirstIsOK DEF Top, CallRoutine, Entering, Running
<1>3. ~ status /\ status \in BOOLEAN
  BY <1>1, <1>2, BelowEntering, FirstIsOK
<1>4. PICK i : i = Foremost(alt_irq_pending)
  OBVIOUS
<1>5. i \in Irqs
  BY <1>4, LowestIsPending DEF CallRoutine
<1>6. PICK body \in Bodies(i) :
        stack' = <<[kind |-> "routine", code |-> body, saved |-> <<>>, mask |-> {}, id |-> i]>>
                 \o stack
  BY <1>4 DEF CallRoutine, Push
<1>7. PICK f : f = [kind |-> "routine", code |-> body, saved |-> <<>>, mask |-> {}, id |-> i]
  OBVIOUS
<1>8. Leads(body, At(0, FALSE), At(0, FALSE))
  BY <1>5, RoutinesLead
<1>9. body \in Seq(Operation)
  BY <1>8 DEF Leads
<1>10. f \in Frame /\ f.kind = "routine" /\ f.code = body /\ f.saved = <<>>
  BY <1>5, <1>7, <1>9 DEF Frame, Masks
<1>11. FrameOK(f, FALSE)
  <2>1. At(0, FALSE) \in Level /\ At(0, FALSE).depth = 0 /\ At(0, FALSE).on = FALSE
    BY LevelFacts
  <2>2. SavedAre(f.saved, At(0, FALSE))
    BY <1>10, NothingSaved
  <2>3. (f.kind = "program") = FALSE
    BY <1>10
  <2> QED
    BY <1>8, <1>10, <2>1, <2>2, <2>3 DEF FrameOK
<1>12. PICK u : u = <<f>> \o stack
  OBVIOUS
<1>13. Len(u) = Len(stack) + 1 /\ u[1] = f /\ \A j \in 2 .. Len(stack) + 1 : u[j] = stack[j - 1]
  BY <1>2, <1>10, <1>12, InFront
<1>14. 1 < Len(u) /\ u[1 + 1] = stack[1]
  <2>1. 2 \in 2 .. Len(stack) + 1 /\ 2 - 1 = 1 /\ 1 + 1 = 2
    BY <1>2
  <2> QED
    BY <1>2, <1>13, <2>1
<1>15. f.kind \notin Entering /\ f.kind # "exception" /\ f.kind # "program"
  BY <1>10 DEF Entering
<1>16. RunsOK(u, 1, FALSE)
  BY <1>11, <1>13 DEF RunsOK, StatusOf
<1>17. EntersOK(u, 1) /\ FaultsOK(u, 1)
  BY <1>13, <1>15 DEF EntersOK, FaultsOK
<1>18. CalledOK(u, 1)
  BY <1>2, <1>14 DEF CalledOK
<1>19. LastOK(u, 1)
  BY <1>2, <1>13, <1>15 DEF LastOK
<1>20. FrameAt(u, 1, FALSE)
  BY <1>16, <1>17, <1>18, <1>19 DEF FrameAt
<1>21. StackOK(<<f>> \o stack, FALSE)
  BY <1>1, <1>2, <1>10, <1>12, <1>15, <1>20, PutOnTop
<1>22. stack' = <<f>> \o stack /\ status' = FALSE
  BY <1>3, <1>6, <1>7 DEF CallRoutine
<1>23. Types'
  BY TypesStay DEF IrqInv, Types, CallRoutine
<1> QED
  BY <1>21, <1>22, <1>23 DEF IrqInv, Types

\* A frame that has nothing left to do is outside of every section.
LEMMA DoneIsOutside ==
  ASSUME NEW st, NEW s, StackOK(st, s), st[1].kind \in Running, st[1].code = <<>>
  PROVE  /\ SavedAre(st[1].saved, At(0, st[1].kind = "program"))
         /\ s <=> st[1].kind = "program"
<1>1. FrameAt(st, 1, s) /\ s \in BOOLEAN
  BY FirstIsOK
<1>2. FrameOK(st[1], s)
  BY <1>1 DEF FrameAt, RunsOK, StatusOf
<1>3. PICK l \in Level : /\ Leads(<<>>, l, At(0, st[1].kind = "program"))
                         /\ SavedAre(st[1].saved, l)
                         /\ s <=> (l.depth = 0 /\ l.on)
  BY <1>2 DEF FrameOK
<1>4. l = At(0, st[1].kind = "program")
  BY <1>3, LeadsNowhere
<1>5. l.depth = 0 /\ (l.on <=> st[1].kind = "program")
  <2>1. (st[1].kind = "program") \in BOOLEAN
    OBVIOUS
  <2> QED
    BY <1>4, <2>1, LevelFacts
<1> QED
  BY <1>3, <1>4, <1>5

\* The return from a routine keeps the invariant.
LEMMA ReturnRoutineStep ==
  ASSUME IrqInv, ReturnRoutine PROVE IrqInv'
<1>1. StackOK(stack, status)
  BY DEF IrqInv
<1>2. Top = stack[1] /\ FrameAt(stack, 1, status) /\ status \in BOOLEAN
  BY <1>1, FirstIsOK DEF Top
<1>3. /\ stack[1].kind = "routine" /\ stack[1].kind \in Running /\ stack[1].code = <<>>
      /\ stack[1].kind # "program"
  BY <1>2 DEF ReturnRoutine, Running
<1>4. ~ status
  BY <1>1, <1>3, DoneIsOutside
<1>5. stack[2].kind = "dispatch"
  BY <1>2, <1>3 DEF FrameAt, CalledOK
<1>6. stack[2].kind \notin Running
  BY <1>5 DEF Running
<1>7. StackOK(Tail(stack), status)
  BY <1>1, <1>2, <1>3, <1>4, <1>6, TakeOff
<1>8. stack' = Tail(stack) /\ status' = status
  BY DEF ReturnRoutine, Pop
<1>9. Types'
  BY TypesStay DEF IrqInv, Types, ReturnRoutine
<1> QED
  BY <1>7, <1>8, <1>9 DEF IrqInv, Types

\* The return from an interrupt keeps the invariant.
LEMMA ReturnInterruptStep ==
  ASSUME IrqInv, ReturnInterrupt PROVE IrqInv'
<1>1. StackOK(stack, status)
  BY DEF IrqInv
<1>2. Top = stack[1] /\ stack[1].kind \in Entering
  BY <1>1, FirstIsOK DEF Top, ReturnInterrupt, Entering
<1>3. StackOK(Tail(stack), Head(stack[1].saved))
  BY <1>1, <1>2, BelowEntering
<1>4. stack' = Tail(stack) /\ status' = Head(stack[1].saved)
  BY <1>2 DEF ReturnInterrupt, Pop
<1>5. Types'
  BY TypesStay DEF IrqInv, Types, ReturnInterrupt
<1> QED
  BY <1>3, <1>4, <1>5 DEF IrqInv, Types

\* A call of the program keeps the invariant.
LEMMA CallStep ==
  ASSUME IrqInv, Call PROVE IrqInv'
<1>1. StackOK(stack, status)
  BY DEF IrqInv
<1>2. /\ Top = stack[1] /\ stack[1] \in Frame /\ FrameAt(stack, 1, status)
      /\ status \in BOOLEAN /\ stack \in Seq(Frame) /\ stack # <<>>
  BY <1>1, FirstIsOK DEF Top
<1>3. /\ stack[1].kind = "program" /\ stack[1].kind \in Running /\ stack[1].code = <<>>
  BY <1>2 DEF Call, Running
<1>4. Tail(stack) \in Seq(Frame) /\ Len(Tail(stack)) = 0
  <2>1. Len(stack) = 1
    BY <1>2, <1>3 DEF FrameAt, LastOK
  <2> QED
    BY <1>2, <2>1, Behind
<1>5. (stack[1].kind = "program") = TRUE
  BY <1>3
<1>6. SavedAre(stack[1].saved, At(0, TRUE)) /\ status = TRUE
  BY <1>1, <1>2, <1>3, <1>5, DoneIsOutside
<1>7. PICK code \in CallsMade : stack' = <<Recoded(stack[1], code)>>
  BY <1>2 DEF Call, Recoded
<1>8. Leads(code, At(0, TRUE), At(0, TRUE))
  BY ProgramLeads
<1>9. code \in Seq(Operation)
  BY <1>8 DEF Leads
<1>10. PICK g : g = Recoded(stack[1], code)
  OBVIOUS
<1>11. g \in Frame /\ g.kind = stack[1].kind
  BY <1>2, <1>9, <1>10, FrameCodes
<1>12. g.code = code
  BY <1>2, <1>9, <1>10, FrameCodes
<1>13. g.saved = stack[1].saved
  BY <1>2, <1>9, <1>10, FrameCodes
<1>14. FrameOK(g, TRUE)
  <2>1. At(0, TRUE) \in Level /\ At(0, TRUE).depth = 0 /\ At(0, TRUE).on = TRUE
    BY LevelFacts
  <2>2. (g.kind = "program") = TRUE
    BY <1>5, <1>11
  <2> QED
    BY <1>6, <1>8, <1>12, <1>13, <2>1, <2>2 DEF FrameOK
<1>15. StackOK(<<g>> \o Tail(stack), TRUE)
  BY <1>1, <1>3, <1>11, <1>14, ReplaceRunning
<1>16. <<g>> \o Tail(stack) = <<g>>
  BY <1>4, <1>11, OnlyOne
<1>17. stack' = <<g>> \o Tail(stack) /\ status' = TRUE
  BY <1>6, <1>7, <1>10, <1>16 DEF Call
<1>18. Types'
  BY TypesStay DEF IrqInv, Types, Call
<1> QED
  BY <1>15, <1>17, <1>18 DEF IrqInv, Types

\* A request of a device keeps the invariant.
LEMMA RequestStep ==
  ASSUME IrqInv, Request PROVE IrqInv'
BY DEF IrqInv, Request, Masks

\* The initial states satisfy the invariant.
LEMMA InitOK == IrqInit => IrqInv
<1> SUFFICES ASSUME IrqInit PROVE IrqInv
  OBVIOUS
<1>1. ProgramFrame \in Frame /\ ProgramFrame.kind = "program" /\ ProgramFrame.code = <<>> /\ ProgramFrame.saved = <<>>
  BY DEF ProgramFrame, Frame, Masks
<1>2. At(0, TRUE) \in Level /\ At(0, TRUE).depth = 0 /\ At(0, TRUE).on = TRUE
  BY LevelFacts
<1>3. Leads(<<>>, At(0, TRUE), At(0, TRUE))
  BY BalancedNone DEF Balanced
<1>4. SavedAre(ProgramFrame.saved, At(0, TRUE))
  BY <1>1, NothingSaved
<1>5. (ProgramFrame.kind = "program") = TRUE
  BY <1>1
<1>6. FrameOK(ProgramFrame, TRUE)
  BY <1>1, <1>2, <1>3, <1>4, <1>5 DEF FrameOK
<1>7. PICK u : u = <<ProgramFrame>>
  OBVIOUS
<1>8. u \in Seq(Frame) /\ u # <<>> /\ Len(u) = 1 /\ u[1] = ProgramFrame /\ DOMAIN u = {1}
  BY <1>1, <1>7
<1>9. RunsOK(u, 1, TRUE)
  BY <1>6, <1>8 DEF RunsOK, StatusOf
<1>10. ProgramFrame.kind \notin Entering /\ ProgramFrame.kind # "exception" /\ ProgramFrame.kind # "routine"
  BY <1>1 DEF Entering
<1>11. EntersOK(u, 1) /\ FaultsOK(u, 1) /\ CalledOK(u, 1)
  BY <1>8, <1>10 DEF EntersOK, FaultsOK, CalledOK
<1>12. LastOK(u, 1)
  BY <1>1, <1>8 DEF LastOK
<1>13. FrameAt(u, 1, TRUE)
  BY <1>8, <1>9, <1>10, <1>11, <1>12 DEF FrameAt
<1>14. StackOK(u, TRUE)
  BY <1>8, <1>13 DEF StackOK
<1>15. stack = u /\ status = TRUE
  BY <1>7 DEF IrqInit
<1> QED
  BY <1>14, <1>15 DEF IrqInit, IrqInv, Masks

\* Every step keeps the invariant.
LEMMA StepOK == IrqInv /\ [IrqNext]_irqVars => IrqInv'
<1> SUFFICES ASSUME IrqInv, [IrqNext]_irqVars PROVE IrqInv'
  OBVIOUS
<1>1. CASE Accesses
  BY <1>1, DisableAllStep, EnableAllStep, WorkStep, EnableStep, DisableStep, StoreStep,
     AcknowledgeStep, InterruptibleStep, NonInterruptibleStep DEF Accesses
<1>2. CASE Fault
  BY <1>2, FaultStep
<1>3. CASE Dispatch
  BY <1>3, TakeInterruptStep, CallRoutineStep, ReturnRoutineStep, ReturnInterruptStep,
     MistakeStep, HandleStep DEF Dispatch
<1>4. CASE Call
  BY <1>4, CallStep
<1>5. CASE Request
  BY <1>5, RequestStep
<1>6. CASE UNCHANGED irqVars
  BY <1>6 DEF irqVars, IrqInv
<1> QED
  BY <1>1, <1>2, <1>3, <1>4, <1>5, <1>6 DEF IrqNext

\* Every frame is at a level that the rest of its accesses lead out of, and the
\* frame above it, if it was interrupted, holds the status it goes on with.
THEOREM IrqInvariant == IrqSpec => []IrqInv
<1> QED
  BY InitOK, StepOK, PTL DEF IrqSpec

\* No frame that the dispatch loop has interrupted was inside of a section.
LEMMA InvExcludes == IrqInv => SectionsExclude
<1> SUFFICES ASSUME IrqInv, NEW k \in DOMAIN stack, k > 1, stack[k - 1].kind = "dispatch"
             PROVE  stack[k].saved = <<>>
  BY DEF SectionsExclude
<1>1. /\ stack \in Seq(Frame) /\ \A j \in DOMAIN stack : FrameAt(stack, j, status)
  BY DEF IrqInv, StackOK
<1>2. PICK j : j = k - 1
  OBVIOUS
<1>3. j \in DOMAIN stack /\ k = j + 1 /\ k # 1
  BY <1>1, <1>2
<1>4. stack[j].kind = "dispatch" /\ stack[j].kind \in Entering
  BY <1>2 DEF Entering
<1>5. stack[j].saved = <<TRUE>> /\ stack[k].kind \in Running
  BY <1>1, <1>3, <1>4 DEF FrameAt, EntersOK, SavedOK
<1>6. StatusOf(stack, k, status) = TRUE
  <2>1. Head(<<TRUE>>) = TRUE
    BY HeadOfOne
  <2> QED
    BY <1>2, <1>3, <1>5, <2>1 DEF StatusOf
<1>7. FrameOK(stack[k], TRUE)
  BY <1>1, <1>5, <1>6 DEF FrameAt, RunsOK
<1>8. PICK l \in Level : SavedAre(stack[k].saved, l) /\ l.depth = 0
  BY <1>7 DEF FrameOK
<1>9. stack[k].saved \in Seq(BOOLEAN) /\ Len(stack[k].saved) = 0
  BY <1>8 DEF SavedAre
<1> QED
  BY <1>9

\* No interrupt is taken between alt_irq_disable_all and alt_irq_enable_all,
\* whatever sections, calls, interruptible routines and exceptions are nested.
THEOREM SectionsAlwaysExclude == IrqSpec => []SectionsExclude
<1> QED
  BY IrqInvariant, InvExcludes, PTL

\* Every variable keeps its type.
THEOREM IrqAlwaysTyped == IrqSpec => []IrqTypeOK
<1>1. IrqInv => IrqTypeOK
  BY DEF IrqInv, StackOK, IrqTypeOK
<1> QED
  BY <1>1, IrqInvariant, PTL

-----------------------------------------------------------------------------
(* Priorities. *)

MaskOps == {"interruptible", "non_interruptible"}

\* The code c is between the two calls that let others interrupt it.
Open(c) == c # <<>> /\ c[Len(c)].op = "non_interruptible" /\ c[1].op # "interruptible"

\* Only a routine calls alt_irq_interruptible, with its own number, first of
\* all, and alt_irq_non_interruptible last.
Shaped(f) ==
  \A i \in 1 .. Len(f.code) :
    /\ f.code[i].op = "interruptible" =>
         /\ i = 1 /\ f.kind = "routine" /\ f.code[i].id = f.id
         /\ f.code[Len(f.code)].op = "non_interruptible"
    /\ f.code[i].op = "non_interruptible" => i = Len(f.code) /\ f.kind = "routine"

\* The code enables and disables nothing; it masks nothing.
Steady(c) == \A i \in 1 .. Len(c) : c[i].op \notin {"enable", "disable"}
Quiet(c) == \A i \in 1 .. Len(c) : c[i].op \notin MaskOps

\* The frame f, running with the status s, makes the mask a of the mask b.
FrameMasked(f, s, a, b) ==
  /\ Shaped(f)
  /\ Open(f.code) => a = Higher(f.id) /\ f.mask = b
  /\ ~ Open(f.code) => a = b
  /\ f.kind = "routine" /\ ~ Open(f.code) => ~ s /\ \A j \in 1 .. Len(f.saved) : ~ f.saved[j]
  /\ NestedCalls \/ Steady(f.code) \/ (a = Irqs /\ Quiet(f.code))

\* The masks w are those that the frames of a stack make, from the last one up.
MasksAre(st, s, w) ==
  /\ w \in [1 .. Len(st) + 1 -> Masks] /\ w[Len(st) + 1] = Irqs
  /\ \A k \in 1 .. Len(st) : FrameMasked(st[k], StatusOf(st, k, s), w[k], w[k + 1])
MasksOK(st, s, m) == \E w : MasksAre(st, s, w) /\ w[1] = m

\* The status matters only to a routine.
LEMMA MaskedAnyway ==
  ASSUME NEW f, NEW s, NEW t, NEW a, NEW b, FrameMasked(f, s, a, b),
         f.kind # "routine" \/ s = t
  PROVE  FrameMasked(f, t, a, b)
<1>1. CASE f.kind # "routine"
  BY <1>1 DEF FrameMasked
<1>2. CASE s = t
  BY <1>2
<1> QED
  BY <1>1, <1>2

\* A stack with another frame on top.
LEMMA OtherTop ==
  ASSUME NEW st \in Seq(Frame), st # <<>>, NEW f \in Frame
  PROVE  /\ <<f>> \o Tail(st) \in Seq(Frame) /\ Len(<<f>> \o Tail(st)) = Len(st)
         /\ (<<f>> \o Tail(st))[1] = f
         /\ \A i \in 2 .. Len(st) : (<<f>> \o Tail(st))[i] = st[i]
<1>1. PICK n \in Nat : n = Len(st) /\ n > 0
  OBVIOUS
<1>2. PICK t : t = Tail(st)
  OBVIOUS
<1>3. t \in Seq(Frame) /\ Len(t) = n - 1 /\ \A i \in 1 .. n - 1 : t[i] = st[i + 1]
  BY <1>1, <1>2, Behind
<1>4. PICK u : u = <<f>> \o t
  OBVIOUS
<1>5. u \in Seq(Frame) /\ Len(u) = n /\ u[1] = f /\ \A i \in 2 .. n : u[i] = t[i - 1]
  BY <1>1, <1>3, <1>4, InFront
<1>6. ASSUME NEW i \in 2 .. n PROVE u[i] = st[i]
  <2>1. i - 1 \in 1 .. n - 1 /\ (i - 1) + 1 = i
    OBVIOUS
  <2> QED
    BY <1>3, <1>5, <2>1
<1> QED
  BY <1>1, <1>2, <1>4, <1>5, <1>6

\* The frame on top gives way to one that makes the mask a of what is below.
LEMMA MaskedReplace ==
  ASSUME NEW st \in Seq(Frame), st # <<>>, NEW s, NEW m, MasksOK(st, s, m),
         NEW f \in Frame, NEW r, NEW a \in Masks,
         \A b \in Masks : /\ Len(st) = 1 => b = Irqs
                          /\ FrameMasked(st[1], s, m, b)
                          => FrameMasked(f, r, a, b),
         Len(st) > 1 => st[2].kind # "routine" \/ Head(f.saved) = Head(st[1].saved)
  PROVE  MasksOK(<<f>> \o Tail(st), r, a)
<1>1. PICK w : MasksAre(st, s, w) /\ w[1] = m
  BY DEF MasksOK
<1>2. PICK n \in Nat : n = Len(st) /\ n > 0
  OBVIOUS
<1>3. PICK u : u = <<f>> \o Tail(st)
  OBVIOUS
<1>4. u \in Seq(Frame) /\ Len(u) = n /\ u[1] = f /\ \A i \in 2 .. n : u[i] = st[i]
  BY <1>2, <1>3, OtherTop
<1>5. /\ w \in [1 .. n + 1 -> Masks] /\ w[n + 1] = Irqs
      /\ \A k \in 1 .. n : FrameMasked(st[k], StatusOf(st, k, s), w[k], w[k + 1])
  BY <1>1, <1>2 DEF MasksAre
<1>6. PICK v : v = [w EXCEPT ![1] = a]
  OBVIOUS
<1>7. /\ v \in [1 .. n + 1 -> Masks] /\ v[1] = a
      /\ \A i \in 2 .. n + 1 : v[i] = w[i]
  BY <1>2, <1>5, <1>6
<1>8. v[n + 1] = Irqs
  BY <1>2, <1>5, <1>7
<1>9. ASSUME NEW k \in 1 .. n
      PROVE  FrameMasked(u[k], StatusOf(u, k, r), v[k], v[k + 1])
  <2>0. FrameMasked(st[k], StatusOf(st, k, s), w[k], w[k + 1])
    BY <1>5
  <2>1. CASE k = 1
    <3>1. FrameMasked(st[1], s, m, w[2])
      BY <1>1, <2>0, <2>1 DEF StatusOf
    <3>2. w[2] \in Masks /\ (n = 1 => w[2] = Irqs) /\ v[2] = w[2]
      BY <1>2, <1>5, <1>7
    <3>3. FrameMasked(f, r, a, w[2])
      BY <1>2, <3>1, <3>2
    <3> QED
      BY <1>4, <1>7, <2>1, <3>2, <3>3 DEF StatusOf
  <2>2. CASE k # 1
    <3>1. k \in 2 .. n /\ k \in 2 .. n + 1 /\ k + 1 \in 2 .. n + 1
      BY <2>2
    <3>2. u[k] = st[k] /\ v[k] = w[k] /\ v[k + 1] = w[k + 1]
      BY <1>4, <1>7, <3>1
    <3>3. st[k].kind # "routine" \/ StatusOf(st, k, s) = StatusOf(u, k, r)
      <4>1. CASE k = 2
        <5>1. k - 1 = 1 /\ n > 1
          BY <3>1, <4>1
        <5> QED
          BY <1>2, <1>4, <4>1, <5>1 DEF StatusOf
      <4>2. CASE k # 2
        <5>1. k - 1 \in 2 .. n
          BY <3>1, <4>2
        <5>2. u[k - 1] = st[k - 1]
          BY <1>4, <5>1
        <5> QED
          BY <2>2, <5>2 DEF StatusOf
      <4> QED
        BY <4>1, <4>2
    <3> QED
      BY <2>0, <3>2, <3>3, MaskedAnyway
  <2> QED
    BY <2>1, <2>2
<1>10. MasksAre(u, r, v)
  BY <1>4, <1>7, <1>8, <1>9 DEF MasksAre
<1> QED
  BY <1>3, <1>7, <1>10 DEF MasksOK

\* A frame that masks nothing is put on top.
LEMMA MaskedPush ==
  ASSUME NEW st \in Seq(Frame), st # <<>>, NEW s, NEW m \in Masks, MasksOK(st, s, m),
         NEW f \in Frame, NEW r, FrameMasked(f, r, m, m),
         st[1].kind # "routine" \/ Head(f.saved) = s
  PROVE  MasksOK(<<f>> \o st, r, m)
<1>1. PICK w : MasksAre(st, s, w) /\ w[1] = m
  BY DEF MasksOK
<1>2. PICK n \in Nat : n = Len(st) /\ n > 0
  OBVIOUS
<1>3. PICK u : u = <<f>> \o st
  OBVIOUS
<1>4. u \in Seq(Frame) /\ Len(u) = n + 1 /\ u[1] = f /\ \A i \in 2 .. n + 1 : u[i] = st[i - 1]
  BY <1>2, <1>3, InFront
<1>5. /\ w \in [1 .. n + 1 -> Masks] /\ w[n + 1] = Irqs
      /\ \A k \in 1 .. n : FrameMasked(st[k], StatusOf(st, k, s), w[k], w[k + 1])
  BY <1>1, <1>2 DEF MasksAre
<1>6. PICK v : v = [i \in 1 .. (n + 1) + 1 |-> IF i = 1 THEN m ELSE w[i - 1]]
  OBVIOUS
<1>7. \A i \in 2 .. (n + 1) + 1 : v[i] = w[i - 1] /\ i - 1 \in 1 .. n + 1
  BY <1>2, <1>6
<1>8. v \in [1 .. (n + 1) + 1 -> Masks] /\ v[1] = m
  BY <1>2, <1>5, <1>6
<1>9. v[(n + 1) + 1] = Irqs
  <2>1. (n + 1) + 1 \in 2 .. (n + 1) + 1 /\ ((n + 1) + 1) - 1 = n + 1
    OBVIOUS
  <2> QED
    BY <1>5, <1>7, <2>1
<1>10. ASSUME NEW k \in 1 .. n + 1
       PROVE  FrameMasked(u[k], StatusOf(u, k, r), v[k], v[k + 1])
  <2>1. CASE k = 1
    <3>1. v[2] = m
      <4>1. 2 \in 2 .. (n + 1) + 1 /\ 2 - 1 = 1
        BY <1>2
      <4> QED
        BY <1>1, <1>7, <4>1
    <3> QED
      BY <1>4, <1>8, <2>1, <3>1 DEF StatusOf
  <2>2. CASE k # 1
    <3>1. PICK j \in 1 .. n : j = k - 1 /\ k = j + 1
      BY <2>2
    <3>2. u[k] = st[j] /\ v[k] = w[j] /\ v[k + 1] = w[j + 1]
      <4>1. k \in 2 .. n + 1 /\ k \in 2 .. (n + 1) + 1 /\ k + 1 \in 2 .. (n + 1) + 1
            /\ (k + 1) - 1 = j + 1
        BY <3>1
      <4>2. u[k] = st[k - 1] /\ v[k] = w[k - 1] /\ v[k + 1] = w[(k + 1) - 1]
        BY <1>4, <1>7, <4>1
      <4> QED
        BY <3>1, <4>1, <4>2
    <3>3. st[j].kind # "routine" \/ StatusOf(st, j, s) = StatusOf(u, k, r)
      <4>1. CASE j = 1
        <5>1. k - 1 = 1
          BY <3>1, <4>1
        <5> QED
          BY <1>4, <2>2, <4>1, <5>1 DEF StatusOf
      <4>2. CASE j # 1
        <5>1. k - 1 \in 2 .. n + 1 /\ (k - 1) - 1 = j - 1
          BY <3>1, <4>2
        <5>2. u[k - 1] = st[j - 1]
          BY <1>4, <5>1
        <5> QED
          BY <2>2, <4>2, <5>2 DEF StatusOf
      <4> QED
        BY <4>1, <4>2
    <3> QED
      BY <1>5, <3>2, <3>3, MaskedAnyway
  <2> QED
    BY <2>1, <2>2
<1>11. MasksAre(u, r, v)
  BY <1>4, <1>8, <1>9, <1>10 DEF MasksAre
<1> QED
  BY <1>3, <1>8, <1>11 DEF MasksOK

\* A frame that masks nothing is taken off.
LEMMA MaskedPop ==
  ASSUME NEW st \in Seq(Frame), Len(st) > 1, NEW s, NEW m, MasksOK(st, s, m),
         ~ Open(st[1].code), NEW r, st[2].kind # "routine" \/ r = Head(st[1].saved)
  PROVE  MasksOK(Tail(st), r, m)
<1>1. PICK w : MasksAre(st, s, w) /\ w[1] = m
  BY DEF MasksOK
<1>2. PICK n \in Nat : n = Len(st) - 1 /\ Len(st) = n + 1 /\ n > 0
  OBVIOUS
<1>3. PICK u : u = Tail(st)
  OBVIOUS
<1>4. u \in Seq(Frame) /\ Len(u) = n /\ \A i \in 1 .. n : u[i] = st[i + 1]
  BY <1>2, <1>3, Behind
<1>5. /\ w \in [1 .. (n + 1) + 1 -> Masks] /\ w[(n + 1) + 1] = Irqs
      /\ \A k \in 1 .. n + 1 : FrameMasked(st[k], StatusOf(st, k, s), w[k], w[k + 1])
  BY <1>1, <1>2 DEF MasksAre
<1>6. PICK v : v = [i \in 1 .. n + 1 |-> w[i + 1]]
  OBVIOUS
<1>7. /\ v \in [1 .. n + 1 -> Masks] /\ v[n + 1] = Irqs
      /\ \A i \in 1 .. n + 1 : v[i] = w[i + 1]
  BY <1>2, <1>5, <1>6
<1>8. v[1] = m
  <2>1. FrameMasked(st[1], StatusOf(st, 1, s), w[1], w[1 + 1])
    BY <1>2, <1>5
  <2>2. w[1] = w[1 + 1]
    BY <2>1 DEF FrameMasked
  <2> QED
    BY <1>1, <1>2, <1>7, <2>2
<1>9. ASSUME NEW k \in 1 .. n
      PROVE  FrameMasked(u[k], StatusOf(u, k, r), v[k], v[k + 1])
  <2>1. k + 1 \in 1 .. n + 1 /\ k \in 1 .. n + 1
    OBVIOUS
  <2>2. u[k] = st[k + 1] /\ v[k] = w[k + 1] /\ v[k + 1] = w[(k + 1) + 1]
    BY <1>4, <1>7, <2>1
  <2>3. FrameMasked(st[k + 1], StatusOf(st, k + 1, s), w[k + 1], w[(k + 1) + 1])
    BY <1>5, <2>1
  <2>4. (k + 1) - 1 = k /\ k + 1 # 1
    OBVIOUS
  <2>5. st[k + 1].kind # "routine" \/ StatusOf(st, k + 1, s) = StatusOf(u, k, r)
    <3>1. CASE k = 1
      <4>1. k + 1 = 2
        BY <3>1
      <4> QED
        BY <2>4, <3>1, <4>1 DEF StatusOf
    <3>2. CASE k # 1
      <4>1. k - 1 \in 1 .. n /\ (k - 1) + 1 = k
        BY <3>2
      <4>2. u[k - 1] = st[k]
        BY <1>4, <4>1
      <4> QED
        BY <2>4, <3>2, <4>2 DEF StatusOf
    <3> QED
      BY <3>1, <3>2
  <2> QED
    BY <2>2, <2>3, <2>5, MaskedAnyway
<1>10. MasksAre(u, r, v)
  BY <1>4, <1>7, <1>9 DEF MasksAre
<1> QED
  BY <1>3, <1>8, <1>10 DEF MasksOK

-----------------------------------------------------------------------------
(* What masks, enables and disables: the code. *)

\* The rest of a code, after its first access.
LEMMA RestOfCode ==
  ASSUME NEW f \in Frame, f.code # <<>>, Shaped(f),
         NEW g, g.code = Tail(f.code), g.kind = f.kind, g.id = f.id
  PROVE  /\ Shaped(g)
         /\ Head(f.code).op \notin MaskOps => (Open(g.code) <=> Open(f.code))
         /\ Head(f.code).op = "interruptible" =>
              f.kind = "routine" /\ Head(f.code).id = f.id /\ ~ Open(f.code) /\ Open(g.code)
         /\ Head(f.code).op = "non_interruptible" =>
              f.kind = "routine" /\ Open(f.code) /\ ~ Open(g.code)
         /\ Steady(f.code) => Steady(g.code) /\ Head(f.code).op \notin {"enable", "disable"}
         /\ Quiet(f.code) => Quiet(g.code) /\ Head(f.code).op \notin MaskOps
<1>1. PICK c : c = f.code
  OBVIOUS
<1>2. PICK d : d = g.code
  OBVIOUS
<1>3. c \in Seq(Operation) /\ c # <<>> /\ d = Tail(c)
  BY <1>1, <1>2, FrameParts
<1>4. PICK n \in Nat : n = Len(d) /\ Len(c) = n + 1
  BY <1>3
<1>5. Head(c) = c[1] /\ \A i \in 1 .. n : d[i] = c[i + 1]
  BY <1>3, <1>4
<1>6. \A i \in 1 .. n + 1 :
        /\ c[i].op = "interruptible" =>
             i = 1 /\ f.kind = "routine" /\ c[i].id = f.id /\ c[n + 1].op = "non_interruptible"
        /\ c[i].op = "non_interruptible" => i = n + 1 /\ f.kind = "routine"
  BY <1>1, <1>4 DEF Shaped
<1>7. ASSUME NEW i \in 1 .. n
      PROVE  /\ d[i].op # "interruptible"
             /\ d[i].op = "non_interruptible" => i = n /\ f.kind = "routine"
  <2>1. i + 1 \in 1 .. n + 1 /\ d[i] = c[i + 1] /\ i + 1 # 1 /\ (i + 1 = n + 1 => i = n)
    BY <1>5
  <2> QED
    BY <1>6, <2>1
<1>8. Shaped(g)
  BY <1>2, <1>4, <1>7 DEF Shaped
<1>9. Open(c) <=> c[n + 1].op = "non_interruptible" /\ c[1].op # "interruptible"
  BY <1>3, <1>4 DEF Open
<1>10. Open(d) <=> n > 0 /\ d[n].op = "non_interruptible"
  <2>1. CASE n = 0
    BY <1>3, <1>4, <2>1 DEF Open
  <2>2. CASE n > 0
    <3>1. 1 \in 1 .. n /\ d # <<>>
      BY <1>4, <2>2
    <3> QED
      BY <1>4, <1>7, <2>2, <3>1 DEF Open
  <2> QED
    BY <2>1, <2>2
<1>11. n > 0 => d[n] = c[n + 1]
  BY <1>5
<1>12. c[1].op \notin MaskOps => (Open(d) <=> Open(c))
  <2>1. CASE n = 0
    BY <1>9, <1>10, <2>1 DEF MaskOps
  <2>2. CASE n > 0
    BY <1>9, <1>10, <1>11, <2>2 DEF MaskOps
  <2> QED
    BY <2>1, <2>2
<1>13. c[1].op = "interruptible" =>
         f.kind = "routine" /\ c[1].id = f.id /\ ~ Open(c) /\ Open(d)
  <2> SUFFICES ASSUME c[1].op = "interruptible"
               PROVE  f.kind = "routine" /\ c[1].id = f.id /\ ~ Open(c) /\ Open(d)
    OBVIOUS
  <2>1. 1 \in 1 .. n + 1
    OBVIOUS
  <2>2. f.kind = "routine" /\ c[1].id = f.id /\ c[n + 1].op = "non_interruptible"
    BY <1>6, <2>1
  <2>3. n > 0
    <3>1. n # 0
      BY <2>2
    <3> QED
      BY <3>1
  <2> QED
    BY <1>9, <1>10, <1>11, <2>2, <2>3
<1>14. c[1].op = "non_interruptible" => f.kind = "routine" /\ Open(c) /\ ~ Open(d)
  <2> SUFFICES ASSUME c[1].op = "non_interruptible"
               PROVE  f.kind = "routine" /\ Open(c) /\ ~ Open(d)
    OBVIOUS
  <2>1. 1 \in 1 .. n + 1
    OBVIOUS
  <2>2. f.kind = "routine" /\ 1 = n + 1
    BY <1>6, <2>1
  <2>3. n = 0
    BY <2>2
  <2> QED
    BY <1>9, <1>10, <2>2, <2>3
<1>15. ASSUME NEW S, \A i \in 1 .. n + 1 : c[i].op \notin S
       PROVE  c[1].op \notin S /\ \A i \in 1 .. n : d[i].op \notin S
  <2>1. 1 \in 1 .. n + 1 /\ \A i \in 1 .. n : i + 1 \in 1 .. n + 1
    OBVIOUS
  <2> QED
    BY <1>5, <1>15, <2>1
<1>16. Steady(c) => Steady(d) /\ c[1].op \notin {"enable", "disable"}
  BY <1>4, <1>15 DEF Steady
<1>17. Quiet(c) => Quiet(d) /\ c[1].op \notin MaskOps
  BY <1>4, <1>15 DEF Quiet
<1> QED
  BY <1>1, <1>2, <1>5, <1>8, <1>12, <1>13, <1>14, <1>16, <1>17

\* Code with none of the accesses S: put together, and one access of its own.
Without(c, S) == c \in Seq(Operation) /\ \A i \in 1 .. Len(c) : c[i].op \notin S

\* One piece of code after another lacks what both lack.
LEMMA WithoutOn ==
  ASSUME NEW S, NEW c, NEW d, Without(c, S), Without(d, S)
  PROVE  Without(c \o d, S)
<1>1. PICK e : e = c \o d
  OBVIOUS
<1>2. c \in Seq(Operation) /\ d \in Seq(Operation)
  BY DEF Without
<1>3. PICK a \in Nat, b \in Nat : a = Len(c) /\ b = Len(d)
  BY <1>2
<1>4. /\ e \in Seq(Operation) /\ Len(e) = a + b
      /\ \A i \in 1 .. a : e[i] = c[i]
      /\ \A i \in a + 1 .. a + b : e[i] = d[i - a]
  BY <1>1, <1>2, <1>3
<1>5. ASSUME NEW i \in 1 .. a + b PROVE e[i].op \notin S
  <2>1. CASE i \in 1 .. a
    BY <1>3, <1>4, <2>1 DEF Without
  <2>2. CASE i \in a + 1 .. a + b
    <3>1. i - a \in 1 .. b
      BY <2>2
    <3> QED
      BY <1>3, <1>4, <2>2, <3>1 DEF Without
  <2> QED
    BY <2>1, <2>2
<1> QED
  BY <1>1, <1>4, <1>5 DEF Without

\* Code of one access lacks what the access is not.
LEMMA WithoutOne ==
  ASSUME NEW S, NEW o \in Operation, o.op \notin S
  PROVE  Without(<<o>>, S)
<1>1. PICK c : c = <<o>>
  OBVIOUS
<1>2. c \in Seq(Operation) /\ Len(c) = 1 /\ c[1] = o
  BY <1>1
<1>3. Without(c, S)
  BY <1>2 DEF Without
<1> QED
  BY <1>1, <1>3

\* A section of one access lacks what that access is not, but for its own two.
LEMMA WithoutThree ==
  ASSUME NEW S, NEW o \in Operation, o.op \notin S,
         "disable_all" \notin S, "enable_all" \notin S
  PROVE  Without(<<disable_all, o, enable_all>>, S)
<1>1. PICK c : c = <<disable_all, o, enable_all>>
  OBVIOUS
<1>2. /\ c \in Seq(Operation) /\ Len(c) = 3 /\ c[1] = disable_all /\ c[2] = o
      /\ c[3] = enable_all
  BY <1>1, OperationFacts
<1>3. Without(c, S)
  BY <1>2, OperationFacts DEF Without
<1> QED
  BY <1>1, <1>3

\* The calls mask nothing; only the calls that enable and disable do that.
LEMMA WithoutCalls ==
  /\ Without(Section, MaskOps \cup {"enable", "disable", "store"})
  /\ Without(<<[op |-> "work"]>>, MaskOps \cup {"enable", "disable", "store"})
  /\ \A id \in Irqs :
       /\ Without(alt_irq_enable(id), MaskOps \cup {"store"})
       /\ Without(alt_irq_disable(id), MaskOps \cup {"enable", "store"})
       /\ Without(Clear(id), MaskOps \cup {"enable", "disable", "store"})
<1>1. PICK w : w = [op |-> "work"]
  OBVIOUS
<1>2. w \in Operation /\ w.op = "work"
  BY <1>1 DEF Operation
<1>3. Without(Section, MaskOps \cup {"enable", "disable", "store"})
  BY <1>1, <1>2, WithoutThree DEF Section, MaskOps
<1>4. Without(<<[op |-> "work"]>>, MaskOps \cup {"enable", "disable", "store"})
  BY <1>1, <1>2, WithoutOne DEF MaskOps
<1>5. ASSUME NEW id \in Irqs
      PROVE  /\ Without(alt_irq_enable(id), MaskOps \cup {"store"})
             /\ Without(alt_irq_disable(id), MaskOps \cup {"enable", "store"})
             /\ Without(Clear(id), MaskOps \cup {"enable", "disable", "store"})
  <2>1. PICK e : e = [op |-> "enable", id |-> id]
    OBVIOUS
  <2>2. PICK d : d = [op |-> "disable", id |-> id]
    OBVIOUS
  <2>3. PICK c : c = [op |-> "clear", id |-> id]
    OBVIOUS
  <2>4. /\ e \in Operation /\ e.op = "enable" /\ d \in Operation /\ d.op = "disable"
        /\ c \in Operation /\ c.op = "clear"
    BY <2>1, <2>2, <2>3 DEF Operation
  <2>5. Without(alt_irq_enable(id), MaskOps \cup {"store"})
    BY <2>1, <2>4, WithoutThree DEF alt_irq_enable, MaskOps
  <2>6. Without(alt_irq_disable(id), MaskOps \cup {"enable", "store"})
    BY <2>2, <2>4, WithoutThree DEF alt_irq_disable, MaskOps
  <2>7. Without(Clear(id), MaskOps \cup {"enable", "disable", "store"})
    BY <2>3, <2>4, WithoutOne DEF Clear, MaskOps
  <2> QED
    BY <2>5, <2>6, <2>7
<1> QED
  BY <1>3, <1>4, <1>5

\* What lacks more lacks less.
LEMMA WithoutLess ==
  ASSUME NEW c, NEW S, NEW Fewer, Without(c, S), Fewer \subseteq S
  PROVE  Without(c, Fewer)
BY DEF Without

\* Code that masks nothing has its shape, and is closed.
LEMMA QuietCode ==
  ASSUME NEW f \in Frame, Without(f.code, MaskOps)
  PROVE  Shaped(f) /\ ~ Open(f.code) /\ Quiet(f.code)
<1>1. PICK c : c = f.code
  OBVIOUS
<1>2. c \in Seq(Operation) /\ \A i \in 1 .. Len(c) : c[i].op \notin MaskOps
  BY <1>1 DEF Without
<1>3. c # <<>> => Len(c) \in 1 .. Len(c)
  BY <1>2
<1>4. ~ Open(c)
  BY <1>2, <1>3 DEF Open, MaskOps
<1> QED
  BY <1>1, <1>2, <1>4 DEF Shaped, Quiet, MaskOps

\* What a routine does between the two calls that let others interrupt it.
LEMMA InterruptibleShape ==
  ASSUME NEW id \in Irqs, NEW body, Without(body, MaskOps),
         NEW f \in Frame, f.kind = "routine", f.id = id, f.code = Interruptible(id, body)
  PROVE  /\ Shaped(f) /\ ~ Open(f.code)
         /\ Without(body, {"enable", "disable"}) => Steady(f.code)
<1>1. PICK o : o = [op |-> "interruptible", id |-> id]
  OBVIOUS
<1>2. PICK p : p = [op |-> "non_interruptible"]
  OBVIOUS
<1>3. /\ o \in Operation /\ o.op = "interruptible" /\ o.id = id
      /\ p \in Operation /\ p.op = "non_interruptible"
  BY <1>1, <1>2 DEF Operation
<1>4. PICK d : d = <<o>> \o body
  OBVIOUS
<1>5. PICK n \in Nat : n = Len(body)
  BY DEF Without
<1>6. body \in Seq(Operation) /\ \A i \in 1 .. n : body[i].op \notin MaskOps
  BY <1>5 DEF Without
<1>7. /\ d \in Seq(Operation) /\ Len(d) = n + 1 /\ d[1] = o
      /\ \A i \in 2 .. n + 1 : d[i] = body[i - 1]
  BY <1>3, <1>4, <1>5, <1>6, InFront
<1>8. PICK c : c = d \o <<p>>
  OBVIOUS
<1>9. /\ c \in Seq(Operation) /\ Len(c) = n + 2 /\ c[n + 2] = p
      /\ \A i \in 1 .. n + 1 : c[i] = d[i]
  BY <1>3, <1>7, <1>8
<1>10. f.code = c
  BY <1>1, <1>2, <1>4, <1>8 DEF Interruptible
<1>11. c[1] = o /\ \A i \in 2 .. n + 1 : c[i] = body[i - 1] /\ i - 1 \in 1 .. n
  BY <1>7, <1>9
<1>12. ASSUME NEW i \in 1 .. n + 2
       PROVE  /\ c[i].op = "interruptible" => i = 1 /\ c[i].id = f.id
              /\ c[i].op = "non_interruptible" => i = n + 2
  <2>1. i = 1 \/ i = n + 2 \/ i \in 2 .. n + 1
    OBVIOUS
  <2>2. CASE i = 1
    BY <1>3, <1>11, <2>2
  <2>3. CASE i = n + 2
    BY <1>3, <1>9, <2>3
  <2>4. CASE i \in 2 .. n + 1
    BY <1>6, <1>11, <2>4 DEF MaskOps
  <2> QED
    BY <2>1, <2>2, <2>3, <2>4
<1>13. Shaped(f)
  BY <1>3, <1>9, <1>10, <1>12 DEF Shaped
<1>14. ~ Open(c)
  BY <1>3, <1>11 DEF Open
<1>15. ASSUME Without(body, {"enable", "disable"}) PROVE Steady(c)
  <2>1. \A i \in 1 .. n : body[i].op \notin {"enable", "disable"}
    BY <1>5, <1>15 DEF Without
  <2>2. ASSUME NEW i \in 1 .. n + 2 PROVE c[i].op \notin {"enable", "disable"}
    <3>1. i = 1 \/ i = n + 2 \/ i \in 2 .. n + 1
      OBVIOUS
    <3>2. CASE i = 1
      BY <1>3, <1>11, <3>2
    <3>3. CASE i = n + 2
      BY <1>3, <1>9, <3>3
    <3>4. CASE i \in 2 .. n + 1
      BY <1>11, <2>1, <3>4
    <3> QED
      BY <3>1, <3>2, <3>3, <3>4
  <2> QED
    BY <1>9, <2>2 DEF Steady
<1> QED
  BY <1>10, <1>13, <1>14, <1>15

\* Whatever a routine does: unless the nested calls are allowed, it enables and
\* disables only when nothing was masked, and masks nothing itself then.
LEMMA RoutineShape ==
  ASSUME NEW id \in Irqs, NEW body \in Bodies(id),
         NEW f \in Frame, f.kind = "routine", f.id = id, f.code = body
  PROVE  /\ Shaped(f) /\ ~ Open(f.code)
         /\ NestedCalls \/ Steady(f.code) \/ (alt_priority_mask = Irqs /\ Quiet(f.code))
<1>1. /\ Without(Clear(id), MaskOps \cup {"enable", "disable"})
      /\ Without(Section, MaskOps \cup {"enable", "disable"})
  BY WithoutCalls, WithoutLess
<1>2. Without(Clear(id) \o Section, MaskOps \cup {"enable", "disable"})
  BY <1>1, WithoutOn
<1>3. ASSUME NEW d \in Changes(id) PROVE Without(Clear(id) \o d, MaskOps)
  <2>1. d = alt_irq_disable(id) \/ \E j \in Irqs : d = alt_irq_enable(j)
    BY <1>3 DEF Changes, Registered
  <2>2. Without(d, MaskOps)
    BY <2>1, WithoutCalls, WithoutLess
  <2>3. Without(Clear(id), MaskOps)
    BY <1>1, WithoutLess
  <2> QED
    BY <2>2, <2>3, WithoutOn
<1>4. ASSUME NEW c, c \in {Clear(id), Clear(id) \o Section}, f.code = c
      PROVE  Shaped(f) /\ ~ Open(f.code) /\ Steady(f.code)
  <2>1. Without(c, MaskOps \cup {"enable", "disable"})
    BY <1>1, <1>2, <1>4
  <2>2. Without(c, MaskOps) /\ Without(c, {"enable", "disable"})
    BY <2>1, WithoutLess
  <2> QED
    BY <1>4, <2>2, QuietCode DEF Steady, Without
<1>5. CASE body \in {Clear(id), Clear(id) \o Section}
  BY <1>4, <1>5
<1>6. CASE body = Interruptible(id, Clear(id) \o Section)
  <2>1. /\ Without(Clear(id) \o Section, MaskOps)
        /\ Without(Clear(id) \o Section, {"enable", "disable"})
    BY <1>2, WithoutLess
  <2> QED
    BY <1>6, <2>1, InterruptibleShape
<1>7. CASE /\ NestedCalls \/ alt_priority_mask = Irqs
           /\ \E d \in Changes(id) : body = Clear(id) \o d
  BY <1>3, <1>7, QuietCode
<1>8. CASE NestedCalls /\ \E d \in Changes(id) : body = Interruptible(id, Clear(id) \o d)
  BY <1>3, <1>8, InterruptibleShape
<1> QED
  BY <1>5, <1>6, <1>7, <1>8 DEF Bodies

\* The program masks nothing.
LEMMA ProgramShape ==
  ASSUME NEW c \in CallsMade PROVE Without(c, MaskOps)
<1>1. /\ Without(Section, MaskOps) /\ Without(<<[op |-> "work"]>>, MaskOps)
      /\ \A id \in Irqs : /\ Without(alt_irq_enable(id), MaskOps)
                          /\ Without(alt_irq_disable(id), MaskOps)
  BY WithoutCalls, WithoutLess
<1>2. ASSUME NEW id \in Irqs, NEW r \in Routines \cup {NULL}
      PROVE  Without(alt_iic_isr_register(id, r), MaskOps)
  <2>1. PICK o : o = [op |-> "store", id |-> id, routine |-> r]
    OBVIOUS
  <2>2. o \in Operation /\ o.op = "store"
    BY <2>1 DEF Operation
  <2>3. PICK a : a = <<disable_all, o>>
    OBVIOUS
  <2>4. a \in Seq(Operation) /\ Len(a) = 2 /\ a[1] = disable_all /\ a[2] = o
    BY <2>2, <2>3, OperationFacts
  <2>5. Without(a, MaskOps)
    BY <2>2, <2>4, OperationFacts DEF Without, MaskOps
  <2>6. Without(<<enable_all>>, MaskOps)
    BY OperationFacts, WithoutOne DEF MaskOps
  <2>7. Without(IF r # NULL THEN alt_irq_enable(id) ELSE alt_irq_disable(id), MaskOps)
    BY <1>1
  <2> QED
    BY <2>1, <2>3, <2>5, <2>6, <2>7, WithoutOn DEF alt_iic_isr_register
<1>3. c = Section \/ c = <<[op |-> "work"]>> \/ (\E i \in Irqs : c = alt_irq_enable(i))
      \/ (\E i \in Irqs : c = alt_irq_disable(i))
      \/ (\E i \in Irqs : \E r \in Routines \cup {NULL} : c = alt_iic_isr_register(i, r))
  BY DEF CallsMade, Registered
<1> QED
  BY <1>1, <1>2, <1>3

-----------------------------------------------------------------------------
(* The steps keep the masks. *)

\* An access changes neither the number of a frame nor the mask it keeps.
LEMMA MovedKeeps ==
  ASSUME NEW f \in Frame, NEW c \in Seq(Operation), NEW v \in Seq(BOOLEAN)
  PROVE  Moved(f, c, v).id = f.id /\ Moved(f, c, v).mask = f.mask
BY DEF Frame, Moved

\* Letting others interrupt it changes the mask of a frame, and not its number.
LEMMA MaskedKeeps ==
  ASSUME NEW f \in Frame, NEW c \in Seq(Operation), NEW m \in Masks
  PROVE  Masked(f, c, m).id = f.id /\ Masked(f, c, m).mask = m
BY DEF Frame, Masked

\* Other code changes neither the number of a frame nor its mask.
LEMMA RecodedKeeps ==
  ASSUME NEW f \in Frame, NEW c \in Seq(Operation)
  PROVE  Recoded(f, c).id = f.id /\ Recoded(f, c).mask = f.mask
BY DEF Frame, Recoded

\* A frame that runs is not on top of a routine, but of the dispatch loop.
LEMMA BelowRunning ==
  ASSUME NEW st, NEW s, StackOK(st, s), st[1].kind \in Running, Len(st) > 1
  PROVE  st[2].kind = "dispatch"
<1>1. FrameAt(st, 1, s) /\ Len(st) \in Nat \ {0}
  BY FirstIsOK
<1>2. st[1].kind # "program"
  BY <1>1 DEF FrameAt, LastOK
<1> QED
  BY <1>1, <1>2 DEF FrameAt, CalledOK, Running

\* Only the program has nothing below it.
LEMMA NotTheLast ==
  ASSUME NEW st, NEW s, StackOK(st, s), st[1].kind # "program"
  PROVE  Len(st) > 1
<1>1. PICK n \in Nat \ {0} : n = Len(st)
  BY FirstIsOK
<1>2. FrameAt(st, 1, s)
  BY FirstIsOK
<1>3. n # 1
  BY <1>1, <1>2 DEF FrameAt, LastOK
<1>4. n > 1
  BY <1>3
<1> QED
  BY <1>1, <1>4

\* The mask the running frame makes, of the mask below it.
LEMMA TopMask ==
  ASSUME NEW st \in Seq(Frame), st # <<>>, NEW s, NEW m, MasksOK(st, s, m)
  PROVE  \E b \in Masks : FrameMasked(st[1], s, m, b) /\ (Len(st) = 1 => b = Irqs)
<1>1. PICK w : MasksAre(st, s, w) /\ w[1] = m
  BY DEF MasksOK
<1>2. PICK n \in Nat : n = Len(st) /\ n > 0
  OBVIOUS
<1>3. /\ w \in [1 .. n + 1 -> Masks] /\ w[n + 1] = Irqs
      /\ \A k \in 1 .. n : FrameMasked(st[k], StatusOf(st, k, s), w[k], w[k + 1])
  BY <1>1, <1>2 DEF MasksAre
<1>4. 1 \in 1 .. n /\ 2 \in 1 .. n + 1 /\ 1 + 1 = 2
  BY <1>2
<1>5. FrameMasked(st[1], StatusOf(st, 1, s), w[1], w[1 + 1])
  BY <1>3, <1>4
<1>6. FrameMasked(st[1], s, m, w[2])
  BY <1>1, <1>4, <1>5 DEF StatusOf
<1>7. w[2] \in Masks /\ (n = 1 => w[2] = Irqs)
  BY <1>3, <1>4
<1> QED
  BY <1>2, <1>6, <1>7

\* What the running frame enables and disables, it does where nothing is masked,
\* unless the nested calls are allowed.
LEMMA ChangesUnmasked ==
  ASSUME IrqInv, MasksOK(stack, status, alt_priority_mask),
         NEW op \in {"enable", "disable"}, Accessing(op)
  PROVE  NestedCalls \/ alt_priority_mask = Irqs
<1>1. /\ StackOK(stack, status) /\ stack[1] \in Frame
      /\ stack[1].code # <<>> /\ Head(stack[1].code).op = op
  BY AccessFacts
<1>2. stack \in Seq(Frame) /\ stack # <<>>
  BY <1>1, FirstIsOK
<1>3. PICK b \in Masks : FrameMasked(stack[1], status, alt_priority_mask, b)
  BY <1>2, TopMask
<1>4. NestedCalls \/ Steady(stack[1].code) \/ alt_priority_mask = Irqs
  BY <1>3 DEF FrameMasked
<1>5. ~ Steady(stack[1].code)
  <2>1. PICK c : c = stack[1].code
    OBVIOUS
  <2>2. c \in Seq(Operation) /\ c # <<>>
    BY <1>1, <2>1, FrameParts
  <2>3. Head(c) = c[1] /\ 1 \in 1 .. Len(c)
    BY <2>2
  <2>4. c[1].op \in {"enable", "disable"}
    BY <1>1, <2>1, <2>3
  <2> QED
    BY <2>1, <2>3, <2>4 DEF Steady
<1> QED
  BY <1>4, <1>5

\* An access that masks nothing; a routine that has not let others interrupt it
\* goes on with interrupts disabled.
LEMMA PlainMasked ==
  ASSUME IrqInv, MasksOK(stack, status, alt_priority_mask),
         NEW op, Accessing(op), op \notin MaskOps,
         NEW v \in Seq(BOOLEAN), Proceed(v), NEW r \in BOOLEAN,
         ~ status /\ (\A j \in 1 .. Len(stack[1].saved) : ~ stack[1].saved[j])
           => ~ r /\ \A j \in 1 .. Len(v) : ~ v[j]
  PROVE  MasksOK(stack', r, alt_priority_mask)
<1>1. /\ StackOK(stack, status) /\ status \in BOOLEAN
      /\ Top = stack[1] /\ stack[1].kind \in Running /\ stack[1] \in Frame
      /\ stack[1].code # <<>> /\ Head(stack[1].code).op = op
      /\ Tail(stack[1].code) \in Seq(Operation)
  BY AccessFacts
<1>2. stack \in Seq(Frame) /\ stack # <<>> /\ Len(stack) \in Nat \ {0}
  BY <1>1, FirstIsOK
<1>3. alt_priority_mask \in Masks
  BY DEF IrqInv
<1>4. PICK g : g = Moved(stack[1], Tail(stack[1].code), v)
  OBVIOUS
<1>5. g \in Frame
  BY <1>1, <1>4, FrameSaves
<1>6. g.kind = stack[1].kind /\ g.code = Tail(stack[1].code) /\ g.saved = v
  BY ZenonT(60), <1>1, <1>4, FrameSaves
<1>7. g.id = stack[1].id /\ g.mask = stack[1].mask
  BY ZenonT(60), <1>1, <1>4, MovedKeeps
<1>8. stack' = <<g>> \o Tail(stack)
  BY <1>1, <1>4 DEF Proceed, Moved
<1>9. ASSUME NEW b \in Masks, FrameMasked(stack[1], status, alt_priority_mask, b)
      PROVE  FrameMasked(g, r, alt_priority_mask, b)
  <2>1. Shaped(stack[1])
    BY <1>9 DEF FrameMasked
  <2>2. /\ Shaped(g) /\ (Open(g.code) <=> Open(stack[1].code))
        /\ (Steady(stack[1].code) => Steady(g.code))
        /\ (Quiet(stack[1].code) => Quiet(g.code))
    BY <1>1, <1>6, <1>7, <2>1, RestOfCode
  <2>3. NestedCalls \/ Steady(g.code) \/ (alt_priority_mask = Irqs /\ Quiet(g.code))
    BY <1>9, <2>2 DEF FrameMasked
  <2>4. /\ Open(g.code) => alt_priority_mask = Higher(g.id) /\ g.mask = b
        /\ ~ Open(g.code) => alt_priority_mask = b
    BY <1>7, <1>9, <2>2 DEF FrameMasked
  <2>5. g.kind = "routine" /\ ~ Open(g.code) => ~ r /\ \A j \in 1 .. Len(g.saved) : ~ g.saved[j]
    BY <1>6, <1>9, <2>2 DEF FrameMasked
  <2> QED
    BY <2>2, <2>3, <2>4, <2>5 DEF FrameMasked
<1>10. Len(stack) > 1 => stack[2].kind # "routine"
  BY <1>1, BelowRunning
<1>11. \A b \in Masks : /\ Len(stack) = 1 => b = Irqs
                        /\ FrameMasked(stack[1], status, alt_priority_mask, b)
                        => FrameMasked(g, r, alt_priority_mask, b)
  BY <1>9
<1>12. Len(stack) > 1 => stack[2].kind # "routine" \/ Head(g.saved) = Head(stack[1].saved)
  BY <1>10
<1>13. MasksOK(<<g>> \o Tail(stack), r, alt_priority_mask)
  BY <1>2, <1>3, <1>5, <1>11, <1>12, MaskedReplace
<1> QED
  BY <1>8, <1>13

\* What is let through: all that is enabled, unless some of it is masked.
EnablesOK ==
  /\ alt_priority_mask = Irqs => ienable = alt_irq_active
  /\ NestedCalls \/ ienable \subseteq alt_priority_mask

PrioInv == MasksOK(stack, status, alt_priority_mask) /\ EnablesOK

\* Steps that leave what is let through alone.
LEMMA EnablesStay ==
  ASSUME EnablesOK, UNCHANGED <<ienable, alt_irq_active, alt_priority_mask>>
  PROVE  EnablesOK'
BY DEF EnablesOK

\* The running frame and what it saved, before an access.
LEMMA SavedFacts ==
  ASSUME IrqInv, NEW op, Accessing(op)
  PROVE  stack[1].saved \in Seq(BOOLEAN) /\ Top.saved = stack[1].saved /\ status \in BOOLEAN
BY AccessFacts, FrameParts

\* Work, and an answer to a device, keep the masks.
LEMMA WorkMasked ==
  ASSUME IrqInv, PrioInv, Work \/ Acknowledge \/ StoreRoutine PROVE PrioInv'
<1>1. PICK op \in {"work", "repaired", "clear", "store"} : Accessing(op)
  BY DEF Work, Acknowledge, StoreRoutine
<1>2. /\ Proceed(Top.saved) /\ status' = status /\ alt_priority_mask' = alt_priority_mask
      /\ UNCHANGED <<ienable, alt_irq_active, alt_priority_mask>>
  BY DEF Work, Acknowledge, StoreRoutine
<1>3. stack[1].saved \in Seq(BOOLEAN) /\ Proceed(stack[1].saved) /\ status \in BOOLEAN
  BY <1>1, <1>2, SavedFacts
<1>4. op \notin MaskOps
  BY DEF MaskOps
<1>5. MasksOK(stack', status, alt_priority_mask)
  BY <1>1, <1>3, <1>4, PlainMasked DEF PrioInv
<1> QED
  BY <1>2, <1>5, EnablesStay DEF PrioInv

\* Enabling and disabling an interrupt keep the masks.
LEMMA EnableMasked ==
  ASSUME IrqInv, PrioInv, Enable \/ Disable PROVE PrioInv'
<1>1. PICK op \in {"enable", "disable"} : Accessing(op)
  BY DEF Enable, Disable
<1>2. /\ Proceed(Top.saved) /\ status' = status /\ alt_priority_mask' = alt_priority_mask
      /\ ienable' = alt_irq_active'
  BY DEF Enable, Disable
<1>3. stack[1].saved \in Seq(BOOLEAN) /\ Proceed(stack[1].saved) /\ status \in BOOLEAN
  BY <1>1, <1>2, SavedFacts
<1>4. op \notin MaskOps
  BY DEF MaskOps
<1>5. MasksOK(stack', status, alt_priority_mask)
  BY <1>1, <1>3, <1>4, PlainMasked DEF PrioInv
<1>6. NestedCalls \/ alt_priority_mask = Irqs
  BY <1>1, ChangesUnmasked DEF PrioInv
<1>7. alt_irq_active' \subseteq Irqs
  BY EnableStep, DisableStep DEF IrqInv, Masks
<1>8. EnablesOK'
  BY <1>2, <1>6, <1>7 DEF EnablesOK
<1> QED
  BY <1>2, <1>5, <1>8 DEF PrioInv

\* alt_irq_disable_all saves no more than the status the frame runs with.
LEMMA DisableAllMasked ==
  ASSUME IrqInv, PrioInv, DisableAll PROVE PrioInv'
<1>1. Accessing("disable_all") /\ "disable_all" \notin MaskOps
  BY DEF DisableAll, MaskOps
<1>2. PICK v : v = stack[1].saved
  OBVIOUS
<1>3. v \in Seq(BOOLEAN) /\ Top.saved = v /\ status \in BOOLEAN
  BY <1>1, <1>2, SavedFacts
<1>4. PICK n \in Nat : n = Len(v)
  BY <1>3
<1>5. PICK u : u = <<status>> \o v
  OBVIOUS
<1>6. u \in Seq(BOOLEAN) /\ Len(u) = n + 1 /\ u[1] = status /\ \A i \in 2 .. n + 1 : u[i] = v[i - 1]
  BY <1>3, <1>4, <1>5, InFront
<1>7. ASSUME ~ status, \A j \in 1 .. n : ~ v[j], NEW j \in 1 .. n + 1
      PROVE  ~ u[j]
  <2>1. CASE j = 1
    BY <1>6, <1>7, <2>1
  <2>2. CASE j # 1
    <3>1. j \in 2 .. n + 1 /\ j - 1 \in 1 .. n
      BY <2>2
    <3>2. u[j] = v[j - 1] /\ ~ v[j - 1]
      BY <1>6, <1>7, <3>1
    <3> QED
      BY <3>2
  <2> QED
    BY <2>1, <2>2
<1>8. ~ status /\ (\A j \in 1 .. Len(stack[1].saved) : ~ stack[1].saved[j])
        => ~ FALSE /\ \A j \in 1 .. Len(u) : ~ u[j]
  BY <1>2, <1>4, <1>6, <1>7
<1>9. Proceed(u)
  BY <1>3, <1>5 DEF DisableAll
<1>10. FALSE \in BOOLEAN
  OBVIOUS
<1>11. MasksOK(stack', FALSE, alt_priority_mask)
  BY <1>1, <1>6, <1>8, <1>9, <1>10, PlainMasked DEF PrioInv
<1>12. status' = FALSE /\ alt_priority_mask' = alt_priority_mask /\ EnablesOK'
  BY EnablesStay DEF DisableAll, PrioInv
<1> QED
  BY <1>11, <1>12 DEF PrioInv

\* A frame that is going to take a status back has saved one.
LEMMA SavedSome ==
  ASSUME IrqInv, Accessing("enable_all") PROVE stack[1].saved # <<>>
<1>1. PICK v : v = stack[1].saved
  OBVIOUS
<1>2. /\ StackOK(stack, status) /\ stack[1].kind \in Running
      /\ stack[1].code # <<>> /\ Head(stack[1].code).op = "enable_all"
  BY AccessFacts
<1>3. PICK l \in Level, m \in Level : Step("enable_all", l, m) /\ SavedAre(v, l)
  BY <1>1, <1>2, BeforeAccess
<1>4. l = At(m.depth + 1, m.on)
  BY <1>3 DEF Step
<1>5. m.depth \in Nat /\ m.on \in BOOLEAN
  BY DEF Level
<1>6. l.depth = m.depth + 1
  BY <1>4, <1>5, LevelFacts
<1>7. v \in Seq(BOOLEAN) /\ Len(v) > 0
  BY <1>3, <1>5, <1>6 DEF SavedAre
<1> QED
  BY <1>1, <1>7

\* alt_irq_enable_all gives back no more than was saved.
LEMMA EnableAllMasked ==
  ASSUME IrqInv, PrioInv, EnableAll PROVE PrioInv'
<1>1. Accessing("enable_all") /\ "enable_all" \notin MaskOps
  BY DEF EnableAll, MaskOps
<1>2. PICK v : v = stack[1].saved
  OBVIOUS
<1>3. v \in Seq(BOOLEAN) /\ Top.saved = v /\ status \in BOOLEAN
  BY <1>1, <1>2, SavedFacts
<1>7. v # <<>>
  BY <1>1, <1>2, SavedSome
<1>8. PICK n \in Nat : Len(v) = n + 1 /\ n = Len(v) - 1
  BY <1>3, <1>7
<1>9. PICK u : u = Tail(v)
  OBVIOUS
<1>10. PICK r : r = Head(v)
  OBVIOUS
<1>11. /\ u \in Seq(BOOLEAN) /\ Len(u) = n /\ r = v[1] /\ r \in BOOLEAN
       /\ \A i \in 1 .. n : u[i] = v[i + 1]
  BY <1>3, <1>7, <1>8, <1>9, <1>10
<1>12. ASSUME \A j \in 1 .. n + 1 : ~ v[j]
       PROVE  ~ r /\ \A j \in 1 .. n : ~ u[j]
  <2>1. 1 \in 1 .. n + 1 /\ \A j \in 1 .. n : j + 1 \in 1 .. n + 1
    OBVIOUS
  <2> QED
    BY <1>11, <1>12, <2>1
<1>13. ~ status /\ (\A j \in 1 .. Len(stack[1].saved) : ~ stack[1].saved[j])
         => ~ r /\ \A j \in 1 .. Len(u) : ~ u[j]
  BY <1>2, <1>8, <1>11, <1>12
<1>14. Proceed(u)
  BY <1>3, <1>9 DEF EnableAll
<1>15. MasksOK(stack', r, alt_priority_mask)
  BY <1>1, <1>11, <1>13, <1>14, PlainMasked DEF PrioInv
<1>16. status' = r /\ alt_priority_mask' = alt_priority_mask /\ EnablesOK'
  BY <1>3, <1>10, EnablesStay DEF EnableAll, PrioInv
<1> QED
  BY <1>15, <1>16 DEF PrioInv

\* alt_irq_interruptible makes the mask of its routine, and keeps the one below.
LEMMA InterruptibleMasked ==
  ASSUME IrqInv, PrioInv, alt_irq_interruptible PROVE PrioInv'
<1>1. /\ StackOK(stack, status)
      /\ Top = stack[1] /\ stack[1].kind \in Running /\ stack[1] \in Frame
      /\ stack[1].code # <<>> /\ Head(stack[1].code).op = "interruptible"
      /\ Head(stack[1].code) \in Operation
      /\ Tail(stack[1].code) \in Seq(Operation)
  BY AccessFacts DEF alt_irq_interruptible
<1>2. stack \in Seq(Frame) /\ stack # <<>>
  BY <1>1, FirstIsOK
<1>3. alt_priority_mask \in Masks /\ alt_irq_active \in Masks
  BY DEF IrqInv
<1>4. PICK g : g = Masked(stack[1], Tail(stack[1].code), alt_priority_mask)
  OBVIOUS
<1>5. g \in Frame
  BY <1>1, <1>3, <1>4, FrameMasks
<1>6. g.kind = stack[1].kind /\ g.code = Tail(stack[1].code)
  BY ZenonT(60), <1>1, <1>3, <1>4, FrameMasks
<1>7. g.id = stack[1].id /\ g.mask = alt_priority_mask
  BY ZenonT(60), <1>1, <1>3, <1>4, MaskedKeeps
<1>8. PICK a : a = Higher(Head(stack[1].code).id)
  OBVIOUS
<1>9. Head(stack[1].code).id \in Irqs
  BY <1>1, NamesAnInterrupt
<1>10. a \in Masks /\ a # Irqs
  <2>1. PICK i \in Irqs : i = Head(stack[1].code).id
    BY <1>9
  <2>2. i \in Int /\ ~ (i < i)
    BY IrqAssumption
  <2>3. i \notin a
    BY <1>8, <2>1, <2>2 DEF Higher
  <2> QED
    BY <1>8, <2>3 DEF Higher, Masks
<1>11. ASSUME NEW b \in Masks, FrameMasked(stack[1], status, alt_priority_mask, b)
       PROVE  FrameMasked(g, TRUE, a, b)
  <2>1. Shaped(stack[1])
    BY <1>11 DEF FrameMasked
  <2>2. /\ Shaped(g) /\ ~ Open(stack[1].code) /\ Open(g.code)
        /\ Head(stack[1].code).id = stack[1].id
        /\ (Steady(stack[1].code) => Steady(g.code))
        /\ ~ Quiet(stack[1].code)
    BY <1>1, <1>6, <1>7, <2>1, RestOfCode DEF MaskOps
  <2>3. a = Higher(g.id) /\ g.mask = b
    BY <1>7, <1>8, <1>11, <2>2 DEF FrameMasked
  <2>4. NestedCalls \/ Steady(g.code)
    BY <1>11, <2>2 DEF FrameMasked
  <2> QED
    BY <2>2, <2>3, <2>4 DEF FrameMasked
<1>12. \A b \in Masks : /\ Len(stack) = 1 => b = Irqs
                        /\ FrameMasked(stack[1], status, alt_priority_mask, b)
                        => FrameMasked(g, TRUE, a, b)
  BY <1>11
<1>13. Len(stack) > 1 => stack[2].kind # "routine" \/ Head(g.saved) = Head(stack[1].saved)
  BY <1>1, BelowRunning
<1>14. MasksOK(<<g>> \o Tail(stack), TRUE, a)
  BY <1>2, <1>5, <1>10, <1>12, <1>13, MaskedReplace DEF PrioInv
<1>15. stack' = <<g>> \o Tail(stack) /\ status' = TRUE /\ alt_priority_mask' = a
  BY <1>1, <1>4, <1>8 DEF alt_irq_interruptible, Masked
<1>16. EnablesOK'
  BY <1>10, <1>15 DEF EnablesOK, alt_irq_interruptible
<1> QED
  BY <1>14, <1>15, <1>16 DEF PrioInv

\* alt_irq_non_interruptible restores the mask below its routine.
LEMMA NonInterruptibleMasked ==
  ASSUME IrqInv, PrioInv, alt_irq_non_interruptible PROVE PrioInv'
<1>1. /\ StackOK(stack, status)
      /\ Top = stack[1] /\ stack[1].kind \in Running /\ stack[1] \in Frame
      /\ stack[1].code # <<>> /\ Head(stack[1].code).op = "non_interruptible"
      /\ Head(stack[1].code) \in Operation
      /\ Tail(stack[1].code) \in Seq(Operation)
  BY AccessFacts DEF alt_irq_non_interruptible
<1>2. stack \in Seq(Frame) /\ stack # <<>>
  BY <1>1, FirstIsOK
<1>3. alt_irq_active \in Masks /\ stack[1].mask \in Masks /\ stack[1].saved \in Seq(BOOLEAN)
  BY <1>1, FrameParts DEF IrqInv
<1>4. PICK g : g = Moved(stack[1], Tail(stack[1].code), stack[1].saved)
  OBVIOUS
<1>5. g \in Frame
  BY <1>1, <1>3, <1>4, FrameSaves
<1>6. g.kind = stack[1].kind /\ g.code = Tail(stack[1].code) /\ g.saved = stack[1].saved
  BY ZenonT(60), <1>1, <1>3, <1>4, FrameSaves
<1>7. g.id = stack[1].id /\ g.mask = stack[1].mask
  BY ZenonT(60), <1>1, <1>3, <1>4, MovedKeeps
<1>8. Len(stack[1].saved) = 0
  <2>1. PICK l \in Level, m \in Level :
          Step("non_interruptible", l, m) /\ SavedAre(stack[1].saved, l)
    BY <1>1, BeforeAccess
  <2>2. l.depth = 0
    BY <2>1, LevelFacts DEF Step
  <2> QED
    BY <2>1, <2>2 DEF SavedAre
<1>9. ASSUME NEW b \in Masks, FrameMasked(stack[1], status, alt_priority_mask, b)
      PROVE  FrameMasked(g, FALSE, stack[1].mask, b)
  <2>1. Shaped(stack[1])
    BY <1>9 DEF FrameMasked
  <2>2. /\ Shaped(g) /\ Open(stack[1].code) /\ ~ Open(g.code)
        /\ (Steady(stack[1].code) => Steady(g.code))
        /\ ~ Quiet(stack[1].code)
    BY <1>1, <1>6, <1>7, <2>1, RestOfCode DEF MaskOps
  <2>3. stack[1].mask = b
    BY <1>9, <2>2 DEF FrameMasked
  <2>4. NestedCalls \/ Steady(g.code)
    BY <1>9, <2>2 DEF FrameMasked
  <2>5. \A j \in 1 .. Len(g.saved) : ~ g.saved[j]
    BY <1>6, <1>8
  <2> QED
    BY <2>2, <2>3, <2>4, <2>5 DEF FrameMasked
<1>10. \A b \in Masks : /\ Len(stack) = 1 => b = Irqs
                        /\ FrameMasked(stack[1], status, alt_priority_mask, b)
                        => FrameMasked(g, FALSE, stack[1].mask, b)
  BY <1>9
<1>11. Len(stack) > 1 => stack[2].kind # "routine" \/ Head(g.saved) = Head(stack[1].saved)
  BY <1>1, BelowRunning
<1>12. MasksOK(<<g>> \o Tail(stack), FALSE, stack[1].mask)
  BY <1>2, <1>3, <1>5, <1>10, <1>11, MaskedReplace DEF PrioInv
<1>13. /\ stack' = <<g>> \o Tail(stack) /\ status' = FALSE
       /\ alt_priority_mask' = stack[1].mask
  BY <1>1, <1>4 DEF alt_irq_non_interruptible, Proceed, Moved
<1>14. EnablesOK'
  BY <1>3, <1>13 DEF EnablesOK, alt_irq_non_interruptible, Masks
<1> QED
  BY <1>12, <1>13, <1>14 DEF PrioInv

\* The frame of an interrupt or an exception masks nothing.
LEMMA EnteredMasks ==
  ASSUME NEW f \in Frame, f.kind # "routine", f.code = <<>>, NEW r, NEW a
  PROVE  FrameMasked(f, r, a, a)
<1>1. PICK c : c = f.code
  OBVIOUS
<1>2. c \in Seq(Operation) /\ Len(c) = 0 /\ c = <<>>
  BY <1>1
<1>3. ~ Open(c)
  BY <1>2 DEF Open
<1>4. Steady(c)
  BY <1>2 DEF Steady
<1>5. Shaped(f)
  BY <1>1, <1>2 DEF Shaped
<1> QED
  BY <1>1, <1>3, <1>4, <1>5 DEF FrameMasked

\* Only a routine lets others interrupt it.
LEMMA ClosedEntering ==
  ASSUME NEW f \in Frame, f.kind # "routine", Shaped(f) PROVE ~ Open(f.code)
<1>1. PICK c : c = f.code
  OBVIOUS
<1>2. c \in Seq(Operation)
  BY <1>1, FrameParts
<1>3. c # <<>> => Len(c) \in 1 .. Len(c)
  BY <1>2
<1>4. c # <<>> => c[Len(c)].op # "non_interruptible"
  BY <1>1, <1>3 DEF Shaped
<1> QED
  BY <1>1, <1>4 DEF Open

\* Taking an interrupt, and an exception, keep the masks.
LEMMA EnterMasked ==
  ASSUME IrqInv, PrioInv, NEW kind \in Entering, Push(Entered(kind)), status' = FALSE,
         UNCHANGED <<ienable, alt_irq_active, alt_priority_mask>>
  PROVE  PrioInv'
<1>1. StackOK(stack, status) /\ alt_priority_mask \in Masks
  BY DEF IrqInv
<1>2. stack \in Seq(Frame) /\ stack # <<>> /\ status \in BOOLEAN
  BY <1>1, FirstIsOK
<1>3. PICK f \in Frame : f = Entered(kind) /\ f.kind = kind /\ f.saved = <<status>>
  BY <1>2, EnteredFrame
<1>4. f.code = <<>>
  BY <1>3 DEF Entered
<1>5. f.kind # "routine"
  BY <1>3 DEF Entering
<1>6. Head(f.saved) = status
  BY <1>3, HeadOfOne
<1>7. FrameMasked(f, FALSE, alt_priority_mask, alt_priority_mask)
  BY <1>4, <1>5, EnteredMasks
<1>8. MasksOK(<<f>> \o stack, FALSE, alt_priority_mask)
  BY <1>1, <1>2, <1>6, <1>7, MaskedPush DEF PrioInv
<1>9. stack' = <<f>> \o stack
  BY <1>3 DEF Push
<1> QED
  BY <1>8, <1>9, EnablesStay DEF PrioInv

\* Taking an exception for an interrupt keeps the masks.
LEMMA MistakeMasked ==
  ASSUME IrqInv, PrioInv, MistakeForInterrupt PROVE PrioInv'
<1>1. StackOK(stack, status) /\ alt_priority_mask \in Masks
  BY DEF IrqInv
<1>2. /\ Top = stack[1] /\ stack[1] \in Frame /\ stack \in Seq(Frame) /\ stack # <<>>
      /\ stack[1].kind = "exception"
  BY <1>1, FirstIsOK DEF Top, MistakeForInterrupt
<1>3. PICK g : g = [stack[1] EXCEPT !.kind = "dispatch"]
  OBVIOUS
<1>4. /\ g \in Frame /\ g.kind = "dispatch" /\ g.saved = stack[1].saved
      /\ g.code = stack[1].code /\ g.id = stack[1].id /\ g.mask = stack[1].mask
  BY <1>2, <1>3 DEF Frame
<1>5. ASSUME NEW b \in Masks, FrameMasked(stack[1], status, alt_priority_mask, b)
      PROVE  FrameMasked(g, status, alt_priority_mask, b)
  BY <1>2, <1>4, <1>5 DEF FrameMasked, Shaped
<1>6. \A b \in Masks : /\ Len(stack) = 1 => b = Irqs
                       /\ FrameMasked(stack[1], status, alt_priority_mask, b)
                       => FrameMasked(g, status, alt_priority_mask, b)
  BY <1>5
<1>7. Len(stack) > 1 => stack[2].kind # "routine" \/ Head(g.saved) = Head(stack[1].saved)
  BY <1>4
<1>8. MasksOK(<<g>> \o Tail(stack), status, alt_priority_mask)
  BY <1>1, <1>2, <1>4, <1>6, <1>7, MaskedReplace DEF PrioInv
<1>9. stack' = <<g>> \o Tail(stack) /\ status' = status /\ alt_priority_mask' = alt_priority_mask
  BY <1>2, <1>3 DEF MistakeForInterrupt
<1>10. EnablesOK'
  BY EnablesStay DEF PrioInv, MistakeForInterrupt
<1> QED
  BY <1>8, <1>9, <1>10 DEF PrioInv

\* Coming back from an interrupt, and coming back from a routine, keep the masks.
LEMMA LeaveMasked ==
  ASSUME IrqInv, PrioInv, ReturnRoutine \/ ReturnInterrupt PROVE PrioInv'
<1>1. StackOK(stack, status) /\ alt_priority_mask \in Masks
  BY DEF IrqInv
<1>2. /\ Top = stack[1] /\ stack \in Seq(Frame) /\ stack # <<>> /\ Len(stack) \in Nat \ {0}
      /\ FrameAt(stack, 1, status)
  BY <1>1, FirstIsOK DEF Top
<1>3. stack[1].kind # "program"
  BY <1>2 DEF ReturnRoutine, ReturnInterrupt
<1>4. Len(stack) > 1
  BY <1>1, <1>3, NotTheLast
<1>5. PICK b \in Masks : FrameMasked(stack[1], status, alt_priority_mask, b)
  BY <1>2, TopMask DEF PrioInv
<1>6. stack' = Tail(stack) /\ alt_priority_mask' = alt_priority_mask
  BY DEF ReturnRoutine, ReturnInterrupt, Pop
<1>7. EnablesOK'
  BY EnablesStay DEF PrioInv, ReturnRoutine, ReturnInterrupt
<1>8. CASE ReturnRoutine
  <2>1. stack[1].kind \in Running /\ stack[1].code = <<>>
    BY <1>2, <1>8 DEF ReturnRoutine, Running
  <2>2. ~ Open(stack[1].code)
    BY <2>1 DEF Open
  <2>3. stack[2].kind # "routine"
    BY <1>1, <1>4, <2>1, BelowRunning
  <2>4. MasksOK(Tail(stack), status, alt_priority_mask)
    BY <1>2, <1>4, <2>2, <2>3, MaskedPop DEF PrioInv
  <2> QED
    BY <1>6, <1>7, <1>8, <2>4 DEF PrioInv, ReturnRoutine
<1>9. CASE ReturnInterrupt
  <2>1. stack[1].kind = "dispatch"
    BY <1>2, <1>9 DEF ReturnInterrupt
  <2>2. ~ Open(stack[1].code)
    BY <1>2, <1>5, <2>1, ClosedEntering DEF FrameMasked
  <2>3. MasksOK(Tail(stack), Head(stack[1].saved), alt_priority_mask)
    BY <1>2, <1>4, <2>2, MaskedPop DEF PrioInv
  <2> QED
    BY <1>2, <1>6, <1>7, <1>9, <2>3 DEF PrioInv, ReturnInterrupt
<1> QED
  BY <1>8, <1>9

\* Calling a routine keeps the masks, whatever the routine is going to do.
LEMMA CallRoutineMasked ==
  ASSUME IrqInv, PrioInv, CallRoutine PROVE PrioInv'
<1>1. StackOK(stack, status) /\ alt_priority_mask \in Masks
  BY DEF IrqInv
<1>2. /\ Top = stack[1] /\ stack \in Seq(Frame) /\ stack # <<>>
      /\ stack[1].kind = "dispatch" /\ stack[1].kind \in Entering
  BY <1>1, FirstIsOK DEF Top, CallRoutine, Entering
<1>3. ~ status
  BY <1>1, <1>2, BelowEntering
<1>4. PICK i : i = Foremost(alt_irq_pending)
  OBVIOUS
<1>5. i \in Irqs
  BY <1>4, LowestIsPending DEF CallRoutine
<1>6. PICK body \in Bodies(i) :
        stack' = <<[kind |-> "routine", code |-> body, saved |-> <<>>, mask |-> {}, id |-> i]>>
                 \o stack
  BY <1>4 DEF CallRoutine, Push
<1>7. PICK f : f = [kind |-> "routine", code |-> body, saved |-> <<>>, mask |-> {}, id |-> i]
  OBVIOUS
<1>8. body \in Seq(Operation)
  BY <1>5, RoutinesLead DEF Leads
<1>9. f \in Frame /\ f.kind = "routine" /\ f.code = body /\ f.saved = <<>> /\ f.id = i
  BY <1>5, <1>7, <1>8 DEF Frame, Masks
<1>10. /\ Shaped(f) /\ ~ Open(f.code)
       /\ NestedCalls \/ Steady(f.code) \/ (alt_priority_mask = Irqs /\ Quiet(f.code))
  BY <1>5, <1>9, RoutineShape
<1>11. \A j \in 1 .. Len(f.saved) : ~ f.saved[j]
  <2>1. Len(f.saved) = 0
    BY <1>9
  <2> QED
    BY <2>1
<1>12. FrameMasked(f, status, alt_priority_mask, alt_priority_mask)
  BY <1>3, <1>10, <1>11 DEF FrameMasked
<1>13. MasksOK(<<f>> \o stack, status, alt_priority_mask)
  BY <1>1, <1>2, <1>9, <1>12, MaskedPush DEF PrioInv
<1>14. stack' = <<f>> \o stack
  BY <1>6, <1>7
<1>15. /\ status' = status /\ alt_priority_mask' = alt_priority_mask /\ EnablesOK'
  BY EnablesStay DEF PrioInv, CallRoutine
<1> QED
  BY <1>13, <1>14, <1>15 DEF PrioInv

\* A call of the program keeps the masks: nothing is masked then.
LEMMA CallMasked ==
  ASSUME IrqInv, PrioInv, Call PROVE PrioInv'
<1>1. StackOK(stack, status) /\ alt_priority_mask \in Masks
  BY DEF IrqInv
<1>2. /\ Top = stack[1] /\ stack[1] \in Frame /\ stack \in Seq(Frame) /\ stack # <<>>
      /\ FrameAt(stack, 1, status)
  BY <1>1, FirstIsOK DEF Top
<1>3. stack[1].kind = "program" /\ stack[1].code = <<>>
  BY <1>2 DEF Call
<1>4. Len(stack) = 1
  BY <1>2, <1>3 DEF FrameAt, LastOK
<1>5. PICK code \in CallsMade : stack' = <<Recoded(stack[1], code)>>
  BY <1>2 DEF Call, Recoded
<1>6. Without(code, MaskOps)
  BY ProgramShape
<1>7. code \in Seq(Operation)
  BY <1>6 DEF Without
<1>8. PICK g : g = Recoded(stack[1], code)
  OBVIOUS
<1>9. g \in Frame
  BY <1>2, <1>7, <1>8, FrameCodes
<1>10. g.kind = stack[1].kind /\ g.code = code
  BY ZenonT(60), <1>2, <1>7, <1>8, FrameCodes
<1>11. Shaped(g) /\ ~ Open(g.code) /\ Quiet(g.code)
  BY <1>6, <1>9, <1>10, QuietCode
<1>12. ~ Open(stack[1].code)
  BY <1>3 DEF Open
<1>13. ASSUME FrameMasked(stack[1], status, alt_priority_mask, Irqs)
       PROVE  FrameMasked(g, status, alt_priority_mask, Irqs)
  <2>1. alt_priority_mask = Irqs
    BY <1>12, <1>13 DEF FrameMasked
  <2> QED
    BY <1>3, <1>10, <1>11, <2>1 DEF FrameMasked
<1>14. \A b \in Masks : /\ Len(stack) = 1 => b = Irqs
                        /\ FrameMasked(stack[1], status, alt_priority_mask, b)
                        => FrameMasked(g, status, alt_priority_mask, b)
  BY <1>4, <1>13
<1>15. MasksOK(<<g>> \o Tail(stack), status, alt_priority_mask)
  BY <1>1, <1>2, <1>4, <1>9, <1>14, MaskedReplace DEF PrioInv
<1>16. Tail(stack) \in Seq(Frame) /\ Len(Tail(stack)) = 0
  BY <1>2, <1>4, Behind
<1>17. stack' = <<g>> \o Tail(stack)
  BY <1>5, <1>8, <1>9, <1>16, OnlyOne
<1>18. /\ status' = status /\ alt_priority_mask' = alt_priority_mask /\ EnablesOK'
  BY EnablesStay DEF PrioInv, Call
<1> QED
  BY <1>15, <1>17, <1>18 DEF PrioInv

\* The code of a frame whose instruction is skipped, or run again.
LEMMA WorkAgain ==
  ASSUME NEW f \in Frame, f.code # <<>>, Head(f.code).op = "work", Shaped(f),
         NEW g \in {Skipped(f), Repaired(f)}
  PROVE  /\ g \in Frame /\ g.kind = f.kind /\ g.saved = f.saved
         /\ g.id = f.id /\ g.mask = f.mask
         /\ Shaped(g) /\ (Open(g.code) <=> Open(f.code))
         /\ (Steady(f.code) => Steady(g.code)) /\ (Quiet(f.code) => Quiet(g.code))
<1>1. PICK c : c = f.code
  OBVIOUS
<1>2. PICK o : o = [op |-> "repaired"]
  OBVIOUS
<1>3. o \in Operation /\ o.op = "repaired"
  BY <1>2 DEF Operation
<1>4. c \in Seq(Operation) /\ c # <<>>
  BY <1>1, FrameParts
<1>5. PICK t : t = Tail(c)
  OBVIOUS
<1>6. PICK n \in Nat : Len(c) = n + 1 /\ Len(t) = n
  BY <1>4, <1>5
<1>7. /\ t \in Seq(Operation) /\ c[1].op = "work"
      /\ \A i \in 1 .. n : t[i] = c[i + 1]
  BY <1>1, <1>4, <1>5, <1>6
<1>8. CASE g = Skipped(f)
  <2>1. g = Recoded(f, t)
    BY <1>1, <1>5, <1>8 DEF Skipped, Recoded
  <2>2. g \in Frame
    BY <1>7, <2>1, FrameCodes
  <2>3. g.kind = f.kind /\ g.code = t /\ g.saved = f.saved
    BY ZenonT(60), <1>7, <2>1, FrameCodes
  <2>4. g.id = f.id /\ g.mask = f.mask
    BY ZenonT(60), <1>7, <2>1, RecodedKeeps
  <2>5. Head(f.code).op \notin MaskOps
    BY DEF MaskOps
  <2> QED
    BY <1>1, <1>5, <2>2, <2>3, <2>4, <2>5, RestOfCode
<1>9. CASE g = Repaired(f)
  <2>1. PICK d : d = <<o>> \o t
    OBVIOUS
  <2>2. /\ d \in Seq(Operation) /\ Len(d) = n + 1 /\ d[1] = o
        /\ \A i \in 2 .. n + 1 : d[i] = t[i - 1]
    BY <1>3, <1>6, <1>7, <2>1, InFront
  <2>3. ASSUME NEW i \in 2 .. n + 1 PROVE d[i] = c[i]
    <3>1. i - 1 \in 1 .. n /\ (i - 1) + 1 = i
      OBVIOUS
    <3> QED
      BY <1>7, <2>2, <3>1
  <2>4. g = Recoded(f, d)
    BY <1>1, <1>2, <1>5, <1>9, <2>1 DEF Repaired, Recoded
  <2>5. g \in Frame
    BY <2>2, <2>4, FrameCodes
  <2>6. g.kind = f.kind /\ g.code = d /\ g.saved = f.saved
    BY ZenonT(60), <2>2, <2>4, FrameCodes
  <2>7. g.id = f.id /\ g.mask = f.mask
    BY ZenonT(60), <2>2, <2>4, RecodedKeeps
  <2>8. ASSUME NEW i \in 1 .. n + 1
        PROVE  \/ d[i] = c[i]
               \/ i = 1 /\ d[i].op = "repaired" /\ c[i].op = "work"
    <3>1. CASE i = 1
      BY <1>3, <1>7, <2>2, <3>1
    <3>2. CASE i # 1
      <4>1. i \in 2 .. n + 1
        BY <3>2
      <4> QED
        BY <2>3, <4>1
    <3> QED
      BY <3>1, <3>2
  <2>9. ASSUME NEW i \in 1 .. n + 1
        PROVE  /\ d[i].op = "interruptible" <=> c[i].op = "interruptible"
               /\ d[i].op = "non_interruptible" <=> c[i].op = "non_interruptible"
               /\ d[i].op \in {"enable", "disable"} <=> c[i].op \in {"enable", "disable"}
               /\ d[i].op = "interruptible" => d[i] = c[i]
    BY <2>8
  <2>10. n + 1 \in 1 .. n + 1 /\ 1 \in 1 .. n + 1 /\ d # <<>>
    BY <2>2
  <2>11. ASSUME NEW i \in 1 .. n + 1
         PROVE  /\ d[i].op = "interruptible" =>
                     /\ i = 1 /\ f.kind = "routine" /\ d[i].id = f.id
                     /\ d[n + 1].op = "non_interruptible"
                /\ d[i].op = "non_interruptible" => i = n + 1 /\ f.kind = "routine"
    <3>1. /\ c[i].op = "interruptible" =>
               /\ i = 1 /\ f.kind = "routine" /\ c[i].id = f.id
               /\ c[n + 1].op = "non_interruptible"
          /\ c[i].op = "non_interruptible" => i = n + 1 /\ f.kind = "routine"
      BY <1>1, <1>6 DEF Shaped
    <3> QED
      BY <2>9, <2>10, <3>1
  <2>12. Shaped(g)
    BY <2>2, <2>6, <2>7, <2>11 DEF Shaped
  <2>13. Open(d) <=> Open(c)
    BY <1>4, <1>6, <2>2, <2>9, <2>10 DEF Open
  <2>14. Steady(c) => Steady(d)
    BY <1>6, <2>2, <2>9 DEF Steady
  <2>15. Quiet(c) => Quiet(d)
    BY <1>6, <2>2, <2>9 DEF Quiet, MaskOps
  <2> QED
    BY <1>1, <2>5, <2>6, <2>7, <2>12, <2>13, <2>14, <2>15
<1> QED
  BY <1>8, <1>9

\* Handling an exception keeps the masks.
LEMMA HandleMasked ==
  ASSUME IrqInv, PrioInv, HandleException PROVE PrioInv'
<1>1. StackOK(stack, status) /\ alt_priority_mask \in Masks
  BY DEF IrqInv
<1>2. /\ Top = stack[1] /\ stack[1] \in Frame /\ stack \in Seq(Frame) /\ stack # <<>>
      /\ stack[1].kind = "exception" /\ stack[1].kind \in Entering /\ FrameAt(stack, 1, status)
      /\ Len(stack) \in Nat \ {0}
  BY <1>1, FirstIsOK DEF Top, HandleException, Entering
<1>3. Len(stack) > 1
  <2>1. stack[1].kind # "program"
    BY <1>2
  <2> QED
    BY <1>1, <2>1, NotTheLast
<1>4. PICK s : s = Head(stack[1].saved)
  OBVIOUS
<1>5. PICK t : t = Tail(stack)
  OBVIOUS
<1>6. /\ StackOK(t, s) /\ t[1] = stack[2]
      /\ stack[2].code # <<>> /\ Head(stack[2].code).op = "work"
  BY <1>1, <1>2, <1>4, <1>5, BelowEntering
<1>7. t \in Seq(Frame) /\ t # <<>> /\ t[1] \in Frame
  BY <1>6, FirstIsOK
<1>8. ~ Open(stack[1].code)
  <2>1. PICK b \in Masks : FrameMasked(stack[1], status, alt_priority_mask, b)
    BY <1>2, TopMask DEF PrioInv
  <2>2. Shaped(stack[1]) /\ stack[1].kind # "routine"
    BY <1>2, <2>1 DEF FrameMasked
  <2> QED
    BY <1>2, <2>2, ClosedEntering
<1>9. MasksOK(t, s, alt_priority_mask)
  BY <1>2, <1>3, <1>4, <1>5, <1>8, MaskedPop DEF PrioInv
<1>10. PICK result \in alt_instruction_exception_handler :
         stack' = <<IF result = "SKIP_INST" THEN Skipped(stack[2]) ELSE Repaired(stack[2])>>
                  \o Tail(Tail(stack))
  BY DEF HandleException
<1>11. PICK g : g = (IF result = "SKIP_INST" THEN Skipped(stack[2]) ELSE Repaired(stack[2]))
  OBVIOUS
<1>12. g \in {Skipped(t[1]), Repaired(t[1])}
  BY <1>6, <1>11
<1>13. g \in Frame /\ g.saved = t[1].saved
  <2>1. PICK b \in Masks : FrameMasked(t[1], s, alt_priority_mask, b)
    BY <1>7, <1>9, TopMask
  <2>2. Shaped(t[1])
    BY <2>1 DEF FrameMasked
  <2> QED
    BY <1>6, <1>7, <1>12, <2>2, WorkAgain
<1>14. ASSUME NEW b \in Masks, FrameMasked(t[1], s, alt_priority_mask, b)
       PROVE  FrameMasked(g, s, alt_priority_mask, b)
  <2>1. Shaped(t[1])
    BY <1>14 DEF FrameMasked
  <2>2. /\ g.kind = t[1].kind /\ g.saved = t[1].saved
        /\ g.id = t[1].id /\ g.mask = t[1].mask
    BY <1>6, <1>7, <1>12, <2>1, WorkAgain
  <2>3. /\ Shaped(g) /\ (Open(g.code) <=> Open(t[1].code))
        /\ (Steady(t[1].code) => Steady(g.code)) /\ (Quiet(t[1].code) => Quiet(g.code))
    BY <1>6, <1>7, <1>12, <2>1, WorkAgain
  <2>4. /\ Open(g.code) => alt_priority_mask = Higher(g.id) /\ g.mask = b
        /\ ~ Open(g.code) => alt_priority_mask = b
    BY <1>14, <2>2, <2>3 DEF FrameMasked
  <2>5. g.kind = "routine" /\ ~ Open(g.code) => ~ s /\ \A j \in 1 .. Len(g.saved) : ~ g.saved[j]
    BY <1>14, <2>2, <2>3 DEF FrameMasked
  <2>6. NestedCalls \/ Steady(g.code) \/ (alt_priority_mask = Irqs /\ Quiet(g.code))
    BY <1>14, <2>3 DEF FrameMasked
  <2> QED
    BY <2>3, <2>4, <2>5, <2>6 DEF FrameMasked
<1>15. \A b \in Masks : /\ Len(t) = 1 => b = Irqs
                        /\ FrameMasked(t[1], s, alt_priority_mask, b)
                        => FrameMasked(g, s, alt_priority_mask, b)
  BY <1>14
<1>16. Len(t) > 1 => t[2].kind # "routine" \/ Head(g.saved) = Head(t[1].saved)
  BY <1>13
<1>17. MasksOK(<<g>> \o Tail(t), s, alt_priority_mask)
  BY <1>1, <1>7, <1>9, <1>13, <1>15, <1>16, MaskedReplace
<1>18. stack' = <<g>> \o Tail(t)
  BY <1>5, <1>10, <1>11
<1>19. status' = s /\ alt_priority_mask' = alt_priority_mask /\ EnablesOK'
  BY <1>2, <1>4, EnablesStay DEF PrioInv, HandleException
<1> QED
  BY <1>17, <1>18, <1>19 DEF PrioInv

\* The masks are right at the start.
LEMMA InitMasked == IrqInit => PrioInv
<1> SUFFICES ASSUME IrqInit PROVE PrioInv
  OBVIOUS
<1>1. ProgramFrame \in Frame /\ ProgramFrame.kind = "program" /\ ProgramFrame.code = <<>>
  BY DEF ProgramFrame, Frame, Masks
<1>2. FrameMasked(ProgramFrame, TRUE, Irqs, Irqs)
  BY <1>1, EnteredMasks
<1>3. PICK u : u = <<ProgramFrame>>
  OBVIOUS
<1>4. u \in Seq(Frame) /\ Len(u) = 1 /\ u[1] = ProgramFrame
  BY <1>1, <1>3
<1>5. PICK w : w = [i \in 1 .. 2 |-> Irqs]
  OBVIOUS
<1>6. w \in [1 .. 2 -> Masks] /\ w[1] = Irqs /\ w[2] = Irqs
  BY <1>5 DEF Masks
<1>7. MasksAre(u, TRUE, w)
  <2>1. ASSUME NEW k \in 1 .. 1
        PROVE  FrameMasked(u[k], StatusOf(u, k, TRUE), w[k], w[k + 1])
    <3>1. k = 1 /\ k + 1 = 2
      OBVIOUS
    <3> QED
      BY <1>2, <1>4, <1>6, <3>1 DEF StatusOf
  <2>2. Len(u) + 1 = 2
    BY <1>4
  <2> QED
    BY <1>4, <1>6, <2>1, <2>2 DEF MasksAre
<1>8. MasksOK(u, TRUE, Irqs)
  BY <1>6, <1>7 DEF MasksOK
<1>9. stack = u /\ status = TRUE /\ alt_priority_mask = Irqs
  BY <1>3 DEF IrqInit
<1>10. EnablesOK
  BY DEF IrqInit, EnablesOK
<1> QED
  BY <1>8, <1>9, <1>10 DEF PrioInv

\* Every step keeps the masks.
LEMMA StepMasked ==
  ASSUME IrqInv, PrioInv, [IrqNext]_irqVars PROVE PrioInv'
<1>1. CASE Accesses
  BY <1>1, DisableAllMasked, EnableAllMasked, WorkMasked, EnableMasked,
     InterruptibleMasked, NonInterruptibleMasked DEF Accesses
<1>2. CASE Fault
  <2>1. /\ "exception" \in Entering /\ Push(Entered("exception")) /\ status' = FALSE
        /\ UNCHANGED <<ienable, alt_irq_active, alt_priority_mask>>
    BY <1>2 DEF Fault, Entering
  <2> QED
    BY <2>1, EnterMasked
<1>3. CASE TakeInterrupt
  <2>1. /\ "dispatch" \in Entering /\ Push(Entered("dispatch")) /\ status' = FALSE
        /\ UNCHANGED <<ienable, alt_irq_active, alt_priority_mask>>
    BY <1>3 DEF TakeInterrupt, Entering
  <2> QED
    BY <2>1, EnterMasked
<1>4. CASE CallRoutine \/ ReturnRoutine \/ ReturnInterrupt
           \/ MistakeForInterrupt \/ HandleException
  BY <1>4, CallRoutineMasked, LeaveMasked, MistakeMasked, HandleMasked
<1>5. CASE Call
  BY <1>5, CallMasked
<1>6. CASE Request \/ UNCHANGED irqVars
  <2>1. UNCHANGED <<stack, status, ienable, alt_irq_active, alt_priority_mask>>
    BY <1>6 DEF Request, irqVars
  <2> QED
    BY <2>1 DEF PrioInv, EnablesOK
<1> QED
  BY <1>1, <1>2, <1>3, <1>4, <1>5, <1>6 DEF IrqNext, Dispatch

\* Every mask is that of the routines that let others interrupt them.
LEMMA AlwaysMasked == IrqSpec => [](IrqInv /\ PrioInv)
<1>1. IrqInit => IrqInv /\ PrioInv
  BY InitOK, InitMasked
<1>2. IrqInv /\ PrioInv /\ [IrqNext]_irqVars => (IrqInv /\ PrioInv)'
  BY StepOK, StepMasked
<1> QED
  BY <1>1, <1>2, PTL DEF IrqSpec

\* When only the program is left its frame masks nothing.
LEMMA MaskedRestored == IrqInv /\ PrioInv => PriorityRestored
<1> SUFFICES ASSUME IrqInv, PrioInv, Len(stack) = 1
             PROVE  alt_priority_mask = Irqs /\ ienable = alt_irq_active
  BY DEF PriorityRestored
<1>1. StackOK(stack, status)
  BY DEF IrqInv
<1>2. stack \in Seq(Frame) /\ stack # <<>> /\ stack[1] \in Frame /\ FrameAt(stack, 1, status)
  BY <1>1, FirstIsOK
<1>3. stack[1].kind # "routine"
  BY <1>2 DEF FrameAt, LastOK
<1>4. PICK b \in Masks : FrameMasked(stack[1], status, alt_priority_mask, b) /\ b = Irqs
  BY <1>2, TopMask DEF PrioInv
<1>5. ~ Open(stack[1].code)
  BY <1>2, <1>3, <1>4, ClosedEntering DEF FrameMasked
<1>6. alt_priority_mask = Irqs
  BY <1>4, <1>5 DEF FrameMasked
<1> QED
  BY <1>6 DEF PrioInv, EnablesOK

\* Once the last routine has returned nothing is left of its priority, however
\* routines that let others interrupt them were nested, and whatever they and the
\* program enabled, disabled and registered meanwhile.
THEOREM PriorityIsRestored == IrqSpec => []PriorityRestored
<1> QED
  BY AlwaysMasked, MaskedRestored, PTL

-----------------------------------------------------------------------------
(* Routines interrupt only routines of a lower priority. *)

HigherOK(st) ==
  \A j, k \in 1 .. Len(st) :
    /\ j < k /\ st[j].kind = "routine" /\ st[k].kind = "routine"
    => st[j].id < st[k].id

\* The frame on top gives way to one that is the same routine, or none.
LEMMA HigherTop ==
  ASSUME NEW st \in Seq(Frame), st # <<>>, HigherOK(st), NEW f \in Frame,
         f.kind = "routine" => st[1].kind = "routine" /\ f.id = st[1].id
  PROVE  HigherOK(<<f>> \o Tail(st))
<1>1. PICK n \in Nat : n = Len(st) /\ n > 0
  OBVIOUS
<1>2. PICK u : u = <<f>> \o Tail(st)
  OBVIOUS
<1>3. u \in Seq(Frame) /\ Len(u) = n /\ u[1] = f /\ \A i \in 2 .. n : u[i] = st[i]
  BY <1>1, <1>2, OtherTop
<1>4. ASSUME NEW i \in 1 .. n, u[i].kind = "routine"
      PROVE  st[i].kind = "routine" /\ u[i].id = st[i].id
  <2>1. CASE i = 1
    BY <1>3, <1>4, <2>1
  <2>2. CASE i # 1
    BY <1>3, <1>4, <2>2
  <2> QED
    BY <2>1, <2>2
<1>5. HigherOK(u)
  BY <1>1, <1>3, <1>4 DEF HigherOK
<1> QED
  BY <1>2, <1>5

\* A frame is put on top: if it is a routine, one of a higher priority than all.
LEMMA HigherPush ==
  ASSUME NEW st \in Seq(Frame), HigherOK(st), NEW f \in Frame,
         f.kind = "routine" =>
           \A k \in 1 .. Len(st) : st[k].kind = "routine" => f.id < st[k].id
  PROVE  HigherOK(<<f>> \o st)
<1>1. PICK n \in Nat : n = Len(st)
  OBVIOUS
<1>2. PICK u : u = <<f>> \o st
  OBVIOUS
<1>3. u \in Seq(Frame) /\ Len(u) = n + 1 /\ u[1] = f /\ \A i \in 2 .. n + 1 : u[i] = st[i - 1]
  BY <1>1, <1>2, InFront
<1>4. ASSUME NEW j \in 1 .. n + 1, NEW k \in 1 .. n + 1, j < k,
             u[j].kind = "routine", u[k].kind = "routine"
      PROVE  u[j].id < u[k].id
  <2>1. PICK l \in 1 .. n : l = k - 1 /\ k \in 2 .. n + 1
    BY <1>4
  <2>2. u[k] = st[l]
    BY <1>3, <2>1
  <2>3. CASE j = 1
    BY <1>1, <1>3, <1>4, <2>2, <2>3
  <2>4. CASE j # 1
    <3>1. PICK i \in 1 .. n : i = j - 1 /\ j \in 2 .. n + 1 /\ i < l
      BY <1>4, <2>1, <2>4
    <3>2. u[j] = st[i]
      BY <1>3, <3>1
    <3> QED
      BY <1>1, <1>4, <2>2, <3>1, <3>2 DEF HigherOK
  <2> QED
    BY <2>3, <2>4
<1>5. HigherOK(u)
  BY <1>3, <1>4 DEF HigherOK
<1> QED
  BY <1>2, <1>5

\* A frame is taken off.
LEMMA HigherPop ==
  ASSUME NEW st \in Seq(Frame), st # <<>>, HigherOK(st) PROVE HigherOK(Tail(st))
<1>1. PICK n \in Nat : n = Len(st) - 1 /\ Len(st) = n + 1
  OBVIOUS
<1>2. PICK u : u = Tail(st)
  OBVIOUS
<1>3. u \in Seq(Frame) /\ Len(u) = n /\ \A i \in 1 .. n : u[i] = st[i + 1]
  BY <1>1, <1>2, Behind
<1>4. ASSUME NEW j \in 1 .. n, NEW k \in 1 .. n, j < k,
             u[j].kind = "routine", u[k].kind = "routine"
      PROVE  u[j].id < u[k].id
  <2>1. j + 1 \in 1 .. n + 1 /\ k + 1 \in 1 .. n + 1 /\ j + 1 < k + 1
    BY <1>4
  <2>2. u[j] = st[j + 1] /\ u[k] = st[k + 1]
    BY <1>3
  <2> QED
    BY <1>1, <1>4, <2>1, <2>2 DEF HigherOK
<1>5. HigherOK(u)
  BY <1>3, <1>4 DEF HigherOK
<1> QED
  BY <1>2, <1>5

\* An access leaves the running frame the frame it is, with one access less to make.
LEMMA AccessSame ==
  ASSUME IrqInv, Accesses
  PROVE  \E g \in Frame : /\ stack' = <<g>> \o Tail(stack)
                          /\ g.kind = stack[1].kind /\ g.id = stack[1].id
                          /\ g.code = Tail(stack[1].code)
<1>1. PICK op : Accessing(op)
  BY DEF Accesses, DisableAll, EnableAll, Work, Enable, Disable, StoreRoutine, Acknowledge,
     alt_irq_interruptible, alt_irq_non_interruptible, Accessing
<1>2. /\ StackOK(stack, status) /\ status \in BOOLEAN
      /\ Top = stack[1] /\ stack[1] \in Frame
      /\ Tail(stack[1].code) \in Seq(Operation)
  BY <1>1, AccessFacts
<1>3. stack[1].saved \in Seq(BOOLEAN) /\ alt_priority_mask \in Masks
  BY <1>2, FrameParts DEF IrqInv
<1>4. ASSUME NEW v \in Seq(BOOLEAN), Proceed(v)
      PROVE  \E g \in Frame : /\ stack' = <<g>> \o Tail(stack)
                              /\ g.kind = stack[1].kind /\ g.id = stack[1].id
                              /\ g.code = Tail(stack[1].code)
  <2>1. PICK g : g = Moved(stack[1], Tail(stack[1].code), v)
    OBVIOUS
  <2>2. g \in Frame
    BY <1>2, <2>1, FrameSaves
  <2>3. g.kind = stack[1].kind /\ g.code = Tail(stack[1].code)
    BY ZenonT(60), <1>2, <2>1, FrameSaves
  <2>4. g.id = stack[1].id
    BY ZenonT(60), <1>2, <2>1, MovedKeeps
  <2>5. stack' = <<g>> \o Tail(stack)
    BY <1>2, <1>4, <2>1 DEF Proceed, Moved
  <2> QED
    BY <2>2, <2>3, <2>4, <2>5
<1>5. CASE DisableAll
  <2>1. <<status>> \o stack[1].saved \in Seq(BOOLEAN) /\ Proceed(<<status>> \o stack[1].saved)
    BY <1>2, <1>3, <1>5, InFront DEF DisableAll
  <2> QED
    BY <1>4, <2>1
<1>6. CASE EnableAll
  <2>1. stack[1].saved # <<>>
    BY <1>6, SavedSome DEF EnableAll
  <2>2. Tail(stack[1].saved) \in Seq(BOOLEAN) /\ Proceed(Tail(stack[1].saved))
    BY <1>2, <1>3, <1>6, <2>1, Behind DEF EnableAll
  <2> QED
    BY <1>4, <2>2
<1>7. CASE alt_irq_interruptible
  <2>1. PICK g : g = Masked(stack[1], Tail(stack[1].code), alt_priority_mask)
    OBVIOUS
  <2>2. g \in Frame
    BY <1>2, <1>3, <2>1, FrameMasks
  <2>3. g.kind = stack[1].kind /\ g.code = Tail(stack[1].code)
    BY ZenonT(60), <1>2, <1>3, <2>1, FrameMasks
  <2>4. g.id = stack[1].id
    BY ZenonT(60), <1>2, <1>3, <2>1, MaskedKeeps
  <2>5. stack' = <<g>> \o Tail(stack)
    BY <1>2, <1>7, <2>1 DEF alt_irq_interruptible, Masked
  <2> QED
    BY <2>2, <2>3, <2>4, <2>5
<1>8. CASE Work \/ Enable \/ Disable \/ StoreRoutine \/ Acknowledge \/ alt_irq_non_interruptible
  <2>1. Proceed(stack[1].saved)
    BY <1>2, <1>8 DEF Work, Enable, Disable, StoreRoutine, Acknowledge, alt_irq_non_interruptible
  <2> QED
    BY <1>3, <1>4, <2>1
<1> QED
  BY <1>5, <1>6, <1>7, <1>8 DEF Accesses

\* The interrupt the dispatch loop calls has a higher priority than every routine
\* below: it is let through the mask of the one that is interrupted.
LEMMA CalledIsHigher ==
  ASSUME IrqInv, PrioInv, ~ NestedCalls, HigherOK(stack), Top.kind = "dispatch",
         NEW i \in alt_irq_pending, NEW k \in 1 .. Len(stack), stack[k].kind = "routine"
  PROVE  i < stack[k].id
<1>1. StackOK(stack, status) /\ alt_priority_mask \in Masks
  BY DEF IrqInv
<1>2. /\ Top = stack[1] /\ stack \in Seq(Frame) /\ stack # <<>> /\ stack[1] \in Frame
      /\ FrameAt(stack, 1, status)
  BY <1>1, FirstIsOK DEF Top
<1>3. PICK n \in Nat : n = Len(stack)
  BY <1>2
<1>4. stack[1].kind = "dispatch" /\ stack[1].kind \in Entering
  BY <1>2 DEF Entering
<1>5. n > 1 /\ stack[1].saved = <<TRUE>>
  BY <1>2, <1>3, <1>4 DEF FrameAt, EntersOK, SavedOK
<1>6. PICK w : MasksAre(stack, status, w) /\ w[1] = alt_priority_mask
  BY DEF PrioInv, MasksOK
<1>7. /\ w \in [1 .. n + 1 -> Masks]
      /\ \A j \in 1 .. n : FrameMasked(stack[j], StatusOf(stack, j, status), w[j], w[j + 1])
  BY <1>3, <1>6 DEF MasksAre
<1>8. 1 \in 1 .. n /\ 2 \in 1 .. n /\ 1 + 1 = 2 /\ 2 - 1 = 1
  BY <1>5
<1>9. FrameMasked(stack[1], StatusOf(stack, 1, status), w[1], w[2])
  BY <1>7, <1>8
<1>10. ~ Open(stack[1].code)
  BY <1>2, <1>4, <1>9, ClosedEntering DEF FrameMasked
<1>11. w[2] = alt_priority_mask
  BY <1>6, <1>9, <1>10 DEF FrameMasked
<1>12. i \in alt_priority_mask
  BY DEF alt_irq_pending, PrioInv, EnablesOK
<1>13. FrameMasked(stack[2], StatusOf(stack, 2, status), w[2], w[2 + 1])
  BY <1>7, <1>8
<1>14. StatusOf(stack, 2, status)
  <2>1. Head(<<TRUE>>) = TRUE
    BY HeadOfOne
  <2>2. Head(stack[1].saved) = TRUE
    BY <1>5, <2>1
  <2>3. StatusOf(stack, 2, status) = Head(stack[1].saved)
    BY <1>8 DEF StatusOf
  <2> QED
    BY <2>2, <2>3
<1>15. k # 1
  BY <1>4
<1>16. stack[2].kind = "routine"
  <2>1. CASE k = 2
    BY <2>1
  <2>2. CASE k # 2
    <3>1. 2 # n
      BY <1>3, <1>15, <2>2
    <3>2. FrameAt(stack, 2, status)
      BY <1>1, <1>3, <1>8 DEF StackOK
    <3>3. stack[2].kind # "program"
      BY <1>3, <3>1, <3>2 DEF FrameAt, LastOK
    <3>4. stack[2].kind \in Running
      BY <1>1, <1>4, BelowEntering
    <3> QED
      BY <3>3, <3>4 DEF Running
  <2> QED
    BY <2>1, <2>2
<1>17. w[2] = Higher(stack[2].id)
  BY <1>13, <1>14, <1>16 DEF FrameMasked
<1>18. i \in Irqs /\ i < stack[2].id
  BY <1>11, <1>12, <1>17 DEF Higher
<1>19. CASE k = 2
  BY <1>18, <1>19
<1>20. CASE k # 2
  <2>1. 2 < k
    BY <1>3, <1>15, <1>20
  <2>2. stack[2].id < stack[k].id
    BY <1>3, <1>8, <1>16, <2>1 DEF HigherOK
  <2>3. stack[2] \in Frame /\ stack[k] \in Frame
    BY <1>2, <1>3, <1>8
  <2>4. stack[2].id \in Int /\ stack[k].id \in Int /\ i \in Int
    <3>1. \A x \in Irqs \cup {NotConnected} : x \in Int
      <4>1. NotConnected \in Int
        BY DEF NotConnected
      <4>2. \A x \in Irqs : x \in Int
        BY IrqAssumption
      <4> QED
        BY <4>1, <4>2
    <3>2. \A f \in Frame : f.id \in Irqs \cup {NotConnected}
      BY FrameParts
    <3> QED
      BY <1>18, <2>3, <3>1, <3>2
  <2> QED
    BY <1>18, <2>2, <2>4
<1> QED
  BY <1>19, <1>20

\* The dispatch loop calls an interrupt that is pending.
LEMMA LowestIsIn ==
  ASSUME IrqInv, alt_irq_pending # {} PROVE Foremost(alt_irq_pending) \in alt_irq_pending
<1>1. alt_irq_pending \in SUBSET Nat
  BY IrqAssumption DEF IrqInv, Masks, alt_irq_pending
<1>2. \E i \in alt_irq_pending : \A j \in alt_irq_pending : i <= j
  BY <1>1, LeastElement
<1> QED
  BY <1>2 DEF Foremost

\* The instruction being skipped, or run again, only the code of the frame changes.
LEMMA WorkCode ==
  ASSUME NEW f \in Frame, f.code # <<>>, NEW g \in {Skipped(f), Repaired(f)}
  PROVE  \E c \in Seq(Operation) : g = Recoded(f, c)
<1>1. PICK t : t = Tail(f.code)
  OBVIOUS
<1>2. t \in Seq(Operation)
  BY <1>1, FrameParts, Behind
<1>3. PICK o : o = [op |-> "repaired"]
  OBVIOUS
<1>4. o \in Operation
  BY <1>3 DEF Operation
<1>5. <<o>> \o t \in Seq(Operation)
  BY <1>2, <1>4, InFront
<1>6. g = Recoded(f, t) \/ g = Recoded(f, <<o>> \o t)
  BY <1>1, <1>3 DEF Skipped, Repaired, Recoded
<1> QED
  BY <1>2, <1>5, <1>6

\* Every step keeps the order of the priorities.
LEMMA StepHigher ==
  ASSUME IrqInv, PrioInv, ~ NestedCalls, HigherOK(stack), [IrqNext]_irqVars
  PROVE  HigherOK(stack')
<1>1. StackOK(stack, status)
  BY DEF IrqInv
<1>2. /\ Top = stack[1] /\ stack \in Seq(Frame) /\ stack # <<>> /\ stack[1] \in Frame
      /\ status \in BOOLEAN
  BY <1>1, FirstIsOK DEF Top
<1>3. CASE Accesses
  <2>1. PICK g \in Frame : /\ stack' = <<g>> \o Tail(stack)
                           /\ g.kind = stack[1].kind /\ g.id = stack[1].id
    BY <1>3, AccessSame
  <2>2. HigherOK(<<g>> \o Tail(stack))
    BY <1>2, <2>1, HigherTop
  <2> QED
    BY <2>1, <2>2
<1>4. CASE Fault \/ TakeInterrupt
  <2>1. PICK kind \in Entering : stack' = <<Entered(kind)>> \o stack
    BY <1>4 DEF Fault, TakeInterrupt, Push, Entering
  <2>2. Entered(kind) \in Frame /\ Entered(kind).kind = kind
    BY <1>2, EnteredFrame
  <2>3. Entered(kind).kind # "routine"
    BY <2>2 DEF Entering
  <2>4. HigherOK(<<Entered(kind)>> \o stack)
    BY <1>2, <2>2, <2>3, HigherPush
  <2> QED
    BY <2>1, <2>4
<1>5. CASE CallRoutine
  <2>1. PICK i : i = Foremost(alt_irq_pending)
    OBVIOUS
  <2>2. i \in Irqs
    BY <1>5, <2>1, LowestIsPending DEF CallRoutine
  <2>3. i \in alt_irq_pending
    BY <1>5, <2>1, LowestIsIn DEF CallRoutine
  <2>4. PICK body \in Bodies(i) :
          stack' = <<[kind |-> "routine", code |-> body, saved |-> <<>>, mask |-> {}, id |-> i]>>
                   \o stack
    BY <1>5, <2>1 DEF CallRoutine, Push
  <2>5. PICK f : f = [kind |-> "routine", code |-> body, saved |-> <<>>, mask |-> {}, id |-> i]
    OBVIOUS
  <2>6. body \in Seq(Operation)
    BY <2>2, RoutinesLead DEF Leads
  <2>7. f \in Frame /\ f.kind = "routine" /\ f.id = i
    BY <2>2, <2>5, <2>6 DEF Frame, Masks
  <2>8. Top.kind = "dispatch"
    BY <1>5 DEF CallRoutine
  <2>9. \A k \in 1 .. Len(stack) : stack[k].kind = "routine" => f.id < stack[k].id
    BY <2>3, <2>7, <2>8, CalledIsHigher
  <2>10. HigherOK(<<f>> \o stack)
    BY <1>2, <2>7, <2>9, HigherPush
  <2> QED
    BY <2>4, <2>5, <2>10
<1>6. CASE ReturnRoutine \/ ReturnInterrupt
  <2>1. stack' = Tail(stack)
    BY <1>6 DEF ReturnRoutine, ReturnInterrupt, Pop
  <2> QED
    BY <1>2, <2>1, HigherPop
<1>7. CASE MistakeForInterrupt
  <2>1. PICK g : g = [stack[1] EXCEPT !.kind = "dispatch"]
    OBVIOUS
  <2>2. g \in Frame /\ g.kind # "routine"
    BY <1>2, <2>1 DEF Frame
  <2>3. HigherOK(<<g>> \o Tail(stack))
    BY <1>2, <2>2, HigherTop
  <2> QED
    BY <1>2, <1>7, <2>1, <2>3 DEF MistakeForInterrupt
<1>8. CASE HandleException
  <2>1. stack[1].kind \in Entering /\ stack[1].kind = "exception"
    BY <1>2, <1>8 DEF HandleException, Entering
  <2>2. PICK t : t = Tail(stack)
    OBVIOUS
  <2>3. /\ StackOK(t, Head(stack[1].saved)) /\ t[1] = stack[2]
        /\ stack[2].code # <<>> /\ Head(stack[2].code).op = "work"
    BY <1>1, <2>1, <2>2, BelowEntering
  <2>4. t \in Seq(Frame) /\ t # <<>> /\ t[1] \in Frame
    BY <2>3, FirstIsOK
  <2>5. HigherOK(t)
    BY <1>2, <2>2, HigherPop
  <2>6. PICK g : /\ stack' = <<g>> \o Tail(t)
                 /\ g \in {Skipped(t[1]), Repaired(t[1])}
    BY <1>8, <2>2, <2>3 DEF HandleException
  <2>7. PICK c \in Seq(Operation) : g = Recoded(t[1], c)
    BY <2>3, <2>4, <2>6, WorkCode
  <2>8. g \in Frame
    BY <2>4, <2>7, FrameCodes
  <2>9. g.kind = t[1].kind
    BY ZenonT(60), <2>4, <2>7, FrameCodes
  <2>10. g.id = t[1].id
    BY ZenonT(60), <2>4, <2>7, RecodedKeeps
  <2>11. HigherOK(<<g>> \o Tail(t))
    BY <2>4, <2>5, <2>8, <2>9, <2>10, HigherTop
  <2> QED
    BY <2>6, <2>11
<1>9. CASE Call
  <2>1. stack[1].kind = "program"
    BY <1>2, <1>9 DEF Call
  <2>2. PICK g : stack' = <<g>>
    BY <1>9 DEF Call
  <2>3. Len(stack') = 1
    BY <2>2
  <2> QED
    BY <2>3 DEF HigherOK
<1>10. CASE Request \/ UNCHANGED irqVars
  BY <1>10 DEF Request, irqVars
<1> QED
  BY <1>3, <1>4, <1>5, <1>6, <1>7, <1>8, <1>9, <1>10 DEF IrqNext, Dispatch

\* A routine is interrupted only by routines of a higher priority, whatever the
\* routines that let others interrupt them are, if they leave alone what is
\* enabled while others may interrupt them.
THEOREM HigherPriorityInterrupts ==
  ASSUME ~ NestedCalls PROVE IrqSpec => []HigherInterrupts
<1>1. IrqInit => HigherOK(stack)
  BY DEF IrqInit, HigherOK
<1>2. IrqInv /\ PrioInv /\ HigherOK(stack) /\ [IrqNext]_irqVars => HigherOK(stack)'
  BY StepHigher
<1>3. IrqInv /\ PrioInv /\ HigherOK(stack) => HigherInterrupts
  BY DEF IrqInv, StackOK, HigherOK, HigherInterrupts
<1> QED
  BY <1>1, <1>2, <1>3, AlwaysMasked, PTL DEF IrqSpec

-----------------------------------------------------------------------------
(* What is called is registered. *)

\* The code stores no routine, and enables only what the table a has one for.
SafeAt(o, a) == o.op # "store" /\ (o.op = "enable" => a[o.id] # NULL)
Safe(c, a) == c \in Seq(Operation) /\ \A i \in 1 .. Len(c) : SafeAt(c[i], a)

\* alt_iic_isr_register before it stores the routine, and after.
Storing(id, r) == Tail(alt_iic_isr_register(id, r))
AfterStore(id, r) == Tail(Storing(id, r))

\* The program is going to store a routine; interrupts are disabled when it does.
Coming(c, s) ==
  \E id \in Irqs : \E r \in Routines \cup {NULL} :
    c = alt_iic_isr_register(id, r) \/ (c = Storing(id, r) /\ ~ s)

CodesOK(st, s, a) ==
  \A k \in 1 .. Len(st) :
    Safe(st[k].code, a) \/ (k = Len(st) /\ Coming(st[k].code, StatusOf(st, k, s)))

\* A routine was taken away, and its interrupt is about to be disabled.
Window ==
  \E id \in Irqs :
    /\ Len(stack) = 1 /\ ~ status
    /\ stack[1].code \in {AfterStore(id, NULL), Tail(AfterStore(id, NULL))}
    /\ \A i \in alt_irq_active \ {id} : alt_irq[i] # NULL

ActiveOK == \A i \in alt_irq_active : alt_irq[i] # NULL

RegInv ==
  /\ ienable \subseteq alt_irq_active
  /\ CodesOK(stack, status, alt_irq)
  /\ Window \/ ActiveOK

\* One piece of safe code after another.
LEMMA SafeOn ==
  ASSUME NEW a, NEW c, NEW d, Safe(c, a), Safe(d, a) PROVE Safe(c \o d, a)
<1>1. PICK e : e = c \o d
  OBVIOUS
<1>2. c \in Seq(Operation) /\ d \in Seq(Operation)
  BY DEF Safe
<1>3. PICK m \in Nat, n \in Nat : m = Len(c) /\ n = Len(d)
  BY <1>2
<1>4. /\ e \in Seq(Operation) /\ Len(e) = m + n
      /\ \A i \in 1 .. m : e[i] = c[i]
      /\ \A i \in m + 1 .. m + n : e[i] = d[i - m]
  BY <1>1, <1>2, <1>3
<1>5. ASSUME NEW i \in 1 .. m + n PROVE SafeAt(e[i], a)
  <2>1. CASE i \in 1 .. m
    BY <1>3, <1>4, <2>1 DEF Safe
  <2>2. CASE i \in m + 1 .. m + n
    <3>1. i - m \in 1 .. n
      BY <2>2
    <3>2. e[i] = d[i - m] /\ SafeAt(d[i - m], a)
      BY <1>3, <1>4, <2>2, <3>1 DEF Safe
    <3> QED
      BY <3>2
  <2> QED
    BY <2>1, <2>2
<1> QED
  BY <1>1, <1>4, <1>5 DEF Safe

\* Safe code is safe after its first access, which is safe.
LEMMA SafeRest ==
  ASSUME NEW a, NEW c, c # <<>>, Safe(c, a)
  PROVE  Safe(Tail(c), a) /\ SafeAt(Head(c), a)
<1>1. c \in Seq(Operation)
  BY DEF Safe
<1>2. PICK d : d = Tail(c)
  OBVIOUS
<1>3. PICK n \in Nat : n = Len(c) - 1 /\ Len(c) = n + 1
  BY <1>1
<1>4. /\ d \in Seq(Operation) /\ Len(d) = n /\ Head(c) = c[1]
      /\ \A i \in 1 .. n : d[i] = c[i + 1]
  BY <1>1, <1>2, <1>3, Behind
<1>5. \A i \in 1 .. n + 1 : SafeAt(c[i], a)
  BY <1>3 DEF Safe
<1>6. 1 \in 1 .. n + 1 /\ \A i \in 1 .. n : i + 1 \in 1 .. n + 1
  OBVIOUS
<1>7. SafeAt(c[1], a) /\ \A i \in 1 .. n : SafeAt(d[i], a)
  BY <1>4, <1>5, <1>6
<1> QED
  BY <1>2, <1>4, <1>7 DEF Safe

\* Code that neither stores nor enables is safe.
LEMMA SafeWithout ==
  ASSUME NEW a, NEW c, Without(c, {"enable", "store"}) PROVE Safe(c, a)
BY DEF Without, Safe, SafeAt

\* No code, and one access.
LEMMA SafeOne ==
  ASSUME NEW a, NEW o \in Operation, SafeAt(o, a) PROVE Safe(<<o>>, a) /\ Safe(<<>>, a)
<1>1. PICK c : c = <<o>>
  OBVIOUS
<1>2. c \in Seq(Operation) /\ Len(c) = 1 /\ c[1] = o
  BY <1>1
<1>3. PICK d : d = <<>>
  OBVIOUS
<1>4. d \in Seq(Operation) /\ Len(d) = 0
  BY <1>3
<1>5. Safe(c, a) /\ Safe(d, a)
  BY <1>2, <1>4 DEF Safe
<1> QED
  BY <1>1, <1>3, <1>5

\* Enabling an interrupt that has a routine is safe.
LEMMA SafeEnable ==
  ASSUME NEW a, NEW id \in Irqs, a[id] # NULL PROVE Safe(alt_irq_enable(id), a)
<1>1. PICK o : o = [op |-> "enable", id |-> id]
  OBVIOUS
<1>2. o \in Operation /\ o.op = "enable" /\ o.id = id
  BY <1>1 DEF Operation
<1>3. PICK c : c = <<disable_all, o, enable_all>>
  OBVIOUS
<1>4. /\ c \in Seq(Operation) /\ Len(c) = 3 /\ c[1] = disable_all /\ c[2] = o
      /\ c[3] = enable_all
  BY <1>2, <1>3, OperationFacts
<1>5. \A i \in 1 .. 3 : SafeAt(c[i], a)
  BY <1>2, <1>4, OperationFacts DEF SafeAt
<1> QED
  BY <1>1, <1>3, <1>4, <1>5 DEF Safe, alt_irq_enable

\* Disabling an interrupt, and the rest of the calls that register nothing, are safe.
LEMMA SafeCalls ==
  ASSUME NEW a
  PROVE  /\ Safe(Section, a) /\ Safe(<<[op |-> "work"]>>, a)
         /\ \A id \in Irqs : Safe(alt_irq_disable(id), a) /\ Safe(Clear(id), a)
<1>1. /\ Without(Section, {"enable", "store"})
      /\ Without(<<[op |-> "work"]>>, {"enable", "store"})
  BY WithoutCalls, WithoutLess
<1>2. ASSUME NEW id \in Irqs
      PROVE  /\ Without(alt_irq_disable(id), {"enable", "store"})
             /\ Without(Clear(id), {"enable", "store"})
  BY WithoutCalls, WithoutLess
<1> QED
  BY <1>1, <1>2, SafeWithout

\* Everything a routine may do is safe: it enables only what is registered.
LEMMA SafeRoutine ==
  ASSUME NEW id \in Irqs, NEW body \in Bodies(id) PROVE Safe(body, alt_irq)
<1>1. Safe(Clear(id), alt_irq) /\ Safe(Clear(id) \o Section, alt_irq)
  BY SafeCalls, SafeOn
<1>2. ASSUME NEW d \in Changes(id) PROVE Safe(Clear(id) \o d, alt_irq)
  <2>1. d = alt_irq_disable(id) \/ \E j \in Irqs : alt_irq[j] # NULL /\ d = alt_irq_enable(j)
    BY <1>2 DEF Changes, Registered
  <2>2. Safe(d, alt_irq)
    BY <2>1, SafeCalls, SafeEnable
  <2> QED
    BY <1>1, <2>2, SafeOn
<1>3. ASSUME NEW c, Safe(c, alt_irq) PROVE Safe(Interruptible(id, c), alt_irq)
  <2>1. PICK o : o = [op |-> "interruptible", id |-> id]
    OBVIOUS
  <2>2. PICK p : p = [op |-> "non_interruptible"]
    OBVIOUS
  <2>3. o \in Operation /\ p \in Operation /\ SafeAt(o, alt_irq) /\ SafeAt(p, alt_irq)
    BY <2>1, <2>2 DEF Operation, SafeAt
  <2>4. Safe(<<o>>, alt_irq) /\ Safe(<<p>>, alt_irq)
    BY <2>3, SafeOne
  <2>5. Safe(<<o>> \o c, alt_irq)
    BY <1>3, <2>4, SafeOn
  <2>6. Safe((<<o>> \o c) \o <<p>>, alt_irq)
    BY <2>4, <2>5, SafeOn
  <2> QED
    BY <2>1, <2>2, <2>6 DEF Interruptible
<1>4. CASE body \in {Clear(id), Clear(id) \o Section}
  BY <1>1, <1>4
<1>5. CASE body = Interruptible(id, Clear(id) \o Section)
  BY <1>1, <1>3, <1>5
<1>6. CASE \E d \in Changes(id) : body = Clear(id) \o d
  BY <1>2, <1>6
<1>7. CASE \E d \in Changes(id) : body = Interruptible(id, Clear(id) \o d)
  BY <1>2, <1>3, <1>7
<1> QED
  BY <1>4, <1>5, <1>6, <1>7 DEF Bodies

\* Everything the program may call is safe, or is going to store a routine.
LEMMA SafeProgram ==
  ASSUME NEW c \in CallsMade, NEW s PROVE Safe(c, alt_irq) \/ Coming(c, s)
<1>1. CASE c \in {Section, <<[op |-> "work"]>>} \cup {alt_irq_disable(i) : i \in Irqs}
  BY <1>1, SafeCalls
<1>2. CASE c \in {alt_irq_enable(i) : i \in Registered}
  BY <1>2, SafeEnable DEF Registered
<1>3. CASE \E i \in Irqs : \E r \in Routines \cup {NULL} : c = alt_iic_isr_register(i, r)
  BY <1>3 DEF Coming
<1> QED
  BY <1>1, <1>2, <1>3 DEF CallsMade

\* One element behind a sequence.
LEMMA OneBehind ==
  ASSUME NEW S, NEW c \in Seq(S), NEW z \in S, NEW n \in Nat, Len(c) = n
  PROVE  /\ c \o <<z>> \in Seq(S) /\ Len(c \o <<z>>) = n + 1
         /\ (c \o <<z>>)[n + 1] = z
         /\ \A i \in 1 .. n : (c \o <<z>>)[i] = c[i]
OBVIOUS

\* A sequence that has elements, its first one, and the others.
LEMMA Some ==
  ASSUME NEW S, NEW c \in Seq(S), NEW n \in Nat, Len(c) = n + 1
  PROVE  /\ c # <<>> /\ Head(c) = c[1]
         /\ Tail(c) \in Seq(S) /\ Len(Tail(c)) = n
         /\ \A i \in 1 .. n : Tail(c)[i] = c[i + 1]
OBVIOUS

\* The accesses of alt_iic_isr_register.
LEMMA RegisterFacts ==
  ASSUME NEW id \in Irqs, NEW r \in Routines \cup {NULL}
  PROVE  /\ alt_iic_isr_register(id, r) \in Seq(Operation)
         /\ alt_iic_isr_register(id, r) # <<>>
         /\ Head(alt_iic_isr_register(id, r)) = disable_all
         /\ Storing(id, r) \in Seq(Operation) /\ Storing(id, r) # <<>>
         /\ Head(Storing(id, r)) = [op |-> "store", id |-> id, routine |-> r]
         /\ AfterStore(id, r) \in Seq(Operation) /\ Len(AfterStore(id, r)) = 4
         /\ AfterStore(id, r)[1] = disable_all
         /\ AfterStore(id, r)[2] =
              (IF r # NULL THEN [op |-> "enable", id |-> id] ELSE [op |-> "disable", id |-> id])
         /\ AfterStore(id, r)[3] = enable_all /\ AfterStore(id, r)[4] = enable_all
<1>1. PICK o : o = [op |-> "store", id |-> id, routine |-> r]
  OBVIOUS
<1>2. PICK p : p = (IF r # NULL THEN [op |-> "enable", id |-> id] ELSE [op |-> "disable", id |-> id])
  OBVIOUS
<1>3. o \in Operation
  BY <1>1 DEF Operation
<1>4. p \in Operation
  BY <1>2 DEF Operation
<1>5. PICK x : x = <<disable_all, p, enable_all>>
  OBVIOUS
<1>6. /\ x \in Seq(Operation) /\ Len(x) = 3 /\ x[1] = disable_all /\ x[2] = p
      /\ x[3] = enable_all
  BY <1>4, <1>5, OperationFacts
<1>7. x = IF r # NULL THEN alt_irq_enable(id) ELSE alt_irq_disable(id)
  BY <1>2, <1>5 DEF alt_irq_enable, alt_irq_disable
<1>8. PICK y : y = <<disable_all, o>> \o x
  OBVIOUS
<1>9. /\ y \in Seq(Operation) /\ Len(y) = 5 /\ y[1] = disable_all /\ y[2] = o
      /\ y[3] = x[1] /\ y[4] = x[2] /\ y[5] = x[3]
  <2>1. x \in Seq(Operation) /\ Len(x) = 3 /\ 3 \in Nat
    BY <1>6
  <2>2. /\ y \in Seq(Operation) /\ Len(y) = 3 + 2 /\ y[1] = disable_all /\ y[2] = o
        /\ \A i \in 1 .. 3 : y[i + 2] = x[i]
    <3>1. PICK n \in Nat : n = 3 /\ Len(x) = n
      BY <2>1
    <3>2. PICK a \in Operation : a = disable_all
      BY OperationFacts
    <3>3. x \in Seq(Operation) /\ y = <<a, o>> \o x
      BY <1>8, <2>1, <3>2
    <3>4. /\ y \in Seq(Operation) /\ Len(y) = n + 2 /\ y[1] = a /\ y[2] = o
          /\ \A i \in 3 .. n + 2 : y[i] = x[i - 2]
      <4>1. n = Len(x)
        BY <3>1
      <4>2. x \in Seq(Operation) /\ o \in Operation
        BY <1>3, <3>3
      <4> QED
        BY <3>3, <4>1, <4>2
    <3>5. \A i \in 1 .. n : y[i + 2] = x[i]
      <4>1. \A i \in 1 .. n : i + 2 \in 3 .. n + 2 /\ (i + 2) - 2 = i
        OBVIOUS
      <4> QED
        BY <3>4, <4>1
    <3> QED
      BY <3>1, <3>2, <3>4, <3>5
  <2>3. y[1 + 2] = x[1] /\ y[2 + 2] = x[2] /\ y[3 + 2] = x[3]
    BY <2>2
  <2> QED
    BY <2>2, <2>3
<1>10. PICK z : z = y \o <<enable_all>>
  OBVIOUS
<1>11. /\ z \in Seq(Operation) /\ Len(z) = 6
       /\ z[1] = disable_all /\ z[2] = o /\ z[3] = disable_all /\ z[4] = p
       /\ z[5] = enable_all /\ z[6] = enable_all
  <2>1. y \in Seq(Operation) /\ Len(y) = 5 /\ 5 \in Nat
    BY <1>9
  <2>2. /\ z \in Seq(Operation) /\ Len(z) = 5 + 1 /\ z[5 + 1] = enable_all
        /\ \A i \in 1 .. 5 : z[i] = y[i]
    <3>1. y \in Seq(Operation) /\ enable_all \in Operation
      BY <2>1, OperationFacts
    <3>2. ASSUME NEW n \in Nat, Len(y) = n
          PROVE  /\ z \in Seq(Operation) /\ Len(z) = n + 1 /\ z[n + 1] = enable_all
                 /\ \A i \in 1 .. n : z[i] = y[i]
      BY <1>10, <3>1, <3>2, OneBehind
    <3> QED
      BY <2>1, <3>2
  <2>3. z[1] = y[1] /\ z[2] = y[2] /\ z[3] = y[3] /\ z[4] = y[4] /\ z[5] = y[5]
    BY <2>2
  <2> QED
    BY <1>6, <1>9, <2>2, <2>3
<1>12. z = alt_iic_isr_register(id, r)
  BY <1>1, <1>7, <1>8, <1>10 DEF alt_iic_isr_register
<1>13. PICK t : t = Tail(z)
  OBVIOUS
<1>14. /\ t \in Seq(Operation) /\ Len(t) = 5
       /\ t[1] = o /\ t[2] = disable_all /\ t[3] = p /\ t[4] = enable_all /\ t[5] = enable_all
  <2>1. /\ t \in Seq(Operation) /\ Len(t) = 5 /\ \A i \in 1 .. 5 : t[i] = z[i + 1]
    <3>1. z \in Seq(Operation) /\ Len(z) = 5 + 1 /\ 5 \in Nat
      BY <1>11
    <3> QED
      BY Zenon, <1>13, <3>1, Some
  <2>2. /\ t[1] = z[1 + 1] /\ t[2] = z[2 + 1] /\ t[3] = z[3 + 1]
        /\ t[4] = z[4 + 1] /\ t[5] = z[5 + 1]
    BY <2>1
  <2> QED
    BY <1>11, <2>1, <2>2
<1>15. PICK u : u = Tail(t)
  OBVIOUS
<1>16. /\ u \in Seq(Operation) /\ Len(u) = 4
       /\ u[1] = disable_all /\ u[2] = p /\ u[3] = enable_all /\ u[4] = enable_all
  <2>1. /\ u \in Seq(Operation) /\ Len(u) = 4 /\ \A i \in 1 .. 4 : u[i] = t[i + 1]
    <3>1. t \in Seq(Operation) /\ Len(t) = 4 + 1 /\ 4 \in Nat
      BY <1>14
    <3> QED
      BY Zenon, <1>15, <3>1, Some
  <2>2. u[1] = t[1 + 1] /\ u[2] = t[2 + 1] /\ u[3] = t[3 + 1] /\ u[4] = t[4 + 1]
    BY <2>1
  <2> QED
    BY <1>14, <2>1, <2>2
<1>17. z # <<>> /\ Head(z) = disable_all /\ t # <<>> /\ Head(t) = o
  <2>1. z \in Seq(Operation) /\ Len(z) = 5 + 1 /\ t \in Seq(Operation) /\ Len(t) = 4 + 1
        /\ 5 \in Nat /\ 4 \in Nat
    BY <1>11, <1>14
  <2>2. z # <<>> /\ Head(z) = z[1] /\ t # <<>> /\ Head(t) = t[1]
    BY Zenon, <2>1, Some
  <2> QED
    BY <1>11, <1>14, <2>2
<1>18. Storing(id, r) = t /\ AfterStore(id, r) = u
  BY <1>12, <1>13, <1>15 DEF Storing, AfterStore
<1> QED
  BY <1>1, <1>2, <1>11, <1>12, <1>14, <1>16, <1>17, <1>18

\* What follows the storing of a routine is safe if there is one, or if the
\* interrupt is going to be disabled.
LEMMA SafeAfterStore ==
  ASSUME NEW id \in Irqs, NEW r \in Routines \cup {NULL}, NEW a, r = NULL \/ a[id] # NULL
  PROVE  Safe(AfterStore(id, r), a)
<1>1. PICK u : u = AfterStore(id, r)
  OBVIOUS
<1>2. PICK p : p = (IF r # NULL THEN [op |-> "enable", id |-> id] ELSE [op |-> "disable", id |-> id])
  OBVIOUS
<1>3. /\ u \in Seq(Operation) /\ Len(u) = 4
      /\ u[1] = disable_all /\ u[2] = p /\ u[3] = enable_all /\ u[4] = enable_all
  BY <1>1, <1>2, RegisterFacts
<1>4. SafeAt(p, a)
  BY <1>2 DEF SafeAt
<1>5. \A i \in 1 .. 4 : SafeAt(u[i], a)
  BY <1>3, <1>4, OperationFacts DEF SafeAt
<1> QED
  BY <1>1, <1>3, <1>5 DEF Safe

\* The program that is going to store a routine first disables the interrupts.
LEMMA ComingFacts ==
  ASSUME NEW c, NEW s, Coming(c, s)
  PROVE  /\ c # <<>> /\ Head(c).op \in {"disable_all", "store"}
         /\ Head(c).op = "disable_all" => Coming(Tail(c), FALSE)
         /\ Head(c).op = "store" =>
              ~ s /\ \E id \in Irqs : \E r \in Routines \cup {NULL} : c = Storing(id, r)
<1>1. PICK id \in Irqs, r \in Routines \cup {NULL} :
        c = alt_iic_isr_register(id, r) \/ (c = Storing(id, r) /\ ~ s)
  BY DEF Coming
<1>2. CASE c = alt_iic_isr_register(id, r)
  <2>1. c # <<>> /\ Head(c).op = "disable_all"
    BY <1>2, RegisterFacts, OperationFacts
  <2>2. Tail(c) = Storing(id, r)
    BY <1>2 DEF Storing
  <2>3. Coming(Tail(c), FALSE)
    BY <2>2 DEF Coming
  <2> QED
    BY <2>1, <2>3
<1>3. CASE c = Storing(id, r) /\ ~ s
  <2>1. c # <<>> /\ Head(c) = [op |-> "store", id |-> id, routine |-> r]
    BY <1>3, RegisterFacts
  <2>2. Head(c).op = "store"
    BY <2>1
  <2> QED
    BY <1>3, <2>1, <2>2
<1> QED
  BY <1>1, <1>2, <1>3

\* The frame on top gives way to one that is safe, or going to store a routine.
LEMMA CodesReplace ==
  ASSUME NEW st \in Seq(Frame), st # <<>>, NEW s, NEW a, CodesOK(st, s, a),
         NEW f \in Frame, NEW r,
         Safe(f.code, a) \/ (Len(st) = 1 /\ Coming(f.code, r)),
         Len(st) = 2 => Head(f.saved) = Head(st[1].saved)
  PROVE  CodesOK(<<f>> \o Tail(st), r, a)
<1>1. PICK n \in Nat : n = Len(st) /\ n > 0
  OBVIOUS
<1>2. PICK u : u = <<f>> \o Tail(st)
  OBVIOUS
<1>3. u \in Seq(Frame) /\ Len(u) = n /\ u[1] = f /\ \A i \in 2 .. n : u[i] = st[i]
  BY <1>1, <1>2, OtherTop
<1>4. ASSUME NEW k \in 1 .. n
      PROVE  Safe(u[k].code, a) \/ (k = n /\ Coming(u[k].code, StatusOf(u, k, r)))
  <2>1. CASE k = 1
    BY <1>1, <1>3, <2>1 DEF StatusOf
  <2>2. CASE k # 1
    <3>1. k \in 2 .. n
      BY <2>2
    <3>2. Safe(st[k].code, a) \/ (k = n /\ Coming(st[k].code, StatusOf(st, k, s)))
      BY <1>1 DEF CodesOK
    <3>3. u[k] = st[k]
      BY <1>3, <3>1
    <3>4. k = n => StatusOf(u, k, r) = StatusOf(st, k, s)
      <4>1. CASE k = n /\ k = 2
        <5>1. k - 1 = 1
          BY <4>1
        <5> QED
          BY <1>1, <1>3, <4>1, <5>1 DEF StatusOf
      <4>2. CASE k = n /\ k # 2
        <5>1. k - 1 \in 2 .. n
          BY <3>1, <4>2
        <5>2. u[k - 1] = st[k - 1]
          BY <1>3, <5>1
        <5> QED
          BY <2>2, <5>2 DEF StatusOf
      <4> QED
        BY <4>1, <4>2
    <3> QED
      BY <3>2, <3>3, <3>4
  <2> QED
    BY <2>1, <2>2
<1>5. CodesOK(u, r, a)
  BY <1>3, <1>4 DEF CodesOK
<1> QED
  BY <1>2, <1>5

\* A frame that is safe is put on top.
LEMMA CodesPush ==
  ASSUME NEW st \in Seq(Frame), st # <<>>, NEW s, NEW a, CodesOK(st, s, a),
         NEW f \in Frame, NEW r, Safe(f.code, a), Len(st) = 1 => Head(f.saved) = s
  PROVE  CodesOK(<<f>> \o st, r, a)
<1>1. PICK n \in Nat : n = Len(st) /\ n > 0
  OBVIOUS
<1>2. PICK u : u = <<f>> \o st
  OBVIOUS
<1>3. u \in Seq(Frame) /\ Len(u) = n + 1 /\ u[1] = f /\ \A i \in 2 .. n + 1 : u[i] = st[i - 1]
  BY <1>1, <1>2, InFront
<1>4. ASSUME NEW k \in 1 .. n + 1
      PROVE  Safe(u[k].code, a) \/ (k = n + 1 /\ Coming(u[k].code, StatusOf(u, k, r)))
  <2>1. CASE k = 1
    BY <1>3, <2>1
  <2>2. CASE k # 1
    <3>1. PICK j \in 1 .. n : j = k - 1 /\ k = j + 1 /\ k \in 2 .. n + 1
      BY <2>2
    <3>2. Safe(st[j].code, a) \/ (j = n /\ Coming(st[j].code, StatusOf(st, j, s)))
      BY <1>1 DEF CodesOK
    <3>3. u[k] = st[j] /\ (j = n => k = n + 1)
      BY <1>3, <3>1
    <3>4. j = n => StatusOf(u, k, r) = StatusOf(st, j, s)
      <4>1. CASE j = n /\ j = 1
        <5>1. k - 1 = 1
          BY <3>1, <4>1
        <5> QED
          BY <1>1, <1>3, <2>2, <4>1, <5>1 DEF StatusOf
      <4>2. CASE j = n /\ j # 1
        <5>1. k - 1 \in 2 .. n + 1 /\ (k - 1) - 1 = j - 1
          BY <3>1, <4>2
        <5>2. u[k - 1] = st[j - 1]
          BY <1>3, <5>1
        <5> QED
          BY <2>2, <4>2, <5>2 DEF StatusOf
      <4> QED
        BY <4>1, <4>2
    <3> QED
      BY <3>2, <3>3, <3>4
  <2> QED
    BY <2>1, <2>2
<1>5. CodesOK(u, r, a)
  BY <1>3, <1>4 DEF CodesOK
<1> QED
  BY <1>2, <1>5

\* The frame on top is taken off.
LEMMA CodesPop ==
  ASSUME NEW st \in Seq(Frame), Len(st) > 1, NEW s, NEW a, CodesOK(st, s, a),
         NEW r, Len(st) = 2 => r = Head(st[1].saved)
  PROVE  CodesOK(Tail(st), r, a)
<1>1. PICK n \in Nat : n = Len(st) - 1 /\ Len(st) = n + 1 /\ n > 0
  OBVIOUS
<1>2. PICK u : u = Tail(st)
  OBVIOUS
<1>3. u \in Seq(Frame) /\ Len(u) = n /\ \A i \in 1 .. n : u[i] = st[i + 1]
  BY <1>1, <1>2, Behind
<1>4. ASSUME NEW k \in 1 .. n
      PROVE  Safe(u[k].code, a) \/ (k = n /\ Coming(u[k].code, StatusOf(u, k, r)))
  <2>1. k + 1 \in 1 .. n + 1 /\ k + 1 # 1 /\ (k + 1) - 1 = k /\ (k + 1 = n + 1 => k = n)
    OBVIOUS
  <2>2. \/ Safe(st[k + 1].code, a)
        \/ k + 1 = n + 1 /\ Coming(st[k + 1].code, StatusOf(st, k + 1, s))
    BY <1>1, <2>1 DEF CodesOK
  <2>3. u[k] = st[k + 1]
    BY <1>3
  <2>4. k = n => StatusOf(u, k, r) = StatusOf(st, k + 1, s)
    <3>1. CASE k = n /\ k = 1
      <4>0. Len(st) = n + 1 /\ n = 1
        BY <1>1, <3>1
      <4>1. Len(st) = 2 /\ k + 1 = 2
        BY <3>1, <4>0
      <4>2. StatusOf(st, k + 1, s) = Head(st[1].saved)
        BY <2>1, <3>1 DEF StatusOf
      <4>3. StatusOf(u, k, r) = r
        BY <3>1 DEF StatusOf
      <4> QED
        BY <3>1, <4>1, <4>2, <4>3
    <3>2. CASE k = n /\ k # 1
      <4>1. k - 1 \in 1 .. n /\ (k - 1) + 1 = k
        BY <3>2
      <4>2. u[k - 1] = st[k]
        BY <1>3, <4>1
      <4> QED
        BY <2>1, <3>2, <4>2 DEF StatusOf
    <3> QED
      BY <3>1, <3>2
  <2> QED
    BY <2>1, <2>2, <2>3, <2>4
<1>5. CodesOK(u, r, a)
  BY <1>3, <1>4 DEF CodesOK
<1> QED
  BY <1>2, <1>5

\* The frame on top is safe, or the program that is going to store a routine.
LEMMA CodesTop ==
  ASSUME NEW st \in Seq(Frame), st # <<>>, NEW s, NEW a, CodesOK(st, s, a)
  PROVE  Safe(st[1].code, a) \/ (Len(st) = 1 /\ Coming(st[1].code, s))
<1>1. 1 \in 1 .. Len(st)
  OBVIOUS
<1>2. Safe(st[1].code, a) \/ (1 = Len(st) /\ Coming(st[1].code, StatusOf(st, 1, s)))
  BY <1>1 DEF CodesOK
<1> QED
  BY <1>2 DEF StatusOf

\* Below a routine there are at least two frames.
LEMMA NotTwo ==
  ASSUME NEW st, NEW s, StackOK(st, s), st[1].kind \in Running
  PROVE  Len(st) # 2
<1> SUFFICES ASSUME Len(st) = 2 PROVE FALSE
  OBVIOUS
<1>1. st[2].kind = "dispatch"
  BY BelowRunning
<1>2. st \in Seq(Frame)
  BY DEF StackOK
<1>3. 2 \in DOMAIN st
  BY <1>2
<1>4. FrameAt(st, 2, s)
  BY <1>3 DEF StackOK
<1> QED
  BY <1>1, <1>4 DEF FrameAt, LastOK

\* In the window the program is inside of the section of alt_irq_disable.
LEMMA WindowFacts ==
  ASSUME IrqInv, Window
  PROVE  /\ Len(stack) = 1 /\ ~ status /\ stack[1].kind = "program" /\ Top = stack[1]
         /\ stack[1].code # <<>>
         /\ \E id \in Irqs :
              /\ \A i \in alt_irq_active \ {id} : alt_irq[i] # NULL
              /\ \/ /\ Head(stack[1].code).op = "disable_all"
                    /\ Tail(stack[1].code) = Tail(AfterStore(id, NULL))
                 \/ Head(stack[1].code) = [op |-> "disable", id |-> id]
<1>1. PICK id \in Irqs :
        /\ Len(stack) = 1 /\ ~ status
        /\ stack[1].code \in {AfterStore(id, NULL), Tail(AfterStore(id, NULL))}
        /\ \A i \in alt_irq_active \ {id} : alt_irq[i] # NULL
  BY DEF Window
<1>2. StackOK(stack, status)
  BY DEF IrqInv
<1>3. FrameAt(stack, 1, status) /\ Top = stack[1]
  BY <1>2, FirstIsOK DEF Top
<1>4. stack[1].kind = "program"
  BY <1>1, <1>3 DEF FrameAt, LastOK
<1>5. PICK u : u = AfterStore(id, NULL)
  OBVIOUS
<1>6. NULL \in Routines \cup {NULL}
  OBVIOUS
<1>7. u \in Seq(Operation) /\ Len(u) = 4 /\ u[1] = disable_all
  BY <1>5, <1>6, RegisterFacts
<1>8. u[2] = [op |-> "disable", id |-> id]
  BY <1>5, <1>6, RegisterFacts
<1>9. u # <<>> /\ Head(u) = u[1] /\ Tail(u) \in Seq(Operation) /\ Len(Tail(u)) = 3
      /\ \A i \in 1 .. 3 : Tail(u)[i] = u[i + 1]
  <2>1. Len(u) = 3 + 1 /\ u \in Seq(Operation) /\ 3 \in Nat
    BY <1>7
  <2> QED
    BY Zenon, <2>1, Some
<1>10. Tail(u) # <<>> /\ Head(Tail(u)) = Tail(u)[1]
  <2>1. Len(Tail(u)) = 2 + 1 /\ Tail(u) \in Seq(Operation) /\ 2 \in Nat
    BY <1>9
  <2> QED
    BY Zenon, <2>1, Some
<1>11. Tail(u)[1] = u[1 + 1]
  <2>1. 1 \in 1 .. 3
    OBVIOUS
  <2> QED
    BY Zenon, <1>9, <2>1
<1>12. CASE stack[1].code = u
  BY <1>1, <1>3, <1>4, <1>5, <1>7, <1>9, <1>12, OperationFacts
<1>13. CASE stack[1].code = Tail(u)
  <2>1. Head(stack[1].code) = u[1 + 1]
    BY <1>10, <1>11, <1>13
  <2>2. Head(stack[1].code) = [op |-> "disable", id |-> id] /\ stack[1].code # <<>>
    BY <1>8, <1>10, <1>13, <2>1
  <2> QED
    BY <1>1, <1>3, <1>4, <2>2
<1> QED
  BY <1>1, <1>5, <1>12, <1>13

\* An access that stores no routine leaves the codes in order.
LEMMA AccessCodes ==
  ASSUME IrqInv, RegInv, Accesses, ~ StoreRoutine
  PROVE  CodesOK(stack', status', alt_irq) /\ alt_irq' = alt_irq
<1>1. PICK op : Accessing(op) /\ op # "store" /\ (op = "disable_all" => ~ status')
  BY DEF Accesses, DisableAll, EnableAll, Work, Enable, Disable, Acknowledge,
     alt_irq_interruptible, alt_irq_non_interruptible, Accessing
<1>2. /\ StackOK(stack, status) /\ stack[1].kind \in Running
      /\ stack[1].code # <<>> /\ Head(stack[1].code).op = op
  BY <1>1, AccessFacts
<1>3. stack \in Seq(Frame) /\ stack # <<>>
  BY <1>2, FirstIsOK
<1>4. PICK g \in Frame : stack' = <<g>> \o Tail(stack) /\ g.code = Tail(stack[1].code)
  BY AccessSame
<1>5. Safe(stack[1].code, alt_irq) \/ (Len(stack) = 1 /\ Coming(stack[1].code, status))
  BY <1>3, CodesTop DEF RegInv
<1>6. Safe(g.code, alt_irq) \/ (Len(stack) = 1 /\ Coming(g.code, status'))
  <2>1. CASE Safe(stack[1].code, alt_irq)
    BY <1>2, <1>4, <2>1, SafeRest
  <2>2. CASE Len(stack) = 1 /\ Coming(stack[1].code, status)
    <3>1. Head(stack[1].code).op = "disable_all" /\ Coming(Tail(stack[1].code), FALSE)
      BY <1>1, <1>2, <2>2, ComingFacts
    <3>2. Coming(g.code, FALSE) /\ ~ status'
      BY <1>1, <1>2, <1>4, <3>1
    <3> QED
      BY <2>2, <3>2 DEF Coming
  <2> QED
    BY <1>5, <2>1, <2>2
<1>7. Len(stack) # 2
  BY <1>2, NotTwo
<1>8. CodesOK(<<g>> \o Tail(stack), status', alt_irq)
  BY <1>3, <1>6, <1>7, CodesReplace DEF RegInv
<1>9. alt_irq' = alt_irq
  BY DEF Accesses, DisableAll, EnableAll, Work, Enable, Disable, Acknowledge,
     alt_irq_interruptible, alt_irq_non_interruptible
<1> QED
  BY <1>4, <1>8, <1>9

\* Outside of an access the window is not open: the program is inside of a section.
LEMMA WindowAccess ==
  ASSUME IrqInv, Window, Fault \/ Dispatch \/ Call PROVE FALSE
<1>1. /\ ~ status /\ stack[1].kind = "program" /\ Top = stack[1] /\ stack[1].code # <<>>
  BY WindowFacts
<1>2. Head(stack[1].code).op # "work"
  <2>1. PICK id \in Irqs :
          \/ Head(stack[1].code).op = "disable_all"
          \/ Head(stack[1].code) = [op |-> "disable", id |-> id]
    BY WindowFacts
  <2> QED
    BY <2>1
<1>3. ~ Fault
  BY <1>1, <1>2 DEF Fault, Accessing
<1>4. ~ Dispatch
  BY <1>1 DEF Dispatch, TakeInterrupt, Interrupted, CallRoutine, ReturnRoutine,
     ReturnInterrupt, MistakeForInterrupt, HandleException
<1>5. ~ Call
  BY <1>1 DEF Call
<1> QED
  BY <1>3, <1>4, <1>5

\* In the window the next access disables, or begins the section that does.
LEMMA WindowNext ==
  ASSUME IrqInv, Window, NEW op, Accessing(op) PROVE op \in {"disable_all", "disable"}
<1>1. Top = stack[1] /\ Head(stack[1].code).op = op
  BY AccessFacts
<1>2. PICK id \in Irqs :
        \/ Head(stack[1].code).op = "disable_all"
        \/ Head(stack[1].code) = [op |-> "disable", id |-> id]
  BY WindowFacts
<1>3. [op |-> "disable", id |-> id].op = "disable"
  OBVIOUS
<1> QED
  BY <1>1, <1>2, <1>3

\* alt_irq_disable_all leaves the window open, and opens none.
LEMMA DisableAllActive ==
  ASSUME IrqInv, RegInv, DisableAll
  PROVE  ienable' \subseteq alt_irq_active' /\ (Window' \/ ActiveOK')
<1>1. /\ UNCHANGED <<ienable, alt_irq, alt_irq_active>> /\ status' = FALSE
      /\ Accessing("disable_all")
  BY DEF DisableAll
<1>2. Head(stack[1].code).op = "disable_all"
  BY <1>1, AccessFacts
<1>3. CASE ActiveOK
  BY <1>1, <1>3 DEF ActiveOK, RegInv
<1>4. CASE Window
  <2>1. PICK id \in Irqs :
          /\ \A i \in alt_irq_active \ {id} : alt_irq[i] # NULL
          /\ \/ Tail(stack[1].code) = Tail(AfterStore(id, NULL))
             \/ Head(stack[1].code) = [op |-> "disable", id |-> id]
    BY <1>4, WindowFacts
  <2>2. [op |-> "disable", id |-> id].op = "disable"
    OBVIOUS
  <2>3. Tail(stack[1].code) = Tail(AfterStore(id, NULL))
    BY <1>2, <2>1, <2>2
  <2>4. PICK g \in Frame : stack' = <<g>> \o Tail(stack) /\ g.code = Tail(stack[1].code)
    BY AccessSame DEF Accesses
  <2>5. Len(stack) = 1 /\ stack \in Seq(Frame) /\ stack # <<>>
    BY <1>4, WindowFacts, FirstIsOK DEF IrqInv
  <2>6. Len(stack') = 1 /\ stack'[1] = g
    BY <2>4, <2>5, OtherTop
  <2>7. Window'
    BY <1>1, <2>1, <2>3, <2>4, <2>6 DEF Window
  <2> QED
    BY <1>1, <2>7 DEF RegInv
<1> QED
  BY <1>3, <1>4 DEF RegInv

\* Disabling an interrupt closes the window.
LEMMA DisableActive ==
  ASSUME IrqInv, RegInv, Disable
  PROVE  ienable' \subseteq alt_irq_active' /\ ActiveOK'
<1>1. /\ alt_irq' = alt_irq /\ Accessing("disable") /\ ienable' = alt_irq_active'
      /\ alt_irq_active' = alt_irq_active \ {Head(Top.code).id}
  BY DEF Disable, Bit
<1>2. Head(stack[1].code).op = "disable" /\ Top = stack[1]
  BY <1>1, AccessFacts
<1>3. CASE ActiveOK
  BY <1>1, <1>3 DEF ActiveOK
<1>4. CASE Window
  <2>1. PICK id \in Irqs :
          /\ \A i \in alt_irq_active \ {id} : alt_irq[i] # NULL
          /\ \/ Head(stack[1].code).op = "disable_all"
             \/ Head(stack[1].code) = [op |-> "disable", id |-> id]
    BY <1>4, WindowFacts
  <2>2. Head(stack[1].code) = [op |-> "disable", id |-> id]
    BY <1>2, <2>1
  <2>3. Head(Top.code).id = id
    BY <1>2, <2>2
  <2> QED
    BY <1>1, <2>1, <2>3 DEF ActiveOK
<1> QED
  BY <1>1, <1>3, <1>4 DEF RegInv

\* Only an interrupt that has a routine is enabled.
LEMMA EnableActive ==
  ASSUME IrqInv, RegInv, Enable
  PROVE  ienable' \subseteq alt_irq_active' /\ ActiveOK'
<1>1. /\ alt_irq' = alt_irq /\ Accessing("enable") /\ ienable' = alt_irq_active'
      /\ alt_irq_active' = alt_irq_active \cup {Head(Top.code).id}
  BY DEF Enable, Bit
<1>2. /\ Head(stack[1].code).op = "enable" /\ Top = stack[1] /\ stack[1].code # <<>>
      /\ StackOK(stack, status)
  BY <1>1, AccessFacts
<1>3. ~ Window
  BY <1>1, WindowNext
<1>4. stack \in Seq(Frame) /\ stack # <<>>
  BY <1>2, FirstIsOK
<1>5. Safe(stack[1].code, alt_irq) \/ Coming(stack[1].code, status)
  BY <1>4, CodesTop DEF RegInv
<1>6. Safe(stack[1].code, alt_irq)
  BY <1>2, <1>5, ComingFacts
<1>7. alt_irq[Head(stack[1].code).id] # NULL
  BY <1>2, <1>6, SafeRest DEF SafeAt
<1> QED
  BY <1>1, <1>2, <1>3, <1>7 DEF RegInv, ActiveOK

\* An access that stores no routine enables only interrupts that have one.
LEMMA AccessActive ==
  ASSUME IrqInv, RegInv, Accesses, ~ StoreRoutine
  PROVE  ienable' \subseteq alt_irq_active' /\ (Window' \/ ActiveOK')
<1>1. CASE EnableAll \/ Work \/ Acknowledge \/ alt_irq_interruptible
           \/ alt_irq_non_interruptible
  <2>1. PICK op : Accessing(op) /\ op \notin {"disable_all", "disable"}
    BY <1>1 DEF EnableAll, Work, Acknowledge, alt_irq_interruptible,
       alt_irq_non_interruptible
  <2>2. ActiveOK
    BY <2>1, WindowNext DEF RegInv
  <2>3. UNCHANGED <<alt_irq, alt_irq_active>> /\ ienable' \subseteq alt_irq_active
    BY <1>1 DEF EnableAll, Work, Acknowledge, alt_irq_interruptible,
       alt_irq_non_interruptible, RegInv
  <2> QED
    BY <2>2, <2>3 DEF ActiveOK
<1> QED
  BY <1>1, DisableAllActive, DisableActive, EnableActive DEF Accesses

\* The program stores a routine, or takes one away: the interrupt is disabled next.
LEMMA StoreReg ==
  ASSUME IrqInv, RegInv, StoreRoutine PROVE RegInv'
<1>1. Accessing("store") /\ UNCHANGED <<status, ienable, alt_irq_active>>
      /\ alt_irq' = [alt_irq EXCEPT ![Head(Top.code).id] = Head(Top.code).routine]
  BY DEF StoreRoutine
<1>2. /\ Head(stack[1].code).op = "store" /\ Top = stack[1] /\ stack[1].code # <<>>
      /\ StackOK(stack, status)
  BY <1>1, AccessFacts
<1>3. stack \in Seq(Frame) /\ stack # <<>>
  BY <1>2, FirstIsOK
<1>4. Safe(stack[1].code, alt_irq) \/ (Len(stack) = 1 /\ Coming(stack[1].code, status))
  BY <1>3, CodesTop DEF RegInv
<1>5. Len(stack) = 1 /\ Coming(stack[1].code, status)
  BY <1>2, <1>4, SafeRest DEF SafeAt
<1>6. PICK id \in Irqs, r \in Routines \cup {NULL} :
        ~ status /\ stack[1].code = Storing(id, r)
  <2>1. ~ status /\ \E i \in Irqs : \E q \in Routines \cup {NULL} :
          stack[1].code = Storing(i, q)
    BY ZenonT(30), <1>2, <1>5, ComingFacts
  <2> QED
    BY <2>1
<1>7. Head(stack[1].code) = [op |-> "store", id |-> id, routine |-> r]
  <2>1. Head(Storing(id, r)) = [op |-> "store", id |-> id, routine |-> r]
    BY RegisterFacts
  <2> QED
    BY <1>6, <2>1
<1>8. alt_irq' = [alt_irq EXCEPT ![id] = r] /\ alt_irq \in [Irqs -> Routines \cup {NULL}]
  <2>1. Head(Top.code) = [op |-> "store", id |-> id, routine |-> r]
    BY <1>2, <1>7
  <2>2. Head(Top.code).id = id /\ Head(Top.code).routine = r
    BY <2>1
  <2> QED
    BY <1>1, <2>2 DEF IrqInv
<1>9. PICK g \in Frame : stack' = <<g>> \o Tail(stack) /\ g.code = Tail(stack[1].code)
  BY AccessSame DEF Accesses
<1>10. g.code = AfterStore(id, r)
  BY <1>6, <1>9 DEF AfterStore
<1>11. Len(stack') = 1 /\ stack'[1] = g
  BY <1>3, <1>5, <1>9, OtherTop
<1>12. r = NULL \/ alt_irq'[id] # NULL
  BY <1>8
<1>13. Safe(g.code, alt_irq')
  BY <1>10, <1>12, SafeAfterStore
<1>14. CodesOK(stack', status', alt_irq')
  BY <1>11, <1>13 DEF CodesOK
<1>15. ActiveOK
  BY <1>1, WindowNext DEF RegInv
<1>16. \A i \in alt_irq_active \ {id} : alt_irq'[i] # NULL
  BY <1>8, <1>15 DEF ActiveOK, IrqInv, Masks
<1>17. CASE r = NULL
  <2>1. Window'
    BY <1>1, <1>6, <1>10, <1>11, <1>16, <1>17 DEF Window
  <2> QED
    BY <1>1, <1>14, <2>1 DEF RegInv
<1>18. CASE r # NULL
  <2>1. ActiveOK'
    BY <1>1, <1>12, <1>16, <1>18 DEF ActiveOK
  <2> QED
    BY <1>1, <1>14, <2>1 DEF RegInv
<1> QED
  BY <1>17, <1>18

\* Entering an interrupt or an exception, and calling a routine, put safe code on top.
LEMMA EnterReg ==
  ASSUME IrqInv, RegInv, Fault \/ TakeInterrupt \/ CallRoutine
  PROVE  CodesOK(stack', status', alt_irq)
<1>1. StackOK(stack, status)
  BY DEF IrqInv
<1>2. /\ Top = stack[1] /\ stack \in Seq(Frame) /\ stack # <<>> /\ status \in BOOLEAN
  BY <1>1, FirstIsOK DEF Top
<1>3. CASE Fault \/ TakeInterrupt
  <2>1. PICK kind \in Entering : stack' = <<Entered(kind)>> \o stack
    BY <1>3 DEF Fault, TakeInterrupt, Push, Entering
  <2>2. PICK f \in Frame : f = Entered(kind) /\ f.saved = <<status>>
    BY <1>2, EnteredFrame
  <2>3. f.code = <<>>
    BY <2>2 DEF Entered
  <2>4. enable_all \in Operation /\ SafeAt(enable_all, alt_irq)
    BY OperationFacts DEF SafeAt
  <2>5. Safe(f.code, alt_irq)
    BY <2>3, <2>4, SafeOne
  <2>6. Head(f.saved) = status
    BY <2>2, HeadOfOne
  <2>7. CodesOK(<<f>> \o stack, status', alt_irq)
    BY <1>2, <2>5, <2>6, CodesPush DEF RegInv
  <2> QED
    BY <2>1, <2>2, <2>7
<1>4. CASE CallRoutine
  <2>1. PICK i : i = Foremost(alt_irq_pending)
    OBVIOUS
  <2>2. i \in Irqs
    BY <1>4, <2>1, LowestIsPending DEF CallRoutine
  <2>3. PICK body \in Bodies(i) :
          stack' = <<[kind |-> "routine", code |-> body, saved |-> <<>>, mask |-> {}, id |-> i]>>
                   \o stack
    BY <1>4, <2>1 DEF CallRoutine, Push
  <2>4. PICK f : f = [kind |-> "routine", code |-> body, saved |-> <<>>, mask |-> {}, id |-> i]
    OBVIOUS
  <2>5. Safe(body, alt_irq)
    BY <2>2, SafeRoutine
  <2>6. f \in Frame /\ f.code = body
    BY <2>2, <2>4, <2>5 DEF Frame, Masks, Safe
  <2>7. stack[1].kind = "dispatch"
    BY <1>2, <1>4 DEF CallRoutine
  <2>8. Len(stack) > 1
    BY <1>1, <2>7, NotTheLast
  <2>9. CodesOK(<<f>> \o stack, status', alt_irq)
    <3>1. Safe(f.code, alt_irq) /\ CodesOK(stack, status, alt_irq)
      BY <2>5, <2>6 DEF RegInv
    <3>2. Len(stack) = 1 => Head(f.saved) = status
      BY <2>8
    <3> QED
      BY <1>2, <2>6, <3>1, <3>2, CodesPush
  <2> QED
    BY <2>3, <2>4, <2>9
<1> QED
  BY <1>3, <1>4

\* Coming back leaves the code that was interrupted, or that was waited for, on top.
LEMMA LeaveReg ==
  ASSUME IrqInv, RegInv, ReturnRoutine \/ ReturnInterrupt
  PROVE  CodesOK(stack', status', alt_irq)
<1>1. StackOK(stack, status)
  BY DEF IrqInv
<1>2. Top = stack[1] /\ stack \in Seq(Frame) /\ stack # <<>>
  BY <1>1, FirstIsOK DEF Top
<1>3. stack[1].kind # "program"
  BY <1>2 DEF ReturnRoutine, ReturnInterrupt
<1>4. Len(stack) > 1
  BY <1>1, <1>3, NotTheLast
<1>5. stack' = Tail(stack)
  BY DEF ReturnRoutine, ReturnInterrupt, Pop
<1>6. Len(stack) = 2 => status' = Head(stack[1].saved)
  <2>1. CASE ReturnRoutine
    <3>1. stack[1].kind \in Running
      BY <1>2, <2>1 DEF ReturnRoutine, Running
    <3> QED
      BY <1>1, <3>1, NotTwo
  <2>2. CASE ReturnInterrupt
    BY <1>2, <2>2 DEF ReturnInterrupt
  <2> QED
    BY <2>1, <2>2
<1>7. CodesOK(Tail(stack), status', alt_irq)
  BY <1>2, <1>4, <1>6, CodesPop DEF RegInv
<1> QED
  BY <1>5, <1>7

\* Taking an exception for an interrupt changes no code.
LEMMA MistakeReg ==
  ASSUME IrqInv, RegInv, MistakeForInterrupt
  PROVE  CodesOK(stack', status', alt_irq)
<1>1. StackOK(stack, status)
  BY DEF IrqInv
<1>2. /\ Top = stack[1] /\ stack[1] \in Frame /\ stack \in Seq(Frame) /\ stack # <<>>
      /\ stack[1].kind = "exception"
  BY <1>1, FirstIsOK DEF Top, MistakeForInterrupt
<1>3. PICK g : g = [stack[1] EXCEPT !.kind = "dispatch"]
  OBVIOUS
<1>4. g \in Frame /\ g.saved = stack[1].saved /\ g.code = stack[1].code
  BY <1>2, <1>3 DEF Frame
<1>5. Len(stack) # 1
  <2>1. stack[1].kind # "program"
    BY <1>2
  <2>2. Len(stack) > 1
    BY <1>1, <2>1, NotTheLast
  <2>3. PICK n \in Nat : n = Len(stack)
    BY <1>2
  <2>4. n > 1
    BY <2>2, <2>3
  <2>5. n # 1
    BY <2>4
  <2> QED
    BY <2>3, <2>5
<1>6. Safe(g.code, alt_irq)
  BY <1>2, <1>4, <1>5, CodesTop DEF RegInv
<1>7. CodesOK(<<g>> \o Tail(stack), status', alt_irq)
  BY <1>2, <1>4, <1>6, CodesReplace DEF RegInv
<1> QED
  BY <1>2, <1>3, <1>7 DEF MistakeForInterrupt

\* Skipping the instruction that faulted, and running it again, are safe.
LEMMA HandleReg ==
  ASSUME IrqInv, RegInv, HandleException
  PROVE  CodesOK(stack', status', alt_irq)
<1>1. StackOK(stack, status)
  BY DEF IrqInv
<1>2. /\ Top = stack[1] /\ stack[1] \in Frame /\ stack \in Seq(Frame) /\ stack # <<>>
      /\ stack[1].kind = "exception" /\ stack[1].kind \in Entering
  BY <1>1, FirstIsOK DEF Top, HandleException, Entering
<1>3. PICK s : s = Head(stack[1].saved)
  OBVIOUS
<1>4. PICK t : t = Tail(stack)
  OBVIOUS
<1>5. /\ StackOK(t, s) /\ t[1] = stack[2]
      /\ stack[2].code # <<>> /\ Head(stack[2].code).op = "work"
      /\ stack[2].kind \in Running
  BY <1>1, <1>2, <1>3, <1>4, BelowEntering
<1>6. t \in Seq(Frame) /\ t # <<>> /\ t[1] \in Frame
  BY <1>5, FirstIsOK
<1>7. CodesOK(t, s, alt_irq)
  <2>1. stack[1].kind # "program"
    BY <1>2
  <2>2. Len(stack) > 1
    BY <1>1, <2>1, NotTheLast
  <2> QED
    BY <1>2, <1>3, <1>4, <2>2, CodesPop DEF RegInv
<1>8. Safe(t[1].code, alt_irq)
  <2>1. Safe(t[1].code, alt_irq) \/ Coming(t[1].code, s)
    BY <1>6, <1>7, CodesTop
  <2>2. ~ Coming(t[1].code, s)
    BY <1>5, ComingFacts
  <2> QED
    BY <2>1, <2>2
<1>9. PICK g : stack' = <<g>> \o Tail(t) /\ g \in {Skipped(t[1]), Repaired(t[1])}
  BY <1>4, <1>5 DEF HandleException
<1>10. PICK c \in Seq(Operation) : g = Recoded(t[1], c) /\ Safe(c, alt_irq)
  <2>1. PICK o : o = [op |-> "repaired"]
    OBVIOUS
  <2>2. o \in Operation /\ SafeAt(o, alt_irq)
    BY <2>1 DEF Operation, SafeAt
  <2>3. Safe(Tail(t[1].code), alt_irq)
    BY <1>5, <1>8, SafeRest
  <2>4. Safe(<<o>> \o Tail(t[1].code), alt_irq)
    BY <2>2, <2>3, SafeOne, SafeOn
  <2>5. g = Recoded(t[1], Tail(t[1].code)) \/ g = Recoded(t[1], <<o>> \o Tail(t[1].code))
    BY <1>9, <2>1 DEF Skipped, Repaired, Recoded
  <2> QED
    BY <2>3, <2>4, <2>5 DEF Safe
<1>11. g \in Frame
  BY <1>6, <1>10, FrameCodes
<1>12. g.code = c /\ g.saved = t[1].saved
  BY ZenonT(60), <1>6, <1>10, FrameCodes
<1>13. CodesOK(<<g>> \o Tail(t), s, alt_irq)
  BY <1>6, <1>7, <1>10, <1>11, <1>12, CodesReplace
<1> QED
  BY <1>2, <1>3, <1>9, <1>13 DEF HandleException

\* A call of the program: safe, or one that is going to store a routine.
LEMMA CallReg ==
  ASSUME IrqInv, RegInv, Call
  PROVE  CodesOK(stack', status', alt_irq)
<1>1. StackOK(stack, status)
  BY DEF IrqInv
<1>2. /\ Top = stack[1] /\ stack[1] \in Frame /\ stack \in Seq(Frame) /\ stack # <<>>
      /\ FrameAt(stack, 1, status)
  BY <1>1, FirstIsOK DEF Top
<1>3. stack[1].kind = "program"
  BY <1>2 DEF Call
<1>4. Len(stack) = 1
  BY <1>2, <1>3 DEF FrameAt, LastOK
<1>5. PICK code \in CallsMade : stack' = <<Recoded(stack[1], code)>>
  BY <1>2 DEF Call, Recoded
<1>6. Safe(code, alt_irq) \/ Coming(code, status')
  BY SafeProgram
<1>7. code \in Seq(Operation)
  BY ProgramShape DEF Without
<1>8. PICK g : g = Recoded(stack[1], code)
  OBVIOUS
<1>9. g \in Frame
  BY <1>2, <1>7, <1>8, FrameCodes
<1>10. g.code = code
  BY ZenonT(60), <1>2, <1>7, <1>8, FrameCodes
<1>11. CodesOK(<<g>> \o Tail(stack), status', alt_irq)
  <2>1. Safe(g.code, alt_irq) \/ (Len(stack) = 1 /\ Coming(g.code, status'))
    BY <1>4, <1>6, <1>10
  <2>2. CodesOK(stack, status, alt_irq)
    BY DEF RegInv
  <2>3. Len(stack) # 2
    BY <1>4
  <2> QED
    BY <1>2, <1>9, <2>1, <2>2, <2>3, CodesReplace
<1>12. Tail(stack) \in Seq(Frame) /\ Len(Tail(stack)) = 0
  BY <1>2, <1>4, Behind
<1> QED
  BY <1>5, <1>8, <1>9, <1>11, <1>12, OnlyOne

\* What registering an interrupt rests on holds at first, with no code to run.
LEMMA InitReg == IrqInit => RegInv
<1> SUFFICES ASSUME IrqInit PROVE RegInv
  OBVIOUS
<1>1. /\ ienable = {} /\ alt_irq_active = {} /\ stack = <<ProgramFrame>>
      /\ StackOK(stack, status)
  BY InitOK DEF IrqInit, IrqInv
<1>2. Len(stack) = 1 /\ stack[1].code = <<>>
  BY <1>1 DEF ProgramFrame
<1>3. enable_all \in Operation /\ SafeAt(enable_all, alt_irq)
  BY OperationFacts DEF SafeAt
<1>4. Safe(stack[1].code, alt_irq)
  BY <1>2, <1>3, SafeOne
<1>5. CodesOK(stack, status, alt_irq)
  BY <1>2, <1>4 DEF CodesOK
<1> QED
  BY <1>1, <1>5 DEF RegInv, ActiveOK

\* Every step keeps it.
LEMMA StepReg == IrqInv /\ RegInv /\ [IrqNext]_irqVars => RegInv'
<1> SUFFICES ASSUME IrqInv, RegInv, [IrqNext]_irqVars PROVE RegInv'
  OBVIOUS
<1>1. CASE Accesses /\ ~ StoreRoutine
  BY <1>1, AccessCodes, AccessActive DEF RegInv
<1>2. CASE StoreRoutine
  BY <1>2, StoreReg
<1>3. CASE Fault \/ Dispatch \/ Call
  <2>1. ActiveOK
    BY <1>3, WindowAccess DEF RegInv
  <2>2. UNCHANGED <<ienable, alt_irq, alt_irq_active>>
    BY <1>3 DEF Fault, Dispatch, Call, TakeInterrupt, CallRoutine, ReturnRoutine,
       ReturnInterrupt, MistakeForInterrupt, HandleException
  <2>3. CodesOK(stack', status', alt_irq)
    BY <1>3, EnterReg, LeaveReg, MistakeReg, HandleReg, CallReg DEF Dispatch
  <2> QED
    BY <2>1, <2>2, <2>3 DEF RegInv, ActiveOK
<1>4. CASE Request \/ UNCHANGED irqVars
  BY <1>4 DEF Request, irqVars, RegInv, CodesOK, StatusOf, Window, ActiveOK
<1> QED
  BY <1>1, <1>2, <1>3, <1>4 DEF IrqNext

\* The dispatch loop, and an interrupt that is taken, find the window closed.
LEMMA InvRegistered == IrqInv /\ RegInv => CalledAreRegistered
<1> SUFFICES ASSUME IrqInv, RegInv, status \/ Top.kind = "dispatch", NEW i \in ienable
             PROVE  alt_irq[i] # NULL
  BY DEF CalledAreRegistered
<1>1. ~ Window
  <2> SUFFICES ASSUME Window PROVE FALSE
    OBVIOUS
  <2>1. ~ status /\ stack[1].kind = "program" /\ Top = stack[1]
    BY WindowFacts
  <2> QED
    BY <2>1
<1> QED
  BY <1>1 DEF RegInv, ActiveOK

\* The dispatch loop calls only routines there are, and no interrupt is taken whose
\* routine was taken away: alt_iic_isr_register stores with interrupts disabled, and
\* disables the interrupt before it enables them again.
THEOREM CalledAlwaysRegistered == IrqSpec => []CalledAreRegistered
<1> QED
  BY InitOK, StepOK, InitReg, StepReg, InvRegistered, PTL DEF IrqSpec

-----------------------------------------------------------------------------
(* The list of the alarms. *)

Map == [Entries -> Entries]

\* Each entry is linked back from the entry it is linked to.
BothWays(n, p) ==
  n \in Map /\ p \in Map /\ \A e \in Entries : p[n[e]] = e /\ n[p[e]] = e

\* An alarm that is not reached from the head points to itself.
AloneOutside(n) == \A a \in AlarmIds \ Reached(n) : n[a] = a

Ring(n, p) == BothWays(n, p) /\ AloneOutside(n)

\* The links m and q that are left when e is inserted into n and p, and when it
\* is removed from them.
Inserted(n, p, e, m, q) ==
  LET first == n[alt_alarm_list] IN
  /\ m[e] = first /\ m[alt_alarm_list] = e
  /\ \A c \in Entries \ {e, alt_alarm_list} : m[c] = n[c]
  /\ q[first] = e /\ (first # e => q[e] = alt_alarm_list)
  /\ \A c \in Entries \ {e, first} : q[c] = p[c]
Removed(n, p, e, m, q) ==
  /\ m[e] = e /\ (p[e] # e => m[p[e]] = n[e])
  /\ \A c \in Entries \ {e, p[e]} : m[c] = n[c]
  /\ q[e] = e /\ (n[e] # e => q[n[e]] = p[e])
  /\ \A c \in Entries \ {e, n[e]} : q[c] = p[c]

\* An alarm is reached or it is not in some closed set; the head is no alarm.
LEMMA EntriesFacts ==
  /\ alt_alarm_list \in Entries /\ alt_alarm_list \notin AlarmIds
  /\ \A a \in AlarmIds : a \in Entries /\ a # alt_alarm_list
  /\ \A e \in Entries : e # alt_alarm_list => e \in AlarmIds
BY AlarmAssumption DEF Entries

\* What alt_llist_insert leaves.
LEMMA InsertLinks ==
  ASSUME NEW n \in Map, NEW p \in Map, NEW e \in AlarmIds,
         NEW l, l = alt_llist_insert([next |-> n, previous |-> p], e)
  PROVE  l.next \in Map /\ l.previous \in Map /\ Inserted(n, p, e, l.next, l.previous)
<1>1. n[alt_alarm_list] \in Entries /\ e \in Entries /\ alt_alarm_list \in Entries
  BY EntriesFacts DEF Map
<1>2. e # alt_alarm_list
  BY EntriesFacts
<1>3. PICK first \in Entries : first = n[alt_alarm_list]
  BY <1>1
<1>4. PICK m : m = [n EXCEPT ![e] = first, ![alt_alarm_list] = e]
  OBVIOUS
<1>5. PICK q : q = [p EXCEPT ![e] = alt_alarm_list, ![first] = e]
  OBVIOUS
<1>6. l.next = m /\ l.previous = q
  BY <1>3, <1>4, <1>5 DEF alt_llist_insert
<1>7. m \in Map /\ q \in Map
  BY <1>1, <1>3, <1>4, <1>5 DEF Map
<1>8. /\ m[e] = first /\ m[alt_alarm_list] = e
      /\ \A c \in Entries \ {e, alt_alarm_list} : m[c] = n[c]
  BY <1>1, <1>2, <1>4 DEF Map
<1>9. /\ q[first] = e /\ (first # e => q[e] = alt_alarm_list)
      /\ \A c \in Entries \ {e, first} : q[c] = p[c]
  BY <1>1, <1>5 DEF Map
<1> QED
  BY <1>3, <1>6, <1>7, <1>8, <1>9 DEF Inserted

\* What alt_llist_remove leaves.
LEMMA RemoveLinks ==
  ASSUME NEW n \in Map, NEW p \in Map, NEW e \in AlarmIds,
         NEW l, l = alt_llist_remove([next |-> n, previous |-> p], e)
  PROVE  l.next \in Map /\ l.previous \in Map /\ Removed(n, p, e, l.next, l.previous)
<1>1. e \in Entries
  BY EntriesFacts
<1>2. PICK a \in Entries : a = p[e]
  BY <1>1 DEF Map
<1>3. PICK b \in Entries : b = n[e]
  BY <1>1 DEF Map
<1>4. PICK m : m = [n EXCEPT ![a] = b, ![e] = e]
  OBVIOUS
<1>5. PICK q : q = [p EXCEPT ![b] = a, ![e] = e]
  OBVIOUS
<1>6. l.next = m /\ l.previous = q
  BY <1>2, <1>3, <1>4, <1>5 DEF alt_llist_remove
<1>7. m \in Map /\ q \in Map
  BY <1>1, <1>2, <1>3, <1>4, <1>5 DEF Map
<1>8. /\ m[e] = e /\ (a # e => m[a] = b)
      /\ \A c \in Entries \ {e, a} : m[c] = n[c]
  BY <1>1, <1>4 DEF Map
<1>9. /\ q[e] = e /\ (b # e => q[b] = a)
      /\ \A c \in Entries \ {e, b} : q[c] = p[c]
  BY <1>1, <1>5 DEF Map
<1> QED
  BY <1>2, <1>3, <1>6, <1>7, <1>8, <1>9 DEF Removed

\* An alarm that is not reached is alone in both directions.
LEMMA AloneBothWays ==
  ASSUME NEW n, NEW p, Ring(n, p), NEW e \in AlarmIds, n[e] = e
  PROVE  p[e] = e /\ n[alt_alarm_list] # e
<1>1. p[n[e]] = e /\ p[n[alt_alarm_list]] = alt_alarm_list
  BY EntriesFacts DEF Ring, BothWays
<1> QED
  BY <1>1, EntriesFacts

\* An alarm that is inserted where it was alone keeps the links a ring both ways.
LEMMA InsertBothWays ==
  ASSUME NEW n, NEW p, Ring(n, p), NEW e \in AlarmIds, n[e] = e,
         NEW m \in Map, NEW q \in Map, Inserted(n, p, e, m, q)
  PROVE  BothWays(m, q)
<1>1. p[e] = e /\ n[alt_alarm_list] # e /\ e # alt_alarm_list
  BY AloneBothWays, EntriesFacts
<1>2. PICK first \in Entries : first = n[alt_alarm_list] /\ first # e
  BY <1>1, EntriesFacts DEF Ring, BothWays, Map
<1>3. n \in Map /\ p \in Map /\ \A c \in Entries : p[n[c]] = c /\ n[p[c]] = c
  BY DEF Ring, BothWays
<1>4. /\ m[e] = first /\ m[alt_alarm_list] = e
      /\ \A c \in Entries \ {e, alt_alarm_list} : m[c] = n[c]
      /\ q[first] = e /\ q[e] = alt_alarm_list
      /\ \A c \in Entries \ {e, first} : q[c] = p[c]
  BY <1>2 DEF Inserted
<1>5. p[first] = alt_alarm_list
  BY <1>2, <1>3, EntriesFacts
<1>6. ASSUME NEW c \in Entries PROVE q[m[c]] = c /\ m[q[c]] = c
  <2>1. q[m[c]] = c
    <3>1. CASE c = e \/ c = alt_alarm_list
      BY <1>4, <3>1
    <3>2. CASE c # e /\ c # alt_alarm_list
      <4>1. m[c] = n[c] /\ n[c] \in Entries
        BY <1>3, <1>4, <3>2 DEF Map
      <4>2. n[c] # e /\ n[c] # first
        BY <1>1, <1>3, <1>5, <3>2
      <4> QED
        BY <1>3, <1>4, <4>1, <4>2
    <3> QED
      BY <3>1, <3>2
  <2>2. m[q[c]] = c
    <3>1. CASE c = e \/ c = first
      BY <1>4, <3>1
    <3>2. CASE c # e /\ c # first
      <4>1. q[c] = p[c] /\ p[c] \in Entries
        BY <1>3, <1>4, <3>2 DEF Map
      <4>2. p[c] # e /\ p[c] # alt_alarm_list
        BY <1>1, <1>2, <1>3, <3>2
      <4> QED
        BY <1>3, <1>4, <4>1, <4>2
    <3> QED
      BY <3>1, <3>2
  <2> QED
    BY <2>1, <2>2
<1> QED
  BY <1>6 DEF BothWays

\* It is reached then, and so is what was.
LEMMA InsertReaches ==
  ASSUME NEW n, NEW p, Ring(n, p), NEW e \in AlarmIds, n[e] = e,
         NEW m \in Map, NEW q \in Map, Inserted(n, p, e, m, q)
  PROVE  AloneOutside(m)
<1>1. SUFFICES ASSUME NEW a \in AlarmIds, m[a] # a, NEW S \in SUBSET AlarmIds, Closed(m, S)
               PROVE  a \in S
  BY DEF AloneOutside, Reached
<1>2. /\ m[e] = n[alt_alarm_list] /\ m[alt_alarm_list] = e
      /\ \A c \in Entries \ {e, alt_alarm_list} : m[c] = n[c]
  BY DEF Inserted
<1>3. \A c \in S \cup {alt_alarm_list} : m[c] \in S \cup {alt_alarm_list}
  BY <1>1 DEF Closed
<1>4. e \in S
  BY <1>2, <1>3, EntriesFacts
<1>5. Closed(n, S)
  <2>1. ASSUME NEW c \in S \cup {alt_alarm_list} PROVE n[c] \in S \cup {alt_alarm_list}
    <3>1. CASE c = e
      BY <1>4, <3>1
    <3>2. CASE c = alt_alarm_list
      BY <1>2, <1>3, <1>4, <3>2
    <3>3. CASE c # e /\ c # alt_alarm_list
      BY <1>2, <1>3, <2>1, <3>3, EntriesFacts
    <3> QED
      BY <3>1, <3>2, <3>3
  <2> QED
    BY <2>1 DEF Closed
<1>6. CASE a = e
  BY <1>4, <1>6
<1>7. CASE a # e
  <2>1. n[a] # a
    BY <1>1, <1>2, <1>7, EntriesFacts
  <2>2. a \in Reached(n)
    BY <2>1 DEF Ring, AloneOutside
  <2> QED
    BY <1>5, <2>2 DEF Reached
<1> QED
  BY <1>6, <1>7

\* An alarm that is removed leaves the links a ring both ways.
LEMMA RemoveBothWays ==
  ASSUME NEW n, NEW p, Ring(n, p), NEW e \in AlarmIds,
         NEW m \in Map, NEW q \in Map, Removed(n, p, e, m, q)
  PROVE  BothWays(m, q)
<1>1. n \in Map /\ p \in Map /\ \A c \in Entries : p[n[c]] = c /\ n[p[c]] = c
  BY DEF Ring, BothWays
<1>2. PICK a \in Entries : a = p[e] /\ n[a] = e
  BY <1>1, EntriesFacts DEF Map
<1>3. PICK b \in Entries : b = n[e] /\ p[b] = e
  BY <1>1, EntriesFacts DEF Map
<1>4. /\ m[e] = e /\ (a # e => m[a] = b) /\ \A c \in Entries \ {e, a} : m[c] = n[c]
      /\ q[e] = e /\ (b # e => q[b] = a) /\ \A c \in Entries \ {e, b} : q[c] = p[c]
  BY <1>2, <1>3 DEF Removed
<1>5. a = e <=> b = e
  BY <1>1, <1>2, <1>3
<1>6. ASSUME NEW c \in Entries PROVE q[m[c]] = c /\ m[q[c]] = c
  <2>1. q[m[c]] = c
    <3>1. CASE c = e \/ c = a
      BY <1>4, <1>5, <3>1
    <3>2. CASE c # e /\ c # a
      <4>1. m[c] = n[c] /\ n[c] \in Entries
        BY <1>1, <1>4, <3>2 DEF Map
      <4>2. n[c] # e /\ n[c] # b
        BY <1>1, <1>2, <1>3, <3>2
      <4> QED
        BY <1>1, <1>4, <4>1, <4>2
    <3> QED
      BY <3>1, <3>2
  <2>2. m[q[c]] = c
    <3>1. CASE c = e \/ c = b
      BY <1>4, <1>5, <3>1
    <3>2. CASE c # e /\ c # b
      <4>1. q[c] = p[c] /\ p[c] \in Entries
        BY <1>1, <1>4, <3>2 DEF Map
      <4>2. p[c] # e /\ p[c] # a
        BY <1>1, <1>2, <1>3, <3>2
      <4> QED
        BY <1>1, <1>4, <4>1, <4>2
    <3> QED
      BY <3>1, <3>2
  <2> QED
    BY <2>1, <2>2
<1> QED
  BY <1>6 DEF BothWays

\* What was reached besides it still is.
LEMMA RemoveReaches ==
  ASSUME NEW n, NEW p, Ring(n, p), NEW e \in AlarmIds,
         NEW m \in Map, NEW q \in Map, Removed(n, p, e, m, q)
  PROVE  AloneOutside(m)
<1>1. SUFFICES ASSUME NEW x \in AlarmIds, m[x] # x, NEW S \in SUBSET AlarmIds, Closed(m, S)
               PROVE  x \in S
  BY DEF AloneOutside, Reached
<1>2. n \in Map /\ p \in Map /\ \A c \in Entries : p[n[c]] = c /\ n[p[c]] = c
  BY DEF Ring, BothWays
<1>3. PICK a \in Entries : a = p[e] /\ n[a] = e
  BY <1>2, EntriesFacts DEF Map
<1>4. /\ m[e] = e /\ (a # e => m[a] = n[e]) /\ \A c \in Entries \ {e, a} : m[c] = n[c]
  BY <1>3 DEF Removed
<1>5. \A c \in S \cup {alt_alarm_list} : m[c] \in S \cup {alt_alarm_list} /\ c \in Entries
  BY <1>1, EntriesFacts DEF Closed
<1>6. x # e /\ n[x] # x
  BY <1>1, <1>3, <1>4, EntriesFacts
<1>7. x \in Reached(n)
  BY <1>6 DEF Ring, AloneOutside
<1>8. CASE a \in S \cup {alt_alarm_list} /\ a # e
  <2>1. Closed(n, S \cup {e})
    <3>1. ASSUME NEW c \in (S \cup {e}) \cup {alt_alarm_list}
          PROVE  n[c] \in (S \cup {e}) \cup {alt_alarm_list}
      <4>1. CASE c = e
        BY <1>4, <1>5, <1>8, <4>1
      <4>2. CASE c = a
        BY <1>3, <4>2
      <4>3. CASE c # e /\ c # a
        BY <1>4, <1>5, <3>1, <4>3
      <4> QED
        BY <4>1, <4>2, <4>3
    <3> QED
      BY <3>1 DEF Closed
  <2> QED
    BY <1>6, <1>7, <2>1 DEF Reached
<1>9. CASE ~ (a \in S \cup {alt_alarm_list} /\ a # e)
  <2>1. Closed(n, S \ {e})
    <3>1. ASSUME NEW c \in (S \ {e}) \cup {alt_alarm_list}
          PROVE  n[c] \in (S \ {e}) \cup {alt_alarm_list}
      <4>1. c # e /\ c # a
        BY <1>9, EntriesFacts
      <4>2. n[c] = m[c] /\ m[c] \in S \cup {alt_alarm_list}
        BY <1>4, <1>5, <4>1
      <4>3. n[c] # e
        BY <1>2, <1>3, <1>5, <4>1
      <4> QED
        BY <4>2, <4>3
    <3> QED
      BY <3>1 DEF Closed
  <2> QED
    BY <1>7, <2>1 DEF Reached
<1> QED
  BY <1>8, <1>9

\* In a ring the alarms that are reached are those that are linked elsewhere.
LEMMA ReachedIs ==
  ASSUME NEW n, NEW p, Ring(n, p), NEW a \in AlarmIds
  PROVE  a \in Reached(n) <=> n[a] # a
<1>1. ASSUME n[a] # a PROVE a \in Reached(n)
  BY <1>1 DEF Ring, AloneOutside
<1>2. Closed(n, {c \in AlarmIds : n[c] # c})
  <2>1. ASSUME NEW c \in Entries, c = alt_alarm_list \/ n[c] # c, n[c] # alt_alarm_list
        PROVE  n[c] \in AlarmIds /\ n[n[c]] # n[c]
    <3>1. n[c] \in AlarmIds /\ p[n[c]] = c
      BY <2>1, EntriesFacts DEF Ring, BothWays, Map
    <3>2. PICK d \in AlarmIds : d = n[c]
      BY <3>1
    <3>3. n[d] = d => p[d] = d /\ n[alt_alarm_list] # d
      BY AloneBothWays
    <3> QED
      BY <2>1, <3>1, <3>2, <3>3
  <2>2. \A c \in {e \in AlarmIds : n[e] # e} \cup {alt_alarm_list} :
          c \in Entries /\ (c = alt_alarm_list \/ n[c] # c)
    BY EntriesFacts
  <2> QED
    BY <2>1, <2>2 DEF Closed
<1>3. ASSUME a \in Reached(n) PROVE n[a] # a
  BY <1>2, <1>3 DEF Reached
<1> QED
  BY <1>1, <1>3

\* Links from which an alarm was inserted, or removed.
LinksOf(n, p) == [next |-> n, previous |-> p]

\* alt_llist_insert keeps the ring, and the alarm is in it.
LEMMA InsertRing ==
  ASSUME NEW n, NEW p, Ring(n, p), NEW e \in AlarmIds, n[e] = e,
         NEW l, l = alt_llist_insert(LinksOf(n, p), e)
  PROVE  /\ Ring(l.next, l.previous) /\ Inserted(n, p, e, l.next, l.previous)
         /\ \A a \in AlarmIds : a \in Reached(l.next) <=> a \in Reached(n) \/ a = e
<1>1. n \in Map /\ p \in Map
  BY DEF Ring, BothWays
<1>2. PICK m \in Map : m = l.next
  BY <1>1, InsertLinks DEF LinksOf
<1>3. PICK q \in Map : q = l.previous
  BY <1>1, InsertLinks DEF LinksOf
<1>4. Inserted(n, p, e, m, q)
  BY <1>1, <1>2, <1>3, InsertLinks DEF LinksOf
<1>5. Ring(m, q)
  BY <1>4, InsertBothWays, InsertReaches DEF Ring
<1>6. ASSUME NEW a \in AlarmIds
      PROVE  a \in Reached(m) <=> a \in Reached(n) \/ a = e
  <2>1. n[alt_alarm_list] # e
    BY AloneBothWays
  <2>2. m[a] # a <=> n[a] # a \/ a = e
    BY <1>4, <2>1, EntriesFacts DEF Inserted
  <2> QED
    BY <1>5, <2>2, ReachedIs
<1> QED
  BY <1>2, <1>3, <1>4, <1>5, <1>6

\* alt_llist_remove keeps the ring, and the alarm is not in it.
LEMMA RemoveRing ==
  ASSUME NEW n, NEW p, Ring(n, p), NEW e \in AlarmIds,
         NEW l, l = alt_llist_remove(LinksOf(n, p), e)
  PROVE  /\ Ring(l.next, l.previous) /\ Removed(n, p, e, l.next, l.previous)
         /\ \A a \in AlarmIds : a \in Reached(l.next) <=> a \in Reached(n) /\ a # e
<1>1. n \in Map /\ p \in Map /\ \A c \in Entries : p[n[c]] = c /\ n[p[c]] = c
  BY DEF Ring, BothWays
<1>2. PICK m \in Map : m = l.next
  BY <1>1, RemoveLinks DEF LinksOf
<1>3. PICK q \in Map : q = l.previous
  BY <1>1, RemoveLinks DEF LinksOf
<1>4. Removed(n, p, e, m, q)
  BY <1>1, <1>2, <1>3, RemoveLinks DEF LinksOf
<1>5. Ring(m, q)
  BY <1>4, RemoveBothWays, RemoveReaches DEF Ring
<1>6. ASSUME NEW a \in AlarmIds
      PROVE  a \in Reached(m) <=> a \in Reached(n) /\ a # e
  <2>1. m[e] = e /\ (p[e] # e => m[p[e]] = n[e])
        /\ \A c \in Entries \ {e, p[e]} : m[c] = n[c]
    BY <1>4 DEF Removed
  <2>2. CASE a = e
    BY <1>5, <2>1, <2>2, ReachedIs
  <2>3. CASE a # e /\ a # p[e]
    BY <1>5, <2>1, <2>3, ReachedIs, EntriesFacts
  <2>4. CASE a # e /\ a = p[e]
    <3>1. m[a] = n[e] /\ n[a] = e /\ p[n[e]] = e
      BY <1>1, <2>1, <2>4, EntriesFacts
    <3>2. n[a] # a /\ a \in Reached(n)
      BY <2>4, <3>1, ReachedIs
    <3>3. ASSUME n[e] = a PROVE FALSE
      <4>1. ASSUME NEW c \in (AlarmIds \ {a, e}) \cup {alt_alarm_list}
            PROVE  n[c] \in (AlarmIds \ {a, e}) \cup {alt_alarm_list}
        <5>1. c \in Entries /\ n[c] \in Entries /\ c # a /\ c # e
          BY <1>1, EntriesFacts DEF Map
        <5>2. p[n[c]] = c /\ p[a] = e /\ p[e] = a
          BY <1>1, <2>4, <3>1, <3>3, <5>1
        <5> QED
          BY <5>1, <5>2, EntriesFacts
      <4>2. Closed(n, AlarmIds \ {a, e})
        BY <4>1 DEF Closed
      <4> QED
        BY <3>2, <4>2 DEF Reached
    <3> QED
      BY <1>5, <2>4, <3>1, <3>2, <3>3, ReachedIs
  <2> QED
    BY <2>2, <2>3, <2>4
<1> QED
  BY <1>2, <1>3, <1>4, <1>5, <1>6

-----------------------------------------------------------------------------
(* A tick goes round the ring. *)

\* The alarms of V, and others that were since stopped, were visited by the tick
\* that is about to visit v: the walk from the head stays in V up to v.
Visited(n, p, V, v) ==
  /\ V \in SUBSET AlarmIds /\ v \in Entries /\ v \notin V
  /\ \A c \in V \cup {alt_alarm_list} : n[c] \in V \cup {v}
  /\ \A c \in V \cup {v} : c # alt_alarm_list => p[c] \in V \cup {alt_alarm_list}

\* An alarm r that was visited is set for a later tick than t, the current one,
\* and its flag says whether the counter wraps round before; one that is still to
\* be visited may be due now, and its flag may have been raised before the counter
\* wrapped round.
IsSet(r, t) == r.time # t /\ r.rollover = (r.time < t)
Waits(r, t) == (r.rollover /\ t # 0) = (r.time < t)

\* So it is with the alarms of the ring.
AllSet(n, al, t, V) ==
  \A a \in AlarmIds : n[a] # a => IF a \in V THEN IsSet(al[a], t) ELSE Waits(al[a], t)

Timed(n, p, al, t, v) ==
  IF v = Off THEN AllSet(n, al, t, AlarmIds)
  ELSE \E V \in SUBSET AlarmIds : Visited(n, p, V, v) /\ AllSet(n, al, t, V)

\* The ring is kept unless an alarm is started again, and the times unless some
\* call is made that the code does not bear.
RingInv == AlarmTypeOK /\ ("restart" \notin misuse => Ring(next, previous))
AlarmInv ==
  RingInv /\ (misuse = {} => Timed(next, previous, alarm, _alt_nticks, visited))

-----------------------------------------------------------------------------
(* The walk of a tick. *)

\* It begins with nothing visited.
LEMMA WalkBegins ==
  ASSUME NEW n, NEW p, Ring(n, p)
  PROVE  Visited(n, p, {}, n[alt_alarm_list])
<1>1. n[alt_alarm_list] \in Entries /\ p[n[alt_alarm_list]] = alt_alarm_list
  BY EntriesFacts DEF Ring, BothWays, Map
<1> QED
  BY <1>1 DEF Visited

\* It goes on to an alarm that was not visited.
LEMMA WalkGoesOn ==
  ASSUME NEW n, NEW p, Ring(n, p), NEW V, NEW v \in AlarmIds, Visited(n, p, V, v)
  PROVE  Visited(n, p, V \cup {v}, n[v]) /\ n[v] # v
<1>1. n[v] \in Entries /\ p[n[v]] = v /\ v # alt_alarm_list
  BY EntriesFacts DEF Ring, BothWays, Map
<1>2. /\ V \in SUBSET AlarmIds /\ v \notin V
      /\ \A c \in V \cup {alt_alarm_list} : n[c] \in V \cup {v}
      /\ \A c \in V \cup {v} : c # alt_alarm_list => p[c] \in V \cup {alt_alarm_list}
  BY DEF Visited
<1>3. n[v] # v /\ n[v] \notin V
  BY <1>1, <1>2, EntriesFacts
<1>4. \A c \in (V \cup {v}) \cup {alt_alarm_list} : n[c] \in (V \cup {v}) \cup {n[v]}
  BY <1>2
<1>5. \A c \in (V \cup {v}) \cup {n[v]} :
        c # alt_alarm_list => p[c] \in (V \cup {v}) \cup {alt_alarm_list}
  BY <1>1, <1>2
<1> QED
  BY <1>1, <1>2, <1>3, <1>4, <1>5 DEF Visited

\* When it is back at the head all alarms of the ring were visited.
LEMMA WalkEnds ==
  ASSUME NEW n, NEW p, Ring(n, p), NEW V, Visited(n, p, V, alt_alarm_list)
  PROVE  \A a \in AlarmIds : n[a] # a => a \in V
<1>1. V \in SUBSET AlarmIds /\ \A c \in V \cup {alt_alarm_list} : n[c] \in V \cup {alt_alarm_list}
  BY DEF Visited
<1>2. Closed(n, V)
  BY <1>1 DEF Closed
<1>3. ASSUME NEW a \in AlarmIds, n[a] # a PROVE a \in V
  <2>1. a \in Reached(n)
    BY <1>3, ReachedIs
  <2> QED
    BY <1>1, <1>2, <2>1 DEF Reached
<1> QED
  BY <1>3

\* An alarm that is started meanwhile counts as visited.
LEMMA WalkInserts ==
  ASSUME NEW n, NEW p, Ring(n, p), NEW V, NEW v, Visited(n, p, V, v),
         NEW e \in AlarmIds, n[e] = e, NEW m, NEW q, Inserted(n, p, e, m, q)
  PROVE  Visited(m, q, V \cup {e}, v) /\ e # v
<1>1. p[e] = e /\ n[alt_alarm_list] # e /\ e # alt_alarm_list
  BY AloneBothWays, EntriesFacts
<1>2. /\ V \in SUBSET AlarmIds /\ v \in Entries /\ v \notin V
      /\ \A c \in V \cup {alt_alarm_list} : n[c] \in V \cup {v}
      /\ \A c \in V \cup {v} : c # alt_alarm_list => p[c] \in V \cup {alt_alarm_list}
  BY DEF Visited
<1>3. e # v
  BY <1>1, <1>2
<1>4. PICK first \in Entries : first = n[alt_alarm_list] /\ first # e
  BY <1>1, EntriesFacts DEF Ring, BothWays, Map
<1>5. /\ m[e] = first /\ m[alt_alarm_list] = e
      /\ \A c \in Entries \ {e, alt_alarm_list} : m[c] = n[c]
      /\ q[first] = e /\ q[e] = alt_alarm_list
      /\ \A c \in Entries \ {e, first} : q[c] = p[c]
  BY <1>4 DEF Inserted
<1>6. ASSUME NEW c \in (V \cup {e}) \cup {alt_alarm_list} PROVE m[c] \in (V \cup {e}) \cup {v}
  <2>1. CASE c = e
    BY <1>2, <1>4, <1>5, <2>1
  <2>2. CASE c = alt_alarm_list
    BY <1>5, <2>2
  <2>3. CASE c # e /\ c # alt_alarm_list
    BY <1>2, <1>5, <1>6, <2>3, EntriesFacts
  <2> QED
    BY <2>1, <2>2, <2>3
<1>7. ASSUME NEW c \in (V \cup {e}) \cup {v}, c # alt_alarm_list
      PROVE  q[c] \in (V \cup {e}) \cup {alt_alarm_list}
  <2>1. CASE c = e \/ c = first
    BY <1>5, <2>1
  <2>2. CASE c # e /\ c # first
    <3>1. c \in Entries /\ c \in V \cup {v}
      BY <1>2, <1>7, <2>2, EntriesFacts
    <3> QED
      BY <1>2, <1>5, <1>7, <2>2, <3>1
  <2> QED
    BY <2>1, <2>2
<1> QED
  BY <1>2, <1>3, <1>6, <1>7 DEF Visited

\* One that is stopped, other than that which is visited next, may as well have
\* been visited or not.
LEMMA WalkRemoves ==
  ASSUME NEW n, NEW p, Ring(n, p), NEW V, NEW v, Visited(n, p, V, v),
         NEW e \in AlarmIds, e # v, NEW m, NEW q, Removed(n, p, e, m, q)
  PROVE  Visited(m, q, V, v)
<1>1. n \in Map /\ p \in Map /\ \A c \in Entries : p[n[c]] = c /\ n[p[c]] = c
  BY DEF Ring, BothWays
<1>2. /\ V \in SUBSET AlarmIds /\ v \in Entries /\ v \notin V
      /\ \A c \in V \cup {alt_alarm_list} : n[c] \in V \cup {v}
      /\ \A c \in V \cup {v} : c # alt_alarm_list => p[c] \in V \cup {alt_alarm_list}
  BY DEF Visited
<1>3. PICK a \in Entries : a = p[e] /\ n[a] = e
  BY <1>1, EntriesFacts DEF Map
<1>4. PICK b \in Entries : b = n[e] /\ p[b] = e
  BY <1>1, EntriesFacts DEF Map
<1>5. /\ m[e] = e /\ (a # e => m[a] = b) /\ \A c \in Entries \ {e, a} : m[c] = n[c]
      /\ q[e] = e /\ (b # e => q[b] = a) /\ \A c \in Entries \ {e, b} : q[c] = p[c]
  BY <1>3, <1>4 DEF Removed
<1>6. ASSUME NEW c \in V \cup {alt_alarm_list} PROVE m[c] \in V \cup {v}
  <2>1. CASE c = e
    BY <1>5, <1>6, <2>1, EntriesFacts
  <2>2. CASE c = a /\ c # e
    <3>1. e \in V
      BY <1>2, <1>3, <1>6, <2>2
    <3> QED
      BY <1>2, <1>4, <1>5, <2>2, <3>1
  <2>3. CASE c # e /\ c # a
    BY <1>2, <1>5, <1>6, <2>3, EntriesFacts
  <2> QED
    BY <2>1, <2>2, <2>3
<1>7. ASSUME NEW c \in V \cup {v}, c # alt_alarm_list PROVE q[c] \in V \cup {alt_alarm_list}
  <2>1. CASE c = e
    BY <1>5, <1>7, <2>1
  <2>2. CASE c = b /\ c # e
    <3>1. e \in V
      BY <1>2, <1>4, <1>7, <2>2, EntriesFacts
    <3>2. a \in V \cup {alt_alarm_list}
      BY <1>2, <1>3, <3>1, EntriesFacts
    <3> QED
      BY <1>5, <2>2, <3>2
  <2>3. CASE c # e /\ c # b
    <3>1. c \in Entries
      BY <1>2, <1>7, EntriesFacts
    <3> QED
      BY <1>2, <1>5, <1>7, <2>3, <3>1
  <2> QED
    BY <2>1, <2>2, <2>3
<1> QED
  BY <1>2, <1>6, <1>7 DEF Visited

-----------------------------------------------------------------------------
(* The times. *)

\* The ticks from now to t.
Left(t, now) == (t - now) % Wrap
Ticks == 0 .. Wrap - 1

\* A time that ran over the counter's end, or below zero, wraps round once.
LEMMA CounterWraps ==
  ASSUME NEW x \in Int
  PROVE  /\ 0 <= x /\ x < Wrap => x % Wrap = x
         /\ Wrap <= x /\ x < 2 * Wrap => x % Wrap = x - Wrap
         /\ - Wrap <= x /\ x < 0 => x % Wrap = x + Wrap
<1>1. Wrap \in Nat \ {0}
  BY AlarmAssumption
<1> QED
  BY <1>1, WrapOnce

\* They are none only now, and one less at the next tick.
LEMMA LeftFacts ==
  ASSUME NEW t \in Ticks, NEW now \in Ticks
  PROVE  /\ Left(t, now) \in Ticks /\ (Left(t, now) = 0 <=> t = now)
         /\ (now + 1) % Wrap = (IF now + 1 < Wrap THEN now + 1 ELSE 0)
         /\ (now + 1) % Wrap \in Ticks
         /\ t # now => Left(t, (now + 1) % Wrap) = Left(t, now) - 1
<1>1. Wrap \in Nat \ {0} /\ Wrap > 2 /\ t \in Nat /\ now \in Nat /\ t < Wrap /\ now < Wrap
  BY AlarmAssumption DEF Ticks
<1>2. Left(t, now) = (IF now <= t THEN t - now ELSE t - now + Wrap)
  <2>1. CASE now <= t
    BY <1>1, <2>1, CounterWraps DEF Left
  <2>2. CASE t < now
    BY <1>1, <2>2, CounterWraps DEF Left
  <2> QED
    BY <1>1, <2>1, <2>2
<1>3. (now + 1) % Wrap = (IF now + 1 < Wrap THEN now + 1 ELSE 0)
  <2>1. CASE now + 1 < Wrap
    BY <1>1, <2>1, CounterWraps
  <2>2. CASE now + 1 = Wrap
    <3>1. (now + 1) % Wrap = now + 1 - Wrap
      BY <1>1, <2>2, CounterWraps
    <3> QED
      BY <1>1, <2>2, <3>1
  <2> QED
    BY <1>1, <2>1, <2>2
<1>4. PICK next1 \in Nat : next1 = (now + 1) % Wrap /\ next1 < Wrap
  BY <1>1, <1>3
<1>5. Left(t, next1) = (IF next1 <= t THEN t - next1 ELSE t - next1 + Wrap)
  <2>0. next1 \in Nat /\ next1 < Wrap
    BY <1>4
  <2>1. CASE next1 <= t
    BY <1>1, <2>0, <2>1, CounterWraps DEF Left
  <2>2. CASE t < next1
    BY <1>1, <2>0, <2>2, CounterWraps DEF Left
  <2> QED
    BY <1>1, <2>0, <2>1, <2>2
<1>6. t # now => Left(t, next1) = Left(t, now) - 1
  BY <1>1, <1>2, <1>3, <1>4, <1>5
<1>7. Left(t, now) \in Ticks /\ (Left(t, now) = 0 <=> t = now)
  BY <1>1, <1>2 DEF Ticks
<1> QED
  BY <1>1, <1>3, <1>4, <1>6, <1>7 DEF Ticks

\* A time x ticks from now.
LEMMA LeftOf ==
  ASSUME NEW now \in Ticks, NEW x \in Ticks, NEW t, t = (x + now) % Wrap
  PROVE  t \in Ticks /\ Left(t, now) = x
<1>1. Wrap \in Nat \ {0} /\ x \in Nat /\ now \in Nat /\ x < Wrap /\ now < Wrap
  BY AlarmAssumption DEF Ticks
<1>2. t = (IF x + now < Wrap THEN x + now ELSE x + now - Wrap)
  <2>1. CASE x + now < Wrap
    BY <1>1, <2>1, CounterWraps
  <2>2. CASE Wrap <= x + now
    BY <1>1, <2>2, CounterWraps
  <2> QED
    BY <1>1, <2>1, <2>2
<1>3. t \in Ticks
  BY <1>1, <1>2 DEF Ticks
<1>4. PICK u \in Nat : u = t /\ u < Wrap
  BY <1>1, <1>3 DEF Ticks
<1>5. Left(u, now) = (IF now <= u THEN u - now ELSE u - now + Wrap)
  <2>0. u \in Nat /\ u < Wrap
    BY <1>4
  <2>1. CASE now <= u
    BY <1>1, <2>0, <2>1, CounterWraps DEF Left
  <2>2. CASE u < now
    BY <1>1, <2>0, <2>2, CounterWraps DEF Left
  <2> QED
    BY <1>1, <2>0, <2>1, <2>2
<1> QED
  BY <1>1, <1>2, <1>3, <1>4, <1>5

Record == [time : Ticks, rollover : BOOLEAN]

\* What is written to the record of an alarm that is started is one.
LEMMA StartedRecord ==
  ASSUME NEW now \in Ticks, NEW n \in Periods
  PROVE  Started(now, n) \in Record
<1>1. Wrap \in Nat \ {0} /\ n \in Nat /\ now \in Nat
  BY AlarmAssumption DEF Ticks
<1>2. PICK x \in Nat : x = n + now + 1
  BY <1>1
<1>3. x % Wrap \in Ticks
  BY <1>1, DivMod DEF Ticks
<1> QED
  BY <1>2, <1>3 DEF Started, Record

\* An alarm that is started is called after n more ticks, and counts as visited,
\* if n is less than the most there can be.
LEMMA StartedFacts ==
  ASSUME NEW now \in Ticks, NEW n \in Periods, n # Wrap - 1, NEW r, r = Started(now, n)
  PROVE  r \in Record /\ Left(r.time, now) = n + 1 /\ IsSet(r, now)
<1>1. Wrap \in Nat /\ n \in Nat /\ n + 1 \in Ticks /\ n + 1 # 0
  BY AlarmAssumption DEF Ticks
<1>2. PICK x \in Ticks : x = n + 1
  BY <1>1
<1>3. PICK t : t = (x + now) % Wrap
  OBVIOUS
<1>4. t \in Ticks /\ Left(t, now) = x
  BY <1>3, LeftOf
<1>5. n + now + 1 = x + now
  BY <1>1, <1>2 DEF Ticks
<1>6. r = [time |-> t, rollover |-> t < now]
  BY <1>3, <1>5 DEF Started
<1>7. t # now
  BY <1>1, <1>2, <1>4, LeftFacts
<1> QED
  BY <1>2, <1>4, <1>6, <1>7 DEF Record, IsSet

\* One whose callback answered n is called after n ticks.
LEMMA AgainFacts ==
  ASSUME NEW r \in Record, _alt_nticks \in Ticks, r.time = _alt_nticks, ~ r.rollover,
         NEW n \in Periods, n # 0, NEW s, s = Again(r, n)
  PROVE  s \in Record /\ Left(s.time, _alt_nticks) = n /\ IsSet(s, _alt_nticks)
<1>1. Wrap \in Nat /\ n \in Nat /\ n \in Ticks
  BY AlarmAssumption DEF Ticks
<1>2. PICK now \in Ticks : now = _alt_nticks
  OBVIOUS
<1>3. PICK t : t = (n + now) % Wrap
  OBVIOUS
<1>4. t \in Ticks /\ Left(t, now) = n
  BY <1>1, <1>3, LeftOf
<1>5. r.time + n = n + now
  BY <1>1, <1>2 DEF Ticks
<1>6. s = [time |-> t, rollover |-> r.rollover \/ t < now]
  BY <1>2, <1>3, <1>5 DEF Again
<1>7. (r.rollover \/ t < now) = (t < now)
  <2>1. (t < now) \in BOOLEAN
    OBVIOUS
  <2> QED
    BY <2>1, Zenon
<1>8. s = [time |-> t, rollover |-> t < now]
  BY <1>6, <1>7, Zenon
<1>9. t # now
  BY <1>1, <1>4, LeftFacts
<1> QED
  BY <1>2, <1>4, <1>8, <1>9 DEF Record, IsSet

-----------------------------------------------------------------------------
(* The ring is kept. *)

\* The alarms before and after, and the time.
LEMMA TypeParts ==
  ASSUME RingInv
  PROVE  /\ _alt_nticks \in Ticks /\ alarm \in [AlarmIds -> Record]
         /\ Links = LinksOf(next, previous) /\ visited \in Entries \cup {Off}
         /\ next \in Map /\ previous \in Map
BY DEF RingInv, AlarmTypeOK, Ticks, Record, Links, LinksOf, Map

Misuses == {"restart", "toolong", "stopnext"}

\* The links stay a map of the entries, whatever is inserted or removed.
LEMMA LinksTyped ==
  ASSUME NEW n \in Map, NEW p \in Map, NEW e \in AlarmIds,
         NEW l, l \in {alt_llist_insert(LinksOf(n, p), e), alt_llist_remove(LinksOf(n, p), e)}
  PROVE  l.next \in Map /\ l.previous \in Map /\ l = LinksOf(l.next, l.previous)
<1>1. e \in Entries /\ alt_alarm_list \in Entries /\ \A c \in Entries : n[c] \in Entries /\ p[c] \in Entries
  BY EntriesFacts DEF Map
<1>2. CASE l = alt_llist_insert(LinksOf(n, p), e)
  BY <1>1, <1>2 DEF alt_llist_insert, LinksOf, Map
<1>3. CASE l = alt_llist_remove(LinksOf(n, p), e)
  BY <1>1, <1>3 DEF alt_llist_remove, LinksOf, Map
<1> QED
  BY <1>2, <1>3

\* What a callback did to the links n and p and to the alarms al.
Nothing(n, p, al, m, q, bl) == m = n /\ q = p /\ bl = al
Stopped(n, p, al, m, q, bl, b) ==
  bl = al /\ Removed(n, p, b, m, q)
  /\ \A c \in AlarmIds : c \in Reached(m) <=> c \in Reached(n) /\ c # b
Began(n, p, al, m, q, bl, b, t, k) ==
  /\ n[b] = b /\ Inserted(n, p, b, m, q)
  /\ bl = [al EXCEPT ![b] = Started(t, k)]
  /\ \A c \in AlarmIds : c \in Reached(m) <=> c \in Reached(n) \/ c = b

Effect(a, al, m, q, bl) ==
  \/ Nothing(next, previous, al, m, q, bl)
  \/ \E b \in AlarmIds : b # next[a] /\ Stopped(next, previous, al, m, q, bl, b)
  \/ \E b \in AlarmIds, k \in Periods \ {Wrap - 1} :
       Began(next, previous, al, m, q, bl, b, _alt_nticks, k)

\* What a callback may leave: links and alarms of their type, and, as long as what
\* it does is borne, a ring.
Leaves(a, al, l, bl, w) ==
  /\ l.next \in Map /\ l.previous \in Map /\ l = LinksOf(l.next, l.previous)
  /\ bl \in [AlarmIds -> Record] /\ w \in SUBSET Misuses
  /\ "restart" \notin misuse \cup w => Ring(l.next, l.previous)
  /\ misuse \cup w = {} /\ next[a] # a => Effect(a, al, l.next, l.previous, bl)

\* What a start that is not borne is called.
LEMMA MisusedIs ==
  ASSUME NEW b \in AlarmIds, NEW k \in Periods
  PROVE  /\ MisusedBy(b, k) \in SUBSET Misuses
         /\ "restart" \notin MisusedBy(b, k) => b \notin Listed
         /\ MisusedBy(b, k) = {} => b \notin Listed /\ k # Wrap - 1
BY DEF MisusedBy, Misuses

\* Whatever it does, the ring is kept.
LEMMA EffectRing ==
  ASSUME RingInv, NEW a \in AlarmIds, NEW al \in [AlarmIds -> Record], NEW e \in Effects(a, al)
  PROVE  Leaves(a, al, e.links, e.alarm, e.misuse)
<1>1. /\ "restart" \notin misuse => Ring(next, previous)
      /\ Links = LinksOf(next, previous) /\ next \in Map /\ previous \in Map
      /\ _alt_nticks \in Ticks /\ misuse \in SUBSET Misuses
  BY TypeParts DEF RingInv, AlarmTypeOK, Misuses
<1>2. CASE e = [links |-> Links, alarm |-> al, misuse |-> {}]
  BY <1>1, <1>2 DEF Leaves, Effect, Nothing, LinksOf
<1>3. ASSUME NEW b \in AlarmIds,
             e = [links |-> alt_llist_remove(Links, b), alarm |-> al,
                  misuse |-> IF b = next[a] /\ b # a THEN {"stopnext"} ELSE {}]
      PROVE  Leaves(a, al, e.links, e.alarm, e.misuse)
  <2>1. PICK l : l = alt_llist_remove(LinksOf(next, previous), b)
    OBVIOUS
  <2>2. e.links = l /\ e.alarm = al
        /\ e.misuse = IF b = next[a] /\ b # a THEN {"stopnext"} ELSE {}
    BY <1>1, <1>3, <2>1
  <2>3. l.next \in Map /\ l.previous \in Map /\ l = LinksOf(l.next, l.previous)
    BY <1>1, <2>1, LinksTyped
  <2>4. "restart" \notin misuse =>
          /\ Ring(l.next, l.previous) /\ Removed(next, previous, b, l.next, l.previous)
          /\ \A c \in AlarmIds : c \in Reached(l.next) <=> c \in Reached(next) /\ c # b
    BY <1>1, <2>1, RemoveRing
  <2>5. e.misuse \in SUBSET Misuses /\ "restart" \notin e.misuse
        /\ (e.misuse = {} /\ next[a] # a => b # next[a])
    BY <2>2 DEF Misuses
  <2>6. ASSUME misuse \cup e.misuse = {}, next[a] # a
        PROVE  Effect(a, al, l.next, l.previous, al)
    <3>1. b # next[a] /\ "restart" \notin misuse
      BY <2>5, <2>6
    <3>2. Stopped(next, previous, al, l.next, l.previous, al, b)
      BY <2>4, <3>1 DEF Stopped
    <3> QED
      BY <3>1, <3>2 DEF Effect
  <2> QED
    BY <2>2, <2>3, <2>4, <2>5, <2>6 DEF Leaves
<1>4. ASSUME NEW b \in AlarmIds, NEW k \in Periods,
             e = [links |-> alt_llist_insert(Links, b),
                  alarm |-> [al EXCEPT ![b] = Started(_alt_nticks, k)],
                  misuse |-> MisusedBy(b, k)]
      PROVE  Leaves(a, al, e.links, e.alarm, e.misuse)
  <2>1. PICK l : l = alt_llist_insert(LinksOf(next, previous), b)
    OBVIOUS
  <2>2. PICK r \in Record : r = Started(_alt_nticks, k)
    BY <1>1, StartedRecord
  <2>3. PICK bl \in [AlarmIds -> Record] : bl = [al EXCEPT ![b] = r]
    OBVIOUS
  <2>4. e.links = l /\ e.alarm = bl /\ e.misuse = MisusedBy(b, k)
    BY <1>1, <1>4, <2>1, <2>2, <2>3
  <2>5. l.next \in Map /\ l.previous \in Map /\ l = LinksOf(l.next, l.previous)
    BY <1>1, <2>1, LinksTyped
  <2>6. /\ e.misuse \in SUBSET Misuses
        /\ "restart" \notin e.misuse => b \notin Listed
        /\ e.misuse = {} => b \notin Listed /\ k # Wrap - 1
    BY <2>4, MisusedIs
  <2>7. ASSUME "restart" \notin misuse \cup e.misuse
        PROVE  /\ next[b] = b /\ Ring(l.next, l.previous)
               /\ Inserted(next, previous, b, l.next, l.previous)
               /\ \A c \in AlarmIds : c \in Reached(l.next) <=> c \in Reached(next) \/ c = b
    <3>1. Ring(next, previous) /\ b \notin Listed
      BY <1>1, <2>6, <2>7
    <3>2. next[b] = b
      BY <3>1, ReachedIs DEF Listed
    <3> QED
      BY <1>1, <2>1, <3>1, <3>2, InsertRing
  <2>8. ASSUME misuse \cup e.misuse = {}
        PROVE  Effect(a, al, l.next, l.previous, bl)
    <3>1. k \in Periods \ {Wrap - 1}
      BY <2>6, <2>8
    <3>2. Began(next, previous, al, l.next, l.previous, bl, b, _alt_nticks, k)
      BY <2>2, <2>3, <2>7, <2>8 DEF Began
    <3> QED
      BY <3>1, <3>2 DEF Effect
  <2> QED
    BY <2>3, <2>4, <2>5, <2>6, <2>7, <2>8 DEF Leaves
<1>5. \/ e = [links |-> Links, alarm |-> al, misuse |-> {}]
      \/ \E b \in AlarmIds :
           e = [links |-> alt_llist_remove(Links, b), alarm |-> al,
                misuse |-> IF b = next[a] /\ b # a THEN {"stopnext"} ELSE {}]
      \/ \E b \in AlarmIds, k \in Periods :
           e = [links |-> alt_llist_insert(Links, b),
                alarm |-> [al EXCEPT ![b] = Started(_alt_nticks, k)],
                misuse |-> MisusedBy(b, k)]
  BY DEF Effects
<1> QED
  BY <1>2, <1>3, <1>4, <1>5

\* The alarms when a callback is made: the flag of its alarm is clear.
Cleared == [alarm EXCEPT ![visited].rollover = FALSE]

\* A callback, in names: what it did to the list, and what it answered.
LEMMA CallbackFacts ==
  ASSUME RingInv, Callback
  PROVE  /\ visited \in AlarmIds /\ Expired(alarm[visited], _alt_nticks)
         /\ Cleared \in [AlarmIds -> Record]
         /\ \E l, bl, n, w :
              /\ n \in Periods \cup {0} /\ Leaves(visited, Cleared, l, bl, w)
              /\ \/ /\ n = 0 /\ SetLinks(alt_llist_remove(l, visited)) /\ alarm' = bl
                 \/ /\ n # 0 /\ SetLinks(l)
                    /\ alarm' = [bl EXCEPT ![visited] = Again(bl[visited], n)]
              /\ misuse' = misuse \cup w
         /\ visited' = next[visited]
         /\ UNCHANGED <<_alt_tick_rate, _alt_nticks>>
<1>1. visited \in AlarmIds /\ Expired(alarm[visited], _alt_nticks)
  BY TypeParts, EntriesFacts DEF Callback, Visits
<1>2. Cleared \in [AlarmIds -> Record]
  BY <1>1, TypeParts DEF Cleared, Record
<1>3. PICK e \in Effects(visited, Cleared), n \in Periods \cup {0} :
        /\ IF n = 0
           THEN SetLinks(alt_llist_remove(e.links, visited)) /\ alarm' = e.alarm
           ELSE SetLinks(e.links) /\ alarm' = [e.alarm EXCEPT ![visited] = Again(@, n)]
        /\ misuse' = misuse \cup e.misuse
  BY DEF Callback, Cleared
<1>4. Leaves(visited, Cleared, e.links, e.alarm, e.misuse)
  BY <1>1, <1>2, EffectRing
<1>5. /\ \/ n = 0 /\ SetLinks(alt_llist_remove(e.links, visited)) /\ alarm' = e.alarm
         \/ n # 0 /\ SetLinks(e.links)
            /\ alarm' = [e.alarm EXCEPT ![visited] = Again(e.alarm[visited], n)]
      /\ misuse' = misuse \cup e.misuse
  BY <1>3
<1> QED
  BY <1>1, <1>2, <1>4, <1>5 DEF Callback

\* What is written to an alarm's record is one.
LEMMA AgainRecord ==
  ASSUME NEW r \in Record, NEW n \in Periods
  PROVE  Again(r, n) \in Record
<1>1. Wrap \in Nat \ {0} /\ n \in Nat /\ r.time \in Nat
  BY AlarmAssumption DEF Ticks, Record
<1>2. PICK x \in Nat : x = r.time + n
  BY <1>1
<1>3. x % Wrap \in Ticks
  BY <1>1, DivMod DEF Ticks
<1>4. PICK t \in Ticks : t = x % Wrap
  BY <1>3
<1>5. Again(r, n) = [time |-> t, rollover |-> r.rollover \/ t < _alt_nticks]
  BY <1>2, <1>4 DEF Again
<1>6. (r.rollover \/ t < _alt_nticks) \in BOOLEAN
  BY Zenon
<1> QED
  BY <1>4, <1>5, <1>6 DEF Record

\* Every step keeps the ring.
LEMMA RingStep ==
  ASSUME RingInv, [AlarmNext]_alarmVars PROVE RingInv'
<1>1. /\ _alt_nticks \in Ticks /\ alarm \in [AlarmIds -> Record]
      /\ Links = LinksOf(next, previous) /\ visited \in Entries \cup {Off}
      /\ next \in Map /\ previous \in Map /\ _alt_tick_rate \in {0, 1}
      /\ "restart" \notin misuse => Ring(next, previous)
      /\ misuse \in SUBSET Misuses
  BY TypeParts DEF RingInv, AlarmTypeOK, Misuses
<1>2. SUFFICES /\ _alt_tick_rate' \in {0, 1} /\ _alt_nticks' \in Ticks
               /\ alarm' \in [AlarmIds -> Record] /\ visited' \in Entries \cup {Off}
               /\ next' \in Map /\ previous' \in Map /\ misuse' \in SUBSET Misuses
               /\ "restart" \notin misuse' => Ring(next', previous')
  BY DEF RingInv, AlarmTypeOK, Ticks, Record, Map, Misuses, Ring, BothWays, AloneOutside
<1>3. \A e \in Entries : next[e] \in Entries
  BY <1>1 DEF Map
<1>4. CASE alt_sysclk_init
  BY <1>1, <1>4 DEF alt_sysclk_init
<1>5. CASE alt_alarm_start
  <2>1. PICK a \in AlarmIds, n \in Periods : Start(a, n)
    BY <1>5 DEF alt_alarm_start
  <2>2. PICK r \in Record : r = Started(_alt_nticks, n)
    BY <1>1, StartedRecord
  <2>3. alarm' \in [AlarmIds -> Record]
    BY <1>1, <2>1, <2>2 DEF Start
  <2>4. PICK l : l = alt_llist_insert(LinksOf(next, previous), a)
    OBVIOUS
  <2>5. next' = l.next /\ previous' = l.previous /\ l.next \in Map /\ l.previous \in Map
    BY <1>1, <2>1, <2>4, LinksTyped DEF Start, SetLinks
  <2>6. misuse' = misuse \cup MisusedBy(a, n)
    BY <2>1 DEF Start
  <2>7. misuse' \in SUBSET Misuses
    BY <1>1, <2>6, MisusedIs
  <2>8. ASSUME "restart" \notin misuse' PROVE Ring(next', previous')
    <3>1. "restart" \notin misuse /\ "restart" \notin MisusedBy(a, n)
      BY <2>6, <2>8
    <3>2. Ring(next, previous) /\ a \notin Reached(next)
      BY <1>1, <3>1, MisusedIs DEF Listed
    <3>3. next[a] = a
      BY <3>2, ReachedIs
    <3> QED
      BY <2>4, <2>5, <3>2, <3>3, InsertRing
  <2> QED
    BY <1>1, <2>1, <2>3, <2>5, <2>7, <2>8 DEF Start
<1>6. CASE alt_alarm_stop
  <2>1. PICK a \in AlarmIds : SetLinks(alt_llist_remove(Links, a))
    BY <1>6 DEF alt_alarm_stop
  <2>2. PICK l : l = alt_llist_remove(LinksOf(next, previous), a)
    OBVIOUS
  <2>3. next' = l.next /\ previous' = l.previous /\ l.next \in Map /\ l.previous \in Map
    BY <1>1, <2>1, <2>2, LinksTyped DEF SetLinks
  <2>4. "restart" \notin misuse => Ring(l.next, l.previous)
    BY <1>1, <2>2, RemoveRing
  <2> QED
    BY <1>1, <1>6, <2>3, <2>4 DEF alt_alarm_stop
<1>7. CASE TickBegin
  BY <1>1, <1>3, <1>7, LeftFacts, EntriesFacts DEF TickBegin
<1>8. CASE Pass
  <2>1. visited \in AlarmIds /\ visited \in Entries
    BY <1>1, <1>8, EntriesFacts DEF Pass, Visits
  <2>2. Flag(alarm[visited], _alt_nticks) \in BOOLEAN
    BY DEF Flag
  <2>3. PICK f \in BOOLEAN : f = Flag(alarm[visited], _alt_nticks)
    BY <2>2
  <2>4. alarm' = [alarm EXCEPT ![visited].rollover = f]
    BY <1>8, <2>3 DEF Pass
  <2>5. alarm' \in [AlarmIds -> Record]
    BY <1>1, <2>1, <2>4 DEF Record
  <2> QED
    BY <1>1, <1>3, <1>8, <2>1, <2>5 DEF Pass
<1>9. CASE Callback
  <2>1. visited \in AlarmIds /\ visited \in Entries
    BY <1>9, CallbackFacts, EntriesFacts
  <2>2. PICK l, bl, n, w :
              /\ n \in Periods \cup {0} /\ Leaves(visited, Cleared, l, bl, w)
              /\ \/ /\ n = 0 /\ SetLinks(alt_llist_remove(l, visited)) /\ alarm' = bl
                 \/ /\ n # 0 /\ SetLinks(l)
                    /\ alarm' = [bl EXCEPT ![visited] = Again(bl[visited], n)]
              /\ misuse' = misuse \cup w
    BY <1>9, CallbackFacts
  <2>3. /\ l.next \in Map /\ l.previous \in Map /\ l = LinksOf(l.next, l.previous)
        /\ bl \in [AlarmIds -> Record] /\ w \in SUBSET Misuses
        /\ "restart" \notin misuse' => Ring(l.next, l.previous)
    BY <2>2 DEF Leaves
  <2>4. misuse' \in SUBSET Misuses
    BY <1>1, <2>2, <2>3
  <2>5. CASE n = 0 /\ SetLinks(alt_llist_remove(l, visited)) /\ alarm' = bl
    <3>1. PICK k : k = alt_llist_remove(LinksOf(l.next, l.previous), visited)
      OBVIOUS
    <3>2. k.next \in Map /\ k.previous \in Map
      BY <2>1, <2>3, <3>1, LinksTyped
    <3>3. "restart" \notin misuse' => Ring(k.next, k.previous)
      BY <2>1, <2>3, <3>1, RemoveRing
    <3>4. next' = k.next /\ previous' = k.previous
      BY <2>3, <2>5, <3>1 DEF SetLinks
    <3> QED
      BY <1>1, <1>3, <1>9, <2>1, <2>3, <2>4, <2>5, <3>2, <3>3, <3>4 DEF Callback
  <2>6. CASE /\ n # 0 /\ SetLinks(l)
             /\ alarm' = [bl EXCEPT ![visited] = Again(bl[visited], n)]
    <3>1. n \in Periods /\ bl[visited] \in Record
      BY <2>1, <2>2, <2>3, <2>6
    <3>2. PICK r \in Record : r = Again(bl[visited], n)
      BY <3>1, AgainRecord
    <3>3. alarm' \in [AlarmIds -> Record]
      BY <2>3, <2>6, <3>2
    <3>4. next' = l.next /\ previous' = l.previous
      BY <2>6 DEF SetLinks
    <3> QED
      BY <1>1, <1>3, <1>9, <2>1, <2>3, <2>4, <3>3, <3>4 DEF Callback
  <2> QED
    BY <2>2, <2>5, <2>6
<1>10. CASE TickEnd
  BY <1>1, <1>10 DEF TickEnd
<1>11. CASE UNCHANGED alarmVars
  BY <1>1, <1>11 DEF alarmVars
<1> QED
  BY <1>4, <1>5, <1>6, <1>7, <1>8, <1>9, <1>10, <1>11 DEF AlarmNext, alt_tick

\* The list is a ring at first: the head alone.
LEMMA RingInit == ASSUME AlarmInit PROVE RingInv
<1>1. alarm \in [AlarmIds -> [time : 0 .. Wrap - 1, rollover : BOOLEAN]]
  BY AlarmAssumption DEF AlarmInit
<1>2. /\ _alt_tick_rate = 0 /\ _alt_nticks \in 0 .. Wrap - 1 /\ visited = Off
      /\ next \in Map /\ previous \in Map
      /\ \A e \in Entries : next[e] = e /\ previous[e] = e
  BY AlarmAssumption DEF AlarmInit, Map
<1>3. Ring(next, previous)
  BY <1>2 DEF Ring, BothWays, AloneOutside, Entries
<1> QED
  BY <1>1, <1>2, <1>3 DEF RingInv, AlarmTypeOK, Map, AlarmInit

\* The invariant is the ring of the specification.
LEMMA RingIs == RingInv => ListIsRing
BY DEF RingInv, Ring, BothWays, AloneOutside, ListIsRing, Listed

\* The alarms are one ring through the head, the same both ways, whatever the
\* program and the callbacks start and stop, also during a tick, as long as no
\* alarm is started that is registered.
THEOREM RingIsKept == AlarmSpec => []ListIsRing
<1>1. AlarmInit => RingInv
  BY RingInit
<1>2. RingInv /\ [AlarmNext]_alarmVars => RingInv'
  BY RingStep
<1> QED
  BY <1>1, <1>2, RingIs, PTL DEF AlarmSpec

\* The links and the records of the alarms always are what they should be.
THEOREM AlarmsTyped == AlarmSpec => []AlarmTypeOK
<1>1. AlarmInit => RingInv
  BY RingInit
<1>2. RingInv /\ [AlarmNext]_alarmVars => RingInv'
  BY RingStep
<1>3. RingInv => AlarmTypeOK
  BY DEF RingInv
<1> QED
  BY <1>1, <1>2, <1>3, PTL DEF AlarmSpec

-----------------------------------------------------------------------------
(* The alarms implement the timers. *)

\* What the alarms are mapped to.
LeftTo(n, al, t, a) == IF a \in Reached(n) THEN Left(al[a].time, t) ELSE Off
Remaining(n, al, t) == [a \in AlarmIds |-> LeftTo(n, al, t, a)]

\* The steps of the timers, from r and k to s and l.
Programs(r, s, k, l) ==
  /\ ~ k /\ ~ l
  /\ \E a \in AlarmIds : \/ s = [r EXCEPT ![a] = Off]
                         \/ \E n \in Periods : r[a] = Off /\ s = [r EXCEPT ![a] = n + 1]
Begins(r, s, k, l) ==
  ~ k /\ l /\ s = [a \in AlarmIds |-> IF r[a] = Off THEN Off ELSE r[a] - 1]
Others(r, b) ==
  {r[b], Off} \cup {n + 1 : n \in IF r[b] = Off THEN Periods ELSE {}}
CallsOne(r, s, k, l, a) ==
  /\ k /\ l /\ r[a] = 0
  /\ \E y \in (Periods \ {0}) \cup {Off}, b \in AlarmIds : \E x \in Others(r, b) :
       s = [c \in AlarmIds |-> IF c = a THEN y ELSE IF c = b THEN x ELSE r[c]]
Ends(r, s, k, l) == k /\ ~ l /\ s = r /\ \A a \in AlarmIds : r[a] # 0

Before == Remaining(next, alarm, _alt_nticks)
After == Remaining(next', alarm', _alt_nticks')

\* They are the timers' own steps.
LEMMA StepsAre ==
  /\ Programs(Before, After, visited # Off, visited' # Off) => T!Program
  /\ Begins(Before, After, visited # Off, visited' # Off) => T!Tick
  /\ \A a \in AlarmIds : CallsOne(Before, After, visited # Off, visited' # Off, a) => T!Call(a)
  /\ Ends(Before, After, visited # Off, visited' # Off) => T!End
  /\ After = Before /\ (visited # Off <=> visited' # Off) /\ misuse' = misuse
       => UNCHANGED T!timers
<1> DEFINE R == [a \in AlarmIds |->
                  IF a \in Listed THEN (alarm[a].time - _alt_nticks) % Wrap ELSE Off]
<1>1. Before = R /\ After = R'
  BY DEF Before, After, Remaining, LeftTo, Left, Listed
<1>2. Programs(R, R', visited # Off, visited' # Off) => T!Program
  BY DEF Programs, T!Program, T!Stop, T!Start
<1>3. Begins(R, R', visited # Off, visited' # Off) => T!Tick
  BY DEF Begins, T!Tick
<1>4. \A a \in AlarmIds : CallsOne(R, R', visited # Off, visited' # Off, a) => T!Call(a)
  BY DEF CallsOne, Others, T!Call, T!Due
<1>5. Ends(R, R', visited # Off, visited' # Off) => T!End
  BY DEF Ends, T!End, T!Due
<1>6. R' = R /\ (visited # Off <=> visited' # Off) /\ misuse' = misuse => UNCHANGED T!timers
  BY DEF T!timers
<1> HIDE DEF R
<1> QED
  BY <1>1, <1>2, <1>3, <1>4, <1>5, <1>6

\* A map of ticks to the alarms is what it is at each alarm.
LEMMA RemainingAt ==
  ASSUME NEW n, NEW al, NEW t
  PROVE  /\ Remaining(n, al, t) = [a \in AlarmIds |-> Remaining(n, al, t)[a]]
         /\ \A a \in AlarmIds : Remaining(n, al, t)[a] = LeftTo(n, al, t, a)
BY DEF Remaining

\* The state of the alarms while no tick is under way, or during one, as long as
\* all calls are borne.
LEMMA TimedParts ==
  ASSUME AlarmInv, misuse = {}
  PROVE  /\ _alt_nticks \in Ticks /\ alarm \in [AlarmIds -> Record]
         /\ Links = LinksOf(next, previous) /\ visited \in Entries \cup {Off}
         /\ next \in Map /\ previous \in Map /\ Ring(next, previous)
         /\ Timed(next, previous, alarm, _alt_nticks, visited)
         /\ Off \notin Entries /\ Off \notin Nat
BY TypeParts, AlarmAssumption DEF AlarmInv, RingInv, Entries

\* An alarm that is reached and its ticks.
LEMMA LeftToIs ==
  ASSUME NEW n, NEW p, Ring(n, p), NEW al \in [AlarmIds -> Record], NEW t \in Ticks,
         NEW a \in AlarmIds
  PROVE  /\ n[a] = a => LeftTo(n, al, t, a) = Off
         /\ n[a] # a => LeftTo(n, al, t, a) = Left(al[a].time, t)
         /\ LeftTo(n, al, t, a) = Off <=> n[a] = a
         /\ al[a].time \in Ticks /\ al[a].rollover \in BOOLEAN
<1>1. a \in Reached(n) <=> n[a] # a
  BY ReachedIs
<1>2. al[a].time \in Ticks /\ al[a].rollover \in BOOLEAN
  BY DEF Record
<1>3. Left(al[a].time, t) \in Ticks
  BY <1>2, LeftFacts
<1>4. Left(al[a].time, t) # Off
  BY <1>3, AlarmAssumption DEF Ticks
<1> QED
  BY <1>1, <1>2, <1>4 DEF LeftTo

\* An alarm that is started, between the ticks or by a callback.
LEMMA StartKeeps ==
  ASSUME NEW n, NEW p, Ring(n, p), NEW al \in [AlarmIds -> Record], NEW t \in Ticks,
         NEW b \in AlarmIds, NEW k \in Periods \ {Wrap - 1}, NEW m, NEW q, NEW bl, Ring(m, q),
         Began(n, p, al, m, q, bl, b, t, k)
  PROVE  /\ bl \in [AlarmIds -> Record]
         /\ LeftTo(n, al, t, b) = Off /\ LeftTo(m, bl, t, b) = k + 1 /\ IsSet(bl[b], t)
         /\ \A c \in AlarmIds \ {b} :
              /\ bl[c] = al[c] /\ (m[c] # c <=> n[c] # c)
              /\ LeftTo(m, bl, t, c) = LeftTo(n, al, t, c)
<1>1. PICK r \in Record : r = Started(t, k) /\ Left(r.time, t) = k + 1 /\ IsSet(r, t)
  BY StartedFacts
<1>2. bl = [al EXCEPT ![b] = r] /\ n[b] = b
      /\ \A c \in AlarmIds : c \in Reached(m) <=> c \in Reached(n) \/ c = b
  BY <1>1 DEF Began
<1>3. bl \in [AlarmIds -> Record] /\ bl[b] = r /\ \A c \in AlarmIds \ {b} : bl[c] = al[c]
  BY <1>2
<1>4. \A c \in AlarmIds : (c \in Reached(m) <=> m[c] # c) /\ (c \in Reached(n) <=> n[c] # c)
  BY ReachedIs
<1> QED
  BY <1>1, <1>2, <1>3, <1>4 DEF LeftTo

\* One that is stopped.
LEMMA StopKeeps ==
  ASSUME NEW n, NEW p, Ring(n, p), NEW al \in [AlarmIds -> Record], NEW t \in Ticks,
         NEW b \in AlarmIds, NEW m, NEW q, Ring(m, q),
         \A c \in AlarmIds : c \in Reached(m) <=> c \in Reached(n) /\ c # b
  PROVE  /\ m[b] = b /\ LeftTo(m, al, t, b) = Off
         /\ \A c \in AlarmIds \ {b} :
              /\ m[c] # c <=> n[c] # c
              /\ LeftTo(m, al, t, c) = LeftTo(n, al, t, c)
<1>1. \A c \in AlarmIds : (c \in Reached(m) <=> m[c] # c) /\ (c \in Reached(n) <=> n[c] # c)
  BY ReachedIs
<1> QED
  BY <1>1 DEF LeftTo

\* The next state, and the step it takes.
Timely ==
  /\ Timed(next', previous', alarm', _alt_nticks', visited')
  /\ [T!Next]_(T!timers)

\* alt_alarm_start starts a timer.
LEMMA StartIsTimely ==
  ASSUME AlarmInv, RingInv', misuse = {}, misuse' = {}, alt_alarm_start PROVE Timely
<1>1. /\ _alt_nticks \in Ticks /\ alarm \in [AlarmIds -> Record]
      /\ Links = LinksOf(next, previous) /\ Ring(next, previous)
      /\ visited = Off /\ visited' = Off /\ _alt_nticks' = _alt_nticks
      /\ AllSet(next, alarm, _alt_nticks, AlarmIds)
  BY TimedParts DEF alt_alarm_start, Start, Timed
<1>2. Ring(next', previous')
  BY DEF RingInv
<1>3. PICK b \in AlarmIds, k \in Periods \ {Wrap - 1} :
        /\ alarm' = [alarm EXCEPT ![b] = Started(_alt_nticks, k)]
        /\ SetLinks(alt_llist_insert(Links, b)) /\ b \notin Listed
  <2>1. PICK b \in AlarmIds, k \in Periods : Start(b, k)
    BY DEF alt_alarm_start
  <2>2. MisusedBy(b, k) = {}
    BY <2>1 DEF Start
  <2>3. b \notin Listed /\ k # Wrap - 1
    BY <2>2, MisusedIs
  <2> QED
    BY <2>1, <2>3 DEF Start
<1>4. next[b] = b
  BY <1>1, <1>3, ReachedIs DEF Listed
<1>5. PICK l : l = alt_llist_insert(LinksOf(next, previous), b)
  OBVIOUS
<1>6. next' = l.next /\ previous' = l.previous
  BY <1>1, <1>3, <1>5 DEF SetLinks
<1>7. Began(next, previous, alarm, next', previous', alarm', b, _alt_nticks, k)
  BY <1>1, <1>3, <1>4, <1>5, <1>6, InsertRing DEF Began
<1>8. /\ LeftTo(next, alarm, _alt_nticks, b) = Off
      /\ LeftTo(next', alarm', _alt_nticks, b) = k + 1 /\ IsSet(alarm'[b], _alt_nticks)
      /\ \A c \in AlarmIds \ {b} :
           /\ alarm'[c] = alarm[c] /\ (next'[c] # c <=> next[c] # c)
           /\ LeftTo(next', alarm', _alt_nticks, c) = LeftTo(next, alarm, _alt_nticks, c)
  BY <1>1, <1>2, <1>7, StartKeeps
<1>9. Timed(next', previous', alarm', _alt_nticks', visited')
  BY <1>1, <1>8 DEF Timed, AllSet
<1>10. After = [Before EXCEPT ![b] = k + 1] /\ Before[b] = Off
  BY <1>1, <1>8 DEF Before, After, Remaining
<1>11. Programs(Before, After, visited # Off, visited' # Off)
  BY <1>1, <1>10 DEF Programs
<1> QED
  BY <1>9, <1>11, StepsAre DEF Timely, T!Next

\* alt_alarm_stop stops one.
LEMMA StopIsTimely ==
  ASSUME AlarmInv, RingInv', misuse = {}, misuse' = {}, alt_alarm_stop PROVE Timely
<1>1. /\ _alt_nticks \in Ticks /\ alarm \in [AlarmIds -> Record]
      /\ Links = LinksOf(next, previous) /\ Ring(next, previous)
      /\ visited = Off /\ visited' = Off /\ _alt_nticks' = _alt_nticks /\ alarm' = alarm
      /\ AllSet(next, alarm, _alt_nticks, AlarmIds)
  BY TimedParts DEF alt_alarm_stop, Timed
<1>2. Ring(next', previous')
  BY DEF RingInv
<1>3. PICK b \in AlarmIds : SetLinks(alt_llist_remove(Links, b))
  BY DEF alt_alarm_stop
<1>4. PICK l : l = alt_llist_remove(LinksOf(next, previous), b)
  OBVIOUS
<1>5. next' = l.next /\ previous' = l.previous
  BY <1>1, <1>3, <1>4 DEF SetLinks
<1>6. \A c \in AlarmIds : c \in Reached(next') <=> c \in Reached(next) /\ c # b
  BY <1>1, <1>4, <1>5, RemoveRing
<1>7. /\ next'[b] = b /\ LeftTo(next', alarm, _alt_nticks, b) = Off
      /\ \A c \in AlarmIds \ {b} :
           /\ next'[c] # c <=> next[c] # c
           /\ LeftTo(next', alarm, _alt_nticks, c) = LeftTo(next, alarm, _alt_nticks, c)
  BY <1>1, <1>2, <1>6, StopKeeps
<1>8. Timed(next', previous', alarm', _alt_nticks', visited')
  BY <1>1, <1>7 DEF Timed, AllSet
<1>9. After = [Before EXCEPT ![b] = Off]
  BY <1>1, <1>7 DEF Before, After, Remaining
<1>10. Programs(Before, After, visited # Off, visited' # Off)
  BY <1>1, <1>9 DEF Programs
<1> QED
  BY <1>8, <1>10, StepsAre DEF Timely, T!Next

\* A tick that begins brings all timers one tick nearer.
LEMMA TickBeginIsTimely ==
  ASSUME AlarmInv, misuse = {}, misuse' = {}, TickBegin PROVE Timely
<1>1. /\ _alt_nticks \in Ticks /\ alarm \in [AlarmIds -> Record]
      /\ Ring(next, previous) /\ visited = Off /\ visited' = next[alt_alarm_list]
      /\ next' = next /\ previous' = previous /\ alarm' = alarm
      /\ AllSet(next, alarm, _alt_nticks, AlarmIds)
      /\ Off \notin Entries /\ next \in Map
  BY TimedParts DEF TickBegin, Timed
<1>2. PICK t \in Ticks : t = _alt_nticks' /\ t = (_alt_nticks + 1) % Wrap
  BY <1>1, LeftFacts DEF TickBegin
<1>3. visited' \in Entries /\ visited' # Off
  BY <1>1, EntriesFacts DEF Map
<1>4. Visited(next, previous, {}, visited')
  BY <1>1, WalkBegins
<1>5. ASSUME NEW a \in AlarmIds, next[a] # a
      PROVE  /\ Waits(alarm[a], t)
             /\ Left(alarm[a].time, t) = Left(alarm[a].time, _alt_nticks) - 1
  <2>1. IsSet(alarm[a], _alt_nticks)
    BY <1>1, <1>5 DEF AllSet
  <2>2. alarm[a].time \in Ticks /\ alarm[a].rollover \in BOOLEAN
    BY <1>1 DEF Record
  <2>3. PICK u \in Ticks, f \in BOOLEAN : u = alarm[a].time /\ f = alarm[a].rollover
    BY <2>2
  <2>4. u # _alt_nticks /\ f = (u < _alt_nticks)
    BY <2>1, <2>3 DEF IsSet
  <2>5. t = (IF _alt_nticks + 1 < Wrap THEN _alt_nticks + 1 ELSE 0)
    BY <1>1, <1>2, LeftFacts
  <2>6. Left(u, t) = Left(u, _alt_nticks) - 1
    BY <1>1, <1>2, <2>4, LeftFacts
  <2>7. u \in Nat /\ t \in Nat /\ _alt_nticks \in Nat /\ Wrap \in Nat /\ u < Wrap
    BY <1>1, AlarmAssumption DEF Ticks
  <2>8. CASE _alt_nticks + 1 < Wrap
    <3>1. t # 0 /\ (u < t <=> u < _alt_nticks)
      BY <2>4, <2>5, <2>7, <2>8
    <3>2. CASE u < t
      <4>1. f
        BY <2>4, <3>1, <3>2
      <4> QED
        BY <2>3, <2>6, <3>1, <3>2, <4>1 DEF Waits
    <3>3. CASE ~ (u < t)
      <4>1. ~ f
        BY <2>4, <3>1, <3>3
      <4> QED
        BY <2>3, <2>6, <3>1, <3>3, <4>1 DEF Waits
    <3> QED
      BY <3>2, <3>3
  <2>9. CASE ~ (_alt_nticks + 1 < Wrap)
    <3>1. t = 0 /\ ~ (u < t)
      BY <2>5, <2>7, <2>9
    <3> QED
      BY <2>3, <2>6, <3>1 DEF Waits
  <2> QED
    BY <2>8, <2>9
<1>6. Timed(next', previous', alarm', _alt_nticks', visited')
  BY <1>1, <1>2, <1>3, <1>4, <1>5 DEF Timed, AllSet
<1>7. ASSUME NEW a \in AlarmIds
      PROVE  LeftTo(next, alarm, t, a)
               = IF LeftTo(next, alarm, _alt_nticks, a) = Off THEN Off
                 ELSE LeftTo(next, alarm, _alt_nticks, a) - 1
  <2>1. CASE next[a] = a
    BY <1>1, <1>2, <2>1, LeftToIs
  <2>2. CASE next[a] # a
    BY <1>1, <1>2, <1>5, <2>2, LeftToIs
  <2> QED
    BY <2>1, <2>2
<1>8. After = [a \in AlarmIds |-> IF Before[a] = Off THEN Off ELSE Before[a] - 1]
  BY <1>1, <1>2, <1>7 DEF Before, After, Remaining
<1>9. Begins(Before, After, visited # Off, visited' # Off)
  BY <1>1, <1>3, <1>8 DEF Begins
<1> QED
  BY <1>6, <1>9, StepsAre DEF Timely, T!Next

\* One that ends has no timer due.
LEMMA TickEndIsTimely ==
  ASSUME AlarmInv, misuse = {}, misuse' = {}, TickEnd PROVE Timely
<1>1. /\ _alt_nticks \in Ticks /\ alarm \in [AlarmIds -> Record]
      /\ Ring(next, previous) /\ visited = alt_alarm_list /\ visited' = Off
      /\ next' = next /\ previous' = previous /\ alarm' = alarm /\ _alt_nticks' = _alt_nticks
      /\ visited # Off /\ Off \notin Nat
  BY TimedParts, EntriesFacts DEF TickEnd
<1>2. PICK V \in SUBSET AlarmIds : /\ Visited(next, previous, V, alt_alarm_list)
                                   /\ AllSet(next, alarm, _alt_nticks, V)
  BY <1>1, TimedParts DEF Timed
<1>3. \A a \in AlarmIds : next[a] # a => IsSet(alarm[a], _alt_nticks)
  BY <1>1, <1>2, WalkEnds DEF AllSet
<1>4. Timed(next', previous', alarm', _alt_nticks', visited')
  BY <1>1, <1>3 DEF Timed, AllSet
<1>5. ASSUME NEW a \in AlarmIds PROVE Before[a] # 0
  <2>1. CASE next[a] = a
    BY <1>1, <2>1, LeftToIs DEF Before, Remaining
  <2>2. CASE next[a] # a
    <3>1. alarm[a].time # _alt_nticks
      BY <1>3, <2>2 DEF IsSet
    <3>2. Before[a] = Left(alarm[a].time, _alt_nticks) /\ alarm[a].time \in Ticks
      BY <1>1, <2>2, LeftToIs DEF Before, Remaining
    <3> QED
      BY <1>1, <3>1, <3>2, LeftFacts
  <2> QED
    BY <2>1, <2>2
<1>6. Ends(Before, After, visited # Off, visited' # Off)
  BY <1>1, <1>5 DEF Ends, Before, After
<1> QED
  BY <1>4, <1>6, StepsAre DEF Timely, T!Next

\* An alarm that is passed is not due: no timer moves.
LEMMA PassIsTimely ==
  ASSUME AlarmInv, misuse = {}, misuse' = {}, Pass PROVE Timely
<1>1. /\ _alt_nticks \in Ticks /\ alarm \in [AlarmIds -> Record]
      /\ Ring(next, previous) /\ visited \in AlarmIds /\ visited' = next[visited]
      /\ next' = next /\ previous' = previous /\ _alt_nticks' = _alt_nticks
      /\ alarm' = [alarm EXCEPT ![visited].rollover = Flag(alarm[visited], _alt_nticks)]
      /\ visited # Off /\ Off \notin Entries /\ next \in Map
      /\ ~ Expired(alarm[visited], _alt_nticks)
  BY TimedParts, EntriesFacts DEF Pass, Visits
<1>2. PICK v \in AlarmIds : v = visited
  BY <1>1
<1>3. PICK V \in SUBSET AlarmIds : /\ Visited(next, previous, V, v)
                                   /\ AllSet(next, alarm, _alt_nticks, V)
  BY <1>1, <1>2, TimedParts DEF Timed
<1>4. Visited(next, previous, V \cup {v}, next[v]) /\ next[v] # v
  BY <1>1, <1>3, WalkGoesOn
<1>5. visited' = next[v] /\ visited' \in Entries /\ visited' # Off
  BY <1>1, <1>2, EntriesFacts DEF Map
<1>6. Waits(alarm[v], _alt_nticks)
  BY <1>3, <1>4 DEF AllSet, Visited
<1>7. PICK u \in Ticks, f \in BOOLEAN : alarm[v] = [time |-> u, rollover |-> f]
  BY <1>1 DEF Record
<1>8. alarm'[v] = [time |-> u, rollover |-> (f /\ _alt_nticks # 0)]
  BY <1>1, <1>2, <1>7 DEF Flag
<1>9. \A c \in AlarmIds \ {v} : alarm'[c] = alarm[c]
  BY <1>1, <1>2
<1>10. IsSet(alarm'[v], _alt_nticks)
  <2>1. (f /\ _alt_nticks # 0) = (u < _alt_nticks)
    BY <1>6, <1>7 DEF Waits
  <2>2. ~ (u <= _alt_nticks) \/ (f /\ _alt_nticks # 0)
    BY <1>1, <1>2, <1>7 DEF Expired, Flag
  <2>3. u \in Nat /\ _alt_nticks \in Nat
    BY <1>1 DEF Ticks
  <2>4. u # _alt_nticks
    BY <2>1, <2>2, <2>3
  <2> QED
    BY <1>8, <2>1, <2>4 DEF IsSet
<1>11. AllSet(next, alarm', _alt_nticks, V \cup {v})
  BY <1>3, <1>9, <1>10 DEF AllSet
<1>12. Timed(next', previous', alarm', _alt_nticks', visited')
  BY <1>1, <1>4, <1>5, <1>11 DEF Timed
<1>13. \A c \in AlarmIds : alarm'[c].time = alarm[c].time
  BY <1>7, <1>8, <1>9
<1>14. After = Before
  BY <1>1, <1>13 DEF After, Before, Remaining, LeftTo
<1> QED
  BY <1>1, <1>5, <1>12, <1>14, StepsAre DEF Timely

\* The alarms but a, the one that is called, during a tick.
SetBut(n, p, al, t, a, v) ==
  \E V \in SUBSET AlarmIds :
    /\ a \in V /\ Visited(n, p, V, v)
    /\ \A c \in AlarmIds \ {a} : n[c] # c => IF c \in V THEN IsSet(al[c], t) ELSE Waits(al[c], t)

\* The callback changes one alarm at most, but a.
OneOther(n, al, m, bl, t, a) ==
  \E b \in AlarmIds : \E x \in Others(Remaining(n, al, t), b) :
    \A c \in AlarmIds \ {a} :
      LeftTo(m, bl, t, c) = IF c = b THEN x ELSE LeftTo(n, al, t, c)

\* Whatever the callback of the alarm a does that is borne.
LEMMA EffectIsTimely ==
  ASSUME AlarmInv, misuse = {}, NEW alarms \in [AlarmIds -> Record], NEW a \in AlarmIds, next[a] # a,
         SetBut(next, previous, alarms, _alt_nticks, a, next[a]),
         NEW m, NEW q, NEW bl \in [AlarmIds -> Record], Ring(m, q), Effect(a, alarms, m, q, bl)
  PROVE  /\ bl[a] = alarms[a]
         /\ SetBut(m, q, bl, _alt_nticks, a, next[a])
         /\ OneOther(next, alarms, m, bl, _alt_nticks, a)
<1>1. /\ _alt_nticks \in Ticks /\ Ring(next, previous)
  BY TimedParts
<1>2. PICK V \in SUBSET AlarmIds :
        /\ a \in V /\ Visited(next, previous, V, next[a])
        /\ \A c \in AlarmIds \ {a} : next[c] # c =>
             IF c \in V THEN IsSet(alarms[c], _alt_nticks) ELSE Waits(alarms[c], _alt_nticks)
  BY DEF SetBut
<1>3. PICK r : r = Remaining(next, alarms, _alt_nticks)
  OBVIOUS
<1>4. \A c \in AlarmIds : r[c] = LeftTo(next, alarms, _alt_nticks, c)
  BY <1>3, RemainingAt
<1>5. CASE Nothing(next, previous, alarms, m, q, bl)
  <2>1. m = next /\ q = previous /\ bl = alarms
    BY <1>5 DEF Nothing
  <2>2. r[a] \in Others(r, a)
    BY DEF Others
  <2> QED
    BY <1>3, <2>1, <2>2 DEF OneOther
<1>6. ASSUME NEW b \in AlarmIds, b # next[a],
             Stopped(next, previous, alarms, m, q, bl, b)
      PROVE  /\ bl[a] = alarms[a]
             /\ SetBut(m, q, bl, _alt_nticks, a, next[a])
             /\ OneOther(next, alarms, m, bl, _alt_nticks, a)
  <2>1. /\ bl = alarms /\ Removed(next, previous, b, m, q)
        /\ \A c \in AlarmIds : c \in Reached(m) <=> c \in Reached(next) /\ c # b
    BY <1>6 DEF Stopped
  <2>2. Visited(m, q, V, next[a])
    BY <1>1, <1>2, <1>6, <2>1, WalkRemoves
  <2>3. /\ m[b] = b /\ LeftTo(m, alarms, _alt_nticks, b) = Off
        /\ \A c \in AlarmIds \ {b} :
             /\ m[c] # c <=> next[c] # c
             /\ LeftTo(m, alarms, _alt_nticks, c) = LeftTo(next, alarms, _alt_nticks, c)
    BY <1>1, <2>1, StopKeeps
  <2>4. SetBut(m, q, bl, _alt_nticks, a, next[a])
    BY <1>2, <2>1, <2>2, <2>3 DEF SetBut
  <2>5. Off \in Others(r, b)
    BY DEF Others
  <2>6. OneOther(next, alarms, m, bl, _alt_nticks, a)
    BY <1>3, <2>1, <2>3, <2>5 DEF OneOther
  <2> QED
    BY <2>1, <2>4, <2>6
<1>7. ASSUME NEW b \in AlarmIds, NEW k \in Periods \ {Wrap - 1},
             Began(next, previous, alarms, m, q, bl, b, _alt_nticks, k)
      PROVE  /\ bl[a] = alarms[a]
             /\ SetBut(m, q, bl, _alt_nticks, a, next[a])
             /\ OneOther(next, alarms, m, bl, _alt_nticks, a)
  <2>1. next[b] = b /\ Inserted(next, previous, b, m, q) /\ b # a
    BY <1>7 DEF Began
  <2>2. Visited(m, q, V \cup {b}, next[a])
    BY <1>1, <1>2, <2>1, WalkInserts
  <2>3. /\ LeftTo(next, alarms, _alt_nticks, b) = Off
        /\ LeftTo(m, bl, _alt_nticks, b) = k + 1 /\ IsSet(bl[b], _alt_nticks)
        /\ \A c \in AlarmIds \ {b} :
             /\ bl[c] = alarms[c] /\ (m[c] # c <=> next[c] # c)
             /\ LeftTo(m, bl, _alt_nticks, c) = LeftTo(next, alarms, _alt_nticks, c)
    BY <1>1, <1>7, StartKeeps
  <2>4. SetBut(m, q, bl, _alt_nticks, a, next[a])
    <3>1. V \cup {b} \in SUBSET AlarmIds /\ a \in V \cup {b}
      BY <1>2
    <3>2. \A c \in AlarmIds \ {a} : m[c] # c =>
            IF c \in V \cup {b} THEN IsSet(bl[c], _alt_nticks) ELSE Waits(bl[c], _alt_nticks)
      BY <1>2, <2>3
    <3> QED
      BY <2>2, <3>1, <3>2 DEF SetBut
  <2>5. k + 1 \in Others(r, b)
    BY <1>4, <2>3 DEF Others
  <2>6. OneOther(next, alarms, m, bl, _alt_nticks, a)
    BY <1>3, <2>3, <2>5 DEF OneOther
  <2> QED
    BY <2>1, <2>3, <2>4, <2>6
<1> QED
  BY <1>5, <1>6, <1>7 DEF Effect

\* A callback is the call of a timer that is due: it is stopped or set again.
LEMMA CallbackIsTimely ==
  ASSUME AlarmInv, RingInv', misuse = {}, misuse' = {}, Callback PROVE Timely
<1>1. /\ _alt_nticks \in Ticks /\ alarm \in [AlarmIds -> Record]
      /\ Ring(next, previous) /\ visited # Off /\ Off \notin Entries /\ next \in Map
      /\ Timed(next, previous, alarm, _alt_nticks, visited)
  BY TimedParts, EntriesFacts DEF Callback, Visits
<1>2. PICK a \in AlarmIds : a = visited /\ Expired(alarm[a], _alt_nticks)
  BY CallbackFacts DEF AlarmInv
<1>3. visited' = next[a] /\ _alt_nticks' = _alt_nticks /\ Ring(next', previous')
  BY <1>2 DEF Callback, RingInv
<1>4. PICK V \in SUBSET AlarmIds : /\ Visited(next, previous, V, a)
                                   /\ AllSet(next, alarm, _alt_nticks, V)
  BY <1>1, <1>2 DEF Timed
<1>5. Visited(next, previous, V \cup {a}, next[a]) /\ next[a] # a
  BY <1>1, <1>4, WalkGoesOn
<1>6. visited' \in Entries /\ visited' # Off
  BY <1>1, <1>3, EntriesFacts DEF Map
<1>7. PICK al \in [AlarmIds -> Record] :
         /\ al = Cleared /\ al[a] = [alarm[a] EXCEPT !.rollover = FALSE]
         /\ \A c \in AlarmIds \ {a} : al[c] = alarm[c]
  BY <1>1, <1>2, CallbackFacts DEF AlarmInv, Cleared
<1>8. SetBut(next, previous, al, _alt_nticks, a, next[a])
  <2>1. V \cup {a} \in SUBSET AlarmIds
    OBVIOUS
  <2>2. \A c \in AlarmIds \ {a} : next[c] # c =>
          IF c \in V \cup {a} THEN IsSet(al[c], _alt_nticks) ELSE Waits(al[c], _alt_nticks)
    BY <1>4, <1>7 DEF AllSet
  <2> QED
    BY <1>5, <2>1, <2>2 DEF SetBut
<1>9. alarm[a] \in Record /\ alarm[a].time = _alt_nticks
  <2>1. PICK u \in Ticks, f \in BOOLEAN : alarm[a] = [time |-> u, rollover |-> f]
    BY <1>1 DEF Record
  <2>2. (f /\ _alt_nticks # 0) = (u < _alt_nticks)
    BY <1>4, <1>5, <2>1 DEF AllSet, Visited, Waits
  <2>3. u <= _alt_nticks /\ ~ (f /\ _alt_nticks # 0)
    BY <1>2, <2>1 DEF Expired, Flag
  <2>4. ~ (u < _alt_nticks)
    BY <2>2, <2>3
  <2> QED
    BY <1>1, <2>1, <2>3, <2>4 DEF Ticks
<1>10. LeftTo(next, alarm, _alt_nticks, a) = 0
  BY <1>1, <1>5, <1>9, LeftToIs, LeftFacts
<1>11. al[a] \in Record /\ al[a].time = _alt_nticks /\ ~ al[a].rollover
  BY <1>9, <1>7 DEF Record
<1>12. PICK g, bl, n, w :
         /\ n \in Periods \cup {0} /\ Leaves(a, al, g, bl, w)
         /\ \/ /\ n = 0 /\ SetLinks(alt_llist_remove(g, a)) /\ alarm' = bl
            \/ /\ n # 0 /\ SetLinks(g) /\ alarm' = [bl EXCEPT ![a] = Again(bl[a], n)]
         /\ misuse' = misuse \cup w
  BY <1>2, <1>7, CallbackFacts DEF AlarmInv
<1>13. PICK m, q : m = g.next /\ q = g.previous
  OBVIOUS
<1>14. /\ n \in Periods \cup {0} /\ Ring(m, q) /\ g = LinksOf(m, q)
       /\ bl \in [AlarmIds -> Record] /\ Effect(a, al, m, q, bl)
       /\ \/ /\ n = 0
             /\ SetLinks(alt_llist_remove(LinksOf(m, q), a)) /\ alarm' = bl
          \/ /\ n # 0 /\ next' = m /\ previous' = q
             /\ alarm' = [bl EXCEPT ![a] = Again(bl[a], n)]
  <2>1. misuse \cup w = {} /\ next[a] # a
    BY <1>5, <1>12
  <2>2. /\ Ring(m, q) /\ g = LinksOf(m, q)
        /\ bl \in [AlarmIds -> Record] /\ Effect(a, al, m, q, bl)
    BY <1>12, <1>13, <2>1 DEF Leaves
  <2> QED
    BY <1>12, <1>13, <2>2 DEF SetLinks
<1>15. /\ bl[a] = al[a]
       /\ SetBut(m, q, bl, _alt_nticks, a, next[a])
       /\ OneOther(next, al, m, bl, _alt_nticks, a)
  BY <1>5, <1>8, <1>14, EffectIsTimely
<1>16. PICK W \in SUBSET AlarmIds :
         /\ a \in W /\ Visited(m, q, W, next[a])
         /\ \A c \in AlarmIds \ {a} : m[c] # c =>
              IF c \in W THEN IsSet(bl[c], _alt_nticks) ELSE Waits(bl[c], _alt_nticks)
  BY <1>15 DEF SetBut
<1>17. /\ \E y \in (Periods \ {0}) \cup {Off} : LeftTo(next', alarm', _alt_nticks, a) = y
       /\ \A c \in AlarmIds \ {a} :
            LeftTo(next', alarm', _alt_nticks, c) = LeftTo(m, bl, _alt_nticks, c)
       /\ Visited(next', previous', W, next[a]) /\ AllSet(next', alarm', _alt_nticks, W)
  <2>1. CASE /\ n = 0
             /\ SetLinks(alt_llist_remove(LinksOf(m, q), a)) /\ alarm' = bl
    <3>1. PICK l : l = alt_llist_remove(LinksOf(m, q), a)
      OBVIOUS
    <3>2. next' = l.next /\ previous' = l.previous
      BY <2>1, <3>1 DEF SetLinks
    <3>3. /\ Removed(m, q, a, next', previous')
          /\ \A c \in AlarmIds : c \in Reached(next') <=> c \in Reached(m) /\ c # a
      BY <1>14, <3>1, <3>2, RemoveRing
    <3>4. Visited(next', previous', W, next[a])
      BY <1>5, <1>14, <1>16, <3>3, WalkRemoves
    <3>5. \A c \in AlarmIds \ {a} : alarm'[c] = bl[c]
      BY <1>14, <2>1
    <3>6. /\ next'[a] = a
          /\ \A c \in AlarmIds \ {a} : next'[c] # c <=> m[c] # c
      BY <1>3, <1>14, <3>3, ReachedIs
    <3>7. AllSet(next', alarm', _alt_nticks, W)
      BY <1>16, <3>5, <3>6 DEF AllSet
    <3>8. LeftTo(next', alarm', _alt_nticks, a) = Off
      BY <3>3 DEF LeftTo
    <3>9. \A c \in AlarmIds \ {a} :
            LeftTo(next', alarm', _alt_nticks, c) = LeftTo(m, bl, _alt_nticks, c)
      BY <3>3, <3>5 DEF LeftTo
    <3> QED
      BY <3>4, <3>7, <3>8, <3>9
  <2>2. CASE /\ n # 0 /\ next' = m /\ previous' = q
             /\ alarm' = [bl EXCEPT ![a] = Again(bl[a], n)]
    <3>1. n \in Periods /\ n # 0
      BY <1>14, <2>2
    <3>2. PICK s \in Record : s = Again(bl[a], n) /\ Left(s.time, _alt_nticks) = n
                              /\ IsSet(s, _alt_nticks)
      BY <1>1, <1>15, <1>11, <3>1, AgainFacts
    <3>3. alarm'[a] = s /\ \A c \in AlarmIds \ {a} : alarm'[c] = bl[c]
      BY <1>14, <2>2, <3>2
    <3>4. AllSet(next', alarm', _alt_nticks, W)
      BY <1>16, <2>2, <3>2, <3>3 DEF AllSet
    <3>5. LeftTo(next', alarm', _alt_nticks, a) \in {n, Off}
      BY <3>2, <3>3 DEF LeftTo
    <3>6. \A c \in AlarmIds \ {a} :
            LeftTo(next', alarm', _alt_nticks, c) = LeftTo(m, bl, _alt_nticks, c)
      BY <2>2, <3>3 DEF LeftTo
    <3> QED
      BY <1>16, <2>2, <3>1, <3>4, <3>5, <3>6
  <2> QED
    BY <1>14, <2>1, <2>2
<1>18. Timed(next', previous', alarm', _alt_nticks', visited')
  BY <1>3, <1>6, <1>17 DEF Timed
<1>19. PICK y \in (Periods \ {0}) \cup {Off} : LeftTo(next', alarm', _alt_nticks, a) = y
  BY <1>17
<1>20. PICK b \in AlarmIds : \E x \in Others(Before, b) :
         \A c \in AlarmIds \ {a} :
           LeftTo(m, bl, _alt_nticks, c) = IF c = b THEN x ELSE LeftTo(next, alarm, _alt_nticks, c)
  <2>1. \A c \in AlarmIds : LeftTo(next, al, _alt_nticks, c) = LeftTo(next, alarm, _alt_nticks, c)
    BY <1>9, <1>7, <1>11 DEF LeftTo
  <2>2. Remaining(next, al, _alt_nticks) = Before
    BY <2>1 DEF Remaining, Before
  <2> QED
    BY <1>15, <2>1, <2>2 DEF OneOther
<1>21. PICK x \in Others(Before, b) :
         \A c \in AlarmIds \ {a} :
           LeftTo(m, bl, _alt_nticks, c) = IF c = b THEN x ELSE LeftTo(next, alarm, _alt_nticks, c)
  BY <1>20
<1>22. \A c \in AlarmIds : Before[c] = LeftTo(next, alarm, _alt_nticks, c)
  BY DEF Before, Remaining
<1>23. After = [c \in AlarmIds |-> LeftTo(next', alarm', _alt_nticks, c)]
  BY <1>3 DEF After, Remaining
<1>24. \A c \in AlarmIds : LeftTo(next', alarm', _alt_nticks, c)
                             = IF c = a THEN y ELSE IF c = b THEN x ELSE Before[c]
  BY <1>17, <1>19, <1>21, <1>22
<1>25. After = [c \in AlarmIds |-> IF c = a THEN y ELSE IF c = b THEN x ELSE Before[c]]
  BY <1>23, <1>24
<1>26. CallsOne(Before, After, visited # Off, visited' # Off, a)
  BY <1>1, <1>6, <1>10, <1>22, <1>25 DEF CallsOne
<1> QED
  BY <1>18, <1>26, StepsAre DEF Timely, T!Next

\* What was called is not forgotten.
LEMMA MisuseStays ==
  ASSUME [AlarmNext]_alarmVars, misuse' = {} PROVE misuse = {}
<1>1. CASE alt_alarm_start
  BY <1>1 DEF alt_alarm_start, Start
<1>2. CASE Callback
  BY <1>2 DEF Callback
<1>3. CASE UNCHANGED misuse
  BY <1>3
<1>4. alt_alarm_start \/ Callback \/ UNCHANGED misuse
  BY DEF AlarmNext, alt_tick, alt_sysclk_init, alt_alarm_stop, TickBegin, Pass, TickEnd, alarmVars
<1> QED
  BY <1>1, <1>2, <1>3, <1>4

\* Every step keeps the times and is the timers' step, or none.
LEMMA TimelyStep ==
  ASSUME AlarmInv, [AlarmNext]_alarmVars PROVE AlarmInv' /\ [T!Next]_(T!timers)
<1>1. RingInv'
  BY RingStep DEF AlarmInv
<1>2. CASE misuse' # {}
  BY <1>1, <1>2 DEF AlarmInv, T!Next
<1>3. CASE misuse' = {}
  <2>1. misuse = {}
    BY <1>3, MisuseStays
  <2>2. SUFFICES Timely
    BY <1>1 DEF AlarmInv, Timely, Timed, AllSet, Visited, IsSet, Waits
  <2>3. ASSUME next' = next, previous' = previous, alarm' = alarm, _alt_nticks' = _alt_nticks,
               visited' = visited
        PROVE  Timely
    <3>1. Timed(next', previous', alarm', _alt_nticks', visited')
      BY <2>1, <2>3 DEF AlarmInv
    <3>2. After = Before
      BY <2>3 DEF After, Before
    <3> QED
      BY <1>3, <2>1, <2>3, <3>1, <3>2, StepsAre DEF Timely
  <2>4. CASE alt_sysclk_init
    BY <2>3, <2>4 DEF alt_sysclk_init
  <2>5. CASE UNCHANGED alarmVars
    BY <2>3, <2>5 DEF alarmVars
  <2> QED
    BY <1>1, <1>3, <2>1, <2>4, <2>5, StartIsTimely, StopIsTimely, TickBeginIsTimely,
       PassIsTimely, CallbackIsTimely, TickEndIsTimely DEF AlarmNext, alt_tick
<1> QED
  BY <1>2, <1>3

\* No timer is set at first.
LEMMA TimelyInit == ASSUME AlarmInit PROVE AlarmInv /\ T!Init
<1>1. RingInv /\ misuse = {}
  BY RingInit DEF AlarmInit
<1>2. /\ visited = Off /\ \A a \in AlarmIds : next[a] = a
  BY EntriesFacts DEF AlarmInit
<1>3. Timed(next, previous, alarm, _alt_nticks, visited)
  BY <1>2 DEF Timed, AllSet
<1>4. Listed = {}
  BY <1>1, <1>2, ReachedIs DEF Listed, RingInv, Reached
<1>5. T!Init
  BY <1>1, <1>2, <1>4 DEF T!Init
<1> QED
  BY <1>1, <1>3, <1>5 DEF AlarmInv

\* Every alarm is called at the tick it was set for, exactly, whatever is started
\* and stopped meanwhile and however often the counter wraps round, until an alarm
\* is started that is registered, or for as many ticks as the counter has values
\* less one, or a callback stops the alarm that is visited next.
THEOREM AlarmsAreTimely == AlarmSpec => CallsAreTimely
<1>1. AlarmInit => AlarmInv /\ T!Init
  BY TimelyInit
<1>2. AlarmInv /\ [AlarmNext]_alarmVars => AlarmInv' /\ [T!Next]_(T!timers)
  BY TimelyStep
<1> QED
  BY <1>1, <1>2, PTL DEF AlarmSpec, CallsAreTimely, T!SafeSpec

-----------------------------------------------------------------------------
(* The time of day, for any length of a second, any rate of the clock and *)
(* any width of the microseconds' product: ticks and microseconds. *)

\* The whole seconds of x ticks, and the microseconds beyond them, are together
\* the microseconds of x ticks, where t ticks of k microseconds are a second.
IsWhole(x, t, k, u) == u * (x \div t) + ((x * k) % u) = x * k

\* A count of microseconds splits into whole seconds and a rest.
LEMMA Whole ==
  ASSUME NEW x \in Nat, NEW t \in Nat \ {0}, NEW k \in Nat \ {0},
         NEW u \in Nat \ {0}, u = t * k
  PROVE  IsWhole(x, t, k, u)
<1>1. PICK q \in Int : q = x \div t
  BY DivMod
<1>2. PICK r \in 0 .. t - 1 : r = x % t
  BY DivMod
<1>3. x = t * q + r
  BY <1>1, <1>2, DivMod
<1>4. x * k = u * q + r * k
  <2>1. (t * q + r) * k = (t * q) * k + r * k
    OBVIOUS
  <2>2. (t * q) * k = (t * k) * q
    OBVIOUS
  <2> QED
    BY <1>3, <2>1, <2>2
<1>5. r * k \in 0 .. u - 1
  <2>1. r * k >= 0
    OBVIOUS
  <2>2. (r + 1) * k <= t * k
    OBVIOUS
  <2>3. (r + 1) * k = r * k + k
    OBVIOUS
  <2> QED
    BY <2>1, <2>2, <2>3
<1>6. x * k \in Int
  OBVIOUS
<1>7. (x * k) % u = r * k
  BY <1>4, <1>5, <1>6, DivModUnique
<1>8. u * (x \div t) = u * q
  BY <1>1
<1> QED
  BY <1>4, <1>7, <1>8 DEF IsWhole

-----------------------------------------------------------------------------
(* The clock. *)

\* The rate divides a second, so that a tick is a whole number of microseconds.
Divides == tick_rate # 0 /\ ALT_US % tick_rate = 0

\* A tick rate that divides a second makes a tick a whole number of microseconds.
LEMMA TickFacts ==
  ASSUME tick_rate \in 0 .. ALT_US, Divides
  PROVE  /\ ALT_US \div tick_rate \in Nat \ {0}
         /\ ALT_US = tick_rate * (ALT_US \div tick_rate)
<1>1. ALT_US \in Nat \ {0} /\ tick_rate \in Nat \ {0}
  BY ClockAssumption DEF Divides
<1>2. PICK k \in Int : k = ALT_US \div tick_rate
  BY <1>1, DivMod
<1>3. ALT_US = tick_rate * k
  <2>1. ALT_US = tick_rate * k + (ALT_US % tick_rate)
    BY <1>1, <1>2, DivMod
  <2>2. ALT_US % tick_rate = 0
    BY DEF Divides
  <2>3. tick_rate * k \in Int
    BY <1>1
  <2> QED
    BY <1>1, <2>1, <2>2, <2>3
<1>4. k > 0
  <2>1. SUFFICES ASSUME k <= 0 PROVE FALSE
    BY <1>2
  <2>2. tick_rate * k <= 0
    BY <1>1, <2>1
  <2> QED
    BY <1>1, <1>3, <2>2
<1> QED
  BY <1>2, <1>3, <1>4

\* The loops of gettimeofday keep the time, if it is not before the start.
LEMMA NormalKeeps ==
  ASSUME NEW sec \in Int, NEW usec \in Int, sec * ALT_US + usec >= 0
  PROVE  Micros(Normal(sec, usec)) = sec * ALT_US + usec
<1>1. ALT_US \in Nat \ {0}
  BY ClockAssumption
<1>2. PICK q \in Int : q = usec \div ALT_US
  BY <1>1, DivMod
<1>3. PICK r \in 0 .. ALT_US - 1 : r = usec % ALT_US
  BY <1>1, DivMod
<1>4. usec = ALT_US * q + r
  BY <1>1, <1>2, <1>3, DivMod
<1>5. (sec + q) * ALT_US = sec * ALT_US + ALT_US * q
  BY <1>1
<1>6. ~ (sec < -q)
  <2>1. SUFFICES ASSUME sec + q <= -1 PROVE FALSE
    OBVIOUS
  <2>2. (sec + q) * ALT_US <= -ALT_US
    BY <1>1, <2>1
  <2>3. sec * ALT_US \in Int /\ ALT_US * q \in Int
    BY <1>1
  <2> QED
    BY <1>1, <1>4, <1>5, <2>2, <2>3
<1>7. Normal(sec, usec) = [sec |-> sec + q, usec |-> r]
  BY <1>2, <1>3, <1>6 DEF Normal
<1>8. Micros(Normal(sec, usec)) = (sec + q) * ALT_US + r
  BY <1>7 DEF Micros
<1>9. sec * ALT_US \in Int /\ ALT_US * q \in Int
  BY <1>1
<1> QED
  BY <1>4, <1>5, <1>8, <1>9

-----------------------------------------------------------------------------
(* The invariant: resettime is what the last settimeofday made of its time, *)
(* at a tick that has gone by.                                              *)

Time == [sec : Nat, usec : 0 .. ALT_US - 1]

ClockType ==
  /\ tick_rate \in 0 .. ALT_US /\ nticks \in 0 .. TwoTo32 - 1
  /\ set \in [time : Time, at : Nat] /\ rolled \in BOOLEAN
  /\ ~ rolled => set.at <= nticks

ResetIs ==
  tick_rate # 0 =>
    /\ resettime.sec = set.time.sec - set.at \div tick_rate
    /\ resettime.usec = set.time.usec - Fraction32(set.at)

ClockInv == ClockType /\ ResetIs

\* No ticks amount to no time.
LEMMA ZeroTicks ==
  ASSUME tick_rate \in 0 .. ALT_US, tick_rate # 0
  PROVE  0 \div tick_rate = 0 /\ Fraction32(0) = 0
<1>1. /\ ALT_US \in Nat \ {0} /\ TwoTo32 \in Nat \ {0} /\ tick_rate \in Nat \ {0}
  BY ClockAssumption
<1>2. 0 \div tick_rate = 0
  BY <1>1, DivModUnique
<1>3. PICK k \in Int : k = ALT_US \div tick_rate
  BY <1>1, DivMod
<1>4. 0 * k = 0
  OBVIOUS
<1>5. 0 % TwoTo32 = 0 /\ 0 % ALT_US = 0
  BY <1>1, SmallMod
<1> QED
  BY <1>2, <1>3, <1>4, <1>5 DEF Fraction32

\* The initial states satisfy the invariant.
LEMMA ClockInitOK == ClockInit => ClockInv
<1> SUFFICES ASSUME ClockInit PROVE ClockInv
  OBVIOUS
<1>1. /\ tick_rate \in 0 .. ALT_US /\ nticks = 0
      /\ resettime = Zero /\ set = [time |-> Zero, at |-> 0] /\ rolled = FALSE
  BY ClockAssumption DEF ClockInit
<1>2. Zero \in Time
  BY ClockAssumption DEF Zero, Time
<1>3. ClockType
  <2>1. 0 \in 0 .. TwoTo32 - 1
    BY ClockAssumption
  <2>2. set \in [time : Time, at : Nat] /\ set.at = 0
    BY <1>1, <1>2
  <2>3. rolled \in BOOLEAN
    BY <1>1
  <2> QED
    BY <1>1, <2>1, <2>2, <2>3 DEF ClockType
<1>4. ResetIs
  BY <1>1, ZeroTicks DEF ResetIs, Zero
<1> QED
  BY <1>3, <1>4 DEF ClockInv

\* The tick counter goes on by one or rolls over.
LEMMA CounterGoes ==
  ASSUME NEW n \in 0 .. TwoTo32 - 1
  PROVE  /\ (n + 1) % TwoTo32 \in 0 .. TwoTo32 - 1
         /\ (n + 1) % TwoTo32 \in {n + 1, 0}
<1>1. TwoTo32 \in Nat \ {0}
  BY ClockAssumption
<1>2. CASE n + 1 < TwoTo32
  BY <1>1, <1>2, SmallMod
<1>3. CASE n + 1 = TwoTo32
  BY <1>1, <1>3, DivModUnique
<1> QED
  BY <1>1, <1>2, <1>3

\* Every step keeps the invariant.
LEMMA ClockNextOK ==
  ASSUME ClockInv, [ClockNext]_clockVars PROVE ClockInv'
<1>1. CASE ClockTick
  <2>1. UNCHANGED <<tick_rate, resettime, set>> /\ nticks' = (nticks + 1) % TwoTo32
    BY <1>1 DEF ClockTick
  <2>2. PICK n \in 0 .. TwoTo32 - 1 : n = nticks
    BY DEF ClockInv, ClockType
  <2>3. PICK m : m = (n + 1) % TwoTo32
    OBVIOUS
  <2>4. m \in 0 .. TwoTo32 - 1 /\ (m = n + 1 \/ m = 0)
    BY <2>2, <2>3, CounterGoes
  <2>5. nticks' = m
    BY <2>1, <2>2, <2>3
  <2>6. rolled' \in BOOLEAN /\ (~ rolled' => ~ rolled /\ m # 0)
    BY <1>1, <2>5 DEF ClockTick
  <2>7. ~ rolled' => set.at <= m
    <3>1. CASE rolled'
      BY <3>1
    <3>2. CASE ~ rolled'
      <4>1. set.at <= n /\ m = n + 1 /\ set.at \in Nat
        BY <2>2, <2>4, <2>6, <3>2 DEF ClockInv, ClockType
      <4> QED
        BY <2>2, <4>1
    <3> QED
      BY <3>1, <3>2
  <2>8. ClockType'
    BY <2>1, <2>4, <2>5, <2>6, <2>7 DEF ClockInv, ClockType
  <2>9. ResetIs'
    BY <2>1 DEF ClockInv, ResetIs, Fraction32
  <2> QED
    BY <2>8, <2>9 DEF ClockInv
<1>2. ASSUME NEW t \in Times, ALT_SETTIMEOFDAY(t) PROVE ClockInv'
  <2>1. t \in Time
    BY ClockAssumption DEF Time
  <2>2. /\ tick_rate' = tick_rate /\ nticks' = nticks
        /\ resettime' = [sec |-> t.sec - nticks \div tick_rate,
                         usec |-> t.usec - Fraction32(nticks)]
        /\ set' = [time |-> t, at |-> nticks] /\ rolled' = FALSE
    BY <1>2 DEF ALT_SETTIMEOFDAY
  <2>3. ClockType'
    <3>1. PICK n \in 0 .. TwoTo32 - 1 : n = nticks
      BY DEF ClockInv, ClockType
    <3>2. nticks' = n /\ n \in Nat
      BY <2>2, <3>1, ClockAssumption
    <3>3. set' \in [time : Time, at : Nat] /\ set'.at = n
      BY <2>1, <2>2, <3>1, <3>2
    <3>4. rolled' \in BOOLEAN
      BY <2>2
    <3>5. tick_rate' \in 0 .. ALT_US
      BY <2>2 DEF ClockInv, ClockType
    <3> QED
      BY <3>1, <3>2, <3>3, <3>4, <3>5 DEF ClockType
  <2>4. ResetIs'
    BY <2>2 DEF ResetIs, Fraction32
  <2> QED
    BY <2>3, <2>4 DEF ClockInv
<1>3. CASE UNCHANGED clockVars
  BY <1>3 DEF clockVars, ClockInv, ClockType, ResetIs, Fraction32
<1> QED
  BY <1>1, <1>2, <1>3 DEF ClockNext

\* What gettimeofday answers follows from the invariant.
LEMMA Tells ==
  ASSUME ClockInv PROVE ClockTells
<1>1. SUFFICES ASSUME Divides, ~ rolled, set.at * (ALT_US \div tick_rate) < TwoTo32
               PROVE  Micros(ALT_GETTIMEOFDAY)
                        = Micros(set.time) + (nticks - set.at) * (ALT_US \div tick_rate)
  BY DEF ClockTells, Divides
<1>2. /\ ALT_US \in Nat \ {0} /\ TwoTo32 \in Nat \ {0} /\ tick_rate \in Nat \ {0}
      /\ tick_rate \in 0 .. ALT_US
  BY <1>1, ClockAssumption DEF ClockInv, ClockType, Divides
<1>3. PICK k \in Nat \ {0} : k = ALT_US \div tick_rate /\ ALT_US = tick_rate * k
  BY <1>1, <1>2, TickFacts
<1>4. PICK n \in Nat : n = nticks
  BY DEF ClockInv, ClockType
<1>5. PICK a \in Nat : a = set.at /\ a <= n
  BY <1>1, <1>4 DEF ClockInv, ClockType
<1>6. set.time.sec \in Nat /\ set.time.usec \in Nat
  BY <1>2 DEF ClockInv, ClockType, Time
<1>7. PICK s \in Nat : s = set.time.sec
  BY <1>6
<1>8. PICK m \in Nat : m = set.time.usec
  BY <1>6
<1>9. PICK qa \in Int : qa = a \div tick_rate
  BY <1>2, DivMod
<1>10. PICK qn \in Int : qn = n \div tick_rate
  BY <1>2, DivMod
<1>11. a * k \in Nat /\ n * k \in Nat
  OBVIOUS
<1>12. PICK fa \in Int : fa = (a * k) % ALT_US
  BY <1>2, <1>11, DivMod
<1>13. PICK fn \in Int : fn = (n * k) % ALT_US
  BY <1>2, <1>11, DivMod
<1>14. ALT_US * qa + fa = a * k /\ ALT_US * qn + fn = n * k
  <2>1. PICK t \in Nat \ {0} : t = tick_rate
    BY <1>2
  <2>2. PICK u \in Nat \ {0} : u = ALT_US
    BY <1>2
  <2>3. u = t * k
    BY <1>3, <2>1, <2>2
  <2>4. IsWhole(a, t, k, u) /\ IsWhole(n, t, k, u)
    BY <2>3, Whole
  <2> QED
    BY <1>9, <1>10, <1>12, <1>13, <2>1, <2>2, <2>4 DEF IsWhole
<1>15. Fraction32(a) = fa /\ Fraction(n) = fn
  <2>1. (a * k) % TwoTo32 = a * k
    BY <1>1, <1>2, <1>3, <1>5, <1>11, SmallMod
  <2> QED
    BY <1>3, <1>12, <1>13, <2>1 DEF Fraction32, Fraction
<1>16. resettime.sec = s - qa /\ resettime.usec = m - fa
  BY <1>1, <1>5, <1>7, <1>8, <1>9, <1>15 DEF ClockInv, ResetIs, Divides
<1>17. ALT_GETTIMEOFDAY = Normal((s - qa) + qn, (m - fa) + fn)
  BY <1>4, <1>10, <1>15, <1>16 DEF ALT_GETTIMEOFDAY
<1>18. ((s - qa) + qn) * ALT_US + ((m - fa) + fn) = (s * ALT_US + m) + (n - a) * k
  <2>1. ((s - qa) + qn) * ALT_US = (s * ALT_US - ALT_US * qa) + ALT_US * qn
    BY <1>2
  <2>2. (n - a) * k = n * k - a * k
    OBVIOUS
  <2>3. PICK x \in Int : x = s * ALT_US
    BY <1>2
  <2>4. PICK y \in Int : y = ALT_US * qa
    BY <1>2
  <2>5. PICK z \in Int : z = ALT_US * qn
    BY <1>2
  <2>6. PICK v \in Int : v = a * k
    OBVIOUS
  <2>7. PICK w \in Int : w = n * k
    OBVIOUS
  <2>8. y + fa = v /\ z + fn = w
    BY <1>14, <2>4, <2>5, <2>6, <2>7
  <2>9. ((x - y) + z) + ((m - fa) + fn) = (x + m) + (w - v)
    BY <2>8
  <2> QED
    BY <2>1, <2>2, <2>3, <2>4, <2>5, <2>6, <2>7, <2>9
<1>19. (s * ALT_US + m) + (n - a) * k >= 0
  <2>1. (n - a) * k >= 0
    BY <1>5
  <2>2. s * ALT_US >= 0 /\ s * ALT_US \in Int /\ (n - a) * k \in Int
    BY <1>2
  <2> QED
    BY <2>1, <2>2
<1>20. Micros(ALT_GETTIMEOFDAY) = (s * ALT_US + m) + (n - a) * k
  BY <1>17, <1>18, <1>19, NormalKeeps
<1>21. Micros(set.time) = s * ALT_US + m
  BY <1>7, <1>8 DEF Micros
<1> QED
  BY <1>3, <1>4, <1>5, <1>20, <1>21

\* gettimeofday answers the time that settimeofday was given and the ticks since,
\* at every rate that divides a second, as long as the ticks before settimeofday
\* are fewer microseconds than its 32-bit product holds and until the tick counter
\* rolls over.
THEOREM ClockAlwaysTells == ClockSpec => []ClockTells
<1>1. ClockInit => ClockInv
  BY ClockInitOK
<1>2. ClockInv /\ [ClockNext]_clockVars => ClockInv'
  BY ClockNextOK
<1>3. ClockInv => ClockTells
  BY Tells
<1> QED
  BY <1>1, <1>2, <1>3, PTL DEF ClockSpec
==============================================================================
