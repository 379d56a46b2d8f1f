--------------------------- MODULE InterruptProofs ---------------------------
(***************************************************************************)
(* Theorems about the two modules in which interrupts come between single  *)
(* steps.  InterruptMasking, for any number of tasks: however exceptions   *)
(* and context switches cut the calls up, PRIMASK is what the running      *)
(* context's innermost scope wants, and masked code is exclusive.          *)
(* Acquisition, for transfers of any length and any maximum of the         *)
(* semaphore: what task2 averages, and that acquisition goes on.           *)
(***************************************************************************)
EXTENDS InterruptMasking, Acquisition, SequenceTheorems, TLAPS

Steps == {"mask", "unmask", "restore", "trigger", "access", "reason"}

Scripts == {AcquireCall, ReleaseCall} \cup TickHandlers

\* How many scopes are open after 0, 1, 2, ... steps of each script.
Depth(script) ==
    IF script = AcquireCall THEN <<0, 1, 1, 2, 2, 1, 1, 2, 1, 1, 1, 0>>
    ELSE IF script = ReleaseCall THEN <<0, 1, 2, 2, 2, 1, 1, 2, 2, 2, 1, 0>>
    ELSE IF Len(script) = 5 THEN <<0, 1, 1, 1, 1, 0>>
    ELSE <<0, 1, 1, 1, 0>>

\* What the i-th scope is that is open after k steps.  Handlers open the first
\* one unmasking, and ForceContextSwitch opens its own after seven steps.
\* The first one finds interrupts enabled, the others find them masked.
Scope(script, k, i) ==
    [kind  |-> IF script \in TickHandlers \/ (script = AcquireCall /\ k = 7 /\ i = 2)
               THEN "unmask" ELSE "mask",
     saved |-> IF i = 1 THEN 0 ELSE 1]

\* Whether interrupts are to be masked after k steps.
Masks(script, k) ==
    LET d == Depth(script)[k + 1]
    IN d > 0 /\ Scope(script, k, d).kind = "mask"

\* The open scopes are q after k steps.
AreOpen(q, script, k) ==
    /\ Len(q) = Depth(script)[k + 1]
    /\ \A i \in 1 .. Len(q) : q[i] = Scope(script, k, i)

\* Context c has done k steps of a script, and its scopes are those that are
\* open then.
At(c, script, k) ==
    /\ todo[c] = SubSeq(script, k + 1, Len(script))
    /\ AreOpen(scopes[c], script, k)

InScript(c) ==
    \E script \in Scripts : \E k \in 0 .. Len(script) : At(c, script, k)

ScopeRecord == [kind : {"mask", "unmask"}, saved : {0, 1}]

MaskingTypeOK ==
    /\ primask \in {0, 1}
    /\ pendSV \in BOOLEAN
    /\ running \in Context
    /\ current \in Thread
    /\ todo \in [Context -> Seq(Steps)]
    /\ scopes \in [Context -> Seq(ScopeRecord)]

(***************************************************************************)
(* The inductive invariant.  Every context is somewhere in a script, with  *)
(* the scopes that go with it; a context that does not run is not inside a *)
(* masked scope; the handler that does not run has nothing left to do.     *)
(***************************************************************************)
Masking ==
    /\ MaskingTypeOK
    /\ \A c \in Context : InScript(c)
    /\ \A c \in Context : c # running => ~ Inside(c)
    /\ running # Isr => todo[Isr] = <<>>
    /\ PrimaskFollowsScopes
    /\ ReasonIsReadAfterSwitch

-----------------------------------------------------------------------------
(***************************************************************************)
(* The scripts, step by step.                                              *)
(***************************************************************************)
\* What a step may be.
LEMMA TheSteps ==
    /\ "mask" \in Steps /\ "unmask" \in Steps /\ "restore" \in Steps
    /\ "trigger" \in Steps /\ "access" \in Steps /\ "reason" \in Steps
BY DEF Steps

\* Where the steps are when one script follows another.
LEMMA Following ==
    ASSUME NEW a \in Seq(Steps), NEW b \in Seq(Steps)
    PROVE  /\ a \o b \in Seq(Steps)
           /\ Len(a \o b) = Len(a) + Len(b)
           /\ \A i \in 1 .. Len(a) : (a \o b)[i] = a[i]
           /\ \A i \in Len(a) + 1 .. Len(a) + Len(b) : (a \o b)[i] = b[i - Len(a)]
<1>1. /\ Len(a) \in Nat /\ Len(b) \in Nat
      /\ a \o b \in Seq(Steps) /\ Len(a \o b) = Len(a) + Len(b)
      /\ \A i \in 1 .. Len(a) + Len(b) :
           (a \o b)[i] = IF i <= Len(a) THEN a[i] ELSE b[i - Len(a)]
  BY ConcatProperties, LenProperties
<1>2. ASSUME NEW i \in 1 .. Len(a) PROVE (a \o b)[i] = a[i]
  <2>1. i \in 1 .. Len(a) + Len(b) /\ i <= Len(a)
    BY <1>1
  <2> QED
    BY <2>1, <1>1
<1>3. ASSUME NEW i \in Len(a) + 1 .. Len(a) + Len(b)
      PROVE  (a \o b)[i] = b[i - Len(a)]
  <2>1. i \in 1 .. Len(a) + Len(b) /\ ~ (i <= Len(a))
    BY <1>1
  <2> QED
    BY <2>1, <1>1
<1> QED
  BY <1>1, <1>2, <1>3

\* What is masked comes between its two steps.
LEMMA MaskedSteps ==
    ASSUME NEW body \in Seq(Steps)
    PROVE  /\ Masked(body) \in Seq(Steps)
           /\ Len(Masked(body)) = Len(body) + 2
           /\ Masked(body)[1] = "mask"
           /\ \A i \in 2 .. Len(body) + 1 : Masked(body)[i] = body[i - 1]
           /\ Masked(body)[Len(body) + 2] = "restore"
<1> DEFINE m == <<"mask">>
           r == <<"restore">>
           a == m \o body
           w == a \o r
<1>1. /\ m \in Seq(Steps) /\ Len(m) = 1 /\ m[1] = "mask"
      /\ r \in Seq(Steps) /\ Len(r) = 1 /\ r[1] = "restore"
      /\ Len(body) \in Nat
  BY TheSteps, LenProperties
<1>2. w = Masked(body)
  BY DEF Masked
<1> HIDE DEF m, r
<1>3. /\ a \in Seq(Steps) /\ Len(a) = Len(m) + Len(body)
      /\ \A i \in 1 .. Len(m) : a[i] = m[i]
      /\ \A i \in Len(m) + 1 .. Len(m) + Len(body) : a[i] = body[i - Len(m)]
  BY <1>1, Following
<1> HIDE DEF a
<1>4. /\ w \in Seq(Steps) /\ Len(w) = Len(a) + Len(r)
      /\ \A i \in 1 .. Len(a) : w[i] = a[i]
      /\ \A i \in Len(a) + 1 .. Len(a) + Len(r) : w[i] = r[i - Len(a)]
  BY <1>1, <1>3, Following
<1> HIDE DEF w
<1>5. /\ 1 \in 1 .. Len(m) /\ 1 \in 1 .. Len(a) /\ 1 \in 1 .. Len(r)
      /\ Len(a) + 1 = Len(body) + 2 /\ Len(a) + Len(r) = Len(body) + 2
  BY <1>1, <1>3
<1>6. ASSUME NEW i \in 2 .. Len(body) + 1 PROVE w[i] = body[i - 1]
  <2>1. i \in 1 .. Len(a) /\ i \in Len(m) + 1 .. Len(m) + Len(body)
    BY <1>1, <1>3
  <2> QED
    BY <2>1, <1>1, <1>3, <1>4
<1> QED
  BY <1>1, <1>2, <1>3, <1>4, <1>5, <1>6

\* The steps of Release(2).
LEMMA ReleaseSteps ==
    LET s == ReleaseCall IN
    /\ s \in Seq(Steps) /\ Len(s) = 11
    /\ s[1] = "mask" /\ s[2] = "mask" /\ s[3] = "access" /\ s[4] = "trigger"
    /\ s[5] = "restore" /\ s[6] = "access" /\ s[7] = "mask" /\ s[8] = "access"
    /\ s[9] = "trigger" /\ s[10] = "restore" /\ s[11] = "restore"
<1> DEFINE c == <<"access", "trigger">>
           u == Masked(c)
           e == <<"access">>
           a == u \o e
           b == a \o u
           s == Masked(b)
<1>1. c \in Seq(Steps) /\ Len(c) = 2 /\ c[1] = "access" /\ c[2] = "trigger"
  BY TheSteps
<1>2. e \in Seq(Steps) /\ Len(e) = 1 /\ e[1] = "access"
  BY TheSteps
<1>3. ReleaseCall = s
  BY DEF ReleaseCall, UnblockCall
<1> HIDE DEF c, e
<1>4. /\ u \in Seq(Steps) /\ Len(u) = Len(c) + 2 /\ u[1] = "mask"
      /\ \A i \in 2 .. Len(c) + 1 : u[i] = c[i - 1]
      /\ u[Len(c) + 2] = "restore"
  BY <1>1, MaskedSteps
<1> HIDE DEF u
<1>5. /\ a \in Seq(Steps) /\ Len(a) = Len(u) + Len(e)
      /\ \A i \in 1 .. Len(u) : a[i] = u[i]
      /\ \A i \in Len(u) + 1 .. Len(u) + Len(e) : a[i] = e[i - Len(u)]
  BY <1>2, <1>4, Following
<1> HIDE DEF a
<1>6. /\ b \in Seq(Steps) /\ Len(b) = Len(a) + Len(u)
      /\ \A i \in 1 .. Len(a) : b[i] = a[i]
      /\ \A i \in Len(a) + 1 .. Len(a) + Len(u) : b[i] = u[i - Len(a)]
  BY <1>4, <1>5, Following
<1> HIDE DEF b
<1>7. /\ s \in Seq(Steps) /\ Len(s) = Len(b) + 2 /\ s[1] = "mask"
      /\ \A i \in 2 .. Len(b) + 1 : s[i] = b[i - 1]
      /\ s[Len(b) + 2] = "restore"
  BY <1>6, MaskedSteps
<1> HIDE DEF s
<1>0. Len(u) = 4 /\ Len(a) = 5 /\ Len(b) = 9 /\ Len(s) = 11
  BY <1>1, <1>2, <1>4, <1>5, <1>6, <1>7
<1>8. /\ s[1] = "mask" /\ s[11] = "restore"
      /\ s[2] = b[1] /\ s[3] = b[2] /\ s[4] = b[3] /\ s[5] = b[4] /\ s[6] = b[5]
      /\ s[7] = b[6] /\ s[8] = b[7] /\ s[9] = b[8] /\ s[10] = b[9]
  BY <1>7, <1>0
<1>9. /\ b[1] = a[1] /\ b[2] = a[2] /\ b[3] = a[3] /\ b[4] = a[4] /\ b[5] = a[5]
      /\ b[6] = u[1] /\ b[7] = u[2] /\ b[8] = u[3] /\ b[9] = u[4]
  BY <1>6, <1>0
<1>10. /\ a[1] = u[1] /\ a[2] = u[2] /\ a[3] = u[3] /\ a[4] = u[4] /\ a[5] = e[1]
       /\ u[1] = "mask" /\ u[2] = c[1] /\ u[3] = c[2] /\ u[4] = "restore"
  BY <1>1, <1>2, <1>4, <1>5, <1>0
<1> QED
  BY <1>0, <1>1, <1>2, <1>3, <1>7, <1>8, <1>9, <1>10

\* The steps of Acquire when it blocks.
LEMMA AcquireSteps ==
    LET s == AcquireCall IN
    /\ s \in Seq(Steps) /\ Len(s) = 11
    /\ s[1] = "mask" /\ s[2] = "access" /\ s[3] = "mask" /\ s[4] = "access"
    /\ s[5] = "restore" /\ s[6] = "trigger" /\ s[7] = "unmask"
    /\ s[8] = "restore" /\ s[9] = "reason" /\ s[10] = "access"
    /\ s[11] = "restore"
<1> DEFINE e == <<"access">>
           m == Masked(e)
           g == ForceContextSwitch
           f == m \o g
           r == <<"reason">>
           c == f \o r
           d == e \o c
           b == d \o e
           s == Masked(b)
<1>1. /\ e \in Seq(Steps) /\ Len(e) = 1 /\ e[1] = "access"
      /\ r \in Seq(Steps) /\ Len(r) = 1 /\ r[1] = "reason"
  BY TheSteps
<1>2. /\ g \in Seq(Steps) /\ Len(g) = 3 /\ g[1] = "trigger" /\ g[2] = "unmask"
      /\ g[3] = "restore"
  BY TheSteps DEF ForceContextSwitch
<1>3. AcquireCall = s
  BY DEF AcquireCall, BlockCall
<1> HIDE DEF e, r, g
<1>4. /\ m \in Seq(Steps) /\ Len(m) = Len(e) + 2 /\ m[1] = "mask"
      /\ \A i \in 2 .. Len(e) + 1 : m[i] = e[i - 1]
      /\ m[Len(e) + 2] = "restore"
  BY <1>1, MaskedSteps
<1> HIDE DEF m
<1>5. /\ f \in Seq(Steps) /\ Len(f) = Len(m) + Len(g)
      /\ \A i \in 1 .. Len(m) : f[i] = m[i]
      /\ \A i \in Len(m) + 1 .. Len(m) + Len(g) : f[i] = g[i - Len(m)]
  BY <1>2, <1>4, Following
<1> HIDE DEF f
<1>6. /\ c \in Seq(Steps) /\ Len(c) = Len(f) + Len(r)
      /\ \A i \in 1 .. Len(f) : c[i] = f[i]
      /\ \A i \in Len(f) + 1 .. Len(f) + Len(r) : c[i] = r[i - Len(f)]
  BY <1>1, <1>5, Following
<1> HIDE DEF c
<1>7. /\ d \in Seq(Steps) /\ Len(d) = Len(e) + Len(c)
      /\ \A i \in 1 .. Len(e) : d[i] = e[i]
      /\ \A i \in Len(e) + 1 .. Len(e) + Len(c) : d[i] = c[i - Len(e)]
  BY <1>1, <1>6, Following
<1> HIDE DEF d
<1>8. /\ b \in Seq(Steps) /\ Len(b) = Len(d) + Len(e)
      /\ \A i \in 1 .. Len(d) : b[i] = d[i]
      /\ \A i \in Len(d) + 1 .. Len(d) + Len(e) : b[i] = e[i - Len(d)]
  BY <1>1, <1>7, Following
<1> HIDE DEF b
<1>9. /\ s \in Seq(Steps) /\ Len(s) = Len(b) + 2 /\ s[1] = "mask"
      /\ \A i \in 2 .. Len(b) + 1 : s[i] = b[i - 1]
      /\ s[Len(b) + 2] = "restore"
  BY <1>8, MaskedSteps
<1> HIDE DEF s
<1>0. /\ Len(m) = 3 /\ Len(f) = 6 /\ Len(c) = 7 /\ Len(d) = 8 /\ Len(b) = 9
      /\ Len(s) = 11
  BY <1>1, <1>2, <1>4, <1>5, <1>6, <1>7, <1>8, <1>9
<1>10. /\ s[1] = "mask" /\ s[11] = "restore"
       /\ s[2] = b[1] /\ s[3] = b[2] /\ s[4] = b[3] /\ s[5] = b[4] /\ s[6] = b[5]
       /\ s[7] = b[6] /\ s[8] = b[7] /\ s[9] = b[8] /\ s[10] = b[9]
  BY <1>9, <1>0
<1>11. /\ b[1] = d[1] /\ b[2] = d[2] /\ b[3] = d[3] /\ b[4] = d[4] /\ b[5] = d[5]
       /\ b[6] = d[6] /\ b[7] = d[7] /\ b[8] = d[8] /\ b[9] = e[1]
  BY <1>8, <1>0, <1>1
<1>12. /\ d[1] = e[1] /\ d[2] = c[1] /\ d[3] = c[2] /\ d[4] = c[3] /\ d[5] = c[4]
       /\ d[6] = c[5] /\ d[7] = c[6] /\ d[8] = c[7]
  BY <1>7, <1>0, <1>1
<1>13. /\ c[1] = m[1] /\ c[2] = m[2] /\ c[3] = m[3] /\ c[4] = g[1] /\ c[5] = g[2]
       /\ c[6] = g[3] /\ c[7] = r[1]
  <2>1. /\ c[1] = f[1] /\ c[2] = f[2] /\ c[3] = f[3] /\ c[4] = f[4] /\ c[5] = f[5]
        /\ c[6] = f[6] /\ c[7] = r[1]
    BY <1>6, <1>0, <1>1
  <2>2. /\ f[1] = m[1] /\ f[2] = m[2] /\ f[3] = m[3] /\ f[4] = g[1] /\ f[5] = g[2]
        /\ f[6] = g[3]
    BY <1>5, <1>0, <1>2
  <2> QED
    BY <2>1, <2>2
<1>14. m[1] = "mask" /\ m[2] = e[1] /\ m[3] = "restore"
  BY <1>4, <1>1
<1> QED
  BY <1>0, <1>1, <1>2, <1>3, <1>9, <1>14, <1>10, <1>11, <1>12, <1>13

\* The steps of the tick handlers.
LEMMA TickSteps ==
    ASSUME NEW s \in TickHandlers
    PROVE  /\ s \in Seq(Steps) /\ Len(s) \in {4, 5}
           /\ s[1] = "unmask" /\ s[2] = "access" /\ s[3] = "access"
           /\ Len(s) = 4 => s[4] = "restore"
           /\ Len(s) = 5 => s[4] = "trigger" /\ s[5] = "restore"
<1>1. CASE s = <<"unmask", "access", "access", "trigger", "restore">>
  <2>1. s \in Seq(Steps)
    BY <1>1, TheSteps
  <2> QED
    BY <1>1, <2>1
<1>2. CASE s = <<"unmask", "access", "access", "restore">>
  <2>1. s \in Seq(Steps)
    BY <1>2, TheSteps
  <2> QED
    BY <1>2, <2>1
<1> QED
  BY <1>1, <1>2 DEF TickHandlers

\* The scripts are different ones.
LEMMA ScriptsDiffer ==
    /\ AcquireCall # ReleaseCall
    /\ AcquireCall \notin TickHandlers /\ ReleaseCall \notin TickHandlers
BY AcquireSteps, ReleaseSteps, TickSteps

\* How many scopes are open, as numbers.
LEMMA AcquireDepth ==
    LET d == Depth(AcquireCall) IN
    /\ d[1] = 0 /\ d[2] = 1 /\ d[3] = 1 /\ d[4] = 2 /\ d[5] = 2 /\ d[6] = 1
    /\ d[7] = 1 /\ d[8] = 2 /\ d[9] = 1 /\ d[10] = 1 /\ d[11] = 1 /\ d[12] = 0
BY DEF Depth

LEMMA ReleaseDepth ==
    LET d == Depth(ReleaseCall) IN
    /\ d[1] = 0 /\ d[2] = 1 /\ d[3] = 2 /\ d[4] = 2 /\ d[5] = 2 /\ d[6] = 1
    /\ d[7] = 1 /\ d[8] = 2 /\ d[9] = 2 /\ d[10] = 2 /\ d[11] = 1 /\ d[12] = 0
BY ScriptsDiffer DEF Depth

LEMMA TickDepth ==
    ASSUME NEW s \in TickHandlers
    PROVE  /\ Depth(s)[1] = 0 /\ Depth(s)[Len(s) + 1] = 0
           /\ \A k \in 1 .. Len(s) - 1 : Depth(s)[k + 1] = 1
<1>1. CASE Len(s) = 5
  BY <1>1, TickSteps, ScriptsDiffer DEF Depth
<1>2. CASE Len(s) = 4
  BY <1>2, TickSteps, ScriptsDiffer DEF Depth
<1> QED
  BY <1>1, <1>2, TickSteps

\* What the next step of a script does to its scopes, and whether interrupts
\* are to be masked around it.
Nested(s, k) ==
    LET d == Depth(s)[k + 1]
        e == Depth(s)[k + 2]
        saved == IF Masks(s, k) THEN 1 ELSE 0
    IN  /\ d \in Nat /\ e \in Nat
        /\ \A i \in 1 .. d : i <= e => Scope(s, k + 1, i) = Scope(s, k, i)
        /\ s[k + 1] \in {"mask", "unmask"} =>
             e = d + 1 /\ Scope(s, k + 1, e) = [kind |-> s[k + 1], saved |-> saved]
        /\ s[k + 1] = "restore" =>
             d = e + 1 /\ Scope(s, k, d).saved = IF Masks(s, k + 1) THEN 1 ELSE 0
        /\ s[k + 1] \in {"trigger", "access", "reason"} => e = d
        /\ s[k + 1] = "reason" => Masks(s, k)

LEMMA AcquireNested ==
    ASSUME NEW k \in 0 .. 10
    PROVE  Nested(AcquireCall, k)
<1>1. CASE k \in 0 .. 3
  BY <1>1, AcquireDepth, AcquireSteps, ScriptsDiffer DEF Nested, Masks, Scope
<1>2. CASE k \in 4 .. 7
  BY <1>2, AcquireDepth, AcquireSteps, ScriptsDiffer DEF Nested, Masks, Scope
<1>3. CASE k \in 8 .. 10
  BY <1>3, AcquireDepth, AcquireSteps, ScriptsDiffer DEF Nested, Masks, Scope
<1> QED
  BY <1>1, <1>2, <1>3

LEMMA ReleaseNested ==
    ASSUME NEW k \in 0 .. 10
    PROVE  Nested(ReleaseCall, k)
<1>1. CASE k \in 0 .. 3
  BY <1>1, ReleaseDepth, ReleaseSteps, ScriptsDiffer DEF Nested, Masks, Scope
<1>2. CASE k \in 4 .. 7
  BY <1>2, ReleaseDepth, ReleaseSteps, ScriptsDiffer DEF Nested, Masks, Scope
<1>3. CASE k \in 8 .. 10
  BY <1>3, ReleaseDepth, ReleaseSteps, ScriptsDiffer DEF Nested, Masks, Scope
<1> QED
  BY <1>1, <1>2, <1>3

LEMMA TickNested ==
    ASSUME NEW s \in TickHandlers, NEW k \in 0 .. Len(s) - 1
    PROVE  Nested(s, k)
<1>1. CASE Len(s) = 5
  <2>1. /\ Depth(s)[1] = 0 /\ Depth(s)[2] = 1 /\ Depth(s)[3] = 1 /\ Depth(s)[4] = 1
        /\ Depth(s)[5] = 1 /\ Depth(s)[6] = 0
    BY <1>1, TickSteps, ScriptsDiffer DEF Depth
  <2> QED
    BY <1>1, <2>1, TickSteps, ScriptsDiffer DEF Nested, Masks, Scope
<1>2. CASE Len(s) = 4
  <2>1. /\ Depth(s)[1] = 0 /\ Depth(s)[2] = 1 /\ Depth(s)[3] = 1 /\ Depth(s)[4] = 1
        /\ Depth(s)[5] = 0
    BY <1>2, TickSteps, ScriptsDiffer DEF Depth
  <2> QED
    BY <1>2, <2>1, TickSteps, ScriptsDiffer DEF Nested, Masks, Scope
<1> QED
  BY <1>1, <1>2, TickSteps

\* The read of the unblock reason comes right after a switch is let through.
LEMMA ReasonIsNext ==
    ASSUME NEW s \in Scripts, NEW k \in 0 .. Len(s) - 1, s[k + 1] = "reason"
    PROVE  k > 0 /\ s[k] = "restore" /\ ~ Masks(s, k - 1) /\ Masks(s, k)
<1>1. s = AcquireCall
  <2>1. CASE s = ReleaseCall
    <3>1. k \in 0 .. 10
      BY <2>1, ReleaseSteps
    <3> QED
      BY <2>1, <3>1, ReleaseSteps
  <2>2. CASE s \in TickHandlers
    BY <2>2, TickSteps
  <2> QED
    BY <2>1, <2>2 DEF Scripts
<1>2. k = 8
  <2>1. k \in 0 .. 10
    BY <1>1, AcquireSteps
  <2> QED
    BY <1>1, <2>1, AcquireSteps
<1> QED
  BY <1>1, <1>2, AcquireDepth, AcquireSteps, ScriptsDiffer DEF Masks, Scope

\* The same, of every script.
LEMMA ScriptFacts ==
    ASSUME NEW s \in Scripts
    PROVE  /\ s \in Seq(Steps) /\ Len(s) \in Nat /\ Len(s) > 0
           /\ Depth(s)[1] = 0 /\ Depth(s)[Len(s) + 1] = 0
           /\ \A k \in 0 .. Len(s) - 1 : Nested(s, k)
<1>1. CASE s = AcquireCall
  BY <1>1, AcquireSteps, AcquireDepth, AcquireNested
<1>2. CASE s = ReleaseCall
  BY <1>2, ReleaseSteps, ReleaseDepth, ReleaseNested
<1>3. CASE s \in TickHandlers
  BY <1>3, TickSteps, TickDepth, TickNested
<1> QED
  BY <1>1, <1>2, <1>3 DEF Scripts

\* What is left of a script.
LEMMA LeftOfScript ==
    ASSUME NEW s \in Seq(Steps), NEW k \in 0 .. Len(s)
    PROVE  LET rest == SubSeq(s, k + 1, Len(s))
           IN  /\ rest \in Seq(Steps)
               /\ rest = <<>> <=> k = Len(s)
               /\ k < Len(s) => /\ Head(rest) = s[k + 1]
                                /\ Tail(rest) = SubSeq(s, k + 2, Len(s))
<1>1. Len(s) \in Nat /\ \A i \in 1 .. Len(s) : s[i] \in Steps
  BY LenProperties, ElementOfSeq
<1>2. CASE k = Len(s)
  BY <1>1, <1>2, SubSeqEmpty, EmptySeq
<1>3. CASE k < Len(s)
  <2>1. k + 1 \in 1 .. Len(s) /\ Len(s) \in k + 1 .. Len(s) /\ k + 1 + 1 = k + 2
    BY <1>1, <1>3
  <2>2. /\ Head(SubSeq(s, k + 1, Len(s))) = s[k + 1]
        /\ Tail(SubSeq(s, k + 1, Len(s))) = SubSeq(s, k + 1 + 1, Len(s))
    BY <2>1, HeadTailOfSubSeq
  <2>3. /\ SubSeq(s, k + 1, Len(s)) \in Seq(Steps)
        /\ Len(SubSeq(s, k + 1, Len(s))) = Len(s) - (k + 1) + 1
    <3>1. /\ k + 1 \in Int /\ Len(s) \in Int /\ k + 1 <= Len(s)
          /\ \A i \in k + 1 .. Len(s) : s[i] \in Steps
      BY <1>1, <2>1
    <3> QED
      BY <3>1, SubSeqProperties
  <2>4. Len(SubSeq(s, k + 1, Len(s))) # 0
    BY <1>1, <1>3, <2>3
  <2> DEFINE rest == SubSeq(s, k + 1, Len(s))
  <2>5. rest \in Seq(Steps) /\ Len(rest) # 0
    BY <2>3, <2>4
  <2> HIDE DEF rest
  <2>6. rest # <<>>
    BY <2>5, EmptySeq
  <2> QED
    BY <1>3, <2>1, <2>2, <2>5, <2>6 DEF rest
<1> QED
  BY <1>1, <1>2, <1>3

\* Whether the innermost scope masks is what the script says.
LEMMA InnermostMasks ==
    ASSUME NEW q \in Seq(ScopeRecord), NEW s \in Scripts, NEW k \in 0 .. Len(s),
           AreOpen(q, s, k)
    PROVE  (q # <<>> /\ Last(q).kind = "mask") <=> Masks(s, k)
<1>1. Len(q) \in Nat /\ (q = <<>> <=> Len(q) = 0)
  BY LenProperties, EmptySeq
<1>2. CASE Len(q) = 0
  BY <1>1, <1>2 DEF Masks, AreOpen
<1>3. CASE Len(q) > 0
  <2>1. Last(q) = Scope(s, k, Len(q))
    BY <1>1, <1>3 DEF Last, AreOpen
  <2> QED
    BY <1>1, <1>3, <2>1 DEF Masks, AreOpen
<1> QED
  BY <1>1, <1>2, <1>3

\* A step that opens a scope.
LEMMA OpeningStep ==
    ASSUME NEW q \in Seq(ScopeRecord), NEW s \in Scripts,
           NEW k \in 0 .. Len(s) - 1, AreOpen(q, s, k),
           s[k + 1] \in {"mask", "unmask"},
           NEW value, value = IF Masks(s, k) THEN 1 ELSE 0
    PROVE  LET r == Append(q, [kind |-> s[k + 1], saved |-> value])
           IN  /\ r \in Seq(ScopeRecord)
               /\ AreOpen(r, s, k + 1)
               /\ Masks(s, k + 1) <=> s[k + 1] = "mask"
<1> DEFINE scope == [kind |-> s[k + 1], saved |-> value]
           r == Append(q, scope)
           e == Depth(s)[k + 2]
<1>1. Nested(s, k) /\ Len(q) \in Nat /\ k + 1 + 1 = k + 2
  BY ScriptFacts, LenProperties
<1>2. /\ e = Len(q) + 1 /\ Scope(s, k + 1, e) = scope
      /\ \A i \in 1 .. Len(q) : Scope(s, k + 1, i) = Scope(s, k, i)
  BY <1>1 DEF Nested, AreOpen
<1>3. scope \in ScopeRecord
  BY DEF ScopeRecord
<1>4. scope.kind = s[k + 1]
  OBVIOUS
<1> HIDE DEF scope, e
<1>5. /\ r \in Seq(ScopeRecord) /\ Len(r) = Len(q) + 1 /\ r[Len(q) + 1] = scope
      /\ \A i \in 1 .. Len(q) : r[i] = q[i]
  BY <1>3, AppendProperties
<1> HIDE DEF r
<1>6. ASSUME NEW i \in 1 .. Len(r) PROVE r[i] = Scope(s, k + 1, i)
  <2>1. CASE i \in 1 .. Len(q)
    BY <2>1, <1>2, <1>5 DEF AreOpen
  <2>2. CASE i = Len(q) + 1
    BY <2>2, <1>2, <1>5
  <2> QED
    BY <1>1, <1>5, <2>1, <2>2
<1>7. AreOpen(r, s, k + 1)
  BY <1>1, <1>2, <1>5, <1>6 DEF AreOpen, e
<1>8. Masks(s, k + 1) <=> s[k + 1] = "mask"
  BY <1>1, <1>2, <1>4 DEF Masks, e
<1> QED
  BY <1>5, <1>7, <1>8 DEF r, scope

\* A step that closes one.
LEMMA ClosingStep ==
    ASSUME NEW q \in Seq(ScopeRecord), NEW s \in Scripts,
           NEW k \in 0 .. Len(s) - 1, AreOpen(q, s, k), s[k + 1] = "restore"
    PROVE  /\ Front(q) \in Seq(ScopeRecord)
           /\ AreOpen(Front(q), s, k + 1)
           /\ Last(q).saved = IF Masks(s, k + 1) THEN 1 ELSE 0
<1> DEFINE d == Depth(s)[k + 1]
           e == Depth(s)[k + 2]
<1>1. Nested(s, k) /\ Len(q) \in Nat /\ k + 1 + 1 = k + 2
  BY ScriptFacts, LenProperties
<1>2. /\ d = Len(q) /\ d = e + 1 /\ e \in Nat
      /\ Scope(s, k, d).saved = IF Masks(s, k + 1) THEN 1 ELSE 0
      /\ \A i \in 1 .. e : Scope(s, k + 1, i) = Scope(s, k, i)
  BY <1>1 DEF Nested, AreOpen
<1> HIDE DEF d, e
<1>3. q # <<>> /\ Last(q) = Scope(s, k, d)
  BY <1>1, <1>2, EmptySeq DEF Last, AreOpen
<1>4. /\ Front(q) \in Seq(ScopeRecord) /\ Len(Front(q)) = e
      /\ \A i \in 1 .. e : Front(q)[i] = q[i]
  <2>1. /\ 1 \in Int /\ e \in Int /\ Len(q) - 1 = e
        /\ \A i \in 1 .. e : q[i] \in ScopeRecord
    <3>1. \A i \in 1 .. e : i \in 1 .. Len(q)
      BY <1>1, <1>2
    <3>2. \A i \in 1 .. Len(q) : q[i] \in ScopeRecord
      BY ElementOfSeq
    <3> QED
      BY <1>1, <1>2, <3>1, <3>2
  <2>2. /\ SubSeq(q, 1, e) \in Seq(ScopeRecord)
        /\ Len(SubSeq(q, 1, e)) = IF 1 <= e THEN e - 1 + 1 ELSE 0
        /\ \A i \in 1 .. e - 1 + 1 : SubSeq(q, 1, e)[i] = q[1 + i - 1]
    BY <2>1, SubSeqProperties
  <2>3. Front(q) = SubSeq(q, 1, e)
    BY <2>1 DEF Front
  <2> QED
    BY <1>2, <2>2, <2>3
<1>5. AreOpen(Front(q), s, k + 1)
  BY <1>1, <1>2, <1>4 DEF AreOpen, e
<1> QED
  BY <1>2, <1>3, <1>4, <1>5

\* A step that does neither.
LEMMA PlainStep ==
    ASSUME NEW q \in Seq(ScopeRecord), NEW s \in Scripts,
           NEW k \in 0 .. Len(s) - 1, AreOpen(q, s, k),
           s[k + 1] \in {"trigger", "access", "reason"}
    PROVE  AreOpen(q, s, k + 1) /\ (Masks(s, k + 1) <=> Masks(s, k))
<1> DEFINE d == Depth(s)[k + 1]
<1>1. Nested(s, k) /\ Len(q) \in Nat /\ k + 1 + 1 = k + 2
  BY ScriptFacts, LenProperties
<1>2. /\ d = Len(q) /\ d = Depth(s)[k + 2]
      /\ \A i \in 1 .. d : Scope(s, k + 1, i) = Scope(s, k, i)
  BY <1>1 DEF Nested, AreOpen
<1> QED
  BY <1>1, <1>2 DEF AreOpen, Masks

-----------------------------------------------------------------------------
(***************************************************************************)
(* The invariant, step by step.                                            *)
(***************************************************************************)
\* Where a context is tells whether it is inside a masked scope, what it does
\* next, and that it is outside of all scopes between its calls.
LEMMA WhereItIs ==
    ASSUME Masking, NEW c \in Context, NEW s \in Scripts,
           NEW k \in 0 .. Len(s), At(c, s, k)
    PROVE  /\ Inside(c) <=> Masks(s, k)
           /\ todo[c] = <<>> <=> k = Len(s)
           /\ k < Len(s) => /\ Head(todo[c]) = s[k + 1]
                            /\ Tail(todo[c]) = SubSeq(s, k + 2, Len(s))
           /\ todo[c] = <<>> => scopes[c] = <<>> /\ ~ Inside(c)
<1>1. s \in Seq(Steps) /\ scopes[c] \in Seq(ScopeRecord)
  BY ScriptFacts DEF Masking, MaskingTypeOK
<1>2. Inside(c) <=> Masks(s, k)
  BY <1>1, InnermostMasks DEF Inside, At
<1>3. /\ todo[c] = <<>> <=> k = Len(s)
      /\ k < Len(s) => /\ Head(todo[c]) = s[k + 1]
                       /\ Tail(todo[c]) = SubSeq(s, k + 2, Len(s))
  BY <1>1, LeftOfScript DEF At
<1>4. ASSUME todo[c] = <<>> PROVE scopes[c] = <<>> /\ ~ Inside(c)
  <2>1. Len(scopes[c]) = 0
    BY <1>3, <1>4, ScriptFacts DEF At, AreOpen
  <2> QED
    BY <1>1, <2>1, EmptySeq DEF Inside
<1> QED
  BY <1>2, <1>3, <1>4

\* A context that has nothing left to do has no open scope.
LEMMA IdleIsOutside ==
    ASSUME Masking, NEW c \in Context, todo[c] = <<>>
    PROVE  scopes[c] = <<>> /\ ~ Inside(c)
<1>1. PICK s \in Scripts : \E k \in 0 .. Len(s) : At(c, s, k)
  BY DEF Masking, InScript
<1>2. PICK k \in 0 .. Len(s) : At(c, s, k)
  BY <1>1
<1> QED
  BY <1>2, WhereItIs

\* A context that was not touched is still where it was.
LEMMA OthersStay ==
    ASSUME Masking, NEW c \in Context, todo'[c] = todo[c], scopes'[c] = scopes[c]
    PROVE  InScript(c)' /\ (Inside(c)' <=> Inside(c))
BY DEF Masking, InScript, At, Inside

\* A call begins at the first step of a script.
LEMMA CallBegins ==
    ASSUME Masking, NEW c \in Context, NEW s \in Scripts, todo[c] = <<>>,
           todo'[c] = s, scopes'[c] = scopes[c]
    PROVE  InScript(c)' /\ ~ Inside(c)'
<1>1. scopes[c] = <<>>
  BY IdleIsOutside
<1>2. s \in Seq(Steps) /\ Depth(s)[1] = 0 /\ Len(s) \in Nat
  BY ScriptFacts
<1>3. todo'[c] = SubSeq(s, 0 + 1, Len(s))
  BY <1>2, SubSeqFull
<1>4. AreOpen(scopes'[c], s, 0)
  BY <1>1, <1>2 DEF AreOpen
<1>5. At(c, s, 0)'
  BY <1>3, <1>4 DEF At
<1>6. 0 \in 0 .. Len(s)
  BY <1>2
<1> QED
  BY <1>1, <1>5, <1>6 DEF InScript, Inside

\* The step a context takes is the next one of its script.
LEMMA StepIsNext ==
    ASSUME Masking, NEW c \in Context, NEW step, Step(c, step)
    PROVE  \E s \in Scripts : \E k \in 0 .. Len(s) - 1 :
               /\ At(c, s, k) /\ s[k + 1] = step
               /\ todo'[c] = SubSeq(s, k + 2, Len(s))
<1>1. PICK s \in Scripts : \E k \in 0 .. Len(s) : At(c, s, k)
  BY DEF Masking, InScript
<1>2. PICK k \in 0 .. Len(s) : At(c, s, k)
  BY <1>1
<1>3. todo[c] # <<>> /\ Head(todo[c]) = step /\ todo'[c] = Tail(todo[c])
  BY DEF Step, Masking, MaskingTypeOK
<1>4. k \in 0 .. Len(s) - 1
  BY <1>2, <1>3, WhereItIs, ScriptFacts
<1>5. s[k + 1] = step /\ todo'[c] = SubSeq(s, k + 2, Len(s))
  BY <1>2, <1>3, <1>4, WhereItIs, ScriptFacts
<1> QED
  BY <1>2, <1>4, <1>5

\* A step that leaves the scopes its script wants, and PRIMASK as the innermost
\* one of them wants it.
LEMMA StepKeepsMasking ==
    ASSUME Masking, NEW c \in Context, NEW s \in Scripts,
           NEW k \in 0 .. Len(s) - 1, At(c, s, k), Step(c, s[k + 1]),
           todo'[c] = SubSeq(s, k + 2, Len(s)),
           scopes' = [scopes EXCEPT ![c] = scopes'[c]],
           scopes'[c] \in Seq(ScopeRecord),
           AreOpen(scopes'[c], s, k + 1),
           primask' = IF Masks(s, k + 1) THEN 1 ELSE 0,
           pendSV' \in BOOLEAN,
           s[k + 1] = "restore" => pendSV' = pendSV
    PROVE  Masking'
<1>1. /\ running = c /\ running' = c /\ current' = current
      /\ todo' = [todo EXCEPT ![c] = Tail(@)]
      /\ c \in Thread => ~ (pendSV /\ primask = 0)
  BY DEF Step
<1>2. /\ s \in Seq(Steps) /\ Len(s) \in Nat /\ k + 1 \in 0 .. Len(s)
      /\ k + 1 + 1 = k + 2 /\ k \in 0 .. Len(s)
  BY ScriptFacts
<1>3. todo'[c] \in Seq(Steps)
  <2>1. SubSeq(s, k + 1 + 1, Len(s)) \in Seq(Steps)
    BY <1>2, LeftOfScript
  <2> QED
    BY <1>2, <2>1
<1>4. MaskingTypeOK'
  <2>1. todo' \in [Context -> Seq(Steps)]
    BY <1>1, <1>3 DEF Masking, MaskingTypeOK
  <2> QED
    BY <1>1, <2>1 DEF Masking, MaskingTypeOK
<1>5. At(c, s, k + 1)'
  BY <1>2 DEF At
<1>6. Inside(c)' <=> Masks(s, k + 1)
  BY <1>2, InnermostMasks DEF Inside
<1>7. ASSUME NEW d \in Context, d # c
      PROVE  todo'[d] = todo[d] /\ scopes'[d] = scopes[d]
  BY <1>1, <1>7 DEF Masking, MaskingTypeOK
<1>8. \A d \in Context : InScript(d)'
  <2>1. InScript(c)'
    BY <1>2, <1>5 DEF InScript
  <2> QED
    BY <2>1, <1>7, OthersStay
<1>9. \A d \in Context : d # running' => ~ Inside(d)'
  BY <1>1, <1>7, OthersStay DEF Masking
<1>10. running' # Isr => todo'[Isr] = <<>>
  BY <1>1, <1>7 DEF Masking, Context
<1>11. PrimaskFollowsScopes'
  BY <1>1, <1>6 DEF PrimaskFollowsScopes
<1>12. ReasonIsReadAfterSwitch'
  <2> SUFFICES ASSUME c \in Thread, todo'[c] # <<>>, Head(todo'[c]) = "reason"
               PROVE  ~ pendSV'
    BY <1>1 DEF ReasonIsReadAfterSwitch
  <2>1. k + 1 \in 0 .. Len(s) - 1 /\ s[k + 1 + 1] = "reason"
    BY <1>2, LeftOfScript
  <2>2. s[k + 1] = "restore" /\ ~ Masks(s, k)
    <3>1. s[k + 1] = "restore" /\ ~ Masks(s, k + 1 - 1)
      BY <2>1, ReasonIsNext
    <3>2. k + 1 - 1 = k
      OBVIOUS
    <3> QED
      BY <3>1, <3>2
  <2>3. primask = 0
    BY <1>1, <1>2, <2>2, WhereItIs DEF Masking, PrimaskFollowsScopes
  <2> QED
    BY <1>1, <2>2, <2>3 DEF Masking, MaskingTypeOK
<1> QED
  BY <1>4, <1>8, <1>9, <1>10, <1>11, <1>12 DEF Masking

-----------------------------------------------------------------------------
\* At the start nothing is going on.
LEMMA InitMasking ==
    ASSUME Init
    PROVE  Masking
<1>1. MaskingTypeOK
  BY EmptySeq DEF Init, MaskingTypeOK, Context
<1>2. ASSUME NEW c \in Context PROVE InScript(c)
  <2>1. /\ AcquireCall \in Scripts /\ AcquireCall \in Seq(Steps)
        /\ Len(AcquireCall) = 11 /\ Depth(AcquireCall)[12] = 0
    BY AcquireSteps, AcquireDepth DEF Scripts
  <2>2. SubSeq(AcquireCall, 12, 11) = <<>>
    BY SubSeqEmpty
  <2>3. At(c, AcquireCall, 11)
    BY <2>1, <2>2 DEF At, AreOpen, Init
  <2>4. 11 \in 0 .. Len(AcquireCall)
    BY <2>1
  <2> QED
    BY <2>1, <2>3, <2>4 DEF InScript
<1>3. \A c \in Context : ~ Inside(c)
  BY DEF Init, Inside
<1>4. ReasonIsReadAfterSwitch
  BY DEF Init, ReasonIsReadAfterSwitch
<1>5. PrimaskFollowsScopes
  BY <1>1, <1>3 DEF Init, PrimaskFollowsScopes, MaskingTypeOK
<1>6. todo[Isr] = <<>>
  BY DEF Init, Context
<1> QED
  BY <1>1, <1>2, <1>3, <1>4, <1>5, <1>6 DEF Masking

\* Opening a scope: the value it saves is what the scopes around it want.
LEMMA OpenKeepsMasking ==
    ASSUME Masking, NEW c \in Context,
           Open(c, "mask", 1) \/ Open(c, "unmask", 0)
    PROVE  Masking'
<1>1. PICK step \in {"mask", "unmask"} :
        /\ Open(c, step, IF step = "mask" THEN 1 ELSE 0)
  OBVIOUS
<1>2. Step(c, step)
  BY <1>1 DEF Open
<1>3. PICK s \in Scripts : \E k \in 0 .. Len(s) - 1 :
        At(c, s, k) /\ s[k + 1] = step /\ todo'[c] = SubSeq(s, k + 2, Len(s))
  BY <1>2, StepIsNext
<1>4. PICK k \in 0 .. Len(s) - 1 :
        At(c, s, k) /\ s[k + 1] = step /\ todo'[c] = SubSeq(s, k + 2, Len(s))
  BY <1>3
<1>5. k \in 0 .. Len(s)
  BY ScriptFacts
<1>6. primask = IF Masks(s, k) THEN 1 ELSE 0
  BY <1>2, <1>4, <1>5, WhereItIs DEF Step, Masking, PrimaskFollowsScopes
<1>7. /\ scopes[c] \in Seq(ScopeRecord)
      /\ scopes'[c] = Append(scopes[c], [kind |-> s[k + 1], saved |-> primask])
      /\ scopes' = [scopes EXCEPT ![c] = scopes'[c]]
  BY <1>1, <1>4 DEF Open, Masking, MaskingTypeOK
<1>8. AreOpen(scopes[c], s, k) /\ s[k + 1] \in {"mask", "unmask"}
  BY <1>4 DEF At
<1>9. /\ scopes'[c] \in Seq(ScopeRecord) /\ AreOpen(scopes'[c], s, k + 1)
      /\ Masks(s, k + 1) <=> s[k + 1] = "mask"
  BY <1>6, <1>7, <1>8, OpeningStep
<1>10. /\ primask' = IF Masks(s, k + 1) THEN 1 ELSE 0
       /\ pendSV' \in BOOLEAN /\ s[k + 1] # "restore"
  BY <1>1, <1>4, <1>9 DEF Open, Masking, MaskingTypeOK
<1> QED
  BY <1>2, <1>4, <1>7, <1>9, <1>10, StepKeepsMasking

\* Closing one: what it saved is what the scopes around it want.
LEMMA RestoreKeepsMasking ==
    ASSUME Masking, NEW c \in Context, Restore(c)
    PROVE  Masking'
<1>1. Step(c, "restore")
  BY DEF Restore
<1>2. PICK s \in Scripts : \E k \in 0 .. Len(s) - 1 :
        At(c, s, k) /\ s[k + 1] = "restore" /\ todo'[c] = SubSeq(s, k + 2, Len(s))
  BY <1>1, StepIsNext
<1>3. PICK k \in 0 .. Len(s) - 1 :
        At(c, s, k) /\ s[k + 1] = "restore" /\ todo'[c] = SubSeq(s, k + 2, Len(s))
  BY <1>2
<1>4. /\ scopes[c] \in Seq(ScopeRecord) /\ AreOpen(scopes[c], s, k)
      /\ scopes'[c] = Front(scopes[c])
      /\ scopes' = [scopes EXCEPT ![c] = scopes'[c]]
  BY <1>3 DEF Restore, Masking, MaskingTypeOK, At
<1>5. /\ scopes'[c] \in Seq(ScopeRecord) /\ AreOpen(scopes'[c], s, k + 1)
      /\ Last(scopes[c]).saved = IF Masks(s, k + 1) THEN 1 ELSE 0
  BY <1>3, <1>4, ClosingStep
<1>6. /\ primask' = IF Masks(s, k + 1) THEN 1 ELSE 0
      /\ pendSV' \in BOOLEAN /\ pendSV' = pendSV
  BY <1>5 DEF Restore, Masking, MaskingTypeOK
<1> QED
  BY <1>1, <1>3, <1>4, <1>5, <1>6, StepKeepsMasking

\* The other steps leave the scopes alone.
LEMMA PlainKeepsMasking ==
    ASSUME Masking, NEW c \in Context, Trigger(c) \/ Access(c)
    PROVE  Masking'
<1>1. PICK step \in {"trigger", "access", "reason"} : Step(c, step)
  BY DEF Trigger, Access
<1>2. PICK s \in Scripts : \E k \in 0 .. Len(s) - 1 :
        At(c, s, k) /\ s[k + 1] = step /\ todo'[c] = SubSeq(s, k + 2, Len(s))
  BY <1>1, StepIsNext
<1>3. PICK k \in 0 .. Len(s) - 1 :
        At(c, s, k) /\ s[k + 1] = step /\ todo'[c] = SubSeq(s, k + 2, Len(s))
  BY <1>2
<1>4. k \in 0 .. Len(s)
  BY ScriptFacts
<1>5. /\ scopes' = scopes /\ primask' = primask /\ pendSV' \in BOOLEAN
      /\ scopes \in [Context -> Seq(ScopeRecord)]
  BY DEF Trigger, Access, Masking, MaskingTypeOK
<1>6. /\ scopes[c] \in Seq(ScopeRecord) /\ AreOpen(scopes[c], s, k)
      /\ scopes' = [scopes EXCEPT ![c] = scopes'[c]]
  BY <1>3, <1>5 DEF At
<1>7. s[k + 1] \in {"trigger", "access", "reason"} /\ s[k + 1] # "restore"
  BY <1>3
<1>8. /\ scopes'[c] \in Seq(ScopeRecord) /\ AreOpen(scopes'[c], s, k + 1)
      /\ Masks(s, k + 1) <=> Masks(s, k)
  BY <1>5, <1>6, <1>7, PlainStep
<1>9. primask = IF Masks(s, k) THEN 1 ELSE 0
  BY <1>1, <1>3, <1>4, WhereItIs DEF Step, Masking, PrimaskFollowsScopes
<1>10. primask' = IF Masks(s, k + 1) THEN 1 ELSE 0
  BY <1>5, <1>8, <1>9
<1> QED
  BY <1>1, <1>3, <1>5, <1>6, <1>7, <1>8, <1>10, StepKeepsMasking

\* A task begins a call.
LEMMA CallKeepsMasking ==
    ASSUME Masking, NEW t \in Thread, NEW s \in {AcquireCall, ReleaseCall},
           Call(t, s)
    PROVE  Masking'
<1>1. /\ t \in Context /\ s \in Scripts /\ s \in Seq(Steps) /\ t # Isr
      /\ s # <<>> /\ Head(s) # "reason"
  BY IsrAssumption, AcquireSteps, ReleaseSteps, EmptySeq DEF Context, Scripts
<1>2. /\ running = t /\ running' = t /\ todo[t] = <<>> /\ todo'[t] = s
      /\ todo' = [todo EXCEPT ![t] = s]
      /\ UNCHANGED <<primask, pendSV, running, current, scopes>>
  BY <1>1 DEF Call, Masking, MaskingTypeOK
<1>3. InScript(t)' /\ ~ Inside(t)' /\ ~ Inside(t)
  BY <1>1, <1>2, CallBegins, IdleIsOutside
<1>4. ASSUME NEW d \in Context, d # t
      PROVE  InScript(d)' /\ (Inside(d)' <=> Inside(d))
  BY <1>2, <1>4, OthersStay DEF Masking, MaskingTypeOK
<1>5. MaskingTypeOK'
  BY <1>1, <1>2 DEF Masking, MaskingTypeOK
<1>6. todo'[Isr] = <<>>
  BY <1>1, <1>2 DEF Masking, MaskingTypeOK, Context
<1>7. PrimaskFollowsScopes'
  BY <1>2, <1>3 DEF Masking, PrimaskFollowsScopes
<1>8. ReasonIsReadAfterSwitch'
  BY <1>1, <1>2 DEF ReasonIsReadAfterSwitch
<1> QED
  BY <1>2, <1>3, <1>4, <1>5, <1>6, <1>7, <1>8 DEF Masking

\* An interrupt is taken where nothing is masked.
LEMMA InterruptKeepsMasking ==
    ASSUME Masking, Interrupt
    PROVE  Masking'
<1>1. PICK s \in TickHandlers \cup {ReleaseCall} : todo' = [todo EXCEPT ![Isr] = s]
  BY DEF Interrupt
<1>2. s \in Scripts /\ s \in Seq(Steps) /\ Isr \in Context /\ Isr \notin Thread
  BY ScriptFacts, IsrAssumption DEF Scripts, Context
<1>3. /\ running \in Thread /\ running' = Isr /\ primask = 0 /\ primask' = 0
      /\ UNCHANGED <<pendSV, current, scopes>>
      /\ todo[Isr] = <<>> /\ todo'[Isr] = s
  BY <1>1, <1>2 DEF Interrupt, Masking, MaskingTypeOK
<1>4. InScript(Isr)' /\ ~ Inside(Isr)'
  BY <1>2, <1>3, CallBegins
<1>5. ASSUME NEW d \in Context, d # Isr
      PROVE  InScript(d)' /\ (Inside(d)' <=> Inside(d))
  BY <1>1, <1>3, <1>5, OthersStay DEF Masking, MaskingTypeOK
<1>6. \A d \in Context : ~ Inside(d)
  BY <1>3 DEF Masking, PrimaskFollowsScopes
<1>7. MaskingTypeOK'
  BY <1>1, <1>2, <1>3 DEF Masking, MaskingTypeOK
<1>8. PrimaskFollowsScopes' /\ ReasonIsReadAfterSwitch'
  BY <1>2, <1>3, <1>4 DEF PrimaskFollowsScopes, ReasonIsReadAfterSwitch
<1> QED
  BY <1>3, <1>4, <1>5, <1>6, <1>7, <1>8 DEF Masking

\* A task that is at the read of its unblock reason is inside a masked scope:
\* it is not switched to while a switch is pending.
LEMMA ReasonIsMasked ==
    ASSUME Masking, NEW c \in Context, todo[c] # <<>>, Head(todo[c]) = "reason"
    PROVE  Inside(c)
<1>1. PICK s \in Scripts : \E k \in 0 .. Len(s) : At(c, s, k)
  BY DEF Masking, InScript
<1>2. PICK k \in 0 .. Len(s) : At(c, s, k)
  BY <1>1
<1>3. k \in 0 .. Len(s) - 1 /\ s[k + 1] = "reason"
  BY <1>2, WhereItIs, ScriptFacts
<1> QED
  BY <1>2, <1>3, ReasonIsNext, WhereItIs

\* The handler returns, and the switch goes, to a task outside of all masked
\* scopes.
LEMMA SwitchKeepsMasking ==
    ASSUME Masking, Return \/ PendSV
    PROVE  Masking'
<1>1. \A d \in Context : ~ Inside(d)
  <2>1. CASE Return
    <3>1. running \in Context /\ ~ Inside(running)
      BY <2>1, IdleIsOutside DEF Return, Context
    <3> QED
      BY <3>1 DEF Masking
  <2>2. CASE PendSV
    BY <2>2 DEF PendSV, Masking, PrimaskFollowsScopes
  <2> QED
    BY <2>1, <2>2
<1>2. primask = 0
  BY <1>1 DEF Masking, MaskingTypeOK, PrimaskFollowsScopes
<1>3. /\ todo' = todo /\ scopes' = scopes /\ primask' = 0
      /\ running' \in Thread /\ current' \in Thread /\ pendSV' \in BOOLEAN
  BY <1>2 DEF Return, PendSV, Masking, MaskingTypeOK
<1>4. ASSUME NEW d \in Context PROVE InScript(d)' /\ ~ Inside(d)'
  BY <1>1, <1>3, OthersStay
<1>5. MaskingTypeOK'
  BY <1>3 DEF Masking, MaskingTypeOK, Context
<1>6. todo'[Isr] = <<>>
  BY <1>3, IsrAssumption DEF Return, PendSV, Masking
<1>7. PrimaskFollowsScopes'
  BY <1>3, <1>4, <1>5 DEF PrimaskFollowsScopes, MaskingTypeOK
<1>8. ReasonIsReadAfterSwitch'
  BY <1>1, <1>3, ReasonIsMasked DEF ReasonIsReadAfterSwitch, Context
<1> QED
  BY <1>4, <1>5, <1>6, <1>7, <1>8 DEF Masking

LEMMA NextMasking ==
    ASSUME Masking, [Next]_vars
    PROVE  Masking'
<1>1. ASSUME NEW t \in Thread, NEW s \in {AcquireCall, ReleaseCall}, Call(t, s)
      PROVE  Masking'
  BY <1>1, CallKeepsMasking
<1>2. ASSUME NEW c \in Context, ContextStep(c)
      PROVE  Masking'
  BY <1>2, OpenKeepsMasking, RestoreKeepsMasking, PlainKeepsMasking
     DEF ContextStep
<1>3. CASE Interrupt
  BY <1>3, InterruptKeepsMasking
<1>4. CASE Return \/ PendSV
  BY <1>4, SwitchKeepsMasking
<1>5. CASE UNCHANGED vars
  <2>1. /\ \A c \in Context : InScript(c)' /\ (Inside(c)' <=> Inside(c))
        /\ running' = running /\ todo' = todo
    BY <1>5, OthersStay DEF vars
  <2>2. MaskingTypeOK'
    BY <1>5 DEF vars, Masking, MaskingTypeOK
  <2>3. PrimaskFollowsScopes' /\ ReasonIsReadAfterSwitch'
    BY <1>5 DEF vars, Masking, PrimaskFollowsScopes, ReasonIsReadAfterSwitch,
                Inside
  <2> QED
    BY <2>1, <2>2, <2>3 DEF Masking
<1> QED
  BY <1>1, <1>2, <1>3, <1>4, <1>5 DEF Next

-----------------------------------------------------------------------------
\* Whatever runs, and wherever it is interrupted or switched away from: every
\* context is somewhere in a script with the scopes that go with it.
THEOREM MaskingAlways == Spec => []Masking
<1>1. Init => Masking
  BY InitMasking
<1>2. Masking /\ [Next]_vars => Masking'
  BY NextMasking
<1> QED
  BY <1>1, <1>2, PTL DEF Spec

\* PRIMASK is always what the innermost scope of the running context wants,
\* for any number of tasks (InterruptMaskingUnmasking, PendSV_Handler).
THEOREM ScopesDecidePrimask == Spec => []PrimaskFollowsScopes
<1>1. Masking => PrimaskFollowsScopes
  BY DEF Masking
<1> QED
  BY <1>1, MaskingAlways, PTL

\* Masked code is exclusive, for any number of tasks: what one context works
\* on, no other is in the middle of.
THEOREM MaskedCodeIsExclusive == Spec => []AccessIsExclusive
<1>1. Masking => AccessIsExclusive
  BY DEF Masking, AccessIsExclusive
<1> QED
  BY <1>1, MaskingAlways, PTL

\* ForceContextSwitch has switched by the time Block reads the reason it was
\* unblocked for, for any number of tasks.
THEOREM BlockReadsItsReasonLater == Spec => []ReasonIsReadAfterSwitch
<1>1. Masking => ReasonIsReadAfterSwitch
  BY DEF Masking
<1> QED
  BY <1>1, MaskingAlways, PTL

-----------------------------------------------------------------------------
(***************************************************************************)
(* The inductive invariant.  Until the bus fails the channel is always     *)
(* busy with the buffer ping names, its handle locked, and the end of a    *)
(* transfer is flagged exactly when the buffer is full.                    *)
(***************************************************************************)
BeforeStart ==
    pc = "start" => /\ state = "READY" /\ ~lock /\ ~failed
                    /\ counter = 0 /\ flags = {}

Transferring ==
    pc # "start" /\ ~failed =>
        /\ state = "BUSY" /\ lock
        /\ {"TC", "TE"} \subseteq enabled
        /\ left = 0 => "TC" \in flags

OnTarget ==
    /\ target = ping
    /\ "TC" \in flags => left = 0 /\ target \in whole

\* Since the first callback, readIndex names a buffer that is full and that
\* the channel is not in.
ReadIndexIsFull ==
    counter > 0 \/ pc \notin {"start", "acquire"} =>
        readIndex \in whole /\ readIndex # target

\* What task2 has read of readIndex is what it is, until a transfer completes.
IteratorsAgree ==
    ~swapped => /\ pc \in {"end", "sum"} => first = readIndex
                /\ pc = "sum" => last = readIndex

IInv == /\ TypeOK /\ BeforeStart /\ Transferring /\ OnTarget
        /\ ReadIndexIsFull /\ IteratorsAgree

LEMMA IInvInit == AcquisitionInit => IInv
<1> SUFFICES ASSUME AcquisitionInit PROVE IInv
  OBVIOUS
<1>1. TypeOK
  <2>1. counter \in 0 .. MaxCounter /\ left \in 0 .. Length
    BY AcquisitionAssumption DEF AcquisitionInit
  <2> QED
    BY <2>1 DEF AcquisitionInit, TypeOK, Buffer
<1>2. BeforeStart
  BY DEF AcquisitionInit, BeforeStart
<1>3. Transferring /\ OnTarget
  BY DEF AcquisitionInit, Transferring, OnTarget
<1>4. ReadIndexIsFull /\ IteratorsAgree
  BY DEF AcquisitionInit, ReadIndexIsFull, IteratorsAgree
<1> QED
  BY <1>1, <1>2, <1>3, <1>4 DEF IInv

\* A completed transfer: the callback is called with the handle ready, and so
\* it does start the next one.
LEMMA TransferCompleteKeeps == IInv /\ TransferCompleteIrq => IInv'
<1> SUFFICES ASSUME IInv, TransferCompleteIrq PROVE IInv'
  OBVIOUS
<1> USE AcquisitionAssumption DEF IInv, Buffer
<1>1. /\ "TC" \in flags /\ ~failed /\ left = 0 /\ target \in whole /\ target = ping
      /\ ping \in Buffer /\ whole \subseteq Buffer
      /\ counter \in 0 .. MaxCounter /\ pc # "start"
  BY DEF TransferCompleteIrq, OnTarget, BeforeStart, TypeOK
<1>2. /\ readIndex' = ping /\ ping' = 1 - ping
      /\ state' = "BUSY" /\ lock' = TRUE /\ target' = ping' /\ left' = Length
      /\ flags' = {} /\ enabled' = {"HT", "TC", "TE"}
      /\ swapped' = (pc \in {"end", "sum"} \/ swapped)
      /\ counter' = IF counter = MaxCounter THEN counter ELSE counter + 1
      /\ UNCHANGED <<pc, first, last, failed, whole>>
  BY DEF TransferCompleteIrq, ConvCpltCallback, StartDma, Started, Release, task2
<1>3. TypeOK'
  BY <1>1, <1>2 DEF TypeOK
<1>4. BeforeStart' /\ Transferring' /\ OnTarget'
  BY <1>1, <1>2 DEF BeforeStart, Transferring, OnTarget
<1>5. ReadIndexIsFull'
  BY <1>1, <1>2 DEF ReadIndexIsFull
<1>6. IteratorsAgree'
  BY <1>2 DEF IteratorsAgree
<1> QED
  BY <1>3, <1>4, <1>5, <1>6

\* The channel stores a sample.
LEMMA SampleKeeps == IInv /\ Sample => IInv'
<1> SUFFICES ASSUME IInv, Sample PROVE IInv'
  OBVIOUS
<1> USE AcquisitionAssumption DEF IInv, Buffer
<1>1. /\ left' = left - 1 /\ left \in 1 .. Length
      /\ flags' = flags \cup (IF left' = Length \div 2 THEN {"HT"} ELSE {})
                        \cup (IF left' = 0 THEN {"TC"} ELSE {})
      /\ whole' = IF left' = 0 THEN whole \cup {target} ELSE whole \ {target}
      /\ UNCHANGED <<ping, readIndex, counter, pc, first, last, state, lock,
                     failed, target, enabled, swapped>>
  BY DEF Sample, app, task2, hal, TypeOK
<1>2. "TC" \notin flags /\ pc # "start"
  BY <1>1 DEF OnTarget, BeforeStart, Sample
<1>3. TypeOK'
  BY <1>1 DEF TypeOK
<1>4. BeforeStart' /\ Transferring' /\ OnTarget'
  BY <1>1, <1>2 DEF BeforeStart, Transferring, OnTarget
<1>5. ReadIndexIsFull' /\ IteratorsAgree'
  BY <1>1 DEF ReadIndexIsFull, IteratorsAgree
<1> QED
  BY <1>3, <1>4, <1>5

\* The other interrupts, and the error of the bus.
LEMMA OtherHardwareKeeps ==
    IInv /\ (HalfTransferIrq \/ TransferErrorIrq \/ BusError) => IInv'
<1> USE DEF IInv, app, task2, hal, notes
<1>1. ASSUME IInv, HalfTransferIrq PROVE IInv'
  BY <1>1 DEF HalfTransferIrq, TypeOK, BeforeStart, Transferring, OnTarget,
              ReadIndexIsFull, IteratorsAgree
<1>2. ASSUME IInv, TransferErrorIrq PROVE IInv'
  BY <1>2 DEF TransferErrorIrq, TypeOK, BeforeStart, Transferring, OnTarget,
              ReadIndexIsFull, IteratorsAgree
<1>3. ASSUME IInv, BusError PROVE IInv'
  BY <1>3 DEF BusError, TypeOK, BeforeStart, Transferring, OnTarget,
              ReadIndexIsFull, IteratorsAgree
<1> QED
  BY <1>1, <1>2, <1>3

\* The steps of task2.
LEMMA Task2Keeps == IInv /\ Task2 => IInv'
<1> SUFFICES ASSUME IInv, Task2 PROVE IInv'
  OBVIOUS
<1>1. CASE Task2Start
  <2>1. /\ pc = "start" /\ pc' = "acquire" /\ Started(ping)
        /\ UNCHANGED <<ping, readIndex, counter, first, last, failed, whole,
                       swapped>>
    BY <1>1 DEF IInv, BeforeStart, Task2Start, StartDma, app, notes
  <2>2. TypeOK'
    BY <2>1, AcquisitionAssumption DEF IInv, TypeOK, Started, Buffer
  <2>3. BeforeStart' /\ Transferring' /\ OnTarget'
    BY <2>1, AcquisitionAssumption
       DEF IInv, BeforeStart, Transferring, OnTarget, Started
  <2>4. ReadIndexIsFull' /\ IteratorsAgree'
    BY <2>1 DEF IInv, BeforeStart, ReadIndexIsFull, IteratorsAgree
  <2> QED
    BY <2>2, <2>3, <2>4 DEF IInv
<1>2. CASE Task2Acquire
  <2>1. /\ pc = "acquire" /\ pc' = "begin" /\ counter > 0 /\ counter' = counter - 1
        /\ UNCHANGED <<ping, readIndex, first, last, state, lock, failed, target,
                       left, flags, enabled, whole>>
        /\ swapped' = FALSE
    BY <1>2 DEF Task2Acquire, hal, channel
  <2>2. TypeOK'
    <3>1. counter' \in 0 .. MaxCounter
      BY <2>1, AcquisitionAssumption DEF IInv, TypeOK
    <3> QED
      BY <2>1, <3>1 DEF IInv, TypeOK
  <2>3. BeforeStart' /\ Transferring' /\ OnTarget'
    BY <2>1 DEF IInv, BeforeStart, Transferring, OnTarget
  <2>4. ReadIndexIsFull' /\ IteratorsAgree'
    BY <2>1 DEF IInv, ReadIndexIsFull, IteratorsAgree
  <2> QED
    BY <2>2, <2>3, <2>4 DEF IInv
<1>3. CASE Task2Begin \/ Task2End \/ Task2Show
  <2> USE <1>3 DEF Task2Begin, Task2End, Task2Show, app, hal, channel, notes, IInv
  <2>1. TypeOK'
    BY DEF TypeOK
  <2>2. BeforeStart' /\ Transferring' /\ OnTarget'
    BY DEF BeforeStart, Transferring, OnTarget
  <2>3. ReadIndexIsFull' /\ IteratorsAgree'
    BY DEF ReadIndexIsFull, IteratorsAgree, TypeOK
  <2> QED
    BY <2>1, <2>2, <2>3
<1> QED
  BY <1>1, <1>2, <1>3 DEF Task2

LEMMA IInvAlways == AcquisitionSpec => []IInv
<1>1. IInv /\ [AcquisitionNext]_acquisitionVars => IInv'
  <2>1. IInv /\ UNCHANGED acquisitionVars => IInv'
    BY DEF acquisitionVars, app, task2, hal, channel, notes, IInv, TypeOK, BeforeStart,
           Transferring, OnTarget, ReadIndexIsFull, IteratorsAgree
  <2> QED
    BY <2>1, TransferCompleteKeeps, SampleKeeps, OtherHardwareKeeps, Task2Keeps
       DEF AcquisitionNext, Irq
<1> QED
  BY <1>1, IInvInit, PTL DEF AcquisitionSpec

\* Every variable keeps its type; the counter stays within its maximum.
THEOREM AcquisitionIsTyped == AcquisitionSpec => []TypeOK
<1>1. IInv => TypeOK
  BY DEF IInv
<1> QED
  BY <1>1, IInvAlways, PTL

\* Unless a transfer completes while task2 averages, it averages the samples of
\* one transfer.
THEOREM AveragesAreOfOneTransfer == AcquisitionSpec => []AverageIsOfOneTransfer
<1>1. IInv => AverageIsOfOneTransfer
  BY DEF IInv, AverageIsOfOneTransfer, IteratorsAgree, ReadIndexIsFull
<1> QED
  BY <1>1, IInvAlways, PTL

\* Acquisition does not stall before the bus fails.
THEOREM AcquisitionDoesNotStall == AcquisitionSpec => []AcquisitionGoesOn
<1>1. IInv => AcquisitionGoesOn
  BY DEF IInv, AcquisitionGoesOn, Transferring, TypeOK
<1> QED
  BY <1>1, IInvAlways, PTL
=============================================================================
