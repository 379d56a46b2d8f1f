--------------------------- MODULE DataModelProofs ---------------------------
(***************************************************************************)
(* Notification of listeners, proved for any number of threads, listeners  *)
(* and values, and however deep assignments nest.                          *)
(***************************************************************************)
EXTENDS DataModel, SequenceTheorems, TLAPS

Frame == [at : {"assign"}, v : Value] \cup [at : {"notify"}]
           \cup [at : {"func"}, c : Callback]

DataModelTypeOK ==
    /\ value \in Value
    /\ listeners \in Seq(Callback)
    /\ calls \in [Thread -> Seq(Frame)]
    /\ seen \in [Callback -> Value]

\* A listener is attached once.
Distinct(q) == \A i, j \in 1 .. Len(q) : q[i] = q[j] => i = j

\* The frame f has still to call c, where q is the list of listeners.
Awaits(q, f, c) ==
    \E j \in 1 .. Len(q) :
        /\ q[j] = c
        /\ f.at = "func" => \E k \in 1 .. j - 1 : q[k] = f.c

\* Some frame of the stack s has.
Awaited(q, s, c) == \E n \in 1 .. Len(s) : Awaits(q, s[n], c)

(***************************************************************************)
(* The inductive invariant: nobody is left behind, in terms of frames.     *)
(***************************************************************************)
UpToDate ==
    \A c \in Attached :
        seen[c] # value => \E th \in Thread : Awaited(listeners, calls[th], c)

Notified == DataModelTypeOK /\ Distinct(listeners) /\ UpToDate

-----------------------------------------------------------------------------
\* The frames there are.
LEMMA Frames1 ==
    /\ \A v \in Value : Assigning(v) \in Frame /\ Assigning(v).at = "assign"
    /\ Notifying \in Frame /\ Notifying.at = "notify"
    /\ \A c \in Callback : /\ InFunc(c) \in Frame /\ InFunc(c).at = "func"
                           /\ InFunc(c).c = c
BY DEF Frame, Assigning, Notifying, InFunc

LEMMA FuncFrames ==
    ASSUME NEW f \in Frame, f.at = "func"
    PROVE  f.c \in Callback /\ f = InFunc(f.c)
BY DEF Frame, InFunc

\* A frame on top of a stack, and the stack below.
LEMMA PushedFrame ==
    ASSUME NEW q, NEW s \in Seq(Frame), NEW f \in Frame, NEW c
    PROVE  /\ <<f>> \o s \in Seq(Frame)
           /\ Awaited(q, <<f>> \o s, c) <=> Awaits(q, f, c) \/ Awaited(q, s, c)
<1> DEFINE t == <<f>>
           r == t \o s
<1>1. t \in Seq(Frame) /\ Len(t) = 1 /\ t[1] = f /\ Len(s) \in Nat
  BY LenProperties
<1> HIDE DEF t
<1>2. /\ r \in Seq(Frame) /\ Len(r) = Len(t) + Len(s)
      /\ \A i \in 1 .. Len(t) + Len(s) :
           r[i] = IF i <= Len(t) THEN t[i] ELSE s[i - Len(t)]
  BY <1>1, ConcatProperties
<1> HIDE DEF r
<1>3. /\ r[1] = f /\ Len(r) = Len(s) + 1
      /\ \A i \in 1 .. Len(s) : i + 1 \in 1 .. Len(r) /\ r[i + 1] = s[i]
      /\ \A i \in 2 .. Len(r) : i - 1 \in 1 .. Len(s) /\ r[i] = s[i - 1]
  BY <1>1, <1>2
<1>4. ASSUME Awaited(q, r, c) PROVE Awaits(q, f, c) \/ Awaited(q, s, c)
  <2>1. PICK n \in 1 .. Len(r) : Awaits(q, r[n], c)
    BY <1>4 DEF Awaited
  <2>2. CASE n = 1
    BY <2>1, <2>2, <1>3
  <2>3. CASE n \in 2 .. Len(r)
    BY <2>1, <2>3, <1>3 DEF Awaited
  <2> QED
    BY <1>1, <1>3, <2>2, <2>3
<1>5. ASSUME Awaits(q, f, c) PROVE Awaited(q, r, c)
  BY <1>1, <1>3, <1>5 DEF Awaited
<1>6. ASSUME Awaited(q, s, c) PROVE Awaited(q, r, c)
  BY <1>3, <1>6 DEF Awaited
<1> QED
  BY <1>2, <1>4, <1>5, <1>6 DEF r, t

LEMMA PoppedFrame ==
    ASSUME NEW q, NEW s \in Seq(Frame), s # <<>>, NEW c
    PROVE  /\ Head(s) \in Frame /\ Tail(s) \in Seq(Frame)
           /\ Awaited(q, s, c) <=>
                Awaits(q, Head(s), c) \/ Awaited(q, Tail(s), c)
<1> DEFINE r == Tail(s)
<1>1. /\ Head(s) = s[1] /\ Head(s) \in Frame /\ Len(s) \in Nat /\ Len(s) > 0
      /\ r \in Seq(Frame) /\ Len(r) = Len(s) - 1
      /\ \A i \in 1 .. Len(r) : r[i] = s[i + 1]
  BY HeadTailProperties, LenProperties, EmptySeq
<1> HIDE DEF r
<1>2. /\ \A i \in 1 .. Len(r) : i + 1 \in 1 .. Len(s) /\ r[i] = s[i + 1]
      /\ \A i \in 2 .. Len(s) : i - 1 \in 1 .. Len(r) /\ r[i - 1] = s[i]
  BY <1>1
<1>3. ASSUME Awaited(q, s, c) PROVE Awaits(q, Head(s), c) \/ Awaited(q, r, c)
  <2>1. PICK n \in 1 .. Len(s) : Awaits(q, s[n], c)
    BY <1>3 DEF Awaited
  <2>2. CASE n = 1
    BY <2>1, <2>2, <1>1
  <2>3. CASE n \in 2 .. Len(s)
    BY <2>1, <2>3, <1>2 DEF Awaited
  <2> QED
    BY <1>1, <2>2, <2>3
<1>4. ASSUME Awaits(q, Head(s), c) PROVE Awaited(q, s, c)
  BY <1>1, <1>4 DEF Awaited
<1>5. ASSUME Awaited(q, r, c) PROVE Awaited(q, s, c)
  BY <1>2, <1>5 DEF Awaited
<1> QED
  BY <1>1, <1>3, <1>4, <1>5 DEF r

\* What the frames have still to call is ToCome.
LEMMA ToComeIsAwaited ==
    ASSUME DataModelTypeOK, NEW th \in Thread, NEW c \in Attached,
           Awaited(listeners, calls[th], c)
    PROVE  c \in ToCome(th)
<1>1. PICK n \in 1 .. Len(calls[th]) : Awaits(listeners, calls[th][n], c)
  BY DEF Awaited
<1> DEFINE f == calls[th][n]
<1>2. f \in Range(calls[th])
  BY LenProperties DEF DataModelTypeOK, Range
<1>3. CASE f.at = "func"
  <2>1. PICK j \in 1 .. Len(listeners) :
          listeners[j] = c /\ \E k \in 1 .. j - 1 : listeners[k] = f.c
    BY <1>1, <1>3 DEF Awaits
  <2>2. j \in DOMAIN listeners
    BY LenProperties DEF DataModelTypeOK
  <2> HIDE DEF f
  <2> QED
    BY <1>2, <1>3, <2>1, <2>2 DEF ToCome
<1>4. CASE f.at # "func"
  <2> HIDE DEF f
  <2> QED
    BY <1>2, <1>4 DEF ToCome
<1> QED
  BY <1>3, <1>4
-----------------------------------------------------------------------------
(***************************************************************************)
(* The invariant, step by step.                                            *)
(***************************************************************************)
\* What is awaited stays so if the listeners and the other threads do not
\* change, and this thread's frames still await it.
LEMMA StaysAwaited ==
    ASSUME NEW th \in Thread, NEW c,
           \A other \in Thread : other # th => calls'[other] = calls[other],
           listeners' = listeners,
           Awaited(listeners, calls[th], c) => Awaited(listeners, calls'[th], c),
           \E other \in Thread : Awaited(listeners, calls[other], c)
    PROVE  \E other \in Thread : Awaited(listeners', calls'[other], c)
<1>1. PICK other \in Thread : Awaited(listeners, calls[other], c)
  OBVIOUS
<1>2. CASE other = th
  BY <1>1, <1>2
<1>3. CASE other # th
  BY <1>1, <1>3
<1> QED
  BY <1>2, <1>3

LEMMA WriteKeepsNotified ==
    ASSUME Notified, NEW th \in Thread, NEW v \in Value, Write(th, v)
    PROVE  Notified'
<1>1. /\ calls' = [calls EXCEPT ![th] = <<Assigning(v)>> \o calls[th]]
      /\ UNCHANGED <<value, listeners, seen>>
      /\ calls[th] \in Seq(Frame)
      /\ calls'[th] = <<Assigning(v)>> \o calls[th]
  BY DEF Write, Frames, Notified, DataModelTypeOK
<1>2. \A c : /\ calls'[th] \in Seq(Frame)
             /\ Awaited(listeners, calls[th], c) =>
                  Awaited(listeners, calls'[th], c)
  BY <1>1, Frames1, PushedFrame
<1>3. DataModelTypeOK'
  BY <1>1, <1>2 DEF Notified, DataModelTypeOK
<1>4. ASSUME NEW c \in Attached', seen'[c] # value'
      PROVE  \E other \in Thread : Awaited(listeners', calls'[other], c)
  <2>1. \E other \in Thread : Awaited(listeners, calls[other], c)
    BY <1>1, <1>4 DEF Notified, UpToDate, Attached
  <2>2. \A other \in Thread : other # th => calls'[other] = calls[other]
    BY <1>1 DEF Notified, DataModelTypeOK
  <2> QED
    BY <1>1, <1>2, <2>1, <2>2, StaysAwaited
<1> QED
  BY <1>1, <1>3, <1>4 DEF Notified, UpToDate

\* An assignment has everybody to call.
LEMMA AssignKeepsNotified ==
    ASSUME Notified, NEW th \in Thread, Assign(th)
    PROVE  Notified'
<1>1. /\ calls[th] \in Seq(Frame) /\ calls[th] # <<>>
      /\ Head(calls[th]).at = "assign"
      /\ calls'[th] = <<Notifying>> \o Tail(calls[th])
      /\ calls' = [calls EXCEPT ![th] = calls'[th]]
      /\ value' = Head(calls[th]).v
      /\ UNCHANGED <<listeners, seen>>
  BY DEF Assign, At, Frames, Notified, DataModelTypeOK
<1>2. Head(calls[th]) \in Frame /\ Tail(calls[th]) \in Seq(Frame)
  BY <1>1, PoppedFrame
<1>3. value' \in Value
  BY <1>1, <1>2 DEF Frame
<1>4. \A c : /\ calls'[th] \in Seq(Frame)
             /\ Awaits(listeners, Notifying, c) =>
                  Awaited(listeners, calls'[th], c)
  BY <1>1, <1>2, Frames1, PushedFrame
<1>5. DataModelTypeOK'
  BY <1>1, <1>3, <1>4 DEF Notified, DataModelTypeOK
<1>6. ASSUME NEW c \in Attached'
      PROVE  \E other \in Thread : Awaited(listeners', calls'[other], c)
  <2>1. PICK j \in 1 .. Len(listeners) : listeners[j] = c
    BY <1>1, <1>6, LenProperties DEF Attached, Range, Notified, DataModelTypeOK
  <2>2. Awaits(listeners, Notifying, c)
    BY <2>1, Frames1 DEF Awaits
  <2> QED
    BY <1>1, <1>4, <2>2
<1> QED
  BY <1>1, <1>5, <1>6 DEF Notified, UpToDate

\* A notification goes on to the i-th listener, or ends, where its frame so
\* far awaits none before it.
LEMMA VisitKeepsNotified ==
    ASSUME Notified, NEW th \in Thread, calls[th] # <<>>,
           NEW i \in Nat \ {0}, Visit(th, i), UNCHANGED <<value, listeners>>,
           \A c : Awaits(listeners, Head(calls[th]), c) =>
                    \E j \in 1 .. Len(listeners) : j >= i /\ listeners[j] = c
    PROVE  Notified'
<1> DEFINE rest == Tail(calls[th])
           c0 == listeners[i]
<1>1. /\ calls[th] \in Seq(Frame) /\ listeners \in Seq(Callback)
      /\ seen \in [Callback -> Value] /\ calls \in [Thread -> Seq(Frame)]
      /\ Len(listeners) \in Nat /\ DOMAIN listeners = 1 .. Len(listeners)
      /\ value \in Value
  BY LenProperties DEF Notified, DataModelTypeOK
<1>2. \A c : /\ rest \in Seq(Frame)
             /\ Awaited(listeners, calls[th], c) =>
                  Awaits(listeners, Head(calls[th]), c) \/ Awaited(listeners, rest, c)
  BY <1>1, PoppedFrame
<1>3. Distinct(listeners')
  BY DEF Notified
<1>4. CASE i \in 1 .. Len(listeners)
  <2>1. c0 \in Callback
    BY <1>1, <1>4, ElementOfSeq
  <2>2. /\ calls' = [calls EXCEPT ![th] = <<InFunc(c0)>> \o rest]
        /\ calls'[th] = <<InFunc(c0)>> \o rest
        /\ seen' = [seen EXCEPT ![c0] = value]
    BY <1>1, <1>4 DEF Visit, Frames
  <2>3. \A c : /\ calls'[th] \in Seq(Frame)
               /\ Awaits(listeners, InFunc(c0), c) \/ Awaited(listeners, rest, c) =>
                    Awaited(listeners, calls'[th], c)
    BY <1>2, <2>1, <2>2, Frames1, PushedFrame
  <2>4. DataModelTypeOK'
    BY <1>1, <2>1, <2>2, <2>3 DEF DataModelTypeOK
  <2>5. ASSUME NEW c \in Attached', seen'[c] # value'
        PROVE  \E other \in Thread : Awaited(listeners', calls'[other], c)
    <3>1. c \in Attached /\ c \in Callback /\ c # c0 /\ seen[c] # value
      <4>1. c \in Attached
        BY DEF Attached
      <4>2. c \in Callback
        BY <4>1, <1>1, ElementOfSeq DEF Attached, Range
      <4> QED
        BY <1>1, <2>1, <2>2, <2>5, <4>1, <4>2
    <3>2. \E other \in Thread : Awaited(listeners, calls[other], c)
      BY <3>1 DEF Notified, UpToDate
    <3>3. ASSUME Awaits(listeners, Head(calls[th]), c)
          PROVE  Awaits(listeners, InFunc(c0), c)
      <4>1. PICK j \in 1 .. Len(listeners) : j >= i /\ listeners[j] = c
        BY <3>3
      <4>2. i \in 1 .. j - 1
        BY <1>1, <1>4, <3>1, <4>1
      <4> QED
        BY <2>1, <4>1, <4>2, Frames1 DEF Awaits
    <3>4. Awaited(listeners, calls[th], c) => Awaited(listeners, calls'[th], c)
      BY <1>2, <2>3, <3>3
    <3>5. \A other \in Thread : other # th => calls'[other] = calls[other]
      BY <1>1, <2>2
    <3> QED
      BY <3>2, <3>4, <3>5, StaysAwaited
  <2> QED
    BY <1>3, <2>4, <2>5 DEF Notified, UpToDate
<1>5. CASE i \notin 1 .. Len(listeners)
  <2>1. /\ calls' = [calls EXCEPT ![th] = rest] /\ calls'[th] = rest
        /\ seen' = seen
    BY <1>1, <1>5 DEF Visit, Frames
  <2>2. DataModelTypeOK'
    BY <1>1, <1>2, <2>1 DEF DataModelTypeOK
  <2>3. ASSUME NEW c \in Attached', seen'[c] # value'
        PROVE  \E other \in Thread : Awaited(listeners', calls'[other], c)
    <3>1. \E other \in Thread : Awaited(listeners, calls[other], c)
      BY <2>1, <2>3 DEF Notified, UpToDate, Attached
    <3>2. ~ Awaits(listeners, Head(calls[th]), c)
      BY <1>1, <1>5
    <3>3. Awaited(listeners, calls[th], c) => Awaited(listeners, calls'[th], c)
      BY <1>2, <2>1, <3>2
    <3>4. \A other \in Thread : other # th => calls'[other] = calls[other]
      BY <1>1, <2>1
    <3> QED
      BY <3>1, <3>3, <3>4, StaysAwaited
  <2> QED
    BY <1>3, <2>2, <2>3 DEF Notified, UpToDate
<1> QED
  BY <1>4, <1>5

LEMMA NotifyKeepsNotified ==
    ASSUME Notified, NEW th \in Thread, Notify(th)
    PROVE  Notified'
<1>1. /\ calls[th] \in Seq(Frame) /\ Len(listeners) \in Nat
      /\ DOMAIN listeners = 1 .. Len(listeners)
  BY LenProperties DEF Notified, DataModelTypeOK
<1>2. CASE At(th, "notify") /\ Visit(th, 1)
  <2>1. \A c : Awaits(listeners, Head(calls[th]), c) =>
                 \E j \in 1 .. Len(listeners) : j >= 1 /\ listeners[j] = c
    BY <1>1 DEF Awaits
  <2> QED
    BY <1>2, <2>1, VisitKeepsNotified DEF Notify, At
<1>3. CASE /\ At(th, "func")
           /\ \E i \in DOMAIN listeners :
                listeners[i] = Head(calls[th]).c /\ Visit(th, i + 1)
  <2>1. PICK i \in 1 .. Len(listeners) :
          listeners[i] = Head(calls[th]).c /\ Visit(th, i + 1)
    BY <1>1, <1>3
  <2>2. ASSUME NEW c, Awaits(listeners, Head(calls[th]), c)
        PROVE  \E j \in 1 .. Len(listeners) : j >= i + 1 /\ listeners[j] = c
    <3>1. PICK j \in 1 .. Len(listeners) :
            /\ listeners[j] = c
            /\ \E k \in 1 .. j - 1 : listeners[k] = Head(calls[th]).c
      BY <1>3, <2>2 DEF Awaits, At
    <3>2. PICK k \in 1 .. j - 1 : listeners[k] = Head(calls[th]).c
      BY <3>1
    <3>3. k = i
      BY <1>1, <2>1, <3>2 DEF Notified, Distinct
    <3> QED
      BY <1>1, <3>1, <3>2, <3>3
  <2>3. i + 1 \in Nat \ {0}
    OBVIOUS
  <2> QED
    BY <1>3, <2>1, <2>2, <2>3, VisitKeepsNotified DEF Notify, At
<1> QED
  BY <1>2, <1>3 DEF Notify
\* The new listener comes last and has read the value; the others stay where
\* they are.
LEMMA AttachKeepsNotified ==
    ASSUME Notified, NEW th \in Thread, NEW c \in Callback, Attach(th, c)
    PROVE  Notified'
<1> DEFINE q == listeners
           r == Append(q, c)
<1>1. /\ q \in Seq(Callback) /\ Len(q) \in Nat /\ Distinct(q)
      /\ \A i \in 1 .. Len(q) : q[i] # c
      /\ listeners' = r /\ seen' = [seen EXCEPT ![c] = value]
      /\ UNCHANGED <<value, calls>>
  BY LenProperties DEF Attach, Attached, Range, Notified, DataModelTypeOK
<1> HIDE DEF q
<1>2. /\ r \in Seq(Callback) /\ Len(r) = Len(q) + 1 /\ r[Len(q) + 1] = c
      /\ \A i \in 1 .. Len(q) : r[i] = q[i]
  BY <1>1, AppendProperties
<1> HIDE DEF r
<1>3. DataModelTypeOK'
  BY <1>1, <1>2 DEF Notified, DataModelTypeOK
<1>4. Distinct(r)
  <2> SUFFICES ASSUME NEW i \in 1 .. Len(r), NEW j \in 1 .. Len(r), r[i] = r[j]
               PROVE  i = j
    BY DEF Distinct
  <2>1. /\ i \in 1 .. Len(q) \/ i = Len(q) + 1
        /\ j \in 1 .. Len(q) \/ j = Len(q) + 1
    BY <1>1, <1>2
  <2> QED
    BY <1>1, <1>2, <2>1 DEF Distinct
<1>5. ASSUME NEW f, NEW d, Awaits(q, f, d)
      PROVE  Awaits(r, f, d)
  <2>1. PICK j \in 1 .. Len(q) :
          q[j] = d /\ (f.at = "func" => \E k \in 1 .. j - 1 : q[k] = f.c)
    BY <1>5 DEF Awaits
  <2>2. j \in 1 .. Len(r) /\ r[j] = d
    BY <1>1, <1>2, <2>1
  <2>3. ASSUME f.at = "func" PROVE \E k \in 1 .. j - 1 : r[k] = f.c
    <3>1. PICK k \in 1 .. j - 1 : q[k] = f.c
      BY <2>1, <2>3
    <3>2. k \in 1 .. Len(q)
      BY <1>1
    <3> QED
      BY <1>2, <3>1, <3>2
  <2> QED
    BY <2>2, <2>3 DEF Awaits
<1>6. ASSUME NEW d \in Attached', seen'[d] # value'
      PROVE  \E other \in Thread : Awaited(listeners', calls'[other], d)
  <2>1. PICK j \in 1 .. Len(r) : r[j] = d
    BY <1>1, <1>2, <1>6, LenProperties DEF Attached, Range
  <2>2. d \in Callback
    BY <1>2, <2>1, ElementOfSeq
  <2>3. d # c /\ seen[d] # value
    BY <1>1, <1>6, <2>2 DEF Notified, DataModelTypeOK
  <2>4. d \in Attached
    <3>1. j \in 1 .. Len(q) /\ q[j] = d
      BY <1>1, <1>2, <2>1, <2>3
    <3> QED
      BY <1>1, <3>1, LenProperties DEF Attached, Range, q
  <2>5. PICK other \in Thread : Awaited(q, calls[other], d)
    BY <2>3, <2>4 DEF Notified, UpToDate, q
  <2>6. Awaited(r, calls[other], d)
    BY <1>5, <2>5 DEF Awaited
  <2> QED
    BY <1>1, <2>6
<1> QED
  BY <1>1, <1>3, <1>4, <1>6 DEF Notified, UpToDate

\* A sequence without one of its elements keeps the others in order.
LEMMA WithoutOne ==
    ASSUME NEW q \in Seq(Callback), NEW i \in 1 .. Len(q)
    PROVE  /\ RemoveAt(q, i) \in Seq(Callback)
           /\ Len(RemoveAt(q, i)) = Len(q) - 1
           /\ \A j \in 1 .. Len(q) - 1 :
                RemoveAt(q, i)[j] = IF j < i THEN q[j] ELSE q[j + 1]
<1> DEFINE a == SubSeq(q, 1, i - 1)
           b == SubSeq(q, i + 1, Len(q))
           r == a \o b
<1>1. Len(q) \in Nat /\ \A j \in 1 .. Len(q) : q[j] \in Callback
  BY LenProperties, ElementOfSeq
<1>2. /\ a \in Seq(Callback) /\ Len(a) = i - 1
      /\ \A j \in 1 .. i - 1 : a[j] = q[j]
  <2>1. /\ 1 \in Int /\ i - 1 \in Int
        /\ \A j \in 1 .. i - 1 : q[j] \in Callback
    BY <1>1
  <2>2. /\ a \in Seq(Callback)
        /\ Len(a) = IF 1 <= i - 1 THEN i - 1 - 1 + 1 ELSE 0
        /\ \A j \in 1 .. i - 1 - 1 + 1 : a[j] = q[1 + j - 1]
    BY <2>1, SubSeqProperties
  <2> HIDE DEF a
  <2> QED
    BY <2>2
<1>3. /\ b \in Seq(Callback) /\ Len(b) = Len(q) - i
      /\ \A j \in 1 .. Len(q) - i : b[j] = q[i + j]
  <2>1. /\ i + 1 \in Int /\ Len(q) \in Int
        /\ \A j \in i + 1 .. Len(q) : q[j] \in Callback
    BY <1>1
  <2>2. /\ b \in Seq(Callback)
        /\ Len(b) = IF i + 1 <= Len(q) THEN Len(q) - (i + 1) + 1 ELSE 0
        /\ \A j \in 1 .. Len(q) - (i + 1) + 1 : b[j] = q[i + 1 + j - 1]
    BY <2>1, SubSeqProperties
  <2> HIDE DEF b
  <2> QED
    BY <1>1, <2>2
<1>4. r = RemoveAt(q, i)
  BY DEF RemoveAt
<1> HIDE DEF a, b
<1>5. /\ r \in Seq(Callback) /\ Len(r) = Len(a) + Len(b)
      /\ \A j \in 1 .. Len(a) + Len(b) :
           r[j] = IF j <= Len(a) THEN a[j] ELSE b[j - Len(a)]
  BY <1>2, <1>3, ConcatProperties
<1> HIDE DEF r
<1>6. ASSUME NEW j \in 1 .. Len(q) - 1
      PROVE  r[j] = IF j < i THEN q[j] ELSE q[j + 1]
  <2>1. CASE j < i
    <3>1. /\ j \in 1 .. i - 1 /\ j <= i - 1
          /\ j \in 1 .. (i - 1) + (Len(q) - i)
      BY <1>1, <2>1
    <3>2. r[j] = a[j]
      BY <1>2, <1>3, <1>5, <3>1
    <3> QED
      BY <1>2, <2>1, <3>1, <3>2
  <2>2. CASE ~ (j < i)
    <3>1. /\ j - (i - 1) \in 1 .. Len(q) - i /\ ~ (j <= i - 1)
          /\ i + (j - (i - 1)) = j + 1
      BY <1>1, <2>2
    <3>2. r[j] = b[j - (i - 1)]
      BY <1>1, <1>2, <1>3, <1>5, <3>1
    <3> QED
      BY <1>3, <2>2, <3>1, <3>2
  <2> QED
    BY <2>1, <2>2
<1> QED
  BY <1>1, <1>2, <1>3, <1>4, <1>5, <1>6

\* The other listeners keep their order, so each frame still awaits those it
\* did: its own listener runs and cannot be the one that is detached.
LEMMA DetachKeepsNotified ==
    ASSUME Notified, NEW th \in Thread, NEW c \in Callback, Detach(th, c)
    PROVE  Notified'
<1>1. PICK i \in DOMAIN listeners :
        listeners[i] = c /\ listeners' = RemoveAt(listeners, i)
  BY DEF Detach
<1> DEFINE q == listeners
           r == RemoveAt(q, i)
<1>2. /\ q \in Seq(Callback) /\ Len(q) \in Nat /\ Distinct(q)
      /\ i \in 1 .. Len(q) /\ q[i] = c /\ listeners' = r
      /\ UNCHANGED <<value, calls, seen>>
      /\ calls \in [Thread -> Seq(Frame)]
  BY <1>1, LenProperties DEF Detach, Notified, DataModelTypeOK
<1> HIDE DEF q
<1>3. /\ r \in Seq(Callback) /\ Len(r) = Len(q) - 1
      /\ \A j \in 1 .. Len(q) - 1 : r[j] = IF j < i THEN q[j] ELSE q[j + 1]
  BY <1>2, WithoutOne
<1> HIDE DEF r
<1>4. DataModelTypeOK'
  BY <1>2, <1>3 DEF Notified, DataModelTypeOK
<1>5. Distinct(r)
  <2> SUFFICES ASSUME NEW j \in 1 .. Len(r), NEW k \in 1 .. Len(r), r[j] = r[k]
               PROVE  j = k
    BY DEF Distinct
  <2>1. /\ j \in 1 .. Len(q) /\ j + 1 \in 1 .. Len(q)
        /\ k \in 1 .. Len(q) /\ k + 1 \in 1 .. Len(q)
        /\ j \in 1 .. Len(q) - 1 /\ k \in 1 .. Len(q) - 1
    BY <1>2, <1>3
  <2>2. /\ r[j] = IF j < i THEN q[j] ELSE q[j + 1]
        /\ r[k] = IF k < i THEN q[k] ELSE q[k + 1]
    BY <1>3, <2>1
  <2>3. (IF j < i THEN j ELSE j + 1) = (IF k < i THEN k ELSE k + 1)
    BY <1>2, <2>1, <2>2 DEF Distinct
  <2> QED
    BY <1>2, <2>1, <2>3
<1>6. ASSUME NEW j \in 1 .. Len(q), j # i
      PROVE  LET m == IF j < i THEN j ELSE j - 1
             IN  m \in 1 .. Len(r) /\ r[m] = q[j]
  <2>1. CASE j < i
    BY <1>2, <1>3, <2>1
  <2>2. CASE j > i
    <3>1. j - 1 \in 1 .. Len(q) - 1 /\ ~ (j - 1 < i) /\ (j - 1) + 1 = j
      BY <1>2, <2>2
    <3> QED
      BY <1>2, <1>3, <2>2, <3>1
  <2> QED
    BY <1>2, <1>6, <2>1, <2>2
<1>7. ASSUME NEW f, NEW d, Awaits(q, f, d), d # c, f.at = "func" => f.c # c
      PROVE  Awaits(r, f, d)
  <2>1. PICK j \in 1 .. Len(q) :
          q[j] = d /\ (f.at = "func" => \E k \in 1 .. j - 1 : q[k] = f.c)
    BY <1>7 DEF Awaits
  <2> DEFINE m == IF j < i THEN j ELSE j - 1
  <2>2. j # i /\ m \in 1 .. Len(r) /\ r[m] = d
    BY <1>2, <1>6, <1>7, <2>1
  <2>3. ASSUME f.at = "func" PROVE \E n \in 1 .. m - 1 : r[n] = f.c
    <3>1. PICK k \in 1 .. j - 1 : q[k] = f.c
      BY <2>1, <2>3
    <3>2. k \in 1 .. Len(q) /\ k # i
      BY <1>2, <1>7, <2>3, <3>1
    <3> DEFINE n == IF k < i THEN k ELSE k - 1
    <3>3. n \in 1 .. Len(r) /\ r[n] = f.c
      BY <1>6, <3>1, <3>2
    <3>4. n \in 1 .. m - 1
      BY <1>2, <2>2, <3>2
    <3> QED
      BY <3>3, <3>4
  <2> HIDE DEF m
  <2> QED
    BY <2>2, <2>3 DEF Awaits
<1>8. ASSUME NEW d \in Attached', seen'[d] # value'
      PROVE  \E other \in Thread : Awaited(listeners', calls'[other], d)
  <2>1. PICK j \in 1 .. Len(r) : r[j] = d
    BY <1>2, <1>3, <1>8, LenProperties DEF Attached, Range
  <2> DEFINE m == IF j < i THEN j ELSE j + 1
  <2>2. m \in 1 .. Len(q) /\ m # i /\ q[m] = d
    BY <1>2, <1>3, <2>1
  <2>3. d # c /\ d \in Attached /\ seen[d] # value
    <3> HIDE DEF m
    <3>1. d # c
      BY <1>2, <2>2 DEF Distinct
    <3>2. d \in Attached
      BY <1>2, <2>2, LenProperties DEF Attached, Range, q
    <3> QED
      BY <1>2, <1>8, <3>1, <3>2
  <2>4. PICK other \in Thread : Awaited(q, calls[other], d)
    BY <2>3 DEF Notified, UpToDate, q
  <2>5. PICK n \in 1 .. Len(calls[other]) : Awaits(q, calls[other][n], d)
    BY <2>4 DEF Awaited
  <2> DEFINE f == calls[other][n]
  <2>6. f \in Frame /\ f \in Range(calls[other])
    BY <1>2, LenProperties, ElementOfSeq DEF Range
  <2>7. f.at = "func" => f.c # c
    <3> HIDE DEF f
    <3>1. InFunc(c) # f
      BY <2>6 DEF Detach, Running
    <3> QED
      BY <2>6, <3>1, FuncFrames
  <2>8. Awaits(r, f, d)
    BY <1>7, <2>3, <2>5, <2>7
  <2>9. Awaited(r, calls[other], d)
    BY <2>8 DEF Awaited
  <2> QED
    BY <1>2, <2>9
<1> QED
  BY <1>2, <1>4, <1>5, <1>8 DEF Notified, UpToDate

LEMMA InitNotified == Init => Notified
<1> SUFFICES ASSUME Init PROVE Notified
  OBVIOUS
<1>1. <<>> \in Seq(Callback) /\ <<>> \in Seq(Frame) /\ Len(<<>>) = 0
  BY EmptySeq
<1>2. DataModelTypeOK
  BY <1>1 DEF Init, DataModelTypeOK
<1>3. Distinct(listeners)
  BY <1>1 DEF Init, Distinct
<1>4. UpToDate
  <2>1. Attached \subseteq Callback
    BY <1>2, LenProperties, ElementOfSeq DEF Attached, Range, DataModelTypeOK
  <2> QED
    BY <2>1 DEF Init, UpToDate
<1> QED
  BY <1>2, <1>3, <1>4 DEF Notified

LEMMA NextNotified ==
    ASSUME Notified, [Next]_vars
    PROVE  Notified'
<1>1. CASE UNCHANGED vars
  <2>1. UNCHANGED <<value, listeners, calls, seen>>
    BY <1>1 DEF vars
  <2>2. DataModelTypeOK'
    BY <2>1 DEF Notified, DataModelTypeOK
  <2>3. Distinct(listeners') /\ UpToDate'
    BY <2>1 DEF Notified, UpToDate, Attached
  <2> QED
    BY <2>2, <2>3 DEF Notified
<1>2. ASSUME NEW th \in Thread, NEW v \in Value, Write(th, v)
      PROVE  Notified'
  BY <1>2, WriteKeepsNotified
<1>3. ASSUME NEW th \in Thread, Assign(th)
      PROVE  Notified'
  BY <1>3, AssignKeepsNotified
<1>4. ASSUME NEW th \in Thread, Notify(th)
      PROVE  Notified'
  BY <1>4, NotifyKeepsNotified
<1>5. ASSUME NEW th \in Thread, NEW c \in Callback, Attach(th, c)
      PROVE  Notified'
  BY <1>5, AttachKeepsNotified
<1>6. ASSUME NEW th \in Thread, NEW c \in Callback, Detach(th, c)
      PROVE  Notified'
  BY <1>6, DetachKeepsNotified
<1> QED
  BY <1>1, <1>2, <1>3, <1>4, <1>5, <1>6 DEF Next

\* However assignments are nested or interleaved, for any number of threads,
\* listeners and values: whoever is attached and has not read the value as it
\* is will still be called (DataType::operator=, Notification::Notify).
THEOREM NoListenerIsLeftBehind == Spec => []NobodyIsLeftBehind
<1>1. Init => Notified
  BY InitNotified
<1>2. Notified /\ [Next]_vars => Notified'
  BY NextNotified
<1>3. Notified => NobodyIsLeftBehind
  BY ToComeIsAwaited DEF Notified, UpToDate, NobodyIsLeftBehind
<1> QED
  BY <1>1, <1>2, <1>3, PTL DEF Spec
=============================================================================
