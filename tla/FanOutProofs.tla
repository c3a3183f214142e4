---------------------------- MODULE FanOutProofs ----------------------------
(***************************************************************************)
(* For any number of strands and viewers, any caps and any length of the   *)
(* run: a viewer loses no text and sees none twice (TranscriptExact), holds *)
(* the last steps of an ended strand (EndedStepsExact) and is told a real  *)
(* end, after all of the run (EndIsReal).                                  *)
(*                                                                         *)
(* All three follow from one claim (CaughtUp): what a follower will have   *)
(* once it has read its queue is the run as it is, but for what is still   *)
(* in s.pending (Right).  It is kept because reading is a fold:            *)
(*  - a delta merged into an earlier one reads as if it came last, since   *)
(*    nothing between them is of its stream and no hello follows it        *)
(*    (PushOne), so what is pushed reads after what is queued (PushMany);  *)
(*  - the events of one strand change that strand alone, so the concat-    *)
(*    enation over SetToSeq(Strand) is read strand by strand (FlatRead);   *)
(*  - each list the engine sends makes of what was right what is right     *)
(*    next (FlushAll, TickAll, LastAll, ReplayAll: the steps' Tells).      *)
(* A queue that still holds a hello is read upon any view; one that does   *)
(* not, upon what its tab shows (Bases).  The end of a run is read last, or *)
(* behind its error (EndsWell, Covered).                                   *)
(*                                                                         *)
(* The inductions are over positions of a queue, by a least counterexample *)
(* (LeastElement, Upward).                                                 *)
(***************************************************************************)
EXTENDS FanOut, WellFoundedInduction, FunctionTheorems, FiniteSetTheorems, SequenceTheorems, TLAPS

LEMMA LeastElement ==
  ASSUME NEW T, T \subseteq Nat, T # {}
  PROVE  \E x \in T : \A y \in T : x <= y
<1>. DEFINE R == OpToRel(<, Nat)
<1>1. IsWellFoundedOn(R, Nat)
  BY NatLessThanWellFounded
<1>2. \E x \in T : \A y \in T : ~ (<<y, x>> \in R)
  <2>. HIDE DEF R
  <2>. QED
    BY <1>1, WFMin
<1>3. \A x, y \in Nat : <<y, x>> \in R <=> y < x
  BY DEF OpToRel
<1>4. PICK x \in T : \A y \in T : ~ (<<y, x>> \in R)
  BY <1>2
<1>. HIDE DEF R
<1>5. \A y \in T : x <= y
  <2>. TAKE y \in T
  <2>1. x \in Nat /\ y \in Nat
    OBVIOUS
  <2>2. ~(y < x)
    BY <1>3, <1>4, <2>1
  <2>. QED
    BY <2>1, <2>2
<1>. QED
  BY <1>5

LEMMA Upward ==
  ASSUME NEW N \in Nat, NEW T, 0 \in T, \A n \in 0..(N - 1) : n \in T => n + 1 \in T
  PROVE  0..N \subseteq T
<1>. SUFFICES ASSUME (0..N) \ T # {} PROVE FALSE
  OBVIOUS
<1>. DEFINE out == (0..N) \ T
<1>0. out \subseteq Nat /\ out # {}
  OBVIOUS
<1>1. PICK x \in out : \A y \in out : x <= y
  <2>. HIDE DEF out
  <2>. QED
    BY <1>0, LeastElement
<1>2. x # 0 /\ x - 1 \in 0..(N - 1) /\ x - 1 \in T
  BY <1>1
<1>. QED
  BY <1>2


-----------------------------------------------------------------------------
(* Feed, step by step: of Reduce over a queue, and of Push over what is emitted. *)

Apply(o, x, ev) == IF o = "read" THEN Reduce(x, ev) ELSE Push(x, ev)

FoldsTo(o, f, x, q, n) ==
  /\ f = [i \in 0..n |-> f[i]]
  /\ f[0] = x
  /\ \A i \in 1..n : f[i] = Apply(o, f[i - 1], q[i])

DeltaEvent == [type : {"delta"}, s : Strand, k : Stream, text : Seq(Nat), n : Nat]
StrandEvent == [type : {"strand"}, s : Strand, state : StrandState,
                mode : {"none", "append", "replace"}, steps : Seq(Nat)]
Event == DeltaEvent \cup StrandEvent \cup [type : {"agg"}, t : Nat] \cup [type : {"level"}, l : Nat]
           \cup {Hello, Done, Error}

Read(w, q) == Feed(Reduce, w, q)
PushAll(b, q) == Feed(Push, b, q)

LEMMA FoldExists ==
  ASSUME NEW o, NEW x, NEW q, NEW N \in Nat
  PROVE  \E f : FoldsTo(o, f, x, q, N)
<1>. DEFINE T == {n \in 0..N : \E f : FoldsTo(o, f, x, q, n)}
<1>1. 0 \in T
  <2>1. FoldsTo(o, [i \in 0..0 |-> x], x, q, 0)
    BY DEF FoldsTo
  <2>. QED
    BY <2>1
<1>2. ASSUME NEW n \in 0..(N - 1), n \in T PROVE n + 1 \in T
  <2>1. PICK f : FoldsTo(o, f, x, q, n)
    BY <1>2
  <2>. DEFINE g == [i \in 0..(n + 1) |-> IF i = n + 1 THEN Apply(o, f[n], q[n + 1]) ELSE f[i]]
  <2>2. g = [i \in 0..(n + 1) |-> g[i]] /\ g[0] = x
    BY <2>1 DEF FoldsTo
  <2>3. ASSUME NEW i \in 1..(n + 1) PROVE g[i] = Apply(o, g[i - 1], q[i])
    <3>1. CASE i = n + 1
      BY <3>1
    <3>2. CASE i # n + 1
      <4>1. i \in 1..n /\ i \in 0..(n + 1) /\ i - 1 \in 0..(n + 1) /\ i - 1 # n + 1
        BY <3>2
      <4>2. g[i] = f[i] /\ g[i - 1] = f[i - 1]
        BY <3>2, <4>1
      <4>. HIDE DEF g
      <4>. QED
        BY <2>1, <4>1, <4>2 DEF FoldsTo
    <3>. QED
      BY <3>1, <3>2
  <2>. HIDE DEF g
  <2>4. FoldsTo(o, g, x, q, n + 1)
    BY <2>2, <2>3 DEF FoldsTo
  <2>. QED
    BY <2>4
<1>. HIDE DEF T
<1>3. N \in T
  BY <1>1, <1>2, Upward
<1>. QED
  BY <1>3 DEF T

LEMMA FoldUnique ==
  ASSUME NEW o, NEW x, NEW q, NEW N \in Nat, NEW f, NEW g,
         FoldsTo(o, f, x, q, N), FoldsTo(o, g, x, q, N)
  PROVE  \A n \in 0..N : f[n] = g[n]
<1>. DEFINE T == {n \in 0..N : g[n] = f[n]}
<1>1. 0 \in T
  BY DEF FoldsTo
<1>2. ASSUME NEW n \in 0..(N - 1), n \in T PROVE n + 1 \in T
  <2>1. n + 1 \in 1..N /\ n + 1 \in 0..N /\ (n + 1) - 1 = n
    OBVIOUS
  <2>2. g[n + 1] = Apply(o, g[n], q[n + 1]) /\ f[n + 1] = Apply(o, f[n], q[n + 1])
    BY <2>1 DEF FoldsTo
  <2>. QED
    BY <1>2, <2>1, <2>2
<1>. HIDE DEF T
<1>3. 0..N \subseteq T
  BY <1>1, <1>2, Upward
<1>. QED
  BY <1>3 DEF T

LEMMA ReadIsFold ==
  ASSUME NEW x, NEW q \in Seq(Event), NEW f, FoldsTo("read", f, x, q, Len(q))
  PROVE  Read(x, q) = f[Len(q)]
<1>. DEFINE g == CHOOSE g : g = [n \in 0..Len(q) |-> IF n = 0 THEN x ELSE Reduce(g[n - 1], q[n])]
<1>0. Len(q) \in Nat
  OBVIOUS
<1>1. f = [n \in 0..Len(q) |-> IF n = 0 THEN x ELSE Reduce(f[n - 1], q[n])]
  BY <1>0 DEF FoldsTo, Apply
<1>2. g = [n \in 0..Len(q) |-> IF n = 0 THEN x ELSE Reduce(g[n - 1], q[n])]
  BY <1>1
<1>3. Read(x, q) = g[Len(q)]
  BY DEF Feed, Read
<1>. HIDE DEF g
<1>4. FoldsTo("read", g, x, q, Len(q))
  <2>1. g = [n \in 0..Len(q) |-> g[n]] /\ g[0] = x
    BY <1>0, <1>2
  <2>2. ASSUME NEW i \in 1..Len(q) PROVE g[i] = Apply("read", g[i - 1], q[i])
    <3>1. i \in 0..Len(q) /\ i # 0
      BY <1>0
    <3>2. g[i] = Reduce(g[i - 1], q[i])
      BY <1>2, <3>1
    <3>. QED
      BY <3>2 DEF Apply
  <2>. QED
    BY <2>1, <2>2 DEF FoldsTo
<1>. QED
  BY <1>0, <1>3, <1>4, FoldUnique

LEMMA PushIsFold ==
  ASSUME NEW x, NEW q \in Seq(Event), NEW f, FoldsTo("push", f, x, q, Len(q))
  PROVE  PushAll(x, q) = f[Len(q)]
<1>. DEFINE g == CHOOSE g : g = [n \in 0..Len(q) |-> IF n = 0 THEN x ELSE Push(g[n - 1], q[n])]
<1>0. Len(q) \in Nat
  OBVIOUS
<1>1. f = [n \in 0..Len(q) |-> IF n = 0 THEN x ELSE Push(f[n - 1], q[n])]
  BY <1>0 DEF FoldsTo, Apply
<1>2. g = [n \in 0..Len(q) |-> IF n = 0 THEN x ELSE Push(g[n - 1], q[n])]
  BY <1>1
<1>3. PushAll(x, q) = g[Len(q)]
  BY DEF Feed, PushAll
<1>. HIDE DEF g
<1>4. FoldsTo("push", g, x, q, Len(q))
  <2>1. g = [n \in 0..Len(q) |-> g[n]] /\ g[0] = x
    BY <1>0, <1>2
  <2>2. ASSUME NEW i \in 1..Len(q) PROVE g[i] = Apply("push", g[i - 1], q[i])
    <3>1. i \in 0..Len(q) /\ i # 0
      BY <1>0
    <3>2. g[i] = Push(g[i - 1], q[i])
      BY <1>2, <3>1
    <3>. QED
      BY <3>2 DEF Apply
  <2>. QED
    BY <2>1, <2>2 DEF FoldsTo
<1>. QED
  BY <1>0, <1>3, <1>4, FoldUnique

LEMMA ReadSteps ==
  ASSUME NEW w, NEW q \in Seq(Event)
  PROVE  \E f : FoldsTo("read", f, w, q, Len(q)) /\ Read(w, q) = f[Len(q)]
<1>0. Len(q) \in Nat
  OBVIOUS
<1>1. PICK f : FoldsTo("read", f, w, q, Len(q))
  BY <1>0, FoldExists
<1>. QED
  BY <1>1, ReadIsFold

LEMMA PushSteps ==
  ASSUME NEW b, NEW q \in Seq(Event)
  PROVE  \E f : FoldsTo("push", f, b, q, Len(q)) /\ PushAll(b, q) = f[Len(q)]
<1>0. Len(q) \in Nat
  OBVIOUS
<1>1. PICK f : FoldsTo("push", f, b, q, Len(q))
  BY <1>0, FoldExists
<1>. QED
  BY <1>1, PushIsFold

LEMMA ReadNil == \A w : Read(w, <<>>) = w
<1>. TAKE w
<1>1. PICK f : FoldsTo("read", f, w, <<>>, 0)
  BY FoldExists
<1>2. Read(w, <<>>) = f[0]
  <2>1. <<>> \in Seq(Event) /\ Len(<<>>) = 0
    OBVIOUS
  <2>. QED
    BY <1>1, <2>1, ReadIsFold
<1>. QED
  BY <1>1, <1>2 DEF FoldsTo

LEMMA ReadConcat ==
  ASSUME NEW w, NEW a \in Seq(Event), NEW b \in Seq(Event)
  PROVE  Read(w, a \o b) = Read(Read(w, a), b)
<1>. DEFINE x == Read(w, a)
<1>1. PICK f : FoldsTo("read", f, w, a, Len(a)) /\ x = f[Len(a)]
  BY ReadSteps
<1>2. PICK h : FoldsTo("read", h, x, b, Len(b)) /\ Read(x, b) = h[Len(b)]
  <2>. HIDE DEF x
  <2>. QED
    BY ReadSteps
<1>. HIDE DEF x
<1>. DEFINE g == [n \in 0..(Len(a) + Len(b)) |-> IF n <= Len(a) THEN f[n] ELSE h[n - Len(a)]]
            q == a \o b
<1>3. /\ Len(a) \in Nat /\ Len(b) \in Nat /\ q \in Seq(Event) /\ Len(q) = Len(a) + Len(b)
      /\ \A i \in 1..Len(a) : q[i] = a[i]
      /\ \A i \in 1..Len(b) : q[Len(a) + i] = b[i]
  OBVIOUS
<1>. HIDE DEF q
<1>4. FoldsTo("read", g, w, q, Len(q))
  <2>1. g = [n \in 0..Len(q) |-> g[n]] /\ g[0] = w
    BY <1>1, <1>3 DEF FoldsTo
  <2>2. ASSUME NEW i \in 1..Len(q) PROVE g[i] = Apply("read", g[i - 1], q[i])
    <3>0. i \in 0..Len(q) /\ i - 1 \in 0..Len(q)
      BY <1>3
    <3>1. CASE i <= Len(a)
      <4>1. g[i] = f[i] /\ g[i - 1] = f[i - 1] /\ q[i] = a[i] /\ i \in 1..Len(a)
        BY <1>3, <3>0, <3>1
      <4>. HIDE DEF g
      <4>. QED
        BY <1>1, <4>1 DEF FoldsTo
    <3>2. CASE i > Len(a)
      <4>. DEFINE k == i - Len(a)
      <4>1. k \in 1..Len(b) /\ q[i] = b[k] /\ g[i] = h[k]
        BY <1>3, <3>0, <3>2
      <4>2. g[i - 1] = h[k - 1]
        <5>1. CASE k = 1
          BY <1>1, <1>2, <1>3, <3>0, <3>2, <5>1 DEF FoldsTo
        <5>2. CASE k # 1
          BY <1>3, <3>0, <3>2, <5>2
        <5>. QED
          BY <5>1, <5>2
      <4>. HIDE DEF g, k
      <4>. QED
        BY <1>2, <4>1, <4>2 DEF FoldsTo
    <3>. QED
      BY <1>3, <3>1, <3>2
  <2>. HIDE DEF g
  <2>. QED
    BY <2>1, <2>2 DEF FoldsTo
<1>5. Read(w, q) = g[Len(q)]
  <2>. HIDE DEF g
  <2>. QED
    BY <1>3, <1>4, ReadIsFold
<1>6. g[Len(q)] = h[Len(b)]
  <2>1. CASE Len(b) = 0
    BY <1>1, <1>2, <1>3, <2>1 DEF FoldsTo
  <2>2. CASE Len(b) # 0
    BY <1>3, <2>2
  <2>. QED
    BY <2>1, <2>2
<1>. QED
  BY <1>2, <1>5, <1>6 DEF x, q

LEMMA ReadOne ==
  ASSUME NEW w, NEW e \in Event
  PROVE  Read(w, <<e>>) = Reduce(w, e)
<1>1. <<e>> \in Seq(Event) /\ Len(<<e>>) = 1 /\ <<e>>[1] = e
  OBVIOUS
<1>2. PICK f : FoldsTo("read", f, w, <<e>>, 1) /\ Read(w, <<e>>) = f[1]
  BY <1>1, ReadSteps
<1>. QED
  BY <1>1, <1>2 DEF FoldsTo, Apply

LEMMA ReadAppend ==
  ASSUME NEW w, NEW q \in Seq(Event), NEW e \in Event
  PROVE  Read(w, Append(q, e)) = Reduce(Read(w, q), e)
<1>1. Append(q, e) = q \o <<e>> /\ <<e>> \in Seq(Event)
  OBVIOUS
<1>2. Read(w, q \o <<e>>) = Read(Read(w, q), <<e>>)
  BY <1>1, ReadConcat
<1>. QED
  BY <1>1, <1>2, ReadOne

LEMMA ReadHead ==
  ASSUME NEW w, NEW q \in Seq(Event), q # <<>>
  PROVE  Read(w, q) = Read(Reduce(w, Head(q)), Tail(q))
<1>. DEFINE h == <<Head(q)>>
            t == Tail(q)
<1>1. q = h \o t /\ h \in Seq(Event) /\ t \in Seq(Event) /\ Head(q) \in Event
  OBVIOUS
<1>2. Read(w, h) = Reduce(w, Head(q))
  BY <1>1, ReadOne
<1>. HIDE DEF h, t
<1>3. Read(w, h \o t) = Read(Read(w, h), t)
  BY <1>1, ReadConcat
<1>4. Read(w, q) = Read(Reduce(w, Head(q)), t)
  BY <1>1, <1>2, <1>3
<1>. QED
  BY <1>4 DEF t

-----------------------------------------------------------------------------
(* Texts                                                                    *)

LEMMA LeastIs ==
  ASSUME NEW a \in Nat, NEW b \in Nat
  PROVE  Least(a, b) \in Nat /\ Least(a, b) <= a /\ Least(a, b) <= b /\ (Least(a, b) = a \/ Least(a, b) = b)
BY DEF Least

Text(q, n) == q \in Seq(Nat) /\ Len(q) = n /\ n \in Nat

LEMMA SameText ==
  ASSUME NEW s, NEW t, NEW n \in Nat, Text(s, n), Text(t, n), \A i \in 1..n : s[i] = t[i]
  PROVE  s = t
BY SeqEqual DEF Text

Join(a, b) == a \o b

LEMMA JoinSeq ==
  ASSUME NEW a \in Seq(Nat), NEW b \in Seq(Nat)
  PROVE  /\ a \o b \in Seq(Nat) /\ Len(a \o b) = Len(a) + Len(b)
         /\ \A i \in 1..Len(a) : (a \o b)[i] = a[i]
         /\ \A i \in (Len(a) + 1)..(Len(a) + Len(b)) : (a \o b)[i] = b[i - Len(a)]
OBVIOUS

LEMMA JoinIs ==
  ASSUME NEW a, NEW b, NEW k \in Nat, NEW m \in Nat, Text(a, k), Text(b, m)
  PROVE  /\ Text(Join(a, b), k + m)
         /\ \A i \in 1..k : Join(a, b)[i] = a[i]
         /\ \A i \in (k + 1)..(k + m) : Join(a, b)[i] = b[i - k]
<1>1. a \in Seq(Nat) /\ b \in Seq(Nat) /\ Len(a) = k /\ Len(b) = m /\ k + m \in Nat
  BY DEF Text
<1>2. /\ Join(a, b) \in Seq(Nat) /\ Len(Join(a, b)) = Len(a) + Len(b)
      /\ \A i \in 1..Len(a) : Join(a, b)[i] = a[i]
      /\ \A i \in (Len(a) + 1)..(Len(a) + Len(b)) : Join(a, b)[i] = b[i - Len(a)]
  BY <1>1, JoinSeq DEF Join
<1>. QED
  BY <1>1, <1>2 DEF Text

LEMMA JoinSeqs ==
  ASSUME NEW a \in Seq(Nat), NEW b \in Seq(Nat), NEW c \in Seq(Nat)
  PROVE  (a \o b) \o c = a \o (b \o c)
BY ONLY a \in Seq(Nat), b \in Seq(Nat), c \in Seq(Nat), ConcatAssociative

LEMMA JoinThree ==
  ASSUME NEW a, NEW b, NEW c, NEW k \in Nat, NEW l \in Nat, NEW m \in Nat, Text(a, k), Text(b, l), Text(c, m)
  PROVE  Join(Join(a, b), c) = Join(a, Join(b, c))
<1>1. a \in Seq(Nat) /\ b \in Seq(Nat) /\ c \in Seq(Nat)
  BY DEF Text
<1>2. (a \o b) \o c = a \o (b \o c)
  BY <1>1, JoinSeqs
<1>. QED
  BY ONLY <1>2 DEF Join

LEMMA UptoIs ==
  ASSUME NEW m \in Nat, NEW n \in 0..m
  PROVE  Text(Upto(m, n), n) /\ \A i \in 1..n : Upto(m, n)[i] = m - n + i
<1>1. Least(m, n) = n /\ n \in Nat
  BY DEF Least
<1>2. Upto(m, n) = [i \in 1..n |-> m - n + i]
  BY <1>1 DEF Upto
<1>. QED
  BY <1>1, <1>2 DEF Text

LEMMA UptoMost ==
  ASSUME NEW m \in Nat, NEW n \in Nat
  PROVE  Upto(m, n) = Upto(m, Least(m, n)) /\ Least(m, n) \in 0..m
<1>1. Least(m, n) \in Nat /\ Least(m, n) <= m
  BY LeastIs
<1>2. Least(m, Least(m, n)) = Least(m, n)
  BY DEF Least
<1>. QED
  BY <1>1, <1>2 DEF Upto

LEMMA LastOfIs ==
  ASSUME NEW q, NEW m \in Nat, NEW r \in Nat, NEW n \in Nat, Text(q, m), n = Least(m, r)
  PROVE  Text(LastOf(q, r), n) /\ \A i \in 1..n : LastOf(q, r)[i] = q[m - n + i]
<1>0. q \in Seq(Nat) /\ Len(q) = m /\ m \in Nat
  BY DEF Text
<1>1. CASE m <= r
  <2>1. LastOf(q, r) = q /\ n = m
    BY <1>0, <1>1 DEF LastOf, Least
  <2>. QED
    BY <1>0, <2>1 DEF Text
<1>2. CASE m > r
  <2>. DEFINE a == m - r + 1
  <2>1. LastOf(q, r) = SubSeq(q, a, m) /\ n = r
    BY <1>0, <1>2 DEF LastOf, Least
  <2>2. \A i \in a..m : q[i] \in Nat
    BY <1>0, <1>2
  <2>3. a \in Int /\ m \in Int
    BY <1>0
  <2>. HIDE DEF a
  <2>4. /\ SubSeq(q, a, m) \in Seq(Nat)
        /\ Len(SubSeq(q, a, m)) = IF a <= m THEN m - a + 1 ELSE 0
        /\ \A i \in 1..m - a + 1 : SubSeq(q, a, m)[i] = q[a + i - 1]
    BY <2>2, <2>3, SubSeqProperties
  <2>5. (IF a <= m THEN m - a + 1 ELSE 0) = r /\ m - a + 1 = r
        /\ \A i \in 1..r : a + i - 1 = m - r + i
    BY <1>0, <1>2 DEF a
  <2>6. PICK p : p = SubSeq(q, a, m)
    OBVIOUS
  <2>7. p \in Seq(Nat) /\ Len(p) = r
    BY ONLY <2>4, <2>5, <2>6
  <2>8. \A i \in 1..r : p[i] = q[m - r + i]
    BY ONLY <2>4, <2>5, <2>6
  <2>. QED
    BY <1>0, <2>1, <2>6, <2>7, <2>8 DEF Text
<1>. QED
  BY <1>0, <1>1, <1>2

LEMMA IsUpto ==
  ASSUME NEW q, NEW m \in Nat, NEW n \in 0..m, Text(q, n), \A i \in 1..n : q[i] = m - n + i
  PROVE  q = Upto(m, n)
<1>. DEFINE t == Upto(m, n)
<1>1. Text(t, n) /\ \A i \in 1..n : t[i] = m - n + i
  BY UptoIs
<1>. HIDE DEF t
<1>2. q = t
  BY <1>1, SameText
<1>. QED
  BY <1>2 DEF t

LEMMA UptoTrimmed ==
  ASSUME NEW m \in Nat, NEW n \in 0..m, NEW r \in Nat
  PROVE  LastOf(Upto(m, n), r) = Upto(m, Least(n, r))
<1>1. PICK q : q = Upto(m, n)
  OBVIOUS
<1>2. PICK k \in 0..n : k = Least(n, r)
  BY LeastIs
<1>3. PICK s : s = LastOf(q, r)
  OBVIOUS
<1>4. Text(q, n) /\ \A i \in 1..n : q[i] = m - n + i
  BY <1>1, UptoIs
<1>5. Text(s, k) /\ \A i \in 1..k : s[i] = q[n - k + i]
  BY <1>2, <1>3, <1>4, LastOfIs
<1>6. \A i \in 1..k : s[i] = m - k + i
  <2>. TAKE i \in 1..k
  <2>1. n - k + i \in 1..n /\ m - n + (n - k + i) = m - k + i
    OBVIOUS
  <2>. QED
    BY <1>4, <1>5, <2>1
<1>7. s = Upto(m, k)
  <2>1. k \in 0..m
    OBVIOUS
  <2>. QED
    BY <1>5, <1>6, <2>1, IsUpto
<1>. QED
  BY <1>1, <1>2, <1>3, <1>7

LEMMA UptoJoined ==
  ASSUME NEW o \in Nat, NEW m \in Nat, NEW l \in 0..o, o <= m
  PROVE  Join(Upto(o, l), Upto(m, m - o)) = Upto(m, l + (m - o))
<1>1. PICK a : a = Upto(o, l)
  OBVIOUS
<1>2. PICK p \in 0..m : p = m - o
  OBVIOUS
<1>3. PICK b : b = Upto(m, p)
  OBVIOUS
<1>4. Text(a, l) /\ \A i \in 1..l : a[i] = o - l + i
  BY <1>1, UptoIs
<1>5. Text(b, p) /\ \A i \in 1..p : b[i] = m - p + i
  BY <1>3, UptoIs
<1>6. PICK q : q = Join(a, b)
  OBVIOUS
<1>7. /\ Text(q, l + p)
      /\ \A i \in 1..l : q[i] = a[i]
      /\ \A i \in (l + 1)..(l + p) : q[i] = b[i - l]
  BY <1>4, <1>5, <1>6, JoinIs
<1>8. \A i \in 1..(l + p) : q[i] = m - (l + p) + i
  <2>. TAKE i \in 1..(l + p)
  <2>1. CASE i <= l
    <3>1. i \in 1..l /\ o - l + i = m - (l + p) + i
      BY <1>2, <2>1
    <3>. QED
      BY <1>4, <1>7, <3>1
  <2>2. CASE i > l
    <3>1. i \in (l + 1)..(l + p) /\ i - l \in 1..p /\ m - p + (i - l) = m - (l + p) + i
      BY <1>2, <2>2
    <3>. QED
      BY <1>5, <1>7, <3>1
  <2>. QED
    BY <2>1, <2>2
<1>9. l + p \in 0..m
  BY <1>2
<1>10. q = Upto(m, l + p)
  BY <1>7, <1>8, <1>9, IsUpto
<1>. QED
  BY <1>1, <1>2, <1>3, <1>6, <1>10

\* p, of length n, is the end of q.
Ends(p, q, d, n) == \A i \in 1..n : p[i] = q[d + i]

LEMMA TailOfJoin ==
  ASSUME NEW x, NEW y, NEW c, NEW d \in Nat, NEW k \in Nat, NEW m \in Nat, NEW e \in Nat,
         Text(x, k), Text(c, m), Text(y, e), e = k + d, Ends(x, y, d, k)
  PROVE  Ends(Join(x, c), Join(y, c), d, k + m)
<1>1. PICK p : p = Join(x, c)
  OBVIOUS
<1>2. PICK q : q = Join(y, c)
  OBVIOUS
<1>3. /\ \A i \in 1..k : p[i] = x[i]
      /\ \A i \in (k + 1)..(k + m) : p[i] = c[i - k]
  BY <1>1, JoinIs
<1>4. /\ \A i \in 1..(k + d) : q[i] = y[i]
      /\ \A i \in (k + d + 1)..(k + d + m) : q[i] = c[i - (k + d)]
  BY <1>2, JoinIs
<1>5. \A i \in 1..(k + m) : p[i] = q[d + i]
  <2>. TAKE i \in 1..(k + m)
  <2>1. CASE i <= k
    <3>1. i \in 1..k /\ d + i \in 1..(k + d)
      BY <2>1
    <3>. QED
      BY <1>3, <1>4, <3>1 DEF Ends
  <2>2. CASE i > k
    <3>1. i \in (k + 1)..(k + m) /\ d + i \in (k + d + 1)..(k + d + m) /\ (d + i) - (k + d) = i - k
      BY <2>2
    <3>. QED
      BY <1>3, <1>4, <3>1
  <2>. QED
    BY <2>1, <2>2
<1>. QED
  BY <1>1, <1>2, <1>5 DEF Ends

\* Two texts of which one is the end of the other are cut to the same, if it is long enough.
LEMMA SameEnd ==
  ASSUME NEW p, NEW q, NEW d \in Nat, NEW r \in Nat, NEW n \in Nat, NEW e \in Nat,
         Text(p, n), Text(q, e), e = n + d, Ends(p, q, d, n),
         d = 0 \/ n >= r
  PROVE  LastOf(p, r) = LastOf(q, r)
<1>1. PICK j \in 0..n : j = Least(n, r)
  BY LeastIs
<1>2. j = Least(n + d, r)
  BY <1>1 DEF Least
<1>3. PICK s : s = LastOf(p, r)
  OBVIOUS
<1>4. PICK t : t = LastOf(q, r)
  OBVIOUS
<1>5. Text(s, j) /\ \A i \in 1..j : s[i] = p[n - j + i]
  BY <1>1, <1>3, LastOfIs
<1>6. Text(t, j) /\ \A i \in 1..j : t[i] = q[n + d - j + i]
  BY <1>2, <1>4, LastOfIs
<1>7. \A i \in 1..j : s[i] = t[i]
  <2>. TAKE i \in 1..j
  <2>1. n - j + i \in 1..n /\ d + (n - j + i) = n + d - j + i
    OBVIOUS
  <2>. QED
    BY <1>5, <1>6, <2>1 DEF Ends
<1>8. s = t
  BY <1>5, <1>6, <1>7, SameText
<1>. QED
  BY <1>3, <1>4, <1>8

\* A text that was cut before is cut to the same end.
LEMMA TrimTwice ==
  ASSUME NEW a, NEW b, NEW c, NEW i1 \in Nat, NEW i2 \in Nat, NEW i3 \in Nat,
         Text(a, i1), Text(b, i2), Text(c, i3),
         NEW r \in Nat
  PROVE  LastOf(Join(LastOf(Join(a, b), r), c), r) = LastOf(Join(a, Join(b, c)), r)
<1>0. Join(Join(a, b), c) = Join(a, Join(b, c))
  BY JoinThree
<1>1. PICK y : y = Join(a, b)
  OBVIOUS
<1>2. PICK n \in Nat : Text(y, n)
  <2>1. Text(y, i1 + i2)
    BY <1>1, JoinIs
  <2>2. i1 + i2 \in Nat
    OBVIOUS
  <2>. QED
    BY <2>1, <2>2
<1>3. PICK k \in 0..n : k = Least(n, r) /\ (k = n \/ k = r)
  <2>1. Least(n, r) \in Nat /\ Least(n, r) <= n /\ (Least(n, r) = n \/ Least(n, r) = r)
    BY LeastIs
  <2>. QED
    BY <2>1
<1>4. PICK m \in Nat : Text(c, m)
  <2>1. i3 \in Nat
    BY DEF Text
  <2>. QED
    BY <2>1
<1>5. PICK x : x = LastOf(y, r)
  OBVIOUS
<1>6. Text(x, k) /\ \A i \in 1..k : x[i] = y[n - k + i]
  BY <1>2, <1>3, <1>5, LastOfIs
<1>7. PICK d \in Nat : d = n - k /\ n = k + d /\ (d = 0 \/ k = r)
  BY <1>3
<1>8. Ends(Join(x, c), Join(y, c), d, k + m)
  <2>1. Ends(x, y, d, k)
    BY <1>6, <1>7 DEF Ends
  <2>. QED
    BY <1>2, <1>4, <1>6, <1>7, <2>1, TailOfJoin
<1>9. PICK n1 \in Nat, n2 \in Nat :
        /\ n1 = k + m /\ n2 = n1 + d /\ (d = 0 \/ n1 >= r)
        /\ Text(Join(x, c), n1) /\ Text(Join(y, c), n2)
  <2>1. Text(Join(y, c), n + m) /\ n + m = (k + m) + d /\ k + m \in Nat /\ n + m \in Nat
    BY <1>2, <1>4, <1>7, JoinIs
  <2>2. Text(Join(x, c), k + m)
    BY <1>4, <1>6, JoinIs
  <2>. QED
    BY <1>7, <2>1, <2>2
<1>10. LastOf(Join(x, c), r) = LastOf(Join(y, c), r)
  BY <1>8, <1>9, SameEnd
<1>. QED
  BY <1>0, <1>1, <1>5, <1>10

-----------------------------------------------------------------------------
(* The view                                                                 *)

ViewStrand == [state : StrandState, text : [Stream -> Seq(Nat)], chunks : Nat, steps : Seq(Nat)]
ViewT == [strands : [Strand -> ViewStrand], aggs : Seq(Nat), levels : SUBSET Nat,
          done : BOOLEAN, error : BOOLEAN, loaded : BOOLEAN]

\* What an event about a strand makes of what the view has of it.
AfterDelta(x, e) ==
  [x EXCEPT !.text = [x.text EXCEPT ![e.k] = LastOf(Join(x.text[e.k], e.text), RingCap)],
            !.chunks = x.chunks + e.n]
StepsAfter(old, e) ==
  IF e.mode = "none" THEN old
  ELSE IF e.mode = "replace" THEN LastOf(e.steps, StepKeep) ELSE LastOf(Join(old, e.steps), StepKeep)
AfterStrand(x, e) == [x EXCEPT !.state = e.state, !.steps = StepsAfter(x.steps, e)]
After(x, e) == IF e.type = "delta" THEN AfterDelta(x, e) ELSE AfterStrand(x, e)

LEMMA Caps == TextCap \in Nat /\ RingCap \in Nat /\ StepKeep \in Nat /\ AggKeep \in Nat /\ QueueCap \in Nat
              /\ TextCap <= RingCap /\ QueueCap >= 1 /\ StepKeep >= 1
BY FanOutAssumption

LEMMA LastOfType ==
  ASSUME NEW q \in Seq(Nat), NEW r \in Nat
  PROVE  LastOf(q, r) \in Seq(Nat)
<1>1. PICK n \in Nat : n = Len(q)
  OBVIOUS
<1>2. Text(q, n)
  BY <1>1 DEF Text
<1>3. Text(LastOf(q, r), Least(n, r))
  <2>1. Least(n, r) \in Nat
    BY LeastIs
  <2>. QED
    BY <1>2, <2>1, LastOfIs
<1>. QED
  BY <1>3 DEF Text

LEMMA JoinType ==
  ASSUME NEW a \in Seq(Nat), NEW b \in Seq(Nat)
  PROVE  Join(a, b) \in Seq(Nat)
BY DEF Join

LEMMA AfterDeltaType ==
  ASSUME NEW x \in ViewStrand, NEW e \in DeltaEvent
  PROVE  /\ AfterDelta(x, e) \in ViewStrand
         /\ AfterDelta(x, e).state = x.state /\ AfterDelta(x, e).steps = x.steps
         /\ AfterDelta(x, e).chunks = x.chunks + e.n
         /\ AfterDelta(x, e).text = [x.text EXCEPT ![e.k] = LastOf(Join(x.text[e.k], e.text), RingCap)]
<1>1. x.text \in [Stream -> Seq(Nat)] /\ x.chunks \in Nat /\ e.k \in Stream /\ e.text \in Seq(Nat) /\ e.n \in Nat
  BY DEF ViewStrand, DeltaEvent
<1>2. PICK t : t = LastOf(Join(x.text[e.k], e.text), RingCap) /\ t \in Seq(Nat)
  BY <1>1, JoinType, LastOfType, Caps
<1>3. PICK n \in Nat : n = x.chunks + e.n
  BY <1>1
<1>4. AfterDelta(x, e) = [x EXCEPT !.text = [x.text EXCEPT ![e.k] = t], !.chunks = n]
  BY <1>2, <1>3 DEF AfterDelta
<1>5. [x.text EXCEPT ![e.k] = t] \in [Stream -> Seq(Nat)]
  BY <1>1, <1>2
<1>. QED
  BY <1>2, <1>3, <1>4, <1>5 DEF ViewStrand

LEMMA StepsType ==
  ASSUME NEW old \in Seq(Nat), NEW e \in StrandEvent
  PROVE  StepsAfter(old, e) \in Seq(Nat)
<1>1. e.steps \in Seq(Nat)
  BY DEF StrandEvent
<1>. QED
  BY <1>1, JoinType, LastOfType, Caps DEF StepsAfter

LEMMA AfterStrandType ==
  ASSUME NEW x \in ViewStrand, NEW e \in StrandEvent
  PROVE  /\ AfterStrand(x, e) \in ViewStrand
         /\ AfterStrand(x, e).state = e.state /\ AfterStrand(x, e).steps = StepsAfter(x.steps, e)
         /\ AfterStrand(x, e).chunks = x.chunks /\ AfterStrand(x, e).text = x.text
<1>1. x.steps \in Seq(Nat) /\ e.state \in StrandState
  BY DEF ViewStrand, StrandEvent
<1>2. PICK t : t = StepsAfter(x.steps, e) /\ t \in Seq(Nat)
  BY <1>1, StepsType
<1>3. AfterStrand(x, e) = [x EXCEPT !.state = e.state, !.steps = t]
  BY <1>2 DEF AfterStrand
<1>. QED
  BY <1>1, <1>2, <1>3 DEF ViewStrand

AboutStrand == DeltaEvent \cup StrandEvent

LEMMA EventTypes ==
  /\ \A e \in DeltaEvent : e.type = "delta" /\ e.s \in Strand /\ e.k \in Stream /\ e.text \in Seq(Nat) /\ e.n \in Nat
  /\ \A e \in StrandEvent : e.type = "strand" /\ e.s \in Strand
  /\ \A e \in Event \ AboutStrand : e.type \in {"hello", "agg", "level", "done", "error"}
BY DEF DeltaEvent, StrandEvent, Event, AboutStrand, Hello, Done, Error

LEMMA AfterType ==
  ASSUME NEW x \in ViewStrand, NEW e \in AboutStrand
  PROVE  After(x, e) \in ViewStrand
BY AfterDeltaType, AfterStrandType, EventTypes DEF After, AboutStrand

LEMMA ReduceAbout ==
  ASSUME NEW w \in ViewT, NEW e \in AboutStrand
  PROVE  /\ Reduce(w, e) = [w EXCEPT !.strands = [w.strands EXCEPT ![e.s] = After(w.strands[e.s], e)]]
         /\ Reduce(w, e) \in ViewT
<1>1. w.strands \in [Strand -> ViewStrand] /\ e.s \in Strand
  BY EventTypes DEF ViewT, AboutStrand
<1>2. After(w.strands[e.s], e) \in ViewStrand
  BY <1>1, AfterType
<1>3. Reduce(w, e) = [w EXCEPT !.strands = [w.strands EXCEPT ![e.s] = After(w.strands[e.s], e)]]
  <2>. DEFINE x == w.strands[e.s]
  <2>1. CASE e \in DeltaEvent
    <3>1. Reduce(w, e) = [w EXCEPT !.strands[e.s].text[e.k] = LastOf(@ \o e.text, RingCap),
                                   !.strands[e.s].chunks = @ + e.n]
      BY <2>1, EventTypes DEF Reduce
    <3>2. After(x, e) = [x EXCEPT !.text = [x.text EXCEPT ![e.k] = LastOf(Join(x.text[e.k], e.text), RingCap)],
            !.chunks = x.chunks + e.n]
      BY <2>1, EventTypes DEF After, AfterDelta
    <3>. QED
      BY <1>1, <3>1, <3>2 DEF Join, ViewT, ViewStrand
  <2>2. CASE e \in StrandEvent
    <3>1. Reduce(w, e) = [w EXCEPT !.strands[e.s].state = e.state,
                   !.strands[e.s].steps =
                      CASE e.mode = "none" -> @
                        [] e.mode = "replace" -> LastOf(e.steps, StepKeep)
                        [] e.mode = "append" -> LastOf(@ \o e.steps, StepKeep)]
      BY <2>2, EventTypes DEF Reduce
    <3>2. e.mode \in {"none", "append", "replace"}
      BY <2>2 DEF StrandEvent
    <3>3. StepsAfter(x.steps, e) =  CASE e.mode = "none" -> x.steps
                        [] e.mode = "replace" -> LastOf(e.steps, StepKeep)
                        [] e.mode = "append" -> LastOf(x.steps \o e.steps, StepKeep)
      BY <3>2 DEF StepsAfter, Join
    <3>4. After(x, e) = [x EXCEPT !.state = e.state, !.steps = StepsAfter(x.steps, e)]
      BY <2>2, EventTypes DEF After, AfterStrand
    <3>5. x = w.strands[e.s] /\ x.steps = w.strands[e.s].steps
      OBVIOUS
    <3>6. Reduce(w, e) = [w EXCEPT !.strands[e.s].state = e.state, !.strands[e.s].steps = StepsAfter(x.steps, e)]
      <4>1. CASE e.mode = "none"
        BY <1>1, <3>1, <3>3, <4>1 DEF ViewT, ViewStrand
      <4>2. CASE e.mode = "replace"
        BY <1>1, <3>1, <3>3, <4>2 DEF ViewT, ViewStrand
      <4>3. CASE e.mode = "append"
        BY <1>1, <3>1, <3>3, <4>3 DEF ViewT, ViewStrand
      <4>. QED
        BY <3>2, <4>1, <4>2, <4>3
    <3>. QED
      BY <1>1, <3>4, <3>6 DEF ViewT, ViewStrand
  <2>. QED
    BY <2>1, <2>2 DEF AboutStrand
<1>. QED
  BY <1>1, <1>2, <1>3 DEF ViewT

LEMMA BlankType == BlankStrand \in ViewStrand /\ BlankView \in ViewT
<1>1. BlankStrand \in ViewStrand
  BY DEF BlankStrand, ViewStrand, StrandState
<1>. QED
  BY <1>1 DEF BlankView, ViewT

LEMMA ReduceHello ==
  ASSUME NEW w \in ViewT
  PROVE  /\ Reduce(w, Hello) = [w EXCEPT !.strands = [s \in Strand |-> BlankStrand], !.loaded = FALSE]
         /\ Reduce(w, Hello) \in ViewT
<1>1. Hello.type = "hello"
  BY DEF Hello
<1>2. Reduce(w, Hello) = [w EXCEPT !.strands = [s \in Strand |-> BlankStrand], !.loaded = FALSE]
  BY <1>1 DEF Reduce
<1>3. [s \in Strand |-> BlankStrand] \in [Strand -> ViewStrand]
  BY BlankType
<1>. QED
  BY <1>2, <1>3 DEF ViewT

LEMMA ReduceAgg ==
  ASSUME NEW w \in ViewT, NEW e, e.type = "agg", e.t \in Nat
  PROVE  /\ Reduce(w, e) = [w EXCEPT !.aggs = Append(w.aggs, e.t)]
         /\ Reduce(w, e) \in ViewT
<1>1. Reduce(w, e) = [w EXCEPT !.aggs = Append(w.aggs, e.t)]
  BY DEF Reduce
<1>2. w.aggs \in Seq(Nat)
  BY DEF ViewT
<1>3. Append(w.aggs, e.t) \in Seq(Nat)
  BY <1>2
<1>4. PICK q \in Seq(Nat) : q = Append(w.aggs, e.t)
  BY <1>3
<1>5. Reduce(w, e) = [w EXCEPT !.aggs = q]
  BY <1>1, <1>4
<1>. QED
  BY <1>1, <1>5 DEF ViewT

LEMMA ReduceLevel ==
  ASSUME NEW w \in ViewT, NEW e, e.type = "level", e.l \in Nat
  PROVE  /\ Reduce(w, e) = [w EXCEPT !.levels = w.levels \cup {e.l}]
         /\ Reduce(w, e) \in ViewT
<1>1. Reduce(w, e) = [w EXCEPT !.levels = w.levels \cup {e.l}]
  BY DEF Reduce
<1>. QED
  BY <1>1 DEF ViewT

LEMMA ReduceDone ==
  ASSUME NEW w \in ViewT
  PROVE  /\ Reduce(w, Done) = [w EXCEPT !.done = TRUE]
         /\ Reduce(w, Done) \in ViewT
<1>1. Reduce(w, Done) = [w EXCEPT !.done = TRUE]
  BY DEF Reduce, Done
<1>. QED
  BY <1>1 DEF ViewT

LEMMA ReduceError ==
  ASSUME NEW w \in ViewT
  PROVE  /\ Reduce(w, Error) = [w EXCEPT !.error = TRUE]
         /\ Reduce(w, Error) \in ViewT
<1>1. Reduce(w, Error) = [w EXCEPT !.error = TRUE]
  BY DEF Reduce, Error
<1>. QED
  BY <1>1 DEF ViewT

Kinds(e) == \/ e \in AboutStrand \/ e = Hello \/ e = Done \/ e = Error
            \/ (e.type = "agg" /\ e.t \in Nat) \/ (e.type = "level" /\ e.l \in Nat)

LEMMA EventKinds == \A e \in Event : Kinds(e)
BY DEF Event, Kinds, AboutStrand

LEMMA ReduceType ==
  ASSUME NEW w \in ViewT, NEW e \in Event
  PROVE  Reduce(w, e) \in ViewT
BY EventKinds, ReduceAbout, ReduceHello, ReduceAgg, ReduceLevel, ReduceDone, ReduceError DEF Kinds

LEMMA SameView ==
  ASSUME NEW w \in ViewT, NEW u \in ViewT, w.strands = u.strands, w.aggs = u.aggs, w.levels = u.levels,
         w.done = u.done, w.error = u.error, w.loaded = u.loaded
  PROVE  w = u
BY DEF ViewT

LEMMA SameStrand ==
  ASSUME NEW x \in ViewStrand, NEW y \in ViewStrand, x.state = y.state, x.text = y.text,
         x.chunks = y.chunks, x.steps = y.steps
  PROVE  x = y
BY DEF ViewStrand

\* What an event about a strand leaves alone.
LEMMA AboutParts ==
  ASSUME NEW w \in ViewT, NEW e \in AboutStrand
  PROVE  /\ Reduce(w, e) \in ViewT
         /\ Reduce(w, e).strands = [w.strands EXCEPT ![e.s] = After(w.strands[e.s], e)]
         /\ Reduce(w, e).aggs = w.aggs /\ Reduce(w, e).levels = w.levels /\ Reduce(w, e).done = w.done
         /\ Reduce(w, e).error = w.error /\ Reduce(w, e).loaded = w.loaded
BY ReduceAbout DEF ViewT
-----------------------------------------------------------------------------
(* Merging a delta into a queued one is reading it last.                    *)

\* The delta that Push makes of a queued delta and a new one.
Merged(d, e) == [d EXCEPT !.text = Join(d.text, e.text), !.n = d.n + e.n]
SameStream(d, e) == d.type = "delta" /\ e.type = "delta" /\ d.s = e.s /\ d.k = e.k

LEMMA MergedType ==
  ASSUME NEW d \in DeltaEvent, NEW e \in DeltaEvent
  PROVE  /\ Merged(d, e) \in DeltaEvent /\ Merged(d, e).s = d.s /\ Merged(d, e).k = d.k
         /\ Merged(d, e).text = Join(d.text, e.text) /\ Merged(d, e).n = d.n + e.n
<1>1. PICK t : t = Join(d.text, e.text) /\ t \in Seq(Nat)
  BY JoinType DEF DeltaEvent
<1>2. PICK n \in Nat : n = d.n + e.n
  BY DEF DeltaEvent
<1>3. Merged(d, e) = [d EXCEPT !.text = t, !.n = n]
  BY <1>1, <1>2 DEF Merged
<1>. QED
  BY <1>1, <1>2, <1>3 DEF DeltaEvent

LEMMA TextMerged ==
  ASSUME NEW a \in Seq(Nat), NEW b \in Seq(Nat), NEW c \in Seq(Nat)
  PROVE  LastOf(Join(LastOf(Join(a, b), RingCap), c), RingCap) = LastOf(Join(a, Join(b, c)), RingCap)
<1>1. PICK i \in Nat, j \in Nat, k \in Nat : i = Len(a) /\ j = Len(b) /\ k = Len(c)
  OBVIOUS
<1>2. Text(a, i) /\ Text(b, j) /\ Text(c, k)
  BY <1>1 DEF Text
<1>. QED
  BY <1>2, TrimTwice, Caps

LEMMA AfterMerged ==
  ASSUME NEW x \in ViewStrand, NEW d \in DeltaEvent, NEW e \in DeltaEvent, d.k = e.k
  PROVE  After(After(x, d), e) = After(x, Merged(d, e))
<1>1. PICK y \in ViewStrand : y = AfterDelta(x, d)
  BY AfterDeltaType
<1>2. PICK z \in ViewStrand : z = AfterDelta(y, e)
  BY AfterDeltaType
<1>3. PICK m \in DeltaEvent : m = Merged(d, e) /\ m.k = d.k /\ m.text = Join(d.text, e.text) /\ m.n = d.n + e.n
  BY MergedType
<1>4. PICK u \in ViewStrand : u = AfterDelta(x, m)
  BY AfterDeltaType
<1>5. z = u
  <2>1. /\ y.state = x.state /\ y.steps = x.steps /\ y.chunks = x.chunks + d.n
        /\ y.text = [x.text EXCEPT ![d.k] = LastOf(Join(x.text[d.k], d.text), RingCap)]
    BY <1>1, AfterDeltaType
  <2>2. /\ z.state = y.state /\ z.steps = y.steps /\ z.chunks = y.chunks + e.n
        /\ z.text = [y.text EXCEPT ![d.k] = LastOf(Join(y.text[d.k], e.text), RingCap)]
    BY <1>2, AfterDeltaType
  <2>3. /\ u.state = x.state /\ u.steps = x.steps /\ u.chunks = x.chunks + m.n
        /\ u.text = [x.text EXCEPT ![d.k] = LastOf(Join(x.text[d.k], m.text), RingCap)]
    BY <1>3, <1>4, AfterDeltaType
  <2>4. /\ x.text \in [Stream -> Seq(Nat)] /\ d.k \in Stream /\ d.text \in Seq(Nat) /\ e.text \in Seq(Nat)
        /\ x.chunks \in Nat /\ d.n \in Nat /\ e.n \in Nat
    BY DEF ViewStrand, DeltaEvent
  <2>5. z.chunks = u.chunks
    BY <1>3, <2>1, <2>2, <2>3, <2>4
  <2>6. z.text = u.text
    <3>1. PICK a \in Seq(Nat) : a = x.text[d.k]
      BY <2>4
    <3>2. PICK t : t = LastOf(Join(a, d.text), RingCap)
      OBVIOUS
    <3>3. y.text = [x.text EXCEPT ![d.k] = t] /\ y.text[d.k] = t
      BY <2>1, <2>4, <3>1, <3>2
    <3>4. PICK r : r = LastOf(Join(t, e.text), RingCap)
      OBVIOUS
    <3>5. z.text = [[x.text EXCEPT ![d.k] = t] EXCEPT ![d.k] = r]
      BY <2>2, <3>3, <3>4
    <3>6. LastOf(Join(a, Join(d.text, e.text)), RingCap) = r
      BY <2>4, <3>1, <3>2, <3>4, TextMerged
    <3>7. u.text = [x.text EXCEPT ![d.k] = r]
      BY <1>3, <2>3, <3>1, <3>6
    <3>. QED
      BY <2>4, <3>5, <3>7
  <2>. QED
    BY <2>1, <2>2, <2>3, <2>5, <2>6, SameStrand
<1>6. After(x, d) = y /\ After(y, e) = z /\ After(x, m) = u
  BY <1>1, <1>2, <1>3, <1>4, EventTypes DEF After
<1>. QED
  BY <1>3, <1>5, <1>6

LEMMA DeltasCommute ==
  ASSUME NEW x \in ViewStrand, NEW d \in DeltaEvent, NEW e \in DeltaEvent, d.k # e.k
  PROVE  AfterDelta(AfterDelta(x, d), e) = AfterDelta(AfterDelta(x, e), d)
<1>1. PICK y \in ViewStrand : y = AfterDelta(x, d)
  BY AfterDeltaType
<1>2. PICK z \in ViewStrand : z = AfterDelta(y, e)
  BY AfterDeltaType
<1>3. PICK p \in ViewStrand : p = AfterDelta(x, e)
  BY AfterDeltaType
<1>4. PICK u \in ViewStrand : u = AfterDelta(p, d)
  BY AfterDeltaType
<1>5. /\ y.state = x.state /\ y.steps = x.steps /\ y.chunks = x.chunks + d.n
      /\ y.text = [x.text EXCEPT ![d.k] = LastOf(Join(x.text[d.k], d.text), RingCap)]
  BY <1>1, AfterDeltaType
<1>6. /\ z.state = y.state /\ z.steps = y.steps /\ z.chunks = y.chunks + e.n
      /\ z.text = [y.text EXCEPT ![e.k] = LastOf(Join(y.text[e.k], e.text), RingCap)]
  BY <1>2, AfterDeltaType
<1>7. /\ p.state = x.state /\ p.steps = x.steps /\ p.chunks = x.chunks + e.n
      /\ p.text = [x.text EXCEPT ![e.k] = LastOf(Join(x.text[e.k], e.text), RingCap)]
  BY <1>3, AfterDeltaType
<1>8. /\ u.state = p.state /\ u.steps = p.steps /\ u.chunks = p.chunks + d.n
      /\ u.text = [p.text EXCEPT ![d.k] = LastOf(Join(p.text[d.k], d.text), RingCap)]
  BY <1>4, AfterDeltaType
<1>9. /\ x.text \in [Stream -> Seq(Nat)] /\ d.k \in Stream /\ e.k \in Stream
      /\ x.chunks \in Nat /\ d.n \in Nat /\ e.n \in Nat
  BY DEF ViewStrand, DeltaEvent
<1>10. z.chunks = u.chunks
  BY <1>5, <1>6, <1>7, <1>8, <1>9
<1>11. z.text = u.text
  <2>1. PICK s, t : s = LastOf(Join(x.text[d.k], d.text), RingCap) /\ t = LastOf(Join(x.text[e.k], e.text), RingCap)
    OBVIOUS
  <2>2. y.text[e.k] = x.text[e.k] /\ p.text[d.k] = x.text[d.k]
    BY <1>5, <1>7, <1>9
  <2>3. z.text = [[x.text EXCEPT ![d.k] = s] EXCEPT ![e.k] = t]
    BY <1>5, <1>6, <2>1, <2>2
  <2>4. u.text = [[x.text EXCEPT ![e.k] = t] EXCEPT ![d.k] = s]
    BY <1>7, <1>8, <2>1, <2>2
  <2>. QED
    BY <1>9, <2>3, <2>4
<1>12. z = u
  BY <1>5, <1>6, <1>7, <1>8, <1>10, <1>11, SameStrand
<1>. QED
  BY <1>1, <1>2, <1>3, <1>4, <1>12

LEMMA StrandCommutes ==
  ASSUME NEW x \in ViewStrand, NEW d \in DeltaEvent, NEW e \in StrandEvent
  PROVE  AfterStrand(AfterDelta(x, d), e) = AfterDelta(AfterStrand(x, e), d)
<1>1. PICK y \in ViewStrand : y = AfterDelta(x, d)
  BY AfterDeltaType
<1>2. PICK z \in ViewStrand : z = AfterStrand(y, e)
  BY AfterStrandType
<1>3. PICK p \in ViewStrand : p = AfterStrand(x, e)
  BY AfterStrandType
<1>4. PICK u \in ViewStrand : u = AfterDelta(p, d)
  BY AfterDeltaType
<1>5. /\ y.state = x.state /\ y.steps = x.steps /\ y.chunks = x.chunks + d.n
      /\ y.text = [x.text EXCEPT ![d.k] = LastOf(Join(x.text[d.k], d.text), RingCap)]
  BY <1>1, AfterDeltaType
<1>6. z.state = e.state /\ z.steps = StepsAfter(y.steps, e) /\ z.chunks = y.chunks /\ z.text = y.text
  BY <1>2, AfterStrandType
<1>7. p.state = e.state /\ p.steps = StepsAfter(x.steps, e) /\ p.chunks = x.chunks /\ p.text = x.text
  BY <1>3, AfterStrandType
<1>8. /\ u.state = p.state /\ u.steps = p.steps /\ u.chunks = p.chunks + d.n
      /\ u.text = [p.text EXCEPT ![d.k] = LastOf(Join(p.text[d.k], d.text), RingCap)]
  BY <1>4, AfterDeltaType
<1>9. z = u
  BY <1>5, <1>6, <1>7, <1>8, SameStrand
<1>. QED
  BY <1>1, <1>2, <1>3, <1>4, <1>9

LEMMA AfterCommutes ==
  ASSUME NEW x \in ViewStrand, NEW d \in DeltaEvent, NEW e \in AboutStrand, d.s = e.s, ~SameStream(d, e)
  PROVE  After(After(x, e), d) = After(After(x, d), e)
<1>1. CASE e \in DeltaEvent
  <2>1. d.k # e.k
    BY <1>1, EventTypes DEF SameStream
  <2>. QED
    BY <1>1, <2>1, DeltasCommute, EventTypes DEF After
<1>2. CASE e \in StrandEvent
  BY <1>2, StrandCommutes, EventTypes DEF After
<1>. QED
  BY <1>1, <1>2 DEF AboutStrand

RestSame(u, w) == /\ u.aggs = w.aggs /\ u.levels = w.levels /\ u.done = w.done
                  /\ u.error = w.error /\ u.loaded = w.loaded

LEMMA AboutRest ==
  ASSUME NEW w \in ViewT, NEW e \in AboutStrand, NEW u, u = Reduce(w, e)
  PROVE  /\ u \in ViewT /\ RestSame(u, w)
         /\ u.strands = [w.strands EXCEPT ![e.s] = After(w.strands[e.s], e)]
BY AboutParts DEF RestSame

LEMMA ReduceMerged ==
  ASSUME NEW w \in ViewT, NEW d \in DeltaEvent, NEW e \in DeltaEvent, SameStream(d, e)
  PROVE  Reduce(Reduce(w, d), e) = Reduce(w, Merged(d, e))
<1>1. PICK u \in ViewT : u = Reduce(w, d)
  BY AboutParts DEF AboutStrand
<1>2. PICK v \in ViewT : v = Reduce(u, e)
  BY AboutParts DEF AboutStrand
<1>3. PICK m \in DeltaEvent : m = Merged(d, e) /\ m.s = d.s
  BY MergedType
<1>4. PICK z \in ViewT : z = Reduce(w, m)
  BY AboutParts DEF AboutStrand
<1>5. d \in AboutStrand /\ e \in AboutStrand /\ m \in AboutStrand /\ d.s = e.s /\ d.k = e.k /\ d.s \in Strand
  BY EventTypes DEF AboutStrand, SameStream
<1>6. w.strands \in [Strand -> ViewStrand]
  BY DEF ViewT
<1>7. /\ u.strands = [w.strands EXCEPT ![d.s] = After(w.strands[d.s], d)]
      /\ v.strands = [u.strands EXCEPT ![d.s] = After(u.strands[d.s], e)]
      /\ z.strands = [w.strands EXCEPT ![d.s] = After(w.strands[d.s], m)]
  BY <1>1, <1>2, <1>3, <1>4, <1>5, AboutParts
<1>8. v.strands = z.strands
  <2>1. PICK x \in ViewStrand : x = w.strands[d.s]
    BY <1>5, <1>6 
  <2>2. After(After(x, d), e) = After(x, m)
    BY <1>3, <1>5, AfterMerged
  <2>3. u.strands[d.s] = After(x, d)
    BY <1>5, <1>6, <1>7, <2>1
  <2>4. v.strands = [u.strands EXCEPT ![d.s] = After(x, m)]
    BY <1>7, <2>2, <2>3
  <2>. QED
    BY <1>6, <1>7, <2>1, <2>4
<1>9. v = z
  <2>1. RestSame(u, w) /\ RestSame(v, u) /\ RestSame(z, w)
    BY <1>1, <1>2, <1>4, <1>5, AboutRest
  <2>. QED
    BY <1>8, <2>1, SameView DEF RestSame
<1>. QED
  BY <1>1, <1>2, <1>3, <1>4, <1>9

LEMMA AboutsCommute ==
  ASSUME NEW w \in ViewT, NEW d \in DeltaEvent, NEW e \in AboutStrand, ~SameStream(d, e)
  PROVE  Reduce(Reduce(w, e), d) = Reduce(Reduce(w, d), e)
<1>0. d \in AboutStrand /\ d.s \in Strand /\ e.s \in Strand
  BY EventTypes DEF AboutStrand
<1>1. PICK u \in ViewT : u = Reduce(w, e)
  BY AboutParts
<1>2. PICK v \in ViewT : v = Reduce(u, d)
  BY <1>0, AboutParts
<1>3. PICK p \in ViewT : p = Reduce(w, d)
  BY <1>0, AboutParts
<1>4. PICK z \in ViewT : z = Reduce(p, e)
  BY AboutParts
<1>6. w.strands \in [Strand -> ViewStrand]
  BY DEF ViewT
<1>7. /\ u.strands = [w.strands EXCEPT ![e.s] = After(w.strands[e.s], e)]
      /\ v.strands = [u.strands EXCEPT ![d.s] = After(u.strands[d.s], d)]
      /\ p.strands = [w.strands EXCEPT ![d.s] = After(w.strands[d.s], d)]
      /\ z.strands = [p.strands EXCEPT ![e.s] = After(p.strands[e.s], e)]
  BY <1>0, <1>1, <1>2, <1>3, <1>4, AboutParts
<1>8. v.strands = z.strands
  <2>1. CASE d.s = e.s
    <3>1. PICK x \in ViewStrand : x = w.strands[d.s]
      BY <1>0, <1>6
    <3>2. After(After(x, e), d) = After(After(x, d), e)
      BY <2>1, AfterCommutes
    <3>3. u.strands[d.s] = After(x, e) /\ p.strands[d.s] = After(x, d)
      BY <1>0, <1>6, <1>7, <2>1, <3>1
    <3>4. PICK y : y = After(After(x, e), d)
      OBVIOUS
    <3>5. v.strands = [u.strands EXCEPT ![d.s] = y] /\ z.strands = [p.strands EXCEPT ![d.s] = y]
      BY <1>7, <2>1, <3>2, <3>3, <3>4
    <3>. QED
      BY <1>0, <1>6, <1>7, <2>1, <3>5
  <2>2. CASE d.s # e.s
    <3>1. PICK x, y : x = After(w.strands[d.s], d) /\ y = After(w.strands[e.s], e)
      OBVIOUS
    <3>2. u.strands[d.s] = w.strands[d.s] /\ p.strands[e.s] = w.strands[e.s]
      BY <1>0, <1>6, <1>7, <2>2
    <3>3. v.strands = [[w.strands EXCEPT ![e.s] = y] EXCEPT ![d.s] = x]
      BY <1>7, <3>1, <3>2
    <3>4. z.strands = [[w.strands EXCEPT ![d.s] = x] EXCEPT ![e.s] = y]
      BY <1>7, <3>1, <3>2
    <3>. QED
      BY <1>6, <2>2, <3>3, <3>4
  <2>. QED
    BY <2>1, <2>2
<1>9. v = z
  <2>1. RestSame(u, w) /\ RestSame(v, u) /\ RestSame(p, w) /\ RestSame(z, p)
    BY <1>0, <1>1, <1>2, <1>3, <1>4, AboutRest
  <2>. QED
    BY <1>8, <2>1, SameView DEF RestSame
<1>. QED
  BY <1>1, <1>2, <1>3, <1>4, <1>9

\* What the other events, but a hello, change.
OtherOf(u, w, e) ==
  /\ u \in ViewT
  /\ u.strands = w.strands /\ u.loaded = w.loaded
  /\ u.aggs = IF e.type = "agg" THEN Append(w.aggs, e.t) ELSE w.aggs
  /\ u.levels = IF e.type = "level" THEN w.levels \cup {e.l} ELSE w.levels
  /\ u.done = (w.done \/ e = Done)
  /\ u.error = (w.error \/ e = Error)

LEMMA OtherParts ==
  ASSUME NEW w \in ViewT, NEW e \in Event \ AboutStrand, e # Hello
  PROVE  OtherOf(Reduce(w, e), w, e)
<1>. USE DEF OtherOf
<1>0. w.done \in BOOLEAN /\ w.error \in BOOLEAN
  BY DEF ViewT
<1>1. CASE e = Done
  <2>1. e.type = "done" /\ e # Error
    BY <1>1 DEF Done, Error
  <2>. QED
    BY <1>0, <1>1, <2>1, ReduceDone DEF ViewT
<1>2. CASE e = Error
  <2>1. e.type = "error" /\ e # Done
    BY <1>2 DEF Done, Error
  <2>. QED
    BY <1>0, <1>2, <2>1, ReduceError DEF ViewT
<1>3. CASE e.type = "agg" /\ e.t \in Nat
  <2>1. e # Done /\ e # Error
    BY <1>3 DEF Done, Error
  <2>2. PICK u \in ViewT : u = Reduce(w, e) /\ u = [w EXCEPT !.aggs = Append(w.aggs, e.t)]
    BY <1>3, ReduceAgg
  <2>3. /\ u.aggs = Append(w.aggs, e.t) /\ u.strands = w.strands /\ u.loaded = w.loaded
        /\ u.levels = w.levels /\ u.done = w.done /\ u.error = w.error
    BY <2>2 DEF ViewT
  <2>4. e.type # "level"
    BY <1>3
  <2>. QED
    BY ONLY <1>0, <1>3, <2>1, <2>2, <2>3, <2>4 DEF OtherOf
<1>4. CASE e.type = "level" /\ e.l \in Nat
  <2>1. e # Done /\ e # Error
    BY <1>4 DEF Done, Error
  <2>2. PICK u \in ViewT : u = Reduce(w, e) /\ u = [w EXCEPT !.levels = w.levels \cup {e.l}]
    BY <1>4, ReduceLevel
  <2>3. /\ u.levels = w.levels \cup {e.l} /\ u.strands = w.strands /\ u.loaded = w.loaded
        /\ u.aggs = w.aggs /\ u.done = w.done /\ u.error = w.error
    BY <2>2 DEF ViewT
  <2>4. e.type # "agg"
    BY <1>4
  <2>. QED
    BY ONLY <1>0, <1>4, <2>1, <2>2, <2>3, <2>4 DEF OtherOf
<1>. QED
  BY <1>1, <1>2, <1>3, <1>4, EventKinds DEF Kinds

LEMMA OthersCommute ==
  ASSUME NEW w \in ViewT, NEW d \in DeltaEvent, NEW e \in Event \ AboutStrand, e # Hello
  PROVE  Reduce(Reduce(w, e), d) = Reduce(Reduce(w, d), e)
<1>0. d \in AboutStrand /\ d.s \in Strand
  BY EventTypes DEF AboutStrand
<1>1. PICK u \in ViewT : u = Reduce(w, e)
  BY OtherParts DEF OtherOf
<1>2. PICK v \in ViewT : v = Reduce(u, d)
  BY <1>0, AboutParts
<1>3. PICK p \in ViewT : p = Reduce(w, d)
  BY <1>0, AboutParts
<1>4. PICK z \in ViewT : z = Reduce(p, e)
  BY OtherParts DEF OtherOf
<1>5. OtherOf(u, w, e) /\ OtherOf(z, p, e)
  BY <1>1, <1>4, OtherParts
<1>6. /\ v.strands = [u.strands EXCEPT ![d.s] = After(u.strands[d.s], d)]
      /\ v.aggs = u.aggs /\ v.levels = u.levels /\ v.done = u.done /\ v.error = u.error /\ v.loaded = u.loaded
      /\ p.strands = [w.strands EXCEPT ![d.s] = After(w.strands[d.s], d)]
      /\ p.aggs = w.aggs /\ p.levels = w.levels /\ p.done = w.done /\ p.error = w.error /\ p.loaded = w.loaded
  BY <1>0, <1>2, <1>3, AboutRest DEF RestSame
<1>7. v = z
  <2>1. v.strands = z.strands /\ v.loaded = z.loaded /\ v.levels = z.levels /\ v.aggs = z.aggs
    BY <1>5, <1>6 DEF OtherOf
  <2>2. v.done = z.done /\ v.error = z.error
    BY <1>5, <1>6 DEF OtherOf
  <2>. QED
    BY <2>1, <2>2, SameView
<1>. QED
  BY <1>1, <1>2, <1>3, <1>4, <1>7

LEMMA ReduceCommutes ==
  ASSUME NEW w \in ViewT, NEW d \in DeltaEvent, NEW e \in Event, e # Hello, ~SameStream(d, e)
  PROVE  Reduce(Reduce(w, e), d) = Reduce(Reduce(w, d), e)
BY AboutsCommute, OthersCommute

LEMMA ReadTypes ==
  ASSUME NEW w \in ViewT, NEW q \in Seq(Event), NEW f, FoldsTo("read", f, w, q, Len(q))
  PROVE  \A n \in 0..Len(q) : f[n] \in ViewT
<1>. DEFINE T == {n \in 0..Len(q) : f[n] \in ViewT}
<1>0. PICK N \in Nat : N = Len(q)
  OBVIOUS
<1>1. 0 \in T
  BY <1>0 DEF FoldsTo
<1>2. ASSUME NEW n \in 0..(N - 1), n \in T PROVE n + 1 \in T
  <2>1. n + 1 \in 1..N /\ n + 1 \in 0..Len(q) /\ (n + 1) - 1 = n /\ q[n + 1] \in Event
    BY <1>0
  <2>2. f[n + 1] = Reduce(f[n], q[n + 1])
    BY <1>0, <2>1 DEF FoldsTo, Apply
  <2>3. f[n] \in ViewT
    BY <1>2
  <2>. QED
    BY <2>1, <2>2, <2>3, ReduceType
<1>. HIDE DEF T
<1>3. 0..N \subseteq T
  BY <1>1, <1>2, Upward
<1>. QED
  BY <1>0, <1>3 DEF T

LEMMA ReadType ==
  ASSUME NEW w \in ViewT, NEW q \in Seq(Event)
  PROVE  Read(w, q) \in ViewT
<1>1. PICK f : FoldsTo("read", f, w, q, Len(q)) /\ Read(w, q) = f[Len(q)]
  BY ReadSteps
<1>2. Len(q) \in 0..Len(q)
  OBVIOUS
<1>. QED
  BY <1>1, <1>2, ReadTypes

\* A delta merged into the queued delta of its stream is read as if it came last.
LEMMA ReadMerged ==
  ASSUME NEW w \in ViewT, NEW q \in Seq(Event), NEW d \in DeltaEvent, NEW i \in 1..Len(q),
         q[i] \in DeltaEvent, SameStream(q[i], d),
         \A j \in 1..Len(q) : j > i => q[j] # Hello /\ ~SameStream(d, q[j]),
         NEW r, r = [q EXCEPT ![i] = Merged(q[i], d)]
  PROVE  r \in Seq(Event) /\ Read(w, r) = Reduce(Read(w, q), d)
<1>0. PICK N \in Nat : N = Len(q) /\ i \in Nat /\ i >= 1 /\ i <= N
  OBVIOUS
<1>1. PICK m \in Event : m = Merged(q[i], d)
  BY MergedType DEF Event
<1>2. /\ r \in Seq(Event) /\ Len(r) = N /\ r[i] = m
      /\ \A j \in 1..N : j # i => r[j] = q[j]
  BY <1>0, <1>1
<1>3. PICK f : FoldsTo("read", f, w, q, N) /\ Read(w, q) = f[N]
  BY <1>0, ReadSteps
<1>4. PICK g : FoldsTo("read", g, w, r, N) /\ Read(w, r) = g[N]
  <2>1. PICK g : FoldsTo("read", g, w, r, Len(r)) /\ Read(w, r) = g[Len(r)]
    BY <1>2, ReadSteps
  <2>. QED
    BY <1>2, <2>1
<1>5. \A n \in 0..N : f[n] \in ViewT
  BY <1>0, <1>3, ReadTypes
<1>6. /\ f[0] = w /\ g[0] = w
      /\ \A n \in 1..N : f[n] = Reduce(f[n - 1], q[n]) /\ g[n] = Reduce(g[n - 1], r[n])
  BY <1>3, <1>4 DEF FoldsTo, Apply
<1>. DEFINE T == {n \in 0..N : g[n] = IF n < i THEN f[n] ELSE Reduce(f[n], d)}
<1>7. 0 \in T
  BY <1>0, <1>6
<1>8. ASSUME NEW n \in 0..(N - 1), n \in T PROVE n + 1 \in T
  <2>1. PICK k \in 1..N : k = n + 1 /\ k - 1 = n /\ k \in 0..N /\ n \in 0..N /\ q[k] \in Event
    BY <1>0
  <2>2. f[k] = Reduce(f[n], q[k]) /\ g[k] = Reduce(g[n], r[k]) /\ f[n] \in ViewT
    BY <1>5, <1>6, <2>1
  <2>3. g[n] = IF n < i THEN f[n] ELSE Reduce(f[n], d)
    BY <1>8
  <2>4. CASE k < i
    BY <1>0, <1>2, <2>1, <2>2, <2>3, <2>4
  <2>5. CASE k = i
    <3>1. g[k] = Reduce(f[n], m)
      BY <1>2, <2>1, <2>2, <2>3, <2>5
    <3>2. Reduce(f[n], m) = Reduce(Reduce(f[n], q[k]), d)
      BY <1>1, <2>2, <2>5, ReduceMerged
    <3>. QED
      BY <2>1, <2>2, <2>5, <3>1, <3>2
  <2>6. CASE k > i
    <3>1. g[k] = Reduce(Reduce(f[n], d), q[k])
      BY <1>0, <1>2, <2>1, <2>2, <2>3, <2>6
    <3>2. q[k] # Hello /\ ~SameStream(d, q[k])
      BY <1>0, <2>1, <2>6
    <3>3. g[k] = Reduce(f[k], d)
      BY <2>1, <2>2, <3>1, <3>2, ReduceCommutes
    <3>. QED
      BY <1>0, <2>1, <2>6, <3>3
  <2>. QED
    BY <1>0, <2>1, <2>4, <2>5, <2>6
<1>. HIDE DEF T
<1>9. N \in T
  <2>1. 0..N \subseteq T
    BY <1>0, <1>7, <1>8, Upward
  <2>. QED
    BY <1>0, <2>1
<1>10. g[N] = Reduce(f[N], d)
  BY <1>0, <1>9 DEF T
<1>. QED
  BY <1>2, <1>3, <1>4, <1>10

(* Push                                                                     *)

QueueOk(q) == /\ q \in Seq(Event)
              /\ \A i \in 1..Len(q) : i >= 2 => q[i] # Hello
              /\ \A i, j \in 1..Len(q) : i # j => ~SameStream(q[i], q[j])
SubOk(b) == /\ b \in [queue : Seq(Event), closed : BOOLEAN, attached : BOOLEAN]
            /\ QueueOk(b.queue)
            /\ b.closed => b.queue = <<>>

\* What Push makes of a subscriber that is not closed: the event is merged, at i, ...
MergedAt(c, b, e, i) ==
  /\ i \in 1..Len(b.queue) /\ SameStream(b.queue[i], e)
  /\ c = [b EXCEPT !.queue = [b.queue EXCEPT ![i] = Merged(b.queue[i], e)]]
\* ... or does not fit, or is appended.
Dropped(c, b) == c = [b EXCEPT !.queue = <<>>, !.closed = TRUE]
Appended(c, b, e) ==
  /\ \A i \in 1..Len(b.queue) : ~SameStream(b.queue[i], e)
  /\ c = [b EXCEPT !.queue = Append(b.queue, e)]

LEMMA PushClosed == \A b, e : b.closed => Push(b, e) = b
BY DEF Push

LEMMA PushCases ==
  ASSUME NEW b, SubOk(b), NEW e \in Event, ~b.closed
  PROVE  \/ \E i \in 1..Len(b.queue) : MergedAt(Push(b, e), b, e, i)
         \/ Dropped(Push(b, e), b)
         \/ Appended(Push(b, e), b, e)
<1>1. PICK q \in Seq(Event) : q = b.queue
  BY DEF SubOk
<1>2. DOMAIN q = 1..Len(q) /\ \A i \in 1..Len(q) : q[i] \in Event
  OBVIOUS
<1>. DEFINE held == HeldAt(q, e)
<1>3. \A i : i \in held <=> i \in 1..Len(q) /\ SameStream(q[i], e)
  BY <1>2 DEF HeldAt, SameStream
<1>4. CASE held # {}
  <2>1. PICK i \in held : i = CHOOSE j \in held : TRUE
    BY <1>4
  <2>2. Push(b, e) = [b EXCEPT !.queue[i].text = @ \o e.text, !.queue[i].n = @ + e.n]
    BY <1>1, <1>4, <2>1 DEF Push
  <2>3. i \in 1..Len(q) /\ SameStream(q[i], e)
    BY <1>3
  <2>. HIDE DEF held
  <2>4. q[i] \in DeltaEvent
    BY <1>2, <2>3, EventTypes DEF SameStream, Event, AboutStrand
  <2>5. PICK d \in DeltaEvent : d = q[i]
    BY <2>4
  <2>6. Merged(d, e) = [d EXCEPT !.text = d.text \o e.text, !.n = d.n + e.n]
    BY DEF Merged, Join
  <2>7. Push(b, e) = [b EXCEPT !.queue = [q EXCEPT ![i] = Merged(d, e)]]
    <3>1. PICK t, n : t = d.text \o e.text /\ n = d.n + e.n
      OBVIOUS
    <3>2. b.queue[i].text \o e.text = t /\ b.queue[i].n + e.n = n
      BY <1>1, <2>5, <3>1
    <3>3. Push(b, e) = [b EXCEPT !.queue[i].text = t, !.queue[i].n = n]
      <4>1. q[i].text = d.text /\ q[i].n = d.n
        BY <2>5
      <4>. QED
        BY <1>1, <1>2, <2>2, <2>3, <2>5, <3>2, ZenonT(40) DEF SubOk, DeltaEvent
    <3>4. Merged(d, e) = [d EXCEPT !.text = t, !.n = n]
      BY <2>6, <3>1
    <3>. QED
      BY <1>1, <1>2, <2>3, <2>5, <3>3, <3>4, ZenonT(40) DEF SubOk
  <2>. QED
    BY <1>1, <2>3, <2>5, <2>7 DEF MergedAt
<1>5. CASE held = {} /\ Len(q) >= QueueCap
  BY <1>1, <1>5 DEF Push, Dropped
<1>6. CASE held = {} /\ ~(Len(q) >= QueueCap)
  <2>1. Push(b, e) = [b EXCEPT !.queue = Append(q, e)]
    BY <1>1, <1>6 DEF Push
  <2>. QED
    BY <1>1, <1>3, <1>6, <2>1 DEF Appended
<1>. QED
  BY <1>4, <1>5, <1>6

LEMMA AppendQueue ==
  ASSUME NEW q, QueueOk(q), NEW e \in Event, e = Hello => q = <<>>,
         \A i \in 1..Len(q) : ~SameStream(q[i], e)
  PROVE  QueueOk(Append(q, e))
<1>1. PICK N \in Nat : N = Len(q)
  BY DEF QueueOk
<1>2. PICK r : r = Append(q, e)
  OBVIOUS
<1>3. /\ r \in Seq(Event) /\ Len(r) = N + 1 /\ r[N + 1] = e
      /\ \A i \in 1..N : r[i] = q[i]
  BY <1>1, <1>2 DEF QueueOk
<1>4. ASSUME NEW i \in 1..(N + 1), i >= 2 PROVE r[i] # Hello
  <2>1. CASE i = N + 1
    BY <1>1, <1>3, <1>4, <2>1
  <2>2. CASE i # N + 1
    BY <1>1, <1>3, <1>4, <2>2 DEF QueueOk
  <2>. QED
    BY <2>1, <2>2
<1>5. ASSUME NEW i \in 1..(N + 1), NEW j \in 1..(N + 1), i # j PROVE ~SameStream(r[i], r[j])
  <2>1. \A k \in 1..N : ~SameStream(q[k], e) /\ ~SameStream(e, q[k])
    BY <1>1 DEF SameStream
  <2>2. CASE i = N + 1
    BY <1>3, <1>5, <2>1, <2>2
  <2>3. CASE j = N + 1
    BY <1>3, <1>5, <2>1, <2>3
  <2>4. CASE i # N + 1 /\ j # N + 1
    BY <1>1, <1>3, <1>5, <2>4 DEF QueueOk
  <2>. QED
    BY <2>2, <2>3, <2>4
<1>. QED
  BY <1>2, <1>3, <1>4, <1>5 DEF QueueOk

LEMMA MergeQueue ==
  ASSUME NEW q, QueueOk(q), NEW e \in Event, NEW i \in 1..Len(q), SameStream(q[i], e),
         NEW r, r = [q EXCEPT ![i] = Merged(q[i], e)]
  PROVE  /\ q[i] \in DeltaEvent /\ e \in DeltaEvent
         /\ QueueOk(r) /\ Len(r) = Len(q)
         /\ \A j \in 1..Len(q) : j # i => r[j] = q[j]
         /\ r[i] \in DeltaEvent /\ SameStream(q[i], r[i])
<1>1. PICK N \in Nat : N = Len(q) /\ DOMAIN q = 1..N
  BY DEF QueueOk
<1>2. q \in Seq(Event) /\ q[i] \in Event
  BY DEF QueueOk
<1>3. q[i] \in DeltaEvent /\ e \in DeltaEvent
  BY <1>2, EventTypes DEF SameStream, Event, AboutStrand
<1>4. PICK m \in DeltaEvent : m = Merged(q[i], e) /\ SameStream(q[i], m) /\ m.s = q[i].s /\ m.k = q[i].k
  BY <1>3, MergedType, EventTypes DEF SameStream
<1>5. /\ r \in Seq(Event) /\ Len(r) = N /\ r[i] = m
      /\ \A j \in 1..N : j # i => r[j] = q[j]
  <2>1. m \in Event
    BY DEF Event
  <2>. QED
    BY <1>1, <1>2, <1>4, <2>1
<1>6. \A j \in 1..N : j >= 2 => r[j] # Hello
  <2>1. m # Hello
    BY EventTypes DEF Hello
  <2>. QED
    BY <1>1, <1>5, <2>1 DEF QueueOk
<1>7. ASSUME NEW j \in 1..N, NEW k \in 1..N, j # k PROVE ~SameStream(r[j], r[k])
  <2>1. ~SameStream(q[j], q[k])
    BY <1>1, <1>7 DEF QueueOk
  <2>2. r[j].type = q[j].type /\ r[k].type = q[k].type
    BY <1>3, <1>4, <1>5, <1>7, EventTypes
  <2>3. q[j].type = "delta" => r[j].s = q[j].s /\ r[j].k = q[j].k
    BY <1>4, <1>5
  <2>4. q[k].type = "delta" => r[k].s = q[k].s /\ r[k].k = q[k].k
    BY <1>4, <1>5
  <2>. QED
    BY <2>1, <2>2, <2>3, <2>4 DEF SameStream
<1>. QED
  BY <1>1, <1>3, <1>4, <1>5, <1>6, <1>7 DEF QueueOk

\* Whoever reads the queue after a push reads the event last.
LEMMA PushOne ==
  ASSUME NEW b, SubOk(b), NEW e \in Event, e = Hello => b.queue = <<>>
  PROVE  /\ SubOk(Push(b, e)) /\ Push(b, e).attached = b.attached
         /\ ~Push(b, e).closed =>
              /\ ~b.closed
              /\ \A w \in ViewT : Read(w, Push(b, e).queue) = Reduce(Read(w, b.queue), e)
<1>1. CASE b.closed
  BY <1>1, PushClosed
<1>2. CASE ~b.closed
  <2>1. PICK c : c = Push(b, e)
    OBVIOUS
  <2>2. b \in [queue : Seq(Event), closed : BOOLEAN, attached : BOOLEAN] /\ QueueOk(b.queue)
    BY DEF SubOk
  <2>3. ASSUME NEW i \in 1..Len(b.queue), MergedAt(c, b, e, i)
        PROVE /\ SubOk(c) /\ c.attached = b.attached
              /\ \A w \in ViewT : Read(w, c.queue) = Reduce(Read(w, b.queue), e)
    <3>1. PICK r : r = [b.queue EXCEPT ![i] = Merged(b.queue[i], e)]
      OBVIOUS
    <3>2. c = [b EXCEPT !.queue = r] /\ SameStream(b.queue[i], e)
      BY <2>3, <3>1 DEF MergedAt
    <3>3. b.queue[i] \in DeltaEvent /\ e \in DeltaEvent /\ QueueOk(r)
      BY <2>2, <3>1, <3>2, MergeQueue
    <3>4. c.queue = r /\ c.attached = b.attached /\ c.closed = b.closed
      BY <2>2, <3>2
    <3>5. SubOk(c)
      BY <1>2, <2>2, <3>2, <3>3, <3>4 DEF SubOk, QueueOk
    <3>6. ASSUME NEW w \in ViewT PROVE Read(w, r) = Reduce(Read(w, b.queue), e)
      <4>1. \A j \in 1..Len(b.queue) : j > i => b.queue[j] # Hello /\ ~SameStream(e, b.queue[j])
        <5>1. ASSUME NEW j \in 1..Len(b.queue), j > i PROVE b.queue[j] # Hello /\ ~SameStream(e, b.queue[j])
          <6>1. j >= 2 /\ j # i
            BY <5>1
          <6>2. b.queue[j] # Hello /\ ~SameStream(b.queue[i], b.queue[j])
            BY <2>2, <6>1 DEF QueueOk
          <6>. QED
            BY <3>2, <6>2 DEF SameStream
        <5>. QED
          BY <5>1
      <4>2. b.queue \in Seq(Event)
        BY <2>2
      <4>3. PICK q : q = b.queue /\ q \in Seq(Event)
        BY <4>2
      <4>4. Read(w, r) = Reduce(Read(w, q), e)
        <5>1. i \in 1..Len(q) /\ q[i] \in DeltaEvent /\ SameStream(q[i], e) /\ r = [q EXCEPT ![i] = Merged(q[i], e)]
          BY <3>1, <3>2, <3>3, <4>3
        <5>2. \A j \in 1..Len(q) : j > i => q[j] # Hello /\ ~SameStream(e, q[j])
          BY <4>1, <4>3
        <5>3. e \in DeltaEvent
          BY <3>3
        <5>. QED
          BY <4>3, <5>1, <5>2, <5>3, ReadMerged
      <4>. QED
        BY <4>3, <4>4
    <3>. QED
      BY <3>4, <3>5, <3>6
  <2>4. CASE Dropped(c, b)
    <3>1. c.queue = <<>> /\ c.closed = TRUE /\ c.attached = b.attached
      BY <2>2, <2>4 DEF Dropped
    <3>0. <<>> \in Seq(Event) /\ Len(<<>>) = 0
      OBVIOUS
    <3>2. PICK nil : nil = <<>> /\ nil \in Seq(Event) /\ Len(nil) = 0
      BY <3>0
    <3>3. QueueOk(nil)
      BY <3>2 DEF QueueOk
    <3>4. c = [b EXCEPT !.queue = nil, !.closed = TRUE]
      BY <2>4, <3>2 DEF Dropped
    <3>5. c \in [queue : Seq(Event), closed : BOOLEAN, attached : BOOLEAN]
      BY <2>2, <3>2, <3>4
    <3>6. SubOk(c)
      BY <3>1, <3>2, <3>3, <3>5 DEF SubOk
    <3>. QED
      BY <2>1, <3>1, <3>6
  <2>5. CASE Appended(c, b, e)
    <3>1. PICK r : r = Append(b.queue, e)
      OBVIOUS
    <3>2. c = [b EXCEPT !.queue = r] /\ \A i \in 1..Len(b.queue) : ~SameStream(b.queue[i], e)
      BY <2>5, <3>1 DEF Appended
    <3>3. QueueOk(r)
      BY <2>2, <3>1, <3>2, AppendQueue
    <3>4. c.queue = r /\ c.attached = b.attached /\ c.closed = b.closed
      BY <2>2, <3>2
    <3>5. SubOk(c)
      BY <1>2, <2>2, <3>2, <3>3, <3>4 DEF SubOk, QueueOk
    <3>6. \A w \in ViewT : Read(w, r) = Reduce(Read(w, b.queue), e)
      BY <2>2, <3>1, ReadAppend
    <3>. QED
      BY <1>2, <2>1, <3>4, <3>5, <3>6
  <2>. QED
    BY <1>2, <2>1, <2>3, <2>4, <2>5, PushCases
<1>. QED
  BY <1>1, <1>2

AllIn(q, G) == \A i \in 1..Len(q) : q[i] \in DeltaEvent \cup G
HasError(q) == \E j \in 1..Len(q) : q[j] = Error
\* Every done of q follows an error; every done of q but a last one does.
Covered(q) == \A i \in 1..Len(q) : q[i] = Done => \E j \in 1..Len(q) : j < i /\ q[j] = Error
EndsWell(q) == \A i \in 1..Len(q) : q[i] = Done => i = Len(q) \/ \E j \in 1..Len(q) : j < i /\ q[j] = Error

LEMMA PlainEvents == /\ Done \notin DeltaEvent /\ Error \notin DeltaEvent /\ Hello \notin DeltaEvent
                     /\ Done # Error /\ Done # Hello /\ Error # Hello
                     /\ Done \in Event /\ Error \in Event /\ Hello \in Event
BY DEF Done, Error, Hello, DeltaEvent, Event

LEMMA NilIs == <<>> \in Seq(Event) /\ Len(<<>>) = 0
OBVIOUS

LEMMA AppendIs ==
  ASSUME NEW q \in Seq(Event), NEW e \in Event
  PROVE  /\ Append(q, e) \in Seq(Event) /\ Len(Append(q, e)) = Len(q) + 1 /\ Append(q, e)[Len(q) + 1] = e
         /\ \A i \in 1..Len(q) : Append(q, e)[i] = q[i]
OBVIOUS

LEMMA PushShape ==
  ASSUME NEW b, SubOk(b), NEW e \in Event, NEW r, r = Push(b, e).queue
  PROVE  \/ r = <<>> /\ Push(b, e).closed
         \/ /\ Len(r) = Len(b.queue) /\ e \in DeltaEvent
            /\ \A j \in 1..Len(b.queue) : r[j] = b.queue[j] \/ (r[j] \in DeltaEvent /\ b.queue[j] \in DeltaEvent)
         \/ /\ Len(r) = Len(b.queue) + 1 /\ r[Len(b.queue) + 1] = e
            /\ \A j \in 1..Len(b.queue) : r[j] = b.queue[j]
<1>0. b \in [queue : Seq(Event), closed : BOOLEAN, attached : BOOLEAN] /\ QueueOk(b.queue)
  BY DEF SubOk
<1>1. CASE b.closed
  BY <1>1, PushClosed DEF SubOk
<1>2. CASE ~b.closed
  <2>1. PICK c : c = Push(b, e)
    OBVIOUS
  <2>2. ASSUME NEW i \in 1..Len(b.queue), MergedAt(c, b, e, i)
        PROVE  /\ Len(r) = Len(b.queue) /\ e \in DeltaEvent
               /\ \A j \in 1..Len(b.queue) : r[j] = b.queue[j] \/ (r[j] \in DeltaEvent /\ b.queue[j] \in DeltaEvent)
    <3>1. r = [b.queue EXCEPT ![i] = Merged(b.queue[i], e)] /\ SameStream(b.queue[i], e)
      BY <1>0, <2>1, <2>2 DEF MergedAt
    <3>. QED
      BY <1>0, <3>1, MergeQueue
  <2>3. CASE Dropped(c, b)
    BY <1>0, <2>1, <2>3 DEF Dropped
  <2>4. CASE Appended(c, b, e)
    <3>1. r = Append(b.queue, e)
      BY <1>0, <2>1, <2>4 DEF Appended
    <3>. QED
      BY <1>0, <3>1, AppendIs
  <2>. QED
    BY <1>2, <2>1, <2>2, <2>3, <2>4, PushCases
<1>. QED
  BY <1>1, <1>2

LEMMA PushIn ==
  ASSUME NEW b, SubOk(b), NEW e \in Event, NEW G, AllIn(b.queue, G), e \in DeltaEvent \cup G
  PROVE  AllIn(Push(b, e).queue, G)
<1>1. PICK q \in Seq(Event) : q = b.queue
  BY DEF SubOk
<1>2. PICK r : r = Push(b, e).queue
  OBVIOUS
<1>3. PICK N \in Nat : N = Len(q)
  OBVIOUS
<1>4. ASSUME NEW i \in 1..Len(r) PROVE r[i] \in DeltaEvent \cup G
  <2>1. CASE r = <<>>
    BY <1>4, <2>1, NilIs
  <2>2. CASE Len(r) = N /\ \A j \in 1..N : r[j] = q[j] \/ (r[j] \in DeltaEvent /\ q[j] \in DeltaEvent)
    BY <1>1, <1>3, <1>4, <2>2 DEF AllIn
  <2>3. CASE Len(r) = N + 1 /\ r[N + 1] = e /\ \A j \in 1..N : r[j] = q[j]
    <3>1. CASE i = N + 1
      BY <2>3, <3>1
    <3>2. CASE i # N + 1
      BY <1>1, <1>3, <1>4, <2>3, <3>2 DEF AllIn
    <3>. QED
      BY <3>1, <3>2
  <2>. QED
    BY <1>1, <1>2, <1>3, <2>1, <2>2, <2>3, PushShape
<1>. QED
  BY <1>2, <1>4 DEF AllIn

LEMMA PushCovered ==
  ASSUME NEW b, SubOk(b), NEW e \in Event, Covered(b.queue), NEW c, c = Push(b, e)
  PROVE  /\ EndsWell(c.queue)
         /\ e # Done \/ HasError(b.queue) => Covered(c.queue)
         /\ e = Error => c.closed \/ HasError(c.queue)
<1>1. PICK q \in Seq(Event) : q = b.queue
  BY DEF SubOk
<1>2. PICK r : r = c.queue
  OBVIOUS
<1>3. PICK N \in Nat : N = Len(q)
  OBVIOUS
<1>4. \A i \in 1..N : q[i] = Done => \E j \in 1..N : j < i /\ q[j] = Error
  BY <1>1, <1>3 DEF Covered
<1>5. CASE r = <<>> /\ c.closed
  BY <1>2, <1>5, NilIs DEF EndsWell, Covered
<1>6. CASE /\ Len(r) = N /\ e \in DeltaEvent
           /\ \A j \in 1..N : r[j] = q[j] \/ (r[j] \in DeltaEvent /\ q[j] \in DeltaEvent)
  <2>1. \A j \in 1..N : (r[j] = Done <=> q[j] = Done) /\ (r[j] = Error <=> q[j] = Error)
    BY <1>6, PlainEvents
  <2>2. e # Error
    BY <1>6, PlainEvents
  <2>3. \A i \in 1..N : r[i] = Done => \E j \in 1..N : j < i /\ r[j] = Error
    BY <1>4, <2>1
  <2>. QED
    BY <1>2, <1>6, <2>2, <2>3 DEF EndsWell, Covered
<1>7. CASE Len(r) = N + 1 /\ r[N + 1] = e /\ \A j \in 1..N : r[j] = q[j]
  <2>1. \A i \in 1..N : r[i] = Done => \E j \in 1..(N + 1) : j < i /\ r[j] = Error
    BY <1>4, <1>7
  <2>2. EndsWell(r)
    <3>1. ASSUME NEW i \in 1..(N + 1), r[i] = Done
          PROVE i = N + 1 \/ \E j \in 1..(N + 1) : j < i /\ r[j] = Error
      <4>1. CASE i = N + 1
        BY <4>1
      <4>2. CASE i # N + 1
        <5>1. i \in 1..N
          BY <4>2
        <5>. QED
          BY <2>1, <3>1, <5>1
      <4>. QED
        BY <4>1, <4>2
    <3>. QED
      BY <1>7, <3>1 DEF EndsWell
  <2>3. ASSUME e # Done \/ HasError(q) PROVE Covered(r)
    <3>1. ASSUME NEW i \in 1..(N + 1), r[i] = Done PROVE \E j \in 1..(N + 1) : j < i /\ r[j] = Error
      <4>1. CASE i = N + 1
        <5>1. e = Done
          BY <1>7, <3>1, <4>1
        <5>2. PICK j \in 1..N : q[j] = Error
          BY <1>3, <2>3, <5>1 DEF HasError
        <5>3. j \in 1..(N + 1) /\ j < i /\ r[j] = Error
          BY <1>7, <4>1, <5>2
        <5>. QED
          BY <5>3
      <4>2. CASE i # N + 1
        <5>1. i \in 1..N
          BY <4>2
        <5>. QED
          BY <2>1, <3>1, <5>1
      <4>. QED
        BY <4>1, <4>2
    <3>. QED
      BY <1>7, <3>1 DEF Covered
  <2>4. e = Error => HasError(r)
    <3>1. N + 1 \in 1..Len(r)
      BY <1>7
    <3>. QED
      BY <1>7, <3>1 DEF HasError
  <2>. QED
    BY <1>1, <1>2, <2>2, <2>3, <2>4
<1>. QED
  BY <1>1, <1>2, <1>3, <1>5, <1>6, <1>7, PushShape

LEMMA PushMany ==
  ASSUME NEW b, SubOk(b), NEW evs \in Seq(Event),
         \A i \in 1..Len(evs) : evs[i] = Hello => i = 1 /\ b.queue = <<>>,
         NEW c, c = PushAll(b, evs)
  PROVE  /\ SubOk(c) /\ c.attached = b.attached
         /\ ~c.closed => /\ ~b.closed
                         /\ \A w \in ViewT : Read(w, c.queue) = Read(Read(w, b.queue), evs)
<1>0. PICK N \in Nat : N = Len(evs)
  OBVIOUS
<1>1. PICK p : FoldsTo("push", p, b, evs, N) /\ c = p[N]
  BY <1>0, PushSteps
<1>2. p[0] = b /\ \A n \in 1..N : p[n] = Push(p[n - 1], evs[n])
  BY <1>1 DEF FoldsTo, Apply
<1>. DEFINE Same(n) == \A w \in ViewT : \A h : FoldsTo("read", h, Read(w, b.queue), evs, N) => Read(w, p[n].queue) = h[n]
            T == {n \in 0..N : /\ SubOk(p[n]) /\ p[n].attached = b.attached
                               /\ ~p[n].closed => ~b.closed /\ Same(n)}
<1>3. 0 \in T
  <2>1. Same(0)
    BY <1>2 DEF FoldsTo
  <2>. HIDE DEF Same
  <2>. QED
    BY <1>2, <2>1
<1>4. ASSUME NEW n \in 0..(N - 1), n \in T PROVE n + 1 \in T
  <2>1. PICK k \in 1..N : k = n + 1 /\ k - 1 = n /\ k \in 0..N /\ evs[k] \in Event
    BY <1>0
  <2>2. p[k] = Push(p[n], evs[k])
    BY <1>2, <2>1
  <2>3. SubOk(p[n]) /\ p[n].attached = b.attached /\ (~p[n].closed => ~b.closed /\ Same(n))
    BY <1>4
  <2>4. evs[k] = Hello => p[n].queue = <<>>
    BY <1>0, <1>2, <2>1
  <2>5. /\ SubOk(p[k]) /\ p[k].attached = b.attached
        /\ ~p[k].closed => /\ ~p[n].closed
                           /\ \A w \in ViewT : Read(w, p[k].queue) = Reduce(Read(w, p[n].queue), evs[k])
    BY <2>1, <2>2, <2>3, <2>4, PushOne
  <2>6. ASSUME ~p[k].closed PROVE Same(k)
    <3>1. ASSUME NEW w \in ViewT, NEW h, FoldsTo("read", h, Read(w, b.queue), evs, N)
          PROVE Read(w, p[k].queue) = h[k]
      <4>1. Read(w, p[n].queue) = h[n]
        BY <2>3, <2>5, <2>6, <3>1
      <4>2. h[k] = Reduce(h[n], evs[k])
        BY <2>1, <3>1 DEF FoldsTo, Apply
      <4>. QED
        BY <2>5, <2>6, <4>1, <4>2
    <3>. QED
      BY <3>1
  <2>. HIDE DEF Same
  <2>. QED
    BY <2>1, <2>3, <2>5, <2>6
<1>. HIDE DEF Same, T
<1>5. N \in T
  <2>1. 0..N \subseteq T
    BY <1>3, <1>4, Upward
  <2>. QED
    BY <2>1
<1>6. /\ SubOk(c) /\ c.attached = b.attached
      /\ ~c.closed => ~b.closed /\ Same(N)
  BY <1>1, <1>5 DEF T
<1>7. ASSUME ~c.closed, NEW w \in ViewT PROVE Read(w, c.queue) = Read(Read(w, b.queue), evs)
  <2>1. PICK h : FoldsTo("read", h, Read(w, b.queue), evs, N) /\ Read(Read(w, b.queue), evs) = h[N]
    BY <1>0, ReadSteps
  <2>. QED
    BY <1>1, <1>6, <1>7, <2>1 DEF Same
<1>. QED
  BY <1>6, <1>7

\* The three facts about an order that the pushes keep.
LEMMA PushManyIn ==
  ASSUME NEW b, SubOk(b), NEW evs \in Seq(Event),
         \A i \in 1..Len(evs) : evs[i] = Hello => i = 1 /\ b.queue = <<>>,
         NEW G, AllIn(b.queue, G), AllIn(evs, G)
  PROVE  AllIn(PushAll(b, evs).queue, G)
<1>0. PICK N \in Nat : N = Len(evs)
  OBVIOUS
<1>1. PICK p : FoldsTo("push", p, b, evs, N) /\ PushAll(b, evs) = p[N]
  BY <1>0, PushSteps
<1>2. p[0] = b /\ \A n \in 1..N : p[n] = Push(p[n - 1], evs[n])
  BY <1>1 DEF FoldsTo, Apply
<1>. DEFINE T == {n \in 0..N : SubOk(p[n]) /\ AllIn(p[n].queue, G)}
<1>3. 0 \in T
  BY <1>2
<1>4. ASSUME NEW n \in 0..(N - 1), n \in T PROVE n + 1 \in T
  <2>1. PICK k \in 1..N : k = n + 1 /\ k - 1 = n /\ k \in 0..N /\ evs[k] \in Event
    BY <1>0
  <2>2. p[k] = Push(p[n], evs[k])
    BY <1>2, <2>1
  <2>3. SubOk(p[n]) /\ AllIn(p[n].queue, G)
    BY <1>4
  <2>4. evs[k] = Hello => p[n].queue = <<>>
    BY <1>0, <1>2, <2>1
  <2>5. evs[k] \in DeltaEvent \cup G
    BY <1>0, <2>1 DEF AllIn
  <2>6. SubOk(p[k]) /\ AllIn(p[k].queue, G)
    BY <2>1, <2>2, <2>3, <2>4, <2>5, PushOne, PushIn
  <2>. QED
    BY <2>1, <2>6
<1>. HIDE DEF T
<1>5. N \in T
  <2>1. 0..N \subseteq T
    BY <1>3, <1>4, Upward
  <2>. QED
    BY <2>1
<1>. QED
  BY <1>1, <1>5 DEF T

LEMMA PushManyCovered ==
  ASSUME NEW b, SubOk(b), NEW evs \in Seq(Event), Covered(b.queue),
         \A i \in 1..Len(evs) : evs[i] = Hello => i = 1 /\ b.queue = <<>>,
         \A i \in 1..Len(evs) : evs[i] = Done => i = Len(evs)
  PROVE  /\ EndsWell(PushAll(b, evs).queue)
         /\ (\A i \in 1..Len(evs) : evs[i] = Done => i > 1 /\ evs[i - 1] = Error) => Covered(PushAll(b, evs).queue)
<1>0. PICK N \in Nat : N = Len(evs)
  OBVIOUS
<1>1. PICK p : FoldsTo("push", p, b, evs, N) /\ PushAll(b, evs) = p[N]
  BY <1>0, PushSteps
<1>2. p[0] = b /\ \A n \in 1..N : p[n] = Push(p[n - 1], evs[n])
  BY <1>1 DEF FoldsTo, Apply
<1>. DEFINE Safe == \A i \in 1..N : evs[i] = Done => i > 1 /\ evs[i - 1] = Error
            T == {n \in 0..N : /\ SubOk(p[n]) /\ EndsWell(p[n].queue)
                               /\ n < N \/ Safe => Covered(p[n].queue)
                               /\ n > 0 /\ evs[n] = Error => p[n].closed \/ HasError(p[n].queue)}
<1>. HIDE DEF Safe
<1>3. 0 \in T
  <2>1. EndsWell(b.queue)
    BY DEF Covered, EndsWell
  <2>. QED
    BY <1>2, <2>1
<1>4. ASSUME NEW n \in 0..(N - 1), n \in T PROVE n + 1 \in T
  <2>1. PICK k \in 1..N : k = n + 1 /\ k - 1 = n /\ k \in 0..N /\ evs[k] \in Event /\ n < N /\ k > 0
    BY <1>0
  <2>2. p[k] = Push(p[n], evs[k])
    BY <1>2, <2>1
  <2>3. /\ SubOk(p[n]) /\ Covered(p[n].queue)
        /\ n > 0 /\ evs[n] = Error => p[n].closed \/ HasError(p[n].queue)
    BY <1>4, <2>1
  <2>4. evs[k] = Hello => p[n].queue = <<>>
    BY <1>0, <1>2, <2>1
  <2>5. SubOk(p[k])
    BY <2>1, <2>2, <2>3, <2>4, PushOne
  <2>6. /\ EndsWell(p[k].queue)
        /\ evs[k] # Done \/ HasError(p[n].queue) => Covered(p[k].queue)
        /\ evs[k] = Error => p[k].closed \/ HasError(p[k].queue)
    BY <2>1, <2>2, <2>3, PushCovered
  <2>7. ASSUME k < N \/ Safe PROVE Covered(p[k].queue)
    <3>1. CASE evs[k] # Done
      BY <2>6, <3>1
    <3>2. CASE evs[k] = Done
      <4>1. k = N
        BY <1>0, <2>1, <3>2
      <4>2. Safe
        BY <2>7, <4>1, <1>0
      <4>3. n > 0 /\ evs[n] = Error
        BY <2>1, <3>2, <4>2 DEF Safe
      <4>4. CASE p[n].closed
        <5>1. p[k].queue = <<>>
          BY <2>2, <2>3, <4>4, PushClosed DEF SubOk
        <5>. QED
          BY <5>1, NilIs DEF Covered
      <4>5. CASE HasError(p[n].queue)
        BY <2>6, <4>5
      <4>. QED
        BY <2>3, <4>3, <4>4, <4>5
    <3>. QED
      BY <3>1, <3>2
  <2>. QED
    BY <2>1, <2>5, <2>6, <2>7
<1>. HIDE DEF T
<1>5. N \in T
  <2>1. 0..N \subseteq T
    BY <1>3, <1>4, Upward
  <2>. QED
    BY <2>1
<1>. QED
  BY <1>0, <1>1, <1>5 DEF T, Safe

-----------------------------------------------------------------------------
(* What is sent of the strands                                             *)

LEMMA StrandsAre ==
  \E N \in Nat : /\ Len(Strands) = N /\ DOMAIN Strands = 1..N /\ Strands \in [1..N -> Strand]
                 /\ \A i, j \in 1..N : Strands[i] = Strands[j] => i = j
                 /\ \A s \in Strand : \E i \in 1..N : Strands[i] = s
<1>1. PICK N \in Nat : N = Cardinality(Strand)
  BY FanOutAssumption, FS_CardinalityType
<1>2. PICK f : f \in Bijection(1..N, Strand)
  BY <1>1, FanOutAssumption, FS_CardinalityType DEF ExistsBijection
<1>3. f \in [1..N -> Strand] /\ \A a, b \in 1..N : f[a] = f[b] => a = b
  BY <1>2, Fun_BijectionProperties
<1>4. IsInjective(f)
  BY <1>3 DEF IsInjective
<1>5. Strands \in [1..N -> Strand] /\ IsInjective(Strands)
  BY <1>1, <1>3, <1>4 DEF Strands, SetToSeq
<1>6. PICK g : g = Strands /\ g \in [1..N -> Strand] /\ \A a, b \in 1..N : g[a] = g[b] => a = b
  BY <1>5 DEF IsInjective
<1>7. g \in Bijection(1..N, Range(g))
  BY <1>6, Fun_IsInj, Fun_InjMeansBijImage
<1>8. Cardinality(Range(g)) = N
  BY <1>7, FS_CountingElements DEF ExistsBijection
<1>9. Range(g) \subseteq Strand
  BY <1>6, Fun_RangeProperties
<1>10. Range(g) = Strand
  BY <1>1, <1>8, <1>9, FanOutAssumption, FS_Subset
<1>11. \A s \in Strand : \E i \in 1..N : g[i] = s
  BY <1>6, <1>10, Fun_RangeProperties
<1>12. DOMAIN g = 1..N /\ Len(g) = N
  <2>1. g \in Seq(Strand) /\ DOMAIN g = 1..N
    BY <1>6
  <2>. QED
    BY <2>1
<1>. QED
  BY <1>6, <1>11, <1>12

\* The events of q are about strand s, or about some strand.
About(s) == {q \in Seq(Event) : \A i \in 1..Len(q) : q[i] \in AboutStrand /\ q[i].s = s}
Abouts == {q \in Seq(Event) : \A i \in 1..Len(q) : q[i] \in AboutStrand}

LEMMA LocalRead ==
  ASSUME NEW s \in Strand, NEW q \in About(s), NEW u \in ViewT, NEW w \in ViewT, u.strands[s] = w.strands[s]
  PROVE  /\ Read(u, q) \in ViewT /\ RestSame(Read(u, q), u)
         /\ Read(u, q).strands[s] = Read(w, q).strands[s]
         /\ \A t \in Strand : t # s => Read(u, q).strands[t] = u.strands[t]
<1>0. PICK N \in Nat : N = Len(q)
  BY DEF About
<1>1. q \in Seq(Event) /\ \A i \in 1..N : q[i] \in AboutStrand /\ q[i].s = s
  BY <1>0 DEF About
<1>2. PICK f : FoldsTo("read", f, u, q, N) /\ Read(u, q) = f[N]
  BY <1>0, <1>1, ReadSteps
<1>3. PICK g : FoldsTo("read", g, w, q, N) /\ Read(w, q) = g[N]
  BY <1>0, <1>1, ReadSteps
<1>4. \A n \in 1..N : f[n] = Reduce(f[n - 1], q[n]) /\ g[n] = Reduce(g[n - 1], q[n])
  BY <1>2, <1>3 DEF FoldsTo, Apply
<1>. DEFINE Local(n) == /\ f[n] \in ViewT /\ g[n] \in ViewT /\ RestSame(f[n], u)
                        /\ f[n].strands[s] = g[n].strands[s]
                        /\ \A t \in Strand : t # s => f[n].strands[t] = u.strands[t]
            T == {n \in 0..N : Local(n)}
<1>5. 0 \in T
  BY <1>2, <1>3 DEF FoldsTo, RestSame
<1>6. ASSUME NEW n \in 0..(N - 1), n \in T PROVE n + 1 \in T
  <2>1. PICK k \in 1..N : k = n + 1 /\ k - 1 = n /\ k \in 0..N
    BY <1>0
  <2>2. PICK e \in AboutStrand : e = q[k] /\ e.s = s
    BY <1>1, <2>1
  <2>3. PICK x \in ViewT, y \in ViewT : /\ x = f[n] /\ y = g[n] /\ RestSame(x, u) /\ x.strands[s] = y.strands[s]
                                        /\ \A t \in Strand : t # s => x.strands[t] = u.strands[t]
    BY <1>6
  <2>4. f[k] = Reduce(x, e) /\ g[k] = Reduce(y, e)
    BY <1>4, <2>1, <2>2, <2>3
  <2>5. /\ f[k] \in ViewT /\ RestSame(f[k], x)
        /\ f[k].strands = [x.strands EXCEPT ![s] = After(x.strands[s], e)]
        /\ g[k] \in ViewT
        /\ g[k].strands = [y.strands EXCEPT ![s] = After(y.strands[s], e)]
    BY <2>2, <2>4, AboutRest
  <2>6. x.strands \in [Strand -> ViewStrand] /\ y.strands \in [Strand -> ViewStrand]
    BY DEF ViewT
  <2>7. Local(k)
    BY <2>3, <2>5, <2>6 DEF RestSame
  <2>. HIDE DEF Local
  <2>. QED
    BY <2>1, <2>7
<1>. HIDE DEF T
<1>7. N \in T
  <2>1. 0..N \subseteq T
    BY <1>5, <1>6, Upward
  <2>. QED
    BY <2>1
<1>. QED
  BY <1>2, <1>3, <1>7 DEF T

-----------------------------------------------------------------------------
(* FlattenSeq, step by step.                                                *)

FlatTo(f, q, n) ==
  /\ f = [i \in 0..n |-> f[i]]
  /\ f[0] = <<>>
  /\ \A i \in 1..n : f[i] = f[i - 1] \o q[i]

LEMMA ConcatAbouts ==
  ASSUME NEW a \in Abouts, NEW b \in Abouts
  PROVE  a \o b \in Abouts
<1>1. a \in Seq(Event) /\ b \in Seq(Event)
  BY DEF Abouts
<1>2. PICK m \in Nat, n \in Nat : m = Len(a) /\ n = Len(b)
  BY <1>1
<1>3. PICK c : c = a \o b
  OBVIOUS
<1>4. /\ c \in Seq(Event) /\ Len(c) = m + n
      /\ \A i \in 1..m : c[i] = a[i]
      /\ \A i \in (m + 1)..(m + n) : c[i] = b[i - m]
  BY <1>1, <1>2, <1>3
<1>5. ASSUME NEW i \in 1..(m + n) PROVE c[i] \in AboutStrand
  <2>1. CASE i <= m
    <3>1. i \in 1..m
      BY <2>1
    <3>. QED
      BY <1>2, <1>4, <3>1 DEF Abouts
  <2>2. CASE i > m
    <3>1. i \in (m + 1)..(m + n) /\ i - m \in 1..n
      BY <2>2
    <3>. QED
      BY <1>2, <1>4, <3>1 DEF Abouts
  <2>. QED
    BY <2>1, <2>2
<1>. QED
  BY <1>3, <1>4, <1>5 DEF Abouts

LEMMA NilAbouts == <<>> \in Abouts /\ \A s : <<>> \in About(s)
BY NilIs DEF Abouts, About

LEMMA FlatExists ==
  ASSUME NEW q, NEW N \in Nat, \A i \in 1..N : q[i] \in Abouts
  PROVE  \E f : FlatTo(f, q, N) /\ \A i \in 0..N : f[i] \in Abouts
<1>. DEFINE T == {n \in 0..N : \E f : FlatTo(f, q, n) /\ \A i \in 0..n : f[i] \in Abouts}
<1>1. 0 \in T
  <2>1. PICK g : g = [i \in 0..0 |-> <<>>]
    OBVIOUS
  <2>2. FlatTo(g, q, 0)
    BY <2>1 DEF FlatTo
  <2>3. \A i \in 0..0 : g[i] \in Abouts
    BY <2>1, NilAbouts
  <2>. QED
    BY <2>2, <2>3
<1>2. ASSUME NEW n \in 0..(N - 1), n \in T PROVE n + 1 \in T
  <2>1. PICK f : FlatTo(f, q, n) /\ \A i \in 0..n : f[i] \in Abouts
    BY <1>2
  <2>. DEFINE g == [i \in 0..(n + 1) |-> IF i = n + 1 THEN f[n] \o q[n + 1] ELSE f[i]]
  <2>2. g = [i \in 0..(n + 1) |-> g[i]] /\ g[0] = <<>>
    BY <2>1 DEF FlatTo
  <2>3. \A i \in 0..n : g[i] = f[i]
    OBVIOUS
  <2>4. g[n + 1] = f[n] \o q[n + 1]
    OBVIOUS
  <2>. HIDE DEF g
  <2>5. ASSUME NEW i \in 1..(n + 1) PROVE g[i] = g[i - 1] \o q[i]
    <3>1. CASE i = n + 1
      <4>1. i - 1 = n /\ n \in 0..n
        BY <3>1
      <4>. QED
        BY <2>3, <2>4, <3>1, <4>1
    <3>2. CASE i # n + 1
      <4>1. i \in 1..n /\ i \in 0..n /\ i - 1 \in 0..n
        BY <3>2
      <4>. QED
        BY <2>1, <2>3, <4>1 DEF FlatTo
    <3>. QED
      BY <3>1, <3>2
  <2>6. FlatTo(g, q, n + 1)
    BY <2>2, <2>5 DEF FlatTo
  <2>7. ASSUME NEW i \in 0..(n + 1) PROVE g[i] \in Abouts
    <3>1. CASE i = n + 1
      <4>1. n \in 0..n /\ n + 1 \in 1..N
        OBVIOUS
      <4>. QED
        BY <2>1, <2>4, <3>1, <4>1, ConcatAbouts
    <3>2. CASE i # n + 1
      <4>1. i \in 0..n
        BY <3>2
      <4>. QED
        BY <2>1, <2>3, <4>1
    <3>. QED
      BY <3>1, <3>2
  <2>. QED
    BY <2>6, <2>7
<1>. HIDE DEF T
<1>3. N \in T
  <2>1. 0..N \subseteq T
    BY <1>1, <1>2, Upward
  <2>. QED
    BY <2>1
<1>. QED
  BY <1>3 DEF T

LEMMA FlattenIs ==
  ASSUME NEW q, NEW N \in Nat, Len(q) = N, q = [i \in 1..N |-> q[i]], \A i \in 1..N : q[i] \in Abouts,
         NEW f, FlatTo(f, q, N), \A i \in 0..N : f[i] \in Abouts
  PROVE  FlattenSeq(q) = f[N]
<1>1. CASE N = 0
  <2>1. q = <<>>
    BY <1>1
  <2>. QED
    BY <1>1, <2>1 DEF FlattenSeq, FlatTo
<1>2. CASE N # 0
  <2>. DEFINE g == CHOOSE g : g = [i \in 1..Len(q) |-> IF i = 1 THEN q[i] ELSE g[i - 1] \o q[i]]
              h == [i \in 1..N |-> f[i]]
  <2>1. h = [i \in 1..Len(q) |-> IF i = 1 THEN q[i] ELSE h[i - 1] \o q[i]]
    <3>1. ASSUME NEW i \in 1..N PROVE h[i] = IF i = 1 THEN q[i] ELSE h[i - 1] \o q[i]
      <4>1. CASE i = 1
        <5>1. f[1] = <<>> \o q[1]
          BY <4>1 DEF FlatTo
        <5>2. q[1] \in Seq(Event)
          BY <4>1 DEF Abouts
        <5>. QED
          BY <4>1, <5>1, <5>2
      <4>2. CASE i # 1
        <5>1. i - 1 \in 1..N
          BY <4>2
        <5>. QED
          BY <4>2, <5>1 DEF FlatTo
      <4>. QED
        BY <4>1, <4>2
    <3>. QED
      BY <3>1
  <2>2. g = [i \in 1..Len(q) |-> IF i = 1 THEN q[i] ELSE g[i - 1] \o q[i]]
    <3>. HIDE DEF h
    <3>. QED
      BY <2>1
  <2>3. FlattenSeq(q) = g[N]
    BY <1>2 DEF FlattenSeq
  <2>. HIDE DEF g, h
  <2>. DEFINE T == {n \in 0..N : n > 0 => g[n] = f[n]}
  <2>4. 0 \in T
    OBVIOUS
  <2>5. ASSUME NEW n \in 0..(N - 1), n \in T PROVE n + 1 \in T
    <3>1. PICK k \in 1..N : k = n + 1 /\ k - 1 = n /\ k \in 0..N
      OBVIOUS
    <3>2. g[k] = IF k = 1 THEN q[k] ELSE g[n] \o q[k]
      BY <2>2, <3>1
    <3>3. f[k] = f[n] \o q[k]
      BY <3>1 DEF FlatTo
    <3>4. CASE k = 1
      <4>0. n = 0 /\ f[0] = <<>>
        BY <3>1, <3>4 DEF FlatTo
      <4>1. q[k] \in Seq(Event)
        BY <3>1 DEF Abouts
      <4>2. f[k] = q[k]
        BY <3>3, <4>0, <4>1
      <4>. QED
        BY <3>1, <3>2, <3>4, <4>2
    <3>5. CASE k # 1
      <4>1. g[n] = f[n]
        BY <2>5, <3>1, <3>5
      <4>2. g[k] = f[k]
        BY ONLY <3>2, <3>3, <3>5, <4>1
      <4>. QED
        BY <3>1, <4>2
    <3>. QED
      BY <3>4, <3>5
  <2>. HIDE DEF T
  <2>6. N \in T
    <3>1. 0..N \subseteq T
      BY <2>4, <2>5, Upward
    <3>. QED
      BY <3>1
  <2>. QED
    BY <1>2, <2>3, <2>6 DEF T
<1>. QED
  BY <1>1, <1>2

\* What the events of one strand are, read after those of the strands before it, they are on their own.
LEMMA FlatRead ==
  ASSUME NEW q, q = [i \in DOMAIN Strands |-> q[i]],
         \A i \in DOMAIN Strands : q[i] \in About(Strands[i])
  PROVE  /\ FlattenSeq(q) \in Abouts
         /\ \A w \in ViewT :
              /\ Read(w, FlattenSeq(q)) \in ViewT /\ RestSame(Read(w, FlattenSeq(q)), w)
              /\ \A i \in DOMAIN Strands :
                   Read(w, FlattenSeq(q)).strands[Strands[i]] = Read(w, q[i]).strands[Strands[i]]
<1>1. PICK N \in Nat : /\ Len(Strands) = N /\ DOMAIN Strands = 1..N /\ Strands \in [1..N -> Strand]
                       /\ \A i, j \in 1..N : Strands[i] = Strands[j] => i = j
  BY StrandsAre
<1>2. \A i \in 1..N : q[i] \in Abouts
  BY <1>1 DEF About, Abouts
<1>3. q = [i \in 1..N |-> q[i]] /\ Len(q) = N
  <2>1. q = [i \in 1..N |-> q[i]]
    BY <1>1
  <2>2. \A i \in 1..N : q[i] \in Seq(Event)
    BY <1>2 DEF Abouts
  <2>3. q \in Seq(Seq(Event)) /\ DOMAIN q = 1..N
    <3>1. q \in [1..N -> Seq(Event)] /\ DOMAIN q = 1..N
      BY <2>1, <2>2
    <3>. QED
      BY <3>1
  <2>. QED
    BY <2>1, <2>3
<1>4. PICK f : FlatTo(f, q, N) /\ \A i \in 0..N : f[i] \in Abouts
  BY <1>2, FlatExists
<1>5. FlattenSeq(q) = f[N]
  BY <1>2, <1>3, <1>4, FlattenIs
<1>6. ASSUME NEW w \in ViewT
      PROVE  /\ Read(w, f[N]) \in ViewT /\ RestSame(Read(w, f[N]), w)
             /\ \A i \in 1..N : Read(w, f[N]).strands[Strands[i]] = Read(w, q[i]).strands[Strands[i]]
  <2>. DEFINE Upon(n) == /\ Read(w, f[n]) \in ViewT /\ RestSame(Read(w, f[n]), w)
                         /\ \A i \in 1..N : Read(w, f[n]).strands[Strands[i]] =
                              IF i <= n THEN Read(w, q[i]).strands[Strands[i]] ELSE w.strands[Strands[i]]
              T == {n \in 0..N : Upon(n)}
  <2>1. 0 \in T
    <3>1. f[0] = <<>> /\ Read(w, <<>>) = w
      BY <1>4, ReadNil DEF FlatTo
    <3>. QED
      BY <3>1 DEF RestSame
  <2>2. ASSUME NEW n \in 0..(N - 1), n \in T PROVE n + 1 \in T
    <3>1. PICK k \in 1..N : k = n + 1 /\ k - 1 = n /\ k \in 0..N /\ n \in 0..N
      OBVIOUS
    <3>2. PICK u \in ViewT : /\ u = Read(w, f[n]) /\ RestSame(u, w)
                             /\ \A i \in 1..N : u.strands[Strands[i]] =
                                  IF i <= n THEN Read(w, q[i]).strands[Strands[i]] ELSE w.strands[Strands[i]]
      BY <2>2
    <3>3. f[k] = f[n] \o q[k]
      BY <1>4, <3>1 DEF FlatTo
    <3>4. f[n] \in Seq(Event) /\ q[k] \in Seq(Event)
      BY <1>2, <1>4, <3>1 DEF Abouts
    <3>5. Read(w, f[k]) = Read(u, q[k])
      BY <3>2, <3>3, <3>4, ReadConcat
    <3>6. PICK s \in Strand : s = Strands[k]
      BY <1>1, <3>1
    <3>7. u.strands[s] = w.strands[s]
      BY <3>1, <3>2, <3>6
    <3>8. q[k] \in About(s)
      BY <1>1, <3>1, <3>6
    <3>9. PICK v \in ViewT : /\ v = Read(u, q[k]) /\ RestSame(v, u) /\ v.strands[s] = Read(w, q[k]).strands[s]
                             /\ \A t \in Strand : t # s => v.strands[t] = u.strands[t]
      <4>1. /\ Read(u, q[k]) \in ViewT /\ RestSame(Read(u, q[k]), u)
            /\ Read(u, q[k]).strands[s] = Read(w, q[k]).strands[s]
            /\ \A t \in Strand : t # s => Read(u, q[k]).strands[t] = u.strands[t]
        BY ONLY u \in ViewT, w \in ViewT, s \in Strand, <3>7, <3>8, LocalRead
      <4>. QED
        BY ONLY <4>1
    <3>10. ASSUME NEW i \in 1..N
           PROVE v.strands[Strands[i]] = IF i <= k THEN Read(w, q[i]).strands[Strands[i]] ELSE w.strands[Strands[i]]
      <4>1. CASE i = k
        BY <3>6, <3>9, <4>1
      <4>2. CASE i # k
        <5>1. Strands[i] # s /\ Strands[i] \in Strand
          BY <1>1, <3>6, <4>2
        <5>2. v.strands[Strands[i]] = u.strands[Strands[i]]
          BY <3>9, <5>1
        <5>3. i <= k <=> i <= n
          BY <3>1, <4>2
        <5>. QED
          BY <3>2, <5>2, <5>3
      <4>. QED
        BY <4>1, <4>2
    <3>11. Upon(k)
      <4>1. Read(w, f[k]) = v
        BY ONLY <3>5, <3>9
      <4>2. RestSame(v, w)
        BY ONLY <3>2, <3>9 DEF RestSame
      <4>. QED
        BY ONLY <4>1, <4>2, v \in ViewT, <3>10
    <3>. HIDE DEF Upon
    <3>. QED
      BY <3>1, <3>11
  <2>. HIDE DEF T
  <2>3. N \in T
    <3>1. 0..N \subseteq T
      BY <2>1, <2>2, Upward
    <3>. QED
      BY <3>1
  <2>. QED
    BY <2>3 DEF T
<1>7. f[N] \in Abouts
  BY <1>4
<1>8. PICK F : F = FlattenSeq(q) /\ F = f[N]
  BY <1>5
<1>9. ASSUME NEW w \in ViewT
      PROVE  /\ Read(w, F) \in ViewT /\ RestSame(Read(w, F), w)
             /\ \A i \in DOMAIN Strands : Read(w, F).strands[Strands[i]] = Read(w, q[i]).strands[Strands[i]]
  <2>1. PICK u : u = Read(w, F)
    OBVIOUS
  <2>2. u = Read(w, f[N])
    BY <1>8, <2>1
  <2>3. /\ u \in ViewT /\ RestSame(u, w)
        /\ \A i \in 1..N : u.strands[Strands[i]] = Read(w, q[i]).strands[Strands[i]]
    BY <1>6, <2>2
  <2>. QED
    BY ONLY <1>1, <2>1, <2>3
<1>10. F \in Abouts
  BY <1>7, <1>8
<1>. QED
  BY ONLY <1>8, <1>9, <1>10

-----------------------------------------------------------------------------
(* What one strand's events make of what a view has of it                   *)

RunType ==
  /\ state \in [Strand -> StrandState]
  /\ made \in [Strand -> [Stream -> Nat]] /\ pend \in [Strand -> [Stream -> Nat]]
  /\ \A s \in Strand : \A k \in Stream : pend[s][k] <= made[s][k]
  /\ bearing \in [Strand -> Nat] /\ sent \in [Strand -> Nat]
  /\ \A s \in Strand : sent[s] <= StepsTotal(s)
  /\ ticks \in Nat /\ levels \in Nat
  /\ status \in {"running", "done", "cancelled", "error"}

\* The end of the first o chunks, no shorter than what is retained.
TextOk(t, o) == \E l \in 0..o : t = Upto(o, l) /\ l >= Least(o, TextCap)
Chunks(o) == o["reasoning"] + o["text"]
\* x shows the chunks counted in o.
Shown(x, o) == /\ \A k \in Stream : TextOk(x.text[k], o[k])
               /\ x.chunks = Chunks(o)
StepsExact(x, s) == x.steps = Upto(StepsTotal(s), StepKeep)
OutOf(s) == [k \in Stream |-> Out(s, k)]

LEMMA TextGrows ==
  ASSUME NEW o \in Nat, NEW m \in Nat, o <= m, NEW t, TextOk(t, o)
  PROVE  TextOk(LastOf(Join(t, Upto(m, m - o)), RingCap), m)
<1>1. PICK l \in 0..o : t = Upto(o, l) /\ l >= Least(o, TextCap)
  BY DEF TextOk
<1>2. PICK n \in 0..m : n = l + (m - o)
  BY <1>1
<1>3. Join(t, Upto(m, m - o)) = Upto(m, n)
  BY <1>1, <1>2, UptoJoined
<1>4. LastOf(Upto(m, n), RingCap) = Upto(m, Least(n, RingCap))
  BY UptoTrimmed, Caps
<1>5. Least(n, RingCap) \in 0..m /\ Least(n, RingCap) >= Least(m, TextCap)
  BY <1>1, <1>2, Caps DEF Least
<1>. QED
  BY <1>3, <1>4, <1>5 DEF TextOk

LEMMA TextFresh ==
  ASSUME NEW m \in Nat
  PROVE  /\ TextOk(LastOf(Join(<<>>, Upto(m, TextCap)), RingCap), m)
         /\ TextOk(<<>>, 0)
<1>1. PICK n \in 0..m : n = Least(m, TextCap) /\ Upto(m, TextCap) = Upto(m, n)
  BY UptoMost, Caps
<1>2. PICK t : t = Upto(m, n)
  OBVIOUS
<1>3. t \in Seq(Nat)
  BY <1>2, UptoIs DEF Text
<1>4. Join(<<>>, t) = t
  BY <1>3 DEF Join
<1>5. LastOf(t, RingCap) = Upto(m, Least(n, RingCap))
  BY <1>2, UptoTrimmed, Caps
<1>6. Least(n, RingCap) = n
  BY <1>1, Caps DEF Least
<1>7. Upto(0, 0) = <<>>
  BY DEF Upto, Least
<1>8. TextOk(LastOf(Join(<<>>, Upto(m, TextCap)), RingCap), m)
  BY <1>1, <1>2, <1>4, <1>5, <1>6 DEF TextOk
<1>9. TextOk(<<>>, 0)
  BY <1>7, Caps DEF TextOk, Least
<1>. QED
  BY <1>8, <1>9

LEMMA UptoType ==
  ASSUME NEW m \in Nat, NEW n \in Nat
  PROVE  Upto(m, n) \in Seq(Nat) /\ Len(Upto(m, n)) = Least(m, n)
<1>1. Upto(m, n) = Upto(m, Least(m, n)) /\ Least(m, n) \in 0..m
  BY UptoMost
<1>. QED
  BY <1>1, UptoIs DEF Text

LEMMA OneAbout ==
  ASSUME NEW e \in AboutStrand
  PROVE  <<e>> \in About(e.s) /\ \A w \in ViewT : /\ Read(w, <<e>>) = Reduce(w, e)
                                                 /\ Read(w, <<e>>) \in ViewT
                                                 /\ Read(w, <<e>>).strands[e.s] = After(w.strands[e.s], e)
<1>1. e \in Event /\ e.s \in Strand
  BY EventTypes DEF AboutStrand, Event
<1>2. <<e>> \in Seq(Event) /\ Len(<<e>>) = 1 /\ <<e>>[1] = e
  BY <1>1
<1>3. <<e>> \in About(e.s)
  BY <1>2 DEF About
<1>4. ASSUME NEW w \in ViewT
      PROVE Read(w, <<e>>) = Reduce(w, e) /\ Reduce(w, e) \in ViewT /\ Reduce(w, e).strands[e.s] = After(w.strands[e.s], e)
  <2>1. Read(w, <<e>>) = Reduce(w, e)
    BY <1>1, ReadOne
  <2>2. PICK u : /\ u = Reduce(w, e) /\ u \in ViewT
                 /\ u.strands = [w.strands EXCEPT ![e.s] = After(w.strands[e.s], e)]
    BY AboutRest
  <2>3. w.strands \in [Strand -> ViewStrand]
    BY DEF ViewT
  <2>. QED
    BY <1>1, <2>1, <2>2, <2>3
<1>. QED
  BY <1>3, <1>4

LEMMA ConcatAbout ==
  ASSUME NEW s, NEW a \in About(s), NEW b \in About(s)
  PROVE  a \o b \in About(s) /\ \A w : Read(w, a \o b) = Read(Read(w, a), b)
<1>1. a \in Seq(Event) /\ b \in Seq(Event)
  BY DEF About
<1>2. PICK m \in Nat, n \in Nat : m = Len(a) /\ n = Len(b)
  BY <1>1
<1>3. PICK c : c = a \o b
  OBVIOUS
<1>4. /\ c \in Seq(Event) /\ Len(c) = m + n
      /\ \A i \in 1..m : c[i] = a[i]
      /\ \A i \in (m + 1)..(m + n) : c[i] = b[i - m]
  BY <1>1, <1>2, <1>3
<1>5. ASSUME NEW i \in 1..(m + n) PROVE c[i] \in AboutStrand /\ c[i].s = s
  <2>1. CASE i <= m
    <3>1. i \in 1..m
      BY <2>1
    <3>. QED
      BY <1>2, <1>4, <3>1 DEF About
  <2>2. CASE i > m
    <3>1. i \in (m + 1)..(m + n) /\ i - m \in 1..n
      BY <2>2
    <3>. QED
      BY <1>2, <1>4, <3>1 DEF About
  <2>. QED
    BY <2>1, <2>2
<1>. QED
  BY <1>1, <1>3, <1>4, <1>5, ReadConcat DEF About

LEMMA StepsNat ==
  ASSUME RunType, NEW s \in Strand
  PROVE  StepsTotal(s) \in Nat /\ bearing[s] \in Nat /\ sent[s] \in Nat /\ sent[s] <= StepsTotal(s)
BY DEF RunType, StepsTotal

LEMMA CountsNat ==
  ASSUME RunType, NEW s \in Strand, NEW k \in Stream
  PROVE  /\ made[s][k] \in Nat /\ pend[s][k] \in Nat /\ pend[s][k] <= made[s][k]
         /\ Out(s, k) \in Nat /\ Out(s, k) <= made[s][k] /\ made[s][k] - Out(s, k) = pend[s][k]
         /\ OutOf(s)[k] = Out(s, k)
<1>1. made[s][k] \in Nat /\ pend[s][k] \in Nat /\ pend[s][k] <= made[s][k]
  BY DEF RunType
<1>. QED
  BY <1>1 DEF Out, OutOf

LEMMA FullIs ==
  ASSUME RunType, NEW s \in Strand, NEW st \in StrandState
  PROVE  /\ FullEvent(s, st) \in StrandEvent /\ FullEvent(s, st).s = s
         /\ \A x \in ViewStrand : LET y == After(x, FullEvent(s, st)) IN
              /\ y \in ViewStrand /\ y.state = st /\ y.text = x.text /\ y.chunks = x.chunks
              /\ st \in Ended => StepsExact(y, s)
<1>1. PICK q \in Seq(Nat) : q = Upto(StepsTotal(s), StepKeep) /\ Len(q) <= StepKeep
  <2>1. StepsTotal(s) \in Nat
    BY StepsNat
  <2>2. Upto(StepsTotal(s), StepKeep) \in Seq(Nat) /\ Len(Upto(StepsTotal(s), StepKeep)) = Least(StepsTotal(s), StepKeep)
    BY <2>1, UptoType, Caps
  <2>. QED
    BY <2>1, <2>2, LeastIs, Caps
<1>2. PICK e : e = FullEvent(s, st)
  OBVIOUS
<1>3. e = IF st \in Ended \cup {"decode"} THEN [type |-> "strand", s |-> s, state |-> st, mode |-> "replace", steps |-> q]
          ELSE [type |-> "strand", s |-> s, state |-> st, mode |-> "none", steps |-> <<>>]
  BY <1>1, <1>2 DEF FullEvent, StrandEv
<1>4. e \in StrandEvent /\ e.s = s /\ e.state = st
  <2>1. <<>> \in Seq(Nat)
    OBVIOUS
  <2>. QED
    BY <1>3, <2>1 DEF StrandEvent
<1>5. ASSUME NEW x \in ViewStrand, NEW y, y = After(x, e)
      PROVE  /\ y \in ViewStrand /\ y.state = st /\ y.text = x.text /\ y.chunks = x.chunks
             /\ st \in Ended => y.steps = q
  <2>1. y = AfterStrand(x, e)
    BY <1>4, <1>5, EventTypes DEF After
  <2>2. /\ y \in ViewStrand /\ y.state = st /\ y.steps = StepsAfter(x.steps, e)
        /\ y.chunks = x.chunks /\ y.text = x.text
    BY <1>4, <2>1, AfterStrandType
  <2>3. ASSUME st \in Ended PROVE y.steps = q
    <3>1. e.mode = "replace" /\ e.steps = q
      BY <1>3, <2>3
    <3>2. LastOf(q, StepKeep) = q
      <4>1. ~(Len(q) > StepKeep)
        BY <1>1, Caps
      <4>. QED
        BY <4>1 DEF LastOf
    <3>. QED
      BY <2>2, <3>1, <3>2 DEF StepsAfter
  <2>. QED
    BY <2>2, <2>3
<1>. QED
  BY <1>1, <1>2, <1>4, <1>5 DEF StepsExact

LEMMA LiveIs ==
  ASSUME RunType, NEW s \in Strand
  PROVE  /\ LiveEvent(s) \in StrandEvent /\ LiveEvent(s).s = s
         /\ \A x \in ViewStrand : LET y == After(x, LiveEvent(s)) IN
              y \in ViewStrand /\ y.state = "decode" /\ y.text = x.text /\ y.chunks = x.chunks
<1>1. PICK n \in Nat : n = Least(StepsTotal(s) - sent[s], StepKeep)
  BY StepsNat, LeastIs, Caps
<1>2. PICK q \in Seq(Nat) : q = Upto(StepsTotal(s), n)
  BY StepsNat, UptoType
<1>3. PICK e : e = LiveEvent(s)
  OBVIOUS
<1>4. e = [type |-> "strand", s |-> s, state |-> "decode", mode |-> IF n = 0 THEN "none" ELSE "append", steps |-> q]
  BY <1>1, <1>2, <1>3 DEF LiveEvent, StrandEv
<1>5. e \in StrandEvent /\ e.s = s /\ e.state = "decode"
  BY <1>4 DEF StrandEvent, StrandState
<1>6. ASSUME NEW x \in ViewStrand, NEW y, y = After(x, e)
      PROVE y \in ViewStrand /\ y.state = "decode" /\ y.text = x.text /\ y.chunks = x.chunks
  <2>1. y = AfterStrand(x, e)
    BY <1>5, <1>6, EventTypes DEF After
  <2>. QED
    BY <1>5, <2>1, AfterStrandType
<1>. QED
  BY <1>3, <1>5, <1>6

LEMMA DeltaIs ==
  ASSUME NEW s \in Strand, NEW k \in Stream, NEW t \in Seq(Nat), NEW n \in Nat,
         NEW e, e = [type |-> "delta", s |-> s, k |-> k, text |-> t, n |-> n]
  PROVE  /\ e \in DeltaEvent /\ e.s = s
         /\ \A x \in ViewStrand : LET y == After(x, e) IN
              /\ y \in ViewStrand /\ y.state = x.state /\ y.steps = x.steps /\ y.chunks = x.chunks + n
              /\ y.text = [x.text EXCEPT ![k] = LastOf(Join(x.text[k], t), RingCap)]
<1>1. e \in DeltaEvent /\ e.s = s /\ e.k = k /\ e.n = n /\ e.text = t
  BY DEF DeltaEvent
<1>2. ASSUME NEW x \in ViewStrand, NEW y, y = After(x, e)
      PROVE  /\ y \in ViewStrand /\ y.state = x.state /\ y.steps = x.steps /\ y.chunks = x.chunks + n
             /\ y.text = [x.text EXCEPT ![k] = LastOf(Join(x.text[k], t), RingCap)]
  <2>1. y = AfterDelta(x, e)
    BY <1>1, <1>2, EventTypes DEF After
  <2>. QED
    BY <1>1, <2>1, AfterDeltaType
<1>. QED
  BY <1>1, <1>2

\* What is read of a list about s, of a view that has x of s.
Of(w, q, s) == Read(w, q).strands[s]

LEMMA OfNil == \A w, s : Of(w, <<>>, s) = w.strands[s]
BY ReadNil DEF Of

LEMMA PendingRead ==
  ASSUME RunType, NEW s \in Strand, NEW k \in Stream
  PROVE  /\ PendingOf(s, k) \in About(s)
         /\ \A w \in ViewT : LET x == w.strands[s]
                                 y == Of(w, PendingOf(s, k), s) IN
              /\ y.state = x.state /\ y.steps = x.steps /\ y.chunks = x.chunks + pend[s][k]
              /\ \A j \in Stream : j # k => y.text[j] = x.text[j]
              /\ TextOk(x.text[k], Out(s, k)) => TextOk(y.text[k], made[s][k])
<1>0. /\ made[s][k] \in Nat /\ pend[s][k] \in Nat /\ pend[s][k] <= made[s][k]
      /\ Out(s, k) \in Nat /\ Out(s, k) <= made[s][k] /\ made[s][k] - Out(s, k) = pend[s][k]
  BY CountsNat
<1>00. \A w \in ViewT : w.strands[s] \in ViewStrand
  BY DEF ViewT
<1>1. CASE pend[s][k] = 0
  <2>1. PendingOf(s, k) = <<>> /\ Out(s, k) = made[s][k]
    BY <1>0, <1>1 DEF PendingOf
  <2>2. ASSUME NEW w \in ViewT PROVE Of(w, <<>>, s) = w.strands[s] /\ w.strands[s].chunks + 0 = w.strands[s].chunks
    <3>1. w.strands[s].chunks \in Nat
      BY <1>00 DEF ViewStrand
    <3>. QED
      BY <3>1, OfNil
  <2>. QED
    BY <1>1, <2>1, <2>2, NilAbouts
<1>2. CASE pend[s][k] # 0
  <2>1. PICK t \in Seq(Nat) : t = Upto(made[s][k], pend[s][k]) /\ Len(t) = pend[s][k]
    <3>1. Upto(made[s][k], pend[s][k]) \in Seq(Nat)
          /\ Len(Upto(made[s][k], pend[s][k])) = Least(made[s][k], pend[s][k])
      BY <1>0, UptoType
    <3>. QED
      BY <1>0, <3>1 DEF Least
  <2>2. PICK e : e = [type |-> "delta", s |-> s, k |-> k, text |-> t, n |-> pend[s][k]]
    OBVIOUS
  <2>3. PendingOf(s, k) = <<e>>
    BY <1>2, <2>1, <2>2 DEF PendingOf, Delta
  <2>4. /\ e \in AboutStrand /\ e.s = s
        /\ \A x \in ViewStrand : LET y == After(x, e) IN
              /\ y.state = x.state /\ y.steps = x.steps /\ y.chunks = x.chunks + pend[s][k]
              /\ y.text = [x.text EXCEPT ![k] = LastOf(Join(x.text[k], t), RingCap)]
    BY <1>0, <2>2, DeltaIs DEF AboutStrand
  <2>5. <<e>> \in About(s)
    BY <2>4, OneAbout
  <2>6. ASSUME NEW w \in ViewT
        PROVE LET x == w.strands[s]
                  y == Of(w, <<e>>, s) IN
              /\ y.state = x.state /\ y.steps = x.steps /\ y.chunks = x.chunks + pend[s][k]
              /\ \A j \in Stream : j # k => y.text[j] = x.text[j]
              /\ TextOk(x.text[k], Out(s, k)) => TextOk(y.text[k], made[s][k])
    <3>1. PICK x \in ViewStrand : x = w.strands[s]
      BY <1>00
    <3>2. PICK y : y = Of(w, <<e>>, s)
      OBVIOUS
    <3>3. y = After(x, e)
      BY <2>4, <3>1, <3>2, OneAbout DEF Of
    <3>4. /\ y.state = x.state /\ y.steps = x.steps /\ y.chunks = x.chunks + pend[s][k]
          /\ y.text = [x.text EXCEPT ![k] = LastOf(Join(x.text[k], t), RingCap)]
      BY <2>4, <3>3
    <3>5. x.text \in [Stream -> Seq(Nat)]
      BY DEF ViewStrand
    <3>6. /\ y.text[k] = LastOf(Join(x.text[k], t), RingCap)
          /\ \A j \in Stream : j # k => y.text[j] = x.text[j]
      BY <3>4, <3>5
    <3>7. TextOk(x.text[k], Out(s, k)) => TextOk(LastOf(Join(x.text[k], t), RingCap), made[s][k])
      BY <1>0, <2>1, TextGrows
    <3>. QED
      BY <3>1, <3>2, <3>4, <3>6, <3>7
  <2>. QED
    BY <2>3, <2>5, <2>6
<1>. QED
  BY <1>0, <1>1, <1>2

LEMMA RetainedRead ==
  ASSUME RunType, NEW s \in Strand, NEW k \in Stream
  PROVE  /\ RetainedOf(s, k) \in About(s)
         /\ \A w \in ViewT : LET x == w.strands[s]
                                 y == Of(w, RetainedOf(s, k), s) IN
              x.text[k] = <<>> =>
              /\ y.state = x.state /\ y.steps = x.steps /\ y.chunks = x.chunks + made[s][k]
              /\ \A j \in Stream : j # k => y.text[j] = x.text[j]
              /\ TextOk(y.text[k], made[s][k])
<1>0. made[s][k] \in Nat
  BY CountsNat
<1>00. \A w \in ViewT : w.strands[s] \in ViewStrand
  BY DEF ViewT
<1>1. CASE made[s][k] = 0
  <2>1. RetainedOf(s, k) = <<>>
    BY <1>1 DEF RetainedOf
  <2>2. ASSUME NEW w \in ViewT PROVE Of(w, <<>>, s) = w.strands[s] /\ w.strands[s].chunks + 0 = w.strands[s].chunks
    <3>1. w.strands[s].chunks \in Nat
      BY <1>00 DEF ViewStrand
    <3>. QED
      BY <3>1, OfNil
  <2>3. TextOk(<<>>, 0)
    BY TextFresh
  <2>. QED
    BY <1>1, <2>1, <2>2, <2>3, NilAbouts
<1>2. CASE made[s][k] # 0
  <2>1. PICK t \in Seq(Nat) : t = Upto(made[s][k], TextCap)
    BY <1>0, UptoType, Caps
  <2>2. PICK e : e = [type |-> "delta", s |-> s, k |-> k, text |-> t, n |-> made[s][k]]
    OBVIOUS
  <2>3. RetainedOf(s, k) = <<e>>
    BY <1>2, <2>1, <2>2 DEF RetainedOf, Delta
  <2>4. /\ e \in AboutStrand /\ e.s = s
        /\ \A x \in ViewStrand : LET y == After(x, e) IN
              /\ y.state = x.state /\ y.steps = x.steps /\ y.chunks = x.chunks + made[s][k]
              /\ y.text = [x.text EXCEPT ![k] = LastOf(Join(x.text[k], t), RingCap)]
    BY <1>0, <2>2, DeltaIs DEF AboutStrand
  <2>5. <<e>> \in About(s)
    BY <2>4, OneAbout
  <2>6. ASSUME NEW w \in ViewT, w.strands[s].text[k] = <<>>
        PROVE LET x == w.strands[s]
                  y == Of(w, <<e>>, s) IN
              /\ y.state = x.state /\ y.steps = x.steps /\ y.chunks = x.chunks + made[s][k]
              /\ \A j \in Stream : j # k => y.text[j] = x.text[j]
              /\ TextOk(y.text[k], made[s][k])
    <3>1. PICK x \in ViewStrand : x = w.strands[s]
      BY <1>00
    <3>2. PICK y : y = Of(w, <<e>>, s)
      OBVIOUS
    <3>3. y = After(x, e)
      BY <2>4, <3>1, <3>2, OneAbout DEF Of
    <3>4. /\ y.state = x.state /\ y.steps = x.steps /\ y.chunks = x.chunks + made[s][k]
          /\ y.text = [x.text EXCEPT ![k] = LastOf(Join(x.text[k], t), RingCap)]
      BY <2>4, <3>3
    <3>5. x.text \in [Stream -> Seq(Nat)]
      BY DEF ViewStrand
    <3>6. /\ y.text[k] = LastOf(Join(x.text[k], t), RingCap)
          /\ \A j \in Stream : j # k => y.text[j] = x.text[j]
      BY <3>4, <3>5
    <3>7. x.text[k] = <<>>
      BY <2>6, <3>1
    <3>8. TextOk(LastOf(Join(<<>>, t), RingCap), made[s][k])
      BY <1>0, <2>1, TextFresh
    <3>. QED
      BY <3>1, <3>2, <3>4, <3>6, <3>7, <3>8
  <2>. QED
    BY <2>3, <2>5, <2>6
<1>. QED
  BY <1>0, <1>1, <1>2

LEMMA TwoStreams == Stream = {"reasoning", "text"} /\ "reasoning" # "text"
BY DEF Stream

LEMMA OfConcat ==
  ASSUME NEW s \in Strand, NEW a \in About(s), NEW b \in About(s), NEW w \in ViewT
  PROVE  /\ a \o b \in About(s) /\ Of(w, a \o b, s) = Of(Read(w, a), b, s)
         /\ Read(w, a) \in ViewT /\ Read(w, a).strands[s] = Of(w, a, s)
BY ConcatAbout, LocalRead DEF Of

\* What flush() sends of a strand brings a view up to all its chunks.
LEMMA FlushRead ==
  ASSUME RunType, NEW s \in Strand
  PROVE  /\ PendingOf(s, "reasoning") \o PendingOf(s, "text") \in About(s)
         /\ \A w \in ViewT : LET x == w.strands[s]
                                 y == Of(w, PendingOf(s, "reasoning") \o PendingOf(s, "text"), s) IN
              /\ y.state = x.state /\ y.steps = x.steps
              /\ Shown(x, OutOf(s)) => Shown(y, made[s])
<1>1. PICK a \in About(s), b \in About(s) : a = PendingOf(s, "reasoning") /\ b = PendingOf(s, "text")
  BY PendingRead, TwoStreams
<1>2. ASSUME NEW w \in ViewT
      PROVE  LET x == w.strands[s]
                 y == Of(w, a \o b, s) IN
              /\ y.state = x.state /\ y.steps = x.steps
              /\ Shown(x, OutOf(s)) => Shown(y, made[s])
  <2>1. PICK x \in ViewStrand : x = w.strands[s]
    BY DEF ViewT
  <2>2. PICK u \in ViewT : u = Read(w, a) /\ u.strands[s] = Of(w, a, s) /\ Of(w, a \o b, s) = Of(u, b, s)
    BY OfConcat
  <2>3. PICK z \in ViewStrand : z = u.strands[s]
    BY DEF ViewT
  <2>4. PICK y : y = Of(u, b, s)
    OBVIOUS
  <2>5. /\ z.state = x.state /\ z.steps = x.steps /\ z.chunks = x.chunks + pend[s]["reasoning"]
        /\ z.text["text"] = x.text["text"]
        /\ TextOk(x.text["reasoning"], Out(s, "reasoning")) => TextOk(z.text["reasoning"], made[s]["reasoning"])
    BY <1>1, <2>1, <2>2, <2>3, PendingRead, TwoStreams
  <2>6. /\ y.state = z.state /\ y.steps = z.steps /\ y.chunks = z.chunks + pend[s]["text"]
        /\ y.text["reasoning"] = z.text["reasoning"]
        /\ TextOk(z.text["text"], Out(s, "text")) => TextOk(y.text["text"], made[s]["text"])
    BY <1>1, <2>3, <2>4, PendingRead, TwoStreams
  <2>7. ASSUME Shown(x, OutOf(s)) PROVE Shown(y, made[s])
    <3>1. /\ TextOk(x.text["reasoning"], Out(s, "reasoning")) /\ TextOk(x.text["text"], Out(s, "text"))
          /\ x.chunks = Out(s, "reasoning") + Out(s, "text")
      BY <2>7, TwoStreams DEF Shown, OutOf, Chunks
    <3>2. /\ made[s]["reasoning"] \in Nat /\ pend[s]["reasoning"] \in Nat
          /\ Out(s, "reasoning") = made[s]["reasoning"] - pend[s]["reasoning"]
          /\ made[s]["text"] \in Nat /\ pend[s]["text"] \in Nat
          /\ Out(s, "text") = made[s]["text"] - pend[s]["text"]
      BY CountsNat, TwoStreams DEF Out
    <3>3. y.chunks = made[s]["reasoning"] + made[s]["text"]
      BY <2>5, <2>6, <3>1, <3>2
    <3>4. \A k \in Stream : TextOk(y.text[k], made[s][k])
      BY <2>5, <2>6, <3>1, TwoStreams
    <3>. QED
      BY <3>3, <3>4 DEF Shown, Chunks
  <2>. QED
    BY <2>1, <2>2, <2>4, <2>5, <2>6, <2>7
<1>. QED
  BY <1>1, <1>2, OfConcat, ConcatAbout

WaitingIdle == \A s \in Strand : state[s] = "waiting" => bearing[s] = 0 /\ \A k \in Stream : made[s][k] = 0

\* What subscribe() replays of a strand shows it as it is.
LEMMA ReplayRead ==
  ASSUME RunType, WaitingIdle, NEW s \in Strand
  PROVE  /\ StrandReplay(s) \in About(s)
         /\ \A w \in ViewT : w.strands[s] = BlankStrand =>
              LET y == Of(w, StrandReplay(s), s) IN
              /\ y.state = state[s] /\ Shown(y, made[s])
              /\ state[s] \in Ended => StepsExact(y, s)
<1>0. /\ BlankStrand \in ViewStrand /\ BlankStrand.state = "waiting" /\ BlankStrand.chunks = 0
      /\ \A k \in Stream : BlankStrand.text[k] = <<>>
  <2>1. BlankStrand \in ViewStrand
    BY BlankType
  <2>. QED
    BY <2>1 DEF BlankStrand
<1>1. CASE state[s] = "waiting"
  <2>1. StrandReplay(s) = <<>> /\ state[s] \notin Ended
    BY <1>1 DEF StrandReplay, Ended
  <2>2. Shown(BlankStrand, made[s])
    <3>1. \A k \in Stream : made[s][k] = 0
      BY <1>1 DEF WaitingIdle
    <3>2. Chunks(made[s]) = 0
      BY <3>1, TwoStreams DEF Chunks
    <3>. QED
      BY <1>0, <3>1, <3>2, TextFresh DEF Shown
  <2>. QED
    BY <1>0, <1>1, <2>1, <2>2, OfNil, NilAbouts
<1>2. CASE state[s] # "waiting"
  <2>1. PICK e : e = FullEvent(s, state[s])
    OBVIOUS
  <2>2. state[s] \in StrandState
    BY DEF RunType
  <2>3. e \in AboutStrand /\ e.s = s
    BY <2>1, <2>2, FullIs DEF AboutStrand
  <2>4. PICK a \in About(s), b \in About(s), c \in About(s) :
          a = <<e>> /\ b = RetainedOf(s, "reasoning") /\ c = RetainedOf(s, "text")
    BY <2>3, OneAbout, RetainedRead, TwoStreams
  <2>5. PICK ab \in About(s) : ab = a \o b
    BY <2>4, ConcatAbout
  <2>6. StrandReplay(s) = ab \o c
    BY <1>2, <2>1, <2>4, <2>5 DEF StrandReplay
  <2>7. ASSUME NEW w \in ViewT, w.strands[s] = BlankStrand
        PROVE  LET y == Of(w, ab \o c, s) IN
               /\ y.state = state[s] /\ Shown(y, made[s])
               /\ state[s] \in Ended => StepsExact(y, s)
    <3>1. PICK u \in ViewT : u = Read(w, a) /\ u.strands[s] = Of(w, a, s) /\ Of(w, ab, s) = Of(u, b, s)
      BY <2>5, OfConcat
    <3>2. PICK v \in ViewT : v = Read(w, ab) /\ v.strands[s] = Of(w, ab, s) /\ Of(w, ab \o c, s) = Of(v, c, s)
      BY OfConcat
    <3>3. PICK x, z, y : x \in ViewStrand /\ z \in ViewStrand /\ x = u.strands[s] /\ z = v.strands[s] /\ y = Of(v, c, s)
      BY DEF ViewT
    <3>4. x = After(BlankStrand, e)
      BY <2>3, <2>4, <2>7, <3>1, <3>3, OneAbout DEF Of
    <3>5. /\ x.state = state[s] /\ x.text = BlankStrand.text /\ x.chunks = 0
          /\ state[s] \in Ended => StepsExact(x, s)
      BY <1>0, <2>1, <2>2, <3>4, FullIs
    <3>6. x.text["reasoning"] = <<>> /\ x.text["text"] = <<>>
      BY <1>0, <3>5, TwoStreams
    <3>7. /\ z.state = x.state /\ z.steps = x.steps /\ z.chunks = x.chunks + made[s]["reasoning"]
          /\ z.text["text"] = x.text["text"]
          /\ TextOk(z.text["reasoning"], made[s]["reasoning"])
      BY <2>4, <3>1, <3>2, <3>3, <3>6, RetainedRead, TwoStreams
    <3>8. /\ y.state = z.state /\ y.steps = z.steps /\ y.chunks = z.chunks + made[s]["text"]
          /\ y.text["reasoning"] = z.text["reasoning"]
          /\ TextOk(y.text["text"], made[s]["text"])
      BY <2>4, <3>3, <3>6, <3>7, RetainedRead, TwoStreams
    <3>9. y.chunks = made[s]["reasoning"] + made[s]["text"]
      <4>1. made[s]["reasoning"] \in Nat /\ made[s]["text"] \in Nat
        BY CountsNat, TwoStreams
      <4>. QED
        BY <3>5, <3>7, <3>8, <4>1
    <3>10. Shown(y, made[s])
      BY <3>7, <3>8, <3>9, TwoStreams DEF Shown, Chunks
    <3>. QED
      BY <3>2, <3>3, <3>5, <3>7, <3>8, <3>10 DEF StepsExact
  <2>. QED
    BY <2>5, <2>6, <2>7, ConcatAbout
<1>. QED
  BY <1>1, <1>2

LEMMA TickRead ==
  ASSUME RunType, NEW s \in Strand
  PROVE  /\ TickOf(s) \in About(s)
         /\ \A w \in ViewT : LET x == w.strands[s]
                                 y == Of(w, TickOf(s), s) IN
              /\ y.text = x.text /\ y.chunks = x.chunks
              /\ state[s] = "decode" => y.state = "decode"
              /\ state[s] # "decode" => y = x
<1>00. \A w \in ViewT : w.strands[s] \in ViewStrand
  BY DEF ViewT
<1>1. CASE state[s] # "decode"
  BY <1>1, OfNil, NilAbouts DEF TickOf, Decoding
<1>2. CASE state[s] = "decode"
  <2>1. PICK e : e = LiveEvent(s) /\ e \in AboutStrand /\ e.s = s
    BY LiveIs DEF AboutStrand
  <2>2. TickOf(s) = <<e>> /\ <<e>> \in About(s)
    BY <1>2, <2>1, OneAbout DEF TickOf, Decoding
  <2>3. ASSUME NEW w \in ViewT PROVE Of(w, <<e>>, s) = After(w.strands[s], e)
    BY <2>1, OneAbout DEF Of
  <2>. QED
    BY <1>00, <1>2, <2>1, <2>2, <2>3, LiveIs
<1>. QED
  BY <1>1, <1>2

LEMMA CancelRead ==
  ASSUME RunType, NEW s \in Strand
  PROVE  /\ CancelOf(s) \in About(s)
         /\ \A w \in ViewT : LET x == w.strands[s]
                                 y == Of(w, CancelOf(s), s) IN
              /\ y.text = x.text /\ y.chunks = x.chunks
              /\ state[s] = "waiting" => y.state = "cancelled" /\ StepsExact(y, s)
              /\ state[s] # "waiting" => y = x
<1>00. \A w \in ViewT : w.strands[s] \in ViewStrand
  BY DEF ViewT
<1>1. CASE state[s] # "waiting"
  BY <1>1, OfNil, NilAbouts DEF CancelOf
<1>2. CASE state[s] = "waiting"
  <2>0. "cancelled" \in StrandState /\ "cancelled" \in Ended
    BY DEF StrandState, Ended
  <2>1. PICK e : e = FullEvent(s, "cancelled") /\ e \in AboutStrand /\ e.s = s
    BY <2>0, FullIs DEF AboutStrand
  <2>2. CancelOf(s) = <<e>> /\ <<e>> \in About(s)
    BY <1>2, <2>1, OneAbout DEF CancelOf
  <2>3. ASSUME NEW w \in ViewT PROVE Of(w, <<e>>, s) = After(w.strands[s], e)
    BY <2>1, OneAbout DEF Of
  <2>. QED
    BY <1>00, <1>2, <2>0, <2>1, <2>2, <2>3, FullIs
<1>. QED
  BY <1>1, <1>2

\* Lists that neither speak of a strand nor start over.
Others == {q \in Seq(Event) : \A i \in 1..Len(q) : q[i] \notin AboutStrand /\ q[i] # Hello}

LEMMA OthersRead ==
  ASSUME NEW q \in Others, NEW w \in ViewT
  PROVE  LET u == Read(w, q) IN
         /\ u \in ViewT /\ u.strands = w.strands /\ u.loaded = w.loaded /\ w.levels \subseteq u.levels
         /\ \A i \in 1..Len(q) : q[i].type = "level" => q[i].l \in u.levels
<1>0. PICK N \in Nat : N = Len(q)
  BY DEF Others
<1>1. q \in Seq(Event) /\ \A i \in 1..N : q[i] \in Event \ AboutStrand /\ q[i] # Hello
  <2>1. q \in Seq(Event)
    BY DEF Others
  <2>2. \A i \in 1..N : q[i] \in Event
    BY <1>0, <2>1
  <2>. QED
    BY <1>0, <2>1, <2>2 DEF Others
<1>2. PICK f : FoldsTo("read", f, w, q, N) /\ Read(w, q) = f[N]
  BY <1>0, <1>1, ReadSteps
<1>3. f[0] = w /\ \A n \in 1..N : f[n] = Reduce(f[n - 1], q[n])
  BY <1>2 DEF FoldsTo, Apply
<1>. DEFINE Kept(n) == /\ f[n] \in ViewT /\ f[n].strands = w.strands /\ f[n].loaded = w.loaded /\ w.levels \subseteq f[n].levels
                       /\ \A i \in 1..n : q[i].type = "level" => q[i].l \in f[n].levels
            T == {n \in 0..N : Kept(n)}
<1>4. 0 \in T
  BY <1>3
<1>5. ASSUME NEW n \in 0..(N - 1), n \in T PROVE n + 1 \in T
  <2>1. PICK k \in 1..N : k = n + 1 /\ k - 1 = n /\ k \in 0..N
    BY <1>0
  <2>2. PICK x \in ViewT : /\ x = f[n] /\ x.strands = w.strands /\ x.loaded = w.loaded /\ w.levels \subseteq x.levels
                           /\ \A i \in 1..n : q[i].type = "level" => q[i].l \in x.levels
    BY <1>5
  <2>3. PICK y : y = Reduce(x, q[k])
    OBVIOUS
  <2>4. OtherOf(y, x, q[k])
    BY <1>1, <2>3, OtherParts
  <2>5. /\ y \in ViewT /\ y.strands = w.strands /\ y.loaded = w.loaded /\ x.levels \subseteq y.levels
        /\ q[k].type = "level" => q[k].l \in y.levels
    BY <2>2, <2>4 DEF OtherOf
  <2>6. \A i \in 1..k : i = k \/ i \in 1..n
    BY <2>1
  <2>7. Kept(k)
    BY <1>3, <2>1, <2>2, <2>3, <2>5, <2>6
  <2>. HIDE DEF Kept
  <2>. QED
    BY <2>1, <2>7
<1>. HIDE DEF T
<1>6. N \in T
  <2>1. 0..N \subseteq T
    BY <1>4, <1>5, Upward
  <2>. QED
    BY <2>1
<1>. QED
  BY <1>0, <1>2, <1>6 DEF T

\* Nothing but a hello, or a snapshot, tells whether a view was loaded.
LEMMA LoadedKept ==
  ASSUME NEW q \in Seq(Event), \A i \in 1..Len(q) : q[i] # Hello, NEW w \in ViewT
  PROVE  Read(w, q) \in ViewT /\ Read(w, q).loaded = w.loaded
<1>0. PICK N \in Nat : N = Len(q)
  OBVIOUS
<1>1. \A i \in 1..N : q[i] \in Event /\ q[i] # Hello
  BY <1>0
<1>2. PICK f : FoldsTo("read", f, w, q, N) /\ Read(w, q) = f[N]
  BY <1>0, ReadSteps
<1>3. f[0] = w /\ \A n \in 1..N : f[n] = Reduce(f[n - 1], q[n])
  BY <1>2 DEF FoldsTo, Apply
<1>. DEFINE T == {n \in 0..N : f[n] \in ViewT /\ f[n].loaded = w.loaded}
<1>4. 0 \in T
  BY <1>3
<1>5. ASSUME NEW n \in 0..(N - 1), n \in T PROVE n + 1 \in T
  <2>1. PICK k \in 1..N : k = n + 1 /\ k - 1 = n /\ k \in 0..N
    BY <1>0
  <2>2. PICK x \in ViewT : x = f[n] /\ x.loaded = w.loaded
    BY <1>5
  <2>3. PICK y : y = Reduce(x, q[k])
    OBVIOUS
  <2>4. y \in ViewT /\ y.loaded = x.loaded
    <3>1. CASE q[k] \in AboutStrand
      <4>1. RestSame(y, x) /\ y \in ViewT
        BY <2>3, <3>1, AboutRest
      <4>. QED
        BY <4>1 DEF RestSame
    <3>2. CASE q[k] \notin AboutStrand
      <4>1. OtherOf(y, x, q[k])
        BY <1>1, <2>1, <2>3, <3>2, OtherParts
      <4>. QED
        BY <4>1 DEF OtherOf
    <3>. QED
      BY <3>1, <3>2
  <2>. QED
    BY <1>3, <2>1, <2>2, <2>3, <2>4
<1>. HIDE DEF T
<1>6. N \in T
  <2>1. 0..N \subseteq T
    BY <1>4, <1>5, Upward
  <2>. QED
    BY <2>1
<1>. QED
  BY <1>2, <1>6 DEF T

-----------------------------------------------------------------------------
(* What is sent, as a whole                                                 *)

LEMMA FlushAll ==
  ASSUME RunType
  PROVE  /\ FlushEvents \in Abouts
         /\ \A w \in ViewT : LET u == Read(w, FlushEvents) IN
              /\ u \in ViewT /\ RestSame(u, w)
              /\ \A s \in Strand : /\ u.strands[s].state = w.strands[s].state
                                   /\ u.strands[s].steps = w.strands[s].steps
                                   /\ Shown(w.strands[s], OutOf(s)) => Shown(u.strands[s], made[s])
<1>. DEFINE P(s) == PendingOf(s, "reasoning") \o PendingOf(s, "text")
            q == [i \in DOMAIN Strands |-> P(Strands[i])]
<1>1. \A i \in DOMAIN Strands : Strands[i] \in Strand
  BY StrandsAre
<1>2. \A s \in Strand : P(s) \in About(s)
  BY FlushRead
<1>3. FlushEvents = FlattenSeq(q)
  BY DEF FlushEvents
<1>4. q = [i \in DOMAIN Strands |-> q[i]] /\ \A i \in DOMAIN Strands : q[i] = P(Strands[i])
  OBVIOUS
<1>. HIDE DEF P, q
<1>5. \A i \in DOMAIN Strands : q[i] \in About(Strands[i])
  BY <1>1, <1>2, <1>4
<1>6. /\ FlattenSeq(q) \in Abouts
      /\ \A w \in ViewT : /\ Read(w, FlattenSeq(q)) \in ViewT /\ RestSame(Read(w, FlattenSeq(q)), w)
                          /\ \A i \in DOMAIN Strands :
                               Read(w, FlattenSeq(q)).strands[Strands[i]] = Read(w, q[i]).strands[Strands[i]]
  BY <1>4, <1>5, FlatRead
<1>7. ASSUME NEW w \in ViewT, NEW s \in Strand
      PROVE  LET x == w.strands[s]
                 y == Read(w, FlushEvents).strands[s] IN
             /\ y.state = x.state /\ y.steps = x.steps
             /\ Shown(x, OutOf(s)) => Shown(y, made[s])
  <2>1. PICK i \in DOMAIN Strands : Strands[i] = s
    BY StrandsAre
  <2>2. Read(w, FlushEvents).strands[s] = Of(w, P(s), s)
    BY <1>3, <1>4, <1>6, <2>1 DEF Of
  <2>. QED
    BY <2>2, FlushRead DEF P
<1>. QED
  BY <1>3, <1>6, <1>7

LEMMA CancelAll ==
  ASSUME RunType
  PROVE  /\ CancelEvents \in Abouts
         /\ \A w \in ViewT : LET u == Read(w, CancelEvents) IN
              /\ u \in ViewT /\ RestSame(u, w)
              /\ \A s \in Strand : LET x == w.strands[s]
                                       y == u.strands[s] IN
                   /\ y.text = x.text /\ y.chunks = x.chunks
                   /\ state[s] = "waiting" => y.state = "cancelled" /\ StepsExact(y, s)
                   /\ state[s] # "waiting" => y = x
<1>. DEFINE q == [i \in DOMAIN Strands |-> CancelOf(Strands[i])]
<1>1. \A i \in DOMAIN Strands : Strands[i] \in Strand
  BY StrandsAre
<1>2. \A s \in Strand : CancelOf(s) \in About(s)
  BY CancelRead
<1>3. CancelEvents = FlattenSeq(q)
  BY DEF CancelEvents
<1>4. q = [i \in DOMAIN Strands |-> q[i]] /\ \A i \in DOMAIN Strands : q[i] = CancelOf(Strands[i])
  OBVIOUS
<1>. HIDE DEF q
<1>5. \A i \in DOMAIN Strands : q[i] \in About(Strands[i])
  BY <1>1, <1>2, <1>4
<1>6. /\ FlattenSeq(q) \in Abouts
      /\ \A w \in ViewT : /\ Read(w, FlattenSeq(q)) \in ViewT /\ RestSame(Read(w, FlattenSeq(q)), w)
                          /\ \A i \in DOMAIN Strands :
                               Read(w, FlattenSeq(q)).strands[Strands[i]] = Read(w, q[i]).strands[Strands[i]]
  BY <1>4, <1>5, FlatRead
<1>7. ASSUME NEW w \in ViewT, NEW s \in Strand
      PROVE  LET x == w.strands[s]
                 y == Read(w, CancelEvents).strands[s] IN
                   /\ y.text = x.text /\ y.chunks = x.chunks
                   /\ state[s] = "waiting" => y.state = "cancelled" /\ StepsExact(y, s)
                   /\ state[s] # "waiting" => y = x
  <2>1. PICK i \in DOMAIN Strands : Strands[i] = s
    BY StrandsAre
  <2>2. Read(w, CancelEvents).strands[s] = Of(w, CancelOf(s), s)
    BY <1>3, <1>4, <1>6, <2>1 DEF Of
  <2>. QED
    BY <2>2, CancelRead
<1>. QED
  BY <1>3, <1>6, <1>7

TicksOnly == FlattenSeq([i \in DOMAIN Strands |-> TickOf(Strands[i])])

LEMMA TicksAll ==
  ASSUME RunType
  PROVE  /\ TicksOnly \in Abouts
         /\ \A w \in ViewT : LET u == Read(w, TicksOnly) IN
              /\ u \in ViewT /\ RestSame(u, w)
              /\ \A s \in Strand : LET x == w.strands[s]
                                       y == u.strands[s] IN
                   /\ y.text = x.text /\ y.chunks = x.chunks
                   /\ state[s] = "decode" => y.state = "decode"
                   /\ state[s] # "decode" => y = x
<1>. DEFINE q == [i \in DOMAIN Strands |-> TickOf(Strands[i])]
<1>1. \A i \in DOMAIN Strands : Strands[i] \in Strand
  BY StrandsAre
<1>2. \A s \in Strand : TickOf(s) \in About(s)
  BY TickRead
<1>3. TicksOnly = FlattenSeq(q)
  BY DEF TicksOnly
<1>4. q = [i \in DOMAIN Strands |-> q[i]] /\ \A i \in DOMAIN Strands : q[i] = TickOf(Strands[i])
  OBVIOUS
<1>. HIDE DEF q
<1>5. \A i \in DOMAIN Strands : q[i] \in About(Strands[i])
  BY <1>1, <1>2, <1>4
<1>6. /\ FlattenSeq(q) \in Abouts
      /\ \A w \in ViewT : /\ Read(w, FlattenSeq(q)) \in ViewT /\ RestSame(Read(w, FlattenSeq(q)), w)
                          /\ \A i \in DOMAIN Strands :
                               Read(w, FlattenSeq(q)).strands[Strands[i]] = Read(w, q[i]).strands[Strands[i]]
  BY <1>4, <1>5, FlatRead
<1>7. ASSUME NEW w \in ViewT, NEW s \in Strand
      PROVE  LET x == w.strands[s]
                 y == Read(w, TicksOnly).strands[s] IN
                   /\ y.text = x.text /\ y.chunks = x.chunks
                   /\ state[s] = "decode" => y.state = "decode"
                   /\ state[s] # "decode" => y = x
  <2>1. PICK i \in DOMAIN Strands : Strands[i] = s
    BY StrandsAre
  <2>2. Read(w, TicksOnly).strands[s] = Of(w, TickOf(s), s)
    BY <1>3, <1>4, <1>6, <2>1 DEF Of
  <2>. QED
    BY <2>2, TickRead
<1>. QED
  BY <1>3, <1>6, <1>7

Replays == FlattenSeq([i \in DOMAIN Strands |-> StrandReplay(Strands[i])])

LEMMA ReplaysAll ==
  ASSUME RunType, WaitingIdle
  PROVE  /\ Replays \in Abouts
         /\ \A w \in ViewT : LET u == Read(w, Replays) IN
              /\ u \in ViewT /\ RestSame(u, w)
              /\ \A s \in Strand : LET y == u.strands[s] IN w.strands[s] = BlankStrand =>
                   /\ y.state = state[s] /\ Shown(y, made[s])
                   /\ state[s] \in Ended => StepsExact(y, s)
<1>. DEFINE q == [i \in DOMAIN Strands |-> StrandReplay(Strands[i])]
<1>1. \A i \in DOMAIN Strands : Strands[i] \in Strand
  BY StrandsAre
<1>2. \A s \in Strand : StrandReplay(s) \in About(s)
  BY ReplayRead
<1>3. Replays = FlattenSeq(q)
  BY DEF Replays
<1>4. q = [i \in DOMAIN Strands |-> q[i]] /\ \A i \in DOMAIN Strands : q[i] = StrandReplay(Strands[i])
  OBVIOUS
<1>. HIDE DEF q
<1>5. \A i \in DOMAIN Strands : q[i] \in About(Strands[i])
  BY <1>1, <1>2, <1>4
<1>6. /\ FlattenSeq(q) \in Abouts
      /\ \A w \in ViewT : /\ Read(w, FlattenSeq(q)) \in ViewT /\ RestSame(Read(w, FlattenSeq(q)), w)
                          /\ \A i \in DOMAIN Strands :
                               Read(w, FlattenSeq(q)).strands[Strands[i]] = Read(w, q[i]).strands[Strands[i]]
  BY <1>4, <1>5, FlatRead
<1>7. ASSUME NEW w \in ViewT, NEW s \in Strand, w.strands[s] = BlankStrand
      PROVE  LET y == Read(w, Replays).strands[s] IN
                   /\ y.state = state[s] /\ Shown(y, made[s])
                   /\ state[s] \in Ended => StepsExact(y, s)
  <2>1. PICK i \in DOMAIN Strands : Strands[i] = s
    BY StrandsAre
  <2>2. Read(w, Replays).strands[s] = Of(w, StrandReplay(s), s)
    BY <1>3, <1>4, <1>6, <2>1 DEF Of
  <2>. QED
    BY <1>7, <2>2, ReplayRead
<1>. QED
  BY <1>3, <1>6, <1>7

LEMMA ConcatIs ==
  ASSUME NEW a \in Seq(Event), NEW b \in Seq(Event), NEW c, c = a \o b
  PROVE  /\ c \in Seq(Event) /\ Len(c) = Len(a) + Len(b) /\ Len(a) \in Nat /\ Len(b) \in Nat
         /\ \A i \in 1..Len(a) : c[i] = a[i]
         /\ \A i \in (Len(a) + 1)..(Len(a) + Len(b)) : c[i] = b[i - Len(a)]
OBVIOUS

LEMMA ConcatEach ==
  ASSUME NEW a \in Seq(Event), NEW b \in Seq(Event), NEW c, c = a \o b
  PROVE  /\ c \in Seq(Event)
         /\ \A i \in 1..Len(c) : \/ i \in 1..Len(a) /\ c[i] = a[i]
                                 \/ i - Len(a) \in 1..Len(b) /\ c[i] = b[i - Len(a)] /\ i > Len(a)
<1>1. PICK m \in Nat, n \in Nat : m = Len(a) /\ n = Len(b)
  OBVIOUS
<1>2. /\ c \in Seq(Event) /\ Len(c) = m + n
      /\ \A i \in 1..m : c[i] = a[i]
      /\ \A i \in (m + 1)..(m + n) : c[i] = b[i - m]
  BY <1>1, ConcatIs
<1>3. ASSUME NEW i \in 1..(m + n)
      PROVE  (i \in 1..m /\ c[i] = a[i]) \/ (i - m \in 1..n /\ c[i] = b[i - m] /\ i > m)
  <2>1. CASE i \in 1..m
    BY <1>2, <2>1
  <2>2. CASE i \notin 1..m
    <3>1. i \in (m + 1)..(m + n) /\ i - m \in 1..n /\ i > m
      BY <2>2
    <3>. QED
      BY <1>2, <3>1
  <2>. QED
    BY ONLY <2>1, <2>2
<1>4. \A i \in 1..Len(c) : i \in 1..(m + n)
  BY <1>2
<1>. QED
  BY ONLY <1>1, <1>2, <1>3, <1>4

\* What a run sends while it goes on, but the levels.
AggEvent == [type : {"agg"}, t : Nat]
Calm == {q \in Seq(Event) : \A i \in 1..Len(q) : q[i] \in AboutStrand \cup AggEvent}

LEMMA AboutsCalm == Abouts \subseteq Calm
BY DEF Abouts, Calm

LEMMA ConcatCalm ==
  ASSUME NEW a \in Calm, NEW b \in Calm
  PROVE  a \o b \in Calm /\ \A w : Read(w, a \o b) = Read(Read(w, a), b)
<1>1. a \in Seq(Event) /\ b \in Seq(Event)
  BY DEF Calm
<1>2. PICK c : c = a \o b
  OBVIOUS
<1>3. c \in Calm
  <2>1. c \in Seq(Event) /\ \A i \in 1..Len(c) : c[i] \in AboutStrand \cup AggEvent
    <3>1. /\ c \in Seq(Event)
          /\ \A i \in 1..Len(c) : \/ i \in 1..Len(a) /\ c[i] = a[i]
                                  \/ i - Len(a) \in 1..Len(b) /\ c[i] = b[i - Len(a)]
      BY <1>1, <1>2, ConcatEach
    <3>2. /\ \A i \in 1..Len(a) : a[i] \in AboutStrand \cup AggEvent
          /\ \A i \in 1..Len(b) : b[i] \in AboutStrand \cup AggEvent
      BY DEF Calm
    <3>. QED
      BY ONLY <3>1, <3>2
  <2>. QED
    BY <2>1 DEF Calm
<1>. QED
  BY <1>1, <1>2, <1>3, ReadConcat

LEMMA AggOther == AggEvent \subseteq Event \ AboutStrand /\ Hello \notin AggEvent /\ Done \notin AggEvent /\ Error \notin AggEvent
<1>1. AggEvent \subseteq Event
  BY DEF AggEvent, Event
<1>. QED
  BY <1>1, EventTypes DEF AggEvent, AboutStrand, Hello, Done, Error

LEMMA OneEvent ==
  ASSUME NEW e \in Event
  PROVE  <<e>> \in Seq(Event) /\ Len(<<e>>) = 1 /\ <<e>>[1] = e
OBVIOUS

LEMMA TickAll ==
  ASSUME RunType
  PROVE  /\ TickEvents \in Calm
         /\ \A w \in ViewT : LET u == Read(w, TickEvents) IN
              /\ u \in ViewT /\ u.levels = w.levels /\ u.loaded = w.loaded
              /\ \A s \in Strand : LET x == w.strands[s]
                                       y == u.strands[s] IN
                   /\ y.text = x.text /\ y.chunks = x.chunks
                   /\ state[s] = "decode" => y.state = "decode"
                   /\ state[s] # "decode" => y = x
<1>1. PICK e \in AggEvent : e = Agg(ticks + 1)
  <2>1. ticks + 1 \in Nat
    BY DEF RunType
  <2>. QED
    BY <2>1 DEF Agg, AggEvent
<1>2. e \in Event \ AboutStrand /\ e # Hello /\ e.type = "agg"
  BY AggOther DEF AggEvent
<1>3. PICK a \in Calm : a = <<e>>
  <2>1. PICK a : a = <<e>>
    OBVIOUS
  <2>2. a \in Seq(Event) /\ Len(a) = 1 /\ a[1] = e
    BY <1>2, <2>1, OneEvent
  <2>3. \A i \in 1..Len(a) : a[i] \in AboutStrand \cup AggEvent
    <3>1. \A i \in 1..1 : i = 1
      OBVIOUS
    <3>. QED
      BY <2>2, <3>1
  <2>4. a \in Calm
    BY ONLY <2>2, <2>3 DEF Calm
  <2>. QED
    BY <2>1, <2>4
<1>4. TicksOnly \in Calm
  BY TicksAll, AboutsCalm
<1>5. TickEvents = a \o TicksOnly
  BY <1>1, <1>3 DEF TickEvents, TicksOnly
<1>6. ASSUME NEW w \in ViewT
      PROVE  LET u == Read(w, TickEvents) IN
              /\ u \in ViewT /\ u.levels = w.levels /\ u.loaded = w.loaded
              /\ \A s \in Strand : LET x == w.strands[s]
                                       y == u.strands[s] IN
                   /\ y.text = x.text /\ y.chunks = x.chunks
                   /\ state[s] = "decode" => y.state = "decode"
                   /\ state[s] # "decode" => y = x
  <2>1. PICK v : v = Read(w, a)
    OBVIOUS
  <2>2. v = Reduce(w, e)
    BY <1>2, <1>3, <2>1, ReadOne
  <2>3. OtherOf(v, w, e)
    BY <1>2, <2>2, OtherParts
  <2>4. v \in ViewT /\ v.levels = w.levels /\ v.loaded = w.loaded /\ v.strands = w.strands
    BY <1>2, <2>3 DEF OtherOf
  <2>5. Read(w, TickEvents) = Read(v, TicksOnly)
    BY <1>4, <1>5, <2>1, ConcatCalm
  <2>. QED
    BY <2>4, <2>5, TicksAll DEF RestSame
<1>7. TickEvents \in Calm
  <2>1. a \o TicksOnly \in Calm
    BY <1>4, ConcatCalm
  <2>. QED
    BY ONLY <1>5, <2>1
<1>. QED
  BY <1>6, <1>7

LEMMA FlushCalm == ASSUME RunType PROVE FlushEvents \in Calm /\ CancelEvents \in Calm
BY FlushAll, CancelAll, AboutsCalm

\* What finish() sends before `done`.
LastEvents == CancelEvents \o FlushEvents \o TickEvents

LEMMA LastAll ==
  ASSUME RunType, \A s \in Strand : state[s] # "decode"
  PROVE  /\ LastEvents \in Calm
         /\ \A w \in ViewT : LET u == Read(w, LastEvents) IN
              /\ u \in ViewT /\ u.levels = w.levels /\ u.loaded = w.loaded
              /\ \A s \in Strand : LET x == w.strands[s]
                                       y == u.strands[s] IN
                   /\ Shown(x, OutOf(s)) => Shown(y, made[s])
                   /\ state[s] = "waiting" => y.state = "cancelled" /\ StepsExact(y, s)
                   /\ state[s] # "waiting" => y.state = x.state /\ y.steps = x.steps
<1>1. PICK a \in Calm, b \in Calm, c \in Calm : a = CancelEvents /\ b = FlushEvents /\ c = TickEvents
  BY FlushCalm, TickAll
<1>2. PICK ab \in Calm : ab = a \o b
  BY ConcatCalm
<1>3. LastEvents = ab \o c
  BY <1>1, <1>2 DEF LastEvents
<1>4. ASSUME NEW w \in ViewT
      PROVE  LET u == Read(w, ab \o c) IN
              /\ u \in ViewT /\ u.levels = w.levels /\ u.loaded = w.loaded
              /\ \A s \in Strand : LET x == w.strands[s]
                                       y == u.strands[s] IN
                   /\ Shown(x, OutOf(s)) => Shown(y, made[s])
                   /\ state[s] = "waiting" => y.state = "cancelled" /\ StepsExact(y, s)
                   /\ state[s] # "waiting" => y.state = x.state /\ y.steps = x.steps
  <2>1. PICK p : p = Read(w, a)
    OBVIOUS
  <2>2. PICK v : v = Read(p, b)
    OBVIOUS
  <2>3. PICK u : u = Read(v, c)
    OBVIOUS
  <2>4. Read(w, ab \o c) = u
    BY <1>2, <2>1, <2>2, <2>3, ConcatCalm
  <2>5. /\ p \in ViewT /\ RestSame(p, w)
        /\ \A s \in Strand : LET x == w.strands[s]
                                 y == p.strands[s] IN
                   /\ y.text = x.text /\ y.chunks = x.chunks
                   /\ state[s] = "waiting" => y.state = "cancelled" /\ StepsExact(y, s)
                   /\ state[s] # "waiting" => y = x
    BY <1>1, <2>1, CancelAll
  <2>6. /\ v \in ViewT /\ RestSame(v, p)
        /\ \A s \in Strand : /\ v.strands[s].state = p.strands[s].state
                             /\ v.strands[s].steps = p.strands[s].steps
                             /\ Shown(p.strands[s], OutOf(s)) => Shown(v.strands[s], made[s])
    BY <1>1, <2>2, <2>5, FlushAll
  <2>7. /\ u \in ViewT /\ u.levels = v.levels /\ u.loaded = v.loaded
        /\ \A s \in Strand : u.strands[s] = v.strands[s]
    BY <1>1, <2>3, <2>6, TickAll
  <2>8. u.levels = w.levels /\ u.loaded = w.loaded
    BY <2>5, <2>6, <2>7 DEF RestSame
  <2>9. ASSUME NEW s \in Strand
        PROVE LET x == w.strands[s]
                  y == u.strands[s] IN
                   /\ Shown(x, OutOf(s)) => Shown(y, made[s])
                   /\ state[s] = "waiting" => y.state = "cancelled" /\ StepsExact(y, s)
                   /\ state[s] # "waiting" => y.state = x.state /\ y.steps = x.steps
    <3>1. PICK x, y, z : x = w.strands[s] /\ y = p.strands[s] /\ z = v.strands[s] /\ z = u.strands[s]
      BY <2>7
    <3>2. /\ y.text = x.text /\ y.chunks = x.chunks
          /\ state[s] = "waiting" => y.state = "cancelled" /\ StepsExact(y, s)
          /\ state[s] # "waiting" => y = x
      BY <2>5, <3>1
    <3>3. /\ z.state = y.state /\ z.steps = y.steps
          /\ Shown(y, OutOf(s)) => Shown(z, made[s])
      BY <2>6, <3>1
    <3>4. Shown(x, OutOf(s)) => Shown(y, OutOf(s))
      BY <3>2 DEF Shown
    <3>5. StepsExact(y, s) => StepsExact(z, s)
      BY <3>3 DEF StepsExact
    <3>. QED
      BY <3>1, <3>2, <3>3, <3>4, <3>5
  <2>. QED
    BY <2>4, <2>7, <2>8, <2>9
<1>. QED
  BY <1>2, <1>3, <1>4, ConcatCalm

LevelEvent == [type : {"level"}, l : Nat]
\* What may be told of the run as it is.
Told == StrandEvent \cup AggEvent \cup {Hello} \cup {e \in LevelEvent : e.l \in 1..levels}
          \cup {e \in {Done} : status # "running"} \cup {e \in {Error} : status = "error"}
Body == AboutStrand \cup AggEvent \cup {e \in LevelEvent : e.l \in 1..levels}

LEMMA LevelOther == /\ LevelEvent \subseteq Event \ AboutStrand
                    /\ Hello \notin LevelEvent /\ Done \notin LevelEvent /\ Error \notin LevelEvent
<1>1. LevelEvent \subseteq Event
  BY DEF LevelEvent, Event
<1>. QED
  BY <1>1, EventTypes DEF LevelEvent, AboutStrand, Hello, Done, Error

LEMMA BodyIs == /\ Body \subseteq DeltaEvent \cup Told /\ Body \subseteq Event
                /\ Hello \notin Body /\ Done \notin Body /\ Error \notin Body
<1>1. Body \subseteq DeltaEvent \cup Told /\ Body \subseteq Event
  BY AggOther, LevelOther DEF Body, Told, AboutStrand, Event
<1>2. Hello \notin AboutStrand /\ Done \notin AboutStrand /\ Error \notin AboutStrand
  BY EventTypes DEF AboutStrand, Hello, Done, Error
<1>. QED
  BY <1>1, <1>2, AggOther, LevelOther DEF Body

Levels == [l \in 1..levels |-> Level(l)]

LEMMA LevelsRead ==
  ASSUME RunType
  PROVE  /\ Levels \in Others /\ \A i \in 1..Len(Levels) : Levels[i] \in Body
         /\ \A w \in ViewT : LET u == Read(w, Levels) IN
              u \in ViewT /\ u.strands = w.strands /\ u.loaded = w.loaded /\ 1..levels \subseteq u.levels
<1>1. levels \in Nat
  BY DEF RunType
<1>2. \A l \in 1..levels : /\ Level(l) \in LevelEvent /\ Level(l).l = l /\ Level(l).type = "level"
                           /\ Level(l) \in Event /\ Level(l) \notin AboutStrand /\ Level(l) # Hello
  <2>1. \A l \in 1..levels : Level(l) \in LevelEvent /\ Level(l).l = l /\ Level(l).type = "level"
    BY <1>1 DEF Level, LevelEvent
  <2>. QED
    BY <2>1, LevelOther
<1>3. Levels \in Seq(Event) /\ Len(Levels) = levels /\ \A i \in 1..levels : Levels[i] = Level(i)
  BY <1>1, <1>2 DEF Levels
<1>4. Levels \in Others
  BY <1>2, <1>3 DEF Others
<1>5. \A i \in 1..Len(Levels) : Levels[i] \in Body
  BY <1>2, <1>3 DEF Body
<1>6. ASSUME NEW w \in ViewT
      PROVE  LET u == Read(w, Levels) IN
              u \in ViewT /\ u.strands = w.strands /\ u.loaded = w.loaded /\ 1..levels \subseteq u.levels
  <2>1. PICK u : u = Read(w, Levels)
    OBVIOUS
  <2>2. /\ u \in ViewT /\ u.strands = w.strands /\ u.loaded = w.loaded
        /\ \A i \in 1..Len(Levels) : Levels[i].type = "level" => Levels[i].l \in u.levels
    BY <1>4, <2>1, OthersRead
  <2>3. \A i \in 1..levels : i \in u.levels
    BY <1>2, <1>3, <2>2
  <2>. QED
    BY <2>1, <2>2, <2>3
<1>. QED
  BY <1>4, <1>5, <1>6

LEMMA AggsAre ==
  ASSUME RunType
  PROVE  Aggs \in Others /\ \A i \in 1..Len(Aggs) : Aggs[i] \in Body
<1>1. PICK n \in Nat : n = Least(ticks, AggKeep) /\ n <= ticks
  BY LeastIs, Caps DEF RunType
<1>2. ticks \in Nat
  BY DEF RunType
<1>3. \A i \in 1..n : /\ Agg(ticks - n + i) \in AggEvent
                      /\ Agg(ticks - n + i) \in Event /\ Agg(ticks - n + i) \notin AboutStrand /\ Agg(ticks - n + i) # Hello
  <2>1. \A i \in 1..n : ticks - n + i \in Nat
    BY <1>1, <1>2
  <2>2. \A t \in Nat : Agg(t) \in AggEvent
    BY DEF Agg, AggEvent
  <2>. QED
    BY <2>1, <2>2, AggOther
<1>4. Aggs = [i \in 1..n |-> Agg(ticks - n + i)]
  BY <1>1 DEF Aggs
<1>5. PICK g : g = [i \in 1..n |-> Agg(ticks - n + i)]
  OBVIOUS
<1>6. g \in Seq(Event) /\ Len(g) = n /\ \A i \in 1..n : g[i] \in AggEvent /\ g[i] \notin AboutStrand /\ g[i] # Hello
  BY <1>3, <1>5
<1>. QED
  BY <1>4, <1>5, <1>6 DEF Others, Body

LEMMA EndingIs ==
  ASSUME RunType
  PROVE  /\ Ending \in Others
         /\ \A i \in 1..Len(Ending) : Ending[i] \in Told
         /\ \A i \in 1..Len(Ending) : Ending[i] = Done => i = Len(Ending)
         /\ status \in {"running", "error"} => \A i \in 1..Len(Ending) : Ending[i] = Done => i > 1 /\ Ending[i - 1] = Error
<1>1. CASE status = "running"
  <2>1. Ending = <<>>
    BY <1>1 DEF Ending
  <2>. QED
    BY <2>1, NilIs DEF Others
<1>2. CASE status = "error"
  <2>1. Ending = <<Error, Done>>
    BY <1>2 DEF Ending
  <2>2. Error \in Event \ AboutStrand /\ Done \in Event \ AboutStrand
    BY PlainEvents, EventTypes DEF AboutStrand, Error, Done
  <2>3. PICK q : q = <<Error, Done>>
    OBVIOUS
  <2>4. q \in Seq(Event) /\ Len(q) = 2 /\ q[1] = Error /\ q[2] = Done
    BY <2>2, <2>3
  <2>5. \A i \in 1..Len(q) : (i = 1 /\ q[i] = Error) \/ (i = 2 /\ q[i] = Done /\ i - 1 = 1)
    BY <2>4
  <2>6. Error \in Told /\ Done \in Told
    BY <1>2 DEF Told
  <2>7. q \in Others
    BY <2>2, <2>4, <2>5, PlainEvents DEF Others
  <2>8. /\ \A i \in 1..Len(q) : q[i] \in Told
        /\ \A i \in 1..Len(q) : q[i] = Done => i = Len(q)
        /\ \A i \in 1..Len(q) : q[i] = Done => i > 1 /\ q[i - 1] = Error
    BY <2>4, <2>5, <2>6, PlainEvents
  <2>. QED
    BY <2>1, <2>3, <2>7, <2>8
<1>3. CASE status \in {"done", "cancelled"}
  <2>1. Ending = <<Done>>
    BY <1>3 DEF Ending
  <2>2. Done \in Event \ AboutStrand
    BY PlainEvents, EventTypes DEF AboutStrand, Done
  <2>3. PICK q : q = <<Done>>
    OBVIOUS
  <2>4. q \in Seq(Event) /\ Len(q) = 1 /\ q[1] = Done
    BY <2>2, <2>3
  <2>5. \A i \in 1..Len(q) : i = 1
    BY <2>4
  <2>6. Done \in Told
    BY <1>3 DEF Told
  <2>7. q \in Others
    BY <2>2, <2>4, <2>5, PlainEvents DEF Others
  <2>. QED
    BY <1>3, <2>1, <2>3, <2>4, <2>5, <2>6, <2>7
<1>. QED
  BY <1>1, <1>2, <1>3 DEF RunType

Joins(c, a, b) == a \in Seq(Event) /\ b \in Seq(Event) /\ c = a \o b

LEMMA JoinRead ==
  ASSUME NEW a, NEW b, NEW c, Joins(c, a, b)
  PROVE  c \in Seq(Event) /\ \A w : Read(w, c) = Read(Read(w, a), b)
<1>1. c \in Seq(Event) /\ c = a \o b
  BY ConcatEach DEF Joins
<1>2. \A w : Read(w, a \o b) = Read(Read(w, a), b)
  BY ReadConcat DEF Joins
<1>. QED
  BY ONLY <1>1, <1>2

LEMMA JoinEach ==
  ASSUME NEW a, NEW b, NEW c, Joins(c, a, b)
  PROVE  \A i \in 1..Len(c) : \/ i \in 1..Len(a) /\ c[i] = a[i]
                              \/ i - Len(a) \in 1..Len(b) /\ c[i] = b[i - Len(a)]
BY ConcatEach DEF Joins

\* What subscribe() replays is the run as it is, after a hello, and tells its end last.
LEMMA ReplayAll ==
  ASSUME RunType, WaitingIdle
  PROVE  /\ Replay \in Seq(Event) /\ AllIn(Replay, Told)
         /\ \A i \in 1..Len(Replay) : Replay[i] = Hello => i = 1
         /\ \A i \in 1..Len(Replay) : Replay[i] = Done => i = Len(Replay)
         /\ status \in {"running", "error"} =>
              \A i \in 1..Len(Replay) : Replay[i] = Done => i > 1 /\ Replay[i - 1] = Error
         /\ \A w \in ViewT : LET u == Read(w, Replay) IN
              /\ u \in ViewT /\ ~u.loaded /\ 1..levels \subseteq u.levels
              /\ \A s \in Strand : LET y == u.strands[s] IN
                   /\ y.state = state[s] /\ Shown(y, made[s])
                   /\ state[s] \in Ended => StepsExact(y, s)
<1>1. PICK h, r, l, g, z : h = <<Hello>> /\ r = Replays /\ l = Levels /\ g = Aggs /\ z = Ending
  OBVIOUS
<1>2. h \in Seq(Event) /\ Len(h) = 1 /\ h[1] = Hello
  BY <1>1, OneEvent, PlainEvents
<1>3. r \in Seq(Event) /\ l \in Seq(Event) /\ g \in Seq(Event) /\ z \in Seq(Event) /\ l \in Others /\ g \in Others /\ z \in Others
  BY <1>1, ReplaysAll, LevelsRead, AggsAre, EndingIs DEF Abouts, Others
<1>4. PICK hr, hrl, pre, R : hr = h \o r /\ hrl = hr \o l /\ pre = hrl \o g /\ R = pre \o z
  OBVIOUS
<1>5. Joins(hr, h, r) /\ Joins(hrl, hr, l) /\ Joins(pre, hrl, g) /\ Joins(R, pre, z)
  <2>1. Joins(hr, h, r)
    BY ONLY <1>2, <1>3, <1>4 DEF Joins
  <2>2. Joins(hrl, hr, l)
    BY ONLY <2>1, <1>3, <1>4, JoinRead DEF Joins
  <2>3. Joins(pre, hrl, g)
    BY ONLY <2>2, <1>3, <1>4, JoinRead DEF Joins
  <2>4. Joins(R, pre, z)
    BY ONLY <2>3, <1>3, <1>4, JoinRead DEF Joins
  <2>. QED
    BY ONLY <2>1, <2>2, <2>3, <2>4
<1>6. Replay = R
  BY <1>1, <1>4 DEF Replay, Replays, Levels
<1>7. /\ hr \in Seq(Event) /\ hrl \in Seq(Event) /\ pre \in Seq(Event) /\ R \in Seq(Event)
      /\ \A w : Read(w, hr) = Read(Read(w, h), r)
      /\ \A w : Read(w, hrl) = Read(Read(w, hr), l)
      /\ \A w : Read(w, pre) = Read(Read(w, hrl), g)
      /\ \A w : Read(w, R) = Read(Read(w, pre), z)
  BY ONLY <1>5, JoinRead
<1>8. /\ \A i \in 1..Len(r) : r[i] \in Body
      /\ \A i \in 1..Len(l) : l[i] \in Body
      /\ \A i \in 1..Len(g) : g[i] \in Body
  BY <1>1, ReplaysAll, LevelsRead, AggsAre DEF Abouts, Body
<1>9. \A i \in 1..Len(hr) : hr[i] \in Body \/ (i = 1 /\ hr[i] = Hello)
  <2>1. \A i \in 1..Len(h) : i = 1
    BY <1>2
  <2>2. \A i \in 1..Len(hr) : (i \in 1..Len(h) /\ hr[i] = h[i]) \/ (i - Len(h) \in 1..Len(r) /\ hr[i] = r[i - Len(h)])
    BY ONLY <1>5, JoinEach
  <2>. QED
    BY ONLY <1>2, <1>8, <2>1, <2>2
<1>10. \A i \in 1..Len(hrl) : hrl[i] \in Body \/ (i = 1 /\ hrl[i] = Hello)
  <2>2. \A i \in 1..Len(hrl) : (i \in 1..Len(hr) /\ hrl[i] = hr[i]) \/ (i - Len(hr) \in 1..Len(l) /\ hrl[i] = l[i - Len(hr)])
    BY ONLY <1>5, JoinEach
  <2>. QED
    BY ONLY <1>8, <1>9, <2>2
<1>11. \A i \in 1..Len(pre) : pre[i] \in Body \/ (i = 1 /\ pre[i] = Hello)
  <2>2. \A i \in 1..Len(pre) : (i \in 1..Len(hrl) /\ pre[i] = hrl[i]) \/ (i - Len(hrl) \in 1..Len(g) /\ pre[i] = g[i - Len(hrl)])
    BY ONLY <1>5, JoinEach
  <2>. QED
    BY ONLY <1>8, <1>10, <2>2
<1>12. /\ \A i \in 1..Len(z) : z[i] \in Told /\ z[i] # Hello
       /\ \A i \in 1..Len(z) : z[i] = Done => i = Len(z)
       /\ status \in {"running", "error"} => \A i \in 1..Len(z) : z[i] = Done => i > 1 /\ z[i - 1] = Error
  BY <1>1, EndingIs DEF Others
<1>13. PICK m \in Nat, n \in Nat : m = Len(pre) /\ n = Len(z)
  BY <1>3, <1>7
<1>14. /\ Len(R) = m + n
       /\ \A i \in 1..m : R[i] = pre[i]
       /\ \A i \in (m + 1)..(m + n) : R[i] = z[i - m]
  BY <1>5, <1>13, ConcatIs DEF Joins
<1>15. ASSUME NEW i \in 1..(m + n)
       PROVE  \/ i \in 1..m /\ (R[i] \in Body \/ (i = 1 /\ R[i] = Hello))
              \/ i - m \in 1..n /\ i \in (m + 1)..(m + n) /\ R[i] = z[i - m] /\ R[i] \in Told /\ R[i] # Hello
  <2>1. CASE i \in 1..m
    BY <1>11, <1>13, <1>14, <2>1
  <2>2. CASE i \notin 1..m
    <3>1. i \in (m + 1)..(m + n) /\ i - m \in 1..n
      BY <2>2
    <3>. QED
      BY <1>12, <1>13, <1>14, <3>1
  <2>. QED
    BY ONLY <2>1, <2>2
<1>16. AllIn(R, Told)
  <2>1. Hello \in Told
    BY DEF Told
  <2>. QED
    BY <1>14, <1>15, <2>1, BodyIs DEF AllIn
<1>17. \A i \in 1..Len(R) : R[i] = Hello => i = 1
  BY <1>14, <1>15, BodyIs
<1>18. ASSUME NEW i \in 1..(m + n), R[i] = Done
       PROVE  /\ i = m + n
              /\ status \in {"running", "error"} => i > 1 /\ R[i - 1] = Error
  <2>1. i - m \in 1..n /\ i \in (m + 1)..(m + n) /\ z[i - m] = Done
    BY <1>15, <1>18, BodyIs, PlainEvents
  <2>2. PICK j \in 1..n : j = i - m /\ z[j] = Done
    BY <2>1
  <2>3. j = n
    BY <1>12, <1>13, <2>2
  <2>4. ASSUME status \in {"running", "error"} PROVE i > 1 /\ R[i - 1] = Error
    <3>1. j > 1 /\ z[j - 1] = Error
      BY <1>12, <1>13, <2>2, <2>4
    <3>2. i - 1 \in (m + 1)..(m + n) /\ (i - 1) - m = j - 1 /\ i > 1
      BY <2>2, <3>1
    <3>. QED
      BY <1>14, <3>1, <3>2
  <2>. QED
    BY <2>2, <2>3, <2>4
<1>19. ASSUME NEW w \in ViewT
       PROVE LET u == Read(w, R) IN
              /\ u \in ViewT /\ ~u.loaded /\ 1..levels \subseteq u.levels
              /\ \A s \in Strand : LET y == u.strands[s] IN
                   /\ y.state = state[s] /\ Shown(y, made[s])
                   /\ state[s] \in Ended => StepsExact(y, s)
  <2>1. PICK a, b, c, d, u : a = Read(w, h) /\ b = Read(a, r) /\ c = Read(b, l) /\ d = Read(c, g) /\ u = Read(d, z)
    OBVIOUS
  <2>2. Read(w, R) = u
    BY ONLY <1>7, <2>1
  <2>3. a = Reduce(w, Hello)
    BY <1>1, <2>1, ReadOne, PlainEvents
  <2>4. a \in ViewT /\ a.strands = [s \in Strand |-> BlankStrand] /\ ~a.loaded
    <3>1. a \in ViewT
      BY <2>3, ReduceHello
    <3>2. a = [w EXCEPT !.strands = [s \in Strand |-> BlankStrand], !.loaded = FALSE]
      BY <2>3, ReduceHello
    <3>3. {"strands", "loaded"} \subseteq DOMAIN w
      BY DEF ViewT
    <3>. QED
      BY <3>1, <3>2, <3>3
  <2>5. /\ b \in ViewT /\ RestSame(b, a)
        /\ \A s \in Strand : LET y == b.strands[s] IN a.strands[s] = BlankStrand =>
              /\ y.state = state[s] /\ Shown(y, made[s])
              /\ state[s] \in Ended => StepsExact(y, s)
    BY <1>1, <2>1, <2>4, ReplaysAll
  <2>6. c \in ViewT /\ c.strands = b.strands /\ c.loaded = b.loaded /\ 1..levels \subseteq c.levels
    BY <1>1, <2>1, <2>5, LevelsRead
  <2>7. d \in ViewT /\ d.strands = c.strands /\ d.loaded = c.loaded /\ c.levels \subseteq d.levels
    BY <1>3, <2>1, <2>6, OthersRead
  <2>8. u \in ViewT /\ u.strands = d.strands /\ u.loaded = d.loaded /\ d.levels \subseteq u.levels
    BY <1>3, <2>1, <2>7, OthersRead
  <2>9. ~u.loaded /\ 1..levels \subseteq u.levels /\ u.strands = b.strands
    BY <2>4, <2>5, <2>6, <2>7, <2>8 DEF RestSame
  <2>10. \A s \in Strand : a.strands[s] = BlankStrand
    BY <2>4
  <2>. QED
    BY <2>2, <2>5, <2>8, <2>9, <2>10
<1>. QED
  BY <1>6, <1>7, <1>14, <1>16, <1>17, <1>18, <1>19

-----------------------------------------------------------------------------
(* The inductive invariant.                                                 *)

RunOk ==
  /\ RunType /\ WaitingIdle
  /\ status # "running" => Quiet
  /\ status \in {"done", "cancelled"} => \A s \in Strand : state[s] \in Ended /\ OutOf(s) = made[s]

\* The views that show the run as it is, but for what is still in s.pending.
Right(c) ==
  /\ ~c.loaded /\ 1..levels \subseteq c.levels
  /\ \A s \in Strand : /\ c.strands[s].state = state[s]
                       /\ Shown(c.strands[s], OutOf(s))
                       /\ state[s] \in Ended => StepsExact(c.strands[s], s)
Rights == {c \in ViewT : Right(c)}

SubType == [queue : Seq(Event), closed : BOOLEAN, attached : BOOLEAN]
ViewersOk ==
  /\ sub \in [Viewer -> SubType]
  /\ conn \in [Viewer -> {"off", "open", "over"}]
  /\ snap \in [Viewer -> {"none", "asked", "read"}]
  /\ answer \in [Viewer -> ViewT] /\ view \in [Viewer -> ViewT]

\* What a view tells of the end of the run, and of its levels, is true.
TrueView(c) ==
  /\ c.done => status # "running"
  /\ c.error => status = "error"
  /\ c.levels \subseteq 1..levels

HasHello(q) == \E i \in 1..Len(q) : q[i] = Hello
\* What the queue is read upon: anything, if it begins with a hello.
Bases(w, q) == {c \in ViewT : HasHello(q) \/ (~w.loaded /\ c = w)}

QueueTold(v) ==
  /\ SubOk(sub[v]) /\ AllIn(sub[v].queue, Told)
  /\ conn[v] # "open" => sub[v] = NoSub
  /\ IF status \in {"done", "cancelled"} THEN EndsWell(sub[v].queue) ELSE Covered(sub[v].queue)
  /\ Following(v) /\ ~sub[v].attached => status # "running" /\ \A s \in Strand : OutOf(s) = made[s]
ViewTold(v) ==
  /\ TrueView(view[v]) /\ TrueView(answer[v])
  /\ snap[v] = "read" => answer[v].loaded
CaughtUp(v) ==
  Following(v) => \A c \in Bases(view[v], sub[v].queue) : Read(c, sub[v].queue) \in Rights
AllShown(v) ==
  conn[v] = "over" /\ ~view[v].error /\ ~view[v].loaded =>
    status \in {"done", "cancelled"} /\ view[v] \in Rights

ViewerOk(v) == QueueTold(v) /\ ViewTold(v) /\ CaughtUp(v) /\ AllShown(v)
IInv == RunOk /\ ViewersOk /\ \A v \in Viewer : ViewerOk(v)

-----------------------------------------------------------------------------
(* What the invariant gives                                                *)

LEMMA PushNil == \A b : PushAll(b, <<>>) = b
<1>. TAKE b
<1>1. PICK f : FoldsTo("push", f, b, <<>>, 0) /\ PushAll(b, <<>>) = f[0]
  BY NilIs, PushSteps
<1>. QED
  BY <1>1 DEF FoldsTo

\* Nothing is sent of a run whose pending is flushed.
LEMMA FlushNil ==
  ASSUME RunType, \A s \in Strand : OutOf(s) = made[s]
  PROVE  FlushEvents = <<>>
<1>. DEFINE q == [i \in DOMAIN Strands |-> PendingOf(Strands[i], "reasoning") \o PendingOf(Strands[i], "text")]
<1>1. PICK N \in Nat : Len(Strands) = N /\ DOMAIN Strands = 1..N /\ Strands \in [1..N -> Strand]
  BY StrandsAre
<1>2. \A s \in Strand : \A k \in Stream : PendingOf(s, k) = <<>>
  <2>. SUFFICES ASSUME NEW s \in Strand, NEW k \in Stream PROVE pend[s][k] = 0
    BY DEF PendingOf
  <2>1. Out(s, k) = made[s][k]
    BY CountsNat
  <2>. QED
    BY <2>1, CountsNat
<1>3. q = [i \in 1..N |-> <<>>]
  <2>1. <<>> \o <<>> = <<>>
    OBVIOUS
  <2>2. \A i \in 1..N : PendingOf(Strands[i], "reasoning") = <<>> /\ PendingOf(Strands[i], "text") = <<>>
    BY <1>1, <1>2, TwoStreams
  <2>. QED
    BY <1>1, <2>1, <2>2
<1>4. PICK p : p = [i \in 1..N |-> <<>>]
  OBVIOUS
<1>5. PICK f : f = [i \in 0..N |-> <<>>]
  OBVIOUS
<1>6. FlatTo(f, p, N)
  <2>1. <<>> = <<>> \o <<>>
    OBVIOUS
  <2>2. f[0] = <<>> /\ \A i \in 1..N : f[i] = <<>> /\ f[i - 1] = <<>> /\ p[i] = <<>>
    BY <1>4, <1>5
  <2>. QED
    BY <1>5, <2>1, <2>2 DEF FlatTo
<1>7. <<>> \in Abouts
  BY NilAbouts
<1>8. Len(p) = N /\ p = [i \in 1..N |-> p[i]] /\ (\A i \in 1..N : p[i] \in Abouts) /\ \A i \in 0..N : f[i] \in Abouts
  BY <1>4, <1>5, <1>7
<1>9. FlattenSeq(p) = f[N]
  BY <1>6, <1>8, FlattenIs
<1>. QED
  BY <1>3, <1>4, <1>5, <1>9 DEF FlushEvents

\* A hello in the queue of a subscriber was there before what is now sent.
LEMMA NoNewHello ==
  ASSUME NEW b, SubOk(b), NEW evs \in Seq(Event), \A i \in 1..Len(evs) : evs[i] # Hello, NEW c, c = PushAll(b, evs)
  PROVE  HasHello(c.queue) => HasHello(b.queue)
<1>. SUFFICES ASSUME ~HasHello(b.queue) PROVE ~HasHello(c.queue)
  OBVIOUS
<1>1. b.queue \in Seq(Event)
  BY DEF SubOk, QueueOk
<1>2. PICK G : G = Event \ {Hello}
  OBVIOUS
<1>3. AllIn(b.queue, G) /\ AllIn(evs, G)
  BY <1>1, <1>2 DEF AllIn, HasHello
<1>4. AllIn(c.queue, G)
  BY <1>3, PushManyIn
<1>. QED
  BY <1>2, <1>4, PlainEvents DEF AllIn, HasHello

\* Reading the queue of a follower shows the run as it is.
LEMMA ShownRight ==
  ASSUME NEW v \in Viewer, IInv, Following(v), NEW c, c = Caught(v), ~c.loaded
  PROVE  c \in Rights
<1>1. PICK w \in ViewT : w = view[v]
  BY DEF IInv, ViewersOk
<1>2. PICK q \in Seq(Event) : q = sub[v].queue
  BY DEF IInv, ViewerOk, QueueTold, SubOk, QueueOk
<1>3. c = Read(w, q)
  BY <1>1, <1>2 DEF Caught, Read
<1>4. HasHello(q) \/ ~w.loaded
  BY <1>3, LoadedKept DEF HasHello
<1>5. w \in Bases(w, q)
  BY <1>4 DEF Bases
<1>. QED
  BY <1>1, <1>2, <1>3, <1>5 DEF IInv, ViewerOk, CaughtUp

-----------------------------------------------------------------------------
(* What is sent to a viewer                                                *)

Same(v) == conn'[v] = conn[v] /\ view'[v] = view[v] /\ answer'[v] = answer[v] /\ snap'[v] = snap[v]
NoHello(q) == \A i \in 1..Len(q) : q[i] # Hello

\* A follower that is sent what the run did next still is caught up.
LEMMA EmitCaught ==
  ASSUME IInv, NEW v \in Viewer, NEW evs \in Seq(Event), NoHello(evs), Same(v),
         sub'[v] = PushAll(sub[v], evs), \A c \in Rights : Read(c, evs) \in Rights'
  PROVE  CaughtUp(v)'
<1>. SUFFICES ASSUME Following(v)' PROVE \A x \in Bases(view'[v], sub'[v].queue) : Read(x, sub'[v].queue) \in Rights'
  BY DEF CaughtUp
<1>1. PICK b : b = sub[v] /\ SubOk(b)
  BY DEF IInv, ViewerOk, QueueTold
<1>2. PICK c : c = PushAll(b, evs) /\ c = sub'[v]
  BY <1>1
<1>3. ~c.closed /\ conn[v] = "open"
  BY <1>2 DEF Following, Same
<1>4. ~b.closed /\ \A w \in ViewT : Read(w, c.queue) = Read(Read(w, b.queue), evs)
  BY <1>1, <1>2, <1>3, PushMany DEF NoHello
<1>5. HasHello(c.queue) => HasHello(b.queue)
  BY <1>1, <1>2, NoNewHello DEF NoHello
<1>6. TAKE x \in Bases(view'[v], sub'[v].queue)
<1>7. x \in ViewT /\ x \in Bases(view[v], b.queue)
  BY <1>2, <1>5 DEF Bases, Same
<1>8. Following(v)
  BY <1>1, <1>3, <1>4 DEF Following
<1>9. Read(x, b.queue) \in Rights
  BY <1>1, <1>7, <1>8 DEF IInv, ViewerOk, CaughtUp
<1>. QED
  BY <1>2, <1>4, <1>7, <1>9

LEMMA ToldGrows ==
  ASSUME RunType, RunType', levels <= levels', status = "running" \/ status' = status
  PROVE  Told \subseteq Told'
BY DEF Told, RunType

\* What is sent of a running run.
LEMMA EmitRunning ==
  ASSUME IInv, status = "running", RunType', levels <= levels',
         NEW v \in Viewer, NEW evs \in Seq(Event), NoHello(evs), AllIn(evs, Told'), Same(v),
         \A i \in 1..Len(evs) : evs[i] = Done => i = Len(evs),
         status' \in {"running", "error"} => \A i \in 1..Len(evs) : evs[i] = Done => i > 1 /\ evs[i - 1] = Error,
         \A c \in Rights : Read(c, evs) \in Rights',
         sub'[v] = IF sub[v].attached THEN PushAll(sub[v], evs) ELSE sub[v]
  PROVE  ViewerOk(v)'
<1>0. RunType
  BY DEF IInv, RunOk
<1>1. QueueTold(v) /\ ViewTold(v) /\ AllShown(v)
  BY DEF IInv, ViewerOk
<1>2. Told \subseteq Told'
  BY <1>0, ToldGrows
<1>3. ViewTold(v)'
  <2>1. \A c : TrueView(c) => TrueView(c)'
    BY <1>0 DEF TrueView, RunType
  <2>. QED
    BY <1>1, <2>1 DEF ViewTold, Same
<1>4. AllShown(v)'
  <2>1. conn[v] = "over" => view[v].error \/ view[v].loaded
    BY <1>1 DEF AllShown
  <2>. QED
    BY <2>1 DEF AllShown, Same
<1>5. CASE sub[v].attached
  <2>1. sub'[v] = PushAll(sub[v], evs)
    BY <1>5
  <2>2. CaughtUp(v)'
    BY <2>1, EmitCaught
  <2>3. PICK b, c : b = sub[v] /\ c = PushAll(b, evs) /\ c = sub'[v] /\ b.attached
    BY <1>5, <2>1
  <2>4. SubOk(b) /\ Covered(b.queue) /\ AllIn(b.queue, Told)
    BY <1>1, <2>3 DEF QueueTold
  <2>5. SubOk(c) /\ c.attached
    BY <2>3, <2>4, PushMany DEF NoHello
  <2>6. PICK G : G = Told'
    OBVIOUS
  <2>7. AllIn(b.queue, G) /\ AllIn(evs, G)
    BY <1>2, <2>4, <2>6 DEF AllIn
  <2>8. AllIn(c.queue, G)
    BY <2>3, <2>4, <2>7, PushManyIn DEF NoHello
  <2>9. EndsWell(c.queue) /\ (status' \in {"running", "error"} => Covered(c.queue))
    BY <2>3, <2>4, PushManyCovered DEF NoHello
  <2>10. conn[v] = "open"
    BY <1>1, <1>5 DEF QueueTold, NoSub
  <2>11. QueueTold(v)'
    BY <2>3, <2>5, <2>6, <2>8, <2>9, <2>10 DEF QueueTold, Same, RunType
  <2>. QED
    BY <1>3, <1>4, <2>2, <2>11 DEF ViewerOk
<1>6. CASE ~sub[v].attached
  <2>1. sub'[v] = sub[v] /\ ~Following(v)
    BY <1>1, <1>6 DEF QueueTold
  <2>2. ~Following(v)'
    BY <2>1 DEF Following, Same
  <2>3. PICK b : b = sub[v] /\ b = sub'[v] /\ SubOk(b)
    BY <1>1, <2>1 DEF QueueTold
  <2>4. b.closed
    BY <1>1, <2>1, <2>3 DEF QueueTold, Following, NoSub
  <2>5. b.queue = <<>>
    BY <2>3, <2>4 DEF SubOk
  <2>6. Len(b.queue) = 0
    BY <2>5
  <2>7. EndsWell(b.queue) /\ Covered(b.queue) /\ AllIn(b.queue, Told')
    BY <2>6 DEF EndsWell, Covered, AllIn
  <2>8. QueueTold(v)'
    BY <1>1, <2>2, <2>3, <2>7 DEF QueueTold, Same
  <2>. QED
    BY <1>3, <1>4, <2>2, <2>8 DEF ViewerOk, CaughtUp
<1>. QED
  BY <1>5, <1>6

\* What is still sent of a run that has ended: what was pending when it failed.
LEMMA EmitEnded ==
  ASSUME IInv, status # "running", status' = status, levels' = levels, RunType',
         \A s \in Strand : OutOf(s)' = made[s]', \A s \in Strand : OutOf(s) = made[s] => OutOf(s)' = OutOf(s),
         UNCHANGED <<state, bearing>>,
         NEW v \in Viewer, NEW evs \in Seq(Event), Same(v),
         \A i \in 1..Len(evs) : evs[i] \in AboutStrand,
         status \in {"done", "cancelled"} => evs = <<>>,
         \A c \in Rights : Read(c, evs) \in Rights',
         sub'[v] = IF sub[v].attached THEN PushAll(sub[v], evs) ELSE sub[v]
  PROVE  ViewerOk(v)'
<1>0. RunType
  BY DEF IInv, RunOk
<1>1. QueueTold(v) /\ ViewTold(v) /\ AllShown(v) /\ CaughtUp(v)
  BY DEF IInv, ViewerOk
<1>2. Told' = Told
  BY DEF Told
<1>3. ViewTold(v)'
  BY <1>1 DEF ViewTold, TrueView, Same
<1>4. \A s \in Strand : StepsTotal(s)' = StepsTotal(s)
  BY DEF StepsTotal
<1>5. (\A s \in Strand : OutOf(s) = made[s]) => Rights' = Rights
  <2>. SUFFICES ASSUME \A s \in Strand : OutOf(s) = made[s] PROVE Rights' = Rights
    OBVIOUS
  <2>1. \A s \in Strand : OutOf(s)' = OutOf(s)
    OBVIOUS
  <2>2. ASSUME NEW c PROVE Right(c)' <=> Right(c)
    BY <1>4, <2>1 DEF Right, StepsExact
  <2>. QED
    BY <2>2 DEF Rights
<1>6. AllShown(v)'
  <2>1. status \in {"done", "cancelled"} => Rights' = Rights
    BY <1>5 DEF IInv, RunOk
  <2>. QED
    BY <1>1, <2>1 DEF AllShown, Same
<1>7. NoHello(evs) /\ \A i \in 1..Len(evs) : evs[i] # Done
  BY EventTypes DEF NoHello, AboutStrand, Hello, Done
<1>8. CASE sub[v].attached
  <2>1. sub'[v] = PushAll(sub[v], evs)
    BY <1>8
  <2>2. CaughtUp(v)'
    BY <1>7, <2>1, EmitCaught
  <2>3. PICK b, c : b = sub[v] /\ c = PushAll(b, evs) /\ c = sub'[v] /\ b.attached
    BY <1>8, <2>1
  <2>4. SubOk(b) /\ AllIn(b.queue, Told)
    BY <1>1, <2>3 DEF QueueTold
  <2>5. SubOk(c) /\ c.attached
    BY <1>7, <2>3, <2>4, PushMany DEF NoHello
  <2>6. PICK G : G = Told
    OBVIOUS
  <2>7. AllIn(b.queue, G) /\ AllIn(evs, G)
    <3>1. AboutStrand \subseteq DeltaEvent \cup Told
      BY DEF AboutStrand, Told
    <3>. QED
      BY <3>1, <2>4, <2>6 DEF AllIn
  <2>8. AllIn(c.queue, G)
    BY <1>7, <2>3, <2>4, <2>7, PushManyIn DEF NoHello
  <2>9. IF status \in {"done", "cancelled"} THEN EndsWell(c.queue) ELSE Covered(c.queue)
    <3>1. CASE status \in {"done", "cancelled"}
      <4>1. c = b
        BY <2>3, <3>1, PushNil
      <4>. QED
        BY <1>1, <2>3, <3>1, <4>1 DEF QueueTold
    <3>2. CASE status \notin {"done", "cancelled"}
      <4>1. Covered(b.queue)
        BY <1>1, <2>3, <3>2 DEF QueueTold
      <4>. QED
        BY <1>7, <2>3, <2>4, <3>2, <4>1, PushManyCovered DEF NoHello
    <3>. QED
      BY <3>1, <3>2
  <2>10. conn[v] = "open"
    BY <1>1, <1>8 DEF QueueTold, NoSub
  <2>11. QueueTold(v)'
    BY <1>2, <2>3, <2>5, <2>6, <2>8, <2>9, <2>10 DEF QueueTold, Same
  <2>. QED
    BY <1>3, <1>6, <2>2, <2>11 DEF ViewerOk
<1>9. CASE ~sub[v].attached
  <2>1. sub'[v] = sub[v]
    BY <1>9
  <2>2. Following(v)' <=> Following(v)
    BY <2>1 DEF Following, Same
  <2>3. CaughtUp(v)'
    <3>1. Following(v) => Rights' = Rights
      BY <1>1, <1>5, <1>9 DEF QueueTold
    <3>. QED
      BY <1>1, <2>1, <2>2, <3>1 DEF CaughtUp, Same
  <2>4. QueueTold(v)'
    BY <1>1, <1>2, <2>1, <2>2 DEF QueueTold, Same
  <2>. QED
    BY <1>3, <1>6, <2>3, <2>4 DEF ViewerOk
<1>. QED
  BY <1>8, <1>9

\* A subscriber that was told nothing yet is told the whole run.
LEMMA ReplayedOk ==
  ASSUME IInv, RunOk', NEW v \in Viewer, \A s \in Strand : OutOf(s)' = made[s]', UNCHANGED <<state, made, bearing, runVars>>,
         view'[v] = view[v], answer'[v] = answer[v], snap'[v] = snap[v], conn'[v] = "open",
         sub'[v] = PushAll([NewSub EXCEPT !.attached = status = "running"], Replay)
  PROVE  ViewerOk(v)'
<1>0. RunType /\ WaitingIdle
  BY DEF IInv, RunOk
<1>1. ViewTold(v) /\ Told' = Told
  BY DEF IInv, ViewerOk, runVars, Told
<1>2. ViewTold(v)' /\ AllShown(v)'
  BY <1>1 DEF ViewTold, TrueView, AllShown, runVars
<1>3. PICK evs \in Seq(Event) : evs = Replay
  BY <1>0, ReplayAll
<1>4. PICK b : b = [NewSub EXCEPT !.attached = status = "running"]
  OBVIOUS
<1>5. b = [queue |-> <<>>, closed |-> FALSE, attached |-> (status = "running")]
  BY <1>4 DEF NewSub
<1>6. b.queue = <<>> /\ ~b.closed /\ SubOk(b) /\ (b.attached <=> status = "running")
  <2>1. QueueOk(<<>>)
    BY NilIs DEF QueueOk
  <2>. QED
    BY <1>5, <2>1, NilIs DEF SubOk
<1>7. /\ AllIn(evs, Told) /\ \A i \in 1..Len(evs) : evs[i] = Hello => i = 1 /\ b.queue = <<>>
      /\ \A i \in 1..Len(evs) : evs[i] = Done => i = Len(evs)
      /\ status \in {"running", "error"} => \A i \in 1..Len(evs) : evs[i] = Done => i > 1 /\ evs[i - 1] = Error
  BY <1>0, <1>3, <1>6, ReplayAll
<1>8. PICK c : c = PushAll(b, evs) /\ c = sub'[v]
  BY <1>3, <1>4
<1>9. SubOk(c) /\ (c.attached <=> status = "running")
      /\ (~c.closed => \A w \in ViewT : Read(w, c.queue) = Read(Read(w, b.queue), evs))
  <2>1. /\ SubOk(c) /\ c.attached = b.attached
        /\ ~c.closed => \A w \in ViewT : Read(w, c.queue) = Read(Read(w, b.queue), evs)
    BY ONLY <1>3, <1>6, <1>7, <1>8, PushMany, ZenonT(40)
  <2>. QED
    BY ONLY <1>6, <2>1
<1>10. AllIn(b.queue, Told) /\ Covered(b.queue)
  BY <1>6, NilIs DEF AllIn, Covered
<1>11. AllIn(c.queue, Told)
  BY <1>6, <1>7, <1>8, <1>10, PushManyIn
<1>12. EndsWell(c.queue) /\ (status \in {"running", "error"} => Covered(c.queue))
  BY <1>6, <1>7, <1>8, <1>10, PushManyCovered
<1>13. QueueTold(v)'
  <2>1. status' = status /\ status \in {"running", "done", "cancelled", "error"}
    BY <1>0 DEF runVars, RunType
  <2>. QED
    BY <1>1, <1>8, <1>9, <1>11, <1>12, <2>1 DEF QueueTold
<1>14. CaughtUp(v)'
  <2>. SUFFICES ASSUME Following(v)' PROVE \A x \in ViewT : Read(x, c.queue) \in Rights'
    BY <1>8 DEF CaughtUp, Bases
  <2>. TAKE x \in ViewT
  <2>1. Read(x, c.queue) = Read(x, evs)
    <3>1. ~c.closed
      BY <1>8 DEF Following
    <3>. QED
      BY <1>6, <1>9, <3>1, ReadNil
  <2>2. PICK u : u = Read(x, evs)
    OBVIOUS
  <2>3. /\ u \in ViewT /\ ~u.loaded /\ 1..levels \subseteq u.levels
        /\ \A s \in Strand : LET y == u.strands[s] IN
             /\ y.state = state[s] /\ Shown(y, made[s])
             /\ state[s] \in Ended => StepsExact(y, s)
    BY <1>0, <1>3, <2>2, ReplayAll
  <2>4. \A s \in Strand : StepsTotal(s)' = StepsTotal(s) /\ OutOf(s)' = made[s]
    BY DEF StepsTotal
  <2>5. Right(u)'
    BY <2>3, <2>4 DEF Right, StepsExact, runVars
  <2>. QED
    BY <2>1, <2>2, <2>3, <2>5 DEF Rights
<1>. QED
  BY <1>2, <1>13, <1>14 DEF ViewerOk

\* A flush, by the ticker or before a replay, brings what is right up to date.
LEMMA FlushRight ==
  ASSUME RunOk, pend' = Flushed, UNCHANGED <<state, made, bearing, levels>>
  PROVE  /\ \A c \in Rights : Read(c, FlushEvents) \in Rights'
         /\ \A s \in Strand : OutOf(s)' = made[s]' /\ (OutOf(s) = made[s] => OutOf(s)' = OutOf(s))
         /\ FlushEvents \in Seq(Event) /\ \A i \in 1..Len(FlushEvents) : FlushEvents[i] \in AboutStrand
<1>1. \A s \in Strand : OutOf(s)' = made[s]'
  <2>. SUFFICES ASSUME NEW s \in Strand PROVE OutOf(s)' = made[s]'
    OBVIOUS
  <2>1. made[s] \in [Stream -> Nat]
    BY DEF RunOk, RunType
  <2>2. \A k \in Stream : Out(s, k)' = made[s][k]
    BY <2>1 DEF Out, Flushed
  <2>3. made[s] = [k \in Stream |-> made[s][k]]
    BY <2>1
  <2>. QED
    BY <2>2, <2>3 DEF OutOf
<1>2. \A s \in Strand : StepsTotal(s)' = StepsTotal(s)
  BY DEF StepsTotal
<1>3. ASSUME NEW c \in Rights PROVE Read(c, FlushEvents) \in Rights'
  <2>1. c \in ViewT /\ Right(c)
    BY DEF Rights
  <2>2. PICK u : u = Read(c, FlushEvents)
    OBVIOUS
  <2>3. /\ u \in ViewT /\ RestSame(u, c)
        /\ \A s \in Strand : /\ u.strands[s].state = c.strands[s].state
                             /\ u.strands[s].steps = c.strands[s].steps
                             /\ Shown(c.strands[s], OutOf(s)) => Shown(u.strands[s], made[s])
    BY <2>1, <2>2, FlushAll DEF RunOk
  <2>4. \A s \in Strand : Shown(u.strands[s], OutOf(s))'
    BY <1>1, <2>1, <2>3 DEF Right
  <2>5. Right(u)'
    BY <1>2, <2>1, <2>3, <2>4 DEF Right, RestSame, StepsExact
  <2>. QED
    BY <2>2, <2>3, <2>5 DEF Rights
<1>. QED
  BY <1>1, <1>3, FlushAll DEF RunOk, Abouts

\* An event about one strand that says what became of it.
LEMMA OneRight ==
  ASSUME RunOk, NEW s \in Strand, NEW st \in StrandState, NEW e \in AboutStrand, e.s = s,
         state' = [state EXCEPT ![s] = st], levels' = levels,
         \A t \in Strand : OutOf(t)' = OutOf(t),
         \A t \in Strand : t # s \/ st \in Ended => StepsTotal(t)' = StepsTotal(t),
         \A x \in ViewStrand : LET y == After(x, e) IN
            /\ y.state = st /\ y.text = x.text /\ y.chunks = x.chunks
            /\ st \in Ended => StepsExact(y, s)
  PROVE  \A c \in Rights : Read(c, <<e>>) \in Rights'
<1>. TAKE c \in Rights
<1>1. c \in ViewT /\ Right(c)
  BY DEF Rights
<1>2. PICK u : u = Reduce(c, e) /\ u = Read(c, <<e>>)
  BY <1>1, OneAbout
<1>3. u \in ViewT /\ RestSame(u, c) /\ u.strands = [c.strands EXCEPT ![s] = After(c.strands[s], e)]
  BY <1>1, <1>2, AboutRest
<1>4. c.strands \in [Strand -> ViewStrand]
  BY <1>1 DEF ViewT
<1>5. ASSUME NEW t \in Strand
      PROVE  /\ u.strands[t].state = state[t]'
             /\ Shown(u.strands[t], OutOf(t))'
             /\ state[t]' \in Ended => StepsExact(u.strands[t], t)'
  <2>0. state \in [Strand -> StrandState]
    BY DEF RunOk, RunType
  <2>1. CASE t = s
    <3>1. PICK x, y : x \in ViewStrand /\ x = c.strands[s] /\ y = u.strands[s] /\ y = After(x, e)
      BY <1>3, <1>4
    <3>2. y.state = st /\ y.text = x.text /\ y.chunks = x.chunks /\ (st \in Ended => StepsExact(y, s))
      BY <3>1
    <3>3. Shown(x, OutOf(s))
      BY <1>1, <3>1 DEF Right
    <3>4. Shown(y, OutOf(s))
      BY <3>2, <3>3 DEF Shown
    <3>. QED
      BY <2>0, <2>1, <3>1, <3>2, <3>4 DEF StepsExact
  <2>2. CASE t # s
    <3>1. u.strands[t] = c.strands[t] /\ state[t]' = state[t]
      BY <1>3, <1>4, <2>0, <2>2
    <3>. QED
      BY <1>1, <2>2, <3>1 DEF Right, StepsExact
  <2>. QED
    BY <2>1, <2>2
<1>6. Right(u)'
  BY <1>1, <1>3, <1>5 DEF Right, RestSame
<1>. QED
  BY <1>2, <1>3, <1>6 DEF Rights

\* How a step of a running run is told.
Tells(evs) ==
  /\ evs \in Seq(Event) /\ NoHello(evs) /\ AllIn(evs, Told')
  /\ \A i \in 1..Len(evs) : evs[i] = Done => i = Len(evs)
  /\ status' \in {"running", "error"} => \A i \in 1..Len(evs) : evs[i] = Done => i > 1 /\ evs[i - 1] = Error
  /\ \A c \in Rights : Read(c, evs) \in Rights'

LEMMA EmitAll ==
  ASSUME IInv, status = "running", RunOk', levels <= levels', NEW evs, Tells(evs), UNCHANGED viewerVars, sub' = Emit(evs)
  PROVE  IInv'
<1>0. sub \in [Viewer -> SubType]
  BY DEF IInv, ViewersOk
<1>1. \A v \in Viewer : sub'[v] = IF sub[v].attached THEN PushAll(sub[v], evs) ELSE sub[v]
  BY DEF Emit, PushAll
<1>2. \A v \in Viewer : Same(v)
  BY DEF Same, viewerVars
<1>3. RunType'
  BY DEF RunOk
<1>4. \A v \in Viewer : ViewerOk(v)'
  BY <1>1, <1>2, <1>3, EmitRunning DEF Tells
<1>5. ViewersOk'
  <2>1. \A v \in Viewer : sub'[v] \in SubType
    BY <1>4 DEF ViewerOk, QueueTold, SubOk, SubType
  <2>2. sub' = [v \in Viewer |-> sub'[v]]
    BY DEF Emit
  <2>3. sub' \in [Viewer -> SubType]
    BY <2>1, <2>2
  <2>. QED
    BY <2>3 DEF IInv, ViewersOk, viewerVars
<1>. QED
  BY <1>4, <1>5 DEF IInv

-----------------------------------------------------------------------------
(* The steps of the run                                                    *)

LEMMA CalmTells ==
  ASSUME NEW evs \in Calm, \A c \in Rights : Read(c, evs) \in Rights'
  PROVE  Tells(evs)
<1>1. evs \in Seq(Event) /\ \A i \in 1..Len(evs) : evs[i] \in AboutStrand \cup AggEvent
  BY DEF Calm
<1>2. \A e \in AboutStrand \cup AggEvent : e # Hello /\ e # Done /\ e \in DeltaEvent \cup Told'
  <2>1. \A e \in AboutStrand : e # Hello /\ e # Done
    BY EventTypes DEF AboutStrand, Hello, Done
  <2>2. \A e \in AggEvent : e # Hello /\ e # Done
    BY DEF AggEvent, Hello, Done
  <2>. QED
    BY <2>1, <2>2 DEF AboutStrand, Told
<1>. QED
  BY <1>1, <1>2 DEF Tells, NoHello, AllIn

LEMMA CalmOne == \A e \in AboutStrand : <<e>> \in Calm
<1>. TAKE e \in AboutStrand
<1>. QED
  BY OneAbout, AboutsCalm DEF About, Abouts

LEMMA RunningOk == RunOk => RunType /\ WaitingIdle
BY DEF RunOk

LEMMA StartStep ==
  ASSUME IInv, NEW s \in Strand, StartStrand(s)
  PROVE  IInv'
<1>0. RunOk /\ RunType
  BY DEF IInv, RunOk
<1>1. status = "running" /\ status' = status /\ levels' = levels
  BY DEF StartStrand, runVars
<1>2. "prefill" \in StrandState /\ "prefill" \notin Ended /\ "prefill" # "waiting"
  BY DEF StrandState, Ended
<1>3. PICK e \in AboutStrand : /\ e = FullEvent(s, "prefill") /\ e.s = s
                               /\ \A x \in ViewStrand : LET y == After(x, e) IN
                                    /\ y.state = "prefill" /\ y.text = x.text /\ y.chunks = x.chunks
                                    /\ "prefill" \in Ended => StepsExact(y, s)
  BY <1>0, <1>2, FullIs DEF AboutStrand
<1>4. \A t \in Strand : OutOf(t)' = OutOf(t) /\ StepsTotal(t)' = StepsTotal(t)
  BY DEF StartStrand, OutOf, Out, StepsTotal
<1>5. state' = [state EXCEPT ![s] = "prefill"]
  BY DEF StartStrand
<1>6. \A c \in Rights : Read(c, <<e>>) \in Rights'
  BY <1>0, <1>1, <1>2, <1>3, <1>4, <1>5, OneRight
<1>7. Tells(<<e>>)
  BY <1>6, CalmOne, CalmTells
<1>8. RunOk'
  <2>1. RunType'
    BY <1>0, <1>2, <1>5, <1>4 DEF StartStrand, RunType, runVars
  <2>2. WaitingIdle'
    BY <1>0, <1>2, <1>5 DEF StartStrand, WaitingIdle, RunOk, RunType
  <2>. QED
    BY <1>1, <2>1, <2>2 DEF RunOk
<1>9. sub' = Emit(<<e>>) /\ UNCHANGED viewerVars
  BY <1>3 DEF StartStrand
<1>. QED
  BY <1>0, <1>1, <1>7, <1>8, <1>9, EmitAll DEF RunType

LEMMA EndStep ==
  ASSUME IInv, NEW s \in Strand, NEW st \in Ended, EndStrand(s, st)
  PROVE  IInv'
<1>0. RunOk /\ RunType
  BY DEF IInv, RunOk
<1>1. status = "running" /\ status' = status /\ levels' = levels
  BY DEF EndStrand, runVars
<1>2. st \in StrandState /\ st # "waiting"
  BY DEF StrandState, Ended
<1>3. PICK e \in AboutStrand : /\ e = FullEvent(s, st) /\ e.s = s
                               /\ \A x \in ViewStrand : LET y == After(x, e) IN
                                    /\ y.state = st /\ y.text = x.text /\ y.chunks = x.chunks
                                    /\ st \in Ended => StepsExact(y, s)
  BY <1>0, <1>2, FullIs DEF AboutStrand
<1>4. \A t \in Strand : OutOf(t)' = OutOf(t) /\ StepsTotal(t)' = StepsTotal(t)
  BY DEF EndStrand, OutOf, Out, StepsTotal
<1>5. state' = [state EXCEPT ![s] = st]
  BY DEF EndStrand
<1>6. \A c \in Rights : Read(c, <<e>>) \in Rights'
  BY <1>0, <1>1, <1>2, <1>3, <1>4, <1>5, OneRight
<1>7. Tells(<<e>>)
  BY <1>6, CalmOne, CalmTells
<1>8. RunOk'
  <2>1. RunType'
    BY <1>0, <1>2, <1>5, <1>4 DEF EndStrand, RunType, runVars
  <2>2. WaitingIdle'
    BY <1>0, <1>2, <1>5 DEF EndStrand, WaitingIdle, RunOk, RunType
  <2>. QED
    BY <1>1, <2>1, <2>2 DEF RunOk
<1>9. sub' = Emit(<<e>>) /\ UNCHANGED viewerVars
  BY <1>3 DEF EndStrand
<1>. QED
  BY <1>0, <1>1, <1>7, <1>8, <1>9, EmitAll DEF RunType

\* A chunk of one more is one more pending: what has left s.pending stays.
LEMMA ChunkCounts ==
  ASSUME RunType, NEW s \in Strand, NEW k \in Stream, NEW tokens \in BOOLEAN, Chunk(s, k, tokens)
  PROVE  /\ made' \in [Strand -> [Stream -> Nat]] /\ pend' \in [Strand -> [Stream -> Nat]]
         /\ \A t \in Strand : \A j \in Stream : pend'[t][j] <= made'[t][j]
         /\ \A t \in Strand : OutOf(t)' = OutOf(t)
         /\ bearing' \in [Strand -> Nat] /\ \A t \in Strand : bearing[t] <= bearing'[t]
         /\ \A t \in Strand : t # s => StepsTotal(t)' = StepsTotal(t) /\ made'[t] = made[t] /\ bearing'[t] = bearing[t]
<1>0. k \in Stream /\ made \in [Strand -> [Stream -> Nat]] /\ pend \in [Strand -> [Stream -> Nat]] /\ bearing \in [Strand -> Nat]
      /\ \A t \in Strand : \A j \in Stream : pend[t][j] <= made[t][j]
  BY DEF RunType
<1>1. /\ made' = [made EXCEPT ![s] = [made[s] EXCEPT ![k] = made[s][k] + 1]]
      /\ pend' = [pend EXCEPT ![s] = [pend[s] EXCEPT ![k] = pend[s][k] + 1]]
      /\ bearing' = [bearing EXCEPT ![s] = IF tokens THEN bearing[s] + 1 ELSE bearing[s]]
  BY DEF Chunk
<1>2. made' \in [Strand -> [Stream -> Nat]] /\ pend' \in [Strand -> [Stream -> Nat]]
  <2>1. [made[s] EXCEPT ![k] = made[s][k] + 1] \in [Stream -> Nat] /\ [pend[s] EXCEPT ![k] = pend[s][k] + 1] \in [Stream -> Nat]
    BY <1>0
  <2>. QED
    BY <1>0, <1>1, <2>1
<1>3. ASSUME NEW t \in Strand, NEW j \in Stream
      PROVE  /\ \/ made'[t][j] = made[t][j] /\ pend'[t][j] = pend[t][j]
                \/ t = s /\ j = k /\ made'[t][j] = made[t][j] + 1 /\ pend'[t][j] = pend[t][j] + 1
             /\ made[t][j] \in Nat /\ pend[t][j] \in Nat
  <2>1. CASE t = s /\ j = k
    BY <1>0, <1>1, <2>1
  <2>2. CASE t = s /\ j # k
    BY <1>0, <1>1, <2>2
  <2>3. CASE t # s
    BY <1>0, <1>1, <2>3
  <2>. QED
    BY <2>1, <2>2, <2>3
<1>4. \A t \in Strand : \A j \in Stream : pend'[t][j] <= made'[t][j] /\ Out(t, j)' = Out(t, j)
  BY <1>0, <1>3 DEF Out
<1>5. bearing' \in [Strand -> Nat] /\ \A t \in Strand : bearing[t] <= bearing'[t]
  BY <1>0, <1>1
<1>6. \A t \in Strand : t # s => StepsTotal(t)' = StepsTotal(t) /\ made'[t] = made[t] /\ bearing'[t] = bearing[t]
  BY <1>0, <1>1 DEF StepsTotal
<1>. QED
  BY <1>2, <1>4, <1>5, <1>6 DEF OutOf

LEMMA ChunkStep ==
  ASSUME IInv, NEW s \in Strand, NEW k \in Stream, NEW tokens \in BOOLEAN, Chunk(s, k, tokens)
  PROVE  IInv'
<1>0. RunOk /\ RunType
  BY DEF IInv, RunOk
<1>1. status = "running" /\ status' = status /\ levels' = levels
  BY <1>0 DEF Chunk, runVars, RunOk, Quiet, Ended
<1>2. "decode" \in StrandState /\ "decode" \notin Ended /\ "decode" # "waiting" /\ state[s] \notin Ended /\ state[s] # "waiting"
  BY DEF StrandState, Ended, Chunk
<1>3. /\ made' \in [Strand -> [Stream -> Nat]] /\ pend' \in [Strand -> [Stream -> Nat]]
      /\ \A t \in Strand : \A j \in Stream : pend'[t][j] <= made'[t][j]
      /\ \A t \in Strand : OutOf(t)' = OutOf(t)
      /\ bearing' \in [Strand -> Nat] /\ \A t \in Strand : bearing[t] <= bearing'[t]
      /\ \A t \in Strand : t # s => StepsTotal(t)' = StepsTotal(t) /\ made'[t] = made[t] /\ bearing'[t] = bearing[t]
  BY <1>0, ChunkCounts
<1>4. state' \in [Strand -> StrandState] /\ (state' = state \/ state' = [state EXCEPT ![s] = "decode"])
  BY <1>0, <1>2 DEF Chunk, RunType
<1>5. RunOk'
  <2>1. \A t \in Strand : sent'[t] <= StepsTotal(t)'
    <3>. SUFFICES ASSUME NEW t \in Strand PROVE sent'[t] <= StepsTotal(t)'
      OBVIOUS
    <3>1. sent'[t] = sent[t] /\ sent[t] \in Nat /\ sent[t] <= StepsTotal(t)
      BY <1>0, StepsNat DEF Chunk
    <3>2. bearing[t] \in Nat /\ bearing'[t] \in Nat /\ bearing[t] <= bearing'[t]
      BY <1>0, <1>3 DEF RunType
    <3>3. StepsTotal(t) <= StepsTotal(t)' /\ StepsTotal(t) \in Nat /\ StepsTotal(t)' \in Nat
      BY <3>2 DEF StepsTotal
    <3>. QED
      BY <3>1, <3>3
  <2>2. RunType'
    BY <1>0, <1>3, <1>4, <2>1 DEF Chunk, RunType, runVars
  <2>3. WaitingIdle'
    <3>1. \A t \in Strand : state'[t] = "waiting" => t # s /\ state[t] = "waiting"
      BY <1>0, <1>2, <1>4 DEF RunType
    <3>. QED
      BY <1>0, <1>3, <3>1 DEF WaitingIdle, RunOk
  <2>. QED
    BY <1>1, <2>2, <2>3 DEF RunOk
<1>6. CASE tokens /\ state[s] = "prefill"
  <2>1. PICK e : e = StrandEv(s, "decode", "none", <<>>)
    OBVIOUS
  <2>2. e \in AboutStrand /\ e.s = s /\ e.type = "strand" /\ e.mode = "none" /\ e.state = "decode"
    <3>1. <<>> \in Seq(Nat)
      OBVIOUS
    <3>. QED
      BY <1>2, <2>1, <3>1 DEF StrandEv, AboutStrand, StrandEvent
  <2>3. \A x \in ViewStrand : LET y == After(x, e) IN
                                    /\ y.state = "decode" /\ y.text = x.text /\ y.chunks = x.chunks
                                    /\ "decode" \in Ended => StepsExact(y, s)
    <3>1. \A x : After(x, e) = [x EXCEPT !.state = "decode", !.steps = x.steps]
      BY <2>2 DEF After, AfterStrand, StepsAfter
    <3>. TAKE x \in ViewStrand
    <3>2. PICK y : y = After(x, e) /\ y = [x EXCEPT !.state = "decode", !.steps = x.steps]
      BY <3>1
    <3>3. y.state = "decode" /\ y.text = x.text /\ y.chunks = x.chunks
      BY <3>2 DEF ViewStrand
    <3>. QED
      BY ONLY <1>2, <3>2, <3>3
  <2>4. state' = [state EXCEPT ![s] = "decode"] /\ sub' = Emit(<<e>>) /\ UNCHANGED viewerVars
    BY <1>6, <2>1 DEF Chunk
  <2>5. \A c \in Rights : Read(c, <<e>>) \in Rights'
    <3>1. RunOk /\ "decode" \in StrandState /\ e \in AboutStrand /\ e.s = s /\ levels' = levels
      BY <1>0, <1>1, <1>2, <2>2
    <3>2. \A t \in Strand : OutOf(t)' = OutOf(t)
      BY <1>3
    <3>3. \A t \in Strand : t # s \/ "decode" \in Ended => StepsTotal(t)' = StepsTotal(t)
      BY <1>2, <1>3
    <3>4. state' = [state EXCEPT ![s] = "decode"]
      BY <2>4
    <3>. QED
      BY ONLY s \in Strand, <2>3, <3>1, <3>2, <3>3, <3>4, OneRight
  <2>6. Tells(<<e>>)
    BY <2>2, <2>5, CalmOne, CalmTells
  <2>. QED
    BY <1>0, <1>1, <1>5, <2>4, <2>6, EmitAll DEF RunType
<1>7. CASE ~(tokens /\ state[s] = "prefill")
  <2>1. state' = state /\ sub' = sub /\ UNCHANGED viewerVars
    BY <1>7 DEF Chunk
  <2>2. sub' = Emit(<<>>)
    <3>1. \A v \in Viewer : Feed(Push, sub[v], <<>>) = sub[v]
      BY PushNil DEF PushAll
    <3>2. sub = [v \in Viewer |-> sub[v]]
      BY DEF IInv, ViewersOk
    <3>. QED
      BY <2>1, <3>1, <3>2 DEF Emit
  <2>3. ASSUME NEW c \in Rights PROVE Read(c, <<>>) \in Rights'
    <3>1. c \in ViewT /\ Right(c)
      BY DEF Rights
    <3>2. Right(c)'
      BY <1>1, <1>2, <1>3, <2>1, <3>1 DEF Right, StepsExact
    <3>. QED
      BY <3>1, <3>2, ReadNil DEF Rights
  <2>4. <<>> \in Calm
    BY NilIs DEF Calm
  <2>5. Tells(<<>>)
    BY <2>3, <2>4, CalmTells
  <2>. QED
    BY <1>0, <1>1, <1>5, <2>1, <2>2, <2>5, EmitAll DEF RunType
<1>. QED
  BY <1>6, <1>7

LEMMA FlushStep ==
  ASSUME IInv, Flush
  PROVE  IInv'
<1>0. RunOk /\ RunType
  BY DEF IInv, RunOk
<1>1. status = "running" /\ status' = status /\ levels' = levels /\ pend' = Flushed /\ UNCHANGED <<state, made, bearing, sent, ticks>>
  BY DEF Flush, runVars
<1>2. \A c \in Rights : Read(c, FlushEvents) \in Rights'
  BY <1>0, <1>1, FlushRight
<1>3. Tells(FlushEvents)
  BY <1>0, <1>2, FlushCalm, CalmTells
<1>4. RunOk'
  <2>1. pend' \in [Strand -> [Stream -> Nat]] /\ \A s \in Strand : \A k \in Stream : pend'[s][k] <= made'[s][k]
    BY <1>0, <1>1 DEF Flushed, RunType
  <2>2. RunType'
    BY <1>0, <1>1, <2>1 DEF RunType, StepsTotal
  <2>3. WaitingIdle'
    BY <1>0, <1>1 DEF WaitingIdle, RunOk
  <2>. QED
    BY <1>1, <2>2, <2>3 DEF RunOk
<1>5. sub' = Emit(FlushEvents) /\ UNCHANGED viewerVars
  BY DEF Flush
<1>. QED
  BY <1>0, <1>1, <1>3, <1>4, <1>5, EmitAll DEF RunType

LEMMA TickStep ==
  ASSUME IInv, TickAgg
  PROVE  IInv'
<1>0. RunOk /\ RunType
  BY DEF IInv, RunOk
<1>1. status = "running" /\ status' = status /\ levels' = levels /\ ticks' = ticks + 1 /\ UNCHANGED <<state, made, pend, bearing>>
  BY DEF TickAgg
<1>2. sent' = [s \in Strand |-> IF Decoding(s) THEN StepsTotal(s) ELSE sent[s]] /\ sub' = Emit(TickEvents) /\ UNCHANGED viewerVars
  BY DEF TickAgg
<1>3. \A s \in Strand : OutOf(s)' = OutOf(s) /\ StepsTotal(s)' = StepsTotal(s)
  BY <1>1 DEF OutOf, Out, StepsTotal
<1>4. ASSUME NEW c \in Rights PROVE Read(c, TickEvents) \in Rights'
  <2>1. c \in ViewT /\ Right(c)
    BY DEF Rights
  <2>2. PICK u : u = Read(c, TickEvents)
    OBVIOUS
  <2>3. /\ u \in ViewT /\ u.levels = c.levels /\ u.loaded = c.loaded
        /\ \A s \in Strand : LET x == c.strands[s]
                                 y == u.strands[s] IN
                   /\ y.text = x.text /\ y.chunks = x.chunks
                   /\ state[s] = "decode" => y.state = "decode"
                   /\ state[s] # "decode" => y = x
    BY <1>0, <2>1, <2>2, TickAll
  <2>4. "decode" \notin Ended
    BY DEF Ended
  <2>5. Right(u)'
    BY <1>1, <1>3, <2>1, <2>3, <2>4 DEF Right, Shown, StepsExact
  <2>. QED
    BY <2>2, <2>3, <2>5 DEF Rights
<1>5. Tells(TickEvents)
  BY <1>0, <1>4, TickAll, CalmTells
<1>6. RunOk'
  <2>1. \A s \in Strand : sent'[s] \in Nat /\ sent'[s] <= StepsTotal(s)'
    BY <1>0, <1>2, <1>3, StepsNat
  <2>2. sent' \in [Strand -> Nat] /\ ticks' \in Nat
    BY <1>0, <1>1, <1>2, <2>1 DEF RunType
  <2>3. RunType'
    BY <1>0, <1>1, <2>1, <2>2 DEF RunType
  <2>4. WaitingIdle'
    BY <1>0, <1>1 DEF WaitingIdle, RunOk
  <2>. QED
    BY <1>1, <2>3, <2>4 DEF RunOk
<1>. QED
  BY <1>0, <1>1, <1>2, <1>5, <1>6, EmitAll DEF RunType

LEMMA LevelStep ==
  ASSUME IInv, PushLevel
  PROVE  IInv'
<1>0. RunOk /\ RunType
  BY DEF IInv, RunOk
<1>1. status = "running" /\ status' = status /\ levels' = levels + 1 /\ UNCHANGED <<state, made, pend, bearing, sent, ticks>>
  BY DEF PushLevel, strandVars
<1>2. PICK e : e = Level(levels + 1)
  OBVIOUS
<1>3. e \in LevelEvent /\ e.l = levels' /\ e.type = "level" /\ e.l \in Nat
  BY <1>0, <1>1, <1>2 DEF Level, LevelEvent, RunType
<1>4. e \in Event /\ e \notin AboutStrand /\ e # Hello /\ e # Done /\ e # Error
  BY <1>3, LevelOther
<1>5. sub' = Emit(<<e>>) /\ UNCHANGED viewerVars
  BY <1>2 DEF PushLevel
<1>6. ASSUME NEW c \in Rights PROVE Read(c, <<e>>) \in Rights'
  <2>1. c \in ViewT /\ Right(c)
    BY DEF Rights
  <2>2. PICK u : u = Reduce(c, e) /\ u = Read(c, <<e>>)
    BY <1>4, ReadOne
  <2>3. u \in ViewT /\ u.strands = c.strands /\ u.loaded = c.loaded /\ u.levels = c.levels \cup {levels'}
    <3>1. u = [c EXCEPT !.levels = c.levels \cup {e.l}] /\ u \in ViewT
      BY <1>3, <2>1, <2>2, ReduceLevel
    <3>. QED
      BY <1>3, <2>1, <3>1 DEF ViewT
  <2>4. \A s \in Strand : OutOf(s)' = OutOf(s) /\ StepsTotal(s)' = StepsTotal(s)
    BY <1>1 DEF OutOf, Out, StepsTotal
  <2>5. 1..levels' \subseteq u.levels
    <3>1. \A i \in 1..levels' : i \in 1..levels \/ i = levels'
      BY <1>0, <1>1 DEF RunType
    <3>. QED
      BY <2>1, <2>3, <3>1 DEF Right
  <2>6. Right(u)'
    BY <1>1, <2>1, <2>3, <2>4, <2>5 DEF Right, StepsExact
  <2>. QED
    BY <2>2, <2>3, <2>6 DEF Rights
<1>7. Tells(<<e>>)
  <2>1. PICK q : q = <<e>> /\ q \in Seq(Event) /\ Len(q) = 1 /\ q[1] = e
    BY <1>4, OneEvent
  <2>2. e \in Told'
    BY <1>0, <1>1, <1>3 DEF Told, RunType
  <2>3. \A i \in 1..Len(q) : q[i] = e
    BY <2>1
  <2>. QED
    BY ONLY <1>4, <1>6, <2>1, <2>2, <2>3 DEF Tells, NoHello, AllIn
<1>8. RunOk'
  <2>1. RunType'
    BY <1>0, <1>1 DEF RunType, StepsTotal
  <2>2. WaitingIdle'
    BY <1>0, <1>1 DEF WaitingIdle, RunOk
  <2>. QED
    BY <1>1, <2>1, <2>2 DEF RunOk
<1>. QED
  BY <1>0, <1>1, <1>5, <1>7, <1>8, EmitAll DEF RunType

LEMMA FailStep ==
  ASSUME IInv, Fail
  PROVE  IInv'
<1>0. RunOk /\ RunType
  BY DEF IInv, RunOk
<1>1. status = "running" /\ status' = "error" /\ UNCHANGED <<state, made, pend, bearing, sent, ticks, levels>> /\ Quiet
  BY DEF Fail, strandVars
<1>2. PICK q : q = <<Error, Done>>
  OBVIOUS
<1>3. sub' = Emit(q) /\ UNCHANGED viewerVars
  BY <1>2 DEF Fail
<1>4. q \in Seq(Event) /\ Len(q) = 2 /\ q[1] = Error /\ q[2] = Done
  BY <1>2, PlainEvents
<1>5. \A i \in 1..Len(q) : (i = 1 /\ q[i] = Error) \/ (i = 2 /\ q[i] = Done /\ i - 1 = 1)
  BY <1>4
<1>6. Error \notin AboutStrand /\ Done \notin AboutStrand
  BY EventTypes DEF AboutStrand, Error, Done
<1>7. q \in Others
  BY <1>4, <1>5, <1>6, PlainEvents DEF Others
<1>8. ASSUME NEW c \in Rights PROVE Read(c, q) \in Rights'
  <2>1. c \in ViewT /\ Right(c)
    BY DEF Rights
  <2>2. PICK u : u = Read(c, q)
    OBVIOUS
  <2>3. u \in ViewT /\ u.strands = c.strands /\ u.loaded = c.loaded /\ c.levels \subseteq u.levels
    BY <1>7, <2>1, <2>2, OthersRead
  <2>4. \A s \in Strand : OutOf(s)' = OutOf(s) /\ StepsTotal(s)' = StepsTotal(s)
    BY <1>1 DEF OutOf, Out, StepsTotal
  <2>5. Right(u)'
    BY <1>1, <2>1, <2>3, <2>4 DEF Right, StepsExact
  <2>. QED
    BY <2>2, <2>3, <2>5 DEF Rights
<1>9. Tells(q)
  <2>1. Error \in Told' /\ Done \in Told'
    BY <1>1 DEF Told
  <2>2. AllIn(q, Told') /\ NoHello(q)
    BY <1>5, <2>1, PlainEvents DEF AllIn, NoHello
  <2>3. \A i \in 1..Len(q) : q[i] = Done => i = Len(q) /\ i > 1 /\ q[i - 1] = Error
    BY <1>4, <1>5, PlainEvents
  <2>. QED
    BY <1>4, <1>8, <2>2, <2>3 DEF Tells
<1>10. RunOk'
  <2>1. RunType'
    BY <1>0, <1>1 DEF RunType, StepsTotal
  <2>2. WaitingIdle' /\ Quiet'
    BY <1>0, <1>1 DEF WaitingIdle, RunOk, Quiet
  <2>. QED
    BY <1>1, <2>1, <2>2 DEF RunOk
<1>. QED
  BY <1>0, <1>1, <1>3, <1>9, <1>10, EmitAll DEF RunType

LEMMA FinishStep ==
  ASSUME IInv, NEW outcome \in {"done", "cancelled"}, Finish(outcome)
  PROVE  IInv'
<1>0. RunOk /\ RunType
  BY DEF IInv, RunOk
<1>1. /\ status = "running" /\ status' = outcome /\ pend' = Flushed /\ ticks' = ticks + 1 /\ Quiet
      /\ state' = [s \in Strand |-> IF state[s] = "waiting" THEN "cancelled" ELSE state[s]]
      /\ UNCHANGED <<made, bearing, sent, levels>> /\ UNCHANGED viewerVars
  BY DEF Finish
<1>2. PICK l \in Calm : l = LastEvents
  <2>1. \A s \in Strand : state[s] # "decode"
    BY <1>1 DEF Quiet, Ended
  <2>. QED
    BY <1>0, <2>1, LastAll
<1>3. PICK d : d = <<Done>> /\ d \in Seq(Event) /\ Len(d) = 1 /\ d[1] = Done
  BY OneEvent, PlainEvents
<1>4. PICK q : q = l \o d
  OBVIOUS
<1>5. Joins(q, l, d) /\ l \in Seq(Event)
  BY ONLY <1>2, <1>3, <1>4 DEF Joins, Calm
<1>6. q \in Seq(Event) /\ \A w : Read(w, q) = Reduce(Read(w, l), Done)
  BY ONLY <1>3, <1>5, JoinRead, ReadOne, PlainEvents
<1>7. sub' = Emit(q)
  BY <1>2, <1>3, <1>4 DEF Finish, LastEvents
<1>8. \A s \in Strand : OutOf(s)' = made[s]' /\ StepsTotal(s)' = StepsTotal(s)
  <2>. SUFFICES ASSUME NEW s \in Strand PROVE OutOf(s)' = made[s]' /\ StepsTotal(s)' = StepsTotal(s)
    OBVIOUS
  <2>1. made[s] \in [Stream -> Nat]
    BY <1>0 DEF RunType
  <2>2. \A k \in Stream : Out(s, k)' = made[s][k]
    BY <1>1, <2>1 DEF Out, Flushed
  <2>3. made[s] = [k \in Stream |-> made[s][k]]
    BY <2>1
  <2>. QED
    BY <1>1, <2>2, <2>3 DEF OutOf, StepsTotal
<1>9. ASSUME NEW c \in Rights PROVE Read(c, q) \in Rights'
  <2>1. c \in ViewT /\ Right(c)
    BY DEF Rights
  <2>2. PICK u : u = Read(c, l)
    OBVIOUS
  <2>3. /\ u \in ViewT /\ u.levels = c.levels /\ u.loaded = c.loaded
        /\ \A s \in Strand : LET x == c.strands[s]
                                 y == u.strands[s] IN
                   /\ Shown(x, OutOf(s)) => Shown(y, made[s])
                   /\ state[s] = "waiting" => y.state = "cancelled" /\ StepsExact(y, s)
                   /\ state[s] # "waiting" => y.state = x.state /\ y.steps = x.steps
    <3>1. \A s \in Strand : state[s] # "decode"
      BY <1>1 DEF Quiet, Ended
    <3>. QED
      BY <1>0, <1>2, <2>1, <2>2, <3>1, LastAll
  <2>4. PICK z : z = Read(c, q) /\ z = Reduce(u, Done)
    BY <1>6, <2>2
  <2>5. z \in ViewT /\ z.strands = u.strands /\ z.levels = u.levels /\ z.loaded = u.loaded
    <3>1. z = [u EXCEPT !.done = TRUE] /\ z \in ViewT
      BY <2>3, <2>4, ReduceDone
    <3>. QED
      BY <2>3, <3>1 DEF ViewT
  <2>6. ASSUME NEW s \in Strand
        PROVE  /\ z.strands[s].state = state[s]' /\ Shown(z.strands[s], OutOf(s))'
               /\ state[s]' \in Ended => StepsExact(z.strands[s], s)'
    <3>1. PICK x, y : x = c.strands[s] /\ y = z.strands[s]
      OBVIOUS
    <3>2. /\ x.state = state[s] /\ Shown(x, OutOf(s)) /\ (state[s] \in Ended => StepsExact(x, s))
      BY <2>1, <3>1 DEF Right
    <3>3. /\ Shown(y, made[s])
          /\ state[s] = "waiting" => y.state = "cancelled" /\ StepsExact(y, s)
          /\ state[s] # "waiting" => y.state = x.state /\ y.steps = x.steps
      BY <2>3, <2>5, <3>1, <3>2
    <3>4. Shown(y, OutOf(s))'
      BY <1>1, <1>8, <3>3
    <3>5. state[s]' = (IF state[s] = "waiting" THEN "cancelled" ELSE state[s])
      BY <1>1
    <3>6. StepsExact(y, s)' <=> StepsExact(y, s)
      BY <1>8 DEF StepsExact
    <3>. QED
      BY <3>1, <3>2, <3>3, <3>4, <3>5, <3>6 DEF StepsExact
  <2>7. Right(z)'
    BY <1>1, <2>1, <2>3, <2>5, <2>6 DEF Right
  <2>. QED
    BY <2>4, <2>5, <2>7 DEF Rights
<1>10. Tells(q)
  <2>1. PICK m \in Nat : m = Len(l)
    BY <1>5
  <2>2. /\ Len(q) = m + 1
        /\ \A i \in 1..m : q[i] = l[i]
        /\ \A i \in (m + 1)..(m + 1) : q[i] = d[i - m]
    BY <1>3, <1>5, <2>1, ConcatIs DEF Joins
  <2>3. \A i \in 1..(m + 1) : \/ i \in 1..m /\ q[i] \in AboutStrand \cup AggEvent
                              \/ i = m + 1 /\ q[i] = Done
    <3>. SUFFICES ASSUME NEW i \in 1..(m + 1), i \notin 1..m PROVE i = m + 1 /\ q[i] = Done
      BY <1>2, <2>1, <2>2 DEF Calm
    <3>1. i = m + 1 /\ i \in (m + 1)..(m + 1) /\ i - m = 1
      BY <2>1
    <3>. QED
      BY <1>3, <2>2, <3>1
  <2>4. \A e \in AboutStrand \cup AggEvent : e # Hello /\ e # Done /\ e \in DeltaEvent \cup Told'
    <3>1. \A e \in AboutStrand : e # Hello /\ e # Done
      BY EventTypes DEF AboutStrand, Hello, Done
    <3>2. \A e \in AggEvent : e # Hello /\ e # Done
      BY DEF AggEvent, Hello, Done
    <3>. QED
      BY <3>1, <3>2 DEF AboutStrand, Told
  <2>5. Done \in Told'
    BY <1>1 DEF Told
  <2>6. NoHello(q) /\ AllIn(q, Told') /\ \A i \in 1..Len(q) : q[i] = Done => i = Len(q)
    BY <2>2, <2>3, <2>4, <2>5, PlainEvents DEF NoHello, AllIn
  <2>. QED
    BY <1>1, <1>6, <1>9, <2>6 DEF Tells
<1>11. RunOk'
  <2>1. pend' \in [Strand -> [Stream -> Nat]] /\ \A s \in Strand : \A k \in Stream : pend'[s][k] <= made'[s][k]
    BY <1>0, <1>1 DEF Flushed, RunType
  <2>2. "cancelled" \in Ended /\ Ended \subseteq StrandState /\ "waiting" \notin Ended
    BY DEF Ended, StrandState
  <2>3. \A s \in Strand : state'[s] \in Ended
    BY <1>1, <2>2 DEF Quiet
  <2>4. state' \in [Strand -> StrandState]
    BY <1>1, <2>2, <2>3
  <2>5. RunType'
    BY <1>0, <1>1, <2>1, <2>4 DEF RunType, StepsTotal
  <2>6. WaitingIdle' /\ Quiet'
    BY <2>2, <2>3 DEF WaitingIdle, Quiet
  <2>. QED
    BY <1>8, <2>3, <2>5, <2>6 DEF RunOk
<1>. QED
  BY <1>0, <1>1, <1>7, <1>10, <1>11, EmitAll DEF RunType

-----------------------------------------------------------------------------
(* The steps of a viewer                                                   *)

\* A viewer that does nothing, while the run does nothing.
LEMMA Untouched ==
  ASSUME NEW u \in Viewer, ViewerOk(u), UNCHANGED <<strandVars, runVars>>, Same(u), sub'[u] = sub[u]
  PROVE  ViewerOk(u)'
<1>1. /\ Told' = Told /\ Rights' = Rights /\ \A c : TrueView(c)' <=> TrueView(c)
      /\ \A s \in Strand : OutOf(s)' = OutOf(s) /\ made'[s] = made[s]
  <2>1. \A s \in Strand : OutOf(s)' = OutOf(s) /\ StepsTotal(s)' = StepsTotal(s) /\ made'[s] = made[s]
    BY DEF OutOf, Out, StepsTotal, strandVars
  <2>2. \A c : Right(c)' <=> Right(c)
    BY <2>1 DEF Right, StepsExact, strandVars, runVars
  <2>3. Rights' = Rights
    BY <2>2 DEF Rights
  <2>4. Told' = Told
    BY DEF Told, runVars
  <2>5. \A c : TrueView(c)' <=> TrueView(c)
    BY DEF TrueView, runVars
  <2>. QED
    BY <2>1, <2>3, <2>4, <2>5
<1>2. Following(u)' <=> Following(u)
  BY DEF Following, Same
<1>3. QueueTold(u)'
  BY <1>1, <1>2 DEF ViewerOk, QueueTold, Same, runVars
<1>4. ViewTold(u)'
  BY <1>1 DEF ViewerOk, ViewTold, Same
<1>5. CaughtUp(u)'
  BY <1>1, <1>2 DEF ViewerOk, CaughtUp, Same
<1>6. AllShown(u)'
  BY <1>1 DEF ViewerOk, AllShown, Same, runVars
<1>. QED
  BY <1>3, <1>4, <1>5, <1>6 DEF ViewerOk

LEMMA RunKept ==
  ASSUME RunOk, UNCHANGED <<strandVars, runVars>>
  PROVE  RunOk'
BY DEF RunOk, RunType, WaitingIdle, Quiet, OutOf, Out, StepsTotal, strandVars, runVars

LEMMA SubscribeStep ==
  ASSUME IInv, NEW v \in Viewer, Subscribe(v)
  PROVE  IInv'
<1>0. RunOk /\ RunType /\ ViewersOk
  BY DEF IInv, RunOk
<1>1. /\ pend' = Flushed /\ UNCHANGED <<state, made, bearing, sent, runVars>> /\ UNCHANGED <<view, answer, snap>>
      /\ conn' = [conn EXCEPT ![v] = "open"]
  BY DEF Subscribe
<1>2. PICK n : n = PushAll([NewSub EXCEPT !.attached = status = "running"], Replay)
  OBVIOUS
<1>3. sub' = [Emit(FlushEvents) EXCEPT ![v] = n]
  BY <1>2 DEF Subscribe, PushAll
<1>4. /\ \A c \in Rights : Read(c, FlushEvents) \in Rights'
      /\ \A s \in Strand : OutOf(s)' = made[s]' /\ (OutOf(s) = made[s] => OutOf(s)' = OutOf(s))
      /\ FlushEvents \in Seq(Event) /\ \A i \in 1..Len(FlushEvents) : FlushEvents[i] \in AboutStrand
  BY <1>0, <1>1, FlushRight DEF runVars
<1>5. RunOk'
  <2>1. pend' \in [Strand -> [Stream -> Nat]] /\ \A s \in Strand : \A k \in Stream : pend'[s][k] <= made'[s][k]
    BY <1>0, <1>1 DEF Flushed, RunType
  <2>2. RunType'
    BY <1>0, <1>1, <2>1 DEF RunType, StepsTotal, runVars
  <2>3. WaitingIdle' /\ (status' # "running" => Quiet')
    BY <1>0, <1>1 DEF WaitingIdle, RunOk, Quiet, runVars
  <2>. QED
    BY <1>0, <1>1, <1>4, <2>2, <2>3 DEF RunOk, runVars
<1>6. DOMAIN Emit(FlushEvents) = Viewer
  BY DEF Emit
<1>7. ViewerOk(v)'
  <2>1. sub'[v] = n /\ conn'[v] = "open"
    BY <1>0, <1>1, <1>3, <1>6 DEF ViewersOk
  <2>. QED
    BY <1>1, <1>2, <1>4, <1>5, <2>1, ReplayedOk
<1>8. ASSUME NEW u \in Viewer, u # v PROVE ViewerOk(u)'
  <2>1. sub'[u] = IF sub[u].attached THEN PushAll(sub[u], FlushEvents) ELSE sub[u]
    BY <1>3, <1>8 DEF Emit, PushAll
  <2>2. Same(u)
    BY <1>0, <1>1, <1>8 DEF Same, ViewersOk
  <2>3. CASE status = "running"
    <3>1. Tells(FlushEvents)
      BY <1>0, <1>4, FlushCalm, CalmTells
    <3>2. RunType' /\ levels <= levels'
      BY <1>0, <1>1, <1>5 DEF runVars, RunOk, RunType
    <3>. QED
      BY <2>1, <2>2, <2>3, <3>1, <3>2, EmitRunning DEF Tells
  <2>4. CASE status # "running"
    <3>1. status \in {"done", "cancelled"} => FlushEvents = <<>>
      BY <1>0, FlushNil DEF RunOk
    <3>2. RunType' /\ status' = status /\ levels' = levels
      BY <1>1, <1>5 DEF runVars, RunOk
    <3>. QED
      BY <1>1, <1>4, <2>1, <2>2, <2>4, <3>1, <3>2, EmitEnded
  <2>. QED
    BY <2>3, <2>4
<1>9. \A u \in Viewer : ViewerOk(u)'
  BY <1>7, <1>8
<1>10. ViewersOk'
  <2>1. \A u \in Viewer : sub'[u] \in SubType
    BY <1>9 DEF ViewerOk, QueueTold, SubOk, SubType
  <2>2. sub' = [u \in Viewer |-> sub'[u]]
    BY <1>3, <1>6 DEF Emit
  <2>3. sub' \in [Viewer -> SubType]
    BY <2>1, <2>2
  <2>4. conn' \in [Viewer -> {"off", "open", "over"}]
    BY <1>0, <1>1 DEF ViewersOk
  <2>. QED
    BY <1>0, <1>1, <2>3, <2>4 DEF ViewersOk
<1>. QED
  BY <1>5, <1>9, <1>10 DEF IInv

\* A cut connection leaves nothing in the queue.
LEMMA LoseStep ==
  ASSUME IInv, NEW v \in Viewer, LoseConnection(v)
  PROVE  IInv'
<1>0. RunOk /\ ViewersOk /\ ViewerOk(v)
  BY DEF IInv
<1>1. /\ UNCHANGED <<strandVars, runVars>> /\ UNCHANGED <<answer, view>>
      /\ conn' = [conn EXCEPT ![v] = "off"] /\ sub' = [sub EXCEPT ![v] = NoSub]
  BY DEF LoseConnection
<1>2. snap' = [snap EXCEPT ![v] = snap'[v]] /\ snap'[v] \in {snap[v], "asked"}
  <2>1. PICK x : x = (IF errors[v] + 1 = ResyncAfter /\ snap[v] = "none" THEN "asked" ELSE snap[v])
    OBVIOUS
  <2>2. snap' = [snap EXCEPT ![v] = x] /\ x \in {snap[v], "asked"}
    BY <2>1 DEF LoseConnection
  <2>3. snap'[v] = x
    BY <1>0, <2>2 DEF ViewersOk
  <2>. QED
    BY <2>2, <2>3
<1>3. RunOk'
  BY <1>0, <1>1, RunKept
<1>4. SubOk(NoSub) /\ NoSub \in SubType /\ NoSub.closed /\ NoSub.queue = <<>>
  <2>1. QueueOk(<<>>)
    BY NilIs DEF QueueOk
  <2>. QED
    BY <2>1, NilIs DEF NoSub, SubOk, SubType
<1>5. ViewersOk'
  BY <1>0, <1>1, <1>2, <1>4 DEF ViewersOk
<1>6. ViewerOk(v)'
  <2>1. sub'[v] = NoSub /\ conn'[v] = "off" /\ view'[v] = view[v] /\ answer'[v] = answer[v]
    BY <1>0, <1>1 DEF ViewersOk
  <2>2. AllIn(NoSub.queue, Told') /\ EndsWell(NoSub.queue) /\ Covered(NoSub.queue)
    BY <1>4, NilIs DEF AllIn, EndsWell, Covered
  <2>3. ~Following(v)'
    BY <2>1 DEF Following
  <2>4. QueueTold(v)'
    BY <1>4, <2>1, <2>2, <2>3 DEF QueueTold
  <2>5. ViewTold(v)'
    BY <1>0, <1>1, <1>2, <2>1 DEF ViewerOk, ViewTold, TrueView, runVars
  <2>. QED
    BY <2>1, <2>3, <2>4, <2>5 DEF ViewerOk, CaughtUp, AllShown
<1>7. ASSUME NEW u \in Viewer, u # v PROVE ViewerOk(u)'
  <2>1. Same(u) /\ sub'[u] = sub[u]
    BY <1>0, <1>1, <1>2, <1>7 DEF Same, ViewersOk
  <2>. QED
    BY <1>1, <2>1, Untouched DEF IInv
<1>. QED
  BY <1>3, <1>5, <1>6, <1>7 DEF IInv

LEMMA SnapshotType ==
  ASSUME RunType
  PROVE  Snapshot \in ViewT /\ Snapshot.loaded /\ TrueView(Snapshot)
<1>1. \A s \in Strand : [state |-> state[s],
                         text |-> [k \in Stream |-> Upto(made[s][k], TextCap)],
                         chunks |-> made[s]["reasoning"] + made[s]["text"],
                         steps |-> FullEvent(s, state[s]).steps] \in ViewStrand
  <2>. TAKE s \in Strand
  <2>1. \A k \in Stream : Upto(made[s][k], TextCap) \in Seq(Nat)
    BY CountsNat, UptoType, Caps
  <2>2. made[s]["reasoning"] + made[s]["text"] \in Nat
    BY CountsNat, TwoStreams
  <2>3. state[s] \in StrandState
    BY DEF RunType
  <2>4. FullEvent(s, state[s]).steps \in Seq(Nat)
    BY <2>3, FullIs DEF StrandEvent
  <2>. QED
    BY <2>1, <2>2, <2>3, <2>4 DEF ViewStrand
<1>2. Upto(ticks, AggKeep) \in Seq(Nat)
  BY UptoType, Caps DEF RunType
<1>3. 1..levels \in SUBSET Nat
  BY DEF RunType
<1>4. Snapshot \in ViewT
  BY <1>1, <1>2, <1>3 DEF Snapshot, ViewT
<1>5. Snapshot.loaded /\ Snapshot.levels = 1..levels /\ (Snapshot.done <=> status # "running") /\ (Snapshot.error <=> status = "error")
  BY DEF Snapshot
<1>. QED
  BY <1>4, <1>5 DEF TrueView

\* What is read tells the truth of the run.
LEMMA TrueRead ==
  ASSUME RunType, NEW w \in ViewT, TrueView(w), NEW e \in Event, e \in DeltaEvent \cup Told, NEW u, u = Reduce(w, e)
  PROVE  /\ u \in ViewT /\ TrueView(u)
         /\ e # Hello => u.loaded = w.loaded
         /\ e = Error => u.error
<1>0. {"strands", "aggs", "levels", "done", "error", "loaded"} = DOMAIN w
  BY DEF ViewT
<1>1. CASE e \in AboutStrand
  <2>1. u \in ViewT /\ RestSame(u, w)
    BY <1>1, AboutRest
  <2>2. e # Error
    BY <1>1, EventTypes DEF AboutStrand, Error
  <2>. QED
    BY <2>1, <2>2 DEF RestSame, TrueView
<1>2. CASE e = Hello
  <2>1. u \in ViewT /\ u.done = w.done /\ u.error = w.error /\ u.levels = w.levels
    BY <1>0, <1>2, ReduceHello
  <2>. QED
    BY <1>2, <2>1, PlainEvents DEF TrueView
<1>3. CASE e \in AggEvent
  <2>1. e.type = "agg" /\ e.t \in Nat /\ e # Error
    BY <1>3 DEF AggEvent, Error
  <2>2. u \in ViewT /\ u.done = w.done /\ u.error = w.error /\ u.levels = w.levels /\ u.loaded = w.loaded
    BY <1>0, <2>1, ReduceAgg
  <2>. QED
    BY <2>1, <2>2 DEF TrueView
<1>4. CASE e \in LevelEvent /\ e.l \in 1..levels
  <2>1. e.type = "level" /\ e.l \in Nat /\ e # Error
    BY <1>4 DEF LevelEvent, Error
  <2>2. u \in ViewT /\ u.done = w.done /\ u.error = w.error /\ u.levels = w.levels \cup {e.l} /\ u.loaded = w.loaded
    BY <1>0, <2>1, ReduceLevel
  <2>. QED
    BY <1>4, <2>1, <2>2 DEF TrueView
<1>5. CASE e = Done /\ status # "running"
  <2>1. u \in ViewT /\ u.done /\ u.error = w.error /\ u.levels = w.levels /\ u.loaded = w.loaded
    BY <1>0, <1>5, ReduceDone
  <2>. QED
    BY <1>5, <2>1, PlainEvents DEF TrueView
<1>6. CASE e = Error /\ status = "error"
  <2>1. u \in ViewT /\ u.error /\ u.done = w.done /\ u.levels = w.levels /\ u.loaded = w.loaded
    BY <1>0, <1>6, ReduceError
  <2>. QED
    BY <1>6, <2>1, PlainEvents DEF TrueView
<1>. QED
  BY <1>1, <1>2, <1>3, <1>4, <1>5, <1>6 DEF Told, AboutStrand

\* What is left of a queue when its head is read.
Peeled(q, e, t) == QueueOk(q) /\ q # <<>> /\ e = Head(q) /\ t = Tail(q)

LEMMA TailOk ==
  ASSUME NEW q, NEW e, NEW t, Peeled(q, e, t)
  PROVE  /\ QueueOk(t) /\ ~HasHello(t) /\ e \in Event
         /\ HasHello(q) <=> e = Hello
         /\ \A G : AllIn(q, G) => AllIn(t, G) /\ e \in DeltaEvent \cup G
         /\ e # Error => (Covered(q) => Covered(t) /\ e # Done) /\ (EndsWell(q) => EndsWell(t))
         /\ e = Done /\ EndsWell(q) => q = <<Done>>
<1>0. q \in Seq(Event) /\ QueueOk(q) /\ q # <<>> /\ e = Head(q) /\ t = Tail(q)
  BY DEF QueueOk, Peeled
<1>1. PICK n \in Nat : Len(q) = n + 1
  BY <1>0
<1>2. t \in Seq(Event) /\ Len(t) = n /\ e = q[1] /\ e \in Event /\ \A i \in 1..n : t[i] = q[i + 1]
  BY <1>0, <1>1
<1>3. \A i \in 1..n : i + 1 \in 1..(n + 1) /\ i + 1 >= 2
  OBVIOUS
<1>4. QueueOk(t)
  BY <1>0, <1>1, <1>2, <1>3 DEF QueueOk
<1>5. ~HasHello(t)
  BY <1>0, <1>1, <1>2, <1>3 DEF QueueOk, HasHello
<1>6. 1 \in 1..(n + 1) /\ \A i \in 1..(n + 1) : i = 1 \/ i >= 2
  OBVIOUS
<1>7. HasHello(q) <=> e = Hello
  BY <1>0, <1>1, <1>2, <1>6 DEF QueueOk, HasHello
<1>8. \A G : AllIn(q, G) => AllIn(t, G) /\ e \in DeltaEvent \cup G
  BY <1>1, <1>2, <1>3, <1>6 DEF AllIn
<1>9. ASSUME e # Error, NEW i \in 1..n, \E j \in 1..(n + 1) : j < i + 1 /\ q[j] = Error
      PROVE  \E j \in 1..n : j < i /\ t[j] = Error
  <2>1. PICK j \in 1..(n + 1) : j < i + 1 /\ q[j] = Error
    BY <1>9
  <2>2. j # 1
    BY <1>2, <1>9, <2>1
  <2>3. PICK k \in 1..n : k + 1 = j /\ k < i
    BY <2>1, <2>2
  <2>. QED
    BY <1>2, <2>1, <2>3
<1>10. ASSUME e # Error, Covered(q) PROVE Covered(t) /\ e # Done
  <2>1. Covered(t)
    BY <1>1, <1>2, <1>3, <1>9, <1>10 DEF Covered
  <2>2. e # Done
    <3>1. \A j \in 1..(n + 1) : ~(j < 1)
      OBVIOUS
    <3>. QED
      BY <1>1, <1>2, <1>6, <1>10, <3>1 DEF Covered
  <2>. QED
    BY <2>1, <2>2
<1>11. ASSUME e # Error, EndsWell(q) PROVE EndsWell(t)
  <2>1. \A i \in 1..n : i + 1 = n + 1 => i = n
    OBVIOUS
  <2>. QED
    BY <1>1, <1>2, <1>3, <1>9, <1>11, <2>1 DEF EndsWell
<1>12. ASSUME e = Done, EndsWell(q) PROVE q = <<Done>>
  <2>1. \A j \in 1..(n + 1) : ~(j < 1)
    OBVIOUS
  <2>2. 1 = n + 1
    BY <1>1, <1>2, <1>6, <1>12, <2>1 DEF EndsWell
  <2>3. Len(q) = 1 /\ q[1] = Done
    BY <1>1, <1>2, <1>12, <2>2
  <2>. QED
    BY <1>0, <2>3
<1>. QED
  BY <1>2, <1>4, <1>5, <1>7, <1>8, <1>10, <1>11, <1>12

LEMMA LastTypes == \A e \in Event : e.type \in {"done", "error"} <=> e \in {Done, Error}
BY DEF Event, DeltaEvent, StrandEvent, Hello, Done, Error

\* The tab reads on.
LEMMA TakeMore ==
  ASSUME RunOk, NEW v \in Viewer, ViewerOk(v), NEW w \in ViewT, w = view[v], NEW q, q = sub[v].queue, q # <<>>,
         NEW e, e = Head(q), e \notin {Done, Error}, NEW u, u = Reduce(w, e), conn[v] = "open",
         UNCHANGED <<strandVars, runVars>>, conn'[v] = conn[v], answer'[v] = answer[v], snap'[v] = snap[v],
         view'[v] = u, sub'[v] = [sub[v] EXCEPT !.queue = Tail(q)]
  PROVE  ViewerOk(v)'
<1>0. RunType /\ QueueTold(v) /\ ViewTold(v) /\ CaughtUp(v)
  BY DEF RunOk, ViewerOk
<1>1. PICK b : b = sub[v] /\ SubOk(b) /\ b.queue = q
  BY <1>0 DEF QueueTold
<1>2. QueueOk(q) /\ q \in Seq(Event) /\ ~b.closed
  BY <1>1 DEF SubOk, QueueOk
<1>3. PICK t : t = Tail(q)
  OBVIOUS
<1>4. /\ QueueOk(t) /\ ~HasHello(t) /\ e \in Event /\ (HasHello(q) <=> e = Hello)
      /\ AllIn(t, Told) /\ e \in DeltaEvent \cup Told
      /\ (Covered(q) => Covered(t)) /\ (EndsWell(q) => EndsWell(t))
  <2>1. Peeled(q, e, t)
    BY <1>2, <1>3 DEF Peeled
  <2>2. /\ QueueOk(t) /\ ~HasHello(t) /\ e \in Event /\ (HasHello(q) <=> e = Hello)
        /\ \A G : AllIn(q, G) => AllIn(t, G) /\ e \in DeltaEvent \cup G
        /\ e # Error => (Covered(q) => Covered(t) /\ e # Done) /\ (EndsWell(q) => EndsWell(t))
        /\ e = Done /\ EndsWell(q) => q = <<Done>>
    BY ONLY <2>1, TailOk
  <2>3. AllIn(q, Told)
    BY <1>0, <1>1 DEF QueueTold
  <2>. QED
    BY <2>2, <2>3
<1>5. PICK c : c = sub'[v] /\ c.queue = t /\ ~c.closed /\ c.attached = b.attached /\ SubOk(c)
  <2>1. PICK c : c = [b EXCEPT !.queue = t] /\ c = sub'[v]
    BY <1>1, <1>3
  <2>2. c.queue = t /\ c.closed = b.closed /\ c.attached = b.attached
        /\ c \in [queue : Seq(Event), closed : BOOLEAN, attached : BOOLEAN]
    BY <1>1, <1>4, <2>1 DEF SubOk, QueueOk
  <2>. QED
    BY <1>2, <1>4, <2>1, <2>2 DEF SubOk
<1>6. /\ Told' = Told /\ Rights' = Rights /\ (\A x : TrueView(x)' <=> TrueView(x))
      /\ \A s \in Strand : OutOf(s)' = OutOf(s) /\ made'[s] = made[s]
  <2>1. \A s \in Strand : OutOf(s)' = OutOf(s) /\ StepsTotal(s)' = StepsTotal(s) /\ made'[s] = made[s]
    BY DEF OutOf, Out, StepsTotal, strandVars
  <2>2. \A x : Right(x)' <=> Right(x)
    BY <2>1 DEF Right, StepsExact, strandVars, runVars
  <2>3. Rights' = Rights
    BY <2>2 DEF Rights
  <2>4. Told' = Told /\ \A x : TrueView(x)' <=> TrueView(x)
    BY DEF Told, TrueView, runVars
  <2>. QED
    BY <2>1, <2>3, <2>4
<1>7. TrueView(w)
  BY <1>0 DEF ViewTold
<1>8. u \in ViewT /\ TrueView(u) /\ (e # Hello => u.loaded = w.loaded)
  BY <1>0, <1>4, <1>7, TrueRead
<1>9. Following(v)' /\ Following(v)
  BY <1>1, <1>2, <1>5 DEF Following
<1>10. QueueTold(v)'
  BY <1>0, <1>1, <1>4, <1>5, <1>6, <1>9 DEF QueueTold, runVars
<1>11. ViewTold(v)'
  BY <1>0, <1>6, <1>8 DEF ViewTold
<1>12. CaughtUp(v)'
  <2>. SUFFICES ASSUME NEW x \in Bases(u, t) PROVE Read(x, t) \in Rights
    BY <1>5, <1>6 DEF CaughtUp
  <2>1. x = u /\ ~u.loaded
    BY <1>4 DEF Bases
  <2>2. w \in Bases(w, q)
    BY <1>4, <1>8, <2>1 DEF Bases
  <2>3. Read(w, q) \in Rights
    BY <1>0, <1>9, <2>2 DEF CaughtUp
  <2>4. Read(w, q) = Read(u, t)
    BY <1>2, <1>3, ReadHead
  <2>. QED
    BY <2>1, <2>3, <2>4
<1>. QED
  BY <1>10, <1>11, <1>12 DEF ViewerOk, AllShown

\* The tab reads the end of the run.
LEMMA TakeLast ==
  ASSUME RunOk, NEW v \in Viewer, ViewerOk(v), NEW w \in ViewT, w = view[v], NEW q, q = sub[v].queue, q # <<>>,
         NEW e, e = Head(q), e \in {Done, Error}, NEW u, u = Reduce(w, e), conn[v] = "open",
         UNCHANGED <<strandVars, runVars>>, conn'[v] = "over", answer'[v] = answer[v], snap'[v] = snap[v],
         view'[v] = u, sub'[v] = NoSub
  PROVE  ViewerOk(v)'
<1>0. RunType /\ QueueTold(v) /\ ViewTold(v) /\ CaughtUp(v)
  BY DEF RunOk, ViewerOk
<1>1. PICK b : b = sub[v] /\ SubOk(b) /\ b.queue = q
  BY <1>0 DEF QueueTold
<1>2. QueueOk(q) /\ q \in Seq(Event) /\ ~b.closed
  BY <1>1 DEF SubOk, QueueOk
<1>4. /\ e \in Event /\ (HasHello(q) <=> e = Hello) /\ e \in DeltaEvent \cup Told
      /\ e # Error /\ Covered(q) => e # Done
      /\ e = Done /\ EndsWell(q) => q = <<Done>>
  <2>0. PICK t : t = Tail(q)
    OBVIOUS
  <2>1. Peeled(q, e, t)
    BY <1>2, <2>0 DEF Peeled
  <2>2. /\ QueueOk(t) /\ ~HasHello(t) /\ e \in Event /\ (HasHello(q) <=> e = Hello)
        /\ \A G : AllIn(q, G) => AllIn(t, G) /\ e \in DeltaEvent \cup G
        /\ e # Error => (Covered(q) => Covered(t) /\ e # Done) /\ (EndsWell(q) => EndsWell(t))
        /\ e = Done /\ EndsWell(q) => q = <<Done>>
    BY ONLY <2>1, TailOk
  <2>3. AllIn(q, Told)
    BY <1>0, <1>1 DEF QueueTold
  <2>. QED
    BY <2>2, <2>3
<1>5. SubOk(NoSub) /\ NoSub.closed /\ NoSub.queue = <<>>
  <2>1. QueueOk(<<>>)
    BY NilIs DEF QueueOk
  <2>. QED
    BY <2>1, NilIs DEF NoSub, SubOk
<1>6. Rights' = Rights /\ (\A x : TrueView(x)' <=> TrueView(x))
  <2>1. \A s \in Strand : OutOf(s)' = OutOf(s) /\ StepsTotal(s)' = StepsTotal(s)
    BY DEF OutOf, Out, StepsTotal, strandVars
  <2>2. \A x : Right(x)' <=> Right(x)
    BY <2>1 DEF Right, StepsExact, strandVars, runVars
  <2>3. Rights' = Rights
    BY <2>2 DEF Rights
  <2>4. \A x : TrueView(x)' <=> TrueView(x)
    BY DEF TrueView, runVars
  <2>. QED
    BY <2>3, <2>4
<1>7. TrueView(w)
  BY <1>0 DEF ViewTold
<1>8. u \in ViewT /\ TrueView(u) /\ u.loaded = w.loaded /\ (e = Error => u.error)
  BY <1>0, <1>4, <1>7, TrueRead, PlainEvents
<1>9. Following(v) /\ ~Following(v)'
  BY <1>1, <1>2 DEF Following
<1>10. QueueTold(v)'
  <2>1. AllIn(NoSub.queue, Told') /\ EndsWell(NoSub.queue) /\ Covered(NoSub.queue)
    BY <1>5, NilIs DEF AllIn, EndsWell, Covered
  <2>. QED
    BY <1>5, <1>9, <2>1 DEF QueueTold
<1>11. ViewTold(v)'
  BY <1>0, <1>6, <1>8 DEF ViewTold
<1>12. AllShown(v)'
  <2>. SUFFICES ASSUME ~u.error, ~u.loaded PROVE status \in {"done", "cancelled"} /\ u \in Rights
    BY <1>6 DEF AllShown, runVars
  <2>1. e = Done /\ e # Error /\ e # Hello
    BY <1>8, PlainEvents
  <2>2. status \in {"done", "cancelled"}
    BY <1>0, <1>4, <2>1 DEF QueueTold
  <2>3. q = <<Done>>
    BY <1>0, <1>4, <2>1, <2>2 DEF QueueTold
  <2>4. Read(w, q) = u
    BY <2>1, <2>3, ReadOne, PlainEvents
  <2>5. w \in Bases(w, q)
    BY <1>8 DEF Bases
  <2>6. Read(w, q) \in Rights
    BY <1>0, <1>9, <2>5 DEF CaughtUp
  <2>. QED
    BY <2>2, <2>4, <2>6
<1>. QED
  BY <1>9, <1>10, <1>11, <1>12 DEF ViewerOk, CaughtUp

LEMMA TakeStep ==
  ASSUME IInv, NEW v \in Viewer, Take(v)
  PROVE  IInv'
<1>0. RunOk /\ RunType /\ ViewersOk /\ ViewerOk(v)
  BY DEF IInv, RunOk
<1>1. PICK w, q, e, u : w \in ViewT /\ w = view[v] /\ q = sub[v].queue /\ e = Head(q) /\ u = Reduce(w, e)
  BY <1>0 DEF ViewersOk
<1>2. q # <<>> /\ conn[v] = "open" /\ UNCHANGED <<strandVars, runVars>> /\ UNCHANGED <<answer, snap>> /\ view' = [view EXCEPT ![v] = u]
  BY <1>1 DEF Take
<1>3. \/ e.type \in {"done", "error"} /\ conn' = [conn EXCEPT ![v] = "over"] /\ sub' = [sub EXCEPT ![v] = NoSub]
      \/ e.type \notin {"done", "error"} /\ conn' = conn /\ sub' = [sub EXCEPT ![v] = [sub[v] EXCEPT !.queue = Tail(q)]]
  BY <1>1 DEF Take
<1>4. QueueOk(q) /\ e \in Event
  <2>1. PICK t : t = Tail(q)
    OBVIOUS
  <2>2. QueueOk(q)
    BY <1>0, <1>1 DEF ViewerOk, QueueTold, SubOk
  <2>3. Peeled(q, e, t)
    BY <1>1, <1>2, <2>1, <2>2 DEF Peeled
  <2>. QED
    BY <2>2, <2>3, TailOk
<1>5. RunOk'
  BY <1>0, <1>2, RunKept
<1>6. view'[v] = u /\ answer'[v] = answer[v] /\ snap'[v] = snap[v]
  BY <1>0, <1>2 DEF ViewersOk
<1>7. ViewerOk(v)'
  <2>1. CASE e \in {Done, Error}
    <3>1. conn'[v] = "over" /\ sub'[v] = NoSub
      BY <1>0, <1>3, <1>4, <2>1, LastTypes DEF ViewersOk
    <3>. QED
      BY <1>0, <1>1, <1>2, <1>6, <2>1, <3>1, TakeLast
  <2>2. CASE e \notin {Done, Error}
    <3>1. conn'[v] = conn[v] /\ sub'[v] = [sub[v] EXCEPT !.queue = Tail(q)]
      BY <1>0, <1>3, <1>4, <2>2, LastTypes DEF ViewersOk
    <3>. QED
      BY <1>0, <1>1, <1>2, <1>6, <2>2, <3>1, TakeMore
  <2>. QED
    BY <2>1, <2>2
<1>8. ASSUME NEW x \in Viewer, x # v PROVE ViewerOk(x)' /\ sub'[x] = sub[x]
  <2>1. Same(x) /\ sub'[x] = sub[x]
    BY <1>0, <1>2, <1>3, <1>8 DEF Same, ViewersOk
  <2>. QED
    BY <1>2, <2>1, Untouched DEF IInv
<1>9. ViewersOk'
  <2>1. view' \in [Viewer -> ViewT]
    <3>1. u \in ViewT
      BY <1>1, <1>4, ReduceType
    <3>. QED
      BY <1>0, <1>2, <3>1 DEF ViewersOk
  <2>2. conn' \in [Viewer -> {"off", "open", "over"}]
    BY <1>0, <1>3 DEF ViewersOk
  <2>3. sub'[v] \in SubType
    BY <1>7 DEF ViewerOk, QueueTold, SubOk, SubType
  <2>4. sub' \in [Viewer -> SubType]
    <3>1. sub' = [sub EXCEPT ![v] = sub'[v]]
      BY <1>0, <1>3 DEF ViewersOk
    <3>. QED
      BY <1>0, <2>3, <3>1 DEF ViewersOk
  <2>. QED
    BY <1>0, <1>2, <2>1, <2>2, <2>4 DEF ViewersOk
<1>. QED
  BY <1>5, <1>7, <1>8, <1>9 DEF IInv

\* A step of v's snapshot request.
LEMMA SnapStep ==
  ASSUME IInv, NEW v \in Viewer, ReadSnapshot(v) \/ ShowSnapshot(v) \/ LoseSnapshot(v)
  PROVE  IInv'
<1>0. RunOk /\ RunType /\ ViewersOk /\ ViewerOk(v)
  BY DEF IInv, RunOk
<1>1. UNCHANGED <<strandVars, runVars>> /\ UNCHANGED <<sub, conn>>
  BY DEF ReadSnapshot, ShowSnapshot, LoseSnapshot
<1>2. RunOk'
  BY <1>0, <1>1, RunKept
<1>3. PICK w \in ViewT, a \in ViewT : w = view[v] /\ a = answer[v]
  BY <1>0 DEF ViewersOk
<1>4. \/ snap' = [snap EXCEPT ![v] = "read"] /\ answer' = [answer EXCEPT ![v] = Snapshot] /\ view' = view
      \/ snap' = [snap EXCEPT ![v] = "none"] /\ answer' = [answer EXCEPT ![v] = BlankView]
         /\ view' = [view EXCEPT ![v] = a] /\ snap[v] = "read"
      \/ snap' = [snap EXCEPT ![v] = "none"] /\ answer' = answer /\ view' = view
  BY <1>3 DEF ReadSnapshot, ShowSnapshot, LoseSnapshot
<1>5. Snapshot \in ViewT /\ Snapshot.loaded /\ TrueView(Snapshot)
  BY <1>0, SnapshotType
<1>6. BlankView \in ViewT /\ TrueView(BlankView)
  <2>1. 1..levels \subseteq Nat
    BY <1>0 DEF RunType
  <2>. QED
    BY <2>1, BlankType DEF TrueView, BlankView
<1>7. ViewersOk'
  BY <1>0, <1>1, <1>3, <1>4, <1>5, <1>6 DEF ViewersOk
<1>8. TrueView(w) /\ TrueView(a) /\ (snap[v] = "read" => a.loaded)
  BY <1>0, <1>3 DEF ViewerOk, ViewTold
<1>9. \A x : TrueView(x)' <=> TrueView(x)
  BY <1>1 DEF TrueView, runVars
<1>10. \/ view'[v] = w /\ (answer'[v] = a \/ answer'[v] = Snapshot) /\ (snap'[v] = "read" => answer'[v] = Snapshot)
       \/ view'[v] = a /\ a.loaded /\ answer'[v] = BlankView /\ snap'[v] = "none"
  BY <1>0, <1>3, <1>4, <1>8 DEF ViewersOk
<1>11. ViewTold(v)'
  BY <1>5, <1>6, <1>8, <1>9, <1>10 DEF ViewTold
<1>12. Told' = Told /\ Rights' = Rights /\ \A s \in Strand : OutOf(s)' = OutOf(s) /\ made'[s] = made[s]
  <2>1. \A s \in Strand : OutOf(s)' = OutOf(s) /\ StepsTotal(s)' = StepsTotal(s) /\ made'[s] = made[s]
    BY <1>1 DEF OutOf, Out, StepsTotal, strandVars
  <2>2. \A x : Right(x)' <=> Right(x)
    BY <1>1, <2>1 DEF Right, StepsExact, strandVars, runVars
  <2>3. Rights' = Rights
    BY <2>2 DEF Rights
  <2>4. Told' = Told
    BY <1>1 DEF Told, runVars
  <2>. QED
    BY <2>1, <2>3, <2>4
<1>13. Following(v)' <=> Following(v)
  BY <1>1 DEF Following
<1>14. QueueTold(v)'
  BY <1>0, <1>1, <1>12, <1>13 DEF ViewerOk, QueueTold, runVars
<1>15. CaughtUp(v)'
  <2>. SUFFICES ASSUME Following(v), NEW x \in Bases(view'[v], sub[v].queue) PROVE Read(x, sub[v].queue) \in Rights
    BY <1>1, <1>12, <1>13 DEF CaughtUp
  <2>1. x \in Bases(w, sub[v].queue)
    BY <1>10 DEF Bases
  <2>. QED
    BY <1>0, <1>3, <2>1 DEF ViewerOk, CaughtUp
<1>16. AllShown(v)'
  BY <1>0, <1>1, <1>3, <1>10, <1>12 DEF ViewerOk, AllShown, runVars
<1>17. ASSUME NEW x \in Viewer, x # v PROVE ViewerOk(x)'
  <2>1. Same(x) /\ sub'[x] = sub[x]
    BY <1>0, <1>1, <1>4, <1>17 DEF Same, ViewersOk
  <2>. QED
    BY <1>1, <2>1, Untouched DEF IInv
<1>18. ViewerOk(v)'
  BY <1>11, <1>14, <1>15, <1>16 DEF ViewerOk
<1>. QED
  BY <1>2, <1>7, <1>17, <1>18 DEF IInv

-----------------------------------------------------------------------------
(* The invariant is one                                                    *)

LEMMA InitInv == Init => IInv
<1>. SUFFICES ASSUME Init PROVE IInv
  OBVIOUS
<1>1. RunType
  BY DEF Init, RunType, Flushed, StrandState, StepsTotal
<1>2. WaitingIdle
  BY DEF Init, WaitingIdle, Flushed
<1>3. RunOk
  BY <1>1, <1>2 DEF RunOk, Init
<1>4. SubOk(NoSub) /\ NoSub \in SubType /\ NoSub.closed /\ NoSub.queue = <<>>
  <2>1. QueueOk(<<>>)
    BY NilIs DEF QueueOk
  <2>. QED
    BY <2>1, NilIs DEF NoSub, SubOk, SubType
<1>5. ViewersOk
  BY <1>4, BlankType DEF ViewersOk, Init
<1>6. ASSUME NEW v \in Viewer PROVE ViewerOk(v)
  <2>1. sub[v] = NoSub /\ conn[v] = "off" /\ snap[v] = "none" /\ answer[v] = BlankView /\ view[v] = BlankView
        /\ status = "running"
    BY DEF Init
  <2>2. AllIn(NoSub.queue, Told) /\ EndsWell(NoSub.queue) /\ Covered(NoSub.queue)
    BY <1>4, NilIs DEF AllIn, EndsWell, Covered
  <2>3. TrueView(BlankView)
    BY DEF TrueView, BlankView
  <2>. QED
    BY <1>4, <2>1, <2>2, <2>3 DEF ViewerOk, QueueTold, ViewTold, CaughtUp, AllShown, Following
<1>. QED
  BY <1>3, <1>5, <1>6 DEF IInv

LEMMA NextInv == IInv /\ [Next]_vars => IInv'
<1>. SUFFICES ASSUME IInv, [Next]_vars PROVE IInv'
  OBVIOUS
<1>1. ASSUME NEW s \in Strand, StrandStep(s) PROVE IInv'
  BY <1>1, StartStep, ChunkStep, EndStep, FanOutAssumption DEF StrandStep
<1>2. CASE Flush
  BY <1>2, FlushStep
<1>3. CASE TickAgg
  BY <1>3, TickStep
<1>4. CASE PushLevel
  BY <1>4, LevelStep
<1>5. CASE RunEnds
  BY <1>5, FailStep, FinishStep DEF RunEnds
<1>6. ASSUME NEW v \in Viewer, ViewerStep(v) PROVE IInv'
  <2>1. CASE Subscribe(v)
    BY <2>1, SubscribeStep
  <2>2. CASE Take(v)
    BY <2>2, TakeStep
  <2>3. CASE Overflow(v) \/ Drop(v)
    BY <2>3, LoseStep DEF Overflow, Drop
  <2>4. CASE ReadSnapshot(v) \/ ShowSnapshot(v) \/ LoseSnapshot(v)
    BY <2>4, SnapStep
  <2>. QED
    BY <1>6, <2>1, <2>2, <2>3, <2>4 DEF ViewerStep
<1>7. CASE UNCHANGED vars
  <2>1. UNCHANGED <<strandVars, runVars>> /\ UNCHANGED <<sub, conn, snap, answer, view>>
    BY <1>7 DEF vars, viewerVars
  <2>2. \A v \in Viewer : Same(v) /\ sub'[v] = sub[v]
    BY <2>1 DEF Same
  <2>3. RunOk' /\ ViewersOk'
    BY <2>1, RunKept DEF IInv, ViewersOk
  <2>. QED
    BY <2>1, <2>2, <2>3, Untouched DEF IInv
<1>. QED
  BY <1>1, <1>2, <1>3, <1>4, <1>5, <1>6, <1>7 DEF Next

LEMMA Invariance == Spec => []IInv
BY InitInv, NextInv, PTL DEF Spec

-----------------------------------------------------------------------------
(* The theorems                                                            *)

\* A viewer that lags, or that joined late, loses no text and sees none twice.
THEOREM TranscriptIsExact == Spec => []TranscriptExact
<1>1. IInv => TranscriptExact
  <2>. SUFFICES ASSUME IInv, NEW v \in Viewer, Following(v), NEW c, c = Caught(v), ~c.loaded, NEW s \in Strand
                PROVE  /\ \A k \in Stream : LET text == c.strands[s].text[k] IN
                            /\ text = Upto(Out(s, k), Len(text))
                            /\ Len(text) >= Least(Out(s, k), TextCap)
                       /\ c.strands[s].chunks = Out(s, "reasoning") + Out(s, "text")
    BY DEF TranscriptExact
  <2>0. RunType
    BY DEF IInv, RunOk
  <2>1. Shown(c.strands[s], OutOf(s))
    BY ShownRight DEF Rights, Right
  <2>2. c.strands[s].chunks = Out(s, "reasoning") + Out(s, "text")
    BY <2>0, <2>1, CountsNat, TwoStreams DEF Shown, Chunks
  <2>3. ASSUME NEW k \in Stream
        PROVE  LET text == c.strands[s].text[k] IN
                 text = Upto(Out(s, k), Len(text)) /\ Len(text) >= Least(Out(s, k), TextCap)
    <3>1. PICK o \in Nat : o = Out(s, k) /\ o = OutOf(s)[k]
      BY <2>0, CountsNat
    <3>2. PICK t : t = c.strands[s].text[k]
      OBVIOUS
    <3>3. TextOk(t, o)
      BY <2>1, <3>1, <3>2 DEF Shown
    <3>4. PICK l \in 0..o : t = Upto(o, l) /\ l >= Least(o, TextCap)
      BY <3>3 DEF TextOk
    <3>5. Len(t) = l
      BY <3>4, UptoIs DEF Text
    <3>. QED
      BY <3>1, <3>2, <3>4, <3>5
  <2>. QED
    BY <2>2, <2>3
<1>. QED
  BY <1>1, Invariance, PTL

\* A viewer that has caught up with an ended strand holds its last steps.
THEOREM EndedStepsAreExact == Spec => []EndedStepsExact
<1>1. IInv => EndedStepsExact
  BY ShownRight DEF EndedStepsExact, Rights, Right, StepsExact
<1>. QED
  BY <1>1, Invariance, PTL

\* No tab shows an end that is not the run's, and none is shown less than all of it.
THEOREM EndIsShownReal == Spec => []EndIsReal
<1>1. IInv => EndIsReal
  <2>. SUFFICES ASSUME IInv, NEW v \in Viewer
                PROVE  /\ view[v].done => status # "running"
                       /\ view[v].error => status = "error"
                       /\ (conn[v] = "over" /\ ~view[v].error /\ ~view[v].loaded) =>
                            /\ view[v].levels = 1..levels
                            /\ \A s \in Strand :
                                 /\ view[v].strands[s].state = state[s] /\ state[s] \in Ended
                                 /\ view[v].strands[s].chunks = made[s]["reasoning"] + made[s]["text"]
    BY DEF EndIsReal
  <2>1. TrueView(view[v]) /\ AllShown(v) /\ RunOk
    BY DEF IInv, ViewerOk, ViewTold
  <2>2. ASSUME conn[v] = "over", ~view[v].error, ~view[v].loaded
        PROVE  /\ view[v].levels = 1..levels
               /\ \A s \in Strand :
                    /\ view[v].strands[s].state = state[s] /\ state[s] \in Ended
                    /\ view[v].strands[s].chunks = made[s]["reasoning"] + made[s]["text"]
    <3>1. status \in {"done", "cancelled"} /\ Right(view[v])
      BY <2>1, <2>2 DEF AllShown, Rights
    <3>2. \A s \in Strand : state[s] \in Ended /\ OutOf(s) = made[s]
      BY <2>1, <3>1 DEF RunOk
    <3>. QED
      BY <2>1, <3>1, <3>2 DEF Right, Shown, Chunks, TrueView
  <2>. QED
    BY <2>1, <2>2 DEF TrueView
<1>. QED
  BY <1>1, Invariance, PTL

=============================================================================
