-------------------------- MODULE GameSocketProofs --------------------------
(***************************************************************************)
(* Proofs about module GameSocket, for every code and tree that belong     *)
(* together, every set of packets, every cut of the stream into reads and  *)
(* every number of packets and connections.                                *)
(*                                                                         *)
(* That a whole packet survives compression is an assumption about the two *)
(* tables (CodeAssumption).  What is proved is that the rest of the way    *)
(* does no harm: the decompressor gives the same symbols however its input *)
(* is cut, and the parser takes the packets out of them where the server   *)
(* put them together.                                                      *)
(***************************************************************************)
EXTENDS GameSocket, SequenceTheorems, WellFoundedInduction, TLAPS

USE ByteAssumption, TreeAssumption

-----------------------------------------------------------------------------
(* Induction and recursion over the natural numbers                        *)

LEMMA NatSetInduction ==
  ASSUME NEW T, 0 \in T, \A n \in Nat : n \in T => n + 1 \in T
  PROVE  Nat \subseteq T
<1> DEFINE Less == {ss \in Nat \X Nat : ss[1] < ss[2]}
           Left == Nat \ T
<1>1. SUFFICES ASSUME Left # {} PROVE FALSE
  OBVIOUS
<1>2. \A x, y \in Nat : x < y => <<x, y>> \in Less
  OBVIOUS
<1>3. IsWellFoundedOn(Less, Nat)
  BY NatLessThanWellFounded DEF OpToRel
<1> HIDE DEF Less
<1>4. PICK x \in Left : \A y \in Left : ~(<<y, x>> \in Less)
  BY <1>1, <1>3, WFMin
<1>5. x \in Nat /\ x # 0 /\ x - 1 \in Nat /\ x - 1 < x /\ (x - 1) + 1 = x
  BY <1>4
<1>6. x - 1 \notin Left
  BY <1>2, <1>4, <1>5
<1> QED BY <1>4, <1>5, <1>6

(* A run of n steps from first exists for every step function. *)
IsRun(f, V, first, n, step) ==
  f \in [0..n -> V] /\ f[0] = first /\ \A i \in 1..n : f[i] = step[i][f[i - 1]]

LEMMA RunExists ==
  ASSUME NEW V, NEW first \in V, NEW n \in Nat, NEW step \in [1..n -> [V -> V]]
  PROVE  \E f : IsRun(f, V, first, n, step)
<1> DEFINE Run(m, f) == IsRun(f, V, first, m, step)
           T == {m \in Nat : m <= n => \E f : Run(m, f)}
<1> USE DEF IsRun
<1>1. 0 \in T
  <2>1. Run(0, [i \in 0..0 |-> first])
    OBVIOUS
  <2> HIDE DEF Run
  <2> QED BY <2>1
<1>2. ASSUME NEW m \in Nat, m \in T
      PROVE  m + 1 \in T
  <2> SUFFICES ASSUME m + 1 <= n PROVE \E f : Run(m + 1, f)
    OBVIOUS
  <2>1. m <= n /\ m + 1 \in 1..n
    OBVIOUS
  <2>2. PICK f : Run(m, f)
    <3> HIDE DEF Run
    <3> QED BY <1>2, <2>1
  <2>3. f[m] \in V
    BY <2>2
  <2> DEFINE last == step[m + 1][f[m]]
             g == [i \in 0..m + 1 |-> IF i = m + 1 THEN last ELSE f[i]]
  <2>4. last \in V
    BY <2>1, <2>3
  <2>5. g[m + 1] = last /\ \A i \in 0..m : g[i] = f[i]
    <3> HIDE DEF last
    <3> QED OBVIOUS
  <2>6. g \in [0..m + 1 -> V]
    <3> HIDE DEF last
    <3> QED BY <2>2, <2>4
  <2> HIDE DEF g
  <2>7. ASSUME NEW i \in 1..m + 1
        PROVE  g[i] = step[i][g[i - 1]]
    <3>1. CASE i = m + 1
      <4>1. i - 1 = m /\ m \in 0..m
        BY <3>1
      <4> QED BY <2>5, <3>1, <4>1
    <3>2. CASE i # m + 1
      <4>1. i \in 1..m /\ i \in 0..m /\ i - 1 \in 0..m
        BY <3>2
      <4> QED BY <2>2, <2>5, <4>1
    <3> QED BY <3>1, <3>2
  <2>8. g[0] = first
    BY <2>2, <2>5
  <2> QED BY <2>6, <2>7, <2>8
<1>3. n \in T
  <2> HIDE DEF T
  <2> QED BY <1>1, <1>2, NatSetInduction
<1> QED BY <1>3

-----------------------------------------------------------------------------
(* The decompressor: one bit                                               *)

Places == [treepos : InnerNodes, flushed : BOOLEAN, out : Seq(Nat)]

(* s with the symbols o already put out. *)
Behind(o, s) == [s EXCEPT !.out = o \o s.out]

LEMMA ReadBitType ==
  ASSUME NEW s \in Places, NEW bit \in {0, 1}
  PROVE  ReadBit(s, bit) \in Places
<1> DEFINE t == Child(s.treepos, bit)
<1>1. t \in Int /\ (t > 0 => t \in InnerNodes)
  BY DEF Places
<1> HIDE DEF t
<1>2. CASE t > 0
  BY <1>1, <1>2 DEF ReadBit, Places, t
<1>3. CASE ~(t > 0) /\ t # Flush
  <2>1. -t \in Nat /\ Append(s.out, -t) \in Seq(Nat)
    BY <1>1, <1>3, AppendProperties DEF Places
  <2> QED BY <1>1, <1>3, <2>1 DEF ReadBit, Places, t
<1>4. CASE t = Flush
  BY <1>1, <1>4 DEF ReadBit, Places, t, Flush
<1> QED BY <1>1, <1>2, <1>3, <1>4

LEMMA BehindType ==
  ASSUME NEW s \in Places, NEW o \in Seq(Nat)
  PROVE  /\ Behind(o, s) \in Places
         /\ Behind(o, s).treepos = s.treepos
         /\ Behind(o, s).flushed = s.flushed
         /\ Behind(o, s).out = o \o s.out
<1>1. o \o s.out \in Seq(Nat)
  BY ConcatProperties DEF Places
<1> QED BY <1>1 DEF Behind, Places

LEMMA PlaceEqual ==
  ASSUME NEW s \in Places, NEW t \in Places,
         s.treepos = t.treepos, s.flushed = t.flushed, s.out = t.out
  PROVE  s = t
BY DEF Places

LEMMA ConcatNats ==
  ASSUME NEW o \in Seq(Nat), NEW p \in Seq(Nat), NEW q \in Seq(Nat)
  PROVE  (o \o p) \o q = o \o (p \o q)
BY ConcatAssociative

(* A stream and the two parts of it that a cut makes. *)
LEMMA SplitBytes ==
  ASSUME NEW w \in Seq(Byte), NEW n \in 1..Len(w)
  PROVE  /\ SubSeq(w, 1, n) \in Seq(Byte)
         /\ SubSeq(w, n + 1, Len(w)) \in Seq(Byte)
         /\ w = SubSeq(w, 1, n) \o SubSeq(w, n + 1, Len(w))
<1> DEFINE a == SubSeq(w, 1, n)
           b == SubSeq(w, n + 1, Len(w))
           m == Len(w)
<1>1. m \in Nat /\ n \in 1..m
  OBVIOUS
<1>2. /\ a \in Seq(Byte) /\ Len(a) = n /\ \A k \in 1..n : a[k] = w[k]
      /\ b \in Seq(Byte) /\ Len(b) = m - n
      /\ \A k \in 1..m - n : b[k] = w[n + k]
  <2>1. /\ n + 1 \in 1..m + 1 /\ m \in 0..m /\ n + 1 <= m + 1
        /\ 1 \in 1..m + 1 /\ n \in 0..m /\ 1 <= n + 1
    BY <1>1
  <2> QED BY <1>1, <2>1, SubSeqProperties
<1> HIDE DEF a, b, m
<1>3. /\ a \o b \in Seq(Byte) /\ Len(a \o b) = n + (m - n)
      /\ \A i \in 1..n + (m - n) : (a \o b)[i] = IF i <= n THEN a[i] ELSE b[i - n]
  <2>1. a \in Seq(Byte) /\ b \in Seq(Byte) /\ Len(a) = n /\ Len(b) = m - n
    BY <1>2
  <2>2. /\ a \o b \in Seq(Byte)
        /\ Len(a \o b) = Len(a) + Len(b)
        /\ \A i \in 1..Len(a) + Len(b) :
             (a \o b)[i] = IF i <= Len(a) THEN a[i] ELSE b[i - Len(a)]
    BY <2>1, ConcatProperties
  <2> QED BY <2>1, <2>2
<1>4. n + (m - n) = m
  BY <1>1
<1>5. ASSUME NEW k \in 1..m
      PROVE  (a \o b)[k] = w[k]
  <2>1. CASE k <= n
    BY <1>1, <1>2, <1>3, <1>4, <2>1
  <2>2. CASE ~(k <= n)
    <3>1. k - n \in 1..m - n /\ n + (k - n) = k
      BY <1>1, <2>2
    <3>2. (a \o b)[k] = b[k - n]
      BY <1>3, <1>4, <2>2
    <3>3. b[k - n] = w[n + (k - n)]
      BY <1>2, <3>1
    <3> QED BY <3>1, <3>2, <3>3
  <2> QED BY <2>1, <2>2
<1>6. a \o b = w
  <2>1. Len(a \o b) = Len(w)
    BY <1>3, <1>4 DEF m
  <2>2. \A i \in 1..Len(a \o b) : (a \o b)[i] = w[i]
    BY <1>5, <2>1 DEF m
  <2> QED BY <1>3, <2>1, <2>2, SeqEqual
<1> QED BY <1>2, <1>6 DEF a, b

(* The front of a sequence, and what is behind it. *)
LEMMA FrontEqual ==
  ASSUME NEW d \in Seq(Nat), NEW p \in Seq(Nat), Len(p) <= Len(d),
         \A k \in 1..Len(p) : d[k] = p[k]
  PROVE  SubSeq(d, 1, Len(p)) = p
<1> DEFINE c == Len(p)
           a == SubSeq(d, 1, c)
<1>1. /\ d \in Seq(Nat) /\ 1 \in 1..Len(d) + 1 /\ c \in 0..Len(d) /\ 1 <= c + 1
      /\ c \in Nat
  OBVIOUS
<1>2. a \in Seq(Nat) /\ Len(a) = c /\ \A k \in 1..c : a[k] = d[k]
  <2> HIDE DEF c
  <2>1. c + 1 - 1 = c /\ \A k \in 1..c : 1 + k - 1 = k
    BY <1>1
  <2> QED BY <1>1, <2>1, SubSeqProperties
<1> HIDE DEF a
<1>3. \A k \in 1..Len(a) : a[k] = p[k]
  BY <1>2
<1> QED BY <1>2, <1>3, SeqEqual DEF a

LEMMA CutBehind ==
  ASSUME NEW d \in Seq(Nat), NEW o \in Seq(Nat), NEW c \in 0..Len(d)
  PROVE  /\ SubSeq(d, c + 1, Len(d)) \in Seq(Nat)
         /\ SubSeq(d, c + 1, Len(d)) \o o = SubSeq(d \o o, c + 1, Len(d \o o))
<1> DEFINE m == Len(d)
           l == Len(o)
           b == SubSeq(d, c + 1, m)
           e == SubSeq(d \o o, c + 1, m + l)
<1>1. m \in Nat /\ l \in Nat /\ c \in 0..m
  OBVIOUS
<1>2. /\ d \o o \in Seq(Nat) /\ Len(d \o o) = m + l
      /\ \A k \in 1..m + l : (d \o o)[k] = IF k <= m THEN d[k] ELSE o[k - m]
  BY ConcatProperties
<1>3. b \in Seq(Nat) /\ Len(b) = m - c /\ \A k \in 1..m - c : b[k] = d[c + k]
  <2>1. /\ c + 1 \in 1..m + 1 /\ m \in 0..m /\ c + 1 <= m + 1
    BY <1>1
  <2> QED BY <1>1, <2>1, SubSeqProperties
<1> HIDE DEF b, m, l
<1>4. /\ e \in Seq(Nat) /\ Len(e) = (m + l) - c
      /\ \A k \in 1..(m + l) - c : e[k] = (d \o o)[c + k]
  <2> DEFINE w == d \o o
             x == m + l
  <2>1. /\ w \in Seq(Nat) /\ x = Len(w) /\ x \in Nat
        /\ c + 1 \in 1..x + 1 /\ x \in 0..x /\ c + 1 <= x + 1
    BY <1>1, <1>2
  <2> HIDE DEF w, x
  <2>2. SubSeq(w, c + 1, x) \in Seq(Nat) /\ Len(SubSeq(w, c + 1, x)) = x - c
        /\ \A k \in 1..x - c : SubSeq(w, c + 1, x)[k] = w[c + k]
    BY <1>1, <2>1, SubSeqProperties
  <2>3. e = SubSeq(w, c + 1, x)
    BY DEF e, w, x
  <2>4. x - c = (m + l) - c
    BY DEF x
  <2>5. \A k \in 1..(m + l) - c : e[k] = w[c + k]
    BY <2>2, <2>3, <2>4
  <2> QED BY <2>2, <2>3, <2>4, <2>5 DEF w
<1> HIDE DEF e
<1>5. /\ b \o o \in Seq(Nat) /\ Len(b \o o) = (m - c) + l
      /\ \A k \in 1..(m - c) + l : (b \o o)[k] = IF k <= m - c THEN b[k] ELSE o[k - (m - c)]
  <2>1. Len(b) = m - c /\ Len(o) = l /\ b \in Seq(Nat)
    BY <1>3 DEF l
  <2>2. /\ b \o o \in Seq(Nat) /\ Len(b \o o) = Len(b) + Len(o)
        /\ \A k \in 1..Len(b) + Len(o) :
             (b \o o)[k] = IF k <= Len(b) THEN b[k] ELSE o[k - Len(b)]
    BY <2>1, ConcatProperties
  <2> QED BY <2>1, <2>2
<1>6. ASSUME NEW k \in 1..(m + l) - c
      PROVE  (b \o o)[k] = e[k]
  <2>1. k \in 1..(m - c) + l /\ c + k \in 1..m + l /\ k \in Nat
    BY <1>1
  <2>2. CASE k <= m - c
    <3>1. k \in 1..m - c /\ c + k <= m
      BY <1>1, <2>1, <2>2
    <3> QED BY <1>2, <1>3, <1>4, <1>5, <2>1, <2>2, <3>1
  <2>3. CASE ~(k <= m - c)
    <3>1. ~(c + k <= m) /\ k - (m - c) = (c + k) - m
      BY <1>1, <2>1, <2>3
    <3> QED BY <1>2, <1>4, <1>5, <2>1, <2>3, <3>1
  <2> QED BY <2>2, <2>3
<1>7. b \o o = e
  <2>1. Len(b \o o) = Len(e) /\ Len(e) = (m + l) - c
    BY <1>1, <1>4, <1>5
  <2>2. \A k \in 1..Len(b \o o) : (b \o o)[k] = e[k]
    BY <1>6, <2>1
  <2> QED BY <1>4, <1>5, <2>1, <2>2, SeqEqual
<1> QED BY <1>2, <1>3, <1>7 DEF b, e, m

LEMMA FrontIsPrefix ==
  ASSUME NEW S, NEW s \in Seq(S), NEW t \in Seq(S)
  PROVE  IsPrefix(s, s \o t)
<1> DEFINE w == s \o t
           n == Len(s)
           a == SubSeq(s, 1, n)
           b == SubSeq(w, 1, n)
<1>1. n \in Nat /\ Len(t) \in Nat
  OBVIOUS
<1>2. /\ w \in Seq(S) /\ Len(w) = n + Len(t)
      /\ \A i \in 1..n + Len(t) : w[i] = IF i <= n THEN s[i] ELSE t[i - n]
  BY ConcatProperties
<1> HIDE DEF w
<1>3. \A i \in 1..n : w[i] = s[i] /\ w[i] \in S /\ s[i] \in S
  BY <1>1, <1>2
<1>4. n - 1 + 1 = n /\ \A i \in 1..n : 1 + i - 1 = i
  BY <1>1
<1>5. a \in Seq(S) /\ Len(a) = n /\ \A i \in 1..n : a[i] = s[i]
  <2> HIDE DEF n
  <2> QED BY <1>1, <1>3, <1>4, SubSeqProperties
<1>6. b \in Seq(S) /\ Len(b) = n /\ \A i \in 1..n : b[i] = w[i]
  <2> HIDE DEF n
  <2> QED BY <1>1, <1>3, <1>4, SubSeqProperties
<1> HIDE DEF a, b, n
<1>7. a = b
  <2>1. \A i \in 1..Len(a) : a[i] = b[i]
    BY <1>3, <1>5, <1>6
  <2> QED BY <1>5, <1>6, <2>1, SeqEqual
<1>8. Len(s) <= Len(w)
  BY <1>1, <1>2 DEF n
<1> QED BY <1>7, <1>8 DEF IsPrefix, a, b, n, w

LEMMA FirstBeforeOthers ==
  ASSUME NEW S, NEW q \in Seq(S), q # <<>>
  PROVE  q = <<q[1]>> \o Tail(q)
<1> DEFINE n == Len(q)
           t == Tail(q)
           h == <<q[1]>>
<1>1. n \in Nat \ {0} /\ q[1] \in S
  BY EmptySeq
<1>2. t \in Seq(S) /\ Len(t) = n - 1 /\ \A i \in 1..n - 1 : t[i] = q[i + 1]
  BY HeadTailProperties
<1>3. h \in Seq(S) /\ Len(h) = 1 /\ h[1] = q[1]
  BY <1>1
<1> HIDE DEF t, h
<1>4. /\ h \o t \in Seq(S) /\ Len(h \o t) = 1 + (n - 1)
      /\ \A i \in 1..1 + (n - 1) : (h \o t)[i] = IF i <= 1 THEN h[i] ELSE t[i - 1]
  <2>1. /\ h \o t \in Seq(S) /\ Len(h \o t) = Len(h) + Len(t)
        /\ \A i \in 1..Len(h) + Len(t) :
             (h \o t)[i] = IF i <= Len(h) THEN h[i] ELSE t[i - Len(h)]
    BY <1>2, <1>3, ConcatProperties
  <2> QED BY <1>2, <1>3, <2>1
<1> HIDE DEF n
<1>5. ASSUME NEW i \in 1..n
      PROVE  q[i] = (h \o t)[i]
  <2>0. 1 + (n - 1) = n
    BY <1>1
  <2>1. CASE i = 1
    BY <1>1, <1>3, <1>4, <2>0, <2>1
  <2>2. CASE i # 1
    <3>1. i - 1 \in 1..n - 1 /\ (i - 1) + 1 = i /\ ~(i <= 1)
      BY <1>1, <2>2
    <3>2. t[i - 1] = q[(i - 1) + 1]
      BY <1>2, <3>1
    <3> QED BY <1>4, <2>0, <3>1, <3>2
  <2> QED BY <2>1, <2>2
<1>6. Len(q) = Len(h \o t)
  BY <1>1, <1>4 DEF n
<1>7. \A i \in 1..Len(q) : q[i] = (h \o t)[i]
  BY <1>5 DEF n
<1> QED BY <1>4, <1>6, <1>7, SeqEqual DEF h, t

LEMMA AppendBehind ==
  ASSUME NEW o \in Seq(Nat), NEW q \in Seq(Nat), NEW x \in Nat
  PROVE  o \o Append(q, x) = Append(o \o q, x)
<1>1. <<x>> \in Seq(Nat) /\ o \o q \in Seq(Nat)
  BY ConcatProperties
<1>2. Append(q, x) = q \o <<x>>
  BY AppendIsConcat
<1>3. Append(o \o q, x) = (o \o q) \o <<x>>
  BY <1>1, AppendIsConcat
<1>4. (o \o q) \o <<x>> = o \o (q \o <<x>>)
  BY <1>1, ConcatAssociative
<1> QED BY <1>2, <1>3, <1>4

(* What was put out before plays no part in what is read. *)
LEMMA ReadBitBehind ==
  ASSUME NEW s \in Places, NEW o \in Seq(Nat), NEW bit \in {0, 1}
  PROVE  ReadBit(Behind(o, s), bit) = Behind(o, ReadBit(s, bit))
<1> DEFINE t == Child(s.treepos, bit)
<1>1. t \in Int
  BY DEF Places
<1>2. /\ Behind(o, s).treepos = s.treepos /\ Behind(o, s).flushed = s.flushed
      /\ Behind(o, s).out = o \o s.out /\ s.out \in Seq(Nat)
  BY BehindType DEF Places
<1>3. ~(t > 0) => -t \in Nat
  BY <1>1
<1>4. ~(t > 0) => o \o Append(s.out, -t) = Append(o \o s.out, -t)
  BY <1>2, <1>3, AppendBehind
<1> HIDE DEF t
<1>5. CASE s.flushed \/ t > 0 \/ t = Flush
  BY <1>2, <1>5 DEF ReadBit, Behind, Places, t
<1>6. CASE ~s.flushed /\ ~(t > 0) /\ t # Flush
  BY <1>2, <1>4, <1>6 DEF ReadBit, Behind, Places, t
<1> QED BY <1>5, <1>6

-----------------------------------------------------------------------------
(* One byte                                                                *)

LEMMA AfterBitsRun ==
  ASSUME NEW s \in Places, NEW byte \in Byte
  PROVE  /\ AfterBits(s, byte)[0] = [s EXCEPT !.flushed = FALSE]
         /\ \A i \in 0..ByteBits : AfterBits(s, byte)[i] \in Places
         /\ \A i \in 1..ByteBits :
              AfterBits(s, byte)[i] = ReadBit(AfterBits(s, byte)[i - 1], byte[i])
<1> DEFINE first == [s EXCEPT !.flushed = FALSE]
           step == [i \in 1..ByteBits |-> [t \in Places |-> ReadBit(t, byte[i])]]
           Runs(f) == f = [i \in 0..ByteBits |->
                             IF i = 0 THEN first ELSE ReadBit(f[i - 1], byte[i])]
           A == AfterBits(s, byte)
<1>1. first \in Places /\ step \in [1..ByteBits -> [Places -> Places]]
  BY ReadBitType DEF Places, Byte
<1>2. PICK f : IsRun(f, Places, first, ByteBits, step)
  <2> HIDE DEF first, step
  <2> QED BY <1>1, RunExists
<1>3. Runs(f)
  <2>1. ASSUME NEW i \in 1..ByteBits
        PROVE  f[i] = ReadBit(f[i - 1], byte[i])
    <3>1. f[i - 1] \in Places
      BY <1>2 DEF IsRun
    <3> QED BY <1>2, <3>1 DEF IsRun
  <2> HIDE DEF first
  <2> QED BY <1>2, <2>1 DEF IsRun
<1>4. A = CHOOSE g : Runs(g)
  BY DEF AfterBits
<1>5. Runs(A)
  <2> HIDE DEF Runs, A
  <2> QED BY <1>3, <1>4
<1> HIDE DEF A
<1>6. A[0] = first /\ \A i \in 1..ByteBits : A[i] = ReadBit(A[i - 1], byte[i])
  <2> HIDE DEF first
  <2> QED BY <1>5
<1> HIDE DEF first
<1>7. \A i \in 0..ByteBits : A[i] \in Places
  <2> DEFINE T == {i \in Nat : i <= ByteBits => A[i] \in Places}
  <2>1. 0 \in T
    BY <1>1, <1>6
  <2>2. ASSUME NEW i \in Nat, i \in T
        PROVE  i + 1 \in T
    <3> SUFFICES ASSUME i + 1 <= ByteBits PROVE A[i + 1] \in Places
      OBVIOUS
    <3>1. A[i] \in Places /\ byte[i + 1] \in {0, 1} /\ i + 1 \in 1..ByteBits /\ (i + 1) - 1 = i
      BY <2>2 DEF Byte
    <3> QED BY <1>6, <3>1, ReadBitType
  <2> HIDE DEF T
  <2>3. Nat \subseteq T
    BY <2>1, <2>2, NatSetInduction
  <2> QED BY <2>3 DEF T
<1> QED BY <1>6, <1>7 DEF A, first

Start(t) == [treepos |-> t, flushed |-> FALSE, out |-> <<>>]

LEMMA StartType ==
  ASSUME NEW t \in InnerNodes
  PROVE  Start(t) \in Places
BY EmptySeq DEF Start, Places

(* A byte is read the same way whatever was put out and flushed before. *)
LEMMA ReadByteBehind ==
  ASSUME NEW s \in Places, NEW byte \in Byte
  PROVE  /\ ReadByte(s, byte) \in Places
         /\ ReadByte(s, byte) = Behind(s.out, ReadByte(Start(s.treepos), byte))
<1> DEFINE o == s.out
           u == Start(s.treepos)
           A(i) == AfterBits(s, byte)[i]
           B(i) == AfterBits(u, byte)[i]
           T == {i \in Nat : i <= ByteBits => A(i) = Behind(o, B(i))}
<1>1. o \in Seq(Nat) /\ s.treepos \in InnerNodes /\ u \in Places
  BY StartType DEF Places
<1> HIDE DEF u
<1>2. /\ A(0) = [s EXCEPT !.flushed = FALSE]
      /\ \A i \in 0..ByteBits : A(i) \in Places
      /\ \A i \in 1..ByteBits : A(i) = ReadBit(A(i - 1), byte[i])
  BY AfterBitsRun
<1>3. /\ B(0) = [u EXCEPT !.flushed = FALSE]
      /\ \A i \in 0..ByteBits : B(i) \in Places
      /\ \A i \in 1..ByteBits : B(i) = ReadBit(B(i - 1), byte[i])
  BY <1>1, AfterBitsRun
<1> HIDE DEF A, B
<1>4. 0 \in T
  <2>1. B(0) = Start(s.treepos)
    BY <1>3 DEF u, Start
  <2>2. B(0).treepos = s.treepos /\ B(0).flushed = FALSE /\ B(0).out = <<>>
    BY <2>1 DEF Start
  <2>3. A(0).treepos = s.treepos /\ A(0).flushed = FALSE /\ A(0).out = o
    BY <1>2 DEF Places
  <2> HIDE DEF o
  <2>4. o \o B(0).out = o
    BY <1>1, <2>2, ConcatEmptySeq
  <2>5. 0 \in 0..ByteBits
    OBVIOUS
  <2>6. A(0) \in Places /\ B(0) \in Places
    BY <1>2, <1>3, <2>5
  <2>7. /\ Behind(o, B(0)) \in Places /\ Behind(o, B(0)).treepos = B(0).treepos
        /\ Behind(o, B(0)).flushed = B(0).flushed /\ Behind(o, B(0)).out = o
    BY <1>1, <2>4, <2>6, BehindType
  <2>8. A(0) = Behind(o, B(0))
    BY <2>2, <2>3, <2>6, <2>7, PlaceEqual
  <2> QED BY <2>8
<1>5. ASSUME NEW i \in Nat, i \in T
      PROVE  i + 1 \in T
  <2> SUFFICES ASSUME i + 1 <= ByteBits PROVE A(i + 1) = Behind(o, B(i + 1))
    OBVIOUS
  <2>1. A(i) = Behind(o, B(i))
    BY <1>5
  <2>2. i \in 0..ByteBits /\ i + 1 \in 1..ByteBits /\ (i + 1) - 1 = i
    OBVIOUS
  <2>3. byte[i + 1] \in {0, 1} /\ B(i) \in Places
    BY <1>3, <2>2 DEF Byte
  <2>4. A(i + 1) = ReadBit(A(i), byte[i + 1]) /\ B(i + 1) = ReadBit(B(i), byte[i + 1])
    BY <1>2, <1>3, <2>2
  <2> HIDE DEF o
  <2> QED BY <1>1, <2>1, <2>3, <2>4, ReadBitBehind
<1> HIDE DEF T
<1>6. Nat \subseteq T
  BY <1>4, <1>5, NatSetInduction
<1>7. A(ByteBits) = Behind(o, B(ByteBits))
  BY <1>6 DEF T
<1> QED BY <1>2, <1>7 DEF ReadByte, A, B, u

-----------------------------------------------------------------------------
(* One call of the decompressor                                            *)

LEMMA AfterBytesRun ==
  ASSUME NEW t \in InnerNodes, NEW bytes \in Seq(Byte)
  PROVE  /\ AfterBytes(t, bytes)[0] = Start(t)
         /\ \A n \in 0..Len(bytes) : AfterBytes(t, bytes)[n] \in Places
         /\ \A n \in 1..Len(bytes) :
              AfterBytes(t, bytes)[n] = ReadByte(AfterBytes(t, bytes)[n - 1], bytes[n])
<1> DEFINE last == Len(bytes)
           first == Start(t)
           step == [n \in 1..last |-> [s \in Places |-> ReadByte(s, bytes[n])]]
           Runs(f) == f = [n \in 0..last |->
                             IF n = 0 THEN first ELSE ReadByte(f[n - 1], bytes[n])]
           A == AfterBytes(t, bytes)
<1>1. first \in Places /\ last \in Nat /\ step \in [1..last -> [Places -> Places]]
  <2>1. \A n \in 1..last : bytes[n] \in Byte
    OBVIOUS
  <2> QED BY <2>1, StartType, ReadByteBehind
<1>2. PICK f : IsRun(f, Places, first, last, step)
  <2> HIDE DEF first, step, last
  <2> QED BY <1>1, RunExists
<1>3. Runs(f)
  <2>1. ASSUME NEW n \in 1..last
        PROVE  f[n] = ReadByte(f[n - 1], bytes[n])
    <3>1. f[n - 1] \in Places
      BY <1>1, <1>2 DEF IsRun
    <3> QED BY <1>2, <3>1 DEF IsRun
  <2> HIDE DEF first
  <2> QED BY <1>1, <1>2, <2>1 DEF IsRun
<1>4. A = CHOOSE g : Runs(g)
  BY DEF AfterBytes, Start
<1>5. Runs(A)
  <2> HIDE DEF Runs, A
  <2> QED BY <1>3, <1>4
<1> HIDE DEF A
<1>6. A[0] = first /\ \A n \in 1..last : A[n] = ReadByte(A[n - 1], bytes[n])
  <2> HIDE DEF first
  <2> QED BY <1>1, <1>5
<1> HIDE DEF first
<1>7. \A n \in 0..last : A[n] \in Places
  <2> DEFINE T == {n \in Nat : n <= last => A[n] \in Places}
  <2>1. 0 \in T
    BY <1>1, <1>6
  <2>2. ASSUME NEW n \in Nat, n \in T
        PROVE  n + 1 \in T
    <3> SUFFICES ASSUME n + 1 <= last PROVE A[n + 1] \in Places
      OBVIOUS
    <3>1. A[n] \in Places /\ bytes[n + 1] \in Byte /\ n + 1 \in 1..last /\ (n + 1) - 1 = n
      BY <1>1, <2>2
    <3> QED BY <1>6, <3>1, ReadByteBehind
  <2> HIDE DEF T
  <2>3. Nat \subseteq T
    BY <2>1, <2>2, NatSetInduction
  <2> QED BY <1>1, <2>3 DEF T
<1> QED BY <1>6, <1>7 DEF A, first

LEMMA DecompressType ==
  ASSUME NEW t \in InnerNodes, NEW bytes \in Seq(Byte)
  PROVE  /\ Decompress(t, bytes) \in Places
         /\ Decompress(t, bytes).treepos \in InnerNodes
         /\ Decompress(t, bytes).out \in Seq(Nat)
<1>1. Len(bytes) \in 0..Len(bytes)
  OBVIOUS
<1> QED BY <1>1, AfterBytesRun DEF Decompress, Places

LEMMA DecompressNothing ==
  ASSUME NEW t \in InnerNodes
  PROVE  Decompress(t, <<>>).treepos = t /\ Decompress(t, <<>>).out = <<>>
<1>1. <<>> \in Seq(Byte) /\ Len(<<>>) = 0
  BY EmptySeq
<1>2. Decompress(t, <<>>) = AfterBytes(t, <<>>)[0]
  BY <1>1 DEF Decompress
<1>3. AfterBytes(t, <<>>)[0] = Start(t)
  BY <1>1, AfterBytesRun
<1> QED BY <1>2, <1>3 DEF Start

(* Two calls, the second beginning where the first one stopped, put out    *)
(* what one call with all the bytes does.                                  *)
LEMMA DecompressConcat ==
  ASSUME NEW t \in InnerNodes, NEW a \in Seq(Byte), NEW b \in Seq(Byte)
  PROVE  LET s == Decompress(t, a)
             u == Decompress(s.treepos, b)
         IN /\ Decompress(t, a \o b).treepos = u.treepos
            /\ Decompress(t, a \o b).out = s.out \o u.out
<1> DEFINE s == Decompress(t, a)
           o == s.out
           A(n) == AfterBytes(t, a)[n]
           B(n) == AfterBytes(s.treepos, b)[n]
           C(n) == AfterBytes(t, a \o b)[n]
<1>1. /\ a \o b \in Seq(Byte) /\ Len(a \o b) = Len(a) + Len(b)
      /\ \A n \in 1..Len(a) : (a \o b)[n] = a[n]
      /\ \A n \in 1..Len(b) : (a \o b)[Len(a) + n] = b[n]
      /\ Len(a) \in Nat /\ Len(b) \in Nat
  BY ConcatProperties
<1>2. s \in Places /\ s.treepos \in InnerNodes /\ o \in Seq(Nat)
  BY DecompressType
<1>3. /\ A(0) = Start(t)
      /\ \A n \in 0..Len(a) : A(n) \in Places
      /\ \A n \in 1..Len(a) : A(n) = ReadByte(A(n - 1), a[n])
  BY AfterBytesRun
<1>4. /\ B(0) = Start(s.treepos)
      /\ \A n \in 0..Len(b) : B(n) \in Places
      /\ \A n \in 1..Len(b) : B(n) = ReadByte(B(n - 1), b[n])
  BY <1>2, AfterBytesRun
<1>5. /\ C(0) = Start(t)
      /\ \A n \in 0..Len(a) + Len(b) : C(n) \in Places
      /\ \A n \in 1..Len(a) + Len(b) : C(n) = ReadByte(C(n - 1), (a \o b)[n])
  BY <1>1, AfterBytesRun
<1>6. A(Len(a)) = s
  BY DEF Decompress
<1>7. B(Len(b)) = Decompress(s.treepos, b) /\ C(Len(a) + Len(b)) = Decompress(t, a \o b)
  BY <1>1 DEF Decompress
<1> HIDE DEF A, B, C, s
<1>8. C(Len(a)) = s
  <2> DEFINE T == {n \in Nat : n <= Len(a) => C(n) = A(n)}
  <2>1. 0 \in T
    BY <1>3, <1>5
  <2>2. ASSUME NEW n \in Nat, n \in T
        PROVE  n + 1 \in T
    <3> SUFFICES ASSUME n + 1 <= Len(a) PROVE C(n + 1) = A(n + 1)
      OBVIOUS
    <3>1. C(n) = A(n) /\ (n + 1) - 1 = n
      BY <1>1, <2>2
    <3>2. n + 1 \in 1..Len(a) /\ n + 1 \in 1..Len(a) + Len(b)
      BY <1>1
    <3>3. (a \o b)[n + 1] = a[n + 1]
      BY <1>1, <3>2
    <3>4. C(n + 1) = ReadByte(C(n), (a \o b)[n + 1]) /\ A(n + 1) = ReadByte(A(n), a[n + 1])
      BY <1>3, <1>5, <3>1, <3>2
    <3> QED BY <3>1, <3>3, <3>4
  <2> HIDE DEF T
  <2>3. Nat \subseteq T
    BY <2>1, <2>2, NatSetInduction
  <2> QED BY <1>1, <1>6, <2>3 DEF T
<1>9. C(Len(a) + Len(b)).treepos = B(Len(b)).treepos /\ C(Len(a) + Len(b)).out = o \o B(Len(b)).out
  <2> DEFINE Agree(n) == /\ C(Len(a) + n).treepos = B(n).treepos
                         /\ C(Len(a) + n).out = o \o B(n).out
             T == {n \in Nat : n <= Len(b) => Agree(n)}
  <2>1. 0 \in T
    <3>1. Len(a) + 0 = Len(a)
      BY <1>1
    <3>2. B(0).treepos = s.treepos /\ B(0).out = <<>> /\ o \o <<>> = o
      BY <1>2, <1>4, ConcatEmptySeq DEF Start
    <3> QED BY <1>8, <3>1, <3>2
  <2>2. ASSUME NEW n \in Nat, n \in T
        PROVE  n + 1 \in T
    <3> HIDE DEF Agree
    <3> SUFFICES ASSUME n + 1 <= Len(b) PROVE Agree(n + 1)
      OBVIOUS
    <3>1. Agree(n) /\ (n + 1) - 1 = n
      BY <1>1, <2>2
    <3>2. /\ n + 1 \in 1..Len(b) /\ n \in 0..Len(b)
          /\ Len(a) + (n + 1) \in 1..Len(a) + Len(b) /\ Len(a) + n \in 0..Len(a) + Len(b)
          /\ (Len(a) + (n + 1)) - 1 = Len(a) + n
      BY <1>1
    <3> DEFINE x == C(Len(a) + n)
               y == B(n)
               byte == b[n + 1]
    <3>3. x \in Places /\ y \in Places /\ byte \in Byte
      BY <1>4, <1>5, <3>2
    <3>4. C(Len(a) + (n + 1)) = ReadByte(x, byte) /\ B(n + 1) = ReadByte(y, byte)
      BY <1>1, <1>4, <1>5, <3>1, <3>2
    <3>5. x.treepos = y.treepos /\ x.out = o \o y.out
      BY <3>1 DEF Agree
    <3> HIDE DEF x, y, byte, o
    <3> DEFINE r == ReadByte(Start(y.treepos), byte)
    <3>6. r \in Places
      <4>1. Start(y.treepos) \in Places
        BY <3>3, StartType DEF Places
      <4> QED BY <3>3, <4>1, ReadByteBehind
    <3>7. ReadByte(x, byte) = Behind(x.out, r) /\ ReadByte(y, byte) = Behind(y.out, r)
      BY <3>3, <3>5, ReadByteBehind
    <3>8. y.out \in Seq(Nat) /\ r.out \in Seq(Nat) /\ o \o y.out \in Seq(Nat)
      BY <1>2, <3>3, <3>6, ConcatProperties DEF Places
    <3> HIDE DEF r
    <3>9. /\ Behind(x.out, r).treepos = r.treepos /\ Behind(y.out, r).treepos = r.treepos
          /\ Behind(x.out, r).out = (o \o y.out) \o r.out
          /\ Behind(y.out, r).out = y.out \o r.out
      BY <3>5, <3>6, <3>8, BehindType
    <3>10. (o \o y.out) \o r.out = o \o (y.out \o r.out)
      <4> DEFINE p == y.out
                 q == r.out
      <4>1. o \in Seq(Nat) /\ p \in Seq(Nat) /\ q \in Seq(Nat)
        BY <1>2, <3>8
      <4> HIDE DEF p, q
      <4>2. (o \o p) \o q = o \o (p \o q)
        BY <4>1, ConcatNats
      <4> QED BY <4>2 DEF p, q
    <3> QED BY <3>4, <3>7, <3>9, <3>10 DEF Agree
  <2> HIDE DEF T
  <2>3. Nat \subseteq T
    BY <2>1, <2>2, NatSetInduction
  <2>4. Len(b) \in T /\ Len(b) <= Len(b)
    BY <1>1, <2>3
  <2>5. Agree(Len(b))
    <3> HIDE DEF Agree
    <3> QED BY <2>4 DEF T
  <2> QED BY <2>5
<1> QED BY <1>7, <1>9 DEF s

-----------------------------------------------------------------------------
(* A stream and the packets it joins                                       *)

IsCut(stream, packets, cut) ==
  /\ cut \in [0..Len(packets) -> Nat]
  /\ cut[0] = 0 /\ cut[Len(packets)] = Len(stream)
  /\ \A i \in 1..Len(packets) :
       /\ cut[i] = cut[i - 1] + Len(packets[i])
       /\ \A k \in 1..Len(packets[i]) : stream[cut[i - 1] + k] = packets[i][k]

Joins(stream, packets) == \E cut : IsCut(stream, packets, cut)

LEMMA PacketType ==
  ASSUME NEW p \in Packets
  PROVE  p \in Seq(Nat) /\ Len(p) \in Nat /\ Len(p) > 0
BY PacketsAssumption

LEMMA JoinsNothing ==
  ASSUME NEW stream \in Seq(Nat)
  PROVE  Joins(stream, <<>>) <=> stream = <<>>
<1>1. Len(<<>>) = 0
  BY EmptySeq
<1>2. ASSUME stream = <<>>
      PROVE  IsCut(stream, <<>>, [i \in 0..0 |-> 0])
  BY <1>1, <1>2 DEF IsCut
<1>3. ASSUME NEW cut, IsCut(stream, <<>>, cut)
      PROVE  stream = <<>>
  <2>1. Len(stream) = 0
    BY <1>1, <1>3 DEF IsCut
  <2> QED BY <2>1, EmptySeq
<1> QED BY <1>2, <1>3 DEF Joins

(* No packet begins or ends behind the end of the stream, and none but the *)
(* first ends before the first one does.                                   *)
LEMMA CutBounds ==
  ASSUME NEW stream \in Seq(Nat), NEW packets \in Seq(Packets),
         NEW cut, IsCut(stream, packets, cut)
  PROVE  /\ \A i \in 0..Len(packets) : cut[i] \in Nat /\ cut[i] <= Len(stream)
         /\ \A i \in 1..Len(packets) : cut[1] <= cut[i]
<1> DEFINE n == Len(packets)
           m == Len(stream)
<1>1. n \in Nat /\ m \in Nat /\ \A i \in 1..n : Len(packets[i]) \in Nat
  BY PacketType
<1> HIDE DEF n, m
<1>2. /\ cut \in [0..n -> Nat] /\ cut[n] = m
      /\ \A i \in 1..n : cut[i] = cut[i - 1] + Len(packets[i])
  BY DEF IsCut, n, m
<1>3. \A i \in 0..n : cut[i] <= m
  <2> DEFINE T == {j \in Nat : j <= n => cut[n - j] <= m}
  <2>1. 0 \in T
    BY <1>1, <1>2
  <2>2. ASSUME NEW j \in Nat, j \in T
        PROVE  j + 1 \in T
    <3> SUFFICES ASSUME j + 1 <= n PROVE cut[n - (j + 1)] <= m
      OBVIOUS
    <3>1. cut[n - j] <= m /\ n - j \in 1..n /\ (n - j) - 1 = n - (j + 1) /\ n - (j + 1) \in 0..n
      BY <1>1, <2>2
    <3>2. cut[n - j] = cut[n - (j + 1)] + Len(packets[n - j])
      BY <1>2, <3>1
    <3>3. Len(packets[n - j]) \in Nat /\ cut[n - (j + 1)] \in Nat
      BY <1>1, <1>2, <3>1
    <3> QED BY <1>1, <3>1, <3>2, <3>3
  <2> HIDE DEF T
  <2>3. Nat \subseteq T
    BY <2>1, <2>2, NatSetInduction
  <2> SUFFICES ASSUME NEW i \in 0..n PROVE cut[i] <= m
    OBVIOUS
  <2>4. n - i \in Nat /\ n - i <= n /\ n - (n - i) = i
    BY <1>1
  <2> QED BY <2>3, <2>4 DEF T
<1>4. \A i \in 1..n : cut[1] <= cut[i]
  <2> DEFINE T == {j \in Nat : j + 1 <= n => cut[1] <= cut[j + 1]}
  <2>1. 0 \in T
    BY <1>1, <1>2
  <2>2. ASSUME NEW j \in Nat, j \in T
        PROVE  j + 1 \in T
    <3> SUFFICES ASSUME (j + 1) + 1 <= n PROVE cut[1] <= cut[(j + 1) + 1]
      OBVIOUS
    <3>1. cut[1] <= cut[j + 1] /\ (j + 1) + 1 \in 1..n /\ ((j + 1) + 1) - 1 = j + 1
          /\ j + 1 \in 0..n /\ 1 \in 0..n
      BY <1>1, <2>2
    <3>2. cut[(j + 1) + 1] = cut[j + 1] + Len(packets[(j + 1) + 1])
      BY <1>2, <3>1
    <3>3. cut[1] \in Nat /\ cut[j + 1] \in Nat /\ Len(packets[(j + 1) + 1]) \in Nat
      BY <1>1, <1>2, <3>1
    <3> QED BY <3>1, <3>2, <3>3
  <2> HIDE DEF T
  <2>3. Nat \subseteq T
    BY <2>1, <2>2, NatSetInduction
  <2> SUFFICES ASSUME NEW i \in 1..n PROVE cut[1] <= cut[i]
    OBVIOUS
  <2>4. i - 1 \in Nat /\ (i - 1) + 1 = i /\ i <= n
    BY <1>1
  <2> QED BY <2>3, <2>4 DEF T
<1> QED BY <1>2, <1>3, <1>4 DEF n, m

LEMMA JoinsAppend ==
  ASSUME NEW stream \in Seq(Nat), NEW packets \in Seq(Packets), NEW p \in Packets,
         Joins(stream, packets)
  PROVE  Joins(stream \o p, Append(packets, p))
<1> DEFINE n == Len(packets)
           m == Len(stream)
           q == Append(packets, p)
<1>1. PICK cut : IsCut(stream, packets, cut)
  BY DEF Joins
<1>2. /\ Len(q) = n + 1 /\ n \in Nat /\ q[n + 1] = p
      /\ \A i \in 1..n : q[i] = packets[i] /\ packets[i] \in Packets
  BY AppendProperties
<1>3. /\ Len(stream \o p) = m + Len(p) /\ m \in Nat /\ Len(p) \in Nat
      /\ \A k \in 1..m : (stream \o p)[k] = stream[k]
      /\ \A k \in 1..Len(p) : (stream \o p)[m + k] = p[k]
  BY PacketType, ConcatProperties
<1> HIDE DEF n, m, q
<1> DEFINE new == [i \in 0..n + 1 |-> IF i = n + 1 THEN m + Len(p) ELSE cut[i]]
<1>4. /\ cut \in [0..n -> Nat] /\ cut[0] = 0 /\ cut[n] = m
      /\ \A i \in 1..n :
           /\ cut[i] = cut[i - 1] + Len(packets[i])
           /\ \A k \in 1..Len(packets[i]) : stream[cut[i - 1] + k] = packets[i][k]
  BY <1>1 DEF IsCut, n, m
<1>5. /\ new \in [0..n + 1 -> Nat] /\ new[0] = 0 /\ new[n + 1] = m + Len(p)
      /\ \A i \in 0..n : new[i] = cut[i]
  BY <1>2, <1>3, <1>4
<1> HIDE DEF new
<1>6. \A i \in 0..n : cut[i] <= m
  BY <1>1, CutBounds DEF n, m
<1>7. ASSUME NEW i \in 1..n + 1
      PROVE  /\ new[i] = new[i - 1] + Len(q[i])
             /\ \A k \in 1..Len(q[i]) : (stream \o p)[new[i - 1] + k] = q[i][k]
  <2>1. CASE i = n + 1
    <3>1. i - 1 = n /\ n \in 0..n
      BY <1>2, <2>1
    <3>2. new[i - 1] = m /\ q[i] = p
      BY <1>2, <1>4, <1>5, <2>1, <3>1
    <3> QED BY <1>3, <1>5, <2>1, <3>2
  <2>2. CASE i # n + 1
    <3>1. i \in 1..n /\ i \in 0..n /\ i - 1 \in 0..n
      BY <1>2, <2>2
    <3>2. new[i] = cut[i] /\ new[i - 1] = cut[i - 1] /\ q[i] = packets[i]
      BY <1>2, <1>5, <3>1
    <3>3. cut[i] <= m /\ cut[i - 1] \in Nat /\ Len(packets[i]) \in Nat
      BY <1>2, <1>4, <1>6, <3>1, PacketType
    <3>4. ASSUME NEW k \in 1..Len(packets[i])
          PROVE  (stream \o p)[cut[i - 1] + k] = packets[i][k]
      <4>1. cut[i - 1] + k \in 1..m
        BY <1>3, <1>4, <3>1, <3>3
      <4> QED BY <1>3, <1>4, <3>1, <4>1
    <3> QED BY <1>4, <3>1, <3>2, <3>4
  <2> QED BY <2>1, <2>2
<1>8. IsCut(stream \o p, q, new)
  BY <1>2, <1>3, <1>5, <1>7 DEF IsCut
<1> QED BY <1>8 DEF Joins, q

(* The first packet is at the front of the stream; without it the stream   *)
(* joins the others.                                                       *)
LEMMA JoinsFirst ==
  ASSUME NEW stream \in Seq(Nat), NEW packets \in Seq(Packets), packets # <<>>,
         Joins(stream, packets)
  PROVE  /\ Len(packets[1]) <= Len(stream)
         /\ \A k \in 1..Len(packets[1]) : stream[k] = packets[1][k]
         /\ Joins(SubSeq(stream, Len(packets[1]) + 1, Len(stream)), Tail(packets))
<1> DEFINE n == Len(packets)
           m == Len(stream)
           c == Len(packets[1])
           q == Tail(packets)
           rest == SubSeq(stream, c + 1, m)
<1>1. PICK cut : IsCut(stream, packets, cut)
  BY DEF Joins
<1>2. /\ n \in Nat \ {0} /\ Len(q) = n - 1
      /\ \A i \in 1..n - 1 : q[i] = packets[i + 1]
      /\ \A i \in 1..n : packets[i] \in Packets
  BY EmptySeq, HeadTailProperties
<1>3. m \in Nat /\ c \in Nat /\ 1 \in 1..n
  BY <1>2, PacketType
<1>4. \A i \in 1..n : Len(packets[i]) \in Nat
  BY <1>2, PacketType
<1> HIDE DEF n, m, c, q, rest
<1>5. /\ cut \in [0..n -> Nat] /\ cut[0] = 0 /\ cut[n] = m
      /\ \A i \in 1..n :
           /\ cut[i] = cut[i - 1] + Len(packets[i])
           /\ \A k \in 1..Len(packets[i]) : stream[cut[i - 1] + k] = packets[i][k]
  BY <1>1 DEF IsCut, n, m
<1>6. cut[1] = c
  BY <1>3, <1>5 DEF c
<1>7. \A i \in 1..n : c <= cut[i]
  BY <1>1, <1>6, CutBounds DEF n
<1>8. c <= m
  BY <1>2, <1>5, <1>7
<1>9. \A k \in 1..c : stream[k] = packets[1][k]
  <2>1. \A k \in 1..Len(packets[1]) : stream[cut[0] + k] = packets[1][k]
    BY <1>3, <1>5
  <2> QED BY <1>3, <1>5, <2>1 DEF c
<1>10. /\ rest \in Seq(Nat) /\ Len(rest) = m - c
       /\ \A k \in 1..m - c : rest[k] = stream[c + k]
  <2>1. stream \in Seq(Nat) /\ c + 1 \in 1..Len(stream) + 1 /\ m \in 0..Len(stream) /\ c + 1 <= m + 1
    BY <1>3, <1>8 DEF m
  <2> QED BY <1>3, <1>8, <2>1, SubSeqProperties DEF rest, m
<1> DEFINE new == [i \in 0..n - 1 |-> cut[i + 1] - c]
<1>11. /\ new \in [0..n - 1 -> Nat] /\ new[0] = 0 /\ new[n - 1] = m - c
       /\ \A i \in 0..n - 1 : new[i] = cut[i + 1] - c
  <2>1. \A i \in 0..n - 1 : i + 1 \in 1..n /\ cut[i + 1] \in Nat /\ cut[i + 1] - c \in Nat
    BY <1>2, <1>3, <1>5, <1>7
  <2>2. 0 \in 0..n - 1 /\ n - 1 \in 0..n - 1 /\ (n - 1) + 1 = n /\ 0 + 1 = 1
    BY <1>2
  <2>3. \A i \in 0..n - 1 : new[i] = cut[i + 1] - c
    OBVIOUS
  <2>4. new[0] = 0
    BY <1>3, <1>6, <2>2, <2>3
  <2>5. new[n - 1] = m - c
    BY <1>5, <2>2, <2>3
  <2>6. new \in [0..n - 1 -> Nat]
    BY <2>1
  <2> QED BY <2>3, <2>4, <2>5, <2>6
<1> HIDE DEF new
<1>12. ASSUME NEW i \in 1..n - 1
       PROVE  /\ new[i] = new[i - 1] + Len(q[i])
              /\ \A k \in 1..Len(q[i]) : rest[new[i - 1] + k] = q[i][k]
  <2>1. i + 1 \in 1..n /\ (i + 1) - 1 = i /\ i \in 1..n /\ i - 1 \in 0..n - 1 /\ i \in 0..n - 1
        /\ (i - 1) + 1 = i /\ i \in 0..n
    BY <1>2
  <2>2. q[i] = packets[i + 1] /\ Len(packets[i + 1]) \in Nat
    BY <1>2, <1>4, <2>1
  <2>3. new[i] = cut[i + 1] - c /\ new[i - 1] = cut[i] - c
    BY <1>11, <2>1
  <2>4. cut[i] \in Nat /\ cut[i + 1] \in Nat /\ c <= cut[i]
    BY <1>2, <1>5, <1>7, <2>1
  <2>5. cut[i + 1] <= m
    <3>1. i + 1 \in 0..n
      BY <2>1
    <3> QED BY <1>1, <3>1, CutBounds DEF n, m
  <2>6. cut[i + 1] = cut[i] + Len(packets[i + 1])
    BY <1>5, <2>1
  <2>7. ASSUME NEW k \in 1..Len(q[i])
        PROVE  rest[new[i - 1] + k] = q[i][k]
    <3>1. new[i - 1] + k \in 1..m - c /\ c + (new[i - 1] + k) = cut[i] + k
      <4>1. Len(q[i]) = Len(packets[i + 1]) /\ k \in 1..Len(packets[i + 1])
        BY <2>2
      <4>2. k \in Nat /\ 1 <= k /\ cut[i] + k <= cut[i + 1]
        BY <2>2, <2>4, <2>6, <4>1
      <4>3. cut[i] - c + k \in 1..m - c /\ c + (cut[i] - c + k) = cut[i] + k
        <5> DEFINE x == cut[i]
                   y == cut[i + 1]
        <5>1. m \in Nat /\ c \in Nat /\ x \in Nat /\ y \in Nat /\ c <= x /\ y <= m
              /\ k \in Nat /\ 1 <= k /\ x + k <= y
          BY <1>3, <2>4, <2>5, <4>2
        <5> HIDE DEF x, y
        <5>2. x - c + k \in 1..m - c /\ c + (x - c + k) = x + k
          BY <5>1
        <5> QED BY <5>2 DEF x
      <4> QED BY <2>3, <4>3
    <3>2. stream[cut[i] + k] = packets[i + 1][k]
      BY <1>5, <2>1, <2>2
    <3> QED BY <1>10, <2>2, <3>1, <3>2
  <2> QED BY <1>3, <2>2, <2>3, <2>4, <2>6, <2>7
<1>13. IsCut(rest, q, new)
  BY <1>2, <1>10, <1>11, <1>12 DEF IsCut
<1> QED BY <1>8, <1>9, <1>13 DEF Joins, c, q, rest, m

-----------------------------------------------------------------------------
(* The connection                                                          *)

(* What the parser will hold when the bytes under way have arrived. *)
Stream == m_data \o Decompress(treepos, wire).out

(* The packets of rest are those sent and not yet handled, and they are    *)
(* what is in the parser and under way.                                    *)
Unhandled(rest) == rest \in Seq(Packets) /\ sent = handled \o rest

UnderWay(rest) ==
  /\ m_data \in Seq(Nat) /\ wire \in Seq(Byte) /\ treepos \in InnerNodes
  /\ Decompress(treepos, wire).treepos = 0
  /\ Joins(Stream, rest)

InOrder ==
  ~leftover =>
    /\ handled \in Seq(Packets)
    /\ \E rest : Unhandled(rest) /\ (m_connected => UnderWay(rest))

(* A closed connection leaves nothing to handle, and the loop of           *)
(* PacketReader::Read only ends when no whole packet is left.              *)
ClosedEmpty == ~m_connected => m_data = <<>>
ReadToEnd   == ~reading => ~HasPacket

SInv == InOrder /\ ClosedEmpty /\ ReadToEnd

LEMMA StreamType ==
  ASSUME NEW rest, UnderWay(rest)
  PROVE  /\ Stream \in Seq(Nat)
         /\ Len(m_data) \in Nat
         /\ Len(Stream) >= Len(m_data)
         /\ \A k \in 1..Len(m_data) : Stream[k] = m_data[k]
BY DecompressType, ConcatProperties DEF Stream, UnderWay

(* The parser finds exactly the first packet not yet handled, as soon as   *)
(* its last byte is there.                                                 *)
LEMMA ParserFindsPacket ==
  ASSUME NEW rest \in Seq(Packets), UnderWay(rest)
  PROVE  /\ HasPacket => /\ rest # <<>>
                         /\ WantSize = Len(rest[1])
                         /\ WantSize <= Len(m_data)
         /\ rest # <<>> /\ Len(m_data) >= Len(rest[1]) => HasPacket
<1>1. /\ Stream \in Seq(Nat) /\ Joins(Stream, rest) /\ m_data \in Seq(Nat)
      /\ Len(m_data) \in Nat /\ Len(Stream) >= Len(m_data)
      /\ \A k \in 1..Len(m_data) : Stream[k] = m_data[k]
  BY StreamType DEF UnderWay
<1>2. ASSUME m_data # <<>>
      PROVE  rest # <<>>
  <2>1. Len(m_data) > 0
    BY <1>1, <1>2, EmptySeq
  <2>2. Stream # <<>>
    <3> SUFFICES ASSUME Stream = <<>> PROVE FALSE
      OBVIOUS
    <3>1. Len(Stream) = 0
      BY EmptySeq
    <3> QED BY <1>1, <2>1, <3>1
  <2> QED BY <1>1, <2>2, JoinsNothing
<1>3. ASSUME rest # <<>>, m_data # <<>>
      PROVE  /\ Size[m_data[1]] = Size[rest[1][1]]
             /\ (Size[m_data[1]] # 0 \/ Len(m_data) >= 3) => WantSize = Len(rest[1])
             /\ Len(rest[1]) \in Nat /\ Len(rest[1]) > 0
             /\ Size[m_data[1]] = 0 => Len(rest[1]) >= 3
  <2> DEFINE p == rest[1]
  <2>1. Len(rest) \in Nat \ {0}
    BY <1>3, EmptySeq
  <2>2. p \in Packets
    BY <2>1
  <2>3. Len(p) \in Nat /\ Len(p) > 0 /\ \A k \in 1..Len(p) : Stream[k] = p[k]
    BY <1>1, <1>3, <2>2, PacketType, JoinsFirst
  <2>4. Len(m_data) > 0
    BY <1>1, <1>3, EmptySeq
  <2> HIDE DEF p
  <2>5. m_data[1] = p[1]
    BY <1>1, <2>3, <2>4
  <2>6. Size[p[1]] = 0 => Len(p) >= 3
    BY <2>2, PacketsAssumption
  <2>7. Len(p) = IF Size[p[1]] # 0 THEN Size[p[1]] ELSE 256 * p[2] + p[3]
    BY <2>2, PacketsAssumption
  <2>8. Size[p[1]] = 0 /\ Len(m_data) >= 3 => m_data[2] = p[2] /\ m_data[3] = p[3]
    <3> SUFFICES ASSUME Size[p[1]] = 0, Len(m_data) >= 3
                 PROVE  m_data[2] = p[2] /\ m_data[3] = p[3]
      OBVIOUS
    <3>1. 2 \in 1..Len(p) /\ 3 \in 1..Len(p) /\ 2 \in 1..Len(m_data) /\ 3 \in 1..Len(m_data)
      BY <1>1, <2>3, <2>6
    <3> QED BY <1>1, <2>3, <3>1
  <2> QED BY <2>3, <2>5, <2>6, <2>7, <2>8 DEF WantSize, p
<1>4. ASSUME HasPacket
      PROVE  rest # <<>> /\ WantSize = Len(rest[1]) /\ WantSize <= Len(m_data)
  <2>1. /\ m_data # <<>> /\ (Size[m_data[1]] = 0 => Len(m_data) >= 3)
        /\ Len(m_data) >= WantSize
    BY <1>4 DEF HasPacket
  <2>2. rest # <<>>
    BY <1>2, <2>1
  <2> QED BY <1>1, <1>3, <2>1, <2>2
<1>5. ASSUME rest # <<>>, Len(m_data) >= Len(rest[1])
      PROVE  HasPacket
  <2>1. rest[1] \in Packets
    BY <1>5, EmptySeq
  <2>2. Len(m_data) > 0
    <3>1. Len(rest[1]) \in Nat /\ Len(rest[1]) > 0
      BY <2>1, PacketType
    <3> QED BY <1>1, <1>5, <3>1
  <2>3. m_data # <<>>
    <3> SUFFICES ASSUME m_data = <<>> PROVE FALSE
      OBVIOUS
    <3>1. Len(m_data) = 0
      BY EmptySeq
    <3> QED BY <2>2, <3>1
  <2> QED BY <1>1, <1>3, <1>5, <2>3 DEF HasPacket
<1> QED BY <1>4, <1>5

LEMMA InitHolds == Init => SInv
<1> SUFFICES ASSUME Init PROVE SInv
  OBVIOUS
<1>1. /\ m_data = <<>> /\ wire = <<>> /\ treepos = 0 /\ sent = <<>> /\ handled = <<>>
      /\ m_connected
  BY DEF Init
<1>2. <<>> \in Seq(Packets) /\ <<>> \in Seq(Nat) /\ <<>> \in Seq(Byte)
  BY EmptySeq
<1>3. Unhandled(<<>>)
  BY <1>1, <1>2, ConcatEmptySeq DEF Unhandled
<1>4. UnderWay(<<>>)
  <2>1. Decompress(0, <<>>).out = <<>> /\ Decompress(0, <<>>).treepos = 0
    BY DecompressNothing
  <2>2. Stream = <<>>
    BY <1>1, <1>2, <2>1, ConcatEmptySeq DEF Stream
  <2>3. Joins(<<>>, <<>>)
    BY <1>2, JoinsNothing
  <2> QED BY <1>1, <1>2, <2>1, <2>2, <2>3 DEF UnderWay
<1>5. InOrder
  BY <1>1, <1>2, <1>3, <1>4 DEF InOrder
<1>6. ClosedEmpty /\ ReadToEnd
  BY <1>1 DEF ClosedEmpty, ReadToEnd, HasPacket
<1> QED BY <1>5, <1>6 DEF SInv

(* A new connection begins with nothing sent and nothing in the parser; if *)
(* it does not begin at the top of the tree, leftover says so.             *)
LEMMA ConnectKeeps ==
  ASSUME SInv, Connect
  PROVE  SInv'
<1>1. /\ m_data' = <<>> /\ wire' = <<>> /\ sent' = <<>> /\ handled' = <<>>
      /\ m_connected' /\ treepos' = treepos /\ (leftover' <=> treepos # 0)
  BY DEF Connect
<1>2. <<>> \in Seq(Packets) /\ <<>> \in Seq(Nat) /\ <<>> \in Seq(Byte)
  BY EmptySeq
<1>3. Unhandled(<<>>)'
  BY <1>1, <1>2, ConcatEmptySeq DEF Unhandled
<1>4. ASSUME treepos = 0
      PROVE  UnderWay(<<>>)'
  <2>1. Decompress(0, <<>>).out = <<>> /\ Decompress(0, <<>>).treepos = 0
    BY DecompressNothing
  <2>2. Stream' = <<>>
    BY <1>1, <1>2, <1>4, <2>1, ConcatEmptySeq DEF Stream
  <2>3. Joins(<<>>, <<>>)
    BY <1>2, JoinsNothing
  <2> QED BY <1>1, <1>2, <1>4, <2>1, <2>2, <2>3 DEF UnderWay
<1>5. InOrder'
  BY <1>1, <1>2, <1>3, <1>4 DEF InOrder
<1>6. ClosedEmpty' /\ ReadToEnd'
  BY <1>1 DEF ClosedEmpty, ReadToEnd, HasPacket
<1> QED BY <1>5, <1>6 DEF SInv

LEMMA LoseKeeps ==
  ASSUME SInv, LoseConnection
  PROVE  SInv'
<1>1. /\ m_data' = <<>> /\ ~m_connected'
      /\ UNCHANGED <<sent, handled, leftover>>
  BY DEF LoseConnection, Disconnect
<1>2. InOrder'
  BY <1>1 DEF SInv, InOrder, Unhandled
<1>3. ClosedEmpty' /\ ReadToEnd'
  BY <1>1 DEF ClosedEmpty, ReadToEnd, HasPacket
<1> QED BY <1>2, <1>3 DEF SInv

(* Wherever the stream is cut, the symbols of both parts are those of the  *)
(* whole.                                                                  *)
LEMMA ReceiveKeeps ==
  ASSUME SInv, Receive
  PROVE  SInv'
<1>1. PICK n \in 1..Len(wire) :
        LET s == Decompress(treepos, SubSeq(wire, 1, n))
        IN /\ m_data' = m_data \o s.out
           /\ treepos' = s.treepos
           /\ wire' = SubSeq(wire, n + 1, Len(wire))
  BY DEF Receive
<1>2. m_connected /\ reading' /\ UNCHANGED <<m_connected, sent, handled, leftover>>
  BY DEF Receive
<1>3. ASSUME NEW rest, UnderWay(rest)
      PROVE  UnderWay(rest)'
  <2> DEFINE a == SubSeq(wire, 1, n)
             b == SubSeq(wire, n + 1, Len(wire))
             s == Decompress(treepos, a)
             u == Decompress(s.treepos, b)
  <2>1. wire \in Seq(Byte) /\ treepos \in InnerNodes /\ m_data \in Seq(Nat)
    BY <1>3 DEF UnderWay
  <2>2. a \in Seq(Byte) /\ b \in Seq(Byte) /\ wire = a \o b
    BY <2>1, SplitBytes
  <2>3. m_data' = m_data \o s.out /\ treepos' = s.treepos /\ wire' = b
    BY <1>1
  <2> HIDE DEF a, b
  <2>4. s.out \in Seq(Nat) /\ s.treepos \in InnerNodes
    BY <2>1, <2>2, DecompressType
  <2>5. u.out \in Seq(Nat)
    BY <2>2, <2>4, DecompressType
  <2>6. /\ Decompress(treepos, wire).treepos = u.treepos
        /\ Decompress(treepos, wire).out = s.out \o u.out
    BY <2>1, <2>2, DecompressConcat
  <2>7. Decompress(treepos, wire)' = u
    BY <2>3
  <2> HIDE DEF s, u
  <2>8. Stream' = Stream
    <3>1. (m_data \o s.out) \o u.out = m_data \o (s.out \o u.out)
      BY <2>1, <2>4, <2>5, ConcatNats
    <3>2. Stream' = (m_data \o s.out) \o u.out
      BY <2>3, <2>7 DEF Stream
    <3>3. Stream = m_data \o (s.out \o u.out)
      BY <2>6 DEF Stream
    <3> QED BY <3>1, <3>2, <3>3
  <2>9. m_data' \in Seq(Nat)
    BY <2>1, <2>3, <2>4, ConcatProperties
  <2> QED BY <1>3, <2>2, <2>3, <2>4, <2>6, <2>7, <2>8, <2>9 DEF UnderWay
<1>4. InOrder'
  <2> SUFFICES ASSUME ~leftover
               PROVE  handled' \in Seq(Packets) /\ \E rest : Unhandled(rest)' /\ UnderWay(rest)'
    BY <1>2 DEF InOrder
  <2>1. PICK rest : Unhandled(rest) /\ UnderWay(rest) /\ handled \in Seq(Packets)
    BY <1>2 DEF SInv, InOrder
  <2>2. Unhandled(rest)' /\ UnderWay(rest)'
    BY <1>2, <1>3, <2>1 DEF Unhandled
  <2> QED BY <1>2, <2>1, <2>2
<1>5. ClosedEmpty' /\ ReadToEnd'
  BY <1>2 DEF ClosedEmpty, ReadToEnd
<1> QED BY <1>4, <1>5 DEF SInv

LEMMA SendKeeps ==
  ASSUME SInv, ServerSend
  PROVE  SInv'
<1>1. PICK p \in Packets : sent' = Append(sent, p) /\ wire' = wire \o Compressed[p]
  BY DEF ServerSend
<1>2. m_connected /\ UNCHANGED <<m_connected, m_data, treepos, reading, handled, leftover>>
  BY DEF ServerSend
<1>3. /\ Compressed[p] \in Seq(Byte)
      /\ Decompress(0, Compressed[p]).out = p /\ Decompress(0, Compressed[p]).treepos = 0
  BY CodeAssumption DEF Compressed
<1>4. ASSUME NEW rest, Unhandled(rest), UnderWay(rest), handled \in Seq(Packets)
      PROVE  Unhandled(Append(rest, p))' /\ UnderWay(Append(rest, p))'
  <2>1. rest \in Seq(Packets) /\ sent = handled \o rest
    BY <1>4 DEF Unhandled
  <2>2. Append(rest, p) \in Seq(Packets) /\ Append(handled \o rest, p) = handled \o Append(rest, p)
    <3>1. /\ Append(rest, p) = rest \o <<p>> /\ <<p>> \in Seq(Packets)
          /\ handled \o rest \in Seq(Packets)
      BY <2>1, <1>4, AppendIsConcat, ConcatProperties
    <3>2. Append(handled \o rest, p) = (handled \o rest) \o <<p>>
      BY <3>1, AppendIsConcat
    <3>3. (handled \o rest) \o <<p>> = handled \o (rest \o <<p>>)
      BY <1>4, <2>1, <3>1, ConcatAssociative
    <3> QED BY <2>1, <3>1, <3>2, <3>3, AppendProperties
  <2>3. Unhandled(Append(rest, p))'
    BY <1>1, <1>2, <2>1, <2>2 DEF Unhandled
  <2>4. /\ wire \in Seq(Byte) /\ treepos \in InnerNodes /\ m_data \in Seq(Nat)
        /\ Decompress(treepos, wire).treepos = 0 /\ Joins(Stream, rest)
    BY <1>4 DEF UnderWay
  <2>5. p \in Seq(Nat) /\ Decompress(treepos, wire).out \in Seq(Nat)
    BY <2>4, PacketType, DecompressType
  <2>6. /\ wire' \in Seq(Byte)
        /\ Decompress(treepos, wire').treepos = 0
        /\ Decompress(treepos, wire').out = Decompress(treepos, wire).out \o p
    <3>1. wire' \in Seq(Byte)
      BY <1>1, <1>3, <2>4, ConcatProperties
    <3> DEFINE c == Compressed[p]
               s == Decompress(treepos, wire)
    <3>2. c \in Seq(Byte) /\ s.treepos = 0 /\ wire' = wire \o c
      BY <1>1, <1>3, <2>4
    <3>3. Decompress(0, c).out = p /\ Decompress(0, c).treepos = 0
      BY <1>3
    <3> HIDE DEF c
    <3>4. /\ Decompress(treepos, wire \o c).treepos = Decompress(s.treepos, c).treepos
          /\ Decompress(treepos, wire \o c).out = s.out \o Decompress(s.treepos, c).out
      BY <2>4, <3>2, DecompressConcat
    <3> QED BY <3>1, <3>2, <3>3, <3>4
  <2>7. Stream' = Stream \o p
    <3> DEFINE o == Decompress(treepos, wire).out
    <3>1. Stream' = m_data \o (o \o p)
      BY <1>2, <2>6 DEF Stream
    <3>2. (m_data \o o) \o p = m_data \o (o \o p)
      BY <2>4, <2>5, ConcatNats
    <3> QED BY <3>1, <3>2 DEF Stream
  <2>8. Joins(Stream \o p, Append(rest, p))
    <3>1. Stream \in Seq(Nat)
      BY <1>4, StreamType
    <3> QED BY <2>1, <2>4, <3>1, JoinsAppend
  <2>9. UnderWay(Append(rest, p))'
    BY <1>2, <2>4, <2>6, <2>7, <2>8 DEF UnderWay
  <2> QED BY <2>3, <2>9
<1>5. InOrder'
  <2> SUFFICES ASSUME ~leftover
               PROVE  handled' \in Seq(Packets) /\ \E rest : Unhandled(rest)' /\ UnderWay(rest)'
    BY <1>2 DEF InOrder
  <2>1. PICK rest : Unhandled(rest) /\ UnderWay(rest) /\ handled \in Seq(Packets)
    BY <1>2 DEF SInv, InOrder
  <2> QED BY <1>2, <1>4, <2>1
<1>6. ClosedEmpty' /\ ReadToEnd'
  BY <1>2 DEF SInv, ClosedEmpty, ReadToEnd, HasPacket, WantSize
<1> QED BY <1>5, <1>6 DEF SInv

(* A turn of the loop takes the first packet not yet handled, whole, and   *)
(* the stream goes on behind it; a handler that closes the connection      *)
(* leaves nothing of either.                                               *)
LEMMA HandleKeeps ==
  ASSUME SInv, HandlePacket
  PROVE  SInv'
<1>1. /\ reading /\ HasPacket
      /\ handled' = Append(handled, SubSeq(m_data, 1, WantSize))
      /\ UNCHANGED <<treepos, reading, sent, leftover>>
  BY DEF HandlePacket
<1>2. m_connected
  BY <1>1 DEF SInv, ClosedEmpty, HasPacket
<1>3. ASSUME NEW rest, Unhandled(rest), UnderWay(rest), handled \in Seq(Packets)
      PROVE  /\ handled' \in Seq(Packets) /\ Unhandled(Tail(rest))'
             /\ /\ m_data' = SubSeq(m_data, WantSize + 1, Len(m_data))
                /\ UNCHANGED wire
                => UnderWay(Tail(rest))'
  <2> DEFINE p == rest[1]
             c == WantSize
             b == SubSeq(m_data, c + 1, Len(m_data))
             o == Decompress(treepos, wire).out
  <2>1. rest \in Seq(Packets) /\ sent = handled \o rest
    BY <1>3 DEF Unhandled
  <2>2. rest # <<>> /\ c = Len(p) /\ c <= Len(m_data)
    BY <1>1, <1>3, <2>1, ParserFindsPacket
  <2>3. p \in Packets /\ rest = <<p>> \o Tail(rest) /\ Tail(rest) \in Seq(Packets)
    <3>1. Len(rest) \in Nat \ {0}
      BY <2>1, <2>2, EmptySeq
    <3> QED BY <2>1, <2>2, <3>1, HeadTailProperties, FirstBeforeOthers
  <2>4. p \in Seq(Nat) /\ Len(p) \in Nat \ {0}
    BY <2>3, PacketType
  <2>5. /\ m_data \in Seq(Nat) /\ o \in Seq(Nat) /\ wire \in Seq(Byte) /\ treepos \in InnerNodes
        /\ Decompress(treepos, wire).treepos = 0 /\ Joins(Stream, rest)
        /\ Stream \in Seq(Nat) /\ Len(Stream) >= Len(m_data) /\ Len(m_data) \in Nat
        /\ \A k \in 1..Len(m_data) : Stream[k] = m_data[k]
        /\ Stream = m_data \o o
    BY <1>3, DecompressType, StreamType DEF UnderWay, Stream
  <2>6. SubSeq(m_data, 1, c) = p
    <3>1. \A k \in 1..Len(p) : Stream[k] = p[k]
      BY <2>1, <2>2, <2>5, JoinsFirst
    <3> HIDE DEF c, p
    <3>2. Len(p) <= Len(m_data) /\ m_data \in Seq(Nat) /\ p \in Seq(Nat)
      BY <2>2, <2>4, <2>5
    <3>3. \A k \in 1..Len(p) : m_data[k] = p[k]
      BY <2>4, <2>5, <3>1, <3>2
    <3>4. SubSeq(m_data, 1, Len(p)) = p
      BY <3>2, <3>3, FrontEqual
    <3> QED BY <2>2, <3>4
  <2>7. handled' = Append(handled, p)
    BY <1>1, <2>6
  <2>8. handled' \in Seq(Packets)
    BY <1>3, <2>3, <2>7, AppendProperties
  <2>9. sent = handled' \o Tail(rest)
    <3>1. Append(handled, p) = handled \o <<p>> /\ <<p>> \in Seq(Packets)
      BY <1>3, <2>3, AppendIsConcat
    <3>2. (handled \o <<p>>) \o Tail(rest) = handled \o (<<p>> \o Tail(rest))
      BY <1>3, <2>3, <3>1, ConcatAssociative
    <3> QED BY <2>1, <2>3, <2>7, <3>1, <3>2
  <2>10. ASSUME m_data' = b, UNCHANGED wire
         PROVE  UnderWay(Tail(rest))'
    <3>1. b \in Seq(Nat) /\ b \o o = SubSeq(Stream, c + 1, Len(Stream))
      <4> HIDE DEF o, p, c
      <4>1. c \in 0..Len(m_data)
        BY <2>2, <2>4, <2>5
      <4>2. m_data \in Seq(Nat) /\ o \in Seq(Nat) /\ Stream = m_data \o o
        BY <2>5
      <4>3. /\ SubSeq(m_data, c + 1, Len(m_data)) \in Seq(Nat)
            /\ SubSeq(m_data, c + 1, Len(m_data)) \o o
               = SubSeq(m_data \o o, c + 1, Len(m_data \o o))
        BY <4>1, <4>2, CutBehind
      <4> QED BY <4>2, <4>3
    <3>2. Joins(SubSeq(Stream, c + 1, Len(Stream)), Tail(rest))
      BY <2>1, <2>2, <2>5, JoinsFirst
    <3>3. Stream' = b \o o
      BY <1>1, <2>10 DEF Stream
    <3>4. Joins(Stream', Tail(rest))
      BY <3>1, <3>2, <3>3
    <3>5. treepos' = treepos /\ wire' = wire
      BY <1>1, <2>10
    <3> QED BY <2>5, <2>10, <3>1, <3>4, <3>5 DEF UnderWay
  <2> QED BY <1>1, <2>3, <2>8, <2>9, <2>10 DEF Unhandled
<1>4. InOrder'
  <2> SUFFICES ASSUME ~leftover
               PROVE  /\ handled' \in Seq(Packets)
                      /\ \E rest : Unhandled(rest)' /\ (m_connected' => UnderWay(rest)')
    BY <1>1 DEF InOrder
  <2>1. PICK rest : Unhandled(rest) /\ UnderWay(rest) /\ handled \in Seq(Packets)
    BY <1>2 DEF SInv, InOrder
  <2>2. /\ handled' \in Seq(Packets) /\ Unhandled(Tail(rest))'
        /\ /\ m_data' = SubSeq(m_data, WantSize + 1, Len(m_data))
           /\ UNCHANGED wire
           => UnderWay(Tail(rest))'
    BY <1>3, <2>1
  <2>3. \/ m_data' = SubSeq(m_data, WantSize + 1, Len(m_data)) /\ UNCHANGED wire
        \/ ~m_connected'
    BY DEF HandlePacket, Disconnect
  <2> QED BY <2>2, <2>3
<1>5. ClosedEmpty'
  BY <1>2 DEF HandlePacket, Disconnect, ClosedEmpty
<1>6. ReadToEnd'
  BY <1>1 DEF ReadToEnd
<1> QED BY <1>4, <1>5, <1>6 DEF SInv

LEMMA DoneKeeps ==
  ASSUME SInv, ReadDone \/ UNCHANGED vars
  PROVE  SInv'
<1>1. /\ UNCHANGED <<m_connected, m_data, treepos, wire, sent, handled, leftover>>
      /\ reading' = reading \/ ~HasPacket
  BY DEF ReadDone, vars
<1>2. /\ Stream' = Stream
      /\ Decompress(treepos, wire)' = Decompress(treepos, wire)
  BY <1>1 DEF Stream
<1>3. InOrder'
  BY <1>1, <1>2 DEF SInv, InOrder, Unhandled, UnderWay
<1>4. HasPacket' = HasPacket
  BY <1>1 DEF HasPacket, WantSize
<1>5. ClosedEmpty' /\ ReadToEnd'
  BY <1>1, <1>4 DEF SInv, ClosedEmpty, ReadToEnd
<1> QED BY <1>3, <1>5 DEF SInv

LEMMA NextKeeps == SInv /\ [Next]_vars => SInv'
BY ConnectKeeps, LoseKeeps, ReceiveKeeps, HandleKeeps, DoneKeeps, SendKeeps DEF Next

LEMMA SInvHolds == Spec => []SInv
BY InitHolds, NextKeeps, PTL DEF Spec

-----------------------------------------------------------------------------
(* The properties                                                          *)

LEMMA InOrderImplies == SInv => HandledInOrder
<1> SUFFICES ASSUME SInv, ~leftover PROVE IsPrefix(handled, sent)
  BY DEF HandledInOrder
<1>1. PICK rest : Unhandled(rest) /\ handled \in Seq(Packets)
  BY DEF SInv, InOrder
<1>2. rest \in Seq(Packets) /\ sent = handled \o rest
  BY <1>1 DEF Unhandled
<1> QED BY <1>1, <1>2, FrontIsPrefix

LEMMA NothingLeftImplies == SInv => NothingLeftBehind
<1> SUFFICES ASSUME SInv, ~leftover, m_connected, wire = <<>>, ~reading
             PROVE  handled = sent
  BY DEF NothingLeftBehind
<1>1. PICK rest : Unhandled(rest) /\ UnderWay(rest) /\ handled \in Seq(Packets)
  BY DEF SInv, InOrder
<1>2. rest \in Seq(Packets) /\ sent = handled \o rest
  BY <1>1 DEF Unhandled
<1>3. ~HasPacket
  BY DEF SInv, ReadToEnd
<1>4. Stream = m_data /\ m_data \in Seq(Nat) /\ Joins(Stream, rest)
  <2>1. m_data \in Seq(Nat) /\ treepos \in InnerNodes /\ Joins(Stream, rest)
    BY <1>1 DEF UnderWay
  <2>2. Decompress(treepos, wire).out = <<>>
    BY <2>1, DecompressNothing
  <2> QED BY <2>1, <2>2, ConcatEmptySeq DEF Stream
<1>5. rest = <<>>
  <2> SUFFICES ASSUME rest # <<>> PROVE FALSE
    OBVIOUS
  <2>1. Len(rest[1]) <= Len(m_data)
    BY <1>2, <1>4, JoinsFirst
  <2>2. rest[1] \in Packets
    BY <1>2, EmptySeq
  <2>3. Len(rest[1]) \in Nat /\ Len(m_data) \in Nat
    BY <1>4, <2>2, PacketType
  <2> QED BY <1>1, <1>2, <1>3, <2>1, <2>3, ParserFindsPacket
<1> QED BY <1>1, <1>2, <1>5, ConcatEmptySeq

(* However the stream is cut into reads, the handlers see the packets the  *)
(* server sent on this connection, whole and in order.                     *)
THEOREM InOrderHolds == Spec => []HandledInOrder
BY SInvHolds, InOrderImplies, PTL

(* No packet waits for the next one: when every byte has been read and the *)
(* loop of PacketReader::Read has ended, every packet has been handled.    *)
THEOREM NothingLeftHolds == Spec => []NothingLeftBehind
BY SInvHolds, NothingLeftImplies, PTL

LEMMA SessionsCounted == Spec => [](sessions \in Nat)
<1>1. Init => sessions \in Nat
  BY DEF Init
<1>2. sessions \in Nat /\ [Next]_vars => (sessions \in Nat)'
  BY DEF Next, vars, Connect, LoseConnection, Receive, HandlePacket, ReadDone, ServerSend
<1> QED BY <1>1, <1>2, PTL DEF Spec

(* No packet is handled once a handler has closed the connection.          *)
THEOREM NoneAfterDisconnect == Spec => NoPacketAfterDisconnect
<1>1. SInv /\ sessions \in Nat /\ [Next]_vars
      => [handled' # handled /\ sessions' = sessions => m_connected]_vars
  <2> SUFFICES ASSUME SInv, sessions \in Nat, [Next]_vars,
                      handled' # handled, sessions' = sessions
               PROVE  m_connected
    OBVIOUS
  <2>1. HandlePacket \/ Connect
    BY DEF Next, vars, LoseConnection, Receive, ReadDone, ServerSend
  <2>2. CASE HandlePacket
    BY <2>2 DEF HandlePacket, SInv, ClosedEmpty, HasPacket
  <2>3. CASE Connect
    BY <2>3 DEF Connect
  <2> QED BY <2>1, <2>2, <2>3
<1> QED BY <1>1, SInvHolds, SessionsCounted, PTL DEF Spec, NoPacketAfterDisconnect
=============================================================================
