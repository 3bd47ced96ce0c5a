----------------------------- MODULE LoopProofs -----------------------------
(***************************************************************************)
(* Theorems of SelectLoop.                                                 *)
(***************************************************************************)
EXTENDS SelectLoop, SequenceTheorems, WellFoundedInduction, TLAPS

---------------------------------------------------------------------------
\* What FlattenSeq computes.

\* Induction, for a set of naturals.
LEMMA AllNaturals ==
    ASSUME NEW T, 0 \in T, \A n \in Nat : n \in T => n + 1 \in T
    PROVE  Nat \subseteq T
<1> DEFINE R == {ss \in Nat \X Nat : ss[1] < ss[2]}
           S == {n \in Nat : n \notin T}
<1>0. IsWellFoundedOn(R, Nat)
    BY NatLessThanWellFounded DEF OpToRel
<1> SUFFICES ASSUME S # {} PROVE FALSE
    OBVIOUS
<1>1. PICK m \in S : \A k \in S : <<k, m>> \notin R
  <2> S \subseteq Nat OBVIOUS
  <2> HIDE DEF R, S
  <2> QED BY <1>0, WFMin
<1>2. \A k \in S : ~(k < m)
    BY <1>1
<1>3. m \in Nat /\ m # 0 /\ m \notin T
    OBVIOUS
<1>4. m - 1 \in Nat /\ m - 1 \in T
    BY <1>2, <1>3
<1> QED BY <1>3, <1>4

\* The equations of the function that FlattenSeq defines, up to n.
Step(g, ss, i) == IF i = 1 THEN ss[i] ELSE g[i - 1] \o ss[i]
Flattens(g, ss, n) == \A i \in 1 .. n : g[i] = Step(g, ss, i)

LEMMA StepSame ==
    ASSUME NEW g, NEW h, NEW ss, NEW i \in Nat \ {0}, i # 1 => g[i - 1] = h[i - 1]
    PROVE  Step(g, ss, i) = Step(h, ss, i)
BY DEF Step

LEMMA FlattenExtends ==
    ASSUME NEW ss, NEW n \in Nat, NEW g, Flattens(g, ss, n)
    PROVE  \E h : Flattens(h, ss, n + 1)
<1> DEFINE h == [i \in 1 .. n + 1 |-> IF i = n + 1 THEN Step(g, ss, n + 1) ELSE g[i]]
<1>1. /\ \A i \in 1 .. n : h[i] = g[i]
      /\ h[n + 1] = Step(g, ss, n + 1)
    OBVIOUS
<1> HIDE DEF h
<1>2. \A i \in 1 .. n + 1 : i # 1 => i - 1 \in 1 .. n /\ h[i - 1] = g[i - 1]
    BY <1>1
<1>3. \A i \in 1 .. n + 1 : Step(h, ss, i) = Step(g, ss, i)
    BY <1>2, StepSame
<1>4. ASSUME NEW i \in 1 .. n + 1 PROVE h[i] = Step(h, ss, i)
  <2>1. CASE i = n + 1 BY <1>1, <1>3, <2>1
  <2>2. CASE i # n + 1
    <3>1. i \in 1 .. n BY <2>2
    <3>2. g[i] = Step(g, ss, i) BY <3>1 DEF Flattens
    <3> QED BY <1>1, <1>3, <3>1, <3>2
  <2> QED BY <2>1, <2>2
<1> QED BY <1>4 DEF Flattens

LEMMA FlattenExists == ASSUME NEW ss, NEW n \in Nat PROVE \E g : Flattens(g, ss, n)
<1> DEFINE T == {k \in Nat : \E g : Flattens(g, ss, k)}
<1>1. 0 \in T
    BY DEF Flattens
<1>2. ASSUME NEW k \in Nat, k \in T PROVE k + 1 \in T
  <2>1. PICK g : Flattens(g, ss, k) BY <1>2
  <2>2. \E h : Flattens(h, ss, k + 1) BY <2>1, FlattenExtends
  <2> QED BY <2>2
<1> HIDE DEF T
<1>3. Nat \subseteq T BY <1>1, <1>2, AllNaturals
<1> QED BY <1>3 DEF T

LEMMA FlattenUnique ==
    ASSUME NEW ss, NEW tt, NEW g, NEW h, NEW n \in Nat, Flattens(g, ss, n), Flattens(h, tt, n),
           \A i \in 1 .. n : ss[i] = tt[i]
    PROVE  \A i \in 1 .. n : g[i] = h[i]
<1> DEFINE T == {i \in Nat : i \in 1 .. n => g[i] = h[i]}
<1>1. 0 \in T OBVIOUS
<1>2. ASSUME NEW i \in Nat, i \in T PROVE i + 1 \in T
  <2> SUFFICES ASSUME i + 1 \in 1 .. n PROVE g[i + 1] = h[i + 1] OBVIOUS
  <2>1. g[i + 1] = Step(g, ss, i + 1) /\ h[i + 1] = Step(h, tt, i + 1) BY DEF Flattens
  <2>2. i + 1 # 1 => g[i + 1 - 1] = h[i + 1 - 1]
    <3> SUFFICES ASSUME i + 1 # 1 PROVE g[i] = h[i] OBVIOUS
    <3>1. i \in 1 .. n OBVIOUS
    <3> QED BY <1>2, <3>1
  <2>3. Step(g, ss, i + 1) = Step(h, ss, i + 1) BY <2>2, StepSame
  <2>4. Step(h, ss, i + 1) = Step(h, tt, i + 1) BY DEF Step
  <2> QED BY <2>1, <2>3, <2>4
<1> HIDE DEF T
<1>3. Nat \subseteq T BY <1>1, <1>2, AllNaturals
<1> QED BY <1>3 DEF T

LEMMA FlattenIs ==
    ASSUME NEW ss, NEW n \in Nat \ {0}, Len(ss) = n, NEW g, Flattens(g, ss, n)
    PROVE  FlattenSeq(ss) = g[n]
<1> DEFINE f == CHOOSE h : h = [i \in 1 .. Len(ss) |-> IF i = 1 THEN ss[i] ELSE h[i - 1] \o ss[i]]
<1>1. FlattenSeq(ss) = f[Len(ss)]
    BY DEF FlattenSeq
<1>2. f = CHOOSE h : h = [i \in 1 .. n |-> Step(h, ss, i)]
    BY DEF Step
<1> HIDE DEF f
<1>3. \E h : h = [i \in 1 .. n |-> Step(h, ss, i)]
  <2> DEFINE h == [i \in 1 .. n |-> g[i]]
  <2>1. \A i \in 1 .. n : h[i] = g[i] OBVIOUS
  <2> HIDE DEF h
  <2>2. \A i \in 1 .. n : i # 1 => i - 1 \in 1 .. n /\ h[i - 1] = g[i - 1] BY <2>1
  <2>3. \A i \in 1 .. n : Step(h, ss, i) = Step(g, ss, i) BY <2>2, StepSame
  <2>4. \A i \in 1 .. n : g[i] = Step(h, ss, i) BY <2>3 DEF Flattens
  <2>5. h = [i \in 1 .. n |-> Step(h, ss, i)] BY <2>4 DEF h
  <2> QED BY <2>5
<1>4. f = [i \in 1 .. n |-> Step(f, ss, i)]
    BY <1>2, <1>3
<1>5. Flattens(f, ss, n)
    BY <1>4 DEF Flattens
<1>6. g[n] = f[n]
    BY <1>5, FlattenUnique
<1> QED BY <1>1, <1>6

LEMMA FlattenEmpty == FlattenSeq(<<>>) = <<>>
BY DEF FlattenSeq

LEMMA FlattenAppend ==
    ASSUME NEW B, NEW ss \in Seq(Seq(B)), NEW x \in Seq(B)
    PROVE  FlattenSeq(Append(ss, x)) = FlattenSeq(ss) \o x
<1> DEFINE tt == Append(ss, x)  n == Len(ss)
<1>1. /\ n \in Nat /\ Len(tt) = n + 1
      /\ \A i \in 1 .. n : tt[i] = ss[i]
      /\ tt[n + 1] = x
    BY AppendProperties, LenProperties
<1>2. n = 0 => ss = <<>>
    BY EmptySeq
<1>3. PICK g : Flattens(g, tt, n + 1)
  <2>1. n + 1 \in Nat BY <1>1
  <2> QED BY <2>1, FlattenExists
<1>4. FlattenSeq(tt) = g[n + 1]
  <2> HIDE DEF tt, n
  <2> QED BY <1>1, <1>3, FlattenIs
<1>5. g[n + 1] = Step(g, tt, n + 1)
    BY <1>1, <1>3 DEF Flattens
<1> HIDE DEF tt, n
<1>6. CASE n = 0
  <2>1. g[n + 1] = x BY <1>1, <1>5, <1>6 DEF Step
  <2>2. <<>> \o x = x BY ConcatEmptySeq
  <2> QED BY <1>2, <1>4, <1>6, <2>1, <2>2, FlattenEmpty DEF tt
<1>7. CASE n # 0
  <2>1. PICK h : Flattens(h, ss, n) BY <1>1, FlattenExists
  <2>2. FlattenSeq(ss) = h[n] BY <1>1, <1>7, <2>1, FlattenIs DEF n
  <2>3. Flattens(g, tt, n) BY <1>1, <1>3 DEF Flattens
  <2>4. g[n] = h[n]
    <3>1. \A i \in 1 .. n : g[i] = h[i] BY <1>1, <2>1, <2>3, FlattenUnique
    <3> QED BY <1>1, <1>7, <3>1
  <2>5. g[n + 1] = g[n] \o x BY <1>1, <1>5, <1>7 DEF Step
  <2> QED BY <1>4, <2>2, <2>4, <2>5 DEF tt
<1> QED BY <1>6, <1>7

LEMMA Single == ASSUME NEW S, NEW x \in S PROVE <<x>> \in Seq(S) /\ <<x>> = Append(<<>>, x)
OBVIOUS

LEMMA FunctionIsSeq ==
    ASSUME NEW S, NEW n \in Nat, NEW f \in [1 .. n -> S]
    PROVE  f \in Seq(S) /\ Len(f) = n
BY SeqDef

LEMMA FlattenType ==
    ASSUME NEW B, NEW ss \in Seq(Seq(B))
    PROVE  FlattenSeq(ss) \in Seq(B)
<1> DEFINE T == {n \in Nat : \A tt \in Seq(Seq(B)) : Len(tt) = n => FlattenSeq(tt) \in Seq(B)}
<1>1. 0 \in T
  <2>1. \A tt \in Seq(Seq(B)) : Len(tt) = 0 => tt = <<>> BY EmptySeq
  <2>2. <<>> \in Seq(B) BY EmptySeq
  <2> QED BY <2>1, <2>2, FlattenEmpty
<1>2. ASSUME NEW n \in Nat, n \in T PROVE n + 1 \in T
  <2> SUFFICES ASSUME NEW tt \in Seq(Seq(B)), Len(tt) = n + 1 PROVE FlattenSeq(tt) \in Seq(B)
    OBVIOUS
  <2>1. tt # <<>> BY EmptySeq
  <2>2. PICK uu \in Seq(Seq(B)), x \in Seq(B) : tt = Append(uu, x)
    BY <2>1, SequenceEmptyOrAppend
  <2>3. Len(uu) = n BY <2>2, AppendProperties, LenProperties
  <2>4. FlattenSeq(uu) \in Seq(B) BY <1>2, <2>3
  <2>5. FlattenSeq(tt) = FlattenSeq(uu) \o x BY <2>2, FlattenAppend
  <2> QED BY <2>4, <2>5, ConcatProperties
<1> HIDE DEF T
<1>3. Nat \subseteq T BY <1>1, <1>2, AllNaturals
<1>4. Len(ss) \in T BY <1>3, LenProperties
<1> QED BY <1>4 DEF T

LEMMA FlattenConsAppend ==
    ASSUME NEW B, NEW uu \in Seq(Seq(B)), NEW x \in Seq(B), NEW e \in Seq(B),
           FlattenSeq(<<x>> \o uu) = x \o FlattenSeq(uu)
    PROVE  FlattenSeq(<<x>> \o Append(uu, e)) = x \o FlattenSeq(Append(uu, e))
<1>0. <<x>> \in Seq(Seq(B)) /\ <<e>> \in Seq(Seq(B))
  <2> DEFINE S == Seq(B)
  <2>1. x \in S /\ e \in S OBVIOUS
  <2> HIDE DEF S
  <2>2. <<x>> \in Seq(S) /\ <<e>> \in Seq(S) BY <2>1, Single
  <2> QED BY <2>2 DEF S
<1>1. <<x>> \o Append(uu, e) = Append(<<x>> \o uu, e)
  <2>1. Append(uu, e) = uu \o <<e>> BY AppendIsConcat
  <2>2. <<x>> \o (uu \o <<e>>) = (<<x>> \o uu) \o <<e>> BY <1>0, ConcatAssociative
  <2>3. <<x>> \o uu \in Seq(Seq(B)) BY <1>0, ConcatProperties
  <2>4. (<<x>> \o uu) \o <<e>> = Append(<<x>> \o uu, e) BY <2>3, AppendIsConcat
  <2> QED BY <2>1, <2>2, <2>4
<1>2. <<x>> \o uu \in Seq(Seq(B)) BY <1>0, ConcatProperties
<1>3. FlattenSeq(<<x>> \o Append(uu, e)) = FlattenSeq(<<x>> \o uu) \o e
    BY <1>1, <1>2, FlattenAppend
<1>4. FlattenSeq(Append(uu, e)) = FlattenSeq(uu) \o e BY FlattenAppend
<1>5. PICK u \in Seq(B) : u = FlattenSeq(uu) BY FlattenType
<1>6. (x \o u) \o e = x \o (u \o e) BY ConcatAssociative
<1> QED BY <1>3, <1>4, <1>5, <1>6

LEMMA FlattenCons ==
    ASSUME NEW B, NEW ss \in Seq(Seq(B)), NEW x \in Seq(B)
    PROVE  FlattenSeq(<<x>> \o ss) = x \o FlattenSeq(ss)
<1> DEFINE Good(tt) == FlattenSeq(<<x>> \o tt) = x \o FlattenSeq(tt)
           T == {n \in Nat : \A tt \in Seq(Seq(B)) : Len(tt) = n => Good(tt)}
<1>1. Good(<<>>)
  <2>1. <<x>> \o <<>> = <<x>> /\ <<x>> = Append(<<>>, x) /\ <<>> \in Seq(Seq(B)) OBVIOUS
  <2>2. FlattenSeq(<<x>>) = <<>> \o x BY <2>1, FlattenAppend, FlattenEmpty
  <2>3. <<>> \o x = x /\ x \o <<>> = x BY ConcatEmptySeq
  <2> QED BY <2>1, <2>2, <2>3, FlattenEmpty
<1>2. \A tt \in Seq(Seq(B)), e \in Seq(B) : Good(tt) => Good(Append(tt, e))
    BY FlattenConsAppend
<1> HIDE DEF Good
<1>3. 0 \in T
  <2>1. \A tt \in Seq(Seq(B)) : Len(tt) = 0 => tt = <<>> BY EmptySeq
  <2> QED BY <1>1, <2>1
<1>4. ASSUME NEW n \in Nat, n \in T PROVE n + 1 \in T
  <2> SUFFICES ASSUME NEW tt \in Seq(Seq(B)), Len(tt) = n + 1 PROVE Good(tt)
    OBVIOUS
  <2>1. tt # <<>> BY EmptySeq
  <2>2. PICK uu \in Seq(Seq(B)), e \in Seq(B) : tt = Append(uu, e)
    BY <2>1, SequenceEmptyOrAppend
  <2>3. Len(uu) = n BY <2>2, AppendProperties, LenProperties
  <2>4. Good(uu) BY <1>4, <2>3
  <2> QED BY <1>2, <2>2, <2>4
<1> HIDE DEF T
<1>5. Nat \subseteq T BY <1>3, <1>4, AllNaturals
<1>6. Len(ss) \in T BY <1>5, LenProperties
<1>7. Good(ss) BY <1>6 DEF T
<1> QED BY <1>7 DEF Good

---------------------------------------------------------------------------
\* What a client puts on the wire.

\* The bytes of packets, and with them the line end.
PacketBytes == [n : Nat \ {0}, i : Nat \ {0}]
Bytes       == PacketBytes \cup {LineEnd}

Frames(s, m) == [k \in 1 .. Len(s) - m |-> Frame(m + k, s[m + k])]

\* The bytes of the packets of s after the m-th.
Pending(s, m) == FlattenSeq(Frames(s, m))

LEMMA LineEndIsNone == LineEnd \notin PacketBytes /\ PacketBytes \subseteq Bytes /\ LineEnd \in Bytes
BY DEF PacketBytes, Bytes, LineEnd, Byte

LEMMA HeaderType ==
    ASSUME NEW n \in Nat \ {0}
    PROVE  /\ HeaderBytes(n) \in Seq(PacketBytes) /\ Len(HeaderBytes(n)) = HeaderSize
           /\ \A i \in 1 .. HeaderSize : HeaderBytes(n)[i] = Byte(n, i)
<1>1. HeaderSize \in Nat BY LoopAssumption
<1>2. \A i \in 1 .. HeaderSize : Byte(n, i) \in PacketBytes BY <1>1 DEF Byte, PacketBytes
<1>3. HeaderBytes(n) \in [1 .. HeaderSize -> PacketBytes] BY <1>2 DEF HeaderBytes
<1> QED BY <1>1, <1>3, FunctionIsSeq DEF HeaderBytes

LEMMA PayloadType ==
    ASSUME NEW n \in Nat \ {0}, NEW p \in Packets
    PROVE  /\ PayloadBytes(n, p) \in Seq(PacketBytes) /\ Len(PayloadBytes(n, p)) = p.len
           /\ \A i \in 1 .. p.len : PayloadBytes(n, p)[i] = Byte(n, HeaderSize + i)
<1>1. HeaderSize \in Nat /\ p.len \in Nat BY LoopAssumption
<1>2. \A i \in 1 .. p.len : Byte(n, HeaderSize + i) \in PacketBytes BY <1>1 DEF Byte, PacketBytes
<1>3. PayloadBytes(n, p) \in [1 .. p.len -> PacketBytes] BY <1>2 DEF PayloadBytes
<1> QED BY <1>1, <1>3, FunctionIsSeq DEF PayloadBytes
LEMMA FrameType ==
    ASSUME NEW n \in Nat \ {0}, NEW p \in Packets
    PROVE  /\ Frame(n, p) \in Seq(Bytes)
           /\ ~p.line => /\ Frame(n, p) = HeaderBytes(n) \o PayloadBytes(n, p)
                         /\ Frame(n, p) \in Seq(PacketBytes)
<1> DEFINE h == HeaderBytes(n)  d == PayloadBytes(n, p)
<1>1. h \in Seq(PacketBytes) /\ d \in Seq(PacketBytes)
    BY HeaderType, PayloadType
<1>2. Frame(n, p) = (h \o d) \o (IF p.line THEN <<LineEnd>> ELSE <<>>)
    BY DEF Frame
<1> HIDE DEF h, d
<1>3. h \o d \in Seq(PacketBytes)
    BY <1>1, ConcatProperties
<1>4. h \o d \in Seq(Bytes)
    BY <1>3, SeqMonotonic, LineEndIsNone
<1>5. <<LineEnd>> \in Seq(Bytes)
    BY LineEndIsNone, Single
<1>6. (h \o d) \o <<>> = h \o d
    BY <1>3, ConcatEmptySeq
<1>7. (h \o d) \o <<LineEnd>> \in Seq(Bytes)
    BY <1>4, <1>5, ConcatProperties
<1>8. CASE p.line BY <1>2, <1>7, <1>8
<1>9. CASE ~p.line
  <2>1. Frame(n, p) = h \o d BY <1>2, <1>6, <1>9
  <2> QED BY <1>3, <1>4, <1>9, <2>1 DEF h, d
<1> QED BY <1>8, <1>9

LEMMA FramesType ==
    ASSUME NEW s \in Seq(Packets), NEW m \in 0 .. Len(s), NEW B,
           \A k \in m + 1 .. Len(s) : Frame(k, s[k]) \in Seq(B)
    PROVE  /\ Frames(s, m) \in Seq(Seq(B)) /\ Len(Frames(s, m)) = Len(s) - m
           /\ \A k \in 1 .. Len(s) - m : Frames(s, m)[k] = Frame(m + k, s[m + k])
<1> DEFINE n == Len(s) - m  S == Seq(B)
<1>1. n \in Nat /\ Len(s) \in Nat BY LenProperties
<1>2. \A k \in 1 .. n : m + k \in m + 1 .. Len(s) BY <1>1
<1>3. \A k \in 1 .. n : Frame(m + k, s[m + k]) \in S BY <1>2
<1> HIDE DEF S
<1>4. Frames(s, m) = [k \in 1 .. n |-> Frame(m + k, s[m + k])] BY DEF Frames
<1> HIDE DEF n
<1>5. Frames(s, m) \in [1 .. n -> S] BY <1>3, <1>4
<1>6. Frames(s, m) \in Seq(S) /\ Len(Frames(s, m)) = n BY <1>1, <1>5, FunctionIsSeq
<1> QED BY <1>4, <1>6 DEF n, S

LEMMA FrameBytes ==
    ASSUME NEW s \in Seq(Packets)
    PROVE  \A k \in 1 .. Len(s) : Frame(k, s[k]) \in Seq(Bytes) /\ s[k] \in Packets
<1>1. \A k \in 1 .. Len(s) : k \in Nat \ {0} /\ s[k] \in Packets BY LenProperties, ElementOfSeq
<1> QED BY <1>1, FrameType

LEMMA PendingType ==
    ASSUME NEW s \in Seq(Packets), NEW m \in 0 .. Len(s)
    PROVE  Pending(s, m) \in Seq(Bytes)
<1>1. \A k \in m + 1 .. Len(s) : Frame(k, s[k]) \in Seq(Bytes)
  <2>1. \A k \in m + 1 .. Len(s) : k \in 1 .. Len(s) BY LenProperties
  <2> QED BY <2>1, FrameBytes
<1>2. Frames(s, m) \in Seq(Seq(Bytes)) BY <1>1, FramesType
<1> QED BY <1>2, FlattenType DEF Pending

LEMMA PendingClean ==
    ASSUME NEW s \in Seq(Packets), NEW m \in 0 .. Len(s), \A k \in 1 .. Len(s) : ~s[k].line
    PROVE  Pending(s, m) \in Seq(PacketBytes)
<1>1. \A k \in m + 1 .. Len(s) : Frame(k, s[k]) \in Seq(PacketBytes)
  <2>1. \A k \in m + 1 .. Len(s) : k \in 1 .. Len(s) /\ k \in Nat \ {0} BY LenProperties
  <2> QED BY <2>1, FrameBytes, FrameType
<1>2. Frames(s, m) \in Seq(Seq(PacketBytes)) BY <1>1, FramesType
<1> QED BY <1>2, FlattenType DEF Pending

LEMMA PendingNone == ASSUME NEW s \in Seq(Packets) PROVE Pending(s, Len(s)) = <<>>
<1>1. Len(s) \in Nat /\ Len(s) \in 0 .. Len(s) BY LenProperties
<1>2. \A k \in Len(s) + 1 .. Len(s) : FALSE BY <1>1
<1>3. Frames(s, Len(s)) \in Seq(Seq(Bytes)) /\ Len(Frames(s, Len(s))) = Len(s) - Len(s)
    BY <1>1, <1>2, FramesType
<1>4. Frames(s, Len(s)) = <<>> BY <1>1, <1>3, EmptySeq
<1> QED BY <1>4, FlattenEmpty DEF Pending

\* Sequences that agree at every place.
LEMMA SameSeq ==
    ASSUME NEW S, NEW s \in Seq(S), NEW t \in Seq(S), NEW n, Len(s) = n, Len(t) = n,
           \A i \in 1 .. n : s[i] = t[i]
    PROVE  s = t
BY SeqEqual

LEMMA PendingSent ==
    ASSUME NEW s \in Seq(Packets), NEW m \in 0 .. Len(s), NEW p \in Packets
    PROVE  Pending(Append(s, p), m) = Pending(s, m) \o Frame(Len(s) + 1, p)
<1> DEFINE t == Append(s, p)  n == Len(s)  S == Seq(Bytes)
           x == Frame(n + 1, p)  ff == Frames(s, m)  gg == Frames(t, m)
<1>1. /\ t \in Seq(Packets) /\ Len(t) = n + 1 /\ n \in Nat /\ m \in Nat /\ m <= n /\ m \in 0 .. n + 1
      /\ t[n + 1] = p /\ \A i \in 1 .. n : t[i] = s[i]
    BY LenProperties, AppendProperties
<1> HIDE DEF t
<1>2. x \in S /\ \A k \in 1 .. n + 1 : Frame(k, t[k]) \in S
  <2>1. n + 1 \in Nat \ {0} BY <1>1
  <2>2. x \in S BY <2>1, FrameType
  <2>3. \A k \in 1 .. Len(t) : Frame(k, t[k]) \in S BY <1>1, FrameBytes
  <2> HIDE DEF n, S, x
  <2> QED BY <1>1, <2>2, <2>3
<1>3. \A k \in m + 1 .. n + 1 : Frame(k, t[k]) \in Seq(Bytes)
    BY <1>1, <1>2
<1>4. \A k \in m + 1 .. n : Frame(k, s[k]) \in Seq(Bytes)
    BY <1>1, FrameBytes
<1>5. ff \in Seq(S) /\ Len(ff) = n - m /\ \A k \in 1 .. n - m : ff[k] = Frame(m + k, s[m + k])
    BY <1>4, FramesType
<1>6. gg \in Seq(S) /\ Len(gg) = n + 1 - m /\ \A k \in 1 .. n + 1 - m : gg[k] = Frame(m + k, t[m + k])
  <2>1. \A k \in m + 1 .. Len(t) : Frame(k, t[k]) \in Seq(Bytes) BY <1>1, <1>3
  <2>2. m \in 0 .. Len(t) BY <1>1
  <2>3. gg \in Seq(S) /\ Len(gg) = Len(t) - m /\ \A k \in 1 .. Len(t) - m : gg[k] = Frame(m + k, t[m + k])
    BY <1>1, <2>1, <2>2, FramesType
  <2> HIDE DEF n, S, gg
  <2> QED BY <1>1, <2>3
<1> HIDE DEF n, x, ff, gg, S
<1>7. /\ Append(ff, x) \in Seq(S) /\ Len(Append(ff, x)) = n + 1 - m
      /\ \A k \in 1 .. n - m : Append(ff, x)[k] = ff[k]
      /\ Append(ff, x)[n + 1 - m] = x
  <2>1. Len(ff) + 1 = n + 1 - m BY <1>1, <1>5
  <2> QED BY <1>2, <1>5, <2>1, AppendProperties
<1>8. ASSUME NEW k \in 1 .. n + 1 - m PROVE gg[k] = Append(ff, x)[k]
  <2>1. CASE k = n + 1 - m
    <3>1. m + k = n + 1 BY <1>1, <2>1
    <3>2. gg[k] = Frame(n + 1, p) BY <1>1, <1>6, <3>1
    <3> QED BY <1>7, <2>1, <3>2 DEF x
  <2>2. CASE k # n + 1 - m
    <3>1. k \in 1 .. n - m /\ m + k \in 1 .. n BY <1>1, <2>2
    <3>2. gg[k] = Frame(m + k, s[m + k]) BY <1>1, <1>6, <3>1
    <3> QED BY <1>5, <1>7, <3>1, <3>2
  <2> QED BY <2>1, <2>2
<1>9. gg = Append(ff, x)
    BY <1>6, <1>7, <1>8, SameSeq
<1>10. FlattenSeq(Append(ff, x)) = FlattenSeq(ff) \o x
    BY <1>2, <1>5, FlattenAppend DEF S
<1> QED BY <1>9, <1>10 DEF Pending, gg, ff, x, t, n

LEMMA PendingHead ==
    ASSUME NEW s \in Seq(Packets), NEW m \in 0 .. Len(s) - 1
    PROVE  Pending(s, m) = Frame(m + 1, s[m + 1]) \o Pending(s, m + 1)
<1> DEFINE n == Len(s)  S == Seq(Bytes)
           x == Frame(m + 1, s[m + 1])  ff == Frames(s, m)  gg == Frames(s, m + 1)
<1>1. n \in Nat /\ m \in Nat /\ m < n /\ m \in 0 .. n /\ m + 1 \in 0 .. n
    BY LenProperties
<1>2. \A k \in 1 .. n : Frame(k, s[k]) \in S
    BY FrameBytes
<1>3. /\ x \in S /\ \A k \in m + 1 .. n : Frame(k, s[k]) \in Seq(Bytes)
      /\ \A k \in m + 1 + 1 .. n : Frame(k, s[k]) \in Seq(Bytes)
    BY <1>1, <1>2
<1>4. ff \in Seq(S) /\ Len(ff) = n - m /\ \A k \in 1 .. n - m : ff[k] = Frame(m + k, s[m + k])
    BY <1>1, <1>3, FramesType
<1>5. /\ gg \in Seq(S) /\ Len(gg) = n - (m + 1)
      /\ \A k \in 1 .. n - (m + 1) : gg[k] = Frame((m + 1) + k, s[(m + 1) + k])
    BY <1>1, <1>3, FramesType
<1> HIDE DEF n, x, ff, gg, S
<1>6. <<x>> \in Seq(S) /\ Len(<<x>>) = 1 /\ <<x>>[1] = x
    BY <1>3
<1>7. /\ <<x>> \o gg \in Seq(S) /\ Len(<<x>> \o gg) = n - m
      /\ \A k \in 1 .. n - m : (<<x>> \o gg)[k] = IF k <= 1 THEN <<x>>[k] ELSE gg[k - 1]
  <2>1. Len(<<x>>) + Len(gg) = n - m BY <1>1, <1>5, <1>6
  <2> QED BY <1>5, <1>6, <2>1, ConcatProperties
<1>8. ASSUME NEW k \in 1 .. n - m PROVE ff[k] = (<<x>> \o gg)[k]
  <2>1. CASE k = 1
    <3>1. ff[1] = x BY <1>1, <1>4 DEF x
    <3> QED BY <1>6, <1>7, <2>1, <3>1
  <2>2. CASE k # 1
    <3>1. k - 1 \in 1 .. n - (m + 1) /\ (m + 1) + (k - 1) = m + k /\ ~(k <= 1) BY <1>1, <2>2
    <3>2. gg[k - 1] = Frame(m + k, s[m + k]) BY <1>5, <3>1
    <3> QED BY <1>4, <1>7, <3>1, <3>2
  <2> QED BY <2>1, <2>2
<1>9. ff = <<x>> \o gg
    BY <1>4, <1>7, <1>8, SameSeq
<1>10. FlattenSeq(<<x>> \o gg) = x \o FlattenSeq(gg)
    BY <1>3, <1>5, FlattenCons DEF S
<1> QED BY <1>9, <1>10 DEF Pending, gg, ff, x
---------------------------------------------------------------------------
\* Cutting sequences up.

LEMMA CutAt ==
    ASSUME NEW B, NEW s \in Seq(B), NEW n \in 0 .. Len(s)
    PROVE  /\ SubSeq(s, 1, n) \in Seq(B) /\ SubSeq(s, n + 1, Len(s)) \in Seq(B)
           /\ Len(SubSeq(s, 1, n)) = n /\ \A i \in 1 .. n : SubSeq(s, 1, n)[i] = s[i]
           /\ SubSeq(s, 1, n) \o SubSeq(s, n + 1, Len(s)) = s
<1>1. Len(s) \in Nat /\ \A i \in 1 .. Len(s) : s[i] \in B BY LenProperties, ElementOfSeq
<1>2. SubSeq(s, 1, n) \in Seq(B) /\ SubSeq(s, n + 1, Len(s)) \in Seq(B)
    BY <1>1, SubSeqProperties
<1>3. Len(SubSeq(s, 1, n)) = n /\ \A i \in 1 .. n : SubSeq(s, 1, n)[i] = s[i]
    BY <1>1, SubSeqProperties
<1>4. SubSeq(s, 1, n) \o SubSeq(s, n + 1, Len(s)) = SubSeq(s, 1, Len(s))
  <2>1. 1 \in 1 .. Len(s) + 1 /\ n \in 1 - 1 .. Len(s) /\ Len(s) \in n .. Len(s) BY <1>1
  <2> QED BY <2>1, ConcatAdjacentSubSeq
<1>5. SubSeq(s, 1, Len(s)) = s BY SubSeqFull
<1> QED BY <1>2, <1>3, <1>4, <1>5

\* Of two ways to cut a sequence in two, those at the same place are the same.
LEMMA SameCut ==
    ASSUME NEW B, NEW a \in Seq(B), NEW b \in Seq(B), NEW c \in Seq(B), NEW d \in Seq(B),
           a \o b = c \o d, Len(a) = Len(c)
    PROVE  a = c /\ b = d
<1>1. a = c
  <2>1. \A i \in 1 .. Len(a) : (a \o b)[i] = a[i] /\ (c \o d)[i] = c[i] BY ConcatProperties
  <2>2. \A i \in 1 .. Len(a) : a[i] = c[i] BY <2>1
  <2> QED BY <2>2, SeqEqual
<1>2. b = d BY <1>1, ConcatSimplifications
<1> QED BY <1>1, <1>2

LEMMA Regroup ==
    ASSUME NEW B, NEW a \in Seq(B), NEW b \in Seq(B), NEW c \in Seq(B), NEW bc, bc = b \o c
    PROVE  (a \o b) \o c = a \o bc
BY ConcatAssociative

LEMMA MinIs ==
    ASSUME NEW S \in SUBSET Nat, S # {}
    PROVE  Min(S) \in S /\ \A x \in S : Min(S) <= x
<1> DEFINE R == {ss \in Nat \X Nat : ss[1] < ss[2]}
<1>0. IsWellFoundedOn(R, Nat)
    BY NatLessThanWellFounded DEF OpToRel
<1>1. PICK m \in S : \A k \in S : <<k, m>> \notin R
  <2> HIDE DEF R
  <2> QED BY <1>0, WFMin
<1>2. \A k \in S : ~(k < m)
    BY <1>1
<1>3. \A k \in S : m <= k
    BY <1>2
<1> QED BY <1>3 DEF Min

LEMMA MinOfTwo == ASSUME NEW i \in Int, NEW j \in Int PROVE Min({i, j}) = IF i <= j THEN i ELSE j
<1>1. CASE i <= j
  <2>1. \E x \in {i, j} : \A y \in {i, j} : x <= y BY <1>1
  <2>2. Min({i, j}) \in {i, j} /\ \A y \in {i, j} : Min({i, j}) <= y BY <2>1 DEF Min
  <2> QED BY <1>1, <2>2
<1>2. CASE ~(i <= j)
  <2>1. \E x \in {i, j} : \A y \in {i, j} : x <= y BY <1>2
  <2>2. Min({i, j}) \in {i, j} /\ \A y \in {i, j} : Min({i, j}) <= y BY <2>1 DEF Min
  <2> QED BY <1>2, <2>2
<1> QED BY <1>1, <1>2

\* UpToLineEnd keeps what comes before the first line end.
LEMMA UpToLineEndIs ==
    ASSUME NEW text \in Seq(Bytes)
    PROVE  /\ UpToLineEnd(text) \in Seq(PacketBytes)
           /\ \/ UpToLineEnd(text) = text
              \/ \E n \in 1 .. Len(text) : text[n] = LineEnd /\ UpToLineEnd(text) = SubSeq(text, 1, n - 1)
<1> DEFINE ends == {i \in DOMAIN text : text[i] = LineEnd}
<1>1. Len(text) \in Nat /\ DOMAIN text = 1 .. Len(text) /\ \A i \in 1 .. Len(text) : text[i] \in Bytes
    BY LenProperties, ElementOfSeq
<1>2. CASE ends = {}
  <2>1. UpToLineEnd(text) = text BY <1>2 DEF UpToLineEnd
  <2>2. \A i \in 1 .. Len(text) : text[i] \in PacketBytes BY <1>1, <1>2 DEF Bytes
  <2>3. SubSeq(text, 1, Len(text)) \in Seq(PacketBytes) BY <1>1, <2>2, SubSeqProperties
  <2>4. SubSeq(text, 1, Len(text)) = text BY SubSeqFull
  <2> QED BY <2>1, <2>3, <2>4
<1>3. CASE ends # {}
  <2> DEFINE n == Min(ends)
  <2>1. ends \in SUBSET Nat BY <1>1
  <2>2. n \in ends /\ \A i \in ends : n <= i
    <3> HIDE DEF ends
    <3> QED BY <1>3, <2>1, MinIs
  <2>3. UpToLineEnd(text) = SubSeq(text, 1, n - 1) BY <1>3 DEF UpToLineEnd
  <2> HIDE DEF n
  <2>4. n \in 1 .. Len(text) /\ text[n] = LineEnd BY <1>1, <2>2
  <2>5. ASSUME NEW i \in 1 .. n - 1 PROVE text[i] \in PacketBytes
    <3>1. i \in 1 .. Len(text) /\ ~(n <= i) BY <1>1, <2>4
    <3>2. i \notin ends BY <2>2, <3>1
    <3>3. text[i] # LineEnd BY <1>1, <3>1, <3>2
    <3> QED BY <1>1, <3>1, <3>3 DEF Bytes
  <2>6. n - 1 \in Int BY <1>1, <2>4
  <2>7. SubSeq(text, 1, n - 1) \in Seq(PacketBytes) BY <2>5, <2>6, SubSeqProperties
  <2> QED BY <2>3, <2>4, <2>7
<1> QED BY <1>2, <1>3

\* A buffer that does not overflow had not.
LEMMA TakeFits ==
    ASSUME NEW B, NEW buffer \in Seq(B), NEW text \in Seq(B), NEW size \in Nat,
           Len(Take(buffer, text, size).buffer) <= size
    PROVE  Len(buffer) <= size
<1> DEFINE n == Min({size - Len(buffer), Len(text)})  a == SubSeq(text, 1, n)
<1>1. Len(text) \in Nat /\ Len(buffer) \in Nat
    BY LenProperties
<1>2. n = IF size - Len(buffer) <= Len(text) THEN size - Len(buffer) ELSE Len(text)
    BY <1>1, MinOfTwo
<1>3. Take(buffer, text, size).buffer = buffer \o a
    BY DEF Take
<1> HIDE DEF n
<1>4. n \in Int /\ n <= Len(text)
    BY <1>1, <1>2
<1>5. \A i \in 1 .. n : text[i] \in B
  <2>1. \A i \in 1 .. n : i \in 1 .. Len(text) BY <1>1, <1>4
  <2> QED BY <2>1, ElementOfSeq
<1>6. a \in Seq(B) BY <1>4, <1>5, SubSeqProperties
<1>7. Len(buffer \o a) = Len(buffer) + Len(a) /\ Len(a) \in Nat BY <1>6, ConcatProperties, LenProperties
<1>8. Len(buffer \o a) <= size BY <1>3
<1> HIDE DEF a
<1> QED BY <1>1, <1>7, <1>8
LEMMA EndOfConcat ==
    ASSUME NEW B, NEW C, NEW a \in Seq(B), NEW b \in Seq(B), a \o b \in Seq(C)
    PROVE  b \in Seq(C)
<1>1. Len(a) \in Nat /\ Len(b) \in Nat /\ Len(a \o b) = Len(a) + Len(b)
    BY LenProperties, ConcatProperties
<1>2. ASSUME NEW i \in 1 .. Len(b) PROVE b[i] \in C
  <2>1. Len(a) + i \in 1 .. Len(a \o b) /\ ~(Len(a) + i <= Len(a)) /\ (Len(a) + i) - Len(a) = i BY <1>1
  <2>2. (a \o b)[Len(a) + i] \in C BY <2>1, ElementOfSeq
  <2>3. (a \o b)[Len(a) + i] = b[i] BY <1>1, <2>1, ConcatProperties
  <2> QED BY <2>2, <2>3
<1>3. SubSeq(b, 1, Len(b)) \in Seq(C) BY <1>1, <1>2, SubSeqProperties
<1> QED BY <1>3, SubSeqFull

---------------------------------------------------------------------------
\* The same facts of texts, of their concatenation and of the two results of Take.

Texts             == Seq(Bytes)
Cat(a, b)         == a \o b
Full(a, b, size)  == Take(a, b, size).buffer
Rest(a, b, size)  == Take(a, b, size).text

LEMMA CatType == \A a, b \in Texts : Cat(a, b) \in Texts
BY ConcatProperties DEF Texts, Cat

LEMMA CatAssociates == \A a, b, c \in Texts : Cat(Cat(a, b), c) = Cat(a, Cat(b, c))
BY ConcatAssociative DEF Texts, Cat

LEMMA CatNothing == <<>> \in Texts /\ \A a \in Texts : Cat(a, <<>>) = a /\ Cat(<<>>, a) = a
BY ConcatEmptySeq, EmptySeq DEF Texts, Cat

\* Take moves bytes from the text to the buffer until that is full.
LEMMA TakeText ==
    ASSUME NEW buffer \in Texts, NEW text \in Texts, NEW size \in Nat, Len(buffer) <= size
    PROVE  /\ Full(buffer, text, size) \in Texts /\ Rest(buffer, text, size) \in Texts
           /\ Cat(Full(buffer, text, size), Rest(buffer, text, size)) = Cat(buffer, text)
           /\ Len(Full(buffer, text, size)) <= size
           /\ Len(Full(buffer, text, size)) < size => Rest(buffer, text, size) = <<>>
           /\ Len(buffer) = size => Full(buffer, text, size) = buffer /\ Rest(buffer, text, size) = text
<1> DEFINE n == Min({size - Len(buffer), Len(text)})
           a == SubSeq(text, 1, n)  b == SubSeq(text, n + 1, Len(text))
           t == Take(buffer, text, size)
<1>0. buffer \in Seq(Bytes) /\ text \in Seq(Bytes)
    BY DEF Texts
<1>1. Len(text) \in Nat /\ Len(buffer) \in Nat /\ size - Len(buffer) \in Nat
    BY <1>0, LenProperties
<1>2. n = IF size - Len(buffer) <= Len(text) THEN size - Len(buffer) ELSE Len(text)
    BY <1>1, MinOfTwo
<1>3. t.buffer = buffer \o a /\ t.text = b
    BY DEF Take
<1> HIDE DEF n, t
<1>4. n \in 0 .. Len(text)
    BY <1>1, <1>2
<1>5. a \in Seq(Bytes) /\ b \in Seq(Bytes) /\ Len(a) = n /\ a \o b = text
    BY <1>0, <1>4, CutAt
<1>6. n = Len(text) => b = <<>>
    BY <1>0, <1>1, SubSeqEmpty
<1>7. n = 0 => a = <<>> /\ b = text
  <2>1. n = 0 => a = <<>> BY <1>5, EmptySeq
  <2>2. n = 0 => b = text BY <1>0, SubSeqFull
  <2> QED BY <2>1, <2>2
<1> HIDE DEF a, b
<1>8. buffer \o a \in Seq(Bytes) /\ Len(buffer \o a) = Len(buffer) + n
    BY <1>0, <1>5, ConcatProperties
<1>9. (buffer \o a) \o b = buffer \o text
  <2>1. a \in Seq(Bytes) /\ b \in Seq(Bytes) /\ text = a \o b BY <1>5
  <2> QED BY ONLY <2>1, <1>0, Regroup
<1>10. buffer \o <<>> = buffer
    BY <1>0, ConcatEmptySeq
<1>11. Len(buffer) + n <= size /\ (Len(buffer) + n < size => n = Len(text)) /\ (Len(buffer) = size => n = 0)
    BY <1>1, <1>2
<1>12. Len(buffer) = size => a = <<>> /\ b = text
    BY <1>7, <1>11
<1>13. /\ t.buffer \in Seq(Bytes) /\ t.text \in Seq(Bytes) /\ t.buffer \o t.text = buffer \o text
       /\ Len(t.buffer) <= size /\ (Len(t.buffer) < size => t.text = <<>>)
    BY <1>3, <1>5, <1>6, <1>8, <1>9, <1>11
<1>14. Len(buffer) = size => t.buffer = buffer /\ t.text = text
    BY <1>3, <1>10, <1>12
<1> QED BY <1>13, <1>14 DEF t, Full, Rest, Texts, Cat

LEMMA TextFits ==
    ASSUME NEW a \in Texts, NEW b \in Texts, NEW size \in Nat, Len(Full(a, b, size)) <= size
    PROVE  Len(a) <= size
BY TakeFits DEF Texts, Full

\* What was in the buffer, in the text and behind it is so after a Take.
LEMMA TakeShifts ==
    ASSUME NEW a \in Texts, NEW b \in Texts, NEW w \in Texts, NEW size \in Nat, Len(a) <= size
    PROVE  Cat(a, Cat(b, w)) = Cat(Full(a, b, size), Cat(Rest(a, b, size), w))
<1> DEFINE u == Full(a, b, size)  v == Rest(a, b, size)
<1>1. u \in Texts /\ v \in Texts /\ Cat(u, v) = Cat(a, b) BY TakeText
<1> HIDE DEF u, v
<1>2. Cat(a, Cat(b, w)) = Cat(Cat(a, b), w) /\ Cat(u, Cat(v, w)) = Cat(Cat(u, v), w)
    BY <1>1, CatAssociates
<1> QED BY <1>1, <1>2 DEF u, v

\* The beginnings of a text that have one length are the same.
LEMMA CatCut ==
    ASSUME NEW a \in Texts, NEW b \in Texts, NEW c \in Texts, NEW d \in Texts,
           Cat(a, b) = Cat(c, d), Len(a) = Len(c)
    PROVE  a = c /\ b = d
BY SameCut DEF Texts, Cat

LEMMA EndOfText ==
    ASSUME NEW a \in Texts, NEW b \in Texts, Cat(a, b) \in Seq(PacketBytes)
    PROVE  b \in Seq(PacketBytes)
BY EndOfConcat DEF Texts, Cat

LEMMA NotShorter ==
    ASSUME NEW a \in Texts, NEW b \in Texts, Cat(a, b) = <<>>
    PROVE  Len(a) = 0
BY ConcatEqualIffEmpty DEF Texts, Cat

---------------------------------------------------------------------------
\* A clean stream, taken apart by parse_packet.

CleanSeq(s) == \A n \in DOMAIN s : s[n].header = "ok" /\ s[n].rval # "wrong" /\ ~s[n].line

LEMMA PacketTexts ==
    ASSUME NEW n \in Nat \ {0}, NEW p \in Packets
    PROVE  /\ HeaderBytes(n) \in Texts /\ PayloadBytes(n, p) \in Texts /\ Frame(n, p) \in Texts
           /\ Len(HeaderBytes(n)) = HeaderSize /\ Len(PayloadBytes(n, p)) = p.len
           /\ ~p.line => Frame(n, p) = Cat(HeaderBytes(n), PayloadBytes(n, p))
<1>1. HeaderBytes(n) \in Seq(Bytes) /\ PayloadBytes(n, p) \in Seq(Bytes)
  <2>1. HeaderBytes(n) \in Seq(PacketBytes) /\ PayloadBytes(n, p) \in Seq(PacketBytes)
      BY HeaderType, PayloadType
  <2> QED BY <2>1, SeqMonotonic, LineEndIsNone
<1> QED BY <1>1, HeaderType, PayloadType, FrameType DEF Texts, Cat

LEMMA PendingText ==
    ASSUME NEW s \in Seq(Packets), NEW m \in 0 .. Len(s)
    PROVE  Pending(s, m) \in Texts
BY PendingType DEF Texts

\* Of a clean stream the first packet is a header and a payload.
LEMMA PendingSplit ==
    ASSUME NEW s \in Seq(Packets), CleanSeq(s), NEW m \in 0 .. Len(s), m < Len(s)
    PROVE  /\ m + 1 \in Nat \ {0} /\ m + 1 \in DOMAIN s /\ m + 1 \in 0 .. Len(s) /\ s[m + 1] \in Packets
           /\ Pending(s, m) = Cat(HeaderBytes(m + 1), Cat(PayloadBytes(m + 1, s[m + 1]), Pending(s, m + 1)))
<1>1. Len(s) \in Nat /\ DOMAIN s = 1 .. Len(s) BY LenProperties
<1>2. m + 1 \in Nat \ {0} /\ m + 1 \in DOMAIN s /\ m + 1 \in 0 .. Len(s) /\ m \in 0 .. Len(s) - 1
    BY <1>1
<1>3. s[m + 1] \in Packets BY <1>1, <1>2, ElementOfSeq
<1> DEFINE H == HeaderBytes(m + 1)  P == PayloadBytes(m + 1, s[m + 1])  R == Pending(s, m + 1)
<1>4. Pending(s, m) = Cat(Frame(m + 1, s[m + 1]), R) BY <1>2, PendingHead DEF Cat
<1>5. Frame(m + 1, s[m + 1]) = Cat(H, P) /\ H \in Texts /\ P \in Texts
    BY <1>2, <1>3, PacketTexts DEF CleanSeq
<1>6. R \in Texts BY <1>2, PendingText
<1> HIDE DEF H, P, R
<1>7. Pending(s, m) = Cat(H, Cat(P, R)) BY <1>4, <1>5, <1>6, CatAssociates
<1> QED BY <1>2, <1>3, <1>7 DEF H, P, R

\* What is as long as a header and begins a clean stream is the header of the next packet.
LEMMA NextPacket ==
    ASSUME NEW s \in Seq(Packets), CleanSeq(s), NEW m \in 0 .. Len(s), NEW h \in Texts, NEW r \in Texts,
           Len(h) = HeaderSize, Cat(h, r) = Pending(s, m)
    PROVE  /\ m < Len(s) /\ h = HeaderBytes(m + 1)
           /\ r = Cat(PayloadBytes(m + 1, s[m + 1]), Pending(s, m + 1))
<1>1. Len(s) \in Nat /\ HeaderSize \in Nat \ {0} BY LenProperties, LoopAssumption
<1>2. m < Len(s)
  <2> SUFFICES ASSUME m = Len(s) PROVE FALSE BY <1>1
  <2>1. Pending(s, m) = <<>> BY PendingNone
  <2> QED BY <1>1, <2>1, NotShorter
<1> DEFINE H == HeaderBytes(m + 1)  P == PayloadBytes(m + 1, s[m + 1])  R == Pending(s, m + 1)
<1>3. /\ m + 1 \in Nat \ {0} /\ m + 1 \in 0 .. Len(s) /\ s[m + 1] \in Packets
      /\ Pending(s, m) = Cat(H, Cat(P, R))
    BY <1>2, PendingSplit
<1>4. H \in Texts /\ P \in Texts /\ Len(H) = HeaderSize BY <1>3, PacketTexts
<1>5. R \in Texts BY <1>3, PendingText
<1> HIDE DEF H, P, R
<1>6. Cat(P, R) \in Texts BY <1>4, <1>5, CatType
<1>7. h = H /\ r = Cat(P, R) BY <1>3, <1>4, <1>6, CatCut
<1> QED BY <1>2, <1>7 DEF H, P, R

\* A header belongs to one packet only.
LEMMA HeadersDiffer ==
    ASSUME NEW n \in Nat \ {0}, NEW m \in Nat \ {0}, HeaderBytes(n) = HeaderBytes(m)
    PROVE  n = m
<1>1. 1 \in 1 .. HeaderSize BY LoopAssumption
<1>2. HeaderBytes(n)[1] = Byte(n, 1) /\ HeaderBytes(m)[1] = Byte(m, 1) BY <1>1, HeaderType
<1>3. Byte(n, 1) = Byte(m, 1) BY <1>2
<1>4. Byte(n, 1).n = n /\ Byte(m, 1).n = m BY DEF Byte
<1> QED BY <1>3, <1>4

\* The header is filled up: it is full, or nothing is left of the text.
LEMMA HeaderTaken ==
    ASSUME NEW hd \in Texts, NEW d \in Texts, NEW txt \in Texts, NEW w \in Texts,
           Len(hd) <= HeaderSize, Len(hd) < HeaderSize => d = <<>>
    PROVE  /\ Full(hd, txt, HeaderSize) \in Texts /\ Rest(hd, txt, HeaderSize) \in Texts
           /\ Len(Full(hd, txt, HeaderSize)) <= HeaderSize
           /\ Cat(hd, Cat(d, Cat(txt, w)))
                = Cat(Full(hd, txt, HeaderSize), Cat(d, Cat(Rest(hd, txt, HeaderSize), w)))
           /\ Len(Full(hd, txt, HeaderSize)) < HeaderSize => Rest(hd, txt, HeaderSize) = <<>> /\ d = <<>>
<1> DEFINE h == Full(hd, txt, HeaderSize)  t == Rest(hd, txt, HeaderSize)
<1>1. HeaderSize \in Nat /\ Len(hd) \in Nat BY LoopAssumption, LenProperties DEF Texts
<1>2. /\ h \in Texts /\ t \in Texts /\ Len(h) <= HeaderSize
      /\ Len(h) < HeaderSize => t = <<>>
      /\ Len(hd) = HeaderSize => h = hd /\ t = txt
    BY <1>1, TakeText
<1>3. Cat(hd, Cat(txt, w)) = Cat(h, Cat(t, w)) BY <1>1, TakeShifts
<1> HIDE DEF h, t
<1>4. CASE Len(hd) = HeaderSize BY <1>1, <1>2, <1>4 DEF h, t
<1>5. CASE Len(hd) # HeaderSize
  <2>1. d = <<>> BY <1>1, <1>5
  <2>2. Cat(txt, w) \in Texts /\ Cat(t, w) \in Texts BY <1>2, CatType
  <2>3. Cat(d, Cat(txt, w)) = Cat(txt, w) /\ Cat(d, Cat(t, w)) = Cat(t, w) BY <2>1, <2>2, CatNothing
  <2> QED BY <1>2, <1>3, <2>1, <2>3 DEF h, t
<1> QED BY <1>4, <1>5

\* What parse_packet makes of the texts of a clean client.
LEMMA HeaderParsed ==
    ASSUME NEW s \in Seq(Packets), CleanSeq(s), NEW m \in 0 .. Len(s),
           NEW h \in Texts, NEW d \in Texts, NEW t \in Texts, NEW w \in Texts,
           Cat(h, Cat(d, Cat(t, w))) = Pending(s, m), Len(h) = HeaderSize
    PROVE  /\ m + 1 \in DOMAIN s /\ m + 1 \in 0 .. Len(s) /\ m + 1 \in Nat \ {0}
           /\ s[m + 1] \in Packets /\ h = HeaderBytes(m + 1)
           /\ Cat(d, Cat(t, w)) = Cat(PayloadBytes(m + 1, s[m + 1]), Pending(s, m + 1))
<1>1. Cat(d, Cat(t, w)) \in Texts BY CatType
<1>2. /\ m < Len(s) /\ h = HeaderBytes(m + 1)
      /\ Cat(d, Cat(t, w)) = Cat(PayloadBytes(m + 1, s[m + 1]), Pending(s, m + 1))
    BY <1>1, NextPacket
<1>3. m + 1 \in DOMAIN s /\ m + 1 \in 0 .. Len(s) /\ m + 1 \in Nat \ {0} /\ s[m + 1] \in Packets
    BY <1>2, PendingSplit
<1> QED BY <1>2, <1>3

LEMMA PayloadParsed ==
    ASSUME NEW s \in Seq(Packets), CleanSeq(s), NEW m \in 0 .. Len(s), m + 1 \in 0 .. Len(s),
           m + 1 \in Nat \ {0}, s[m + 1] \in Packets,
           NEW d \in Texts, NEW t \in Texts, NEW w \in Texts,
           Cat(d, Cat(t, w)) = Cat(PayloadBytes(m + 1, s[m + 1]), Pending(s, m + 1)),
           Len(Full(d, t, s[m + 1].len)) <= s[m + 1].len
    PROVE  /\ Full(d, t, s[m + 1].len) \in Texts /\ Rest(d, t, s[m + 1].len) \in Texts
           /\ Len(Full(d, t, s[m + 1].len)) < s[m + 1].len =>
                 /\ Rest(d, t, s[m + 1].len) = <<>>
                 /\ Cat(d, Cat(t, w)) = Cat(Full(d, t, s[m + 1].len), w)
           /\ Len(Full(d, t, s[m + 1].len)) = s[m + 1].len =>
                 /\ Full(d, t, s[m + 1].len) = PayloadBytes(m + 1, s[m + 1])
                 /\ Cat(Rest(d, t, s[m + 1].len), w) = Pending(s, m + 1)
<1> DEFINE size == s[m + 1].len  P == PayloadBytes(m + 1, s[m + 1])  R == Pending(s, m + 1)
<1>1. size \in Nat BY LoopAssumption
<1>2. P \in Texts /\ Len(P) = size BY PacketTexts
<1>3. R \in Texts BY PendingText
<1>4. Len(Full(d, t, size)) <= size /\ Cat(d, Cat(t, w)) = Cat(P, R)
    OBVIOUS
<1> SUFFICES /\ Full(d, t, size) \in Texts /\ Rest(d, t, size) \in Texts
             /\ Len(Full(d, t, size)) < size =>
                   /\ Rest(d, t, size) = <<>>
                   /\ Cat(d, Cat(t, w)) = Cat(Full(d, t, size), w)
             /\ Len(Full(d, t, size)) = size => Full(d, t, size) = P /\ Cat(Rest(d, t, size), w) = R
    OBVIOUS
<1> HIDE DEF size, P, R
<1> DEFINE u == Full(d, t, size)  v == Rest(d, t, size)
<1>5. Len(d) <= size BY <1>1, <1>4, TextFits
<1>6. u \in Texts /\ v \in Texts /\ (Len(u) < size => v = <<>>) BY <1>1, <1>5, TakeText
<1>7. Cat(d, Cat(t, w)) = Cat(u, Cat(v, w)) BY <1>1, <1>5, TakeShifts
<1> HIDE DEF u, v
<1>8. Cat(v, w) \in Texts BY <1>6, CatType
<1>9. v = <<>> => Cat(v, w) = w BY CatNothing
<1>10. Len(u) = size => u = P /\ Cat(v, w) = R
  <2> SUFFICES ASSUME Len(u) = size PROVE u = P /\ Cat(v, w) = R OBVIOUS
  <2>1. Cat(u, Cat(v, w)) = Cat(P, R) BY <1>4, <1>7
  <2> QED BY <1>2, <1>3, <1>6, <1>8, <2>1, CatCut
<1> QED BY <1>6, <1>7, <1>9, <1>10 DEF u, v

---------------------------------------------------------------------------
\* The inductive invariant.

Entries == [n : Nat, data : Texts]

LastOf(entries) == IF entries = <<>> THEN 0 ELSE Last(entries).n

\* The text the loop is working on, as far as it is f's.
TextOf(f) == IF pc = "parse" /\ player = f THEN p_ptr ELSE <<>>

Places == {"copied", "select", "loop", "parse", "ended", "segv", "contested"}
Stages == {"no", "freed", "unregistered", "away"}

\* TypeOK and what it needs: while the loop serves descriptors the listener is in tests only if
\* somebody waits, what has been sent on a connection has been counted, and nothing waits at a
\* closed descriptor.
LoopTypes ==
    /\ socket \in [Fds -> {"free", "open", "hungup"}]
    /\ sent \in [Fds -> Seq(Packets)] /\ wire \in [Fds -> Texts]
    /\ pheader \in [Fds -> Texts] /\ pdata \in [Fds -> Texts] /\ p_ptr \in Texts
    /\ handled \in [Fds -> Seq(Entries)]
    /\ invalid_sends \in [Fds -> 0 .. MaxInval - 1]
    /\ sends \in 0 .. MaxSends /\ arrived \in 0 .. MaxConns /\ backlog \in 0 .. arrived
    /\ tests \subseteq Fds \cup {Listener} /\ player \in Fds \cup {NoPlayer, Gone}
    /\ leaving \in [Fds -> Stages] /\ mixed \subseteq Fds
    /\ replaced \in {Current} \cup 0 .. MaxInval - 1
    /\ a2read \in BOOLEAN /\ pc \in Places
    /\ pc \in {"loop", "parse"} /\ Listener \in tests => backlog > 0
    /\ \A f \in Fds : Len(sent[f]) <= sends /\ (socket[f] = "free" => wire[f] = <<>>)

\* Of one connection: s was sent, l is the number of the packet last handled, hd and d are
\* its buffers, x the text the loop works on, w what has not been read, i the invalid sends.
ShapeIs(s, l, hd, d) ==
    /\ l \in 0 .. Len(s)
    /\ Len(hd) <= HeaderSize /\ (Len(hd) < HeaderSize => d = <<>>)

ConnIs(s, l, hd, d, x, w, i) ==
    /\ ShapeIs(s, l, hd, d)
    /\ CleanSeq(s) => i = 0 /\ Cat(hd, Cat(d, Cat(x, w))) = Pending(s, l)

\* The buffers have their shape whoever's bytes they hold; the rest is of those who are promised.
Shaped(f) == ShapeIs(sent[f], LastOf(handled[f]), pheader[f], pdata[f])

ConnOK(f) ==
    /\ Shaped(f)
    /\ Promised(f) =>
          ConnIs(sent[f], LastOf(handled[f]), pheader[f], pdata[f], TextOf(f), wire[f], invalid_sends[f])

LoopInv == LoopTypes /\ \A f \in Fds : ConnOK(f)

\* What happens to a connection.

LEMMA ConnNew == ConnIs(<<>>, 0, <<>>, <<>>, <<>>, <<>>, 0)
<1>1. <<>> \in Seq(Packets) /\ Len(<<>>) = 0 BY EmptySeq
<1>2. Pending(<<>>, 0) = <<>> BY <1>1, PendingNone
<1>3. Cat(<<>>, <<>>) = <<>> BY CatNothing
<1>4. 0 <= HeaderSize BY LoopAssumption
<1> QED BY <1>1, <1>2, <1>3, <1>4 DEF ConnIs, ShapeIs

LEMMA ConnSends ==
    ASSUME NEW s \in Seq(Packets), NEW l, NEW hd \in Texts, NEW d \in Texts, NEW x \in Texts,
           NEW w \in Texts, NEW i, NEW p \in Packets, ConnIs(s, l, hd, d, x, w, i)
    PROVE  /\ Frame(Len(s) + 1, p) \in Texts
           /\ ConnIs(Append(s, p), l, hd, d, x, Cat(w, Frame(Len(s) + 1, p)), i)
<1> DEFINE e == Frame(Len(s) + 1, p)  t == Append(s, p)
<1>1. Len(s) \in Nat /\ Len(t) = Len(s) + 1 /\ \A k \in 1 .. Len(s) : t[k] = s[k]
    BY LenProperties, AppendProperties
<1>2. DOMAIN s = 1 .. Len(s) /\ DOMAIN t = 1 .. Len(t) BY AppendProperties, LenProperties
<1>3. e \in Texts BY <1>1, PacketTexts
<1>4. l \in 0 .. Len(s) /\ l \in 0 .. Len(t) BY <1>1 DEF ConnIs, ShapeIs
<1>5. Pending(t, l) = Cat(Pending(s, l), e) BY <1>4, PendingSent DEF Cat
<1> HIDE DEF e, t
<1>6. CleanSeq(t) => CleanSeq(s) BY <1>1, <1>2 DEF CleanSeq
<1>7. Cat(hd, Cat(d, Cat(x, Cat(w, e)))) = Cat(Cat(hd, Cat(d, Cat(x, w))), e)
  <2>1. Cat(x, w) \in Texts /\ Cat(d, Cat(x, w)) \in Texts BY CatType
  <2>2. Cat(x, Cat(w, e)) = Cat(Cat(x, w), e) BY <1>3, CatAssociates
  <2>3. Cat(d, Cat(Cat(x, w), e)) = Cat(Cat(d, Cat(x, w)), e) BY <1>3, <2>1, CatAssociates
  <2>4. Cat(hd, Cat(Cat(d, Cat(x, w)), e)) = Cat(Cat(hd, Cat(d, Cat(x, w))), e)
      BY <1>3, <2>1, CatAssociates
  <2> QED BY <2>2, <2>3, <2>4
<1>8. ConnIs(t, l, hd, d, x, Cat(w, e), i)
    BY <1>4, <1>5, <1>6, <1>7 DEF ConnIs, ShapeIs
<1> QED BY <1>3, <1>8 DEF e, t

\* Nothing is cut off what a clean client has sent.
LEMMA ConnReads ==
    ASSUME NEW s \in Seq(Packets), NEW l, NEW hd \in Texts, NEW d \in Texts, NEW w \in Texts, NEW i,
           ConnIs(s, l, hd, d, <<>>, w, i), NEW n \in 1 .. Len(w)
    PROVE  /\ UpToLineEnd(SubSeq(w, 1, n)) \in Texts /\ SubSeq(w, n + 1, Len(w)) \in Texts
           /\ ConnIs(s, l, hd, d, UpToLineEnd(SubSeq(w, 1, n)), SubSeq(w, n + 1, Len(w)), i)
<1> DEFINE a == SubSeq(w, 1, n)  b == SubSeq(w, n + 1, Len(w))
<1>1. w \in Seq(Bytes) /\ Len(w) \in Nat BY LenProperties DEF Texts
<1>2. a \in Seq(Bytes) /\ b \in Seq(Bytes) /\ a \o b = w BY <1>1, CutAt
<1>3. UpToLineEnd(a) \in Seq(PacketBytes)
      /\ (UpToLineEnd(a) = a \/ \E k \in 1 .. Len(a) : a[k] = LineEnd)
    BY <1>2, UpToLineEndIs
<1>4. UpToLineEnd(a) \in Texts BY <1>3, SeqMonotonic, LineEndIsNone DEF Texts
<1>5. a \in Texts /\ b \in Texts /\ Cat(a, b) = w BY <1>2 DEF Texts, Cat
<1> HIDE DEF a, b
<1>6. ASSUME CleanSeq(s) PROVE UpToLineEnd(a) = a
  <2>1. Len(s) \in Nat /\ DOMAIN s = 1 .. Len(s) /\ l \in 0 .. Len(s) BY LenProperties DEF ConnIs, ShapeIs
  <2>2. \A k \in 1 .. Len(s) : ~s[k].line BY <1>6, <2>1 DEF CleanSeq
  <2>3. Pending(s, l) \in Seq(PacketBytes) BY <2>1, <2>2, PendingClean
  <2>4. Cat(hd, Cat(d, w)) = Pending(s, l)
    <3>1. Cat(<<>>, w) = w BY CatNothing
    <3> QED BY <1>6, <3>1 DEF ConnIs, ShapeIs
  <2>5. Cat(d, w) \in Texts BY CatType
  <2>6. Cat(d, w) \in Seq(PacketBytes) BY <2>3, <2>4, <2>5, EndOfText
  <2>7. w \in Seq(PacketBytes) BY <2>6, EndOfText
  <2>8. Len(a) = n /\ \A k \in 1 .. n : a[k] = w[k] BY <1>1, CutAt DEF a
  <2>9. \A k \in 1 .. n : k \in 1 .. Len(w) BY <1>1
  <2>10. \A k \in 1 .. Len(w) : w[k] \in PacketBytes BY <2>7, ElementOfSeq
  <2>11. \A k \in 1 .. n : a[k] # LineEnd BY <2>8, <2>9, <2>10, LineEndIsNone
  <2>12. ~\E k \in 1 .. Len(a) : a[k] = LineEnd BY <2>8, <2>11
  <2> QED BY <1>3, <2>12
<1>7. CleanSeq(s) => Cat(UpToLineEnd(a), b) = Cat(<<>>, w) BY <1>5, <1>6, CatNothing
<1>8. ConnIs(s, l, hd, d, UpToLineEnd(a), b, i) BY <1>7 DEF ConnIs, ShapeIs
<1> QED BY <1>4, <1>5, <1>8 DEF a, b

---------------------------------------------------------------------------
\* What a step may do to the connections it parses nothing of.

\* The connection keeps all it has, ...
Same(f) ==
    /\ sent'[f] = sent[f] /\ wire'[f] = wire[f] /\ handled'[f] = handled[f]
    /\ pheader'[f] = pheader[f] /\ pdata'[f] = pdata[f] /\ invalid_sends'[f] = invalid_sends[f]
    /\ TextOf(f)' = TextOf(f) /\ (Promised(f)' <=> Promised(f))

\* ... or is not promised anything, before and after, or only after, ...
Idle(f) == ~Promised(f) /\ ~Promised(f)' /\ Shaped(f)'
Lost(f) == ~Promised(f)' /\ Shaped(f)'

\* ... or begins anew.
Fresh(f) ==
    /\ sent'[f] = <<>> /\ wire'[f] = <<>> /\ handled'[f] = <<>>
    /\ pheader'[f] = <<>> /\ pdata'[f] = <<>> /\ invalid_sends'[f] = 0 /\ TextOf(f)' = <<>>

\* At most one connection ends.
Settled(c) == \A g \in Fds : Same(g) \/ Idle(g) \/ (g = c /\ (Lost(g) \/ Fresh(g)))

Settles == LoopTypes' /\ \E c : Settled(c)

LEMMA SameConn == ASSUME NEW f \in Fds, ConnOK(f), Same(f) PROVE ConnOK(f)'
BY DEF ConnOK, Shaped, Same

LEMMA LostConn == ASSUME NEW f \in Fds, Lost(f) \/ Idle(f) PROVE ConnOK(f)'
BY DEF ConnOK, Lost, Idle

LEMMA FreshConn == ASSUME NEW f \in Fds, Fresh(f) PROVE ConnOK(f)'
<1>1. LastOf(<<>>) = 0 BY DEF LastOf
<1>2. ConnIs(sent'[f], LastOf(handled'[f]), pheader'[f], pdata'[f], TextOf(f)', wire'[f], invalid_sends'[f])
    BY <1>1, ConnNew DEF Fresh
<1>3. Shaped(f)' BY <1>2 DEF ConnIs, Shaped
<1> QED BY <1>2, <1>3 DEF ConnOK

LEMMA SettledStep == ASSUME LoopInv, Settles PROVE LoopInv'
<1>1. PICK c : Settled(c) BY DEF Settles
<1>2. ASSUME NEW g \in Fds PROVE ConnOK(g)'
  <2>1. ConnOK(g) BY DEF LoopInv
  <2>2. Same(g) \/ Idle(g) \/ Lost(g) \/ Fresh(g) BY <1>1 DEF Settled
  <2> QED BY <2>1, <2>2, SameConn, LostConn, FreshConn
<1> QED BY <1>2 DEF LoopInv, Settles

\* Whom a step neither begins to disconnect nor mixes up is promised what he was.
LEMMA PromisedKept ==
    ASSUME NEW g, leaving'[g] = leaving[g], g \in mixed' <=> g \in mixed, pc # "contested",
           pc' = "contested" => player' # g
    PROVE  Promised(g)' <=> Promised(g)
BY DEF Promised

LEMMA TextIsText ==
    ASSUME LoopTypes, NEW f \in Fds
    PROVE  TextOf(f) \in Texts
BY CatNothing DEF LoopTypes, TextOf

LEMMA NotFds == NoPlayer \notin Fds /\ Gone \notin Fds /\ Listener \notin Fds
BY LoopAssumption DEF NoPlayer, Gone, Listener

---------------------------------------------------------------------------
\* Steps.

LEMMA InitLoop == Init => LoopInv
<1> SUFFICES ASSUME Init PROVE LoopInv OBVIOUS
<1>1. LoopTypes
  <2>1. <<>> \in Seq(Packets) /\ <<>> \in Seq(Entries) /\ Len(<<>>) = 0 BY EmptySeq
  <2>2. <<>> \in Texts BY CatNothing
  <2>3. MaxInval \in Nat \ {0} /\ MaxSends \in Nat /\ MaxConns \in Nat BY LoopAssumption
  <2>4. sent = [f \in Fds |-> <<>>] /\ handled = [f \in Fds |-> <<>>] BY DEF Init
  <2>5. sent \in [Fds -> Seq(Packets)] /\ handled \in [Fds -> Seq(Entries)] BY <2>1, <2>4
  <2>6. sends = 0 /\ \A f \in Fds : sent[f] = <<>> BY DEF Init
  <2>7. \A f \in Fds : Len(sent[f]) <= sends BY <2>1, <2>6
  <2>8. /\ wire \in [Fds -> Texts] /\ pheader \in [Fds -> Texts] /\ pdata \in [Fds -> Texts]
        /\ p_ptr \in Texts
      BY <2>2 DEF Init
  <2>9. socket \in [Fds -> {"free", "open", "hungup"}] /\ invalid_sends \in [Fds -> 0 .. MaxInval - 1]
      BY <2>3 DEF Init
  <2>10. sends \in 0 .. MaxSends /\ arrived \in 0 .. MaxConns /\ backlog \in 0 .. arrived
      BY <2>3 DEF Init
  <2>11. /\ tests \subseteq Fds \cup {Listener} /\ player \in Fds \cup {NoPlayer, Gone}
         /\ a2read \in BOOLEAN /\ pc \in Places /\ Listener \notin tests
         /\ leaving \in [Fds -> Stages] /\ mixed \subseteq Fds /\ replaced \in {Current} \cup 0 .. MaxInval - 1
      BY DEF Init, Places, Stages
  <2>12. \A f \in Fds : wire[f] = <<>> BY DEF Init
  <2> QED BY <2>5, <2>7, <2>8, <2>9, <2>10, <2>11, <2>12 DEF LoopTypes
<1>2. ASSUME NEW f \in Fds PROVE ConnOK(f)
  <2>1. TextOf(f) = <<>> BY DEF TextOf, Init
  <2>2. LastOf(<<>>) = 0 BY DEF LastOf
  <2>3. ConnIs(sent[f], LastOf(handled[f]), pheader[f], pdata[f], TextOf(f), wire[f], invalid_sends[f])
      BY <2>1, <2>2, ConnNew DEF Init
  <2>4. Shaped(f) BY <2>3 DEF Shaped, ConnIs
  <2> QED BY <2>3, <2>4 DEF ConnOK
<1> QED BY <1>1, <1>2 DEF LoopInv

\* Steps that only listen, wait or hang up.
LEMMA QuietStep ==
    ASSUME LoopInv, UNCHANGED <<sent, wire, leaving, buffers, sends, held, p_ptr>>,
           pc' \in Places, pc' = "parse" <=> pc = "parse", pc' = "contested" <=> pc = "contested",
           socket' \in [Fds -> {"free", "open", "hungup"}],
           \A f \in Fds : socket'[f] = "free" => socket[f] = "free",
           arrived' \in 0 .. MaxConns, backlog' \in 0 .. arrived', a2read' \in BOOLEAN,
           tests' \subseteq Fds \cup {Listener},
           pc' \in {"loop", "parse"} /\ Listener \in tests' => backlog' > 0
    PROVE  Settles
<1>1. LoopTypes' BY DEF LoopInv, LoopTypes, buffers, held
<1>2. \A f \in Fds : Same(f) BY DEF Same, TextOf, Promised, buffers, held
<1> QED BY <1>1, <1>2 DEF Settled, Settles

LEMMA connectSettles == ASSUME LoopInv, connect PROVE Settles
<1>1. /\ arrived \in 0 .. MaxConns /\ backlog \in 0 .. arrived /\ MaxConns \in Nat
      /\ socket \in [Fds -> {"free", "open", "hungup"}] /\ pc \in Places
      /\ a2read \in BOOLEAN /\ tests \subseteq Fds \cup {Listener}
      /\ (pc \in {"loop", "parse"} /\ Listener \in tests => backlog > 0)
    BY LoopAssumption DEF LoopInv, LoopTypes
<1>2. arrived < MaxConns /\ arrived' = arrived + 1 /\ backlog' = backlog + 1
      /\ UNCHANGED <<clientVars, leaving, sends, buffers, tests, held, a2read, p_ptr, pc>>
    BY DEF connect
<1>3. arrived' \in 0 .. MaxConns /\ backlog' \in 0 .. arrived' /\ (pc \in {"loop", "parse"} /\ Listener \in tests => backlog' > 0)
    BY <1>1, <1>2
<1> QED BY <1>1, <1>2, <1>3, QuietStep DEF clientVars

LEMMA hang_upSettles == ASSUME LoopInv, NEW f \in Fds, hang_up(f) PROVE Settles
<1>1. /\ socket' \in [Fds -> {"free", "open", "hungup"}]
      /\ \A g \in Fds : socket'[g] = "free" => socket[g] = "free"
    BY DEF hang_up, LoopInv, LoopTypes
<1> QED BY <1>1, QuietStep DEF hang_up, LoopInv, LoopTypes, arriving

LEMMA copySettles == ASSUME LoopInv, copy PROVE Settles
<1>1. tests' \subseteq Fds \cup {Listener} BY DEF copy, client_socks
<1> QED BY <1>1, QuietStep DEF copy, LoopInv, LoopTypes, arriving, clientVars, Places

LEMMA selectSettles == ASSUME LoopInv, select PROVE Settles
<1>1. pc = "copied" /\ pc' \in {"ended", "select"} BY DEF select
<1> QED BY <1>1, QuietStep DEF select, LoopInv, LoopTypes, arriving, clientVars, Places

LEMMA select_returnsSettles == ASSUME LoopInv, select_returns PROVE Settles
<1>1. tests' \subseteq Fds \cup {Listener} BY DEF select_returns, LoopInv, LoopTypes
<1>2. Listener \in tests' => backlog > 0
    BY NotFds DEF select_returns, Readable, Closed
<1> QED BY <1>1, <1>2, QuietStep DEF select_returns, LoopInv, LoopTypes, arriving, clientVars, Places

LEMMA handle_new_clientSettles == ASSUME LoopInv, handle_new_client PROVE Settles
<1>1. /\ socket' \in [Fds -> {"free", "open", "hungup"}]
      /\ \A g \in Fds : socket'[g] = "free" => socket[g] = "free"
    BY DEF handle_new_client, LoopInv, LoopTypes
<1>2. arrived \in 0 .. MaxConns /\ MaxConns \in Nat /\ backlog \in 0 .. arrived /\ backlog > 0
    BY LoopAssumption DEF handle_new_client, Turn, LoopInv, LoopTypes
<1>3. backlog' = backlog - 1 /\ arrived' = arrived
    BY DEF handle_new_client
<1>4. backlog' \in 0 .. arrived'
    BY <1>2, <1>3
<1>5. tests' \subseteq Fds \cup {Listener} /\ Listener \notin tests'
    BY DEF handle_new_client, LoopInv, LoopTypes
<1> QED BY <1>1, <1>2, <1>3, <1>4, <1>5, QuietStep DEF handle_new_client, LoopInv, LoopTypes

LEMMA no_playerSettles == ASSUME LoopInv, NEW f \in Fds, no_player(f) PROVE Settles
<1>1. tests' \subseteq Fds \cup {Listener} /\ (Listener \in tests' => Listener \in tests)
    BY DEF no_player, LoopInv, LoopTypes
<1> QED BY <1>1, QuietStep DEF no_player, LoopInv, LoopTypes, arriving, clientVars

LEMMA stutterSettles == ASSUME LoopInv, UNCHANGED vars PROVE Settles
<1>1. UNCHANGED <<sent, wire, leaving, buffers, sends, held, p_ptr, pc, socket, arrived, backlog, tests, a2read>>
    BY DEF vars, clientVars, arriving
<1> QED BY <1>1, QuietStep DEF LoopInv, LoopTypes

LEMMA parse_goneSettles == ASSUME LoopInv, parse_gone PROVE Settles
<1>1. player = Gone /\ pc = "parse" /\ pc' = "segv"
      /\ UNCHANGED <<clientVars, leaving, arriving, buffers, tests, held, a2read, p_ptr>>
    BY DEF parse_gone
<1>2. LoopTypes' BY <1>1 DEF LoopInv, LoopTypes, clientVars, arriving, buffers, held, Places
<1>3. ASSUME NEW f \in Fds PROVE Same(f)
  <2>1. f # Gone BY NotFds
  <2>2. TextOf(f)' = TextOf(f) BY <1>1, <2>1 DEF TextOf, held
  <2>3. Promised(f)' <=> Promised(f) BY <1>1 DEF Promised, buffers
  <2> QED BY <1>1, <2>2, <2>3 DEF Same, clientVars, buffers
<1> QED BY <1>2, <1>3 DEF Settled, Settles

\* A thread, step by step.

LEMMA keepalive_timeoutSettles == ASSUME LoopInv, NEW f \in Fds, keepalive_timeout(f) PROVE Settles
<1>1. /\ leaving' = [leaving EXCEPT ![f] = "freed"]
      /\ pheader' = [pheader EXCEPT ![f] = <<>>] /\ pdata' = [pdata EXCEPT ![f] = <<>>]
      /\ mixed' = mixed \/ mixed' = mixed \ {f}
      /\ UNCHANGED <<clientVars, arriving, invalid_sends, handled, tests, held, a2read, p_ptr, pc>>
      /\ pc # "contested"
    BY DEF keepalive_timeout, Runs
<1>2. /\ pheader \in [Fds -> Texts] /\ pdata \in [Fds -> Texts] /\ leaving \in [Fds -> Stages] /\ mixed \subseteq Fds
    BY DEF LoopInv, LoopTypes
<1>3. <<>> \in Texts /\ Len(<<>>) = 0 /\ HeaderSize \in Nat \ {0} BY CatNothing, EmptySeq, LoopAssumption
<1>4. /\ pheader' \in [Fds -> Texts] /\ pdata' \in [Fds -> Texts] /\ leaving' \in [Fds -> Stages] /\ mixed' \subseteq Fds
    BY <1>1, <1>2, <1>3 DEF Stages
<1>5. LoopTypes' BY <1>1, <1>4 DEF LoopInv, LoopTypes, clientVars, arriving, held
<1>6. Lost(f)
  <2>1. leaving'[f] = "freed" /\ pheader'[f] = <<>> /\ pdata'[f] = <<>> BY <1>1, <1>2
  <2>2. Shaped(f) BY DEF LoopInv, ConnOK
  <2>3. Shaped(f)' BY <1>1, <1>3, <2>1, <2>2 DEF Shaped, ShapeIs, clientVars
  <2> QED BY <2>1, <2>3 DEF Lost, Promised
<1>7. ASSUME NEW g \in Fds, g # f PROVE Same(g)
  <2>1. leaving'[g] = leaving[g] /\ pheader'[g] = pheader[g] /\ pdata'[g] = pdata[g] /\ (g \in mixed' <=> g \in mixed)
      BY <1>1, <1>2, <1>7
  <2>2. Promised(g)' <=> Promised(g) BY <1>1, <2>1, PromisedKept
  <2>3. TextOf(g)' = TextOf(g) BY <1>1 DEF TextOf, held
  <2> QED BY <1>1, <2>1, <2>2, <2>3 DEF Same, clientVars
<1>8. Settled(f) BY <1>6, <1>7 DEF Settled
<1> QED BY <1>5, <1>8 DEF Settles

LEMMA unregisterSettles == ASSUME LoopInv, NEW f \in Fds, unregister(f) PROVE Settles
<1>1. /\ leaving[f] = "freed" /\ leaving' = [leaving EXCEPT ![f] = "unregistered"]
      /\ UNCHANGED <<clientVars, arriving, buffers, tests, held, a2read, p_ptr, pc>> /\ pc # "contested"
    BY DEF unregister, Runs
<1>2. leaving \in [Fds -> Stages] BY DEF LoopInv, LoopTypes
<1>3. leaving' \in [Fds -> Stages] BY <1>1, <1>2 DEF Stages
<1>4. LoopTypes' BY <1>1, <1>3 DEF LoopInv, LoopTypes, clientVars, arriving, buffers, held
<1>5. ASSUME NEW g \in Fds PROVE Same(g)
  <2>1. IF g = f THEN leaving[g] = "freed" /\ leaving'[g] = "unregistered" ELSE leaving'[g] = leaving[g]
      BY <1>1, <1>2
  <2>2. Promised(g)' <=> Promised(g) BY <1>1, <2>1 DEF Promised, buffers
  <2>3. TextOf(g)' = TextOf(g) BY <1>1 DEF TextOf, held
  <2> QED BY <1>1, <2>2, <2>3 DEF Same, clientVars, buffers
<1> QED BY <1>4, <1>5 DEF Settled, Settles

LEMMA storeSettles == ASSUME LoopInv, NEW f \in Fds, store(f) PROVE Settles
<1>1. /\ leaving[f] = "unregistered" /\ leaving' = [leaving EXCEPT ![f] = "away"]
      /\ player' = player \/ (player = f /\ player' = Gone)
      /\ UNCHANGED <<clientVars, arriving, buffers, tests, replaced, a2read, p_ptr, pc>> /\ pc # "contested"
    BY DEF store, Runs
<1>2. leaving \in [Fds -> Stages] /\ player \in Fds \cup {NoPlayer, Gone} BY DEF LoopInv, LoopTypes
<1>3. leaving' \in [Fds -> Stages] /\ player' \in Fds \cup {NoPlayer, Gone} BY <1>1, <1>2 DEF Stages
<1>4. LoopTypes' BY <1>1, <1>3 DEF LoopInv, LoopTypes, clientVars, arriving, buffers
<1>5. ASSUME NEW g \in Fds, g # f PROVE Same(g)
  <2>1. leaving'[g] = leaving[g] BY <1>1, <1>2, <1>5
  <2>2. Promised(g)' <=> Promised(g) BY <1>1, <2>1 DEF Promised, buffers
  <2>3. TextOf(g)' = TextOf(g) BY <1>1, <1>5, NotFds DEF TextOf
  <2> QED BY <1>1, <2>2, <2>3 DEF Same, clientVars, buffers
<1>6. Idle(f)
  <2>1. leaving[f] = "unregistered" /\ leaving'[f] = "away" BY <1>1, <1>2
  <2>2. Shaped(f) BY DEF LoopInv, ConnOK
  <2>3. Shaped(f)' BY <1>1, <2>2 DEF Shaped, clientVars, buffers
  <2> QED BY <2>1, <2>3 DEF Idle, Promised
<1> QED BY <1>4, <1>5, <1>6 DEF Settled, Settles

\* What is left in the buffers, or is still on its way there, is promised to nobody.
LEMMA close_socketSettles == ASSUME LoopInv, NEW f \in Fds, close_socket(f) PROVE Settles
<1>1. /\ leaving' = [leaving EXCEPT ![f] = "no"] /\ socket' = [socket EXCEPT ![f] = "free"]
      /\ sent' = [sent EXCEPT ![f] = <<>>] /\ wire' = [wire EXCEPT ![f] = <<>>]
      /\ handled' = [handled EXCEPT ![f] = <<>>] /\ invalid_sends' = [invalid_sends EXCEPT ![f] = 0]
      /\ mixed' = (IF UnderWay(f) \/ pheader[f] # <<>> THEN mixed \cup {f} ELSE mixed)
      /\ UNCHANGED <<arriving, pheader, pdata, tests, held, a2read, p_ptr, pc>> /\ pc # "contested"
    BY DEF close_socket, Runs
<1>2. /\ socket \in [Fds -> {"free", "open", "hungup"}] /\ sent \in [Fds -> Seq(Packets)] /\ wire \in [Fds -> Texts]
      /\ handled \in [Fds -> Seq(Entries)] /\ invalid_sends \in [Fds -> 0 .. MaxInval - 1]
      /\ leaving \in [Fds -> Stages] /\ mixed \subseteq Fds /\ sends \in 0 .. MaxSends
      /\ \A g \in Fds : Len(sent[g]) <= sends /\ (socket[g] = "free" => wire[g] = <<>>)
    BY DEF LoopInv, LoopTypes
<1>3. /\ <<>> \in Seq(Packets) /\ <<>> \in Seq(Entries) /\ <<>> \in Texts /\ Len(<<>>) = 0
      /\ MaxInval \in Nat \ {0} /\ MaxSends \in Nat /\ HeaderSize \in Nat \ {0}
    BY EmptySeq, CatNothing, LoopAssumption
<1>4. /\ socket' \in [Fds -> {"free", "open", "hungup"}] /\ sent' \in [Fds -> Seq(Packets)]
      /\ wire' \in [Fds -> Texts] /\ handled' \in [Fds -> Seq(Entries)]
      /\ leaving' \in [Fds -> Stages] /\ mixed' \subseteq Fds
    BY <1>1, <1>2, <1>3 DEF Stages
<1>5. invalid_sends' \in [Fds -> 0 .. MaxInval - 1] BY <1>1, <1>2, <1>3
<1>6. \A g \in Fds : IF g = f THEN sent'[g] = <<>> /\ wire'[g] = <<>>
                     ELSE sent'[g] = sent[g] /\ wire'[g] = wire[g] /\ socket'[g] = socket[g]
    BY <1>1, <1>2
<1>7. \A g \in Fds : Len(sent'[g]) <= sends /\ (socket'[g] = "free" => wire'[g] = <<>>)
    BY <1>2, <1>3, <1>6
<1>8. LoopTypes' BY <1>1, <1>4, <1>5, <1>7 DEF LoopInv, LoopTypes, arriving, held
<1>9. ASSUME NEW g \in Fds, g # f PROVE Same(g)
  <2>1. /\ sent'[g] = sent[g] /\ wire'[g] = wire[g] /\ handled'[g] = handled[g] /\ invalid_sends'[g] = invalid_sends[g]
        /\ leaving'[g] = leaving[g] /\ (g \in mixed' <=> g \in mixed)
      BY <1>1, <1>2, <1>9
  <2>2. Promised(g)' <=> Promised(g) BY <1>1, <2>1, PromisedKept
  <2>3. TextOf(g)' = TextOf(g) BY <1>1 DEF TextOf, held
  <2> QED BY <1>1, <2>1, <2>2, <2>3 DEF Same
<1>10. Lost(f) \/ Fresh(f)
  <2>1. /\ sent'[f] = <<>> /\ wire'[f] = <<>> /\ handled'[f] = <<>> /\ invalid_sends'[f] = 0
        /\ pheader'[f] = pheader[f] /\ pdata'[f] = pdata[f]
      BY <1>1, <1>2
  <2>2. Len(pheader[f]) <= HeaderSize /\ (Len(pheader[f]) < HeaderSize => pdata[f] = <<>>)
      BY DEF LoopInv, ConnOK, Shaped, ShapeIs
  <2>3. CASE UnderWay(f) \/ pheader[f] # <<>>
    <3>1. f \in mixed' BY <1>1, <2>3
    <3>2. LastOf(<<>>) = 0 /\ 0 \in 0 .. Len(<<>>) BY <1>3 DEF LastOf
    <3>3. Shaped(f)' BY <2>1, <2>2, <3>2 DEF Shaped, ShapeIs
    <3> QED BY <3>1, <3>3 DEF Lost, Promised
  <2>4. CASE ~UnderWay(f) /\ pheader[f] = <<>>
    <3>1. pdata[f] = <<>> BY <1>3, <2>2, <2>4
    <3>2. TextOf(f)' = <<>> BY <1>1, <2>4 DEF TextOf, UnderWay, held
    <3> QED BY <2>1, <2>4, <3>1, <3>2 DEF Fresh
  <2> QED BY <2>3, <2>4
<1> QED BY <1>8, <1>9, <1>10 DEF Settled, Settles

\* The loop.

\* disconnect by the loop: the connection begins anew, those of the others are left alone.
LEMMA DisconnectStep ==
    ASSUME LoopInv, NEW c \in Fds, disconnect(c, c), UNCHANGED <<leaving, arriving>>,
           pc \in {"loop", "parse"}, pc' = "loop", replaced' \in {Current} \cup 0 .. MaxInval - 1,
           a2read' \in BOOLEAN, p_ptr' \in Texts, tests' \subseteq tests,
           \A g \in Fds : g # c => TextOf(g) = <<>>
    PROVE  Settles /\ Fresh(c) /\ \A g \in Fds : g # c => Same(g)
<1>1. /\ <<>> \in Seq(Packets) /\ <<>> \in Seq(Entries) /\ <<>> \in Texts /\ Len(<<>>) = 0
      /\ MaxInval \in Nat \ {0} /\ MaxSends \in Nat
    BY EmptySeq, CatNothing, LoopAssumption
<1>2. /\ socket \in [Fds -> {"free", "open", "hungup"}]
      /\ sent \in [Fds -> Seq(Packets)] /\ wire \in [Fds -> Texts]
      /\ pheader \in [Fds -> Texts] /\ pdata \in [Fds -> Texts]
      /\ handled \in [Fds -> Seq(Entries)] /\ invalid_sends \in [Fds -> 0 .. MaxInval - 1]
      /\ sends \in 0 .. MaxSends /\ mixed \subseteq Fds
      /\ \A g \in Fds : Len(sent[g]) <= sends /\ (socket[g] = "free" => wire[g] = <<>>)
    BY DEF LoopInv, LoopTypes
<1>3. /\ socket' = [socket EXCEPT ![c] = "free"] /\ player' = Gone
      /\ sent' = [sent EXCEPT ![c] = <<>>] /\ wire' = [wire EXCEPT ![c] = <<>>]
      /\ handled' = [handled EXCEPT ![c] = <<>>] /\ pheader' = [pheader EXCEPT ![c] = <<>>]
      /\ pdata' = [pdata EXCEPT ![c] = <<>>] /\ invalid_sends' = [invalid_sends EXCEPT ![c] = 0]
      /\ mixed' = mixed \ {c}
    BY DEF disconnect
<1>4. /\ socket' \in [Fds -> {"free", "open", "hungup"}]
      /\ sent' \in [Fds -> Seq(Packets)] /\ wire' \in [Fds -> Texts]
      /\ pheader' \in [Fds -> Texts] /\ pdata' \in [Fds -> Texts]
      /\ handled' \in [Fds -> Seq(Entries)] /\ mixed' \subseteq Fds
    BY <1>1, <1>2, <1>3
<1>5. invalid_sends' \in [Fds -> 0 .. MaxInval - 1]
    BY <1>1, <1>2, <1>3
<1>6. \A g \in Fds : IF g = c THEN sent'[g] = <<>> /\ wire'[g] = <<>>
                     ELSE sent'[g] = sent[g] /\ wire'[g] = wire[g] /\ socket'[g] = socket[g]
    BY <1>2, <1>3
<1>7. \A g \in Fds : Len(sent'[g]) <= sends /\ (socket'[g] = "free" => wire'[g] = <<>>)
    BY <1>1, <1>2, <1>6
<1>8. LoopTypes'
    BY <1>3, <1>4, <1>5, <1>7 DEF LoopInv, LoopTypes, arriving, Places
<1>9. \A g \in Fds : TextOf(g)' = <<>> BY DEF TextOf
<1>10. Fresh(c) BY <1>2, <1>3, <1>9 DEF Fresh
<1>11. ASSUME NEW g \in Fds, g # c PROVE Same(g)
  <2>1. /\ sent'[g] = sent[g] /\ wire'[g] = wire[g] /\ handled'[g] = handled[g]
        /\ pheader'[g] = pheader[g] /\ pdata'[g] = pdata[g] /\ invalid_sends'[g] = invalid_sends[g]
        /\ (g \in mixed' <=> g \in mixed)
      BY <1>2, <1>3, <1>11
  <2>2. Promised(g)' <=> Promised(g) BY <2>1, PromisedKept
  <2> QED BY <1>9, <1>11, <2>1, <2>2 DEF Same
<1> QED BY <1>8, <1>10, <1>11 DEF Settled, Settles

\* The struct of somebody else is disconnected, or twice: no more is followed.
LEMMA ContestedStep ==
    ASSUME LoopInv, NEW c \in Fds, pc \in {"loop", "parse"}, pc' = "contested", player' = c,
           UNCHANGED <<clientVars, leaving, arriving, buffers, p_ptr>>,
           replaced' \in {Current} \cup 0 .. MaxInval - 1, a2read' \in BOOLEAN, tests' \subseteq tests,
           \A g \in Fds : g # c => TextOf(g) = <<>>
    PROVE  Settles /\ Lost(c) /\ \A g \in Fds : g # c => Same(g)
<1>1. LoopTypes' BY DEF LoopInv, LoopTypes, clientVars, arriving, buffers, Places
<1>2. Lost(c)
  <2>1. Shaped(c) BY DEF LoopInv, ConnOK
  <2>2. Shaped(c)' BY <2>1 DEF Shaped, clientVars, buffers
  <2> QED BY <2>2 DEF Lost, Promised
<1>3. ASSUME NEW g \in Fds, g # c PROVE Same(g)
  <2>1. Promised(g)' <=> Promised(g) BY <1>3 DEF Promised, buffers
  <2>2. TextOf(g)' = TextOf(g) BY <1>3 DEF TextOf
  <2> QED BY <2>1, <2>2 DEF Same, clientVars, buffers
<1> QED BY <1>1, <1>2, <1>3 DEF Settled, Settles

LEMMA LookedIs ==
    ASSUME LoopTypes, NEW f \in Fds
    PROVE  Looked(f) \in Fds \cup {NoPlayer, Gone} /\ StillReplaced(f) \in {Current} \cup 0 .. MaxInval - 1
BY DEF LoopTypes, Looked, StillReplaced

LEMMA client_goneSettles == ASSUME LoopInv, NEW f \in Fds, client_gone(f) PROVE Settles
<1>0. PICK c, r : c = Looked(f) /\ r = StillReplaced(f) OBVIOUS
<1>1. /\ tests' = tests \ {f} /\ a2read' = FALSE /\ UNCHANGED <<leaving, arriving, p_ptr>> /\ pc = "loop"
      /\ c # NoPlayer
      /\ \/ c = Gone /\ UNCHANGED <<clientVars, buffers, held, pc>>
         \/ c # Gone /\ disconnect(c, c) /\ replaced' = r /\ UNCHANGED pc
         \/ /\ c # Gone /\ player' = c /\ replaced' = r /\ pc' = "contested"
            /\ UNCHANGED <<clientVars, buffers>>
    BY <1>0 DEF client_gone, Turn
<1>2. /\ socket \in [Fds -> {"free", "open", "hungup"}] /\ arrived \in 0 .. MaxConns /\ backlog \in 0 .. arrived
      /\ tests \subseteq Fds \cup {Listener} /\ (Listener \in tests => backlog > 0) /\ p_ptr \in Texts /\ pc \in Places
    BY <1>1 DEF LoopInv, LoopTypes
<1>3. c \in Fds \cup {NoPlayer, Gone} /\ r \in {Current} \cup 0 .. MaxInval - 1 BY <1>0, LookedIs DEF LoopInv
<1>4. \A g \in Fds : TextOf(g) = <<>> BY <1>1 DEF TextOf
<1>5. CASE UNCHANGED <<clientVars, buffers, held, pc>>
    BY <1>1, <1>2, <1>5, QuietStep DEF arriving, clientVars
<1>6. CASE c # Gone /\ disconnect(c, c) /\ replaced' = r /\ UNCHANGED pc
    BY <1>1, <1>2, <1>3, <1>4, <1>6, DisconnectStep
<1>7. CASE c # Gone /\ player' = c /\ replaced' = r /\ pc' = "contested" /\ UNCHANGED <<clientVars, buffers>>
    BY <1>1, <1>2, <1>3, <1>4, <1>7, ContestedStep
<1> QED BY <1>1, <1>5, <1>6, <1>7

\* recv has read from the player's own descriptor.
Reads(f) ==
    /\ \E n \in 1 .. Len(wire[f]) :
          TextOf(f)' = UpToLineEnd(SubSeq(wire[f], 1, n)) /\ wire'[f] = SubSeq(wire[f], n + 1, Len(wire[f]))
    /\ TextOf(f) = <<>> /\ (Promised(f)' <=> Promised(f))
    /\ sent'[f] = sent[f] /\ handled'[f] = handled[f] /\ pheader'[f] = pheader[f] /\ pdata'[f] = pdata[f]
    /\ invalid_sends'[f] = invalid_sends[f]
    /\ \A g \in Fds : g # f => Same(g)

LEMMA recvIs == ASSUME LoopInv, NEW f \in Fds, recv(f) PROVE Settles \/ (LoopTypes' /\ Reads(f))
<1>1. /\ wire \in [Fds -> Texts] /\ tests \subseteq Fds \cup {Listener} /\ mixed \subseteq Fds
      /\ (pc \in {"loop", "parse"} /\ Listener \in tests => backlog > 0)
      /\ \A g \in Fds : socket[g] = "free" => wire[g] = <<>>
    BY DEF LoopInv, LoopTypes
<1>2. /\ pc = "loop" /\ pc' = "parse" /\ player' = Looked(f) /\ replaced' = StillReplaced(f)
      /\ a2read' = TRUE /\ tests' = tests \ {f} /\ Looked(f) # NoPlayer
      /\ UNCHANGED <<socket, sent, leaving, arriving, pheader, pdata, invalid_sends, handled>>
    BY DEF recv, Turn
<1>3. \A g \in Fds : TextOf(g) = <<>> BY <1>2 DEF TextOf
<1>4. player' \in Fds \cup {NoPlayer, Gone} /\ replaced' \in {Current} \cup 0 .. MaxInval - 1
    BY <1>2, LookedIs DEF LoopInv
<1>5. CASE socket[f] = "free" /\ p_ptr' = <<>> /\ UNCHANGED <<wire, mixed>>
  <2>1. <<>> \in Texts BY CatNothing
  <2>2. LoopTypes' BY <1>1, <1>2, <1>4, <1>5, <2>1 DEF LoopInv, LoopTypes, arriving, Places
  <2>3. ASSUME NEW g \in Fds PROVE Same(g)
    <3>1. TextOf(g)' = TextOf(g) BY <1>3, <1>5 DEF TextOf
    <3>2. Promised(g)' <=> Promised(g) BY <1>2, <1>5 DEF Promised
    <3> QED BY <1>2, <1>5, <3>1, <3>2 DEF Same
  <2> QED BY <2>2, <2>3 DEF Settled, Settles
<1>6. ASSUME NEW n \in 1 .. Len(wire[f]),
             p_ptr' = UpToLineEnd(SubSeq(wire[f], 1, n)),
             wire' = [wire EXCEPT ![f] = SubSeq(@, n + 1, Len(@))],
             mixed' = mixed \cup ({Looked(f)} \cap (Fds \ {f}))
      PROVE  Settles \/ (LoopTypes' /\ Reads(f))
  <2> DEFINE x == UpToLineEnd(SubSeq(wire[f], 1, n))  w == SubSeq(wire[f], n + 1, Len(wire[f]))
  <2>1. socket[f] # "free"
    <3>1. 1 .. Len(<<>>) = {} BY EmptySeq
    <3> QED BY <1>1, <3>1
  <2>2. p_ptr' = x /\ wire' = [wire EXCEPT ![f] = w] BY <1>6
  <2>3. x \in Texts /\ w \in Texts
    <3> DEFINE a == SubSeq(wire[f], 1, n)
    <3>1. wire[f] \in Seq(Bytes) /\ Len(wire[f]) \in Nat BY <1>1, LenProperties DEF Texts
    <3>2. a \in Seq(Bytes) /\ w \in Seq(Bytes) BY <1>6, <3>1, CutAt
    <3> HIDE DEF a
    <3>3. UpToLineEnd(a) \in Seq(PacketBytes) BY <3>2, UpToLineEndIs
    <3>4. UpToLineEnd(a) \in Seq(Bytes) BY <3>3, SeqMonotonic, LineEndIsNone
    <3> QED BY <3>2, <3>4 DEF Texts, a
  <2>4. x = UpToLineEnd(SubSeq(wire[f], 1, n)) /\ w = SubSeq(wire[f], n + 1, Len(wire[f])) OBVIOUS
  <2> HIDE DEF x, w
  <2>5. /\ wire' \in [Fds -> Texts] /\ wire'[f] = w /\ \A g \in Fds : g # f => wire'[g] = wire[g]
        /\ \A g \in Fds : socket[g] = "free" => wire'[g] = <<>>
      BY <1>1, <2>1, <2>2, <2>3
  <2>6. mixed' \subseteq Fds BY <1>1, <1>6
  <2>7. LoopTypes' BY <1>1, <1>2, <1>4, <2>2, <2>3, <2>5, <2>6 DEF LoopInv, LoopTypes, arriving, Places
  <2>8. CASE Looked(f) = f
    <3>1. mixed' = mixed BY <1>6, <2>8
    <3>2. \A g \in Fds : Promised(g)' <=> Promised(g) BY <1>2, <3>1 DEF Promised
    <3>3. TextOf(f)' = x /\ \A g \in Fds : g # f => TextOf(g)' = <<>> BY <1>2, <2>2, <2>8 DEF TextOf
    <3>4. \A g \in Fds : g # f => Same(g) BY <1>2, <1>3, <2>5, <3>2, <3>3 DEF Same
    <3>5. TextOf(f)' = UpToLineEnd(SubSeq(wire[f], 1, n)) /\ wire'[f] = SubSeq(wire[f], n + 1, Len(wire[f]))
        BY <2>4, <2>5, <3>3
    <3>6. Reads(f) BY <1>2, <1>3, <3>2, <3>4, <3>5 DEF Reads
    <3> QED BY <2>7, <3>6
  <2>9. CASE Looked(f) # f
    <3>0. PICK c : c = Looked(f) OBVIOUS
    <3>1. leaving[f] # "no" BY <2>1, <2>9 DEF Looked, Registered
    <3>2. \A g \in Fds : Shaped(g)'
      <4>1. \A g \in Fds : Shaped(g) BY DEF LoopInv, ConnOK
      <4> QED BY <1>2, <4>1 DEF Shaped
    <3>3. Idle(f) BY <1>2, <3>1, <3>2 DEF Idle, Promised
    <3>4. c \in Fds => Lost(c) BY <1>6, <2>9, <3>0, <3>2 DEF Lost, Promised
    <3>5. ASSUME NEW g \in Fds, g # f, g # c PROVE Same(g)
      <4>1. g \in mixed' <=> g \in mixed BY <1>6, <3>0, <3>5
      <4>2. Promised(g)' <=> Promised(g) BY <1>2, <4>1 DEF Promised
      <4>3. TextOf(g)' = <<>> BY <1>2, <3>0, <3>5 DEF TextOf
      <4> QED BY <1>2, <1>3, <2>5, <3>5, <4>2, <4>3 DEF Same
    <3>6. ASSUME NEW g \in Fds PROVE Same(g) \/ Idle(g) \/ (g = c /\ (Lost(g) \/ Fresh(g)))
      <4>1. CASE g = f BY <3>3, <4>1
      <4>2. CASE g = c BY <3>4, <4>2
      <4>3. CASE g # f /\ g # c BY <3>5, <4>3
      <4> QED BY <4>1, <4>2, <4>3
    <3> QED BY <2>7, <3>6 DEF Settled, Settles
  <2> QED BY <2>8, <2>9
<1> QED
    BY <1>5, <1>6 DEF recv

LEMMA ReadsLoop == ASSUME LoopInv, LoopTypes', NEW f \in Fds, Reads(f) PROVE LoopInv'
<1>1. /\ sent[f] \in Seq(Packets) /\ wire[f] \in Texts /\ pheader[f] \in Texts /\ pdata[f] \in Texts
    BY DEF LoopInv, LoopTypes
<1>2. PICK n \in 1 .. Len(wire[f]) :
         TextOf(f)' = UpToLineEnd(SubSeq(wire[f], 1, n)) /\ wire'[f] = SubSeq(wire[f], n + 1, Len(wire[f]))
    BY DEF Reads
<1>3. Shaped(f)'
  <2>1. Shaped(f) BY DEF LoopInv, ConnOK
  <2> QED BY <2>1 DEF Shaped, Reads
<1>4. ASSUME Promised(f)
      PROVE  ConnIs(sent'[f], LastOf(handled'[f]), pheader'[f], pdata'[f], TextOf(f)', wire'[f], invalid_sends'[f])
  <2>1. ConnIs(sent[f], LastOf(handled[f]), pheader[f], pdata[f], <<>>, wire[f], invalid_sends[f])
      BY <1>4 DEF LoopInv, ConnOK, Reads
  <2>2. ConnIs(sent[f], LastOf(handled[f]), pheader[f], pdata[f], UpToLineEnd(SubSeq(wire[f], 1, n)),
               SubSeq(wire[f], n + 1, Len(wire[f])), invalid_sends[f])
      BY <1>1, <2>1, ConnReads
  <2> QED BY <1>2, <2>2 DEF Reads
<1>5. ConnOK(f)' BY <1>3, <1>4 DEF ConnOK, Reads
<1>6. \A g \in Fds : g # f => ConnOK(g)' BY SameConn DEF Reads, LoopInv
<1> QED BY <1>5, <1>6 DEF LoopInv

\* A client has sent a packet.
Sent(f, p) ==
    /\ sent'[f] = Append(sent[f], p) /\ wire'[f] = Cat(wire[f], Frame(Len(sent[f]) + 1, p))
    /\ TextOf(f)' = TextOf(f) /\ (Promised(f)' <=> Promised(f))
    /\ handled'[f] = handled[f] /\ pheader'[f] = pheader[f] /\ pdata'[f] = pdata[f]
    /\ invalid_sends'[f] = invalid_sends[f]
    /\ \A g \in Fds : g # f => Same(g)

LEMMA sendIs == ASSUME LoopInv, NEW f \in Fds, NEW p \in Packets, send(f, p) PROVE Sent(f, p)
<1>1. sent \in [Fds -> Seq(Packets)] /\ wire \in [Fds -> Texts] BY DEF LoopInv, LoopTypes
<1>2. /\ sent' = [sent EXCEPT ![f] = Append(sent[f], p)]
      /\ wire' = [wire EXCEPT ![f] = Cat(wire[f], Frame(Len(sent[f]) + 1, p))]
      /\ UNCHANGED <<leaving, buffers, held, p_ptr, pc>>
    BY DEF send, Cat
<1>3. \A g \in Fds : (Promised(g)' <=> Promised(g)) /\ TextOf(g)' = TextOf(g)
    BY <1>2 DEF Promised, TextOf, buffers, held
<1>4. \A g \in Fds : g # f => Same(g) BY <1>1, <1>2, <1>3 DEF Same, buffers
<1> QED BY <1>1, <1>2, <1>3, <1>4 DEF Sent, buffers

LEMMA sendLoop == ASSUME LoopInv, NEW f \in Fds, NEW p \in Packets, send(f, p) PROVE LoopInv'
<1> DEFINE e == Frame(Len(sent[f]) + 1, p)
<1>1. /\ sent \in [Fds -> Seq(Packets)] /\ wire \in [Fds -> Texts] /\ sends \in 0 .. MaxSends
      /\ pheader \in [Fds -> Texts] /\ pdata \in [Fds -> Texts] /\ MaxSends \in Nat
      /\ \A g \in Fds : /\ Len(sent[g]) <= sends /\ Len(sent[g]) \in Nat
                        /\ socket[g] = "free" => wire[g] = <<>>
  <2>1. \A g \in Fds : Len(sent[g]) \in Nat BY LenProperties DEF LoopInv, LoopTypes
  <2> QED BY <2>1, LoopAssumption DEF LoopInv, LoopTypes
<1>2. /\ sends < MaxSends /\ sends' = sends + 1 /\ socket' = socket /\ socket[f] = "open"
      /\ sent' = [sent EXCEPT ![f] = Append(sent[f], p)] /\ wire' = [wire EXCEPT ![f] = Cat(wire[f], e)]
      /\ UNCHANGED <<socket, leaving, backlog, arrived, buffers, tests, held, a2read, p_ptr, pc>>
    BY DEF send, Cat
<1>3. Sent(f, p) BY sendIs
<1>4. /\ sent[f] \in Seq(Packets) /\ wire[f] \in Texts /\ pheader[f] \in Texts /\ pdata[f] \in Texts
      /\ TextOf(f) \in Texts /\ Shaped(f)
    BY <1>1, TextIsText DEF LoopInv, ConnOK
<1>5. e \in Texts
  <2>1. Len(sent[f]) + 1 \in Nat \ {0} BY <1>1
  <2> QED BY <2>1, PacketTexts
<1>6. Shaped(f)'
  <2>1. Len(Append(sent[f], p)) = Len(sent[f]) + 1 /\ Len(sent[f]) \in Nat BY <1>4, AppendProperties, LenProperties
  <2>2. LastOf(handled[f]) \in 0 .. Len(sent[f]) BY <1>4 DEF Shaped, ShapeIs
  <2>3. LastOf(handled[f]) \in 0 .. Len(Append(sent[f], p)) BY <2>1, <2>2
  <2> QED BY <1>3, <1>4, <2>3 DEF Shaped, ShapeIs, Sent
<1>7. ASSUME Promised(f)
      PROVE  ConnIs(sent'[f], LastOf(handled'[f]), pheader'[f], pdata'[f], TextOf(f)', wire'[f], invalid_sends'[f])
  <2>1. ConnIs(sent[f], LastOf(handled[f]), pheader[f], pdata[f], TextOf(f), wire[f], invalid_sends[f])
      BY <1>7 DEF LoopInv, ConnOK
  <2>2. ConnIs(Append(sent[f], p), LastOf(handled[f]), pheader[f], pdata[f], TextOf(f), Cat(wire[f], e), invalid_sends[f])
      BY <1>4, <2>1, ConnSends
  <2> QED BY <1>3, <2>2 DEF Sent
<1>8. \A g \in Fds : ConnOK(g)'
  <2>1. ConnOK(f)' BY <1>3, <1>6, <1>7 DEF ConnOK, Sent
  <2>2. \A g \in Fds : g # f => ConnOK(g)' BY <1>3, SameConn DEF Sent, LoopInv
  <2> QED BY <2>1, <2>2
<1> HIDE DEF e
<1>9. Append(sent[f], p) \in Seq(Packets) /\ Len(Append(sent[f], p)) = Len(sent[f]) + 1 /\ Cat(wire[f], e) \in Texts
    BY <1>4, <1>5, AppendProperties, CatType
<1>10. sent' \in [Fds -> Seq(Packets)] /\ wire' \in [Fds -> Texts]
    BY <1>1, <1>2, <1>9
<1>11. \A g \in Fds : Len(sent'[g]) <= sends' /\ (socket'[g] = "free" => wire'[g] = <<>>)
    BY <1>1, <1>2, <1>9
<1>12. sends' \in 0 .. MaxSends BY <1>1, <1>2
<1>13. LoopTypes'
    BY <1>2, <1>10, <1>11, <1>12 DEF LoopInv, LoopTypes, buffers, held
<1> QED BY <1>8, <1>13 DEF LoopInv

---------------------------------------------------------------------------
\* parse.

\* Of the client c, hd and d are left in the buffers, entries handed on, and rest is to be parsed.
Left(c, hd, d, entries, rest) ==
    /\ pheader' = [pheader EXCEPT ![c] = hd] /\ pdata' = [pdata EXCEPT ![c] = d]
    /\ handled' = [handled EXCEPT ![c] = entries]
    /\ p_ptr' = rest /\ pc' = (IF rest = <<>> THEN "loop" ELSE "parse")
    /\ UNCHANGED <<clientVars, mixed, player>>

\* Only c's count of invalid packets may change, or that of the struct a return has replaced.
Charged(c) ==
    /\ invalid_sends' \in [Fds -> 0 .. MaxInval - 1] /\ replaced' \in {Current} \cup 0 .. MaxInval - 1
    /\ \A g \in Fds : g # c => invalid_sends'[g] = invalid_sends[g]

LEMMA LeftOthers ==
    ASSUME LoopInv, NEW c \in Fds, pc = "parse", player = c, NEW hd, NEW d, NEW entries, NEW rest,
           Left(c, hd, d, entries, rest), Charged(c), UNCHANGED leaving
    PROVE  (\A g \in Fds : g # c => Same(g)) /\ (Promised(c)' <=> Promised(c))
<1>1. /\ pheader \in [Fds -> Texts] /\ pdata \in [Fds -> Texts] /\ handled \in [Fds -> Seq(Entries)]
    BY DEF LoopInv, LoopTypes
<1>2. pc' # "contested" /\ player' = c /\ UNCHANGED <<sent, wire, mixed>> BY DEF Left, clientVars
<1>3. \A g \in Fds : Promised(g)' <=> Promised(g) BY <1>2 DEF Promised
<1>4. ASSUME NEW g \in Fds, g # c PROVE Same(g)
  <2>1. pheader'[g] = pheader[g] /\ pdata'[g] = pdata[g] /\ handled'[g] = handled[g] /\ invalid_sends'[g] = invalid_sends[g]
      BY <1>1, <1>4 DEF Left, Charged
  <2>2. TextOf(g) = <<>> /\ TextOf(g)' = <<>> BY <1>2, <1>4 DEF TextOf
  <2> QED BY <1>2, <1>3, <2>1, <2>2 DEF Same
<1> QED BY <1>3, <1>4

LEMMA LeftStep ==
    ASSUME LoopInv, NEW c \in Fds, pc = "parse", player = c,
           NEW hd \in Texts, NEW d \in Texts, NEW rest \in Texts, NEW entries \in Seq(Entries),
           Left(c, hd, d, entries, rest), Charged(c), UNCHANGED <<leaving, arriving, tests, a2read>>,
           ShapeIs(sent[c], LastOf(entries), hd, d),
           Promised(c) => ConnIs(sent[c], LastOf(entries), hd, d, rest, wire[c], invalid_sends'[c])
    PROVE  LoopInv'
<1>1. /\ pheader \in [Fds -> Texts] /\ pdata \in [Fds -> Texts] /\ handled \in [Fds -> Seq(Entries)]
    BY DEF LoopInv, LoopTypes
<1>2. /\ pheader' = [pheader EXCEPT ![c] = hd] /\ pdata' = [pdata EXCEPT ![c] = d]
      /\ handled' = [handled EXCEPT ![c] = entries]
      /\ p_ptr' = rest /\ pc' = (IF rest = <<>> THEN "loop" ELSE "parse")
      /\ UNCHANGED <<socket, sent, wire, mixed, player>>
    BY DEF Left, clientVars
<1>3. /\ pheader' \in [Fds -> Texts] /\ pdata' \in [Fds -> Texts] /\ handled' \in [Fds -> Seq(Entries)]
      /\ pc' \in {"loop", "parse"} /\ pc' \in Places
    BY <1>1, <1>2 DEF Places
<1>4. LoopTypes' BY <1>2, <1>3 DEF LoopInv, LoopTypes, arriving, Charged
<1>5. (\A g \in Fds : g # c => Same(g)) /\ (Promised(c)' <=> Promised(c)) BY LeftOthers
<1>6. TextOf(c)' = rest BY <1>2 DEF TextOf
<1>7. pheader'[c] = hd /\ pdata'[c] = d /\ handled'[c] = entries BY <1>1, <1>2
<1>8. ConnOK(c)' BY <1>2, <1>5, <1>6, <1>7 DEF ConnOK, Shaped
<1>9. \A g \in Fds : g # c => ConnOK(g)' BY <1>5, SameConn DEF LoopInv
<1> QED BY <1>4, <1>8, <1>9 DEF LoopInv

LEMMA CountedIs ==
    ASSUME LoopTypes, NEW c \in Fds
    PROVE  /\ Sends(c) \in 0 .. MaxInval - 1
           /\ \A i \in 0 .. MaxInval - 1 :
                 Counted(c, i) => Charged(c) /\ (i = Sends(c) => invalid_sends'[c] = invalid_sends[c])
<1>1. /\ invalid_sends \in [Fds -> 0 .. MaxInval - 1] /\ replaced \in {Current} \cup 0 .. MaxInval - 1
    BY DEF LoopTypes
<1>2. Sends(c) \in 0 .. MaxInval - 1 BY <1>1 DEF Sends
<1>3. ASSUME NEW i \in 0 .. MaxInval - 1, Counted(c, i)
      PROVE  Charged(c) /\ (i = Sends(c) => invalid_sends'[c] = invalid_sends[c])
  <2>1. CASE replaced = Current
    <3>1. invalid_sends' = [invalid_sends EXCEPT ![c] = i] /\ replaced' = replaced BY <1>3, <2>1 DEF Counted
    <3> QED BY <1>1, <2>1, <3>1 DEF Charged, Sends
  <2>2. CASE replaced # Current
    <3>1. invalid_sends' = invalid_sends /\ replaced' = i BY <1>3, <2>2 DEF Counted
    <3> QED BY <1>1, <3>1 DEF Charged
  <2> QED BY <2>1, <2>2
<1> QED BY <1>2, <1>3

\* parse_packet leaves something in the buffers of c, and goes on with the rest of the text.
LEMMA GoOnStep ==
    ASSUME LoopInv, NEW c \in Fds, pc = "parse", player = c,
           NEW hd \in Texts, NEW d \in Texts, NEW rest \in Texts, NEW entries \in Seq(Entries),
           NEW i \in 0 .. MaxInval - 1, ShapeIs(sent[c], LastOf(entries), hd, d),
           Promised(c) => ConnIs(sent[c], LastOf(entries), hd, d, rest, wire[c], invalid_sends[c]),
           Promised(c) => i = Sends(c) \/ ~CleanSeq(sent[c]),
           go_on(c, hd, d, entries, i, rest), UNCHANGED <<leaving, arriving, tests, a2read>>
    PROVE  LoopInv'
<1>1. Counted(c, i) /\ Left(c, hd, d, entries, rest) BY DEF go_on, Left
<1>2. Charged(c) /\ (i = Sends(c) => invalid_sends'[c] = invalid_sends[c]) BY <1>1, CountedIs DEF LoopInv
<1>3. Promised(c) => ConnIs(sent[c], LastOf(entries), hd, d, rest, wire[c], invalid_sends'[c])
  <2>1. CASE i = Sends(c) BY <1>2, <2>1
  <2>2. CASE ~CleanSeq(sent[c]) BY <2>2 DEF ConnIs
  <2> QED BY <2>1, <2>2
<1> QED BY <1>1, <1>2, <1>3, LeftStep

\* ... or a return has brought another struct.
LEMMA ReturnStep ==
    ASSUME LoopInv, NEW c \in Fds, pc = "parse", player = c,
           NEW hd \in Texts, NEW d \in Texts, NEW rest \in Texts, NEW entries \in Seq(Entries),
           ShapeIs(sent[c], LastOf(entries), hd, d),
           Promised(c) => ConnIs(sent[c], LastOf(entries), hd, d, rest, wire[c], invalid_sends[c]),
           return(c, hd, d, entries, rest), UNCHANGED <<leaving, arriving, tests, a2read>>
    PROVE  LoopInv'
<1>1. CASE Left(c, hd, d, entries, rest) /\ invalid_sends' = [invalid_sends EXCEPT ![c] = 0] /\ replaced' = Sends(c)
  <2>1. invalid_sends \in [Fds -> 0 .. MaxInval - 1] /\ MaxInval \in Nat \ {0}
      BY LoopAssumption DEF LoopInv, LoopTypes
  <2>2. Sends(c) \in 0 .. MaxInval - 1 BY CountedIs DEF LoopInv
  <2>3. invalid_sends' \in [Fds -> 0 .. MaxInval - 1] BY <1>1, <2>1
  <2>4. invalid_sends'[c] = 0 /\ Charged(c) BY <1>1, <2>1, <2>2, <2>3 DEF Charged
  <2>5. Promised(c) => ConnIs(sent[c], LastOf(entries), hd, d, rest, wire[c], invalid_sends'[c])
      BY <2>4 DEF ConnIs
  <2> QED BY <1>1, <2>4, <2>5, LeftStep
<1>2. CASE contested
  <2>1. Settles
    <3>1. /\ pc' = "contested" /\ player' = c /\ replaced' = replaced
          /\ UNCHANGED <<clientVars, leaving, arriving, buffers, p_ptr>>
        BY <1>2 DEF contested, held
    <3>2. /\ replaced \in {Current} \cup 0 .. MaxInval - 1 /\ a2read' \in BOOLEAN /\ tests' \subseteq tests
          /\ \A g \in Fds : g # c => TextOf(g) = <<>>
        BY DEF LoopInv, LoopTypes, TextOf
    <3> QED BY <3>1, <3>2, ContestedStep
  <2> QED BY <2>1, SettledStep
<1> QED BY <1>1, <1>2 DEF return, Left

LEMMA goto_dcStep ==
    ASSUME LoopInv, NEW c \in Fds, pc = "parse", player = c, goto_dc(c),
           UNCHANGED <<leaving, arriving, tests, a2read>>
    PROVE  Settles /\ (Fresh(c) \/ Lost(c)) /\ \A g \in Fds : g # c => Same(g)
<1>1. /\ replaced \in {Current} \cup 0 .. MaxInval - 1 /\ a2read' \in BOOLEAN /\ tests' \subseteq tests
      /\ <<>> \in Texts /\ \A g \in Fds : g # c => TextOf(g) = <<>>
    BY CatNothing DEF LoopInv, LoopTypes, TextOf
<1>2. CASE disconnect(c, c) /\ p_ptr' = <<>> /\ pc' = "loop" /\ UNCHANGED replaced
    BY <1>1, <1>2, DisconnectStep
<1>3. CASE contested
  <2>1. /\ pc' = "contested" /\ player' = c /\ replaced' = replaced
        /\ UNCHANGED <<clientVars, leaving, arriving, buffers, p_ptr>>
      BY <1>3 DEF contested, held
  <2> QED BY <1>1, <2>1, ContestedStep
<1> QED BY <1>2, <1>3 DEF goto_dc

\* An invalid packet, of a client who is not clean, counts against him or ends his connection.
LEMMA InvDataStep ==
    ASSUME LoopInv, NEW c \in Fds, pc = "parse", player = c, Promised(c) => ~CleanSeq(sent[c]),
           NEW hd \in Texts, NEW d \in Texts, NEW rest \in Texts, NEW entries \in Seq(Entries),
           ShapeIs(sent[c], LastOf(entries), hd, d),
           inv_data(c, hd, d, entries, rest), UNCHANGED <<leaving, arriving, tests, a2read>>
    PROVE  LoopInv'
<1>1. CASE goto_dc(c) BY <1>1, goto_dcStep, SettledStep
<1>2. CASE Sends(c) + 1 < MaxInval /\ go_on(c, hd, d, entries, Sends(c) + 1, rest)
  <2>1. Sends(c) \in 0 .. MaxInval - 1 /\ MaxInval \in Nat
      BY LoopAssumption, CountedIs DEF LoopInv
  <2>2. Sends(c) + 1 \in 0 .. MaxInval - 1 BY <1>2, <2>1
  <2>3. Promised(c) => ConnIs(sent[c], LastOf(entries), hd, d, rest, wire[c], invalid_sends[c]) BY DEF ConnIs
  <2> QED BY <1>2, <2>2, <2>3, GoOnStep
<1> QED BY <1>1, <1>2 DEF inv_data

\* The packet a header belongs to, if its sender is clean: the next one.
LEMMA FoundIs ==
    ASSUME NEW c \in Fds, sent[c] \in Seq(Packets), CleanSeq(sent[c]), NEW m \in DOMAIN sent[c]
    PROVE  validate_header(c, HeaderBytes(m)) = {m}
<1>1. \A n \in DOMAIN sent[c] : n \in Nat \ {0} BY LenProperties
<1>2. \A n \in DOMAIN sent[c] : HeaderBytes(m) = HeaderBytes(n) => n = m BY <1>1, HeadersDiffer
<1>3. sent[c][m].header = "ok" BY DEF CleanSeq
<1> QED BY <1>2, <1>3 DEF validate_header

\* parse_packet, with the header h and the text t that follows it named.
LEMMA ParseCases ==
    ASSUME NEW c, parse_packet(c), NEW h, NEW t, h = Full(pheader[c], p_ptr, HeaderSize),
           t = Rest(pheader[c], p_ptr, HeaderSize)
    PROVE  \/ /\ Len(h) < HeaderSize
              /\ go_on(c, h, pdata[c], handled[c], Sends(c), <<>>)
           \/ /\ Len(h) = HeaderSize /\ validate_header(c, h) = {}
              /\ inv_data(c, h, pdata[c], handled[c], t)
           \/ \E n \in validate_header(c, h) :
                 \/ /\ Len(Full(pdata[c], t, sent[c][n].len)) < sent[c][n].len
                    /\ go_on(c, h, Full(pdata[c], t, sent[c][n].len), handled[c], Sends(c), <<>>)
                 \/ /\ Len(Full(pdata[c], t, sent[c][n].len)) = sent[c][n].len
                    /\ handle_packet(c, n, Full(pdata[c], t, sent[c][n].len), Rest(pdata[c], t, sent[c][n].len))
BY DEF parse_packet, Full, Rest

LEMMA LastOfAppend ==
    ASSUME NEW entries \in Seq(Entries), NEW e \in Entries
    PROVE  Append(entries, e) \in Seq(Entries) /\ LastOf(Append(entries, e)) = e.n
<1>1. /\ Append(entries, e) \in Seq(Entries) /\ Len(entries) \in Nat
      /\ Len(Append(entries, e)) = Len(entries) + 1 /\ Append(entries, e)[Len(entries) + 1] = e
    BY AppendProperties, LenProperties
<1>2. Append(entries, e) # <<>> BY <1>1, EmptySeq
<1>3. Last(Append(entries, e)) = e BY <1>1 DEF Last
<1> QED BY <1>1, <1>2, <1>3 DEF LastOf


\* A packet is handed over: d is its payload, rest what follows it.
LEMMA HandleStep ==
    ASSUME LoopInv, NEW c \in Fds, pc = "parse", player = c, NEW n \in DOMAIN sent[c],
           NEW d \in Texts, NEW rest \in Texts,
           Promised(c) /\ CleanSeq(sent[c]) => Cat(rest, wire[c]) = Pending(sent[c], n),
           handle_packet(c, n, d, rest), UNCHANGED <<leaving, arriving, tests, a2read>>
    PROVE  LoopInv'
<1> DEFINE e == [n |-> n, data |-> d]  entries == Append(handled[c], e)
<1>1. /\ sent[c] \in Seq(Packets) /\ handled[c] \in Seq(Entries) /\ wire[c] \in Texts
    BY DEF LoopInv, LoopTypes
<1>2. Len(sent[c]) \in Nat /\ n \in 1 .. Len(sent[c]) BY <1>1, LenProperties
<1>3. e \in Entries /\ e.n = n BY <1>2 DEF Entries
<1> HIDE DEF e
<1>4. entries \in Seq(Entries) /\ LastOf(entries) = n BY <1>1, <1>3, LastOfAppend
<1>5. n \in 0 .. Len(sent[c]) BY <1>2
<1>6. \/ sent[c][n].rval = "ok" /\ go_on(c, <<>>, <<>>, entries, Sends(c), rest)
      \/ sent[c][n].rval = "wrong" /\ (inv_data(c, <<>>, <<>>, entries, rest) \/ goto_dc(c))
      \/ sent[c][n].rval = "return" /\ return(c, <<>>, <<>>, entries, rest)
    BY DEF handle_packet, e
<1> HIDE DEF entries
<1>7. <<>> \in Texts /\ ShapeIs(sent[c], LastOf(entries), <<>>, <<>>)
  <2>1. Len(<<>>) = 0 BY EmptySeq
  <2> QED BY <1>4, <1>5, <2>1, CatNothing, LoopAssumption DEF ShapeIs
<1>8. Promised(c) => ConnIs(sent[c], LastOf(entries), <<>>, <<>>, rest, wire[c], invalid_sends[c])
  <2>1. Promised(c) /\ CleanSeq(sent[c]) => invalid_sends[c] = 0 BY DEF LoopInv, ConnOK, ConnIs
  <2>2. Cat(<<>>, Cat(<<>>, Cat(rest, wire[c]))) = Cat(rest, wire[c])
      BY <1>1, CatType, CatNothing
  <2> QED BY <1>4, <1>7, <2>1, <2>2 DEF ConnIs
<1>9. CASE go_on(c, <<>>, <<>>, entries, Sends(c), rest)
  <2>1. Sends(c) \in 0 .. MaxInval - 1 BY CountedIs DEF LoopInv
  <2> QED BY <1>4, <1>7, <1>8, <1>9, <2>1, GoOnStep
<1>10. CASE sent[c][n].rval = "wrong" /\ inv_data(c, <<>>, <<>>, entries, rest)
  <2>1. ~CleanSeq(sent[c]) BY <1>10 DEF CleanSeq
  <2> QED BY <1>4, <1>7, <1>10, <2>1, InvDataStep
<1>11. CASE goto_dc(c) BY <1>11, goto_dcStep, SettledStep
<1>12. CASE return(c, <<>>, <<>>, entries, rest) BY <1>4, <1>7, <1>8, <1>12, ReturnStep
<1> QED BY <1>6, <1>9, <1>10, <1>11, <1>12

\* The buffers are not followed, and keep their shape.
LEMMA parse_mixedLoop ==
    ASSUME LoopInv, NEW c \in Fds, pc = "parse", player = c, c \in mixed, parse_mixed(c),
           UNCHANGED <<leaving, arriving, tests, a2read>>
    PROVE  LoopInv'
<1>1. /\ pheader[c] \in Texts /\ pdata[c] \in Texts /\ handled[c] \in Seq(Entries) /\ p_ptr \in Seq(Bytes)
      /\ ShapeIs(sent[c], LastOf(handled[c]), pheader[c], pdata[c]) /\ ~Promised(c)
    BY DEF LoopInv, LoopTypes, ConnOK, Shaped, Promised, Texts
<1>2. PICK n \in 0 .. Len(p_ptr) :
         \/ go_on(c, pheader[c], pdata[c], handled[c], Sends(c), SubSeq(p_ptr, n + 1, Len(p_ptr)))
         \/ inv_data(c, pheader[c], pdata[c], handled[c], SubSeq(p_ptr, n + 1, Len(p_ptr)))
         \/ return(c, pheader[c], pdata[c], handled[c], SubSeq(p_ptr, n + 1, Len(p_ptr)))
         \/ goto_dc(c)
    BY DEF parse_mixed
<1> DEFINE rest == SubSeq(p_ptr, n + 1, Len(p_ptr))
<1>3. rest \in Texts BY <1>1, CutAt, LenProperties DEF Texts
<1>4. Sends(c) \in 0 .. MaxInval - 1 BY CountedIs DEF LoopInv
<1> HIDE DEF rest
<1>5. CASE go_on(c, pheader[c], pdata[c], handled[c], Sends(c), rest) BY <1>1, <1>3, <1>4, <1>5, GoOnStep
<1>6. CASE inv_data(c, pheader[c], pdata[c], handled[c], rest) BY <1>1, <1>3, <1>6, InvDataStep
<1>7. CASE return(c, pheader[c], pdata[c], handled[c], rest) BY <1>1, <1>3, <1>7, ReturnStep
<1>8. CASE goto_dc(c) BY <1>8, goto_dcStep, SettledStep
<1> QED BY <1>2, <1>5, <1>6, <1>7, <1>8 DEF rest

LEMMA parse_packetLoop ==
    ASSUME LoopInv, NEW c \in Fds, pc = "parse", player = c, parse_packet(c),
           UNCHANGED <<leaving, arriving, tests, a2read>>
    PROVE  LoopInv'
<1> DEFINE s == sent[c]  m == LastOf(handled[c])  hd == pheader[c]  d == pdata[c]  w == wire[c]
           h == Full(hd, p_ptr, HeaderSize)  t == Rest(hd, p_ptr, HeaderSize)
<1>1. Sends(c) \in 0 .. MaxInval - 1 BY CountedIs DEF LoopInv
<1>2. /\ s \in Seq(Packets) /\ hd \in Texts /\ d \in Texts /\ w \in Texts /\ p_ptr \in Texts
      /\ handled[c] \in Seq(Entries)
    BY DEF LoopInv, LoopTypes
<1>3. TextOf(c) = p_ptr BY DEF TextOf
<1>4. /\ m \in 0 .. Len(s) /\ Len(hd) <= HeaderSize /\ (Len(hd) < HeaderSize => d = <<>>)
      /\ ShapeIs(s, m, hd, d)
      /\ Promised(c) => ConnIs(s, m, hd, d, p_ptr, w, invalid_sends[c])
      /\ Promised(c) /\ CleanSeq(s) => invalid_sends[c] = 0 /\ Cat(hd, Cat(d, Cat(p_ptr, w))) = Pending(s, m)
    BY <1>3 DEF LoopInv, ConnOK, ConnIs, Shaped, ShapeIs
<1>5. /\ h \in Texts /\ t \in Texts /\ Len(h) <= HeaderSize
      /\ Cat(hd, Cat(d, Cat(p_ptr, w))) = Cat(h, Cat(d, Cat(t, w)))
      /\ Len(h) < HeaderSize => t = <<>> /\ d = <<>>
    BY <1>2, <1>4, HeaderTaken
<1>6. HeaderSize \in Nat /\ Len(h) \in Nat /\ Len(s) \in Nat BY <1>2, <1>5, LenProperties, LoopAssumption DEF Texts
<1>7. ASSUME Promised(c), CleanSeq(s), Len(h) = HeaderSize
      PROVE  /\ m + 1 \in DOMAIN s /\ m + 1 \in 0 .. Len(s) /\ m + 1 \in Nat \ {0} /\ s[m + 1] \in Packets
             /\ h = HeaderBytes(m + 1) /\ validate_header(c, h) = {m + 1}
             /\ Cat(d, Cat(t, w)) = Cat(PayloadBytes(m + 1, s[m + 1]), Pending(s, m + 1))
  <2>1. Cat(h, Cat(d, Cat(t, w))) = Pending(s, m) BY <1>4, <1>5, <1>7
  <2> HIDE DEF h, t, m
  <2>2. /\ m + 1 \in DOMAIN s /\ m + 1 \in 0 .. Len(s) /\ m + 1 \in Nat \ {0} /\ s[m + 1] \in Packets
        /\ h = HeaderBytes(m + 1)
        /\ Cat(d, Cat(t, w)) = Cat(PayloadBytes(m + 1, s[m + 1]), Pending(s, m + 1))
      BY <1>2, <1>4, <1>5, <1>7, <2>1, HeaderParsed
  <2>3. validate_header(c, HeaderBytes(m + 1)) = {m + 1} BY <1>1, <1>2, <1>7, <2>2, FoundIs
  <2> QED BY <2>2, <2>3
<1>8. CASE Len(h) < HeaderSize /\ go_on(c, h, d, handled[c], Sends(c), <<>>)
  <2>1. ShapeIs(s, m, h, d) BY <1>4, <1>5 DEF ShapeIs
  <2>2. Promised(c) => ConnIs(s, m, h, d, <<>>, w, invalid_sends[c]) BY <1>4, <1>5, <1>8, <2>1 DEF ConnIs
  <2> HIDE DEF h
  <2> QED BY <1>1, <1>2, <1>5, <1>8, <2>1, <2>2, CatNothing, GoOnStep
<1>9. CASE Len(h) = HeaderSize /\ validate_header(c, h) = {} /\ inv_data(c, h, d, handled[c], t)
  <2>1. Promised(c) => ~CleanSeq(s) BY <1>7, <1>9
  <2>2. ShapeIs(s, m, h, d) BY <1>4, <1>5 DEF ShapeIs
  <2> HIDE DEF h, t
  <2> QED BY <1>2, <1>4, <1>5, <1>6, <1>9, <2>1, <2>2, InvDataStep
<1>10. ASSUME NEW n \in validate_header(c, h),
             \/ /\ Len(Full(d, t, s[n].len)) < s[n].len
                /\ go_on(c, h, Full(d, t, s[n].len), handled[c], Sends(c), <<>>)
             \/ /\ Len(Full(d, t, s[n].len)) = s[n].len
                /\ handle_packet(c, n, Full(d, t, s[n].len), Rest(d, t, s[n].len))
      PROVE  LoopInv'
  <2> DEFINE size == s[n].len  u == Full(d, t, size)  v == Rest(d, t, size)
  <2>1. n \in DOMAIN s /\ h = HeaderBytes(n) BY <1>10 DEF validate_header
  <2>2. n \in Nat \ {0} /\ s[n] \in Packets BY <1>2, <2>1, LenProperties, ElementOfSeq
  <2>3. Len(h) = HeaderSize BY <2>1, <2>2, HeaderType
  <2>4. size \in Nat BY <2>2, LoopAssumption
  <2>5. Len(u) <= size BY <1>10, <2>4
  <2>6. Len(d) <= size BY <1>2, <1>5, <2>4, <2>5, TextFits
  <2>7. u \in Texts /\ v \in Texts /\ (Len(u) < size => v = <<>>) BY <1>2, <1>5, <2>4, <2>6, TakeText
  <2>8. ASSUME Promised(c), CleanSeq(s)
        PROVE  /\ n = m + 1
               /\ Len(u) < size => Cat(h, Cat(u, w)) = Pending(s, m)
               /\ Len(u) = size => Cat(v, w) = Pending(s, n)
    <3>1. /\ n = m + 1 /\ m + 1 \in 0 .. Len(s) /\ m + 1 \in Nat \ {0} /\ s[m + 1] \in Packets
          /\ Cat(d, Cat(t, w)) = Cat(PayloadBytes(m + 1, s[m + 1]), Pending(s, m + 1))
        BY <1>7, <1>10, <2>3, <2>8
    <3>2. /\ Len(u) < size => Cat(d, Cat(t, w)) = Cat(u, w)
          /\ Len(u) = size => Cat(v, w) = Pending(s, n)
      <4> HIDE DEF h, t, m
      <4> QED BY <1>2, <1>4, <1>5, <2>5, <2>8, <3>1, PayloadParsed
    <3>3. Cat(h, Cat(d, Cat(t, w))) = Pending(s, m) BY <1>4, <1>5, <2>8
    <3> QED BY <3>1, <3>2, <3>3
  <2>9. CASE Len(u) < size /\ go_on(c, h, u, handled[c], Sends(c), <<>>)
    <3>1. Cat(<<>>, w) = w /\ <<>> \in Texts BY <1>2, CatNothing
    <3>2. ShapeIs(s, m, h, u)
      <4>1. ~(Len(h) < HeaderSize) BY <1>6, <2>3
      <4> HIDE DEF h, u, m
      <4> QED BY <1>4, <1>5, <4>1 DEF ShapeIs
    <3>3. Promised(c) => ConnIs(s, m, h, u, <<>>, w, invalid_sends[c])
      <4>2. Promised(c) /\ CleanSeq(s) => Cat(h, Cat(u, Cat(<<>>, w))) = Pending(s, m) BY <2>8, <2>9, <3>1
      <4> HIDE DEF h, u, m
      <4> QED BY <1>4, <1>5, <3>2, <4>2 DEF ConnIs
    <3> HIDE DEF h, u
    <3> QED BY <1>1, <1>2, <1>5, <2>7, <2>9, <3>1, <3>2, <3>3, GoOnStep
  <2>10. CASE Len(u) = size /\ handle_packet(c, n, u, v)
    <3>1. Promised(c) /\ CleanSeq(s) => Cat(v, w) = Pending(s, n) BY <2>8, <2>10
    <3> HIDE DEF u, v
    <3> QED BY <1>1, <2>1, <2>7, <2>10, <3>1, HandleStep
  <2> QED BY <1>10, <2>9, <2>10
<1> QED BY <1>1, <1>8, <1>9, <1>10, ParseCases

LEMMA parseLoop == ASSUME LoopInv, parse PROVE LoopInv'
<1>0. PICK c : c = player OBVIOUS
<1>1. /\ c \in Fds /\ player = c /\ pc = "parse" /\ UNCHANGED <<leaving, arriving, tests, a2read>>
      /\ (parse_packet(c) \/ (c \in mixed /\ parse_mixed(c)))
    BY <1>0 DEF parse
<1> QED BY <1>1, parse_packetLoop, parse_mixedLoop

---------------------------------------------------------------------------
\* A step settles what becomes of the connections, or takes one of them further.

LEMMA NextIs ==
    ASSUME LoopInv, [Next]_vars
    PROVE  \/ Settles \/ parse
           \/ \E f \in Fds : (\E p \in Packets : send(f, p)) \/ (LoopTypes' /\ Reads(f))
<1>1. CASE connect BY <1>1, connectSettles
<1>2. ASSUME NEW f \in Fds, hang_up(f) PROVE Settles BY <1>2, hang_upSettles
<1>3. ASSUME NEW f \in Fds, keepalive_timeout(f) PROVE Settles BY <1>3, keepalive_timeoutSettles
<1>4. ASSUME NEW f \in Fds, leave(f) PROVE Settles
    BY <1>4, unregisterSettles, storeSettles, close_socketSettles DEF leave
<1>5. CASE copy BY <1>5, copySettles
<1>6. CASE select BY <1>6, selectSettles
<1>7. CASE select_returns BY <1>7, select_returnsSettles
<1>8. CASE handle_new_client BY <1>8, handle_new_clientSettles
<1>9. ASSUME NEW f \in Fds, no_player(f) PROVE Settles BY <1>9, no_playerSettles
<1>10. ASSUME NEW f \in Fds, client_gone(f) PROVE Settles BY <1>10, client_goneSettles
<1>11. ASSUME NEW f \in Fds, recv(f) PROVE Settles \/ (LoopTypes' /\ Reads(f)) BY <1>11, recvIs
<1>12. CASE parse_gone BY <1>12, parse_goneSettles
<1>13. CASE UNCHANGED vars BY <1>13, stutterSettles
<1> QED BY <1>1, <1>2, <1>3, <1>4, <1>5, <1>6, <1>7, <1>8, <1>9, <1>10, <1>11, <1>12, <1>13 DEF Next, Loop

LEMMA NextLoop == LoopInv /\ [Next]_vars => LoopInv'
<1> SUFFICES ASSUME LoopInv, [Next]_vars PROVE LoopInv' OBVIOUS
<1> QED BY NextIs, SettledStep, parseLoop, sendLoop, ReadsLoop

\* The invariant holds throughout.
LEMMA LoopInvariant == Spec => []LoopInv
BY InitLoop, NextLoop, PTL DEF Spec

LEMMA BoundedIs ==
    ASSUME NEW s \in Seq(Packets), NEW n \in Nat, Len(s) <= n
    PROVE  s \in BoundedSeq(Packets, n)
<1>1. Len(s) \in 0 .. n /\ s \in [1 .. Len(s) -> Packets] BY LenProperties
<1>2. \E m \in 0 .. n : s \in [1 .. m -> Packets] BY <1>1
<1>3. s \in UNION {[1 .. m -> Packets] : m \in 0 .. n} BY <1>2
<1> QED BY <1>3 DEF BoundedSeq, SeqOf

LEMMA InvTypes == LoopInv => TypeOK
<1> SUFFICES ASSUME LoopInv PROVE TypeOK OBVIOUS
<1>1. MaxSends \in Nat BY LoopAssumption
<1>2. ASSUME NEW f \in Fds PROVE sent[f] \in BoundedSeq(Packets, MaxSends) /\ Len(pheader[f]) <= HeaderSize
  <2>1. /\ sent[f] \in Seq(Packets) /\ sends \in 0 .. MaxSends /\ Len(sent[f]) <= sends
        /\ Len(pheader[f]) <= HeaderSize
      BY DEF LoopInv, LoopTypes, ConnOK, Shaped, ShapeIs
  <2>2. Len(sent[f]) \in Nat BY <2>1, LenProperties
  <2>3. Len(sent[f]) <= MaxSends BY <1>1, <2>1, <2>2
  <2> QED BY <1>1, <2>1, <2>3, BoundedIs
<1>3. sent \in [Fds -> BoundedSeq(Packets, MaxSends)]
  <2>1. sent = [f \in Fds |-> sent[f]] BY DEF LoopInv, LoopTypes
  <2> QED BY <1>2, <2>1
<1>4. DOMAIN wire = Fds /\ DOMAIN handled = Fds /\ DOMAIN pdata = Fds /\ DOMAIN pheader = Fds
    BY DEF LoopInv, LoopTypes
<1>5. /\ socket \in [Fds -> {"free", "open", "hungup"}] /\ invalid_sends \in [Fds -> 0 .. MaxInval - 1]
      /\ sends \in 0 .. MaxSends /\ arrived \in 0 .. MaxConns /\ backlog \in 0 .. arrived
      /\ tests \subseteq Fds \cup {Listener} /\ player \in Fds \cup {NoPlayer, Gone}
      /\ leaving \in [Fds -> {"no", "freed", "unregistered", "away"}] /\ mixed \subseteq Fds
      /\ replaced \in {Current} \cup 0 .. MaxInval - 1 /\ a2read \in BOOLEAN
      /\ pc \in {"copied", "select", "loop", "parse", "ended", "segv", "contested"}
    BY DEF LoopInv, LoopTypes, Places, Stages
<1> QED BY <1>2, <1>3, <1>4, <1>5 DEF TypeOK

LEMMA InvNothingLost == LoopInv => NothingLost
<1> SUFFICES ASSUME LoopInv, NEW f \in Fds, Clean(f), Promised(f)
             PROVE  pheader[f] \o pdata[f] \o TextOf(f) \o wire[f] = Pending(sent[f], LastHandled(f))
    BY DEF NothingLost, TextOf, Pending, Frames
<1>1. LastHandled(f) = LastOf(handled[f]) BY DEF LastHandled, LastOf
<1>2. Cat(pheader[f], Cat(pdata[f], Cat(TextOf(f), wire[f]))) = Pending(sent[f], LastHandled(f))
    BY <1>1 DEF LoopInv, ConnOK, ConnIs, Clean, CleanSeq
<1>3. /\ pheader[f] \in Seq(Bytes) /\ pdata[f] \in Seq(Bytes) /\ wire[f] \in Seq(Bytes)
      /\ TextOf(f) \in Seq(Bytes)
    BY TextIsText DEF LoopInv, LoopTypes, Texts
<1>4. pheader[f] \o pdata[f] \o TextOf(f) \o wire[f]
         = Cat(pheader[f], Cat(pdata[f], Cat(TextOf(f), wire[f])))
  <2>1. pheader[f] \in Texts /\ pdata[f] \in Texts /\ TextOf(f) \in Texts /\ wire[f] \in Texts
      BY <1>3 DEF Texts
  <2>2. Cat(pheader[f], pdata[f]) \in Texts /\ Cat(TextOf(f), wire[f]) \in Texts
      BY <2>1, CatType
  <2>3. Cat(Cat(Cat(pheader[f], pdata[f]), TextOf(f)), wire[f])
           = Cat(pheader[f], Cat(pdata[f], Cat(TextOf(f), wire[f])))
      BY <2>1, <2>2, CatAssociates
  <2> QED BY <2>3 DEF Cat
<1> QED BY <1>2, <1>4

LEMMA InvInnocent == LoopInv => InnocentNotCharged
BY DEF LoopInv, ConnOK, ConnIs, InnocentNotCharged, Clean, CleanSeq

\* Every variable of the loop keeps its type: a header buffer never holds more than a header,
\* and a connected player has sent fewer invalid packets than the limit.
THEOREM LoopTypeCorrect == Spec => []TypeOK
BY LoopInvariant, InvTypes, PTL

\* However the network cuts a clean stream up, no byte of it is lost, doubled or out of order:
\* not of a client whose own disconnect has not begun and into whose buffers no bytes of another
\* have got, by way of a descriptor freed too early or of a player looked up in vain.
THEOREM NothingLostCorrect == Spec => []NothingLost
BY LoopInvariant, InvNothingLost, PTL

\* Such a client, if clean, is never charged with an invalid packet: neither with what those
\* before him on the descriptor have sent, nor with what a struct he has left behind was.
THEOREM InnocentCorrect == Spec => []InnocentNotCharged
BY LoopInvariant, InvInnocent, PTL

---------------------------------------------------------------------------
\* Streams that are not clean.

LEMMA CatLength ==
    ASSUME NEW a \in Texts, NEW b \in Texts
    PROVE  /\ Len(a) \in Nat /\ Len(b) \in Nat /\ Len(Cat(a, b)) = Len(a) + Len(b)
           /\ \A i \in 1 .. Len(a) : Cat(a, b)[i] = a[i]
           /\ \A i \in 1 .. Len(b) : Cat(a, b)[Len(a) + i] = b[i]
<1>1. Len(a) \in Nat /\ Len(b) \in Nat /\ Len(a \o b) = Len(a) + Len(b)
    BY LenProperties, ConcatProperties DEF Texts
<1>2. \A i \in 1 .. Len(a) + Len(b) : (a \o b)[i] = IF i <= Len(a) THEN a[i] ELSE b[i - Len(a)]
    BY ConcatProperties DEF Texts
<1>3. \A i \in 1 .. Len(b) : Len(a) + i \in 1 .. Len(a) + Len(b) /\ ~(Len(a) + i <= Len(a)) /\ (Len(a) + i) - Len(a) = i
    BY <1>1
<1> QED BY <1>1, <1>2, <1>3 DEF Cat

LEMMA CatOfThree ==
    ASSUME NEW a \in Texts, NEW b \in Texts, NEW c \in Texts
    PROVE  /\ Len(a) \in Nat /\ Len(b) \in Nat /\ Len(c) \in Nat
           /\ Len(Cat(a, Cat(b, c))) = Len(a) + Len(b) + Len(c)
           /\ \A x \in 1 .. Len(a) : Cat(a, Cat(b, c))[x] = a[x]
           /\ \A x \in 1 .. Len(b) : Cat(a, Cat(b, c))[Len(a) + x] = b[x]
           /\ \A x \in 1 .. Len(c) : Cat(a, Cat(b, c))[Len(a) + (Len(b) + x)] = c[x]
<1> DEFINE y == Cat(b, c)  z == Cat(a, y)
<1>1. /\ Len(b) \in Nat /\ Len(c) \in Nat /\ y \in Texts /\ Len(y) = Len(b) + Len(c)
      /\ \A x \in 1 .. Len(b) : y[x] = b[x]
      /\ \A x \in 1 .. Len(c) : y[Len(b) + x] = c[x]
    BY CatLength, CatType
<1> HIDE DEF y
<1>2. /\ Len(a) \in Nat /\ Len(z) = Len(a) + Len(y)
      /\ \A x \in 1 .. Len(a) : z[x] = a[x]
      /\ \A x \in 1 .. Len(y) : z[Len(a) + x] = y[x]
    BY <1>1, CatLength
<1> HIDE DEF z
<1>3. \A x \in 1 .. Len(b) : x \in 1 .. Len(y) BY <1>1
<1>4. \A x \in 1 .. Len(c) : Len(b) + x \in 1 .. Len(y) BY <1>1
<1>5. \A x \in 1 .. Len(b) : z[Len(a) + x] = b[x] BY <1>1, <1>2, <1>3
<1>6. \A x \in 1 .. Len(c) : z[Len(a) + (Len(b) + x)] = c[x] BY <1>1, <1>2, <1>4
<1>7. Len(z) = Len(a) + Len(b) + Len(c) BY <1>1, <1>2
<1> QED BY <1>1, <1>2, <1>5, <1>6, <1>7 DEF z, y

LEMMA EmptyText == \A a \in Texts : Len(a) \in Nat /\ (Len(a) = 0 <=> a = <<>>)
BY EmptySeq, LenProperties DEF Texts

LEMMA LineEndText == <<LineEnd>> \in Texts /\ Len(<<LineEnd>>) = 1 /\ <<LineEnd>>[1] = LineEnd
BY LineEndIsNone, Single DEF Texts

LEMMA CatFirst ==
    ASSUME NEW a \in Texts, NEW b \in Texts, a # <<>>
    PROVE  Cat(a, b) # <<>> /\ Cat(a, b)[1] = a[1]
<1>1. Len(a) \in Nat \ {0} BY EmptyText
<1>2. Len(Cat(a, b)) # 0 /\ Cat(a, b)[1] = a[1] BY <1>1, CatLength
<1> QED BY <1>2, EmptyText, CatType

LEMMA CatNext ==
    ASSUME NEW a \in Texts, NEW b \in Texts, b # <<>>
    PROVE  Len(a) + 1 \in 1 .. Len(Cat(a, b)) /\ Cat(a, b)[Len(a) + 1] = b[1]
<1>1. Len(b) \in Nat \ {0} /\ 1 \in 1 .. Len(b) BY EmptyText
<1> QED BY <1>1, CatLength

\* The longer of two beginnings of a text begins with the shorter.
LEMMA CutPrefix ==
    ASSUME NEW a \in Texts, NEW b \in Texts, NEW c \in Texts, NEW d \in Texts,
           Cat(a, b) = Cat(c, d), Len(c) <= Len(a)
    PROVE  \E y \in Texts : a = Cat(c, y) /\ Cat(y, b) = d
<1> DEFINE u == SubSeq(a, 1, Len(c))  y == SubSeq(a, Len(c) + 1, Len(a))
<1>1. Len(a) \in Nat /\ Len(c) \in Nat /\ Len(c) \in 0 .. Len(a) BY CatLength
<1>2. u \in Texts /\ y \in Texts /\ Len(u) = Len(c) /\ Cat(u, y) = a BY <1>1, CutAt DEF Texts, Cat
<1> HIDE DEF u, y
<1>3. Cat(y, b) \in Texts BY <1>2, CatType
<1>4. Cat(u, Cat(y, b)) = Cat(c, d) BY <1>2, CatAssociates
<1>5. u = c /\ Cat(y, b) = d BY <1>2, <1>3, <1>4, CatCut
<1> QED BY <1>2, <1>5

\* The line end that a client may put behind a packet.
Ending(p) == IF p.line THEN <<LineEnd>> ELSE <<>>

LEMMA FrameParts ==
    ASSUME NEW n \in Nat \ {0}, NEW p \in Packets
    PROVE  /\ HeaderBytes(n) \in Texts /\ PayloadBytes(n, p) \in Texts /\ Ending(p) \in Texts
           /\ Len(HeaderBytes(n)) = HeaderSize /\ Len(PayloadBytes(n, p)) = p.len /\ p.len \in Nat
           /\ Len(Ending(p)) = IF p.line THEN 1 ELSE 0
           /\ Frame(n, p) = Cat(HeaderBytes(n), Cat(PayloadBytes(n, p), Ending(p)))
<1> DEFINE h == HeaderBytes(n)  d == PayloadBytes(n, p)  e == Ending(p)
<1>1. h \in Texts /\ d \in Texts /\ Len(h) = HeaderSize /\ Len(d) = p.len BY PacketTexts
<1>2. e \in Texts /\ Len(e) = IF p.line THEN 1 ELSE 0 BY LineEndText, CatNothing, EmptyText DEF Ending
<1>3. p.len \in Nat BY LoopAssumption
<1>4. Frame(n, p) = Cat(Cat(h, d), e) BY DEF Frame, Ending, Cat
<1> HIDE DEF h, d, e
<1>5. Frame(n, p) = Cat(h, Cat(d, e)) BY <1>1, <1>2, <1>4, CatAssociates
<1> QED BY <1>1, <1>2, <1>3, <1>5 DEF h, d, e

\* The i-th byte of a frame says so, unless it is the line end.
LEMMA FrameByte ==
    ASSUME NEW n \in Nat \ {0}, NEW p \in Packets, NEW i \in 1 .. Len(Frame(n, p))
    PROVE  IF i <= HeaderSize + p.len THEN Frame(n, p)[i] = Byte(n, i) ELSE Frame(n, p)[i] = LineEnd
<1> DEFINE h == HeaderBytes(n)  d == PayloadBytes(n, p)  e == Ending(p)  f == Frame(n, p)
<1>1. /\ h \in Texts /\ d \in Texts /\ e \in Texts /\ Len(h) = HeaderSize /\ Len(d) = p.len
      /\ p.len \in Nat /\ Len(e) = (IF p.line THEN 1 ELSE 0) /\ f = Cat(h, Cat(d, e)) /\ HeaderSize \in Nat
    BY FrameParts, LoopAssumption
<1>2. \A j \in 1 .. HeaderSize : h[j] = Byte(n, j) BY HeaderType
<1>3. \A j \in 1 .. p.len : d[j] = Byte(n, HeaderSize + j) BY PayloadType
<1>4. p.line => e[1] = LineEnd BY LineEndText DEF Ending
<1>5. i \in 1 .. Len(f) OBVIOUS
<1> HIDE DEF h, d, e, f
<1>6. /\ Len(f) = HeaderSize + p.len + Len(e)
      /\ \A j \in 1 .. HeaderSize : f[j] = h[j]
      /\ \A j \in 1 .. p.len : f[HeaderSize + j] = d[j]
      /\ \A j \in 1 .. Len(e) : f[HeaderSize + (p.len + j)] = e[j]
  <2>1. /\ Len(f) = Len(h) + Len(d) + Len(e)
        /\ \A j \in 1 .. Len(h) : f[j] = h[j]
        /\ \A j \in 1 .. Len(d) : f[Len(h) + j] = d[j]
        /\ \A j \in 1 .. Len(e) : f[Len(h) + (Len(d) + j)] = e[j]
    <3>1. h \in Texts /\ d \in Texts /\ e \in Texts /\ f = Cat(h, Cat(d, e)) BY <1>1
    <3>2. Len(f) = Len(h) + Len(d) + Len(e) BY ONLY <3>1, CatOfThree
    <3>3. \A j \in 1 .. Len(h) : f[j] = h[j] BY ONLY <3>1, CatOfThree
    <3>4. \A j \in 1 .. Len(d) : f[Len(h) + j] = d[j] BY ONLY <3>1, CatOfThree
    <3>5. \A j \in 1 .. Len(e) : f[Len(h) + (Len(d) + j)] = e[j] BY ONLY <3>1, CatOfThree
    <3> QED BY ONLY <3>2, <3>3, <3>4, <3>5
  <2>2. Len(h) = HeaderSize /\ Len(d) = p.len BY <1>1
  <2> QED BY ONLY <2>1, <2>2
<1>7. CASE i <= HeaderSize
  <2>1. i \in 1 .. HeaderSize /\ i <= HeaderSize + p.len BY <1>1, <1>5, <1>6, <1>7
  <2> QED BY <1>2, <1>6, <2>1 DEF f
<1>8. CASE ~(i <= HeaderSize) /\ i <= HeaderSize + p.len
  <2>1. i - HeaderSize \in 1 .. p.len /\ HeaderSize + (i - HeaderSize) = i BY <1>1, <1>5, <1>6, <1>8
  <2>2. f[i] = d[i - HeaderSize] BY <1>6, <2>1
  <2> QED BY <1>3, <1>8, <2>1, <2>2 DEF f
<1>9. CASE ~(i <= HeaderSize + p.len)
  <2>1. p.line /\ i = HeaderSize + (p.len + 1) /\ Len(e) = 1 BY <1>1, <1>5, <1>6, <1>9
  <2>2. f[i] = e[1] BY <1>6, <2>1
  <2> QED BY <1>4, <1>9, <2>1, <2>2 DEF f
<1> QED BY <1>1, <1>5, <1>7, <1>8, <1>9

LEMMA PendingParts ==
    ASSUME NEW s \in Seq(Packets), NEW m \in 0 .. Len(s), m < Len(s)
    PROVE  /\ m + 1 \in Nat \ {0} /\ m + 1 \in DOMAIN s /\ m + 1 \in 0 .. Len(s) /\ s[m + 1] \in Packets
           /\ Pending(s, m + 1) \in Texts
           /\ Pending(s, m) = Cat(Frame(m + 1, s[m + 1]), Pending(s, m + 1))
           /\ Pending(s, m) = Cat(HeaderBytes(m + 1),
                                  Cat(PayloadBytes(m + 1, s[m + 1]), Cat(Ending(s[m + 1]), Pending(s, m + 1))))
<1>1. Len(s) \in Nat /\ DOMAIN s = 1 .. Len(s) BY LenProperties
<1>2. m + 1 \in Nat \ {0} /\ m + 1 \in DOMAIN s /\ m + 1 \in 0 .. Len(s) /\ m \in 0 .. Len(s) - 1
    BY <1>1
<1>3. s[m + 1] \in Packets BY <1>1, <1>2, ElementOfSeq
<1> DEFINE H == HeaderBytes(m + 1)  P == PayloadBytes(m + 1, s[m + 1])  E == Ending(s[m + 1])
           R == Pending(s, m + 1)
<1>4. Pending(s, m) = Cat(Frame(m + 1, s[m + 1]), R) BY <1>2, PendingHead DEF Cat
<1>5. Frame(m + 1, s[m + 1]) = Cat(H, Cat(P, E)) /\ H \in Texts /\ P \in Texts /\ E \in Texts
    BY <1>2, <1>3, FrameParts
<1>6. R \in Texts BY <1>2, PendingText
<1> HIDE DEF H, P, E, R
<1>7. Cat(P, E) \in Texts BY <1>5, CatType
<1>8. Pending(s, m) = Cat(H, Cat(Cat(P, E), R)) BY <1>4, <1>5, <1>6, <1>7, CatAssociates
<1>9. Cat(Cat(P, E), R) = Cat(P, Cat(E, R)) BY <1>5, <1>6, CatAssociates
<1> QED BY <1>2, <1>3, <1>4, <1>6, <1>8, <1>9 DEF H, P, E, R

\* What is pending begins with the header and the payload of the next packet.
LEMMA PendingBytes ==
    ASSUME NEW s \in Seq(Packets), NEW m \in 0 .. Len(s), m < Len(s)
    PROVE  \A i \in 1 .. HeaderSize + s[m + 1].len :
              i \in 1 .. Len(Pending(s, m)) /\ Pending(s, m)[i] = Byte(m + 1, i)
<1> DEFINE F == Frame(m + 1, s[m + 1])  R == Pending(s, m + 1)  size == HeaderSize + s[m + 1].len
<1>1. m + 1 \in Nat \ {0} /\ s[m + 1] \in Packets /\ R \in Texts /\ Pending(s, m) = Cat(F, R) BY PendingParts
<1>2. F \in Texts BY <1>1, PacketTexts
<1>3. Len(F) \in Nat /\ size \in Nat /\ size <= Len(F)
  <2> DEFINE h == HeaderBytes(m + 1)  d == PayloadBytes(m + 1, s[m + 1])  e == Ending(s[m + 1])
  <2>1. /\ h \in Texts /\ d \in Texts /\ e \in Texts /\ Len(h) = HeaderSize /\ Len(d) = s[m + 1].len
        /\ s[m + 1].len \in Nat /\ F = Cat(h, Cat(d, e)) /\ HeaderSize \in Nat /\ Len(e) \in Nat
      BY <1>1, FrameParts, LoopAssumption, EmptyText
  <2> HIDE DEF h, d, e, F
  <2>2. Len(F) = Len(h) + Len(d) + Len(e) BY ONLY <2>1, CatOfThree
  <2>3. Len(F) = HeaderSize + s[m + 1].len + Len(e) BY ONLY <2>1, <2>2
  <2> QED BY <2>1, <2>3
<1>4. \A i \in 1 .. size : i \in 1 .. Len(F) /\ F[i] = Byte(m + 1, i)
  <2>1. \A i \in 1 .. size : i \in 1 .. Len(F) /\ i <= size BY <1>3
  <2> QED BY <1>1, <2>1, FrameByte
<1> HIDE DEF F, R, size
<1>5. \A i \in 1 .. Len(F) : i \in 1 .. Len(Cat(F, R)) /\ Cat(F, R)[i] = F[i] BY <1>1, <1>2, CatLength
<1> QED BY <1>1, <1>4, <1>5 DEF size

\* An end of a stream begins within a packet, or is what is pending from some packet on.
Ends(w, s, m) == w[1].i # 1 \/ \E k \in m .. Len(s) : w = Pending(s, k)

LEMMA EndBegins ==
    ASSUME NEW s \in Seq(Packets), NEW m \in 0 .. Len(s), m < Len(s),
           NEW y \in Texts, NEW w \in Texts, w # <<>>, Cat(y, w) = Pending(s, m),
           Len(y) < Len(Frame(m + 1, s[m + 1]))
    PROVE  Ends(w, s, m)
<1> DEFINE F == Frame(m + 1, s[m + 1])  R == Pending(s, m + 1)
<1>1. m + 1 \in Nat \ {0} /\ s[m + 1] \in Packets /\ R \in Texts /\ Pending(s, m) = Cat(F, R) BY PendingParts
<1>2. F \in Texts BY <1>1, PacketTexts
<1>3. Len(y) \in Nat /\ Len(F) \in Nat /\ Len(y) < Len(F) BY <1>2, EmptyText
<1>4. CASE Len(y) = 0
  <2>1. y = <<>> BY <1>4, EmptyText
  <2>2. w = Pending(s, m) BY <2>1, CatNothing
  <2>3. m \in m .. Len(s) BY LenProperties
  <2> QED BY <2>2, <2>3 DEF Ends
<1>5. CASE Len(y) # 0
  <2>1. Len(y) + 1 \in 1 .. Len(F) /\ Len(y) + 1 # 1 BY <1>3, <1>5
  <2>2. F[Len(y) + 1] = Byte(m + 1, Len(y) + 1) \/ F[Len(y) + 1] = LineEnd BY <1>1, <2>1, FrameByte
  <2>3. F[Len(y) + 1].i # 1 BY <2>1, <2>2 DEF Byte, LineEnd
  <2> HIDE DEF F, R
  <2>4. Cat(F, R)[Len(y) + 1] = F[Len(y) + 1] BY <1>1, <1>2, <2>1, CatLength
  <2>5. Cat(y, w)[Len(y) + 1] = w[1] BY CatNext
  <2> QED BY <1>1, <2>3, <2>4, <2>5 DEF Ends
<1> QED BY <1>4, <1>5

LEMMA EndsEarlier ==
    ASSUME NEW w, NEW s \in Seq(Packets), NEW m \in 0 .. Len(s), Ends(w, s, m + 1)
    PROVE  Ends(w, s, m)
<1>1. \A k \in m + 1 .. Len(s) : k \in m .. Len(s) BY LenProperties
<1> QED BY <1>1 DEF Ends

LEMMA EndsAre ==
    ASSUME NEW s \in Seq(Packets), NEW w \in Texts, w # <<>>
    PROVE  \A m \in 0 .. Len(s) : \A y \in Texts : Cat(y, w) = Pending(s, m) => Ends(w, s, m)
<1> DEFINE Good(m) == \A y \in Texts : Cat(y, w) = Pending(s, m) => Ends(w, s, m)
           T == {i \in Nat : i <= Len(s) => Good(Len(s) - i)}
<1>1. Len(s) \in Nat BY LenProperties
<1>2. Good(Len(s))
  <2> SUFFICES ASSUME NEW y \in Texts, Cat(y, w) = Pending(s, Len(s)) PROVE FALSE OBVIOUS
  <2>1. Cat(y, w) = <<>> BY PendingNone
  <2>2. Len(w) \in Nat \ {0} /\ Len(y) \in Nat BY EmptyText
  <2>3. Len(Cat(y, w)) # 0 BY <2>2, CatLength
  <2> QED BY <2>1, <2>3, EmptyText, CatType
<1>3. ASSUME NEW m \in 0 .. Len(s), m < Len(s), Good(m + 1) PROVE Good(m)
  <2> SUFFICES ASSUME NEW y \in Texts, Cat(y, w) = Pending(s, m) PROVE Ends(w, s, m) OBVIOUS
  <2> DEFINE F == Frame(m + 1, s[m + 1])  R == Pending(s, m + 1)
  <2>1. m + 1 \in Nat \ {0} /\ s[m + 1] \in Packets /\ R \in Texts /\ Pending(s, m) = Cat(F, R)
      BY <1>3, PendingParts
  <2>2. F \in Texts BY <2>1, PacketTexts
  <2>3. CASE Len(y) < Len(F) BY <1>3, <2>3, EndBegins
  <2>4. CASE Len(F) <= Len(y)
    <3>1. \E z \in Texts : y = Cat(F, z) /\ Cat(z, w) = R
      <4> HIDE DEF F, R
      <4> QED BY <2>1, <2>2, <2>4, CutPrefix
    <3>2. Ends(w, s, m + 1) BY <1>3, <3>1
    <3> QED BY <3>2, EndsEarlier
  <2>5. Len(y) \in Nat /\ Len(F) \in Nat BY <2>2, EmptyText
  <2> QED BY <2>3, <2>4, <2>5
<1> HIDE DEF Good
<1>4. 0 \in T BY <1>1, <1>2
<1>5. ASSUME NEW i \in Nat, i \in T PROVE i + 1 \in T
  <2> SUFFICES ASSUME i + 1 <= Len(s) PROVE Good(Len(s) - (i + 1)) OBVIOUS
  <2>1. /\ Len(s) - (i + 1) \in 0 .. Len(s) /\ Len(s) - (i + 1) < Len(s)
        /\ (Len(s) - (i + 1)) + 1 = Len(s) - i /\ i <= Len(s)
      BY <1>1
  <2>2. Good(Len(s) - i) BY <1>5, <2>1
  <2> QED BY <1>3, <2>1, <2>2
<1> HIDE DEF T
<1>6. Nat \subseteq T BY <1>4, <1>5, AllNaturals
<1>7. ASSUME NEW m \in 0 .. Len(s) PROVE Good(m)
  <2>1. Len(s) - m \in Nat /\ Len(s) - m <= Len(s) /\ Len(s) - (Len(s) - m) = m BY <1>1
  <2>2. Len(s) - m \in T BY <1>6, <2>1
  <2>3. Good(Len(s) - (Len(s) - m)) BY <2>1, <2>2 DEF T
  <2> QED BY <2>1, <2>3
<1> QED BY <1>7 DEF Good

\* A recv takes something off the stream w: the loop works on x, and r is left.
ReadsAs(w, x, r) ==
    /\ x \in Texts /\ x \in Seq(PacketBytes) /\ r \in Texts /\ w # <<>>
    /\ \/ x # <<>> /\ Cat(x, r) = w
       \/ \E y \in Texts : Cat(x, Cat(<<LineEnd>>, Cat(y, r))) = w

LEMMA ReadIs ==
    ASSUME NEW w \in Texts, NEW n \in 1 .. Len(w), NEW x, x = UpToLineEnd(SubSeq(w, 1, n)),
           NEW r, r = SubSeq(w, n + 1, Len(w))
    PROVE  ReadsAs(w, x, r)
<1> DEFINE a == SubSeq(w, 1, n)
<1>1. w \in Seq(Bytes) /\ Len(w) \in Nat /\ n \in 0 .. Len(w) BY LenProperties DEF Texts
<1>2. a \in Seq(Bytes) /\ r \in Seq(Bytes) /\ Len(a) = n /\ a \o r = w BY <1>1, CutAt
<1>3. /\ UpToLineEnd(a) \in Seq(PacketBytes)
      /\ \/ UpToLineEnd(a) = a
         \/ \E k \in 1 .. Len(a) : a[k] = LineEnd /\ UpToLineEnd(a) = SubSeq(a, 1, k - 1)
    BY <1>2, UpToLineEndIs
<1>4. x = UpToLineEnd(a) OBVIOUS
<1> HIDE DEF a
<1>5. x \in Texts /\ x \in Seq(PacketBytes) BY <1>3, <1>4, SeqMonotonic, LineEndIsNone DEF Texts
<1>6. a \in Texts /\ r \in Texts /\ Cat(a, r) = w BY <1>2 DEF Texts, Cat
<1>7. a # <<>> /\ w # <<>> BY <1>1, <1>2, EmptySeq
<1>8. UpToLineEnd(a) = a => x # <<>> /\ Cat(x, r) = w BY <1>4, <1>5, <1>6, <1>7
<1>9. ASSUME NEW k \in 1 .. Len(a), a[k] = LineEnd, UpToLineEnd(a) = SubSeq(a, 1, k - 1)
      PROVE  \E y \in Texts : Cat(x, Cat(<<LineEnd>>, Cat(y, r))) = w
  <2> DEFINE b == SubSeq(a, k, Len(a))  y == SubSeq(b, 2, Len(b))  e == SubSeq(b, 1, 1)
  <2>1. k - 1 \in 0 .. Len(a) /\ (k - 1) + 1 = k /\ Len(a) \in Nat BY <1>2, <1>1
  <2>2. b \in Seq(Bytes) /\ x \o b = a /\ Len(x) = k - 1
    <3>1. /\ SubSeq(a, 1, k - 1) \in Seq(Bytes) /\ SubSeq(a, (k - 1) + 1, Len(a)) \in Seq(Bytes)
          /\ Len(SubSeq(a, 1, k - 1)) = k - 1
          /\ SubSeq(a, 1, k - 1) \o SubSeq(a, (k - 1) + 1, Len(a)) = a
        BY <1>2, <2>1, CutAt
    <3> QED BY <1>4, <1>9, <2>1, <3>1
  <2>3. x \in Texts /\ b \in Texts /\ Cat(x, b) = a BY <1>5, <2>2 DEF Texts, Cat
  <2> HIDE DEF b
  <2>4. b # <<>>
    <3> SUFFICES ASSUME b = <<>> PROVE FALSE OBVIOUS
    <3>1. a = x BY <2>3, CatNothing
    <3> QED BY <2>1, <2>2, <3>1
  <2>5. b[1] = LineEnd
    <3>1. Cat(x, b)[Len(x) + 1] = b[1] BY <2>3, <2>4, CatNext
    <3> QED BY <1>9, <2>1, <2>2, <2>3, <3>1
  <2>6. 1 \in 0 .. Len(b) /\ 1 + 1 = 2 BY <2>3, <2>4, EmptyText
  <2>7. e \in Seq(Bytes) /\ y \in Seq(Bytes) /\ Len(e) = 1 /\ e[1] = b[1] /\ e \o y = b
    <3>1. /\ SubSeq(b, 1, 1) \in Seq(Bytes) /\ SubSeq(b, 1 + 1, Len(b)) \in Seq(Bytes)
          /\ Len(SubSeq(b, 1, 1)) = 1 /\ (\A i \in 1 .. 1 : SubSeq(b, 1, 1)[i] = b[i])
          /\ SubSeq(b, 1, 1) \o SubSeq(b, 1 + 1, Len(b)) = b
        BY <2>2, <2>6, CutAt
    <3> QED BY <2>6, <3>1
  <2> HIDE DEF e, y
  <2>8. e = <<LineEnd>>
    <3>1. <<LineEnd>> \in Seq(Bytes) BY LineEndText DEF Texts
    <3>2. \A i \in 1 .. 1 : e[i] = <<LineEnd>>[i] BY <2>5, <2>7
    <3> QED BY <2>7, <3>1, <3>2, LineEndText, SameSeq
  <2>9. y \in Texts /\ Cat(<<LineEnd>>, y) = b BY <2>7, <2>8 DEF Texts, Cat
  <2>10. Cat(Cat(x, b), r) = Cat(x, Cat(b, r)) BY <1>6, <2>3, CatAssociates
  <2>11. Cat(Cat(<<LineEnd>>, y), r) = Cat(<<LineEnd>>, Cat(y, r)) BY <1>6, <2>9, LineEndText, CatAssociates
  <2>12. Cat(x, Cat(<<LineEnd>>, Cat(y, r))) = w BY <1>6, <2>3, <2>9, <2>10, <2>11
  <2> QED BY <2>9, <2>12
<1>10. \/ x # <<>> /\ Cat(x, r) = w
       \/ \E y \in Texts : Cat(x, Cat(<<LineEnd>>, Cat(y, r))) = w
    BY <1>3, <1>8, <1>9
<1> QED BY <1>5, <1>6, <1>7, <1>10 DEF ReadsAs
---------------------------------------------------------------------------
\* The stream of any client, taken apart by parse_packet.

\* What the loop has begun to read is no packet that will ever be handled: it begins within a
\* packet, or with a wrong header.
Strayed(s, z) == z # <<>> /\ (z[1].i # 1 \/ (z[1].n \in DOMAIN s /\ s[z[1].n].header # "ok"))

\* The packet after the m-th is begun in the buffers, and not yet complete.
Begun(s, m, hd, d) ==
    \/ Len(hd) < HeaderSize /\ d = <<>>
    \/ Len(hd) = HeaderSize /\ m < Len(s) /\ Len(d) < s[m + 1].len

\* After the l-th packet the m-th may be passed over: the text had been cut at a line end.
Skips(s, l, m) == m # l => l # 0 /\ s[l].line

\* Of what follows the text, w has not been read: all of it, or what comes after a line end.
Unread(w, tail) == tail = w \/ \E y \in Texts : tail = Cat(<<LineEnd>>, Cat(y, w))

\* The buffers and the text are the beginning of what is pending after some packet.
InStep(s, l, hd, d, x, w) ==
    /\ x \in Seq(PacketBytes)
    /\ \E m \in l .. Len(s), tail \in Texts :
          /\ Skips(s, l, m) /\ Begun(s, m, hd, d) /\ Unread(w, tail)
          /\ Cat(hd, Cat(d, Cat(x, tail))) = Pending(s, m)

\* The line end behind the l-th packet, or a recv after it, has cut the stream.
Past(s, l, hd, d, x, w) ==
    /\ hd = <<>> /\ d = <<>> /\ x = <<>> /\ l # 0 /\ s[l].line
    /\ \E y \in Texts : Cat(y, w) = Cat(<<LineEnd>>, Pending(s, l))

StreamIs(s, l, hd, d, x, w) ==
    Strayed(s, Cat(hd, x)) \/ InStep(s, l, hd, d, x, w) \/ Past(s, l, hd, d, x, w)

\* A header buffer that has strayed is never a right header, once it is full.
LEMMA HeaderStrays ==
    ASSUME NEW s \in Seq(Packets), NEW h \in Texts, NEW t \in Texts, Strayed(s, Cat(h, t)),
           Len(h) = HeaderSize, NEW n \in DOMAIN s, s[n].header = "ok"
    PROVE  h # HeaderBytes(n)
<1> SUFFICES ASSUME h = HeaderBytes(n) PROVE FALSE OBVIOUS
<1>1. n \in Nat \ {0} BY LenProperties
<1>2. HeaderSize \in Nat \ {0} BY LoopAssumption
<1>3. h # <<>> BY <1>2, EmptyText
<1>4. Cat(h, t)[1] = h[1] BY <1>3, CatFirst
<1>5. h[1] = Byte(n, 1) BY <1>1, <1>2, HeaderType
<1>6. Byte(n, 1).i = 1 /\ Byte(n, 1).n = n BY DEF Byte
<1> QED BY <1>4, <1>5, <1>6 DEF Strayed

\* A text that begins with a wrong header has strayed.
LEMMA BadHeaderStrays ==
    ASSUME NEW s \in Seq(Packets), NEW n \in DOMAIN s, s[n].header # "ok", NEW t \in Texts
    PROVE  Strayed(s, Cat(HeaderBytes(n), t))
<1> DEFINE h == HeaderBytes(n)
<1>1. n \in Nat \ {0} /\ s[n] \in Packets BY LenProperties, ElementOfSeq
<1>2. HeaderSize \in Nat \ {0} BY LoopAssumption
<1>3. h \in Texts /\ Len(h) = HeaderSize BY <1>1, PacketTexts
<1>4. h # <<>> BY <1>2, <1>3, EmptyText
<1>5. h[1] = Byte(n, 1) BY <1>1, <1>2, HeaderType
<1> HIDE DEF h
<1>6. Cat(h, t) # <<>> /\ Cat(h, t)[1] = h[1] BY <1>3, <1>4, CatFirst
<1>7. Byte(n, 1).n = n BY DEF Byte
<1> QED BY <1>5, <1>6, <1>7 DEF Strayed, h

\* What is as long as a header and begins a stream is the header of its next packet.
LEMMA HeaderNext ==
    ASSUME NEW s \in Seq(Packets), NEW m \in 0 .. Len(s), NEW h \in Texts, NEW r \in Texts,
           Len(h) = HeaderSize, Cat(h, r) = Pending(s, m)
    PROVE  /\ m < Len(s) /\ m + 1 \in DOMAIN s /\ h = HeaderBytes(m + 1)
           /\ r = Cat(PayloadBytes(m + 1, s[m + 1]), Cat(Ending(s[m + 1]), Pending(s, m + 1)))
<1>1. Len(s) \in Nat /\ HeaderSize \in Nat \ {0} BY LenProperties, LoopAssumption
<1>2. m < Len(s)
  <2> SUFFICES ASSUME m = Len(s) PROVE FALSE BY <1>1
  <2>1. Pending(s, m) = <<>> BY PendingNone
  <2> QED BY <1>1, <2>1, NotShorter
<1> DEFINE H == HeaderBytes(m + 1)  P == PayloadBytes(m + 1, s[m + 1])  E == Ending(s[m + 1])
           R == Pending(s, m + 1)
<1>3. /\ m + 1 \in Nat \ {0} /\ m + 1 \in DOMAIN s /\ s[m + 1] \in Packets /\ R \in Texts
      /\ Pending(s, m) = Cat(H, Cat(P, Cat(E, R)))
    BY <1>2, PendingParts
<1>4. H \in Texts /\ P \in Texts /\ E \in Texts /\ Len(H) = HeaderSize BY <1>3, FrameParts
<1> HIDE DEF H, P, E, R
<1>5. Cat(P, Cat(E, R)) \in Texts BY <1>3, <1>4, CatType
<1>6. h = H /\ r = Cat(P, Cat(E, R)) BY <1>3, <1>4, <1>5, CatCut
<1> QED BY <1>2, <1>3, <1>6 DEF H, P, E, R

\* A packet that is begun does not go on with a line end.
LEMMA NoLineEnd ==
    ASSUME NEW s \in Seq(Packets), NEW m \in 0 .. Len(s), NEW hd \in Texts, NEW d \in Texts,
           Begun(s, m, hd, d), NEW y \in Texts
    PROVE  Cat(hd, Cat(d, Cat(<<LineEnd>>, y))) # Pending(s, m)
<1> DEFINE E == Cat(<<LineEnd>>, y)  q == Cat(hd, Cat(d, E))
<1> SUFFICES ASSUME q = Pending(s, m) PROVE FALSE OBVIOUS
<1>1. Len(s) \in Nat /\ HeaderSize \in Nat /\ Len(<<>>) = 0 BY LenProperties, LoopAssumption, EmptySeq
<1>2. E \in Texts /\ E # <<>> /\ E[1] = LineEnd
  <2>1. <<LineEnd>> \in Texts /\ <<LineEnd>> # <<>> BY LineEndText, EmptyText
  <2> QED BY <2>1, LineEndText, CatFirst, CatType
<1>3. Len(E) \in Nat \ {0} BY <1>2, EmptyText
<1> HIDE DEF E
<1>4. /\ Len(hd) \in Nat /\ Len(d) \in Nat /\ Len(q) = Len(hd) + Len(d) + Len(E)
      /\ \A i \in 1 .. Len(E) : q[Len(hd) + (Len(d) + i)] = E[i]
    BY <1>2, CatOfThree
<1>5. q \in Texts BY <1>2, CatType
<1> HIDE DEF q
<1>6. m < Len(s)
  <2> SUFFICES ASSUME m = Len(s) PROVE FALSE BY <1>1
  <2>1. q = <<>> BY PendingNone
  <2>2. Len(q) = 0 BY <1>5, <2>1, EmptyText
  <2> QED BY <1>3, <1>4, <2>2
<1>7. s[m + 1].len \in Nat
  <2>1. s[m + 1] \in Packets BY <1>6, PendingParts
  <2> QED BY <2>1, LoopAssumption
<1>8. Len(hd) + (Len(d) + 1) \in 1 .. HeaderSize + s[m + 1].len
    BY <1>1, <1>4, <1>7 DEF Begun
<1>9. q[Len(hd) + (Len(d) + 1)] = Byte(m + 1, Len(hd) + (Len(d) + 1)) BY <1>6, <1>8, PendingBytes
<1>10. q[Len(hd) + (Len(d) + 1)] = LineEnd BY <1>2, <1>3, <1>4
<1>11. Byte(m + 1, Len(hd) + (Len(d) + 1)).n = m + 1 /\ LineEnd.n = 0 BY DEF Byte, LineEnd
<1> QED BY <1>1, <1>9, <1>10, <1>11
---------------------------------------------------------------------------
\* What becomes of the stream of any client.

LEMMA StreamNew == StreamIs(<<>>, 0, <<>>, <<>>, <<>>, <<>>)
<1>1. <<>> \in Seq(Packets) /\ Len(<<>>) = 0 /\ <<>> \in Seq(PacketBytes) BY EmptySeq
<1>2. Pending(<<>>, 0) = <<>> BY <1>1, PendingNone
<1>3. Cat(<<>>, <<>>) = <<>> /\ <<>> \in Texts BY CatNothing
<1>4. Skips(<<>>, 0, 0) /\ Begun(<<>>, 0, <<>>, <<>>) /\ Unread(<<>>, <<>>)
    BY <1>1, LoopAssumption DEF Skips, Begun, Unread
<1>5. 0 \in 0 .. Len(<<>>) BY <1>1
<1> QED BY <1>1, <1>2, <1>3, <1>4, <1>5 DEF StreamIs, InStep

LEMMA StrayedSends ==
    ASSUME NEW s \in Seq(Packets), NEW p \in Packets, NEW z, Strayed(s, z)
    PROVE  Strayed(Append(s, p), z)
<1>1. Len(s) \in Nat /\ Len(Append(s, p)) = Len(s) + 1 /\ \A k \in 1 .. Len(s) : Append(s, p)[k] = s[k]
    BY LenProperties, AppendProperties
<1>2. DOMAIN s = 1 .. Len(s) /\ DOMAIN Append(s, p) = 1 .. Len(Append(s, p)) BY AppendProperties, LenProperties
<1> QED BY <1>1, <1>2 DEF Strayed

LEMMA UnreadSends ==
    ASSUME NEW w \in Texts, NEW tail \in Texts, NEW e \in Texts, Unread(w, tail)
    PROVE  Unread(Cat(w, e), Cat(tail, e))
<1>1. CASE tail = w BY <1>1 DEF Unread
<1>2. CASE \E y \in Texts : tail = Cat(<<LineEnd>>, Cat(y, w))
  <2>1. PICK y \in Texts : tail = Cat(<<LineEnd>>, Cat(y, w)) BY <1>2
  <2>2. Cat(y, w) \in Texts /\ <<LineEnd>> \in Texts BY CatType, LineEndText
  <2>3. Cat(tail, e) = Cat(<<LineEnd>>, Cat(Cat(y, w), e)) BY <2>1, <2>2, CatAssociates
  <2>4. Cat(Cat(y, w), e) = Cat(y, Cat(w, e)) BY CatAssociates
  <2> QED BY <2>3, <2>4 DEF Unread
<1> QED BY <1>1, <1>2 DEF Unread

LEMMA StreamSends ==
    ASSUME NEW s \in Seq(Packets), NEW l \in 0 .. Len(s), NEW hd \in Texts, NEW d \in Texts, NEW x \in Texts,
           NEW w \in Texts, NEW p \in Packets, StreamIs(s, l, hd, d, x, w)
    PROVE  StreamIs(Append(s, p), l, hd, d, x, Cat(w, Frame(Len(s) + 1, p)))
<1> DEFINE e == Frame(Len(s) + 1, p)  t == Append(s, p)
<1>1. Len(s) \in Nat /\ Len(t) = Len(s) + 1 /\ \A k \in 1 .. Len(s) : t[k] = s[k]
    BY LenProperties, AppendProperties
<1>2. e \in Texts BY <1>1, PacketTexts
<1>3. \A m \in 0 .. Len(s) : Pending(t, m) = Cat(Pending(s, m), e) /\ Pending(s, m) \in Texts
    BY PendingSent, PendingText DEF Cat
<1>4. CASE Strayed(s, Cat(hd, x)) BY <1>4, StrayedSends DEF StreamIs
<1> HIDE DEF e, t
<1>5. CASE InStep(s, l, hd, d, x, w)
  <2>1. PICK m \in l .. Len(s), tail \in Texts :
           /\ Skips(s, l, m) /\ Begun(s, m, hd, d) /\ Unread(w, tail)
           /\ Cat(hd, Cat(d, Cat(x, tail))) = Pending(s, m)
      BY <1>5 DEF InStep
  <2>2. m \in 0 .. Len(s) /\ m \in l .. Len(t) BY <1>1
  <2>3. Skips(t, l, m) BY <1>1, <2>1 DEF Skips
  <2>4. Begun(t, m, hd, d)
    <3>1. m < Len(s) => m < Len(t) /\ m + 1 \in 1 .. Len(s) BY <1>1, <2>2
    <3>2. m < Len(s) => t[m + 1] = s[m + 1] BY <1>1, <3>1
    <3> QED BY <2>1, <3>1, <3>2 DEF Begun
  <2>5. Unread(Cat(w, e), Cat(tail, e)) /\ Cat(tail, e) \in Texts BY <1>2, <2>1, UnreadSends, CatType
  <2>6. Cat(hd, Cat(d, Cat(x, Cat(tail, e)))) = Cat(Cat(hd, Cat(d, Cat(x, tail))), e)
    <3>1. Cat(x, tail) \in Texts /\ Cat(d, Cat(x, tail)) \in Texts BY CatType
    <3>2. Cat(x, Cat(tail, e)) = Cat(Cat(x, tail), e) BY <1>2, CatAssociates
    <3>3. Cat(d, Cat(Cat(x, tail), e)) = Cat(Cat(d, Cat(x, tail)), e) BY <1>2, <3>1, CatAssociates
    <3>4. Cat(hd, Cat(Cat(d, Cat(x, tail)), e)) = Cat(Cat(hd, Cat(d, Cat(x, tail))), e)
        BY <1>2, <3>1, CatAssociates
    <3> QED BY <3>2, <3>3, <3>4
  <2>7. Cat(hd, Cat(d, Cat(x, Cat(tail, e)))) = Pending(t, m) BY <1>3, <2>1, <2>2, <2>6
  <2>8. x \in Seq(PacketBytes) BY <1>5 DEF InStep
  <2>9. InStep(t, l, hd, d, x, Cat(w, e)) BY <2>2, <2>3, <2>4, <2>5, <2>7, <2>8 DEF InStep
  <2> QED BY <2>9 DEF StreamIs, t, e
<1>6. CASE Past(s, l, hd, d, x, w)
  <2>1. PICK y \in Texts : Cat(y, w) = Cat(<<LineEnd>>, Pending(s, l)) BY <1>6 DEF Past
  <2>2. Cat(Cat(y, w), e) = Cat(y, Cat(w, e)) BY <1>2, CatAssociates
  <2>3. Cat(Cat(<<LineEnd>>, Pending(s, l)), e) = Cat(<<LineEnd>>, Pending(t, l))
      BY <1>2, <1>3, LineEndText, CatAssociates
  <2>4. hd = <<>> /\ d = <<>> /\ x = <<>> /\ l # 0 /\ t[l].line BY <1>1, <1>6 DEF Past
  <2>5. Past(t, l, hd, d, x, Cat(w, e)) BY <2>1, <2>2, <2>3, <2>4 DEF Past
  <2> QED BY <2>5 DEF StreamIs, t, e
<1> QED BY <1>4, <1>5, <1>6 DEF StreamIs

\* A part of the stream that begins within the bytes of packets has no line end before it.
LEMMA PastLineEnd ==
    ASSUME NEW y \in Texts, NEW w \in Texts, NEW r \in Texts, Cat(y, w) = Cat(<<LineEnd>>, r),
           w # <<>>, w[1] # LineEnd
    PROVE  \E z \in Texts : Cat(z, w) = r
<1>1. <<LineEnd>> \in Texts /\ Len(<<LineEnd>>) = 1 /\ <<LineEnd>> # <<>> BY LineEndText, EmptyText
<1>2. Cat(<<LineEnd>>, r)[1] = LineEnd BY <1>1, LineEndText, CatFirst
<1>3. Len(y) \in Nat BY EmptyText
<1>4. Len(y) # 0
  <2> SUFFICES ASSUME Len(y) = 0 PROVE FALSE OBVIOUS
  <2>1. y = <<>> BY EmptyText
  <2>2. Cat(y, w) = w BY <2>1, CatNothing
  <2> QED BY <1>2, <2>2
<1>5. Len(<<LineEnd>>) <= Len(y) BY <1>1, <1>3, <1>4
<1> DEFINE e == <<LineEnd>>
<1>6. e \in Texts /\ Len(e) <= Len(y) /\ Cat(y, w) = Cat(e, r) BY <1>1, <1>5
<1> HIDE DEF e
<1>7. \E z \in Texts : y = Cat(e, z) /\ Cat(z, w) = r BY <1>6, CutPrefix
<1> QED BY <1>7

LEMMA StreamReads ==
    ASSUME NEW s \in Seq(Packets), NEW l \in 0 .. Len(s), NEW hd \in Texts, NEW d \in Texts, NEW w \in Texts,
           StreamIs(s, l, hd, d, <<>>, w), NEW x, NEW r, ReadsAs(w, x, r)
    PROVE  StreamIs(s, l, hd, d, x, r)
<1>1. /\ x \in Texts /\ x \in Seq(PacketBytes) /\ r \in Texts /\ w # <<>>
      /\ \/ x # <<>> /\ Cat(x, r) = w
         \/ \E y \in Texts : Cat(x, Cat(<<LineEnd>>, Cat(y, r))) = w
    BY DEF ReadsAs
<1>2. \E tail \in Texts : Unread(r, tail) /\ Cat(x, tail) = w
  <2>1. CASE Cat(x, r) = w BY <1>1, <2>1 DEF Unread
  <2>2. ASSUME NEW y \in Texts, Cat(x, Cat(<<LineEnd>>, Cat(y, r))) = w PROVE \E tail \in Texts : Unread(r, tail) /\ Cat(x, tail) = w
    <3>1. Cat(<<LineEnd>>, Cat(y, r)) \in Texts BY <1>1, LineEndText, CatType
    <3> QED BY <2>2, <3>1 DEF Unread
  <2> QED BY <1>1, <2>1, <2>2
<1>3. CASE Strayed(s, Cat(hd, <<>>))
  <2>1. Cat(hd, <<>>) = hd BY CatNothing
  <2>2. hd # <<>> /\ Strayed(s, hd) BY <1>3, <2>1 DEF Strayed
  <2>3. Cat(hd, x) # <<>> /\ Cat(hd, x)[1] = hd[1] BY <1>1, <2>2, CatFirst
  <2>4. Strayed(s, Cat(hd, x)) BY <2>2, <2>3 DEF Strayed
  <2> QED BY <2>4 DEF StreamIs
<1>4. CASE InStep(s, l, hd, d, <<>>, w)
  <2>1. PICK m \in l .. Len(s), tail \in Texts :
           /\ Skips(s, l, m) /\ Begun(s, m, hd, d) /\ Unread(w, tail)
           /\ Cat(hd, Cat(d, Cat(<<>>, tail))) = Pending(s, m)
      BY <1>4 DEF InStep
  <2>2. Cat(hd, Cat(d, tail)) = Pending(s, m) BY <2>1, CatNothing
  <2>3. m \in 0 .. Len(s) BY LenProperties
  <2>4. tail = w
    <3>1. ASSUME NEW y \in Texts, tail = Cat(<<LineEnd>>, Cat(y, w)) PROVE FALSE
      <4>1. Cat(y, w) \in Texts BY CatType
      <4> QED BY <2>1, <2>2, <2>3, <3>1, <4>1, NoLineEnd
    <3> QED BY <2>1, <3>1 DEF Unread
  <2>5. PICK rest \in Texts : Unread(r, rest) /\ Cat(x, rest) = w BY <1>2
  <2>6. Cat(hd, Cat(d, Cat(x, rest))) = Pending(s, m) BY <2>2, <2>4, <2>5
  <2>7. InStep(s, l, hd, d, x, r) BY <1>1, <2>1, <2>5, <2>6 DEF InStep
  <2> QED BY <2>7 DEF StreamIs
<1>5. CASE Past(s, l, hd, d, <<>>, w)
  <2>1. hd = <<>> /\ d = <<>> /\ l # 0 /\ s[l].line BY <1>5 DEF Past
  <2>2. PICK y \in Texts : Cat(y, w) = Cat(<<LineEnd>>, Pending(s, l)) BY <1>5 DEF Past
  <2>3. Pending(s, l) \in Texts BY PendingText
  <2>4. CASE x = <<>>
    <3>1. \E z \in Texts : Cat(z, r) = w
      <4>1. ASSUME NEW z \in Texts, Cat(x, Cat(<<LineEnd>>, Cat(z, r))) = w PROVE \E u \in Texts : Cat(u, r) = w
        <5>1. Cat(<<LineEnd>>, Cat(z, r)) \in Texts /\ Cat(<<LineEnd>>, z) \in Texts /\ Cat(z, r) \in Texts
            BY <1>1, LineEndText, CatType
        <5>2. Cat(<<LineEnd>>, Cat(z, r)) = w BY <2>4, <4>1, <5>1, CatNothing
        <5>3. Cat(Cat(<<LineEnd>>, z), r) = Cat(<<LineEnd>>, Cat(z, r)) BY <1>1, LineEndText, CatAssociates
        <5> QED BY <5>1, <5>2, <5>3
      <4> QED BY <1>1, <2>4, <4>1
    <3>2. PICK z \in Texts : Cat(z, r) = w BY <3>1
    <3>3. Cat(y, z) \in Texts /\ Cat(Cat(y, z), r) = Cat(y, w) BY <1>1, <3>2, CatType, CatAssociates
    <3>4. Past(s, l, hd, d, x, r) BY <2>1, <2>2, <2>4, <3>3 DEF Past
    <3> QED BY <3>4 DEF StreamIs
  <2>5. CASE x # <<>>
    <3>1. PICK tail \in Texts : Unread(r, tail) /\ Cat(x, tail) = w BY <1>2
    <3>2. w[1] = x[1] BY <1>1, <2>5, <3>1, CatFirst
    <3>3. x[1] \in PacketBytes
      <4>1. Len(x) \in Nat /\ Len(x) # 0 BY <1>1, <2>5, EmptyText
      <4>2. 1 \in 1 .. Len(x) BY <4>1
      <4> QED BY <1>1, <4>2, ElementOfSeq
    <3>4. PICK z \in Texts : Cat(z, w) = Pending(s, l)
      <4>1. w # <<>> /\ w[1] # LineEnd BY <1>1, <3>2, <3>3, LineEndIsNone
      <4> DEFINE q == Pending(s, l)
      <4>2. q \in Texts /\ Cat(y, w) = Cat(<<LineEnd>>, q) BY <2>2, <2>3
      <4> HIDE DEF q
      <4>3. \E z \in Texts : Cat(z, w) = q BY <4>1, <4>2, PastLineEnd
      <4> QED BY <4>3 DEF q
    <3>5. Ends(w, s, l) BY <1>1, <3>4, EndsAre
    <3>6. CASE w[1].i # 1
      <4>1. Cat(hd, x) = x BY <1>1, <2>1, CatNothing
      <4>2. Strayed(s, Cat(hd, x)) BY <2>5, <3>2, <3>6, <4>1 DEF Strayed
      <4> QED BY <4>2 DEF StreamIs
    <3>7. ASSUME NEW k \in l .. Len(s), w = Pending(s, k) PROVE StreamIs(s, l, hd, d, x, r)
      <4>1. Cat(hd, Cat(d, Cat(x, tail))) = Pending(s, k)
        <5>1. Cat(x, tail) \in Texts BY <1>1, CatType
        <5> QED BY <2>1, <3>1, <3>7, <5>1, CatNothing
      <4>2. Begun(s, k, hd, d)
        <5>1. Len(<<>>) = 0 /\ HeaderSize \in Nat \ {0} BY EmptySeq, LoopAssumption
        <5> QED BY <2>1, <5>1 DEF Begun
      <4>3. Skips(s, l, k) BY <2>1 DEF Skips
      <4>4. InStep(s, l, hd, d, x, r) BY <1>1, <3>1, <3>7, <4>1, <4>2, <4>3 DEF InStep
      <4> QED BY <4>4 DEF StreamIs
    <3> QED BY <3>5, <3>6, <3>7 DEF Ends
  <2> QED BY <2>4, <2>5
<1> QED BY <1>3, <1>4, <1>5 DEF StreamIs

LEMMA RestIsBytes ==
    ASSUME NEW a \in Texts, NEW b \in Texts, NEW size \in Nat, Len(a) <= size, b \in Seq(PacketBytes)
    PROVE  Rest(a, b, size) \in Seq(PacketBytes)
<1> DEFINE u == Full(a, b, size)  v == Rest(a, b, size)
<1>1. /\ u \in Texts /\ v \in Texts /\ Cat(u, v) = Cat(a, b) /\ Len(u) <= size
      /\ Len(u) < size => v = <<>>
    BY TakeText
<1>2. Len(u) \in Nat BY <1>1, EmptyText
<1> HIDE DEF u, v
<1>3. CASE Len(u) < size
  <2>1. <<>> \in Seq(PacketBytes) BY EmptySeq
  <2> QED BY <1>1, <1>3, <2>1 DEF v
<1>4. CASE Len(u) = size
  <2>1. Len(a) <= Len(u) BY <1>4
  <2>2. PICK y \in Texts : u = Cat(a, y) /\ Cat(y, v) = b BY <1>1, <2>1, CutPrefix
  <2>3. v \in Seq(PacketBytes) BY <1>1, <2>2, EndOfText
  <2> QED BY <2>3 DEF v
<1> QED BY <1>1, <1>2, <1>3, <1>4

\* parse_packet has moved bytes to the header buffer, and that is not the header of a packet
\* it knows.
LEMMA StreamHeader ==
    ASSUME NEW s \in Seq(Packets), NEW l \in 0 .. Len(s), NEW hd \in Texts, NEW d \in Texts, NEW x \in Texts,
           NEW w \in Texts, StreamIs(s, l, hd, d, x, w), Len(hd) <= HeaderSize, Len(hd) < HeaderSize => d = <<>>,
           NEW h, h = Full(hd, x, HeaderSize), NEW t, t = Rest(hd, x, HeaderSize),
           Len(h) = HeaderSize => \A n \in DOMAIN s : s[n].header = "ok" => h # HeaderBytes(n)
    PROVE  StreamIs(s, l, h, d, t, w)
<1>1. HeaderSize \in Nat \ {0} BY LoopAssumption
<1>2. h \in Texts /\ t \in Texts /\ Cat(h, t) = Cat(hd, x) /\ Len(h) <= HeaderSize BY <1>1, TakeText
<1>3. Len(h) < HeaderSize => t = <<>> /\ d = <<>> BY HeaderTaken
<1>4. CASE Strayed(s, Cat(hd, x)) BY <1>2, <1>4 DEF StreamIs
<1>5. CASE InStep(s, l, hd, d, x, w)
  <2>1. PICK m \in l .. Len(s), tail \in Texts :
           /\ Skips(s, l, m) /\ Begun(s, m, hd, d) /\ Unread(w, tail)
           /\ Cat(hd, Cat(d, Cat(x, tail))) = Pending(s, m)
      BY <1>5 DEF InStep
  <2>2. x \in Seq(PacketBytes) BY <1>5 DEF InStep
  <2>3. t \in Seq(PacketBytes) BY <1>1, <2>2, RestIsBytes
  <2>4. Cat(h, Cat(d, Cat(t, tail))) = Pending(s, m) BY <2>1, HeaderTaken
  <2>5. CASE Len(h) < HeaderSize
    <3>1. Begun(s, m, h, d) BY <1>3, <2>5 DEF Begun
    <3>2. InStep(s, l, h, d, t, w) BY <2>1, <2>3, <2>4, <3>1 DEF InStep
    <3> QED BY <3>2 DEF StreamIs
  <2>6. CASE Len(h) = HeaderSize
    <3>1. Cat(d, Cat(t, tail)) \in Texts /\ m \in 0 .. Len(s) BY <1>2, CatType, LenProperties
    <3>2. m + 1 \in DOMAIN s /\ h = HeaderBytes(m + 1) BY <1>2, <2>4, <2>6, <3>1, HeaderNext
    <3>3. Strayed(s, Cat(h, t)) BY <1>2, <2>6, <3>2, BadHeaderStrays
    <3> QED BY <3>3 DEF StreamIs
  <2>7. Len(h) \in Nat BY <1>2, EmptyText
  <2> QED BY <1>1, <1>2, <2>5, <2>6, <2>7
<1>6. CASE Past(s, l, hd, d, x, w)
  <2>1. hd = <<>> /\ x = <<>> BY <1>6 DEF Past
  <2>2. Cat(h, t) = <<>> BY <1>2, <2>1, CatNothing
  <2>3. Len(h) = 0 BY <1>2, <2>2, NotShorter
  <2>4. h = <<>> /\ t = <<>> BY <1>1, <1>2, <1>3, <2>3, EmptyText
  <2> QED BY <1>6, <2>1, <2>4 DEF StreamIs
<1> QED BY <1>4, <1>5, <1>6 DEF StreamIs

\* The packet a header belongs to can only be the next one of a stream in step.
LEMMA PacketFound ==
    ASSUME NEW s \in Seq(Packets), NEW l \in 0 .. Len(s), NEW hd \in Texts, NEW d \in Texts, NEW x \in Texts,
           NEW w \in Texts, StreamIs(s, l, hd, d, x, w), Len(hd) <= HeaderSize, Len(hd) < HeaderSize => d = <<>>,
           NEW h, h = Full(hd, x, HeaderSize), NEW t, t = Rest(hd, x, HeaderSize),
           NEW n \in DOMAIN s, s[n].header = "ok", h = HeaderBytes(n), Len(h) = HeaderSize
    PROVE  /\ h \in Texts /\ t \in Texts /\ t \in Seq(PacketBytes) /\ n - 1 \in l .. Len(s) /\ Skips(s, l, n - 1)
           /\ \E tail \in Texts :
                /\ Unread(w, tail) /\ Cat(h, Cat(d, Cat(t, tail))) = Pending(s, n - 1)
                /\ Cat(d, Cat(t, tail)) = Cat(PayloadBytes(n, s[n]), Cat(Ending(s[n]), Pending(s, n)))
<1>1. HeaderSize \in Nat \ {0} BY LoopAssumption
<1>0. /\ hd \in Texts /\ d \in Texts /\ x \in Texts /\ h = Full(hd, x, HeaderSize) /\ t = Rest(hd, x, HeaderSize)
      /\ Len(hd) <= HeaderSize /\ (Len(hd) < HeaderSize => d = <<>>)
    OBVIOUS
<1>2. h \in Texts /\ t \in Texts /\ Cat(h, t) = Cat(hd, x) BY ONLY <1>0, <1>1, TakeText
<1>3. n \in Nat \ {0} BY LenProperties
<1>4. ~Strayed(s, Cat(hd, x)) BY <1>2, HeaderStrays
<1>5. ~Past(s, l, hd, d, x, w)
  <2> SUFFICES ASSUME Past(s, l, hd, d, x, w) PROVE FALSE OBVIOUS
  <2>1. hd = <<>> /\ x = <<>> BY DEF Past
  <2>2. Cat(h, t) = <<>> BY <1>2, <2>1, CatNothing
  <2>3. Len(h) = 0 BY <1>2, <2>2, NotShorter
  <2> QED BY <1>1, <2>3
<1>6. InStep(s, l, hd, d, x, w) BY <1>4, <1>5 DEF StreamIs
<1>7. PICK m \in l .. Len(s), tail \in Texts :
         /\ Skips(s, l, m) /\ Begun(s, m, hd, d) /\ Unread(w, tail)
         /\ Cat(hd, Cat(d, Cat(x, tail))) = Pending(s, m)
    BY <1>6 DEF InStep
<1>8. x \in Seq(PacketBytes) BY <1>6 DEF InStep
<1>9. t \in Seq(PacketBytes) BY <1>1, <1>8, RestIsBytes
<1>10. Cat(h, Cat(d, Cat(t, tail))) = Pending(s, m)
  <2>1. tail \in Texts OBVIOUS
  <2>2. Cat(hd, Cat(d, Cat(x, tail))) = Cat(h, Cat(d, Cat(t, tail))) BY ONLY <1>0, <2>1, HeaderTaken
  <2> QED BY <1>7, <2>2
<1>11. Cat(d, Cat(t, tail)) \in Texts /\ m \in 0 .. Len(s) /\ m \in Nat BY <1>2, CatType, LenProperties
<1>12. /\ h = HeaderBytes(m + 1)
       /\ Cat(d, Cat(t, tail)) = Cat(PayloadBytes(m + 1, s[m + 1]), Cat(Ending(s[m + 1]), Pending(s, m + 1)))
    BY <1>2, <1>10, <1>11, HeaderNext
<1>13. n = m + 1
  <2>1. m + 1 \in Nat \ {0} BY <1>11
  <2> QED BY <1>3, <1>12, <2>1, HeadersDiffer
<1>14. n - 1 = m BY <1>11, <1>13
<1>15. /\ Unread(w, tail) /\ Cat(h, Cat(d, Cat(t, tail))) = Pending(s, n - 1)
       /\ Cat(d, Cat(t, tail)) = Cat(PayloadBytes(n, s[n]), Cat(Ending(s[n]), Pending(s, n)))
    BY <1>7, <1>10, <1>12, <1>13, <1>14
<1>16. n - 1 \in l .. Len(s) /\ Skips(s, l, n - 1) BY <1>7, <1>14
<1> QED BY <1>2, <1>9, <1>15, <1>16

\* Not all of the payload has come.
LEMMA StreamPart ==
    ASSUME NEW s \in Seq(Packets), NEW l \in 0 .. Len(s), NEW d \in Texts, NEW t \in Texts, NEW w \in Texts,
           NEW h \in Texts, Len(h) = HeaderSize, NEW n \in DOMAIN s,
           n - 1 \in l .. Len(s), Skips(s, l, n - 1), NEW tail \in Texts, Unread(w, tail),
           Cat(h, Cat(d, Cat(t, tail))) = Pending(s, n - 1),
           NEW u, u = Full(d, t, s[n].len), NEW v, v = Rest(d, t, s[n].len), Len(u) < s[n].len, Len(d) <= s[n].len
    PROVE  StreamIs(s, l, h, u, <<>>, w)
<1>1. n \in Nat \ {0} /\ s[n] \in Packets /\ n <= Len(s) BY LenProperties, ElementOfSeq
<1>2. s[n].len \in Nat BY <1>1, LoopAssumption
<1>3. u \in Texts /\ v = <<>> BY <1>2, TakeText
<1>4. Cat(d, Cat(t, tail)) = Cat(u, Cat(<<>>, tail))
  <2>1. /\ d \in Texts /\ t \in Texts /\ tail \in Texts /\ u = Full(d, t, s[n].len) /\ v = Rest(d, t, s[n].len)
        /\ Len(d) <= s[n].len
      OBVIOUS
  <2>2. Cat(d, Cat(t, tail)) = Cat(u, Cat(v, tail)) BY ONLY <1>2, <2>1, TakeShifts
  <2> QED BY <1>3, <2>2
<1>5. Cat(h, Cat(u, Cat(<<>>, tail))) = Pending(s, n - 1) BY <1>4
<1>6. Begun(s, n - 1, h, u)
  <2>1. (n - 1) + 1 = n /\ n - 1 < Len(s) BY <1>1, LenProperties
  <2> QED BY <2>1 DEF Begun
<1>7. <<>> \in Seq(PacketBytes) BY EmptySeq
<1>8. InStep(s, l, h, u, <<>>, w) BY <1>5, <1>6, <1>7 DEF InStep
<1> QED BY <1>8 DEF StreamIs

\* The payload is complete: it is the one sent, and the stream goes on behind its packet.
LEMMA StreamHandled ==
    ASSUME NEW s \in Seq(Packets), NEW d \in Texts, NEW t \in Texts, NEW w \in Texts,
           t \in Seq(PacketBytes), NEW n \in DOMAIN s, NEW tail \in Texts, Unread(w, tail),
           Cat(d, Cat(t, tail)) = Cat(PayloadBytes(n, s[n]), Cat(Ending(s[n]), Pending(s, n))),
           NEW u, u = Full(d, t, s[n].len), NEW v, v = Rest(d, t, s[n].len), Len(u) = s[n].len, Len(d) <= s[n].len
    PROVE  u = PayloadBytes(n, s[n]) /\ StreamIs(s, n, <<>>, <<>>, v, w)
<1> DEFINE P == PayloadBytes(n, s[n])  E == Ending(s[n])  R == Pending(s, n)
<1>1. n \in Nat \ {0} /\ s[n] \in Packets /\ n <= Len(s) /\ n \in 0 .. Len(s) /\ n \in n .. Len(s)
    BY LenProperties, ElementOfSeq
<1>2. s[n].len \in Nat /\ s[n].line \in BOOLEAN BY <1>1, LoopAssumption
<1>3. u \in Texts /\ v \in Texts /\ v \in Seq(PacketBytes) BY <1>2, TakeText, RestIsBytes
<1>4. Cat(d, Cat(t, tail)) = Cat(u, Cat(v, tail)) BY <1>2, TakeShifts
<1>5. P \in Texts /\ E \in Texts /\ Len(P) = s[n].len /\ R \in Texts BY <1>1, FrameParts, PendingText
<1>6. E = IF s[n].line THEN <<LineEnd>> ELSE <<>> BY DEF Ending
<1> HIDE DEF P, E, R
<1>7. Cat(u, Cat(v, tail)) = Cat(P, Cat(E, R)) BY <1>4 DEF P, E, R
<1>8. Cat(v, tail) \in Texts /\ Cat(E, R) \in Texts BY <1>3, <1>5, CatType
<1>9. u = P /\ Cat(v, tail) = Cat(E, R) BY <1>3, <1>5, <1>7, <1>8, CatCut
<1>10. CASE ~s[n].line
  <2>1. Cat(v, tail) = R BY <1>5, <1>6, <1>9, <1>10, CatNothing
  <2>2. Cat(<<>>, Cat(<<>>, Cat(v, tail))) = Pending(s, n) BY <1>8, <2>1, CatNothing DEF R
  <2>3. Begun(s, n, <<>>, <<>>)
    <3>1. Len(<<>>) = 0 /\ HeaderSize \in Nat \ {0} BY EmptySeq, LoopAssumption
    <3> QED BY <3>1 DEF Begun
  <2>4. Skips(s, n, n) BY DEF Skips
  <2>5. InStep(s, n, <<>>, <<>>, v, w) BY <1>1, <1>3, <2>2, <2>3, <2>4 DEF InStep
  <2> QED BY <1>9, <2>5 DEF StreamIs, P
<1>11. CASE s[n].line
  <2>1. Cat(v, tail) = Cat(<<LineEnd>>, R) BY <1>6, <1>9, <1>11
  <2>2. v = <<>>
    <3> SUFFICES ASSUME v # <<>> PROVE FALSE OBVIOUS
    <3>1. Cat(v, tail)[1] = v[1] BY <1>3, CatFirst
    <3>2. <<LineEnd>> \in Texts /\ <<LineEnd>> # <<>> BY LineEndText, EmptyText
    <3>3. Cat(<<LineEnd>>, R)[1] = LineEnd BY <1>5, <3>2, CatFirst, LineEndText
    <3>4. Len(v) \in Nat \ {0} BY <1>3, EmptyText
    <3>5. 1 \in 1 .. Len(v) BY <3>4
    <3>6. v[1] \in PacketBytes BY <1>3, <3>5, ElementOfSeq
    <3> QED BY <2>1, <3>1, <3>3, <3>6, LineEndIsNone
  <2>3. tail = Cat(<<LineEnd>>, R) BY <2>1, <2>2, CatNothing
  <2>4. \E y \in Texts : Cat(y, w) = Cat(<<LineEnd>>, R)
    <3>1. CASE tail = w BY <2>3, <3>1, CatNothing
    <3>2. ASSUME NEW y \in Texts, tail = Cat(<<LineEnd>>, Cat(y, w)) PROVE \E z \in Texts : Cat(z, w) = Cat(<<LineEnd>>, R)
      <4>1. <<LineEnd>> \in Texts /\ Cat(<<LineEnd>>, y) \in Texts BY LineEndText, CatType
      <4>2. Cat(Cat(<<LineEnd>>, y), w) = Cat(<<LineEnd>>, R) BY <2>3, <3>2, <4>1, CatAssociates
      <4> QED BY <4>1, <4>2
    <3> QED BY <3>1, <3>2 DEF Unread
  <2>5. Past(s, n, <<>>, <<>>, v, w) BY <1>1, <1>11, <2>2, <2>4 DEF Past, R
  <2> QED BY <1>9, <2>5 DEF StreamIs, P
<1> QED BY <1>2, <1>10, <1>11
---------------------------------------------------------------------------
\* The queue and the log that the refinement gives a connection.

QueueOf(s, l) == SubSeq(s, l + 1, Len(s))

Built(s, entry) == IF entry.data = PayloadBytes(entry.n, s[entry.n]) THEN s[entry.n] ELSE "garbled"

LogOf(s, entries) == [k \in DOMAIN entries |-> Built(s, entries[k])]

\* What was handed on was sent, and has come through intact.
HandledIs(s, entries) ==
    \A k \in DOMAIN entries :
       entries[k].n \in DOMAIN s /\ entries[k].data = PayloadBytes(entries[k].n, s[entries[k].n])

LEMMA QueueIs ==
    ASSUME NEW s \in Seq(Packets), NEW l \in 0 .. Len(s)
    PROVE  /\ QueueOf(s, l) \in Seq(Packets) /\ Len(QueueOf(s, l)) = Len(s) - l
           /\ \A k \in 1 .. Len(s) - l : QueueOf(s, l)[k] = s[l + k]
<1>1. Len(s) \in Nat /\ l \in Nat /\ l + 1 \in Int /\ Len(s) \in Int BY LenProperties
<1>2. \A i \in l + 1 .. Len(s) : s[i] \in Packets BY <1>1, ElementOfSeq
<1> DEFINE q == SubSeq(s, l + 1, Len(s))
<1>3. /\ q \in Seq(Packets) /\ Len(q) = (IF l + 1 <= Len(s) THEN Len(s) - (l + 1) + 1 ELSE 0)
      /\ \A i \in 1 .. Len(s) - (l + 1) + 1 : q[i] = s[l + 1 + i - 1]
    BY <1>1, <1>2, SubSeqProperties
<1> HIDE DEF q
<1>4. \A k \in 1 .. Len(s) - l : k \in 1 .. Len(s) - (l + 1) + 1 /\ l + 1 + k - 1 = l + k BY <1>1
<1>5. Len(q) = Len(s) - l BY <1>1, <1>3
<1>6. \A k \in 1 .. Len(s) - l : q[k] = s[l + k] BY <1>3, <1>4
<1> QED BY <1>3, <1>5, <1>6 DEF QueueOf, q

LEMMA LogIs ==
    ASSUME NEW s \in Seq(Packets), NEW entries \in Seq(Entries), HandledIs(s, entries)
    PROVE  /\ LogOf(s, entries) \in Seq(Packets) /\ Len(LogOf(s, entries)) = Len(entries)
           /\ \A k \in 1 .. Len(entries) : LogOf(s, entries)[k] = s[entries[k].n]
<1>1. Len(entries) \in Nat /\ DOMAIN entries = 1 .. Len(entries) BY LenProperties
<1>2. \A k \in 1 .. Len(entries) : Built(s, entries[k]) = s[entries[k].n] /\ entries[k].n \in DOMAIN s
    BY <1>1 DEF HandledIs, Built
<1>3. \A k \in 1 .. Len(entries) : s[entries[k].n] \in Packets BY <1>2, LenProperties, ElementOfSeq
<1>4. LogOf(s, entries) = [k \in 1 .. Len(entries) |-> Built(s, entries[k])] BY <1>1 DEF LogOf
<1>5. LogOf(s, entries) \in [1 .. Len(entries) -> Packets] BY <1>2, <1>3, <1>4
<1> QED BY <1>1, <1>2, <1>4, <1>5, FunctionIsSeq

LEMMA HandledSends ==
    ASSUME NEW s \in Seq(Packets), NEW p \in Packets, NEW entries \in Seq(Entries), HandledIs(s, entries)
    PROVE  HandledIs(Append(s, p), entries)
<1>1. Len(s) \in Nat /\ Len(Append(s, p)) = Len(s) + 1 /\ \A k \in 1 .. Len(s) : Append(s, p)[k] = s[k]
    BY LenProperties, AppendProperties
<1>2. DOMAIN s = 1 .. Len(s) /\ DOMAIN Append(s, p) = 1 .. Len(Append(s, p)) BY AppendProperties, LenProperties
<1>3. \A n \in DOMAIN s : n \in DOMAIN Append(s, p) /\ Append(s, p)[n] = s[n] BY <1>1, <1>2
<1> QED BY <1>3 DEF HandledIs

LEMMA HandledHandles ==
    ASSUME NEW s \in Seq(Packets), NEW entries \in Seq(Entries), HandledIs(s, entries), NEW e \in Entries,
           e.n \in DOMAIN s, e.data = PayloadBytes(e.n, s[e.n])
    PROVE  HandledIs(s, Append(entries, e))
<1> DEFINE es == Append(entries, e)
<1>1. /\ Len(entries) \in Nat /\ Len(es) = Len(entries) + 1 /\ es[Len(entries) + 1] = e
      /\ \A k \in 1 .. Len(entries) : es[k] = entries[k]
    BY LenProperties, AppendProperties
<1>2. DOMAIN entries = 1 .. Len(entries) /\ DOMAIN es = 1 .. Len(es) BY LenProperties, AppendProperties
<1> HIDE DEF es
<1>3. ASSUME NEW k \in DOMAIN es PROVE es[k].n \in DOMAIN s /\ es[k].data = PayloadBytes(es[k].n, s[es[k].n])
  <2>1. CASE k = Len(entries) + 1 BY <1>1, <2>1
  <2>2. CASE k # Len(entries) + 1
    <3>1. k \in DOMAIN entries /\ es[k] = entries[k] BY <1>1, <1>2, <2>2
    <3> QED BY <3>1 DEF HandledIs
  <2> QED BY <2>1, <2>2
<1> QED BY <1>3 DEF HandledIs, es

\* The abstract queue and log of a connection under the same steps.
LEMMA ViewNew == QueueOf(<<>>, 0) = <<>> /\ LogOf(<<>>, <<>>) = <<>> /\ HandledIs(<<>>, <<>>)
<1>1. <<>> \in Seq(Packets) /\ <<>> \in Seq(Entries) /\ Len(<<>>) = 0 /\ DOMAIN <<>> = {} BY EmptySeq
<1>3. HandledIs(<<>>, <<>>) BY <1>1 DEF HandledIs
<1>4. QueueOf(<<>>, 0) = <<>>
  <2>1. 0 + 1 \in Int /\ Len(<<>>) \in Int /\ Len(<<>>) < 0 + 1 BY <1>1
  <2> QED BY <2>1, SubSeqEmpty DEF QueueOf
<1>5. LogOf(<<>>, <<>>) \in Seq(Packets) /\ Len(LogOf(<<>>, <<>>)) = 0 BY <1>1, <1>3, LogIs
<1> QED BY <1>3, <1>4, <1>5, EmptySeq

LEMMA ViewSends ==
    ASSUME NEW s \in Seq(Packets), NEW l \in 0 .. Len(s), NEW entries \in Seq(Entries), HandledIs(s, entries),
           NEW p \in Packets
    PROVE  QueueOf(Append(s, p), l) = Append(QueueOf(s, l), p) /\ LogOf(Append(s, p), entries) = LogOf(s, entries)
<1> DEFINE t == Append(s, p)  q == QueueOf(s, l)  r == QueueOf(t, l)
<1>1. /\ t \in Seq(Packets) /\ Len(s) \in Nat /\ Len(t) = Len(s) + 1 /\ t[Len(s) + 1] = p
      /\ \A k \in 1 .. Len(s) : t[k] = s[k]
    BY LenProperties, AppendProperties
<1>2. l \in 0 .. Len(t) BY <1>1
<1>3. q \in Seq(Packets) /\ Len(q) = Len(s) - l /\ \A k \in 1 .. Len(s) - l : q[k] = s[l + k] BY QueueIs
<1>4. HandledIs(t, entries) BY HandledSends
<1> HIDE DEF t
<1>5. r \in Seq(Packets) /\ Len(r) = Len(t) - l /\ \A k \in 1 .. Len(t) - l : r[k] = t[l + k]
    BY <1>1, <1>2, QueueIs
<1> HIDE DEF q, r
<1>6. r = Append(q, p)
  <2>1. /\ Append(q, p) \in Seq(Packets) /\ Len(Append(q, p)) = Len(q) + 1 /\ Append(q, p)[Len(q) + 1] = p
        /\ \A k \in 1 .. Len(q) : Append(q, p)[k] = q[k]
      BY <1>3, AppendProperties
  <2>2. ASSUME NEW k \in 1 .. Len(t) - l PROVE r[k] = Append(q, p)[k]
    <3>1. CASE k = Len(q) + 1
      <4>1. l + k = Len(s) + 1 BY <1>1, <1>3, <3>1
      <4> QED BY <1>1, <1>5, <2>1, <3>1, <4>1
    <3>2. CASE k # Len(q) + 1
      <4>1. k \in 1 .. Len(s) - l /\ k \in 1 .. Len(q) /\ l + k \in 1 .. Len(s)
        <5>1. /\ Len(s) \in Nat /\ Len(t) = Len(s) + 1 /\ Len(q) = Len(s) - l /\ l \in 0 .. Len(s)
              /\ k \in 1 .. Len(t) - l
            BY <1>1, <1>3
        <5> QED BY ONLY <5>1, <3>2
      <4>2. r[k] = t[l + k] BY <1>5
      <4> QED BY <1>1, <1>3, <2>1, <4>1, <4>2
    <3> QED BY <3>1, <3>2
  <2>3. Len(Append(q, p)) = Len(t) - l BY <1>1, <1>3, <2>1
  <2> QED BY <1>5, <2>1, <2>2, <2>3, SameSeq
<1>7. LogOf(t, entries) = LogOf(s, entries)
  <2>1. /\ LogOf(s, entries) \in Seq(Packets) /\ Len(LogOf(s, entries)) = Len(entries)
        /\ \A k \in 1 .. Len(entries) : LogOf(s, entries)[k] = s[entries[k].n]
      BY LogIs
  <2>2. /\ LogOf(t, entries) \in Seq(Packets) /\ Len(LogOf(t, entries)) = Len(entries)
        /\ \A k \in 1 .. Len(entries) : LogOf(t, entries)[k] = t[entries[k].n]
      BY <1>1, <1>4, LogIs
  <2>3. DOMAIN entries = 1 .. Len(entries) /\ DOMAIN s = 1 .. Len(s) BY LenProperties
  <2>4. \A k \in 1 .. Len(entries) : t[entries[k].n] = s[entries[k].n] BY <1>1, <2>3 DEF HandledIs
  <2>5. \A k \in 1 .. Len(entries) : LogOf(t, entries)[k] = LogOf(s, entries)[k] BY <2>1, <2>2, <2>4
  <2> QED BY <2>1, <2>2, <2>5, SameSeq
<1> QED BY <1>6, <1>7 DEF q, r, t

LEMMA ViewHandles ==
    ASSUME NEW s \in Seq(Packets), NEW l \in 0 .. Len(s), NEW entries \in Seq(Entries), HandledIs(s, entries),
           l = LastOf(entries), NEW e \in Entries, e.n \in DOMAIN s, e.data = PayloadBytes(e.n, s[e.n]),
           e.n - 1 \in l .. Len(s), Skips(s, l, e.n - 1)
    PROVE  \E k \in DOMAIN QueueOf(s, l) :
              /\ QueueOf(s, l)[k] = s[e.n]
              /\ k > 1 => LogOf(s, entries) # <<>> /\ LogOf(s, entries)[Len(LogOf(s, entries))].line
              /\ LogOf(s, Append(entries, e)) = Append(LogOf(s, entries), QueueOf(s, l)[k])
              /\ QueueOf(s, e.n) = SubSeq(QueueOf(s, l), k + 1, Len(QueueOf(s, l)))
<1> DEFINE n == e.n  k == n - l  q == QueueOf(s, l)  g == LogOf(s, entries)  es == Append(entries, e)
<1>1. Len(s) \in Nat /\ n \in 1 .. Len(s) /\ l \in Nat /\ l < n /\ Len(entries) \in Nat /\ n \in 0 .. Len(s)
    BY LenProperties
<1>2. k \in Nat \ {0} /\ k \in 1 .. Len(s) - l /\ l + k = n BY <1>1
<1>3. q \in Seq(Packets) /\ Len(q) = Len(s) - l /\ \A i \in 1 .. Len(s) - l : q[i] = s[l + i] BY QueueIs
<1>4. g \in Seq(Packets) /\ Len(g) = Len(entries) /\ \A i \in 1 .. Len(entries) : g[i] = s[entries[i].n] BY LogIs
<1>5. es \in Seq(Entries) /\ HandledIs(s, es) BY HandledHandles, AppendProperties
<1>6. /\ Len(es) = Len(entries) + 1 /\ es[Len(entries) + 1] = e
      /\ \A i \in 1 .. Len(entries) : es[i] = entries[i]
    BY AppendProperties
<1>7. s[n] \in Packets BY <1>1, ElementOfSeq
<1>8. Skips(s, l, n - 1) OBVIOUS
<1> HIDE DEF n, k, q, g, es
<1>9. k \in DOMAIN q /\ q[k] = s[n] BY <1>2, <1>3, LenProperties
<1>10. ASSUME k > 1 PROVE g # <<>> /\ g[Len(g)].line
  <2>1. n - 1 # l BY <1>1, <1>10 DEF k
  <2>2. l # 0 /\ s[l].line BY <1>8, <2>1 DEF Skips
  <2>3. entries # <<>> /\ l = entries[Len(entries)].n BY <2>2 DEF LastOf, Last
  <2>4. Len(entries) \in 1 .. Len(entries) BY <1>1, <2>3, EmptySeq
  <2>5. g[Len(g)] = s[l] BY <1>4, <2>3, <2>4
  <2>6. Len(g) # 0 BY <1>4, <2>4
  <2> QED BY <1>4, <2>2, <2>5, <2>6, EmptySeq
<1>11. LogOf(s, es) = Append(g, s[n])
  <2>1. /\ LogOf(s, es) \in Seq(Packets) /\ Len(LogOf(s, es)) = Len(es)
        /\ \A i \in 1 .. Len(es) : LogOf(s, es)[i] = s[es[i].n]
      BY <1>5, LogIs
  <2>2. /\ Append(g, s[n]) \in Seq(Packets) /\ Len(Append(g, s[n])) = Len(g) + 1
        /\ Append(g, s[n])[Len(g) + 1] = s[n] /\ \A i \in 1 .. Len(g) : Append(g, s[n])[i] = g[i]
      BY <1>4, <1>7, AppendProperties
  <2>3. ASSUME NEW i \in 1 .. Len(es) PROVE LogOf(s, es)[i] = Append(g, s[n])[i]
    <3>1. CASE i = Len(entries) + 1 BY <1>4, <1>6, <2>1, <2>2, <3>1 DEF n
    <3>2. CASE i # Len(entries) + 1
      <4>1. i \in 1 .. Len(entries) BY <1>1, <1>6, <3>2
      <4> QED BY <1>4, <1>6, <2>1, <2>2, <4>1
    <3> QED BY <3>1, <3>2
  <2>4. Len(Append(g, s[n])) = Len(es) BY <1>4, <1>6, <2>2
  <2> QED BY <2>1, <2>2, <2>3, <2>4, SameSeq
<1>12. QueueOf(s, n) = SubSeq(q, k + 1, Len(q))
  <2> DEFINE r == QueueOf(s, n)  u == QueueOf(q, k)
  <2>1. r \in Seq(Packets) /\ Len(r) = Len(s) - n /\ \A i \in 1 .. Len(s) - n : r[i] = s[n + i] BY <1>1, QueueIs
  <2>2. k \in 0 .. Len(q) BY <1>2, <1>3
  <2>3. u \in Seq(Packets) /\ Len(u) = Len(q) - k /\ \A i \in 1 .. Len(q) - k : u[i] = q[k + i]
      BY <1>3, <2>2, QueueIs
  <2> HIDE DEF r, u
  <2>4. Len(q) - k = Len(s) - n
    <3>1. Len(q) = Len(s) - l /\ l + k = n /\ Len(s) \in Nat /\ l \in Nat /\ k \in Nat BY <1>1, <1>2, <1>3
    <3> QED BY ONLY <3>1
  <2>5. ASSUME NEW i \in 1 .. Len(s) - n PROVE r[i] = u[i]
    <3>1. k + i \in 1 .. Len(s) - l /\ l + (k + i) = n + i
      <4>1. l + k = n /\ Len(s) \in Nat /\ l \in Nat /\ k \in Nat /\ i \in 1 .. Len(s) - n BY <1>1, <1>2
      <4> QED BY ONLY <4>1
    <3> QED BY <1>3, <2>1, <2>3, <2>4, <3>1
  <2>6. r = u BY <2>1, <2>3, <2>4, <2>5, SameSeq
  <2> QED BY <2>6 DEF r, u, QueueOf
<1> QED BY <1>9, <1>10, <1>11, <1>12 DEF n, q, g, es
---------------------------------------------------------------------------
\* The streams of the connections, and what a step means to them.

ConnStream(f) ==
    Promised(f) =>
       /\ StreamIs(sent[f], LastOf(handled[f]), pheader[f], pdata[f], TextOf(f), wire[f])
       /\ HandledIs(sent[f], handled[f])

StreamsOn == \A f \in Fds : ConnStream(f)

\* The inductive invariant of the refinement.
StreamInv == LoopInv /\ StreamsOn

Kept(f) ==
    \/ Promised(f) /\ Promised(f)' /\ sent'[f] = sent[f] /\ handled'[f] = handled[f]
    \/ ~Promised(f) /\ ~Promised(f)'

Closes(f) == ~Promised(f)' \/ (sent'[f] = <<>> /\ handled'[f] = <<>>)

Grows(f) ==
    /\ Promised(f) /\ Promised(f)'
    /\ \E p \in Packets : sent'[f] = Append(sent[f], p) /\ handled'[f] = handled[f]

\* e is what is handed on next.
NextEntry(s, l, e) ==
    /\ e \in Entries /\ e.n \in DOMAIN s /\ s[e.n].header = "ok" /\ e.data = PayloadBytes(e.n, s[e.n])
    /\ e.n - 1 \in l .. Len(s) /\ Skips(s, l, e.n - 1)

Handles(f) ==
    /\ Promised(f) /\ Promised(f)' /\ sent'[f] = sent[f]
    /\ \E e : NextEntry(sent[f], LastOf(handled[f]), e) /\ handled'[f] = Append(handled[f], e)

Moves ==
    \/ \A f \in Fds : Kept(f)
    \/ \E c \in Fds : (\A f \in Fds : f # c => Kept(f)) /\ (Closes(c) \/ Grows(c) \/ Handles(c))

LEMMA ViewIs ==
    /\ queue = [f \in Fds |-> IF Promised(f) THEN QueueOf(sent[f], LastOf(handled[f])) ELSE <<>>]
    /\ log = [f \in Fds |-> IF Promised(f) THEN LogOf(sent[f], handled[f]) ELSE <<>>]
BY DEF queue, log, LastHandled, QueueOf, LastOf, LogOf, Rebuilt, Built

LEMMA ViewWillBe ==
    /\ queue' = [f \in Fds |-> IF Promised(f)' THEN QueueOf(sent'[f], LastOf(handled'[f])) ELSE <<>>]
    /\ log' = [f \in Fds |-> IF Promised(f)' THEN LogOf(sent'[f], handled'[f]) ELSE <<>>]
BY DEF queue, log, LastHandled, QueueOf, LastOf, LogOf, Rebuilt, Built

\* Under the invariant, what the steps do to sent and handled are the steps of PacketStream.
LEMMA MovesRefine ==
    ASSUME StreamInv, Moves
    PROVE  [Stream!Next]_(Stream!vars)
<1> DEFINE Q(f) == IF Promised(f) THEN QueueOf(sent[f], LastOf(handled[f])) ELSE <<>>
           G(f) == IF Promised(f) THEN LogOf(sent[f], handled[f]) ELSE <<>>
           QN(f) == IF Promised(f)' THEN QueueOf(sent'[f], LastOf(handled'[f])) ELSE <<>>
           GN(f) == IF Promised(f)' THEN LogOf(sent'[f], handled'[f]) ELSE <<>>
<1>1. queue = [f \in Fds |-> Q(f)] /\ log = [f \in Fds |-> G(f)] BY ViewIs
<1>2. queue' = [f \in Fds |-> QN(f)] /\ log' = [f \in Fds |-> GN(f)] BY ViewWillBe
<1>3. \A f \in Fds : Kept(f) => QN(f) = Q(f) /\ GN(f) = G(f) BY DEF Kept
<1>4. ASSUME NEW c \in Fds
      PROVE  /\ sent[c] \in Seq(Packets) /\ LastOf(handled[c]) \in 0 .. Len(sent[c])
             /\ handled[c] \in Seq(Entries) /\ (Promised(c) => HandledIs(sent[c], handled[c]))
    BY DEF StreamInv, StreamsOn, ConnStream, LoopInv, LoopTypes, ConnOK, Shaped, ShapeIs
<1>5. CASE \A f \in Fds : Kept(f)
  <2>1. \A f \in Fds : QN(f) = Q(f) /\ GN(f) = G(f) BY <1>3, <1>5
  <2> HIDE DEF Q, G, QN, GN
  <2>2. queue' = queue /\ log' = log BY <1>1, <1>2, <2>1
  <2> QED BY <2>2 DEF Stream!vars
<1>6. ASSUME NEW c \in Fds, \A f \in Fds : f # c => Kept(f), Closes(c) PROVE Stream!Close(c)
  <2>1. LastOf(<<>>) = 0 BY DEF LastOf
  <2>2. QN(c) = <<>> /\ GN(c) = <<>> BY <1>6, <2>1, ViewNew DEF Closes
  <2>3. \A f \in Fds : f # c => QN(f) = Q(f) /\ GN(f) = G(f) BY <1>3, <1>6
  <2> HIDE DEF Q, G, QN, GN
  <2>4. queue' = [queue EXCEPT ![c] = <<>>] /\ log' = [log EXCEPT ![c] = <<>>] BY <1>1, <1>2, <2>2, <2>3
  <2> QED BY <2>4 DEF Stream!Close
<1>7. ASSUME NEW c \in Fds, \A f \in Fds : f # c => Kept(f), Grows(c) PROVE \E p \in Packets : Stream!Send(c, p)
  <2>1. PICK p \in Packets : sent'[c] = Append(sent[c], p) /\ handled'[c] = handled[c] BY <1>7 DEF Grows
  <2>0. Promised(c) /\ Promised(c)' BY <1>7 DEF Grows
  <2>2. QN(c) = Append(Q(c), p) /\ GN(c) = G(c) BY <1>4, <2>0, <2>1, ViewSends
  <2>3. \A f \in Fds : f # c => QN(f) = Q(f) /\ GN(f) = G(f) BY <1>3, <1>7
  <2> HIDE DEF Q, G, QN, GN
  <2>4. queue' = [queue EXCEPT ![c] = Append(queue[c], p)] /\ log' = log BY <1>1, <1>2, <2>2, <2>3
  <2> QED BY <2>4 DEF Stream!Send
<1>8. ASSUME NEW c \in Fds, \A f \in Fds : f # c => Kept(f), Handles(c)
      PROVE  \E k \in DOMAIN queue[c] : Stream!Handle(c, k)
  <2> DEFINE s == sent[c]  l == LastOf(handled[c])
  <2>1. PICK e : NextEntry(s, l, e) /\ handled'[c] = Append(handled[c], e) BY <1>8 DEF Handles
  <2>2. sent'[c] = s /\ e \in Entries /\ Promised(c) /\ Promised(c)' BY <1>8, <2>1 DEF Handles, NextEntry
  <2>3. LastOf(handled'[c]) = e.n BY <1>4, <2>1, <2>2, LastOfAppend
  <2>4. s[e.n].header = "ok" BY <2>1 DEF NextEntry
  <2>5. PICK k \in DOMAIN QueueOf(s, l) :
           /\ QueueOf(s, l)[k] = s[e.n]
           /\ k > 1 => LogOf(s, handled[c]) # <<>> /\ LogOf(s, handled[c])[Len(LogOf(s, handled[c]))].line
           /\ LogOf(s, Append(handled[c], e)) = Append(LogOf(s, handled[c]), QueueOf(s, l)[k])
           /\ QueueOf(s, e.n) = SubSeq(QueueOf(s, l), k + 1, Len(QueueOf(s, l)))
    <3>1. /\ s \in Seq(Packets) /\ l \in 0 .. Len(s) /\ handled[c] \in Seq(Entries) /\ HandledIs(s, handled[c])
          /\ l = LastOf(handled[c])
        BY <1>4, <2>2
    <3>2. /\ e \in Entries /\ e.n \in DOMAIN s /\ e.data = PayloadBytes(e.n, s[e.n])
          /\ e.n - 1 \in l .. Len(s) /\ Skips(s, l, e.n - 1)
        BY <2>1 DEF NextEntry
    <3> HIDE DEF s, l
    <3> QED BY <3>1, <3>2, ViewHandles
  <2>6. /\ k \in DOMAIN Q(c) /\ Q(c)[k].header = "ok" /\ (k > 1 => G(c) # <<>> /\ G(c)[Len(G(c))].line)
        /\ GN(c) = Append(G(c), Q(c)[k]) /\ QN(c) = SubSeq(Q(c), k + 1, Len(Q(c)))
      BY <2>1, <2>2, <2>3, <2>4, <2>5
  <2>7. \A f \in Fds : f # c => QN(f) = Q(f) /\ GN(f) = G(f) BY <1>3, <1>8
  <2> HIDE DEF Q, G, QN, GN
  <2>8. queue[c] = Q(c) /\ log[c] = G(c) BY <1>1
  <2>9. /\ queue' = [queue EXCEPT ![c] = SubSeq(queue[c], k + 1, Len(queue[c]))]
        /\ log' = [log EXCEPT ![c] = Append(log[c], queue[c][k])]
      BY <1>1, <1>2, <2>6, <2>7, <2>8
  <2> QED BY <2>6, <2>8, <2>9 DEF Stream!Handle
<1> QED BY <1>5, <1>6, <1>7, <1>8 DEF Moves, Stream!Next
---------------------------------------------------------------------------
\* Steps, once more: what they leave of the streams.

LEMMA SameStream == ASSUME NEW f \in Fds, ConnStream(f), Same(f) PROVE ConnStream(f)' /\ Kept(f)
BY DEF ConnStream, Kept, Same

LEMMA SettledStream == ASSUME StreamsOn, Settles PROVE StreamsOn' /\ Moves
<1>1. PICK c : Settled(c) BY DEF Settles
<1>2. ASSUME NEW g \in Fds, Same(g) \/ Idle(g) PROVE ConnStream(g)' /\ Kept(g)
  <2>1. CASE Same(g) BY <2>1, SameStream DEF StreamsOn
  <2>2. CASE Idle(g) BY <2>2 DEF Idle, ConnStream, Kept
  <2> QED BY <1>2, <2>1, <2>2
<1>3. ASSUME NEW g \in Fds, Lost(g) \/ Fresh(g) PROVE ConnStream(g)' /\ Closes(g)
  <2>1. CASE Lost(g) BY <2>1 DEF Lost, ConnStream, Closes
  <2>2. CASE Fresh(g)
    <3>1. LastOf(<<>>) = 0 BY DEF LastOf
    <3>2. ConnStream(g)' BY <2>2, <3>1, StreamNew, ViewNew DEF ConnStream, Fresh
    <3> QED BY <2>2, <3>2 DEF Closes, Fresh
  <2> QED BY <1>3, <2>1, <2>2
<1>4. StreamsOn' BY <1>1, <1>2, <1>3 DEF Settled, StreamsOn
<1>5. Moves
  <2>1. CASE c \in Fds /\ (Lost(c) \/ Fresh(c))
    <3>1. \A g \in Fds : g # c => Kept(g) BY <1>1, <1>2 DEF Settled
    <3> QED BY <1>3, <2>1, <3>1 DEF Moves
  <2>2. CASE ~(c \in Fds /\ (Lost(c) \/ Fresh(c)))
    <3>1. \A g \in Fds : Kept(g) BY <1>1, <1>2, <2>2 DEF Settled
    <3> QED BY <3>1 DEF Moves
  <2> QED BY <2>1, <2>2
<1> QED BY <1>4, <1>5

LEMMA sendStream == ASSUME LoopInv, StreamsOn, NEW f \in Fds, NEW p \in Packets, send(f, p) PROVE StreamsOn' /\ Moves
<1> DEFINE e == Frame(Len(sent[f]) + 1, p)
<1>1. /\ sent[f] \in Seq(Packets) /\ wire[f] \in Texts /\ pheader[f] \in Texts /\ pdata[f] \in Texts
      /\ handled[f] \in Seq(Entries) /\ TextOf(f) \in Texts /\ LastOf(handled[f]) \in 0 .. Len(sent[f])
    BY TextIsText DEF LoopInv, LoopTypes, ConnOK, Shaped, ShapeIs
<1>2. Sent(f, p) BY sendIs
<1>3. \A g \in Fds : g # f => ConnStream(g)' /\ Kept(g) BY <1>2, SameStream DEF Sent, StreamsOn
<1>4. ASSUME Promised(f) PROVE ConnStream(f)'
  <2>2. /\ StreamIs(sent[f], LastOf(handled[f]), pheader[f], pdata[f], TextOf(f), wire[f])
        /\ HandledIs(sent[f], handled[f])
      BY <1>4 DEF StreamsOn, ConnStream
  <2>4. StreamIs(Append(sent[f], p), LastOf(handled[f]), pheader[f], pdata[f], TextOf(f), Cat(wire[f], e))
      BY <1>1, <2>2, StreamSends
  <2>5. HandledIs(Append(sent[f], p), handled[f]) BY <1>1, <2>2, HandledSends
  <2> QED BY <1>2, <2>4, <2>5 DEF ConnStream, Sent
<1>5. ConnStream(f)' BY <1>2, <1>4 DEF ConnStream, Sent
<1>6. Kept(f) \/ Grows(f) BY <1>2 DEF Kept, Grows, Sent
<1> QED BY <1>3, <1>5, <1>6 DEF StreamsOn, Moves

LEMMA ReadsStream == ASSUME LoopInv, StreamsOn, NEW f \in Fds, Reads(f) PROVE StreamsOn' /\ Moves
<1>1. /\ sent[f] \in Seq(Packets) /\ wire[f] \in Texts /\ pheader[f] \in Texts /\ pdata[f] \in Texts
      /\ LastOf(handled[f]) \in 0 .. Len(sent[f])
    BY DEF LoopInv, LoopTypes, ConnOK, Shaped, ShapeIs
<1>2. PICK n \in 1 .. Len(wire[f]) :
         TextOf(f)' = UpToLineEnd(SubSeq(wire[f], 1, n)) /\ wire'[f] = SubSeq(wire[f], n + 1, Len(wire[f]))
    BY DEF Reads
<1>3. PICK x, r : x = UpToLineEnd(SubSeq(wire[f], 1, n)) /\ r = SubSeq(wire[f], n + 1, Len(wire[f])) OBVIOUS
<1>4. ReadsAs(wire[f], x, r) BY <1>1, <1>2, <1>3, ReadIs
<1>5. ASSUME Promised(f) PROVE ConnStream(f)'
  <2>1. /\ StreamIs(sent[f], LastOf(handled[f]), pheader[f], pdata[f], <<>>, wire[f])
        /\ HandledIs(sent[f], handled[f])
      BY <1>5 DEF StreamsOn, ConnStream, Reads
  <2>2. StreamIs(sent[f], LastOf(handled[f]), pheader[f], pdata[f], x, r) BY <1>1, <1>4, <2>1, StreamReads
  <2> QED BY <1>2, <1>3, <2>1, <2>2 DEF ConnStream, Reads
<1>6. ConnStream(f)' BY <1>5 DEF ConnStream, Reads
<1>7. Kept(f) BY DEF Kept, Reads
<1>8. \A g \in Fds : g # f => ConnStream(g)' /\ Kept(g) BY SameStream DEF Reads, StreamsOn
<1> QED BY <1>6, <1>7, <1>8 DEF StreamsOn, Moves

\* What has been handed on when the buffers of c are left as they are.
Handed(c, entries) ==
    \/ entries = handled[c]
    \/ \E e : NextEntry(sent[c], LastOf(handled[c]), e) /\ entries = Append(handled[c], e)

LEMMA LeftStream ==
    ASSUME LoopInv, StreamsOn, NEW c \in Fds, pc = "parse", player = c,
           NEW hd, NEW d, NEW rest, NEW entries, Left(c, hd, d, entries, rest), Charged(c), UNCHANGED leaving,
           Promised(c) => /\ StreamIs(sent[c], LastOf(entries), hd, d, rest, wire[c])
                          /\ HandledIs(sent[c], entries) /\ Handed(c, entries)
    PROVE  StreamsOn' /\ Moves
<1>1. DOMAIN handled = Fds /\ DOMAIN pheader = Fds /\ DOMAIN pdata = Fds BY DEF LoopInv, LoopTypes
<1>2. UNCHANGED <<sent, wire>> /\ pheader'[c] = hd /\ pdata'[c] = d /\ handled'[c] = entries
    BY <1>1 DEF Left, clientVars
<1>3. TextOf(c)' = rest BY DEF Left, TextOf
<1>4. (\A g \in Fds : g # c => Same(g)) /\ (Promised(c)' <=> Promised(c)) BY LeftOthers
<1>5. \A g \in Fds : g # c => ConnStream(g)' /\ Kept(g) BY <1>4, SameStream DEF StreamsOn
<1>6. ConnStream(c)' BY <1>2, <1>3, <1>4 DEF ConnStream
<1>7. Kept(c) \/ Handles(c) BY <1>2, <1>4 DEF Kept, Handles, Handed
<1> QED BY <1>5, <1>6, <1>7 DEF StreamsOn, Moves

\* The four ways parse_packet may go on.
LEMMA GoOnStream ==
    ASSUME LoopInv, StreamsOn, NEW c \in Fds, pc = "parse", player = c, UNCHANGED leaving,
           NEW hd, NEW d, NEW rest, NEW entries, NEW i \in 0 .. MaxInval - 1,
           Promised(c) => /\ StreamIs(sent[c], LastOf(entries), hd, d, rest, wire[c])
                          /\ HandledIs(sent[c], entries) /\ Handed(c, entries),
           go_on(c, hd, d, entries, i, rest)
    PROVE  StreamsOn' /\ Moves
<1>1. Counted(c, i) /\ Left(c, hd, d, entries, rest) BY DEF go_on, Left
<1>2. Charged(c) BY <1>1, CountedIs DEF LoopInv
<1> QED BY <1>1, <1>2, LeftStream

LEMMA goto_dcStream ==
    ASSUME LoopInv, StreamsOn, NEW c \in Fds, pc = "parse", player = c, goto_dc(c) \/ contested,
           UNCHANGED <<leaving, arriving, tests, a2read>>
    PROVE  StreamsOn' /\ Moves
<1>1. CASE goto_dc(c) BY <1>1, goto_dcStep, SettledStream
<1>2. CASE contested
  <2>1. /\ pc' = "contested" /\ player' = c /\ replaced' = replaced
        /\ UNCHANGED <<clientVars, leaving, arriving, buffers, p_ptr>>
      BY <1>2 DEF contested, held
  <2>2. /\ replaced \in {Current} \cup 0 .. MaxInval - 1 /\ a2read' \in BOOLEAN /\ tests' \subseteq tests
        /\ \A g \in Fds : g # c => TextOf(g) = <<>>
      BY DEF LoopInv, LoopTypes, TextOf
  <2> QED BY <2>1, <2>2, ContestedStep, SettledStream
<1> QED BY <1>1, <1>2

LEMMA returnStream ==
    ASSUME LoopInv, StreamsOn, NEW c \in Fds, pc = "parse", player = c,
           UNCHANGED <<leaving, arriving, tests, a2read>>, NEW hd, NEW d, NEW rest, NEW entries,
           Promised(c) => /\ StreamIs(sent[c], LastOf(entries), hd, d, rest, wire[c])
                          /\ HandledIs(sent[c], entries) /\ Handed(c, entries),
           return(c, hd, d, entries, rest)
    PROVE  StreamsOn' /\ Moves
<1>1. CASE Left(c, hd, d, entries, rest) /\ invalid_sends' = [invalid_sends EXCEPT ![c] = 0] /\ replaced' = Sends(c)
  <2>1. invalid_sends \in [Fds -> 0 .. MaxInval - 1] /\ MaxInval \in Nat \ {0}
      BY LoopAssumption DEF LoopInv, LoopTypes
  <2>2. Sends(c) \in 0 .. MaxInval - 1 BY CountedIs DEF LoopInv
  <2>3. invalid_sends' \in [Fds -> 0 .. MaxInval - 1] BY <1>1, <2>1
  <2>4. Charged(c) BY <1>1, <2>1, <2>2, <2>3 DEF Charged
  <2> QED BY <1>1, <2>4, LeftStream
<1>2. CASE contested BY <1>2, goto_dcStream
<1> QED BY <1>1, <1>2 DEF return, Left

LEMMA inv_dataStream ==
    ASSUME LoopInv, StreamsOn, NEW c \in Fds, pc = "parse", player = c,
           UNCHANGED <<leaving, arriving, tests, a2read>>, NEW hd, NEW d, NEW rest, NEW entries,
           Promised(c) => /\ StreamIs(sent[c], LastOf(entries), hd, d, rest, wire[c])
                          /\ HandledIs(sent[c], entries) /\ Handed(c, entries),
           inv_data(c, hd, d, entries, rest)
    PROVE  StreamsOn' /\ Moves
<1>1. CASE goto_dc(c) BY <1>1, goto_dcStream
<1>2. CASE Sends(c) + 1 < MaxInval /\ go_on(c, hd, d, entries, Sends(c) + 1, rest)
  <2>1. Sends(c) \in 0 .. MaxInval - 1 /\ MaxInval \in Nat
      BY LoopAssumption, CountedIs DEF LoopInv
  <2>2. Sends(c) + 1 \in 0 .. MaxInval - 1 BY <1>2, <2>1
  <2> QED BY <1>2, <2>2, GoOnStream
<1> QED BY <1>1, <1>2 DEF inv_data

LEMMA handle_packetStream ==
    ASSUME LoopInv, StreamsOn, NEW c \in Fds, pc = "parse", player = c,
           UNCHANGED <<leaving, arriving, tests, a2read>>, NEW n \in DOMAIN sent[c],
           sent[c][n].header = "ok", NEW d \in Texts, NEW rest,
           Promised(c) => /\ d = PayloadBytes(n, sent[c][n]) /\ StreamIs(sent[c], n, <<>>, <<>>, rest, wire[c])
                          /\ n - 1 \in LastOf(handled[c]) .. Len(sent[c]) /\ Skips(sent[c], LastOf(handled[c]), n - 1),
           handle_packet(c, n, d, rest)
    PROVE  StreamsOn' /\ Moves
<1> DEFINE e == [n |-> n, data |-> d]  entries == Append(handled[c], e)
<1>1. /\ sent[c] \in Seq(Packets) /\ handled[c] \in Seq(Entries) /\ (Promised(c) => HandledIs(sent[c], handled[c]))
    BY DEF LoopInv, LoopTypes, StreamsOn, ConnStream
<1>2. n \in Nat BY <1>1, LenProperties
<1>3. e \in Entries /\ e.n = n /\ e.data = d BY <1>2 DEF Entries
<1>4. \/ go_on(c, <<>>, <<>>, entries, Sends(c), rest)
      \/ inv_data(c, <<>>, <<>>, entries, rest) \/ goto_dc(c)
      \/ return(c, <<>>, <<>>, entries, rest)
    BY DEF handle_packet
<1> HIDE DEF e
<1>5. Promised(c) => NextEntry(sent[c], LastOf(handled[c]), e) BY <1>3 DEF NextEntry
<1>6. LastOf(entries) = n BY <1>1, <1>3, LastOfAppend
<1>7. Promised(c) => HandledIs(sent[c], entries) BY <1>1, <1>3, HandledHandles
<1>8. Promised(c) => Handed(c, entries) BY <1>5 DEF Handed
<1> HIDE DEF entries
<1>9. Promised(c) => /\ StreamIs(sent[c], LastOf(entries), <<>>, <<>>, rest, wire[c])
                     /\ HandledIs(sent[c], entries) /\ Handed(c, entries)
    BY <1>6, <1>7, <1>8
<1>10. CASE go_on(c, <<>>, <<>>, entries, Sends(c), rest)
  <2>1. Sends(c) \in 0 .. MaxInval - 1 BY CountedIs DEF LoopInv
  <2> QED BY <1>9, <1>10, <2>1, GoOnStream
<1>11. CASE inv_data(c, <<>>, <<>>, entries, rest) BY <1>9, <1>11, inv_dataStream
<1>12. CASE goto_dc(c) BY <1>12, goto_dcStream
<1>13. CASE return(c, <<>>, <<>>, entries, rest) BY <1>9, <1>13, returnStream
<1> QED BY <1>4, <1>10, <1>11, <1>12, <1>13

\* Of a client who is promised nothing, no stream is followed.
LEMMA parse_mixedStream ==
    ASSUME LoopInv, StreamsOn, NEW c \in Fds, pc = "parse", player = c, ~Promised(c),
           UNCHANGED <<leaving, arriving, tests, a2read>>, parse_packet(c) \/ parse_mixed(c)
    PROVE  StreamsOn' /\ Moves
<1>1. Sends(c) \in 0 .. MaxInval - 1 BY CountedIs DEF LoopInv
<1>2. ASSUME NEW hd, NEW d, NEW entries, NEW rest,
             go_on(c, hd, d, entries, Sends(c), rest) \/ inv_data(c, hd, d, entries, rest)
                \/ return(c, hd, d, entries, rest) \/ goto_dc(c)
      PROVE  StreamsOn' /\ Moves
  <2>1. CASE go_on(c, hd, d, entries, Sends(c), rest) BY <1>1, <2>1, GoOnStream
  <2>2. CASE inv_data(c, hd, d, entries, rest) BY <2>2, inv_dataStream
  <2>3. CASE return(c, hd, d, entries, rest) BY <2>3, returnStream
  <2>4. CASE goto_dc(c) BY <2>4, goto_dcStream
  <2> QED BY <1>2, <2>1, <2>2, <2>3, <2>4
<1>3. CASE parse_mixed(c) BY <1>2, <1>3 DEF parse_mixed
<1>4. CASE parse_packet(c)
  <2>1. ASSUME NEW n, NEW d, NEW rest, handle_packet(c, n, d, rest) PROVE StreamsOn' /\ Moves
      BY <1>2, <2>1 DEF handle_packet
  <2>2. PICK h, t : h = Full(pheader[c], p_ptr, HeaderSize) /\ t = Rest(pheader[c], p_ptr, HeaderSize) OBVIOUS
  <2> QED BY <1>2, <1>4, <2>1, <2>2, ParseCases
<1> QED BY <1>3, <1>4

LEMMA parse_packetStream ==
    ASSUME LoopInv, StreamsOn, NEW c \in Fds, pc = "parse", player = c, Promised(c), parse_packet(c),
           UNCHANGED <<leaving, arriving, tests, a2read>>
    PROVE  StreamsOn' /\ Moves
<1> DEFINE s == sent[c]  l == LastOf(handled[c])  hd == pheader[c]  d == pdata[c]  w == wire[c]
           h == Full(hd, p_ptr, HeaderSize)  t == Rest(hd, p_ptr, HeaderSize)
<1>1. Sends(c) \in 0 .. MaxInval - 1 /\ Handed(c, handled[c]) BY CountedIs DEF LoopInv, Handed
<1>2. /\ s \in Seq(Packets) /\ hd \in Texts /\ d \in Texts /\ w \in Texts /\ p_ptr \in Texts
    BY DEF LoopInv, LoopTypes
<1>3. TextOf(c) = p_ptr BY DEF TextOf
<1>4. l \in 0 .. Len(s) /\ Len(hd) <= HeaderSize /\ (Len(hd) < HeaderSize => d = <<>>)
    BY DEF LoopInv, ConnOK, Shaped, ShapeIs
<1>5. StreamIs(s, l, hd, d, p_ptr, w) /\ HandledIs(s, handled[c]) BY <1>3 DEF StreamsOn, ConnStream
<1>6. HeaderSize \in Nat BY LoopAssumption
<1>7. (Len(h) = HeaderSize => \A n \in DOMAIN s : s[n].header = "ok" => h # HeaderBytes(n)) => StreamIs(s, l, h, d, t, w)
  <2> DEFINE H == h  T == t
  <2>1. H = Full(hd, p_ptr, HeaderSize) /\ T = Rest(hd, p_ptr, HeaderSize) OBVIOUS
  <2> HIDE DEF H, T, s, l, hd, d, w
  <2>2. (Len(H) = HeaderSize => \A n \in DOMAIN s : s[n].header = "ok" => H # HeaderBytes(n)) => StreamIs(s, l, H, d, T, w)
      BY <1>2, <1>4, <1>5, <2>1, StreamHeader
  <2> QED BY <2>2 DEF H, T
<1>8. Len(h) < HeaderSize => t = <<>>
    BY <1>2, <1>4, <1>6, TakeText
<1>9. CASE Len(h) < HeaderSize /\ go_on(c, h, d, handled[c], Sends(c), <<>>)
  <2>1. Len(h) # HeaderSize BY <1>6, <1>9
  <2>2. StreamIs(s, l, h, d, <<>>, w) BY <1>7, <1>8, <1>9, <2>1
  <2> HIDE DEF h
  <2> QED BY <1>1, <1>5, <1>9, <2>2, GoOnStream
<1>10. CASE validate_header(c, h) = {} /\ inv_data(c, h, d, handled[c], t)
  <2>1. \A n \in DOMAIN s : s[n].header = "ok" => h # HeaderBytes(n) BY <1>10 DEF validate_header
  <2>2. StreamIs(s, l, h, d, t, w) BY <1>7, <2>1
  <2> HIDE DEF h, t
  <2> QED BY <1>1, <1>5, <1>10, <2>2, inv_dataStream
<1>11. ASSUME NEW n \in validate_header(c, h),
             \/ /\ Len(Full(d, t, s[n].len)) < s[n].len
                /\ go_on(c, h, Full(d, t, s[n].len), handled[c], Sends(c), <<>>)
             \/ /\ Len(Full(d, t, s[n].len)) = s[n].len
                /\ handle_packet(c, n, Full(d, t, s[n].len), Rest(d, t, s[n].len))
      PROVE  StreamsOn' /\ Moves
  <2> DEFINE size == s[n].len  u == Full(d, t, size)  v == Rest(d, t, size)
  <2>1. n \in DOMAIN s /\ h = HeaderBytes(n) /\ s[n].header = "ok" BY <1>11 DEF validate_header
  <2>2. n \in Nat \ {0} /\ s[n] \in Packets BY <1>2, <2>1, LenProperties, ElementOfSeq
  <2>3. Len(h) = HeaderSize BY <2>1, <2>2, HeaderType
  <2>4. size \in Nat BY <2>2, LoopAssumption
  <2>5. Len(u) <= size BY <1>11, <2>4
  <2>6. /\ h \in Texts /\ t \in Texts /\ t \in Seq(PacketBytes) /\ n - 1 \in l .. Len(s) /\ Skips(s, l, n - 1)
        /\ \E tail \in Texts :
              /\ Unread(w, tail) /\ Cat(h, Cat(d, Cat(t, tail))) = Pending(s, n - 1)
              /\ Cat(d, Cat(t, tail)) = Cat(PayloadBytes(n, s[n]), Cat(Ending(s[n]), Pending(s, n)))
    <3> DEFINE H == h  T == t
    <3>1. /\ H = Full(hd, p_ptr, HeaderSize) /\ T = Rest(hd, p_ptr, HeaderSize)
          /\ H = HeaderBytes(n) /\ Len(H) = HeaderSize
        BY <2>1, <2>3
    <3> SUFFICES /\ H \in Texts /\ T \in Texts /\ T \in Seq(PacketBytes) /\ n - 1 \in l .. Len(s) /\ Skips(s, l, n - 1)
                 /\ \E tail \in Texts :
                      /\ Unread(w, tail) /\ Cat(H, Cat(d, Cat(T, tail))) = Pending(s, n - 1)
                      /\ Cat(d, Cat(T, tail)) = Cat(PayloadBytes(n, s[n]), Cat(Ending(s[n]), Pending(s, n)))
        OBVIOUS
    <3> HIDE DEF H, T, s, l, hd, d, w
    <3> QED BY <1>2, <1>4, <1>5, <2>1, <3>1, PacketFound
  <2>7. PICK tail \in Texts :
              /\ Unread(w, tail) /\ Cat(h, Cat(d, Cat(t, tail))) = Pending(s, n - 1)
              /\ Cat(d, Cat(t, tail)) = Cat(PayloadBytes(n, s[n]), Cat(Ending(s[n]), Pending(s, n)))
      BY <2>6
  <2>8. Len(d) <= size
    <3> HIDE DEF t
    <3> QED BY <1>2, <2>4, <2>5, <2>6, TextFits
  <2>9. u \in Texts
    <3> HIDE DEF t
    <3> QED BY <1>2, <2>4, <2>6, <2>8, TakeText
  <2>10. CASE Len(u) < size /\ go_on(c, h, u, handled[c], Sends(c), <<>>)
    <3>1. StreamIs(s, l, h, u, <<>>, w)
      <4> DEFINE U == u  V == v
      <4>1. U = Full(d, t, s[n].len) /\ V = Rest(d, t, s[n].len) /\ Len(U) < s[n].len BY <2>10
      <4> SUFFICES StreamIs(s, l, h, U, <<>>, w) OBVIOUS
      <4> HIDE DEF U, V, h, t, s, l, d, w
      <4> QED BY <1>2, <1>4, <2>1, <2>3, <2>6, <2>7, <2>8, <4>1, StreamPart DEF size
    <3> HIDE DEF h, u
    <3> QED BY <1>1, <1>5, <2>10, <3>1, GoOnStream
  <2>11. CASE Len(u) = size /\ handle_packet(c, n, u, v)
    <3>1. u = PayloadBytes(n, s[n]) /\ StreamIs(s, n, <<>>, <<>>, v, w)
      <4> DEFINE U == u  V == v
      <4>1. U = Full(d, t, s[n].len) /\ V = Rest(d, t, s[n].len) /\ Len(U) = s[n].len BY <2>11
      <4> SUFFICES U = PayloadBytes(n, s[n]) /\ StreamIs(s, n, <<>>, <<>>, V, w) OBVIOUS
      <4> HIDE DEF U, V, h, t, s, l, d, w
      <4> QED BY <1>2, <2>1, <2>6, <2>7, <2>8, <4>1, StreamHandled DEF size
    <3> HIDE DEF u, v
    <3> QED BY <1>1, <2>1, <2>6, <2>9, <2>11, <3>1, handle_packetStream
  <2> QED BY <1>11, <2>10, <2>11
<1> QED BY <1>1, <1>9, <1>10, <1>11, ParseCases

LEMMA parseStream == ASSUME LoopInv, StreamsOn, parse PROVE StreamsOn' /\ Moves
<1>0. PICK c : c = player OBVIOUS
<1>1. /\ c \in Fds /\ player = c /\ pc = "parse" /\ UNCHANGED <<leaving, arriving, tests, a2read>>
      /\ \/ c \notin mixed /\ parse_packet(c)
         \/ c \in mixed /\ parse_mixed(c)
    BY <1>0 DEF parse
<1>2. CASE Promised(c)
  <2>1. parse_packet(c) BY <1>1, <1>2 DEF Promised
  <2> QED BY <1>1, <1>2, <2>1, parse_packetStream
<1>3. CASE ~Promised(c) BY <1>1, <1>3, parse_mixedStream
<1> QED BY <1>2, <1>3

LEMMA NextStream == ASSUME LoopInv, StreamsOn, [Next]_vars PROVE StreamsOn' /\ Moves
BY NextIs, SettledStream, parseStream, sendStream, ReadsStream

LEMMA InitStream == Init => StreamsOn /\ Stream!Init
<1> SUFFICES ASSUME Init PROVE StreamsOn /\ Stream!Init OBVIOUS
<1>1. \A f \in Fds : /\ sent[f] = <<>> /\ wire[f] = <<>> /\ handled[f] = <<>> /\ pheader[f] = <<>>
                     /\ pdata[f] = <<>> /\ TextOf(f) = <<>>
    BY DEF Init, TextOf
<1>2. LastOf(<<>>) = 0 BY DEF LastOf
<1>3. StreamsOn BY <1>1, <1>2, StreamNew, ViewNew DEF StreamsOn, ConnStream
<1>4. \A f \in Fds : QueueOf(sent[f], LastOf(handled[f])) = <<>> /\ LogOf(sent[f], handled[f]) = <<>>
    BY <1>1, <1>2, ViewNew
<1>5. queue = [c \in Fds |-> <<>>] /\ log = [c \in Fds |-> <<>>] BY <1>4, ViewIs
<1> QED BY <1>3, <1>5 DEF Stream!Init

\* The loop implements PacketStream: however the network cuts a stream up, and whatever wrong
\* headers, wrong packets and line ends a client has sent, the packets handed to the handlers are
\* his, in the order he sent them, once each and intact, and none is passed over unless a line end
\* was sent before it.  His stream ends when a thread begins to disconnect him, when the bytes of
\* another get into his buffers, or when he is disconnected twice.
THEOREM StreamCorrect == Spec => StreamSpec
<1>1. Init => LoopInv /\ StreamsOn /\ Stream!Init
    BY InitLoop, InitStream
<1>2. LoopInv /\ StreamsOn /\ [Next]_vars => LoopInv' /\ StreamsOn' /\ [Stream!Next]_(Stream!vars)
  <2> SUFFICES ASSUME LoopInv, StreamsOn, [Next]_vars
               PROVE  LoopInv' /\ StreamsOn' /\ [Stream!Next]_(Stream!vars)
      OBVIOUS
  <2>1. LoopInv' BY NextLoop
  <2>2. StreamsOn' /\ Moves BY NextStream
  <2>3. StreamInv BY DEF StreamInv
  <2>4. [Stream!Next]_(Stream!vars) BY <2>2, <2>3, MovesRefine
  <2> QED BY <2>1, <2>2, <2>4
<1> QED BY <1>1, <1>2, PTL DEF Spec, StreamSpec, Stream!Spec
=============================================================================
