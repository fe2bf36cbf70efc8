--------------------------- MODULE UsbDataProofs ---------------------------
(***************************************************************************)
(* What the dock makes of the data it is sent over USB and what it tells   *)
(* of itself: the lines of the handheld's log for any letters, buffer and  *)
(* reads; the walk over a handheld's configuration for any buffer and any  *)
(* number of descriptors; the dock's serial number for any fuses, versions *)
(* and strings.  Each is a loop or a recursive function: the proofs are by *)
(* induction over its turns.                                               *)
(***************************************************************************)
EXTENDS CdcLine, ConfigWalk, DeviceInfo, Integers, SequenceTheorems, FiniteSetTheorems,
        WellFoundedInduction, TLAPS

-----------------------------------------------------------------------------
(* Induction over the naturals, from the library's least element of a      *)
(* well-founded set.                                                       *)
LEMMA Smallest ==
    ASSUME NEW S \in SUBSET Nat, S # {}
    PROVE  \E n \in S : \A m \in S : n <= m
<1> DEFINE R == {p \in Nat \X Nat : p[1] < p[2]}
<1>1. IsWellFoundedOn(R, Nat)
  BY NatLessThanWellFounded DEF OpToRel
<1>2. \A m, n \in Nat : m < n => <<m, n>> \in R
  OBVIOUS
<1> HIDE DEF R
<1>3. PICK n \in S : \A m \in S : ~ (<<m, n>> \in R)
  BY <1>1, WFMin
<1>4. ASSUME NEW m \in S PROVE n <= m
  <2>1. m \in Nat /\ n \in Nat
    OBVIOUS
  <2>2. ~ (m < n)
    BY <1>2, <1>3, <2>1
  <2> QED
    BY <2>1, <2>2
<1> QED
  BY <1>4

LEMMA Induction ==
    ASSUME NEW S \in SUBSET Nat, 0 \in S, \A n \in S : n + 1 \in S
    PROVE  S = Nat
<1> SUFFICES ASSUME Nat \ S # {} PROVE FALSE
  OBVIOUS
<1>1. PICK n \in Nat \ S : \A m \in Nat \ S : n <= m
  BY Smallest
<1>2. n # 0 /\ n - 1 \in S
  BY <1>1
<1> QED
  BY <1>1, <1>2

(* The same up to a last number. *)
LEMMA InductionTo ==
    ASSUME NEW k \in Nat, NEW S, 0 \in S,
           \A n \in 0 .. k : n < k /\ n \in S => n + 1 \in S
    PROVE  \A n \in 0 .. k : n \in S
<1> DEFINE T == {n \in Nat : n <= k => n \in S}
<1>1. 0 \in T /\ \A n \in T : n + 1 \in T
  OBVIOUS
<1>2. T = Nat
  <2> HIDE DEF T
  <2>1. T \in SUBSET Nat
    BY DEF T
  <2> QED
    BY <1>1, <2>1, Induction
<1> QED
  BY <1>2

-----------------------------------------------------------------------------
(* The handheld's log, read over its CDC interface. *)
Chars == Letters \cup {NL}

LEMMA TurnsDef ==
    ASSUME NEW s, NEW chunk \in Seq(Chars)
    PROVE  /\ Turns(s, chunk)[0] = s
           /\ \A i \in 1 .. Len(chunk) :
                  Turns(s, chunk)[i] = TakeChar(Turns(s, chunk)[i - 1], chunk[i])
<1> DEFINE Def(g, n) ==
             g = [i \in 0 .. n |-> IF i = 0 THEN s ELSE TakeChar(g[i - 1], chunk[i])]
           S == {n \in Nat : \E g : Def(g, n)}
<1>1. 0 \in S
  <2>1. Def([i \in 0 .. 0 |-> s], 0)
    OBVIOUS
  <2> QED
    BY <2>1
<1>2. ASSUME NEW n \in S PROVE n + 1 \in S
  <2>1. PICK g : Def(g, n)
    OBVIOUS
  <2> DEFINE h == [i \in 0 .. n + 1 |->
                     IF i = n + 1 THEN TakeChar(g[n], chunk[n + 1]) ELSE g[i]]
  <2>2. \A i \in 0 .. n + 1 : h[i] = IF i = 0 THEN s ELSE TakeChar(h[i - 1], chunk[i])
    BY <2>1
  <2>3. Def(h, n + 1)
    BY <2>2
  <2>4. \E f : Def(f, n + 1)
    <3> HIDE DEF h
    <3> QED
      BY <2>3
  <2>5. n + 1 \in Nat
    OBVIOUS
  <2> HIDE DEF Def
  <2> QED
    BY <2>4, <2>5
<1>3. S = Nat
  <2> HIDE DEF S
  <2>1. S \in SUBSET Nat
    BY DEF S
  <2> QED
    BY <1>1, <1>2, <2>1, Induction
<1>4. \E g : Def(g, Len(chunk))
  BY <1>3
<1>5. Def(Turns(s, chunk), Len(chunk))
  BY <1>4 DEF Turns
<1> QED
  BY <1>5

LEMMA LineStartsDef ==
    ASSUME NEW s \in Seq(Chars)
    PROVE  /\ LineStarts(s)[1] = 1
           /\ \A i \in 2 .. Len(s) + 1 :
                  LineStarts(s)[i] = IF s[i - 1] = NL /\ LineStarts(s)[i - 1] < i - 1
                                     THEN i ELSE LineStarts(s)[i - 1]
<1> DEFINE Next(g, i) == IF s[i - 1] = NL /\ g[i - 1] < i - 1 THEN i ELSE g[i - 1]
           Def(g, n) == g = [i \in 1 .. n + 1 |-> IF i = 1 THEN 1 ELSE Next(g, i)]
           S == {n \in Nat : \E g : Def(g, n)}
<1>1. 0 \in S
  <2>1. Def([i \in 1 .. 1 |-> 1], 0)
    OBVIOUS
  <2> QED
    BY <2>1
<1>2. ASSUME NEW n \in S PROVE n + 1 \in S
  <2>1. PICK g : Def(g, n)
    OBVIOUS
  <2> DEFINE h == [i \in 1 .. n + 2 |-> IF i = n + 2 THEN Next(g, i) ELSE g[i]]
  <2>2. \A i \in 1 .. n + 2 : h[i] = IF i = 1 THEN 1 ELSE Next(h, i)
    BY <2>1
  <2>3. Def(h, n + 1)
    BY <2>2
  <2>4. \E f : Def(f, n + 1)
    <3> HIDE DEF h
    <3> QED
      BY <2>3
  <2>5. n + 1 \in Nat
    OBVIOUS
  <2> HIDE DEF Def
  <2> QED
    BY <2>4, <2>5
<1>3. S = Nat
  <2> HIDE DEF S
  <2>1. S \in SUBSET Nat
    BY DEF S
  <2> QED
    BY <1>1, <1>2, <2>1, Induction
<1>4. \E g : Def(g, Len(s))
  <2>1. Len(s) \in S
    BY <1>3, LenProperties
  <2> QED
    BY <2>1
<1>5. Def(LineStarts(s), Len(s))
  BY <1>4 DEF LineStarts
<1> QED
  BY <1>5

LEMMA LineStartsRange ==
    ASSUME NEW s \in Seq(Chars)
    PROVE  \A i \in 1 .. Len(s) + 1 : LineStarts(s)[i] \in 1 .. i
<1> DEFINE S == {n \in Nat : LineStarts(s)[n + 1] \in 1 .. n + 1}
<1>1. 0 \in S
  BY LineStartsDef
<1>2. \A n \in 0 .. Len(s) : n < Len(s) /\ n \in S => n + 1 \in S
  <2> TAKE n \in 0 .. Len(s)
  <2> HAVE n < Len(s) /\ n \in S
  <2>1. LineStarts(s)[n + 2] = IF s[n + 1] = NL /\ LineStarts(s)[n + 1] < n + 1
                               THEN n + 2 ELSE LineStarts(s)[n + 1]
    <3>1. n + 2 \in 2 .. Len(s) + 1 /\ (n + 2) - 1 = n + 1
      OBVIOUS
    <3> QED
      BY <3>1, LineStartsDef
  <2> QED
    BY <2>1
<1>3. \A n \in 0 .. Len(s) : n \in S
  <2> HIDE DEF S
  <2> QED
    BY <1>1, <1>2, InductionTo, LenProperties
<1> TAKE i \in 1 .. Len(s) + 1
<1>4. i - 1 \in 0 .. Len(s) /\ (i - 1) + 1 = i
  OBVIOUS
<1> QED
  BY <1>3, <1>4

(* One character more leaves the lines before it as they were. *)
LEMMA LineStartsAppend ==
    ASSUME NEW s \in Seq(Chars), NEW c \in Chars
    PROVE  \A i \in 1 .. Len(s) + 1 : LineStarts(Append(s, c))[i] = LineStarts(s)[i]
<1> DEFINE t == Append(s, c)
           S == {n \in Nat : LineStarts(t)[n + 1] = LineStarts(s)[n + 1]}
<1>0. t \in Seq(Chars) /\ Len(t) = Len(s) + 1 /\ \A i \in 1 .. Len(s) : t[i] = s[i]
  OBVIOUS
<1> HIDE DEF t
<1>1. 0 \in S
  BY <1>0, LineStartsDef
<1>2. \A n \in 0 .. Len(s) : n < Len(s) /\ n \in S => n + 1 \in S
  <2> TAKE n \in 0 .. Len(s)
  <2> HAVE n < Len(s) /\ n \in S
  <2>1. n + 2 \in 2 .. Len(s) + 1 /\ n + 2 \in 2 .. Len(t) + 1 /\ (n + 2) - 1 = n + 1
    BY <1>0
  <2>2. LineStarts(s)[n + 2] = IF s[n + 1] = NL /\ LineStarts(s)[n + 1] < n + 1
                               THEN n + 2 ELSE LineStarts(s)[n + 1]
    BY <2>1, LineStartsDef
  <2>3. LineStarts(t)[n + 2] = IF t[n + 1] = NL /\ LineStarts(t)[n + 1] < n + 1
                               THEN n + 2 ELSE LineStarts(t)[n + 1]
    BY <1>0, <2>1, LineStartsDef
  <2>4. s[n + 1] = t[n + 1]
    BY <1>0
  <2> QED
    BY <2>2, <2>3, <2>4
<1>3. \A n \in 0 .. Len(s) : n \in S
  <2> HIDE DEF S
  <2> QED
    BY <1>1, <1>2, InductionTo, LenProperties
<1> SUFFICES ASSUME NEW i \in 1 .. Len(s) + 1 PROVE LineStarts(t)[i] = LineStarts(s)[i]
  BY DEF t
<1>4. i - 1 \in 0 .. Len(s) /\ (i - 1) + 1 = i
  OBVIOUS
<1> QED
  BY <1>3, <1>4

(* Whether one character more ends a line, and what of the line it ends or  *)
(* begins is there.                                                         *)
EndsLine(s, c) == c = NL /\ LineStarts(s)[Len(s) + 1] <= Len(s)
Open(s) == SubSeq(s, LineStarts(s)[Len(s) + 1], Len(s))

LEMMA NextStart ==
    ASSUME NEW s \in Seq(Chars), NEW c \in Chars
    PROVE  LineStarts(Append(s, c))[Len(s) + 2] =
               IF EndsLine(s, c) THEN Len(s) + 2 ELSE LineStarts(s)[Len(s) + 1]
<1> DEFINE t == Append(s, c)
           n == Len(s)
<1>1. t \in Seq(Chars) /\ Len(t) = n + 1 /\ t[n + 1] = c /\ n \in Nat
  OBVIOUS
<1> HIDE DEF t, n
<1>2. n + 2 \in 2 .. Len(t) + 1 /\ (n + 2) - 1 = n + 1
  BY <1>1
<1>3. LineStarts(t)[n + 2] = IF t[n + 1] = NL /\ LineStarts(t)[n + 1] < n + 1
                             THEN n + 2 ELSE LineStarts(t)[n + 1]
  BY <1>1, <1>2, LineStartsDef
<1>4. LineStarts(t)[n + 1] = LineStarts(s)[n + 1] /\ LineStarts(s)[n + 1] \in 1 .. n + 1
  <2>1. n + 1 \in 1 .. n + 1
    BY <1>1
  <2> QED
    BY <2>1, LineStartsAppend, LineStartsRange DEF t, n
<1>5. LineStarts(t)[n + 2] =
          IF c = NL /\ LineStarts(s)[n + 1] <= n THEN n + 2 ELSE LineStarts(s)[n + 1]
  BY <1>1, <1>3, <1>4
<1> QED
  BY <1>5 DEF t, n, EndsLine

LEMMA LineEndsAppend ==
    ASSUME NEW s \in Seq(Chars), NEW c \in Chars
    PROVE  LineEnds(Append(s, c)) =
               LineEnds(s) \cup (IF EndsLine(s, c) THEN {Len(s) + 1} ELSE {})
<1> DEFINE t == Append(s, c)
           n == Len(s)
<1>1. /\ t \in Seq(Chars) /\ Len(t) = n + 1 /\ t[n + 1] = c /\ n \in Nat
      /\ \A i \in 1 .. n : t[i] = s[i]
      /\ DOMAIN t = 1 .. n + 1 /\ DOMAIN s = 1 .. n
  OBVIOUS
<1>2. \A i \in 1 .. n + 1 : LineStarts(t)[i] = LineStarts(s)[i]
  BY LineStartsAppend
<1>3. LineStarts(s)[n + 1] \in 1 .. n + 1
  <2>1. n + 1 \in 1 .. n + 1
    BY <1>1
  <2> QED
    BY <2>1, LineStartsRange
<1> HIDE DEF t, n
<1>4. \A i : i \in LineEnds(t) <=> i \in LineEnds(s) \/ (EndsLine(s, c) /\ i = n + 1)
  <2> TAKE i
  <2>1. CASE i \in 1 .. n
    BY <1>1, <1>2, <2>1 DEF LineEnds
  <2>2. CASE i = n + 1
    <3>1. i \notin LineEnds(s)
      BY <1>1, <2>2 DEF LineEnds
    <3>2. i \in LineEnds(t) <=> c = NL /\ LineStarts(s)[n + 1] < n + 1
      BY <1>1, <1>2, <2>2 DEF LineEnds
    <3>3. LineStarts(s)[n + 1] < n + 1 <=> LineStarts(s)[n + 1] <= n
      BY <1>1, <1>3
    <3> QED
      BY <2>2, <3>1, <3>2, <3>3 DEF EndsLine, n
  <2>3. CASE i \notin 1 .. n + 1
    BY <1>1, <2>3 DEF LineEnds
  <2> QED
    BY <1>1, <2>1, <2>2, <2>3
<1>5. LineEnds(t) = LineEnds(s) \cup (IF EndsLine(s, c) THEN {n + 1} ELSE {})
  BY <1>4
<1> QED
  BY <1>5 DEF t, n

LEMMA LineEndsFinite ==
    ASSUME NEW s \in Seq(Chars)
    PROVE  /\ LineEnds(s) \subseteq 1 .. Len(s) /\ IsFiniteSet(LineEnds(s))
           /\ Cardinality(LineEnds(s)) \in Nat
<1>1. LineEnds(s) \subseteq 1 .. Len(s)
  BY DEF LineEnds
<1>2. IsFiniteSet(1 .. Len(s))
  BY LenProperties, FS_Interval
<1> QED
  BY <1>1, <1>2, FS_Subset, FS_CardinalityType

(* A last element more is the one after all the others. *)
LEMMA NthOfMore ==
    ASSUME NEW k \in Nat, NEW S \in SUBSET (1 .. k)
    PROVE  /\ Cardinality(S \cup {k + 1}) = Cardinality(S) + 1
           /\ Nth(S \cup {k + 1}, Cardinality(S) + 1) = k + 1
           /\ \A n \in 1 .. Cardinality(S) : Nth(S \cup {k + 1}, n) = Nth(S, n)
<1> DEFINE T == S \cup {k + 1}
           C == Cardinality(S)
<1>0. \A e \in S : e \in Nat /\ e <= k
  OBVIOUS
<1>1. IsFiniteSet(S) /\ C \in Nat /\ k + 1 \notin S
  <2>1. IsFiniteSet(1 .. k) /\ S \subseteq 1 .. k
    BY FS_Interval
  <2>2. IsFiniteSet(S)
    BY <2>1, FS_Subset
  <2>3. k + 1 \notin S
    BY <1>0
  <2> QED
    BY <2>2, <2>3, FS_CardinalityType
<1>2. Cardinality(T) = C + 1
  BY <1>1, FS_AddElement
<1>3. {i \in T : i <= k + 1} = T
  <2>1. \A i \in T : i <= k + 1
    BY <1>0
  <2> HIDE DEF T
  <2> QED
    BY <2>1
<1>4. \A e \in S : {i \in T : i <= e} = {i \in S : i <= e}
  BY <1>0
<1>5. \A e \in S : Cardinality({i \in S : i <= e}) <= C
  BY <1>1, FS_Subset
<1>6. \A n \in 1 .. C : {e \in T : Cardinality({i \in T : i <= e}) = n}
                      = {e \in S : Cardinality({i \in S : i <= e}) = n}
  <2> TAKE n \in 1 .. C
  <2>1. n # C + 1
    BY <1>1
  <2> HIDE DEF C
  <2>2. \A e : e \in T /\ Cardinality({i \in T : i <= e}) = n
           <=> e \in S /\ Cardinality({i \in S : i <= e}) = n
    <3> TAKE e
    <3>1. CASE e = k + 1
      BY <1>1, <1>2, <1>3, <2>1, <3>1
    <3>2. CASE e \in S
      BY <1>4, <3>2
    <3> QED
      BY <3>1, <3>2
  <2> QED
    BY <2>2
<1>7. {e \in T : Cardinality({i \in T : i <= e}) = C + 1} = {k + 1}
  <2> HIDE DEF C
  <2>1. \A e : e \in T /\ Cardinality({i \in T : i <= e}) = C + 1 <=> e = k + 1
    <3> TAKE e
    <3>1. CASE e = k + 1
      BY <1>2, <1>3, <3>1
    <3>2. CASE e \in S
      <4>1. Cardinality({i \in T : i <= e}) = Cardinality({i \in S : i <= e})
        BY <1>4, <3>2
      <4>2. Cardinality({i \in S : i <= e}) <= C
        BY <1>5, <3>2
      <4>3. Cardinality({i \in S : i <= e}) \in Nat
        <5>1. IsFiniteSet({i \in S : i <= e})
          BY <1>1, FS_Subset
        <5> QED
          BY <5>1, FS_CardinalityType
      <4>4. e # k + 1
        BY <1>1, <3>2
      <4> QED
        BY <1>1, <4>1, <4>2, <4>3, <4>4
    <3> QED
      BY <3>1, <3>2
  <2> QED
    BY <2>1
<1>8. \A A, n : Nth(A, n) = CHOOSE e \in {e \in A : Cardinality({i \in A : i <= e}) = n} : TRUE
  BY DEF Nth
<1> QED
  BY <1>2, <1>6, <1>7, <1>8

LEMMA OpenType ==
    ASSUME NEW s \in Seq(Chars)
    PROVE  /\ Open(s) \in Seq(Chars)
           /\ Len(Open(s)) = Len(s) + 1 - LineStarts(s)[Len(s) + 1]
           /\ LineStarts(s)[Len(s) + 1] \in 1 .. Len(s) + 1
           /\ \A i \in 1 .. Len(Open(s)) : Open(s)[i] = s[LineStarts(s)[Len(s) + 1] + i - 1]
<1>1. Len(s) \in Nat /\ Len(s) + 1 \in 1 .. Len(s) + 1
  OBVIOUS
<1>2. LineStarts(s)[Len(s) + 1] \in 1 .. Len(s) + 1
  BY <1>1, LineStartsRange
<1> DEFINE m == LineStarts(s)[Len(s) + 1]
<1> HIDE DEF m
<1>3. m \in 1 .. Len(s) + 1
  BY <1>2 DEF m
<1>4. \A i \in m .. Len(s) : s[i] \in Chars
  BY <1>3
<1>5. /\ SubSeq(s, m, Len(s)) \in Seq(Chars)
      /\ Len(SubSeq(s, m, Len(s))) = IF m <= Len(s) THEN Len(s) - m + 1 ELSE 0
      /\ \A i \in 1 .. Len(s) - m + 1 : SubSeq(s, m, Len(s))[i] = s[m + i - 1]
  BY <1>1, <1>3, SubSeqProperties
<1>6. Len(SubSeq(s, m, Len(s))) = Len(s) + 1 - m
  BY <1>1, <1>3, <1>5
<1>7. \A i \in 1 .. Len(SubSeq(s, m, Len(s))) : SubSeq(s, m, Len(s))[i] = s[m + i - 1]
  BY <1>1, <1>3, <1>5, <1>6
<1> QED
  BY <1>3, <1>5, <1>6, <1>7 DEF Open, m

(* A newline ends the open line, unless it would be its first character. *)
LEMMA EndsNonEmpty ==
    ASSUME NEW s \in Seq(Chars), NEW c
    PROVE  EndsLine(s, c) <=> c = NL /\ Open(s) # <<>>
<1>1. Open(s) # <<>> <=> Len(Open(s)) # 0
  BY OpenType, EmptySeq
<1>2. Len(s) \in Nat
  OBVIOUS
<1> QED
  BY <1>1, <1>2, OpenType DEF EndsLine

LEMMA OpenAppend ==
    ASSUME NEW s \in Seq(Chars), NEW c \in Chars
    PROVE  Open(Append(s, c)) = IF EndsLine(s, c) THEN <<>> ELSE Append(Open(s), c)
<1> DEFINE t == Append(s, c)
           n == Len(s)
           m == LineStarts(s)[n + 1]
<1>1. /\ t \in Seq(Chars) /\ Len(t) = n + 1 /\ t[n + 1] = c /\ n \in Nat
      /\ \A i \in 1 .. n : t[i] = s[i]
  OBVIOUS
<1>2. m \in 1 .. n + 1
  BY OpenType
<1>3. LineStarts(t)[n + 2] = IF EndsLine(s, c) THEN n + 2 ELSE m
  BY NextStart
<1>4. Open(s) \in Seq(Chars) /\ Len(Open(s)) = n + 1 - m
      /\ \A i \in 1 .. n + 1 - m : Open(s)[i] = s[m + i - 1]
  BY OpenType
<1> HIDE DEF t, n, m
<1>5. Open(t) \in Seq(Chars) /\ Len(Open(t)) = n + 2 - LineStarts(t)[n + 2]
      /\ \A i \in 1 .. Len(Open(t)) : Open(t)[i] = t[LineStarts(t)[n + 2] + i - 1]
  <2>1. Len(t) + 1 = n + 2
    BY <1>1
  <2>2. Open(t) \in Seq(Chars) /\ Len(Open(t)) = Len(t) + 1 - LineStarts(t)[Len(t) + 1]
        /\ LineStarts(t)[Len(t) + 1] \in 1 .. Len(t) + 1
        /\ \A i \in 1 .. Len(Open(t)) : Open(t)[i] = t[LineStarts(t)[Len(t) + 1] + i - 1]
    BY <1>1, OpenType
  <2> QED
    BY <1>1, <2>1, <2>2
<1>6. CASE EndsLine(s, c)
  <2>1. Len(Open(t)) = 0
    BY <1>1, <1>3, <1>5, <1>6
  <2> QED
    BY <1>5, <1>6, <2>1, EmptySeq DEF t
<1>7. CASE ~EndsLine(s, c)
  <2>0. LineStarts(t)[n + 2] = m /\ Len(Append(Open(s), c)) = Len(Open(s)) + 1
    BY <1>3, <1>4, <1>7
  <2>1. Len(Open(t)) = n + 2 - m /\ Len(Append(Open(s), c)) = n + 2 - m
    BY <1>1, <1>2, <1>4, <1>5, <2>0
  <2>2. ASSUME NEW i \in 1 .. n + 2 - m PROVE Open(t)[i] = Append(Open(s), c)[i]
    <3>1. Open(t)[i] = t[m + i - 1]
      BY <1>3, <1>5, <1>7, <2>1
    <3>2. CASE i = n + 2 - m
      <4>1. m + i - 1 = n + 1 /\ i = Len(Open(s)) + 1
        BY <1>1, <1>2, <1>4, <3>2
      <4>2. Append(Open(s), c)[Len(Open(s)) + 1] = c
        BY <1>4
      <4> QED
        BY <1>1, <3>1, <4>1, <4>2
    <3>3. CASE i \in 1 .. n + 1 - m
      <4>1. m + i - 1 \in 1 .. n
        BY <1>1, <1>2, <3>3
      <4>2. Append(Open(s), c)[i] = Open(s)[i]
        BY <1>4, <3>3
      <4> QED
        BY <1>1, <1>4, <3>1, <3>3, <4>1, <4>2
    <3>4. i = n + 2 - m \/ i \in 1 .. n + 1 - m
      BY <1>1, <1>2
    <3> QED
      BY <3>2, <3>3, <3>4
  <2>3. Append(Open(s), c) \in Seq(Chars)
    BY <1>4
  <2>4. Open(t) = Append(Open(s), c)
    BY <1>5, <2>1, <2>2, <2>3, SeqEqual
  <2> QED
    BY <1>7, <2>4 DEF t
<1> QED
  BY <1>6, <1>7

LEMMA LinesType ==
    ASSUME NEW s \in Seq(Chars)
    PROVE  /\ LinesOf(s) = [n \in 1 .. Cardinality(LineEnds(s)) |->
                                LineEndingAt(s, Nth(LineEnds(s), n))]
           /\ Cardinality(LineEnds(s)) \in Nat
           /\ DOMAIN LinesOf(s) = 1 .. Cardinality(LineEnds(s))
           /\ Len(LinesOf(s)) = Cardinality(LineEnds(s))
BY LineEndsFinite DEF LinesOf

LEMMA NthInSet ==
    \A k \in Nat : \A S \in SUBSET (1 .. k) : \A n \in 1 .. Cardinality(S) : Nth(S, n) \in S
<1> DEFINE Has(S) == \A n \in 1 .. Cardinality(S) : Nth(S, n) \in S
           K == {k \in Nat : \A S \in SUBSET (1 .. k) : Has(S)}
<1>1. 0 \in K
  <2>1. \A S \in SUBSET (1 .. 0) : S = {}
    OBVIOUS
  <2>2. Cardinality({}) = 0
    BY FS_EmptySet
  <2> QED
    BY <2>1, <2>2
<1>2. ASSUME NEW k \in K PROVE k + 1 \in K
  <2> SUFFICES ASSUME NEW S \in SUBSET (1 .. k + 1) PROVE Has(S)
    OBVIOUS
  <2> DEFINE T == S \ {k + 1}
  <2>1. T \in SUBSET (1 .. k)
    <3>1. \A e \in T : e \in 1 .. k
      OBVIOUS
    <3> QED
      BY <3>1
  <2>2. Has(T)
    BY <2>1
  <2>3. CASE k + 1 \notin S
    <3>1. S = T
      BY <2>3
    <3> QED
      BY <2>2, <3>1
  <2>4. CASE k + 1 \in S
    <3>1. S = T \cup {k + 1}
      BY <2>4
    <3> HIDE DEF T
    <3>2. /\ Cardinality(S) = Cardinality(T) + 1
          /\ Nth(S, Cardinality(T) + 1) = k + 1
          /\ \A n \in 1 .. Cardinality(T) : Nth(S, n) = Nth(T, n)
      BY <2>1, <3>1, NthOfMore
    <3>3. Cardinality(T) \in Nat
      <4>1. IsFiniteSet(1 .. k)
        BY FS_Interval
      <4>2. IsFiniteSet(T)
        BY <2>1, <4>1, FS_Subset
      <4> QED
        BY <4>2, FS_CardinalityType
    <3>4. \A n \in 1 .. Cardinality(S) : n \in 1 .. Cardinality(T) \/ n = Cardinality(T) + 1
      BY <3>2, <3>3
    <3> QED
      BY <2>2, <2>4, <3>1, <3>2, <3>4
  <2> QED
    BY <2>3, <2>4
<1>3. K = Nat
  <2> HIDE DEF K
  <2>1. K \in SUBSET Nat
    BY DEF K
  <2> QED
    BY <1>1, <1>2, <2>1, Induction
<1> QED
  BY <1>3

LEMMA LineEndingBefore ==
    ASSUME NEW s \in Seq(Chars), NEW c \in Chars, NEW e \in LineEnds(s)
    PROVE  LineEndingAt(Append(s, c), e) = LineEndingAt(s, e)
<1> DEFINE t == Append(s, c)
           m == LineStarts(s)[e]
<1>1. e \in 1 .. Len(s) /\ e \in 1 .. Len(s) + 1
  BY DEF LineEnds
<1>2. LineStarts(t)[e] = m /\ m \in 1 .. e
  BY <1>1, LineStartsAppend, LineStartsRange
<1>3. \A i \in m .. e - 1 : s[i] \in Chars /\ t[i] = s[i]
  BY <1>1, <1>2
<1> HIDE DEF t, m
<1>4. /\ SubSeq(s, m, e - 1) \in Seq(Chars)
      /\ Len(SubSeq(s, m, e - 1)) = IF m <= e - 1 THEN e - 1 - m + 1 ELSE 0
      /\ \A i \in 1 .. e - 1 - m + 1 : SubSeq(s, m, e - 1)[i] = s[m + i - 1]
  BY <1>1, <1>2, <1>3, SubSeqProperties
<1>5. /\ SubSeq(t, m, e - 1) \in Seq(Chars)
      /\ Len(SubSeq(t, m, e - 1)) = IF m <= e - 1 THEN e - 1 - m + 1 ELSE 0
      /\ \A i \in 1 .. e - 1 - m + 1 : SubSeq(t, m, e - 1)[i] = t[m + i - 1]
  <2>1. \A i \in m .. e - 1 : t[i] \in Chars
    BY <1>3
  <2> QED
    BY <1>1, <1>2, <2>1, SubSeqProperties
<1>6. Len(SubSeq(s, m, e - 1)) = e - m
  BY <1>1, <1>2, <1>4
<1>7. ASSUME NEW i \in 1 .. e - m PROVE SubSeq(t, m, e - 1)[i] = SubSeq(s, m, e - 1)[i]
  <2>1. i \in 1 .. e - 1 - m + 1 /\ m + i - 1 \in m .. e - 1
    BY <1>1, <1>2
  <2> QED
    BY <1>3, <1>4, <1>5, <2>1
<1>8. SubSeq(t, m, e - 1) = SubSeq(s, m, e - 1)
  BY <1>4, <1>5, <1>6, <1>7, SeqEqual
<1> QED
  BY <1>2, <1>8 DEF LineEndingAt, t, m

LEMMA LinesAppend ==
    ASSUME NEW s \in Seq(Chars), NEW c \in Chars
    PROVE  /\ EndsLine(s, c) =>
                  LinesOf(Append(s, c)) =
                      [n \in 1 .. Len(LinesOf(s)) + 1 |->
                          IF n <= Len(LinesOf(s)) THEN LinesOf(s)[n] ELSE Open(s)]
           /\ ~EndsLine(s, c) => LinesOf(Append(s, c)) = LinesOf(s)
<1> DEFINE t == Append(s, c)
           E == LineEnds(s)
           C == Cardinality(E)
           F == LineEnds(t)
           k == Len(s)
<1>1. k \in Nat /\ E \in SUBSET (1 .. k) /\ C \in Nat
  BY LineEndsFinite, LenProperties
<1>2. t \in Seq(Chars)
  OBVIOUS
<1>3. F = IF EndsLine(s, c) THEN E \cup {k + 1} ELSE E
  BY LineEndsAppend
<1>4. LinesOf(s) = [n \in 1 .. C |-> LineEndingAt(s, Nth(E, n))] /\ Len(LinesOf(s)) = C
  BY LinesType
<1>5. LinesOf(t) = [n \in 1 .. Cardinality(F) |-> LineEndingAt(t, Nth(F, n))]
  BY DEF LinesOf
<1>6. \A n \in 1 .. C : LineEndingAt(t, Nth(E, n)) = LineEndingAt(s, Nth(E, n))
  <2> TAKE n \in 1 .. C
  <2>1. Nth(E, n) \in E
    <3> HIDE DEF E, k
    <3> QED
      BY <1>1, NthInSet DEF C
  <2> QED
    BY <2>1, LineEndingBefore
<1>7. LineEndingAt(t, k + 1) = Open(s)
  <2>1. LineStarts(t)[k + 1] = LineStarts(s)[k + 1]
    <3>1. k + 1 \in 1 .. Len(s) + 1
      BY <1>1
    <3> QED
      BY <3>1, LineStartsAppend
  <2>2. (k + 1) - 1 = k
    BY <1>1
  <2>3. LineStarts(s)[k + 1] \in 1 .. k + 1
    BY OpenType
  <2>4. \A i \in LineStarts(s)[k + 1] .. k : t[i] = s[i]
    BY <2>3
  <2> HIDE DEF k, t
  <2>5. SubSeq(t, LineStarts(s)[k + 1], k) = SubSeq(s, LineStarts(s)[k + 1], k)
    BY <1>1, <2>3, <2>4
  <2> QED
    BY <2>1, <2>2, <2>5 DEF LineEndingAt, Open, k
<1> HIDE DEF t, E, C, F, k
<1>8. CASE EndsLine(s, c)
  <2>1. Cardinality(F) = C + 1 /\ Nth(F, C + 1) = k + 1 /\ \A n \in 1 .. C : Nth(F, n) = Nth(E, n)
    BY <1>1, <1>3, <1>8, NthOfMore DEF C
  <2>2. \A n \in 1 .. C + 1 : n \in 1 .. C \/ (n = C + 1 /\ ~(n <= C))
    BY <1>1
  <2>3. \A n \in 1 .. C : n <= C
    BY <1>1
  <2>4. \A n \in 1 .. C + 1 : LineEndingAt(t, Nth(F, n)) =
                                IF n <= C THEN LinesOf(s)[n] ELSE Open(s)
    BY <1>4, <1>6, <1>7, <2>1, <2>2, <2>3
  <2>5. LinesOf(t) = [n \in 1 .. C + 1 |-> IF n <= C THEN LinesOf(s)[n] ELSE Open(s)]
    BY <1>5, <2>1, <2>4
  <2> QED
    BY <1>4, <1>8, <2>5 DEF t
<1>9. CASE ~EndsLine(s, c)
  <2>1. LinesOf(t) = LinesOf(s)
    BY <1>3, <1>4, <1>5, <1>6, <1>9 DEF C
  <2> QED
    BY <1>9, <2>1 DEF t
<1> QED
  BY <1>8, <1>9

(* The inductive invariant: besides the lines printed, the buffer holds the *)
(* open line, cut like the others.                                          *)
CutLines(lines) == [i \in DOMAIN lines |-> CutLine(lines[i])]
LineStates == [buffer : Seq(Chars), lines : Seq(Seq(Chars))]
Agrees(st, s) ==
    st \in LineStates /\ st.buffer = CutLine(Open(s)) /\ st.lines = CutLines(LinesOf(s))

LEMMA CutLineType ==
    ASSUME NEW l \in Seq(Chars)
    PROVE  /\ CutLine(l) \in Seq(Chars)
           /\ Len(CutLine(l)) = IF Len(l) < RxBufferMaxLen THEN Len(l) ELSE RxBufferMaxLen
           /\ Len(l) < RxBufferMaxLen => CutLine(l) = l
           /\ CutLine(l) = <<>> <=> l = <<>>
<1> DEFINE m == IF Len(l) < RxBufferMaxLen THEN Len(l) ELSE RxBufferMaxLen
<1>1. m \in 0 .. Len(l) /\ Len(l) \in Nat /\ RxBufferMaxLen \in Nat \ {0}
  BY CdcAssumption
<1>2. Len(l) < RxBufferMaxLen => m = Len(l)
  OBVIOUS
<1>3. m = 0 <=> Len(l) = 0
  BY <1>1
<1> HIDE DEF m
<1>4. SubSeq(l, 1, m) \in Seq(Chars) /\ Len(SubSeq(l, 1, m)) = m
  <2>1. \A i \in 1 .. m : l[i] \in Chars
    BY <1>1
  <2> QED
    BY <1>1, <2>1, SubSeqProperties
<1>5. m = Len(l) => SubSeq(l, 1, m) = l
  BY SubSeqFull
<1> QED
  BY <1>2, <1>3, <1>4, <1>5, EmptySeq DEF CutLine, m

LEMMA CutLineAppend ==
    ASSUME NEW l \in Seq(Chars), NEW c \in Chars
    PROVE  CutLine(Append(l, c)) =
               IF Len(CutLine(l)) < RxBufferMaxLen THEN Append(CutLine(l), c) ELSE CutLine(l)
<1> DEFINE b == Append(l, c)
<1>1. b \in Seq(Chars) /\ Len(b) = Len(l) + 1 /\ Len(l) \in Nat /\ RxBufferMaxLen \in Nat
      /\ \A i \in 1 .. Len(l) : b[i] = l[i]
  BY CdcAssumption
<1> HIDE DEF b
<1>2. CASE Len(l) + 1 < RxBufferMaxLen
  <2>1. CutLine(b) = b
    BY <1>1, <1>2, CutLineType
  <2>2. CutLine(l) = l
    BY <1>1, <1>2, CutLineType
  <2> QED
    BY <1>1, <1>2, <2>1, <2>2 DEF b
<1>3. CASE Len(l) + 1 = RxBufferMaxLen
  <2>1. CutLine(b) = b
    <3>1. CutLine(b) = SubSeq(b, 1, Len(b))
      BY <1>1, <1>3 DEF CutLine
    <3> QED
      BY <1>1, <3>1, SubSeqFull
  <2>2. CutLine(l) = l
    BY <1>1, <1>3, CutLineType
  <2> QED
    BY <1>1, <1>3, <2>1, <2>2 DEF b
<1>4. CASE RxBufferMaxLen <= Len(l)
  <2>1. CutLine(b) = SubSeq(b, 1, RxBufferMaxLen) /\ CutLine(l) = SubSeq(l, 1, RxBufferMaxLen)
    BY <1>1, <1>4 DEF CutLine
  <2>2. SubSeq(b, 1, RxBufferMaxLen) = SubSeq(l, 1, RxBufferMaxLen)
    <3>1. \A i \in 1 .. RxBufferMaxLen : b[i] = l[i]
      BY <1>1, <1>4
    <3> QED
      BY <1>1, <3>1
  <2>3. Len(CutLine(l)) = RxBufferMaxLen
    BY <1>1, <1>4, CutLineType
  <2>4. CutLine(b) = CutLine(l) /\ ~(Len(CutLine(l)) < RxBufferMaxLen)
    BY <1>1, <2>1, <2>2, <2>3
  <2> QED
    BY <2>4 DEF b
<1> QED
  BY <1>1, <1>2, <1>3, <1>4

LEMMA TakeCharAgrees ==
    ASSUME NEW s \in Seq(Chars), NEW c \in Chars, NEW st, Agrees(st, s)
    PROVE  Agrees(TakeChar(st, c), Append(s, c))
<1> DEFINE t == Append(s, c)
           L == LinesOf(s)
<1>1. /\ st \in LineStates /\ st.buffer = CutLine(Open(s)) /\ st.lines = CutLines(L)
      /\ Open(s) \in Seq(Chars) /\ t \in Seq(Chars)
  BY OpenType DEF Agrees
<1>2. EndsLine(s, c) <=> c = NL /\ st.buffer # <<>>
  BY <1>1, EndsNonEmpty, CutLineType
<1>3. CASE EndsLine(s, c)
  <2>1. TakeChar(st, c) = LineState(<<>>, Append(st.lines, st.buffer))
    BY <1>2, <1>3 DEF TakeChar
  <2>2. Open(t) = <<>> /\ CutLine(<<>>) = <<>>
    BY <1>3, OpenAppend, CutLineType, EmptySeq
  <2>3. LinesOf(t) = [n \in 1 .. Len(L) + 1 |-> IF n <= Len(L) THEN L[n] ELSE Open(s)]
    BY <1>3, LinesAppend
  <2>4. DOMAIN L = 1 .. Len(L) /\ Len(L) \in Nat
    BY LinesType
  <2> HIDE DEF t, L
  <2>5. CutLines(LinesOf(t)) =
            [n \in 1 .. Len(L) + 1 |-> IF n <= Len(L) THEN CutLine(L[n]) ELSE CutLine(Open(s))]
    BY <2>3 DEF CutLines
  <2>6. Len(st.lines) = Len(L) /\ \A n \in 1 .. Len(L) : st.lines[n] = CutLine(L[n])
    <3>1. DOMAIN st.lines = 1 .. Len(L) /\ st.lines \in Seq(Seq(Chars))
      BY <1>1, <2>4 DEF CutLines, LineStates
    <3>2. Len(st.lines) = Len(L)
      BY <2>4, <3>1
    <3> QED
      BY <1>1, <2>4, <3>2 DEF CutLines
  <2>7. Append(st.lines, st.buffer) = CutLines(LinesOf(t))
    <3>1. Append(st.lines, st.buffer) =
              [n \in 1 .. Len(L) + 1 |-> IF n <= Len(L) THEN st.lines[n] ELSE st.buffer]
      <4>1. st.lines \in Seq(Seq(Chars)) /\ st.buffer \in Seq(Chars)
        BY <1>1 DEF LineStates
      <4> QED
        BY <2>4, <2>6, <4>1
    <3>2. \A n \in 1 .. Len(L) + 1 : n <= Len(L) => n \in 1 .. Len(L)
      BY <2>4
    <3> QED
      BY <1>1, <2>5, <2>6, <3>1, <3>2
  <2>8. LineState(<<>>, Append(st.lines, st.buffer)) \in LineStates
    BY <1>1 DEF LineState, LineStates
  <2>9. /\ LineState(<<>>, Append(st.lines, st.buffer)).buffer = <<>>
        /\ LineState(<<>>, Append(st.lines, st.buffer)).lines = Append(st.lines, st.buffer)
    BY DEF LineState
  <2> QED
    BY <2>1, <2>2, <2>7, <2>8, <2>9 DEF Agrees, t
<1>4. CASE ~EndsLine(s, c)
  <2>1. TakeChar(st, c) = IF Len(st.buffer) < RxBufferMaxLen
                          THEN LineState(Append(st.buffer, c), st.lines) ELSE st
    BY <1>2, <1>4 DEF TakeChar
  <2>2. Open(t) = Append(Open(s), c) /\ LinesOf(t) = L
    BY <1>4, OpenAppend, LinesAppend
  <2>3. CutLine(Open(t)) = IF Len(st.buffer) < RxBufferMaxLen
                           THEN Append(st.buffer, c) ELSE st.buffer
    BY <1>1, <2>2, CutLineAppend
  <2> HIDE DEF t, L
  <2>4. TakeChar(st, c) \in LineStates /\ TakeChar(st, c).lines = st.lines
    BY <1>1, <2>1 DEF LineState, LineStates
  <2>5. TakeChar(st, c).buffer = CutLine(Open(t))
    BY <2>1, <2>3 DEF LineState
  <2> QED
    BY <1>1, <2>2, <2>4, <2>5 DEF Agrees, t
<1> QED
  BY <1>3, <1>4

(* The loop keeps it, character by character. *)
LEMMA TurnsAgree ==
    ASSUME NEW s \in Seq(Chars), NEW chunk \in Seq(Chars), NEW st, Agrees(st, s)
    PROVE  Agrees(Turns(st, chunk)[Len(chunk)], s \o chunk)
<1> DEFINE Upto(n) == s \o SubSeq(chunk, 1, n)
           S == {n \in Nat : Agrees(Turns(st, chunk)[n], Upto(n))}
<1>1. 0 \in S
  <2>1. Upto(0) = s
    OBVIOUS
  <2> HIDE DEF Upto
  <2> QED
    BY <2>1, TurnsDef
<1>2. \A n \in 0 .. Len(chunk) : n < Len(chunk) /\ n \in S => n + 1 \in S
  <2> TAKE n \in 0 .. Len(chunk)
  <2> HAVE n < Len(chunk) /\ n \in S
  <2>1. n + 1 \in 1 .. Len(chunk) /\ (n + 1) - 1 = n /\ chunk[n + 1] \in Chars
    OBVIOUS
  <2>2. Turns(st, chunk)[n + 1] = TakeChar(Turns(st, chunk)[n], chunk[n + 1])
    BY <2>1, TurnsDef
  <2>3. Upto(n) \in Seq(Chars) /\ Upto(n + 1) = Append(Upto(n), chunk[n + 1])
    <3>1. SubSeq(chunk, 1, n) \in Seq(Chars)
      OBVIOUS
    <3>2. SubSeq(chunk, 1, n + 1) = Append(SubSeq(chunk, 1, n), chunk[n + 1])
      BY <2>1
    <3> HIDE DEF S
    <3> QED
      BY <2>1, <3>1, <3>2
  <2> HIDE DEF Upto
  <2>4. Agrees(TakeChar(Turns(st, chunk)[n], chunk[n + 1]), Append(Upto(n), chunk[n + 1]))
    BY <2>1, <2>3, TakeCharAgrees
  <2>5. Agrees(Turns(st, chunk)[n + 1], Upto(n + 1))
    BY <2>2, <2>3, <2>4
  <2> QED
    BY <2>5
<1>3. \A n \in 0 .. Len(chunk) : n \in S
  <2> HIDE DEF S
  <2> QED
    BY <1>1, <1>2, InductionTo, LenProperties
<1>4. Upto(Len(chunk)) = s \o chunk
  BY SubSeqFull
<1>5. Len(chunk) \in 0 .. Len(chunk)
  OBVIOUS
<1> QED
  BY <1>3, <1>4, <1>5

CdcInv == received \in Seq(Chars) /\ Agrees(LineState(rxBuffer, printed), received)

LEMMA NoLineAgrees == Agrees(LineState(<<>>, <<>>), <<>>)
<1>1. <<>> \in Seq(Chars) /\ Len(<<>>) = 0 /\ <<>> \in Seq(Seq(Chars))
  OBVIOUS
<1>2. Open(<<>>) = <<>>
  <2>1. LineStarts(<<>>)[1] = 1
    BY <1>1, LineStartsDef
  <2>2. /\ Open(<<>>) \in Seq(Chars)
        /\ Len(Open(<<>>)) = Len(<<>>) + 1 - LineStarts(<<>>)[Len(<<>>) + 1]
    BY <1>1, OpenType
  <2>3. Len(Open(<<>>)) = 0
    BY <1>1, <2>1, <2>2
  <2> QED
    BY <2>2, <2>3, EmptySeq
<1>3. LinesOf(<<>>) = <<>>
  <2>1. LineEnds(<<>>) = {}
    BY DEF LineEnds
  <2> QED
    BY <2>1, FS_EmptySet DEF LinesOf
<1>4. CutLine(<<>>) = <<>>
  BY <1>1, CutLineType
<1>6. CutLines(<<>>) = <<>>
  BY DEF CutLines
<1>5. LineState(<<>>, <<>>) \in LineStates
  BY <1>1 DEF LineState, LineStates
<1> QED
  BY <1>2, <1>3, <1>4, <1>5, <1>6 DEF Agrees, LineState

LEMMA CdcNextInv == CdcInv /\ [CdcNext]_cdcVars => CdcInv'
<1> SUFFICES ASSUME CdcInv, [CdcNext]_cdcVars PROVE CdcInv'
  OBVIOUS
<1>1. CASE CdcMount
  <2>1. <<>> \in Seq(Chars)
    OBVIOUS
  <2> QED
    BY <1>1, <2>1, NoLineAgrees DEF CdcMount, CdcInv
<1>2. CASE CdcUmount
  BY <1>2 DEF CdcUmount, CdcInv
<1>3. CASE CdcRxOther \/ UNCHANGED cdcVars
  BY <1>3 DEF CdcRxOther, cdcVars, CdcInv
<1>4. ASSUME NEW chunk \in Chunks, CdcRx(chunk) PROVE CdcInv'
  <2>1. chunk \in Seq(Chars)
    BY DEF Chunks, SeqOf, Chars
  <2> DEFINE st == Turns(LineState(rxBuffer, printed), chunk)[Len(chunk)]
  <2>2. received' = received \o chunk /\ received' \in Seq(Chars)
    BY <1>4, <2>1 DEF CdcRx, CdcInv
  <2>3. Agrees(st, received')
    BY <2>1, <2>2, TurnsAgree DEF CdcInv
  <2>4. rxBuffer' = st.buffer /\ printed' = st.lines
    BY <1>4 DEF CdcRx
  <2> HIDE DEF st
  <2>5. LineState(rxBuffer', printed') = st
    BY <2>3, <2>4 DEF Agrees, LineStates, LineState
  <2> QED
    BY <2>2, <2>3, <2>5 DEF CdcInv
<1> QED
  BY <1>1, <1>2, <1>3, <1>4 DEF CdcNext

(* Whatever the handheld sends, and however its characters are split into    *)
(* reads, the lines printed are those of its session, each cut on its own,   *)
(* and the line buffer is not overrun (usb_host.cpp:285-318).                *)
THEOREM CdcPrintsLines == CdcSpec => []PrintsLines
<1>1. CdcInit => CdcInv
  BY NoLineAgrees, EmptySeq DEF CdcInit, CdcInv
<1>2. CdcInv => PrintsLines
  <2> SUFFICES ASSUME CdcInv PROVE PrintsLines
    OBVIOUS
  <2>1. rxBuffer = CutLine(Open(received)) /\ printed = CutLines(LinesOf(received))
    BY DEF CdcInv, Agrees, LineState
  <2>2. Len(rxBuffer) <= RxBufferMaxLen
    <3>1. Open(received) \in Seq(Chars)
      BY OpenType DEF CdcInv
    <3> HIDE DEF Open
    <3>2. Len(Open(received)) \in Nat /\ RxBufferMaxLen \in Nat
      BY <3>1, CdcAssumption
    <3> QED
      BY <2>1, <3>1, <3>2, CutLineType
  <2> QED
    BY <2>1, <2>2 DEF PrintsLines, CutLines
<1> QED
  BY <1>1, <1>2, CdcNextInv, PTL DEF CdcSpec

-----------------------------------------------------------------------------
(* The walk over a handheld's configuration. *)
AllDescs == {Config} \cup Descs

(* What the walk can meet: every descriptor takes a cell at least.          *)
LEMMA DescKinds ==
    ASSUME NEW d \in AllDescs
    PROVE  /\ d.len \in Nat \ {0}
           /\ d.type \in {"config", "interface", "endpoint"}
           /\ d.type = "interface" => d.vendor \in BOOLEAN /\ d.number \in Nat
           /\ d.type = "endpoint" => d.dir \in {"out", "in"} /\ d.address \in Nat
<1>1. CASE d = Config
  BY <1>1 DEF Config
<1>2. CASE d = Interface(1, TRUE)
  BY <1>2 DEF Interface
<1>4. CASE d = Interface(2, FALSE)
  BY <1>4 DEF Interface
<1>3. CASE d \in {Endpoint(1, "bulk", "out"), Endpoint(2, "bulk", "in"),
                  Endpoint(3, "interrupt", "in")}
  BY <1>3 DEF Endpoint
<1> QED
  BY <1>1, <1>2, <1>3, <1>4 DEF AllDescs, Descs

LEMMA DescStartsDef ==
    ASSUME NEW c \in Seq(AllDescs)
    PROVE  /\ DescStarts(c)[1] = 1
           /\ \A i \in 2 .. Len(c) + 1 : DescStarts(c)[i] = DescStarts(c)[i - 1] + c[i - 1].len
<1> DEFINE Def(g, n) ==
             g = [i \in 1 .. n + 1 |-> IF i = 1 THEN 1 ELSE g[i - 1] + c[i - 1].len]
           S == {n \in Nat : \E g : Def(g, n)}
<1>1. 0 \in S
  <2>1. Def([i \in 1 .. 1 |-> 1], 0)
    OBVIOUS
  <2> QED
    BY <2>1
<1>2. ASSUME NEW n \in S PROVE n + 1 \in S
  <2>1. PICK g : Def(g, n)
    OBVIOUS
  <2> DEFINE h == [i \in 1 .. n + 2 |-> IF i = n + 2 THEN g[n + 1] + c[n + 1].len ELSE g[i]]
  <2>2. \A i \in 1 .. n + 2 : h[i] = IF i = 1 THEN 1 ELSE h[i - 1] + c[i - 1].len
    BY <2>1
  <2>3. Def(h, n + 1)
    BY <2>2
  <2>4. \E f : Def(f, n + 1)
    <3> HIDE DEF h
    <3> QED
      BY <2>3
  <2>5. n + 1 \in Nat
    OBVIOUS
  <2> HIDE DEF Def
  <2> QED
    BY <2>4, <2>5
<1>3. S = Nat
  <2> HIDE DEF S
  <2>1. S \in SUBSET Nat
    BY DEF S
  <2> QED
    BY <1>1, <1>2, <2>1, Induction
<1>4. \E g : Def(g, Len(c))
  <2>1. Len(c) \in S
    BY <1>3, LenProperties
  <2> QED
    BY <2>1
<1>5. Def(DescStarts(c), Len(c))
  BY <1>4 DEF DescStarts
<1> QED
  BY <1>5

(* Each begins after the one before it. *)
LEMMA DescStartsGrow ==
    ASSUME NEW c \in Seq(AllDescs)
    PROVE  \A i \in 1 .. Len(c) + 1 :
               /\ DescStarts(c)[i] \in Nat /\ i <= DescStarts(c)[i]
               /\ \A j \in 1 .. i - 1 :
                      DescStarts(c)[j] \in Nat /\ DescStarts(c)[j] < DescStarts(c)[i]
<1> DEFINE At(i) == DescStarts(c)[i]
           Grown(i) == At(i) \in Nat /\ i <= At(i) /\ \A j \in 1 .. i - 1 : At(j) \in Nat /\ At(j) < At(i)
           S == {n \in Nat : Grown(n + 1)}
<1>1. 0 \in S
  BY DescStartsDef
<1>2. \A n \in 0 .. Len(c) : n < Len(c) /\ n \in S => n + 1 \in S
  <2> TAKE n \in 0 .. Len(c)
  <2> HAVE n < Len(c) /\ n \in S
  <2>1. n + 2 \in 2 .. Len(c) + 1 /\ (n + 2) - 1 = n + 1 /\ n + 1 \in 1 .. Len(c)
    OBVIOUS
  <2>2. At(n + 2) = At(n + 1) + c[n + 1].len
    BY <2>1, DescStartsDef
  <2>3. c[n + 1].len \in Nat /\ c[n + 1].len >= 1
    BY <2>1, DescKinds
  <2> HIDE DEF At
  <2>4. Grown(n + 1)
    OBVIOUS
  <2>5. At(n + 2) \in Nat /\ At(n + 1) < At(n + 2) /\ n + 2 <= At(n + 2)
    BY <2>2, <2>3, <2>4
  <2>6. ASSUME NEW j \in 1 .. n + 1 PROVE At(j) \in Nat /\ At(j) < At(n + 2)
    <3>1. CASE j = n + 1
      BY <2>4, <2>5, <3>1
    <3>2. CASE j \in 1 .. n
      <4>1. At(j) \in Nat /\ At(j) < At(n + 1)
        BY <2>4, <3>2
      <4> QED
        BY <2>4, <2>5, <4>1
    <3> QED
      BY <3>1, <3>2
  <2>7. Grown(n + 2)
    BY <2>5, <2>6
  <2> QED
    BY <2>7
<1>3. \A n \in 0 .. Len(c) : n \in S
  <2> HIDE DEF S
  <2> QED
    BY <1>1, <1>2, InductionTo, LenProperties
<1> SUFFICES ASSUME NEW i \in 1 .. Len(c) + 1 PROVE Grown(i)
  OBVIOUS
<1>4. i - 1 \in 0 .. Len(c) /\ (i - 1) + 1 = i
  OBVIOUS
<1> QED
  BY <1>3, <1>4

LEMMA CellOfDesc ==
    ASSUME NEW c \in Seq(AllDescs), NEW i \in 1 .. Len(c)
    PROVE  /\ CellAt(c, DescStarts(c)[i]) = c[i]
           /\ DescStarts(c)[i] \in 1 .. CellCount(c)
<1>1. DOMAIN c = 1 .. Len(c) /\ Len(c) \in Nat
  OBVIOUS
<1>2. \A j \in 1 .. Len(c) : DescStarts(c)[j] = DescStarts(c)[i] => j = i
  <2> TAKE j \in 1 .. Len(c)
  <2>1. i \in 1 .. Len(c) + 1 /\ j \in 1 .. Len(c) + 1
    BY <1>1
  <2>2. DescStarts(c)[j] \in Nat /\ DescStarts(c)[i] \in Nat
    BY <2>1, DescStartsGrow
  <2>3. CASE i < j
    BY <2>1, <2>2, <2>3, DescStartsGrow
  <2>4. CASE j < i
    BY <2>1, <2>2, <2>4, DescStartsGrow
  <2> QED
    BY <2>3, <2>4
<1>3. (CHOOSE j \in DOMAIN c : DescStarts(c)[j] = DescStarts(c)[i]) = i
  BY <1>1, <1>2
<1>4. CellAt(c, DescStarts(c)[i]) = c[i]
  BY <1>1, <1>3 DEF CellAt
<1>5. DescStarts(c)[i] \in 1 .. CellCount(c)
  <2>1. i \in 1 .. Len(c) + 1 /\ Len(c) + 1 \in 1 .. Len(c) + 1 /\ i \in 1 .. (Len(c) + 1) - 1
    BY <1>1
  <2>2. DescStarts(c)[i] < DescStarts(c)[Len(c) + 1]
    BY <2>1, DescStartsGrow
  <2>3. DescStarts(c)[i] \in Nat /\ DescStarts(c)[Len(c) + 1] \in Nat /\ i <= DescStarts(c)[i]
    BY <2>1, DescStartsGrow
  <2> QED
    BY <2>2, <2>3 DEF CellCount
<1> QED
  BY <1>4, <1>5

LEMMA WalkTurnsDef ==
    ASSUME NEW buf, NEW last \in Nat, NEW s
    PROVE  /\ WalkTurns(buf, last, s)[0].at = 1 /\ WalkTurns(buf, last, s)[0].seen = s
           /\ \A n \in 1 .. last :
                  WalkTurns(buf, last, s)[n] = WalkTurn(WalkTurns(buf, last, s)[n - 1], buf, last)
<1> DEFINE Def(g, n) == g = [i \in 0 .. n |-> IF i = 0 THEN [at |-> 1, seen |-> s]
                                              ELSE WalkTurn(g[i - 1], buf, last)]
           S == {n \in Nat : \E g : Def(g, n)}
<1>1. 0 \in S
  <2>1. Def([i \in 0 .. 0 |-> [at |-> 1, seen |-> s]], 0)
    OBVIOUS
  <2> QED
    BY <2>1
<1>2. ASSUME NEW n \in S PROVE n + 1 \in S
  <2>1. PICK g : Def(g, n)
    OBVIOUS
  <2> DEFINE h == [i \in 0 .. n + 1 |-> IF i = n + 1 THEN WalkTurn(g[n], buf, last) ELSE g[i]]
  <2>2. \A i \in 0 .. n + 1 : h[i] = IF i = 0 THEN [at |-> 1, seen |-> s] 
                                      ELSE WalkTurn(h[i - 1], buf, last)
    BY <2>1
  <2>3. Def(h, n + 1)
    BY <2>2
  <2>4. \E f : Def(f, n + 1)
    <3> HIDE DEF h
    <3> QED
      BY <2>3
  <2>5. n + 1 \in Nat
    OBVIOUS
  <2> HIDE DEF Def
  <2> QED
    BY <2>4, <2>5
<1>3. S = Nat
  <2> HIDE DEF S
  <2>1. S \in SUBSET Nat
    BY DEF S
  <2> QED
    BY <1>1, <1>2, <2>1, Induction
<1>4. \E g : Def(g, last)
  <2>1. last \in S
    BY <1>3
  <2> QED
    BY <2>1
<1>5. Def(WalkTurns(buf, last, s), last)
  BY <1>4 DEF WalkTurns
<1> QED
  BY <1>5

Seen == [vendor : BOOLEAN, found : [itf : Nat, out : Nat, in : Nat]]

(* What the walk has seen when it has passed the first n descriptors.       *)
Upto(S, n) == {i \in S : i <= n}
Saw(c, n, s) ==
    /\ s \in Seen
    /\ s.vendor <=> OfVendor(c, n + 1)
    /\ s.found.itf = NumberOf(c, Upto(VendorInterfaces(c), n))
    /\ s.found.out = AddressOf(c, Upto(VendorEndpoints(c, "out"), n))
    /\ s.found.in = AddressOf(c, Upto(VendorEndpoints(c, "in"), n))

(* One turn, field by field. *)
LEMMA SeeIs ==
    ASSUME NEW s \in Seen, NEW d \in AllDescs
    PROVE  /\ See(s, d) \in Seen
           /\ See(s, d).vendor = IF d.type = "interface" THEN d.vendor ELSE s.vendor
           /\ See(s, d).found.itf =
                  IF d.type = "interface" /\ d.vendor THEN d.number ELSE s.found.itf
           /\ See(s, d).found.out =
                  IF d.type = "endpoint" /\ s.vendor /\ d.xfer = "bulk" /\ d.dir = "out"
                  THEN d.address ELSE s.found.out
           /\ See(s, d).found.in =
                  IF d.type = "endpoint" /\ s.vendor /\ d.xfer = "bulk" /\ d.dir = "in"
                  THEN d.address ELSE s.found.in
<1> DEFINE r == See(s, d)
           F == [itf : Nat, out : Nat, in : Nat]
<1>0. s.vendor \in BOOLEAN /\ s.found \in F /\ s = [vendor |-> s.vendor, found |-> s.found]
  BY DEF Seen
<1>1. CASE d.type = "interface" /\ d.vendor
  <2> DEFINE f == [s.found EXCEPT !.itf = d.number]
  <2>1. d.number \in Nat /\ d.vendor = TRUE
    BY <1>1, DescKinds
  <2>2. f \in F /\ f.itf = d.number /\ f.out = s.found.out /\ f.in = s.found.in
    BY <1>0, <2>1
  <2>3. r = [s EXCEPT !.vendor = TRUE, !.found.itf = d.number]
    BY <1>1 DEF See
  <2>4. r = [vendor |-> TRUE, found |-> f]
    BY <1>0, <2>3
  <2> HIDE DEF r, f
  <2>5. r.vendor = TRUE /\ r.found = f /\ r \in Seen
    BY <2>2, <2>4 DEF Seen
  <2>6. d.type # "endpoint"
    BY <1>1
  <2> QED
    BY <1>1, <2>1, <2>2, <2>5, <2>6 DEF r
<1>2. CASE d.type = "interface" /\ ~d.vendor
  <2>1. r = [s EXCEPT !.vendor = FALSE] /\ d.vendor = FALSE
    BY <1>2, DescKinds DEF See
  <2> HIDE DEF r
  <2>2. r.vendor = FALSE /\ r.found = s.found /\ r \in Seen
    BY <1>0, <2>1 DEF Seen
  <2> QED
    BY <1>2, <2>1, <2>2 DEF r
<1>3. CASE d.type = "endpoint" /\ s.vendor /\ d.xfer = "bulk"
  <2> DEFINE f == [s.found EXCEPT ![d.dir] = d.address]
  <2>1. r = [s EXCEPT !.found[d.dir] = d.address]
    BY <1>3 DEF See
  <2>2. d.address \in Nat /\ d.dir \in {"out", "in"}
    BY <1>3, DescKinds
  <2>3. /\ f \in F /\ f.itf = s.found.itf
        /\ f.out = IF d.dir = "out" THEN d.address ELSE s.found.out
        /\ f.in = IF d.dir = "in" THEN d.address ELSE s.found.in
    <3>1. CASE d.dir = "out"
      BY <1>0, <2>2, <3>1
    <3>2. CASE d.dir = "in"
      BY <1>0, <2>2, <3>2
    <3> QED
      BY <2>2, <3>1, <3>2
  <2>4. r = [vendor |-> s.vendor, found |-> f]
    BY <1>0, <2>1
  <2> HIDE DEF r, f
  <2>5. r.vendor = s.vendor /\ r.found = f /\ r \in Seen
    BY <1>0, <2>3, <2>4 DEF Seen
  <2>6. d.type # "interface"
    BY <1>3
  <2> QED
    BY <1>3, <2>3, <2>5, <2>6 DEF r
<1>4. CASE d.type # "interface" /\ ~(d.type = "endpoint" /\ s.vendor /\ d.xfer = "bulk")
  <2>1. See(s, d) = s
    BY <1>4 DEF See
  <2> QED
    BY <1>4, <2>1 DEF Seen
<1> QED
  BY <1>1, <1>2, <1>3, <1>4

LEMMA LastOfMore ==
    ASSUME NEW n \in Nat, NEW S, \A i \in S : i \in Nat /\ i <= n
    PROVE  LastOf(S \cup {n + 1}) = n + 1
<1> DEFINE T == S \cup {n + 1}
<1>1. n + 1 \in T /\ \A j \in T : j <= n + 1
  OBVIOUS
<1>2. \A i \in T : (\A j \in T : j <= i) => i = n + 1
  OBVIOUS
<1> HIDE DEF T
<1>3. LastOf(T) = n + 1
  BY <1>1, <1>2 DEF LastOf
<1> QED
  BY <1>3 DEF T

(* The interface of what comes next is this one, or the one before it. *)
LEMMA OfVendorNext ==
    ASSUME NEW c \in Seq(AllDescs), NEW n \in Nat, n + 1 \in 1 .. Len(c)
    PROVE  OfVendor(c, n + 2) <=> IF c[n + 1].type = "interface" THEN c[n + 1].vendor
                                  ELSE OfVendor(c, n + 1)
<1>1. Interfaces(c) \subseteq Nat /\ DOMAIN c = 1 .. Len(c)
  BY DEF Interfaces
<1>2. CASE c[n + 1].type = "interface"
  <2>1. n + 1 \in Interfaces(c)
    BY <1>1, <1>2 DEF Interfaces
  <2>2. \A i \in Interfaces(c) : i < n + 2 /\ n + 1 <= i => i = n + 1
    BY <1>1
  <2>3. \A j \in Interfaces(c) : j < n + 2 => j <= n + 1
    BY <1>1
  <2>4. OfVendor(c, n + 2) => c[n + 1].vendor
    BY <2>1, <2>2 DEF OfVendor
  <2>5. c[n + 1].vendor => OfVendor(c, n + 2)
    BY <2>1, <2>3 DEF OfVendor
  <2>6. c[n + 1].vendor \in BOOLEAN
    BY <1>2, DescKinds
  <2> QED
    BY <1>2, <2>4, <2>5, <2>6
<1>3. CASE c[n + 1].type # "interface"
  <2>1. \A i \in Interfaces(c) : i < n + 2 <=> i < n + 1
    <3>1. n + 1 \notin Interfaces(c)
      BY <1>3 DEF Interfaces
    <3> QED
      BY <1>1, <3>1
  <2> QED
    BY <1>3, <2>1 DEF OfVendor
<1> QED
  BY <1>2, <1>3

LEMMA SeeKeepsSaw ==
    ASSUME NEW c \in Seq(AllDescs), NEW n \in Nat, n + 1 \in 1 .. Len(c),
           NEW s, Saw(c, n, s)
    PROVE  Saw(c, n + 1, See(s, c[n + 1]))
<1> DEFINE d == c[n + 1]
           r == See(s, d)
<1>1. d \in AllDescs /\ DOMAIN c = 1 .. Len(c) /\ s \in Seen
  BY DEF Saw
<1>2. /\ r \in Seen
      /\ r.vendor = IF d.type = "interface" THEN d.vendor ELSE s.vendor
      /\ r.found.itf = IF d.type = "interface" /\ d.vendor THEN d.number ELSE s.found.itf
      /\ r.found.out = IF d.type = "endpoint" /\ s.vendor /\ d.xfer = "bulk" /\ d.dir = "out"
                       THEN d.address ELSE s.found.out
      /\ r.found.in = IF d.type = "endpoint" /\ s.vendor /\ d.xfer = "bulk" /\ d.dir = "in"
                      THEN d.address ELSE s.found.in
  BY <1>1, SeeIs
<1> HIDE DEF r
<1>3. r.vendor <=> OfVendor(c, n + 2)
  <2>1. s.vendor <=> OfVendor(c, n + 1)
    BY DEF Saw
  <2>2. CASE d.type = "interface"
    BY <1>2, <2>2, OfVendorNext
  <2>3. CASE d.type # "interface"
    <3>1. r.vendor = s.vendor
      BY <1>2, <2>3
    <3>2. OfVendor(c, n + 2) <=> OfVendor(c, n + 1)
      BY <2>3, OfVendorNext
    <3> QED
      BY <2>1, <3>1, <3>2
  <2> QED
    BY <2>2, <2>3
<1>4. \A S : LET U == Upto(S, n) IN
          S \subseteq DOMAIN c =>
              /\ n + 1 \in S => /\ Upto(S, n + 1) # {}
                                /\ LastOf(Upto(S, n + 1)) = n + 1
              /\ n + 1 \notin S => Upto(S, n + 1) = U
  <2> TAKE S
  <2> SUFFICES ASSUME S \subseteq DOMAIN c
               PROVE  /\ n + 1 \in S => /\ Upto(S, n + 1) # {}
                                        /\ LastOf(Upto(S, n + 1)) = n + 1
                      /\ n + 1 \notin S => Upto(S, n + 1) = Upto(S, n)
    OBVIOUS
  <2>1. \A i \in S : i \in Nat
    BY <1>1
  <2>2. CASE n + 1 \in S
    <3>1. Upto(S, n + 1) = Upto(S, n) \cup {n + 1}
      BY <2>1, <2>2 DEF Upto
    <3>2. \A i \in Upto(S, n) : i \in Nat /\ i <= n
      BY <2>1 DEF Upto
    <3> QED
      BY <2>2, <3>1, <3>2, LastOfMore
  <2>3. CASE n + 1 \notin S
    BY <2>1, <2>3 DEF Upto
  <2> QED
    BY <2>2, <2>3
<1>5. r.found.itf = NumberOf(c, Upto(VendorInterfaces(c), n + 1))
  <2>1. VendorInterfaces(c) \subseteq DOMAIN c
    BY DEF VendorInterfaces, Interfaces
  <2>2. n + 1 \in VendorInterfaces(c) <=> d.type = "interface" /\ d.vendor
    BY <1>1 DEF VendorInterfaces, Interfaces
  <2>3. s.found.itf = NumberOf(c, Upto(VendorInterfaces(c), n))
    BY DEF Saw
  <2> QED
    BY <1>2, <1>4, <2>1, <2>2, <2>3 DEF NumberOf
<1>6. ASSUME NEW dir \in {"out", "in"}
      PROVE  IF d.type = "endpoint" /\ s.vendor /\ d.xfer = "bulk" /\ d.dir = dir
             THEN AddressOf(c, Upto(VendorEndpoints(c, dir), n + 1)) = d.address
             ELSE AddressOf(c, Upto(VendorEndpoints(c, dir), n + 1)) =
                  AddressOf(c, Upto(VendorEndpoints(c, dir), n))
  <2>1. VendorEndpoints(c, dir) \subseteq DOMAIN c
    BY DEF VendorEndpoints
  <2>2. s.vendor <=> OfVendor(c, n + 1)
    BY DEF Saw
  <2>3. n + 1 \in VendorEndpoints(c, dir)
            <=> d.type = "endpoint" /\ d.xfer = "bulk" /\ d.dir = dir /\ OfVendor(c, n + 1)
    BY <1>1 DEF VendorEndpoints
  <2> QED
    BY <1>4, <2>1, <2>2, <2>3 DEF AddressOf
<1>7. r.found.out = AddressOf(c, Upto(VendorEndpoints(c, "out"), n + 1))
  <2>1. s.found.out = AddressOf(c, Upto(VendorEndpoints(c, "out"), n))
    BY DEF Saw
  <2> QED
    BY <1>2, <1>6, <2>1
<1>8. r.found.in = AddressOf(c, Upto(VendorEndpoints(c, "in"), n + 1))
  <2>1. s.found.in = AddressOf(c, Upto(VendorEndpoints(c, "in"), n))
    BY DEF Saw
  <2> QED
    BY <1>2, <1>6, <2>1
<1>9. (n + 1) + 1 = n + 2
  OBVIOUS
<1> QED
  BY <1>2, <1>3, <1>5, <1>7, <1>8, <1>9 DEF Saw, r

Started == [vendor |-> FALSE, found |-> NothingFound]

LEMMA SawNothing ==
    ASSUME NEW c \in Seq(AllDescs)
    PROVE  Saw(c, 0, Started)
<1>1. Interfaces(c) \subseteq Nat \ {0} /\ DOMAIN c = 1 .. Len(c)
  BY DEF Interfaces
<1>2. Started \in Seen /\ Started.vendor = FALSE
      /\ Started.found.itf = NotFound /\ Started.found.out = NotFound /\ Started.found.in = NotFound
  BY DEF Started, Seen, NothingFound, NotFound
<1>3. ~ OfVendor(c, 0 + 1)
  BY <1>1 DEF OfVendor
<1>4. Upto(VendorInterfaces(c), 0) = {}
  BY <1>1 DEF Upto, VendorInterfaces
<1>5. \A dir : Upto(VendorEndpoints(c, dir), 0) = {}
  BY <1>1 DEF Upto, VendorEndpoints
<1> QED
  BY <1>2, <1>3, <1>4, <1>5 DEF Saw, NumberOf, AddressOf

(* After as many turns as there are descriptors the walk is at the end ...  *)
LEMMA WalkAdvances ==
    ASSUME NEW c \in Seq(AllDescs), NEW buf,
           \A i \in 1 .. Len(c) : buf[DescStarts(c)[i]] = c[i]
    PROVE  \A n \in 0 .. Len(c) :
               LET t == WalkTurns(buf, CellCount(c), Started)[n] IN
               t.at = DescStarts(c)[n + 1] /\ Saw(c, n, t.seen)
<1> DEFINE end == CellCount(c)
           Turn(n) == WalkTurns(buf, end, Started)[n]
           There(n) == Turn(n).at = DescStarts(c)[n + 1] /\ Saw(c, n, Turn(n).seen)
           S == {n \in Nat : There(n)}
<1>1. end \in Nat /\ Len(c) \in Nat /\ Len(c) <= end
  <2>1. Len(c) \in Nat /\ Len(c) + 1 \in 1 .. Len(c) + 1
    OBVIOUS
  <2>2. DescStarts(c)[Len(c) + 1] \in Nat /\ Len(c) + 1 <= DescStarts(c)[Len(c) + 1]
    BY <2>1, DescStartsGrow
  <2> QED
    BY <2>1, <2>2 DEF CellCount
<1> HIDE DEF end
<1>0. \A n \in 1 .. end : Turn(n) = WalkTurn(Turn(n - 1), buf, end)
  BY <1>1, WalkTurnsDef
<1>2. 0 \in S
  <2>1. Turn(0).at = 1 /\ Turn(0).seen = Started
    BY <1>1, WalkTurnsDef
  <2>2. DescStarts(c)[1] = 1
    BY DescStartsDef
  <2> QED
    BY <2>1, <2>2, SawNothing
<1>3. \A n \in 0 .. Len(c) : n < Len(c) /\ n \in S => n + 1 \in S
  <2> TAKE n \in 0 .. Len(c)
  <2> HAVE n < Len(c) /\ n \in S
  <2>1. /\ n \in Nat /\ n + 1 \in 1 .. Len(c) /\ n + 1 \in 1 .. end /\ (n + 1) - 1 = n
        /\ n + 2 \in 2 .. Len(c) + 1 /\ (n + 2) - 1 = n + 1
    BY <1>1
  <2>2. There(n)
    OBVIOUS
  <2>3. Turn(n + 1) = WalkTurn(Turn(n), buf, end)
    BY <1>0, <2>1
  <2> HIDE DEF Turn
  <2>4. DescStarts(c)[n + 1] \in 1 .. end /\ buf[DescStarts(c)[n + 1]] = c[n + 1]
    BY <2>1, CellOfDesc DEF end
  <2>5. Turn(n + 1) = [at |-> Turn(n).at + c[n + 1].len, seen |-> See(Turn(n).seen, c[n + 1])]
    BY <1>1, <2>2, <2>3, <2>4 DEF WalkTurn
  <2>6. DescStarts(c)[n + 2] = DescStarts(c)[n + 1] + c[n + 1].len
    BY <2>1, DescStartsDef
  <2>7. Saw(c, n + 1, See(Turn(n).seen, c[n + 1]))
    BY <2>1, <2>2, SeeKeepsSaw
  <2>8. There(n + 1)
    <3>1. (n + 1) + 1 = n + 2
      BY <2>1
    <3> QED
      BY <2>2, <2>5, <2>6, <2>7, <3>1
  <2> QED
    BY <2>1, <2>8
<1>4. \A n \in 0 .. Len(c) : n \in S
  <2> HIDE DEF S
  <2> QED
    BY <1>2, <1>3, InductionTo, LenProperties
<1> QED
  BY <1>4 DEF end

(* ... and there it stays. *)
LEMMA WalkStops ==
    ASSUME NEW c \in Seq(AllDescs), NEW buf,
           \A i \in 1 .. Len(c) : buf[DescStarts(c)[i]] = c[i]
    PROVE  Saw(c, Len(c), WalkTurns(buf, CellCount(c), Started)[CellCount(c)].seen)
<1> DEFINE end == CellCount(c)
           Turn(n) == WalkTurns(buf, end, Started)[n]
           k == end - Len(c)
           S == {m \in Nat : Turn(Len(c) + m) = Turn(Len(c))}
<1>1. /\ end \in Nat /\ Len(c) \in Nat /\ Len(c) <= end
      /\ DescStarts(c)[Len(c) + 1] = end + 1
  <2>1. Len(c) \in Nat /\ Len(c) + 1 \in 1 .. Len(c) + 1
    OBVIOUS
  <2>2. DescStarts(c)[Len(c) + 1] \in Nat /\ Len(c) + 1 <= DescStarts(c)[Len(c) + 1]
    BY <2>1, DescStartsGrow
  <2> QED
    BY <2>1, <2>2 DEF CellCount
<1>2. Turn(Len(c)).at = end + 1 /\ Saw(c, Len(c), Turn(Len(c)).seen)
  <2>1. Len(c) \in 0 .. Len(c)
    BY <1>1
  <2> QED
    BY <1>1, <2>1, WalkAdvances
<1> HIDE DEF end
<1>0. \A n \in 1 .. end : Turn(n) = WalkTurn(Turn(n - 1), buf, end)
  BY <1>1, WalkTurnsDef
<1>3. k \in Nat /\ Len(c) + k = end
  BY <1>1
<1>4. 0 \in S
  <2>1. Len(c) + 0 = Len(c)
    BY <1>1
  <2> QED
    BY <2>1
<1>5. \A m \in 0 .. k : m < k /\ m \in S => m + 1 \in S
  <2> TAKE m \in 0 .. k
  <2> HAVE m < k /\ m \in S
  <2> DEFINE n == Len(c) + m
  <2>1. n + 1 \in 1 .. end /\ (n + 1) - 1 = n /\ m + 1 \in Nat /\ n + 1 = Len(c) + (m + 1)
    BY <1>1, <1>3
  <2> HIDE DEF n
  <2>2. Turn(n + 1) = WalkTurn(Turn(n), buf, end)
    BY <1>0, <2>1
  <2>3. Turn(n) = Turn(Len(c))
    BY DEF n
  <2> HIDE DEF Turn
  <2>4. Turn(n).at > end
    BY <1>1, <1>2, <2>3
  <2>5. Turn(n + 1) = Turn(Len(c))
    BY <2>2, <2>3, <2>4 DEF WalkTurn
  <2> QED
    BY <2>1, <2>5
<1>6. \A m \in 0 .. k : m \in S
  <2> HIDE DEF S, k
  <2> QED
    BY <1>3, <1>4, <1>5, InductionTo
<1>7. Turn(end) = Turn(Len(c))
  <2>1. k \in S
    BY <1>3, <1>6
  <2> QED
    BY <1>3, <2>1
<1> QED
  BY <1>2, <1>7 DEF end

WalkInv ==
    /\ walk = "asked" => found = NothingFound
    /\ FindsVendorEndpoints

LEMMA WalkFindsWhatIsThere ==
    ASSUME NEW c \in Configs, walk = "asked", found = NothingFound, WalkConfig(c)
    PROVE  WalkInv'
<1>1. c \in Seq(AllDescs) /\ CellCount(c) <= BufLen
  <2>1. PICK ds \in SeqOf(Descs, MaxDescs) : c = <<Config>> \o ds /\ CellCount(c) <= BufLen
    BY DEF Configs
  <2>2. ds \in Seq(AllDescs) /\ <<Config>> \in Seq(AllDescs)
    BY <2>1 DEF SeqOf, AllDescs
  <2> QED
    BY <2>1, <2>2
<1>2. /\ walk' = "known" /\ config' = c
      /\ configBuf' = [p \in 1 .. BufLen |->
                         IF p <= CellCount(c) THEN CellAt(c, p) ELSE configBuf[p]]
      /\ found' = WalkTurns(configBuf', CellCount(c), Started)[CellCount(c)].seen.found
  BY DEF WalkConfig, Walk, Started
<1>3. \A i \in 1 .. Len(c) : configBuf'[DescStarts(c)[i]] = c[i]
  <2> TAKE i \in 1 .. Len(c)
  <2>1. CellAt(c, DescStarts(c)[i]) = c[i] /\ DescStarts(c)[i] \in 1 .. CellCount(c)
    BY <1>1, CellOfDesc
  <2>2. CellCount(c) \in Int /\ BufLen \in Nat
    <3>1. Len(c) + 1 \in 1 .. Len(c) + 1
      BY <1>1
    <3>2. DescStarts(c)[Len(c) + 1] \in Nat
      BY <1>1, <3>1, DescStartsGrow
    <3> QED
      BY <3>2, WalkAssumption DEF CellCount
  <2>3. DescStarts(c)[i] \in 1 .. BufLen /\ DescStarts(c)[i] <= CellCount(c)
    BY <1>1, <2>1, <2>2
  <2> QED
    BY <1>2, <2>1, <2>3
<1>4. Saw(c, Len(c), WalkTurns(configBuf', CellCount(c), Started)[CellCount(c)].seen)
  BY <1>1, <1>3, WalkStops
<1>5. \A S \in SUBSET (DOMAIN c) : Upto(S, Len(c)) = S
  BY <1>1 DEF Upto
<1>6. /\ Upto(VendorInterfaces(c), Len(c)) = VendorInterfaces(c)
      /\ \A dir : Upto(VendorEndpoints(c, dir), Len(c)) = VendorEndpoints(c, dir)
  <2>1. VendorInterfaces(c) \in SUBSET (DOMAIN c)
    BY DEF VendorInterfaces, Interfaces
  <2>2. \A dir : VendorEndpoints(c, dir) \in SUBSET (DOMAIN c)
    BY DEF VendorEndpoints
  <2> QED
    BY <1>5, <2>1, <2>2
<1>7. /\ found'.itf = NumberOf(c, VendorInterfaces(c))
      /\ found'.out = AddressOf(c, VendorEndpoints(c, "out"))
      /\ found'.in = AddressOf(c, VendorEndpoints(c, "in"))
  BY <1>2, <1>4, <1>6 DEF Saw
<1> QED
  BY <1>2, <1>7 DEF WalkInv, FindsVendorEndpoints

LEMMA WalkNextInv == WalkInv /\ [WalkNext]_walkVars => WalkInv'
<1> SUFFICES ASSUME WalkInv, [WalkNext]_walkVars PROVE WalkInv'
  OBVIOUS
<1>1. CASE WalkMount
  BY <1>1 DEF WalkMount, WalkInv, FindsVendorEndpoints
<1>2. CASE WalkFailed
  BY <1>2 DEF WalkFailed, WalkInv, FindsVendorEndpoints
<1>3. CASE WalkUmount
  BY <1>3 DEF WalkUmount, WalkInv, FindsVendorEndpoints
<1>4. ASSUME NEW c \in Configs, WalkConfig(c) PROVE WalkInv'
  BY <1>4, WalkFindsWhatIsThere DEF WalkConfig, WalkInv
<1>5. CASE UNCHANGED walkVars
  BY <1>5 DEF walkVars, WalkInv, FindsVendorEndpoints
<1> QED
  BY <1>1, <1>2, <1>3, <1>4, <1>5 DEF WalkNext

(* For any buffer and any sequence of the descriptors modelled that fits it, *)
(* whatever devices came before, the walk ends where the configuration does  *)
(* and has found the last vendor interface and bulk endpoints of a vendor    *)
(* interface alone (usb_host.cpp:231-281).                                   *)
THEOREM WalkFindsVendorEndpoints == WalkSpec => []FindsVendorEndpoints
<1>1. WalkInit => WalkInv
  BY DEF WalkInit, WalkInv, FindsVendorEndpoints
<1>2. WalkInv => FindsVendorEndpoints
  BY DEF WalkInv
<1> QED
  BY <1>1, <1>2, WalkNextInv, PTL DEF WalkSpec

-----------------------------------------------------------------------------
(* The dock's serial number. *)
LEMMA QuotientsDef ==
    ASSUME NEW n \in Nat, NEW base \in Nat \ {0}, NEW k \in Nat
    PROVE  /\ Quotients(n, base, k)[0] = n
           /\ \A i \in 1 .. k : Quotients(n, base, k)[i] = Quotients(n, base, k)[i - 1] \div base
<1> DEFINE Def(g, m) == g = [i \in 0 .. m |-> IF i = 0 THEN n ELSE g[i - 1] \div base]
           S == {m \in Nat : \E g : Def(g, m)}
<1>1. 0 \in S
  <2>1. Def([i \in 0 .. 0 |-> n], 0)
    OBVIOUS
  <2> QED
    BY <2>1
<1>2. ASSUME NEW m \in S PROVE m + 1 \in S
  <2>1. PICK g : Def(g, m)
    OBVIOUS
  <2> DEFINE h == [i \in 0 .. m + 1 |-> IF i = m + 1 THEN g[m] \div base ELSE g[i]]
  <2>2. \A i \in 0 .. m + 1 : h[i] = IF i = 0 THEN n ELSE h[i - 1] \div base
    BY <2>1
  <2>3. Def(h, m + 1)
    BY <2>2
  <2>4. \E f : Def(f, m + 1)
    <3> HIDE DEF h
    <3> QED
      BY <2>3
  <2>5. m + 1 \in Nat
    OBVIOUS
  <2> HIDE DEF Def
  <2> QED
    BY <2>4, <2>5
<1>3. S = Nat
  <2> HIDE DEF S
  <2>1. S \in SUBSET Nat
    BY DEF S
  <2> QED
    BY <1>1, <1>2, <2>1, Induction
<1>4. \E g : Def(g, k)
  <2>1. k \in S
    BY <1>3
  <2> QED
    BY <2>1
<1>5. Def(Quotients(n, base, k), k)
  BY <1>4 DEF Quotients
<1> QED
  BY <1>5

LEMMA Division ==
    ASSUME NEW n \in Nat, NEW base \in Nat \ {0}
    PROVE  /\ n \div base \in Nat /\ n % base \in 0 .. base - 1
           /\ n = (n % base) + base * (n \div base)
OBVIOUS

LEMMA QuotientsAreNat ==
    ASSUME NEW n \in Nat, NEW base \in Nat \ {0}, NEW k \in Nat
    PROVE  \A i \in 0 .. k : Quotients(n, base, k)[i] \in Nat
<1> DEFINE Q == Quotients(n, base, k)
           S == {i \in Nat : Q[i] \in Nat}
<1>1. Q[0] = n /\ \A i \in 1 .. k : Q[i] = Q[i - 1] \div base
  BY QuotientsDef
<1> HIDE DEF Q
<1>2. 0 \in S
  BY <1>1
<1>3. \A i \in 0 .. k : i < k /\ i \in S => i + 1 \in S
  <2> TAKE i \in 0 .. k
  <2> HAVE i < k /\ i \in S
  <2>1. i + 1 \in 1 .. k /\ (i + 1) - 1 = i
    OBVIOUS
  <2>2. Q[i + 1] = Q[i] \div base
    BY <1>1, <2>1
  <2>3. Q[i] \in Nat
    OBVIOUS
  <2>4. Q[i + 1] \in Nat
    BY <2>2, <2>3, Division
  <2> QED
    BY <2>1, <2>4
<1>4. \A i \in 0 .. k : i \in S
  <2> HIDE DEF S
  <2> QED
    BY <1>2, <1>3, InductionTo
<1> QED
  BY <1>4 DEF Q

(* The places determine the number, when nothing is left above them.        *)
LEMMA PlacesDetermine ==
    ASSUME NEW m \in Nat, NEW n \in Nat, NEW base \in Nat \ {0}, NEW k \in Nat,
           Quotients(m, base, k)[k] = Quotients(n, base, k)[k],
           \A i \in 0 .. k :
               Quotients(m, base, k)[i] % base = Quotients(n, base, k)[i] % base
    PROVE  m = n
<1> DEFINE M == Quotients(m, base, k)
           N == Quotients(n, base, k)
           S == {j \in Nat : M[k - j] = N[k - j]}
<1>1. /\ M[0] = m /\ \A i \in 1 .. k : M[i] = M[i - 1] \div base
      /\ N[0] = n /\ \A i \in 1 .. k : N[i] = N[i - 1] \div base
      /\ \A i \in 0 .. k : M[i] \in Nat /\ N[i] \in Nat
      /\ \A i \in 0 .. k : M[i] % base = N[i] % base
  BY QuotientsDef, QuotientsAreNat
<1> HIDE DEF M, N
<1>2. 0 \in S
  BY DEF M, N
<1>3. \A j \in 0 .. k : j < k /\ j \in S => j + 1 \in S
  <2> TAKE j \in 0 .. k
  <2> HAVE j < k /\ j \in S
  <2> DEFINE i == k - (j + 1)
  <2>1. i \in 0 .. k /\ k - j \in 1 .. k /\ (k - j) - 1 = i
    OBVIOUS
  <2>2. M[k - j] = M[i] \div base /\ N[k - j] = N[i] \div base
    BY <1>1, <2>1
  <2> HIDE DEF i
  <2>3. M[i] \in Nat /\ N[i] \in Nat /\ M[i] % base = N[i] % base
    BY <1>1, <2>1
  <2>4. M[i] \div base = N[i] \div base
    BY <2>2
  <2>5. /\ M[i] = (M[i] % base) + base * (M[i] \div base)
        /\ N[i] = (N[i] % base) + base * (N[i] \div base)
    BY <2>3, Division
  <2>6. M[i] = N[i]
    BY <2>3, <2>4, <2>5, Zenon
  <2> QED
    BY <2>6 DEF i
<1>4. \A j \in 0 .. k : j \in S
  <2> HIDE DEF S
  <2> QED
    BY <1>2, <1>3, InductionTo
<1>5. M[0] = N[0]
  <2>1. k \in S /\ k - k = 0
    BY <1>4
  <2> QED
    BY <2>1
<1> QED
  BY <1>1, <1>5

LEMMA QuotientSmaller ==
    ASSUME NEW n \in Nat, NEW base \in Nat \ {0}, NEW x \in Nat, n < base * x
    PROVE  n \div base < x
<1> DEFINE q == n \div base
<1>1. q \in Nat /\ n = (n % base) + base * q /\ n % base \in Nat
  BY Division
<1> HIDE DEF q
<1>2. SUFFICES ASSUME x <= q PROVE FALSE
  BY <1>1 DEF q
<1>3. base * x <= base * q
  BY <1>1, <1>2
<1> QED
  BY <1>1, <1>3

(* A word has eight digits and four bytes. *)
LEMMA Bases == Digit \in Nat \ {0} /\ Byte \in Nat \ {0}
BY InfoAssumption DEF Byte

LEMMA WordBelow ==
    ASSUME NEW n \in Word
    PROVE  n \in Nat /\ n < Byte * Byte * Byte * Byte
<1> DEFINE x == Byte * Byte * Byte * Byte
<1>1. x \in Nat
  <2>1. Byte * Byte \in Nat
    BY Bases
  <2>2. Byte * Byte * Byte \in Nat
    BY Bases, <2>1
  <2> QED
    BY Bases, <2>2
<1>2. n \in 0 .. x - 1
  BY DEF Word
<1> HIDE DEF x
<1>3. n \in Nat /\ n < x
  BY <1>1, <1>2
<1> QED
  BY <1>3 DEF x

LEMMA EightDigits ==
    ASSUME NEW n \in Word
    PROVE  n \in Nat /\ Quotients(n, Digit, 8)[8] = 0
<1> DEFINE D == Digit
           Q == Quotients(n, Digit, 8)
           x1 == D * 1
           x2 == D * x1
           x3 == D * x2
           x4 == D * x3
           x5 == D * x4
           x6 == D * x5
           x7 == D * x6
           x8 == D * x7
<1>1. D \in Nat \ {0} /\ Byte \in Nat /\ Byte = D * D /\ n \in Nat
  BY Bases, WordBelow DEF Byte
<1>2. Q[0] = n /\ \A i \in 1 .. 8 : Q[i] = Q[i - 1] \div D
  <2>1. n \in Nat /\ D \in Nat \ {0} /\ 8 \in Nat
    BY <1>1
  <2> QED
    BY <2>1, QuotientsDef, Zenon
<1>3. \A i \in 0 .. 8 : Q[i] \in Nat
  BY <1>1, QuotientsAreNat
<1>4. \A q, x \in Nat : q < D * x => q \div D < x
  BY <1>1, QuotientSmaller
<1>5. n < Byte * Byte * Byte * Byte
  BY WordBelow
<1> HIDE DEF D, Q
<1>6. \A x \in Nat : D * x \in Nat
  BY <1>1
<1>7. /\ x1 \in Nat /\ x2 \in Nat /\ x3 \in Nat /\ x4 \in Nat
      /\ x5 \in Nat /\ x6 \in Nat /\ x7 \in Nat
  <2>1. x1 \in Nat /\ x2 \in Nat /\ x3 \in Nat /\ x4 \in Nat
    BY <1>6
  <2> HIDE DEF x4
  <2> QED
    BY <1>6, <2>1
<1>8. x8 = Byte * Byte * Byte * Byte
  <2>1. \A a, b, c \in Nat : a * (b * c) = (a * b) * c
    OBVIOUS
  <2>2. x2 = Byte
    BY <1>1
  <2> HIDE DEF x2
  <2>3. x4 = Byte * Byte
    BY <1>1, <1>7, <2>1, <2>2
  <2> HIDE DEF x4
  <2>4. x6 = Byte * (Byte * Byte)
    BY <1>1, <1>7, <2>1, <2>3
  <2> HIDE DEF x6
  <2>5. x8 = Byte * (Byte * (Byte * Byte))
    BY <1>1, <1>7, <2>1, <2>4
  <2> HIDE DEF x8
  <2>6. Byte * Byte \in Nat
    BY <1>1
  <2>7. Byte * (Byte * (Byte * Byte)) = (Byte * Byte) * (Byte * Byte)
    BY <1>1, <2>1, <2>6
  <2>8. (Byte * Byte) * (Byte * Byte) = (Byte * Byte * Byte) * Byte
    BY <1>1, <2>1, <2>6
  <2> QED
    BY <2>5, <2>7, <2>8
<1>9. /\ Q[1] = Q[0] \div D /\ Q[2] = Q[1] \div D /\ Q[3] = Q[2] \div D
      /\ Q[4] = Q[3] \div D /\ Q[5] = Q[4] \div D /\ Q[6] = Q[5] \div D
      /\ Q[7] = Q[6] \div D /\ Q[8] = Q[7] \div D
  BY <1>2
<1>10. /\ Q[0] \in Nat /\ Q[1] \in Nat /\ Q[2] \in Nat /\ Q[3] \in Nat /\ Q[4] \in Nat
       /\ Q[5] \in Nat /\ Q[6] \in Nat /\ Q[7] \in Nat /\ Q[8] \in Nat
  BY <1>3
<1>11. 1 \in Nat
  OBVIOUS
<1>12. Q[0] < x8
  BY <1>2, <1>5, <1>8
<1>13. Q[4] < x4
  BY <1>4, <1>7, <1>9, <1>10, <1>12, Zenon
<1>14. Q[8] < 1
  BY <1>4, <1>7, <1>9, <1>10, <1>11, <1>13, Zenon
<1>15. Q[8] = 0
  BY <1>10, <1>14
<1> QED
  BY <1>1, <1>15 DEF D, Q

LEMMA FourBytes ==
    ASSUME NEW n \in Word
    PROVE  n \in Nat /\ Quotients(n, Byte, 4)[4] = 0
<1> DEFINE Q == Quotients(n, Byte, 4)
           x2 == Byte * Byte
           x3 == x2 * Byte
           x4 == x3 * Byte
<1>1. Byte \in Nat \ {0} /\ n \in Nat
  BY Bases, WordBelow
<1>2. Q[0] = n /\ \A i \in 1 .. 4 : Q[i] = Q[i - 1] \div Byte
  BY <1>1, QuotientsDef
<1>3. \A i \in 0 .. 4 : Q[i] \in Nat
  BY <1>1, QuotientsAreNat
<1>4. \A q, x \in Nat : q < x * Byte => q \div Byte < x
  <2>1. \A x \in Nat : x * Byte = Byte * x
    BY <1>1
  <2> QED
    BY <1>1, <2>1, QuotientSmaller
<1>5. n < x4
  BY WordBelow
<1> HIDE DEF Q
<1>6. /\ Q[1] = Q[0] \div Byte /\ Q[2] = Q[1] \div Byte
      /\ Q[3] = Q[2] \div Byte /\ Q[4] = Q[3] \div Byte
  BY <1>2
<1>7. Q[0] \in Nat /\ Q[1] \in Nat /\ Q[2] \in Nat /\ Q[3] \in Nat /\ Q[4] \in Nat
  BY <1>3
<1>8. x2 \in Nat /\ x3 \in Nat /\ 1 * Byte = Byte /\ 1 \in Nat
  BY <1>1
<1>9. Q[2] < x2
  BY <1>2, <1>4, <1>5, <1>6, <1>7, <1>8, Zenon
<1>10. Q[4] < 1
  BY <1>1, <1>4, <1>6, <1>7, <1>8, <1>9, Zenon
<1> QED
  BY <1>1, <1>7, <1>10 DEF Q

(* What is printed and sent of a word. *)
Glyphs == Nat \X Nat

LEMMA FunctionIsSeq ==
    ASSUME NEW k \in Nat, NEW S, NEW f \in [1 .. k -> S]
    PROVE  f \in Seq(S) /\ Len(f) = k
OBVIOUS

LEMMA DigitsOf ==
    ASSUME NEW n \in Word
    PROVE  /\ Hex(n, 8) \in Seq(Glyphs) /\ Len(Hex(n, 8)) = 8
           /\ \A i \in 1 .. 8 : Hex(n, 8)[i] = <<Serial, Quotients(n, Digit, 8)[8 - i] % Digit>>
           /\ \A i \in 1 .. 8 : Quotients(n, Digit, 8)[8 - i] % Digit \in 0 .. Digit - 1
<1> DEFINE Q == Quotients(n, Digit, 8)
<1>1. \A i \in 0 .. 8 : Q[i] \in Nat
  BY EightDigits, Bases, QuotientsAreNat
<1> HIDE DEF Q
<1>2. \A i \in 1 .. 8 : 8 - i \in 0 .. 8 /\ Q[8 - i] % Digit \in 0 .. Digit - 1
  <2> TAKE i \in 1 .. 8
  <2>1. 8 - i \in 0 .. 8
    OBVIOUS
  <2>2. Q[8 - i] \in Nat
    BY <1>1, <2>1
  <2> QED
    BY <2>1, <2>2, Bases, Division
<1>3. \A i \in 1 .. 8 : <<Serial, Q[8 - i] % Digit>> \in Glyphs
  BY <1>2, Bases DEF Glyphs, Serial
<1>4. Hex(n, 8) = [i \in 1 .. 8 |-> <<Serial, Q[8 - i] % Digit>>]
  BY DEF Hex, Q
<1>5. Hex(n, 8) \in [1 .. 8 -> Glyphs]
  BY <1>3, <1>4
<1>6. Hex(n, 8) \in Seq(Glyphs) /\ Len(Hex(n, 8)) = 8
  <2>1. 8 \in Nat
    OBVIOUS
  <2> QED
    BY <1>5, <2>1, FunctionIsSeq, Zenon
<1> QED
  BY <1>2, <1>4, <1>6 DEF Q

LEMMA HexDetermines ==
    ASSUME NEW m \in Word, NEW n \in Word
    PROVE  Hex(m, 8) = Hex(n, 8) <=> m = n
<1> SUFFICES ASSUME Hex(m, 8) = Hex(n, 8) PROVE m = n
  OBVIOUS
<1> DEFINE M == Quotients(m, Digit, 8)
           N == Quotients(n, Digit, 8)
<1>1. \A i \in 1 .. 8 : <<Serial, M[8 - i] % Digit>> = <<Serial, N[8 - i] % Digit>>
  BY DigitsOf
<1>2. M[8] = N[8] /\ m \in Nat /\ n \in Nat
  BY EightDigits
<1> HIDE DEF M, N
<1>3. \A j \in 0 .. 8 : M[j] % Digit = N[j] % Digit
  <2> TAKE j \in 0 .. 8
  <2>0. CASE j = 8
    BY <1>2, <2>0
  <2> SUFFICES ASSUME j # 8 PROVE M[j] % Digit = N[j] % Digit
    BY <2>0
  <2>1. 8 - j \in 1 .. 8 /\ 8 - (8 - j) = j
    OBVIOUS
  <2>2. <<Serial, M[8 - (8 - j)] % Digit>> = <<Serial, N[8 - (8 - j)] % Digit>>
    BY <1>1, <2>1, Zenon
  <2>3. <<Serial, M[j] % Digit>> = <<Serial, N[j] % Digit>>
    BY <2>1, <2>2, Zenon
  <2> QED
    BY <2>3
<1>4. 8 \in Nat
  OBVIOUS
<1>5. /\ Quotients(m, Digit, 8)[8] = Quotients(n, Digit, 8)[8]
      /\ \A i \in 0 .. 8 :
            Quotients(m, Digit, 8)[i] % Digit = Quotients(n, Digit, 8)[i] % Digit
  BY <1>2, <1>3 DEF M, N
<1>6. m \in Nat /\ n \in Nat /\ Digit \in Nat \ {0}
  BY <1>2, Bases
<1>7. \A k \in Nat :
        /\ Quotients(m, Digit, k)[k] = Quotients(n, Digit, k)[k]
        /\ \A i \in 0 .. k :
              Quotients(m, Digit, k)[i] % Digit = Quotients(n, Digit, k)[i] % Digit
        => m = n
  BY <1>6, PlacesDetermine
<1> QED
  BY <1>4, <1>5, <1>7, Zenon

(* A word is what its four bytes say. *)
LEMMA BytesOf ==
    ASSUME NEW n \in Word
    PROVE  /\ LeBytes(n, 4) \in Seq(Nat) /\ Len(LeBytes(n, 4)) = 4
           /\ n = LeBytes(n, 4)[1] + Byte * (LeBytes(n, 4)[2]
                    + Byte * (LeBytes(n, 4)[3] + Byte * LeBytes(n, 4)[4]))
<1> DEFINE Q == Quotients(n, Byte, 4)
<1>1. Q[0] = n /\ \A i \in 1 .. 4 : Q[i] = Q[i - 1] \div Byte
  BY FourBytes, Bases, QuotientsDef
<1>2. \A i \in 0 .. 4 : Q[i] \in Nat
  BY FourBytes, Bases, QuotientsAreNat
<1>3. Q[4] = 0
  BY FourBytes
<1>4. LeBytes(n, 4) = [i \in 1 .. 4 |-> Q[i - 1] % Byte]
  BY DEF LeBytes
<1> HIDE DEF Q
<1>5. /\ Q[1] = Q[0] \div Byte /\ Q[2] = Q[1] \div Byte
      /\ Q[3] = Q[2] \div Byte /\ Q[4] = Q[3] \div Byte
  BY <1>1
<1>6. Q[0] \in Nat /\ Q[1] \in Nat /\ Q[2] \in Nat /\ Q[3] \in Nat
  BY <1>2
<1>7. \A q \in Nat : q % Byte \in Nat /\ q = (q % Byte) + Byte * (q \div Byte)
  BY Bases, Division
<1>8. /\ Q[0] = (Q[0] % Byte) + Byte * Q[1] /\ Q[1] = (Q[1] % Byte) + Byte * Q[2]
      /\ Q[2] = (Q[2] % Byte) + Byte * Q[3] /\ Q[3] = (Q[3] % Byte) + Byte * Q[4]
  BY <1>5, <1>6, <1>7, Zenon
<1>9. Q[3] = Q[3] % Byte
  <2>1. Q[3] % Byte \in Nat /\ Byte * 0 = 0
    BY <1>6, <1>7, Bases
  <2> QED
    BY <1>3, <1>8, <2>1
<1>10. n = (Q[0] % Byte) + Byte * ((Q[1] % Byte) + Byte * ((Q[2] % Byte) + Byte * (Q[3] % Byte)))
  BY <1>1, <1>8, <1>9, Zenon
<1>11. /\ LeBytes(n, 4)[1] = Q[0] % Byte /\ LeBytes(n, 4)[2] = Q[1] % Byte
       /\ LeBytes(n, 4)[3] = Q[2] % Byte /\ LeBytes(n, 4)[4] = Q[3] % Byte
  BY <1>4
<1>12. LeBytes(n, 4) \in Seq(Nat) /\ Len(LeBytes(n, 4)) = 4
  <2>1. \A i \in 1 .. 4 : Q[i - 1] % Byte \in Nat
    BY <1>2, <1>7
  <2>2. LeBytes(n, 4) \in [1 .. 4 -> Nat]
    BY <1>4, <2>1
  <2>3. 4 \in Nat
    OBVIOUS
  <2> QED
    BY <2>2, <2>3, FunctionIsSeq, Zenon
<1> QED
  BY <1>10, <1>11, <1>12, Zenon

LEMMA FuseWords ==
    ASSUME NEW f \in Fuses
    PROVE  f.serial \in Word /\ f.hardware \in Word /\ f.chipLo \in Word /\ f.chipHi \in Word
BY InfoAssumption DEF Fuses

(* Two sequences joined tell each of the two, when the lengths are known. *)
LEMMA Joined ==
    ASSUME NEW S, NEW a \in Seq(S), NEW b \in Seq(S), NEW k, NEW m,
           Len(a) = k, Len(b) = m
    PROVE  /\ k \in Nat /\ m \in Nat /\ a \o b \in Seq(S) /\ Len(a \o b) = k + m
           /\ \A i \in 1 .. k + m : (a \o b)[i] = IF i <= k THEN a[i] ELSE b[i - k]
BY ConcatProperties, LenProperties

LEMMA JoinDetermines ==
    ASSUME NEW S,
           NEW a \in Seq(S), NEW b \in Seq(S), NEW c \in Seq(S), NEW d \in Seq(S),
           Len(a) = Len(c), Len(b) = Len(d), a \o b = c \o d
    PROVE  a = c /\ b = d
<1>0. PICK k, m : Len(a) = k /\ Len(c) = k /\ Len(b) = m /\ Len(d) = m
  OBVIOUS
<1>1. /\ m \in Nat /\ k \in Nat
      /\ \A i \in 1 .. k + m : (a \o b)[i] = IF i <= k THEN a[i] ELSE b[i - k]
  BY <1>0, Joined
<1>2. \A i \in 1 .. k + m : (c \o d)[i] = IF i <= k THEN c[i] ELSE d[i - k]
  BY <1>0, Joined
<1>3. \A i \in 1 .. k : a[i] = c[i]
  BY <1>1, <1>2
<1>4. \A i \in 1 .. m : b[i] = d[i]
  <2> TAKE i \in 1 .. m
  <2>1. k + i \in 1 .. k + m /\ ~ (k + i <= k) /\ (k + i) - k = i
    BY <1>1
  <2>2. (a \o b)[k + i] = b[i] /\ (c \o d)[k + i] = d[i]
    BY <1>1, <1>2, <2>1
  <2> QED
    BY <2>2
<1>5. a = c
  BY <1>0, <1>3, SeqEqual
<1>6. b = d
  BY <1>0, <1>4, SeqEqual
<1> QED
  BY <1>5, <1>6

LEMMA GlyphsJoined ==
    /\ \A s, t \in Seq(Glyphs) :
          s \o t \in Seq(Glyphs) /\ Len(s \o t) = Len(s) + Len(t)
    /\ \A p, q, s, t \in Seq(Glyphs) :
          Len(p) = Len(s) /\ Len(q) = Len(t) /\ p \o q = s \o t => p = s /\ q = t
<1>1. \A s, t \in Seq(Glyphs) :
         s \o t \in Seq(Glyphs) /\ Len(s \o t) = Len(s) + Len(t)
  BY Joined
<1>2. ASSUME NEW p \in Seq(Glyphs), NEW q \in Seq(Glyphs),
             NEW s \in Seq(Glyphs), NEW t \in Seq(Glyphs),
             Len(p) = Len(s), Len(q) = Len(t), p \o q = s \o t
      PROVE  p = s /\ q = t
  BY <1>2, JoinDetermines
<1> QED
  BY <1>1, <1>2, Zenon

LEMMA ChipIdDetermines ==
    ASSUME NEW f \in Fuses, NEW g \in Fuses
    PROVE  /\ ChipId(f) \in Seq(Glyphs) /\ Len(ChipId(f)) = 16
           /\ ChipId(f) = ChipId(g) => f.chipHi = g.chipHi /\ f.chipLo = g.chipLo
<1> DEFINE a == Hex(f.chipHi, 8)
           b == Hex(f.chipLo, 8)
           c == Hex(g.chipHi, 8)
           d == Hex(g.chipLo, 8)
<1>1. /\ a \in Seq(Glyphs) /\ b \in Seq(Glyphs) /\ c \in Seq(Glyphs) /\ d \in Seq(Glyphs)
      /\ Len(a) = 8 /\ Len(b) = 8 /\ Len(c) = 8 /\ Len(d) = 8
  BY FuseWords, DigitsOf, Zenon
<1>2. ChipId(f) = a \o b /\ ChipId(g) = c \o d
  BY DEF ChipId
<1>3. /\ a = c => f.chipHi = g.chipHi
      /\ b = d => f.chipLo = g.chipLo
  BY FuseWords, HexDetermines, Zenon
<1> HIDE DEF a, b, c, d
<1>4. a \o b \in Seq(Glyphs) /\ Len(a \o b) = 16
  <2>1. a \o b \in Seq(Glyphs) /\ Len(a \o b) = Len(a) + Len(b)
    BY <1>1, GlyphsJoined, Zenon
  <2> QED
    BY <1>1, <2>1
<1>5. ASSUME a \o b = c \o d PROVE a = c /\ b = d
  BY <1>1, <1>5, GlyphsJoined, Zenon
<1> QED
  BY <1>2, <1>3, <1>4, <1>5

LEMMA SerialStrDetermines ==
    ASSUME NEW f \in Fuses, NEW g \in Fuses
    PROVE  /\ SerialStr(f) \in Seq(Glyphs) /\ Len(SerialStr(f)) \in 1 .. 17
           /\ SerialStr(f) = SerialStr(g) <=> SameDock(f, g)
<1> DEFINE u == <<Underscore>>
           a == ChipId(f)
           b == ChipId(g)
           c == Hex(f.serial, 8)
           d == Hex(g.serial, 8)
<1>1. u \in Seq(Glyphs) /\ Len(u) = 1
  BY Bases DEF Underscore, Glyphs, Serial
<1>2. /\ a \in Seq(Glyphs) /\ Len(a) = 16 /\ b \in Seq(Glyphs) /\ Len(b) = 16
      /\ a = b => f.chipHi = g.chipHi /\ f.chipLo = g.chipLo
  BY ChipIdDetermines, Zenon
<1>3. /\ c \in Seq(Glyphs) /\ Len(c) = 8 /\ d \in Seq(Glyphs) /\ Len(d) = 8
      /\ c = d <=> f.serial = g.serial
  BY FuseWords, DigitsOf, HexDetermines, Zenon
<1>4. /\ SerialStr(f) = IF Unprovisioned(f) THEN u \o a ELSE c
      /\ SerialStr(g) = IF Unprovisioned(g) THEN u \o b ELSE d
  BY DEF SerialStr
<1> HIDE DEF u, a, b, c, d
<1>5. u \o a \in Seq(Glyphs) /\ Len(u \o a) = 17 /\ Len(u \o b) = 17
  <2>1. /\ u \o a \in Seq(Glyphs) /\ Len(u \o a) = Len(u) + Len(a)
        /\ Len(u \o b) = Len(u) + Len(b)
    BY <1>1, <1>2, GlyphsJoined, Zenon
  <2> QED
    BY <1>1, <1>2, <2>1
<1>6. SerialStr(f) \in Seq(Glyphs) /\ Len(SerialStr(f)) \in 1 .. 17
  BY <1>3, <1>4, <1>5
<1>7. CASE Unprovisioned(f) /\ Unprovisioned(g)
  <2>1. SameDock(f, g) <=> f = g
    BY <1>7 DEF SameDock
  <2>2. f = g => SerialStr(f) = SerialStr(g)
    OBVIOUS
  <2>3. ASSUME SerialStr(f) = SerialStr(g) PROVE f = g
    <3>1. u \o a = u \o b
      BY <1>4, <1>7, <2>3
    <3>3. a = b
      BY <1>1, <1>2, <3>1, GlyphsJoined, Zenon
    <3>4. f.chipHi = g.chipHi /\ f.chipLo = g.chipLo
      BY <1>2, <3>3
    <3>5. f.serial = g.serial /\ f.hardware = g.hardware
      BY <1>7 DEF Unprovisioned
    <3> QED
      BY <3>4, <3>5 DEF Fuses
  <2> QED
    BY <1>6, <2>1, <2>2, <2>3
<1>8. CASE Unprovisioned(f) /\ ~ Unprovisioned(g)
  <2>1. ~ SameDock(f, g)
    BY <1>8 DEF SameDock
  <2>2. Len(SerialStr(f)) = 17 /\ Len(SerialStr(g)) = 8
    BY <1>3, <1>4, <1>5, <1>8
  <2>3. SerialStr(f) # SerialStr(g)
    BY <2>2
  <2> QED
    BY <1>6, <2>1, <2>3, Zenon
<1>9. CASE ~ Unprovisioned(f) /\ Unprovisioned(g)
  <2>1. ~ SameDock(f, g)
    BY <1>9 DEF SameDock
  <2>2. Len(SerialStr(f)) = 8 /\ Len(SerialStr(g)) = 17
    BY <1>3, <1>4, <1>5, <1>9
  <2>3. SerialStr(f) # SerialStr(g)
    BY <2>2
  <2> QED
    BY <1>6, <2>1, <2>3, Zenon
<1>10. CASE ~ Unprovisioned(f) /\ ~ Unprovisioned(g)
  <2>1. SameDock(f, g) <=> f.serial = g.serial
    BY <1>10 DEF SameDock
  <2>2. SerialStr(f) = c /\ SerialStr(g) = d
    BY <1>4, <1>10
  <2> QED
    BY <1>3, <1>6, <2>1, <2>2
<1> QED
  BY <1>7, <1>8, <1>9, <1>10

(* What SubSeq and \o give on the sequences of the dock's strings. *)
LEMMA PrefixOf ==
    ASSUME NEW S, NEW s \in Seq(S), NEW t \in Seq(S)
    PROVE  SubSeq(s \o t, 1, Len(s)) = s
<1> DEFINE j == s \o t
           p == SubSeq(j, 1, Len(s))
<1>1. PICK k, m : Len(s) = k /\ Len(t) = m
  OBVIOUS
<1>2. /\ k \in Nat /\ m \in Nat /\ j \in Seq(S) /\ Len(j) = k + m
      /\ \A i \in 1 .. k + m : j[i] = IF i <= k THEN s[i] ELSE t[i - k]
  BY <1>1, Joined
<1> HIDE DEF j
<1>3. \A i \in 1 .. k : j[i] \in S /\ j[i] = s[i]
  BY <1>1, <1>2
<1>4. /\ p \in Seq(S) /\ Len(p) = k
      /\ \A i \in 1 .. k : p[i] = j[i]
  <2>1. 1 \in Int /\ k \in Int /\ k - 1 + 1 = k
    BY <1>2
  <2>2. /\ SubSeq(j, 1, k) \in Seq(S)
        /\ Len(SubSeq(j, 1, k)) = IF 1 <= k THEN k - 1 + 1 ELSE 0
        /\ \A i \in 1 .. k - 1 + 1 : SubSeq(j, 1, k)[i] = j[1 + i - 1]
    BY <1>3, <2>1, SubSeqProperties
  <2> QED
    BY <1>1, <1>2, <2>1, <2>2
<1> HIDE DEF p
<1>5. p = s
  BY <1>1, <1>3, <1>4, SeqEqual
<1> QED
  BY <1>5 DEF p, j

LEMMA StringPrefixes ==
    /\ \A s, t \in Seq(Glyphs) : SubSeq(s \o t, 1, Len(s)) = s
    /\ \A s \in Seq(Glyphs), k \in Nat :
          k <= Len(s) => SubSeq(s, 1, k) \in Seq(Glyphs)
    /\ \A s \in Seq(Glyphs) : SubSeq(s, 1, Len(s)) = s
<1>1. \A s, t \in Seq(Glyphs) : SubSeq(s \o t, 1, Len(s)) = s
  BY PrefixOf
<1>2. ASSUME NEW s \in Seq(Glyphs), NEW k \in Nat, k <= Len(s)
      PROVE  SubSeq(s, 1, k) \in Seq(Glyphs)
  <2>1. \A i \in 1 .. k : s[i] \in Glyphs
    BY <1>2, LenProperties
  <2> QED
    BY <2>1, SubSeqProperties
<1>3. ASSUME NEW s \in Seq(Glyphs)
      PROVE  SubSeq(s, 1, Len(s)) = s
  <2>1. <<>> \in Seq(Glyphs) /\ s \o <<>> = s
    BY ConcatEmptySeq
  <2> QED
    BY <1>1, <2>1
<1> QED
  BY <1>1, <1>2, <1>3, Zenon

(* What a host reads of the block. *)
LEMMA BytesAreSeq ==
    ASSUME NEW n \in Nat
    PROVE  LeBytes(n, 4) \in Seq(Nat)
<1> DEFINE Q == Quotients(n, Byte, 4)
<1>1. \A i \in 0 .. 4 : Q[i] \in Nat
  BY Bases, QuotientsAreNat
<1>2. LeBytes(n, 4) = [i \in 1 .. 4 |-> Q[i - 1] % Byte]
  BY DEF LeBytes
<1> HIDE DEF Q
<1>3. \A q \in Nat : q % Byte \in Nat
  BY Bases, Division
<1>4. \A i \in 1 .. 4 : Q[i - 1] % Byte \in Nat
  BY <1>1, <1>3
<1>5. LeBytes(n, 4) \in [1 .. 4 -> Nat] /\ 4 \in Nat
  BY <1>2, <1>4
<1> QED
  BY <1>5, FunctionIsSeq

LEMMA JoinedParts ==
    ASSUME NEW S, NEW s \in Seq(S), NEW t \in Seq(S)
    PROVE  /\ s \o t \in Seq(S) /\ Len(s \o t) = Len(s) + Len(t)
           /\ Len(s) \in Nat /\ Len(t) \in Nat
           /\ \A i \in 1 .. Len(s) : (s \o t)[i] = s[i]
           /\ \A i \in 1 .. Len(t) : (s \o t)[Len(s) + i] = t[i]
<1>1. PICK k, m : Len(s) = k /\ Len(t) = m
  OBVIOUS
<1>2. /\ k \in Nat /\ m \in Nat /\ s \o t \in Seq(S) /\ Len(s \o t) = k + m
      /\ \A i \in 1 .. k + m : (s \o t)[i] = IF i <= k THEN s[i] ELSE t[i - k]
  BY <1>1, Joined
<1>3. \A i \in 1 .. k : (s \o t)[i] = s[i]
  BY <1>2
<1>4. \A i \in 1 .. m : (s \o t)[k + i] = t[i]
  <2> TAKE i \in 1 .. m
  <2>1. k + i \in 1 .. k + m /\ ~ (k + i <= k) /\ (k + i) - k = i
    BY <1>2
  <2> QED
    BY <1>2, <2>1
<1> QED
  BY <1>1, <1>2, <1>3, <1>4

LEMMA BlockJoined ==
    \A s, t \in Seq(Nat) :
        /\ s \o t \in Seq(Nat) /\ Len(s \o t) = Len(s) + Len(t)
        /\ Len(s) \in Nat /\ Len(t) \in Nat
        /\ \A i \in 1 .. Len(s) : (s \o t)[i] = s[i]
        /\ \A i \in 1 .. Len(t) : (s \o t)[Len(s) + i] = t[i]
BY JoinedParts

LEMMA GetInfoTells ==
    ASSUME fuses \in Fuses, version \in Versions
    PROVE  ReadLe(GetInfo, 4) = fuses.serial /\ ReadLe(GetInfo, 8) = fuses.hardware
<1> DEFINE z == [i \in 1 .. 4 |-> 0]
           s == LeBytes(fuses.serial, 4)
           h == LeBytes(fuses.hardware, 4)
           v == LeBytes(FirmwareWord(version), 4)
           g == SubSeq(Git, 1, 8)
<1>1. /\ s \in Seq(Nat) /\ Len(s) = 4
      /\ fuses.serial = s[1] + Byte * (s[2] + Byte * (s[3] + Byte * s[4]))
      /\ h \in Seq(Nat) /\ Len(h) = 4
      /\ fuses.hardware = h[1] + Byte * (h[2] + Byte * (h[3] + Byte * h[4]))
  BY FuseWords, BytesOf, Zenon
<1>2. z \in Seq(Nat) /\ Len(z) = 4
  <2>1. z \in [1 .. 4 -> Nat] /\ 4 \in Nat
    OBVIOUS
  <2> QED
    BY <2>1, FunctionIsSeq
<1>3. v \in Seq(Nat)
  <2>1. version.major \in Nat /\ version.minor \in Nat /\ version.patch \in Nat
    BY InfoAssumption, Bases
  <2>2. FirmwareWord(version) \in Nat
    <3>1. \A x, y \in Nat : x + Byte * y \in Nat /\ Byte * x \in Nat
      BY Bases
    <3> QED
      BY <2>1, <3>1 DEF FirmwareWord
  <2> QED
    BY <2>2, BytesAreSeq
<1>4. g \in Seq(Nat)
  <2>1. \A i \in 1 .. 8 : Git[i] \in Nat
    <3>1. \A q \in Nat : q % Byte \in Nat
      BY Bases, Division
    <3> QED
      BY <3>1 DEF Git
  <2> QED
    BY <2>1, SubSeqProperties
<1>5. GetInfo = z \o s \o h \o v \o g
  BY DEF GetInfo
<1> HIDE DEF z, s, h, v, g
<1> DEFINE zs == z \o s
           zsh == zs \o h
           zshv == zsh \o v
<1>6. /\ zs \in Seq(Nat) /\ Len(zs) = 8
      /\ zs[5] = s[1] /\ zs[6] = s[2] /\ zs[7] = s[3] /\ zs[8] = s[4]
  <2>1. /\ zs \in Seq(Nat) /\ Len(zs) = Len(z) + Len(s)
        /\ \A i \in 1 .. Len(s) : zs[Len(z) + i] = s[i]
    BY <1>1, <1>2, BlockJoined, Zenon
  <2> HIDE DEF zs
  <2> QED
    BY <1>1, <1>2, <2>1
<1> HIDE DEF zs
<1>7. /\ zsh \in Seq(Nat) /\ Len(zsh) = 12
      /\ \A i \in 1 .. 8 : zsh[i] = zs[i]
      /\ zsh[9] = h[1] /\ zsh[10] = h[2] /\ zsh[11] = h[3] /\ zsh[12] = h[4]
  <2>1. /\ zsh \in Seq(Nat) /\ Len(zsh) = Len(zs) + Len(h)
        /\ \A i \in 1 .. Len(zs) : zsh[i] = zs[i]
        /\ \A i \in 1 .. Len(h) : zsh[Len(zs) + i] = h[i]
    BY <1>1, <1>6, BlockJoined, Zenon
  <2> HIDE DEF zsh
  <2> QED
    BY <1>1, <1>6, <2>1
<1> HIDE DEF zsh
<1>8. /\ zshv \in Seq(Nat) /\ Len(zshv) >= 12
      /\ \A i \in 1 .. 12 : zshv[i] = zsh[i]
  <2>1. /\ zshv \in Seq(Nat) /\ Len(zshv) = Len(zsh) + Len(v) /\ Len(v) \in Nat
        /\ \A i \in 1 .. Len(zsh) : zshv[i] = zsh[i]
    BY <1>3, <1>7, BlockJoined, Zenon
  <2> HIDE DEF zshv
  <2> QED
    BY <1>7, <2>1
<1> HIDE DEF zshv
<1>9. GetInfo = zshv \o g
  BY <1>5 DEF zs, zsh, zshv
<1>10. \A i \in 1 .. 12 : GetInfo[i] = zshv[i]
  <2>1. \A i \in 1 .. Len(zshv) : (zshv \o g)[i] = zshv[i]
    BY <1>4, <1>8, BlockJoined, Zenon
  <2>2. PICK k \in Nat : k = Len(zshv) /\ k >= 12
    BY <1>8, LenProperties
  <2>3. \A i \in 1 .. 12 : i \in 1 .. k
    BY <2>2
  <2> QED
    BY <1>9, <2>1, <2>2, <2>3
<1>11. \A i \in 1 .. 12 : GetInfo[i] = zsh[i]
  BY <1>8, <1>10
<1>12. /\ GetInfo[5] = s[1] /\ GetInfo[6] = s[2] /\ GetInfo[7] = s[3] /\ GetInfo[8] = s[4]
       /\ GetInfo[9] = h[1] /\ GetInfo[10] = h[2] /\ GetInfo[11] = h[3] /\ GetInfo[12] = h[4]
  <2>1. \A i \in 1 .. 8 : i \in 1 .. 12 /\ GetInfo[i] = zs[i]
    BY <1>7, <1>11
  <2>2. /\ GetInfo[5] = zs[5] /\ GetInfo[6] = zs[6]
        /\ GetInfo[7] = zs[7] /\ GetInfo[8] = zs[8]
    BY <2>1
  <2>3. /\ GetInfo[9] = zsh[9] /\ GetInfo[10] = zsh[10]
        /\ GetInfo[11] = zsh[11] /\ GetInfo[12] = zsh[12]
    BY <1>11
  <2> QED
    BY <1>6, <1>7, <2>2, <2>3
<1> DEFINE G == GetInfo
<1> HIDE DEF G
<1>13. /\ ReadLe(G, 4) = G[5] + Byte * (G[6] + Byte * (G[7] + Byte * G[8]))
       /\ ReadLe(G, 8) = G[9] + Byte * (G[10] + Byte * (G[11] + Byte * G[12]))
  <2>1. /\ 4 + 1 = 5 /\ 4 + 2 = 6 /\ 4 + 3 = 7 /\ 4 + 4 = 8
        /\ 8 + 1 = 9 /\ 8 + 2 = 10 /\ 8 + 3 = 11 /\ 8 + 4 = 12
    OBVIOUS
  <2> QED
    BY <2>1, Zenon DEF ReadLe
<1> QED
  BY <1>1, <1>12, <1>13, Zenon DEF G

(* What the buffer holds, and the string last read of it. *)
InfoInv ==
    /\ fuses \in Fuses /\ version \in Versions
    /\ descStr \in Seq(Glyphs) /\ descLen \in Nat
    /\ asked = Serial => StringRead = SerialStr(fuses)

LEMMA StringsFit ==
    ASSUME fuses \in Fuses, NEW i \in Indices
    PROVE  StringAt(i) \in Seq(Glyphs)
<1>1. CASE i = Serial
  BY <1>1, SerialStrDetermines DEF StringAt
<1>2. CASE i # Serial
  <2> DEFINE k == StrLen[IF i < Serial THEN i ELSE i - 1]
  <2>1. PICK m \in Nat : m = Len(StrLen) /\ m >= 2
    BY InfoAssumption, LenProperties
  <2>2. i \in 1 .. m + 1
    BY <2>1 DEF Indices
  <2>3. (IF i < Serial THEN i ELSE i - 1) \in 1 .. m
    BY <1>2, <2>1, <2>2 DEF Serial
  <2>4. k \in Nat
    BY <2>1, <2>3, InfoAssumption, ElementOfSeq
  <2>5. StringAt(i) = [n \in 1 .. k |-> <<i, n>>]
    BY <1>2 DEF StringAt
  <2> HIDE DEF k
  <2>6. \A n \in 1 .. k : <<i, n>> \in Glyphs
    BY <2>2, <2>4 DEF Glyphs
  <2>7. StringAt(i) \in [1 .. k -> Glyphs]
    BY <2>5, <2>6
  <2> QED
    BY <2>4, <2>7, FunctionIsSeq
<1> QED
  BY <1>1, <1>2

LEMMA CutFits ==
    ASSUME NEW s \in Seq(Glyphs)
    PROVE  /\ Cut(s) \in Seq(Glyphs)
           /\ Len(s) < StrMax => Cut(s) = s
<1>1. StrMax \in Nat /\ StrMax >= 17
  BY InfoAssumption
<1>2. PICK k \in Nat : k = Len(s)
  BY LenProperties
<1>3. CASE k < StrMax
  <2>1. Cut(s) = SubSeq(s, 1, Len(s))
    BY <1>2, <1>3 DEF Cut
  <2> QED
    BY <2>1, StringPrefixes, Zenon
<1>4. CASE ~ (k < StrMax)
  <2>1. Cut(s) = SubSeq(s, 1, StrMax - 1)
    BY <1>2, <1>4 DEF Cut
  <2>2. StrMax - 1 \in Nat /\ StrMax - 1 <= k
    BY <1>1, <1>2, <1>4
  <2>3. SubSeq(s, 1, StrMax - 1) \in Seq(Glyphs)
    BY <1>2, <2>2, StringPrefixes
  <2> QED
    BY <1>2, <1>4, <2>1, <2>3
<1> QED
  BY <1>3, <1>4

(* The string written is the string read, whatever was in the buffer. *)
LEMMA AnswerRead ==
    ASSUME NEW i, NEW s \in Seq(Glyphs), descStr \in Seq(Glyphs), Answer(i, s)
    PROVE  /\ descStr' \in Seq(Glyphs) /\ descLen' \in Nat
           /\ StringRead' = s /\ asked' = i
<1> DEFINE rest == SubSeq(descStr, Len(s) + 1, Len(descStr))
<1>1. PICK k, m \in Nat : k = Len(s) /\ m = Len(descStr)
  BY LenProperties
<1>2. rest \in Seq(Glyphs)
  <2>1. k + 1 \in Int /\ m \in Int
    OBVIOUS
  <2>2. \A j \in k + 1 .. m : j \in 1 .. m
    OBVIOUS
  <2>3. \A j \in k + 1 .. m : descStr[j] \in Glyphs
    BY <1>1, <2>2, ElementOfSeq
  <2> QED
    BY <1>1, <2>1, <2>3, SubSeqProperties
<1>3. descStr' = s \o rest /\ asked' = i /\ descLen' = Len(s)
  BY DEF Answer, Overwrite
<1> HIDE DEF rest
<1>4. descStr' \in Seq(Glyphs)
  BY <1>2, <1>3, GlyphsJoined
<1>5. StringRead' = SubSeq(s \o rest, 1, Len(s))
  BY <1>3 DEF StringRead
<1>6. SubSeq(s \o rest, 1, Len(s)) = s
  BY <1>2, StringPrefixes, Zenon
<1> QED
  BY <1>1, <1>3, <1>4, <1>5, <1>6

LEMMA InfoNextInv ==
    ASSUME StrMax > 17, InfoInv, [InfoNext]_infoVars
    PROVE  InfoInv'
<1>1. CASE UNCHANGED infoVars
  BY <1>1 DEF InfoInv, infoVars, StringRead
<1>2. CASE InfoNext
  <2>1. PICK i \in 0 .. Len(StrLen) + 2 : GetString(i)
    BY <1>2 DEF InfoNext
  <2>2. fuses' = fuses /\ version' = version
    BY <2>1 DEF GetString
  <2>3. CASE i = 0 /\ Answer(i, Language)
    <3>1. Language \in Seq(Glyphs)
      BY DEF Language, Glyphs
    <3>2. /\ descStr' \in Seq(Glyphs) /\ descLen' \in Nat /\ asked' = i
      BY <2>3, <3>1, AnswerRead DEF InfoInv
    <3>3. asked' # Serial
      BY <2>3, <3>2 DEF Serial
    <3> QED
      BY <2>2, <3>2, <3>3 DEF InfoInv
  <2>4. CASE i \in Indices /\ Answer(i, Cut(StringAt(i)))
    <3>1. StringAt(i) \in Seq(Glyphs) /\ Cut(StringAt(i)) \in Seq(Glyphs)
      BY <2>4, StringsFit, CutFits DEF InfoInv
    <3>2. /\ descStr' \in Seq(Glyphs) /\ descLen' \in Nat /\ asked' = i
          /\ StringRead' = Cut(StringAt(i))
      BY <2>4, <3>1, AnswerRead DEF InfoInv
    <3>3. ASSUME i = Serial PROVE StringRead' = SerialStr(fuses)
      <4>1. StringAt(i) = SerialStr(fuses)
        BY <3>3 DEF StringAt
      <4>2. PICK k \in 1 .. 17 : k = Len(SerialStr(fuses))
        <5>1. fuses \in Fuses
          BY DEF InfoInv
        <5>2. Len(SerialStr(fuses)) \in 1 .. 17
          BY <5>1, SerialStrDetermines, Zenon
        <5> QED
          BY <5>2, Zenon
      <4>3. k < StrMax
        <5>1. StrMax \in Nat
          BY InfoAssumption
        <5>2. k \in Nat /\ k <= 17
          OBVIOUS
        <5> QED
          BY <5>1, <5>2
      <4> QED
        BY <3>1, <3>2, <4>1, <4>2, <4>3, CutFits
    <3> QED
      BY <2>2, <3>2, <3>3 DEF InfoInv
  <2>5. CASE i > Len(StrLen) + 1 /\ UNCHANGED <<descStr, descLen, asked>>
    BY <2>2, <2>5 DEF InfoInv, StringRead
  <2> QED
    BY <2>1, <2>3, <2>4, <2>5 DEF GetString
<1> QED
  BY <1>1, <1>2

LEMMA InfoInvAgrees ==
    ASSUME InfoInv
    PROVE  IdentityAgrees
<1> SUFFICES ASSUME asked = Serial PROVE
        /\ \A f \in Fuses : SerialStr(f) = StringRead <=> SameDock(f, fuses)
        /\ IF ReadLe(GetInfo, 4) = 0 /\ ReadLe(GetInfo, 8) = 0
           THEN StringRead = <<Underscore>> \o ChipId(fuses)
           ELSE StringRead = Hex(ReadLe(GetInfo, 4), 8)
  BY DEF IdentityAgrees
<1>1. StringRead = SerialStr(fuses) /\ fuses \in Fuses /\ version \in Versions
  BY DEF InfoInv
<1>2. \A f \in Fuses : SerialStr(f) = StringRead <=> SameDock(f, fuses)
  BY <1>1, SerialStrDetermines, Zenon
<1>3. ReadLe(GetInfo, 4) = fuses.serial /\ ReadLe(GetInfo, 8) = fuses.hardware
  BY <1>1, GetInfoTells
<1> QED
  BY <1>1, <1>2, <1>3 DEF SerialStr, Unprovisioned

(* For every content of the fuses and every string asked for before, the     *)
(* serial number's string is the one of this dock and of no other, and       *)
(* GetInfo tells the same number, when the buffer has room for the longest   *)
(* of them with its header (descriptors.c:130-171, info.rs:83).              *)
THEOREM SerialNumberIdentifies == StrMax > 17 => (InfoSpec => []IdentityAgrees)
<1> SUFFICES ASSUME StrMax > 17 PROVE InfoSpec => []IdentityAgrees
  OBVIOUS
<1>1. InfoInit => InfoInv
  <2> SUFFICES ASSUME InfoInit PROVE InfoInv
    OBVIOUS
  <2>1. <<>> \in Seq(Glyphs)
    OBVIOUS
  <2>2. asked # Serial
    BY DEF InfoInit, Serial
  <2> QED
    BY <2>1, <2>2 DEF InfoInit, InfoInv
<1>2. InfoInv /\ [InfoNext]_infoVars => InfoInv'
  BY InfoNextInv
<1>3. InfoInv => IdentityAgrees
  BY InfoInvAgrees
<1> QED
  BY <1>1, <1>2, <1>3, PTL DEF InfoSpec
=============================================================================
