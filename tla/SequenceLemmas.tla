---------------------------- MODULE SequenceLemmas ----------------------------
(***************************************************************************)
(* Facts about numbers and sequences that the proofs about the data of the *)
(* program rest on.                                                        *)
(*                                                                         *)
(* The induction theorems of the library have an operator as a parameter.  *)
(* Induction is here about a set of numbers instead, from the fact that    *)
(* every set of numbers has a least one.                                   *)
(***************************************************************************)
EXTENDS Integers, SequencesExt, TLAPS, SequenceTheorems, WellFoundedInduction

(* A set of numbers that is not empty has a least one.                     *)
LEMMA Least ==
  ASSUME NEW I \in SUBSET Nat, I # {}
  PROVE  \E i \in I : \A j \in I : i <= j
  <1>1. PICK i \in I : \A j \in I : ~ (<<j, i>> \in OpToRel(<, Nat))
    BY NatLessThanWellFounded, WFMin
  <1>2. \A j \in I : ~ (j < i)
    BY <1>1 DEF OpToRel
  <1>3. i \in Nat /\ \A j \in I : j \in Nat
    OBVIOUS
  <1> QED
    BY <1>2, <1>3

(* Induction: what has the number 0 and the next of each of its numbers    *)
(* has them all.                                                           *)
LEMMA Induction ==
  ASSUME NEW I, 0 \in I, \A n \in Nat : n \in I => n + 1 \in I
  PROVE  Nat \subseteq I
  <1> DEFINE Missing == Nat \ I
  <1> SUFFICES ASSUME Missing # {} PROVE FALSE
    OBVIOUS
  <1>1. PICK n \in Missing : \A m \in Missing : n <= m
    BY Least
  <1>2. n \in Nat /\ n # 0 /\ n - 1 \in Nat
    BY <1>1
  <1>3. n - 1 \in I
    BY <1>1, <1>2
  <1>4. (n - 1) + 1 = n
    BY <1>2
  <1> QED
    BY <1>1, <1>2, <1>3, <1>4

(* The least and the greatest of a set, once they are known.               *)
LEMMA Extremes ==
  ASSUME NEW I \in SUBSET Int, NEW x \in I
  PROVE  /\ (\A y \in I : x <= y) => Min(I) = x
         /\ (\A y \in I : y <= x) => Max(I) = x
  <1>1. ASSUME \A y \in I : x <= y PROVE Min(I) = x
    <2>1. \A z \in I : (\A y \in I : z <= y) => z = x
      BY <1>1
    <2> QED
      BY <1>1, <2>1 DEF Min
  <1>2. ASSUME \A y \in I : y <= x PROVE Max(I) = x
    <2>1. \A z \in I : (\A y \in I : y <= z) => z = x
      BY <1>2
    <2> QED
      BY <1>2, <2>1 DEF Max
  <1> QED
    BY <1>1, <1>2

(* A set of numbers that does not go beyond n has a greatest.              *)
LEMMA Greatest ==
  ASSUME NEW n \in Nat, NEW I \in SUBSET (1..n), I # {}
  PROVE  Max(I) \in I /\ Max(I) \in 1..n /\ \A j \in I : j <= Max(I)
  <1> DEFINE Below == {n - i : i \in I}
  <1>1. Below \subseteq Nat /\ Below # {}
    <2>1. \A i \in I : i \in 1..n /\ n - i \in Nat
      OBVIOUS
    <2> QED
      BY <2>1
  <1> HIDE DEF Below
  <1>2. PICK x \in Below : \A y \in Below : x <= y
    BY <1>1, Least
  <1>3. PICK i \in I : x = n - i
    BY <1>2 DEF Below
  <1>4. ASSUME NEW j \in I PROVE i >= j
    <2>1. n - j \in Below /\ i \in 1..n /\ j \in 1..n
      BY DEF Below
    <2> QED
      BY <1>2, <1>3, <2>1
  <1>5. \A k \in I : (\A j \in I : k >= j) => k = i
    BY <1>4
  <1> QED
    BY <1>4, <1>5 DEF Max

(* Where the elements of two sequences are in their concatenation.         *)
LEMMA Joined ==
  ASSUME NEW S, NEW s \in Seq(S), NEW t \in Seq(S)
  PROVE  /\ s \o t \in Seq(S)
         /\ Len(s \o t) = Len(s) + Len(t)
         /\ \A i \in 1..Len(s) : (s \o t)[i] = s[i]
         /\ \A i \in 1..Len(t) : (s \o t)[Len(s) + i] = t[i]
  <1>1. Len(s) \in Nat /\ Len(t) \in Nat
    BY LenProperties
  <1>2. /\ s \o t \in Seq(S)
        /\ Len(s \o t) = Len(s) + Len(t)
        /\ \A i \in 1 .. Len(s) + Len(t) :
             (s \o t)[i] = IF i <= Len(s) THEN s[i] ELSE t[i - Len(s)]
    BY ConcatProperties, Zenon
  <1>3. ASSUME NEW i \in 1..Len(s) PROVE (s \o t)[i] = s[i]
    BY <1>1, <1>2
  <1>4. ASSUME NEW i \in 1..Len(t) PROVE (s \o t)[Len(s) + i] = t[i]
    BY <1>1, <1>2
  <1> QED
    BY <1>2, <1>3, <1>4

(* A concatenation, cut where it was joined.                               *)
LEMMA Cut ==
  ASSUME NEW S, NEW s \in Seq(S), NEW t \in Seq(S)
  PROVE  /\ SubSeq(s \o t, 1, Len(s)) = s
         /\ SubSeq(s \o t, Len(s) + 1, Len(s \o t)) = t
  <1> DEFINE whole == s \o t
             front == SubSeq(whole, 1, Len(s))
             back == SubSeq(whole, Len(s) + 1, Len(whole))
  <1>1. /\ Len(s) \in Nat /\ Len(t) \in Nat
        /\ whole \in Seq(S) /\ Len(whole) = Len(s) + Len(t)
        /\ \A i \in 1..Len(s) : whole[i] = s[i]
        /\ \A i \in 1..Len(t) : whole[Len(s) + i] = t[i]
    BY Joined, LenProperties
  <1> HIDE DEF whole
  <1>2. \A i \in 1..Len(whole) : whole[i] \in S
    BY <1>1, ElementOfSeq
  <1>3. /\ front \in Seq(S) /\ Len(front) = Len(s)
        /\ \A i \in 1..Len(s) : front[i] = whole[1 + i - 1]
    <2>1. (\A i \in 1..Len(s) : whole[i] \in S) /\ Len(s) - 1 + 1 = Len(s)
      BY <1>1, <1>2
    <2> QED
      BY <1>1, <2>1, SubSeqProperties
  <1>4. \A i \in 1..Len(s) : front[i] = s[i]
    <2>1. \A i \in 1..Len(s) : 1 + i - 1 = i
      BY <1>1
    <2> QED
      BY <1>1, <1>3, <2>1
  <1>5. /\ back \in Seq(S) /\ Len(back) = Len(t)
        /\ \A i \in 1..Len(t) : back[i] = whole[(Len(s) + 1) + i - 1]
    <2>1. /\ \A i \in Len(s) + 1 .. Len(whole) : whole[i] \in S
          /\ Len(whole) - (Len(s) + 1) + 1 = Len(t)
      BY <1>1, <1>2
    <2> QED
      BY <1>1, <2>1, SubSeqProperties
  <1>6. \A i \in 1..Len(t) : back[i] = t[i]
    <2>1. \A i \in 1..Len(t) : (Len(s) + 1) + i - 1 = Len(s) + i
      BY <1>1
    <2> QED
      BY <1>1, <1>5, <2>1
  <1> HIDE DEF front, back
  <1>7. front = s
    BY <1>3, <1>4, SeqEqual
  <1>8. back = t
    BY <1>5, <1>6, SeqEqual
  <1> QED
    BY <1>7, <1>8 DEF front, back, whole

(* A part stands in a line, after so many of its pieces.                   *)
Stands(line, before, part) == \A i \in 1..Len(part) : line[before + i] = part[i]

(* A text extended by another one.                                         *)
Extends(longer, shorter, part) ==
  /\ Len(shorter) \in Nat /\ Len(part) \in Nat
  /\ Len(longer) = Len(shorter) + Len(part)
  /\ Stands(longer, 0, shorter)
  /\ Stands(longer, Len(shorter), part)

LEMMA Extending ==
  ASSUME NEW S, NEW shorter \in Seq(S), NEW part \in Seq(S)
  PROVE  shorter \o part \in Seq(S) /\ Extends(shorter \o part, shorter, part)
  <1> DEFINE longer == shorter \o part
  <1>1. /\ longer \in Seq(S) /\ Len(shorter) \in Nat /\ Len(part) \in Nat
        /\ Len(longer) = Len(shorter) + Len(part)
        /\ \A i \in 1..Len(shorter) : longer[i] = shorter[i]
        /\ \A i \in 1..Len(part) : longer[Len(shorter) + i] = part[i]
    BY Joined, LenProperties
  <1> HIDE DEF longer
  <1>2. \A i \in 1..Len(shorter) : 0 + i = i
    BY <1>1
  <1> QED
    BY <1>1, <1>2 DEF Extends, Stands, longer

(* What extends a text that a line begins with is found in the line.       *)
LEMMA FoundIn ==
  ASSUME NEW line, NEW longer, NEW shorter, NEW part,
         Extends(longer, shorter, part), Stands(line, 0, longer)
  PROVE  Stands(line, 0, shorter) /\ Stands(line, Len(shorter), part)
  <1>1. Len(shorter) \in Nat /\ Len(part) \in Nat /\ Len(longer) = Len(shorter) + Len(part)
    BY DEF Extends
  <1>2. \A i \in 1..Len(longer) : 0 + i = i /\ line[i] = longer[i]
    BY <1>1 DEF Stands
  <1>3. ASSUME NEW i \in 1..Len(shorter) PROVE line[0 + i] = shorter[i]
    <2>1. i \in 1..Len(longer) /\ 0 + i = i /\ longer[i] = shorter[i]
      BY <1>1 DEF Extends, Stands
    <2> QED
      BY <1>2, <2>1
  <1>4. ASSUME NEW i \in 1..Len(part) PROVE line[Len(shorter) + i] = part[i]
    <2>1. Len(shorter) + i \in 1..Len(longer) /\ longer[Len(shorter) + i] = part[i]
      BY <1>1 DEF Extends, Stands
    <2> QED
      BY <1>2, <2>1
  <1> QED
    BY <1>3, <1>4 DEF Stands

(* Where the parts of a line are that is put together of eight.            *)
LaidOut(line, S, opening, mask, gap, program, arguments, redirection, output, closing) ==
  LET m == Len(opening) + Len(mask)
        p == m + Len(gap) + Len(program)
        r == p + Len(arguments) + Len(redirection)
        o == r + Len(output)
    IN  /\ line \in Seq(S) /\ Len(line) = o + Len(closing)
        /\ Stands(line, 0, opening)
        /\ Stands(line, Len(opening), mask)
        /\ Stands(line, m, gap)
        /\ Stands(line, m + Len(gap), program)
        /\ Stands(line, p, arguments)
        /\ Stands(line, p + Len(arguments), redirection)
        /\ Stands(line, r, output)
        /\ Stands(line, o, closing)

LEMMA Layout ==
  ASSUME NEW S, NEW opening \in Seq(S), NEW mask \in Seq(S), NEW gap \in Seq(S),
         NEW program \in Seq(S), NEW arguments \in Seq(S), NEW redirection \in Seq(S),
         NEW output \in Seq(S), NEW closing \in Seq(S), NEW line,
         line = opening \o mask \o gap \o program \o arguments \o redirection \o output \o closing
  PROVE  LaidOut(line, S, opening, mask, gap, program, arguments, redirection, output, closing)
  <1> DEFINE l1 == opening \o mask
             l2 == l1 \o gap
             l3 == l2 \o program
             l4 == l3 \o arguments
             l5 == l4 \o redirection
             l6 == l5 \o output
  <1>1. l1 \in Seq(S) /\ Extends(l1, opening, mask)
    BY Extending
  <1>2. l2 \in Seq(S) /\ Extends(l2, l1, gap)
    <2> HIDE DEF l1
    <2> QED
      BY Extending, <1>1
  <1>3. l3 \in Seq(S) /\ Extends(l3, l2, program)
    <2> HIDE DEF l2
    <2> QED
      BY Extending, <1>2
  <1>4. l4 \in Seq(S) /\ Extends(l4, l3, arguments)
    <2> HIDE DEF l3
    <2> QED
      BY Extending, <1>3
  <1>5. l5 \in Seq(S) /\ Extends(l5, l4, redirection)
    <2> HIDE DEF l4
    <2> QED
      BY Extending, <1>4
  <1>6. l6 \in Seq(S) /\ Extends(l6, l5, output)
    <2> HIDE DEF l5
    <2> QED
      BY Extending, <1>5
  <1>7. line \in Seq(S) /\ Extends(line, l6, closing)
    <2>1. line = l6 \o closing
      OBVIOUS
    <2> HIDE DEF l6
    <2> QED
      BY Extending, <1>6, <2>1
  <1> HIDE DEF l1, l2, l3, l4, l5, l6
  <1>8. Stands(line, 0, l6) /\ Stands(line, Len(l6), closing)
    BY <1>7 DEF Extends
  <1>9. Stands(line, 0, l5) /\ Stands(line, Len(l5), output)
    BY <1>6, <1>8, FoundIn
  <1>10. Stands(line, 0, l4) /\ Stands(line, Len(l4), redirection)
    BY <1>5, <1>9, FoundIn
  <1>11. Stands(line, 0, l3) /\ Stands(line, Len(l3), arguments)
    BY <1>4, <1>10, FoundIn
  <1>12. Stands(line, 0, l2) /\ Stands(line, Len(l2), program)
    BY <1>3, <1>11, FoundIn
  <1>13. Stands(line, 0, l1) /\ Stands(line, Len(l1), gap)
    BY <1>2, <1>12, FoundIn
  <1>14. Stands(line, 0, opening) /\ Stands(line, Len(opening), mask)
    BY <1>1, <1>13, FoundIn
  <1>15. /\ Len(l1) = Len(opening) + Len(mask)
         /\ Len(l2) = Len(l1) + Len(gap)
         /\ Len(l3) = Len(l2) + Len(program)
         /\ Len(l4) = Len(l3) + Len(arguments)
         /\ Len(l5) = Len(l4) + Len(redirection)
         /\ Len(l6) = Len(l5) + Len(output)
         /\ Len(line) = Len(l6) + Len(closing)
    BY <1>1, <1>2, <1>3, <1>4, <1>5, <1>6, <1>7 DEF Extends
  <1> QED
    BY <1>7, <1>8, <1>9, <1>10, <1>11, <1>12, <1>13, <1>14, <1>15 DEF LaidOut

-------------------------------------------------------------------------------
(* What FlattenSeq has put together of the first elements of a list.       *)
Gathered(lists) ==
  CHOOSE g : g = [i \in 1..Len(lists) |-> IF i = 1 THEN lists[i] ELSE g[i - 1] \o lists[i]]

(* For every list of lists there is a function that puts them together one *)
(* after the other, and FlattenSeq is its last value.                      *)
LEMMA Gathering ==
  ASSUME NEW lists, Len(lists) \in Nat
  PROVE  /\ Len(lists) > 0 => /\ Gathered(lists)[1] = lists[1]
                              /\ FlattenSeq(lists) = Gathered(lists)[Len(lists)]
         /\ \A i \in 1..Len(lists) :
              i > 1 => Gathered(lists)[i] = Gathered(lists)[i - 1] \o lists[i]
  <1> DEFINE Step(g, i) == IF i = 1 THEN lists[i] ELSE g[i - 1] \o lists[i]
             Good == {n \in Nat : \E g : g = [i \in 1..n |-> Step(g, i)]}
  <1>1. 0 \in Good
    <2> DEFINE none == [i \in 1..0 |-> 0]
    <2>1. none = [i \in 1..0 |-> Step(none, i)]
      OBVIOUS
    <2>2. \E g : g = [i \in 1..0 |-> Step(g, i)]
      BY <2>1, Zenon
    <2> QED
      BY <2>2
  <1>2. ASSUME NEW n \in Nat, n \in Good PROVE n + 1 \in Good
    <2>1. PICK g : g = [i \in 1..n |-> Step(g, i)]
      BY <1>2
    <2> DEFINE h == [i \in 1 .. n + 1 |-> IF i <= n THEN g[i] ELSE Step(g, i)]
    <2>2. ASSUME NEW i \in 1 .. n + 1 PROVE h[i] = Step(h, i)
      <3>1. i # 1 => i - 1 \in 1..n /\ h[i - 1] = g[i - 1]
        OBVIOUS
      <3>2. h[i] = Step(g, i)
        <4>1. \A k \in 1..n : g[k] = Step(g, k)
          BY <2>1
        <4>2. i \in 1..n \/ ~ (i <= n)
          OBVIOUS
        <4> HIDE DEF Step
        <4> QED
          BY <4>1, <4>2
      <3> HIDE DEF h
      <3> QED
        BY <3>1, <3>2
    <2>3. h = [i \in 1 .. n + 1 |-> Step(h, i)]
      <3>1. DOMAIN h = 1 .. n + 1
        OBVIOUS
      <3>2. h = [i \in 1 .. n + 1 |-> h[i]]
        OBVIOUS
      <3> HIDE DEF h
      <3> QED
        BY <2>2, <3>2
    <2>4. \E f : f = [i \in 1 .. n + 1 |-> Step(f, i)]
      <3> HIDE DEF h
      <3> QED
        BY <2>3, Zenon
    <2>5. n + 1 \in Nat
      OBVIOUS
    <2> QED
      BY <2>4, <2>5, Zenon
  <1>3. Len(lists) \in Good
    <2> HIDE DEF Good
    <2> QED
      BY <1>1, <1>2, Induction
  <1>4. PICK g : g = [i \in 1..Len(lists) |-> Step(g, i)]
    BY <1>3
  <1>5. Gathered(lists) = [i \in 1..Len(lists) |-> Step(Gathered(lists), i)]
    BY <1>4 DEF Gathered
  <1>6. Len(lists) > 0 => FlattenSeq(lists) = Gathered(lists)[Len(lists)]
    BY DEF FlattenSeq, Gathered
  <1>7. \A i \in 1..Len(lists) : Gathered(lists)[i] = Step(Gathered(lists), i)
    BY <1>5
  <1>8. Len(lists) > 0 => Gathered(lists)[1] = lists[1]
    <2>1. Len(lists) > 0 => 1 \in 1..Len(lists)
      OBVIOUS
    <2>2. Step(Gathered(lists), 1) = lists[1]
      OBVIOUS
    <2> HIDE DEF Step
    <2> QED
      BY <1>7, <2>1, <2>2, Zenon
  <1>9. ASSUME NEW i \in 1..Len(lists), i > 1
        PROVE  Gathered(lists)[i] = Gathered(lists)[i - 1] \o lists[i]
    <2>1. i # 1
      BY <1>9
    <2>2. Step(Gathered(lists), i) = Gathered(lists)[i - 1] \o lists[i]
      BY <2>1, Zenon
    <2> HIDE DEF Step
    <2> QED
      BY <1>7, <2>2, Zenon
  <1> QED
    BY <1>6, <1>8, <1>9

===============================================================================
