---------------------------- MODULE AlgorithmProofs ----------------------------
(***************************************************************************)
(* What holds of the programs of MCAlgorithms for any data and any width:  *)
(* of Strrstr, Quicksort, CallGraph, HuffmanWrite, Fibonascii, Factorial,  *)
(* FloatDecode and FunctionRegistry, in that order.  Each has its          *)
(* inductive invariant; the theorems are at the end.                       *)
(***************************************************************************)
EXTENDS MCAlgorithms, FiniteSetTheorems, FunctionTheorems, SequenceTheorems,
        WellFoundedInduction, NaturalsInduction, TLAPS

-------------------------------------------------------------------------------
(* Strrstr. *)

\* No place after ss1 is one, and the comparison has gone well so far.
Searched ==
  /\ finding # "idle" /\ s2 # <<>> =>
       /\ ss1 <= Len(s1) + 1
       /\ finding # "done" => ss1 > 0
       /\ \A k \in DOMAIN s1 : k > ss1 => ~OccursAt(k)
  /\ finding \in {"next", "compare"} => s2 # <<>>
  /\ finding = "next" /\ ss1 <= Len(s1) => ~OccursAt(ss1)
  /\ finding = "compare" =>
       /\ ss1 <= Len(s1)
       /\ sss2 \in 1 .. Len(s2) /\ sss1 = ss1 + sss2 - 1 /\ sss1 <= Len(s1) + 1
       /\ \A m \in 1 .. sss2 - 1 : ss1 + m - 1 <= Len(s1) /\ s1[ss1 + m - 1] = s2[m]
  /\ finding = "done" => IF s2 = <<>> THEN ss1 = 1 ELSE ss1 # 0 => OccursAt(ss1)

StrrstrIInv == StrrstrTypeOK /\ Searched

LEMMA StrrstrInitially == StrrstrInit => StrrstrIInv
  BY DEF StrrstrInit, StrrstrIInv, StrrstrTypeOK, Searched

LEMMA StrrstrStep == StrrstrIInv /\ [StrrstrNext]_strrstrVars => StrrstrIInv'
  <1> SUFFICES ASSUME StrrstrIInv, [StrrstrNext]_strrstrVars PROVE StrrstrIInv'
    OBVIOUS
  <1>0. /\ s1 \in Seq(Nat \ {0}) /\ s2 \in Seq(Nat \ {0})
        /\ Len(s1) \in Nat /\ Len(s2) \in Nat /\ DOMAIN s1 = 1 .. Len(s1)
        /\ (s2 = <<>>) <=> (Len(s2) = 0)
        /\ ss1 \in Nat /\ sss1 \in Nat /\ sss2 \in Nat
    BY DEF StrrstrIInv, StrrstrTypeOK
  <1>1. ASSUME NEW a \in Data, NEW b \in Search, strrstr(a, b) PROVE StrrstrIInv'
    <2>1. a \in Seq(Nat \ {0}) /\ b \in Seq(Nat \ {0}) /\ Len(a) \in Nat
      BY StringAssumption
    <2> QED BY <1>1, <2>1 DEF strrstr, StrrstrIInv, StrrstrTypeOK, Searched, OccursAt
  <1>2. CASE Back
    <2>1. ss1' = ss1 - 1 /\ ss1 > 0 /\ s2 # <<>> /\ s1' = s1 /\ s2' = s2 /\ finding = "next"
      BY <1>2, <1>0 DEF Back, StrrstrIInv, Searched
    <2>2. \A k \in DOMAIN s1 : k > ss1 - 1 => ~OccursAt(k)
      BY <1>0, <2>1 DEF StrrstrIInv, Searched
    <2>3. StrrstrTypeOK'
      BY <1>0, <1>2, <2>1 DEF Back, StrrstrIInv, StrrstrTypeOK
    <2>4. Searched'
      BY <1>0, <1>2, <2>1, <2>2 DEF Back, StrrstrIInv, Searched, OccursAt
    <2> QED BY <2>3, <2>4 DEF StrrstrIInv
  <1>3. CASE Compare
    <2>1. /\ finding = "compare" /\ s1' = s1 /\ s2' = s2 /\ ss1' = ss1
          /\ sss1' = sss1 + 1 /\ sss2' = sss2 + 1
          /\ s2 # <<>> /\ sss2 \in 1 .. Len(s2) /\ sss1 = ss1 + sss2 - 1 /\ sss1 <= Len(s1) + 1
          /\ 0 < ss1 /\ ss1 <= Len(s1)
          /\ \A m \in 1 .. sss2 - 1 : ss1 + m - 1 <= Len(s1) /\ s1[ss1 + m - 1] = s2[m]
          /\ \A k \in DOMAIN s1 : k > ss1 => ~OccursAt(k)
      BY <1>0, <1>3 DEF Compare, StrrstrIInv, Searched
    <2>2. CharAt(s2, sss2) = s2[sss2] /\ s2[sss2] # 0
      BY <1>0, <2>1 DEF CharAt
    <2>3. StrrstrTypeOK'
      BY <1>0, <1>3, <2>1 DEF Compare, StrrstrIInv, StrrstrTypeOK
    <2>4. CASE CharAt(s1, sss1) # CharAt(s2, sss2)
      <3>1. finding' = "next"
        BY <1>3, <2>4 DEF Compare
      <3>2. ~OccursAt(ss1)
        BY <1>0, <2>1, <2>2, <2>4 DEF OccursAt, CharAt
      <3>3. \A k : OccursAt(k)' <=> OccursAt(k)
        BY <2>1 DEF OccursAt
      <3>4. Searched'
        BY <1>0, <2>1, <3>1, <3>2, <3>3 DEF Searched
      <3> QED BY <2>3, <3>4 DEF StrrstrIInv
    <2>5. CASE CharAt(s1, sss1) = CharAt(s2, sss2)
      <3>1. sss1 <= Len(s1) /\ s1[sss1] = s2[sss2]
        BY <1>0, <2>1, <2>2, <2>5 DEF CharAt
      <3>2. ASSUME NEW m \in 1 .. sss2 PROVE ss1 + m - 1 <= Len(s1) /\ s1[ss1 + m - 1] = s2[m]
        <4>1. CASE m = sss2
          <5>1. ss1 + m - 1 = sss1
            BY <1>0, <2>1, <4>1
          <5> QED BY <3>1, <4>1, <5>1
        <4>2. CASE m # sss2
          <5>1. m \in 1 .. sss2 - 1
            BY <1>0, <2>1, <4>2
          <5> QED BY <2>1, <5>1
        <4> QED BY <4>1, <4>2
      <3>3. CASE CharAt(s2, sss2 + 1) = 0
        <4>0. sss2 + 1 <= Len(s2) => s2[sss2 + 1] # 0
          BY <1>0, <2>1
        <4>1. finding' = "done" /\ sss2 = Len(s2)
          BY <1>0, <1>3, <2>1, <2>5, <3>3, <4>0 DEF Compare, CharAt
        <4>2. OccursAt(ss1)
          BY <1>0, <2>1, <3>2, <4>1 DEF OccursAt
        <4>3. Searched'
          BY <1>0, <2>1, <4>1, <4>2 DEF Searched, OccursAt
        <4> QED BY <2>3, <4>3 DEF StrrstrIInv
      <3>4. CASE CharAt(s2, sss2 + 1) # 0
        <4>1. finding' = "compare" /\ sss2 + 1 <= Len(s2)
          BY <1>0, <1>3, <2>1, <2>5, <3>4 DEF Compare, CharAt
        <4>2. Searched'
          BY <1>0, <2>1, <3>1, <3>2, <4>1 DEF Searched, OccursAt
        <4> QED BY <2>3, <4>2 DEF StrrstrIInv
      <3> QED BY <3>3, <3>4
    <2> QED BY <2>4, <2>5
  <1>4. CASE UNCHANGED strrstrVars
    BY <1>4 DEF strrstrVars, StrrstrIInv, StrrstrTypeOK, Searched, OccursAt
  <1> QED BY <1>1, <1>2, <1>3, <1>4 DEF StrrstrNext

LEMMA StrrstrAnswers == StrrstrIInv => StrrstrIsRight
  BY DEF StrrstrIInv, StrrstrTypeOK, Searched, StrrstrIsRight

-------------------------------------------------------------------------------
(* Quicksort. *)

\* The values are the given ones, each in a place of its own.
Rearranged ==
  \E f \in [DOMAIN given -> DOMAIN given] :
    /\ \A a, b \in DOMAIN given : f[a] = f[b] => a = b
    /\ \A b \in DOMAIN given : \E a \in DOMAIN given : f[a] = b
    /\ \A a \in DOMAIN given : values[a] = given[f[a]]

\* The parts that are left to sort are in the array, from the right to the left.
PartsInPlace ==
  /\ \A p \in DOMAIN calls :
       calls[p].left <= calls[p].right /\ calls[p].left .. calls[p].right \subseteq DOMAIN values
  /\ \A p, q \in DOMAIN calls : p < q => calls[q].right < calls[p].left

\* Two elements are in order, or in a part that is left to sort.
Settled ==
  \A a, b \in DOMAIN values : a < b =>
    \/ values[a] <= values[b]
    \/ \E p \in DOMAIN calls : calls[p].left <= a /\ b <= calls[p].right

\* What i and j have passed is on its side of x, and each of them meets something that
\* stops it before the end of the part.
Dividing ==
  sorting \in {"up", "down", "swap", "divided"} =>
    /\ calls # <<>>
    /\ left <= i /\ i <= right + 1 /\ left - 1 <= j /\ j <= right
    /\ \A a \in left .. right : (a < i => values[a] <= x) /\ (a > j => values[a] >= x)
    /\ sorting = "up" => \E a \in i .. right : values[a] >= x
    /\ sorting \in {"up", "down"} => \E a \in left .. j : values[a] <= x
    /\ sorting \in {"down", "swap"} => i <= right /\ values[i] >= x
    /\ sorting = "swap" => left <= j /\ values[j] <= x
    /\ sorting = "divided" => i > j

QuicksortIInv ==
  /\ QuicksortTypeOK /\ Rearranged /\ PartsInPlace /\ Settled /\ Dividing
  /\ sorting = "done" => calls = <<>>

LEMMA QuicksortInitially == QuicksortInit => QuicksortIInv
  <1> SUFFICES ASSUME QuicksortInit PROVE QuicksortIInv
    OBVIOUS
  <1>1. 0 \in 0 .. MaxLength /\ 0 .. 0 - 1 = {}
    BY ValueAssumption
  <1>2. <<>> \in [0 .. 0 - 1 -> Value] /\ DOMAIN <<>> = {}
    BY <1>1
  <1>3. QuicksortTypeOK
    BY <1>1, <1>2, ValueAssumption DEF QuicksortInit, QuicksortTypeOK
  <1>4. Rearranged
    <2>1. given = <<>> /\ values = <<>> /\ DOMAIN given = {}
      BY DEF QuicksortInit
    <2>2. [a \in {} |-> a] \in [DOMAIN given -> DOMAIN given]
      BY <2>1
    <2> QED BY <2>1, <2>2 DEF Rearranged
  <1>5. PartsInPlace /\ Settled /\ Dividing
    BY DEF QuicksortInit, PartsInPlace, Settled, Dividing
  <1> QED BY <1>3, <1>4, <1>5 DEF QuicksortInit, QuicksortIInv

\* The places of an array.
LEMMA PlacesOfValues ==
  QuicksortTypeOK =>
    \E length \in Nat :
      /\ DOMAIN values = 0 .. length - 1 /\ DOMAIN given = 0 .. length - 1
      /\ values \in [0 .. length - 1 -> Value] /\ given \in [0 .. length - 1 -> Value]
      /\ length <= MaxLength
  <1> SUFFICES ASSUME QuicksortTypeOK
               PROVE  \E length \in Nat :
                        /\ DOMAIN values = 0 .. length - 1 /\ DOMAIN given = 0 .. length - 1
                        /\ values \in [0 .. length - 1 -> Value] /\ given \in [0 .. length - 1 -> Value]
                        /\ length <= MaxLength
    OBVIOUS
  <1>1. PICK length \in 0 .. MaxLength : {given, values} \subseteq [0 .. length - 1 -> Value]
    BY DEF QuicksortTypeOK
  <1>2. length \in Nat /\ length <= MaxLength
    BY ValueAssumption
  <1>3. given \in [0 .. length - 1 -> Value] /\ values \in [0 .. length - 1 -> Value]
    BY <1>1
  <1> QED BY <1>2, <1>3

\* The part that is worked on is in the array.
LEMMA HeadInPlace ==
  QuicksortIInv /\ calls # <<>> =>
    /\ calls[1] \in Parts /\ left \in Nat /\ right \in Nat
    /\ left <= right /\ left .. right \subseteq DOMAIN values
    /\ 1 \in DOMAIN calls
  <1> SUFFICES ASSUME QuicksortIInv, calls # <<>>
               PROVE  /\ calls[1] \in Parts /\ left \in Nat /\ right \in Nat
                      /\ left <= right /\ left .. right \subseteq DOMAIN values
                      /\ 1 \in DOMAIN calls
    OBVIOUS
  <1>1. calls \in Seq(Parts)
    BY DEF QuicksortIInv, QuicksortTypeOK
  <1>2. 1 \in DOMAIN calls /\ calls[1] \in Parts
    BY <1>1
  <1>3. calls[1].left \in Nat /\ calls[1].right \in Nat
    BY <1>2 DEF Parts
  <1>4. calls[1].left <= calls[1].right /\ calls[1].left .. calls[1].right \subseteq DOMAIN values
    BY <1>2 DEF QuicksortIInv, PartsInPlace
  <1> QED BY <1>2, <1>3, <1>4 DEF left, right

LEMMA SortStep ==
  ASSUME QuicksortIInv, NEW length \in 1 .. MaxLength, NEW array \in [0 .. length - 1 -> Value],
         Sort(length, array)
  PROVE  QuicksortIInv'
  <1> DEFINE part == [left |-> 0, right |-> length - 1]
  <1>0. /\ given' = array /\ values' = array /\ calls' = <<part>> /\ sorting' = "call"
        /\ i' = i /\ j' = j /\ x' = x
    BY DEF Sort
  <1>1. part \in Parts /\ length \in 0 .. MaxLength /\ length \in Nat
    BY ValueAssumption DEF Parts
  <1>2. QuicksortTypeOK'
    BY <1>0, <1>1 DEF QuicksortIInv, QuicksortTypeOK
  <1>3. Rearranged'
    <2>1. [a \in DOMAIN array |-> a] \in [DOMAIN array -> DOMAIN array]
      OBVIOUS
    <2> QED BY <1>0, <2>1 DEF Rearranged
  <1>4. PartsInPlace'
    BY <1>0, <1>1 DEF PartsInPlace
  <1>5. Settled'
    BY <1>0, <1>1 DEF Settled
  <1>6. Dividing'
    BY <1>0 DEF Dividing
  <1> QED BY <1>0, <1>2, <1>3, <1>4, <1>5, <1>6 DEF QuicksortIInv

LEMMA EnterStep == QuicksortIInv /\ Enter => QuicksortIInv'
  <1> SUFFICES ASSUME QuicksortIInv, Enter PROVE QuicksortIInv'
    OBVIOUS
  <1> DEFINE middle == (left + right) \div 2
  <1>0. /\ calls # <<>> /\ i' = left /\ j' = right /\ x' = values[middle] /\ sorting' = "up"
        /\ given' = given /\ values' = values /\ calls' = calls
    BY DEF Enter
  <1>1. /\ left \in Nat /\ right \in Nat /\ left <= right /\ left .. right \subseteq DOMAIN values
    BY <1>0, HeadInPlace
  <1>2. middle \in left .. right
    BY <1>1
  <1>3. PICK length \in Nat :
          DOMAIN values = 0 .. length - 1 /\ values \in [0 .. length - 1 -> Value]
    BY PlacesOfValues DEF QuicksortIInv
  <1>4. \A a \in left .. right : values[a] \in Value /\ values[a] \in Int
    BY <1>1, <1>3, ValueAssumption
  <1>5. QuicksortTypeOK'
    BY <1>0, <1>1, <1>2, <1>4 DEF QuicksortIInv, QuicksortTypeOK
  <1>6. left' = left /\ right' = right
    BY <1>0 DEF left, right
  <1>7. Dividing'
    <2> HIDE DEF middle
    <2>1. \A a \in left .. right : values[a] = values[middle] => values[a] >= x' /\ values[a] <= x'
      BY <1>0, <1>2, <1>4
    <2> QED BY <1>0, <1>1, <1>2, <1>4, <1>6, <2>1 DEF Dividing
  <1> QED BY <1>0, <1>5, <1>7 DEF QuicksortIInv, Rearranged, PartsInPlace, Settled

LEMMA UpStep == QuicksortIInv /\ Up => QuicksortIInv'
  <1> SUFFICES ASSUME QuicksortIInv, Up PROVE QuicksortIInv'
    OBVIOUS
  <1>0. /\ sorting = "up" /\ j' = j /\ x' = x /\ given' = given /\ values' = values /\ calls' = calls
        /\ left' = left /\ right' = right
    BY DEF Up, left, right
  <1>1. calls # <<>>
    BY <1>0 DEF QuicksortIInv, Dividing
  <1>2. /\ left \in Nat /\ right \in Nat /\ left <= right /\ left .. right \subseteq DOMAIN values
        /\ i \in Int /\ j \in Int /\ x \in Int
    BY <1>1, HeadInPlace, ValueAssumption DEF QuicksortIInv, QuicksortTypeOK
  <1>3. PICK length \in Nat :
          DOMAIN values = 0 .. length - 1 /\ values \in [0 .. length - 1 -> Value]
    BY PlacesOfValues DEF QuicksortIInv
  <1>4. \A a \in left .. right : values[a] \in Int
    BY <1>2, <1>3, ValueAssumption
  <1>5. /\ left <= i /\ i <= right + 1 /\ left - 1 <= j /\ j <= right
        /\ \A a \in left .. right : (a < i => values[a] <= x) /\ (a > j => values[a] >= x)
        /\ \E a \in i .. right : values[a] >= x
        /\ \E a \in left .. j : values[a] <= x
    BY <1>0 DEF QuicksortIInv, Dividing
  <1>6. i \in left .. right
    BY <1>2, <1>5
  <1>7. CASE values[i] < x /\ i < right
    <2>1. i' = i + 1 /\ sorting' = "up"
      BY <1>0, <1>7 DEF Up
    <2>2. \E a \in i + 1 .. right : values[a] >= x
      BY <1>2, <1>4, <1>5, <1>6, <1>7
    <2>3. Dividing'
      BY <1>0, <1>1, <1>2, <1>4, <1>5, <1>6, <1>7, <2>1, <2>2 DEF Dividing
    <2>4. QuicksortTypeOK'
      BY <1>0, <1>2, <2>1 DEF QuicksortIInv, QuicksortTypeOK
    <2> QED BY <1>0, <2>1, <2>3, <2>4 DEF QuicksortIInv, Rearranged, PartsInPlace, Settled
  <1>8. CASE ~(values[i] < x /\ i < right)
    <2>1. i' = i /\ sorting' = "down"
      BY <1>0, <1>8 DEF Up
    <2>2. values[i] >= x
      BY <1>2, <1>4, <1>5, <1>6, <1>8
    <2>3. Dividing'
      BY <1>0, <1>1, <1>2, <1>4, <1>5, <1>6, <2>1, <2>2 DEF Dividing
    <2>4. QuicksortTypeOK'
      BY <1>0, <1>2, <2>1 DEF QuicksortIInv, QuicksortTypeOK
    <2> QED BY <1>0, <2>1, <2>3, <2>4 DEF QuicksortIInv, Rearranged, PartsInPlace, Settled
  <1> QED BY <1>7, <1>8

LEMMA DownStep == QuicksortIInv /\ Down => QuicksortIInv'
  <1> SUFFICES ASSUME QuicksortIInv, Down PROVE QuicksortIInv'
    OBVIOUS
  <1>0. /\ sorting = "down" /\ i' = i /\ x' = x /\ given' = given /\ values' = values /\ calls' = calls
        /\ left' = left /\ right' = right
    BY DEF Down, left, right
  <1>1. calls # <<>>
    BY <1>0 DEF QuicksortIInv, Dividing
  <1>2. /\ left \in Nat /\ right \in Nat /\ left <= right /\ left .. right \subseteq DOMAIN values
        /\ i \in Int /\ j \in Int /\ x \in Int
    BY <1>1, HeadInPlace, ValueAssumption DEF QuicksortIInv, QuicksortTypeOK
  <1>3. PICK length \in Nat :
          DOMAIN values = 0 .. length - 1 /\ values \in [0 .. length - 1 -> Value]
    BY PlacesOfValues DEF QuicksortIInv
  <1>4. \A a \in left .. right : values[a] \in Int
    BY <1>2, <1>3, ValueAssumption
  <1>5. /\ left <= i /\ i <= right /\ left - 1 <= j /\ j <= right
        /\ \A a \in left .. right : (a < i => values[a] <= x) /\ (a > j => values[a] >= x)
        /\ values[i] >= x
        /\ \E a \in left .. j : values[a] <= x
    BY <1>0 DEF QuicksortIInv, Dividing
  <1>6. j \in left .. right
    BY <1>2, <1>5
  <1>7. CASE x < values[j] /\ j > left
    <2>1. j' = j - 1 /\ sorting' = "down"
      BY <1>0, <1>7 DEF Down
    <2>2. \E a \in left .. j - 1 : values[a] <= x
      BY <1>2, <1>4, <1>5, <1>6, <1>7
    <2>3. Dividing'
      BY <1>0, <1>1, <1>2, <1>4, <1>5, <1>6, <1>7, <2>1, <2>2 DEF Dividing
    <2>4. QuicksortTypeOK'
      BY <1>0, <1>2, <2>1 DEF QuicksortIInv, QuicksortTypeOK
    <2> QED BY <1>0, <2>1, <2>3, <2>4 DEF QuicksortIInv, Rearranged, PartsInPlace, Settled
  <1>8. CASE ~(x < values[j] /\ j > left)
    <2>1. j' = j /\ sorting' = "swap"
      BY <1>0, <1>8 DEF Down
    <2>2. values[j] <= x
      BY <1>2, <1>4, <1>5, <1>6, <1>8
    <2>3. Dividing'
      BY <1>0, <1>1, <1>2, <1>4, <1>5, <1>6, <2>1, <2>2 DEF Dividing
    <2>4. QuicksortTypeOK'
      BY <1>0, <1>2, <2>1 DEF QuicksortIInv, QuicksortTypeOK
    <2> QED BY <1>0, <2>1, <2>3, <2>4 DEF QuicksortIInv, Rearranged, PartsInPlace, Settled
  <1> QED BY <1>7, <1>8

\* What is exchanged was rearranged, and is.
LEMMA ExchangeRearranges ==
  ASSUME Rearranged, NEW a \in DOMAIN given, NEW b \in DOMAIN given,
         DOMAIN values = DOMAIN given,
         given' = given,
         values' = [values EXCEPT ![a] = values[b], ![b] = values[a]]
  PROVE  Rearranged'
  <1> DEFINE D == DOMAIN given
  <1>1. PICK f \in [D -> D] :
          /\ \A c, d \in D : f[c] = f[d] => c = d
          /\ \A d \in D : \E c \in D : f[c] = d
          /\ \A c \in D : values[c] = given[f[c]]
    BY DEF Rearranged
  <1> DEFINE g == [f EXCEPT ![a] = f[b], ![b] = f[a]]
  <1>2. g \in [D -> D]
    BY <1>1
  <1>3. \A c \in D : g[c] = IF c = b THEN f[a] ELSE IF c = a THEN f[b] ELSE f[c]
    BY <1>1
  <1>4. \A c \in D : values'[c] = IF c = b THEN values[a] ELSE IF c = a THEN values[b] ELSE values[c]
    OBVIOUS
  <1>5. \A c, d \in D : g[c] = g[d] => c = d
    BY <1>1, <1>3
  <1>6. ASSUME NEW d \in D PROVE \E c \in D : g[c] = d
    <2>1. PICK c \in D : f[c] = d
      BY <1>1
    <2>2. CASE c = a
      BY <1>3, <2>1, <2>2
    <2>3. CASE c = b
      BY <1>3, <2>1, <2>3
    <2>4. CASE c # a /\ c # b
      BY <1>3, <2>1, <2>4
    <2> QED BY <2>2, <2>3, <2>4
  <1>7. \A c \in D : values'[c] = given[g[c]]
    BY <1>1, <1>3, <1>4
  <1> HIDE DEF g
  <1> SUFFICES \E h \in [DOMAIN given' -> DOMAIN given'] :
                 /\ \A c, d \in DOMAIN given' : h[c] = h[d] => c = d
                 /\ \A d \in DOMAIN given' : \E c \in DOMAIN given' : h[c] = d
                 /\ \A c \in DOMAIN given' : values'[c] = given'[h[c]]
    BY DEF Rearranged
  <1>8. given' = given
    OBVIOUS
  <1> g \in [DOMAIN given' -> DOMAIN given']
    BY <1>2, <1>8
  <1> WITNESS g \in [DOMAIN given' -> DOMAIN given']
  <1> QED BY <1>5, <1>6, <1>7, <1>8

LEMMA SwapStep == QuicksortIInv /\ Swap => QuicksortIInv'
  <1> SUFFICES ASSUME QuicksortIInv, Swap PROVE QuicksortIInv'
    OBVIOUS
  <1>0. /\ sorting = "swap" /\ x' = x /\ given' = given /\ calls' = calls
        /\ left' = left /\ right' = right
    BY DEF Swap, left, right
  <1>1. calls # <<>>
    BY <1>0 DEF QuicksortIInv, Dividing
  <1>2. /\ left \in Nat /\ right \in Nat /\ left <= right /\ left .. right \subseteq DOMAIN values
        /\ i \in Int /\ j \in Int /\ x \in Int /\ 1 \in DOMAIN calls
    BY <1>1, HeadInPlace, ValueAssumption DEF QuicksortIInv, QuicksortTypeOK
  <1>3. PICK length \in Nat :
          /\ DOMAIN values = 0 .. length - 1 /\ DOMAIN given = 0 .. length - 1
          /\ values \in [0 .. length - 1 -> Value] /\ given \in [0 .. length - 1 -> Value]
          /\ length <= MaxLength
    BY PlacesOfValues DEF QuicksortIInv
  <1>4. \A a \in DOMAIN values : values[a] \in Int
    BY <1>3, ValueAssumption
  <1>5. /\ i \in left .. right /\ j \in left .. right
        /\ \A a \in left .. right : (a < i => values[a] <= x) /\ (a > j => values[a] >= x)
        /\ values[i] >= x /\ values[j] <= x
    BY <1>0, <1>2 DEF QuicksortIInv, Dividing
  <1>6. CASE i <= j
    <2>1. /\ values' = Swapped /\ i' = i + 1 /\ j' = j - 1
          /\ sorting' = IF i + 1 <= j - 1 THEN "up" ELSE "divided"
      BY <1>6 DEF Swap
    <2>2. DOMAIN values' = DOMAIN values
      BY <2>1 DEF Swapped
    <2>3. \A a \in DOMAIN values :
            values'[a] = IF a = j THEN values[i] ELSE IF a = i THEN values[j] ELSE values[a]
      BY <2>1, <1>2, <1>5 DEF Swapped
    <2>4. Rearranged'
      BY <1>0, <1>2, <1>3, <1>5, <2>1, ExchangeRearranges DEF QuicksortIInv, Swapped
    <2>5. QuicksortTypeOK'
      <3>1. length \in 0 .. MaxLength
        BY <1>3, ValueAssumption
      <3>2. values' \in [0 .. length - 1 -> Value]
        BY <1>2, <1>3, <1>5, <2>1 DEF Swapped
      <3>3. {given', values'} \subseteq [0 .. length - 1 -> Value]
        BY <1>0, <1>3, <3>2
      <3> QED BY <1>0, <1>2, <2>1, <3>1, <3>3 DEF QuicksortIInv, QuicksortTypeOK
    <2>6. PartsInPlace'
      BY <1>0, <2>2 DEF QuicksortIInv, PartsInPlace
    <2>7. Settled'
      <3> SUFFICES ASSUME NEW a \in DOMAIN values, NEW b \in DOMAIN values, a < b,
                          ~ \E p \in DOMAIN calls : calls[p].left <= a /\ b <= calls[p].right
                   PROVE  values'[a] <= values'[b]
        BY <1>0, <2>2 DEF Settled
      <3>0. a \in Nat /\ b \in Nat
        BY <1>3
      <3>1. ~(left <= a /\ b <= right)
        BY <1>2 DEF left, right
      \* A part that holds an element of the head is the head.
      <3>2. \A c \in left .. right, p \in DOMAIN calls :
              calls[p].left <= c /\ c <= calls[p].right => p = 1
        <4> SUFFICES ASSUME NEW c \in left .. right, NEW p \in DOMAIN calls,
                            calls[p].left <= c, c <= calls[p].right, p # 1
                     PROVE  FALSE
          OBVIOUS
        <4>1. 1 < p /\ calls[p] \in Parts
          BY <1>2 DEF QuicksortIInv, QuicksortTypeOK
        <4>2. calls[p].right < calls[1].left
          BY <1>2, <4>1 DEF QuicksortIInv, PartsInPlace
        <4> QED BY <1>2, <4>1, <4>2 DEF left, Parts
      <3>3. ASSUME NEW c \in left .. right, a < c, a < left PROVE values[a] <= values[c]
        <4>1. c \in DOMAIN values /\ c \in Nat
          BY <1>2
        <4>2. ASSUME NEW p \in DOMAIN calls, calls[p].left <= a, c <= calls[p].right PROVE FALSE
          <5>0. calls[p] \in Parts
            BY DEF QuicksortIInv, QuicksortTypeOK
          <5>1. calls[p].left \in Nat
            BY <5>0 DEF Parts
          <5>2. p = 1
            BY <3>0, <3>2, <3>3, <4>1, <4>2, <5>1
          <5> QED BY <1>2, <3>0, <3>3, <4>2, <5>2 DEF left
        <4> QED BY <3>3, <4>1, <4>2 DEF QuicksortIInv, Settled
      <3>4. ASSUME NEW c \in left .. right, c < b, right < b PROVE values[c] <= values[b]
        <4>1. c \in DOMAIN values /\ c \in Nat
          BY <1>2
        <4>2. ASSUME NEW p \in DOMAIN calls, calls[p].left <= c, b <= calls[p].right PROVE FALSE
          <5>0. calls[p] \in Parts
            BY DEF QuicksortIInv, QuicksortTypeOK
          <5>1. calls[p].right \in Nat
            BY <5>0 DEF Parts
          <5>2. p = 1
            BY <3>0, <3>2, <3>4, <4>1, <4>2, <5>1
          <5> QED BY <1>2, <3>0, <3>4, <4>2, <5>2 DEF right
        <4> QED BY <3>4, <4>1, <4>2 DEF QuicksortIInv, Settled
      <3>5. CASE a < left
        <4>1. a # i /\ a # j /\ values'[a] = values[a]
          BY <1>2, <1>5, <2>3, <3>0, <3>5
        <4>2. CASE b \in left .. right
          <5>1. values[a] <= values[b] /\ values[a] <= values[i] /\ values[a] <= values[j]
            BY <1>2, <1>5, <3>0, <3>3, <3>5, <4>2
          <5> QED BY <2>3, <4>1, <5>1
        <4>3. CASE b \notin left .. right
          <5>1. b # i /\ b # j /\ values'[b] = values[b]
            BY <1>5, <2>3, <4>3
          <5>2. values[a] <= values[b]
            BY DEF QuicksortIInv, Settled
          <5> QED BY <4>1, <5>1, <5>2
        <4> QED BY <4>2, <4>3
      <3>6. CASE a \in left .. right
        <4>1. right < b
          BY <1>2, <3>0, <3>1, <3>6
        <4>2. b # i /\ b # j /\ values'[b] = values[b]
          BY <1>2, <1>5, <2>3, <3>0, <4>1
        <4>3. values[a] <= values[b] /\ values[i] <= values[b] /\ values[j] <= values[b]
          BY <1>2, <1>5, <3>0, <3>4, <3>6, <4>1
        <4> QED BY <2>3, <4>2, <4>3
      <3>7. CASE a > right
        <4>1. a # i /\ a # j /\ b # i /\ b # j
          BY <1>2, <1>5, <3>0, <3>7
        <4>2. values[a] <= values[b]
          BY DEF QuicksortIInv, Settled
        <4> QED BY <2>3, <4>1, <4>2
      <3> QED BY <1>2, <3>0, <3>5, <3>6, <3>7
    <2>8. Dividing'
      <3>1. \A a \in left .. right : values'[a] \in Int
        BY <1>2, <1>4, <1>5, <2>3
      <3>2. ASSUME NEW a \in left .. right, a < i + 1 PROVE values'[a] <= x
        <4>0. a \in DOMAIN values
          BY <1>2
        <4>1. CASE a = j
          BY <1>2, <1>4, <1>5, <1>6, <2>3, <3>2, <4>0, <4>1
        <4>2. CASE a # j /\ a = i
          BY <1>5, <2>3, <4>0, <4>2
        <4>3. CASE a # j /\ a < i
          BY <1>2, <1>5, <2>3, <4>0, <4>3
        <4> QED BY <1>2, <3>2, <4>1, <4>2, <4>3
      <3>3. ASSUME NEW a \in left .. right, a > j - 1 PROVE values'[a] >= x
        <4>0. a \in DOMAIN values
          BY <1>2
        <4>1. CASE a = j
          BY <1>5, <2>3, <4>0, <4>1
        <4>2. CASE a > j
          BY <1>2, <1>5, <1>6, <2>3, <4>0, <4>2
        <4> QED BY <1>2, <3>3, <4>1, <4>2
      <3>4. CASE i + 1 <= j - 1
        <4>1. sorting' = "up"
          BY <2>1, <3>4
        <4>2. j \in i' .. right' /\ i \in left' .. j'
          BY <1>0, <1>2, <1>5, <2>1, <3>4
        <4>3. values'[j] >= x /\ values'[i] <= x
          BY <1>2, <1>5, <3>2, <3>3
        <4> QED BY <1>0, <1>1, <1>2, <1>5, <2>1, <3>2, <3>3, <4>1, <4>2, <4>3 DEF Dividing
      <3>5. CASE ~(i + 1 <= j - 1)
        <4>1. sorting' = "divided"
          BY <2>1, <3>5
        <4> QED BY <1>0, <1>1, <1>2, <1>5, <2>1, <3>2, <3>3, <3>5, <4>1 DEF Dividing
      <3> QED BY <3>4, <3>5
    <2>9. sorting' # "done"
      BY <2>1
    <2> QED BY <2>4, <2>5, <2>6, <2>7, <2>8, <2>9 DEF QuicksortIInv
  <1>7. CASE ~(i <= j)
    <2>1. values' = values /\ i' = i /\ j' = j /\ sorting' = "divided"
      BY <1>2, <1>7 DEF Swap
    <2>2. Dividing'
      BY <1>0, <1>1, <1>2, <1>5, <1>7, <2>1 DEF Dividing
    <2>3. QuicksortTypeOK'
      BY <1>0, <2>1 DEF QuicksortIInv, QuicksortTypeOK
    <2> QED BY <1>0, <2>1, <2>2, <2>3 DEF QuicksortIInv, Rearranged, PartsInPlace, Settled
  <1> QED BY <1>6, <1>7

\* The parts a part is divided into: what of it is not in one of them is in order.
LEMMA PartsOfPart ==
  ASSUME left \in Nat, right \in Nat, i \in Int, j \in Int,
         left <= i, j <= right, j < i
  PROVE  /\ Divided \in Seq(Parts)
         /\ \A p \in DOMAIN Divided :
              /\ left <= Divided[p].left /\ Divided[p].right <= right
              /\ Divided[p].left < Divided[p].right
         /\ \A p, q \in DOMAIN Divided : p < q => Divided[q].right < Divided[p].left
         /\ i < right => \E p \in DOMAIN Divided : Divided[p].left = i /\ Divided[p].right = right
         /\ left < j => \E p \in DOMAIN Divided : Divided[p].left = left /\ Divided[p].right = j
  <1> DEFINE high == [left |-> i, right |-> right]
             low == [left |-> left, right |-> j]
  <1>1. i < right => high \in Parts
    BY DEF Parts
  <1>2. left < j => low \in Parts
    BY DEF Parts
  <1>3. high.left = i /\ high.right = right /\ low.left = left /\ low.right = j
    OBVIOUS
  <1> HIDE DEF high, low
  <1>4. Divided = (IF i < right THEN <<high>> ELSE <<>>) \o (IF left < j THEN <<low>> ELSE <<>>)
    BY DEF Divided, high, low
  <1>5. CASE i < right /\ left < j
    <2>1. Divided = <<high>> \o <<low>>
      BY <1>4, <1>5
    <2>2. <<high>> \in Seq(Parts) /\ <<low>> \in Seq(Parts) /\ Len(<<high>>) = 1 /\ Len(<<low>>) = 1
      BY <1>1, <1>2, <1>5
    <2>3. /\ Divided \in Seq(Parts) /\ Len(Divided) = 2
          /\ Divided[1] = high /\ Divided[2] = low
      BY <2>1, <2>2, ConcatProperties
    <2>4. DOMAIN Divided = {1, 2}
      BY <2>3
    <2> QED BY <1>3, <1>5, <2>3, <2>4
  <1>6. CASE i < right /\ ~(left < j)
    <2>1. Divided = <<high>>
      BY <1>4, <1>6, <1>1
    <2> QED BY <1>1, <1>3, <1>6, <2>1
  <1>7. CASE ~(i < right) /\ left < j
    <2>1. Divided = <<low>>
      BY <1>4, <1>7, <1>2
    <2> QED BY <1>2, <1>3, <1>7, <2>1
  <1>8. CASE ~(i < right) /\ ~(left < j)
    <2>1. Divided = <<>>
      BY <1>4, <1>8
    <2> QED BY <1>8, <2>1
  <1> QED BY <1>5, <1>6, <1>7, <1>8

LEMMA DivideStep == QuicksortIInv /\ Divide => QuicksortIInv'
  <1> SUFFICES ASSUME QuicksortIInv, Divide PROVE QuicksortIInv'
    OBVIOUS
  <1>0. /\ sorting = "divided" /\ sorting' = "call" /\ calls' = Divided \o Tail(calls)
        /\ i' = i /\ j' = j /\ x' = x /\ given' = given /\ values' = values
    BY DEF Divide
  <1>1. calls # <<>>
    BY <1>0 DEF QuicksortIInv, Dividing
  <1>2. /\ left \in Nat /\ right \in Nat /\ left <= right /\ left .. right \subseteq DOMAIN values
        /\ i \in Int /\ j \in Int /\ x \in Int /\ 1 \in DOMAIN calls
        /\ calls \in Seq(Parts) /\ Len(calls) \in Nat /\ DOMAIN calls = 1 .. Len(calls)
    <2>1. calls \in Seq(Parts) /\ i \in Int /\ j \in Int /\ x \in Int
      BY ValueAssumption DEF QuicksortIInv, QuicksortTypeOK
    <2>2. Len(calls) \in Nat /\ DOMAIN calls = 1 .. Len(calls)
      BY <2>1
    <2> QED BY <1>1, <2>1, <2>2, HeadInPlace
  <1>3. PICK length \in Nat :
          DOMAIN values = 0 .. length - 1 /\ values \in [0 .. length - 1 -> Value]
    BY PlacesOfValues DEF QuicksortIInv
  <1>4. \A a \in DOMAIN values : values[a] \in Int
    BY <1>3, ValueAssumption
  <1>5. /\ left <= i /\ j <= right /\ j < i
        /\ \A a \in left .. right : (a < i => values[a] <= x) /\ (a > j => values[a] >= x)
    BY <1>0, <1>2 DEF QuicksortIInv, Dividing
  <1>6. /\ Divided \in Seq(Parts)
        /\ \A p \in DOMAIN Divided :
             /\ left <= Divided[p].left /\ Divided[p].right <= right
             /\ Divided[p].left < Divided[p].right
        /\ \A p, q \in DOMAIN Divided : p < q => Divided[q].right < Divided[p].left
        /\ i < right => \E p \in DOMAIN Divided : Divided[p].left = i /\ Divided[p].right = right
        /\ left < j => \E p \in DOMAIN Divided : Divided[p].left = left /\ Divided[p].right = j
    BY <1>2, <1>5, PartsOfPart
  <1>7. PICK m \in Nat : m = Len(Divided) /\ DOMAIN Divided = 1 .. m
    BY <1>6
  <1>8. /\ Tail(calls) \in Seq(Parts) /\ Len(Tail(calls)) = Len(calls) - 1
        /\ \A q \in 1 .. Len(calls) - 1 : Tail(calls)[q] = calls[q + 1]
    BY <1>1, <1>2, HeadTailProperties
  <1>9. /\ calls' \in Seq(Parts)
        /\ Len(calls') = m + Len(calls) - 1
        /\ \A p \in 1 .. m + Len(calls) - 1 :
             calls'[p] = IF p <= m THEN Divided[p] ELSE Tail(calls)[p - m]
    BY <1>0, <1>2, <1>6, <1>7, <1>8, ConcatProperties
  <1>10. DOMAIN calls' = 1 .. m + Len(calls) - 1
    BY <1>2, <1>9
  <1>11. \A p \in DOMAIN Divided : p \in DOMAIN calls' /\ calls'[p] = Divided[p] /\ p <= m
    BY <1>2, <1>7, <1>9, <1>10
  <1>12. \A q \in DOMAIN calls \ {1} : m + q - 1 \in DOMAIN calls' /\ calls'[m + q - 1] = calls[q]
    <2> SUFFICES ASSUME NEW q \in DOMAIN calls \ {1}
                 PROVE  m + q - 1 \in DOMAIN calls' /\ calls'[m + q - 1] = calls[q]
      OBVIOUS
    <2>1. q - 1 \in 1 .. Len(calls) - 1 /\ q \in Nat /\ m + q - 1 \in 1 .. m + Len(calls) - 1
      BY <1>2, <1>7
    <2>2. ~(m + q - 1 <= m) /\ (m + q - 1) - m = q - 1 /\ (q - 1) + 1 = q
      BY <2>1, <1>7
    <2> QED BY <1>8, <1>9, <1>10, <2>1, <2>2
  <1>13. \A p \in DOMAIN calls' :
           \/ p \in DOMAIN Divided
           \/ \E q \in DOMAIN calls \ {1} : p = m + q - 1
    <2> SUFFICES ASSUME NEW p \in DOMAIN calls', p \notin DOMAIN Divided
                 PROVE  \E q \in DOMAIN calls \ {1} : p = m + q - 1
      OBVIOUS
    <2>1. p - m + 1 \in DOMAIN calls \ {1} /\ p = m + (p - m + 1) - 1
      BY <1>2, <1>7, <1>10
    <2> QED BY <2>1
  <1>14. \A p \in DOMAIN Divided : Divided[p].left \in Nat /\ Divided[p].right \in Nat
    <2> SUFFICES ASSUME NEW p \in DOMAIN Divided
                 PROVE  Divided[p].left \in Nat /\ Divided[p].right \in Nat
      OBVIOUS
    <2>1. Divided[p] \in Parts
      BY <1>6
    <2> QED BY <2>1 DEF Parts
  <1>15. \A q \in DOMAIN calls : calls[q].left \in Nat /\ calls[q].right \in Nat
    <2> SUFFICES ASSUME NEW q \in DOMAIN calls PROVE calls[q].left \in Nat /\ calls[q].right \in Nat
      OBVIOUS
    <2>1. calls[q] \in Parts
      BY <1>2
    <2> QED BY <2>1 DEF Parts
  <1>16. PartsInPlace'
    <2>1. ASSUME NEW p \in DOMAIN calls'
          PROVE  calls'[p].left <= calls'[p].right /\ calls'[p].left .. calls'[p].right \subseteq DOMAIN values
      <3>1. CASE p \in DOMAIN Divided
        BY <1>2, <1>6, <1>11, <1>14, <3>1
      <3>2. ASSUME NEW q \in DOMAIN calls \ {1}, p = m + q - 1
            PROVE  calls'[p].left <= calls'[p].right /\ calls'[p].left .. calls'[p].right \subseteq DOMAIN values
        BY <1>12, <3>2 DEF QuicksortIInv, PartsInPlace
      <3> QED BY <1>13, <3>1, <3>2
    <2>2. ASSUME NEW p \in DOMAIN calls', NEW q \in DOMAIN calls', p < q
          PROVE  calls'[q].right < calls'[p].left
      <3>1. CASE p \in DOMAIN Divided /\ q \in DOMAIN Divided
        BY <1>6, <1>11, <2>2, <3>1
      <3>2. ASSUME NEW c \in DOMAIN calls \ {1}, q = m + c - 1, p \in DOMAIN Divided
            PROVE  calls'[q].right < calls'[p].left
        <4>1. calls[c].right < left
          BY <1>2 DEF QuicksortIInv, PartsInPlace, left
        <4>2. calls'[q] = calls[c] /\ calls'[p] = Divided[p]
          BY <1>11, <1>12, <3>2
        <4> QED BY <1>2, <1>6, <1>14, <1>15, <3>2, <4>1, <4>2
      <3>3. ASSUME NEW c \in DOMAIN calls \ {1}, p = m + c - 1, q \in DOMAIN Divided
            PROVE  FALSE
        BY <1>2, <1>7, <2>2, <3>3
      <3>4. ASSUME NEW c \in DOMAIN calls \ {1}, NEW d \in DOMAIN calls \ {1},
                   p = m + c - 1, q = m + d - 1
            PROVE  calls'[q].right < calls'[p].left
        <4>1. c < d
          BY <1>2, <1>7, <2>2, <3>4
        <4> QED BY <1>12, <3>4, <4>1 DEF QuicksortIInv, PartsInPlace
      <3> QED BY <1>13, <3>1, <3>2, <3>3, <3>4
    <2> QED BY <1>0, <2>1, <2>2 DEF PartsInPlace
  <1>17. Settled'
    <2> SUFFICES ASSUME NEW a \in DOMAIN values, NEW b \in DOMAIN values, a < b,
                        ~(values[a] <= values[b])
                 PROVE  \E p \in DOMAIN calls' : calls'[p].left <= a /\ b <= calls'[p].right
      BY <1>0 DEF Settled
    <2>0. a \in Nat /\ b \in Nat /\ values[a] \in Int /\ values[b] \in Int
      BY <1>3, <1>4
    <2>1. PICK p \in DOMAIN calls : calls[p].left <= a /\ b <= calls[p].right
      BY DEF QuicksortIInv, Settled
    <2>2. CASE p # 1
      BY <1>12, <2>1, <2>2
    <2>3. CASE p = 1
      <3>1. left <= a /\ b <= right
        BY <2>1, <2>3 DEF left, right
      <3>2. a \in left .. right /\ b \in left .. right
        BY <1>2, <2>0, <3>1
      <3>3. CASE a >= i
        <4>1. i < right
          BY <1>2, <2>0, <3>1, <3>3
        <4>2. PICK q \in DOMAIN Divided : Divided[q].left = i /\ Divided[q].right = right
          BY <1>6, <4>1
        <4> QED BY <1>11, <2>0, <3>1, <3>3, <4>2
      <3>4. CASE b <= j
        <4>1. left < j
          BY <1>2, <2>0, <3>1, <3>4
        <4>2. PICK q \in DOMAIN Divided : Divided[q].left = left /\ Divided[q].right = j
          BY <1>6, <4>1
        <4> QED BY <1>11, <2>0, <3>1, <3>4, <4>2
      <3>5. CASE a < i /\ b > j
        BY <1>2, <1>5, <2>0, <3>2, <3>5
      <3> QED BY <1>2, <2>0, <3>3, <3>4, <3>5
    <2> QED BY <2>2, <2>3
  <1>18. QuicksortTypeOK'
    BY <1>0, <1>9 DEF QuicksortIInv, QuicksortTypeOK
  <1> QED BY <1>0, <1>16, <1>17, <1>18 DEF QuicksortIInv, Rearranged, Dividing

LEMMA QuicksortStep == QuicksortIInv /\ [QuicksortNext]_quicksortVars => QuicksortIInv'
  <1> SUFFICES ASSUME QuicksortIInv, [QuicksortNext]_quicksortVars PROVE QuicksortIInv'
    OBVIOUS
  <1>1. ASSUME NEW length \in 1 .. MaxLength, NEW array \in [0 .. length - 1 -> Value],
               Sort(length, array)
        PROVE  QuicksortIInv'
    BY <1>1, SortStep
  <1>2. CASE Enter
    BY <1>2, EnterStep
  <1>3. CASE Up
    BY <1>3, UpStep
  <1>4. CASE Down
    BY <1>4, DownStep
  <1>5. CASE Swap
    BY <1>5, SwapStep
  <1>6. CASE Divide
    BY <1>6, DivideStep
  <1>7. CASE Return
    <2>1. QuicksortTypeOK' /\ Rearranged'
      BY <1>7 DEF Return, QuicksortIInv, QuicksortTypeOK, Rearranged
    <2>2. PartsInPlace' /\ Settled' /\ Dividing' /\ calls' = <<>>
      BY <1>7 DEF Return, QuicksortIInv, PartsInPlace, Settled, Dividing
    <2> QED BY <2>1, <2>2 DEF QuicksortIInv
  <1>8. CASE UNCHANGED quicksortVars
    <2>1. QuicksortTypeOK' /\ Rearranged'
      BY <1>8 DEF quicksortVars, QuicksortIInv, QuicksortTypeOK, Rearranged
    <2>2. PartsInPlace' /\ Settled'
      BY <1>8 DEF quicksortVars, QuicksortIInv, PartsInPlace, Settled
    <2>3. Dividing' /\ (sorting' = "done" => calls' = <<>>)
      BY <1>8 DEF quicksortVars, QuicksortIInv, Dividing, left, right
    <2> QED BY <2>1, <2>2, <2>3 DEF QuicksortIInv
  <1> QED BY <1>1, <1>2, <1>3, <1>4, <1>5, <1>6, <1>7, <1>8 DEF QuicksortNext

LEMMA QuicksortAnswers == QuicksortIInv => QuicksortIsRight
  <1> SUFFICES ASSUME QuicksortIInv PROVE QuicksortIsRight
    OBVIOUS
  <1>1. PICK length \in Nat :
          /\ DOMAIN values = 0 .. length - 1 /\ DOMAIN given = 0 .. length - 1
          /\ values \in [0 .. length - 1 -> Value] /\ given \in [0 .. length - 1 -> Value]
    BY PlacesOfValues DEF QuicksortIInv
  <1>2. ASSUME sorting = "done" PROVE IsAscending
    <2>1. DOMAIN calls = {}
      BY <1>2 DEF QuicksortIInv
    <2> QED BY <2>1 DEF QuicksortIInv, Settled, IsAscending
  <1>3. IsPermuted
    <2>1. PICK f \in [DOMAIN given -> DOMAIN given] :
            /\ \A a, b \in DOMAIN given : f[a] = f[b] => a = b
            /\ \A b \in DOMAIN given : \E a \in DOMAIN given : f[a] = b
            /\ \A a \in DOMAIN given : values[a] = given[f[a]]
      BY DEF QuicksortIInv, Rearranged
    <2>2. DOMAIN values = DOMAIN given
      BY <1>1
    <2>3. ASSUME NEW v \in Value
          PROVE  Cardinality({a \in DOMAIN values : values[a] = v})
                   = Cardinality({a \in DOMAIN given : given[a] = v})
      <3> DEFINE S == {a \in DOMAIN values : values[a] = v}
                 T == {a \in DOMAIN given : given[a] = v}
                 g == [a \in S |-> f[a]]
      <3>1. IsFiniteSet(S)
        <4>1. IsFiniteSet(0 .. length - 1)
          BY FS_Interval
        <4> QED BY <1>1, <4>1, FS_Subset
      <3>2. g \in [S -> T]
        BY <2>1, <2>2
      <3>3. \A a, b \in S : g[a] = g[b] => a = b
        BY <2>1, <2>2
      <3>4. \A b \in T : \E a \in S : g[a] = b
        <4> SUFFICES ASSUME NEW b \in T PROVE \E a \in S : g[a] = b
          OBVIOUS
        <4>1. PICK a \in DOMAIN given : f[a] = b
          BY <2>1
        <4>2. a \in S
          BY <2>1, <2>2, <4>1
        <4> QED BY <4>1, <4>2
      <3>5. g \in Bijection(S, T)
        BY <3>2, <3>3, <3>4, Fun_IsBij
      <3>6. ExistsBijection(S, T)
        BY <3>5 DEF ExistsBijection
      <3> QED BY <3>1, <3>6, FS_Bijection
    <2> QED BY <2>2, <2>3 DEF IsPermuted
  <1>4. ASSUME sorting \in {"up", "down"}
        PROVE  /\ left .. right \subseteq DOMAIN values
               /\ sorting = "up" => i \in left .. right
               /\ sorting = "down" => j \in left .. right
    <2>1. calls # <<>>
      BY <1>4 DEF QuicksortIInv, Dividing
    <2>2. left \in Nat /\ right \in Nat /\ left .. right \subseteq DOMAIN values /\ i \in Int /\ j \in Int
      BY <2>1, HeadInPlace DEF QuicksortIInv, QuicksortTypeOK
    <2> QED BY <1>4, <2>2 DEF QuicksortIInv, Dividing
  <1> QED BY <1>2, <1>3, <1>4 DEF QuicksortIsRight

-------------------------------------------------------------------------------
(* CallGraph. *)

\* The cells that are drawn at a level.
CellsAt(level) == IF level > 1 THEN level + 1 ELSE level

\* The functions that were not left are within each other, each a level deeper, and
\* whatever was entered since is deeper.
Nested ==
  /\ Len(callers) = Len(lines)
  /\ IF overflown THEN Len(stack) >= Cells
     ELSE /\ Len(stack) < Cells /\ __call_level = Len(stack)
          /\ \A p \in DOMAIN stack :
               /\ stack[p] \in DOMAIN lines /\ lines[stack[p]].cells = CellsAt(p - 1)
               /\ \A m \in DOMAIN lines : m > stack[p] => lines[m].cells >= CellsAt(p)

CallGraphIInv == CallGraphTypeOK /\ Nested /\ CallGraphIsRight

LEMMA CallGraphInitially == CallGraphInit => CallGraphIInv
  <1> SUFFICES ASSUME CallGraphInit PROVE CallGraphIInv
    OBVIOUS
  <1>1. __call_level = 0 /\ lines = <<>> /\ ~overflown /\ overflown \in BOOLEAN
        /\ stack = <<>> /\ callers = <<>>
    BY DEF CallGraphInit
  <1>2. CallGraphTypeOK
    BY <1>1, CallGraphAssumption DEF CallGraphTypeOK
  <1>3. Nested
    BY <1>1, CallGraphAssumption DEF Nested
  <1>4. CallGraphIsRight
    BY <1>1, CallGraphAssumption DEF CallGraphIsRight
  <1> QED BY <1>2, <1>3, <1>4 DEF CallGraphIInv

LEMMA CellsOfLine == \A line \in Line : line.cells \in Nat
  BY DEF Line

LEMMA CellsAtGrows ==
  /\ \A p \in Nat : CellsAt(p) \in Nat
  /\ \A p, q \in Nat : p <= q => CellsAt(p) <= CellsAt(q)
  /\ \A p, q \in Nat : p < q => CellsAt(p) < CellsAt(q)
  BY DEF CellsAt

LEMMA CellsOfDrawn ==
  ASSUME __call_level \in Nat
  PROVE  /\ Drawn \in Line /\ Drawn.cells = CellsAt(__call_level)
         /\ Drawn.cells >= Cells <=> __call_level + 1 >= Cells
  <1>1. Drawn.cells = IF __call_level > 1 THEN __call_level + 1 ELSE __call_level
    BY DEF Drawn
  <1>2. Drawn \in Line
    BY DEF Drawn, Line
  <1> HIDE DEF Drawn
  <1> QED BY <1>1, <1>2, CallGraphAssumption DEF CellsAt

LEMMA EnterFunctionStep == CallGraphIInv /\ __cyg_profile_func_enter => CallGraphIInv'
  <1> SUFFICES ASSUME CallGraphIInv, __cyg_profile_func_enter PROVE CallGraphIInv'
    OBVIOUS
  <1>0. /\ __call_level \in Nat /\ lines \in Seq(Line) /\ overflown = FALSE
        /\ stack \in Seq(Nat) /\ callers \in Seq(Nat)
        /\ Len(lines) \in Nat /\ Len(stack) \in Nat /\ Len(lines) < MaxLines /\ MaxLines \in Nat
        /\ DOMAIN lines = 1 .. Len(lines) /\ DOMAIN stack = 1 .. Len(stack)
    BY CallGraphAssumption DEF CallGraphIInv, CallGraphTypeOK, __cyg_profile_func_enter
  <1>1. /\ Len(callers) = Len(lines) /\ Len(stack) < Cells /\ __call_level = Len(stack)
        /\ \A p \in DOMAIN stack :
             /\ stack[p] \in DOMAIN lines /\ lines[stack[p]].cells = CellsAt(p - 1)
             /\ \A m \in DOMAIN lines : m > stack[p] => lines[m].cells >= CellsAt(p)
    BY <1>0 DEF CallGraphIInv, Nested
  <1>2. Drawn \in Line /\ Drawn.cells = CellsAt(Len(stack)) /\ (Drawn.cells >= Cells <=> Len(stack) + 1 >= Cells)
    BY <1>0, <1>1, CellsOfDrawn
  <1>3. stack' = Append(stack, Len(lines) + 1) /\ Len(lines) + 1 \in Nat
    BY <1>0 DEF __cyg_profile_func_enter
  <1>4. /\ stack' \in Seq(Nat) /\ Len(stack') = Len(stack) + 1
        /\ \A p \in 1 .. Len(stack) : stack'[p] = stack[p]
        /\ stack'[Len(stack) + 1] = Len(lines) + 1
    BY <1>0, <1>3, AppendProperties
  <1>5. CASE Drawn.cells >= Cells
    <2>1. overflown' = TRUE /\ UNCHANGED <<__call_level, lines, callers>>
      BY <1>5 DEF __cyg_profile_func_enter
    <2>2. CallGraphTypeOK'
      BY <1>0, <1>4, <2>1 DEF CallGraphIInv, CallGraphTypeOK
    <2>3. Nested'
      BY <1>1, <1>2, <1>4, <1>5, <2>1 DEF Nested
    <2>4. CallGraphIsRight'
      BY <1>1, <1>2, <1>4, <1>5, <2>1 DEF CallGraphIInv, CallGraphIsRight
    <2> QED BY <2>2, <2>3, <2>4 DEF CallGraphIInv
  <1>6. CASE ~(Drawn.cells >= Cells)
    <2> DEFINE caller == IF stack = <<>> THEN 0 ELSE Last(stack)
    <2>1. /\ lines' = Append(lines, Drawn) /\ __call_level' = __call_level + 1
          /\ callers' = Append(callers, caller) /\ overflown' = FALSE
      BY <1>0, <1>6 DEF __cyg_profile_func_enter
    <2>2. /\ stack = <<>> => caller = 0 /\ Len(stack) = 0
          /\ stack # <<>> => Len(stack) > 0 /\ caller = stack[Len(stack)] /\ Len(stack) \in DOMAIN stack
      BY <1>0 DEF Last
    <2>3. caller \in Nat
      BY <1>0, <2>2
    <2> HIDE DEF caller
    <2>4. /\ lines' \in Seq(Line) /\ Len(lines') = Len(lines) + 1
          /\ \A k \in 1 .. Len(lines) : lines'[k] = lines[k]
          /\ lines'[Len(lines) + 1] = Drawn
      BY <1>0, <1>2, <2>1, AppendProperties
    <2>5. /\ callers' \in Seq(Nat) /\ Len(callers') = Len(lines) + 1
          /\ \A k \in 1 .. Len(lines) : callers'[k] = callers[k]
          /\ callers'[Len(lines) + 1] = caller
      BY <1>0, <1>1, <2>1, <2>3, AppendProperties
    <2>6. CallGraphTypeOK'
      <3>1. overflown' \in BOOLEAN
        BY <2>1
      <3>2. __call_level' \in Nat /\ Len(lines') <= MaxLines
        BY <1>0, <2>1, <2>4
      <3> QED BY <1>4, <2>4, <2>5, <3>1, <3>2 DEF CallGraphTypeOK
    <2>7. DOMAIN lines' = 1 .. Len(lines) + 1 /\ DOMAIN stack' = 1 .. Len(stack) + 1
      BY <1>0, <1>4, <2>4
    <2>8. \A k \in DOMAIN lines : lines[k].cells \in Nat
      BY <1>0, CellsOfLine
    <2>9. Nested'
      <3> SUFFICES ASSUME NEW p \in DOMAIN stack'
                   PROVE  /\ stack'[p] \in DOMAIN lines' /\ lines'[stack'[p]].cells = CellsAt(p - 1)
                          /\ \A m \in DOMAIN lines' : m > stack'[p] => lines'[m].cells >= CellsAt(p)
        <4>1. ~overflown' /\ Len(callers') = Len(lines') /\ __call_level' = Len(stack')
          BY <1>1, <1>4, <2>1, <2>4, <2>5
        <4>2. Len(stack') < Cells
          BY <1>0, <1>2, <1>4, <1>6, CallGraphAssumption
        <4> QED BY <4>1, <4>2 DEF Nested
      <3>1. CASE p = Len(stack) + 1
        BY <1>0, <1>2, <1>4, <2>4, <2>7, <3>1
      <3>2. CASE p \in DOMAIN stack
        <4>1. stack'[p] = stack[p] /\ stack[p] \in DOMAIN lines
          BY <1>0, <1>1, <1>4, <3>2
        <4>2. lines'[stack[p]].cells = CellsAt(p - 1)
          BY <1>0, <1>1, <2>4, <3>2
        <4>3. ASSUME NEW m \in DOMAIN lines', m > stack[p] PROVE lines'[m].cells >= CellsAt(p)
          <5>1. CASE m = Len(lines) + 1
            <6>1. lines'[m].cells = CellsAt(Len(stack))
              BY <1>2, <2>4, <5>1
            <6>2. p \in Nat /\ Len(stack) \in Nat /\ p <= Len(stack)
              BY <1>0, <3>2
            <6>3. CellsAt(p) <= CellsAt(Len(stack)) /\ CellsAt(p) \in Nat /\ CellsAt(Len(stack)) \in Nat
              BY <6>2, CellsAtGrows
            <6> QED BY <6>1, <6>3
          <5>2. CASE m \in DOMAIN lines
            BY <1>0, <1>1, <2>4, <3>2, <4>3, <5>2
          <5> QED BY <1>0, <2>7, <5>1, <5>2
        <4> QED BY <1>0, <2>7, <4>1, <4>2, <4>3
      <3> QED BY <1>0, <2>7, <3>1, <3>2
    <2>10. CallGraphIsRight'
      <3>1. ASSUME NEW k \in DOMAIN lines',
                   NEW above, above = {m \in 1 .. k - 1 : lines'[m].cells < lines'[k].cells}
            PROVE  IF callers'[k] = 0 THEN above = {}
                   ELSE callers'[k] \in above /\ \A m \in above : m <= callers'[k]
        <4>1. CASE k \in DOMAIN lines
          <5>1. above = {m \in 1 .. k - 1 : lines[m].cells < lines[k].cells}
            BY <1>0, <2>4, <3>1, <4>1
          <5>2. callers'[k] = callers[k]
            BY <1>0, <2>5, <4>1
          <5> QED BY <4>1, <5>1, <5>2 DEF CallGraphIInv, CallGraphIsRight
        <4>2. CASE k = Len(lines) + 1
          <5>1. callers'[k] = caller /\ lines'[k].cells = CellsAt(Len(stack))
            BY <1>2, <2>4, <2>5, <4>2
          <5>2. above = {m \in DOMAIN lines : lines[m].cells < CellsAt(Len(stack))}
            BY <1>0, <2>4, <3>1, <4>2, <5>1
          <5>3. CASE stack = <<>>
            BY <2>2, <2>8, <5>1, <5>2, <5>3 DEF CellsAt
          <5>4. CASE stack # <<>>
            <6>1. /\ caller = stack[Len(stack)] /\ caller \in DOMAIN lines
                  /\ lines[caller].cells = CellsAt(Len(stack) - 1)
                  /\ \A m \in DOMAIN lines : m > caller => lines[m].cells >= CellsAt(Len(stack))
              BY <1>1, <2>2, <5>4
            <6>2. CellsAt(Len(stack) - 1) < CellsAt(Len(stack)) /\ CellsAt(Len(stack)) \in Nat
              <7>1. Len(stack) \in Nat /\ Len(stack) - 1 \in Nat /\ Len(stack) - 1 < Len(stack)
                BY <1>0, <2>2, <5>4
              <7> QED BY <7>1, CellsAtGrows
            <6>3. caller # 0 /\ caller \in above
              BY <1>0, <5>2, <6>1, <6>2
            <6>4. ASSUME NEW m \in above PROVE m <= caller
              <7>1. m \in DOMAIN lines /\ lines[m].cells < CellsAt(Len(stack)) /\ lines[m].cells \in Nat
                BY <2>8, <5>2
              <7>2. ~(m > caller)
                BY <6>1, <6>2, <7>1
              <7> QED BY <1>0, <6>1, <7>1, <7>2
            <6> QED BY <5>1, <6>3, <6>4
          <5> QED BY <5>3, <5>4
        <4> QED BY <1>0, <2>7, <4>1, <4>2
      <3>2. overflown' => Len(stack') >= Cells
        BY <2>1
      <3> QED BY <3>1, <3>2 DEF CallGraphIsRight
    <2> QED BY <2>6, <2>9, <2>10 DEF CallGraphIInv
  <1> QED BY <1>5, <1>6

LEMMA CallGraphStep == CallGraphIInv /\ [CallGraphNext]_callGraphVars => CallGraphIInv'
  <1> SUFFICES ASSUME CallGraphIInv, [CallGraphNext]_callGraphVars PROVE CallGraphIInv'
    OBVIOUS
  <1>1. CASE __cyg_profile_func_enter
    BY <1>1, EnterFunctionStep
  <1>2. CASE __cyg_profile_func_exit
    <2>1. /\ overflown = FALSE /\ overflown' = FALSE /\ stack # <<>> /\ __call_level' = __call_level - 1
          /\ stack' = SubSeq(stack, 1, Len(stack) - 1) /\ lines' = lines /\ callers' = callers
      BY <1>2 DEF __cyg_profile_func_exit, Front, CallGraphIInv, CallGraphTypeOK
    <2>2. /\ stack \in Seq(Nat) /\ Len(stack) \in Nat /\ Len(stack) > 0 /\ DOMAIN stack = 1 .. Len(stack)
          /\ Len(stack) < Cells /\ __call_level = Len(stack)
      BY <2>1 DEF CallGraphIInv, CallGraphTypeOK, Nested
    <2>3. /\ stack' \in Seq(Nat) /\ Len(stack') = Len(stack) - 1
          /\ \A p \in 1 .. Len(stack) - 1 : stack'[p] = stack[p]
      BY <2>1, <2>2
    <2>4. DOMAIN stack' = 1 .. Len(stack) - 1
      BY <2>2, <2>3
    <2>5. CallGraphTypeOK'
      <3>1. __call_level' \in Nat
        BY <2>1, <2>2
      <3>2. overflown' \in BOOLEAN
        BY <2>1
      <3> QED BY <2>1, <2>3, <3>1, <3>2 DEF CallGraphIInv, CallGraphTypeOK
    <2>6. Nested'
      BY <2>1, <2>2, <2>3, <2>4, CallGraphAssumption DEF CallGraphIInv, Nested
    <2>7. CallGraphIsRight'
      BY <2>1, <2>2, <2>3, CallGraphAssumption DEF CallGraphIInv, CallGraphIsRight
    <2> QED BY <2>5, <2>6, <2>7 DEF CallGraphIInv
  <1>3. CASE UNCHANGED callGraphVars
    BY <1>3 DEF callGraphVars, CallGraphIInv, CallGraphTypeOK, Nested, CallGraphIsRight
  <1> QED BY <1>1, <1>2, <1>3 DEF CallGraphNext

-------------------------------------------------------------------------------
(* HuffmanWrite. *)

\* The word has the bits of the stream that are not stored, and nothing beyond, but for
\* what was in the first one.
Written ==
  /\ cut \subseteq 1 .. Len(stored)
  /\ ~started => n_bits = 0 /\ stored = <<>> /\ stream = <<>>
  /\ stored # <<>> \/ ~dirty =>
       \A b \in 1 .. WordBits :
         word[b] = IF b <= n_bits THEN stream[Len(stored) * WordBits + b] ELSE 0

HuffmanIInv == HuffmanTypeOK /\ Written /\ HuffmanIsRight

LEMMA HuffmanInitially == HuffmanInit => HuffmanIInv
  <1> SUFFICES ASSUME HuffmanInit PROVE HuffmanIInv
    OBVIOUS
  <1>1. /\ word = Clear /\ n_bits = 0 /\ stored = <<>> /\ stream = <<>> /\ cut = {}
        /\ started \in BOOLEAN /\ dirty \in BOOLEAN
    BY DEF HuffmanInit
  <1>2. Clear \in [1 .. WordBits -> Bits] /\ WordBits \in Nat /\ WordBits > 0
    BY HuffmanAssumption DEF Clear, Bits
  <1>3. HuffmanTypeOK
    BY <1>1, <1>2 DEF HuffmanTypeOK
  <1>4. Written
    BY <1>1, <1>2 DEF Written, Clear
  <1>5. HuffmanIsRight
    BY <1>1, <1>2 DEF HuffmanIsRight
  <1> QED BY <1>3, <1>4, <1>5 DEF HuffmanIInv

\* A bit of a word that is stored is one of the stream before the word that is not.
LEMMA BitIsBefore ==
  ASSUME NEW N \in Nat, NEW k \in 1 .. N, NEW b \in 1 .. WordBits
  PROVE  (k - 1) * WordBits + b \in 1 .. N * WordBits
  <1>1. WordBits \in Nat /\ WordBits > 0
    BY HuffmanAssumption
  <1>2. PICK d \in Nat : N = (k - 1) + 1 + d
    <2>1. N - k \in Nat /\ N = (k - 1) + 1 + (N - k)
      OBVIOUS
    <2> QED BY <2>1
  <1>3. (k - 1) * WordBits \in Nat /\ d * WordBits \in Nat
    BY <1>1
  <1>4. N * WordBits = (k - 1) * WordBits + WordBits + d * WordBits
    BY <1>1, <1>2
  <1> QED BY <1>1, <1>3, <1>4

LEMMA WriteStep ==
  ASSUME HuffmanIInv, NEW s \in Symbols, Write(s)
  PROVE  HuffmanIInv'
  <1> DEFINE K == Len(stored) * WordBits
             m == n_bits + Len(s)
  <1>0. /\ WordBits \in Nat /\ WordBits > 0
        /\ s \in Seq(Bits) /\ Len(s) \in Nat /\ 0 < Len(s) /\ Len(s) <= WordBits
        /\ DOMAIN s = 1 .. Len(s) /\ \A b \in 1 .. Len(s) : s[b] \in {0, 1}
    BY HuffmanAssumption DEF Bits
  <1>1. /\ word \in [1 .. WordBits -> Bits] /\ n_bits \in Nat /\ n_bits < WordBits
        /\ stored \in Seq([1 .. WordBits -> Bits]) /\ Len(stored) \in Nat
        /\ DOMAIN stored = 1 .. Len(stored)
        /\ stream \in Seq(Bits) /\ Len(stream) \in Nat
        /\ cut \subseteq 1 .. Len(stored)
    BY <1>0 DEF HuffmanIInv, HuffmanTypeOK, Written
  <1>2. \A b \in 1 .. WordBits : word[b] \in {0, 1}
    BY <1>1 DEF Bits
  <1>3. K \in Nat /\ Len(stream) = K + n_bits
    BY <1>0, <1>1 DEF HuffmanIInv, HuffmanIsRight
  <1>4. \A k \in 1 .. Len(stored), b \in 1 .. WordBits :
          (k - 1) * WordBits + b \in 1 .. K
    BY <1>1, BitIsBefore
  <1>5. stored # <<>> \/ ~dirty =>
          \A b \in 1 .. WordBits : word[b] = IF b <= n_bits THEN stream[K + b] ELSE 0
    BY DEF HuffmanIInv, Written
  <1>6. \A k \in 1 .. Len(stored) : k \notin cut /\ ~(k = 1 /\ dirty) =>
          \A b \in 1 .. WordBits : stored[k][b] = stream[(k - 1) * WordBits + b]
    BY <1>1 DEF HuffmanIInv, HuffmanIsRight
  <1>7. (Len(stored) + 1) * WordBits = K + WordBits
    BY <1>0, <1>1
  <1>8. stream' = stream \o s /\ (dirty' <=> dirty) /\ started'
    BY DEF Write
  <1>8a. started' \in BOOLEAN /\ dirty' \in BOOLEAN
    BY DEF HuffmanIInv, HuffmanTypeOK, Write
  <1>9. ShiftedIn(s) \in [1 .. WordBits -> Bits]
    BY <1>1 DEF ShiftedIn, Bits
  <1>10. \A b \in 1 .. WordBits :
           ShiftedIn(s)[b] =
             IF m <= WordBits /\ b \in n_bits + 1 .. m /\ s[b - n_bits] = 1 THEN 1 ELSE word[b]
    BY DEF ShiftedIn
  <1>11. /\ m < WordBits =>
              /\ word' = ShiftedIn(s) /\ n_bits' = m /\ stored' = stored
              /\ cut' = cut
         /\ ~(m < WordBits) =>
              /\ n_bits' = m - WordBits /\ stored' = Append(stored, ShiftedIn(s))
              /\ word' = Rest(s, m - WordBits)
         /\ cut' = IF m > WordBits /\ \E b \in 1 .. WordBits - n_bits : s[b] = 1
                   THEN cut \cup {Len(stored) + 1} ELSE cut
    BY <1>0, <1>1 DEF Write, Full
  <1> HIDE DEF K, m
  <1>12. m \in Nat /\ m = n_bits + Len(s) /\ m > 0
    BY <1>0, <1>1 DEF m
  <1>13. /\ stream' \in Seq(Bits) /\ Len(stream') = K + m
         /\ \A a \in 1 .. K + n_bits : stream'[a] = stream[a]
         /\ \A a \in K + n_bits + 1 .. K + m : stream'[a] = s[a - (K + n_bits)]
    <2>1. /\ stream' \in Seq(Bits) /\ Len(stream') = Len(stream) + Len(s)
          /\ \A a \in 1 .. Len(stream) + Len(s) :
               stream'[a] = IF a <= Len(stream) THEN stream[a] ELSE s[a - Len(stream)]
      BY <1>0, <1>1, <1>8, ConcatProperties
    <2> QED BY <1>0, <1>1, <1>3, <1>12, <2>1
  <1>14. \A b \in n_bits + 1 .. m : stream'[K + b] = s[b - n_bits] /\ b - n_bits \in 1 .. Len(s)
    <2> SUFFICES ASSUME NEW b \in n_bits + 1 .. m
                 PROVE  stream'[K + b] = s[b - n_bits] /\ b - n_bits \in 1 .. Len(s)
      OBVIOUS
    <2>1. K + b \in K + n_bits + 1 .. K + m /\ (K + b) - (K + n_bits) = b - n_bits
      BY <1>1, <1>3, <1>12
    <2>2. b - n_bits \in 1 .. Len(s)
      BY <1>0, <1>1, <1>12
    <2> QED BY <1>13, <2>1, <2>2
  <1>15. \A b \in 1 .. n_bits : stream'[K + b] = stream[K + b]
    BY <1>1, <1>3, <1>13
  <1>16. \A k \in 1 .. Len(stored), b \in 1 .. WordBits :
           stream'[(k - 1) * WordBits + b] = stream[(k - 1) * WordBits + b]
    <2> SUFFICES ASSUME NEW k \in 1 .. Len(stored), NEW b \in 1 .. WordBits
                 PROVE  stream'[(k - 1) * WordBits + b] = stream[(k - 1) * WordBits + b]
      OBVIOUS
    <2>1. (k - 1) * WordBits + b \in 1 .. K + n_bits
      BY <1>1, <1>3, <1>4
    <2> QED BY <1>13, <2>1
  <1>17. CASE m < WordBits
    <2>1. HuffmanTypeOK'
      <3>1. n_bits' \in 0 .. WordBits - 1 /\ cut' \subseteq Nat
        <4>1. n_bits' = m /\ cut' = cut
          BY <1>11, <1>17
        <4>2. cut \subseteq Nat
          BY <1>1
        <4> QED BY <1>0, <1>12, <1>17, <4>1, <4>2
      <3> QED BY <1>1, <1>8a, <1>9, <1>11, <1>13, <1>17, <3>1 DEF HuffmanTypeOK
    <2>2. Written'
      <3>1. cut' \subseteq 1 .. Len(stored')
        BY <1>1, <1>11, <1>17
      <3>2. ASSUME stored # <<>> \/ ~dirty, NEW b \in 1 .. WordBits
            PROVE  word'[b] = IF b <= m THEN stream'[K + b] ELSE 0
        <4>1. word'[b] = IF b \in n_bits + 1 .. m /\ s[b - n_bits] = 1 THEN 1 ELSE word[b]
          BY <1>10, <1>11, <1>12, <1>17, <1>0
        <4>2. word[b] = IF b <= n_bits THEN stream[K + b] ELSE 0
          BY <1>5, <3>2
        <4>3. CASE b <= n_bits
          BY <1>1, <1>12, <1>15, <1>0, <4>1, <4>2, <4>3
        <4>4. CASE b \in n_bits + 1 .. m
          BY <1>0, <1>1, <1>12, <1>14, <4>1, <4>2, <4>4
        <4>5. CASE b > m
          BY <1>0, <1>1, <1>12, <4>1, <4>2, <4>5
        <4> QED BY <1>1, <1>12, <4>3, <4>4, <4>5
      <3>3. Len(stored') * WordBits = K
        BY <1>11, <1>17 DEF K
      <3>4. n_bits' = m /\ stored' = stored
        BY <1>11, <1>17
      <3> QED BY <1>8, <3>1, <3>2, <3>3, <3>4 DEF Written
    <2>3. HuffmanIsRight'
      <3>1. Len(stored') * WordBits = K
        BY <1>11, <1>17 DEF K
      <3>2. n_bits' = m /\ stored' = stored /\ cut' = cut
        BY <1>11, <1>17
      <3>3. ASSUME NEW k \in 1 .. Len(stored), k \notin cut, ~(k = 1 /\ dirty),
                   NEW b \in 1 .. WordBits
            PROVE  stored[k][b] = stream'[(k - 1) * WordBits + b]
        BY <1>6, <1>16, <3>3
      <3>4. DOMAIN stored' = 1 .. Len(stored) /\ Len(stored') * WordBits + n_bits' = Len(stream')
        BY <1>1, <1>13, <3>1, <3>2
      <3> QED BY <1>8, <3>2, <3>3, <3>4 DEF HuffmanIsRight
    <2> QED BY <2>1, <2>2, <2>3 DEF HuffmanIInv
  <1>18. CASE ~(m < WordBits)
    <2> DEFINE r == m - WordBits
    <2>0. r \in Nat /\ r < WordBits /\ r <= Len(s) /\ m = WordBits + r /\ Len(s) - r = WordBits - n_bits
      BY <1>0, <1>1, <1>12, <1>18
    <2>1. n_bits' = r /\ stored' = Append(stored, ShiftedIn(s)) /\ word' = Rest(s, r)
      BY <1>11, <1>18
    <2> HIDE DEF r
    <2>2. /\ stored' \in Seq([1 .. WordBits -> Bits]) /\ Len(stored') = Len(stored) + 1
          /\ stored' # <<>>
          /\ \A k \in 1 .. Len(stored) : stored'[k] = stored[k]
          /\ stored'[Len(stored) + 1] = ShiftedIn(s)
      BY <1>1, <1>9, <2>1, AppendProperties
    <2>3. \A b \in 1 .. WordBits :
            word'[b] = IF b <= r THEN s[Len(s) - r + b] ELSE 0
      BY <2>1 DEF Rest
    <2>4. word' \in [1 .. WordBits -> Bits]
      <3>1. \A b \in 1 .. WordBits : b <= r => s[Len(s) - r + b] \in {0, 1}
        <4> SUFFICES ASSUME NEW b \in 1 .. WordBits, b <= r PROVE s[Len(s) - r + b] \in {0, 1}
          OBVIOUS
        <4>1. Len(s) - r + b \in 1 .. Len(s)
          BY <1>0, <2>0
        <4> QED BY <1>0, <4>1
      <3> QED BY <2>1, <3>1 DEF Rest, Bits
    <2>5. HuffmanTypeOK'
      <3>1. cut' \subseteq Nat
        <4>1. Len(stored) + 1 \in Nat /\ cut \subseteq Nat
          BY <1>1
        <4> QED BY <1>11, <4>1
      <3>2. n_bits' \in 0 .. WordBits - 1
        BY <1>0, <2>0, <2>1
      <3> QED BY <1>8a, <1>13, <2>2, <2>4, <3>1, <3>2 DEF HuffmanTypeOK
    <2>6. Written'
      <3>1. cut' \subseteq 1 .. Len(stored')
        <4>1. cut \subseteq 1 .. Len(stored) + 1 /\ Len(stored) + 1 \in 1 .. Len(stored) + 1
          BY <1>1
        <4>2. cut' = cut \/ cut' = cut \cup {Len(stored) + 1}
          BY <1>11
        <4> QED BY <2>2, <4>1, <4>2
      <3>2. ASSUME NEW b \in 1 .. WordBits
            PROVE  word'[b] = IF b <= r THEN stream'[K + WordBits + b] ELSE 0
        <4>1. CASE b <= r
          <5>1. WordBits + b \in n_bits + 1 .. m
            BY <1>0, <1>1, <2>0, <4>1
          <5>2. stream'[K + (WordBits + b)] = s[(WordBits + b) - n_bits]
            BY <1>14, <5>1
          <5>3. K + (WordBits + b) = K + WordBits + b /\ (WordBits + b) - n_bits = Len(s) - r + b
            <6>1. b \in Nat /\ K \in Nat /\ n_bits \in Nat /\ WordBits \in Nat /\ r \in Nat /\ Len(s) \in Nat
              BY <1>0, <1>1, <1>3, <2>0
            <6>2. Len(s) - r = WordBits - n_bits
              BY <2>0
            <6> QED BY <6>1, <6>2
          <5> QED BY <2>3, <4>1, <5>2, <5>3
        <4>2. CASE ~(b <= r)
          BY <2>3, <4>2
        <4> QED BY <4>1, <4>2
      <3>3. Len(stored') * WordBits = K + WordBits
        BY <1>7, <2>2 DEF K
      <3> QED BY <1>8, <2>1, <3>1, <3>2, <3>3 DEF Written
    <2>7. HuffmanIsRight'
      <3>1. Len(stored') * WordBits + n_bits' = Len(stream')
        BY <1>0, <1>3, <1>7, <1>13, <2>0, <2>1, <2>2 DEF K
      <3>2. ASSUME NEW k \in 1 .. Len(stored) + 1, k \notin cut', ~(k = 1 /\ dirty),
                   NEW b \in 1 .. WordBits
            PROVE  stored'[k][b] = stream'[(k - 1) * WordBits + b]
        <4>1. CASE k \in 1 .. Len(stored)
          BY <1>6, <1>11, <1>16, <2>2, <3>2, <4>1
        <4>2. CASE k = Len(stored) + 1
          <5>1. (k - 1) * WordBits = K
            BY <1>1, <4>2 DEF K
          <5>2. stored # <<>> \/ ~dirty
            BY <1>1, <3>2, <4>2
          <5>3. word[b] = IF b <= n_bits THEN stream[K + b] ELSE 0
            BY <1>5, <5>2
          <5>4. stored'[k][b] = IF m <= WordBits /\ b \in n_bits + 1 .. m /\ s[b - n_bits] = 1
                                THEN 1 ELSE word[b]
            BY <1>10, <2>2, <4>2
          <5>5. CASE b <= n_bits
            BY <1>1, <1>15, <5>1, <5>3, <5>4, <5>5
          <5>6. CASE ~(b <= n_bits)
            <6>1. b \in n_bits + 1 .. m /\ b - n_bits \in 1 .. WordBits - n_bits
              BY <1>0, <1>1, <1>12, <1>18, <5>6
            <6>2. stream'[K + b] = s[b - n_bits] /\ s[b - n_bits] \in {0, 1}
              BY <1>0, <1>14, <6>1
            <6>3. CASE m <= WordBits
              BY <5>1, <5>3, <5>4, <5>6, <6>1, <6>2, <6>3
            <6>4. CASE ~(m <= WordBits)
              <7>1. m > WordBits
                BY <1>0, <1>12, <6>4
              <7>2. s[b - n_bits] # 1
                BY <1>11, <3>2, <4>2, <6>1, <7>1
              <7> QED BY <5>1, <5>3, <5>4, <5>6, <6>2, <6>4, <7>2
            <6> QED BY <6>3, <6>4
          <5> QED BY <5>5, <5>6
        <4> QED BY <1>1, <4>1, <4>2
      <3>3. DOMAIN stored' = 1 .. Len(stored) + 1
        BY <1>1, <2>2
      <3> QED BY <1>8, <3>1, <3>2, <3>3 DEF HuffmanIsRight
    <2> QED BY <2>5, <2>6, <2>7 DEF HuffmanIInv
  <1> QED BY <1>17, <1>18

LEMMA HuffmanStep == HuffmanIInv /\ [HuffmanNext]_huffmanVars => HuffmanIInv'
  <1> SUFFICES ASSUME HuffmanIInv, [HuffmanNext]_huffmanVars PROVE HuffmanIInv'
    OBVIOUS
  <1>1. ASSUME NEW junk \in Words, MainHuffman(junk) PROVE HuffmanIInv'
    <2>1. /\ ~started /\ started' = TRUE /\ word' = junk /\ dirty' = (junk # Clear)
          /\ n_bits' = n_bits /\ stored' = stored /\ stream' = stream /\ cut' = cut
      BY <1>1 DEF MainHuffman
    <2>2. stored = <<>> /\ stream = <<>> /\ cut = {} /\ n_bits = 0
      BY <2>1 DEF HuffmanIInv, Written
    <2>3. junk \in [1 .. WordBits -> Bits] /\ started' \in BOOLEAN
      BY <2>1, HuffmanAssumption
    <2>4. dirty' \in BOOLEAN
      BY <2>1
    <2>5. HuffmanTypeOK'
      BY <2>1, <2>3, <2>4 DEF HuffmanIInv, HuffmanTypeOK
    <2>6. Written'
      <3>1. started'
        BY <2>1
      <3>2. stored' = <<>> /\ cut' = {} /\ n_bits' = 0
        BY <2>1, <2>2
      <3>3. ASSUME ~dirty', NEW b \in 1 .. WordBits PROVE word'[b] = 0
        BY <2>1, <3>3 DEF Clear
      <3> QED BY <3>1, <3>2, <3>3, HuffmanAssumption DEF Written
    <2>7. HuffmanIsRight'
      BY <2>1, <2>2 DEF HuffmanIInv, HuffmanIsRight
    <2> QED BY <2>5, <2>6, <2>7 DEF HuffmanIInv
  <1>2. ASSUME NEW s \in Symbols, Write(s) PROVE HuffmanIInv'
    BY <1>2, WriteStep
  <1>3. CASE UNCHANGED huffmanVars
    BY <1>3 DEF huffmanVars, HuffmanIInv, HuffmanTypeOK, Written, HuffmanIsRight
  <1> QED BY <1>1, <1>2, <1>3 DEF HuffmanNext

-------------------------------------------------------------------------------
(* Fibonascii. *)

Shown == [number : Nat, unit : 0 .. 8]

\* The table of unsigned longs has the numbers as far as they fit, that of long doubles,
\* once they do not, the last two.
Tables ==
  /\ row = -1 => ~overflow
  /\ \A r \in 1 .. Len(shown) : fibo_int[r - 1] = shown[r].number % Wide
  /\ ~overflow => \A r \in 1 .. Len(shown) : shown[r].number < Wide
  /\ overflow =>
       /\ row > 2
       /\ fibo_dbl[row - 1] = shown[row].number
       /\ fibo_dbl[row - 2] = shown[row - 1].number

FibonasciiIInv == FibonasciiTypeOK /\ Tables /\ FibonasciiIsRight

LEMMA FibonasciiInitially == FibonasciiInit => FibonasciiIInv
  <1> SUFFICES ASSUME FibonasciiInit PROVE FibonasciiIInv
    OBVIOUS
  <1>1. row = -1 /\ ~overflow /\ overflow \in BOOLEAN /\ shown = <<>>
    BY DEF FibonasciiInit
  <1>2. FibonasciiTypeOK
    <2>1. fibo_int \in [0 .. Rows - 1 -> 0 .. Wide - 1] /\ fibo_dbl \in [0 .. Rows - 1 -> Int]
      BY FibonasciiAssumption DEF FibonasciiInit
    <2>2. -1 \in -1 .. Rows
      BY FibonasciiAssumption
    <2> QED BY <1>1, <2>1, <2>2 DEF FibonasciiTypeOK
  <1>3. Tables
    BY <1>1 DEF Tables
  <1>4. FibonasciiIsRight
    BY <1>1 DEF FibonasciiIsRight
  <1> QED BY <1>2, <1>3, <1>4 DEF FibonasciiIInv

\* What is shown of a number is in its unit.
LEMMA UnitFits ==
  ASSUME NEW cur \in Nat
  PROVE  LET unit == Unit(cur % Wide, cur)
         IN  /\ unit \in 0 .. 8
             /\ cur < Wide \/ cur % Wide >= Limit[1] => InUnit(cur, unit)
  <1> DEFINE int == cur % Wide
             Fits(u) == /\ \A v \in 2 .. u : Limit[v] <= cur
                        /\ u < 8 => cur < Limit[u + 1]
  <1>0. /\ Wide \in Nat /\ Wide > 2
        /\ \A u \in 1 .. 8 : Limit[u] \in Nat
    BY FibonasciiAssumption
  <1>1. /\ Limit[1] < Limit[2] /\ Limit[2] < Limit[3] /\ Limit[3] < Limit[4] /\ Limit[4] < Limit[5]
        /\ Limit[5] < Limit[6] /\ Limit[6] < Limit[7] /\ Limit[7] < Limit[8]
    <2>1. \A u \in 1 .. 7 : Limit[u] < Limit[u + 1]
      BY FibonasciiAssumption
    <2>2. 1 + 1 = 2 /\ 2 + 1 = 3 /\ 3 + 1 = 4 /\ 4 + 1 = 5 /\ 5 + 1 = 6 /\ 6 + 1 = 7 /\ 7 + 1 = 8
      OBVIOUS
    <2> QED BY <2>1, <2>2
  <1>2. /\ int \in Nat /\ int <= cur /\ (cur < Wide => int = cur)
    BY <1>0
  <1>3. \E u \in 1 .. 8 : Fits(u)
    <2>0. /\ Limit[1] \in Nat /\ Limit[2] \in Nat /\ Limit[3] \in Nat /\ Limit[4] \in Nat
          /\ Limit[5] \in Nat /\ Limit[6] \in Nat /\ Limit[7] \in Nat /\ Limit[8] \in Nat
      BY <1>0
    <2>1. CASE cur < Limit[2]
      <3>1. Fits(1)
        BY <2>1
      <3> QED BY <3>1
    <2>2. CASE Limit[2] <= cur /\ cur < Limit[3]
      <3>1. \A v \in 2 .. 2 : v = 2
        OBVIOUS
      <3>2. Fits(2)
        BY <2>2, <3>1
      <3> QED BY <3>2
    <2>3. CASE Limit[3] <= cur /\ cur < Limit[4]
      <3>1. \A v \in 2 .. 3 : v = 2 \/ v = 3
        OBVIOUS
      <3>2. Fits(3)
        BY <1>1, <2>0, <2>3, <3>1
      <3> QED BY <3>2
    <2>4. CASE Limit[4] <= cur /\ cur < Limit[5]
      <3>1. \A v \in 2 .. 4 : v = 2 \/ v = 3 \/ v = 4
        OBVIOUS
      <3>2. Fits(4)
        BY <1>1, <2>0, <2>4, <3>1
      <3> QED BY <3>2
    <2>5. CASE Limit[5] <= cur /\ cur < Limit[6]
      <3>1. \A v \in 2 .. 5 : v = 2 \/ v = 3 \/ v = 4 \/ v = 5
        OBVIOUS
      <3>2. Fits(5)
        BY <1>1, <2>0, <2>5, <3>1
      <3> QED BY <3>2
    <2>6. CASE Limit[6] <= cur /\ cur < Limit[7]
      <3>1. \A v \in 2 .. 6 : v = 2 \/ v = 3 \/ v = 4 \/ v = 5 \/ v = 6
        OBVIOUS
      <3>2. Fits(6)
        BY <1>1, <2>0, <2>6, <3>1
      <3> QED BY <3>2
    <2>7. CASE Limit[7] <= cur /\ cur < Limit[8]
      <3>1. \A v \in 2 .. 7 : v = 2 \/ v = 3 \/ v = 4 \/ v = 5 \/ v = 6 \/ v = 7
        OBVIOUS
      <3>2. Fits(7)
        BY <1>1, <2>0, <2>7, <3>1
      <3> QED BY <3>2
    <2>8. CASE Limit[8] <= cur
      <3>1. \A v \in 2 .. 8 : v = 2 \/ v = 3 \/ v = 4 \/ v = 5 \/ v = 6 \/ v = 7 \/ v = 8
        OBVIOUS
      <3>2. Fits(8)
        BY <1>1, <2>0, <2>8, <3>1
      <3> QED BY <3>2
    <2> HIDE DEF Fits
    <2> QED BY <2>0, <2>1, <2>2, <2>3, <2>4, <2>5, <2>6, <2>7, <2>8
  <1> DEFINE chosen == CHOOSE u \in 1 .. 8 : Fits(u)
  <1>4. chosen \in 1 .. 8 /\ Fits(chosen)
    <2> HIDE DEF Fits
    <2> QED BY <1>3
  <1>5. Unit(int, cur) = IF int < Limit[1] THEN 0 ELSE chosen
    BY DEF Unit
  <1> HIDE DEF chosen, int
  <1>6. CASE int < Limit[1]
    BY <1>0, <1>2, <1>5, <1>6 DEF InUnit, int
  <1>7. CASE ~(int < Limit[1])
    <2>1. Unit(int, cur) = chosen
      BY <1>5, <1>7
    <2>2. Limit[1] <= cur
      BY <1>0, <1>2, <1>7
    <2>3. Limit[chosen] <= cur
      <3>1. CASE chosen = 1
        BY <2>2, <3>1
      <3>2. CASE chosen # 1
        <4>1. chosen \in 2 .. chosen
          BY <1>4, <3>2
        <4> QED BY <1>4, <4>1
      <3> QED BY <3>1, <3>2
    <2>4. InUnit(cur, chosen)
      BY <1>4, <2>3 DEF InUnit
    <2> QED BY <1>4, <2>1, <2>4 DEF int
  <1> QED BY <1>6, <1>7

\* Sums come around the same whether their terms did.
LEMMA SumComesAround ==
  ASSUME NEW a \in Nat, NEW b \in Nat, NEW m \in Nat, m > 0
  PROVE  ((a % m) + (b % m)) % m = (a + b) % m
  <1>1. PICK q \in Nat, r \in 0 .. m - 1 : a = q * m + r /\ a % m = r
    <2>1. a \div m \in Nat /\ a % m \in 0 .. m - 1 /\ a = (a \div m) * m + (a % m)
      OBVIOUS
    <2> QED BY <2>1
  <1>2. PICK p \in Nat, t \in 0 .. m - 1 : b = p * m + t /\ b % m = t
    <2>1. b \div m \in Nat /\ b % m \in 0 .. m - 1 /\ b = (b \div m) * m + (b % m)
      OBVIOUS
    <2> QED BY <2>1
  <1>3. a + b = (q + p) * m + (r + t)
    BY <1>1, <1>2
  <1>4. ((q + p) * m + (r + t)) % m = (r + t) % m
    <2>1. PICK k \in Nat, u \in 0 .. m - 1 : r + t = k * m + u /\ (r + t) % m = u
      <3>1. (r + t) \div m \in Nat /\ (r + t) % m \in 0 .. m - 1
            /\ r + t = ((r + t) \div m) * m + ((r + t) % m)
        OBVIOUS
      <3> QED BY <3>1
    <2>2. (q + p) * m + (r + t) = ((q + p) + k) * m + u
      BY <2>1
    <2>3. (((q + p) + k) * m + u) % m = u
      OBVIOUS
    <2> QED BY <2>1, <2>2, <2>3
  <1> QED BY <1>1, <1>2, <1>3, <1>4

\* A row: the number is shown that the row has in the table that is read.
LEMMA RowStep == FibonasciiIInv /\ Row => FibonasciiIInv'
  <1> SUFFICES ASSUME FibonasciiIInv, Row PROVE FibonasciiIInv'
    OBVIOUS
  <1> DEFINE cur == IF overflow' THEN fibo_dbl'[row] ELSE fibo_int'[row]
             line == [number |-> cur, unit |-> Unit(fibo_int'[row], cur)]
  <1>0. Wide \in Nat /\ Wide > 2 /\ Rows \in Nat /\ Limit[1] \in Nat /\ Limit[1] > 1
    BY FibonasciiAssumption
  <1>1. /\ row \in Nat /\ row < Rows /\ Len(shown) = row /\ DOMAIN shown = 1 .. row
        /\ shown \in Seq(Shown)
        /\ fibo_int \in [0 .. Rows - 1 -> 0 .. Wide - 1]
        /\ fibo_dbl \in [0 .. Rows - 1 -> Int]
    BY <1>0 DEF Row, FibonasciiIInv, FibonasciiTypeOK, Shown
  <1>2. \A r \in 1 .. row : shown[r].number \in Nat
    <2> SUFFICES ASSUME NEW r \in 1 .. row PROVE shown[r].number \in Nat
      OBVIOUS
    <2>1. shown[r] \in Shown
      BY <1>1
    <2> QED BY <2>1 DEF Shown
  <1>3. /\ \A r \in 1 .. row : fibo_int[r - 1] = shown[r].number % Wide
        /\ ~overflow => \A r \in 1 .. row : shown[r].number < Wide
        /\ overflow => row > 2 /\ fibo_dbl[row - 1] = shown[row].number
                       /\ fibo_dbl[row - 2] = shown[row - 1].number
    BY <1>1 DEF FibonasciiIInv, Tables
  <1>4. /\ row' = row + 1
        /\ overflow' = Overflows
        /\ fibo_int' = [fibo_int EXCEPT ![row] =
                          IF row > 1 THEN (fibo_int[row - 1] + fibo_int[row - 2]) % Wide ELSE 1]
        /\ fibo_dbl' = IF row > 1
                       THEN [Stored EXCEPT ![row] = Stored[row - 2] + Stored[row - 1]]
                       ELSE fibo_dbl
        /\ shown' = Append(shown, line)
    BY DEF Row
  <1>5. row \in 0 .. Rows - 1
    BY <1>0, <1>1
  <1>6. /\ fibo_int'[row] = IF row > 1 THEN (fibo_int[row - 1] + fibo_int[row - 2]) % Wide ELSE 1
        /\ \A r \in 1 .. row : fibo_int'[r - 1] = fibo_int[r - 1]
    <2>1. \A r \in 1 .. row : r - 1 \in 0 .. Rows - 1 /\ r - 1 # row
      BY <1>0, <1>1
    <2> QED BY <1>1, <1>4, <1>5, <2>1
  <1>7. fibo_int' \in [0 .. Rows - 1 -> 0 .. Wide - 1]
    <2>1. CASE row > 1
      <3>1. fibo_int[row - 1] \in 0 .. Wide - 1 /\ fibo_int[row - 2] \in 0 .. Wide - 1
        <4>1. row - 1 \in 0 .. Rows - 1 /\ row - 2 \in 0 .. Rows - 1
          BY <1>0, <1>1, <2>1
        <4> QED BY <1>1, <4>1
      <3>2. (fibo_int[row - 1] + fibo_int[row - 2]) % Wide \in 0 .. Wide - 1
        BY <1>0, <3>1
      <3> QED BY <1>1, <1>4, <2>1, <3>2
    <2>2. CASE ~(row > 1)
      <3>1. 1 \in 0 .. Wide - 1
        BY <1>0
      <3> QED BY <1>1, <1>4, <2>2, <3>1
    <2> QED BY <2>1, <2>2
  \* The number of the row.
  <1> DEFINE next == IF row <= 1 THEN 1 ELSE shown[row].number + shown[row - 1].number
  <1>8. /\ next \in Nat /\ cur = next /\ fibo_int'[row] = next % Wide
        /\ ~overflow' => next < Wide
        /\ overflow' => row + 1 > 2 /\ row > 1 /\ fibo_dbl'[row] = next
                        /\ fibo_dbl'[row - 1] = shown[row].number
        /\ fibo_dbl' \in [0 .. Rows - 1 -> Int]
    <2>1. CASE row <= 1
      <3>0. ~(row > 1) /\ ~(row > 2)
        BY <1>1, <2>1
      <3>1. ~overflow /\ ~overflow'
        <4>1. ~overflow
          BY <1>3, <3>0
        <4>2. ~Overflows
          BY <3>0, <4>1 DEF Overflows
        <4> QED BY <1>4, <4>1, <4>2
      <3>2. fibo_dbl' = fibo_dbl /\ fibo_int'[row] = 1
        BY <1>4, <1>6, <3>0
      <3>2a. next = 1
        BY <2>1
      <3>2b. 1 % Wide = 1
        BY <1>0
      <3> QED BY <1>0, <1>1, <3>1, <3>2, <3>2a, <3>2b
    <2>2. CASE ~(row <= 1)
      <3>0. /\ row > 1 /\ row - 1 \in 1 .. row /\ row \in 1 .. row
            /\ row - 1 \in 0 .. Rows - 1 /\ row - 2 \in 0 .. Rows - 1 /\ (row - 1) - 1 = row - 2
            /\ row # row - 1 /\ row # row - 2 /\ row - 1 # row - 2
        BY <1>0, <1>1, <2>2
      <3>1. PICK a \in Nat : a = shown[row].number
        BY <1>2, <3>0
      <3>2. PICK b \in Nat : b = shown[row - 1].number
        BY <1>2, <3>0
      <3>3. fibo_int[row - 1] = a % Wide /\ fibo_int[row - 2] = b % Wide
        <4>1. fibo_int[row - 1] = shown[row].number % Wide
          BY <1>3, <3>0
        <4>2. fibo_int[(row - 1) - 1] = shown[row - 1].number % Wide
          BY <1>3, <3>0
        <4> QED BY <3>0, <3>1, <3>2, <4>1, <4>2
      <3>4. next = a + b /\ next \in Nat
        <4>1. next = shown[row].number + shown[row - 1].number
          BY <2>2
        <4> QED BY <3>1, <3>2, <4>1
      <3> HIDE DEF next
      <3>5. fibo_int'[row] = next % Wide
        <4>1. fibo_int'[row] = ((a % Wide) + (b % Wide)) % Wide
          <5>1. fibo_int'[row] = (fibo_int[row - 1] + fibo_int[row - 2]) % Wide
            BY <1>6, <3>0
          <5> QED BY <3>3, <5>1, Zenon
        <4>2. ((a % Wide) + (b % Wide)) % Wide = (a + b) % Wide
          <5>1. Wide \in Nat /\ Wide > 0 /\ a \in Nat /\ b \in Nat
            BY <1>0
          <5> QED BY <5>1, SumComesAround, Zenon
        <4> QED BY <3>4, <4>1, <4>2
      <3>6. ~overflow => a < Wide /\ b < Wide /\ fibo_int[row - 1] = a /\ fibo_int[row - 2] = b
        <4>1. ~overflow => a < Wide /\ b < Wide
          BY <1>3, <3>0, <3>1, <3>2
        <4>2. a < Wide => a % Wide = a
          BY <1>0
        <4>3. b < Wide => b % Wide = b
          BY <1>0
        <4> QED BY <3>3, <4>1, <4>2, <4>3
      <3>7. overflow' <=> overflow \/ Wide - 1 - fibo_int[row - 2] < fibo_int[row - 1]
        BY <1>4, <3>0 DEF Overflows
      <3>8. CASE ~overflow'
        <4>1. ~overflow /\ ~(Wide - 1 - b < a)
          BY <3>6, <3>7, <3>8
        <4>2. next < Wide /\ next % Wide = next
          BY <1>0, <3>4, <4>1
        <4>3. fibo_dbl' = [fibo_dbl EXCEPT ![row] = fibo_dbl[row - 2] + fibo_dbl[row - 1]]
          BY <1>4, <3>0, <3>8 DEF Stored
        <4>4. fibo_dbl' \in [0 .. Rows - 1 -> Int]
          BY <1>1, <1>5, <3>0, <4>3
        <4> QED BY <3>4, <3>5, <3>8, <4>2, <4>4
      <3>9. CASE overflow'
        <4>1. /\ Stored \in [0 .. Rows - 1 -> Int]
              /\ Stored[row - 1] = a /\ Stored[row - 2] = b
          <5>1. CASE overflow
            <6>1. Stored = fibo_dbl
              BY <5>1 DEF Stored
            <6> QED BY <1>1, <1>3, <3>1, <3>2, <5>1, <6>1
          <5>2. CASE ~overflow
            <6>1. Stored = [fibo_dbl EXCEPT ![row - 2] = fibo_int[row - 2], ![row - 1] = fibo_int[row - 1]]
              BY <1>4, <3>9, <5>2 DEF Stored
            <6>2. Stored = [fibo_dbl EXCEPT ![row - 2] = b, ![row - 1] = a]
              BY <3>6, <5>2, <6>1
            <6> QED BY <1>1, <3>0, <6>2
          <5> QED BY <5>1, <5>2
        <4>2. fibo_dbl' = [Stored EXCEPT ![row] = b + a]
          BY <1>4, <3>0, <4>1
        <4>3. /\ fibo_dbl'[row] = next /\ fibo_dbl'[row - 1] = a
              /\ fibo_dbl' \in [0 .. Rows - 1 -> Int]
          BY <1>5, <3>0, <3>4, <4>1, <4>2
        <4>4. row + 1 > 2
          BY <1>1, <3>0
        <4> QED BY <3>0, <3>1, <3>4, <3>5, <3>9, <4>3, <4>4
      <3> QED BY <3>8, <3>9
    <2> QED BY <2>1, <2>2
  <1> HIDE DEF next
  <1>9. /\ Unit(next % Wide, next) \in 0 .. 8
        /\ next < Wide \/ next % Wide >= Limit[1] => InUnit(next, Unit(next % Wide, next))
    BY <1>8, UnitFits
  <1>10. line = [number |-> next, unit |-> Unit(next % Wide, next)]
    BY <1>8
  <1>11. line \in Shown
    BY <1>8, <1>9, <1>10 DEF Shown
  <1>12. line.number = next /\ line.unit = Unit(next % Wide, next)
    BY <1>10
  <1> HIDE DEF line, cur
  <1>13. /\ shown' \in Seq(Shown) /\ Len(shown') = row + 1
         /\ \A r \in 1 .. row : shown'[r] = shown[r]
         /\ shown'[row + 1] = line
    BY <1>1, <1>4, <1>11, AppendProperties
  <1>14. DOMAIN shown' = 1 .. row + 1
    BY <1>1, <1>13
  <1>15. FibonasciiTypeOK'
    <2>1. overflow' \in BOOLEAN
      BY <1>4 DEF Overflows, FibonasciiIInv, FibonasciiTypeOK
    <2>2. row' \in -1 .. Rows /\ row' # -1
      BY <1>0, <1>1, <1>4
    <2> QED BY <1>4, <1>7, <1>8, <1>13, <2>1, <2>2 DEF FibonasciiTypeOK, Shown
  <1>16. Tables'
    <2>1. row' # -1
      BY <1>1, <1>4
    <2>2. \A r \in 1 .. row + 1 : fibo_int'[r - 1] = shown'[r].number % Wide
      <3> SUFFICES ASSUME NEW r \in 1 .. row + 1 PROVE fibo_int'[r - 1] = shown'[r].number % Wide
        OBVIOUS
      <3>1. CASE r = row + 1
        <4>1. r - 1 = row
          BY <1>1, <3>1
        <4> QED BY <1>8, <1>12, <1>13, <3>1, <4>1
      <3>2. CASE r \in 1 .. row
        BY <1>3, <1>6, <1>13, <3>2
      <3> QED BY <1>1, <3>1, <3>2
    <2>3. ASSUME ~overflow', NEW r \in 1 .. row + 1 PROVE shown'[r].number < Wide
      <3>0. ~overflow
        BY <1>4, <2>3 DEF Overflows
      <3>1. CASE r = row + 1
        BY <1>8, <1>12, <1>13, <2>3, <3>1
      <3>2. CASE r \in 1 .. row
        BY <1>3, <1>13, <3>0, <3>2
      <3> QED BY <1>1, <3>1, <3>2
    <2>4. ASSUME overflow'
          PROVE  /\ row' > 2 /\ fibo_dbl'[row' - 1] = shown'[row'].number
                 /\ fibo_dbl'[row' - 2] = shown'[row' - 1].number
      <3>1. row' - 1 = row /\ row' - 2 = row - 1 /\ row \in 1 .. row /\ row' = row + 1
        BY <1>1, <1>4, <1>8, <2>4
      <3> QED BY <1>8, <1>12, <1>13, <2>4, <3>1
    <2> QED BY <1>13, <2>1, <2>2, <2>3, <2>4 DEF Tables
  <1>17. FibonasciiIsRight'
    <2> SUFFICES ASSUME NEW r \in 1 .. row + 1
                 PROVE  /\ shown'[r].number = IF r <= 2 THEN 1
                                              ELSE shown'[r - 1].number + shown'[r - 2].number
                        /\ shown'[r].number < Wide \/ shown'[r].number % Wide >= Limit[1] =>
                             InUnit(shown'[r].number, shown'[r].unit)
      BY <1>14 DEF FibonasciiIsRight, InUnit
    <2>1. CASE r = row + 1
      <3>1. shown'[r].number = next /\ shown'[r].unit = Unit(next % Wide, next)
        BY <1>12, <1>13, <2>1
      <3>2. next = IF r <= 2 THEN 1 ELSE shown'[r - 1].number + shown'[r - 2].number
        <4>1. CASE row <= 1
          BY <1>1, <2>1, <4>1 DEF next
        <4>2. CASE ~(row <= 1)
          <5>1. r - 1 = row /\ r - 2 = row - 1 /\ row \in 1 .. row /\ row - 1 \in 1 .. row /\ ~(r <= 2)
            BY <1>1, <2>1, <4>2
          <5> QED BY <1>13, <4>2, <5>1 DEF next
        <4> QED BY <4>1, <4>2
      <3> QED BY <1>9, <3>1, <3>2
    <2>2. CASE r \in 1 .. row
      <3>1. shown'[r] = shown[r] /\ (r > 2 => shown'[r - 1] = shown[r - 1] /\ shown'[r - 2] = shown[r - 2])
        <4>1. r > 2 => r - 1 \in 1 .. row /\ r - 2 \in 1 .. row
          BY <1>1, <2>2
        <4> QED BY <1>13, <2>2, <4>1
      <3>2. /\ shown[r].number = IF r <= 2 THEN 1 ELSE shown[r - 1].number + shown[r - 2].number
            /\ shown[r].number < Wide \/ shown[r].number % Wide >= Limit[1] =>
                 InUnit(shown[r].number, shown[r].unit)
        BY <1>1, <2>2 DEF FibonasciiIInv, FibonasciiIsRight
      <3> QED BY <3>1, <3>2
    <2> QED BY <1>1, <2>1, <2>2
  <1> QED BY <1>15, <1>16, <1>17 DEF FibonasciiIInv

LEMMA FibonasciiStep == FibonasciiIInv /\ [FibonasciiNext]_fibonasciiVars => FibonasciiIInv'
  <1> SUFFICES ASSUME FibonasciiIInv, [FibonasciiNext]_fibonasciiVars PROVE FibonasciiIInv'
    OBVIOUS
  <1>1. ASSUME NEW junk \in Junk, Main(junk) PROVE FibonasciiIInv'
    <2>1. /\ row = -1 /\ row' = 0 /\ fibo_int' = fibo_int /\ shown' = shown
          /\ fibo_dbl' = [r \in 0 .. Rows - 1 |-> junk]
          /\ overflow' = overflow
      BY <1>1 DEF Main
    <2>2. /\ Len(shown) = 0 /\ DOMAIN shown = {} /\ ~overflow /\ ~overflow'
      <3>1. Len(shown) = 0 /\ ~overflow /\ shown \in Seq(Shown)
        BY <2>1 DEF FibonasciiIInv, FibonasciiTypeOK, Tables, Shown
      <3> QED BY <2>1, <3>1
    <2>3. junk \in Int /\ Rows \in Nat
      BY FibonasciiAssumption
    <2>4. fibo_dbl' \in [0 .. Rows - 1 -> Int]
      BY <2>1, <2>3
    <2>5. FibonasciiTypeOK'
      <3>1. row' \in -1 .. Rows /\ row' # -1
        BY <2>1, <2>3
      <3>2. overflow' \in BOOLEAN
        BY <2>1 DEF FibonasciiIInv, FibonasciiTypeOK
      <3> QED BY <2>1, <2>2, <2>4, <3>1, <3>2 DEF FibonasciiIInv, FibonasciiTypeOK
    <2>6. Tables'
      BY <2>1, <2>2 DEF Tables
    <2>7. FibonasciiIsRight'
      BY <2>1, <2>2 DEF FibonasciiIsRight
    <2> QED BY <2>5, <2>6, <2>7 DEF FibonasciiIInv
  <1>2. CASE Row
    BY <1>2, RowStep
  <1>3. CASE UNCHANGED fibonasciiVars
    BY <1>3 DEF fibonasciiVars, FibonasciiIInv, FibonasciiTypeOK, Tables, FibonasciiIsRight, InUnit
  <1> QED BY <1>1, <1>2, <1>3 DEF FibonasciiNext

-------------------------------------------------------------------------------
(* Factorial. *)

\* What is multiplied yet, with what is left to multiply, comes around to the factorial.
Multiplied ==
  multiplying = "multiply" =>
    /\ version = "recursive" => n \in 0 .. number - 1 /\ product = Product[n] % W
    /\ version \in {"while", "for"} =>
         n \in 1 .. number /\ (product * Product[n - 1]) % W = Product[number] % W
    /\ version = "asm" =>
         IF number = 1 THEN (n = 0 /\ product = 1) \/ product = 0
         ELSE n \in 1 .. number - 1 /\ (product * Product[n]) % W = Product[number] % W

FactorialIInv == FactorialTypeOK /\ Multiplied /\ FactorialIsRight

\* The factorials.
LEMMA Products ==
  /\ W \in Nat /\ W > 1 /\ Largest \in Nat /\ Largest < W
  /\ Product[0] = 1 /\ \A k \in 0 .. Largest : Product[k] \in Nat
  /\ \A k \in 1 .. Largest : Product[k] = k * Product[k - 1]
  BY ProductAssumption

LEMMA FactorialInitially == FactorialInit => FactorialIInv
  <1> SUFFICES ASSUME FactorialInit PROVE FactorialIInv
    OBVIOUS
  <1>1. FactorialTypeOK
    BY Products DEF FactorialInit, FactorialTypeOK, Versions
  <1>2. Multiplied /\ FactorialIsRight
    BY DEF FactorialInit, Multiplied, FactorialIsRight
  <1> QED BY <1>1, <1>2 DEF FactorialIInv

\* Products come around the same whether their terms did.
LEMMA ProductComesAround ==
  ASSUME NEW a \in Nat, NEW b \in Nat, NEW m \in Nat, m > 0
  PROVE  ((a % m) * b) % m = (a * b) % m
  <1>1. PICK q \in Nat, r \in 0 .. m - 1 : a = q * m + r /\ a % m = r
    <2>1. a \div m \in Nat /\ a % m \in 0 .. m - 1 /\ a = (a \div m) * m + (a % m)
      OBVIOUS
    <2> QED BY <2>1
  <1>2. r * b \in Nat /\ q * b \in Nat
    OBVIOUS
  <1>3. PICK k \in Nat, u \in 0 .. m - 1 : r * b = k * m + u /\ (r * b) % m = u
    <2>0. PICK c \in Nat : c = r * b
      BY <1>2
    <2>1. c \div m \in Nat /\ c % m \in 0 .. m - 1 /\ c = (c \div m) * m + (c % m)
      OBVIOUS
    <2> QED BY <2>0, <2>1
  <1>4. a * b = (q * m) * b + r * b
    BY <1>1
  <1>5. (q * m) * b = (q * b) * m
    OBVIOUS
  <1>6. PICK d \in Nat : d = q * b
    BY <1>2
  <1>7. a * b = (d + k) * m + u
    BY <1>3, <1>4, <1>5, <1>6
  <1>8. ((d + k) * m + u) % m = u
    OBVIOUS
  <1> QED BY <1>1, <1>3, <1>7, <1>8

\* One more factor is multiplied by.
LEMMA OneFactorMore ==
  ASSUME NEW p \in Nat, NEW k \in 1 .. Largest
  PROVE  /\ (((p * k) % W) * Product[k - 1]) % W = (p * Product[k]) % W
         /\ (k * (Product[k - 1] % W)) % W = Product[k] % W
  <1>0. W \in Nat /\ W > 0 /\ k \in Nat /\ k - 1 \in 0 .. Largest
    BY Products
  <1>1. PICK c \in Nat : c = Product[k - 1]
    BY <1>0, Products
  <1>2. Product[k] = k * c
    BY <1>1, Products
  <1>3. p * k \in Nat
    BY <1>0
  <1>4. (((p * k) % W) * c) % W = ((p * k) * c) % W
    BY <1>0, <1>3, ProductComesAround
  <1>5. (p * k) * c = p * (k * c)
    BY <1>0
  <1>6. ((c % W) * k) % W = (c * k) % W
    BY <1>0, ProductComesAround
  <1>7. (c % W) * k = k * (c % W) /\ c * k = k * c
    BY <1>0
  <1> QED BY <1>1, <1>2, <1>4, <1>5, <1>6, <1>7

LEMMA ReturnsToStep == FactorialIInv /\ Multiply /\ ReturnsTo => FactorialIInv'
  <1> SUFFICES ASSUME FactorialIInv, Multiply, ReturnsTo PROVE FactorialIInv'
    OBVIOUS
  <1>0. /\ multiplying = "multiply" /\ version = "recursive" /\ version' = version /\ number' = number
        /\ n' = n + 1 /\ product' = ((n + 1) * product) % W
        /\ multiplying' = IF n + 1 = number THEN "done" ELSE "multiply"
    BY DEF Multiply, ReturnsTo
  <1>1. /\ number \in Nat /\ number <= Largest /\ n \in 0 .. number - 1 /\ product = Product[n] % W
    BY <1>0, Products DEF FactorialIInv, FactorialTypeOK, Multiplied
  <1>2. n + 1 \in 1 .. Largest /\ (n + 1) - 1 = n
    BY <1>1, Products
  <1>3. product' = Product[n + 1] % W
    <2>1. ((n + 1) * (Product[(n + 1) - 1] % W)) % W = Product[n + 1] % W
      BY <1>2, OneFactorMore
    <2> QED BY <1>0, <1>1, <1>2, <2>1
  <1>4. product' \in 0 .. W - 1 /\ n + 1 \in 0 .. W - 1
    <2>1. Product[n + 1] \in Nat
      <3>1. n + 1 \in 0 .. Largest
        BY <1>2
      <3> QED BY <3>1, Products
    <2>2. Product[n + 1] % W \in 0 .. W - 1
      <3>1. \A c \in Nat : c % W \in 0 .. W - 1
        BY Products
      <3> QED BY <2>1, <3>1
    <2>3. n + 1 \in 0 .. W - 1
      <3>1. Largest \in Nat /\ W \in Nat /\ Largest < W
        BY Products
      <3> QED BY <1>1, <3>1
    <2> QED BY <1>3, <2>2, <2>3
  <1>5. FactorialTypeOK'
    BY <1>0, <1>4 DEF FactorialIInv, FactorialTypeOK
  <1>6. Multiplied'
    BY <1>0, <1>1, <1>3 DEF Multiplied
  <1>7. FactorialIsRight'
    BY <1>0, <1>3 DEF FactorialIsRight
  <1> QED BY <1>5, <1>6, <1>7 DEF FactorialIInv

LEMMA DownwardsStep == FactorialIInv /\ Multiply /\ Downwards => FactorialIInv'
  <1> SUFFICES ASSUME FactorialIInv, Multiply, Downwards PROVE FactorialIInv'
    OBVIOUS
  <1>0. /\ multiplying = "multiply" /\ version \in {"while", "for"}
        /\ version' = version /\ number' = number
        /\ n' = IF n > 1 THEN n - 1 ELSE n
        /\ product' = IF n > 1 THEN (product * (n - 1)) % W ELSE product
        /\ multiplying' = IF n > 1 THEN "multiply" ELSE "done"
    BY DEF Multiply, Downwards
  <1>1. /\ number \in Nat /\ number <= Largest /\ n \in 1 .. number
        /\ product \in Nat /\ product < W
        /\ (product * Product[n - 1]) % W = Product[number] % W
    <2>1. n \in 1 .. number /\ (product * Product[n - 1]) % W = Product[number] % W
      BY <1>0 DEF FactorialIInv, Multiplied
    <2>2. number \in Nat /\ number <= Largest /\ product \in Nat /\ product < W
      BY Products DEF FactorialIInv, FactorialTypeOK
    <2> QED BY <2>1, <2>2
  <1>2. CASE n > 1
    <2>1. n - 1 \in 1 .. Largest
      BY <1>1, <1>2, Products
    <2>2. (((product * (n - 1)) % W) * Product[(n - 1) - 1]) % W = (product * Product[n - 1]) % W
      BY <1>1, <2>1, OneFactorMore
    <2>3. (product' * Product[n' - 1]) % W = Product[number] % W
      BY <1>0, <1>1, <1>2, <2>2
    <2>4. product' \in 0 .. W - 1 /\ n' \in 0 .. W - 1 /\ n' \in 1 .. number
      <3>1. product * (n - 1) \in Nat
        BY <1>1, <2>1
      <3>2. (product * (n - 1)) % W \in 0 .. W - 1
        BY <3>1, Products
      <3> QED BY <1>0, <1>1, <1>2, <2>1, <3>2, Products
    <2>5. FactorialTypeOK'
      BY <1>0, <2>4 DEF FactorialIInv, FactorialTypeOK
    <2>6. Multiplied'
      BY <1>0, <2>3, <2>4 DEF Multiplied
    <2>7. FactorialIsRight'
      BY <1>0, <1>2 DEF FactorialIsRight
    <2> QED BY <2>5, <2>6, <2>7 DEF FactorialIInv
  <1>3. CASE ~(n > 1)
    <2>1. n = 1 /\ n - 1 = 0
      BY <1>1, <1>3
    <2>2. product = Product[number] % W
      <3>0. W \in Nat /\ W > 0
        BY Products
      <3>1. product * 1 = product /\ product % W = product
        BY <1>1, <3>0
      <3>2. Product[n - 1] = 1
        BY <2>1, Products
      <3>3. (product * Product[n - 1]) % W = product
        BY <3>1, <3>2
      <3> QED BY <1>1, <3>3
    <2>3. FactorialTypeOK'
      BY <1>0, <1>1, <2>1 DEF FactorialIInv, FactorialTypeOK
    <2>4. Multiplied' /\ FactorialIsRight'
      BY <1>0, <1>3, <2>2 DEF Multiplied, FactorialIsRight
    <2> QED BY <2>3, <2>4 DEF FactorialIInv
  <1> QED BY <1>2, <1>3

LEMMA DecrementedStep == FactorialIInv /\ Multiply /\ Decremented => FactorialIInv'
  <1> SUFFICES ASSUME FactorialIInv, Multiply, Decremented PROVE FactorialIInv'
    OBVIOUS
  <1>0. /\ multiplying = "multiply" /\ version = "asm"
        /\ version' = version /\ number' = number
        /\ product' = (product * n) % W
        /\ n' = (n + W - 1) % W
        /\ multiplying' = IF n' = 0 THEN "done" ELSE "multiply"
    BY DEF Multiply, Decremented
  <1>1. /\ number \in Nat /\ number <= Largest /\ n \in Nat /\ n < W /\ product \in Nat /\ product < W
        /\ W \in Nat /\ W > 1
    BY Products DEF FactorialIInv, FactorialTypeOK
  <1>2. product' \in 0 .. W - 1
    <2>1. product * n \in Nat
      BY <1>1
    <2>2. (product * n) % W \in 0 .. W - 1
      BY <1>1, <2>1
    <2> QED BY <1>0, <2>2
  <1>3. n' = IF n = 0 THEN W - 1 ELSE n - 1
    <2>1. CASE n = 0
      <3>1. (W - 1) % W = W - 1
        BY <1>1
      <3>2. n + W - 1 = W - 1
        BY <1>1, <2>1
      <3> QED BY <1>0, <2>1, <3>1, <3>2
    <2>2. CASE n # 0
      <3>1. n - 1 \in 0 .. W - 1
        BY <1>1, <2>2
      <3>2. (1 * W + (n - 1)) % W = n - 1
        BY <1>1, <3>1
      <3>3. n + W - 1 = 1 * W + (n - 1)
        BY <1>1
      <3> QED BY <1>0, <2>2, <3>2, <3>3
    <2> QED BY <2>1, <2>2
  <1>4. n' \in 0 .. W - 1
    BY <1>1, <1>3
  <1>5. FactorialTypeOK'
    BY <1>0, <1>2, <1>4 DEF FactorialIInv, FactorialTypeOK
  <1>6. CASE number = 1
    <2>1. (n = 0 /\ product = 1) \/ product = 0
      BY <1>0, <1>6 DEF FactorialIInv, Multiplied
    <2>2. product * n = 0
      BY <1>1, <2>1
    <2>3. product' = 0
      BY <1>0, <1>1, <2>2
    <2>4. Multiplied' /\ FactorialIsRight'
      BY <1>0, <1>6, <2>3 DEF Multiplied, FactorialIsRight
    <2> QED BY <1>5, <2>4 DEF FactorialIInv
  <1>7. CASE number # 1
    <2>1. n \in 1 .. number - 1 /\ (product * Product[n]) % W = Product[number] % W
      BY <1>0, <1>7 DEF FactorialIInv, Multiplied
    <2>2. n' = n - 1 /\ n \in 1 .. Largest
      BY <1>1, <1>3, <2>1, Products
    <2>3. (((product * n) % W) * Product[n - 1]) % W = (product * Product[n]) % W
      BY <1>1, <2>2, OneFactorMore
    <2>4. (product' * Product[n']) % W = Product[number] % W
      BY <1>0, <2>1, <2>2, <2>3
    <2>5. Multiplied'
      <3>1. n' # 0 => n' \in 1 .. number - 1
        BY <1>1, <2>1, <2>2
      <3> QED BY <1>0, <1>7, <2>4, <3>1 DEF Multiplied
    <2>6. FactorialIsRight'
      <3>1. n' = 0 => product' = Product[number] % W
        <4>0. PICK p \in 0 .. W - 1 : p = product'
          BY <1>2
        <4>0a. p * 1 = p /\ p % W = p
          BY <1>1
        <4>1. product' * 1 = product' /\ product' % W = product'
          BY <4>0, <4>0a
        <4>2. n' = 0 => Product[n'] = 1
          BY Products
        <4>3. n' = 0 => (product' * Product[n']) % W = product'
          BY <4>1, <4>2
        <4> QED BY <2>4, <4>3
      <3> QED BY <1>0, <1>7, <3>1 DEF FactorialIsRight
    <2> QED BY <1>5, <2>5, <2>6 DEF FactorialIInv
  <1> QED BY <1>6, <1>7

LEMMA FactorialStep == FactorialIInv /\ [FactorialNext]_factorialVars => FactorialIInv'
  <1> SUFFICES ASSUME FactorialIInv, [FactorialNext]_factorialVars PROVE FactorialIInv'
    OBVIOUS
  <1>1. ASSUME NEW v \in Versions, NEW k \in 0 .. Largest, factorial(v, k)
        PROVE  FactorialIInv'
    <2>0. /\ version' = v /\ number' = k
          /\ product' = IF v = "recursive" \/ k = 0 THEN 1 ELSE k
          /\ n' = IF v = "recursive" \/ k = 0 THEN 0 ELSE IF v = "asm" THEN k - 1 ELSE k
          /\ multiplying' = IF k = 0 THEN "done" ELSE "multiply"
      BY <1>1 DEF factorial
    <2>1. k \in Nat /\ k < W /\ k <= Largest
      BY Products
    <2>2. FactorialTypeOK'
      <3>1. product' \in 0 .. W - 1 /\ n' \in 0 .. W - 1
        BY <2>0, <2>1, Products
      <3> QED BY <2>0, <3>1 DEF FactorialTypeOK
    <2>3. 1 % W = 1
      BY Products
    <2>4. FactorialIsRight'
      BY <2>0, <2>3, Products DEF FactorialIsRight
    <2>5. Multiplied'
      <3> SUFFICES ASSUME k # 0 PROVE Multiplied'
        BY <2>0 DEF Multiplied
      <3>1. k \in 1 .. Largest /\ k * Product[k - 1] = Product[k]
        BY <2>1, Products
      <3>2. CASE v = "recursive"
        BY <2>0, <2>1, <2>3, <3>2, Products DEF Multiplied
      <3>3. CASE v \in {"while", "for"}
        <4>1. version' = v /\ number' = k /\ n' = k /\ product' = k /\ n' \in 1 .. number'
          BY <2>0, <2>1, <3>3
        <4>2. (product' * Product[n' - 1]) % W = Product[number'] % W
          BY <3>1, <4>1
        <4> QED BY <3>3, <4>1, <4>2 DEF Multiplied
      <3>4. CASE v = "asm"
        <4>1. version' = v /\ number' = k /\ n' = k - 1 /\ product' = k
          BY <2>0, <3>4
        <4>2. CASE k = 1
          BY <3>4, <4>1, <4>2 DEF Multiplied
        <4>3. CASE k # 1
          <5>1. n' \in 1 .. number' - 1
            BY <2>1, <4>1, <4>3
          <5>2. (product' * Product[n']) % W = Product[number'] % W
            BY <3>1, <4>1
          <5> QED BY <3>4, <4>1, <4>3, <5>1, <5>2 DEF Multiplied
        <4> QED BY <4>2, <4>3
      <3> QED BY <3>2, <3>3, <3>4 DEF Versions
    <2> QED BY <2>2, <2>4, <2>5 DEF FactorialIInv
  <1>2. CASE Multiply
    BY <1>2, ReturnsToStep, DownwardsStep, DecrementedStep DEF Multiply
  <1>3. CASE UNCHANGED factorialVars
    BY <1>3 DEF factorialVars, FactorialIInv, FactorialTypeOK, Multiplied, FactorialIsRight
  <1> QED BY <1>1, <1>2, <1>3 DEF FactorialNext

-------------------------------------------------------------------------------
(* FloatDecode. *)

\* What is added yet is what the bits of the mantissa that were looked at stand for, if the
\* number is at least one.
Decoded ==
  /\ decoding = "idle" => floatValue = 0
  /\ decoding = "bits" =>
       LET e == bits.exponent
           m == bits.mantissa
       IN  /\ e # AllOnes /\ ~(e = 0 /\ m = 0)
           /\ mantissa = IF e = 0 THEN m ELSE m + 2 ^ MantBits
           /\ e >= Bias =>
                /\ exponent = e - Bias
                /\ floatValue = (mantissa \div 2 ^ (bit + 1)) * 2 ^ (bit + e)

FloatIInv == FloatTypeOK /\ Decoded /\ FloatIsRight

\* A power of a greater exponent is not less: by the least that would be.
LEMMA PowersGrow ==
  ASSUME NEW a \in 0 .. LastPower, NEW b \in 0 .. LastPower, a <= b
  PROVE  2 ^ a <= 2 ^ b
  <1>0. LastPower \in Nat
    BY FloatAssumption DEF LastPower
  <1>1. PICK p \in [0 .. LastPower + 1 -> Int] : \A k \in 0 .. LastPower : p[k] = 2 ^ k
    <2> DEFINE q == [k \in 0 .. LastPower + 1 |-> IF k \in 0 .. LastPower THEN 2 ^ k ELSE 0]
    <2>1. q \in [0 .. LastPower + 1 -> Int] /\ \A k \in 0 .. LastPower : q[k] = 2 ^ k
      BY <1>0, FloatAssumption
    <2> QED BY <2>1
  <1>2. \A k \in 0 .. LastPower : p[k] \in Nat /\ (k + 1 \in 0 .. LastPower => p[k + 1] = 2 * p[k])
    BY <1>0, <1>1, FloatAssumption
  <1> DEFINE S == {k \in 0 .. LastPower : a <= k /\ p[k] < p[a]}
  <1>s. \A k : k \in S <=> k \in 0 .. LastPower /\ a <= k /\ p[k] < p[a]
    OBVIOUS
  <1>n. S \subseteq Nat
    BY <1>0
  <1> HIDE DEF S
  <1>3. ASSUME S # {} PROVE FALSE
    <2>1. IsWellFoundedOn(OpToRel(<, Nat), Nat)
      BY NatLessThanWellFounded
    <2>2. PICK k \in S : \A d \in S : <<d, k>> \notin OpToRel(<, Nat)
      BY <1>n, <1>3, <2>1, WFMin
    <2>3. \A d \in S : ~(d < k)
      BY <1>n, <2>2 DEF OpToRel
    <2>4. k # a /\ k \in Nat /\ a <= k /\ k \in 0 .. LastPower /\ p[k] < p[a]
      <3>1. k \in 0 .. LastPower /\ a <= k /\ p[k] < p[a]
        BY <1>s, <2>2
      <3>2. p[a] \in Nat
        BY <1>2
      <3> QED BY <1>0, <3>1, <3>2
    <2>5. k - 1 \in 0 .. LastPower /\ a <= k - 1 /\ (k - 1) + 1 = k /\ ~(k - 1 \in S)
      BY <1>0, <2>3, <2>4
    <2>6. p[k - 1] >= p[a] /\ p[k] = 2 * p[k - 1] /\ p[k - 1] \in Nat /\ p[a] \in Nat
      <3>1. p[k - 1] \in Nat /\ p[a] \in Nat /\ ~(p[k - 1] < p[a])
        BY <1>s, <1>2, <2>5
      <3>2. p[(k - 1) + 1] = 2 * p[k - 1]
        BY <1>2, <2>4, <2>5
      <3> QED BY <2>5, <3>1, <3>2
    <2> QED BY <2>4, <2>6
  <1>4. ~(p[b] < p[a])
    BY <1>s, <1>3
  <1> QED BY <1>1, <1>2, <1>4

\* The powers a float is made of.
LEMMA Powers ==
  /\ MantBits \in Nat /\ LastPower \in Nat
  /\ Bias \in Nat /\ Bias >= 3 /\ MantBits <= Bias + 1
  /\ AllOnes = 2 * Bias + 1 /\ 2 ^ ExpBits = 2 * Bias + 2
  /\ LastPower >= 4 * Bias + 4 + MantBits
  /\ \A k \in 0 .. LastPower : 2 ^ k \in Nat /\ 2 ^ k > 0 /\ 2 ^ (k + 1) = 2 * 2 ^ k
  <1>0. /\ ExpBits \in Nat /\ MantBits \in Nat /\ ExpBits > 2 /\ 2 ^ ExpBits \in Nat
        /\ MantBits <= 2 ^ (ExpBits - 1) /\ 2 ^ 0 = 1
    BY FloatAssumption
  <1>1. LastPower \in Nat /\ LastPower >= ExpBits + 2 ^ ExpBits + 2 ^ ExpBits + MantBits
    BY <1>0 DEF LastPower
  <1>2. \A k \in 0 .. LastPower : 2 ^ k \in Nat /\ 2 ^ (k + 1) = 2 * 2 ^ k
    BY FloatAssumption
  <1>3. 0 \in 0 .. LastPower /\ 1 \in 0 .. LastPower /\ 2 \in 0 .. LastPower
        /\ ExpBits - 1 \in 0 .. LastPower
    BY <1>0, <1>1
  <1>4. 2 ^ 1 = 2 /\ 2 ^ 2 = 4
    <2>1. 2 ^ (0 + 1) = 2 * 2 ^ 0 /\ 2 ^ (1 + 1) = 2 * 2 ^ 1
      BY <1>2, <1>3
    <2>2. 0 + 1 = 1 /\ 1 + 1 = 2
      OBVIOUS
    <2>3. 2 ^ 1 = 2
      BY <1>0, <2>1, <2>2
    <2> QED BY <2>1, <2>2, <2>3
  <1>5. 2 ^ (ExpBits - 1) >= 4
    <2>1. 2 ^ 2 <= 2 ^ (ExpBits - 1)
      <3>1. 2 <= ExpBits - 1
        BY <1>0
      <3> QED BY <1>3, <3>1, PowersGrow
    <2>2. 2 ^ (ExpBits - 1) \in Nat
      BY <1>2, <1>3
    <2> QED BY <1>4, <2>1, <2>2
  <1>6. 2 ^ ExpBits = 2 * 2 ^ (ExpBits - 1) /\ 2 ^ (ExpBits - 1) \in Nat
    <2>1. (ExpBits - 1) + 1 = ExpBits
      BY <1>0
    <2>2. 2 ^ ((ExpBits - 1) + 1) = 2 * 2 ^ (ExpBits - 1)
      BY <1>2, <1>3
    <2> QED BY <1>2, <1>3, <2>1, <2>2
  <1>7. \A k \in 0 .. LastPower : 2 ^ k > 0
    <2> SUFFICES ASSUME NEW k \in 0 .. LastPower PROVE 2 ^ k > 0
      OBVIOUS
    <2>1. 2 ^ 0 <= 2 ^ k
      <3>1. 0 <= k
        BY <1>0
      <3> QED BY <1>3, <3>1, PowersGrow
    <2> QED BY <1>0, <1>2, <2>1
  <1>8. Bias = 2 ^ (ExpBits - 1) - 1 /\ AllOnes = 2 ^ ExpBits - 1
    BY DEF Bias, AllOnes
  <1>9. /\ Bias \in Nat /\ Bias >= 3 /\ MantBits <= Bias + 1
        /\ AllOnes = 2 * Bias + 1 /\ 2 ^ ExpBits = 2 * Bias + 2
    BY <1>0, <1>5, <1>6, <1>8
  <1> QED BY <1>0, <1>1, <1>2, <1>7, <1>9

LEMMA FloatInitially == FloatInit => FloatIInv
  <1> SUFFICES ASSUME FloatInit PROVE FloatIInv
    OBVIOUS
  <1>1. /\ bits = [exponent |-> 0, mantissa |-> 0]
        /\ exponent = 0 /\ mantissa = 0 /\ bit = 0 /\ floatValue = 0 /\ decoding = "idle"
    BY DEF FloatInit
  <1>2. 2 ^ MantBits \in Nat /\ 2 ^ MantBits > 0 /\ 2 ^ (MantBits + 1) \in Nat /\ 2 ^ (MantBits + 1) > 0
        /\ AllOnes \in Nat
    <2>1. MantBits \in 0 .. LastPower /\ MantBits + 1 \in 0 .. LastPower
      BY Powers
    <2> QED BY <2>1, Powers
  <1>3. bits \in [exponent : 0 .. AllOnes, mantissa : 0 .. 2 ^ MantBits - 1]
    BY <1>1, <1>2
  <1>4. FloatTypeOK
    BY <1>1, <1>2, <1>3, Powers DEF FloatTypeOK
  <1>5. Decoded /\ FloatIsRight
    BY <1>1 DEF Decoded, FloatIsRight
  <1> QED BY <1>4, <1>5 DEF FloatIInv

\* A number without its last bits has one bit more with one of them more.
LEMMA BitOfNumber ==
  ASSUME NEW M \in Nat, NEW P \in Nat, P > 0
  PROVE  /\ M \div P = 2 * (M \div (2 * P)) + ((M \div P) % 2)
         /\ M \div P \in Nat /\ M \div (2 * P) \in Nat /\ (M \div P) % 2 \in {0, 1}
  <1>1. PICK q \in Nat, r \in 0 .. P - 1 : M = q * P + r /\ M \div P = q
    <2>1. M \div P \in Nat /\ M % P \in 0 .. P - 1 /\ M = (M \div P) * P + (M % P)
      OBVIOUS
    <2> QED BY <2>1
  <1>2. PICK h \in Nat, c \in {0, 1} : q = 2 * h + c /\ q % 2 = c
    <2>1. q \div 2 \in Nat /\ q % 2 \in {0, 1} /\ q = 2 * (q \div 2) + (q % 2)
      OBVIOUS
    <2> QED BY <2>1
  <1>3. M = h * (2 * P) + (c * P + r)
    BY <1>1, <1>2
  <1>4. c * P + r \in 0 .. 2 * P - 1
    BY <1>1, <1>2
  <1>5. PICK D \in Nat : D = 2 * P /\ D > 0
    OBVIOUS
  <1>6. PICK t \in 0 .. D - 1 : t = c * P + r
    BY <1>4, <1>5
  <1>7. M = h * D + t
    BY <1>3, <1>5, <1>6
  <1>8. (h * D + t) \div D = h
    BY <1>5
  <1> QED BY <1>1, <1>2, <1>5, <1>7, <1>8

LEMMA DecodeStep ==
  ASSUME FloatIInv, NEW e \in 0 .. AllOnes, NEW m \in 0 .. 2 ^ MantBits - 1,
         binary_to_float(e, m)
  PROVE  FloatIInv'
  <1>0. /\ decoding = "idle" /\ floatValue' = floatValue /\ floatValue = 0
        /\ bits' = [exponent |-> e, mantissa |-> m]
        /\ bits'.exponent = e /\ bits'.mantissa = m
    BY DEF binary_to_float, FloatIInv, Decoded
  <1>1. /\ Bias \in Nat /\ Bias >= 3 /\ AllOnes = 2 * Bias + 1 /\ 2 ^ ExpBits = 2 * Bias + 2
        /\ MantBits \in Nat
    BY Powers
  <1>2. /\ 2 ^ MantBits \in Nat /\ 2 ^ MantBits > 0 /\ 2 ^ (MantBits + 1) = 2 * 2 ^ MantBits
    <2>1. MantBits \in 0 .. LastPower
      BY Powers
    <2> QED BY <2>1, Powers
  <1>3. e \in Nat /\ m \in Nat /\ e <= AllOnes /\ m < 2 ^ MantBits
    BY <1>1, <1>2
  <1>4. bits' \in [exponent : 0 .. AllOnes, mantissa : 0 .. 2 ^ MantBits - 1]
    BY <1>0
  <1>5. CASE e = AllOnes \/ (e = 0 /\ m = 0)
    <2>1. decoding' = "done" /\ exponent' = exponent /\ mantissa' = mantissa /\ bit' = bit
      BY <1>5 DEF binary_to_float
    <2>2. FloatTypeOK'
      BY <1>0, <1>4, <2>1 DEF FloatIInv, FloatTypeOK
    <2>3. Decoded'
      BY <2>1 DEF Decoded
    <2>4. FloatIsRight'
      <3>1. CASE e = AllOnes
        <4>1. /\ bits'.exponent = AllOnes /\ floatValue' = 0
              /\ AllOnes # 0 /\ ~(AllOnes < AllOnes)
          BY <1>0, <1>1, <3>1
        <4> QED BY <4>1 DEF FloatIsRight
      <3>2. CASE e = 0 /\ m = 0
        <4>1. /\ bits'.exponent = 0 /\ bits'.mantissa = 0 /\ floatValue' = 0
              /\ ~(0 >= Bias)
          BY <1>0, <1>1, <3>2
        <4> QED BY <4>1 DEF FloatIsRight
      <3> QED BY <1>5, <3>1, <3>2
    <2> QED BY <2>2, <2>3, <2>4 DEF FloatIInv
  <1>6. CASE ~(e = AllOnes \/ (e = 0 /\ m = 0))
    <2> DEFINE M == IF e = 0 THEN m ELSE m + 2 ^ MantBits
    <2>1. /\ decoding' = "bits" /\ bit' = MantBits /\ mantissa' = M
          /\ exponent' = Unsigned(IF e = 0 THEN 1 - Bias ELSE e - Bias)
      BY <1>6 DEF binary_to_float
    <2>2. M \in 0 .. 2 ^ (MantBits + 1) - 1
      BY <1>2, <1>3
    <2>3. M \div 2 ^ (MantBits + 1) = 0
      <3> HIDE DEF M
      <3>1. PICK P \in Nat : P = 2 ^ (MantBits + 1) /\ P > 0
        BY <1>2
      <3>2. M \in 0 .. P - 1
        BY <2>2, <3>1
      <3>3. M \div P = 0
        BY <3>1, <3>2
      <3> QED BY <3>1, <3>3
    <2> HIDE DEF M
    <2>4. exponent' \in 0 .. AllOnes /\ (e >= Bias => exponent' = e - Bias)
      <3>1. PICK D \in Nat : D = 2 * Bias + 2 /\ D > 0
        BY <1>1
      <3>2. \A k \in Int : Unsigned(k) = k % D
        BY <1>1, <3>1 DEF Unsigned
      <3>3. \A k \in Int : k % D \in 0 .. D - 1
        BY <3>1
      <3>4. \A k \in 0 .. D - 1 : k % D = k
        BY <3>1
      <3>5. exponent' \in 0 .. D - 1
        <4>1. PICK k \in Int : exponent' = Unsigned(k)
          <5>1. (IF e = 0 THEN 1 - Bias ELSE e - Bias) \in Int
            BY <1>1, <1>3
          <5> QED BY <2>1, <5>1
        <4> QED BY <3>2, <3>3, <4>1
      <3>6. ASSUME e >= Bias PROVE exponent' = e - Bias
        <4>1. e - Bias \in 0 .. D - 1 /\ e # 0
          BY <1>1, <1>3, <3>1, <3>6
        <4> QED BY <2>1, <3>2, <3>4, <4>1
      <3> QED BY <1>1, <3>1, <3>5, <3>6
    <2>6. FloatTypeOK'
      BY <1>0, <1>1, <1>4, <2>1, <2>2, <2>4 DEF FloatIInv, FloatTypeOK
    <2>7. Decoded'
      <3>1. 0 * 2 ^ (MantBits + e) = 0
        <4>1. MantBits + e \in 0 .. LastPower
          BY <1>1, <1>3, Powers
        <4>2. 2 ^ (MantBits + e) \in Nat
          BY <4>1, Powers
        <4> QED BY <4>2
      <3>2. /\ decoding' = "bits" /\ bit' = MantBits /\ floatValue' = 0
            /\ bits'.exponent = e /\ bits'.mantissa = m
            /\ (mantissa' \div 2 ^ (bit' + 1)) * 2 ^ (bit' + e) = 0
        BY <1>0, <2>1, <2>3, <3>1
      <3>3. mantissa' = IF e = 0 THEN m ELSE m + 2 ^ MantBits
        BY <2>1 DEF M
      <3> QED BY <1>6, <2>4, <3>2, <3>3 DEF Decoded
    <2>8. FloatIsRight'
      BY <2>1 DEF FloatIsRight
    <2> QED BY <2>6, <2>7, <2>8 DEF FloatIInv
  <1> QED BY <1>5, <1>6

LEMMA AddBitStep == FloatIInv /\ AddBit => FloatIInv'
  <1> SUFFICES ASSUME FloatIInv, AddBit PROVE FloatIInv'
    OBVIOUS
  <1> DEFINE e == bits.exponent
             m == bits.mantissa
  <1>0. /\ decoding = "bits" /\ bits' = bits /\ exponent' = exponent /\ mantissa' = mantissa
        /\ floatValue' = IF ~IsSet \/ floatValue = Infinity THEN floatValue
                         ELSE IF Power - MantBits + 1 > 2 * Bias THEN Infinity
                         ELSE floatValue + 2 ^ Power
        /\ bit = 0 => decoding' = "done" /\ bit' = bit
        /\ bit # 0 => bit' = bit - 1 /\ decoding' = decoding
    BY DEF AddBit
  <1>1. /\ Bias \in Nat /\ Bias >= 3 /\ AllOnes = 2 * Bias + 1 /\ MantBits \in Nat
        /\ MantBits <= Bias + 1 /\ LastPower \in Nat /\ LastPower >= 4 * Bias + 4 + MantBits
    BY Powers
  <1>2. /\ e \in Nat /\ e <= AllOnes /\ m \in Nat /\ exponent \in Nat /\ exponent <= AllOnes
        /\ bit \in Nat /\ bit <= MantBits /\ floatValue \in Nat \cup {Infinity}
    <2>1. MantBits \in 0 .. LastPower
      BY <1>1
    <2>2. 2 ^ MantBits \in Nat
      BY <2>1, Powers
    <2>3. e \in 0 .. AllOnes /\ m \in 0 .. 2 ^ MantBits - 1
      BY DEF FloatIInv, FloatTypeOK
    <2> QED BY <1>1, <2>2, <2>3 DEF FloatIInv, FloatTypeOK
  <1>3. mantissa \in Nat
    <2>1. MantBits + 1 \in 0 .. LastPower
      BY <1>1
    <2>2. 2 ^ (MantBits + 1) \in Nat
      BY <2>1, Powers
    <2> QED BY <2>2 DEF FloatIInv, FloatTypeOK
  <1>4. /\ e # AllOnes /\ ~(e = 0 /\ m = 0)
        /\ mantissa = IF e = 0 THEN m ELSE m + 2 ^ MantBits
        /\ e >= Bias =>
             /\ exponent = e - Bias
             /\ floatValue = (mantissa \div 2 ^ (bit + 1)) * 2 ^ (bit + e)
    BY <1>0 DEF FloatIInv, Decoded
  <1>5. Power = bit + exponent + Bias - 1 /\ Power \in 0 .. LastPower
    BY <1>1, <1>2 DEF Power
  <1>6. PICK p \in Nat : p = Power
    BY <1>5
  <1>7. PICK V \in Nat : V = 2 ^ Power /\ V > 0
    BY <1>5, Powers
  <1>8. floatValue' \in Nat \cup {Infinity}
    BY <1>0, <1>2, <1>7
  <1>9. PICK P \in Nat : P = 2 ^ bit /\ P > 0 /\ 2 ^ (bit + 1) = 2 * P
    <2>1. bit \in 0 .. LastPower
      BY <1>1, <1>2
    <2> QED BY <2>1, Powers
  <1>10. PICK H \in Nat, c \in {0, 1} :
           /\ H = mantissa \div 2 ^ (bit + 1) /\ mantissa \div P = 2 * H + c
           /\ IsSet <=> c = 1
    <2>1. /\ mantissa \div P = 2 * (mantissa \div (2 * P)) + ((mantissa \div P) % 2)
          /\ mantissa \div P \in Nat /\ mantissa \div (2 * P) \in Nat /\ (mantissa \div P) % 2 \in {0, 1}
      BY <1>3, <1>9, BitOfNumber
    <2>2. IsSet <=> (mantissa \div P) % 2 = 1
      BY <1>9 DEF IsSet
    <2>3. mantissa \div (2 * P) = mantissa \div 2 ^ (bit + 1)
      BY <1>9
    <2> QED BY <2>1, <2>2, <2>3
  <1>11. FloatTypeOK'
    <2>1. bit' \in 0 .. MantBits /\ decoding' \in {"bits", "done"}
      BY <1>0, <1>1, <1>2
    <2> QED BY <1>0, <1>8, <2>1 DEF FloatIInv, FloatTypeOK
  \* After the last bit there is the whole mantissa.
  <1>12. bit = 0 => 2 * H + c = mantissa
    <2>1. bit = 0 => P = 1
      BY <1>9, FloatAssumption
    <2>2. mantissa \div 1 = mantissa
      BY <1>3
    <2> QED BY <1>10, <2>1, <2>2
  \* Before, it is what the next bit takes.
  <1>13. bit # 0 => bit' + 1 = bit /\ 2 ^ (bit' + 1) = P /\ decoding' = "bits"
    <2>1. bit # 0 => bit' + 1 = bit /\ decoding' = "bits"
      BY <1>0, <1>2
    <2> QED BY <1>9, <2>1
  <1>14. CASE e >= Bias
    <2>1. exponent = e - Bias /\ floatValue = H * 2 ^ (bit + e) /\ e < AllOnes /\ e > 0
      <3>1. exponent = e - Bias /\ floatValue = H * 2 ^ (bit + e)
        BY <1>4, <1>10, <1>14
      <3>2. e # AllOnes
        BY <1>4
      <3>3. e < AllOnes /\ e > 0
        BY <1>1, <1>2, <1>14, <3>2
      <3> QED BY <3>1, <3>3
    <2>2. p = bit + (e - 1) /\ ~(Power - MantBits + 1 > 2 * Bias) /\ p + 1 = bit + e
      <3> HIDE DEF e
      <3>1. exponent = e - Bias /\ e < AllOnes
        BY <2>1
      <3>2. Power = bit + (e - 1)
        BY <1>1, <1>2, <1>5, <3>1
      <3>3. ~(Power - MantBits + 1 > 2 * Bias) /\ Power + 1 = bit + e
        BY <1>1, <1>2, <3>1, <3>2
      <3> QED BY <1>6, <3>2, <3>3
    <2>3. 2 ^ (bit + e) = 2 * V
      <3>1. 2 ^ (p + 1) = 2 * 2 ^ p
        BY <1>5, <1>6, Powers
      <3> QED BY <1>6, <1>7, <2>2, <3>1
    <2>4. floatValue = H * (2 * V) /\ floatValue \in Nat
      <3>1. H * (2 * V) \in Nat
        OBVIOUS
      <3> QED BY <2>1, <2>3, <3>1
    <2>5. floatValue' = (2 * H + c) * V
      <3>1. floatValue # Infinity
        BY <2>4 DEF Infinity
      <3>2. (2 * H + c) * V = H * (2 * V) + c * V
        OBVIOUS
      <3>3. CASE c = 1
        <4>1. floatValue' = floatValue + V
          BY <1>0, <1>7, <1>10, <2>2, <3>1, <3>3
        <4> QED BY <2>4, <3>2, <3>3, <4>1
      <3>4. CASE c = 0
        <4>1. floatValue' = floatValue
          BY <1>0, <1>10, <3>4
        <4> QED BY <2>4, <3>2, <3>4, <4>1
      <3> QED BY <3>3, <3>4
    <2>6. CASE bit = 0
      <3>1. decoding' = "done" /\ mantissa = m + 2 ^ MantBits
        BY <1>0, <1>4, <2>1, <2>6
      <3>2. p = e - 1 /\ V = 2 ^ (e - 1)
        BY <1>2, <1>6, <1>7, <2>2, <2>6
      <3>3. m + 2 ^ MantBits = 2 ^ MantBits + m
        <4>1. MantBits \in 0 .. LastPower
          BY <1>1
        <4>2. 2 ^ MantBits \in Nat
          BY <4>1, Powers
        <4> QED BY <1>2, <4>2
      <3>4. floatValue' = (2 ^ MantBits + m) * 2 ^ (e - 1)
        BY <1>12, <2>5, <2>6, <3>1, <3>2, <3>3
      <3>5. FloatIsRight'
        <4>1. /\ bits'.exponent = e /\ bits'.mantissa = m /\ e # AllOnes /\ e # 0 /\ ~(e < Bias)
          BY <1>0, <1>1, <1>2, <1>14, <2>1
        <4> QED BY <1>14, <2>1, <3>4, <4>1 DEF FloatIsRight
      <3> QED BY <1>11, <3>1, <3>5 DEF FloatIInv, Decoded
    <2>7. CASE bit # 0
      <3>1. floatValue' = (mantissa \div 2 ^ (bit' + 1)) * 2 ^ (bit' + e)
        <4>1. bit' + e = p
          BY <1>0, <1>2, <2>2, <2>7
        <4> QED BY <1>6, <1>7, <1>10, <1>13, <2>5, <2>7, <4>1
      <3>2. Decoded'
        <4>1. ~(e = 0) /\ ~(e < Bias)
          BY <1>1, <1>2, <1>14
        <4> QED BY <1>0, <1>4, <1>13, <2>1, <2>7, <3>1, <4>1 DEF Decoded
      <3> QED BY <1>11, <1>13, <2>7, <3>2 DEF FloatIInv, FloatIsRight
    <2> QED BY <2>6, <2>7
  <1>15. CASE ~(e >= Bias)
    <2>1. Decoded'
      <3>1. decoding' # "idle" /\ bits'.exponent = e /\ bits'.mantissa = m
        BY <1>0
      <3> QED BY <1>0, <1>4, <1>15, <3>1 DEF Decoded
    <2>2. FloatIsRight'
      <3>1. bits'.exponent = e /\ bits'.mantissa = m
        BY <1>0
      <3> QED BY <1>4, <1>15, <3>1 DEF FloatIsRight
    <2> QED BY <1>11, <2>1, <2>2 DEF FloatIInv
  <1> QED BY <1>14, <1>15

LEMMA FloatStep == FloatIInv /\ [FloatNext]_floatVars => FloatIInv'
  <1> SUFFICES ASSUME FloatIInv, [FloatNext]_floatVars PROVE FloatIInv'
    OBVIOUS
  <1>1. ASSUME NEW e \in 0 .. AllOnes, NEW m \in 0 .. 2 ^ MantBits - 1, binary_to_float(e, m)
        PROVE  FloatIInv'
    BY <1>1, DecodeStep
  <1>2. CASE AddBit
    BY <1>2, AddBitStep
  <1>3. CASE UNCHANGED floatVars
    <2>1. FloatTypeOK'
      BY <1>3 DEF floatVars, FloatIInv, FloatTypeOK
    <2>2. Decoded'
      BY <1>3 DEF floatVars, FloatIInv, Decoded
    <2>3. FloatIsRight'
      BY <1>3 DEF floatVars, FloatIInv, FloatIsRight
    <2> QED BY <2>1, <2>2, <2>3 DEF FloatIInv
  <1> QED BY <1>1, <1>2, <1>3 DEF FloatNext

-------------------------------------------------------------------------------
(* FunctionRegistry. *)

\* What is kept of the first arguments of a function, as many as count.
Kept(f, count) ==
  LET before == Len(f.signature) - count
  IN  /\ before > 0 /\ f.signature[before] = f.name
      /\ \A m \in 1 .. count :
           /\ f.signature[before + m] = Letter[f.arguments[m]]
           /\ f.argumentTypes[m] = DataType[f.arguments[m]]
      /\ f.argumentCount = count

\* The loop is at the last entry, and a list that is plain is kept as far as it has come.
KeptSoFar ==
  args > 0 =>
    /\ functions # <<>>
    /\ args <= Len(functions[Len(functions)].arguments)
    /\ Plain(functions[Len(functions)].arguments) => Kept(functions[Len(functions)], args - 1)

RegistryIInv == RegistryTypeOK /\ KeptSoFar /\ PlainListsAreKept

LEMMA RegistryInitially == RegistryInit => RegistryIInv
  <1> SUFFICES ASSUME RegistryInit PROVE RegistryIInv
    OBVIOUS
  <1>1. /\ functions = <<>> /\ args = 0 /\ functions \in Seq(Function)
        /\ Len(functions) = 0 /\ DOMAIN functions = {}
    BY EmptySeq DEF RegistryInit
  <1>2. RegistryTypeOK
    BY <1>1 DEF RegistryInit, RegistryTypeOK
  <1>3. KeptSoFar
    BY <1>1 DEF KeptSoFar
  <1>4. PlainListsAreKept
    BY <1>1 DEF PlainListsAreKept
  <1> QED BY <1>2, <1>3, <1>4 DEF RegistryIInv

\* PlainListsAreKept, by Kept.
LEMMA PlainIsKept ==
  PlainListsAreKept <=>
    \A k \in DOMAIN functions :
      (args = 0 \/ k < Len(functions)) /\ Plain(functions[k].arguments)
        => Kept(functions[k], Len(functions[k].arguments))
  BY DEF PlainListsAreKept, Kept, IsThrough

\* A list of arguments has a type in it.
LEMMA TypesOfList ==
  ASSUME NEW list \in Lists
  PROVE  /\ list \in Seq(Known \cup {"void", "other"})
         /\ Len(list) \in Nat \ {0} /\ DOMAIN list = 1 .. Len(list)
  <1>1. list \in Seq(Known \cup {"void", "other"}) /\ list # <<>>
    BY RegistryAssumption
  <1> QED BY <1>1, EmptySeq, LenProperties

LEMMA LettersAndNumbers ==
  ASSUME NEW type \in Known
  PROVE  Letter[type] \in Letters /\ DataType[type] \in Nat
  BY DEF Letters, Letter, Known, DataType

\* The entry of a function is one, and before the loop there is nothing to be kept of it.
LEMMA EntryIsFunction ==
  ASSUME NEW r, NEW name \in Name, NEW list \in Lists
  PROVE  /\ Entry(r, name, list) \in Function
         /\ Entry(r, name, list).arguments = list
         /\ Kept(Entry(r, name, list), 0)
  <1> DEFINE letters == IF r \in Known THEN <<Letter[r]>> ELSE <<>>
             f == Entry(r, name, list)
  <1>1. letters \in Seq(Name \cup Letters) /\ Len(letters) \in Nat
    <2>1. CASE r \in Known
      <3>1. Letter[r] \in Name \cup Letters
        BY <2>1, LettersAndNumbers
      <3> QED BY <2>1, <3>1
    <2>2. CASE r \notin Known
      BY <2>2, EmptySeq
    <2> QED BY <2>1, <2>2
  <1>2. <<name>> \in Seq(Name \cup Letters) /\ Len(<<name>>) = 1 /\ <<name>>[1] = name
    OBVIOUS
  <1> HIDE DEF letters
  <1>3. /\ letters \o <<name>> \in Seq(Name \cup Letters)
        /\ Len(letters \o <<name>>) = Len(letters) + 1
        /\ (letters \o <<name>>)[Len(letters) + 1] = name
    BY <1>1, <1>2, ConcatProperties
  <1>4. r \in Known => DataType[r] \in Nat
    BY LettersAndNumbers
  <1>5. [k \in 0 .. 5 |-> None] \in [0 .. 5 -> Nat]
    BY DEF None
  <1>6. /\ f.name = name /\ f.arguments = list /\ f.signature = letters \o <<name>>
        /\ f.argumentCount = 0
    BY DEF Entry, letters
  <1>7. f \in Function
    BY <1>3, <1>4, <1>5 DEF Entry, Function, None, letters
  <1>8. Kept(f, 0)
    BY <1>1, <1>3, <1>6 DEF Kept
  <1> QED BY <1>6, <1>7, <1>8

LEMMA RegisterStep ==
  ASSUME RegistryIInv, process = "runs",
         NEW r \in Returns, NEW name \in Name, NEW list \in Lists,
         RegisterFunction(r, name, list)
  PROVE  RegistryIInv'
  <1>0. /\ functions \in Seq(Function) /\ Len(functions) \in Nat /\ functionCount = Len(functions)
        /\ DOMAIN functions = 1 .. Len(functions)
        /\ functionSize \in Nat /\ allocated \in Nat
        /\ Chunk \in Nat \ {0} /\ EntrySize \in Nat
        /\ args = 0 /\ functionCount' = functionCount + 1
    BY LenProperties, RegistryAssumption
    DEF RegistryIInv, RegistryTypeOK, RegisterFunction
  <1> DEFINE f == Entry(r, name, list)
  <1>1. f \in Function /\ f.arguments = list /\ Kept(f, 0)
    BY EntryIsFunction
  <1>2. Len(list) \in Nat \ {0}
    BY TypesOfList
  <1> HIDE DEF f
  <1>3. UNCHANGED registers /\ registers \in [1 .. 6 -> Nat]
    BY DEF RegisterFunction, RegistryIInv, RegistryTypeOK
  <1>4. functionSize' \in Nat /\ allocated' \in Nat
    <2>1. Chunk * EntrySize \in Nat /\ functionCount + Chunk \in Nat
      BY <1>0
    <2> QED BY <1>0, <2>1 DEF RegisterFunction, Room
  <1>5. CASE functionCount' * EntrySize <= allocated'
    <2>1. /\ functions' = Append(functions, f) /\ args' = 1 /\ process' \in {"runs", "undefined"}
      BY <1>5 DEF RegisterFunction, f
    <2>2. /\ functions' \in Seq(Function) /\ Len(functions') = Len(functions) + 1
          /\ \A k \in 1 .. Len(functions) : functions'[k] = functions[k]
          /\ functions'[Len(functions) + 1] = f
          /\ DOMAIN functions' = 1 .. Len(functions) + 1
      BY <1>0, <1>1, <2>1, AppendProperties, LenProperties
    <2>3. functions' # <<>>
      BY <1>0, <2>2, EmptySeq
    <2>4. RegistryTypeOK'
      BY <1>0, <1>3, <1>4, <2>1, <2>2 DEF RegistryTypeOK
    <2>5. KeptSoFar'
      <3>1. functions[Len(functions)]' = f
        BY <2>2
      <3>2. Kept(functions[Len(functions)], args - 1)'
        BY <1>1, <2>1, <3>1 DEF Kept
      <3> QED BY <1>1, <1>2, <2>1, <2>3, <3>1, <3>2 DEF KeptSoFar
    <2>6. PlainListsAreKept'
      <3>1. ASSUME NEW k \in DOMAIN functions', args' = 0 \/ k < Len(functions'),
                   Plain(functions'[k].arguments)
            PROVE  Kept(functions'[k], Len(functions'[k].arguments))
        <4>1. k \in 1 .. Len(functions) /\ functions'[k] = functions[k]
          BY <1>0, <2>1, <2>2, <3>1
        <4> QED BY <1>0, <3>1, <4>1, PlainIsKept DEF RegistryIInv
      <3> QED BY <3>1 DEF PlainListsAreKept, Kept, IsThrough
    <2> QED BY <2>4, <2>5, <2>6 DEF RegistryIInv
  <1>6. CASE ~(functionCount' * EntrySize <= allocated')
    <2>1. process' = "undefined" /\ UNCHANGED <<functions, args>>
      BY <1>6 DEF RegisterFunction
    <2>2. RegistryTypeOK'
      BY <1>0, <1>3, <1>4, <2>1 DEF RegistryTypeOK
    <2>3. KeptSoFar'
      BY <1>0, <2>1 DEF KeptSoFar
    <2>4. PlainListsAreKept'
      BY <2>1 DEF RegistryIInv, PlainListsAreKept, IsThrough
    <2> QED BY <2>2, <2>3, <2>4 DEF RegistryIInv
  <1> QED BY <1>5, <1>6

\* A turn of the loop makes a function of a function, and keeps one type more.
LEMMA ParsedFunction ==
  ASSUME NEW f \in Function, NEW type \in Known \cup {"void", "other"}
  PROVE  /\ Parsed(f, type) \in Function
         /\ Parsed(f, type).arguments = f.arguments
  <1> DEFINE index == f.argumentCount + 1
  <1>1. /\ f.name \in Name /\ f.arguments \in Lists /\ f.signature \in Seq(Name \cup Letters)
        /\ f.returnType \in Nat /\ f.argumentTypes \in [0 .. 5 -> Nat] /\ f.argumentCount \in Nat
    BY DEF Function
  <1>2. CASE ~Recognised(f.arguments, type)
    <2>1. Parsed(f, type) = [f EXCEPT !.argumentCount = index]
      BY <1>2 DEF Parsed
    <2> QED BY <1>1, <2>1 DEF Function
  <1>3. CASE Recognised(f.arguments, type)
    <2>1. type \in Known
      BY <1>3 DEF Recognised
    <2>2. Letter[type] \in Letters /\ DataType[type] \in Nat
      BY <2>1, LettersAndNumbers
    <2> DEFINE count == IF index = 6 THEN DataType[type] ELSE index
               types == [k \in 0 .. 5 |-> IF k = index THEN DataType[type] ELSE f.argumentTypes[k]]
               signature == Append(f.signature, Letter[type])
    <2>3. /\ count \in Nat /\ types \in [0 .. 5 -> Nat]
          /\ signature \in Seq(Name \cup Letters)
      <3>1. Letter[type] \in Name \cup Letters
        BY <2>2
      <3>2. signature \in Seq(Name \cup Letters)
        BY <1>1, <3>1, AppendProperties
      <3>3. types \in [0 .. 5 -> Nat]
        <4>1. \A k \in 0 .. 5 : f.argumentTypes[k] \in Nat
          BY <1>1
        <4>2. \A k \in 0 .. 5 :
                (IF k = index THEN DataType[type] ELSE f.argumentTypes[k]) \in Nat
          BY <2>2, <4>1
        <4> QED BY <4>2
      <3> QED BY <1>1, <2>2, <3>2, <3>3
    <2>4. Parsed(f, type) = [f EXCEPT !.argumentCount = count, !.argumentTypes = types,
                                      !.signature = signature]
      BY <1>3 DEF Parsed
    <2> HIDE DEF count, types, signature
    <2> QED BY <1>1, <2>3, <2>4 DEF Function
  <1> QED BY <1>2, <1>3

LEMMA ParsedKeeps ==
  ASSUME NEW f \in Function, NEW c \in 1 .. Len(f.arguments),
         Plain(f.arguments), Kept(f, c - 1)
  PROVE  Kept(Parsed(f, f.arguments[c]), c)
  <1> DEFINE type == f.arguments[c]
             g == Parsed(f, type)
  <1>1. /\ f.arguments \in Lists /\ f.signature \in Seq(Name \cup Letters)
        /\ f.argumentTypes \in [0 .. 5 -> Nat] /\ f.argumentCount = c - 1
        /\ Len(f.signature) \in Nat
    BY LenProperties DEF Function, Kept
  <1>2. /\ f.arguments \in Seq(Known \cup {"void", "other"})
        /\ Len(f.arguments) \in Nat \ {0} /\ DOMAIN f.arguments = 1 .. Len(f.arguments)
    BY <1>1, TypesOfList
  <1>3. /\ Len(f.arguments) < 6 /\ type \in Known
        /\ type = "float" => Len(f.arguments) = 1
    BY <1>2 DEF Plain
  <1>4. f.arguments # <<"void">>
    <2>1. "void" \notin Known
      BY DEF Known, DataType
    <2>2. SUFFICES ASSUME f.arguments = <<"void">> PROVE FALSE
      OBVIOUS
    <2>3. c = 1 /\ type = "void"
      BY <2>2
    <2> QED BY <1>3, <2>1, <2>3
  <1>5. type = "float" => f.arguments = <<"float">>
    <2> SUFFICES ASSUME type = "float" PROVE f.arguments = <<"float">>
      OBVIOUS
    <2>1. Len(f.arguments) = 1 /\ c = 1 /\ f.arguments[1] = "float"
      BY <1>3
    <2>2. <<"float">> \in Seq(Known \cup {"void", "other"})
      BY DEF Known, DataType
    <2>3. Len(<<"float">>) = 1 /\ <<"float">>[1] = "float"
      OBVIOUS
    <2> QED BY <1>2, <2>1, <2>2, <2>3, SeqEqual
  <1>6. Recognised(f.arguments, type)
    BY <1>3, <1>4, <1>5 DEF Recognised
  <1>7. c \in 1 .. 5
    BY <1>2, <1>3
  <1>8. Letter[type] \in Name \cup Letters
    BY <1>3, LettersAndNumbers
  <1> DEFINE signature == Append(f.signature, Letter[type])
             types == [k \in 0 .. 5 |-> IF k = c THEN DataType[type] ELSE f.argumentTypes[k]]
  <1>9. /\ Len(signature) = Len(f.signature) + 1
        /\ \A k \in 1 .. Len(f.signature) : signature[k] = f.signature[k]
        /\ signature[Len(f.signature) + 1] = Letter[type]
    BY <1>1, <1>8, AppendProperties
  <1>10. /\ types[c] = DataType[type]
         /\ \A m \in 1 .. c - 1 : types[m] = f.argumentTypes[m]
    BY <1>7
  <1>11. /\ g.name = f.name /\ g.arguments = f.arguments /\ g.argumentCount = c
         /\ g.signature = signature /\ g.argumentTypes = types
    <2>1. f.argumentCount + 1 = c /\ c # 6
      BY <1>1, <1>7
    <2>2. g = [f EXCEPT !.argumentCount = c, !.argumentTypes = types, !.signature = signature]
      BY <1>6, <2>1 DEF Parsed
    <2> HIDE DEF g, signature, types
    <2> QED BY <2>2 DEF Function
  <1> DEFINE before == Len(f.signature) - (c - 1)
  <1>12. /\ before > 0 /\ f.signature[before] = f.name /\ before \in 1 .. Len(f.signature)
         /\ \A m \in 1 .. c - 1 : /\ f.signature[before + m] = Letter[f.arguments[m]]
                                  /\ f.argumentTypes[m] = DataType[f.arguments[m]]
    <2>1. /\ before > 0 /\ f.signature[before] = f.name
          /\ \A m \in 1 .. c - 1 : /\ f.signature[before + m] = Letter[f.arguments[m]]
                                   /\ f.argumentTypes[m] = DataType[f.arguments[m]]
      BY DEF Kept
    <2>2. before \in 1 .. Len(f.signature)
      <3>1. before > 0
        BY <2>1
      <3>2. Len(f.signature) \in Nat /\ c \in 1 .. 5
        BY <1>1, <1>7
      <3> QED BY <3>1, <3>2
    <2> HIDE DEF before
    <2> QED BY <2>1, <2>2
  <1> HIDE DEF g, signature, types
  <1>13. Len(g.signature) - c = before
    <2>1. g.signature = signature
      BY <1>11
    <2>2. Len(g.signature) = Len(f.signature) + 1
      BY <1>9, <2>1
    <2>3. Len(f.signature) \in Nat /\ c \in 1 .. 5
      BY <1>1, <1>7
    <2> QED BY <2>2, <2>3
  <1>14. g.signature[before] = g.name
    BY <1>9, <1>11, <1>12
  <1>15. ASSUME NEW m \in 1 .. c
         PROVE  /\ g.signature[before + m] = Letter[g.arguments[m]]
                /\ g.argumentTypes[m] = DataType[g.arguments[m]]
    <2>1. CASE m = c
      <3>1. before + c = Len(f.signature) + 1
        BY <1>1, <1>7
      <3> QED BY <1>9, <1>10, <1>11, <2>1, <3>1
    <2>2. CASE m # c
      <3>1. m \in 1 .. c - 1 /\ before + m \in 1 .. Len(f.signature)
        BY <1>1, <1>7, <1>12, <2>2
      <3> QED BY <1>9, <1>10, <1>11, <1>12, <3>1
    <2> QED BY <2>1, <2>2
  <1>16. Kept(g, c)
    <2> HIDE DEF before
    <2> QED BY <1>11, <1>12, <1>13, <1>14, <1>15 DEF Kept
  <1> QED BY <1>16 DEF g

LEMMA ArgumentStep == RegistryIInv /\ process = "runs" /\ Argument => RegistryIInv'
  <1> SUFFICES ASSUME RegistryIInv, process = "runs", Argument PROVE RegistryIInv'
    OBVIOUS
  <1> DEFINE f == functions[functionCount]
  <1>0. /\ functions \in Seq(Function) /\ Len(functions) \in Nat \ {0}
        /\ functionCount = Len(functions) /\ DOMAIN functions = 1 .. Len(functions)
        /\ f \in Function /\ args \in Nat /\ args > 0 /\ args <= Len(f.arguments)
        /\ Plain(f.arguments) => Kept(f, args - 1)
        /\ functions # <<>>
    BY LenProperties, EmptySeq, ElementOfSeq
    DEF RegistryIInv, RegistryTypeOK, KeptSoFar, Argument
  <1>1. f.arguments \in Lists
    BY <1>0 DEF Function
  <1>2. /\ f.arguments \in Seq(Known \cup {"void", "other"})
        /\ Len(f.arguments) \in Nat \ {0}
    BY <1>1, TypesOfList
  <1>3. /\ UNCHANGED <<functionCount, functionSize, allocated, registers>>
        /\ process' \in {"runs", "undefined"}
    BY DEF Argument
  <1> HIDE DEF f
  <1>4. CASE f.argumentCount = 6
    <2>1. args' = 0 /\ UNCHANGED functions
      BY <1>4 DEF Argument, f
    <2>2. RegistryTypeOK'
      BY <1>0, <1>3, <2>1 DEF RegistryIInv, RegistryTypeOK
    <2>3. KeptSoFar'
      BY <2>1 DEF KeptSoFar
    <2>4. ~ Plain(f.arguments)
      <3> SUFFICES ASSUME Plain(f.arguments) PROVE FALSE
        OBVIOUS
      <3>1. f.argumentCount = args - 1 /\ Len(f.arguments) < 6
        BY <1>0 DEF Kept, Plain
      <3> QED BY <1>0, <1>2, <1>4, <3>1
    <2>5. PlainListsAreKept'
      <3>1. ASSUME NEW k \in DOMAIN functions, Plain(functions[k].arguments)
            PROVE  Kept(functions[k], Len(functions[k].arguments))
        <4>1. k # functionCount
          BY <2>4, <3>1 DEF f
        <4>2. k < Len(functions)
          BY <1>0, <4>1
        <4> QED BY <3>1, <4>2, PlainIsKept DEF RegistryIInv
      <3>2. ASSUME NEW k \in DOMAIN functions', Plain(functions'[k].arguments)
            PROVE  Kept(functions'[k], Len(functions'[k].arguments))
        BY <2>1, <3>1, <3>2
      <3> QED BY <3>2 DEF PlainListsAreKept, Kept, IsThrough
    <2> QED BY <2>2, <2>3, <2>5 DEF RegistryIInv
  <1>5. CASE f.argumentCount # 6
    <2> DEFINE g == Parsed(f, f.arguments[args])
    <2>1. /\ functions' = [functions EXCEPT ![functionCount] = g]
          /\ args' = IF args = Len(f.arguments) THEN 0 ELSE args + 1
      BY <1>5 DEF Argument, f
    <2>2. g \in Function /\ g.arguments = f.arguments
      <3>1. f.arguments[args] \in Known \cup {"void", "other"}
        BY <1>0, <1>2, ElementOfSeq
      <3> QED BY <1>0, <3>1, ParsedFunction
    <2>3. Plain(f.arguments) => Kept(g, args)
      <3>1. args \in 1 .. Len(f.arguments)
        BY <1>0, <1>2
      <3> QED BY <1>0, <3>1, ParsedKeeps
    <2> HIDE DEF g
    <2>4. /\ functions' \in Seq(Function) /\ Len(functions') = Len(functions)
          /\ \A k \in 1 .. Len(functions) :
               functions'[k] = IF k = functionCount THEN g ELSE functions[k]
      BY <1>0, <2>1, <2>2, ExceptSeq
    <2>5. /\ functionCount' = functionCount /\ DOMAIN functions' = DOMAIN functions
          /\ functions' # <<>> /\ functions'[functionCount] = g
      <3>1. functionCount' = functionCount /\ functions'[functionCount] = g
        BY <1>0, <1>3, <2>4
      <3>2. DOMAIN functions' = DOMAIN functions
        BY <1>0, <2>4, LenProperties
      <3>3. functions' # <<>>
        BY <1>0, <2>4
      <3> QED BY <3>1, <3>2, <3>3
    <2>6. args' \in Nat
      BY <1>0, <2>1
    <2>7. RegistryTypeOK'
      BY <1>0, <1>3, <2>4, <2>5, <2>6 DEF RegistryIInv, RegistryTypeOK
    <2>8. KeptSoFar'
      <3>1. ASSUME args' > 0
            PROVE  /\ args' <= Len(g.arguments)
                   /\ Plain(g.arguments) => Kept(g, args' - 1)
        <4>1. args # Len(f.arguments) /\ args' = args + 1
          BY <2>1, <3>1
        <4>2. args' <= Len(g.arguments) /\ args' - 1 = args
          BY <1>0, <1>2, <2>2, <4>1
        <4> QED BY <2>2, <2>3, <4>2
      <3>2. args' > 0 =>
              /\ args' <= Len(functions'[Len(functions')].arguments)
              /\ Plain(functions'[Len(functions')].arguments) => Kept(functions'[Len(functions')], args' - 1)
        BY <1>0, <2>4, <2>5, <3>1
      <3> QED BY <2>5, <3>2 DEF KeptSoFar, Kept
    <2>9. PlainListsAreKept'
      <3>1. ASSUME NEW k \in DOMAIN functions', args' = 0 \/ k < Len(functions'),
                   Plain(functions'[k].arguments)
            PROVE  Kept(functions'[k], Len(functions'[k].arguments))
        <4>1. CASE k = functionCount
          <5>1. args' = 0
            BY <1>0, <2>4, <3>1, <4>1
          <5>2. args = Len(f.arguments)
            BY <1>0, <2>1, <5>1
          <5> QED BY <2>2, <2>3, <2>5, <3>1, <4>1, <5>2
        <4>2. CASE k # functionCount
          <5>1. k \in 1 .. Len(functions) /\ k < functionCount /\ functions'[k] = functions[k]
            BY <1>0, <2>4, <2>5, <4>2
          <5> QED BY <1>0, <3>1, <5>1, PlainIsKept DEF RegistryIInv
        <4> QED BY <4>1, <4>2
      <3> QED BY <3>1 DEF PlainListsAreKept, Kept, IsThrough
    <2> QED BY <2>7, <2>8, <2>9 DEF RegistryIInv
  <1> QED BY <1>4, <1>5

\* As many were pushed as are popped only if every argument was, and nothing was counted
\* before.
LEMMA AllPushed ==
  ASSUME NEW length \in Nat, NEW P \in SUBSET (1 .. length), NEW initial \in 0 .. 1,
         Cardinality(P) = initial + length
  PROVE  initial = 0 /\ P = 1 .. length
  <1>1. IsFiniteSet(1 .. length) /\ Cardinality(1 .. length) = length
    BY FS_Interval
  <1>2. /\ Cardinality(P) <= Cardinality(1 .. length)
        /\ Cardinality(1 .. length) = Cardinality(P) => 1 .. length = P
    BY <1>1, FS_Subset
  <1> QED BY <1>1, <1>2

LEMMA NthOfAll ==
  ASSUME NEW length \in Nat, NEW r \in 1 .. length
  PROVE  Nth(1 .. length, r) = r
  <1>1. ASSUME NEW k \in 1 .. length PROVE Cardinality({m \in 1 .. length : m <= k}) = k
    <2>1. {m \in 1 .. length : m <= k} = 1 .. k
      OBVIOUS
    <2>2. Cardinality(1 .. k) = k
      BY FS_Interval
    <2> QED BY <2>1, <2>2
  <1>2. \A k \in 1 .. length : Cardinality({m \in 1 .. length : m <= k}) = r <=> k = r
    BY <1>1
  <1> QED BY <1>2 DEF Nth

\* What is pushed and popped by a call that comes back.
LEMMA CalledRight ==
  ASSUME RegistryIInv, NEW f \in Function, NEW initial \in 0 .. 1, CallInt(f, initial)
  PROVE  \/ registers' = registers /\ process' = "undefined"
         \/ /\ \A m \in DOMAIN f.arguments :
                 m <= 6 => f.arguments[m] = "int" /\ registers'[m] = m
            /\ registers' \in [1 .. 6 -> Nat]
            /\ UNCHANGED process
  <1>1. f.arguments \in Lists
    BY DEF Function
  <1>2. Len(f.arguments) \in Nat /\ DOMAIN f.arguments = 1 .. Len(f.arguments)
    BY <1>1, TypesOfList
  <1>3. CASE Cardinality(Pushed(f)) # Counted(f, initial)
    BY <1>3 DEF CallInt
  <1>4. CASE Cardinality(Pushed(f)) = Counted(f, initial)
    <2>1. initial = 0 /\ Pushed(f) = 1 .. Len(f.arguments)
      <3>1. Pushed(f) \in SUBSET (1 .. Len(f.arguments))
        BY <1>2 DEF Pushed
      <3>2. Cardinality(Pushed(f)) = initial + Len(f.arguments)
        BY <1>4 DEF Counted
      <3> QED BY <1>2, <3>1, <3>2, AllPushed
    <2>2. Counted(f, initial) = Len(f.arguments)
      BY <1>2, <2>1 DEF Counted
    <2>3. /\ registers' = Popped(1 .. Len(f.arguments), Len(f.arguments))
          /\ UNCHANGED process
      BY <1>4, <2>1, <2>2 DEF CallInt
    <2>4. registers' = [r \in 1 .. 6 |->
                          IF r <= Len(f.arguments) THEN Nth(1 .. Len(f.arguments), r) ELSE registers[r]]
      BY <2>3 DEF Popped
    <2>5. \A r \in 1 .. 6 : registers'[r] = IF r <= Len(f.arguments) THEN r ELSE registers[r]
      <3> SUFFICES ASSUME NEW r \in 1 .. 6
                   PROVE  registers'[r] = IF r <= Len(f.arguments) THEN r ELSE registers[r]
        OBVIOUS
      <3>1. CASE r <= Len(f.arguments)
        <4>1. Nth(1 .. Len(f.arguments), r) = r
          BY <1>2, <3>1, NthOfAll
        <4> QED BY <2>4, <3>1, <4>1
      <3>2. CASE ~(r <= Len(f.arguments))
        BY <2>4, <3>2
      <3> QED BY <3>1, <3>2
    <2>6. registers' \in [1 .. 6 -> Nat]
      <3>1. registers \in [1 .. 6 -> Nat]
        BY DEF RegistryIInv, RegistryTypeOK
      <3>2. \A r \in 1 .. 6 : registers'[r] \in Nat
        BY <2>5, <3>1
      <3>3. DOMAIN registers' = 1 .. 6
        BY <2>4
      <3> QED BY <2>4, <3>2, <3>3
    <2>7. \A m \in DOMAIN f.arguments : m <= 6 => f.arguments[m] = "int" /\ registers'[m] = m
      <3>1. \A m \in 1 .. Len(f.arguments) : f.arguments[m] = "int"
        BY <2>1 DEF Pushed
      <3> QED BY <1>2, <2>5, <3>1
    <2> QED BY <2>3, <2>6, <2>7
  <1> QED BY <1>3, <1>4

LEMMA CallStep ==
  ASSUME RegistryIInv, NEW name \in Name, process = "runs", Call(name)
  PROVE  RegistryIInv'
  <1>1. UNCHANGED <<functions, functionCount, functionSize, allocated, args>>
    BY DEF Call
  <1>2. process' \in {"runs", "crashed", "undefined"} /\ registers' \in [1 .. 6 -> Nat]
    <2>0. registers \in [1 .. 6 -> Nat]
      BY DEF RegistryIInv, RegistryTypeOK
    <2>1. CASE process' = "crashed" /\ UNCHANGED registers
      BY <2>0, <2>1
    <2>2. CASE \E k \in DOMAIN functions, initial \in 0 .. 1 : CallInt(functions[k], initial)
      <3>1. PICK k \in DOMAIN functions, initial \in 0 .. 1 : CallInt(functions[k], initial)
        BY <2>2
      <3>2. functions[k] \in Function
        BY ElementOfSeq, LenProperties DEF RegistryIInv, RegistryTypeOK
      <3>3. \/ registers' = registers /\ process' = "undefined"
            \/ registers' \in [1 .. 6 -> Nat] /\ UNCHANGED process
        BY <3>1, <3>2, CalledRight
      <3> QED BY <2>0, <3>3
    <2> QED BY <2>1, <2>2 DEF Call
  <1>3. RegistryTypeOK'
    BY <1>1, <1>2 DEF RegistryIInv, RegistryTypeOK
  <1>4. KeptSoFar'
    BY <1>1 DEF RegistryIInv, KeptSoFar
  <1>5. PlainListsAreKept'
    BY <1>1 DEF RegistryIInv, PlainListsAreKept, IsThrough
  <1> QED BY <1>3, <1>4, <1>5 DEF RegistryIInv

LEMMA RegistryStep == RegistryIInv /\ [RegistryNext]_registryVars => RegistryIInv'
  <1> SUFFICES ASSUME RegistryIInv, [RegistryNext]_registryVars PROVE RegistryIInv'
    OBVIOUS
  <1>1. ASSUME NEW name \in Name, NEW r \in Returns, NEW list \in Lists,
               process = "runs", RegisterFunction(r, name, list)
        PROVE  RegistryIInv'
    BY <1>1, RegisterStep
  <1>2. CASE process = "runs" /\ Argument
    BY <1>2, ArgumentStep
  <1>3. ASSUME NEW name \in Name, process = "runs", Call(name) PROVE RegistryIInv'
    BY <1>3, CallStep
  <1>4. CASE UNCHANGED registryVars
    <2>1. RegistryTypeOK'
      BY <1>4 DEF registryVars, RegistryIInv, RegistryTypeOK
    <2>2. KeptSoFar'
      BY <1>4 DEF registryVars, RegistryIInv, KeptSoFar
    <2>3. PlainListsAreKept'
      BY <1>4 DEF registryVars, RegistryIInv, PlainListsAreKept, IsThrough
    <2> QED BY <2>1, <2>2, <2>3 DEF RegistryIInv
  <1> QED BY <1>1, <1>2, <1>3, <1>4 DEF RegistryNext

\* What a call of a function does if it comes back.
InPlace ==
  \A name \in Name, k \in DOMAIN functions :
    Call(name) /\ GetFunction(name, k) /\ functions[k].returnType = DataType.int /\ process' = "runs" =>
      \A m \in DOMAIN functions[k].arguments :
        m <= 6 => functions[k].arguments[m] = "int" /\ registers'[m] = m

\* GetFunction finds one entry, which is the one that is called.
LEMMA CallInPlace == RegistryIInv => InPlace
  <1> SUFFICES ASSUME RegistryIInv, NEW name \in Name, NEW k \in DOMAIN functions,
                      Call(name), GetFunction(name, k), process' = "runs"
               PROVE  \A m \in DOMAIN functions[k].arguments :
                        m <= 6 => functions[k].arguments[m] = "int" /\ registers'[m] = m
    BY DEF InPlace
  <1>1. DOMAIN functions = 1 .. Len(functions) /\ Len(functions) \in Nat /\ functions[k] \in Function
    BY ElementOfSeq, LenProperties DEF RegistryIInv, RegistryTypeOK
  <1>2. PICK l \in DOMAIN functions, initial \in 0 .. 1 :
          GetFunction(name, l) /\ CallInt(functions[l], initial)
    BY DEF Call
  <1>3. l = k
    <2>1. ~(l < k) /\ ~(k < l)
      BY <1>1, <1>2 DEF GetFunction
    <2> QED BY <1>1, <2>1
  <1>4. \/ registers' = registers /\ process' = "undefined"
        \/ \A m \in DOMAIN functions[k].arguments :
             m <= 6 => functions[k].arguments[m] = "int" /\ registers'[m] = m
    BY <1>1, <1>2, <1>3, CalledRight
  <1> QED BY <1>4

-------------------------------------------------------------------------------

\* Each program has the invariant of its own.
AlgIInv ==
  /\ RegistryIInv /\ QuicksortIInv /\ StrrstrIInv /\ FactorialIInv
  /\ FibonasciiIInv /\ FloatIInv /\ HuffmanIInv /\ CallGraphIInv

LEMMA AlgInitially == AlgInit => AlgIInv
  BY RegistryInitially, QuicksortInitially, StrrstrInitially, FactorialInitially,
     FibonasciiInitially, FloatInitially, HuffmanInitially, CallGraphInitially
  DEF AlgInit, AlgIInv

\* A step is one of every program, or leaves it alone.
LEMMA EachSteps ==
  [AlgNext]_algVars =>
    /\ [RegistryNext]_registryVars
    /\ [QuicksortNext]_quicksortVars
    /\ [StrrstrNext]_strrstrVars
    /\ [FactorialNext]_factorialVars
    /\ [FibonasciiNext]_fibonasciiVars
    /\ [FloatNext]_floatVars
    /\ [HuffmanNext]_huffmanVars
    /\ [CallGraphNext]_callGraphVars
  <1> SUFFICES ASSUME [AlgNext]_algVars
               PROVE  /\ [RegistryNext]_registryVars
                      /\ [QuicksortNext]_quicksortVars
                      /\ [StrrstrNext]_strrstrVars
                      /\ [FactorialNext]_factorialVars
                      /\ [FibonasciiNext]_fibonasciiVars
                      /\ [FloatNext]_floatVars
                      /\ [HuffmanNext]_huffmanVars
                      /\ [CallGraphNext]_callGraphVars
    OBVIOUS
  <1>1. CASE UNCHANGED algVars
    BY <1>1 DEF algVars
  <1>2. CASE Generic
    BY <1>2 DEF Generic
  <1>3. CASE Sorting
    BY <1>3 DEF Sorting
  <1>4. CASE Finding
    BY <1>4 DEF Finding
  <1>5. CASE Multiplying
    BY <1>5 DEF Multiplying
  <1>6. CASE Adding
    BY <1>6 DEF Adding
  <1>7. CASE Decoding
    BY <1>7 DEF Decoding
  <1>8. CASE Writing
    BY <1>8 DEF Writing
  <1>9. CASE Drawing
    BY <1>9 DEF Drawing
  <1> QED BY <1>1, <1>2, <1>3, <1>4, <1>5, <1>6, <1>7, <1>8, <1>9 DEF AlgNext

LEMMA AlgStep == AlgIInv /\ [AlgNext]_algVars => AlgIInv'
  BY EachSteps, RegistryStep, QuicksortStep, StrrstrStep, FactorialStep,
     FibonasciiStep, FloatStep, HuffmanStep, CallGraphStep
  DEF AlgIInv

LEMMA AlgInvariant == AlgSpec => []AlgIInv
  BY AlgInitially, AlgStep, PTL DEF AlgSpec

\* However large the table, the words, the array and the width of the numbers, the state
\* of each program is of its type: indices stay in their arrays, no word is left full
\* (huffman-write.c), and as long as the process runs the table of functions has as many
\* entries as were counted (generic.c, __RegisterFunction).
THEOREM AlgorithmsStayTyped == AlgSpec => []AlgorithmsTyped
  <1>1. AlgIInv => AlgorithmsTyped
    BY DEF AlgIInv, AlgorithmsTyped, RegistryIInv, QuicksortIInv, StrrstrIInv, FactorialIInv,
           FibonasciiIInv, FloatIInv, HuffmanIInv, CallGraphIInv
  <1> QED BY <1>1, AlgInvariant, PTL

\* What quicksort, strrstr, the four factorials, fibonascii, binary_to_float, huffman_write
\* and the call graph answer is right for all data they can be given.
THEOREM AlgorithmsAlwaysAnswerRight == AlgSpec => []AlgorithmsAnswerRight
  <1>1. AlgIInv => AlgorithmsAnswerRight
    BY QuicksortAnswers, StrrstrAnswers
    DEF AlgIInv, AlgorithmsAnswerRight, FactorialIInv, FibonasciiIInv, FloatIInv, HuffmanIInv,
        CallGraphIInv
  <1> QED BY <1>1, AlgInvariant, PTL

\* A function of up to five plain arguments, in a list that fits its copy, is registered as
\* it was given, and a call that comes back has put every argument of the function it named
\* in its register (generic.c, __RegisterFunction, GetFunction, CallInt).
THEOREM FunctionsAreAlwaysCalledRight == AlgSpec => FunctionsAreCalledRight
  <1>1. AlgIInv => PlainListsAreKept
    BY DEF AlgIInv, RegistryIInv
  <1>2. AlgSpec => []PlainListsAreKept
    BY <1>1, AlgInvariant, PTL
  <1>3. AlgIInv => InPlace
    BY CallInPlace DEF AlgIInv
  <1>4. AlgSpec => [][InPlace]_registryVars
    BY <1>3, AlgInvariant, PTL
  <1>5. AlgSpec => ArgumentsInPlace
    BY <1>4 DEF ArgumentsInPlace, InPlace
  <1> QED BY <1>2, <1>5 DEF FunctionsAreCalledRight

===============================================================================
