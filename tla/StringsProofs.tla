---------------------------- MODULE StringsProofs ----------------------------
(* The functions on strings, for arguments of every length and an array of *)
(* every size.                                                             *)
EXTENDS LoaderStrings, Hex, FiniteSetTheorems, SequenceTheorems, WellFoundedInduction, TLAPS

\* Induction, as facts about sets.
LEMMA LeastNatural ==
  ASSUME NEW T, T \subseteq Nat, T # {}
  PROVE  \E x \in T : \A y \in T : x <= y
<1>1. PICK x \in T : \A y \in T : ~(<<y, x>> \in OpToRel(<, Nat))
  BY NatLessThanWellFounded, WFMin
<1>2. \A y \in T : x <= y
  <2> TAKE y \in T
  <2>1. x \in Nat /\ y \in Nat
    OBVIOUS
  <2>2. <<y, x>> \in OpToRel(<, Nat) <=> y < x
    BY DEF OpToRel
  <2>3. ~(y < x)
    BY <1>1, <2>2
  <2> QED
    BY <2>1, <2>3
<1> QED
  BY <1>2

LEMMA Induction ==
  ASSUME NEW T, 0 \in T, \A n \in Nat : n \in T => n + 1 \in T
  PROVE  Nat \subseteq T
<1> SUFFICES ASSUME ~(Nat \subseteq T) PROVE FALSE
  OBVIOUS
<1>1. PICK x \in Nat \ T : \A y \in Nat \ T : x <= y
  BY LeastNatural
<1>2. x - 1 \in Nat /\ x - 1 \in T
  BY <1>1
<1> QED
  BY <1>1, <1>2

LEMMA GreatestBelow ==
  ASSUME NEW n \in Nat, NEW T, T \subseteq 1..n, T # {}
  PROVE  \E x \in T : \A y \in T : x >= y
<1> DEFINE U == {n - y : y \in T}
<1>1. PICK u \in U : \A v \in U : u <= v
  <2>1. \A y \in T : n - y \in Nat
    OBVIOUS
  <2>2. U \subseteq Nat /\ U # {}
    BY <2>1
  <2> HIDE DEF U
  <2> QED
    BY <2>2, LeastNatural
<1>2. PICK x \in T : u = n - x
  OBVIOUS
<1>3. \A y \in T : n - x <= n - y
  BY <1>1, <1>2
<1> QED
  BY <1>3

-----------------------------------------------------------------------------
(* Characters and their positions.  The literals are strings, but that is  *)
(* not among the facts the provers know.                                   *)
Char == STRING \cup {"l", "i", "b", "=", Comma, Underscore}

LEMMA FirstPosition ==
  ASSUME NEW str \in Seq(Char), NEW c
  PROVE  /\ First(c, str) \in 0..Len(str)
         /\ First(c, str) # 0 => str[First(c, str)] = c
         /\ \A k \in 1..Len(str) : k < First(c, str) \/ First(c, str) = 0 => str[k] # c
<1> DEFINE I == {k \in 1..Len(str) : str[k] = c}
<1>1. First(c, str) = IF I # {} THEN Min(I) ELSE 0
  BY DEF First, SelectInSeq
<1>2. Len(str) \in Nat
  OBVIOUS
<1>3. I # {} => Min(I) \in I /\ \A k \in I : Min(I) <= k
  <2>1. I \subseteq Nat
    BY <1>2
  <2> HIDE DEF I
  <2>2. I # {} => \E x \in I : \A y \in I : x <= y
    BY <2>1, LeastNatural
  <2> QED
    BY <2>2 DEF Min
<1>4. CASE I = {}
  <2>1. First(c, str) = 0
    BY <1>1, <1>4
  <2>2. \A k \in 1..Len(str) : str[k] # c
    BY <1>4
  <2> QED
    BY <1>2, <2>1, <2>2
<1>5. CASE I # {}
  <2>1. First(c, str) \in I /\ \A k \in I : First(c, str) <= k
    BY <1>1, <1>3, <1>5
  <2> QED
    BY <1>2, <2>1
<1> QED
  BY <1>4, <1>5

LEMMA LastPosition ==
  ASSUME NEW str \in Seq(Char), NEW c
  PROVE  /\ LastOf(c, str) \in 0..Len(str)
         /\ LastOf(c, str) # 0 => str[LastOf(c, str)] = c
         /\ \A k \in 1..Len(str) : k > LastOf(c, str) => str[k] # c
<1> DEFINE I == {k \in 1..Len(str) : str[k] = c}
<1>1. LastOf(c, str) = IF I # {} THEN Max(I) ELSE 0
  BY DEF LastOf, SelectLastInSeq
<1>2. Len(str) \in Nat
  OBVIOUS
<1>3. I # {} => Max(I) \in I /\ \A k \in I : Max(I) >= k
  <2>1. I \subseteq 1..Len(str)
    OBVIOUS
  <2> HIDE DEF I
  <2>2. I # {} => \E x \in I : \A y \in I : x >= y
    BY <1>2, <2>1, GreatestBelow
  <2> QED
    BY <2>2 DEF Max
<1>4. CASE I = {}
  <2>1. LastOf(c, str) = 0
    BY <1>1, <1>4
  <2>2. \A k \in 1..Len(str) : str[k] # c
    BY <1>4
  <2> QED
    BY <1>2, <2>1, <2>2
<1>5. CASE I # {}
  <2>1. LastOf(c, str) \in I /\ \A k \in I : LastOf(c, str) >= k
    BY <1>1, <1>3, <1>5
  <2> QED
    BY <1>2, <2>1
<1> QED
  BY <1>4, <1>5

\* A part of a string.
LEMMA PartOf ==
  ASSUME NEW str \in Seq(Char), NEW m \in 1..(Len(str) + 1), NEW n \in (m - 1)..Len(str)
  PROVE  /\ SubSeq(str, m, n) \in Seq(Char)
         /\ Len(SubSeq(str, m, n)) = n - m + 1
         /\ \A k \in 1..(n - m + 1) : SubSeq(str, m, n)[k] = str[m + k - 1]
<1>1. Len(str) \in Nat /\ m \in Int /\ n \in Int /\ m <= n + 1
  OBVIOUS
<1>2. \A k \in m..n : str[k] \in Char
  BY <1>1, ElementOfSeq
<1>3. /\ SubSeq(str, m, n) \in Seq(Char)
      /\ Len(SubSeq(str, m, n)) = IF m <= n THEN n - m + 1 ELSE 0
      /\ \A k \in 1..(n - m + 1) : SubSeq(str, m, n)[k] = str[m + k - 1]
  BY <1>1, <1>2, SubSeqProperties
<1> QED
  BY <1>1, <1>3

LEMMA Suffix ==
  ASSUME NEW str \in Seq(Char), NEW m \in 1..(Len(str) + 1)
  PROVE  /\ From(m, str) \in Seq(Char)
         /\ Len(From(m, str)) = Len(str) - m + 1
         /\ \A k \in 1..(Len(str) - m + 1) : From(m, str)[k] = str[m + k - 1]
<1>1. Len(str) \in (m - 1)..Len(str)
  OBVIOUS
<1> QED
  BY <1>1, PartOf DEF From

\* What is before the first c.
LEMMA Before ==
  ASSUME NEW str \in Seq(Char), NEW c
  PROVE  /\ UpTo(c, str) \in Seq(Char)
         /\ Len(UpTo(c, str)) = IF First(c, str) = 0 THEN Len(str) ELSE First(c, str) - 1
         /\ \A k \in 1..Len(UpTo(c, str)) : UpTo(c, str)[k] = str[k] /\ str[k] # c
<1>1. /\ First(c, str) \in 0..Len(str)
      /\ \A k \in 1..Len(str) : k < First(c, str) \/ First(c, str) = 0 => str[k] # c
  BY FirstPosition
<1>2. CASE First(c, str) = 0
  BY <1>1, <1>2 DEF UpTo
<1>3. CASE First(c, str) # 0
  <2> DEFINE n == First(c, str) - 1
  <2>1. 1 \in 1..(Len(str) + 1) /\ n \in (1 - 1)..Len(str) /\ UpTo(c, str) = SubSeq(str, 1, n)
    BY <1>1, <1>3 DEF UpTo
  <2>2. /\ SubSeq(str, 1, n) \in Seq(Char)
        /\ Len(SubSeq(str, 1, n)) = n - 1 + 1
        /\ \A k \in 1..(n - 1 + 1) : SubSeq(str, 1, n)[k] = str[1 + k - 1]
    BY <2>1, PartOf
  <2>3. Len(str) \in Nat /\ First(c, str) \in Int /\ First(c, str) - 1 = n
    BY <1>1
  <2> HIDE DEF n
  <2>4. Len(UpTo(c, str)) = n /\ n \in Nat /\ n <= Len(str)
    BY <1>1, <1>3, <2>1, <2>2, <2>3
  <2>5. \A k \in 1..n : UpTo(c, str)[k] = str[k]
    BY <2>1, <2>2, <2>4
  <2>6. \A k \in 1..n : str[k] # c
    BY <1>1, <2>3, <2>4
  <2> QED
    BY <1>3, <2>1, <2>2, <2>3, <2>4, <2>5, <2>6
<1> QED
  BY <1>2, <1>3
-----------------------------------------------------------------------------
(* The base name.                                                          *)

lib == <<"l", "i", "b">>
Start(name) == LastOf("/", name) + 1
Begin(name) == IF IsPrefix(lib, From(Start(name), name)) THEN Start(name) + 3 ELSE Start(name)
Base(name) == From(Begin(name), name)
Bare(name) == UpTo(".", Base(name))

LEMMA LibPrefix ==
  ASSUME NEW str \in Seq(Char)
  PROVE  IsPrefix(lib, str) <=>
           Len(str) >= 3 /\ str[1] = "l" /\ str[2] = "i" /\ str[3] = "b"
<1>1. lib \in Seq(Char) /\ Len(lib) = 3 /\ lib[1] = "l" /\ lib[2] = "i" /\ lib[3] = "b"
  <2>1. "l" \in Char /\ "i" \in Char /\ "b" \in Char
    BY DEF Char
  <2> QED
    BY <2>1 DEF lib
<1>2. SubSeq(lib, 1, 3) = lib
  BY <1>1, SubSeqFull
<1>3. ASSUME Len(str) >= 3
      PROVE  SubSeq(str, 1, 3) = lib <=> str[1] = "l" /\ str[2] = "i" /\ str[3] = "b"
  <2> DEFINE part == SubSeq(str, 1, 3)
  <2>0. 1 \in 1..(Len(str) + 1) /\ 3 \in (1 - 1)..Len(str)
    BY <1>3
  <2>1. /\ part \in Seq(Char) /\ Len(part) = 3 - 1 + 1
        /\ \A k \in 1..(3 - 1 + 1) : part[k] = str[1 + k - 1]
    BY <2>0, PartOf
  <2> HIDE DEF part
  <2>2. Len(part) = 3 /\ part[1] = str[1] /\ part[2] = str[2] /\ part[3] = str[3]
    BY <2>1
  <2>3. ASSUME str[1] = "l" /\ str[2] = "i" /\ str[3] = "b" PROVE part = lib
    <3>1. \A k \in 1..Len(part) : part[k] = lib[k]
      BY <1>1, <2>2, <2>3
    <3> QED
      BY <1>1, <2>1, <2>2, <3>1, SeqEqual
  <2>4. part = lib => str[1] = "l" /\ str[2] = "i" /\ str[3] = "b"
    BY <1>1, <2>2
  <2> QED
    BY <2>3, <2>4 DEF part
<1>4. IsPrefix(lib, str) <=> 3 <= Len(str) /\ lib = SubSeq(str, 1, 3)
  BY <1>1, <1>2 DEF IsPrefix
<1> QED
  BY <1>3, <1>4

LEMMA BaseName ==
  ASSUME NEW name \in Seq(Char)
  PROVE  /\ Start(name) \in 1..(Len(name) + 1)
         /\ Begin(name) \in 1..(Len(name) + 1)
         /\ Base(name) = WithoutLib(From(LastOf("/", name) + 1, name))
         /\ Base(name) \in Seq(Char)
         /\ Len(Base(name)) = Len(name) - Begin(name) + 1
         /\ \A k \in 1..Len(Base(name)) : Base(name)[k] = name[Begin(name) + k - 1]
<1> DEFINE rest == From(Start(name), name)
<1>1. Start(name) \in 1..(Len(name) + 1) /\ Len(name) \in Nat
  BY LastPosition DEF Start
<1>2. rest \in Seq(Char) /\ Len(rest) = Len(name) - Start(name) + 1
  BY <1>1, Suffix
<1>3. IsPrefix(lib, rest) => Len(rest) >= 3
  BY <1>2, LibPrefix
<1>4. Begin(name) \in 1..(Len(name) + 1)
  BY <1>1, <1>2, <1>3 DEF Begin
<1>5. Base(name) = WithoutLib(rest)
  <2>1. CASE IsPrefix(lib, rest)
    <3>0. 4 \in 1..(Len(rest) + 1)
      BY <1>2, <1>3, <2>1
    <3>1. /\ From(4, rest) \in Seq(Char)
          /\ Len(From(4, rest)) = Len(rest) - 4 + 1
          /\ \A k \in 1..(Len(rest) - 4 + 1) : From(4, rest)[k] = rest[4 + k - 1]
      BY <1>2, <3>0, Suffix
    <3>2. \A k \in 1..Len(rest) : rest[k] = name[Start(name) + k - 1]
      BY <1>1, <1>2, Suffix
    <3>3. /\ Base(name) \in Seq(Char)
          /\ Len(Base(name)) = Len(name) - Begin(name) + 1
          /\ \A k \in 1..(Len(name) - Begin(name) + 1) : Base(name)[k] = name[Begin(name) + k - 1]
      BY <1>4, Suffix DEF Base
    <3>4. Begin(name) = Start(name) + 3
      BY <2>1 DEF Begin
    <3> HIDE DEF rest
    <3>5. Len(Base(name)) = Len(From(4, rest))
      BY <1>1, <1>2, <3>1, <3>3, <3>4
    <3>6. \A k \in 1..Len(Base(name)) : Base(name)[k] = From(4, rest)[k]
      <4> TAKE k \in 1..Len(Base(name))
      <4>1. Base(name)[k] = name[Start(name) + 3 + k - 1]
        BY <3>3, <3>4
      <4>2. From(4, rest)[k] = rest[4 + k - 1] /\ 4 + k - 1 \in 1..Len(rest)
        BY <1>1, <1>2, <3>1, <3>5
      <4>3. Start(name) + (4 + k - 1) - 1 = Start(name) + 3 + k - 1
        BY <1>1
      <4> QED
        BY <3>2, <4>1, <4>2, <4>3
    <3>7. Base(name) = From(4, rest)
      BY <3>1, <3>3, <3>5, <3>6, SeqEqual
    <3> QED
      BY <2>1, <3>7 DEF WithoutLib, lib
  <2>2. CASE ~IsPrefix(lib, rest)
    BY <2>2 DEF WithoutLib, Base, Begin, lib
  <2> QED
    BY <2>1, <2>2
<1> QED
  BY <1>1, <1>4, <1>5, Suffix DEF Base, Start

\* The separator that the header speaks of is the last one.
LEMMA StartIsDocumented ==
  ASSUME NEW name \in Seq(Char), NEW p \in DOMAIN name \cup {Len(name) + 1}
  PROVE  p = Start(name) <=> /\ p = 1 \/ name[p - 1] = "/"
                             /\ \A j \in DOMAIN name : j >= p => name[j] # "/"
<1> DEFINE last == LastOf("/", name)
<1>1. /\ last \in 0..Len(name)
      /\ last # 0 => name[last] = "/"
      /\ \A k \in 1..Len(name) : k > last => name[k] # "/"
  BY LastPosition
<1>2. Len(name) \in Nat /\ DOMAIN name = 1..Len(name) /\ Start(name) = last + 1
  BY DEF Start
<1>3. p \in 1..(Len(name) + 1)
  BY <1>2
<1> HIDE DEF last
<1>4. ASSUME p = last + 1
      PROVE  /\ p = 1 \/ name[p - 1] = "/"
             /\ \A j \in DOMAIN name : j >= p => name[j] # "/"
  BY <1>1, <1>2, <1>4
<1>5. ASSUME p = 1 \/ name[p - 1] = "/",
             \A j \in DOMAIN name : j >= p => name[j] # "/"
      PROVE  p = last + 1
  <2>1. last < p
    BY <1>1, <1>2, <1>3, <1>5
  <2>2. p > 1 => ~(p - 1 > last)
    BY <1>1, <1>2, <1>3, <1>5
  <2> QED
    BY <1>1, <1>3, <2>1, <2>2
<1> QED
  BY <1>2, <1>4, <1>5

LEMMA IntervalSize ==
  ASSUME NEW a \in Nat, NEW n \in Nat
  PROVE  Cardinality(a..(a + n - 1)) = n
<1>1. PICK z \in Int : z = a + n - 1
  OBVIOUS
<1>2. Cardinality(a..z) = IF a > z THEN 0 ELSE z - a + 1
  BY FS_Interval
<1>3. (IF a > z THEN 0 ELSE z - a + 1) = n
  BY <1>1
<1> QED
  BY <1>1, <1>2, <1>3

\* The characters before the first dot.
LEMMA BareName ==
  ASSUME NEW name \in Seq(Char)
  PROVE  /\ Bare(name) \in Seq(Char)
         /\ Len(Bare(name)) <= Len(Base(name))
         /\ \A k \in 1..Len(Bare(name)) : Bare(name)[k] = name[Begin(name) + k - 1]
         /\ Cardinality({j \in DOMAIN name : j >= Begin(name)
                           /\ \A k \in Begin(name)..j : name[k] # "."}) = Len(Bare(name))
<1> DEFINE b == Begin(name)
           base == Base(name)
           n == Len(Bare(name))
           S == {j \in DOMAIN name : j >= b /\ \A k \in b..j : name[k] # "."}
<1>1. /\ b \in 1..(Len(name) + 1) /\ Len(name) \in Nat /\ DOMAIN name = 1..Len(name)
      /\ base \in Seq(Char) /\ Len(base) = Len(name) - b + 1
      /\ \A k \in 1..Len(base) : base[k] = name[b + k - 1]
  BY BaseName
<1>2. /\ Bare(name) \in Seq(Char)
      /\ n = IF First(".", base) = 0 THEN Len(base) ELSE First(".", base) - 1
      /\ \A k \in 1..n : Bare(name)[k] = base[k] /\ base[k] # "."
  BY <1>1, Before DEF Bare
<1>3. /\ First(".", base) \in 0..Len(base)
      /\ First(".", base) # 0 => base[First(".", base)] = "."
  BY <1>1, FirstPosition
<1> HIDE DEF b, base, n
<1>4. n \in Nat /\ n <= Len(base)
  BY <1>1, <1>2, <1>3
<1>5. S = b..(b + n - 1)
  <2>1. ASSUME NEW j \in b..(b + n - 1) PROVE j \in S
    <3>1. j \in DOMAIN name /\ j >= b
      BY <1>1, <1>4
    <3>2. ASSUME NEW k \in b..j PROVE name[k] # "."
      <4>1. k - b + 1 \in 1..n /\ b + (k - b + 1) - 1 = k /\ k - b + 1 \in 1..Len(base)
        BY <1>1, <1>4
      <4>2. base[k - b + 1] = name[k]
        BY <1>1, <4>1
      <4> QED
        BY <1>2, <4>1, <4>2
    <3> QED
      BY <3>1, <3>2
  <2>2. ASSUME NEW j \in S, j \notin b..(b + n - 1) PROVE FALSE
    <3>1. j \in 1..Len(name) /\ j >= b + n
      BY <1>1, <1>4, <2>2
    <3>2. n # Len(base)
      BY <1>1, <1>4, <3>1
    <3>3. First(".", base) = n + 1 /\ n + 1 \in 1..Len(base)
      BY <1>1, <1>2, <1>3, <1>4, <3>2
    <3>4. name[b + (n + 1) - 1] = "."
      <4>1. base[n + 1] = "."
        BY <1>3, <3>3
      <4> QED
        BY <1>1, <3>3, <4>1
    <3>5. b + (n + 1) - 1 \in b..j
      BY <1>1, <1>4, <3>1
    <3> QED
      BY <2>2, <3>4, <3>5
  <2>3. S \subseteq DOMAIN name
    OBVIOUS
  <2> HIDE DEF S
  <2> QED
    BY <2>1, <2>2
<1>6. Cardinality(b..(b + n - 1)) = n
  BY <1>1, <1>4, IntervalSize
<1>7. ASSUME NEW k \in 1..n PROVE Bare(name)[k] = name[b + k - 1]
  <2>1. k \in 1..Len(base)
    BY <1>1, <1>4
  <2> QED
    BY <1>1, <1>2, <2>1
<1>8. Cardinality(S) = n
  BY <1>5, <1>6
<1> QED
  BY <1>2, <1>4, <1>7, <1>8 DEF b, base, n

LEMMA DocumentedNameIsBareName ==
  ASSUME NEW name \in Seq(Char)
  PROVE  DocumentedName(name) = [k \in 1..Len(Bare(name)) |->
           IF Bare(name)[k] = "-" THEN Underscore ELSE Bare(name)[k]]
<1> DEFINE Index == DOMAIN name
           start == CHOOSE p \in Index \cup {Len(name) + 1} :
                      /\ p = 1 \/ name[p - 1] = "/"
                      /\ \A j \in Index : j >= p => name[j] # "/"
           hasLib == /\ start + 2 \in Index
                     /\ <<name[start], name[start + 1], name[start + 2]>> = <<"l", "i", "b">>
           begin == IF hasLib THEN start + 3 ELSE start
           size == Cardinality({j \in Index : j >= begin
                                  /\ \A k \in begin..j : name[k] # "."})
<1>1. Len(name) \in Nat /\ Index = 1..Len(name) /\ Start(name) \in 1..(Len(name) + 1)
  BY BaseName
<1>2. start = Start(name)
  <2>1. Start(name) \in Index \cup {Len(name) + 1}
    BY <1>1
  <2> QED
    BY <2>1, StartIsDocumented
<1> HIDE DEF start
<1>3. hasLib <=> IsPrefix(lib, From(Start(name), name))
  <2> DEFINE rest == From(Start(name), name)
  <2>1. /\ rest \in Seq(Char) /\ Len(rest) = Len(name) - Start(name) + 1
        /\ \A k \in 1..(Len(name) - Start(name) + 1) : rest[k] = name[Start(name) + k - 1]
    BY <1>1, Suffix
  <2>2. IsPrefix(lib, rest) <=>
          Len(rest) >= 3 /\ rest[1] = "l" /\ rest[2] = "i" /\ rest[3] = "b"
    BY <2>1, LibPrefix
  <2> HIDE DEF rest
  <2>3. Len(rest) >= 3 <=> Start(name) + 2 \in Index
    BY <1>1, <2>1
  <2>4. Len(rest) >= 3 => /\ rest[1] = name[Start(name)]
                          /\ rest[2] = name[Start(name) + 1]
                          /\ rest[3] = name[Start(name) + 2]
    BY <1>1, <2>1
  <2>5. hasLib <=> /\ Start(name) + 2 \in Index
                   /\ name[Start(name)] = "l"
                   /\ name[Start(name) + 1] = "i"
                   /\ name[Start(name) + 2] = "b"
    BY <1>2
  <2> QED
    BY <2>2, <2>3, <2>4, <2>5 DEF rest
<1> HIDE DEF hasLib
<1>4. begin = Begin(name)
  BY <1>2, <1>3 DEF Begin
<1> HIDE DEF begin
<1>5. size = Len(Bare(name))
  BY <1>4, BareName
<1> HIDE DEF size
<1>6. \A k \in 1..Len(Bare(name)) : Bare(name)[k] = name[begin + k - 1]
  BY <1>4, BareName
<1>7. DocumentedName(name) = [k \in 1..size |-> IF name[begin + k - 1] = "-" THEN Underscore
                                               ELSE name[begin + k - 1]]
  BY DEF DocumentedName, size, begin, hasLib, start
<1> QED
  BY <1>5, <1>6, <1>7

\* A token, its delimiter and the rest.
LEMMA Split ==
  ASSUME NEW str \in Seq(Char), NEW c \in Char
  PROVE  /\ Token(str, c) \in Seq(Char) /\ Slided(str, c) \in Seq(Char)
         /\ c \notin ToSet(Token(str, c))
         /\ First(c, str) = 0 => Token(str, c) = str /\ Slided(str, c) = <<>>
         /\ First(c, str) # 0 => str = (Token(str, c) \o <<c>>) \o Slided(str, c)
<1> DEFINE f == First(c, str)
<1>1. f \in 0..Len(str) /\ (f # 0 => str[f] = c) /\ Len(str) \in Nat
  BY FirstPosition
<1>2. /\ Token(str, c) \in Seq(Char)
      /\ Len(Token(str, c)) = IF f = 0 THEN Len(str) ELSE f - 1
      /\ \A k \in 1..Len(Token(str, c)) : Token(str, c)[k] = str[k] /\ str[k] # c
  BY Before DEF Token
<1>3. <<>> \in Seq(Char)
  BY EmptySeq
<1>4. Slided(str, c) \in Seq(Char)
  BY <1>1, <1>3, Suffix DEF Slided
<1>5. c \notin ToSet(Token(str, c))
  BY <1>2 DEF ToSet
<1>6. ASSUME f # 0 PROVE str = (Token(str, c) \o <<c>>) \o Slided(str, c)
  <2> DEFINE before == Token(str, c)
             after == Slided(str, c)
             middle == before \o <<c>>
  <2>0. f \in 1..Len(str) /\ f + 1 \in 1..(Len(str) + 1)
    BY <1>1, <1>6
  <2>1. after = From(f + 1, str)
    BY <1>6 DEF Slided
  <2>2. /\ after \in Seq(Char) /\ Len(after) = Len(str) - (f + 1) + 1
        /\ \A k \in 1..(Len(str) - (f + 1) + 1) : after[k] = str[(f + 1) + k - 1]
    BY <2>0, <2>1, Suffix
  <2>3. before \in Seq(Char) /\ Len(before) = f - 1 /\ \A k \in 1..Len(before) : before[k] = str[k]
    BY <1>2, <1>6
  <2>4. <<c>> \in Seq(Char) /\ Len(<<c>>) = 1 /\ <<c>>[1] = c
    OBVIOUS
  <2> HIDE DEF before, after
  <2>5. /\ middle \in Seq(Char) /\ Len(middle) = Len(before) + 1
        /\ \A k \in 1..(Len(before) + Len(<<c>>)) :
             middle[k] = IF k <= Len(before) THEN before[k] ELSE <<c>>[k - Len(before)]
    BY <2>3, <2>4, ConcatProperties
  <2>6. /\ Len(middle) = f
        /\ \A k \in 1..f : middle[k] = str[k]
    <3>1. Len(middle) = f
      BY <1>1, <2>3, <2>5
    <3>2. ASSUME NEW k \in 1..f, k <= Len(before) PROVE middle[k] = str[k]
      BY <1>1, <2>3, <2>4, <2>5, <3>2
    <3>3. f \in 1..(Len(before) + Len(<<c>>)) /\ ~(f <= Len(before)) /\ f - Len(before) = 1
      BY <2>0, <2>3, <2>4
    <3>4. middle[f] = <<c>>[f - Len(before)]
      BY <2>5, <3>3
    <3>5. middle[f] = str[f]
      BY <1>1, <1>6, <2>4, <3>3, <3>4
    <3>6. \A k \in 1..f : k <= Len(before) \/ k = f
      BY <2>0, <2>3
    <3> QED
      BY <3>1, <3>2, <3>5, <3>6
  <2> HIDE DEF middle
  <2>7. /\ middle \o after \in Seq(Char) /\ Len(middle \o after) = Len(middle) + Len(after)
        /\ \A k \in 1..(Len(middle) + Len(after)) :
             (middle \o after)[k] = IF k <= Len(middle) THEN middle[k] ELSE after[k - Len(middle)]
    BY <2>2, <2>5, ConcatProperties
  <2>8. Len(middle \o after) = Len(str)
    BY <1>1, <2>2, <2>6, <2>7
  <2>9. \A k \in 1..Len(middle \o after) : (middle \o after)[k] = str[k]
    <3> TAKE k \in 1..Len(middle \o after)
    <3>1. CASE k <= f
      BY <1>1, <2>6, <2>7, <2>8, <3>1
    <3>2. CASE k > f
      <4>1. k - f \in 1..(Len(str) - (f + 1) + 1) /\ (f + 1) + (k - f) - 1 = k
        BY <1>1, <2>8, <3>2
      <4>2. (middle \o after)[k] = after[k - f]
        BY <1>1, <2>6, <2>7, <3>2
      <4> QED
        BY <2>2, <4>1, <4>2
    <3> QED
      BY <1>1, <3>1, <3>2
  <2>10. middle \o after = str
    BY <2>7, <2>8, <2>9, SeqEqual
  <2> QED
    BY <2>10 DEF middle, before, after
<1>7. f = 0 => Token(str, c) = str /\ Slided(str, c) = <<>>
  BY DEF Token, UpTo, Slided
<1> QED
  BY <1>2, <1>4, <1>5, <1>6, <1>7

\* What the variables are.
LoaderTypes ==
  /\ input \in Seq(Char) /\ text \in Seq(Char) /\ path \in Seq(Char)
  /\ passed \in Seq([name : Seq(Char), value : Seq(Char)])
  /\ position \in Nat \ {0}
  /\ pc \in {"load", "find name", "trim"} => position = 1
  /\ pc = "replace" => position <= Len(text) + 1

LEMMA NextDashInText ==
  ASSUME LoaderTypes, pc = "replace"
  PROVE  /\ NextDash \in Nat
         /\ NextDash # 0 => /\ NextDash \in position..Len(text)
                            /\ text[NextDash] = "-"
                            /\ \A k \in position..(NextDash - 1) : text[k] # "-"
         /\ NextDash = 0 => \A k \in position..Len(text) : text[k] # "-"
<1> DEFINE rest == From(position, text)
           f == First("-", rest)
<1>1. text \in Seq(Char) /\ Len(text) \in Nat /\ position \in 1..(Len(text) + 1)
  BY DEF LoaderTypes
<1>2. /\ rest \in Seq(Char) /\ Len(rest) = Len(text) - position + 1
      /\ \A k \in 1..(Len(text) - position + 1) : rest[k] = text[position + k - 1]
  BY <1>1, Suffix
<1> HIDE DEF rest
<1>3. /\ f \in 0..Len(rest)
      /\ f # 0 => rest[f] = "-"
      /\ \A k \in 1..Len(rest) : k < f \/ f = 0 => rest[k] # "-"
  BY <1>2, FirstPosition
<1>4. NextDash = IF f = 0 THEN 0 ELSE position + f - 1
  BY DEF NextDash, rest
<1> HIDE DEF f
<1>5. ASSUME NEW k \in position..Len(text), k - position + 1 < f \/ f = 0 PROVE text[k] # "-"
  <2>1. k - position + 1 \in 1..Len(rest) /\ position + (k - position + 1) - 1 = k
    BY <1>1, <1>2
  <2>2. rest[k - position + 1] = text[k]
    BY <1>2, <2>1
  <2> QED
    BY <1>3, <1>5, <2>1, <2>2
<1>6. CASE f = 0
  BY <1>4, <1>5, <1>6
<1>7. CASE f # 0
  <2>1. NextDash = position + f - 1 /\ f \in 1..Len(rest)
    BY <1>1, <1>2, <1>3, <1>4, <1>7
  <2>2. NextDash \in position..Len(text)
    BY <1>1, <1>2, <2>1
  <2>3. text[NextDash] = "-"
    BY <1>2, <1>3, <2>1
  <2>4. ASSUME NEW k \in position..(NextDash - 1) PROVE text[k] # "-"
    <3>1. k \in position..Len(text) /\ k - position + 1 < f
      BY <1>1, <1>2, <2>1, <2>2
    <3> QED
      BY <1>5, <3>1
  <2> QED
    BY <1>1, <2>1, <2>2, <2>3, <2>4
<1> QED
  BY <1>6, <1>7

Renamed(n) ==
  /\ Len(text) = Len(Bare(input))
  /\ \A k \in 1..Len(text) :
       text[k] = IF k < n /\ Bare(input)[k] = "-" THEN Underscore ELSE Bare(input)[k]

\* The steps of evmc_load, on a name that fits the buffer.
NameInv ==
  /\ LoaderTypes
  /\ pc = "find name" => text = input
  /\ Len(input) < PATH_MAX_LENGTH =>
       /\ pc = "trim" => text = Base(input)
       /\ pc = "replace" => Renamed(position)
       /\ pc = "search" => Renamed(Len(text) + 1)

LEMMA LoadingTypes ==
  /\ Init => LoaderTypes
  /\ LoaderTypes /\ [Next]_vars => LoaderTypes'
<1>0. <<>> \in Seq(Char) /\ Len(<<>>) = 0
  BY EmptySeq
<1>1. ASSUME Init PROVE LoaderTypes
  <2>1. input \in Seq(STRING)
    BY <1>1, Arguments DEF Init
  <2>2. STRING \subseteq Char
    BY DEF Char
  <2>3. input \in Seq(Char)
    BY <2>1, <2>2, SeqMonotonic
  <2>4. <<>> \in Seq([name : Seq(Char), value : Seq(Char)])
    BY EmptySeq
  <2> QED
    BY <1>0, <1>1, <2>3, <2>4 DEF Init, LoaderTypes
<1>2. ASSUME LoaderTypes, CheckFileName PROVE LoaderTypes'
  <2>1. input' = input /\ position' = position /\ path' = path /\ passed' = passed
    BY <1>2 DEF CheckFileName, Become
  <2>2. text' \in {text, input} /\ pc' \in {"refused", "find name"} /\ position = 1
    BY <1>2 DEF CheckFileName, Become, LoaderTypes
  <2> QED
    BY <1>2, <2>1, <2>2 DEF LoaderTypes
<1>3. ASSUME LoaderTypes, FindName PROVE LoaderTypes'
  <2> DEFINE name == From(LastOf("/", text) + 1, text)
  <2>1. text \in Seq(Char)
    BY <1>3 DEF LoaderTypes
  <2>2. WithoutLib(name) \in Seq(Char)
    BY <2>1, BaseName
  <2>3. strcpy_sx(PATH_MAX_LENGTH, WithoutLib(name)) \in Seq(Char)
    BY <1>0, <2>2 DEF strcpy_sx
  <2>4. /\ text' = strcpy_sx(PATH_MAX_LENGTH, WithoutLib(name)) /\ pc' = "trim"
        /\ input' = input /\ position' = position /\ path' = path /\ passed' = passed
        /\ position = 1
    BY <1>3 DEF FindName, Become, LoaderTypes
  <2> QED
    BY <1>3, <2>3, <2>4 DEF LoaderTypes
<1>4. ASSUME LoaderTypes, TrimExtensions PROVE LoaderTypes'
  <2>1. UpTo(".", text) \in Seq(Char)
    BY <1>4, Before DEF LoaderTypes
  <2>2. /\ text' = UpTo(".", text) /\ pc' = "replace"
        /\ input' = input /\ position' = position /\ path' = path /\ passed' = passed
        /\ position = 1
    BY <1>4 DEF TrimExtensions, Become, LoaderTypes
  <2>3. Len(text') \in Nat
    BY <2>1, <2>2
  <2> QED
    BY <1>4, <2>1, <2>2, <2>3 DEF LoaderTypes
<1>5. ASSUME LoaderTypes, ReplaceDash PROVE LoaderTypes'
  <2>1. NextDash \in position..Len(text) /\ text \in Seq(Char) /\ position \in Nat \ {0}
    BY <1>5, NextDashInText DEF ReplaceDash, LoaderTypes
  <2>2. PICK n \in position..Len(text) : n = NextDash
    BY <2>1
  <2>3. Underscore \in Char /\ Len(text) \in Nat /\ n \in 1..Len(text)
    <3>1. Underscore \in Char
      BY DEF Char
    <3>2. Len(text) \in Nat
      BY <2>1
    <3> QED
      BY <2>1, <2>2, <3>1, <3>2
  <2>4. /\ text' = [text EXCEPT ![n] = Underscore] /\ pc' = "replace"
        /\ input' = input /\ position' = n + 1 /\ path' = path /\ passed' = passed
    BY <1>5, <2>2 DEF ReplaceDash, Become
  <2>5. text' \in Seq(Char) /\ Len(text') = Len(text)
    BY <2>1, <2>3, <2>4, ExceptSeq
  <2>6. position' \in Nat \ {0} /\ position' <= Len(text') + 1
    BY <2>1, <2>3, <2>4, <2>5
  <2> QED
    BY <1>5, <2>4, <2>5, <2>6 DEF LoaderTypes
<1>6. ASSUME LoaderTypes, NoDashLeft \/ NoOptionLeft PROVE LoaderTypes'
  BY <1>6 DEF NoDashLeft, NoOptionLeft, Become, LoaderTypes
<1>7. Comma \in Char /\ "=" \in Char
  BY DEF Char
<1>8. ASSUME LoaderTypes, CopyConfig PROVE LoaderTypes'
  <2>1. Token(input, Comma) \in Seq(Char) /\ Slided(input, Comma) \in Seq(Char)
    BY <1>7, <1>8, Split DEF LoaderTypes
  <2>2. /\ text' \in {text, Slided(input, Comma)} /\ path' \in {path, Token(input, Comma)}
        /\ input' = input /\ position' = position /\ passed' = passed
        /\ pc' \in {"options", "refused"}
    BY <1>8 DEF CopyConfig, Become
  <2> QED
    BY <1>8, <2>1, <2>2 DEF LoaderTypes
<1>9. ASSUME LoaderTypes, PassOption PROVE LoaderTypes'
  <2> DEFINE option == Token(text, Comma)
             o == [name |-> Token(option, "="), value |-> Slided(option, "=")]
  <2>1. option \in Seq(Char) /\ Slided(text, Comma) \in Seq(Char)
    BY <1>7, <1>9, Split DEF LoaderTypes
  <2> HIDE DEF option
  <2>2. Token(option, "=") \in Seq(Char) /\ Slided(option, "=") \in Seq(Char)
    BY <1>7, <2>1, Split
  <2>3. o \in [name : Seq(Char), value : Seq(Char)]
    BY <2>2
  <2>4. /\ text' = Slided(text, Comma) /\ passed' = Append(passed, o)
        /\ input' = input /\ position' = position /\ path' = path /\ pc' = "options"
    BY <1>9 DEF PassOption, Become, option
  <2> HIDE DEF o
  <2>5. passed' \in Seq([name : Seq(Char), value : Seq(Char)])
    BY <1>9, <2>3, <2>4, AppendProperties DEF LoaderTypes
  <2> QED
    BY <1>9, <2>1, <2>4, <2>5 DEF LoaderTypes
<1>10. ASSUME LoaderTypes, UNCHANGED vars PROVE LoaderTypes'
  BY <1>10 DEF vars, LoaderTypes
<1> QED
  BY <1>1, <1>2, <1>3, <1>4, <1>5, <1>6, <1>8, <1>9, <1>10 DEF Next, Step, Done

LEMMA LoadingRenames ==
  /\ Init => NameInv
  /\ NameInv /\ [Next]_vars => NameInv'
<1>1. Init => NameInv
  BY LoadingTypes DEF Init, NameInv
<1>2. NameInv /\ [Next]_vars => LoaderTypes'
  BY LoadingTypes DEF NameInv
<1>3. ASSUME NameInv, LoaderTypes', CheckFileName PROVE NameInv'
  BY <1>3 DEF CheckFileName, Become, NameInv
<1>4. ASSUME NameInv, LoaderTypes', FindName PROVE NameInv'
  <2> DEFINE name == From(LastOf("/", text) + 1, text)
  <2>1. /\ text = input /\ text' = strcpy_sx(PATH_MAX_LENGTH, WithoutLib(name))
        /\ input' = input /\ pc' = "trim" /\ input \in Seq(Char)
    BY <1>4 DEF FindName, Become, NameInv, LoaderTypes
  <2>2. WithoutLib(name) = Base(input)
    BY <2>1, BaseName
  <2>3. ASSUME Len(input) < PATH_MAX_LENGTH PROVE text' = Base(input)
    <3>1. /\ Begin(input) \in 1..(Len(input) + 1)
          /\ Len(Base(input)) = Len(input) - Begin(input) + 1
      BY <2>1, BaseName
    <3>2. Len(input) \in Nat /\ PATH_MAX_LENGTH \in Nat
      BY <2>1, PathLength
    <3>3. Len(Base(input)) < PATH_MAX_LENGTH
      BY <2>3, <3>1, <3>2
    <3> QED
      BY <2>1, <2>2, <3>3 DEF strcpy_sx, Fits
  <2>4. Len(input') < PATH_MAX_LENGTH => text' = Base(input)'
    BY <2>1, <2>3 DEF Base, Begin, Start
  <2> QED
    BY <1>4, <2>1, <2>4 DEF NameInv
<1>5. ASSUME NameInv, LoaderTypes', TrimExtensions PROVE NameInv'
  <2>1. /\ text' = UpTo(".", text) /\ pc = "trim" /\ pc' = "replace"
        /\ input' = input /\ position' = 1
    BY <1>5 DEF TrimExtensions, Become, NameInv, LoaderTypes
  <2>2. ASSUME Len(input) < PATH_MAX_LENGTH PROVE Renamed(position)'
    <3>1. text' = Bare(input')
      BY <1>5, <2>1, <2>2 DEF NameInv, Bare
    <3>2. \A k \in 1..Len(text') : ~(k < position')
      BY <2>1, <1>5 DEF LoaderTypes
    <3> QED
      BY <3>1, <3>2 DEF Renamed
  <2> QED
    BY <1>5, <2>1, <2>2 DEF NameInv
<1>6. ASSUME NameInv, LoaderTypes', ReplaceDash PROVE NameInv'
  <2>1. /\ NextDash \in position..Len(text)
        /\ text[NextDash] = "-"
        /\ \A k \in position..(NextDash - 1) : text[k] # "-"
        /\ text \in Seq(Char) /\ position \in Nat \ {0}
    BY <1>6, NextDashInText DEF ReplaceDash, NameInv, LoaderTypes
  <2>2. PICK n \in position..Len(text) : n = NextDash
    BY <2>1
  <2>3. Underscore \in Char /\ Len(text) \in Nat /\ n \in 1..Len(text)
    <3>1. Underscore \in Char
      BY DEF Char
    <3>2. Len(text) \in Nat
      BY <2>1
    <3> QED
      BY <2>1, <2>2, <3>1, <3>2
  <2>4. /\ text' = [text EXCEPT ![n] = Underscore] /\ pc = "replace" /\ pc' = "replace"
        /\ input' = input /\ position' = n + 1
    BY <1>6, <2>2 DEF ReplaceDash, Become
  <2>5. /\ Len(text') = Len(text)
        /\ \A k \in 1..Len(text) : text'[k] = IF k = n THEN Underscore ELSE text[k]
    BY <2>1, <2>3, <2>4, ExceptSeq
  <2>6. ASSUME Len(input) < PATH_MAX_LENGTH PROVE Renamed(position)'
    <3>1. /\ Len(text) = Len(Bare(input))
          /\ \A k \in 1..Len(text) : text[k] = IF k < position /\ Bare(input)[k] = "-"
                                               THEN Underscore ELSE Bare(input)[k]
      BY <1>6, <2>4, <2>6 DEF NameInv, Renamed
    <3>2. ASSUME NEW k \in 1..Len(text)
          PROVE  text'[k] = IF k < n + 1 /\ Bare(input)[k] = "-" THEN Underscore
                            ELSE Bare(input)[k]
      <4>1. CASE k < position
        BY <2>1, <2>2, <2>3, <2>5, <3>1, <4>1
      <4>2. CASE k >= position /\ k < n
        BY <2>1, <2>2, <2>3, <2>5, <3>1, <4>2
      <4>3. CASE k = n
        BY <2>1, <2>2, <2>3, <2>5, <3>1, <4>3
      <4>4. CASE k > n
        BY <2>1, <2>2, <2>3, <2>5, <3>1, <4>4
      <4> QED
        BY <2>1, <2>3, <4>1, <4>2, <4>3, <4>4
    <3>3. Bare(input)' = Bare(input)
      BY <2>4 DEF Bare, Base, Begin, Start
    <3> QED
      BY <2>4, <2>5, <3>1, <3>2, <3>3 DEF Renamed
  <2> QED
    BY <1>6, <2>4, <2>6 DEF NameInv
<1>7. ASSUME NameInv, LoaderTypes', NoDashLeft PROVE NameInv'
  <2>1. /\ pc = "replace" /\ pc' = "search" /\ text' = text /\ input' = input /\ NextDash = 0
        /\ position \in Nat \ {0} /\ text \in Seq(Char)
    BY <1>7 DEF NoDashLeft, Become, NameInv, LoaderTypes
  <2>2. \A k \in position..Len(text) : text[k] # "-"
    BY <1>7, <2>1, NextDashInText DEF NameInv
  <2>3. ASSUME Len(input) < PATH_MAX_LENGTH PROVE Renamed(Len(text) + 1)'
    <3>1. /\ Len(text) = Len(Bare(input))
          /\ \A k \in 1..Len(text) : text[k] = IF k < position /\ Bare(input)[k] = "-"
                                               THEN Underscore ELSE Bare(input)[k]
      BY <1>7, <2>1, <2>3 DEF NameInv, Renamed
    <3>2. Len(text) \in Nat
      BY <2>1
    <3>3. \A k \in 1..Len(text) : k < Len(text) + 1 /\ (~(k < position) => text[k] # "-")
      BY <2>1, <2>2, <3>2
    <3>4. Bare(input)' = Bare(input)
      BY <2>1 DEF Bare, Base, Begin, Start
    <3> QED
      BY <2>1, <3>1, <3>3, <3>4 DEF Renamed
  <2> QED
    BY <1>7, <2>1, <2>3 DEF NameInv
<1>8. ASSUME NameInv, LoaderTypes', CopyConfig \/ PassOption \/ NoOptionLeft PROVE NameInv'
  BY <1>8 DEF CopyConfig, PassOption, NoOptionLeft, Become, NameInv
<1>9. ASSUME NameInv, LoaderTypes', UNCHANGED vars PROVE NameInv'
  <2>1. input' = input /\ pc' = pc /\ text' = text /\ position' = position
    BY <1>9 DEF vars
  <2>2. Bare(input)' = Bare(input) /\ Base(input)' = Base(input)
    BY <2>1 DEF Bare, Base, Begin, Start
  <2> QED
    BY <1>9, <2>1, <2>2 DEF NameInv, Renamed
<1> QED
  BY <1>1, <1>2, <1>3, <1>4, <1>5, <1>6, <1>7, <1>8, <1>9 DEF Next, Step, Done

(* evmc_load searches for the create function whose name loader.h          *)
(* describes, for every file name shorter than the limit.                  *)
THEOREM Names == Spec => []NameAsDocumented
<1>1. NameInv => NameAsDocumented
  <2> SUFFICES ASSUME NameInv, pc = "search", Len(input) < PATH_MAX_LENGTH
               PROVE  text = DocumentedName(input)
    BY DEF NameAsDocumented
  <2>1. /\ input \in Seq(Char) /\ text \in Seq(Char) /\ Renamed(Len(text) + 1)
    BY DEF NameInv, LoaderTypes
  <2>2. Len(text) \in Nat /\ text = [k \in 1..Len(text) |-> text[k]]
    BY <2>1
  <2>3. /\ Len(text) = Len(Bare(input))
        /\ \A k \in 1..Len(text) : text[k] = IF Bare(input)[k] = "-" THEN Underscore
                                             ELSE Bare(input)[k]
    BY <2>1, <2>2 DEF Renamed
  <2>4. DocumentedName(input) = [k \in 1..Len(Bare(input)) |->
          IF Bare(input)[k] = "-" THEN Underscore ELSE Bare(input)[k]]
    BY <2>1, DocumentedNameIsBareName
  <2> QED
    BY <2>2, <2>3, <2>4
<1> QED
  BY <1>1, LoadingRenames, PTL DEF Spec
-----------------------------------------------------------------------------
(* The configuration.                                                      *)

LEMMA PartsOfString ==
  ASSUME NEW str \in Seq(Char), NEW c \in Char
  PROVE  ToSet(Token(str, c)) \cup ToSet(Slided(str, c)) \subseteq ToSet(str)
<1> DEFINE f == First(c, str)
<1>1. f \in 0..Len(str) /\ Len(str) \in Nat /\ DOMAIN str = 1..Len(str)
  BY FirstPosition
<1>2. ToSet(Token(str, c)) \subseteq ToSet(str)
  <2>1. /\ Token(str, c) \in Seq(Char)
        /\ Len(Token(str, c)) = IF f = 0 THEN Len(str) ELSE f - 1
        /\ \A k \in 1..Len(Token(str, c)) : Token(str, c)[k] = str[k]
    BY Before DEF Token
  <2>2. DOMAIN Token(str, c) = 1..Len(Token(str, c)) /\ 1..Len(Token(str, c)) \subseteq 1..Len(str)
    BY <1>1, <2>1
  <2> QED
    BY <1>1, <2>1, <2>2 DEF ToSet
<1>3. ToSet(Slided(str, c)) \subseteq ToSet(str)
  <2>1. CASE f = 0
    <3>1. Slided(str, c) = <<>>
      BY <2>1 DEF Slided
    <3>2. ToSet(Slided(str, c)) = {}
      BY <3>1 DEF ToSet
    <3> QED
      BY <3>2
  <2>2. CASE f # 0
    <3>0. f + 1 \in 1..(Len(str) + 1) /\ Slided(str, c) = From(f + 1, str)
      BY <1>1, <2>2 DEF Slided
    <3>1. /\ Slided(str, c) \in Seq(Char) /\ Len(Slided(str, c)) = Len(str) - (f + 1) + 1
          /\ \A k \in 1..(Len(str) - (f + 1) + 1) : Slided(str, c)[k] = str[(f + 1) + k - 1]
      BY <3>0, Suffix
    <3>2. DOMAIN Slided(str, c) = 1..(Len(str) - (f + 1) + 1)
      BY <3>1
    <3>3. \A k \in 1..(Len(str) - (f + 1) + 1) : (f + 1) + k - 1 \in 1..Len(str)
      BY <1>1, <2>2
    <3> QED
      BY <1>1, <3>1, <3>2, <3>3 DEF ToSet
  <2> QED
    BY <2>1, <2>2
<1> QED
  BY <1>2, <1>3

\* The strings that a file and the first n options may be written as.
WithFirst(f, file, options, n) ==
  f = [k \in 0..n |-> IF k = 0 THEN {file} ELSE Joined(f[k - 1], options[k])]

LEMMA ConfigurationsExist ==
  ASSUME NEW file, NEW options, NEW n \in Nat
  PROVE  \E f : WithFirst(f, file, options, n)
<1> DEFINE T == {m \in Nat : \E f : WithFirst(f, file, options, m)}
<1>1. 0 \in T
  <2> DEFINE f == [k \in 0..0 |-> {file}]
  <2>1. \A k \in 0..0 : k = 0
    OBVIOUS
  <2>2. WithFirst(f, file, options, 0)
    BY <2>1 DEF WithFirst
  <2> HIDE DEF f
  <2> QED
    BY <2>2
<1>2. ASSUME NEW m \in Nat, m \in T PROVE m + 1 \in T
  <2>1. PICK f : WithFirst(f, file, options, m)
    BY <1>2
  <2> DEFINE g == [k \in 0..(m + 1) |-> IF k = m + 1 THEN Joined(f[m], options[m + 1]) ELSE f[k]]
             h == [k \in 0..(m + 1) |-> IF k = 0 THEN {file} ELSE Joined(g[k - 1], options[k])]
  <2>2. ASSUME NEW k \in 0..(m + 1) PROVE g[k] = h[k]
    <3>1. CASE k = m + 1
      <4>1. m + 1 - 1 = m /\ m \in 0..(m + 1) /\ m # m + 1 /\ m + 1 # 0
        OBVIOUS
      <4> QED
        BY <3>1, <4>1
    <3>2. CASE k # m + 1
      <4>1. k \in 0..m /\ (k # 0 => k - 1 \in 0..(m + 1) /\ k - 1 # m + 1)
        BY <3>2
      <4>2. f[k] = IF k = 0 THEN {file} ELSE Joined(f[k - 1], options[k])
        BY <2>1, <4>1 DEF WithFirst
      <4> QED
        BY <3>2, <4>1, <4>2
    <3> QED
      BY <3>1, <3>2
  <2>3. g = h
    BY <2>2
  <2>4. WithFirst(g, file, options, m + 1)
    BY <2>3 DEF WithFirst
  <2> HIDE DEF g, h
  <2> QED
    BY <2>4
<1> HIDE DEF T
<1>3. n \in T
  BY <1>1, <1>2, Induction
<1> QED
  BY <1>3 DEF T

LEMMA ConfigurationsByOption ==
  ASSUME NEW file, NEW S, NEW options \in Seq(S), NEW o \in S
  PROVE  /\ Configurations(file, <<>>) = {file}
         /\ Configurations(file, Append(options, o)) = Joined(Configurations(file, options), o)
<1> DEFINE more == Append(options, o)
           n == Len(options)
<1>1. ASSUME NEW os, NEW m \in Nat, Len(os) = m
      PROVE  \E f : WithFirst(f, file, os, m) /\ Configurations(file, os) = f[m]
  <2> DEFINE f == CHOOSE f : WithFirst(f, file, os, m)
  <2>1. WithFirst(f, file, os, m)
    BY ConfigurationsExist
  <2>2. Configurations(file, os) = f[m]
    BY <1>1 DEF Configurations, WithFirst
  <2> HIDE DEF f
  <2> QED
    BY <2>1, <2>2
<1>2. Configurations(file, <<>>) = {file}
  <2>1. PICK f : WithFirst(f, file, <<>>, 0) /\ Configurations(file, <<>>) = f[0]
    BY <1>1, EmptySeq
  <2> QED
    BY <2>1 DEF WithFirst
<1>3. /\ n \in Nat /\ Len(more) = n + 1
      /\ \A k \in 1..n : more[k] = options[k]
      /\ more[n + 1] = o
  BY AppendProperties
<1> HIDE DEF more, n
<1>4. PICK f : WithFirst(f, file, more, n + 1) /\ Configurations(file, more) = f[n + 1]
  BY <1>1, <1>3
<1>5. PICK g : WithFirst(g, file, options, n) /\ Configurations(file, options) = g[n]
  BY <1>1, <1>3 DEF n
<1>6. \A k \in 0..(n + 1) : f[k] = IF k = 0 THEN {file} ELSE Joined(f[k - 1], more[k])
  BY <1>4 DEF WithFirst
<1>7. \A k \in 0..n : g[k] = IF k = 0 THEN {file} ELSE Joined(g[k - 1], options[k])
  BY <1>5 DEF WithFirst
<1>8. f[n] = g[n]
  <2> DEFINE T == {k \in Nat : k <= n => f[k] = g[k]}
  <2>1. 0 \in T
    <3>1. 0 \in 0..n /\ 0 \in 0..(n + 1)
      BY <1>3
    <3>2. f[0] = {file} /\ g[0] = {file}
      BY <1>6, <1>7, <3>1
    <3> QED
      BY <3>2
  <2>2. ASSUME NEW k \in Nat, k \in T PROVE k + 1 \in T
    <3>1. CASE k + 1 <= n
      <4>1. k + 1 \in 0..n /\ k + 1 \in 0..(n + 1) /\ k + 1 # 0 /\ (k + 1) - 1 = k /\ k + 1 \in 1..n
        BY <1>3, <3>1
      <4>2. f[k] = g[k]
        BY <1>3, <2>2, <3>1
      <4>3. f[k + 1] = Joined(f[k], more[k + 1]) /\ g[k + 1] = Joined(g[k], options[k + 1])
        BY <1>6, <1>7, <4>1
      <4> QED
        BY <1>3, <4>1, <4>2, <4>3
    <3>2. CASE ~(k + 1 <= n)
      BY <3>2
    <3> QED
      BY <3>1, <3>2
  <2>3. n \in T
    <3> HIDE DEF T
    <3> QED
      BY <1>3, <2>1, <2>2, Induction
  <2> QED
    BY <1>3, <2>3
<1>9. f[n + 1] = Joined(f[n], o)
  <2>1. n + 1 \in 0..(n + 1) /\ n + 1 # 0 /\ (n + 1) - 1 = n
    BY <1>3
  <2> QED
    BY <1>3, <1>6, <2>1
<1> QED
  BY <1>2, <1>4, <1>5, <1>8, <1>9 DEF more

Option == [name : Seq(Char), value : Seq(Char)]

NoDelimiters(options) ==
  \A k \in DOMAIN options :
    /\ "=" \notin ToSet(options[k].name)
    /\ Comma \notin ToSet(options[k].name) \cup ToSet(options[k].value)

\* The configuration is what was read of it, and what is left.
WrittenAs(w) ==
  IF text = <<>> THEN input \in {w, w \o <<Comma>>}
  ELSE input = (w \o <<Comma>>) \o text

ConfigInv ==
  /\ LoaderTypes
  /\ pc = "configure" => passed = <<>>
  /\ pc = "configured" => text = <<>>
  /\ pc \in {"options", "configured"} =>
       /\ Comma \notin ToSet(path)
       /\ NoDelimiters(passed)
       /\ \E w \in Seq(Char) : w \in Configurations(path, passed) /\ WrittenAs(w)

LEMMA JoinedHas ==
  ASSUME NEW prefixes, NEW o, NEW p \in prefixes, NEW spelling \in Spellings(o)
  PROVE  (p \o <<Comma>>) \o spelling \in Joined(prefixes, o)
BY DEF Joined

\* One option more, with a comma before it and perhaps another after it.
LEMMA OptionIsWritten ==
  ASSUME NEW str \in Seq(Char), str # <<>>, NEW w \in Seq(Char),
         NEW whole, whole = (w \o <<Comma>>) \o str
  PROVE  LET option == Token(str, Comma)
             o == [name |-> Token(option, "="), value |-> Slided(option, "=")]
             longer == (w \o <<Comma>>) \o option
             rest == Slided(str, Comma)
         IN  /\ longer \in Seq(Char) /\ option \in Spellings(o)
             /\ o \in Option /\ NoDelimiters(<<o>>)
             /\ IF rest = <<>> THEN whole \in {longer, longer \o <<Comma>>}
                ELSE whole = (longer \o <<Comma>>) \o rest
<1> DEFINE option == Token(str, Comma)
           o == [name |-> Token(option, "="), value |-> Slided(option, "=")]
           longer == (w \o <<Comma>>) \o option
           rest == Slided(str, Comma)
<1>0. Comma \in Char /\ "=" \in Char
  BY DEF Char
<1>1. /\ option \in Seq(Char) /\ rest \in Seq(Char)
      /\ Comma \notin ToSet(option)
      /\ First(Comma, str) = 0 => option = str /\ rest = <<>>
      /\ First(Comma, str) # 0 => str = (option \o <<Comma>>) \o rest
  BY <1>0, Split
<1> HIDE DEF option, rest
<1>2. /\ Token(option, "=") \in Seq(Char) /\ Slided(option, "=") \in Seq(Char)
      /\ "=" \notin ToSet(Token(option, "="))
      /\ First("=", option) = 0 => Token(option, "=") = option /\ Slided(option, "=") = <<>>
      /\ First("=", option) # 0 => option = (Token(option, "=") \o <<"=">>) \o Slided(option, "=")
  BY <1>0, <1>1, Split
<1>3. ToSet(Token(option, "=")) \cup ToSet(Slided(option, "=")) \subseteq ToSet(option)
  BY <1>0, <1>1, PartsOfString
<1>4. o.name = Token(option, "=") /\ o.value = Slided(option, "=") /\ o \in Option
  BY <1>2 DEF Option
<1> HIDE DEF o
<1>5. option \in Spellings(o)
  BY <1>2, <1>4 DEF Spellings
<1>6. NoDelimiters(<<o>>)
  <2>1. DOMAIN <<o>> = {1} /\ <<o>>[1] = o
    OBVIOUS
  <2> QED
    BY <1>1, <1>2, <1>3, <1>4, <2>1 DEF NoDelimiters
<1>7. <<Comma>> \in Seq(Char)
  BY <1>0
<1>8. w \o <<Comma>> \in Seq(Char)
  BY <1>7, ConcatProperties
<1>9. longer \in Seq(Char)
  BY <1>1, <1>8, ConcatProperties
<1>10. CASE First(Comma, str) = 0
  BY <1>1, <1>4, <1>5, <1>6, <1>9, <1>10 DEF option, o, rest
<1>11. CASE First(Comma, str) # 0
  <2>1. option \o <<Comma>> \in Seq(Char)
    BY <1>1, <1>7, ConcatProperties
  <2>2. PICK p \in Seq(Char), comma \in Seq(Char) : p = w \o <<Comma>> /\ comma = <<Comma>>
    BY <1>7, <1>8
  <2>3. /\ whole = p \o ((option \o comma) \o rest)
        /\ longer = p \o option
        /\ option \o comma \in Seq(Char)
    BY <1>1, <1>11, <2>1, <2>2
  <2>4. whole = (longer \o <<Comma>>) \o rest
    <3>1. p \in Seq(Char)
      BY <2>2
    <3>2. comma \in Seq(Char)
      BY <2>2
    <3>3. option \in Seq(Char)
      BY <1>1
    <3>4. rest \in Seq(Char)
      BY <1>1
    <3>5. p \o ((option \o comma) \o rest) = ((p \o option) \o comma) \o rest
      <4>1. option \o comma \in Seq(Char)
        BY ONLY <3>2, <3>3, ConcatProperties
      <4>2. PICK delimited \in Seq(Char) : delimited = option \o comma
        BY <4>1
      <4>3. delimited \in Seq(Char)
        BY <4>2
      <4>4. (p \o delimited) \o rest = p \o (delimited \o rest)
        BY ONLY <3>1, <3>4, <4>3, ConcatAssociative, SMTT(30)
      <4>5. (p \o option) \o comma = p \o (option \o comma)
        BY ONLY <3>1, <3>2, <3>3, ConcatAssociative, SMTT(30)
      <4> QED
        BY ONLY <4>2, <4>4, <4>5
    <3> QED
      BY <2>2, <2>3, <3>5
  <2>5. longer \o <<Comma>> \in Seq(Char)
    BY <1>7, <1>9, ConcatProperties
  <2>6. rest = <<>> => whole = longer \o <<Comma>>
    BY <2>4, <2>5, ConcatEmptySeq
  <2> QED
    BY <1>4, <1>5, <1>6, <1>9, <2>4, <2>6 DEF option, o, rest
<1> QED
  BY <1>10, <1>11

LEMMA ConfiguringIsParsing ==
  /\ Init => ConfigInv
  /\ ConfigInv /\ [Next]_vars => ConfigInv'
<1>0. Comma \in Char /\ <<Comma>> \in Seq(Char) /\ <<>> \in Seq(Char)
  <2>1. Comma \in Char
    BY DEF Char
  <2> QED
    BY <2>1, EmptySeq
<1>1. Init => ConfigInv
  BY LoadingTypes DEF Init, ConfigInv
<1>2. ConfigInv /\ [Next]_vars => LoaderTypes'
  BY LoadingTypes DEF ConfigInv
<1>3. ASSUME ConfigInv, LoaderTypes', CopyConfig PROVE ConfigInv'
  <2>1. CASE ~Fits(PATH_MAX_LENGTH, input)
    BY <1>3, <2>1 DEF CopyConfig, Become, ConfigInv
  <2>2. CASE Fits(PATH_MAX_LENGTH, input)
    <3>1. /\ input' = input /\ passed' = <<>> /\ pc' = "options" /\ input \in Seq(Char)
          /\ path' = Token(input, Comma) /\ text' = Slided(input, Comma)
      BY <1>3, <2>2 DEF CopyConfig, Become, ConfigInv, LoaderTypes
    <3>2. /\ path' \in Seq(Char) /\ text' \in Seq(Char)
          /\ Comma \notin ToSet(path')
          /\ First(Comma, input) = 0 => path' = input /\ text' = <<>>
          /\ First(Comma, input) # 0 => input = (path' \o <<Comma>>) \o text'
      BY <1>0, <3>1, Split
    <3>3. Configurations(path', passed') = {path'}
      BY <1>0, <3>1, ConfigurationsByOption
    <3>4. NoDelimiters(passed')
      BY <3>1 DEF NoDelimiters
    <3>5. path' \o <<Comma>> \in Seq(Char)
      BY <1>0, <3>2, ConcatProperties
    <3>6. WrittenAs(path)'
      BY <3>1, <3>2, <3>5, ConcatEmptySeq DEF WrittenAs
    <3>7. path' \in Configurations(path', passed') /\ Comma \notin ToSet(path')
      BY <3>2, <3>3
    <3> QED
      BY <1>3, <3>1, <3>2, <3>4, <3>6, <3>7 DEF ConfigInv
  <2> QED
    BY <2>1, <2>2
<1>4. ASSUME ConfigInv, LoaderTypes', PassOption PROVE ConfigInv'
  <2> DEFINE option == Token(text, Comma)
             o == [name |-> Token(option, "="), value |-> Slided(option, "=")]
  <2>1. /\ pc = "options" /\ text # <<>> /\ passed' = Append(passed, o)
        /\ text' = Slided(text, Comma) /\ pc' = "options" /\ input' = input /\ path' = path
    BY <1>4 DEF PassOption, Become
  <2>2. PICK w \in Seq(Char) : w \in Configurations(path, passed) /\ input = (w \o <<Comma>>) \o text
    BY <1>4, <2>1 DEF ConfigInv, WrittenAs
  <2>3. text \in Seq(Char) /\ passed \in Seq(Option) /\ Comma \notin ToSet(path) /\ NoDelimiters(passed)
    BY <1>4, <2>1 DEF ConfigInv, LoaderTypes, Option
  <2> DEFINE longer == (w \o <<Comma>>) \o option
  <2>4. /\ longer \in Seq(Char) /\ option \in Spellings(o)
        /\ o \in Option /\ NoDelimiters(<<o>>)
        /\ IF text' = <<>> THEN input \in {longer, longer \o <<Comma>>}
           ELSE input = (longer \o <<Comma>>) \o text'
    BY <2>1, <2>2, <2>3, OptionIsWritten
  <2> HIDE DEF option, o
  <2>5. longer \in Configurations(path', passed')
    <3>1. Configurations(path, Append(passed, o)) = Joined(Configurations(path, passed), o)
      BY <2>3, <2>4, ConfigurationsByOption
    <3>2. longer \in Joined(Configurations(path, passed), o)
      BY <2>2, <2>4, JoinedHas
    <3> QED
      BY <2>1, <3>1, <3>2
  <2>6. NoDelimiters(passed')
    <3>1. /\ Len(passed') = Len(passed) + 1 /\ Len(passed) \in Nat
          /\ \A k \in 1..Len(passed) : passed'[k] = passed[k]
          /\ passed'[Len(passed) + 1] = o
          /\ passed' \in Seq(Option)
      BY <2>1, <2>3, <2>4, AppendProperties
    <3>2. DOMAIN passed' = 1..(Len(passed) + 1) /\ DOMAIN passed = 1..Len(passed)
      BY <2>3, <3>1
    <3>3. ASSUME NEW k \in 1..(Len(passed) + 1)
          PROVE  /\ "=" \notin ToSet(passed'[k].name)
                 /\ Comma \notin ToSet(passed'[k].name) \cup ToSet(passed'[k].value)
      <4>1. CASE k \in 1..Len(passed)
        BY <2>3, <3>1, <3>2, <4>1 DEF NoDelimiters
      <4>2. CASE k = Len(passed) + 1
        <5>1. DOMAIN <<o>> = {1} /\ <<o>>[1] = o
          OBVIOUS
        <5> QED
          BY <2>4, <3>1, <4>2, <5>1 DEF NoDelimiters
      <4> QED
        BY <3>1, <4>1, <4>2
    <3> QED
      BY <3>2, <3>3 DEF NoDelimiters
  <2> HIDE DEF longer
  <2>7. PICK l \in Seq(Char) : l = longer
    BY <2>4
  <2>8. WrittenAs(l)'
    BY <2>1, <2>4, <2>7 DEF WrittenAs
  <2>9. \E v \in Seq(Char) : v \in Configurations(path', passed') /\ WrittenAs(v)'
    BY <2>5, <2>7, <2>8
  <2>10. Comma \notin ToSet(path')
    BY <2>1, <2>3
  <2> QED
    BY <1>4, <2>1, <2>6, <2>9, <2>10 DEF ConfigInv
<1>5. ASSUME ConfigInv, LoaderTypes', NoOptionLeft PROVE ConfigInv'
  <2>1. /\ pc = "options" /\ pc' = "configured" /\ text = <<>> /\ text' = text
        /\ input' = input /\ path' = path /\ passed' = passed
    BY <1>5 DEF NoOptionLeft, Become
  <2>2. PICK w \in Seq(Char) : w \in Configurations(path, passed) /\ WrittenAs(w)
    BY <1>5, <2>1 DEF ConfigInv
  <2>3. WrittenAs(w)' /\ Configurations(path, passed)' = Configurations(path, passed)
    BY <2>1, <2>2 DEF WrittenAs
  <2> QED
    BY <1>5, <2>1, <2>2, <2>3 DEF ConfigInv
<1>6. ASSUME ConfigInv, LoaderTypes',
             CheckFileName \/ FindName \/ TrimExtensions \/ ReplaceDash \/ NoDashLeft
      PROVE  ConfigInv'
  BY <1>6 DEF CheckFileName, FindName, TrimExtensions, ReplaceDash, NoDashLeft, Become, ConfigInv
<1>7. ASSUME ConfigInv, LoaderTypes', UNCHANGED vars PROVE ConfigInv'
  <2>1. /\ pc' = pc /\ text' = text /\ input' = input /\ path' = path /\ passed' = passed
    BY <1>7 DEF vars
  <2>2. \A w \in Seq(Char) : WrittenAs(w)' <=> WrittenAs(w)
    BY <2>1 DEF WrittenAs
  <2> QED
    BY <1>7, <2>1, <2>2 DEF ConfigInv
<1> QED
  BY <1>1, <1>2, <1>3, <1>4, <1>5, <1>6, <1>7 DEF Next, Step, Done

(* evmc_load_and_configure takes a configuration apart as the grammar of   *)
(* loader.h says, however long it is and however many options it has.      *)
THEOREM Configuring == Spec => []ConfigAsDocumented
<1>1. ConfigInv => ConfigAsDocumented
  <2> SUFFICES ASSUME ConfigInv, pc = "configured" PROVE ConfigAsDocumented
    BY DEF ConfigAsDocumented
  <2>1. /\ text = <<>> /\ Comma \notin ToSet(path) /\ NoDelimiters(passed)
    BY DEF ConfigInv
  <2>2. PICK w \in Seq(Char) : w \in Configurations(path, passed) /\ WrittenAs(w)
    BY DEF ConfigInv
  <2>3. input \in {w, w \o <<Comma>>}
    BY <2>1, <2>2 DEF WrittenAs
  <2>4. input \in Configurations(path, passed)
          \cup {str \o <<Comma>> : str \in Configurations(path, passed)}
    BY <2>2, <2>3
  <2> QED
    BY <2>1, <2>4 DEF ConfigAsDocumented, NoDelimiters
<1> QED
  BY <1>1, ConfiguringIsParsing, PTL DEF Spec
-----------------------------------------------------------------------------
(* How far a call has to go: the statements before and after its loop, and *)
(* the characters that the loop has still to look at.                      *)
StatementsAt(label) ==
  CASE label = "load" -> 4
    [] label = "find name" -> 3
    [] label \in {"trim", "configure"} -> 2
    [] label \in {"replace", "options"} -> 1
    [] label \in {"refused", "search", "configured"} -> 0

StatementsLeft == StatementsAt(pc)
CharactersLeft == IF pc = "replace" THEN Len(text) + 1 - position ELSE Len(text)

Nearer ==
  \/ StatementsLeft' < StatementsLeft
  \/ StatementsLeft' = StatementsLeft /\ CharactersLeft' < CharactersLeft

Working == {"load", "find name", "trim", "replace", "configure", "options"}
Ended == {"refused", "search", "configured"}
PhaseInv == pc \in Working \cup Ended

LEMMA SlidedIsShorter ==
  ASSUME NEW str \in Seq(Char), str # <<>>
  PROVE  Len(Slided(str, Comma)) \in Nat /\ Len(Slided(str, Comma)) < Len(str)
<1>1. First(Comma, str) \in 0..Len(str) /\ Len(str) \in Nat \ {0}
  BY FirstPosition, EmptySeq
<1>2. CASE First(Comma, str) = 0
  BY <1>1, <1>2, EmptySeq DEF Slided
<1>3. CASE First(Comma, str) # 0
  <2> DEFINE f == First(Comma, str)
  <2>1. f + 1 \in 1..(Len(str) + 1) /\ Slided(str, Comma) = From(f + 1, str)
    BY <1>1, <1>3 DEF Slided
  <2>2. Len(Slided(str, Comma)) = Len(str) - (f + 1) + 1
    BY <2>1, Suffix
  <2> QED
    BY <1>1, <1>3, <2>2
<1> QED
  BY <1>2, <1>3

LEMMA StatementsInOrder ==
  /\ StatementsAt("load") = 4
  /\ StatementsAt("find name") = 3
  /\ StatementsAt("trim") = 2 /\ StatementsAt("configure") = 2
  /\ StatementsAt("replace") = 1 /\ StatementsAt("options") = 1
  /\ \A l \in Ended : StatementsAt(l) = 0
BY Zenon DEF StatementsAt, Ended

LEMMA StepNearer ==
  ASSUME LoaderTypes, Step
  PROVE  Nearer
<1>1. CASE CheckFileName
  <2>1. pc = "load" /\ pc' \in {"refused", "find name"}
    BY <1>1 DEF CheckFileName, Become
  <2>2. StatementsLeft = 4 /\ StatementsLeft' \in {0, 3}
    BY <2>1, StatementsInOrder, Zenon DEF Ended, StatementsLeft
  <2> QED
    BY ONLY <2>2 DEF Nearer
<1>2. CASE FindName
  <2>1. StatementsLeft = 3 /\ StatementsLeft' = 2
    BY <1>2, StatementsInOrder, Zenon DEF Ended, FindName, Become, StatementsLeft
  <2> QED
    BY ONLY <2>1 DEF Nearer
<1>3. CASE TrimExtensions
  <2>1. StatementsLeft = 2 /\ StatementsLeft' = 1
    BY <1>3, StatementsInOrder, Zenon DEF Ended, TrimExtensions, Become, StatementsLeft
  <2> QED
    BY ONLY <2>1 DEF Nearer
<1>4. CASE ReplaceDash
  <2>1. /\ pc = "replace" /\ pc' = "replace" /\ position' = NextDash + 1
        /\ NextDash \in position..Len(text)
        /\ text' = [text EXCEPT ![NextDash] = Underscore]
    BY <1>4, NextDashInText DEF ReplaceDash, Become
  <2>2. PICK n \in position..Len(text) : n = NextDash
    BY <2>1
  <2>3. Len(text') = Len(text) /\ Len(text) \in Nat /\ position \in Nat
    BY <2>1 DEF LoaderTypes
  <2>4. Len(text') + 1 - position' < Len(text) + 1 - position
    BY <2>1, <2>2, <2>3
  <2> QED
    BY <2>1, <2>4 DEF Nearer, StatementsLeft, CharactersLeft
<1>5. CASE NoDashLeft
  <2>1. StatementsLeft = 1 /\ StatementsLeft' = 0
    BY <1>5, StatementsInOrder, Zenon DEF Ended, NoDashLeft, Become, StatementsLeft
  <2> QED
    BY ONLY <2>1 DEF Nearer
<1>6. CASE CopyConfig
  <2>1. pc = "configure" /\ pc' \in {"refused", "options"}
    BY <1>6 DEF CopyConfig, Become
  <2>2. StatementsLeft = 2 /\ StatementsLeft' \in {0, 1}
    BY <2>1, StatementsInOrder, Zenon DEF Ended, StatementsLeft
  <2> QED
    BY ONLY <2>2 DEF Nearer
<1>7. CASE PassOption
  <2>1. /\ pc = "options" /\ pc' = "options" /\ text # <<>>
        /\ text' = Slided(text, Comma) /\ text \in Seq(Char)
    BY <1>7 DEF PassOption, Become, LoaderTypes
  <2>2. Len(text') < Len(text)
    BY <2>1, SlidedIsShorter
  <2> QED
    BY <2>1, <2>2 DEF Nearer, StatementsLeft, CharactersLeft
<1>8. CASE NoOptionLeft
  <2>1. StatementsLeft = 1 /\ StatementsLeft' = 0
    BY <1>8, StatementsInOrder, Zenon DEF Ended, NoOptionLeft, Become, StatementsLeft
  <2> QED
    BY ONLY <2>1 DEF Nearer
<1> QED
  BY <1>1, <1>2, <1>3, <1>4, <1>5, <1>6, <1>7, <1>8 DEF Step

(* Every step of the loader's string functions brings them nearer to their *)
(* end, by a measure that cannot decrease forever: the dash that is        *)
(* replaced is not found again, and each option shortens the rest.         *)
THEOREM Progress ==
  Spec => [](StatementsLeft \in Nat /\ CharactersLeft \in Nat) /\ [][Nearer]_vars
<1>1. LoaderTypes /\ PhaseInv => StatementsLeft \in Nat /\ CharactersLeft \in Nat
  <2> SUFFICES ASSUME LoaderTypes, PhaseInv
               PROVE  StatementsLeft \in Nat /\ CharactersLeft \in Nat
    OBVIOUS
  <2>1. StatementsLeft \in {0, 1, 2, 3, 4}
    <3>1. CASE pc \in Working
      BY <3>1, StatementsInOrder, Zenon DEF Working, StatementsLeft
    <3>2. CASE pc \in Ended
      BY <3>2, StatementsInOrder, Zenon DEF StatementsLeft
    <3> QED
      BY <3>1, <3>2 DEF PhaseInv
  <2>2. text \in Seq(Char) /\ position \in Nat \ {0} /\ (pc = "replace" => position <= Len(text) + 1)
    BY DEF LoaderTypes
  <2>3. Len(text) \in Nat
    BY <2>2
  <2>4. StatementsLeft \in Nat
    BY ONLY <2>1
  <2>5. CharactersLeft \in Nat
    BY ONLY <2>2, <2>3 DEF CharactersLeft
  <2> QED
    BY <2>4, <2>5
<1>2. Init => PhaseInv
  BY DEF Init, PhaseInv, Working, Ended
<1>3. PhaseInv /\ [Next]_vars => PhaseInv'
  BY DEF Next, Step, Done, CheckFileName, FindName, TrimExtensions, ReplaceDash, NoDashLeft,
         CopyConfig, PassOption, NoOptionLeft, Become, vars, PhaseInv, Working,
         Ended
<1>4. LoaderTypes /\ [Next]_vars => [Nearer]_vars
  BY StepNearer DEF Next, Done
<1> QED
  BY <1>1, <1>2, <1>3, <1>4, LoadingTypes, PTL DEF Spec
-----------------------------------------------------------------------------
(* Hex texts: where the iterator goes, and how much is written.            *)

LEMMA ForwardFinds ==
  ASSUME NEW str \in Seq(Char), NEW p \in 1..(Len(str) + 1), NEW skips \in BOOLEAN
  PROVE  LET q == Forward(p, str, skips)
         IN  /\ q \in p..(Len(str) + 1)
             /\ q <= Len(str) /\ skips => str[q] # Space
             /\ \A r \in p..(q - 1) : skips /\ str[r] = Space
<1>0. Len(str) \in Nat
  OBVIOUS
<1>1. \E q \in p..(Len(str) + 1) :
        /\ (q <= Len(str) /\ skips) => str[q] # Space
        /\ \A r \in p..(q - 1) : skips /\ str[r] = Space
  <2>1. CASE ~skips
    <3>1. p \in p..(Len(str) + 1) /\ \A r \in p..(p - 1) : FALSE
      BY <1>0
    <3> QED
      BY <2>1, <3>1
  <2>2. CASE skips
    <3> DEFINE T == {q \in p..(Len(str) + 1) : q = Len(str) + 1 \/ str[q] # Space}
    <3>1. T \subseteq Nat /\ Len(str) + 1 \in T
      BY <1>0
    <3> HIDE DEF T
    <3>2. PICK q \in T : \A r \in T : q <= r
      BY <3>1, LeastNatural
    <3>3. q \in p..(Len(str) + 1) /\ (q <= Len(str) => str[q] # Space)
      BY <1>0, <3>2 DEF T
    <3>4. ASSUME NEW r \in p..(q - 1) PROVE str[r] = Space
      BY <1>0, <3>2, <3>3 DEF T
    <3> QED
      BY <2>2, <3>3, <3>4
  <2> QED
    BY <2>1, <2>2
<1> QED
  BY <1>1 DEF Forward

LEMMA Parity ==
  ASSUME NEW n \in Nat
  PROVE  /\ n % 2 \in {0, 1}
         /\ n % 2 = 0 => (n + 1) % 2 = 1 /\ (n + 1) \div 2 = n \div 2
         /\ n % 2 = 1 => (n + 1) % 2 = 0 /\ (n + 1) \div 2 = n \div 2 + 1
         /\ n \div 2 \in Nat
         /\ n % 2 = 0 => n = 2 * (n \div 2)
         /\ n % 2 = 1 => n = 2 * (n \div 2) + 1
<1>1. n % 2 \in {0, 1} /\ n \div 2 \in Nat
  OBVIOUS
<1>2. (n % 2 = 0 => n = 2 * (n \div 2)) /\ (n % 2 = 1 => n = 2 * (n \div 2) + 1)
  OBVIOUS
<1>3. n % 2 = 0 => (n + 1) % 2 = 1
  OBVIOUS
<1>4. n % 2 = 0 => (n + 1) \div 2 = n \div 2
  OBVIOUS
<1>5. n % 2 = 1 => (n + 1) % 2 = 0
  OBVIOUS
<1>6. n % 2 = 1 => (n + 1) \div 2 = n \div 2 + 1
  OBVIOUS
<1> QED
  BY <1>1, <1>2, <1>3, <1>4, <1>5, <1>6

\* The text, the array and what is written of it.
HexInv ==
  /\ target \in {"bytes", "spaced", "array"}
  /\ hex_text \in Seq(Char) /\ s \in Seq(Char)
  /\ it \in Nat \ {0} /\ it <= Len(s) + 1 /\ i \in Nat /\ i < it
  /\ hi_nibble \in Int /\ bytes \in Seq(Int)
  /\ Len(bytes) <= i \div 2
  /\ outcome = "called" => s = hex_text /\ it = 1 /\ i = 0 /\ bytes = <<>>
  /\ outcome \in {"decoding", "decoded"} /\ target = "array" => Len(s) \div 2 <= ArraySize

LEMMA DigitValues ==
  ASSUME NEW c, IsHexDigit(c)
  PROVE  DigitValue[c] \in {0, 15}
BY DEF IsHexDigit, DigitValue

LEMMA AdvanceInText ==
  ASSUME HexInv, it <= Len(s), Advance
  PROVE  /\ it' \in Nat \ {0} /\ it' <= Len(s) + 1 /\ i' \in Nat /\ i' < it'
         /\ it' > it /\ i' = i + 1 /\ s' = s /\ target' = target /\ hex_text' = hex_text
         /\ outcome' = outcome
<1>1. s \in Seq(Char) /\ Len(s) \in Nat /\ it \in Nat /\ it + 1 \in 1..(Len(s) + 1)
  BY DEF HexInv
<1>2. (target = "spaced") \in BOOLEAN
  OBVIOUS
<1>3. Forward(it + 1, s, target = "spaced") \in (it + 1)..(Len(s) + 1)
  BY <1>1, <1>2, ForwardFinds
<1> QED
  BY <1>1, <1>3 DEF Advance, HexInv

LEMMA DecodingFits ==
  /\ HexInit => HexInv
  /\ HexInv /\ [HexStep]_hexVars => HexInv'
<1>0. <<>> \in Seq(Char) /\ <<>> \in Seq(Int) /\ Len(<<>>) = 0
  BY EmptySeq
<1>1. ASSUME HexInit PROVE HexInv
  <2>1. hex_text \in Seq(STRING) /\ STRING \subseteq Char
    BY <1>1, HexConstants DEF HexInit, Char
  <2>2. hex_text \in Seq(Char)
    BY <2>1, SeqMonotonic
  <2>3. Len(hex_text) \in Nat
    BY <2>2
  <2> QED
    BY <1>0, <1>1, <2>2, <2>3 DEF HexInit, HexInv
<1>2. ASSUME HexInv, DecodeToBytes PROVE HexInv'
  <2>1. /\ s \in Seq(Char) /\ Len(s) \in Nat /\ 1 \in 1..(Len(s) + 1)
        /\ (target = "spaced") \in BOOLEAN
    BY <1>2 DEF HexInv
  <2>2. Forward(1, s, target = "spaced") \in 1..(Len(s) + 1)
    BY <2>1, ForwardFinds
  <2> QED
    BY <1>2, <2>1, <2>2 DEF HexInv, DecodeToBytes
<1>3. ASSUME HexInv, DecodeToArray PROVE HexInv'
  <2>1. s \in Seq(Char) /\ Len(s) \in Nat
    BY <1>3 DEF HexInv
  <2>2. s' \in Seq(Char)
    <3>1. ASSUME Is0x(s) PROVE SubSeq(s, 3, Len(s)) \in Seq(Char)
      <4>1. 3 \in 1..(Len(s) + 1)
        BY <2>1, <3>1 DEF Is0x
      <4> QED
        BY <2>1, <4>1, Suffix DEF From
    <3> QED
      BY <1>3, <2>1, <3>1 DEF DecodeToArray
  <2>3. /\ target = "array" /\ target' = target /\ hex_text' = hex_text /\ it' = it /\ i' = i
        /\ hi_nibble' = hi_nibble /\ bytes' = bytes
        /\ outcome' = IF Len(s') \div 2 > ArraySize THEN "invalid" ELSE "decoding"
        /\ it = 1 /\ i = 0 /\ bytes = <<>>
    BY <1>3 DEF HexInv, DecodeToArray
  <2>4. Len(s') \in Nat /\ ArraySize \in Nat /\ Len(s') \div 2 \in Nat
    BY <2>2, HexConstants
  <2> QED
    BY <1>3, <2>2, <2>3, <2>4 DEF HexInv
<1>4. ASSUME HexInv, SkipPrefix PROVE HexInv'
  <2>1. /\ it' \in Nat \ {0} /\ it' <= Len(s) + 1 /\ i' \in Nat /\ i' < it'
        /\ i' = i + 1 /\ s' = s /\ target' = target /\ hex_text' = hex_text
        /\ outcome' = outcome
    BY <1>4, AdvanceInText DEF SkipPrefix, Round
  <2>2. bytes' = bytes /\ hi_nibble' = hi_nibble /\ i = 1 /\ outcome = "decoding"
    BY <1>4 DEF SkipPrefix, Round, IsPrefixHere
  <2>3. Len(bytes) <= i' \div 2
    BY <1>4, <2>1, <2>2 DEF HexInv
  <2> QED
    BY <1>4, <2>1, <2>2, <2>3 DEF HexInv
<1>5. ASSUME HexInv, NotADigit \/ EndOfText PROVE HexInv'
  BY <1>5 DEF HexInv, NotADigit, EndOfText, Round
<1>6. ASSUME HexInv, HighNibble PROVE HexInv'
  <2>1. /\ it' \in Nat \ {0} /\ it' <= Len(s) + 1 /\ i' \in Nat /\ i' < it'
        /\ i' = i + 1 /\ s' = s /\ target' = target /\ hex_text' = hex_text
        /\ outcome' = outcome
    BY <1>6, AdvanceInText DEF HighNibble, Round
  <2>2. /\ bytes' = bytes /\ hi_nibble' = 16 * DigitValue[s[it]] /\ i % 2 = 0
        /\ outcome = "decoding" /\ DigitValue[s[it]] \in {0, 15}
    BY <1>6, DigitValues DEF HighNibble, Round
  <2>3. Len(bytes) <= i' \div 2
    BY <1>6, <2>1, <2>2, Parity DEF HexInv
  <2>4. hi_nibble' \in Int
    BY ONLY <2>2
  <2> QED
    BY <1>6, <2>1, <2>2, <2>3, <2>4 DEF HexInv
<1>7. ASSUME HexInv, LowNibble PROVE HexInv'
  <2>1. /\ it' \in Nat \ {0} /\ it' <= Len(s) + 1 /\ i' \in Nat /\ i' < it'
        /\ i' = i + 1 /\ s' = s /\ target' = target /\ hex_text' = hex_text
        /\ outcome' = outcome
    BY <1>7, AdvanceInText DEF LowNibble, Round
  <2>2. /\ bytes' = Append(bytes, hi_nibble + DigitValue[s[it]]) /\ hi_nibble' = hi_nibble
        /\ i % 2 = 1 /\ outcome = "decoding" /\ DigitValue[s[it]] \in {0, 15}
    BY <1>7, DigitValues DEF LowNibble, Round
  <2>3. hi_nibble + DigitValue[s[it]] \in Int
    BY <1>7, <2>2 DEF HexInv
  <2>4. bytes' \in Seq(Int) /\ Len(bytes') = Len(bytes) + 1 /\ Len(bytes) \in Nat
    BY <1>7, <2>2, <2>3, AppendProperties DEF HexInv
  <2>5. Len(bytes') <= i' \div 2
    BY <1>7, <2>1, <2>2, <2>4, Parity DEF HexInv
  <2> QED
    BY <1>7, <2>1, <2>2, <2>4, <2>5 DEF HexInv
<1>8. ASSUME HexInv, UNCHANGED hexVars PROVE HexInv'
  BY <1>8 DEF HexInv, hexVars
<1> QED
  BY <1>1, <1>2, <1>3, <1>4, <1>5, <1>6, <1>7, <1>8 DEF HexStep

(* from_hex writes at most half as many bytes as the text has characters,  *)
(* into an array at most as many as it has, of a valid text or not.        *)
THEOREM OutputBound == HexSpec => []OutputFits
<1>1. HexInv => OutputFits
  <2> SUFFICES ASSUME HexInv PROVE OutputFits
    OBVIOUS
  <2>1. Len(s) \in Nat /\ Len(bytes) \in Nat /\ i \in Nat /\ i <= Len(s)
    BY DEF HexInv
  <2>2. Len(bytes) <= i \div 2
    BY DEF HexInv
  <2>3. 2 * Len(bytes) <= Len(s)
    BY ONLY <2>1, <2>2
  <2> QED
    BY <2>3 DEF OutputFits, HexInv
<1> QED
  BY <1>1, DecodingFits, PTL DEF HexSpec
-----------------------------------------------------------------------------
(* Hex texts: which characters are decoded.                                *)

\* What is kept of the first n characters, as a function of n.
KeptUpTo(f, str, n) ==
  f = [k \in 0..n |-> IF k = 0 THEN <<>>
                      ELSE IF str[k] = Space THEN f[k - 1] ELSE Append(f[k - 1], str[k])]

Kept(str) == CHOOSE f : KeptUpTo(f, str, Len(str))

LEMMA KeptExists ==
  ASSUME NEW str, NEW n \in Nat
  PROVE  \E f : KeptUpTo(f, str, n)
<1> DEFINE T == {m \in Nat : \E f : KeptUpTo(f, str, m)}
<1>1. 0 \in T
  <2> DEFINE f == [k \in 0..0 |-> <<>>]
  <2>1. \A k \in 0..0 : k = 0
    OBVIOUS
  <2>2. KeptUpTo(f, str, 0)
    BY <2>1 DEF KeptUpTo
  <2> HIDE DEF f
  <2> QED
    BY <2>2
<1>2. ASSUME NEW m \in Nat, m \in T PROVE m + 1 \in T
  <2>1. PICK f : KeptUpTo(f, str, m)
    BY <1>2
  <2> DEFINE next == IF str[m + 1] = Space THEN f[m] ELSE Append(f[m], str[m + 1])
             g == [k \in 0..(m + 1) |-> IF k = m + 1 THEN next ELSE f[k]]
             h == [k \in 0..(m + 1) |-> IF k = 0 THEN <<>>
                     ELSE IF str[k] = Space THEN g[k - 1] ELSE Append(g[k - 1], str[k])]
  <2>2. ASSUME NEW k \in 0..(m + 1) PROVE g[k] = h[k]
    <3>1. CASE k = m + 1
      <4>1. m + 1 - 1 = m /\ m \in 0..(m + 1) /\ m # m + 1 /\ m + 1 # 0
        OBVIOUS
      <4> QED
        BY <3>1, <4>1
    <3>2. CASE k # m + 1
      <4>1. k \in 0..m /\ (k # 0 => k - 1 \in 0..(m + 1) /\ k - 1 # m + 1)
        BY <3>2
      <4>2. f[k] = IF k = 0 THEN <<>>
                   ELSE IF str[k] = Space THEN f[k - 1] ELSE Append(f[k - 1], str[k])
        BY <2>1, <4>1 DEF KeptUpTo
      <4> QED
        BY <3>2, <4>1, <4>2
    <3> QED
      BY <3>1, <3>2
  <2>3. g = h
    BY <2>2
  <2>4. KeptUpTo(g, str, m + 1)
    BY <2>3 DEF KeptUpTo
  <2> HIDE DEF g, h
  <2> QED
    BY <2>4
<1> HIDE DEF T
<1>3. n \in T
  BY <1>1, <1>2, Induction
<1> QED
  BY <1>3 DEF T

LEMMA KeptOneByOne ==
  ASSUME NEW str \in Seq(Char)
  PROVE  /\ WithoutSpace(str) = Kept(str)[Len(str)]
         /\ Kept(str)[0] = <<>>
         /\ \A k \in 1..Len(str) :
              /\ str[k] = Space => Kept(str)[k] = Kept(str)[k - 1]
              /\ str[k] # Space => Kept(str)[k] = Append(Kept(str)[k - 1], str[k])
         /\ \A k \in 0..Len(str) : Kept(str)[k] \in Seq(Char)
<1> DEFINE f == Kept(str)
<1>0. Len(str) \in Nat
  OBVIOUS
<1>1. KeptUpTo(f, str, Len(str))
  BY <1>0, KeptExists DEF Kept
<1>2. WithoutSpace(str) = f[Len(str)]
  BY DEF WithoutSpace, Kept, KeptUpTo
<1> HIDE DEF f
<1>3. \A k \in 0..Len(str) :
        f[k] = IF k = 0 THEN <<>>
               ELSE IF str[k] = Space THEN f[k - 1] ELSE Append(f[k - 1], str[k])
  BY <1>1 DEF KeptUpTo
<1>4. f[0] = <<>>
  BY <1>0, <1>3
<1>5. ASSUME NEW k \in 1..Len(str)
      PROVE  /\ str[k] = Space => f[k] = f[k - 1]
             /\ str[k] # Space => f[k] = Append(f[k - 1], str[k])
  <2>1. k \in 0..Len(str) /\ k # 0
    BY <1>0
  <2> QED
    BY <1>3, <2>1
<1>6. \A k \in 0..Len(str) : f[k] \in Seq(Char)
  <2> DEFINE T == {k \in Nat : k <= Len(str) => f[k] \in Seq(Char)}
  <2>1. 0 \in T
    BY <1>4, EmptySeq
  <2>2. ASSUME NEW k \in Nat, k \in T PROVE k + 1 \in T
    <3>1. CASE k + 1 <= Len(str)
      <4>1. k + 1 \in 1..Len(str) /\ k + 1 - 1 = k /\ f[k] \in Seq(Char)
        BY <1>0, <2>2, <3>1
      <4>2. str[k + 1] \in Char
        BY <4>1, ElementOfSeq
      <4>3. Append(f[k], str[k + 1]) \in Seq(Char)
        BY <4>1, <4>2, AppendProperties
      <4>4. f[k + 1] = f[k] \/ f[k + 1] = Append(f[k], str[k + 1])
        <5>1. PICK m \in 1..Len(str) : m = k + 1
          BY <4>1
        <5>2. f[m] = f[m - 1] \/ f[m] = Append(f[m - 1], str[m])
          BY <1>5
        <5> QED
          BY <4>1, <5>1, <5>2
      <4>5. f[k + 1] \in Seq(Char)
        BY ONLY <4>1, <4>3, <4>4
      <4> QED
        BY <4>5
    <3>2. CASE ~(k + 1 <= Len(str))
      BY <3>2
    <3> QED
      BY <3>1, <3>2
  <2> HIDE DEF T
  <2>3. Nat \subseteq T
    BY <2>1, <2>2, Induction
  <2> QED
    BY <1>0, <2>3 DEF T
<1> QED
  BY <1>2, <1>4, <1>5, <1>6 DEF f

\* What was kept stays, and white space adds nothing.
LEMMA KeptGrows ==
  ASSUME NEW str \in Seq(Char), NEW n \in 0..Len(str), NEW m \in n..Len(str)
  PROVE  /\ Len(Kept(str)[n]) <= Len(Kept(str)[m])
         /\ \A k \in 1..Len(Kept(str)[n]) : Kept(str)[m][k] = Kept(str)[n][k]
         /\ (\A k \in (n + 1)..m : str[k] = Space) => Kept(str)[m] = Kept(str)[n]
<1> DEFINE f == Kept(str)
           Grown(d) == /\ Len(f[n]) <= Len(f[n + d])
                       /\ \A k \in 1..Len(f[n]) : f[n + d][k] = f[n][k]
                       /\ (\A k \in (n + 1)..(n + d) : str[k] = Space) => f[n + d] = f[n]
           T == {d \in Nat : n + d <= Len(str) => Grown(d)}
<1>0. Len(str) \in Nat /\ n \in Nat /\ m \in Nat /\ n <= m /\ m <= Len(str)
  OBVIOUS
<1>1. /\ \A k \in 1..Len(str) : /\ str[k] = Space => f[k] = f[k - 1]
                                /\ str[k] # Space => f[k] = Append(f[k - 1], str[k])
      /\ \A k \in 0..Len(str) : f[k] \in Seq(Char)
  BY KeptOneByOne
<1> HIDE DEF f
<1>2. 0 \in T
  <2>1. f[n] \in Seq(Char) /\ n + 0 = n
    BY <1>0, <1>1
  <2>2. Len(f[n]) \in Nat
    BY <2>1
  <2> QED
    BY <2>1, <2>2
<1>3. ASSUME NEW d \in Nat, d \in T PROVE d + 1 \in T
  <2>1. CASE n + (d + 1) <= Len(str)
    <3> DEFINE a == n + d
    <3>1. a \in 0..Len(str) /\ n + (d + 1) = a + 1 /\ a + 1 \in 1..Len(str) /\ a + 1 - 1 = a
      BY <1>0, <2>1
    <3>2. Grown(d)
      BY <1>0, <1>3, <2>1
    <3>3. f[a] \in Seq(Char) /\ f[n] \in Seq(Char) /\ str[a + 1] \in Char
      BY <1>0, <1>1, <3>1, ElementOfSeq
    <3>4. /\ str[a + 1] = Space => f[a + 1] = f[a]
          /\ str[a + 1] # Space => f[a + 1] = Append(f[a], str[a + 1])
      BY <1>1, <3>1
    <3> HIDE DEF a
    <3>5. CASE str[a + 1] = Space
      <4>1. f[n + (d + 1)] = f[n + d]
        BY <3>1, <3>4, <3>5 DEF a
      <4>2. (\A k \in (n + 1)..(n + (d + 1)) : str[k] = Space)
              => \A k \in (n + 1)..(n + d) : str[k] = Space
        BY <1>0
      <4> QED
        BY <3>2, <4>1, <4>2
    <3>6. CASE str[a + 1] # Space
      <4>1. /\ Len(f[a + 1]) = Len(f[a]) + 1
            /\ \A k \in 1..Len(f[a]) : f[a + 1][k] = f[a][k]
        BY <3>3, <3>4, <3>6, AppendProperties
      <4>2. Len(f[a]) \in Nat /\ Len(f[n]) \in Nat
        BY <3>3
      <4>3. /\ Len(f[n]) <= Len(f[a])
            /\ \A k \in 1..Len(f[n]) : f[a][k] = f[n][k]
        BY <3>2 DEF a
      <4>4. /\ Len(f[n]) <= Len(f[a + 1])
            /\ \A k \in 1..Len(f[n]) : f[a + 1][k] = f[n][k]
        BY <4>1, <4>2, <4>3
      <4>5. a + 1 \in (n + 1)..(n + (d + 1))
        BY <1>0 DEF a
      <4> QED
        BY <3>1, <3>6, <4>4, <4>5
    <3> QED
      BY <3>5, <3>6
  <2>2. CASE ~(n + (d + 1) <= Len(str))
    BY <2>2
  <2> QED
    BY <2>1, <2>2
<1>4. Nat \subseteq T
  <2> HIDE DEF T
  <2> QED
    BY <1>2, <1>3, Induction
<1>5. m - n \in Nat /\ n + (m - n) = m
  BY <1>0
<1>6. Grown(m - n)
  BY <1>0, <1>4, <1>5
<1> QED
  BY <1>5, <1>6 DEF f

\* What is decoded, and how much of it is a prefix that the loop skips.
Decoded == IF target = "array" THEN Digits ELSE Characters
Prefix == IF target # "array" /\ Is0x(Characters) THEN 2 ELSE 0

LEMMA DigitsAreDecoded ==
  ASSUME HexInv
  PROVE  /\ Characters \in Seq(Char) /\ Decoded \in Seq(Char) /\ Digits \in Seq(Char)
         /\ Prefix \in {0, 2}
         /\ Prefix = 2 => Len(Decoded) >= 2 /\ Decoded[1] = "0" /\ Decoded[2] = "x"
         /\ Len(Digits) = Len(Decoded) - Prefix
         /\ \A k \in 1..Len(Digits) : Digits[k] = Decoded[Prefix + k]
<1>1. Characters \in Seq(Char)
  <2>1. hex_text \in Seq(Char) /\ Len(hex_text) \in 0..Len(hex_text)
    BY DEF HexInv
  <2>2. WithoutSpace(hex_text) \in Seq(Char)
    BY <2>1, KeptOneByOne
  <2> QED
    BY <2>1, <2>2 DEF Characters
<1>2. CASE Is0x(Characters)
  <2>1. 3 \in 1..(Len(Characters) + 1) /\ Digits = From(3, Characters)
    BY <1>1, <1>2 DEF Is0x, Digits, From
  <2>2. /\ Digits \in Seq(Char) /\ Len(Digits) = Len(Characters) - 3 + 1
        /\ \A k \in 1..(Len(Characters) - 3 + 1) : Digits[k] = Characters[3 + k - 1]
    BY <1>1, <2>1, Suffix
  <2>3. Len(Digits) \in Nat /\ Len(Characters) \in Nat
    BY <1>1, <2>2
  <2>4. CASE target = "array"
    BY <1>1, <2>2, <2>3, <2>4 DEF Decoded, Prefix
  <2>5. CASE target # "array"
    <3>1. Decoded = Characters /\ Prefix = 2
      BY <1>2, <2>5 DEF Decoded, Prefix
    <3>2. \A k \in 1..Len(Digits) : Digits[k] = Characters[2 + k]
      <4> TAKE k \in 1..Len(Digits)
      <4>1. k \in 1..(Len(Characters) - 3 + 1) /\ 3 + k - 1 = 2 + k
        BY <2>2, <2>3
      <4> QED
        BY <2>2, <4>1
    <3> QED
      BY <1>1, <1>2, <2>2, <2>3, <3>1, <3>2 DEF Is0x
  <2> QED
    BY <2>4, <2>5
<1>3. CASE ~Is0x(Characters)
  <2>1. Digits = Characters /\ Decoded = Characters /\ Prefix = 0
    BY <1>3 DEF Digits, Decoded, Prefix
  <2>2. Len(Characters) \in Nat
    BY <1>1
  <2> QED
    BY <1>1, <2>1, <2>2
<1> QED
  BY <1>2, <1>3

\* Where the iterator is: i characters have been decoded.
Reading ==
  IF target = "spaced"
  THEN s = hex_text /\ Len(Kept(s)[it - 1]) = i /\ (it <= Len(s) => s[it] # Space)
  ELSE s = Decoded /\ it = i + 1

LEMMA NextCharacter ==
  ASSUME HexInv, Reading
  PROVE  /\ i <= Len(Decoded)
         /\ it <= Len(s) => i + 1 <= Len(Decoded) /\ Decoded[i + 1] = s[it]
         /\ it > Len(s) => i = Len(Decoded)
<1>0. s \in Seq(Char) /\ Len(s) \in Nat /\ it \in Nat \ {0} /\ it <= Len(s) + 1 /\ i \in Nat
  BY DEF HexInv
<1>1. CASE target = "spaced"
  <2>1. s = hex_text /\ Len(Kept(s)[it - 1]) = i /\ (it <= Len(s) => s[it] # Space)
    BY <1>1 DEF Reading
  <2>2. Decoded = Kept(s)[Len(s)]
    BY <1>0, <1>1, <2>1, KeptOneByOne DEF Decoded, Characters
  <2>3. it - 1 \in 0..Len(s) /\ Len(s) \in (it - 1)..Len(s)
    BY <1>0
  <2>4. i <= Len(Decoded)
    BY <1>0, <2>1, <2>2, <2>3, KeptGrows
  <2>5. ASSUME it <= Len(s) PROVE i + 1 <= Len(Decoded) /\ Decoded[i + 1] = s[it]
    <3>1. it \in 1..Len(s) /\ it \in 0..Len(s) /\ Len(s) \in it..Len(s)
      BY <1>0, <2>5
    <3>2. Kept(s)[it - 1] \in Seq(Char) /\ s[it] \in Char
      BY <1>0, <2>3, <3>1, KeptOneByOne, ElementOfSeq
    <3>3. Kept(s)[it] = Append(Kept(s)[it - 1], s[it])
      BY <1>0, <2>1, <2>5, <3>1, KeptOneByOne
    <3>4. Len(Kept(s)[it]) = i + 1 /\ Kept(s)[it][i + 1] = s[it]
      BY <2>1, <3>2, <3>3, AppendProperties
    <3>5. /\ Len(Kept(s)[it]) <= Len(Decoded)
          /\ \A k \in 1..Len(Kept(s)[it]) : Decoded[k] = Kept(s)[it][k]
      BY <1>0, <2>2, <3>1, KeptGrows
    <3>6. i + 1 \in 1..Len(Kept(s)[it])
      BY <1>0, <3>4
    <3> QED
      BY <3>4, <3>5, <3>6
  <2>6. ASSUME it > Len(s) PROVE i = Len(Decoded)
    <3>1. it - 1 = Len(s)
      BY <1>0, <2>6
    <3> QED
      BY <2>1, <2>2, <3>1
  <2> QED
    BY <2>4, <2>5, <2>6
<1>2. CASE target # "spaced"
  BY <1>0, <1>2 DEF Reading
<1> QED
  BY <1>1, <1>2

\* The iterator comes to the first character that is not skipped from p on.
LEMMA IteratorFound ==
  ASSUME HexInv, NEW p \in 1..(Len(s) + 1), NEW n \in Nat,
         s' = s, target' = target, hex_text' = hex_text,
         it' = Forward(p, s, target = "spaced"), i' = n,
         target = "spaced" => s = hex_text /\ Len(Kept(s)[p - 1]) = n,
         target # "spaced" => s = Decoded /\ p = n + 1
  PROVE  Reading'
<1>0. s \in Seq(Char) /\ Len(s) \in Nat /\ (target = "spaced") \in BOOLEAN
  BY DEF HexInv
<1>1. /\ it' \in p..(Len(s) + 1)
      /\ it' <= Len(s) /\ target = "spaced" => s[it'] # Space
      /\ \A r \in p..(it' - 1) : target = "spaced" /\ s[r] = Space
  BY <1>0, ForwardFinds
<1>2. CASE target = "spaced"
  <2>1. p - 1 \in 0..Len(s) /\ it' - 1 \in (p - 1)..Len(s) /\ (p - 1) + 1 = p
    BY <1>0, <1>1
  <2>2. PICK a \in 0..Len(s) : a = p - 1
    BY <1>0
  <2>3. PICK b \in a..Len(s) : b = it' - 1
    BY <2>1, <2>2
  <2>4. \A k \in (a + 1)..b : s[k] = Space
    BY <1>0, <1>1, <1>2, <2>1, <2>2, <2>3
  <2>5. Kept(s)[b] = Kept(s)[a]
    BY <1>0, <2>2, <2>3, <2>4, KeptGrows
  <2>6. Len(Kept(s)[it' - 1]) = n
    BY <1>2, <2>2, <2>3, <2>5
  <2> QED
    BY <1>1, <1>2, <2>6 DEF Reading
<1>3. CASE target # "spaced"
  <2>1. it' = p
    BY <1>0, <1>1, <1>3
  <2>2. Decoded' = Decoded
    BY DEF Decoded, Digits, Characters
  <2> QED
    BY <1>3, <2>1, <2>2 DEF Reading
<1> QED
  BY <1>2, <1>3

LEMMA ReadingAdvances ==
  ASSUME HexInv, Reading, it <= Len(s), Advance
  PROVE  Reading'
<1>0. /\ s \in Seq(Char) /\ Len(s) \in Nat /\ it \in Nat \ {0} /\ i \in Nat
      /\ it + 1 \in 1..(Len(s) + 1) /\ i + 1 \in Nat
      /\ (it + 1) - 1 = it
  BY DEF HexInv
<1>1. /\ s' = s /\ target' = target /\ hex_text' = hex_text
      /\ it' = Forward(it + 1, s, target = "spaced") /\ i' = i + 1
  BY DEF Advance
<1>2. ASSUME target = "spaced" PROVE s = hex_text /\ Len(Kept(s)[it]) = i + 1
  <2>1. s = hex_text /\ Len(Kept(s)[it - 1]) = i /\ s[it] # Space
    BY <1>2 DEF Reading
  <2>2. it \in 1..Len(s) /\ it - 1 \in 0..Len(s)
    BY <1>0
  <2>3. Kept(s)[it - 1] \in Seq(Char) /\ s[it] \in Char
    BY <1>0, <2>2, KeptOneByOne, ElementOfSeq
  <2>4. Kept(s)[it] = Append(Kept(s)[it - 1], s[it])
    BY <1>0, <2>1, <2>2, KeptOneByOne
  <2> QED
    BY <2>1, <2>3, <2>4, AppendProperties
<1>3. target # "spaced" => s = Decoded /\ it + 1 = (i + 1) + 1
  BY <1>0 DEF Reading
<1> QED
  BY <1>0, <1>1, <1>2, <1>3, IteratorFound

ByteAt(k) == 16 * DigitValue[Decoded[Prefix + 2 * k - 1]] + DigitValue[Decoded[Prefix + 2 * k]]

\* What has been decoded: the i characters are digits but for the prefix, two for a byte.
Written ==
  /\ \A k \in 1..i : k > Prefix => IsHexDigit(Decoded[k])
  /\ i % 2 = 1 => IsHexDigit(Decoded[i]) /\ hi_nibble = 16 * DigitValue[Decoded[i]]
  /\ Len(bytes) = IF i < Prefix THEN 0 ELSE i \div 2 - Prefix \div 2
  /\ \A k \in 1..Len(bytes) : bytes[k] = ByteAt(k)

OnePrefix == target = "array" => ~Is0x(Digits)

DecodeInv ==
  /\ HexInv
  /\ OnePrefix =>
       /\ outcome \in {"decoding", "decoded"} => Reading /\ Written
       /\ outcome = "decoded" => it > Len(s) /\ i % 2 = 0
       /\ outcome = "invalid" => ~IsHex \/ (target = "array" /\ Len(Digits) > 2 * ArraySize)

\* The text stays what it is, so what is decoded does too.
LEMMA TextStays ==
  ASSUME target' = target, hex_text' = hex_text
  PROVE  /\ Characters' = Characters /\ Digits' = Digits /\ Decoded' = Decoded
         /\ Prefix' = Prefix /\ IsHex' = IsHex /\ OnePrefix' = OnePrefix
<1>1. Characters' = Characters
  BY DEF Characters
<1>2. Digits' = Digits
  BY <1>1 DEF Digits
<1> QED
  BY <1>1, <1>2 DEF Decoded, Prefix, IsHex, OnePrefix

\* The prefix, when the loop comes to it, and nothing else is skipped as one.
LEMMA PrefixIsSkipped ==
  ASSUME HexInv, OnePrefix, Reading, Written, it <= Len(s)
  PROVE  /\ IsPrefixHere => i = 1 /\ Prefix = 2
         /\ i < Prefix => IsPrefixHere \/ (i = 0 /\ IsHexDigit(s[it]))
<1>0. /\ i \in Nat /\ Prefix \in {0, 2} /\ Decoded \in Seq(Char)
      /\ i + 1 <= Len(Decoded) /\ Decoded[i + 1] = s[it]
      /\ Prefix = 2 => Decoded[1] = "0" /\ Decoded[2] = "x"
  BY DigitsAreDecoded, NextCharacter DEF HexInv
<1>1. IsHexDigit("0") /\ DigitValue["0"] = 0 /\ DigitValue["f"] = 15 /\ DigitValue["F"] = 15
  BY DEF IsHexDigit, DigitValue
<1>2. 1 % 2 = 1
  OBVIOUS
<1>3. ASSUME IsPrefixHere PROVE i = 1 /\ Prefix = 2
  <2>1. i = 1 /\ hi_nibble = 0 /\ s[it] = "x"
    BY <1>3 DEF IsPrefixHere
  <2>2. IsHexDigit(Decoded[1]) /\ hi_nibble = 16 * DigitValue[Decoded[1]]
    BY <1>2, <2>1 DEF Written
  <2>3. Decoded[1] = "0"
    <3>1. Decoded[1] \in {"0", "f", "F"}
      BY <2>2 DEF IsHexDigit, DigitValue
    <3> QED
      BY <1>1, <2>1, <2>2, <3>1
  <2>4. Len(Decoded) >= 2 /\ Decoded[2] = "x"
    BY <1>0, <2>1
  <2>5. Is0x(Decoded)
    BY <2>3, <2>4 DEF Is0x
  <2>6. target # "array" /\ Is0x(Characters)
    BY <2>5 DEF OnePrefix, Decoded
  <2> QED
    BY <2>1, <2>6 DEF Prefix
<1>4. ASSUME i < Prefix PROVE IsPrefixHere \/ (i = 0 /\ IsHexDigit(s[it]))
  <2>1. CASE i = 0
    BY <1>0, <1>1, <1>4, <2>1
  <2>2. CASE i = 1
    <3>1. hi_nibble = 16 * DigitValue[Decoded[1]]
      BY <1>2, <2>2 DEF Written
    <3>2. hi_nibble = 0 /\ s[it] = "x"
      BY <1>0, <1>1, <1>4, <2>2, <3>1
    <3> QED
      BY <2>2, <3>2 DEF IsPrefixHere
  <2> QED
    BY <1>0, <1>4, <2>1, <2>2
<1> QED
  BY <1>3, <1>4

\* One more character, a digit or the last one of the prefix, and no byte is complete.
LEMMA ReadingOn ==
  ASSUME HexInv, OnePrefix, Reading, Written, it <= Len(s), Advance, bytes' = bytes,
         i' % 2 = 1 => IsHexDigit(s[it]) /\ hi_nibble' = 16 * DigitValue[s[it]],
         i' > Prefix => IsHexDigit(s[it]),
         i' % 2 = 0 => i' <= Prefix
  PROVE  Reading' /\ Written'
<1>1. Reading'
  BY ReadingAdvances
<1>2. /\ i' = i + 1 /\ target' = target /\ hex_text' = hex_text
  BY DEF Advance
<1>3. Decoded' = Decoded /\ Prefix' = Prefix
  BY <1>2, TextStays
<1>4. /\ i \in Nat /\ Prefix \in {0, 2} /\ Decoded[i + 1] = s[it]
  BY DigitsAreDecoded, NextCharacter DEF HexInv
<1>5. ASSUME NEW k \in 1..i', k > Prefix PROVE IsHexDigit(Decoded[k])
  <2>1. k \in 1..i \/ k = i + 1
    BY <1>2, <1>4
  <2> QED
    BY <1>2, <1>4, <1>5, <2>1 DEF Written
<1>6. Len(bytes) = IF i' < Prefix THEN 0 ELSE i' \div 2 - Prefix \div 2
  <2>1. Len(bytes) = IF i < Prefix THEN 0 ELSE i \div 2 - Prefix \div 2
    BY DEF Written
  <2>2. CASE i % 2 = 0
    <3>1. i' \div 2 = i \div 2
      BY <1>2, <1>4, <2>2, Parity
    <3>2. (i < Prefix => i' < Prefix \/ (i' = 1 /\ Prefix = 0)) /\ (i' < Prefix => i < Prefix)
      BY <1>2, <1>4, <2>2
    <3> QED
      BY <1>4, <2>1, <3>1, <3>2
  <2>3. CASE i % 2 # 0
    <3>1. i' % 2 = 0
      BY <1>2, <1>4, <2>3, Parity
    <3>2. i' <= Prefix
      BY <3>1
    <3>3. i = 1 /\ Prefix = 2
      BY <1>2, <1>4, <2>3, <3>2
    <3>4. i' = 2 /\ 2 \div 2 = 1
      BY <1>2, <3>3
    <3> QED
      BY <2>1, <3>3, <3>4
  <2> QED
    BY <2>2, <2>3
<1>7. i' % 2 = 1 => IsHexDigit(Decoded[i']) /\ hi_nibble' = 16 * DigitValue[Decoded[i']]
  BY <1>2, <1>4
<1>8. \A k \in 1..Len(bytes) : bytes[k] = ByteAt(k)
  BY DEF Written
<1>9. \A k : ByteAt(k)' = ByteAt(k)
  BY <1>3 DEF ByteAt
<1> QED
  BY <1>1, <1>3, <1>5, <1>6, <1>7, <1>8, <1>9 DEF Written

LEMMA DecodingInverts ==
  /\ HexInit => DecodeInv
  /\ DecodeInv /\ [HexStep]_hexVars => DecodeInv'
<1>0. HexInit => HexInv
  BY DecodingFits
<1>1. ASSUME HexInit PROVE DecodeInv
  BY <1>0, <1>1 DEF DecodeInv, HexInit
<1>10. ASSUME DecodeInv, [HexStep]_hexVars
      PROVE  HexInv /\ HexInv'
  BY <1>10, DecodingFits DEF DecodeInv
<1>11. <<>> \in Seq(Int) /\ Len(<<>>) = 0 /\ 0 % 2 = 0
  BY EmptySeq
<1>2. ASSUME DecodeInv, DecodeToBytes PROVE DecodeInv'
  <2>1. HexInv /\ HexInv'
    BY <1>2, <1>10 DEF HexStep
  <2>2. /\ target' = target /\ hex_text' = hex_text /\ s' = s /\ i' = i /\ bytes' = bytes
        /\ hi_nibble' = hi_nibble /\ target # "array" /\ outcome' = "decoding"
        /\ it' = Forward(1, s, target = "spaced")
        /\ s = hex_text /\ i = 0 /\ bytes = <<>>
    BY <1>2, <2>1 DEF DecodeToBytes, HexInv
  <2>3. s \in Seq(Char) /\ Len(s) \in Nat /\ 1 \in 1..(Len(s) + 1) /\ 1 - 1 = 0 /\ 0 \in Nat
    <3>1. s \in Seq(Char)
      BY <2>1 DEF HexInv
    <3> QED
      BY ONLY <3>1
  <2>4. Len(Kept(s)[0]) = 0
    BY <1>11, <2>3, KeptOneByOne
  <2>5. target # "spaced" => s = Decoded /\ 1 = 0 + 1
    BY <2>2 DEF Decoded, Characters
  <2>6. Reading'
    BY <2>1, <2>2, <2>3, <2>4, <2>5, IteratorFound
  <2>7. Prefix' \in {0, 2} /\ Prefix \div 2 \in {0, 1} /\ Prefix' = Prefix
    <3>1. Prefix \in {0, 2} /\ 0 \div 2 = 0 /\ 2 \div 2 = 1
      BY DEF Prefix
    <3> QED
      BY <2>2, <3>1, TextStays
  <2>8. Written'
    BY <1>11, <2>2, <2>7 DEF Written
  <2> QED
    BY <2>1, <2>2, <2>6, <2>8 DEF DecodeInv
<1>3. ASSUME DecodeInv, DecodeToArray PROVE DecodeInv'
  <2>1. HexInv /\ HexInv'
    BY <1>3, <1>10 DEF HexStep
  <2>2. /\ target' = target /\ hex_text' = hex_text /\ i' = i /\ bytes' = bytes
        /\ hi_nibble' = hi_nibble /\ target = "array" /\ it' = it
        /\ outcome' = (IF Len(s') \div 2 > ArraySize THEN "invalid" ELSE "decoding")
        /\ s' = (IF Is0x(s) THEN SubSeq(s, 3, Len(s)) ELSE s)
        /\ s = hex_text /\ i = 0 /\ bytes = <<>> /\ it = 1
    BY <1>3, <2>1 DEF DecodeToArray, HexInv
  <2>3. s' = Digits /\ Decoded = Digits /\ Prefix = 0
    BY <2>2 DEF Digits, Characters, Decoded, Prefix
  <2>4. Decoded' = Decoded /\ Digits' = Digits /\ Prefix' = Prefix
    BY <2>2, TextStays
  <2>5. Reading'
    BY <2>2, <2>3, <2>4 DEF Reading
  <2>6. Written'
    BY <1>11, <2>2, <2>3, <2>4 DEF Written
  <2>7. ASSUME outcome' = "invalid" PROVE Len(Digits) > 2 * ArraySize
    <3>1. Len(Digits) \in Nat /\ ArraySize \in Nat
      BY <2>1, DigitsAreDecoded, HexConstants
    <3>2. Len(Digits) \div 2 > ArraySize
      BY <2>2, <2>3, <2>7
    <3> QED
      BY ONLY <3>1, <3>2
  <2> QED
    BY <2>1, <2>2, <2>4, <2>5, <2>6, <2>7 DEF DecodeInv
<1>4. ASSUME DecodeInv, SkipPrefix PROVE DecodeInv'
  <2>1. HexInv /\ HexInv'
    BY <1>4, <1>10 DEF HexStep
  <2>2. /\ target' = target /\ hex_text' = hex_text /\ outcome = "decoding"
        /\ outcome' = "decoding" /\ i' = i + 1 /\ bytes' = bytes /\ it <= Len(s)
        /\ IsPrefixHere /\ Advance
    BY <1>4 DEF SkipPrefix, Round, Advance
  <2>3. ASSUME OnePrefix PROVE Reading' /\ Written'
    <3>1. Reading /\ Written
      BY <1>4, <2>2, <2>3 DEF DecodeInv
    <3>2. i' = 2 /\ Prefix = 2 /\ 2 % 2 = 0
      BY <2>1, <2>2, <2>3, <3>1, PrefixIsSkipped
    <3> QED
      BY <2>1, <2>2, <2>3, <3>1, <3>2, ReadingOn
  <2> QED
    BY <2>1, <2>2, <2>3, TextStays DEF DecodeInv
<1>5. ASSUME DecodeInv, NotADigit PROVE DecodeInv'
  <2>1. HexInv /\ HexInv'
    BY <1>5, <1>10 DEF HexStep
  <2>2. /\ target' = target /\ hex_text' = hex_text /\ outcome = "decoding"
        /\ outcome' = "invalid" /\ it <= Len(s) /\ ~IsPrefixHere /\ ~IsHexDigit(s[it])
    BY <1>5 DEF NotADigit, Round
  <2>3. ASSUME OnePrefix PROVE ~IsHex
    <3>1. Reading /\ Written
      BY <1>5, <2>2, <2>3 DEF DecodeInv
    <3>2. /\ i \in Nat /\ Prefix \in {0, 2} /\ i + 1 <= Len(Decoded) /\ Decoded[i + 1] = s[it]
          /\ Len(Digits) = Len(Decoded) - Prefix /\ Len(Decoded) \in Nat
          /\ Digits \in Seq(Char)
          /\ \A k \in 1..Len(Digits) : Digits[k] = Decoded[Prefix + k]
      BY <2>1, <2>2, <3>1, DigitsAreDecoded, NextCharacter DEF HexInv
    <3>3. ~(i < Prefix)
      BY <2>1, <2>2, <2>3, <3>1, PrefixIsSkipped
    <3>4. i + 1 - Prefix \in 1..Len(Digits) /\ Prefix + (i + 1 - Prefix) = i + 1
      BY <3>2, <3>3
    <3>5. Digits[i + 1 - Prefix] = s[it]
      BY <3>2, <3>4
    <3>6. DOMAIN Digits = 1..Len(Digits)
      BY <3>2
    <3> QED
      BY <2>2, <3>4, <3>5, <3>6 DEF IsHex
  <2> QED
    BY <2>1, <2>2, <2>3, TextStays DEF DecodeInv
<1>6. ASSUME DecodeInv, HighNibble PROVE DecodeInv'
  <2>1. HexInv /\ HexInv'
    BY <1>6, <1>10 DEF HexStep
  <2>2. /\ target' = target /\ hex_text' = hex_text /\ outcome = "decoding"
        /\ outcome' = "decoding" /\ i' = i + 1 /\ bytes' = bytes /\ it <= Len(s)
        /\ IsHexDigit(s[it]) /\ i % 2 = 0 /\ hi_nibble' = 16 * DigitValue[s[it]] /\ Advance
    BY <1>6 DEF HighNibble, Round, Advance
  <2>3. i' % 2 = 1
    BY <2>1, <2>2, Parity DEF HexInv
  <2>4. ASSUME OnePrefix PROVE Reading' /\ Written'
    <3>1. Reading /\ Written
      BY <1>6, <2>2, <2>4 DEF DecodeInv
    <3> QED
      BY <2>1, <2>2, <2>3, <2>4, <3>1, ReadingOn
  <2> QED
    BY <2>1, <2>2, <2>4, TextStays DEF DecodeInv
<1>7. ASSUME DecodeInv, LowNibble PROVE DecodeInv'
  <2>1. HexInv /\ HexInv'
    BY <1>7, <1>10 DEF HexStep
  <2>2. /\ target' = target /\ hex_text' = hex_text /\ outcome = "decoding"
        /\ outcome' = "decoding" /\ i' = i + 1 /\ hi_nibble' = hi_nibble /\ it <= Len(s)
        /\ bytes' = Append(bytes, hi_nibble + DigitValue[s[it]])
        /\ IsHexDigit(s[it]) /\ i % 2 = 1 /\ Advance
    BY <1>7 DEF LowNibble, Round, Advance
  <2>3. Decoded' = Decoded /\ Prefix' = Prefix
    BY <2>2, TextStays
  <2>4. ASSUME OnePrefix PROVE Reading' /\ Written'
    <3>1. Reading /\ Written
      BY <1>7, <2>2, <2>4 DEF DecodeInv
    <3>2. Reading'
      BY <2>1, <2>2, <3>1, ReadingAdvances
    <3>3. /\ i \in Nat /\ Prefix \in {0, 2} /\ Decoded[i + 1] = s[it]
          /\ bytes \in Seq(Int) /\ hi_nibble + DigitValue[s[it]] \in Int
          /\ Prefix = 2 => Decoded[2] = "x"
      <4>1. DigitValue[s[it]] \in Int
        BY <2>2, DigitValues
      <4>2. hi_nibble \in Int /\ bytes \in Seq(Int)
        BY <2>1 DEF HexInv
      <4> QED
        BY <2>1, <2>2, <3>1, <4>1, <4>2, DigitsAreDecoded, NextCharacter DEF HexInv
    <3>4. Prefix <= i
      <4>1. i % 2 = 1 => i # 0
        BY <3>3
      <4>2. i < Prefix => IsPrefixHere
        BY <2>1, <2>2, <2>4, <3>1, <4>1, PrefixIsSkipped
      <4>3. IsPrefixHere => s[it] = "x"
        BY DEF IsPrefixHere
      <4>4. ~IsHexDigit("x")
        BY DEF IsHexDigit, DigitValue
      <4> QED
        BY <2>2, <3>3, <4>2, <4>3, <4>4
    <3>5. /\ i' % 2 = 0 /\ i' \div 2 = i \div 2 + 1 /\ i = 2 * (i \div 2) + 1
          /\ i \div 2 \in Nat
      BY <2>2, <3>3, Parity
    <3>6. Len(bytes) = i \div 2 - Prefix \div 2 /\ Len(bytes) \in Nat
      BY <3>1, <3>3, <3>4 DEF Written
    <3> DEFINE k == Len(bytes) + 1
    <3>7. Prefix + 2 * k - 1 = i /\ Prefix + 2 * k = i + 1
      <4>1. Prefix = 2 * (Prefix \div 2) /\ Prefix \div 2 \in Nat
        BY ONLY <3>3
      <4> QED
        BY ONLY <3>3, <3>5, <3>6, <4>1
    <3>8. hi_nibble + DigitValue[s[it]] = ByteAt(k)
      <4>1. hi_nibble = 16 * DigitValue[Decoded[i]]
        BY <2>2, <3>1 DEF Written
      <4> HIDE DEF k
      <4> QED
        BY <3>3, <3>7, <4>1 DEF ByteAt
    <3>9. /\ Len(bytes') = Len(bytes) + 1 /\ bytes'[k] = ByteAt(k)
          /\ \A m \in 1..Len(bytes) : bytes'[m] = bytes[m]
      BY <2>2, <3>3, <3>8, AppendProperties
    <3>10. \A m \in 1..Len(bytes') : bytes'[m] = ByteAt(m)
      <4> TAKE m \in 1..Len(bytes')
      <4>1. m \in 1..Len(bytes) \/ m = k
        BY <3>6, <3>9
      <4> QED
        BY <3>1, <3>9, <4>1 DEF Written
    <3>11. \A m : ByteAt(m)' = ByteAt(m)
      BY <2>3 DEF ByteAt
    <3>12. \A m \in 1..i' : m > Prefix => IsHexDigit(Decoded[m])
      <4> TAKE m \in 1..i'
      <4>1. m \in 1..i \/ m = i + 1
        BY <2>2, <3>3
      <4> QED
        BY <2>2, <3>1, <3>3, <4>1 DEF Written
    <3>13. Len(bytes') = IF i' < Prefix THEN 0 ELSE i' \div 2 - Prefix \div 2
      <4>1. ~(i' < Prefix) /\ Prefix \div 2 \in Nat
        BY <2>2, <3>3, <3>4
      <4> QED
        BY <3>5, <3>6, <3>9, <4>1
    <3>14. i' % 2 # 1
      BY <3>5
    <3>15. Written'
      BY <2>3, <3>10, <3>11, <3>12, <3>13, <3>14 DEF Written
    <3> QED
      BY <3>2, <3>15
  <2> QED
    BY <2>1, <2>2, <2>4, TextStays DEF DecodeInv
<1>8. ASSUME DecodeInv, EndOfText PROVE DecodeInv'
  <2>1. HexInv /\ HexInv'
    BY <1>8, <1>10 DEF HexStep
  <2>2. /\ target' = target /\ hex_text' = hex_text /\ s' = s /\ it' = it /\ i' = i
        /\ bytes' = bytes /\ hi_nibble' = hi_nibble /\ it > Len(s) /\ outcome = "decoding"
        /\ outcome' = (IF i % 2 = 0 THEN "decoded" ELSE "invalid")
    BY <1>8 DEF EndOfText
  <2>3. ASSUME OnePrefix PROVE Reading /\ Written
    BY <1>8, <2>2, <2>3 DEF DecodeInv
  <2>4. Decoded' = Decoded /\ Prefix' = Prefix
    BY <2>2, TextStays
  <2>5. Reading' = Reading
    BY <2>2, <2>4 DEF Reading
  <2>6. Written' = Written
    <3>1. \A k : ByteAt(k)' = ByteAt(k)
      BY <2>4 DEF ByteAt
    <3> QED
      BY <2>2, <2>4, <3>1 DEF Written
  <2>7. ASSUME OnePrefix, i % 2 # 0 PROVE ~IsHex
    <3>1. i = Len(Decoded) /\ Prefix \in {0, 2} /\ Len(Digits) = Len(Decoded) - Prefix /\ i \in Nat
      BY <2>1, <2>2, <2>3, <2>7, NextCharacter, DigitsAreDecoded DEF HexInv
    <3>2. Len(Digits) \in Nat
      BY <2>1, DigitsAreDecoded
    <3>3. Len(Digits) % 2 # 0
      BY ONLY <2>7, <3>1, <3>2
    <3> QED
      BY <3>3 DEF IsHex
  <2> QED
    BY <2>1, <2>2, <2>3, <2>5, <2>6, <2>7, TextStays DEF DecodeInv
<1>9. ASSUME DecodeInv, UNCHANGED hexVars PROVE DecodeInv'
  <2>1. HexInv /\ HexInv'
    BY <1>9, <1>10
  <2>2. Decoded' = Decoded /\ Prefix' = Prefix /\ Digits' = Digits /\ IsHex' = IsHex
        /\ OnePrefix' = OnePrefix
    BY <1>9, TextStays DEF hexVars
  <2>3. Reading' = Reading
    BY <1>9, <2>2 DEF Reading, hexVars
  <2>4. Written' = Written
    <3>1. \A k : ByteAt(k)' = ByteAt(k)
      BY <2>2 DEF ByteAt
    <3> QED
      BY <1>9, <2>2, <3>1 DEF Written, hexVars
  <2> QED
    BY <1>9, <2>1, <2>2, <2>3, <2>4 DEF DecodeInv, hexVars
<1> QED
  BY <1>1, <1>2, <1>3, <1>4, <1>5, <1>6, <1>7, <1>8, <1>9 DEF HexStep

LEMMA HighAndLow ==
  ASSUME NEW a \in {0, 15}, NEW b \in {0, 15}
  PROVE  (16 * a + b) \div 16 = a /\ (16 * a + b) % 16 = b
<1>1. a = 0 \/ a = 15
  OBVIOUS
<1>2. b = 0 \/ b = 15
  OBVIOUS
<1> QED
  BY <1>1, <1>2

\* Every two digits are a byte, whose halves are the two.
LEMMA BytesEncodeDigits ==
  ASSUME HexInv, OnePrefix, Reading, Written, it > Len(s), i % 2 = 0
  PROVE  /\ IsHex /\ Len(Digits) = 2 * Len(bytes)
         /\ HexOf(bytes) = LowerCase(Digits)
<1>1. /\ i = Len(Decoded) /\ i \in Nat /\ Prefix \in {0, 2} /\ Digits \in Seq(Char)
      /\ Prefix = 2 => Len(Decoded) >= 2
      /\ Len(Digits) = i - Prefix /\ Len(Digits) \in Nat /\ bytes \in Seq(Int)
      /\ \A k \in 1..Len(Digits) : Digits[k] = Decoded[Prefix + k]
  BY DigitsAreDecoded, NextCharacter DEF HexInv
<1>2. i >= Prefix /\ i = 2 * (i \div 2) /\ i \div 2 \in Nat /\ Prefix = 2 * (Prefix \div 2)
  <2>1. i = 2 * (i \div 2) /\ i \div 2 \in Nat
    BY <1>1, Parity
  <2>2. Prefix \in {0, 2}
    BY <1>1
  <2>3. Prefix = 2 * (Prefix \div 2)
    BY ONLY <2>2
  <2>4. i >= Prefix
    BY <1>1
  <2> QED
    BY <2>1, <2>3, <2>4
<1>3. Len(bytes) = i \div 2 - Prefix \div 2
  BY <1>1, <1>2 DEF Written
<1>4. Len(Digits) = 2 * Len(bytes) /\ Len(Digits) % 2 = 0 /\ Len(bytes) \in Nat
  <2>1. Len(bytes) \in Nat
    BY <1>1
  <2>2. Len(Digits) = 2 * Len(bytes)
    <3>1. Len(Digits) = i - Prefix
      BY <1>1
    <3>2. PICK n \in Nat : n = i \div 2
      BY <1>2
    <3>3. i = 2 * n /\ Len(bytes) = n - Prefix \div 2 /\ Prefix = 2 * (Prefix \div 2)
      BY <1>2, <1>3, <3>2
    <3>4. Prefix \div 2 \in Int
      BY <1>1
    <3> QED
      BY ONLY <2>1, <3>1, <3>3, <3>4
  <2> QED
    BY ONLY <2>1, <2>2
<1>5. \A k \in 1..Len(Digits) : IsHexDigit(Digits[k])
  <2> TAKE k \in 1..Len(Digits)
  <2>1. Prefix + k \in 1..i /\ Prefix + k > Prefix
    BY <1>1
  <2> QED
    BY <1>1, <2>1 DEF Written
<1>6. DOMAIN Digits = 1..Len(Digits)
  BY <1>1
<1>7. IsHex
  BY <1>4, <1>5, <1>6 DEF IsHex
<1>8. ASSUME NEW k \in 1..Len(bytes)
      PROVE  /\ bytes[k] \div 16 = DigitValue[Digits[2 * k - 1]]
             /\ bytes[k] % 16 = DigitValue[Digits[2 * k]]
  <2>1. 2 * k - 1 \in 1..Len(Digits) /\ 2 * k \in 1..Len(Digits)
    BY <1>4
  <2>2. /\ Prefix + (2 * k - 1) = Prefix + 2 * k - 1
    BY <1>1
  <2>3. /\ Digits[2 * k - 1] = Decoded[Prefix + 2 * k - 1]
        /\ Digits[2 * k] = Decoded[Prefix + 2 * k]
    BY <1>1, <2>1, <2>2
  <2>4. bytes[k] = 16 * DigitValue[Digits[2 * k - 1]] + DigitValue[Digits[2 * k]]
    BY <2>3 DEF Written, ByteAt
  <2>5. DigitValue[Digits[2 * k - 1]] \in {0, 15} /\ DigitValue[Digits[2 * k]] \in {0, 15}
    BY <1>5, <2>1, DigitValues
  <2>6. PICK a \in {0, 15}, b \in {0, 15} :
          a = DigitValue[Digits[2 * k - 1]] /\ b = DigitValue[Digits[2 * k]]
    BY <2>5
  <2>7. bytes[k] = 16 * a + b
    BY <2>4, <2>6
  <2> QED
    BY <2>6, <2>7, HighAndLow
<1>9. ASSUME NEW n \in 1..Len(Digits)
      PROVE  (IF n % 2 = 1 THEN bytes[(n + 1) \div 2] \div 16 ELSE bytes[n \div 2] % 16)
               = DigitValue[Digits[n]]
  <2>1. n \in Nat /\ n <= 2 * Len(bytes) /\ n > 0
    BY <1>4
  <2>2. CASE n % 2 = 1
    <3>1. /\ (n + 1) \div 2 = n \div 2 + 1 /\ n = 2 * (n \div 2) + 1 /\ n \div 2 \in Nat
      BY <2>1, <2>2, Parity
    <3>2. PICK k \in Nat : k = (n + 1) \div 2
      BY <3>1
    <3>3. k \in 1..Len(bytes) /\ 2 * k - 1 = n
      <4>1. Len(bytes) \in Nat /\ 2 * k - 1 = n
        BY <1>4, <3>1, <3>2
      <4> QED
        BY ONLY <2>1, <4>1
    <3>4. bytes[k] \div 16 = DigitValue[Digits[n]]
      BY <1>8, <3>3
    <3> QED
      BY <2>2, <3>2, <3>4
  <2>3. CASE n % 2 = 0
    <3>1. n = 2 * (n \div 2) /\ n \div 2 \in Nat
      BY <2>1, <2>3, Parity
    <3>2. PICK k \in Nat : k = n \div 2
      BY <3>1
    <3>3. k \in 1..Len(bytes) /\ 2 * k = n
      <4>1. Len(bytes) \in Nat /\ 2 * k = n
        BY <1>4, <3>1, <3>2
      <4> QED
        BY ONLY <2>1, <4>1
    <3>4. bytes[k] % 16 = DigitValue[Digits[n]]
      BY <1>8, <3>3
    <3> QED
      BY <2>3, <3>2, <3>4
  <2> QED
    BY <2>1, <2>2, <2>3, Parity
<1>10. HexOf(bytes) = LowerCase(Digits)
  BY <1>4, <1>6, <1>9 DEF HexOf, LowerCase
<1> QED
  BY <1>4, <1>7, <1>10

\* The bytes of an array: zeros, and on their right what was written.
LEMMA ArrayEncodesDigits ==
  ASSUME HexInv, target = "array", Reading, IsHex, Len(Digits) = 2 * Len(bytes),
         HexOf(bytes) = LowerCase(Digits), Len(s) \div 2 <= ArraySize
  PROVE  HexOf(Array) = Zeros(2 * ArraySize - Len(Digits)) \o LowerCase(Digits)
<1>1. s = Digits /\ Digits \in Seq(Char) /\ bytes \in Seq(Int) /\ Len(bytes) \in Nat
  BY DigitsAreDecoded DEF HexInv, Reading, Decoded
<1>2. ArraySize \in Nat
  BY HexConstants
<1>3. Len(s) \div 2 = Len(bytes)
  <2>1. Len(s) = 2 * Len(bytes)
    BY <1>1
  <2> QED
    BY ONLY <1>1, <2>1
<1>4. PICK first \in Nat : first = ArraySize - Len(bytes)
  BY <1>1, <1>2, <1>3
<1>5. Array = [n \in 1..ArraySize |-> IF n - first \in 1..Len(bytes) THEN bytes[n - first] ELSE 0]
  <2>1. DOMAIN bytes = 1..Len(bytes)
    BY <1>1
  <2> QED
    BY <1>3, <1>4, <2>1 DEF Array
<1>6. Len(Array) = ArraySize
  <2>1. DOMAIN Array = 1..ArraySize
    BY <1>5
  <2>2. Array \in Seq(Int)
    <3>1. \A n \in 1..Len(bytes) : bytes[n] \in Int
      BY <1>1, ElementOfSeq
    <3>2. Array \in [1..ArraySize -> Int]
      BY <1>5, <3>1
    <3> QED
      BY <1>2, <3>2, SeqDef
  <2> QED
    BY <1>2, <2>1, <2>2, LenProperties
<1>7. PICK z \in Nat, a \in Nat :
        /\ z = 2 * first /\ a = 2 * ArraySize /\ z = 2 * ArraySize - Len(Digits)
        /\ z + Len(Digits) = a
  BY <1>1, <1>2, <1>4
<1>8. first \in Nat /\ z \in Nat /\ a \in Nat /\ Len(Digits) \in Nat
  BY <1>1, <1>4, <1>7
<1>9. HexDigits[0] = "0" /\ 0 \div 16 = 0 /\ 0 % 16 = 0
  BY DEF HexDigits
<1>10. \A n \in 1..Len(Digits) :
        LowerCase(Digits)[n]
          = HexDigits[IF n % 2 = 1 THEN bytes[(n + 1) \div 2] \div 16 ELSE bytes[n \div 2] % 16]
  BY DEF HexOf
<1>11. ASSUME NEW n \in 1..a
       PROVE  HexOf(Array)[n] = IF n <= z THEN "0" ELSE LowerCase(Digits)[n - z]
  <2>1. HexOf(Array)[n] = HexDigits[IF n % 2 = 1 THEN Array[(n + 1) \div 2] \div 16
                                    ELSE Array[n \div 2] % 16]
    BY <1>6, <1>7 DEF HexOf
  <2>2. PICK m \in 1..ArraySize :
          /\ n % 2 = 1 => (n + 1) \div 2 = m /\ n = 2 * m - 1
          /\ n % 2 # 1 => n \div 2 = m /\ n = 2 * m
    <3>1. n \in Nat /\ n > 0 /\ n <= 2 * ArraySize
      BY <1>7
    <3>2. CASE n % 2 = 1
      <4>1. (n + 1) \div 2 \in 1..ArraySize /\ n = 2 * ((n + 1) \div 2) - 1
        <5>1. (n + 1) \div 2 = n \div 2 + 1 /\ n = 2 * (n \div 2) + 1 /\ n \div 2 \in Nat
          BY <3>1, <3>2, Parity
        <5> QED
          BY <1>2, <3>1, <5>1
      <4> QED
        BY <3>2, <4>1
    <3>3. CASE n % 2 # 1
      <4>1. n \div 2 \in 1..ArraySize /\ n = 2 * (n \div 2)
        <5>1. n = 2 * (n \div 2) /\ n \div 2 \in Nat
          BY <3>1, <3>3, Parity
        <5> QED
          BY <1>2, <3>1, <5>1
      <4> QED
        BY <3>3, <4>1
    <3> QED
      BY <3>2, <3>3
  <2>3. HexOf(Array)[n] = HexDigits[IF n % 2 = 1 THEN Array[m] \div 16 ELSE Array[m] % 16]
    BY <2>1, <2>2
  <2>4. CASE n <= z
    <3>1. m - first \notin 1..Len(bytes)
      BY <1>1, <1>2, <1>4, <1>7, <2>2, <2>4
    <3>2. Array[m] = 0
      BY <1>5, <3>1
    <3> QED
      BY <1>9, <2>3, <2>4, <3>2
  <2>5. CASE n > z
    <3>1. /\ n \in Nat /\ m \in Nat /\ m <= ArraySize
          /\ n = 2 * m - 1 \/ n = 2 * m
      BY <1>2, <1>8, <2>2
    <3>2. PICK k \in 1..Len(bytes) : k = m - first
      <4>1. m - first \in 1..Len(bytes)
        BY <1>1, <1>2, <1>4, <1>7, <1>8, <2>5, <3>1
      <4> QED
        BY <4>1
    <3>3. k \in Nat /\ k + first = m
      BY <1>1, <1>8, <3>1, <3>2
    <3>4. Array[m] = bytes[k]
      BY <1>5, <3>2
    <3>5. PICK l \in 1..Len(Digits) : l = n - z
      BY <1>7, <1>8, <2>5, <3>1
    <3>6. l \in Nat /\ l + z = n
      BY <1>8, <3>1, <3>5
    <3>7. /\ n % 2 = 1 => l = 2 * k - 1
          /\ n % 2 # 1 => l = 2 * k
      <4>1. (n % 2 = 1 => n = 2 * m - 1) /\ (n % 2 # 1 => n = 2 * m)
        BY <2>2
      <4> QED
        BY <1>7, <1>8, <3>1, <3>3, <3>6, <4>1
    <3>8. CASE n % 2 = 1
      <4>1. l % 2 = 1 /\ (l + 1) \div 2 = k
        <5>1. l = 2 * k - 1 /\ k \in Nat
          BY <3>7, <3>8
        <5> QED
          BY ONLY <5>1
      <4>2. LowerCase(Digits)[l] = HexDigits[bytes[k] \div 16]
        BY <1>10, <4>1
      <4>3. HexOf(Array)[n] = HexDigits[bytes[k] \div 16]
        BY <2>3, <3>4, <3>8
      <4> QED
        BY <1>8, <2>5, <3>1, <3>5, <4>2, <4>3
    <3>9. CASE n % 2 # 1
      <4>1. l % 2 # 1 /\ l \div 2 = k
        <5>1. l = 2 * k /\ k \in Nat
          BY <3>7, <3>9
        <5> QED
          BY ONLY <5>1
      <4>2. LowerCase(Digits)[l] = HexDigits[bytes[k] % 16]
        BY <1>10, <4>1
      <4>3. HexOf(Array)[n] = HexDigits[bytes[k] % 16]
        BY <2>3, <3>4, <3>9
      <4> QED
        BY <1>8, <2>5, <3>1, <3>5, <4>2, <4>3
    <3> QED
      BY <3>8, <3>9
  <2> QED
    BY <1>7, <2>4, <2>5
<1>12. Zeros(z) \in Seq({"0", "f"}) /\ Len(Zeros(z)) = z /\ \A n \in 1..z : Zeros(z)[n] = "0"
  <2>1. Zeros(z) \in [1..z -> {"0", "f"}]
    BY DEF Zeros
  <2>2. Zeros(z) \in Seq({"0", "f"})
    BY <1>7, <2>1, SeqDef
  <2> QED
    BY <1>7, <2>1, <2>2, LenProperties DEF Zeros
<1>13. LowerCase(Digits) \in Seq({"0", "f"}) /\ Len(LowerCase(Digits)) = Len(Digits)
  <2>1. DOMAIN Digits = 1..Len(Digits) /\ Len(Digits) \in Nat
    BY <1>1
  <2>2. \A n \in 1..Len(Digits) : HexDigits[DigitValue[Digits[n]]] \in {"0", "f"}
    <3> TAKE n \in 1..Len(Digits)
    <3>1. IsHexDigit(Digits[n])
      BY <2>1 DEF IsHex
    <3>2. DigitValue[Digits[n]] \in {0, 15}
      BY <3>1, DigitValues
    <3> QED
      BY <3>2 DEF HexDigits
  <2>3. LowerCase(Digits) \in [1..Len(Digits) -> {"0", "f"}]
    BY <2>1, <2>2 DEF LowerCase
  <2>4. LowerCase(Digits) \in Seq({"0", "f"})
    BY <2>1, <2>3, SeqDef
  <2> QED
    BY <2>1, <2>3, <2>4, LenProperties
<1>14. PICK left \in Seq({"0", "f"}), right \in Seq({"0", "f"}) :
         left = Zeros(z) /\ right = LowerCase(Digits)
  BY <1>12, <1>13
<1>15. /\ left \o right \in Seq({"0", "f"}) /\ Len(left \o right) = a
       /\ \A n \in 1..a : (left \o right)[n] = IF n <= z THEN left[n] ELSE right[n - z]
  <2>1. Len(left) = z /\ Len(right) = Len(Digits)
    BY <1>12, <1>13, <1>14
  <2>2. Len(left) + Len(right) = a
    BY <1>7, <2>1
  <2>3. left \in Seq({"0", "f"}) /\ right \in Seq({"0", "f"})
    OBVIOUS
  <2>4. /\ left \o right \in Seq({"0", "f"})
        /\ Len(left \o right) = Len(left) + Len(right)
        /\ \A n \in 1..Len(left) + Len(right) :
             (left \o right)[n] = IF n <= Len(left) THEN left[n] ELSE right[n - Len(left)]
    BY ONLY <2>3, ConcatProperties
  <2> QED
    BY ONLY <2>1, <2>2, <2>4
<1>16. PICK both \in Seq({"0", "f"}) : both = left \o right
  BY <1>15
<1>17. \A n \in 1..a : (left \o right)[n] = HexOf(Array)[n]
  <2> TAKE n \in 1..a
  <2>1. n <= z => n \in 1..z
    BY <1>8
  <2>2. n <= z => left[n] = "0"
    BY <1>12, <1>14, <2>1
  <2> QED
    BY <1>11, <1>14, <1>15, <2>2
<1>18. HexOf(Array) = [n \in 1..a |-> HexOf(Array)[n]]
  BY <1>6, <1>7 DEF HexOf
<1>19. left \o right = [n \in 1..a |-> (left \o right)[n]]
  <2>1. Len(both) = a
    BY <1>15, <1>16
  <2>2. both = [n \in 1..Len(both) |-> both[n]]
    OBVIOUS
  <2> QED
    BY <1>16, <2>1, <2>2
<1>20. HexOf(Array) = left \o right
  BY <1>17, <1>18, <1>19
<1> QED
  BY <1>7, <1>14, <1>20

(* A text that is decoded is valid by the rules of hex.hpp, and encoding   *)
(* the bytes gives its digits back, of every length and for an array of    *)
(* every size; what is not decoded breaks a rule or does not fit.          *)
THEOREM Decoding == HexSpec => []DecodesAsDocumented
<1>1. DecodeInv => DecodesAsDocumented
  <2> SUFFICES ASSUME DecodeInv, OnePrefix
               PROVE  /\ outcome = "decoded" =>
                           /\ IsHex
                           /\ HexOf(bytes) = LowerCase(Digits)
                           /\ target = "array" =>
                                HexOf(Array)
                                  = Zeros(2 * ArraySize - Len(Digits)) \o LowerCase(Digits)
                      /\ outcome = "invalid" =>
                           ~IsHex \/ (target = "array" /\ Len(Digits) > 2 * ArraySize)
    BY DEF DecodesAsDocumented, OnePrefix
  <2>1. HexInv
    BY DEF DecodeInv
  <2>2. ASSUME outcome = "decoded"
        PROVE  /\ IsHex /\ HexOf(bytes) = LowerCase(Digits)
               /\ target = "array" =>
                    HexOf(Array) = Zeros(2 * ArraySize - Len(Digits)) \o LowerCase(Digits)
    <3>1. Reading /\ Written /\ it > Len(s) /\ i % 2 = 0
      BY <2>2 DEF DecodeInv
    <3>2. IsHex /\ Len(Digits) = 2 * Len(bytes) /\ HexOf(bytes) = LowerCase(Digits)
      BY <2>1, <3>1, BytesEncodeDigits
    <3>3. target = "array" => Len(s) \div 2 <= ArraySize
      BY <2>1, <2>2 DEF HexInv
    <3> QED
      BY <2>1, <3>1, <3>2, <3>3, ArrayEncodesDigits
  <2> QED
    BY <2>2 DEF DecodeInv
<1> QED
  BY <1>1, DecodingInverts, PTL DEF HexSpec
=============================================================================
