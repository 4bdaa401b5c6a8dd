--------------------------- MODULE NodeLifeProofs ---------------------------
(***************************************************************************)
(* What a call has behind it before a node sees it.  Of chains.py: what     *)
(* `_compact_size` writes before a script reads back as its length, at and  *)
(* around every width.  Of the two rounds over the caller's params: what    *)
(* the walk let pass the encoder takes.                                     *)
(*                                                                          *)
(* The argument of the second: there is a set H of pairs of a container and *)
(* a depth that holds what the walk has entered.  Each pair of H is on the  *)
(* path, vetted up to the item the walk is at, or vetted to its end, and    *)
(* what it holds is in H one level down.  When the walk ends no pair is on  *)
(* the path any more, and the encoder, which enters the same containers at  *)
(* the same depths, never leaves H.                                         *)
(***************************************************************************)
EXTENDS NodeLife, SequenceTheorems, TLAPS

-----------------------------------------------------------------------------
(* The prefix of a script.  Facts of large numbers are the SMT solver's.    *)

(* ReadCompactSize of Core, of the octets s.                                *)
Decode2(s, i) == s[i] + Radix * s[i + 1]
Decode4(s, i) == Decode2(s, i) + Square * Decode2(s, i + 2)
Decode8(s, i) == Decode4(s, i) + Square * Square * Decode4(s, i + 4)
Decode(s) ==
    CASE s[1] = Radix - 3 -> Decode2(s, 2)
      [] s[1] = Radix - 2 -> Decode4(s, 2)
      [] s[1] = Radix - 1 -> Decode8(s, 2)
      [] OTHER -> s[1]
Octet == 0 .. 255

(* Euclid's division, which the solver has for one divisor at a time.       *)
LEMMA Division ==
    ASSUME NEW n \in Nat, NEW d \in Nat, d > 0
    PROVE  /\ n % d \in 0 .. d - 1 /\ n \div d \in Nat
           /\ (n % d) + d * (n \div d) = n
BY SMT

LEMMA TwoOctets ==
    ASSUME Radix = 256, NEW n \in Nat, n < 65536
    PROVE  \E a, b \in Octet : LittleEndian2(n) = <<a, b>> /\ n = a + 256 * b
<1> DEFINE a == n % 256
           b == n \div 256
<1>1. LittleEndian2(n) = <<a, b>>
    BY SMT DEF LittleEndian2
<1>2. a \in 0 .. 255 /\ b \in Nat /\ a + 256 * b = n
    BY Division, SMT
<1> HIDE DEF a, b
<1>3. a \in Octet /\ b \in Octet
    BY <1>2, SMT DEF Octet
<1>4. n = a + 256 * b
    BY <1>2, SMT
<1> USE <1>3
<1> WITNESS a \in Octet, b \in Octet
<1> QED BY <1>1, <1>4, SMT

(* Two pairs of octets beside each other.                                   *)
LEMMA Pairs ==
    ASSUME NEW a \in Octet, NEW b \in Octet, NEW c \in Octet, NEW d \in Octet
    PROVE  <<a, b>> \o <<c, d>> = <<a, b, c, d>>
<1> DEFINE s == <<a, b>> \o <<c, d>>
<1>1. s \in Seq(Octet) /\ Len(s) = 4
    BY SMT
<1>2. s[1] = a /\ s[2] = b
    BY SMT
<1>3. s[3] = c /\ s[4] = d
    BY SMT
<1> HIDE DEF s
<1>4. s = <<a, b, c, d>>
    BY <1>1, <1>2, <1>3, SMT
<1> QED BY <1>4, SMT DEF s

LEMMA FourOctets ==
    ASSUME Radix = 256, NEW n \in Nat, n < 4294967296
    PROVE  \E a, b, c, d \in Octet :
              LittleEndian4(n) = <<a, b, c, d>> /\ n = a + 256 * b + 65536 * (c + 256 * d)
<1> DEFINE lo == n % 65536
           hi == n \div 65536
<1>1. LittleEndian4(n) = LittleEndian2(lo) \o LittleEndian2(hi)
    BY SMT DEF LittleEndian4, Square
<1>2. lo \in Nat /\ lo < 65536 /\ hi \in Nat /\ lo + 65536 * hi = n
    BY Division, SMT
<1> HIDE DEF lo, hi
<1>3. hi < 65536
    BY <1>2, SMT
<1>4. PICK a, b \in Octet : LittleEndian2(lo) = <<a, b>> /\ lo = a + 256 * b
    BY <1>2, TwoOctets, SMT
<1>5. PICK c, d \in Octet : LittleEndian2(hi) = <<c, d>> /\ hi = c + 256 * d
    BY <1>2, <1>3, TwoOctets, SMT
<1>6. LittleEndian4(n) = <<a, b, c, d>>
    BY <1>1, <1>4, <1>5, Pairs, SMT
<1>7. n = a + 256 * b + 65536 * (c + 256 * d)
    BY <1>2, <1>4, <1>5, SMT DEF Octet
<1> QED BY <1>6, <1>7, SMT

LEMMA EightOctets ==
    ASSUME Radix = 256, NEW n \in Nat, n < 4294967296 * 4294967296
    PROVE  \E a, b, c, d, e, f, g, h \in Octet :
              /\ LittleEndian8(n) = <<a, b, c, d, e, f, g, h>>
              /\ n = a + 256 * b + 65536 * (c + 256 * d)
                     + 4294967296 * (e + 256 * f + 65536 * (g + 256 * h))
<1> DEFINE lo == n % 4294967296
           hi == n \div 4294967296
<1>1. LittleEndian8(n) = LittleEndian4(lo) \o LittleEndian4(hi)
    BY SMT DEF LittleEndian8, Square
<1>2. lo \in Nat /\ lo < 4294967296 /\ hi \in Nat /\ lo + 4294967296 * hi = n
    BY Division, SMT
<1> HIDE DEF lo, hi
<1>3. hi < 4294967296
    BY <1>2, SMT
<1>4. PICK a, b, c, d \in Octet :
          LittleEndian4(lo) = <<a, b, c, d>> /\ lo = a + 256 * b + 65536 * (c + 256 * d)
    BY <1>2, FourOctets, SMT
<1>5. PICK e, f, g, h \in Octet :
          LittleEndian4(hi) = <<e, f, g, h>> /\ hi = e + 256 * f + 65536 * (g + 256 * h)
    BY <1>2, <1>3, FourOctets, SMT
<1>6. LittleEndian8(n) = <<a, b, c, d, e, f, g, h>>
    BY <1>1, <1>4, <1>5, SMT
<1>7. n = a + 256 * b + 65536 * (c + 256 * d)
              + 4294967296 * (e + 256 * f + 65536 * (g + 256 * h))
    BY <1>2, <1>4, <1>5, SMT DEF Octet
<1> QED BY <1>6, <1>7, SMT

(* The prefix `_compact_size` writes for a length below 2^64 is read back   *)
(* by its first octet, whichever of the four widths it has.                 *)
THEOREM PrefixReadsBack ==
    ASSUME Radix = 256, NEW n \in Nat, n < 4294967296 * 4294967296
    PROVE  Decode(CompactSize(n)) = n
<1>1. CASE n < 253
    BY <1>1, SMT DEF CompactSize, Decode
<1>2. CASE n >= 253 /\ n < 65536
  <2>1. PICK a, b \in Octet : LittleEndian2(n) = <<a, b>> /\ n = a + 256 * b
      BY <1>2, TwoOctets, SMT
  <2>2. CompactSize(n) = <<253, a, b>>
      BY <1>2, <2>1, SMT DEF CompactSize, Square
  <2> QED BY <2>1, <2>2, SMT DEF Decode, Decode2
<1>3. CASE n >= 65536 /\ n < 4294967296
  <2>1. PICK a, b, c, d \in Octet :
            LittleEndian4(n) = <<a, b, c, d>> /\ n = a + 256 * b + 65536 * (c + 256 * d)
      BY <1>3, FourOctets, SMT
  <2>2. CompactSize(n) = <<254, a, b, c, d>>
      BY <1>3, <2>1, SMT DEF CompactSize, Square
  <2> QED BY <2>1, <2>2, SMT DEF Decode, Decode4, Decode2, Square
<1>4. CASE n >= 4294967296
  <2>1. PICK a, b, c, d, e, f, g, h \in Octet :
            /\ LittleEndian8(n) = <<a, b, c, d, e, f, g, h>>
            /\ n = a + 256 * b + 65536 * (c + 256 * d)
                   + 4294967296 * (e + 256 * f + 65536 * (g + 256 * h))
      BY <1>4, EightOctets, SMT
  <2>2. CompactSize(n) = <<255, a, b, c, d, e, f, g, h>>
      BY <1>4, <2>1, SMT DEF CompactSize, Square
  <2> QED BY <2>1, <2>2, SMT DEF Decode, Decode8, Decode4, Decode2, Square
<1> QED BY <1>1, <1>2, <1>3, <1>4, SMT

-----------------------------------------------------------------------------
(* The rounds over the params.                                             *)

SizeOf(c) == Len(heap[c].items)

(* The encoder takes item k of the container c at depth d, but for a number *)
(* of too many digits, and what it holds is in H.                           *)
Fits(c, k, d, H) ==
    LET i == heap[c].items[k] IN
    /\ ~ (heap[c].kind = "dict" /\ i.name = "other")
    /\ d <= MaxParamsDepth
    /\ i.value \notin {"object", "nan"}
    /\ i.value \in Containers => <<i.value, d + 1>> \in H
Whole(c, d, H) == \A k \in 1 .. SizeOf(c) : Fits(c, k, d, H)
Begun(c, d, H) ==
    /\ phase = "walk" /\ d \in DOMAIN path /\ path[d].of = c
    /\ \A k \in 1 .. path[d].at - 1 : Fits(c, k, d, H)

Vetted(H) ==
    /\ \A j \in DOMAIN path : <<path[j].of, j>> \in H
    /\ \A c \in Containers, d \in Nat : <<c, d>> \in H => Whole(c, d, H) \/ Begun(c, d, H)
    /\ phase = "walk" =>
          \A j \in DOMAIN members[2] :
              \/ <<members[2][j], 1>> \in H
              \/ \E k \in DOMAIN members[1] : members[1][k] = members[2][j]
    /\ phase = "encode" => \A j \in DOMAIN members[1] : <<members[1][j], 1>> \in H

RoundsOK ==
    /\ phase = "walk" => Len(members) = 2
    /\ phase = "encode" => Len(members) = 1
    /\ \A j \in DOMAIN path : path[j].at > 0
WrittenOK == \A i \in written : i.name = "string" /\ i.value \in {"scalar"} \cup Containers
(* Where nothing came between.                                              *)
RefusalOK == refusal.as # "runtime" /\ (refusal.in = "encode" => refusal.as = "digits")
SizesOK == \A j \in DOMAIN path : path[j].size = SizeOf(path[j].of)
ParamsInv ==
    /\ ParamsTypeOK /\ RoundsOK /\ WrittenOK
    /\ changes = 0 => RefusalOK /\ SizesOK /\ (Reading => \E H : Vetted(H))

(* The frame on top, and the container it is of.                            *)
LEMMA OnTop ==
    ASSUME ParamsTypeOK, RoundsOK, path # <<>>
    PROVE  /\ Len(path) \in Nat /\ Len(path) > 0 /\ Len(path) \in DOMAIN path
           /\ Top = path[Len(path)] /\ Top \in Frame /\ Top.of \in Containers
           /\ Top.at \in Nat /\ Top.at > 0
           /\ Here \in Container /\ Here.items \in Seq(Item)
<1>1. path \in Seq(Frame) /\ heap \in [Containers -> Container]
    BY Zenon DEF ParamsTypeOK
<1>2. Len(path) \in Nat /\ Len(path) > 0 /\ Len(path) \in DOMAIN path /\ Top = path[Len(path)]
    BY <1>1, SMT DEF Top
<1>3. Top \in Frame
    BY <1>1, <1>2, SMT
<1>4. Top.of \in Containers /\ Top.at \in Nat
    BY <1>3, SMT DEF Frame
<1>5. Top.at > 0
    BY <1>2, Zenon DEF RoundsOK
<1>6. Here \in Container
    BY <1>1, <1>4, SMT DEF Here
<1>7. Here.items \in Seq(Item)
    BY <1>6, SMT DEF Container
<1> QED BY <1>2, <1>3, <1>4, <1>5, <1>6, <1>7

LEMMA ThisItem ==
    ASSUME ParamsTypeOK, RoundsOK, path # <<>>, AtItem
    PROVE  /\ This \in Item /\ Top.at \in 1 .. SizeOf(Top.of) /\ This = heap[Top.of].items[Top.at]
           /\ This.value \in Leaves \cup Containers
<1>1. Top.at \in Nat /\ Top.at > 0 /\ Here.items \in Seq(Item) /\ Top.at <= Len(Here.items)
    BY OnTop, Zenon DEF AtItem
<1>2. Top.at \in 1 .. SizeOf(Top.of) /\ This = heap[Top.of].items[Top.at]
    BY <1>1, SMT DEF SizeOf, Here, This
<1>3. This \in Item
    BY <1>1, SMT DEF This
<1>4. This.value \in Leaves \cup Containers
    BY <1>3, SMT DEF Item
<1> QED BY <1>2, <1>3, <1>4

(* The path without its last frame, with that one an item on, and with a    *)
(* loop of another container behind it.                                    *)
LEMMA Shortened ==
    ASSUME NEW F, NEW s \in Seq(F), s # <<>>, NEW n, n = Len(s) - 1
    PROVE  /\ SubSeq(s, 1, n) \in Seq(F) /\ Len(SubSeq(s, 1, n)) = n
           /\ DOMAIN SubSeq(s, 1, n) = 1 .. n
           /\ \A j \in 1 .. n : SubSeq(s, 1, n)[j] = s[j]
<1>1. Len(s) \in Nat /\ Len(s) > 0
    BY SMT
<1>2. n \in Nat /\ n < Len(s) /\ 1 \in Int /\ n \in Int
    BY <1>1, SMT
<1>3. \A j \in 1 .. n : s[j] \in F
    BY <1>1, <1>2, SMT
<1> DEFINE t == SubSeq(s, 1, n)
<1>4. /\ t \in Seq(F) /\ Len(t) = (IF 1 <= n THEN n - 1 + 1 ELSE 0)
      /\ \A j \in 1 .. n - 1 + 1 : t[j] = s[1 + j - 1]
    BY ONLY <1>2, <1>3, SubSeqProperties
<1> HIDE DEF t
<1>5. Len(t) = n
    BY <1>2, <1>4, SMT
<1>6. \A j \in 1 .. n : t[j] = s[j]
    BY <1>2, <1>4, SMT
<1>7. DOMAIN t = 1 .. n
    BY <1>4, <1>5, SMT
<1> QED BY <1>4, <1>5, <1>6, <1>7, Zenon DEF t

LEMMA Popped ==
    ASSUME path \in Seq(Frame), path # <<>>
    PROVE  /\ Outer \in Seq(Frame) /\ Len(Outer) = Len(path) - 1
           /\ DOMAIN Outer = 1 .. Len(path) - 1
           /\ \A j \in 1 .. Len(path) - 1 : Outer[j] = path[j]
BY Shortened, Zenon DEF Outer

LEMMA MovedOn ==
    ASSUME path \in Seq(Frame), path # <<>>, Top \in Frame
    PROVE  /\ Onward \in Seq(Frame) /\ Len(Onward) = Len(path)
           /\ DOMAIN Onward = 1 .. Len(path)
           /\ \A j \in 1 .. Len(path) - 1 : Onward[j] = path[j]
           /\ Onward[Len(path)] = [Top EXCEPT !.at = @ + 1]
<1> DEFINE next == [Top EXCEPT !.at = @ + 1]
<1>1. next \in Frame
    BY SMT DEF Frame
<1> HIDE DEF next
<1>2. /\ Outer \in Seq(Frame) /\ Len(Outer) = Len(path) - 1 /\ Len(path) \in Nat /\ Len(path) > 0
      /\ \A j \in 1 .. Len(path) - 1 : Outer[j] = path[j]
    BY Popped, SMT
<1>3. Onward = Outer \o <<next>>
    BY Zenon DEF Onward, next
<1>4. /\ Onward \in Seq(Frame) /\ Len(Onward) = Len(path) /\ DOMAIN Onward = 1 .. Len(path)
      /\ \A j \in 1 .. Len(path) - 1 : Onward[j] = path[j]
      /\ Onward[Len(path)] = next
    BY <1>1, <1>2, <1>3, SMT
<1> QED BY <1>4, Zenon DEF next

LEMMA Entered ==
    ASSUME NEW s \in Seq(Frame), NEW f \in Frame, NEW n, n = Len(s), NEW t, t = s \o <<f>>
    PROVE  /\ t \in Seq(Frame) /\ Len(t) = n + 1 /\ DOMAIN t = 1 .. n + 1
           /\ \A j \in 1 .. n : t[j] = s[j]
           /\ t[n + 1] = f
BY SMT

LEMMA LoopFrame ==
    ASSUME ParamsTypeOK, NEW c \in Containers
    PROVE  Loop(c) \in Frame /\ Loop(c).of = c /\ Loop(c).at = 1 /\ Loop(c).size = SizeOf(c)
<1>1. heap[c].items \in Seq(Item)
    BY SMT DEF ParamsTypeOK, Container
<1>2. Len(heap[c].items) \in Nat
    BY <1>1, SMT
<1> QED BY <1>2, SMT DEF Loop, Frame, SizeOf

(* What is vetted stays so when H grows, and while nothing comes between.   *)
LEMMA FitsMore ==
    ASSUME NEW H, NEW K, H \subseteq K, NEW c, NEW k, NEW d, Fits(c, k, d, H)
    PROVE  Fits(c, k, d, K)
BY Zenon DEF Fits

LEMMA HeapKept ==
    ASSUME heap' = heap, NEW H, NEW c, NEW d
    PROVE  /\ SizeOf(c)' = SizeOf(c) /\ \A k : Fits(c, k, d, H)' <=> Fits(c, k, d, H)
           /\ Whole(c, d, H)' <=> Whole(c, d, H)
<1>1. SizeOf(c)' = SizeOf(c)
    BY Zenon DEF SizeOf
<1>2. \A k : Fits(c, k, d, H)' <=> Fits(c, k, d, H)
    BY Zenon DEF Fits
<1> QED BY <1>1, <1>2, Zenon DEF Whole

LEMMA WholeMore ==
    ASSUME heap' = heap, NEW H, NEW K, H \subseteq K, NEW c, NEW d, Whole(c, d, H)
    PROVE  Whole(c, d, K)'
<1>1. Whole(c, d, K)
    BY FitsMore, Zenon DEF Whole
<1> QED BY <1>1, HeapKept, Zenon

(* A sequence of one or of two without its first.                           *)
LEMMA FewLeft ==
    ASSUME NEW F, NEW s \in Seq(F)
    PROVE  /\ Len(s) = 1 => Tail(s) = <<>>
           /\ Len(s) = 2 => s[2] \in F /\ Tail(s) = <<s[2]>>
<1>1. ASSUME Len(s) = 1 PROVE Tail(s) = <<>>
  <2>1. s # <<>> /\ Len(s) - 1 = 0
    <3>1. Len(s) # 0
        BY <1>1, SMT
    <3>2. s # <<>>
        BY <3>1, EmptySeq, Zenon
    <3>3. Len(s) - 1 = 0
        BY <1>1, SMT
    <3> QED BY <3>2, <3>3
  <2>2. Tail(s) \in Seq(F) /\ Len(Tail(s)) = Len(s) - 1
      BY <2>1, HeadTailProperties, Zenon
  <2> QED BY <2>1, <2>2, EmptySeq, Zenon
<1>2. ASSUME Len(s) = 2 PROVE s[2] \in F /\ Tail(s) = <<s[2]>>
  <2>1. s[2] \in F /\ Tail(s) \in Seq(F) /\ Len(Tail(s)) = 1 /\ Tail(s)[1] = s[2]
      BY <1>2, SMT
  <2> DEFINE t == Tail(s)
             x == s[2]
  <2> HIDE DEF t, x
  <2>2. t \in Seq(F) /\ Len(t) = 1 /\ t[1] = x
      BY <2>1, Zenon DEF t, x
  <2>3. t = <<x>>
      BY <2>2, SMT
  <2> QED BY <2>1, <2>3, Zenon DEF t, x
<1> QED BY <1>1, <1>2, Zenon

(* The lists of the members of the two rounds.                              *)
LEMMA Rounds ==
    ASSUME ParamsTypeOK, RoundsOK, Reading
    PROVE  /\ members \in Seq(Seq(Containers)) /\ members # <<>>
           /\ Head(members) = members[1] /\ members[1] \in Seq(Containers)
           /\ phase = "walk" => /\ Len(members) = 2 /\ members[2] \in Seq(Containers)
                                /\ Tail(members) = <<members[2]>>
           /\ phase = "encode" => Len(members) = 1 /\ Tail(members) = <<>>
<1>1. members \in Seq(Seq(Containers))
    BY Zenon DEF ParamsTypeOK
<1>2. Len(members) = 2 \/ Len(members) = 1
    BY SMT DEF Reading, RoundsOK
<1>3. members # <<>> /\ Head(members) = members[1] /\ members[1] \in Seq(Containers)
    BY <1>1, <1>2, SMT
<1>4. ASSUME phase = "walk"
      PROVE  Len(members) = 2 /\ members[2] \in Seq(Containers) /\ Tail(members) = <<members[2]>>
  <2>1. Len(members) = 2
      BY <1>4, Zenon DEF RoundsOK
  <2> QED BY <1>1, <2>1, FewLeft, Zenon
<1>5. ASSUME phase = "encode" PROVE Len(members) = 1 /\ Tail(members) = <<>>
  <2>1. Len(members) = 1
      BY <1>5, Zenon DEF RoundsOK
  <2> QED BY <1>1, <2>1, FewLeft, Zenon
<1> QED BY <1>1, <1>3, <1>4, <1>5, Zenon

LEMMA FirstOf ==
    ASSUME NEW s \in Seq(Containers), s # <<>>
    PROVE  /\ Head(s) \in Containers /\ Head(s) = s[1] /\ Tail(s) \in Seq(Containers)
           /\ 1 \in DOMAIN s
           /\ \A k \in DOMAIN s : s[k] = Head(s) \/ \E m \in DOMAIN Tail(s) : Tail(s)[m] = s[k]
           /\ \A m \in DOMAIN Tail(s) : \E k \in DOMAIN s : s[k] = Tail(s)[m]
<1>1. Head(s) \in Containers /\ Head(s) = s[1] /\ Tail(s) \in Seq(Containers) /\ 1 \in DOMAIN s
    BY SMT
<1>2. ASSUME NEW k \in DOMAIN s, k # 1 PROVE \E m \in DOMAIN Tail(s) : Tail(s)[m] = s[k]
  <2>1. k - 1 \in DOMAIN Tail(s) /\ Tail(s)[k - 1] = s[k]
      BY <1>2, SMT
  <2> QED BY <2>1, Zenon
<1>3. ASSUME NEW m \in DOMAIN Tail(s) PROVE \E k \in DOMAIN s : s[k] = Tail(s)[m]
  <2>1. m + 1 \in DOMAIN s /\ s[m + 1] = Tail(s)[m]
      BY <1>3, SMT
  <2> QED BY <2>1, Zenon
<1> QED BY <1>1, <1>2, <1>3, Zenon

LEMMA Alone ==
    ASSUME NEW x
    PROVE  <<x>>[1] = x /\ DOMAIN <<x>> = {1} /\ DOMAIN <<>> = {}
BY SMT

LEMMA NothingBegun ==
    ASSUME path = <<>>, NEW H, Vetted(H), NEW c \in Containers, NEW d \in Nat, <<c, d>> \in H
    PROVE  Whole(c, d, H)
<1>1. d \notin DOMAIN path
    BY SMT
<1> QED BY <1>1, Zenon DEF Vetted, Begun

(* The first member is entered, in one round and in the other; or the walk  *)
(* is over, and what it vetted it vetted to its end.                        *)
LEMMA NextMemberVets ==
    ASSUME ParamsTypeOK, RoundsOK, NEW H, Vetted(H), NextMember, Reading'
    PROVE  \E K : Vetted(K)'
<1> DEFINE first == members[1]
           root == Head(first)
<1>1. Reading /\ path = <<>> /\ heap' = heap
    BY Zenon DEF NextMember
<1>2. /\ members \in Seq(Seq(Containers)) /\ Head(members) = first /\ first \in Seq(Containers)
      /\ phase = "walk" => /\ Len(members) = 2 /\ members[2] \in Seq(Containers)
                           /\ Tail(members) = <<members[2]>>
      /\ phase = "encode" => Len(members) = 1 /\ Tail(members) = <<>>
    BY <1>1, Rounds, Zenon
<1>3. \A c \in Containers, d \in Nat : <<c, d>> \in H => Whole(c, d, H)
    BY <1>1, NothingBegun, Zenon
<1> HIDE DEF first
<1>4. CASE first # <<>>
  <2>1. /\ path' = <<Loop(root)>> /\ members' = <<Tail(first)>> \o Tail(members)
        /\ phase' = phase
      BY <1>2, <1>4, Zenon DEF NextMember
  <2>2. root \in Containers /\ root = first[1] /\ Tail(first) \in Seq(Containers)
      BY <1>2, <1>4, FirstOf, Zenon
  <2>3. PICK K : K = H \cup {<<root, 1>>}
      BY Zenon
  <2>4. DOMAIN path' = {1} /\ path'[1].of = root /\ path'[1].at = 1
    <3>1. Loop(root).of = root /\ Loop(root).at = 1
        BY <2>2, LoopFrame, Zenon
    <3> QED BY <2>1, <3>1, SMT
  <2>5. \A j \in DOMAIN path' : <<path'[j].of, j>> \in K
      BY <2>3, <2>4, Zenon
  <2>6. members'[1] = Tail(first) /\ (phase = "walk" => members'[2] = members[2])
      BY <1>2, <2>1, SMT
  <2>7. ASSUME NEW c \in Containers, NEW d \in Nat, <<c, d>> \in K
        PROVE  Whole(c, d, K)' \/ Begun(c, d, K)'
    <3>1. CASE <<c, d>> \in H
      <4>1. H \subseteq K
          BY <2>3, Zenon
      <4> QED BY <1>1, <1>3, <3>1, <4>1, WholeMore, Zenon
    <3>2. CASE c = root /\ d = 1 /\ phase = "walk"
      <4>1. \A k \in 1 .. path'[1].at - 1 : Fits(c, k, d, K)'
          BY <2>4, SMT
      <4> QED BY <2>1, <2>4, <3>2, <4>1, Zenon DEF Begun
    <3>3. CASE c = root /\ d = 1 /\ phase = "encode"
      <4>1. <<c, d>> \in H
          BY <1>2, <1>4, <2>2, <3>3, FirstOf, Zenon DEF Vetted, first
      <4> QED BY <3>1, <4>1
    <3> QED BY <1>1, <2>3, <2>7, <3>1, <3>2, <3>3, Zenon DEF Reading
  <2>8. ASSUME phase = "walk", NEW j \in DOMAIN members[2]
        PROVE  \/ <<members[2][j], 1>> \in K
               \/ \E k \in DOMAIN Tail(first) : Tail(first)[k] = members[2][j]
    <3>1. <<members[2][j], 1>> \in H \/ \E k \in DOMAIN first : first[k] = members[2][j]
        BY <2>8, Zenon DEF Vetted, first
    <3>2. CASE <<members[2][j], 1>> \in H
        BY <2>3, <3>2, Zenon
    <3>3. ASSUME NEW k \in DOMAIN first, first[k] = members[2][j]
          PROVE  \/ <<members[2][j], 1>> \in K
                 \/ \E m \in DOMAIN Tail(first) : Tail(first)[m] = members[2][j]
      <4>1. first[k] = root \/ \E m \in DOMAIN Tail(first) : Tail(first)[m] = first[k]
          BY <1>2, <1>4, FirstOf, Zenon
      <4> QED BY <2>3, <3>3, <4>1, Zenon
    <3> QED BY <3>1, <3>2, <3>3, Zenon
  <2>9. ASSUME phase = "encode", NEW j \in DOMAIN Tail(first) PROVE <<Tail(first)[j], 1>> \in K
    <3>1. PICK k \in DOMAIN first : first[k] = Tail(first)[j]
        BY <1>2, <1>4, FirstOf, Zenon
    <3>2. <<first[k], 1>> \in H
        BY <2>9, Zenon DEF Vetted, first
    <3> QED BY <2>3, <3>1, <3>2, Zenon
  <2>10. phase' = "walk" =>
            \A j \in DOMAIN members'[2] :
                \/ <<members'[2][j], 1>> \in K
                \/ \E k \in DOMAIN members'[1] : members'[1][k] = members'[2][j]
      BY <2>1, <2>6, <2>8, Zenon
  <2>11. phase' = "encode" => \A j \in DOMAIN members'[1] : <<members'[1][j], 1>> \in K
      BY <2>1, <2>6, <2>9, Zenon
  <2> QED BY <2>5, <2>7, <2>10, <2>11, Zenon DEF Vetted
<1>5. CASE first = <<>>
  <2>1. /\ members' = Tail(members) /\ path' = <<>>
        /\ phase' = IF phase = "walk" THEN "encode" ELSE "built"
      BY <1>1, <1>2, <1>5, Zenon DEF NextMember
  <2>2. phase = "walk" /\ phase' = "encode" /\ members' = <<members[2]>>
      BY <1>2, <2>1, SMT DEF Reading
  <2>3. \A j \in DOMAIN members[2] : <<members[2][j], 1>> \in H
    <3>1. DOMAIN first = {}
        BY <1>5, SMT
    <3> QED BY <2>2, <3>1, Zenon DEF Vetted, first
  <2>4. members'[1] = members[2] /\ DOMAIN path' = {}
    <3>1. members'[1] = members[2]
        BY <2>2, Alone, Zenon
    <3>2. DOMAIN path' = {}
        BY <2>1, Alone, Zenon
    <3> QED BY <3>1, <3>2
  <2>5. \A c \in Containers, d \in Nat : <<c, d>> \in H => Whole(c, d, H)'
      BY <1>1, <1>3, WholeMore, Zenon
  <2>6. phase' # "walk"
      BY <2>2, SMT
  <2> QED BY <2>2, <2>3, <2>4, <2>5, <2>6, Zenon DEF Vetted
<1> QED BY <1>4, <1>5
(* A container is left at its end: every item of it is vetted.              *)
LEMMA LeaveVets ==
    ASSUME ParamsTypeOK, RoundsOK, NEW H, Vetted(H), LeaveContainer
    PROVE  Vetted(H)'
<1> DEFINE n == Len(path)
<1>1. /\ path # <<>> /\ LoopEnds /\ path' = Outer
      /\ heap' = heap /\ members' = members /\ phase' = phase
    BY Zenon DEF LeaveContainer
<1>2. /\ n \in Nat /\ n > 0 /\ Top = path[n] /\ Top.of \in Containers /\ Top.at \in Nat
      /\ Here.items \in Seq(Item)
    BY <1>1, OnTop, Zenon
<1>3. path \in Seq(Frame)
    BY Zenon DEF ParamsTypeOK
<1>4. DOMAIN path' = 1 .. n - 1 /\ \A j \in 1 .. n - 1 : path'[j] = path[j]
    BY <1>1, <1>3, Popped, Zenon
<1>5. DOMAIN path = 1 .. n
    BY <1>3, SMT
<1>6. SizeOf(Top.of) < Top.at /\ SizeOf(Top.of) \in Nat
    BY <1>1, <1>2, SMT DEF LoopEnds, SizeOf, Here
<1> HIDE DEF n
<1>7. ASSUME NEW j \in DOMAIN path' PROVE <<path'[j].of, j>> \in H
  <2>1. j \in DOMAIN path
      BY <1>2, <1>4, <1>5, SMT
  <2> QED BY <1>4, <2>1, Zenon DEF Vetted
<1>8. ASSUME NEW c \in Containers, NEW d \in Nat, <<c, d>> \in H
      PROVE  Whole(c, d, H)' \/ Begun(c, d, H)'
  <2>1. CASE Whole(c, d, H)
      BY <1>1, <2>1, HeapKept, Zenon
  <2>2. CASE Begun(c, d, H) /\ d = n
    <3>1. c = Top.of /\ \A k \in 1 .. Top.at - 1 : Fits(c, k, d, H)
        BY <1>2, <2>2, Zenon DEF Begun
    <3>2. 1 .. SizeOf(c) \subseteq 1 .. Top.at - 1
        BY <1>2, <1>6, <3>1, SMT
    <3>3. Whole(c, d, H)
        BY <3>1, <3>2, Zenon DEF Whole
    <3> QED BY <2>1, <3>3
  <2>3. CASE Begun(c, d, H) /\ d # n
    <3>1. d \in 1 .. n - 1
        BY <1>2, <1>5, <2>3, SMT DEF Begun
    <3>2. path'[d].of = c /\ \A k \in 1 .. path'[d].at - 1 : Fits(c, k, d, H)
        BY <1>4, <2>3, <3>1, Zenon DEF Begun
    <3>3. \A k \in 1 .. path'[d].at - 1 : Fits(c, k, d, H)'
        BY <1>1, <3>2, HeapKept, Zenon
    <3> QED BY <1>1, <1>4, <2>3, <3>1, <3>2, <3>3, Zenon DEF Begun
  <2> QED BY <1>8, <2>1, <2>2, <2>3, Zenon DEF Vetted
<1>9. /\ phase' = "walk" =>
            \A j \in DOMAIN members'[2] :
                \/ <<members'[2][j], 1>> \in H
                \/ \E k \in DOMAIN members'[1] : members'[1][k] = members'[2][j]
      /\ phase' = "encode" => \A j \in DOMAIN members'[1] : <<members'[1][j], 1>> \in H
    BY <1>1, Zenon DEF Vetted
<1> QED BY <1>7, <1>8, <1>9, Zenon DEF Vetted

(* The path after an item: the loop on top is an item on, and behind it     *)
(* there is the loop of the container the item is, if it is one.            *)
LEMMA ItemRead ==
    ASSUME ParamsTypeOK, RoundsOK, path # <<>>, AtItem,
           path' = IF IsLeaf(This.value) THEN Onward ELSE Onward \o <<Loop(This.value)>>
    PROVE  /\ path' \in Seq(Frame)
           /\ DOMAIN path' = 1 .. (IF IsLeaf(This.value) THEN Len(path) ELSE Len(path) + 1)
           /\ \A j \in 1 .. Len(path) - 1 : path'[j] = path[j]
           /\ path'[Len(path)] = [Top EXCEPT !.at = @ + 1]
           /\ ~ IsLeaf(This.value) =>
                  /\ This.value \in Containers /\ path'[Len(path) + 1] = Loop(This.value)
<1> DEFINE n == Len(path)
           v == This.value
<1>1. path \in Seq(Frame)
    BY Zenon DEF ParamsTypeOK
<1>2. n \in Nat /\ n > 0 /\ Top \in Frame
    BY OnTop, Zenon
<1>3. /\ Onward \in Seq(Frame) /\ Len(Onward) = n /\ DOMAIN Onward = 1 .. n
      /\ \A j \in 1 .. n - 1 : Onward[j] = path[j]
      /\ Onward[n] = [Top EXCEPT !.at = @ + 1]
    BY <1>1, <1>2, MovedOn, Zenon
<1>4. CASE IsLeaf(v)
    BY <1>3, <1>4, Zenon
<1>5. CASE ~ IsLeaf(v)
  <2>1. v \in Containers
      BY <1>5, ThisItem, Zenon DEF IsLeaf
  <2>2. Loop(v) \in Frame
      BY <2>1, LoopFrame, Zenon
  <2>3. path' = Onward \o <<Loop(v)>>
      BY <1>5, Zenon
  <2>4. /\ path' \in Seq(Frame) /\ DOMAIN path' = 1 .. n + 1
        /\ \A j \in 1 .. n : path'[j] = Onward[j]
        /\ path'[n + 1] = Loop(v)
    <3> DEFINE f == Loop(v)
               s == Onward
    <3>1. s \in Seq(Frame) /\ f \in Frame /\ Len(s) = n /\ path' = s \o <<f>>
        BY <1>3, <2>2, <2>3, Zenon
    <3> HIDE DEF f, s, n, v
    <3>2. /\ path' \in Seq(Frame) /\ DOMAIN path' = 1 .. n + 1
          /\ \A j \in 1 .. n : path'[j] = s[j]
          /\ path'[n + 1] = f
        BY ONLY <3>1, Entered, SMT
    <3> QED BY <3>2, Zenon DEF f, s
  <2>5. n \in 1 .. n /\ \A j \in 1 .. n - 1 : j \in 1 .. n
      BY <1>2, SMT
  <2> HIDE DEF n, v
  <2> QED BY <1>3, <1>5, <2>1, <2>4, <2>5, Zenon DEF n, v
<1> QED BY <1>4, <1>5

LEMMA WalkPasses ==
    ASSUME ParamsTypeOK, RoundsOK, path # <<>>, AtItem, WalkRefusal = "none"
    PROVE  /\ ~ BadName /\ Len(path) <= MaxParamsDepth /\ This.value \notin {"object", "nan"}
<1>1. Len(path) \in Nat /\ MaxParamsDepth \in Nat
    BY OnTop, ParamsAssumption, Zenon
<1>2. ~ BadName
    BY SMT DEF WalkRefusal
<1>3. Len(path) <= MaxParamsDepth
    BY <1>1, <1>2, SMT DEF WalkRefusal
<1>4. This.value # "object" /\ This.value \notin Enclosing \cup {"nan"}
    BY <1>2, <1>3, SMT DEF WalkRefusal
<1> QED BY <1>2, <1>3, <1>4, Zenon

(* An item the walk takes is vetted, and a container it is is entered.      *)
LEMMA WalkItemVets ==
    ASSUME ParamsTypeOK, RoundsOK, NEW H, Vetted(H), ReadItem, phase = "walk", phase' = "walk"
    PROVE  \E K : Vetted(K)'
<1> DEFINE n == Len(path)
           v == This.value
<1>1. path # <<>> /\ AtItem
    BY Zenon DEF ReadItem
<1>2. WalkRefusal = "none"
    BY SMT DEF ReadItem, RefuseAs
<1>3. /\ path' = (IF IsLeaf(This.value) THEN Onward ELSE Onward \o <<Loop(This.value)>>)
      /\ heap' = heap /\ members' = members
    BY <1>2, Zenon DEF ReadItem
<1>4. ~ BadName /\ Len(path) <= MaxParamsDepth /\ This.value \notin {"object", "nan"}
    BY <1>1, <1>2, WalkPasses, Zenon
<1>5. /\ This \in Item /\ Top.at \in 1 .. SizeOf(Top.of) /\ This = heap[Top.of].items[Top.at]
      /\ v \in Leaves \cup Containers
    BY <1>1, ThisItem, Zenon
<1>6. /\ n \in Nat /\ n > 0 /\ n \in DOMAIN path /\ Top = path[n] /\ Top \in Frame
      /\ Top.of \in Containers /\ Top.at \in Nat
    BY <1>1, OnTop, Zenon
<1>7. /\ DOMAIN path' = 1 .. (IF IsLeaf(v) THEN n ELSE n + 1)
      /\ \A j \in 1 .. n - 1 : path'[j] = path[j]
      /\ path'[n] = [Top EXCEPT !.at = @ + 1]
      /\ ~ IsLeaf(v) => v \in Containers /\ path'[n + 1] = Loop(v)
    BY <1>1, <1>3, ItemRead, Zenon
<1>8. path'[n].of = Top.of /\ path'[n].at = Top.at + 1
    BY <1>6, <1>7, SMT DEF Frame
<1>9. ~ IsLeaf(v) => path'[n + 1].of = v /\ path'[n + 1].at = 1
    BY <1>7, LoopFrame, Zenon
<1>10. path \in Seq(Frame)
    BY Zenon DEF ParamsTypeOK
<1>11. DOMAIN path = 1 .. n
    BY <1>10, SMT
<1> PICK K : K = H \cup IF IsLeaf(v) THEN {} ELSE {<<v, n + 1>>}
    BY Zenon
<1>12. H \subseteq K /\ (~ IsLeaf(v) => <<v, n + 1>> \in K)
       /\ \A x \in K : x \in H \/ (~ IsLeaf(v) /\ x = <<v, n + 1>>)
    BY Zenon
<1>13. Fits(Top.of, Top.at, n, K)
  <2>1. ~ (heap[Top.of].kind = "dict" /\ heap[Top.of].items[Top.at].name = "other")
      BY <1>4, <1>5, Zenon DEF BadName, Here
  <2>2. v \in Containers => <<v, n + 1>> \in K
      BY <1>12, ParamsAssumption, Zenon DEF IsLeaf
  <2> QED BY <1>4, <1>5, <2>1, <2>2, Zenon DEF Fits
<1> HIDE DEF n, v
<1>14. ASSUME NEW j \in DOMAIN path' PROVE <<path'[j].of, j>> \in K
  <2>1. CASE j \in 1 .. n - 1
    <3>1. j \in DOMAIN path
        BY <1>6, <1>11, <2>1, SMT
    <3> QED BY <1>7, <1>12, <2>1, <3>1, Zenon DEF Vetted
  <2>2. CASE j = n
      BY <1>6, <1>8, <1>12, <2>2, Zenon DEF Vetted
  <2>3. CASE ~ IsLeaf(v) /\ j = n + 1
      BY <1>9, <1>12, <2>3, Zenon
  <2>4. j \in 1 .. n - 1 \/ j = n \/ (~ IsLeaf(v) /\ j = n + 1)
      BY <1>6, <1>7, SMT
  <2> QED BY <2>1, <2>2, <2>3, <2>4
<1>15. ASSUME NEW c \in Containers, NEW d \in Nat, <<c, d>> \in K
       PROVE  Whole(c, d, K)' \/ Begun(c, d, K)'
  <2>1. CASE <<c, d>> \in H /\ Whole(c, d, H)
      BY <1>3, <1>12, <2>1, WholeMore, Zenon
  <2>2. CASE Begun(c, d, H)
    <3>1. d \in 1 .. n /\ path[d].of = c /\ \A k \in 1 .. path[d].at - 1 : Fits(c, k, d, K)
        BY <1>11, <1>12, <2>2, FitsMore, Zenon DEF Begun
    <3>2. path'[d].of = c /\ \A k \in 1 .. path'[d].at - 1 : Fits(c, k, d, K)
      <4>1. CASE d = n
        <5>1. c = Top.of /\ path'[d].of = c
            BY <1>6, <1>8, <3>1, <4>1, Zenon
        <5>2. path'[d].at - 1 = Top.at /\ path[d].at = Top.at
            BY <1>6, <1>8, <4>1, SMT
        <5>3. \A k \in 1 .. Top.at : k \in 1 .. Top.at - 1 \/ k = Top.at
            BY <1>6, SMT
        <5> QED BY <1>13, <3>1, <4>1, <5>1, <5>2, <5>3, Zenon
      <4>2. CASE d \in 1 .. n - 1
          BY <1>7, <3>1, <4>2, Zenon
      <4>3. d = n \/ d \in 1 .. n - 1
          BY <1>6, <3>1, SMT
      <4> QED BY <4>1, <4>2, <4>3
    <3>3. \A k \in 1 .. path'[d].at - 1 : Fits(c, k, d, K)'
        BY <1>3, <3>2, HeapKept, Zenon
    <3>4. d \in DOMAIN path'
        BY <1>6, <1>7, <3>1, SMT
    <3> QED BY <3>2, <3>3, <3>4, Zenon DEF Begun
  <2>3. CASE ~ IsLeaf(v) /\ c = v /\ d = n + 1
    <3>1. d \in DOMAIN path'
        BY <1>6, <1>7, <2>3, SMT
    <3>2. \A k \in 1 .. path'[d].at - 1 : Fits(c, k, d, K)'
        BY <1>9, <2>3, SMT
    <3> QED BY <1>9, <2>3, <3>1, <3>2, Zenon DEF Begun
  <2> QED BY <1>12, <1>15, <2>1, <2>2, <2>3, Zenon DEF Vetted
<1>16. \A j \in DOMAIN members'[2] :
           \/ <<members'[2][j], 1>> \in K
           \/ \E k \in DOMAIN members'[1] : members'[1][k] = members'[2][j]
    BY <1>3, <1>12, Zenon DEF Vetted
<1>17. phase' # "encode"
    BY SMT
<1> QED BY <1>14, <1>15, <1>16, <1>17, Zenon DEF Vetted

(* What the encoder meets has been vetted, as deep as it meets it.          *)
LEMMA EncodesVetted ==
    ASSUME ParamsTypeOK, RoundsOK, NEW H, Vetted(H), phase = "encode", path # <<>>, AtItem
    PROVE  /\ Fits(Top.of, Top.at, Len(path), H)
           /\ EncodeRefusal \in {"none", "digits"}
<1>1. /\ Len(path) \in Nat /\ Len(path) \in DOMAIN path /\ Top = path[Len(path)]
      /\ Top.of \in Containers
    BY OnTop, Zenon
<1>2. This = heap[Top.of].items[Top.at] /\ Top.at \in 1 .. SizeOf(Top.of)
    BY ThisItem, Zenon
<1>3. phase # "walk"
    BY SMT
<1>4. Whole(Top.of, Len(path), H)
    BY <1>1, <1>3, Zenon DEF Vetted, Begun
<1>5. Fits(Top.of, Top.at, Len(path), H)
    BY <1>2, <1>4, Zenon DEF Whole
<1>6. ~ BadName /\ Len(path) <= MaxParamsDepth /\ This.value # "object" /\ This.value # "nan"
    BY <1>2, <1>5, Zenon DEF Fits, BadName, Here
<1>7. ~ (Len(path) >= MaxStack)
    BY <1>1, <1>6, ParamsAssumption, SMT
<1>8. EncodeRefusal \in {"none", "digits"}
    BY <1>6, <1>7, SMT DEF EncodeRefusal
<1> QED BY <1>5, <1>8

LEMMA EncodeItemVets ==
    ASSUME ParamsTypeOK, RoundsOK, NEW H, Vetted(H), ReadItem, phase = "encode", phase' = "encode"
    PROVE  Vetted(H)'
<1> DEFINE n == Len(path)
           v == This.value
<1>1. path # <<>> /\ AtItem
    BY Zenon DEF ReadItem
<1>2. EncodeRefusal = "none"
    BY SMT DEF ReadItem, RefuseAs
<1>3. phase # "walk"
    BY SMT
<1>4. /\ path' = (IF IsLeaf(This.value) THEN Onward ELSE Onward \o <<Loop(This.value)>>)
      /\ heap' = heap /\ members' = members
    BY <1>2, <1>3, Zenon DEF ReadItem
<1>5. This = heap[Top.of].items[Top.at]
    BY <1>1, ThisItem, Zenon
<1>6. /\ n \in Nat /\ n > 0 /\ n \in DOMAIN path /\ Top = path[n] /\ Top \in Frame
    BY <1>1, OnTop, Zenon
<1>7. /\ DOMAIN path' = 1 .. (IF IsLeaf(v) THEN n ELSE n + 1)
      /\ \A j \in 1 .. n - 1 : path'[j] = path[j]
      /\ path'[n] = [Top EXCEPT !.at = @ + 1]
      /\ ~ IsLeaf(v) => v \in Containers /\ path'[n + 1] = Loop(v)
    BY <1>1, <1>4, ItemRead, Zenon
<1>8. path'[n].of = Top.of
    BY <1>6, <1>7, SMT DEF Frame
<1>9. ~ IsLeaf(v) => path'[n + 1].of = v
    BY <1>7, LoopFrame, Zenon
<1>10. path \in Seq(Frame)
    BY Zenon DEF ParamsTypeOK
<1>11. DOMAIN path = 1 .. n
    BY <1>10, SMT
<1>12. v \in Containers => <<v, n + 1>> \in H
    BY <1>1, <1>5, EncodesVetted, Zenon DEF Fits
<1> HIDE DEF n, v
<1>13. ASSUME NEW j \in DOMAIN path' PROVE <<path'[j].of, j>> \in H
  <2>1. CASE j \in 1 .. n - 1
    <3>1. j \in DOMAIN path
        BY <1>6, <1>11, <2>1, SMT
    <3> QED BY <1>7, <2>1, <3>1, Zenon DEF Vetted
  <2>2. CASE j = n
      BY <1>6, <1>8, <2>2, Zenon DEF Vetted
  <2>3. CASE ~ IsLeaf(v) /\ j = n + 1
      BY <1>7, <1>9, <1>12, <2>3, Zenon
  <2>4. j \in 1 .. n - 1 \/ j = n \/ (~ IsLeaf(v) /\ j = n + 1)
      BY <1>6, <1>7, SMT
  <2> QED BY <2>1, <2>2, <2>3, <2>4
<1>14. ASSUME NEW c \in Containers, NEW d \in Nat, <<c, d>> \in H PROVE Whole(c, d, H)'
  <2>1. Whole(c, d, H)
      BY <1>3, <1>14, Zenon DEF Vetted, Begun
  <2> QED BY <1>4, <2>1, HeapKept, Zenon
<1>15. \A j \in DOMAIN members'[1] : <<members'[1][j], 1>> \in H
    BY <1>4, Zenon DEF Vetted
<1>16. phase' # "walk"
    BY SMT
<1> QED BY <1>13, <1>14, <1>15, <1>16, Zenon DEF Vetted

-----------------------------------------------------------------------------
(* The invariant of the rounds, by action.                                  *)

LEMMA NextMemberKeeps == ASSUME ParamsInv, NextMember PROVE ParamsInv'
<1> DEFINE first == members[1]
<1>1. ParamsTypeOK /\ RoundsOK /\ WrittenOK
    BY Zenon DEF ParamsInv
<1>2. Reading /\ path = <<>> /\ UNCHANGED <<heap, refusal, written, changes>>
    BY Zenon DEF NextMember
<1>3. /\ members \in Seq(Seq(Containers)) /\ Head(members) = first /\ first \in Seq(Containers)
      /\ phase = "walk" => /\ Len(members) = 2 /\ members[2] \in Seq(Containers)
                           /\ Tail(members) = <<members[2]>>
      /\ phase = "encode" => Len(members) = 1 /\ Tail(members) = <<>>
    BY <1>1, <1>2, Rounds, Zenon
<1> HIDE DEF first
<1>4. ASSUME first # <<>> PROVE ParamsTypeOK' /\ RoundsOK' /\ SizesOK'
  <2> PICK root : root = Head(first)
      BY Zenon
  <2>1. /\ path' = <<Loop(root)>> /\ members' = <<Tail(first)>> \o Tail(members)
        /\ phase' = phase
      BY <1>3, <1>4, Zenon DEF NextMember
  <2>2. root \in Containers /\ Tail(first) \in Seq(Containers)
      BY <1>3, <1>4, FirstOf, Zenon
  <2>3. /\ Loop(root) \in Frame /\ Loop(root).of = root
        /\ Loop(root).at = 1 /\ Loop(root).size = SizeOf(root)
      BY <1>1, <2>2, LoopFrame, Zenon
  <2>4. path' \in Seq(Frame)
      BY <2>1, <2>3, SMT
  <2>5. Tail(members) \in Seq(Seq(Containers))
        /\ Len(Tail(members)) = IF phase = "walk" THEN 1 ELSE 0
    <3>1. members # <<>>
        BY <1>1, <1>2, Rounds, Zenon
    <3>2. Tail(members) \in Seq(Seq(Containers)) /\ Len(Tail(members)) = Len(members) - 1
        BY <1>3, <3>1, HeadTailProperties, Zenon
    <3> QED BY <1>2, <1>3, <3>2, SMT DEF Reading
  <2>6. members' \in Seq(Seq(Containers)) /\ Len(members') = 1 + Len(Tail(members))
      BY <2>1, <2>2, <2>5, SMT
  <2>7. DOMAIN path' = {1} /\ path'[1] = Loop(root)
      BY <2>1, Alone, Zenon
  <2>8. RoundsOK'
      BY <2>1, <2>3, <2>5, <2>6, <2>7, SMT DEF RoundsOK
  <2>9. SizesOK'
    <3>1. SizeOf(root)' = SizeOf(root)
        BY <1>2, Zenon DEF SizeOf
    <3> QED BY <2>3, <2>7, <3>1, Zenon DEF SizesOK
  <2>10. ParamsTypeOK'
      BY <1>1, <1>2, <2>1, <2>4, <2>6, Zenon DEF ParamsTypeOK
  <2> QED BY <2>8, <2>9, <2>10, Zenon
<1>5. ASSUME first = <<>> PROVE ParamsTypeOK' /\ RoundsOK' /\ SizesOK'
  <2>1. /\ members' = Tail(members) /\ path' = <<>>
        /\ phase' = IF phase = "walk" THEN "encode" ELSE "built"
      BY <1>2, <1>3, <1>5, Zenon DEF NextMember
  <2>2. members' \in Seq(Seq(Containers)) /\ (phase' = "encode" => Len(members') = 1)
      BY <1>2, <1>3, <2>1, SMT DEF Reading
  <2>3. path' \in Seq(Frame) /\ DOMAIN path' = {}
      BY <2>1, SMT
  <2>4. phase' \in {"encode", "built"}
      BY <2>1, SMT
  <2>5. RoundsOK'
      BY <2>2, <2>3, <2>4, SMT DEF RoundsOK
  <2>6. ParamsTypeOK'
      BY <1>1, <1>2, <2>2, <2>3, <2>4, SMT DEF ParamsTypeOK
  <2> QED BY <2>3, <2>5, <2>6, Zenon DEF SizesOK
<1>6. ParamsTypeOK' /\ RoundsOK' /\ SizesOK'
    BY <1>4, <1>5, Zenon
<1>7. WrittenOK'
    BY <1>1, <1>2, Zenon DEF WrittenOK
<1>8. ASSUME changes' = 0 PROVE RefusalOK' /\ SizesOK' /\ (Reading' => \E K : Vetted(K)')
  <2>1. changes = 0
      BY <1>2, <1>8, Zenon
  <2>2. RefusalOK'
      BY <1>2, <2>1, Zenon DEF ParamsInv, RefusalOK
  <2>3. PICK H : Vetted(H)
      BY <1>2, <2>1, Zenon DEF ParamsInv
  <2> QED BY <1>1, <1>6, <2>2, <2>3, NextMemberVets, Zenon
<1> QED BY <1>6, <1>7, <1>8, Zenon DEF ParamsInv

LEMMA LeaveKeeps == ASSUME ParamsInv, LeaveContainer PROVE ParamsInv'
<1>1. ParamsTypeOK /\ RoundsOK /\ WrittenOK
    BY Zenon DEF ParamsInv
<1>2. /\ Reading /\ path # <<>> /\ path' = Outer
      /\ UNCHANGED <<heap, members, phase, refusal, written, changes>>
    BY Zenon DEF LeaveContainer
<1>3. path \in Seq(Frame)
    BY <1>1, Zenon DEF ParamsTypeOK
<1>4. /\ path' \in Seq(Frame) /\ DOMAIN path' = 1 .. Len(path) - 1
      /\ \A j \in 1 .. Len(path) - 1 : path'[j] = path[j]
    BY <1>2, <1>3, Popped, Zenon
<1>5. 1 .. Len(path) - 1 \subseteq DOMAIN path
    BY <1>3, SMT
<1>6. ParamsTypeOK'
    BY <1>1, <1>2, <1>4, Zenon DEF ParamsTypeOK
<1>7. RoundsOK'
    BY <1>1, <1>2, <1>4, <1>5, Zenon DEF RoundsOK
<1>8. WrittenOK'
    BY <1>1, <1>2, Zenon DEF WrittenOK
<1>9. ASSUME changes' = 0 PROVE RefusalOK' /\ SizesOK' /\ (Reading' => \E K : Vetted(K)')
  <2>1. changes = 0
      BY <1>2, <1>9, Zenon
  <2>2. RefusalOK'
      BY <1>2, <2>1, Zenon DEF ParamsInv, RefusalOK
  <2>3. SizesOK'
    <3>1. SizesOK
        BY <2>1, Zenon DEF ParamsInv
    <3> QED BY <1>2, <1>4, <1>5, <3>1, Zenon DEF SizesOK, SizeOf
  <2>4. PICK H : Vetted(H)
      BY <1>2, <2>1, Zenon DEF ParamsInv
  <2>5. Vetted(H)'
      BY <1>1, <2>4, LeaveVets, Zenon
  <2> QED BY <2>2, <2>3, <2>5, Zenon
<1> QED BY <1>6, <1>7, <1>8, <1>9, Zenon DEF ParamsInv

(* What a refusal leaves, whatever it is for.                               *)
LEMMA RefusalKeeps ==
    ASSUME ParamsInv, Reading, NEW kind \in {"type", "value", "digits", "runtime"}, RefuseAs(kind),
           changes = 0 => kind # "runtime" /\ (phase = "encode" => kind = "digits")
    PROVE  ParamsInv'
<1>1. ParamsTypeOK /\ WrittenOK
    BY Zenon DEF ParamsInv
<1>2. /\ phase' = "refused" /\ refusal' = [in |-> phase, as |-> kind]
      /\ path' = <<>> /\ members' = <<>> /\ UNCHANGED <<heap, written, changes>>
    BY Zenon DEF RefuseAs
<1>3. phase \in {"walk", "encode"}
    BY Zenon DEF Reading
<1>4. refusal' \in [in : {"none", "walk", "encode"},
                    as : {"none", "type", "value", "digits", "runtime"}]
    BY <1>2, <1>3, SMT
<1>5. /\ members' \in Seq(Seq(Containers)) /\ path' \in Seq(Frame) /\ DOMAIN path' = {}
      /\ phase' \in {"none", "walk", "encode", "built", "refused"}
      /\ phase' # "walk" /\ phase' # "encode"
    BY <1>2, SMT
<1>6. ParamsTypeOK'
    BY <1>1, <1>2, <1>4, <1>5, Zenon DEF ParamsTypeOK
<1>7. RoundsOK' /\ SizesOK' /\ ~ Reading'
    BY <1>5, SMT DEF RoundsOK, SizesOK, Reading
<1>8. WrittenOK'
    BY <1>1, <1>2, Zenon DEF WrittenOK
<1>9. changes' = 0 => RefusalOK'
    BY <1>2, SMT DEF RefusalOK
<1> QED BY <1>6, <1>7, <1>8, <1>9, Zenon DEF ParamsInv

(* A loop whose dict has another size than at its start.                    *)
LEMMA InterruptedKeeps == ASSUME ParamsInv, Interrupted PROVE ParamsInv'
<1>1. ParamsTypeOK /\ RoundsOK /\ (changes = 0 => SizesOK)
    BY Zenon DEF ParamsInv
<1>2. Reading /\ path # <<>> /\ Resized /\ RefuseAs("runtime")
    BY Zenon DEF Interrupted
<1>3. Len(path) \in DOMAIN path /\ Top = path[Len(path)]
    BY <1>1, <1>2, OnTop, Zenon
<1>4. changes # 0
    BY <1>1, <1>2, <1>3, Zenon DEF Resized, SizesOK, SizeOf, Here
<1> QED BY <1>2, <1>4, RefusalKeeps, SMT

(* An item read, in either round.                                           *)
LEMMA ItemKeeps ==
    ASSUME ParamsInv, ReadItem, (IF phase = "walk" THEN WalkRefusal ELSE EncodeRefusal) = "none"
    PROVE  ParamsInv'
<1>1. ParamsTypeOK /\ RoundsOK /\ WrittenOK
    BY Zenon DEF ParamsInv
<1>2. Reading /\ path # <<>> /\ AtItem
    BY Zenon DEF ReadItem
<1>3. /\ path' = (IF IsLeaf(This.value) THEN Onward ELSE Onward \o <<Loop(This.value)>>)
      /\ written' = (IF phase = "encode"
                     THEN written \cup {[name |-> IF BadName THEN "other" ELSE "string",
                                         value |-> This.value]}
                     ELSE written)
      /\ UNCHANGED <<heap, members, phase, refusal, changes>>
    BY Zenon DEF ReadItem
<1>4. /\ path' \in Seq(Frame)
      /\ DOMAIN path' = 1 .. (IF IsLeaf(This.value) THEN Len(path) ELSE Len(path) + 1)
      /\ \A j \in 1 .. Len(path) - 1 : path'[j] = path[j]
      /\ path'[Len(path)] = [Top EXCEPT !.at = @ + 1]
      /\ ~ IsLeaf(This.value) =>
             This.value \in Containers /\ path'[Len(path) + 1] = Loop(This.value)
    BY <1>1, <1>2, <1>3, ItemRead, Zenon
<1>5. /\ Len(path) \in Nat /\ Len(path) > 0 /\ Len(path) \in DOMAIN path /\ Top = path[Len(path)]
      /\ Top \in Frame /\ Top.at \in Nat
    BY <1>1, <1>2, OnTop, Zenon
<1>6. This.value \in Leaves \cup Containers
    BY <1>1, <1>2, ThisItem, Zenon
<1>7. /\ path'[Len(path)].of = Top.of /\ path'[Len(path)].at = Top.at + 1
      /\ path'[Len(path)].size = Top.size
    BY <1>4, <1>5, SMT DEF Frame
<1> PICK v, n : v = This.value /\ n = Len(path)
    BY Zenon
<1>8. ~ IsLeaf(v) => path'[n + 1].of = v /\ path'[n + 1].at = 1 /\ path'[n + 1].size = SizeOf(v)
    BY <1>1, <1>4, LoopFrame, Zenon
<1>9. \A j \in DOMAIN path' : j \in 1 .. n - 1 \/ j = n \/ (~ IsLeaf(v) /\ j = n + 1)
    BY <1>4, <1>5, SMT
<1>10. path \in Seq(Frame) /\ DOMAIN path = 1 .. n
  <2>1. path \in Seq(Frame)
      BY <1>1, Zenon DEF ParamsTypeOK
  <2> QED BY <2>1, SMT
<1>11. \A j \in 1 .. n - 1 : j \in DOMAIN path
    BY <1>5, <1>10, SMT
<1>12. RoundsOK'
  <2>1. ASSUME NEW j \in DOMAIN path' PROVE path'[j].at > 0
    <3>1. CASE j \in 1 .. n - 1
        BY <1>1, <1>4, <1>11, <3>1, Zenon DEF RoundsOK
    <3>2. CASE j = n
        BY <1>5, <1>7, <3>2, SMT
    <3>3. CASE ~ IsLeaf(v) /\ j = n + 1
        BY <1>8, <3>3, SMT
    <3> QED BY <1>9, <3>1, <3>2, <3>3, Zenon
  <2> QED BY <1>1, <1>3, <2>1, Zenon DEF RoundsOK
<1>13. ASSUME SizesOK PROVE SizesOK'
  <2>1. ASSUME NEW j \in DOMAIN path' PROVE path'[j].size = SizeOf(path'[j].of)
    <3>1. CASE j \in 1 .. n - 1
        BY <1>4, <1>11, <1>13, <3>1, Zenon DEF SizesOK
    <3>2. CASE j = n
        BY <1>5, <1>7, <1>13, <3>2, Zenon DEF SizesOK
    <3>3. CASE ~ IsLeaf(v) /\ j = n + 1
        BY <1>8, <3>3, Zenon
    <3> QED BY <1>9, <3>1, <3>2, <3>3, Zenon
  <2>2. \A j \in DOMAIN path' : path'[j].size = Len(heap'[path'[j].of].items)
      BY <1>3, <2>1, Zenon DEF SizeOf
  <2> QED BY <2>2, Zenon DEF SizesOK, SizeOf
<1>14. phase = "encode" => ~ BadName /\ v \in {"scalar"} \cup Containers
  <2>1. ASSUME phase = "encode" PROVE ~ BadName /\ v \notin {"object", "digits", "nan"}
    <3>1. EncodeRefusal = "none"
        BY <2>1, SMT
    <3> QED BY <3>1, SMT DEF EncodeRefusal
  <2> QED BY <1>6, <2>1, Zenon DEF Leaves
<1>15. \A i \in written' :
           \/ i \in written
           \/ phase = "encode" /\ i = [name |-> "string", value |-> v]
    BY <1>3, <1>14, Zenon
<1>16. WrittenOK' /\ written' \subseteq Item
  <2>1. ASSUME phase = "encode", NEW i, i = [name |-> "string", value |-> v]
        PROVE  i.name = "string" /\ i.value \in {"scalar"} \cup Containers /\ i \in Item
    <3>1. v \in {"scalar"} \cup Containers
        BY <1>14, <2>1, Zenon
    <3>2. i.name = "string" /\ i.value = v
        BY <2>1, SMT
    <3>3. i \in Item
        BY <1>6, <2>1, SMT DEF Item
    <3> QED BY <3>1, <3>2, <3>3, Zenon
  <2>2. written \subseteq Item
      BY <1>1, Zenon DEF ParamsTypeOK
  <2> QED BY <1>1, <1>15, <2>1, <2>2, Zenon DEF WrittenOK
<1>17. ParamsTypeOK'
    BY <1>1, <1>3, <1>4, <1>16, Zenon DEF ParamsTypeOK
<1>18. ASSUME changes' = 0 PROVE RefusalOK' /\ SizesOK' /\ (Reading' => \E K : Vetted(K)')
  <2>1. changes = 0
      BY <1>3, <1>18, Zenon
  <2>2. RefusalOK'
      BY <1>3, <2>1, Zenon DEF ParamsInv, RefusalOK
  <2>3. SizesOK'
      BY <1>13, <2>1, Zenon DEF ParamsInv
  <2>4. PICK H : Vetted(H)
      BY <1>2, <2>1, Zenon DEF ParamsInv
  <2>5. phase' = phase /\ (phase = "walk" \/ phase = "encode")
      BY <1>2, <1>3, Zenon DEF Reading
  <2> QED BY <1>1, <2>2, <2>3, <2>4, <2>5, WalkItemVets, EncodeItemVets, Zenon
<1> QED BY <1>12, <1>16, <1>17, <1>18, Zenon DEF ParamsInv

LEMMA ReadItemKeeps == ASSUME ParamsInv, ReadItem PROVE ParamsInv'
<1> DEFINE why == IF phase = "walk" THEN WalkRefusal ELSE EncodeRefusal
<1>1. Reading /\ path # <<>> /\ AtItem
    BY Zenon DEF ReadItem
<1>2. ASSUME why # "none" PROVE ParamsInv'
  <2>1. RefuseAs(why)
      BY <1>2, Zenon DEF ReadItem
  <2>2. why \in {"type", "value", "digits"}
      BY <1>2, SMT DEF WalkRefusal, EncodeRefusal
  <2>3. changes = 0 /\ phase = "encode" => why = "digits"
    <3> SUFFICES ASSUME changes = 0, phase = "encode" PROVE why = "digits"
        OBVIOUS
    <3>1. PICK H : Vetted(H)
        BY <1>1, Zenon DEF ParamsInv
    <3>2. EncodeRefusal \in {"none", "digits"}
        BY <1>1, <3>1, EncodesVetted, Zenon DEF ParamsInv
    <3> QED BY <1>2, <3>2, SMT
  <2> HIDE DEF why
  <2> QED BY <1>1, <2>1, <2>2, <2>3, RefusalKeeps, SMT
<1> QED BY <1>2, ItemKeeps, Zenon

LEMMA BeginKeeps ==
    ASSUME ParamsInv, NEW given \in Seq(Containers), BeginRequest(given)
    PROVE  ParamsInv'
<1>1. /\ phase' = "walk" /\ members' = <<given, given>>
      /\ path' = <<>> /\ refusal' = NotRefused /\ written' = {}
      /\ UNCHANGED <<heap, changes>>
    BY Zenon DEF BeginRequest
<1>2. /\ members' \in Seq(Seq(Containers)) /\ Len(members') = 2
      /\ members'[1] = given /\ members'[2] = given
    BY <1>1, SMT
<1>3. /\ path' \in Seq(Frame) /\ DOMAIN path' = {}
      /\ phase' \in {"none", "walk", "encode", "built", "refused"} /\ phase' # "encode"
    BY <1>1, SMT
<1>4. refusal' \in [in : {"none", "walk", "encode"},
                    as : {"none", "type", "value", "digits", "runtime"}]
      /\ refusal'.in = "none" /\ refusal'.as = "none"
    BY <1>1, SMT DEF NotRefused
<1>5. ParamsTypeOK'
    BY <1>1, <1>2, <1>3, <1>4, Zenon DEF ParamsInv, ParamsTypeOK
<1>6. RoundsOK' /\ SizesOK' /\ WrittenOK'
    BY <1>1, <1>2, <1>3, Zenon DEF RoundsOK, SizesOK, WrittenOK
<1>7. RefusalOK'
    BY <1>4, SMT DEF RefusalOK
<1>8. \E K : Vetted(K)'
  <2> PICK K : K = {}
      BY Zenon
  <2>1. Vetted(K)'
      BY <1>2, <1>3, Zenon DEF Vetted
  <2> QED BY <2>1
<1> QED BY <1>5, <1>6, <1>7, <1>8, Zenon DEF ParamsInv

LEMMA ChangedItems ==
    ASSUME NEW items \in Seq(Item), NEW item \in Item, NEW t \in Changed(items, item)
    PROVE  t \in Seq(Item)
<1>1. CASE \E i \in DOMAIN items : t = [items EXCEPT ![i] = item]
    BY <1>1, SMT
<1>2. CASE t = Append(items, item)
    BY <1>2, SMT
<1>3. CASE items # <<>> /\ t = SubSeq(items, 1, Len(items) - 1)
    BY <1>3, Shortened, Zenon
<1> QED BY <1>1, <1>2, <1>3, Zenon DEF Changed

LEMMA ChangeKeeps == ASSUME ParamsInv, Change PROVE ParamsInv'
<1>1. ParamsTypeOK /\ RoundsOK /\ WrittenOK
    BY Zenon DEF ParamsInv
<1>2. /\ changes < MaxChanges /\ changes' = changes + 1
      /\ UNCHANGED <<members, phase, path, refusal, written>>
    BY Zenon DEF Change
<1>3. PICK c \in Containers, item \in Item :
          \E t \in Changed(heap[c].items, item) : heap' = [heap EXCEPT ![c].items = t]
    BY Zenon DEF Change
<1>4. PICK t \in Changed(heap[c].items, item) : heap' = [heap EXCEPT ![c].items = t]
    BY <1>3, Zenon
<1>5. heap \in [Containers -> Container] /\ changes \in 0 .. MaxChanges
    BY <1>1, Zenon DEF ParamsTypeOK
<1>6. heap[c].items \in Seq(Item)
    BY <1>5, SMT DEF Container
<1>7. t \in Seq(Item)
    BY <1>6, ChangedItems, Zenon
<1>8. [heap[c] EXCEPT !.items = t] \in Container
  <2> PICK x : x = heap[c]
      BY Zenon
  <2>1. x \in Container
      BY <1>5, Zenon
  <2>2. [x EXCEPT !.items = t] \in Container
      BY <1>7, <2>1, SMT DEF Container
  <2> QED BY <2>2, Zenon
<1>9. heap' \in [Containers -> Container]
    BY <1>4, <1>5, <1>8, SMT
<1>10. changes' \in 0 .. MaxChanges /\ changes' # 0
    BY <1>2, <1>5, ParamsAssumption, SMT
<1>11. ParamsTypeOK'
    BY <1>1, <1>2, <1>9, <1>10, Zenon DEF ParamsTypeOK
<1>12. RoundsOK' /\ WrittenOK'
    BY <1>1, <1>2, Zenon DEF RoundsOK, WrittenOK
<1> QED BY <1>10, <1>11, <1>12, Zenon DEF ParamsInv

LEMMA ParamsKept == ASSUME ParamsInv, UNCHANGED paramsVars PROVE ParamsInv'
<1>1. UNCHANGED <<heap, members, phase, path, refusal, written, changes>>
    BY Zenon DEF paramsVars
<1>2. ParamsTypeOK' /\ RoundsOK' /\ WrittenOK'
    BY <1>1, Zenon DEF ParamsInv, ParamsTypeOK, RoundsOK, WrittenOK
<1>3. RefusalOK' = RefusalOK /\ SizesOK' = SizesOK /\ Reading' = Reading
    BY <1>1, Zenon DEF RefusalOK, SizesOK, SizeOf, Reading
<1>4. ASSUME NEW H, Vetted(H) PROVE Vetted(H)'
  <2>1. \A c, d : Whole(c, d, H)' <=> Whole(c, d, H)
      BY <1>1, HeapKept, Zenon
  <2>2. \A c, d : Begun(c, d, H)' <=> Begun(c, d, H)
    <3>1. \A c, d, k : Fits(c, k, d, H)' <=> Fits(c, k, d, H)
        BY <1>1, HeapKept, Zenon
    <3> QED BY <1>1, <3>1, Zenon DEF Begun
  <2> QED BY <1>1, <1>4, <2>1, <2>2, Zenon DEF Vetted
<1> QED BY <1>1, <1>2, <1>3, <1>4, Zenon DEF ParamsInv

(* Whatever happens to the params and to a request.                         *)
LEMMA RoundsKeep ==
    ASSUME ParamsInv,
           \/ BuildRequest \/ Change \/ UNCHANGED paramsVars
           \/ \E given \in Seq(Containers) : BeginRequest(given)
    PROVE  ParamsInv'
BY NextMemberKeeps, LeaveKeeps, InterruptedKeeps, ReadItemKeeps, BeginKeeps, ChangeKeeps,
   ParamsKept, Zenon DEF BuildRequest

LEMMA ParamsJson == ParamsInv => RequestIsJson
BY Zenon DEF ParamsInv, WrittenOK, RefusalOK, RequestIsJson
=============================================================================
