----------------------------- MODULE JsonProofs -----------------------------
(***************************************************************************)
(* What JsonStream accepts is json, for every reply, every walk that reads  *)
(* the reply's values one by one, every chunk and every limit. JsonGrammar  *)
(* says what json is; the stack of the scanner's calls stands for a         *)
(* language of its own: the octets that, read by what is on the stack, end  *)
(* it. Whatever step is taken, what was consumed and a word of the stack's  *)
(* language are one document together: Faithful, below. So is what is kept  *)
(* of a value with a word of what is left of the value: Proper, and for     *)
(* that every walk will do.                                                 *)
(***************************************************************************)
EXTENDS StreamedResultProofs, JsonGrammar

(* The proofs use of concatenation that it is associative, and hide it.     *)
Texts == Seq(Octets)
s ++ t == s \o t
Empty == <<>>
One(o) == <<o>>

LEMMA Joins ==
    /\ Empty \in Texts
    /\ \A o \in Octets : One(o) \in Texts
    /\ \A s, t \in Texts : s ++ t \in Texts
    /\ \A s \in Texts : s ++ Empty = s /\ Empty ++ s = s
    /\ \A s, t, u \in Texts : (s ++ t) ++ u = s ++ (t ++ u)
<1>1. <<>> \in Texts /\ \A o \in Octets : <<o>> \in Texts
    BY SMT DEF Texts
<1>2. \A s, t \in Texts : s \o t \in Texts
    BY SMT DEF Texts
<1>3. \A s \in Texts : s \o <<>> = s /\ <<>> \o s = s
    BY SMT DEF Texts
<1>4. \A s, t, u \in Texts : (s \o t) \o u = s \o (t \o u)
    BY SMT DEF Texts
<1> QED BY <1>1, <1>2, <1>3, <1>4, Zenon DEF Empty, One, ++

-----------------------------------------------------------------------------
(* The grammar, the two containers alike: a label is what stands before a   *)
(* value in a container.                                                    *)
Val(L) == L["value"]
Elem(L) == L["element"]
Items(L, c) == IF c = "{" THEN L["members"] ELSE L["elements"]
Str(L) == L["string"]
Name(L) == {t \in Texts : \E a, b \in Blanks, q \in Str(L) : t = a ++ (q ++ b)}
Label(L, c) == IF c = "{" THEN {n ++ One(":") : n \in Name(L)} ELSE {Empty}
Comma == One(",")
Open(c) == IF c = "{" THEN One("{") ELSE One("[")
Close(c) == One(Closer(c))

LEMMA Marked ==
    /\ \A c : Open(c) \in Texts /\ Close(c) \in Texts
    /\ Comma \in Texts /\ One(":") \in Texts /\ One("quote") \in Texts
<1>1. /\ "{" \in Octets /\ "[" \in Octets /\ \A c : Closer(c) \in Octets
      /\ "," \in Octets /\ ":" \in Octets /\ "quote" \in Octets
    BY Zenon DEF Octets, Marks, Closer
<1> QED BY <1>1, Joins, Zenon DEF Close, Open, Comma

LEMMA Blank ==
    /\ Empty \in Blanks /\ \A s \in Blanks : s \in Texts
    /\ \A s, t \in Blanks : s ++ t \in Blanks
<1>1. \A s \in Blanks : s \in Texts
  <2>1. {" "} \subseteq Octets
      BY Zenon DEF Octets, Marks
  <2> QED BY <2>1, SeqMonotonic, Zenon DEF Blanks, Texts
<1>2. <<>> \in Blanks
    BY EmptySeq, Zenon DEF Blanks
<1>3. \A s, t \in Blanks : s \o t \in Blanks
    BY ConcatProperties, Zenon DEF Blanks
<1> QED BY <1>1, <1>2, <1>3, Zenon DEF ++, Empty

LEMMA Family ==
    ASSUME NEW L \in Families
    PROVE  /\ Closed(L) /\ \A k \in Symbols : \A s \in L[k] : s \in Texts
           /\ \A s \in Val(L) : s \in Texts
           /\ \A s \in Elem(L) : s \in Texts
           /\ \A s \in Str(L) : s \in Texts
           /\ \A s \in Name(L) : s \in Texts
           /\ \A c : \A s \in Items(L, c) \cup Label(L, c) : s \in Texts
<1>1. L \in [Symbols -> SUBSET Seq(Octets)] /\ Closed(L)
    BY Zenon DEF Families
<1>2. \A k \in Symbols : \A s \in L[k] : s \in Texts
    BY <1>1, Zenon DEF Texts
<1>3. /\ "value" \in Symbols /\ "element" \in Symbols /\ "elements" \in Symbols
      /\ "members" \in Symbols /\ "name" \in Symbols /\ "string" \in Symbols
    BY Zenon DEF Symbols
<1>4. \A c : \A s \in Items(L, c) : s \in Texts
    BY <1>2, <1>3, Zenon DEF Items
<1>5. \A s \in Str(L) : s \in Texts
    BY <1>2, <1>3, Zenon DEF Str
<1>6. \A s \in Name(L) : s \in Texts
    BY Zenon DEF Name
<1>7. ASSUME NEW c, NEW s \in Label(L, c) PROVE s \in Texts
  <2>1. CASE s = Empty
      BY <2>1, Joins
  <2>2. ASSUME NEW n \in Name(L), s = n ++ One(":") PROVE s \in Texts
      BY <1>6, <2>2, Joins, Marked, Zenon
  <2> QED BY <1>7, <2>1, <2>2, Zenon DEF Label
<1> QED BY <1>1, <1>2, <1>3, <1>4, <1>5, <1>6, <1>7, Zenon DEF Val, Elem

(* The rules, each of them read from its first part to the last.            *)
LEMMA Rules ==
    ASSUME NEW L \in Families
    PROVE  /\ \A a, b \in Blanks, v \in Val(L) : a ++ (v ++ b) \in Elem(L)
           /\ \A c : \A l \in Label(L, c), e \in Elem(L) : l ++ e \in Items(L, c)
           /\ \A c : \A s \in Items(L, c), l \in Label(L, c), e \in Elem(L) :
                 s ++ (Comma ++ (l ++ e)) \in Items(L, c)
           /\ \A c : \A s \in Blanks \cup Items(L, c) :
                 Open(c) ++ (s ++ Close(c)) \in Val(L)
<1>0. /\ ElementRules(L) /\ MemberRules(L) /\ ContainerRules(L)
      /\ Closer("{") = "}" /\ \A c : c # "{" => Closer(c) = "]"
    BY Family, Zenon DEF Closed, Closer
<1>1. ASSUME NEW a \in Blanks, NEW b \in Blanks, NEW v \in Val(L)
      PROVE  a ++ (v ++ b) \in Elem(L)
  <2>1. (a ++ v) ++ b \in Elem(L)
      BY <1>0, Zenon DEF ElementRules, ++, Elem, Val
  <2> QED BY <2>1, Joins, Family, Blank, SMT
<1>2. ASSUME NEW c, c # "{", NEW l \in Label(L, c), NEW e \in Elem(L)
      PROVE  l ++ e = e /\ l \in Texts /\ e \in Texts /\ e \in L["elements"]
  <2>1. e \in L["elements"]
      BY <1>0, Zenon DEF ElementRules, Elem
  <2>2. l = Empty /\ e \in Texts /\ l \in Texts
      BY <1>2, Family, Joins, Zenon DEF Label
  <2> QED BY <2>1, <2>2, Joins, Zenon
<1>3. ASSUME NEW l \in Label(L, "{"), NEW e \in Elem(L)
      PROVE  l ++ e \in L["member"]
  <2>1. PICK n \in Name(L) : l = n ++ One(":")
      BY Zenon DEF Label
  <2>2. PICK a \in Blanks, q \in Str(L), b \in Blanks : n = a ++ (q ++ b)
      BY Zenon DEF Name
  <2>3. (a ++ q) ++ b \in L["name"]
      BY <1>0, Zenon DEF MemberRules, ++, Str
  <2>4. n = (a ++ q) ++ b
    <3>1. a \in Texts /\ q \in Texts /\ b \in Texts
        BY Family, Blank, Zenon
    <3> QED BY <2>2, <3>1, Joins, Zenon
  <2> QED BY <1>0, <2>1, <2>3, <2>4, Zenon DEF MemberRules, ++, One, Elem
<1>4. ASSUME NEW c, NEW l \in Label(L, c), NEW e \in Elem(L)
      PROVE  l ++ e \in Items(L, c)
  <2>1. CASE c # "{"
      BY <1>0, <1>2, <1>4, <2>1, Zenon DEF Items
  <2>2. CASE c = "{"
      BY <1>0, <1>3, <1>4, <2>2, Zenon DEF Items, MemberRules
  <2> QED BY <1>0, <2>1, <2>2, Zenon
<1>5. ASSUME NEW c, NEW s \in Items(L, c), NEW l \in Label(L, c), NEW e \in Elem(L)
      PROVE  s ++ (Comma ++ (l ++ e)) \in Items(L, c)
  <2>1. (s ++ Comma) ++ (l ++ e) \in Items(L, c)
    <3>1. CASE c # "{"
        BY <1>0, <1>2, <1>5, <3>1, Zenon DEF Items, ElementRules, ++, Comma, One, Elem
    <3>2. CASE c = "{"
        BY <1>0, <1>3, <1>5, <3>2, Zenon DEF Items, MemberRules, ++, Comma, One
    <3> QED BY <1>0, <3>1, <3>2, Zenon
  <2>2. s \in Texts /\ l \in Texts /\ e \in Texts
      BY Family, Zenon
  <2> QED BY <2>1, <2>2, Joins, Marked, SMT
<1>6. ASSUME NEW c, NEW s \in Blanks \cup Items(L, c)
      PROVE  Open(c) ++ (s ++ Close(c)) \in Val(L)
  <2>1. (Open(c) ++ s) ++ Close(c) \in Val(L)
      BY <1>0, Zenon DEF ContainerRules, Items, Val, One, Close, Open, ++
  <2>2. s \in Texts
      BY Family, Blank, Zenon
  <2> QED BY <2>1, <2>2, Joins, Marked, SMT
<1> QED BY <1>1, <1>4, <1>5, <1>6, Zenon

-----------------------------------------------------------------------------
(* What may stand before a value, and what may stand behind it: whatever    *)
(* makes a value of it wherever it stands.                                  *)
Lead(L) == {t \in Texts : \E a \in Blanks, v \in Val(L) : t = a ++ v}
Labelled(L, c) == {t \in Texts : \E l \in Label(L, c), v \in Lead(L) : t = l ++ v}
Before(L, c) ==
    {t \in Texts : \E l \in Label(L, c) :
        \/ t = Open(c) ++ l
        \/ \E s \in Items(L, c) : t = Open(c) ++ (s ++ (Comma ++ l))}
Behind(L, c) ==
    {t \in Texts : \A p \in Before(L, c), v \in Lead(L), b \in Blanks :
        p ++ (v ++ (b ++ t)) \in Val(L)}
Inner(L, c) == {t \in Texts : \A b \in Blanks : Open(c) ++ (b ++ t) \in Val(L)}

LEMMA Leads ==
    ASSUME NEW L \in Families, NEW v \in Lead(L)
    PROVE  /\ v \in Texts /\ \A b \in Blanks : b ++ v \in Lead(L) /\ v ++ b \in Elem(L)
           /\ v \in Elem(L)
<1>1. PICK a \in Blanks, x \in Val(L) : v = a ++ x
    BY Zenon DEF Lead
<1>2. a \in Texts /\ x \in Texts /\ v \in Texts
    BY <1>1, Joins, Blank, Family, Zenon
<1>3. ASSUME NEW b \in Blanks PROVE b ++ v \in Lead(L) /\ v ++ b \in Elem(L)
  <2>1. b \in Texts /\ b ++ a \in Blanks /\ a ++ (x ++ b) \in Elem(L)
      BY Blank, Rules, Zenon
  <2>2. b ++ v = (b ++ a) ++ x /\ v ++ b = a ++ (x ++ b) /\ b ++ v \in Texts
      BY <1>1, <1>2, <2>1, Joins, SMT
  <2> QED BY <2>1, <2>2, Zenon DEF Lead
<1>4. v ++ Empty = v /\ Empty \in Blanks
    BY <1>2, Joins, Blank, Zenon
<1> QED BY <1>2, <1>3, <1>4, Zenon

LEMMA Within ==
    ASSUME NEW L \in Families, NEW c, NEW p \in Before(L, c), NEW e \in Elem(L)
    PROVE  p \in Texts /\ \E s \in Items(L, c) : p ++ e = Open(c) ++ s
<1>1. Open(c) \in Texts /\ Comma \in Texts /\ e \in Texts
    BY Marked, Family, Zenon
<1>2. ASSUME NEW l \in Label(L, c), p = Open(c) ++ l
      PROVE  p \in Texts /\ \E s \in Items(L, c) : p ++ e = Open(c) ++ s
  <2>1. l \in Texts /\ l ++ e \in Items(L, c)
      BY Family, Rules, Zenon
  <2>2. p \in Texts /\ p ++ e = Open(c) ++ (l ++ e)
      BY <1>1, <1>2, <2>1, Joins, SMT
  <2> QED BY <2>1, <2>2, Zenon
<1>3. ASSUME NEW l \in Label(L, c), NEW s \in Items(L, c), p = Open(c) ++ (s ++ (Comma ++ l))
      PROVE  p \in Texts /\ \E i \in Items(L, c) : p ++ e = Open(c) ++ i
  <2>1. l \in Texts /\ s \in Texts /\ s ++ (Comma ++ (l ++ e)) \in Items(L, c)
      BY Family, Rules, Zenon
  <2>2. p \in Texts /\ p ++ e = Open(c) ++ (s ++ (Comma ++ (l ++ e)))
      BY <1>1, <1>3, <2>1, Joins, SMT
  <2> QED BY <2>1, <2>2, Zenon
<1> QED BY <1>2, <1>3, Zenon DEF Before

LEMMA BehindValue ==
    ASSUME NEW L \in Families, NEW c
    PROVE  /\ \A t \in Behind(L, c) : t \in Texts
           /\ \A b \in Blanks, t \in Behind(L, c) : b ++ t \in Behind(L, c)
           /\ Close(c) \in Behind(L, c)
           /\ \A x \in Labelled(L, c), t \in Behind(L, c) : Comma ++ (x ++ t) \in Behind(L, c)
<1>1. \A t \in Behind(L, c) : t \in Texts
    BY Zenon DEF Behind
<1>2. ASSUME NEW b \in Blanks, NEW t \in Behind(L, c) PROVE b ++ t \in Behind(L, c)
  <2>1. b \in Texts /\ t \in Texts /\ b ++ t \in Texts
      BY <1>1, Blank, Joins, Zenon
  <2>2. ASSUME NEW p \in Before(L, c), NEW v \in Lead(L), NEW a \in Blanks
        PROVE  p ++ (v ++ (a ++ (b ++ t))) \in Val(L)
    <3>1. a \in Texts /\ a ++ b \in Blanks
        BY Blank, Zenon
    <3>2. p ++ (v ++ ((a ++ b) ++ t)) \in Val(L)
        BY <3>1, Zenon DEF Behind
    <3>3. (a ++ b) ++ t = a ++ (b ++ t)
        BY <2>1, <3>1, Joins, Zenon
    <3> QED BY <3>2, <3>3, Zenon
  <2> QED BY <2>1, <2>2, Zenon DEF Behind
<1>3. Close(c) \in Behind(L, c)
  <2>1. Close(c) \in Texts /\ Open(c) \in Texts
      BY Marked
  <2>2. ASSUME NEW p \in Before(L, c), NEW v \in Lead(L), NEW b \in Blanks
        PROVE  p ++ (v ++ (b ++ Close(c))) \in Val(L)
    <3>1. b \in Texts /\ v \in Texts /\ v ++ b \in Elem(L)
        BY Blank, Leads, Zenon
    <3>2. PICK s \in Items(L, c) : p ++ (v ++ b) = Open(c) ++ s
        BY <3>1, Within
    <3>3. p \in Texts /\ s \in Texts /\ Open(c) ++ (s ++ Close(c)) \in Val(L)
        BY <3>1, Within, Family, Rules, Zenon
    <3>4. p ++ (v ++ (b ++ Close(c))) = Open(c) ++ (s ++ Close(c))
      <4>1. p ++ (v ++ (b ++ Close(c))) = (p ++ (v ++ b)) ++ Close(c)
          BY <2>1, <3>1, <3>3, Joins, SMT
      <4>2. (Open(c) ++ s) ++ Close(c) = Open(c) ++ (s ++ Close(c))
          BY <2>1, <3>3, Joins, Zenon
      <4> QED BY <3>2, <4>1, <4>2, Zenon
    <3> QED BY <3>3, <3>4, Zenon
  <2> QED BY <2>1, <2>2, Zenon DEF Behind
<1>4. ASSUME NEW x \in Labelled(L, c), NEW t \in Behind(L, c)
      PROVE  Comma ++ (x ++ t) \in Behind(L, c)
  <2>1. PICK l \in Label(L, c), v \in Lead(L) : x = l ++ v
      BY Zenon DEF Labelled
  <2>2. /\ l \in Texts /\ v \in Texts /\ t \in Texts /\ x \in Texts /\ Comma \in Texts
        /\ Open(c) \in Texts /\ Comma ++ (x ++ t) \in Texts
      BY <1>1, <2>1, Family, Leads, Joins, Marked, Zenon
  <2>3. ASSUME NEW p \in Before(L, c), NEW w \in Lead(L), NEW b \in Blanks
        PROVE  p ++ (w ++ (b ++ (Comma ++ (x ++ t)))) \in Val(L)
    <3>1. b \in Texts /\ w \in Texts /\ w ++ b \in Elem(L)
        BY Blank, Leads, Zenon
    <3>2. PICK s \in Items(L, c) : p ++ (w ++ b) = Open(c) ++ s
        BY <3>1, Within
    <3>3. p \in Texts /\ s \in Texts
        BY <3>1, Within, Family, Zenon
    <3> DEFINE q == Open(c) ++ (s ++ (Comma ++ l))
    <3>4. q \in Before(L, c)
      <4>1. q \in Texts
          BY <2>2, <3>3, Joins, Zenon
      <4> QED BY <4>1, Zenon DEF Before
    <3>5. q ++ (v ++ (Empty ++ t)) \in Val(L)
        BY <3>4, Blank, Zenon DEF Behind
    <3>6. q ++ (v ++ (Empty ++ t)) = (Open(c) ++ s) ++ (Comma ++ ((l ++ v) ++ t))
        BY <2>2, <3>3, Joins, SMT
    <3>7. (p ++ (w ++ b)) ++ (Comma ++ (x ++ t)) = p ++ (w ++ (b ++ (Comma ++ (x ++ t))))
        BY <2>2, <3>1, <3>3, Joins, SMT
    <3> QED BY <2>1, <3>2, <3>5, <3>6, <3>7, Zenon
  <2> QED BY <2>2, <2>3, Zenon DEF Behind
<1> QED BY <1>1, <1>2, <1>3, <1>4, Zenon

LEMMA EntryBlanks ==
    ASSUME NEW L \in Families, NEW c, NEW x \in Labelled(L, c)
    PROVE  x \in Texts /\ \A b \in Blanks : b ++ x \in Labelled(L, c)
<1>1. PICK l \in Label(L, c), v \in Lead(L) : x = l ++ v
    BY Zenon DEF Labelled
<1>2. l \in Texts /\ v \in Texts /\ x \in Texts
    BY <1>1, Family, Leads, Joins, Zenon
<1>3. ASSUME NEW b \in Blanks PROVE b ++ x \in Labelled(L, c)
  <2>1. b \in Texts
      BY Blank
  <2>2. CASE l = Empty
    <3>1. b ++ x = l ++ (b ++ v) /\ b ++ v \in Lead(L) /\ b ++ x \in Texts
      <4>1. b ++ v \in Texts /\ Empty ++ v = v /\ Empty ++ (b ++ v) = b ++ v
          BY <1>2, <2>1, Joins, Zenon
      <4> QED BY <1>1, <2>2, <4>1, Leads, Zenon
    <3> QED BY <3>1, Zenon DEF Labelled
  <2>3. ASSUME NEW n \in Name(L), l = n ++ One(":"), c = "{" PROVE b ++ x \in Labelled(L, c)
    <3>1. PICK a \in Blanks, q \in Str(L), d \in Blanks : n = a ++ (q ++ d)
        BY Zenon DEF Name
    <3>2. /\ a \in Texts /\ q \in Texts /\ d \in Texts /\ One(":") \in Texts
          /\ b ++ a \in Blanks
        BY Blank, Family, Marked, Zenon
    <3>3. (b ++ a) ++ (q ++ d) \in Name(L)
      <4>1. (b ++ a) ++ (q ++ d) \in Texts
          BY <2>1, <3>2, Joins, Zenon
      <4> QED BY <3>2, <4>1, Zenon DEF Name
    <3>4. b ++ (a ++ (q ++ d)) = (b ++ a) ++ (q ++ d)
        BY <2>1, <3>2, Joins, SMT
    <3>5. (b ++ n) ++ One(":") \in Label(L, c)
        BY <2>3, <3>1, <3>3, <3>4, Zenon DEF Label
    <3>6. b ++ x = ((b ++ n) ++ One(":")) ++ v /\ b ++ x \in Texts
      <4>1. n \in Texts
          BY Family, Zenon
      <4> DEFINE colon == One(":")
      <4>2. colon \in Texts /\ x = (n ++ colon) ++ v
          BY <1>1, <2>3, <3>2, Zenon
      <4> HIDE DEF colon
      <4>3. b ++ x = ((b ++ n) ++ colon) ++ v /\ b ++ x \in Texts
          BY ONLY <1>2, <2>1, <4>1, <4>2, Joins, SMT
      <4> QED BY <4>3, Zenon DEF colon
    <3> QED BY <3>5, <3>6, Zenon DEF Labelled
  <2> QED BY <2>2, <2>3, Zenon DEF Label
<1> QED BY <1>2, <1>3, Zenon

LEMMA InnerContainer ==
    ASSUME NEW L \in Families, NEW c
    PROVE  /\ \A t \in Inner(L, c) : t \in Texts /\ Open(c) ++ t \in Val(L)
           /\ \A b \in Blanks, t \in Inner(L, c) : b ++ t \in Inner(L, c)
           /\ Close(c) \in Inner(L, c)
           /\ \A x \in Labelled(L, c), t \in Behind(L, c) : x ++ t \in Inner(L, c)
<1>1. \A t \in Inner(L, c) : t \in Texts /\ Open(c) ++ t \in Val(L)
    BY Blank, Joins, Zenon DEF Inner
<1>2. ASSUME NEW b \in Blanks, NEW t \in Inner(L, c) PROVE b ++ t \in Inner(L, c)
  <2>1. b \in Texts /\ t \in Texts /\ b ++ t \in Texts
      BY <1>1, Blank, Joins, Zenon
  <2>2. ASSUME NEW a \in Blanks PROVE Open(c) ++ (a ++ (b ++ t)) \in Val(L)
    <3>1. a \in Texts /\ a ++ b \in Blanks
        BY Blank, Zenon
    <3>2. (a ++ b) ++ t = a ++ (b ++ t) /\ Open(c) ++ ((a ++ b) ++ t) \in Val(L)
        BY <2>1, <3>1, Joins, Zenon DEF Inner
    <3> QED BY <3>2, Zenon
  <2> QED BY <2>1, <2>2, Zenon DEF Inner
<1>3. Close(c) \in Inner(L, c)
    BY Rules, Marked, Zenon DEF Inner
<1>4. ASSUME NEW x \in Labelled(L, c), NEW t \in Behind(L, c)
      PROVE  x ++ t \in Inner(L, c)
  <2>1. x \in Texts /\ t \in Texts /\ x ++ t \in Texts /\ Open(c) \in Texts
      BY BehindValue, EntryBlanks, Joins, Marked, Zenon
  <2>2. ASSUME NEW b \in Blanks PROVE Open(c) ++ (b ++ (x ++ t)) \in Val(L)
    <3>1. b \in Texts /\ b ++ x \in Labelled(L, c)
        BY Blank, EntryBlanks, Zenon
    <3>2. PICK l \in Label(L, c), v \in Lead(L) : b ++ x = l ++ v
        BY <3>1, Zenon DEF Labelled
    <3>3. l \in Texts /\ v \in Texts
        BY Family, Leads, Zenon
    <3>4. Open(c) ++ l \in Before(L, c)
      <4>1. Open(c) ++ l \in Texts
          BY <2>1, <3>3, Joins, Zenon
      <4> QED BY <4>1, Zenon DEF Before
    <3>5. (Open(c) ++ l) ++ (v ++ (Empty ++ t)) \in Val(L)
        BY <3>4, Blank, Zenon DEF Behind
    <3>6. (Open(c) ++ l) ++ (v ++ (Empty ++ t)) = Open(c) ++ ((l ++ v) ++ t)
        BY <2>1, <3>3, Joins, SMT
    <3>7. (b ++ x) ++ t = b ++ (x ++ t)
        BY <2>1, <3>1, Joins, Zenon
    <3> QED BY <3>2, <3>5, <3>6, <3>7, Zenon
  <2> QED BY <2>1, <2>2, Zenon DEF Inner
<1> QED BY <1>1, <1>2, <1>3, <1>4, Zenon

-----------------------------------------------------------------------------
(* What closes a string, from inside of it, and what closes the containers  *)
(* ns that are open, the innermost last.                                    *)
Characters(L) ==
    {t \in Texts : \A r \in L["characters"] : One("quote") ++ (r ++ t) \in Str(L)}
Closing(L, ns) ==
    {w \in Texts : \E c \in [Nat -> Texts] :
        /\ c[Len(ns)] = w /\ c[0] = Empty
        /\ \A i \in 1 .. Len(ns) : \E u \in Behind(L, ns[i]) : c[i] = u ++ c[i - 1]}

LEMMA Strings ==
    ASSUME NEW L \in Families
    PROVE  /\ \A t \in Characters(L) : t \in Texts /\ One("quote") ++ t \in Str(L)
           /\ \A u \in Unescaped \cup Escaped, t \in Characters(L) :
                 u \in Texts => u ++ t \in Characters(L)
           /\ One("quote") \in Characters(L)
           /\ Str(L) \subseteq Val(L) /\ Numbers \subseteq Val(L) /\ <<"n", "l">> \in Val(L)
<1>1. StringRules(L) /\ ScalarRules(L) /\ \A r \in L["characters"] : r \in Texts
  <2>1. "characters" \in Symbols
      BY Zenon DEF Symbols
  <2> QED BY <2>1, Family, Zenon DEF Closed
<1>2. Empty \in L["characters"] /\ One("quote") \in Texts /\ Empty \in Texts
    BY <1>1, Marked, Joins, Zenon DEF StringRules, Empty
<1>3. ASSUME NEW t \in Characters(L) PROVE t \in Texts /\ One("quote") ++ t \in Str(L)
  <2>1. t \in Texts /\ One("quote") ++ (Empty ++ t) \in Str(L)
      BY <1>2, Zenon DEF Characters
  <2>2. Empty ++ t = t
      BY <2>1, Joins, Zenon
  <2> QED BY <2>1, <2>2, Zenon
<1>4. ASSUME NEW u \in Unescaped \cup Escaped, NEW t \in Characters(L), u \in Texts
      PROVE  u ++ t \in Characters(L)
  <2>1. t \in Texts /\ u ++ t \in Texts
      BY <1>3, <1>4, Joins, Zenon
  <2>2. ASSUME NEW r \in L["characters"] PROVE One("quote") ++ (r ++ (u ++ t)) \in Str(L)
    <3>1. r ++ u \in L["characters"]
        BY <1>1, Zenon DEF StringRules, ++
    <3>2. One("quote") ++ ((r ++ u) ++ t) \in Str(L)
        BY <3>1, Zenon DEF Characters
    <3>3. r \in Texts
        BY <1>1, Zenon
    <3>4. (r ++ u) ++ t = r ++ (u ++ t)
        BY <1>4, <2>1, <3>3, Joins, Zenon
    <3> QED BY <3>2, <3>4, Zenon
  <2> QED BY <2>1, <2>2, Zenon DEF Characters
<1>5. One("quote") \in Characters(L)
  <2>1. ASSUME NEW r \in L["characters"]
        PROVE  One("quote") ++ (r ++ One("quote")) \in Str(L)
    <3>1. (One("quote") ++ r) ++ One("quote") \in Str(L)
        BY <1>1, Zenon DEF StringRules, ++, One, Str
    <3>2. (One("quote") ++ r) ++ One("quote") = One("quote") ++ (r ++ One("quote"))
        BY <1>1, <1>2, Joins, Zenon
    <3> QED BY <3>1, <3>2, Zenon
  <2> QED BY <1>2, <2>1, Zenon DEF Characters
<1>6. Str(L) \subseteq Val(L) /\ Numbers \subseteq Val(L) /\ <<"n", "l">> \in Val(L)
    BY <1>1, Zenon DEF ScalarRules, Str, Val
<1> QED BY <1>3, <1>4, <1>5, <1>6, Zenon

LEMMA AfterNone ==
    ASSUME NEW L
    PROVE  \A w : w \in Closing(L, <<>>) <=> w = Empty
<1>1. Len(<<>>) = 0 /\ Empty \in Texts /\ ~ \E i \in 1 .. 0 : TRUE
    BY Joins, SMT
<1>2. ASSUME NEW w, w \in Closing(L, <<>>) PROVE w = Empty
    BY <1>1, <1>2, Zenon DEF Closing
<1>3. Empty \in Closing(L, <<>>)
  <2> DEFINE c == [i \in Nat |-> Empty]
  <2>1. c \in [Nat -> Texts] /\ c[0] = Empty
    <3>1. 0 \in Nat
        BY SMT
    <3> QED BY <1>1, <3>1, Zenon
  <2> QED BY <1>1, <2>1, Zenon DEF Closing
<1> QED BY <1>2, <1>3, Zenon

LEMMA AfterOne ==
    ASSUME NEW L \in Families, NEW ns \in Seq(Openers), NEW o \in Openers
    PROVE  /\ \A u \in Behind(L, o), v \in Closing(L, ns) : u ++ v \in Closing(L, Append(ns, o))
           /\ \A w \in Closing(L, Append(ns, o)) :
                 \E u \in Behind(L, o), v \in Closing(L, ns) : w = u ++ v
<1> DEFINE m == Append(ns, o)
           n == Len(ns)
<1>1. /\ n \in Nat /\ Len(m) = n + 1 /\ m[n + 1] = o /\ \A i \in 1 .. n : m[i] = ns[i]
    BY SMT
<1>2. ASSUME NEW u \in Behind(L, o), NEW v \in Closing(L, ns)
      PROVE  u ++ v \in Closing(L, m)
  <2>1. PICK c \in [Nat -> Texts] :
            /\ c[n] = v /\ c[0] = Empty
            /\ \A i \in 1 .. n : \E x \in Behind(L, ns[i]) : c[i] = x ++ c[i - 1]
      BY Zenon DEF Closing
  <2>2. u \in Texts /\ v \in Texts /\ u ++ v \in Texts
      BY BehindValue, Joins, Zenon DEF Closing
  <2> DEFINE d == [i \in Nat |-> IF i = n + 1 THEN u ++ v ELSE c[i]]
  <2>3. d \in [Nat -> Texts]
      BY <2>2, Zenon
  <2>4. /\ n + 1 \in Nat /\ 0 \in Nat /\ 0 # n + 1 /\ (n + 1) - 1 = n /\ n # n + 1
        /\ \A i \in 1 .. n : i \in Nat /\ i - 1 \in Nat /\ i # n + 1 /\ i - 1 # n + 1
        /\ \A i \in 1 .. n + 1 : i = n + 1 \/ i \in 1 .. n
    <3> HIDE DEF n
    <3> QED BY <1>1, SMT
  <2> HIDE DEF n, m
  <2>5. d[n + 1] = u ++ v /\ d[0] = Empty /\ d[n] = v
      BY <1>1, <2>1, <2>4, Zenon
  <2>6. ASSUME NEW i \in 1 .. n + 1
        PROVE  \E x \in Behind(L, m[i]) : d[i] = x ++ d[i - 1]
    <3>1. CASE i = n + 1
        BY <1>1, <2>4, <2>5, <3>1, Zenon
    <3>2. CASE i \in 1 .. n
      <4>1. d[i] = c[i] /\ d[i - 1] = c[i - 1]
          BY <2>4, <3>2, Zenon
      <4> QED BY <1>1, <2>1, <3>2, <4>1, Zenon
    <3> QED BY <2>4, <3>1, <3>2, Zenon
  <2> HIDE DEF d
  <2> QED BY <1>1, <2>2, <2>3, <2>5, <2>6, Zenon DEF Closing
<1>3. ASSUME NEW w \in Closing(L, m)
      PROVE  \E u \in Behind(L, o), v \in Closing(L, ns) : w = u ++ v
  <2> HIDE DEF n, m
  <2>1. PICK c \in [Nat -> Texts] :
            /\ c[n + 1] = w /\ c[0] = Empty
            /\ \A i \in 1 .. n + 1 : \E x \in Behind(L, m[i]) : c[i] = x ++ c[i - 1]
      BY <1>1, Zenon DEF Closing
  <2>2. n + 1 \in 1 .. n + 1 /\ (n + 1) - 1 = n /\ \A i \in 1 .. n : i \in 1 .. n + 1
      BY <1>1, SMT
  <2>3. PICK u \in Behind(L, o) : w = u ++ c[n]
      BY <1>1, <2>1, <2>2, Zenon
  <2>4. c[n] \in Texts
      BY <1>1, <2>1, Zenon
  <2>5. c[n] \in Closing(L, ns)
    <3>1. \A i \in 1 .. n : \E x \in Behind(L, ns[i]) : c[i] = x ++ c[i - 1]
        BY <1>1, <2>1, <2>2, Zenon
    <3> QED BY <2>1, <2>4, <3>1, Zenon DEF Closing, n
  <2> QED BY <2>3, <2>5, Zenon
<1> QED BY <1>2, <1>3, Zenon

-----------------------------------------------------------------------------
(* What a stack of calls has left to read.  While ns are the containers     *)
(* that `skip` has open, the call t may read u: with it, `skip` and what is *)
(* in the place of one close those containers.                              *)
Nesters == {"skip", "inside", "after", "yield", "walk"}
Padding == {"keep", "peek", "end"}
Readers == Nesters \cup Padding \cup {"expect", "chars", "scalar", "first", "more"}
May(L, t, ns, u) ==
    /\ t.do = "expect" => One(t.of) \in Texts /\ \E b \in Blanks : u = b ++ One(t.of)
    /\ t.do = "chars" => u \in Characters(L)
    /\ t.do = "scalar" => u \in Numbers \cup {<<"n", "l">>}
    /\ t.do \in {"skip", "yield", "walk"} =>
            \E v \in Lead(L), w \in Closing(L, ns) : u = v ++ w
    /\ t.do = "inside" => \E v \in Inner(L, t.of), w \in Closing(L, ns) : u = v ++ w
    /\ t.do = "after" => u \in Closing(L, ns)
    /\ t.do \in Padding => u \in Blanks
    /\ t.do = "first" => u \in Inner(L, t.of)
    /\ t.do = "more" => u \in Behind(L, t.of)
    /\ t.do \notin Readers => u = Empty

(* It leaves what is behind u, and the reading goes on; but a walk that     *)
(* returns has closed what it opened, to be one of D containers deep.       *)
Confs == [nest : Seq(Openers), open : Int, left : Texts]
Conf(ns, o, w) == [nest |-> ns, open |-> o, left |-> w]
Piece(L, D, t, a, b) ==
    /\ b.nest = (IF t.do \in Nesters THEN <<>> ELSE a.nest)
    /\ b.open = (IF t.do = "more" THEN a.open - 1 ELSE a.open)
    /\ t.do = "returned" => a.open \in D
    /\ \E u \in Texts : May(L, t, a.nest, u) /\ a.left = u ++ b.left

(* So all of what is left is read, up to the first call `stop`.             *)
Completes(L, D, s, stop, a) ==
    \E k \in DOMAIN s, c \in [Nat -> Confs] :
        /\ c[1] = a /\ s[k].do = stop /\ c[k].left = Empty
        /\ \A i \in 1 .. k - 1 : s[i].do # stop /\ Piece(L, D, s[i], c[i], c[i + 1])

Push(t, s) == <<t>> \o s

LEMMA Pushing ==
    ASSUME NEW s \in Seq(Tasks), NEW t \in Tasks
    PROVE  /\ Push(t, s) \in Seq(Tasks) /\ Push(t, s) # <<>>
           /\ Head(Push(t, s)) = t /\ Tail(Push(t, s)) = s
           /\ DOMAIN Push(t, s) = 1 .. Len(s) + 1 /\ Len(s) \in Nat /\ DOMAIN s = 1 .. Len(s)
           /\ Push(t, s)[1] = t /\ \A i \in DOMAIN s : Push(t, s)[i + 1] = s[i]
BY SMT DEF Push

LEMMA CompletesPush ==
    ASSUME NEW L, NEW D, NEW s \in Seq(Tasks), NEW t \in Tasks, NEW stop, NEW a \in Confs
    PROVE  /\ t.do = stop => (Completes(L, D, Push(t, s), stop, a) <=> a.left = Empty)
           /\ t.do # stop =>
                (Completes(L, D, Push(t, s), stop, a)
                 <=> \E b \in Confs : Piece(L, D, t, a, b) /\ Completes(L, D, s, stop, b))
<1> DEFINE q == Push(t, s)
           l == Len(s)
<1>1. /\ DOMAIN q = 1 .. l + 1 /\ l \in Nat /\ DOMAIN s = 1 .. l
      /\ q[1] = t /\ \A i \in DOMAIN s : q[i + 1] = s[i]
    BY Pushing
<1> HIDE DEF q, l
<1>2. ASSUME t.do = stop, Completes(L, D, q, stop, a) PROVE a.left = Empty
  <2>1. PICK k \in DOMAIN q, c \in [Nat -> Confs] :
            /\ c[1] = a /\ q[k].do = stop /\ c[k].left = Empty
            /\ \A i \in 1 .. k - 1 : q[i].do # stop /\ Piece(L, D, q[i], c[i], c[i + 1])
      BY <1>2, Zenon DEF Completes
  <2>2. k = 1 \/ 1 \in 1 .. k - 1
      BY <1>1, SMT
  <2>3. k = 1
      BY <1>1, <1>2, <2>1, <2>2, Zenon
  <2> QED BY <2>1, <2>3, Zenon
<1>3. ASSUME t.do = stop, a.left = Empty PROVE Completes(L, D, q, stop, a)
  <2> DEFINE c == [i \in Nat |-> a]
  <2>1. 1 \in Nat /\ 1 \in DOMAIN q /\ ~ \E i \in 1 .. 1 - 1 : TRUE
      BY <1>1, SMT
  <2>2. c \in [Nat -> Confs] /\ c[1] = a
      BY <2>1, Zenon
  <2> HIDE DEF c
  <2> QED BY <1>1, <1>3, <2>1, <2>2, Zenon DEF Completes
<1>4. ASSUME t.do # stop, Completes(L, D, q, stop, a)
      PROVE  \E b \in Confs : Piece(L, D, t, a, b) /\ Completes(L, D, s, stop, b)
  <2>1. PICK k \in DOMAIN q, c \in [Nat -> Confs] :
            /\ c[1] = a /\ q[k].do = stop /\ c[k].left = Empty
            /\ \A i \in 1 .. k - 1 : q[i].do # stop /\ Piece(L, D, q[i], c[i], c[i + 1])
      BY <1>4, Zenon DEF Completes
  <2>2. k # 1
      BY <1>1, <1>4, <2>1, Zenon
  <2> DEFINE j == k - 1
             d == [i \in Nat |-> c[i + 1]]
  <2>3. /\ j \in 1 .. l /\ j \in Nat /\ j + 1 = k /\ 1 \in 1 .. k - 1 /\ 1 \in Nat /\ 2 \in Nat
        /\ 1 + 1 = 2
        /\ \A i \in Nat : i + 1 \in Nat
        /\ \A i \in 1 .. j - 1 : i \in 1 .. l /\ i \in Nat /\ i + 1 \in Nat /\ i + 1 \in 1 .. k - 1
      BY <1>1, <2>2, SMT
  <2>4. d \in [Nat -> Confs] /\ \A i \in Nat : d[i] = c[i + 1]
      BY <2>3, Zenon
  <2> HIDE DEF d, j
  <2>5. c[2] \in Confs /\ d[1] = c[2] /\ Piece(L, D, t, a, c[2])
      BY <1>1, <2>1, <2>3, <2>4, Zenon
  <2>6. s[j].do = stop /\ d[j].left = Empty
      BY <1>1, <2>1, <2>3, <2>4, Zenon
  <2>7. ASSUME NEW i \in 1 .. j - 1
        PROVE  s[i].do # stop /\ Piece(L, D, s[i], d[i], d[i + 1])
    <3>1. s[i] = q[i + 1] /\ d[i] = c[i + 1] /\ d[i + 1] = c[(i + 1) + 1]
        BY <1>1, <2>3, <2>4, Zenon
    <3> QED BY <2>1, <2>3, <3>1, Zenon
  <2>8. Completes(L, D, s, stop, c[2])
      BY <1>1, <2>3, <2>4, <2>5, <2>6, <2>7, Zenon DEF Completes
  <2> QED BY <2>5, <2>8, Zenon
<1>5. ASSUME t.do # stop, NEW b \in Confs, Piece(L, D, t, a, b), Completes(L, D, s, stop, b)
      PROVE  Completes(L, D, q, stop, a)
  <2>1. PICK k \in DOMAIN s, c \in [Nat -> Confs] :
            /\ c[1] = b /\ s[k].do = stop /\ c[k].left = Empty
            /\ \A i \in 1 .. k - 1 : s[i].do # stop /\ Piece(L, D, s[i], c[i], c[i + 1])
      BY <1>5, Zenon DEF Completes
  <2> DEFINE j == k + 1
             d == [i \in Nat |-> IF i = 1 THEN a ELSE IF i = 0 THEN b ELSE c[i - 1]]
  <2>2. /\ j \in 1 .. l + 1 /\ j \in Nat /\ j - 1 = k /\ j # 1 /\ j # 0 /\ 1 \in Nat /\ 2 \in Nat
        /\ 2 - 1 = 1 /\ 2 # 1 /\ 2 # 0 /\ 1 + 1 = 2
        /\ \A i \in Nat : i # 1 /\ i # 0 => i - 1 \in Nat
        /\ \A i \in 1 .. j - 1 : i # 1 => /\ i \in Nat /\ i # 0 /\ i - 1 \in 1 .. k - 1
                                          /\ i - 1 \in DOMAIN s /\ i + 1 \in Nat /\ i + 1 # 1
                                          /\ i + 1 # 0 /\ (i + 1) - 1 = i /\ (i - 1) + 1 = i
      BY <1>1, SMT
  <2>3. d \in [Nat -> Confs]
      BY <2>2, Zenon
  <2>4. d[1] = a /\ \A i \in Nat : i # 1 /\ i # 0 => d[i] = c[i - 1]
      BY <2>2, Zenon
  <2> HIDE DEF d, j
  <2>5. q[j].do = stop /\ d[j].left = Empty
    <3>1. q[k + 1] = s[k] /\ d[j] = c[k]
        BY <1>1, <2>2, <2>4, Zenon
    <3> QED BY <2>1, <3>1, Zenon DEF j
  <2>6. ASSUME NEW i \in 1 .. j - 1
        PROVE  q[i].do # stop /\ Piece(L, D, q[i], d[i], d[i + 1])
    <3>1. CASE i = 1
      <4>1. d[2] = b
          BY <2>1, <2>2, <2>4, Zenon
      <4> QED BY <1>1, <1>5, <2>2, <2>4, <3>1, <4>1, Zenon
    <3>2. CASE i # 1
      <4> DEFINE h == i - 1
      <4>1. /\ h \in 1 .. k - 1 /\ h \in DOMAIN s /\ h + 1 = i
            /\ d[i] = c[h] /\ d[i + 1] = c[i]
          BY <2>2, <2>4, <3>2, Zenon
      <4> HIDE DEF h
      <4>2. q[i] = s[h]
          BY <1>1, <4>1, Zenon
      <4>3. s[h].do # stop /\ Piece(L, D, s[h], c[h], c[h + 1])
          BY <2>1, <4>1, Zenon
      <4> QED BY <4>1, <4>2, <4>3, Zenon
    <3> QED BY <3>1, <3>2
  <2> QED BY <1>1, <2>2, <2>3, <2>4, <2>5, <2>6, Zenon DEF Completes
<1> QED BY <1>2, <1>3, <1>4, <1>5, Zenon DEF q

LEMMA CompletesNothing ==
    ASSUME NEW L, NEW D, NEW stop, NEW a
    PROVE  ~ Completes(L, D, <<>>, stop, a)
<1>1. ~ \E k \in DOMAIN <<>> : TRUE
    BY SMT
<1> QED BY <1>1, Zenon DEF Completes

Outer(t, ns) == IF t.do \in Nesters THEN <<>> ELSE ns
Opened(t, o) == IF t.do = "more" THEN o - 1 ELSE o

LEMMA IsConf ==
    ASSUME NEW ns \in Seq(Openers), NEW o \in Int, NEW w \in Texts
    PROVE  /\ Conf(ns, o, w) \in Confs
           /\ Conf(ns, o, w).nest = ns /\ Conf(ns, o, w).open = o /\ Conf(ns, o, w).left = w
BY SMT DEF Conf, Confs

LEMMA Confsare ==
    /\ \A b \in Confs : b = Conf(b.nest, b.open, b.left) /\ b.left \in Texts
    /\ \A t \in Tasks, ns \in Seq(Openers), o \in Int :
          Outer(t, ns) \in Seq(Openers) /\ Opened(t, o) \in Int
<1>2. \A b \in Confs : b = Conf(b.nest, b.open, b.left) /\ b.left \in Texts
    BY SMT DEF Conf, Confs
<1>3. \A t \in Tasks, ns \in Seq(Openers) : Outer(t, ns) \in Seq(Openers)
    BY EmptySeq, Zenon DEF Outer
<1>4. \A t \in Tasks, o \in Int : Opened(t, o) \in Int
    BY SMT DEF Opened
<1> QED BY <1>2, <1>3, <1>4, Zenon

(* The first call of the stack, read from and put back.                     *)
LEMMA Peel ==
    ASSUME NEW L, NEW D, NEW s \in Seq(Tasks), NEW t \in Tasks, NEW stop, t.do # stop,
           NEW ns \in Seq(Openers), NEW o \in Int, NEW w \in Texts,
           Completes(L, D, Push(t, s), stop, Conf(ns, o, w))
    PROVE  \E u, v \in Texts :
              /\ w = u ++ v /\ May(L, t, ns, u) /\ (t.do = "returned" => o \in D)
              /\ Completes(L, D, s, stop, Conf(Outer(t, ns), Opened(t, o), v))
<1> DEFINE a == Conf(ns, o, w)
<1>1. a \in Confs /\ a.nest = ns /\ a.open = o /\ a.left = w
    BY IsConf
<1> HIDE DEF a
<1>2. PICK b \in Confs : Piece(L, D, t, a, b) /\ Completes(L, D, s, stop, b)
    BY <1>1, CompletesPush, Zenon DEF a
<1>3. b = Conf(Outer(t, ns), Opened(t, o), b.left) /\ b.left \in Texts
    BY <1>1, <1>2, Confsare, Zenon DEF Piece, Outer, Opened
<1>4. t.do = "returned" => o \in D
    BY <1>1, <1>2, Zenon DEF Piece
<1>5. PICK u \in Texts : May(L, t, ns, u) /\ w = u ++ b.left
    BY <1>1, <1>2, Zenon DEF Piece
<1> QED BY <1>2, <1>3, <1>4, <1>5, Zenon

LEMMA Put ==
    ASSUME NEW L, NEW D, NEW s \in Seq(Tasks), NEW t \in Tasks, NEW stop, t.do # stop,
           NEW ns \in Seq(Openers), NEW o \in Int, NEW u \in Texts, NEW v \in Texts,
           May(L, t, ns, u), t.do = "returned" => o \in D,
           Completes(L, D, s, stop, Conf(Outer(t, ns), Opened(t, o), v))
    PROVE  Completes(L, D, Push(t, s), stop, Conf(ns, o, u ++ v))
<1> DEFINE a == Conf(ns, o, u ++ v)
           b == Conf(Outer(t, ns), Opened(t, o), v)
<1>1. u ++ v \in Texts
    BY Joins
<1>2. a \in Confs /\ a.nest = ns /\ a.open = o /\ a.left = u ++ v
    BY <1>1, IsConf
<1>3. b \in Confs /\ b.nest = Outer(t, ns) /\ b.open = Opened(t, o) /\ b.left = v
  <2>1. Outer(t, ns) \in Seq(Openers) /\ Opened(t, o) \in Int
      BY Confsare
  <2> QED BY <2>1, IsConf
<1> HIDE DEF a, b
<1>4. Piece(L, D, t, a, b)
    BY <1>2, <1>3, Zenon DEF Piece, Outer, Opened
<1>5. Completes(L, D, s, stop, b)
    BY Zenon DEF b
<1>6. Completes(L, D, Push(t, s), stop, a)
    BY <1>2, <1>3, <1>4, <1>5, CompletesPush, Zenon
<1> QED BY <1>6, Zenon DEF a

LEMMA MayExpect ==
    ASSUME NEW L, NEW t, NEW ns, NEW u, t.do = "expect"
    PROVE  May(L, t, ns, u) <=> One(t.of) \in Texts /\ \E b \in Blanks : u = b ++ One(t.of)
BY Zenon DEF May, Readers, Nesters, Padding

LEMMA MayChars ==
    ASSUME NEW L, NEW t, NEW ns, NEW u, t.do = "chars"
    PROVE  May(L, t, ns, u) <=> u \in Characters(L)
BY Zenon DEF May, Readers, Nesters, Padding

LEMMA MayScalar ==
    ASSUME NEW L, NEW t, NEW ns, NEW u, t.do = "scalar"
    PROVE  May(L, t, ns, u) <=> u \in Numbers \cup {<<"n", "l">>}
BY Zenon DEF May, Readers, Nesters, Padding

LEMMA MayValue ==
    ASSUME NEW L, NEW t, NEW ns, NEW u, t.do \in {"skip", "yield", "walk"}
    PROVE  May(L, t, ns, u) <=> \E v \in Lead(L), w \in Closing(L, ns) : u = v ++ w
BY Zenon DEF May, Readers, Nesters, Padding

LEMMA MayInside ==
    ASSUME NEW L, NEW t, NEW ns, NEW u, t.do = "inside"
    PROVE  May(L, t, ns, u) <=> \E v \in Inner(L, t.of), w \in Closing(L, ns) : u = v ++ w
BY Zenon DEF May, Readers, Nesters, Padding

LEMMA MayAfter ==
    ASSUME NEW L, NEW t, NEW ns, NEW u, t.do = "after"
    PROVE  May(L, t, ns, u) <=> u \in Closing(L, ns)
BY Zenon DEF May, Readers, Nesters, Padding

LEMMA MayPad ==
    ASSUME NEW L, NEW t, NEW ns, NEW u, t.do \in Padding
    PROVE  May(L, t, ns, u) <=> u \in Blanks
BY Zenon DEF May, Readers, Nesters, Padding

LEMMA MayFirst ==
    ASSUME NEW L, NEW t, NEW ns, NEW u, t.do = "first"
    PROVE  May(L, t, ns, u) <=> u \in Inner(L, t.of)
BY Zenon DEF May, Readers, Nesters, Padding

LEMMA MayMore ==
    ASSUME NEW L, NEW t, NEW ns, NEW u, t.do = "more"
    PROVE  May(L, t, ns, u) <=> u \in Behind(L, t.of)
BY Zenon DEF May, Readers, Nesters, Padding

LEMMA MayNothing ==
    ASSUME NEW L, NEW t, NEW ns, NEW u, t.do \notin Readers
    PROVE  May(L, t, ns, u) <=> u = Empty
BY Zenon DEF May, Readers, Nesters, Padding

-----------------------------------------------------------------------------
(* A step that reads x and leaves the stack r, with the containers ms open, *)
(* serves the stack s before: what completes r completes s behind x.        *)
Serves(L, D, stop, r, ms, p, s, ns, o, x) ==
    \A w \in Texts :
        Completes(L, D, r, stop, Conf(ms, p, w)) => Completes(L, D, s, stop, Conf(ns, o, x ++ w))

(* A call is served by another that stands in its place.                    *)
LEMMA Replaces ==
    ASSUME NEW L, NEW D, NEW s \in Seq(Tasks), NEW t \in Tasks, NEW r \in Tasks, NEW stop,
           t.do # stop, r.do # stop,
           NEW ns \in Seq(Openers), NEW ms \in Seq(Openers), NEW o \in Int, NEW p \in Int,
           NEW x \in Texts,
           Outer(t, ns) = Outer(r, ms), Opened(t, o) = Opened(r, p), t.do # "returned",
           \A u \in Texts : May(L, r, ms, u) => May(L, t, ns, x ++ u)
    PROVE  Serves(L, D, stop, Push(r, s), ms, p, Push(t, s), ns, o, x)
<1> SUFFICES ASSUME NEW w \in Texts, Completes(L, D, Push(r, s), stop, Conf(ms, p, w))
             PROVE  Completes(L, D, Push(t, s), stop, Conf(ns, o, x ++ w))
    BY Zenon DEF Serves
<1>1. PICK u \in Texts, v \in Texts :
          /\ w = u ++ v /\ May(L, r, ms, u)
          /\ Completes(L, D, s, stop, Conf(Outer(r, ms), Opened(r, p), v))
    BY Peel
<1>2. x ++ u \in Texts /\ x ++ (u ++ v) = (x ++ u) ++ v
    BY Joins, Zenon
<1>3. Completes(L, D, Push(t, s), stop, Conf(ns, o, (x ++ u) ++ v))
    BY <1>1, <1>2, Put, Zenon
<1> QED BY <1>1, <1>2, <1>3, Zenon

(* A call is served where it is over.                                       *)
LEMMA Returning ==
    ASSUME NEW L, NEW D, NEW s \in Seq(Tasks), NEW t \in Tasks, NEW stop, t.do # stop,
           NEW ns \in Seq(Openers), NEW ms \in Seq(Openers), NEW o \in Int, NEW p \in Int,
           NEW x \in Texts,
           Outer(t, ns) = ms, Opened(t, o) = p, t.do = "returned" => o \in D,
           May(L, t, ns, x)
    PROVE  Serves(L, D, stop, s, ms, p, Push(t, s), ns, o, x)
BY Put, Zenon DEF Serves

(* Blanks before what begins with an octet.                                 *)
LEMMA SpaceServes ==
    ASSUME NEW L \in Families, NEW D, NEW s \in Seq(Tasks), NEW t \in Tasks, NEW stop,
           t.do # stop, t.do \in OctetSteps, NEW ns \in Seq(Openers), NEW o \in Int,
           t.do = "after" => ns # <<>>, NEW x \in Blanks
    PROVE  Serves(L, D, stop, Push(t, s), ns, o, Push(t, s), ns, o, x)
<1>1. x \in Texts
    BY Blank
<1>2. ASSUME NEW u \in Texts, May(L, t, ns, u) PROVE May(L, t, ns, x ++ u)
  <2>1. CASE t.do = "expect"
    <3>1. One(t.of) \in Texts /\ \E b \in Blanks : u = b ++ One(t.of)
        BY <1>2, <2>1, MayExpect
    <3>2. PICK b \in Blanks : u = b ++ One(t.of)
        BY <3>1
    <3>3. b \in Texts /\ x ++ b \in Blanks
        BY Blank, Zenon
    <3>4. x ++ u = (x ++ b) ++ One(t.of)
        BY <1>1, <3>1, <3>2, <3>3, Joins, Zenon
    <3>5. \E a \in Blanks : x ++ u = a ++ One(t.of)
        BY <3>3, <3>4, Zenon
    <3> QED BY <2>1, <3>1, <3>5, MayExpect
  <2>2. CASE t.do \in Padding
    <3>1. u \in Blanks
        BY <1>2, <2>2, MayPad
    <3>2. x ++ u \in Blanks
        BY <3>1, Blank
    <3> QED BY <2>2, <3>2, MayPad
  <2>3. CASE t.do = "skip"
    <3>1. \E v \in Lead(L), w \in Closing(L, ns) : u = v ++ w
        BY <1>2, <2>3, MayValue
    <3>2. PICK v \in Lead(L), w \in Closing(L, ns) : u = v ++ w
        BY <3>1
    <3>3. v \in Texts /\ w \in Texts /\ x ++ v \in Lead(L)
        BY Leads, Zenon DEF Closing
    <3>4. x ++ u = (x ++ v) ++ w
        BY <1>1, <3>2, <3>3, Joins, Zenon
    <3>5. \E y \in Lead(L), z \in Closing(L, ns) : x ++ u = y ++ z
        BY <3>3, <3>4, Zenon
    <3> QED BY <2>3, <3>5, MayValue
  <2>4. CASE t.do = "inside"
    <3>1. \E v \in Inner(L, t.of), w \in Closing(L, ns) : u = v ++ w
        BY <1>2, <2>4, MayInside
    <3>2. PICK v \in Inner(L, t.of), w \in Closing(L, ns) : u = v ++ w
        BY <3>1
    <3>3. v \in Texts /\ w \in Texts /\ x ++ v \in Inner(L, t.of)
        BY InnerContainer, Zenon DEF Closing
    <3>4. x ++ u = (x ++ v) ++ w
        BY <1>1, <3>2, <3>3, Joins, Zenon
    <3>5. \E y \in Inner(L, t.of), z \in Closing(L, ns) : x ++ u = y ++ z
        BY <3>3, <3>4, Zenon
    <3> QED BY <2>4, <3>5, MayInside
  <2>5. CASE t.do = "after"
    <3>1. u \in Closing(L, ns)
        BY <1>2, <2>5, MayAfter
    <3> DEFINE m == Front(ns)
               c == ns[Len(ns)]
    <3>2. ns = Append(m, c) /\ m \in Seq(Openers) /\ c \in Openers
        BY <2>5, SMT DEF Front
    <3> HIDE DEF m, c
    <3>3. PICK y \in Behind(L, c), z \in Closing(L, m) : u = y ++ z
        BY <3>1, <3>2, AfterOne
    <3>4. y \in Texts /\ z \in Texts /\ x ++ y \in Behind(L, c)
        BY BehindValue, Zenon DEF Closing
    <3>5. x ++ u = (x ++ y) ++ z
        BY <1>1, <3>3, <3>4, Joins, Zenon
    <3>6. x ++ u \in Closing(L, ns)
        BY <3>2, <3>4, <3>5, AfterOne
    <3> QED BY <2>5, <3>6, MayAfter
  <2>6. CASE t.do = "first"
    <3>1. u \in Inner(L, t.of)
        BY <1>2, <2>6, MayFirst
    <3>2. x ++ u \in Inner(L, t.of)
        BY <3>1, InnerContainer
    <3> QED BY <2>6, <3>2, MayFirst
  <2>7. CASE t.do = "more"
    <3>1. u \in Behind(L, t.of)
        BY <1>2, <2>7, MayMore
    <3>2. x ++ u \in Behind(L, t.of)
        BY <3>1, BehindValue
    <3> QED BY <2>7, <3>2, MayMore
  <2> QED BY <2>1, <2>2, <2>3, <2>4, <2>5, <2>6, <2>7, Zenon DEF OctetSteps, Padding
<1>3. t.do # "returned"
    BY Zenon DEF OctetSteps
<1> QED BY <1>1, <1>2, <1>3, Replaces, Zenon

-----------------------------------------------------------------------------
(* The calls that stand in the place of another.                            *)
LEMMA IsTask ==
    ASSUME NEW do \in Steps, NEW of \in Subjects
    PROVE  /\ Task(do, of) \in Tasks /\ Task(do, of).do = do /\ Task(do, of).of = of
           /\ Step(do) \in Tasks /\ Step(do).do = do
BY Words, SMT DEF Task, Step, Tasks

LEMMA Several ==
    ASSUME NEW s \in Seq(Tasks), NEW a \in Tasks, NEW b \in Tasks, NEW c \in Tasks,
           NEW d \in Tasks
    PROVE  /\ Push(a, s) = <<a>> \o s
           /\ Push(a, Push(b, s)) = <<a, b>> \o s
           /\ Push(a, Push(b, Push(c, s))) = <<a, b, c>> \o s
           /\ Push(a, Push(b, Push(c, Push(d, s)))) = <<a, b, c, d>> \o s
<1> DEFINE A == <<a>>
           B == <<b>>
           C == <<c>>
           E == <<d>>
           AB == <<a, b>>
           ABC == <<a, b, c>>
           ABCD == <<a, b, c, d>>
<1>1. AB = A \o B
  <2>1. <<a, b>> = Append(<<a>>, b)
      BY SMT
  <2>2. Append(<<a>>, b) = <<a>> \o <<b>>
      BY SMT
  <2> QED BY <2>1, <2>2
<1>2. ABC = AB \o C
  <2>1. <<a, b, c>> = Append(<<a, b>>, c)
      BY SMT
  <2>2. Append(<<a, b>>, c) = <<a, b>> \o <<c>>
      BY SMT
  <2> QED BY <2>1, <2>2
<1>3. ABCD = ABC \o E
  <2>1. <<a, b, c, d>> = Append(<<a, b, c>>, d)
      BY SMT
  <2>2. Append(<<a, b, c>>, d) = <<a, b, c>> \o <<d>>
      BY SMT
  <2> QED BY <2>1, <2>2
<1>4. A \in Seq(Tasks) /\ B \in Seq(Tasks) /\ C \in Seq(Tasks) /\ E \in Seq(Tasks) /\ AB \in Seq(Tasks) /\ ABC \in Seq(Tasks)
    BY SMT
<1>6. \A p, q, r \in Seq(Tasks) : (p \o q) \o r = p \o (q \o r)
    BY SMT
<1>7. \A p, q \in Seq(Tasks) : p \o q \in Seq(Tasks)
    BY SMT
<1> HIDE DEF A, B, C, E, AB, ABC, ABCD
<1>9. C \o s \in Seq(Tasks) /\ E \o s \in Seq(Tasks) /\ C \o (E \o s) \in Seq(Tasks)
    BY <1>4, <1>7, Zenon
<1>10. \A q \in Seq(Tasks) : A \o (B \o q) = AB \o q
  <2>1. \A q \in Seq(Tasks) : (A \o B) \o q = A \o (B \o q)
      BY <1>4, <1>6
  <2> QED BY <1>1, <2>1
<1>11. \A q \in Seq(Tasks) : AB \o (C \o q) = ABC \o q
  <2>1. \A q \in Seq(Tasks) : (AB \o C) \o q = AB \o (C \o q)
      BY <1>4, <1>6
  <2> QED BY <1>2, <2>1
<1>12. \A q \in Seq(Tasks) : ABC \o (E \o q) = ABCD \o q
  <2>1. \A q \in Seq(Tasks) : (ABC \o E) \o q = ABC \o (E \o q)
      BY <1>4, <1>6
  <2> QED BY <1>3, <2>1
<1>13. A \o (B \o (C \o s)) = ABC \o s
    BY <1>9, <1>10, <1>11, Zenon
<1>14. A \o (B \o (C \o (E \o s))) = AB \o (C \o (E \o s))
    BY <1>9, <1>10, Zenon
<1>15. AB \o (C \o (E \o s)) = ABC \o (E \o s)
    BY <1>9, <1>11, Zenon
<1>16. A \o (B \o (C \o (E \o s))) = ABCD \o s
    BY <1>12, <1>14, <1>15, Zenon
<1>17. A \o (B \o s) = AB \o s
    BY <1>10
<1>18. \A q : Push(a, q) = A \o q /\ Push(b, q) = B \o q /\ Push(c, q) = C \o q /\ Push(d, q) = E \o q
    BY Zenon DEF Push, A, B, C, E
<1>19. /\ Push(a, s) = A \o s /\ Push(a, Push(b, s)) = AB \o s
       /\ Push(a, Push(b, Push(c, s))) = ABC \o s
       /\ Push(a, Push(b, Push(c, Push(d, s)))) = ABCD \o s
  <2>1. Push(a, Push(b, s)) = A \o (B \o s)
      BY <1>18, Zenon
  <2>2. Push(a, Push(b, Push(c, s))) = A \o (B \o (C \o s))
      BY <1>18, Zenon
  <2>3. Push(a, Push(b, Push(c, Push(d, s)))) = A \o (B \o (C \o (E \o s)))
      BY <1>18, Zenon
  <2>4. Push(a, s) = A \o s
      BY <1>18, Zenon
  <2> QED BY <1>13, <1>16, <1>17, <2>1, <2>2, <2>3, <2>4, Zenon
<1> QED BY <1>19 DEF A, AB, ABC, ABCD

LEMMA Three ==
    ASSUME NEW s \in Seq(Tasks), NEW a \in Tasks, NEW b \in Tasks, NEW c \in Tasks
    PROVE  Push(a, Push(b, Push(c, s))) = <<a, b, c>> \o s
BY Several, Zenon

(* A string, from its first quote.                                          *)
LEMMA StringRead ==
    ASSUME NEW L \in Families, NEW D, NEW s \in Seq(Tasks), NEW stop,
           stop \notin {"expect", "chars"},
           NEW ns \in Seq(Openers), NEW o \in Int, NEW w \in Texts,
           Completes(L, D, String \o s, stop, Conf(ns, o, w))
    PROVE  \E b \in Blanks, q \in Str(L), v \in Texts :
              w = b ++ (q ++ v) /\ Completes(L, D, s, stop, Conf(ns, o, v))
<1> DEFINE e == Task("expect", "quote")
           h == Step("chars")
<1>1. /\ e \in Tasks /\ h \in Tasks /\ e.do = "expect" /\ e.of = "quote" /\ h.do = "chars"
      /\ "expect" # stop /\ "chars" # stop /\ "expect" # "returned" /\ "chars" # "returned"
  <2>1. "expect" \in Steps /\ "chars" \in Steps /\ "quote" \in Subjects
      BY Words, Zenon DEF Steps
  <2> QED BY <2>1, IsTask, Zenon
<1>2. Push(h, s) \in Seq(Tasks)
    BY <1>1, Pushing, Zenon
<1>3. String \o s = Push(e, Push(h, s))
    BY <1>1, Several, Zenon DEF String
<1> HIDE DEF e, h
<1>4. PICK u \in Texts, v \in Texts :
          /\ w = u ++ v /\ May(L, e, ns, u)
          /\ Completes(L, D, Push(h, s), stop, Conf(Outer(e, ns), Opened(e, o), v))
    BY <1>1, <1>2, <1>3, Peel
<1>5. Outer(e, ns) = ns /\ Opened(e, o) = o /\ Outer(h, ns) = ns /\ Opened(h, o) = o
    BY <1>1, SMT DEF Outer, Opened, Nesters
<1>6. PICK x \in Texts, y \in Texts :
          v = x ++ y /\ May(L, h, ns, x) /\ Completes(L, D, s, stop, Conf(ns, o, y))
    BY <1>1, <1>4, <1>5, Peel
<1>7. \E b \in Blanks : u = b ++ One("quote")
    BY <1>1, <1>4, MayExpect
<1>8. x \in Characters(L)
    BY <1>1, <1>6, MayChars
<1>9. PICK b \in Blanks : u = b ++ One("quote")
    BY <1>7
<1>10. b \in Texts /\ One("quote") \in Texts /\ One("quote") ++ x \in Str(L)
    BY <1>8, Blank, Marked, Strings, Zenon
<1> DEFINE q == One("quote")
<1>11. w = b ++ ((q ++ x) ++ y)
  <2>1. q \in Texts /\ u = b ++ q
      BY <1>9, <1>10
  <2> HIDE DEF q
  <2> QED BY <1>4, <1>6, <1>10, <2>1, Joins, SMT
<1> QED BY <1>6, <1>10, <1>11, Zenon

LEMMA StringServes ==
    ASSUME NEW L \in Families, NEW D, NEW s \in Seq(Tasks), NEW t \in Tasks, t.do = "skip",
           NEW stop, stop \notin {"skip", "expect", "chars", "after", "scalar"},
           NEW ns \in Seq(Openers), NEW o \in Int
    PROVE  /\ Serves(L, D, stop, String \o Push(Step("after"), s), ns, o, Push(t, s), ns, o, Empty)
           /\ Serves(L, D, stop, Push(Step("scalar"), Push(Step("after"), s)), ns, o,
                     Push(t, s), ns, o, Empty)
<1> DEFINE a == Step("after")
           k == Step("scalar")
<1>1. a \in Tasks /\ a.do = "after" /\ k \in Tasks /\ k.do = "scalar" /\ Push(a, s) \in Seq(Tasks)
  <2>1. "after" \in Steps /\ "scalar" \in Steps /\ "none" \in Subjects
      BY Words, Zenon DEF Steps
  <2> QED BY <2>1, IsTask, Pushing, Zenon
<1> HIDE DEF a, k
<1>2. /\ Outer(a, ns) = <<>> /\ Opened(a, o) = o /\ Outer(t, ns) = <<>> /\ Opened(t, o) = o
      /\ Outer(k, ns) = ns /\ Opened(k, o) = o
      /\ a.do # stop /\ a.do # "returned" /\ t.do # stop /\ t.do # "returned"
      /\ k.do # stop /\ k.do # "returned"
    BY <1>1, SMT DEF Outer, Opened, Nesters
(* A value read, and what closes the containers.                            *)
<1>3. ASSUME NEW l \in Lead(L), NEW v \in Texts,
             Completes(L, D, Push(a, s), stop, Conf(ns, o, v))
      PROVE  Completes(L, D, Push(t, s), stop, Conf(ns, o, l ++ v))
  <2>1. PICK u \in Texts, y \in Texts :
            v = u ++ y /\ May(L, a, ns, u) /\ Completes(L, D, s, stop, Conf(<<>>, o, y))
      BY <1>1, <1>2, <1>3, Peel
  <2>2. u \in Closing(L, ns)
      BY <1>1, <2>1, MayAfter
  <2>3. May(L, t, ns, l ++ u)
    <3>1. \E x \in Lead(L), z \in Closing(L, ns) : l ++ u = x ++ z
        BY <2>2, Zenon
    <3> QED BY <3>1, MayValue
  <2>4. l \in Texts /\ l ++ u \in Texts /\ l ++ v = (l ++ u) ++ y
    <3>1. l \in Texts
        BY Leads
    <3> QED BY <2>1, <3>1, Joins, SMT
  <2> QED BY <1>2, <2>1, <2>3, <2>4, Put
<1>4. Serves(L, D, stop, String \o Push(a, s), ns, o, Push(t, s), ns, o, Empty)
  <2> SUFFICES ASSUME NEW w \in Texts,
                      Completes(L, D, String \o Push(a, s), stop, Conf(ns, o, w))
               PROVE  Completes(L, D, Push(t, s), stop, Conf(ns, o, w))
      BY Joins, Zenon DEF Serves
  <2>1. PICK b \in Blanks, q \in Str(L), v \in Texts :
            w = b ++ (q ++ v) /\ Completes(L, D, Push(a, s), stop, Conf(ns, o, v))
      BY <1>1, StringRead
  <2>2. b \in Texts /\ q \in Texts /\ b ++ q \in Texts
      BY Blank, Family, Joins, Zenon
  <2>3. b ++ q \in Lead(L) /\ w = (b ++ q) ++ v
      BY <2>1, <2>2, Strings, Joins, Zenon DEF Lead
  <2> QED BY <1>3, <2>1, <2>3, Zenon
<1>5. Serves(L, D, stop, Push(k, Push(a, s)), ns, o, Push(t, s), ns, o, Empty)
  <2> SUFFICES ASSUME NEW w \in Texts,
                      Completes(L, D, Push(k, Push(a, s)), stop, Conf(ns, o, w))
               PROVE  Completes(L, D, Push(t, s), stop, Conf(ns, o, w))
      BY Joins, Zenon DEF Serves
  <2>1. PICK u \in Texts, v \in Texts :
            w = u ++ v /\ May(L, k, ns, u) /\ Completes(L, D, Push(a, s), stop, Conf(ns, o, v))
      BY <1>1, <1>2, Peel
  <2>2. u \in Numbers \cup {<<"n", "l">>}
      BY <1>1, <2>1, MayScalar
  <2>3. u \in Val(L)
      BY <2>2, Strings, Zenon
  <2>4. u \in Lead(L)
      BY <2>1, <2>3, Blank, Joins, Zenon DEF Lead
  <2> QED BY <1>3, <2>1, <2>4, Zenon
<1> QED BY <1>4, <1>5 DEF a, k

(* A container that `skip` enters.                                          *)
LEMMA OpenServes ==
    ASSUME NEW L \in Families, NEW D, NEW s \in Seq(Tasks), NEW t \in Tasks, t.do = "skip",
           NEW c \in Openers, NEW stop, stop \notin {"skip", "inside"},
           NEW ns \in Seq(Openers), NEW o \in Int
    PROVE  Serves(L, D, stop, Push(Task("inside", c), s), ns, o, Push(t, s), ns, o, One(c))
<1> DEFINE i == Task("inside", c)
<1>1. i \in Tasks /\ i.do = "inside" /\ i.of = c
  <2>1. "inside" \in Steps /\ c \in Subjects
      BY Words, Zenon DEF Steps
  <2> QED BY <2>1, IsTask, Zenon
<1> HIDE DEF i
<1>2. /\ Outer(i, ns) = <<>> /\ Opened(i, o) = o /\ Outer(t, ns) = <<>> /\ Opened(t, o) = o
      /\ i.do # stop /\ t.do # stop /\ t.do # "returned"
    BY <1>1, SMT DEF Outer, Opened, Nesters
<1>3. One(c) = Open(c) /\ One(c) \in Texts
  <2>1. One(c) = Open(c)
      BY Zenon DEF Open, Openers
  <2> QED BY <2>1, Marked, Zenon
<1>4. ASSUME NEW u \in Texts, May(L, i, ns, u) PROVE May(L, t, ns, One(c) ++ u)
  <2>1. \E v \in Inner(L, c), w \in Closing(L, ns) : u = v ++ w
      BY <1>1, <1>4, MayInside
  <2>2. PICK v \in Inner(L, c), w \in Closing(L, ns) : u = v ++ w
      BY <2>1
  <2>3. v \in Texts /\ w \in Texts /\ One(c) ++ v \in Val(L)
      BY <1>3, InnerContainer, Zenon DEF Closing
  <2>4. One(c) ++ v \in Lead(L) /\ One(c) ++ u = (One(c) ++ v) ++ w
    <3>1. One(c) ++ v \in Texts /\ Empty ++ (One(c) ++ v) = One(c) ++ v
        BY <1>3, <2>3, Joins, Zenon
    <3>2. One(c) ++ u = (One(c) ++ v) ++ w
        BY <1>3, <2>2, <2>3, Joins, Zenon
    <3> QED BY <2>3, <3>1, <3>2, Blank, Zenon DEF Lead
  <2>5. \E x \in Lead(L), z \in Closing(L, ns) : One(c) ++ u = x ++ z
      BY <2>4, Zenon
  <2> QED BY <2>5, MayValue
<1>5. Serves(L, D, stop, Push(i, s), ns, o, Push(t, s), ns, o, One(c))
    BY <1>1, <1>2, <1>3, <1>4, Replaces
<1> QED BY <1>5 DEF i

(* A container that is empty, and one that ends.                            *)
LEMMA ClosesServe ==
    ASSUME NEW L \in Families, NEW D, NEW s \in Seq(Tasks), NEW t \in Tasks, t.do = "inside",
           NEW a \in Tasks, a.do = "after", NEW stop, stop \notin {"after", "inside"},
           NEW ns \in Seq(Openers), NEW o \in Int, NEW c \in Openers
    PROVE  /\ Serves(L, D, stop, Push(a, s), ns, o, Push(t, s), ns, o, Close(t.of))
           /\ Serves(L, D, stop, Push(a, s), ns, o, Push(a, s), Append(ns, c), o, Close(c))
<1> DEFINE m == Append(ns, c)
<1>0. m \in Seq(Openers)
    BY SMT
<1>1. /\ Outer(a, ns) = <<>> /\ Opened(a, o) = o /\ Outer(t, ns) = <<>> /\ Opened(t, o) = o
      /\ Outer(a, m) = <<>>
      /\ a.do # stop /\ t.do # stop /\ t.do # "returned" /\ a.do # "returned"
    BY SMT DEF Outer, Opened, Nesters
<1>2. ASSUME NEW u \in Texts, May(L, a, ns, u) PROVE May(L, t, ns, Close(t.of) ++ u)
  <2>1. u \in Closing(L, ns)
      BY <1>2, MayAfter
  <2>2. \E x \in Inner(L, t.of), z \in Closing(L, ns) : Close(t.of) ++ u = x ++ z
      BY <2>1, InnerContainer, Zenon
  <2> QED BY <2>2, MayInside
<1>3. ASSUME NEW u \in Texts, May(L, a, ns, u) PROVE May(L, a, m, Close(c) ++ u)
  <2>1. u \in Closing(L, ns)
      BY <1>3, MayAfter
  <2>2. Close(c) ++ u \in Closing(L, m)
      BY <2>1, BehindValue, AfterOne, Zenon
  <2> QED BY <2>2, MayAfter
<1> HIDE DEF m
<1>4. Close(t.of) \in Texts /\ Close(c) \in Texts
    BY Marked
<1>5. Serves(L, D, stop, Push(a, s), ns, o, Push(t, s), ns, o, Close(t.of))
    BY <1>1, <1>2, <1>4, Replaces
<1>6. Serves(L, D, stop, Push(a, s), ns, o, Push(a, s), m, o, Close(c))
    BY <1>0, <1>1, <1>3, <1>4, Replaces
<1> QED BY <1>5, <1>6 DEF m

(* What `skip` reads in the container c, the label of the value included.   *)
LEMMA LabelRead ==
    ASSUME NEW L \in Families, NEW D, NEW s \in Seq(Tasks), NEW c, NEW k \in Tasks, k.do = "skip",
           NEW stop, stop \notin {"skip", "expect", "chars"},
           NEW ns \in Seq(Openers), NEW o \in Int, NEW w \in Texts,
           Completes(L, D, InContainer(c) \o Push(k, s), stop, Conf(ns, o, w))
    PROVE  \E x \in Labelled(L, c), v \in Closing(L, ns), r \in Texts :
              w = x ++ (v ++ r) /\ Completes(L, D, s, stop, Conf(<<>>, o, r))
<1> DEFINE e == Task("expect", ":")
<1>1. /\ e \in Tasks /\ e.do = "expect" /\ e.of = ":"
      /\ "expect" # stop /\ "expect" # "returned" /\ k.do # stop /\ k.do # "returned"
  <2>1. "expect" \in Steps /\ ":" \in Subjects
      BY Words, Zenon DEF Steps
  <2> QED BY <2>1, IsTask, Zenon
<1>2. Push(k, s) \in Seq(Tasks) /\ Push(e, Push(k, s)) \in Seq(Tasks)
    BY <1>1, Pushing, Zenon
<1>3. Outer(k, ns) = <<>> /\ Opened(k, o) = o /\ Outer(e, ns) = ns /\ Opened(e, o) = o
    BY <1>1, SMT DEF Outer, Opened, Nesters
(* The value itself.                                                        *)
<1>4. ASSUME NEW y \in Texts, Completes(L, D, Push(k, s), stop, Conf(ns, o, y))
      PROVE  \E l \in Lead(L), v \in Closing(L, ns), r \in Texts :
                y = l ++ (v ++ r) /\ Completes(L, D, s, stop, Conf(<<>>, o, r))
  <2>1. PICK u \in Texts, r \in Texts :
            y = u ++ r /\ May(L, k, ns, u) /\ Completes(L, D, s, stop, Conf(<<>>, o, r))
      BY <1>1, <1>3, <1>4, Peel
  <2>2. \E l \in Lead(L), v \in Closing(L, ns) : u = l ++ v
      BY <2>1, MayValue
  <2>3. PICK l \in Lead(L), v \in Closing(L, ns) : u = l ++ v
      BY <2>2
  <2>4. l \in Texts /\ v \in Texts
      BY Leads, Zenon DEF Closing
  <2>5. y = l ++ (v ++ r)
      BY <2>1, <2>3, <2>4, Joins, SMT
  <2> QED BY <2>1, <2>5, Zenon
<1>5. CASE c # "{"
  <2>1. InContainer(c) \o Push(k, s) = Push(k, s)
    <3>1. InContainer(c) = <<>>
        BY <1>5, Zenon DEF InContainer
    <3> QED BY <1>2, <3>1, SMT
  <2>2. PICK l \in Lead(L), v \in Closing(L, ns), r \in Texts :
            w = l ++ (v ++ r) /\ Completes(L, D, s, stop, Conf(<<>>, o, r))
      BY <1>4, <2>1
  <2>3. l \in Labelled(L, c)
    <3>1. Empty \in Label(L, c) /\ l \in Texts /\ Empty ++ l = l
        BY <1>5, Leads, Joins, Zenon DEF Label
    <3> QED BY <3>1, Zenon DEF Labelled
  <2> QED BY <2>2, <2>3, Zenon
<1>6. CASE c = "{"
  <2>1. InContainer(c) \o Push(k, s) = String \o Push(e, Push(k, s))
    <3>1. InContainer(c) = String \o <<e>> /\ String \in Seq(Tasks)
      <4>1. String \in Seq(Tasks)
          BY PutTogether, SMT DEF Later
      <4> QED BY <1>6, <4>1, Zenon DEF InContainer, MemberName
    <3> HIDE DEF e
    <3> QED BY <1>1, <1>2, <3>1, SMT DEF Push
  <2> HIDE DEF e
  <2>2. PICK b \in Blanks, q \in Str(L), y \in Texts :
            /\ w = b ++ (q ++ y)
            /\ Completes(L, D, Push(e, Push(k, s)), stop, Conf(ns, o, y))
      BY <1>2, <2>1, StringRead
  <2>3. PICK u \in Texts, z \in Texts :
            y = u ++ z /\ May(L, e, ns, u) /\ Completes(L, D, Push(k, s), stop, Conf(ns, o, z))
      BY <1>1, <1>2, <1>3, <2>2, Peel
  <2>4. \E d \in Blanks : u = d ++ One(":")
      BY <1>1, <2>3, MayExpect
  <2>5. PICK d \in Blanks : u = d ++ One(":")
      BY <2>4
  <2>6. PICK l \in Lead(L), v \in Closing(L, ns), r \in Texts :
            z = l ++ (v ++ r) /\ Completes(L, D, s, stop, Conf(<<>>, o, r))
      BY <1>4, <2>3
  <2> DEFINE n == b ++ (q ++ d)
             colon == One(":")
             x == (n ++ colon) ++ l
  <2>7. /\ b \in Texts /\ q \in Texts /\ d \in Texts /\ l \in Texts /\ v \in Texts
        /\ colon \in Texts /\ n \in Texts /\ n ++ colon \in Texts /\ x \in Texts
    <3>1. /\ b \in Texts /\ q \in Texts /\ d \in Texts /\ l \in Texts /\ v \in Texts
          /\ colon \in Texts
        BY Blank, Family, Leads, Marked, Zenon DEF Closing
    <3> QED BY <3>1, Joins, Zenon
  <2>8. n \in Name(L)
      BY <2>7, Zenon DEF Name
  <2>9. n ++ colon \in Label(L, c)
      BY <1>6, <2>8, Zenon DEF Label
  <2>10. x \in Labelled(L, c)
      BY <2>7, <2>9, Zenon DEF Labelled
  <2>11. w = x ++ (v ++ r)
    <3> DEFINE f == v ++ r
    <3>1. u = d ++ colon /\ f \in Texts /\ z = l ++ f
        BY <2>5, <2>6, <2>7, Joins, Zenon
    <3> HIDE DEF colon, n, f
    <3>2. w = b ++ (q ++ ((d ++ colon) ++ (l ++ f)))
        BY <2>2, <2>3, <3>1, Zenon
    <3>3. b ++ (q ++ ((d ++ colon) ++ (l ++ f))) = ((n ++ colon) ++ l) ++ f
      <4>1. b ++ (q ++ ((d ++ colon) ++ (l ++ f))) = b ++ (q ++ (d ++ (colon ++ (l ++ f))))
          BY <2>7, <3>1, Joins, SMT
      <4>2. (n ++ colon) ++ (l ++ f) = ((n ++ colon) ++ l) ++ f
          BY <2>7, <3>1, Joins, SMT
      <4>3. (n ++ colon) ++ (l ++ f) = n ++ (colon ++ (l ++ f))
          BY <2>7, <3>1, Joins, SMT
      <4>4. n ++ (colon ++ (l ++ f)) = b ++ (q ++ (d ++ (colon ++ (l ++ f))))
          BY <2>7, <3>1, Joins, SMT DEF n
      <4> QED BY <4>1, <4>2, <4>3, <4>4, Zenon
    <3> QED BY <3>2, <3>3, Zenon DEF f
  <2> HIDE DEF x
  <2> QED BY <2>6, <2>10, <2>11, Zenon
<1> QED BY <1>5, <1>6, Zenon

LEMMA ContainerServes ==
    ASSUME NEW L \in Families, NEW D, NEW s \in Seq(Tasks), NEW t \in Tasks, t.do = "inside",
           NEW a \in Tasks, a.do = "after", NEW k \in Tasks, k.do = "skip",
           NEW stop, stop \notin {"after", "inside", "skip", "expect", "chars"},
           NEW ns \in Seq(Openers), NEW o \in Int, NEW c \in Openers
    PROVE  /\ t.of \in Openers =>
                Serves(L, D, stop, InContainer(t.of) \o Push(k, s), Append(ns, t.of), o,
                       Push(t, s), ns, o, Empty)
           /\ Serves(L, D, stop, InContainer(c) \o Push(k, s), Append(ns, c), o,
                     Push(a, s), Append(ns, c), o, Comma)
<1>1. /\ Outer(a, Append(ns, c)) = <<>> /\ Opened(a, o) = o
      /\ Outer(t, ns) = <<>> /\ Opened(t, o) = o
      /\ a.do # stop /\ t.do # stop /\ t.do # "returned" /\ a.do # "returned"
      /\ stop \notin {"skip", "expect", "chars"}
    BY SMT DEF Outer, Opened, Nesters
<1>2. ASSUME NEW d \in Openers, NEW w \in Texts,
             Completes(L, D, InContainer(d) \o Push(k, s), stop, Conf(Append(ns, d), o, w))
      PROVE  \E x \in Labelled(L, d), y \in Behind(L, d), z \in Closing(L, ns), r \in Texts :
                /\ w = x ++ ((y ++ z) ++ r) /\ Completes(L, D, s, stop, Conf(<<>>, o, r))
                /\ y \in Texts /\ z \in Texts /\ x \in Texts
  <2>1. Append(ns, d) \in Seq(Openers)
      BY SMT
  <2> DEFINE m == Append(ns, d)
  <2>2. PICK x \in Labelled(L, d), v \in Closing(L, m), r \in Texts :
            w = x ++ (v ++ r) /\ Completes(L, D, s, stop, Conf(<<>>, o, r))
    <3>1. m \in Seq(Openers) /\ Completes(L, D, InContainer(d) \o Push(k, s), stop, Conf(m, o, w))
        BY <1>2, <2>1
    <3> HIDE DEF m
    <3> QED BY <1>1, <3>1, LabelRead
  <2>3. \E y \in Behind(L, d), z \in Closing(L, ns) : v = y ++ z
      BY AfterOne
  <2>4. PICK y \in Behind(L, d), z \in Closing(L, ns) : v = y ++ z
      BY <2>3
  <2>5. x \in Texts /\ y \in Texts /\ z \in Texts
      BY EntryBlanks, BehindValue, Zenon DEF Closing
  <2> QED BY <2>2, <2>4, <2>5, Zenon
<1>3. ASSUME t.of \in Openers, NEW w \in Texts,
             Completes(L, D, InContainer(t.of) \o Push(k, s), stop, Conf(Append(ns, t.of), o, w))
      PROVE  Completes(L, D, Push(t, s), stop, Conf(ns, o, Empty ++ w))
  <2>1. PICK x \in Labelled(L, t.of), y \in Behind(L, t.of), z \in Closing(L, ns), r \in Texts :
            /\ w = x ++ ((y ++ z) ++ r) /\ Completes(L, D, s, stop, Conf(<<>>, o, r))
            /\ y \in Texts /\ z \in Texts /\ x \in Texts
      BY <1>2, <1>3
  <2>2. x ++ y \in Inner(L, t.of)
      BY InnerContainer
  <2> DEFINE u == (x ++ y) ++ z
  <2>3. u \in Texts /\ Empty ++ w = u ++ r
      BY <2>1, Joins, SMT
  <2>4. May(L, t, ns, u)
    <3>1. \E v \in Inner(L, t.of), q \in Closing(L, ns) : u = v ++ q
        BY <2>2, Zenon
    <3> HIDE DEF u
    <3> QED BY <3>1, MayInside
  <2> HIDE DEF u
  <2> QED BY <1>1, <2>1, <2>3, <2>4, Put
<1>4. ASSUME NEW w \in Texts,
             Completes(L, D, InContainer(c) \o Push(k, s), stop, Conf(Append(ns, c), o, w))
      PROVE  Completes(L, D, Push(a, s), stop, Conf(Append(ns, c), o, Comma ++ w))
  <2>1. PICK x \in Labelled(L, c), y \in Behind(L, c), z \in Closing(L, ns), r \in Texts :
            /\ w = x ++ ((y ++ z) ++ r) /\ Completes(L, D, s, stop, Conf(<<>>, o, r))
            /\ y \in Texts /\ z \in Texts /\ x \in Texts
      BY <1>2, <1>4
  <2>2. Comma ++ (x ++ y) \in Behind(L, c)
      BY BehindValue
  <2> DEFINE u == (Comma ++ (x ++ y)) ++ z
  <2>3. u \in Texts /\ Comma ++ w = u ++ r
    <3>1. Comma \in Texts
        BY Marked
    <3>2. w = (x ++ y) ++ (z ++ r)
        BY <2>1, Joins, SMT
    <3>3. x ++ y \in Texts /\ z ++ r \in Texts
        BY <2>1, Joins, Zenon
    <3>4. Comma ++ ((x ++ y) ++ (z ++ r)) = (Comma ++ (x ++ y)) ++ (z ++ r)
        BY <3>1, <3>3, Joins, Zenon
    <3>5. Comma ++ (x ++ y) \in Texts
        BY <3>1, <3>3, Joins, Zenon
    <3>6. (Comma ++ (x ++ y)) ++ (z ++ r) = u ++ r
        BY <2>1, <3>5, Joins, SMT
    <3> QED BY <2>1, <3>2, <3>4, <3>5, <3>6, Joins, Zenon
  <2>4. u \in Closing(L, Append(ns, c))
      BY <2>2, AfterOne
  <2> HIDE DEF u
  <2>5. May(L, a, Append(ns, c), u)
      BY <2>4, MayAfter
  <2>6. Append(ns, c) \in Seq(Openers)
      BY SMT
  <2> QED BY <1>1, <2>1, <2>3, <2>5, <2>6, Put
<1> QED BY <1>3, <1>4, Zenon DEF Serves

-----------------------------------------------------------------------------
(* The generators: what is read of a member, or an item, and behind it.     *)
LEMMA EntryCalls ==
    ASSUME NEW c \in Subjects
    PROVE  /\ Task("yield", c) \in Tasks /\ Task("more", c) \in Tasks
           /\ Task("keep", "name") \in Tasks /\ Step("take") \in Tasks
           /\ Task("expect", ":") \in Tasks /\ String \in Seq(Tasks)
           /\ Task("expect", c) \in Tasks /\ Task("first", c) \in Tasks
           /\ \A s \in Seq(Tasks) :
                 /\ c # "{" => Entry(c) \o s = Push(Task("yield", c), Push(Task("more", c), s))
                 /\ c = "{" => Entry(c) \o s =
                        Push(Task("keep", "name"), String \o Push(Step("take"),
                             Push(Task("expect", ":"),
                                  Push(Task("yield", c), Push(Task("more", c), s)))))
                 /\ Generator(c) \o s = Push(Task("expect", c), Push(Task("first", c), s))
<1> DEFINE y == Task("yield", c)
           m == Task("more", c)
           k == Task("keep", "name")
           t == Step("take")
           e == Task("expect", ":")
           g == Task("expect", c)
           f == Task("first", c)
<1>1. /\ y \in Tasks /\ m \in Tasks /\ k \in Tasks /\ t \in Tasks /\ e \in Tasks
      /\ g \in Tasks /\ f \in Tasks
  <2>1. /\ {"yield", "more", "keep", "take", "expect", "first"} \subseteq Steps
        /\ c \in Subjects /\ ":" \in Subjects /\ "name" \in Subjects
      BY Words, SMT DEF Steps
  <2> QED BY <2>1, IsTask, Zenon
<1>2. String \in Seq(Tasks)
    BY PutTogether, SMT DEF Later
<1> DEFINE q == String
<1>3. ASSUME NEW s \in Seq(Tasks), c # "{" PROVE Entry(c) \o s = Push(y, Push(m, s))
  <2>1. Entry(c) = <<>> \o <<y, m>>
      BY <1>3, Zenon DEF Entry
  <2> HIDE DEF y, m
  <2>2. <<>> \o <<y, m>> = <<y, m>>
      BY <1>1, SMT
  <2>3. Push(y, Push(m, s)) = <<y, m>> \o s
    <3>1. y \in Tasks /\ m \in Tasks /\ s \in Seq(Tasks)
        BY <1>1
    <3> QED BY ONLY <3>1, Several
  <2> QED BY <2>1, <2>2, <2>3, Zenon
<1>4. ASSUME NEW s \in Seq(Tasks), c = "{"
      PROVE  Entry(c) \o s = Push(k, q \o Push(t, Push(e, Push(y, Push(m, s)))))
  <2>1. Entry(c) = (<<k>> \o q \o <<t, e>>) \o <<y, m>>
      BY <1>4, Zenon DEF Entry
  <2>2. q \in Seq(Tasks)
      BY <1>2
  <2> HIDE DEF y, m, k, t, e, q
  <2>3. Push(t, Push(e, Push(y, Push(m, s)))) = <<t, e>> \o (<<y, m>> \o s)
    <3>1. Push(y, Push(m, s)) = <<y, m>> \o s /\ Push(y, Push(m, s)) \in Seq(Tasks)
        BY <1>1, Several, Pushing, Zenon
    <3> DEFINE r == Push(y, Push(m, s))
    <3>2. r \in Seq(Tasks)
        BY <3>1
    <3> HIDE DEF r
    <3>3. Push(t, Push(e, r)) = <<t, e>> \o r
      <4>1. t \in Tasks /\ e \in Tasks
          BY <1>1
      <4> QED BY ONLY <3>2, <4>1, Several
    <3>4. Push(t, Push(e, Push(y, Push(m, s)))) = <<t, e>> \o Push(y, Push(m, s))
        BY <3>3 DEF r
    <3> QED BY <3>1, <3>4, Zenon
  <2>5. <<k>> \in Seq(Tasks) /\ <<t, e>> \in Seq(Tasks) /\ <<y, m>> \in Seq(Tasks)
      BY <1>1, SMT
  <2>6. Entry(c) \o s = <<k>> \o (q \o (<<t, e>> \o (<<y, m>> \o s)))
    <3> DEFINE a == <<k>>
               b == <<t, e>>
               d == <<y, m>>
    <3>1. Entry(c) \o s = (((a ++ q) ++ b) ++ d) ++ s
        BY <2>1, Zenon DEF ++
    <3>2. a \in Seq(Tasks) /\ b \in Seq(Tasks) /\ d \in Seq(Tasks)
        BY <2>5, Zenon
    <3> HIDE DEF a, b, d
    <3>3. (((a ++ q) ++ b) ++ d) ++ s = a ++ (q ++ (b ++ (d ++ s)))
      <4>1. \A x, v, z \in Seq(Tasks) : (x ++ v) ++ z = x ++ (v ++ z)
          BY SMT DEF ++
      <4>2. \A x, z \in Seq(Tasks) : x ++ z \in Seq(Tasks)
          BY SMT DEF ++
      <4>3. a ++ q \in Seq(Tasks) /\ (a ++ q) ++ b \in Seq(Tasks) /\ d ++ s \in Seq(Tasks)
            /\ b ++ (d ++ s) \in Seq(Tasks)
          BY <2>2, <3>2, <4>2
      <4>4. (((a ++ q) ++ b) ++ d) ++ s = ((a ++ q) ++ b) ++ (d ++ s)
          BY <3>2, <4>1, <4>3
      <4>5. ((a ++ q) ++ b) ++ (d ++ s) = (a ++ q) ++ (b ++ (d ++ s))
          BY <3>2, <4>1, <4>3
      <4>6. (a ++ q) ++ (b ++ (d ++ s)) = a ++ (q ++ (b ++ (d ++ s)))
          BY <2>2, <3>2, <4>1, <4>3
      <4> QED BY <4>4, <4>5, <4>6
    <3>4. Entry(c) \o s = a \o (q \o (b \o (d \o s)))
        BY <3>1, <3>3, Zenon DEF ++
    <3> QED BY <3>4 DEF a, b, d
  <2>7. <<k>> \o (q \o (<<t, e>> \o (<<y, m>> \o s))) = Push(k, q \o Push(t, Push(e, Push(y, Push(m, s)))))
    <3> DEFINE z == Push(t, Push(e, Push(y, Push(m, s))))
    <3>1. <<t, e>> \o (<<y, m>> \o s) = z
        BY <2>3, Zenon
    <3> HIDE DEF z
    <3>2. <<k>> \o (q \o z) = Push(k, q \o z)
        BY Zenon DEF Push
    <3> QED BY <3>1, <3>2 DEF z
  <2> QED BY <2>6, <2>7, Zenon
<1>5. ASSUME NEW s \in Seq(Tasks) PROVE Generator(c) \o s = Push(g, Push(f, s))
  <2>1. Generator(c) = <<g, f>>
      BY Zenon DEF Generator
  <2> HIDE DEF g, f
  <2>2. Push(g, Push(f, s)) = <<g, f>> \o s
    <3>1. g \in Tasks /\ f \in Tasks
        BY <1>1
    <3> QED BY ONLY <3>1, <1>5, s \in Seq(Tasks), Several
  <2> QED BY <2>1, <2>2, Zenon
<1> QED BY <1>1, <1>2, <1>3, <1>4, <1>5, Zenon

(* A member yielded, and what is behind it.                                 *)
LEMMA YieldRead ==
    ASSUME NEW L \in Families, NEW D, NEW s \in Seq(Tasks), NEW c \in Subjects,
           NEW stop, stop \notin {"yield", "more"},
           NEW o \in Int, NEW w \in Texts,
           Completes(L, D, Push(Task("yield", c), Push(Task("more", c), s)), stop,
                     Conf(<<>>, o, w))
    PROVE  \E v \in Lead(L), y \in Behind(L, c), r \in Texts :
              w = v ++ (y ++ r) /\ Completes(L, D, s, stop, Conf(<<>>, o - 1, r))
<1> DEFINE g == Task("yield", c)
           m == Task("more", c)
           none == <<>>
<1>1. /\ g \in Tasks /\ m \in Tasks /\ g.do = "yield" /\ m.do = "more" /\ m.of = c
      /\ g.do # stop /\ m.do # stop /\ g.do # "returned" /\ m.do # "returned"
      /\ none \in Seq(Openers)
  <2>1. "yield" \in Steps /\ "more" \in Steps /\ c \in Subjects
      BY Words, Zenon DEF Steps
  <2>2. none \in Seq(Openers)
      BY SMT
  <2> QED BY <2>1, <2>2, IsTask, Zenon
<1> HIDE DEF g, m, none
<1>2. Outer(g, none) = none /\ Opened(g, o) = o /\ Outer(m, none) = none /\ Opened(m, o) = o - 1
    BY <1>1, SMT DEF Outer, Opened, Nesters, none
<1>3. Push(m, s) \in Seq(Tasks)
    BY <1>1, Pushing, Zenon
<1>4. PICK u \in Texts, z \in Texts :
          w = u ++ z /\ May(L, g, none, u) /\ Completes(L, D, Push(m, s), stop, Conf(none, o, z))
  <2>1. Completes(L, D, Push(g, Push(m, s)), stop, Conf(none, o, w))
      BY DEF g, m, none
  <2> QED BY <1>1, <1>2, <1>3, <2>1, Peel
<1>5. PICK y \in Texts, r \in Texts :
          z = y ++ r /\ May(L, m, none, y) /\ Completes(L, D, s, stop, Conf(none, o - 1, r))
    BY <1>1, <1>2, <1>4, Peel
<1>6. y \in Behind(L, c)
    BY <1>1, <1>5, MayMore
<1>7. \E v \in Lead(L), x \in Closing(L, none) : u = v ++ x
    BY <1>1, <1>4, MayValue
<1>8. PICK v \in Lead(L) : u = v
  <2>1. PICK v \in Lead(L), x \in Closing(L, none) : u = v ++ x
      BY <1>7
  <2>2. x = Empty /\ v \in Texts
      BY AfterNone, Leads DEF none
  <2> QED BY <2>1, <2>2, Joins, Zenon
<1>9. w = v ++ (y ++ r)
    BY <1>4, <1>5, <1>8
<1> QED BY <1>5, <1>6, <1>9, Zenon DEF none

LEMMA EntryRead ==
    ASSUME NEW L \in Families, NEW D, NEW s \in Seq(Tasks), NEW c \in Subjects,
           NEW o \in Int, NEW w \in Texts,
           Completes(L, D, Entry(c) \o s, "read", Conf(<<>>, o, w))
    PROVE  \E x \in Labelled(L, c), y \in Behind(L, c), r \in Texts :
              w = x ++ (y ++ r) /\ Completes(L, D, s, "read", Conf(<<>>, o - 1, r))
<1> DEFINE g == Task("yield", c)
           m == Task("more", c)
           k == Task("keep", "name")
           t == Step("take")
           e == Task("expect", ":")
           none == <<>>
           stop == "read"
           colon == One(":")
           rest == Push(g, Push(m, s))
           named == String \o Push(t, Push(e, rest))
<1>1. /\ g \in Tasks /\ m \in Tasks /\ k \in Tasks /\ t \in Tasks /\ e \in Tasks
      /\ rest \in Seq(Tasks) /\ Push(e, rest) \in Seq(Tasks) /\ Push(t, Push(e, rest)) \in Seq(Tasks)
      /\ named \in Seq(Tasks)
  <2>1. g \in Tasks /\ m \in Tasks /\ k \in Tasks /\ t \in Tasks /\ e \in Tasks
        /\ String \in Seq(Tasks)
      BY EntryCalls, Zenon
  <2> HIDE DEF g, m, k, t, e
  <2>2. rest \in Seq(Tasks) /\ Push(e, rest) \in Seq(Tasks) /\ Push(t, Push(e, rest)) \in Seq(Tasks)
      BY <2>1, Pushing, Zenon
  <2>3. \A p, q \in Seq(Tasks) : p \o q \in Seq(Tasks)
      BY SMT
  <2> QED BY <2>1, <2>2, <2>3, Zenon
<1>2. /\ k.do = "keep" /\ t.do = "take" /\ e.do = "expect" /\ e.of = ":"
      /\ stop \notin {"keep", "take", "expect", "chars", "yield", "more"}
      /\ none \in Seq(Openers) /\ colon \in Texts
  <2>1. none \in Seq(Openers)
      BY SMT
  <2> QED BY <2>1, Marked, Zenon DEF Task, Step
<1>3. /\ Completes(L, D, Entry(c) \o s, stop, Conf(none, o, w))
      /\ c # "{" => Entry(c) \o s = rest
      /\ c = "{" => Entry(c) \o s = Push(k, named)
    BY EntryCalls, Zenon
<1> HIDE DEF k, t, e, none, stop, colon
<1>4. ASSUME NEW z \in Texts, Completes(L, D, rest, stop, Conf(none, o, z))
      PROVE  \E v \in Lead(L), y \in Behind(L, c), r \in Texts :
                z = v ++ (y ++ r) /\ Completes(L, D, s, stop, Conf(none, o - 1, r))
    BY <1>2, <1>4, YieldRead DEF none
<1> HIDE DEF g, m, rest, named
<1>5. CASE c # "{"
  <2>1. Completes(L, D, rest, stop, Conf(none, o, w))
      BY <1>3, <1>5, Zenon
  <2>2. PICK v \in Lead(L), y \in Behind(L, c), r \in Texts :
            w = v ++ (y ++ r) /\ Completes(L, D, s, stop, Conf(none, o - 1, r))
      BY <1>4, <2>1
  <2>3. v \in Labelled(L, c)
    <3>1. Empty \in Label(L, c) /\ v \in Texts /\ Empty ++ v = v
        BY <1>5, Leads, Joins, Zenon DEF Label
    <3> QED BY <3>1, Zenon DEF Labelled
  <2> QED BY <2>2, <2>3, Zenon DEF none, stop
<1>6. CASE c = "{"
  <2>1. Completes(L, D, Push(k, named), stop, Conf(none, o, w))
      BY <1>3, <1>6, Zenon
  <2>2. /\ Outer(k, none) = none /\ Opened(k, o) = o /\ Outer(t, none) = none
        /\ Opened(t, o) = o /\ Outer(e, none) = none /\ Opened(e, o) = o
        /\ k.do # "returned" /\ t.do # "returned" /\ e.do # "returned"
      BY <1>2, SMT DEF Outer, Opened, Nesters
  <2>3. k.do # stop /\ t.do # stop /\ e.do # stop /\ stop \notin {"expect", "chars"}
      BY <1>2
  <2>4. PICK a \in Texts, z1 \in Texts :
            /\ w = a ++ z1 /\ May(L, k, none, a)
            /\ Completes(L, D, named, stop, Conf(none, o, z1))
      BY <1>1, <1>2, <2>1, <2>2, <2>3, Peel
  <2>5. a \in Blanks
    <3>1. k.do \in Padding
        BY <1>2, Zenon DEF Padding
    <3> QED BY <2>4, <3>1, MayPad
  <2>6. PICK b \in Blanks, q \in Str(L), z2 \in Texts :
            /\ z1 = b ++ (q ++ z2)
            /\ Completes(L, D, Push(t, Push(e, rest)), stop, Conf(none, o, z2))
      BY <1>1, <1>2, <2>3, <2>4, StringRead DEF named
  <2>7. PICK i \in Texts, z3 \in Texts :
            /\ z2 = i ++ z3 /\ May(L, t, none, i)
            /\ Completes(L, D, Push(e, rest), stop, Conf(none, o, z3))
      BY <1>1, <1>2, <2>2, <2>3, <2>6, Peel
  <2>8. z2 = z3
    <3>1. t.do \notin Readers
        BY <1>2, Zenon DEF Readers, Nesters, Padding
    <3>2. i = Empty
        BY <2>7, <3>1, MayNothing
    <3> QED BY <2>7, <3>2, Joins, Zenon
  <2>9. PICK j \in Texts, z4 \in Texts :
            /\ z3 = j ++ z4 /\ May(L, e, none, j)
            /\ Completes(L, D, rest, stop, Conf(none, o, z4))
      BY <1>1, <1>2, <2>2, <2>3, <2>7, Peel
  <2>10. \E d \in Blanks : j = d ++ colon
    <3>1. \E d \in Blanks : j = d ++ One(e.of)
        BY <1>2, <2>9, MayExpect
    <3> QED BY <1>2, <3>1 DEF colon
  <2>11. PICK d \in Blanks : j = d ++ colon
      BY <2>10
  <2>12. PICK v \in Lead(L), y \in Behind(L, c), r \in Texts :
            z4 = v ++ (y ++ r) /\ Completes(L, D, s, stop, Conf(none, o - 1, r))
      BY <1>4, <2>9
  <2> DEFINE ab == a ++ b
             n == ab ++ (q ++ d)
             x == (n ++ colon) ++ v
             f == y ++ r
  <2>13. /\ a \in Texts /\ b \in Texts /\ q \in Texts /\ d \in Texts /\ v \in Texts /\ y \in Texts
         /\ ab \in Blanks /\ ab \in Texts /\ n \in Texts /\ n ++ colon \in Texts /\ x \in Texts
         /\ f \in Texts
    <3>1. /\ a \in Texts /\ b \in Texts /\ q \in Texts /\ d \in Texts /\ v \in Texts /\ y \in Texts
          /\ ab \in Blanks
        BY <2>5, Blank, Family, Leads, BehindValue, Zenon
    <3> HIDE DEF ab
    <3>2. ab \in Texts
        BY <3>1, Blank
    <3> QED BY <1>2, <3>1, <3>2, Joins, Zenon
  <2>14. n \in Name(L)
      BY <2>13, Zenon DEF Name
  <2>15. n ++ colon \in Label(L, c)
      BY <1>6, <2>14, Zenon DEF Label, colon
  <2>16. x \in Labelled(L, c)
      BY <2>13, <2>15, Zenon DEF Labelled
  <2>17. w = x ++ f
    <3> HIDE DEF ab, n, f, x
    <3>1. w = a ++ (b ++ (q ++ ((d ++ colon) ++ (v ++ f))))
        BY <2>4, <2>6, <2>8, <2>9, <2>11, <2>12, Zenon DEF f
    <3>2. (d ++ colon) ++ (v ++ f) = d ++ (colon ++ (v ++ f))
      <4>1. v ++ f \in Texts
          BY <2>13, Joins, Zenon
      <4> QED BY <1>2, <2>13, <4>1, Joins, SMT
    <3>3. colon ++ (v ++ f) \in Texts
        BY <1>2, <2>13, Joins, Zenon
    <3>4. a ++ (b ++ (q ++ (d ++ (colon ++ (v ++ f))))) = ab ++ ((q ++ d) ++ (colon ++ (v ++ f)))
      <4> DEFINE h == colon ++ (v ++ f)
      <4>1. h \in Texts
          BY <3>3
      <4> HIDE DEF h
      <4>2. q ++ (d ++ h) = (q ++ d) ++ h /\ (q ++ d) ++ h \in Texts
          BY <2>13, <4>1, Joins, SMT
      <4>3. a ++ (b ++ ((q ++ d) ++ h)) = (a ++ b) ++ ((q ++ d) ++ h)
          BY <2>13, <4>2, Joins, SMT
      <4>4. a ++ (b ++ (q ++ (d ++ h))) = ab ++ ((q ++ d) ++ h)
          BY <4>2, <4>3, Zenon DEF ab
      <4> QED BY <4>4 DEF h
    <3>5. ab ++ ((q ++ d) ++ (colon ++ (v ++ f))) = n ++ (colon ++ (v ++ f))
      <4>1. q ++ d \in Texts
          BY <2>13, Joins, Zenon
      <4> QED BY <2>13, <3>3, <4>1, Joins, SMT DEF n
    <3>6. n ++ (colon ++ (v ++ f)) = x ++ f
      <4>1. (n ++ colon) ++ (v ++ f) = x ++ f
          BY <1>2, <2>13, Joins, SMT DEF x
      <4>2. v ++ f \in Texts
          BY <2>13, Joins, Zenon
      <4>3. (n ++ colon) ++ (v ++ f) = n ++ (colon ++ (v ++ f))
          BY <1>2, <2>13, <4>2, Joins, SMT
      <4> QED BY <4>1, <4>3
    <3> QED BY <3>1, <3>2, <3>4, <3>5, <3>6, Zenon
  <2> HIDE DEF x
  <2> QED BY <2>12, <2>16, <2>17, Zenon DEF none, stop, f
<1> QED BY <1>5, <1>6, Zenon

LEMMA EntryServes ==
    ASSUME NEW L \in Families, NEW D, NEW s \in Seq(Tasks), NEW c \in Subjects,
           NEW t \in Tasks, t.of = c, NEW o \in Int
    PROVE  /\ t.do = "first" =>
                Serves(L, D, "read", Entry(c) \o s, <<>>, o + 1, Push(t, s), <<>>, o, Empty)
           /\ t.do = "more" =>
                Serves(L, D, "read", Entry(c) \o s, <<>>, o, Push(t, s), <<>>, o, Comma)
<1> DEFINE none == <<>>
           stop == "read"
<1>1. none \in Seq(Openers)
    BY SMT
<1>2. ASSUME t.do = "first", NEW w \in Texts,
             Completes(L, D, Entry(c) \o s, stop, Conf(none, o + 1, w))
      PROVE  Completes(L, D, Push(t, s), stop, Conf(none, o, Empty ++ w))
  <2>1. o + 1 \in Int /\ (o + 1) - 1 = o
      BY SMT
  <2> DEFINE p == o + 1
  <2>2. PICK x \in Labelled(L, c), y \in Behind(L, c), r \in Texts :
            w = x ++ (y ++ r) /\ Completes(L, D, s, stop, Conf(none, p - 1, r))
    <3>1. p \in Int
        BY <2>1
    <3> HIDE DEF p
    <3>2. Completes(L, D, Entry(c) \o s, "read", Conf(<<>>, p, w))
        BY <1>2 DEF p
    <3> QED BY <3>1, <3>2, EntryRead
  <2>3. Completes(L, D, s, stop, Conf(none, o, r))
      BY <2>1, <2>2
  <2>4. x \in Texts /\ y \in Texts /\ x ++ y \in Inner(L, c)
      BY EntryBlanks, BehindValue, InnerContainer, Zenon
  <2> DEFINE u == x ++ y
  <2>5. u \in Texts /\ Empty ++ w = u ++ r
      BY <2>2, <2>4, Joins, SMT
  <2> HIDE DEF u, none, stop
  <2>6. May(L, t, none, u)
    <3>1. u \in Inner(L, t.of)
        BY <2>4 DEF u
    <3> QED BY <1>2, <3>1, MayFirst
  <2>7. /\ Outer(t, none) = none /\ Opened(t, o) = o /\ t.do # stop /\ t.do # "returned"
      BY <1>2, SMT DEF Outer, Opened, Nesters, stop
  <2> QED BY <1>1, <2>3, <2>5, <2>6, <2>7, Put
<1>3. ASSUME t.do = "more", NEW w \in Texts,
             Completes(L, D, Entry(c) \o s, stop, Conf(none, o, w))
      PROVE  Completes(L, D, Push(t, s), stop, Conf(none, o, Comma ++ w))
  <2>2. PICK x \in Labelled(L, c), y \in Behind(L, c), r \in Texts :
            w = x ++ (y ++ r) /\ Completes(L, D, s, stop, Conf(none, o - 1, r))
      BY <1>3, EntryRead
  <2>3. Comma \in Texts /\ x \in Texts /\ y \in Texts /\ Comma ++ (x ++ y) \in Behind(L, c)
      BY EntryBlanks, BehindValue, Marked
  <2> DEFINE u == Comma ++ (x ++ y)
  <2>4. u \in Texts /\ Comma ++ w = u ++ r
      BY <2>2, <2>3, Joins, SMT
  <2> HIDE DEF u, none, stop
  <2>5. May(L, t, none, u)
    <3>1. u \in Behind(L, t.of)
        BY <2>3 DEF u
    <3> QED BY <1>3, <3>1, MayMore
  <2>6. /\ Outer(t, none) = none /\ Opened(t, o) = o - 1 /\ t.do # stop /\ t.do # "returned"
      BY <1>3, SMT DEF Outer, Opened, Nesters, stop
  <2> QED BY <1>1, <2>2, <2>4, <2>5, <2>6, Put
<1> QED BY <1>2, <1>3, Zenon DEF Serves

-----------------------------------------------------------------------------
(* The program that reads: what stands in the place of a member or a walk.  *)
Idler(t) == t.do \notin Readers /\ t.do \notin {"read", "returned"}

LEMMA ValueServes ==
    ASSUME NEW L \in Families, NEW D, NEW s \in Seq(Tasks), NEW t \in Tasks,
           NEW k \in Tasks, k.do \in {"skip", "walk"}, t.do \in {"yield", "walk"},
           NEW p \in Tasks, p.do \in Padding,
           NEW ns \in Seq(Openers), NEW o \in Int
    PROVE  /\ Serves(L, D, "read", Push(k, s), ns, o, Push(t, s), ns, o, Empty)
           /\ Serves(L, D, "read", Push(p, Push(k, s)), ns, o, Push(t, s), ns, o, Empty)
<1> DEFINE stop == "read"
<1>1. /\ Outer(k, ns) = <<>> /\ Opened(k, o) = o /\ Outer(t, ns) = <<>> /\ Opened(t, o) = o
      /\ k.do # stop /\ t.do # stop /\ t.do # "returned" /\ k.do # "returned"
      /\ k.do \in {"skip", "yield", "walk"} /\ t.do \in {"skip", "yield", "walk"}
    BY SMT DEF Outer, Opened, Nesters
<1>2. /\ Outer(p, ns) = ns /\ Opened(p, o) = o /\ p.do # stop
    BY SMT DEF Outer, Opened, Nesters, Padding
<1> HIDE DEF stop
<1>3. ASSUME NEW b \in Blanks, NEW w \in Texts, Completes(L, D, Push(k, s), stop, Conf(ns, o, w))
      PROVE  Completes(L, D, Push(t, s), stop, Conf(ns, o, b ++ w))
  <2>1. PICK u \in Texts, r \in Texts :
            w = u ++ r /\ May(L, k, ns, u) /\ Completes(L, D, s, stop, Conf(<<>>, o, r))
      BY <1>1, <1>3, Peel
  <2>2. \E l \in Lead(L), v \in Closing(L, ns) : u = l ++ v
      BY <1>1, <2>1, MayValue
  <2>3. PICK l \in Lead(L), v \in Closing(L, ns) : u = l ++ v
      BY <2>2
  <2>4. b \in Texts /\ l \in Texts /\ v \in Texts /\ b ++ l \in Lead(L)
      BY Blank, Leads, Zenon DEF Closing
  <2> DEFINE z == (b ++ l) ++ v
  <2>5. z \in Texts /\ b ++ w = z ++ r
      BY <2>1, <2>3, <2>4, Joins, SMT
  <2>6. \E m \in Lead(L), n \in Closing(L, ns) : z = m ++ n
      BY <2>4, Zenon
  <2> HIDE DEF z
  <2>7. May(L, t, ns, z)
      BY <1>1, <2>6, MayValue
  <2> QED BY <1>1, <2>1, <2>5, <2>7, Put
<1>4. ASSUME NEW w \in Texts, Completes(L, D, Push(k, s), stop, Conf(ns, o, w))
      PROVE  Completes(L, D, Push(t, s), stop, Conf(ns, o, Empty ++ w))
    BY <1>3, <1>4, Blank
<1>5. ASSUME NEW w \in Texts, Completes(L, D, Push(p, Push(k, s)), stop, Conf(ns, o, w))
      PROVE  Completes(L, D, Push(t, s), stop, Conf(ns, o, Empty ++ w))
  <2>1. Push(k, s) \in Seq(Tasks)
      BY Pushing
  <2>2. PICK u \in Texts, r \in Texts :
            w = u ++ r /\ May(L, p, ns, u) /\ Completes(L, D, Push(k, s), stop, Conf(ns, o, r))
      BY <1>2, <1>5, <2>1, Peel
  <2>3. u \in Blanks
      BY <2>2, MayPad
  <2>4. Empty ++ w = u ++ r
      BY <2>2, Joins, Zenon
  <2> QED BY <1>3, <2>2, <2>3, <2>4
<1> QED BY <1>4, <1>5, Zenon DEF Serves, stop

LEMMA IdleServes ==
    ASSUME NEW L \in Families, NEW D, NEW s \in Seq(Tasks), NEW t \in Tasks, NEW o \in Int,
           Idler(t) \/ t.do \in Padding \/ (t.do = "returned" /\ o \in D),
           NEW ns \in Seq(Openers)
    PROVE  Serves(L, D, "read", s, ns, o, Push(t, s), ns, o, Empty)
<1>1. Outer(t, ns) = ns /\ Opened(t, o) = o /\ t.do # "read" /\ Empty \in Texts
  <2>1. t.do \notin Nesters /\ t.do # "more" /\ t.do # "read"
      BY Zenon DEF Idler, Readers, Padding, Nesters
  <2> QED BY <2>1, Joins, Zenon DEF Outer, Opened
<1>2. May(L, t, ns, Empty)
  <2>1. CASE t.do \in Padding
    <3>1. Empty \in Blanks
        BY Blank
    <3> QED BY <2>1, <3>1, MayPad
  <2>2. CASE t.do \notin Padding
    <3>1. t.do \notin Readers
        BY <2>2, Zenon DEF Idler, Readers, Nesters, Padding
    <3> QED BY <3>1, MayNothing
  <2> QED BY <2>1, <2>2
<1>3. t.do = "returned" => o \in D
    BY Zenon DEF Idler, Padding
<1> QED BY <1>1, <1>2, <1>3, Returning

LEMMA ServesBehind ==
    ASSUME NEW L, NEW D, NEW stop, NEW r, NEW q, NEW s,
           NEW ms, NEW m, NEW ks, NEW k, NEW ns, NEW n, NEW x \in Texts, NEW y \in Texts,
           Serves(L, D, stop, r, ms, m, q, ks, k, y), Serves(L, D, stop, q, ks, k, s, ns, n, x)
    PROVE  Serves(L, D, stop, r, ms, m, s, ns, n, x ++ y)
<1> SUFFICES ASSUME NEW w \in Texts, Completes(L, D, r, stop, Conf(ms, m, w))
             PROVE  Completes(L, D, s, stop, Conf(ns, n, (x ++ y) ++ w))
    BY Zenon DEF Serves
<1>1. y ++ w \in Texts /\ (x ++ y) ++ w = x ++ (y ++ w)
    BY Joins, SMT
<1>2. Completes(L, D, q, stop, Conf(ks, k, y ++ w))
    BY Zenon DEF Serves
<1>3. Completes(L, D, s, stop, Conf(ns, n, x ++ (y ++ w)))
    BY <1>1, <1>2, Zenon DEF Serves
<1> QED BY <1>1, <1>3

(* A call behind another that neither reads nor refuses.                    *)
LEMMA IdleBehind ==
    ASSUME NEW L \in Families, NEW D, NEW s \in Seq(Tasks), NEW t \in Tasks, t.do # "read",
           NEW n \in Tasks, Idler(n) \/ n.do = "returned",
           NEW ns \in Seq(Openers), NEW o \in Int
    PROVE  Serves(L, D, "read", Push(t, Push(n, s)), ns, o, Push(t, s), ns, o, Empty)
<1> DEFINE stop == "read"
           ms == Outer(t, ns)
           m == Opened(t, o)
<1>1. t.do # stop /\ n.do # stop /\ n.do \notin Readers
    BY Zenon DEF Idler, Readers, Padding, Nesters
<1>2. Push(n, s) \in Seq(Tasks) /\ ms \in Seq(Openers) /\ m \in Int
    BY Pushing, Confsare, Zenon
<1> HIDE DEF stop, ms, m
<1>3. Outer(n, ms) = ms /\ Opened(n, m) = m
  <2>1. n.do \notin Nesters /\ n.do # "more"
      BY <1>1, Zenon DEF Readers
  <2> QED BY <2>1, Zenon DEF Outer, Opened
<1>4. ASSUME NEW w \in Texts, Completes(L, D, Push(t, Push(n, s)), stop, Conf(ns, o, w))
      PROVE  Completes(L, D, Push(t, s), stop, Conf(ns, o, Empty ++ w))
  <2>1. PICK u \in Texts, v \in Texts :
            /\ w = u ++ v /\ May(L, t, ns, u) /\ (t.do = "returned" => o \in D)
            /\ Completes(L, D, Push(n, s), stop, Conf(ms, m, v))
      BY <1>1, <1>2, <1>4, Peel DEF ms, m
  <2>2. PICK i \in Texts, r \in Texts :
            /\ v = i ++ r /\ May(L, n, ms, i) /\ Completes(L, D, s, stop, Conf(ms, m, r))
      BY <1>1, <1>2, <1>3, <2>1, Peel
  <2>3. i = Empty
      BY <1>1, <2>2, MayNothing
  <2>4. v = r /\ Empty ++ w = u ++ v
      BY <2>1, <2>2, <2>3, Joins, Zenon
  <2>5. Completes(L, D, s, stop, Conf(Outer(t, ns), Opened(t, o), v))
      BY <2>2, <2>4 DEF ms, m
  <2> QED BY <1>1, <2>1, <2>4, <2>5, Put
<1> QED BY <1>4, Zenon DEF Serves, stop

(* A value kept, and what is made of it.                                    *)
LEMMA KeptServes ==
    ASSUME NEW L \in Families, NEW D, NEW s \in Seq(Tasks), NEW t \in Tasks,
           t.do \in {"yield", "walk"}, NEW of \in {"member", "result"},
           NEW n \in Tasks, Idler(n), NEW ns \in Seq(Openers), NEW o \in Int
    PROVE  Serves(L, D, "read", KeepValue(of) \o Push(n, s), ns, o, Push(t, s), ns, o, Empty)
<1> DEFINE k == Step("skip")
           p == Task("keep", of)
           e == Step("take")
           q == Push(n, s)
           r == Push(e, q)
<1>1. /\ k \in Tasks /\ k.do = "skip" /\ p \in Tasks /\ p.do \in Padding /\ e \in Tasks
      /\ Idler(e)
  <2>1. {"skip", "keep", "take"} \subseteq Steps /\ of \in Subjects
      BY Words, Zenon DEF Steps
  <2>2. /\ k \in Tasks /\ k.do = "skip" /\ p \in Tasks /\ p.do = "keep" /\ e \in Tasks
        /\ e.do = "take"
      BY <2>1, IsTask, Zenon
  <2> QED BY <2>2, Zenon DEF Padding, Idler, Readers, Nesters
<1>2. q \in Seq(Tasks) /\ r \in Seq(Tasks)
  <2> HIDE DEF e
  <2> QED BY <1>1, Pushing, Zenon
<1>3. KeepValue(of) \o q = Push(p, Push(k, r))
  <2>1. KeepValue(of) = <<p, k, e>>
      BY Zenon DEF KeepValue
  <2> HIDE DEF p, k, e, q
  <2>2. Push(p, Push(k, Push(e, q))) = <<p, k, e>> \o q
      BY <1>1, <1>2, Three
  <2> QED BY <2>1, <2>2, Zenon
<1> HIDE DEF k, p, e
<1>4. Serves(L, D, "read", Push(p, Push(k, r)), ns, o, Push(t, r), ns, o, Empty)
  <2> HIDE DEF r
  <2> QED BY <1>1, <1>2, ValueServes
<1>5. Serves(L, D, "read", Push(t, r), ns, o, Push(t, q), ns, o, Empty)
  <2> HIDE DEF q
  <2> QED BY <1>1, <1>2, IdleBehind
<1>6. Serves(L, D, "read", Push(t, q), ns, o, Push(t, s), ns, o, Empty)
    BY IdleBehind
<1>7. Empty \in Texts /\ Empty ++ Empty = Empty
    BY Joins
<1> HIDE DEF q, r
<1>8. Serves(L, D, "read", Push(p, Push(k, r)), ns, o, Push(t, q), ns, o, Empty)
  <2>1. Serves(L, D, "read", Push(p, Push(k, r)), ns, o, Push(t, q), ns, o, Empty ++ Empty)
      BY <1>4, <1>5, <1>7, ServesBehind
  <2> QED BY <1>7, <2>1
<1>9. Serves(L, D, "read", Push(p, Push(k, r)), ns, o, Push(t, s), ns, o, Empty)
  <2>1. Serves(L, D, "read", Push(p, Push(k, r)), ns, o, Push(t, s), ns, o, Empty ++ Empty)
      BY <1>6, <1>7, <1>8, ServesBehind
  <2> QED BY <1>7, <2>1
<1> QED BY <1>3, <1>9 DEF q

(* The generators in the place of a walk.                                   *)
LEMMA GeneratorServes ==
    ASSUME NEW L \in Families, NEW D, NEW s \in Seq(Tasks), NEW t \in Tasks, t.do = "walk",
           NEW c \in Openers, NEW o \in Int
    PROVE  Serves(L, D, "read", Generator(c) \o s, <<>>, o, Push(t, s), <<>>, o, Empty)
<1> DEFINE e == Task("expect", c)
           f == Task("first", c)
           none == <<>>
           stop == "read"
<1>1. /\ e \in Tasks /\ f \in Tasks /\ none \in Seq(Openers)
      /\ Generator(c) \o s = Push(e, Push(f, s))
  <2>1. none \in Seq(Openers)
      BY EmptySeq, Zenon
  <2>2. e \in Tasks /\ f \in Tasks /\ Generator(c) \o s = Push(e, Push(f, s))
    <3>1. c \in Subjects
        BY Zenon DEF Openers, Subjects, Marks
    <3> QED BY <3>1, EntryCalls, Zenon
  <2> QED BY <2>1, <2>2, Zenon
<1>2. e.do = "expect" /\ e.of = c /\ f.do = "first" /\ f.of = c
    BY Zenon DEF Task
<1> HIDE DEF e, f, none
<1>3. /\ Outer(e, none) = none /\ Opened(e, o) = o /\ Outer(f, none) = none /\ Opened(f, o) = o
      /\ Outer(t, none) = none /\ Opened(t, o) = o
      /\ e.do # stop /\ f.do # stop /\ t.do # stop
      /\ e.do # "returned" /\ f.do # "returned" /\ t.do # "returned"
    BY <1>2, SMT DEF Outer, Opened, Nesters, none
<1> HIDE DEF stop
<1>4. ASSUME NEW w \in Texts, Completes(L, D, Push(e, Push(f, s)), stop, Conf(none, o, w))
      PROVE  Completes(L, D, Push(t, s), stop, Conf(none, o, Empty ++ w))
  <2>1. Push(f, s) \in Seq(Tasks)
      BY <1>1, Pushing
  <2>2. PICK u \in Texts, v \in Texts :
            /\ w = u ++ v /\ May(L, e, none, u)
            /\ Completes(L, D, Push(f, s), stop, Conf(none, o, v))
      BY <1>1, <1>3, <1>4, <2>1, Peel
  <2>3. PICK x \in Texts, r \in Texts :
            /\ v = x ++ r /\ May(L, f, none, x) /\ Completes(L, D, s, stop, Conf(none, o, r))
      BY <1>1, <1>3, <2>2, Peel
  <2>4. x \in Inner(L, c)
      BY <1>2, <2>3, MayFirst
  <2>5. \E b \in Blanks : u = b ++ One(c)
      BY <1>2, <2>2, MayExpect
  <2>6. PICK b \in Blanks : u = b ++ One(c)
      BY <2>5
  <2>7. One(c) = Open(c) /\ One(c) \in Texts /\ b \in Texts /\ One(c) ++ x \in Val(L)
    <3>1. One(c) = Open(c)
        BY Zenon DEF Open, Openers
    <3> QED BY <2>4, <3>1, Marked, Blank, InnerContainer, Zenon
  <2> DEFINE l == b ++ (One(c) ++ x)
  <2>8. l \in Texts /\ Empty ++ w = l ++ r /\ l ++ Empty = l
    <3> DEFINE i == One(c)
    <3>1. i \in Texts /\ w = (b ++ i) ++ (x ++ r) /\ l = b ++ (i ++ x)
        BY <2>2, <2>3, <2>6, <2>7, Zenon
    <3> HIDE DEF i, l
    <3>2. (b ++ i) ++ (x ++ r) = (b ++ (i ++ x)) ++ r
        BY <2>3, <2>7, <3>1, Joins, SMT
    <3>3. l \in Texts
        BY <2>3, <2>7, <3>1, Joins, SMT
    <3> QED BY <3>1, <3>2, <3>3, Joins, Zenon
  <2>9. l \in Lead(L)
      BY <2>7, <2>8, Zenon DEF Lead
  <2> HIDE DEF l
  <2>10. May(L, t, none, l)
    <3>1. Empty \in Closing(L, none)
        BY AfterNone DEF none
    <3>2. \E m \in Lead(L), n \in Closing(L, none) : l = m ++ n
        BY <2>8, <2>9, <3>1, Zenon
    <3> QED BY <3>2, MayValue
  <2> QED BY <1>1, <1>3, <2>3, <2>8, <2>10, Put
<1> QED BY <1>1, <1>4, Zenon DEF Serves, stop, none

(***************************************************************************)
(* The steps of the scanner, by what they read.                            *)
(***************************************************************************)
Consumed(n) == SubSeq(text, At + 1, At + n)
Extends(n) ==
    \/ keeping' # "no" /\ keeping' = keeping /\ kept' = kept \o Consumed(n)
    \/ keeping' = "no" /\ kept' = <<>>
    \/ keeping = "no" /\ keeping' = "no" /\ kept' = kept
Passes(n) ==
    /\ n \in 0 .. Buffered /\ pos' = pos + n
    /\ UNCHANGED <<text, fetched, offset, ended, limit, taken>>
    /\ Extends(n)
Becomes(L, D, stop, n) == Serves(L, D, stop, todo', nest', open', todo, nest, open, Consumed(n))
Advances(L, D, stop) == \E n \in 0 .. Buffered : Passes(n) /\ Becomes(L, D, stop, n)

LEMMA Spots ==
    ASSUME StreamInv
    PROVE  /\ text \in Texts /\ At \in Nat /\ fetched \in Nat /\ At <= fetched /\ fetched <= Len(text)
           /\ Buffered \in Nat /\ At + Buffered <= Len(text) /\ kept \in Texts
           /\ nest \in Seq(Openers) /\ open \in Int /\ todo \in Seq(Tasks)
<1>1. /\ text \in Texts /\ At \in Nat /\ fetched \in Nat /\ At <= fetched /\ fetched <= Len(text)
      /\ Buffered \in Nat /\ At + Buffered <= Len(text)
    BY SMT DEF StreamInv, Positions, At, Buffered, Texts
<1> QED BY <1>1, TodoTyped, Zenon DEF StreamInv, KeptOK, StackOK, Texts

LEMMA OneLong ==
    ASSUME NEW S, NEW q \in Seq(S), Len(q) = 1
    PROVE  q = <<q[1]>>
<1>1. q \in [1 .. 1 -> S] /\ 1 .. 1 = {1}
    BY SMT
<1>2. <<q[1]>> = [i \in {1} |-> q[1]]
    BY <1>1, SMT
<1> QED BY <1>1, <1>2, Zenon

LEMMA Consuming ==
    ASSUME StreamInv
    PROVE  /\ \A n \in 0 .. Buffered : Consumed(n) \in Texts /\ Len(Consumed(n)) = n
           /\ Consumed(0) = Empty
           /\ Buffered >= 1 => Consumed(1) = One(Octet) /\ Octet \in Octets
<1> DEFINE a == At
           b == Buffered
<1>1. text \in Seq(Octets) /\ a \in Nat /\ b \in Nat /\ a + b <= Len(text)
    BY Spots, Zenon DEF Texts
<1> HIDE DEF a, b
<1>2. \A n \in 0 .. b : SubSeq(text, a + 1, a + n) \in Seq(Octets) /\ Len(SubSeq(text, a + 1, a + n)) = n
    BY <1>1, SMT
<1>3. SubSeq(text, a + 1, a + 0) = <<>>
    BY <1>1, SMT
<1>4. b >= 1 => SubSeq(text, a + 1, a + 1) = <<text[a + 1]>> /\ text[a + 1] \in Octets
  <2>1. ASSUME NEW k \in 1 .. Len(text)
        PROVE  SubSeq(text, k, k) = <<text[k]>> /\ text[k] \in Octets
    <3>1. text[k] \in Octets /\ k \in Int /\ SubSeq(text, k, k) \in Seq(Octets)
        BY <1>1, SMT
    <3>2. Len(SubSeq(text, k, k)) = 1 /\ SubSeq(text, k, k)[1] = text[k]
        BY <1>1, SMT
    <3>3. SubSeq(text, k, k) = <<SubSeq(text, k, k)[1]>>
        BY <3>1, <3>2, OneLong
    <3> QED BY <3>1, <3>2, <3>3
  <2>2. b >= 1 => a + 1 \in 1 .. Len(text)
      BY <1>1, SMT
  <2> QED BY <2>1, <2>2
<1> QED BY <1>2, <1>3, <1>4, Zenon DEF Consumed, Texts, Empty, One, Octet, a, b

LEMMA SubsOf ==
    ASSUME NEW S, NEW T, NEW s \in Seq(T), NEW a \in Nat, NEW n \in Nat, a + n <= Len(s),
           \A i \in 1 .. n : s[a + i] \in S
    PROVE  SubSeq(s, a + 1, a + n) \in Seq(S)
<1> DEFINE q == SubSeq(s, a + 1, a + n)
<1>1. Len(q) = n /\ q = [i \in 1 .. n |-> s[a + i]]
    BY SMT
<1>2. q \in [1 .. n -> S]
    BY <1>1, Zenon
<1> QED BY <1>2, SMT

LEMMA Begun ==
    ASSUME StreamInv, todo # <<>>
    PROVE  /\ todo = Push(Head(todo), Rest) /\ Head(todo) \in Tasks /\ Rest \in Seq(Tasks)
           /\ Rest \in Seq(Later)
<1>1. todo \in Seq(Tasks)
    BY TodoTyped
<1>2. Rest \in Seq(Later)
    BY Pops, Room, Zenon DEF Rest
<1>3. /\ todo = <<Head(todo)>> \o Tail(todo) /\ Head(todo) \in Tasks /\ Tail(todo) \in Seq(Tasks)
    BY <1>1, SMT
<1> QED BY <1>2, <1>3, Zenon DEF Push, Rest

LEMMA AdvanceMoves ==
    ASSUME StreamInv, ~ Leaves, NEW n \in 0 .. Buffered, NEW then, NEW within, NEW entered,
           Advance(n, then, within, entered)
    PROVE  Passes(n) /\ todo' = then /\ nest' = within /\ open' = entered
<1>1. ~ (keeping = "hard" /\ Outgrown(n))
    BY Zenon DEF Advance, Refuse
<1>2. /\ pos' = pos + n
      /\ todo' = then /\ nest' = within /\ open' = entered
      /\ keeping' = IF Outgrown(n) THEN "no" ELSE keeping
      /\ kept' = IF keeping = "no" \/ Outgrown(n) THEN <<>>
                 ELSE kept \o SubSeq(text, At + 1, At + n)
      /\ UNCHANGED <<text, fetched, offset, ended, limit, taken>>
    BY <1>1, Zenon DEF Advance
<1>3. Extends(n)
  <2>1. CASE keeping = "no" \/ Outgrown(n)
      BY <1>2, <2>1, Zenon DEF Extends, Outgrown
  <2>2. CASE ~ (keeping = "no" \/ Outgrown(n))
      BY <1>2, <2>2, Zenon DEF Extends, Consumed
  <2> QED BY <2>1, <2>2
<1> QED BY <1>2, <1>3, Zenon DEF Passes

LEMMA ConsumeMoves ==
    ASSUME StreamInv, ~ Leaves, NEW n \in 0 .. Buffered, NEW then, Consume(n, then)
    PROVE  Passes(n) /\ todo' = then /\ nest' = nest /\ open' = open
BY AdvanceMoves, Zenon DEF Consume

LEMMA ProceedMoves ==
    ASSUME StreamInv, UNCHANGED <<text, fetched, offset, pos, ended, keeping, kept, limit, taken>>
    PROVE  Passes(0)
<1>1. 0 \in 0 .. Buffered /\ pos' = pos + 0
  <2>1. Buffered \in Nat /\ pos \in Nat
      BY Spots, Zenon DEF StreamInv, Positions
  <2> QED BY <2>1, SMT
<1>2. kept \o Consumed(0) = kept
    BY Spots, Consuming, Joins, Zenon DEF ++
<1>3. Extends(0)
    BY <1>2, Zenon DEF Extends
<1> QED BY <1>1, <1>3, Zenon DEF Passes

LEMMA SpaceAdvances ==
    ASSUME StreamInv, Space, ~ Leaves, NEW L \in Families, NEW D, NEW stop,
           Head(todo).do # stop
    PROVE  Advances(L, D, stop)
<1>1. PICK n \in 1 .. Buffered : Run({" "}, n) /\ Consume(n, todo)
    BY Zenon DEF Space
<1>2. n \in 0 .. Buffered
    BY Spots, SMT
<1>3. Passes(n) /\ todo' = todo /\ nest' = nest /\ open' = open
    BY <1>1, <1>2, ConsumeMoves, Zenon
<1>4. Consumed(n) \in Blanks
  <2> DEFINE a == At
             b == Buffered
             S == {" "}
  <2>1. text \in Seq(Octets) /\ a \in Nat /\ b \in Nat /\ a + b <= Len(text) /\ n \in 1 .. b
        /\ \A i \in 1 .. n : text[a + i] \in S
      BY <1>1, Spots, Zenon DEF Texts, Run
  <2> HIDE DEF a, b, S
  <2>3. SubSeq(text, a + 1, a + n) \in Seq(S)
    <3>1. n \in Nat /\ a + n <= Len(text)
        BY <2>1, SMT
    <3> QED BY ONLY <2>1, <3>1, SubsOf
  <2> QED BY <2>3, Zenon DEF Consumed, Blanks, a, S
<1>5. todo # <<>> /\ Head(todo).do \in OctetSteps /\ (Head(todo).do = "after" => nest # <<>>)
    BY Zenon DEF Space, ReadsOctet, Doing
<1>6. Serves(L, D, stop, todo, nest, open, todo, nest, open, Consumed(n))
  <2>1. todo = Push(Head(todo), Rest) /\ Head(todo) \in Tasks /\ Rest \in Seq(Tasks)
      BY <1>5, Begun
  <2>2. nest \in Seq(Openers) /\ open \in Int
      BY Spots
  <2> DEFINE t == Head(todo)
             s == Rest
  <2>3. t \in Tasks /\ s \in Seq(Tasks) /\ t.do # stop /\ t.do \in OctetSteps
        /\ (t.do = "after" => nest # <<>>) /\ todo = Push(t, s)
      BY <1>5, <2>1
  <2> HIDE DEF t, s
  <2>4. Serves(L, D, stop, Push(t, s), nest, open, Push(t, s), nest, open, Consumed(n))
      BY <1>4, <2>2, <2>3, SpaceServes
  <2> QED BY <2>3, <2>4, Zenon
<1> QED BY <1>2, <1>3, <1>6, Zenon DEF Advances, Becomes

LEMMA SixLong ==
    ASSUME NEW S, NEW q \in Seq(S)
    PROVE  /\ Len(q) = 2 => q = <<q[1], q[2]>>
           /\ Len(q) = 6 => q = <<q[1], q[2], q[3], q[4], q[5], q[6]>>
<1>1. ASSUME Len(q) = 2 PROVE q = <<q[1], q[2]>>
  <2>1. q = [i \in 1 .. 2 |-> q[i]]
      BY <1>1, SMT
  <2>2. <<q[1], q[2]>> = [i \in 1 .. 2 |-> q[i]]
      BY SMT
  <2> QED BY <2>1, <2>2, Zenon
<1>2. ASSUME Len(q) = 6 PROVE q = <<q[1], q[2], q[3], q[4], q[5], q[6]>>
  <2>1. q = [i \in 1 .. 6 |-> q[i]]
      BY <1>2, SMT
  <2>2. <<q[1], q[2], q[3], q[4], q[5], q[6]>> = [i \in 1 .. 6 |-> q[i]]
      BY SMT
  <2> QED BY <2>1, <2>2, Zenon
<1> QED BY <1>1, <1>2

LEMMA ConsumedAt ==
    ASSUME StreamInv, NEW n \in 0 .. Buffered
    PROVE  /\ Consumed(n) \in Seq(Octets) /\ Len(Consumed(n)) = n
           /\ \A i \in 1 .. n : Consumed(n)[i] = text[At + i]
<1> DEFINE a == At
           b == Buffered
<1>1. text \in Seq(Octets) /\ a \in Nat /\ b \in Nat /\ a + b <= Len(text) /\ n \in 0 .. b
    BY Spots, Zenon DEF Texts
<1> HIDE DEF a, b
<1>2. /\ SubSeq(text, a + 1, a + n) \in Seq(Octets) /\ Len(SubSeq(text, a + 1, a + n)) = n
      /\ \A i \in 1 .. n : SubSeq(text, a + 1, a + n)[i] = text[a + i]
    BY <1>1, SMT
<1> QED BY <1>2, Zenon DEF Consumed, a

LEMMA ExpectAdvances ==
    ASSUME StreamInv, Expect, ~ Leaves, NEW L \in Families, NEW D, NEW stop, stop # "expect"
    PROVE  Advances(L, D, stop)
<1>1. Octet = Of /\ Consume(1, Rest) /\ Sees("expect")
    BY Zenon DEF Expect, Refuse
<1>2. todo # <<>> /\ Head(todo).do = "expect" /\ Buffered >= 1
  <2>1. "expect" \in OctetSteps /\ "expect" # "after"
      BY Zenon DEF OctetSteps
  <2> QED BY <1>1, <2>1, Saw
<1>3. 1 \in 0 .. Buffered
    BY <1>2, Spots, SMT
<1>4. Passes(1) /\ todo' = Rest /\ nest' = nest /\ open' = open
    BY <1>1, <1>3, ConsumeMoves, Zenon
<1> DEFINE t == Head(todo)
           s == Rest
           x == Consumed(1)
<1>5. t \in Tasks /\ s \in Seq(Tasks) /\ todo = Push(t, s) /\ t.do = "expect" /\ t.of = Octet
      /\ x = One(Octet) /\ Octet \in Octets /\ nest \in Seq(Openers) /\ open \in Int
  <2>1. t.of = Octet
      BY <1>1, Zenon DEF Of
  <2>2. t \in Tasks /\ s \in Seq(Tasks) /\ todo = Push(t, s)
      BY <1>2, Begun
  <2>3. x = One(Octet) /\ Octet \in Octets
      BY <1>2, Consuming
  <2> QED BY <1>2, <2>1, <2>2, <2>3, Spots, Zenon
<1> HIDE DEF t, s, x
<1>6. x \in Texts /\ Empty \in Blanks /\ Empty ++ x = x
    BY <1>5, Joins, Blank, Zenon
<1>7. May(L, t, nest, x)
  <2>1. One(t.of) \in Texts /\ \E b \in Blanks : x = b ++ One(t.of)
      BY <1>5, <1>6, Zenon
  <2>2. t.do = "expect"
      BY <1>5
  <2> QED BY ONLY <2>1, <2>2, MayExpect
<1>8. Outer(t, nest) = nest /\ Opened(t, open) = open /\ t.do # stop /\ t.do # "returned"
    BY <1>5, SMT DEF Outer, Opened, Nesters
<1>9. Serves(L, D, stop, s, nest, open, Push(t, s), nest, open, x)
    BY <1>5, <1>6, <1>7, <1>8, Returning
<1>10. Becomes(L, D, stop, 1)
    BY <1>4, <1>5, <1>9, Zenon DEF Becomes, s, x
<1> QED BY <1>3, <1>4, <1>10, Zenon DEF Advances

LEMMA CharsRead ==
    ASSUME StreamInv, NEW n \in 1 .. Buffered,
           \/ Run(Plain, n)
           \/ n = EscapeSize /\ Octet = "\\" /\
              (IF EscapeSize = 6 THEN \A i \in 3 .. 6 : text[At + i] \in Hex
               ELSE text[At + 2] \in {"quote", "\\", "n"})
    PROVE  Consumed(n) \in Unescaped \cup Escaped
<1> DEFINE q == Consumed(n)
<1>0. n \in 0 .. Buffered /\ 1 \in 1 .. n
    BY Spots, SMT
<1>1. q \in Seq(Octets) /\ Len(q) = n /\ \A i \in 1 .. n : q[i] = text[At + i]
    BY <1>0, ConsumedAt
<1>2. ASSUME Run(Plain, n) PROVE q \in Unescaped
  <2> DEFINE S == Plain
  <2>1. n \in Nat /\ 1 .. n = DOMAIN q
      BY <1>1, SMT
  <2>2. \A i \in 1 .. n : q[i] \in S
      BY <1>1, <1>2, Zenon DEF Run
  <2> HIDE DEF S, q
  <2>3. q \in Seq(S)
      BY <1>1, <2>1, <2>2, SMT
  <2> QED BY <2>3, Zenon DEF S, Plain, Unescaped
<1>3. ASSUME n = EscapeSize, Octet = "\\", EscapeSize = 6, \A i \in 3 .. 6 : text[At + i] \in Hex
      PROVE  q \in Escaped
  <2>1. q[1] = "\\" /\ q[2] = "u"
    <3>1. text[At + 2] = "u" /\ 2 \in 1 .. n
        BY <1>3, SMT DEF EscapeSize
    <3> QED BY <1>0, <1>1, <1>3, <3>1, Zenon DEF Octet
  <2>2. /\ q[3] \in Hex /\ q[4] \in Hex /\ q[5] \in Hex /\ q[6] \in Hex
    <3>1. n = 6
        BY <1>3
    <3>2. 3 \in 1 .. n /\ 4 \in 1 .. n /\ 5 \in 1 .. n /\ 6 \in 1 .. n
          /\ 3 \in 3 .. 6 /\ 4 \in 3 .. 6 /\ 5 \in 3 .. 6 /\ 6 \in 3 .. 6
        BY <3>1, SMT
    <3> QED BY <1>1, <1>3, <3>2, Zenon
  <2> DEFINE h == [i \in 1 .. 4 |-> q[i + 2]]
  <2>3. /\ h \in [1 .. 4 -> Hex] /\ h[1] = q[3] /\ h[2] = q[4] /\ h[3] = q[5] /\ h[4] = q[6]
    <3> DEFINE H == Hex
    <3>1. q[3] \in H /\ q[4] \in H /\ q[5] \in H /\ q[6] \in H
        BY <2>2
    <3> HIDE DEF q, H
    <3>2. h \in [1 .. 4 -> H] /\ h[1] = q[3] /\ h[2] = q[4] /\ h[3] = q[5] /\ h[4] = q[6]
        BY <3>1, SMT
    <3> QED BY <3>2 DEF H
  <2>4. q = <<q[1], q[2], q[3], q[4], q[5], q[6]>>
      BY <1>1, <1>3, SixLong
  <2> HIDE DEF h, q
  <2>5. q = <<"\\", "u", h[1], h[2], h[3], h[4]>>
      BY <2>1, <2>3, <2>4, Zenon
  <2> QED BY <2>3, <2>5, Zenon DEF Escaped, Hex
<1>4. ASSUME n = EscapeSize, Octet = "\\", EscapeSize # 6, text[At + 2] \in {"quote", "\\", "n"}
      PROVE  q \in Escaped
  <2>1. n = 2
      BY <1>4, Zenon DEF EscapeSize
  <2>2. q = <<q[1], q[2]>> /\ 1 \in 1 .. n /\ 2 \in 1 .. n
    <3>1. 1 \in 1 .. n /\ 2 \in 1 .. n
        BY <2>1, SMT
    <3> QED BY <1>1, <2>1, <3>1, SixLong
  <2>3. q[1] = "\\" /\ q[2] \in {"quote", "\\", "n"}
      BY <1>1, <1>4, <2>2, Zenon DEF Octet
  <2> HIDE DEF q
  <2> QED BY <2>2, <2>3, Zenon DEF Escaped
<1> QED BY <1>2, <1>3, <1>4, Zenon

LEMMA CharsAdvances ==
    ASSUME StreamInv, Chars, ~ Leaves, NEW L \in Families, NEW D, NEW stop, stop # "chars"
    PROVE  Advances(L, D, stop)
<1>1. /\ Doing("chars") /\ Has
      /\ \/ \E n \in 1 .. Buffered : Run(Plain, n) /\ Consume(n, todo)
         \/ Octet = "quote" /\ Consume(1, Rest)
         \/ Octet = "\\" /\ Escape
    BY Zenon DEF Chars, Refuse
<1>2. todo # <<>> /\ Head(todo).do = "chars" /\ Buffered >= 1
    BY <1>1, Spots, SMT DEF Doing, Has, Wanted, EscapeSize
<1> DEFINE t == Head(todo)
           s == Rest
<1>3. t \in Tasks /\ s \in Seq(Tasks) /\ todo = Push(t, s) /\ t.do = "chars"
      /\ nest \in Seq(Openers) /\ open \in Int
    BY <1>2, Begun, Spots, Zenon
<1>4. 1 \in 0 .. Buffered /\ \A n \in 1 .. Buffered : n \in 0 .. Buffered
    BY <1>2, Spots, SMT
<1>5. Outer(t, nest) = nest /\ Opened(t, open) = open /\ t.do # stop /\ t.do # "returned"
  <2> HIDE DEF t
  <2> QED BY <1>3, SMT DEF Outer, Opened, Nesters
<1>6. ASSUME NEW n \in 1 .. Buffered, Consume(n, todo), Consumed(n) \in Unescaped \cup Escaped
      PROVE  Advances(L, D, stop)
  <2>1. Passes(n) /\ todo' = todo /\ nest' = nest /\ open' = open
      BY <1>4, <1>6, ConsumeMoves, Zenon
  <2> DEFINE x == Consumed(n)
  <2>2. x \in Texts /\ x \in Unescaped \cup Escaped
      BY <1>4, <1>6, Consuming
  <2> HIDE DEF x, t, s
  <2>3. ASSUME NEW u \in Texts, May(L, t, nest, u) PROVE May(L, t, nest, x ++ u)
    <3>1. u \in Characters(L)
        BY <1>3, <2>3, MayChars
    <3>2. x ++ u \in Characters(L)
        BY <2>2, <3>1, Strings
    <3> QED BY <1>3, <3>2, MayChars
  <2>4. Serves(L, D, stop, Push(t, s), nest, open, Push(t, s), nest, open, x)
      BY <1>3, <1>5, <2>2, <2>3, Replaces
  <2>5. Becomes(L, D, stop, n)
      BY <1>3, <2>1, <2>4, Zenon DEF Becomes, x
  <2> QED BY <1>4, <2>1, <2>5, Zenon DEF Advances
<1>7. CASE \E n \in 1 .. Buffered : Run(Plain, n) /\ Consume(n, todo)
  <2>1. PICK n \in 1 .. Buffered : Run(Plain, n) /\ Consume(n, todo)
      BY <1>7
  <2>2. Consumed(n) \in Unescaped \cup Escaped
      BY <2>1, CharsRead
  <2> QED BY <1>6, <2>1, <2>2
<1>8. CASE Octet = "\\" /\ Escape
  <2>1. EscapeSize \in 1 .. Buffered
    <3>1. Buffered > 0
        BY <1>2, Spots, SMT
    <3>2. Wanted = EscapeSize
      <4> DEFINE c == Doing("chars")
                 d == Doing("scalar")
                 b == Buffered > 0 /\ Octet = "\\"
                 e == EscapeSize
                 m == MaxNumber + 1
      <4>1. c /\ ~ d /\ b
          BY <1>1, <1>2, <1>8, <3>1, Zenon DEF Doing
      <4> HIDE DEF b, c, d, e, m
      <4>2. (CASE c -> IF b THEN e ELSE 1 [] d -> m [] OTHER -> 1) = e
          BY <4>1, SMT
      <4> QED BY <4>2 DEF Wanted, b, c, d, e, m
    <3>3. EscapeSize = 6 \/ EscapeSize = 2
        BY Zenon DEF EscapeSize
    <3>4. Buffered >= EscapeSize
        BY <1>1, <3>2, Zenon DEF Has
    <3> QED BY <3>3, <3>4, Spots, SMT
  <2>2. /\ Consume(EscapeSize, todo)
        /\ IF EscapeSize = 6 THEN \A i \in 3 .. 6 : text[At + i] \in Hex
           ELSE text[At + 2] \in {"quote", "\\", "n"}
    <3>1. EscapeSize # 6 => EscapeSize = 2
        BY Zenon DEF EscapeSize
    <3>2. ~ Refuse
        BY Zenon DEF Refuse
    <3> QED BY <1>8, <3>1, <3>2, Zenon DEF Escape
  <2>3. Consumed(EscapeSize) \in Unescaped \cup Escaped
      BY <1>8, <2>1, <2>2, CharsRead
  <2> QED BY <1>6, <2>1, <2>2, <2>3
<1>9. CASE Octet = "quote" /\ Consume(1, Rest)
  <2>1. Passes(1) /\ todo' = Rest /\ nest' = nest /\ open' = open
      BY <1>4, <1>9, ConsumeMoves, Zenon
  <2> DEFINE x == Consumed(1)
  <2>2. x = One("quote") /\ x \in Texts
      BY <1>2, <1>4, <1>9, Consuming
  <2> HIDE DEF x, t, s
  <2>3. May(L, t, nest, x)
    <3>1. x \in Characters(L)
        BY <2>2, Strings
    <3> QED BY <1>3, <3>1, MayChars
  <2>4. Serves(L, D, stop, s, nest, open, Push(t, s), nest, open, x)
      BY <1>3, <1>5, <2>2, <2>3, Returning
  <2>5. Becomes(L, D, stop, 1)
      BY <1>3, <2>1, <2>4, Zenon DEF Becomes, x, s
  <2> QED BY <1>4, <2>1, <2>5, Zenon DEF Advances
<1> QED BY <1>1, <1>7, <1>8, <1>9

(* A number that Python builds, of those the pattern matches.               *)
LEMMA NumberRead ==
    ASSUME NEW s \in Seq(Octets), IsNumber(s), s # <<>>, s[Len(s)] # "E"
    PROVE  s \in Numbers
<1>1. Digits(Magnitude(s))
    BY Zenon DEF IsNumber, Mantissa
<1>2. ASSUME NEW q \in Seq(Octets), Digits(q) PROVE q \in Digital
  <2> DEFINE S == {"d", "0"}
  <2>1. q # <<>> /\ Len(q) \in Nat /\ \A i \in 1 .. Len(q) : q[i] \in S
    <3>1. DOMAIN q = 1 .. Len(q) /\ Len(q) \in Nat
        BY SMT
    <3> QED BY <1>2, <3>1, Zenon DEF Digits
  <2>2. q[1] \in S /\ Len(q) >= 1
      BY <2>1, SMT
  <2>3. CASE q[1] = "0"
    <3>1. q = <<q[1]>>
        BY <1>2, <2>3, OneLong DEF Digits
    <3> QED BY <2>3, <3>1, Zenon DEF Digital
  <2>4. CASE q[1] = "d"
    <3> HIDE DEF S
    <3>1. q \in Seq(S)
        BY <2>1, SMT
    <3>2. q = <<q[1]>> \o Tail(q) /\ Tail(q) \in Seq(S)
        BY <2>2, <3>1, SMT
    <3> QED BY <2>4, <3>2, Zenon DEF Digital, S
  <2> QED BY <2>2, <2>3, <2>4, Zenon
<1>3. CASE s[1] = "-"
  <2>1. s = <<s[1]>> \o Tail(s) /\ Tail(s) \in Seq(Octets)
      BY SMT
  <2>2. Tail(s) \in Digital
      BY <1>1, <1>2, <1>3, <2>1, Zenon DEF Magnitude
  <2> QED BY <1>3, <2>1, <2>2, Zenon DEF Numbers
<1>4. CASE s[1] # "-"
    BY <1>1, <1>2, <1>4, Zenon DEF Magnitude, Numbers
<1> QED BY <1>3, <1>4

LEMMA ScalarAdvances ==
    ASSUME StreamInv, Scalar, ~ Leaves, NEW L \in Families, NEW D, NEW stop, stop # "scalar"
    PROVE  Advances(L, D, stop)
<1>1. /\ Doing("scalar")
      /\ \/ Literal /\ Consume(2, Rest)
         \/ \E n \in 1 .. Buffered :
                Longest(n) /\ text[At + n] # "E" /\ Consume(n, Rest)
    BY Zenon DEF Scalar, Refuse
<1>2. todo # <<>> /\ Head(todo).do = "scalar"
    BY <1>1, Zenon DEF Doing
<1> DEFINE t == Head(todo)
           s == Rest
<1>3. t \in Tasks /\ s \in Seq(Tasks) /\ todo = Push(t, s) /\ t.do = "scalar"
      /\ nest \in Seq(Openers) /\ open \in Int
    BY <1>2, Begun, Spots, Zenon
<1>4. Outer(t, nest) = nest /\ Opened(t, open) = open /\ t.do # stop /\ t.do # "returned"
  <2> HIDE DEF t
  <2> QED BY <1>3, SMT DEF Outer, Opened, Nesters
<1>5. ASSUME NEW n \in 0 .. Buffered, Consume(n, Rest), Consumed(n) \in Numbers \cup {<<"n", "l">>}
      PROVE  Advances(L, D, stop)
  <2>1. Passes(n) /\ todo' = Rest /\ nest' = nest /\ open' = open
      BY <1>5, ConsumeMoves, Zenon
  <2> DEFINE x == Consumed(n)
  <2>2. x \in Texts
      BY Consuming
  <2>3. x \in Numbers \cup {<<"n", "l">>}
      BY <1>5
  <2> HIDE DEF x, t, s
  <2>4. May(L, t, nest, x)
      BY <1>3, <2>3, MayScalar
  <2>5. Serves(L, D, stop, s, nest, open, Push(t, s), nest, open, x)
      BY <1>3, <1>4, <2>2, <2>4, Returning
  <2>6. Becomes(L, D, stop, n)
      BY <1>3, <2>1, <2>5, Zenon DEF Becomes, x, s
  <2> QED BY <2>1, <2>6, Zenon DEF Advances
<1>6. CASE Literal /\ Consume(2, Rest)
  <2>1. 2 \in 0 .. Buffered /\ Consumed(2) = <<"n", "l">>
    <3>1. Buffered >= 2
        BY <1>6, Zenon DEF Literal
    <3>2. 2 \in 0 .. Buffered
        BY <3>1, Spots, SMT
    <3> QED BY <1>6, <3>2, Zenon DEF Literal, Consumed
  <2> QED BY <1>5, <1>6, <2>1
<1>7. CASE \E n \in 1 .. Buffered : Longest(n) /\ text[At + n] # "E" /\ Consume(n, Rest)
  <2>1. PICK n \in 1 .. Buffered : Longest(n) /\ text[At + n] # "E" /\ Consume(n, Rest)
      BY <1>7
  <2> DEFINE q == Consumed(n)
  <2>2. n \in 0 .. Buffered /\ n \in 1 .. n /\ n # 0
      BY Spots, SMT
  <2>3. q \in Seq(Octets) /\ Len(q) = n /\ q[n] = text[At + n]
      BY <2>2, ConsumedAt
  <2>4. IsNumber(q)
      BY <2>1, Zenon DEF Longest, NumberHere, Consumed
  <2> HIDE DEF q
  <2>5. q # <<>>
      BY <2>2, <2>3, SMT
  <2>6. q \in Numbers
      BY <2>1, <2>3, <2>4, <2>5, NumberRead
  <2> QED BY <1>5, <2>1, <2>2, <2>6 DEF q
<1> QED BY <1>1, <1>6, <1>7

Stops == {"read", "take"}

LEMMA SkipAdvances ==
    ASSUME StreamInv, Skip, ~ Leaves, NEW L \in Families, NEW D, NEW stop \in Stops
    PROVE  Advances(L, D, stop)
<1>1. /\ Sees("skip")
      /\ \/ Octet \in Openers /\ Consume(1, <<Task("inside", Octet)>> \o Rest)
         \/ Proceed(String \o <<Step("after")>> \o Rest)
         \/ Proceed(<<Step("scalar"), Step("after")>> \o Rest)
  <2>1. Octet = "quote" => Octet \notin Openers
      BY Zenon DEF Openers
  <2> QED BY <2>1, Zenon DEF Skip, Refuse
<1>2. todo # <<>> /\ Head(todo).do = "skip" /\ Buffered >= 1
  <2>1. "skip" \in OctetSteps /\ "skip" # "after"
      BY Zenon DEF OctetSteps
  <2> QED BY <1>1, <2>1, Saw
<1>3. 1 \in 0 .. Buffered /\ 0 \in 0 .. Buffered
    BY <1>2, Spots, SMT
<1> DEFINE t == Head(todo)
           s == Rest
           a == Step("after")
           k == Step("scalar")
<1>4. t \in Tasks /\ s \in Seq(Tasks) /\ todo = Push(t, s) /\ t.do = "skip"
      /\ nest \in Seq(Openers) /\ open \in Int
    BY <1>2, Begun, Spots, Zenon
<1>5. stop \notin {"skip", "expect", "chars", "after", "scalar"} /\ stop \notin {"skip", "inside"}
    BY Zenon DEF Stops
<1>6. CASE Octet \in Openers /\ Consume(1, <<Task("inside", Octet)>> \o Rest)
  <2> DEFINE c == Octet
             x == Consumed(1)
  <2>1. Passes(1) /\ todo' = Push(Task("inside", c), s) /\ nest' = nest /\ open' = open
      BY <1>3, <1>6, ConsumeMoves, Zenon DEF Push
  <2>2. x = One(c) /\ c \in Openers
      BY <1>2, <1>6, Consuming
  <2> HIDE DEF x, c, t, s
  <2>3. Serves(L, D, stop, Push(Task("inside", c), s), nest, open, Push(t, s), nest, open, One(c))
      BY <1>4, <1>5, <2>2, OpenServes
  <2>4. Becomes(L, D, stop, 1)
      BY <1>4, <2>1, <2>2, <2>3, Zenon DEF Becomes, x
  <2> QED BY <1>3, <2>1, <2>4, Zenon DEF Advances
<1>7. Serves(L, D, stop, String \o Push(a, s), nest, open, Push(t, s), nest, open, Empty)
      /\ Serves(L, D, stop, Push(k, Push(a, s)), nest, open, Push(t, s), nest, open, Empty)
  <2> HIDE DEF t, s
  <2> QED BY <1>4, <1>5, StringServes
<1>8. /\ String \o <<a>> \o s = String \o Push(a, s)
      /\ <<k, a>> \o s = Push(k, Push(a, s))
  <2>1. {"after", "scalar", "chars", "expect"} \subseteq Steps /\ {"none", "quote"} \subseteq Subjects
      BY Words, Zenon DEF Steps
  <2>2. a \in Tasks /\ k \in Tasks /\ Step("chars") \in Tasks /\ Task("expect", "quote") \in Tasks
      BY <2>1, IsTask, Zenon
  <2> DEFINE i == Task("expect", "quote")
             j == Step("chars")
  <2> HIDE DEF a, k, s, i, j
  <2>3. (<<i, j>> \o <<a>>) \o s = <<i, j>> \o (<<a>> \o s) /\ <<k, a>> \o s = <<k>> \o (<<a>> \o s)
      BY <1>4, <2>2, SMT DEF i, j
  <2> QED BY <2>3, Zenon DEF Push, String, i, j
<1>9. CASE Proceed(String \o <<Step("after")>> \o Rest) \/ Proceed(<<Step("scalar"), Step("after")>> \o Rest)
  <2> DEFINE p == String \o <<a>> \o s
             q == <<k, a>> \o s
  <2>1. Proceed(p) \/ Proceed(q)
      BY <1>9
  <2> HIDE DEF p, q
  <2>2. /\ UNCHANGED <<text, fetched, offset, pos, ended, keeping, kept, limit, taken, open, nest>>
        /\ todo' = p \/ todo' = q
      BY <2>1, Zenon DEF Proceed
  <2>3. Passes(0) /\ nest' = nest /\ open' = open
      BY <2>2, ProceedMoves, Zenon
  <2>4. /\ Serves(L, D, stop, p, nest, open, todo, nest, open, Empty)
        /\ Serves(L, D, stop, q, nest, open, todo, nest, open, Empty)
      BY <1>4, <1>7, <1>8 DEF p, q
  <2>5. Consumed(0) = Empty
      BY Consuming
  <2>6. Becomes(L, D, stop, 0)
      BY <2>2, <2>3, <2>4, <2>5, Zenon DEF Becomes
  <2> QED BY <1>3, <2>3, <2>6, Zenon DEF Advances
<1> QED BY <1>1, <1>6, <1>9

LEMMA InsideAdvances ==
    ASSUME StreamInv, Inside, ~ Leaves, NEW L \in Families, NEW D, NEW stop \in Stops
    PROVE  Advances(L, D, stop)
<1>1. /\ Sees("inside")
      /\ \/ Octet = Closer(Of) /\ Consume(1, <<Step("after")>> \o Rest)
         \/ /\ todo' = InContainer(Of) \o <<Step("skip")>> \o Rest
            /\ nest' = Append(nest, Of)
            /\ UNCHANGED <<text, fetched, offset, pos, ended, keeping, kept, limit, taken, open>>
    BY Zenon DEF Inside
<1>2. todo # <<>> /\ Head(todo).do = "inside" /\ Buffered >= 1
  <2>1. "inside" \in OctetSteps /\ "inside" # "after"
      BY Zenon DEF OctetSteps
  <2> QED BY <1>1, <2>1, Saw
<1>3. 1 \in 0 .. Buffered /\ 0 \in 0 .. Buffered
    BY <1>2, Spots, SMT
<1> DEFINE t == Head(todo)
           s == Rest
           a == Step("after")
           k == Step("skip")
           c == t.of
<1>4. t \in Tasks /\ s \in Seq(Tasks) /\ todo = Push(t, s) /\ t.do = "inside"
      /\ nest \in Seq(Openers) /\ open \in Int
    BY <1>2, Begun, Spots, Zenon
<1>5. stop \notin {"after", "inside"} /\ stop \notin {"after", "inside", "skip", "expect", "chars"}
    BY Zenon DEF Stops
<1>6. a \in Tasks /\ a.do = "after" /\ k \in Tasks /\ k.do = "skip"
  <2>1. {"after", "skip"} \subseteq Steps /\ "none" \in Subjects
      BY Words, Zenon DEF Steps
  <2> QED BY <2>1, IsTask, Zenon
<1>7. c \in Openers
  <2>1. Stack(todo, Len(nest))
      BY Zenon DEF StreamInv, StackOK
  <2>2. ASSUME todo \in Seq(Later) PROVE FALSE
    <3>1. t \in Later
        BY <1>2, <2>2, SMT
    <3> QED BY <1>2, <3>1, Zenon DEF Later
  <2>3. t \in Entering
      BY <2>1, <2>2, Zenon DEF Stack
  <2>4. PICK d \in Openers : t = Task("inside", d)
      BY <2>3, Zenon DEF Entering
  <2> HIDE DEF t
  <2>5. t.of = d
      BY <2>4, SMT DEF Task
  <2> QED BY <2>4, <2>5
<1> HIDE DEF a, k
<1>8. CASE Octet = Closer(Of) /\ Consume(1, <<Step("after")>> \o Rest)
  <2> DEFINE x == Consumed(1)
  <2>1. Passes(1) /\ todo' = Push(a, s) /\ nest' = nest /\ open' = open
      BY <1>3, <1>8, ConsumeMoves, Zenon DEF Push, a
  <2>2. x = Close(t.of)
    <3>1. x = One(Octet) /\ Octet = Closer(t.of)
        BY <1>2, <1>8, Consuming, Zenon DEF Of
    <3> QED BY <3>1, Zenon DEF Close
  <2> HIDE DEF x, c, t, s
  <2>3. Serves(L, D, stop, Push(a, s), nest, open, Push(t, s), nest, open, Close(t.of))
      BY <1>4, <1>5, <1>6, <1>7, ClosesServe
  <2>4. Becomes(L, D, stop, 1)
      BY <1>4, <2>1, <2>2, <2>3, Zenon DEF Becomes, x
  <2> QED BY <1>3, <2>1, <2>4, Zenon DEF Advances
<1>9. CASE /\ todo' = InContainer(Of) \o <<Step("skip")>> \o Rest
           /\ nest' = Append(nest, Of)
           /\ UNCHANGED <<text, fetched, offset, pos, ended, keeping, kept, limit, taken, open>>
  <2>1. Passes(0) /\ open' = open
      BY <1>9, ProceedMoves, Zenon
  <2>2. nest' = Append(nest, c) /\ todo' = (InContainer(c) \o <<k>>) \o s
      BY <1>9, Zenon DEF Of, k
  <2>3. (InContainer(c) \o <<k>>) \o s = InContainer(c) \o Push(k, s)
    <3> DEFINE l == InContainer(c)
    <3>1. l \in Seq(Tasks)
      <4>1. l \in Seq(Later) /\ Later \subseteq Tasks
          BY <1>7, PutTogether, Words, Zenon DEF Later
      <4> HIDE DEF l
      <4> QED BY <4>1, SMT
    <3> HIDE DEF l, s
    <3>2. (l \o <<k>>) \o s = l \o (<<k>> \o s)
        BY <1>4, <1>6, <3>1, SMT
    <3> QED BY <3>2 DEF Push, l
  <2> HIDE DEF c, t, s
  <2>4. Serves(L, D, stop, InContainer(t.of) \o Push(k, s), Append(nest, t.of), open,
               Push(t, s), nest, open, Empty)
      BY <1>4, <1>5, <1>6, <1>7, ContainerServes DEF c
  <2>5. Consumed(0) = Empty
      BY Consuming
  <2>6. Becomes(L, D, stop, 0)
      BY <1>4, <2>1, <2>2, <2>3, <2>4, <2>5, Zenon DEF Becomes, c
  <2> QED BY <1>3, <2>1, <2>6, Zenon DEF Advances
<1> QED BY <1>1, <1>8, <1>9

LEMMA AfterAdvances ==
    ASSUME StreamInv, After, ~ Leaves, NEW L \in Families, NEW D, NEW stop \in Stops
    PROVE  Advances(L, D, stop)
<1>1. /\ Doing("after")
      /\ \/ nest = <<>> /\ Proceed(Rest)
         \/ /\ nest # <<>> /\ Sees("after")
            /\ \/ Octet = Closer(nest[Len(nest)]) /\ Advance(1, todo, Front(nest), open)
               \/ Octet = "," /\ Consume(1, InContainer(nest[Len(nest)]) \o <<Step("skip")>> \o Rest)
  <2>1. ~ RefuseConsumed
      BY Zenon DEF RefuseConsumed, Refuse
  <2> QED BY <2>1, Zenon DEF After, Sees
<1> DEFINE t == Head(todo)
           s == Rest
           k == Step("skip")
           m == Front(nest)
           c == nest[Len(nest)]
           i == Task("inside", "{")
<1>2. t \in Tasks /\ s \in Seq(Tasks) /\ todo = Push(t, s) /\ t.do = "after"
      /\ nest \in Seq(Openers) /\ open \in Int
  <2>1. todo # <<>> /\ t.do = "after"
      BY <1>1, Zenon DEF Doing
  <2> QED BY <2>1, Begun, Spots, Zenon
<1>3. stop \notin {"after", "inside"} /\ stop \notin {"after", "inside", "skip", "expect", "chars"}
    BY Zenon DEF Stops
<1>4. k \in Tasks /\ k.do = "skip" /\ i \in Tasks /\ i.do = "inside"
  <2>1. "inside" \in Steps /\ "skip" \in Steps
      BY Zenon DEF Steps
  <2>2. "none" \in Subjects /\ "{" \in Subjects
      BY Zenon DEF Subjects, Openers
  <2> QED BY <2>1, <2>2, IsTask, Zenon
<1> HIDE DEF k, i
<1>5. CASE nest = <<>> /\ Proceed(Rest)
  <2>1. todo' = s
        /\ UNCHANGED <<text, fetched, offset, pos, ended, keeping, kept, limit, taken, open, nest>>
      BY <1>5, Zenon DEF Proceed
  <2>2. Passes(0) /\ nest' = nest /\ open' = open
      BY <2>1, ProceedMoves, Zenon
  <2> HIDE DEF t, s
  <2>3. Outer(t, nest) = nest /\ Opened(t, open) = open /\ t.do # stop /\ t.do # "returned"
    <3>1. t.do \in Nesters /\ t.do # "more" /\ t.do # stop /\ t.do # "returned"
        BY <1>2, <1>3, Zenon DEF Nesters
    <3> QED BY <1>5, <3>1, Zenon DEF Outer, Opened
  <2>4. May(L, t, nest, Empty) /\ Empty \in Texts
    <3>1. Empty \in Closing(L, nest) /\ Empty \in Texts
        BY <1>5, AfterNone, Joins
    <3> QED BY <1>2, <3>1, MayAfter
  <2>5. Serves(L, D, stop, s, nest, open, Push(t, s), nest, open, Empty)
      BY <1>2, <2>3, <2>4, Returning
  <2>6. Consumed(0) = Empty /\ 0 \in 0 .. Buffered
      BY Consuming, Spots, SMT
  <2>7. Becomes(L, D, stop, 0)
      BY <1>2, <2>1, <2>2, <2>5, <2>6, Zenon DEF Becomes
  <2> QED BY <2>2, <2>6, <2>7, Zenon DEF Advances
<1>6. ASSUME nest # <<>>, Sees("after")
      PROVE  /\ 1 \in 0 .. Buffered /\ Consumed(1) = One(Octet)
             /\ nest = Append(m, c) /\ m \in Seq(Openers) /\ c \in Openers
  <2>1. Buffered >= 1
    <3>1. "after" \in OctetSteps
        BY Zenon DEF OctetSteps
    <3> QED BY <1>6, <3>1, Saw
  <2>2. 1 \in 0 .. Buffered
      BY <2>1, Spots, SMT
  <2>3. nest = Append(m, c) /\ m \in Seq(Openers) /\ c \in Openers
      BY <1>2, <1>6, SMT DEF Front
  <2> QED BY <2>1, <2>2, <2>3, Consuming
<1> HIDE DEF t, s, m, c
<1>7. CASE nest # <<>> /\ Sees("after") /\ Octet = Closer(nest[Len(nest)])
           /\ Advance(1, todo, Front(nest), open)
  <2>1. Passes(1) /\ todo' = todo /\ nest' = m /\ open' = open
      BY <1>6, <1>7, AdvanceMoves, Zenon DEF m
  <2>2. Consumed(1) = Close(c)
      BY <1>6, <1>7, Zenon DEF Close, c
  <2>3. Serves(L, D, stop, Push(t, s), m, open, Push(t, s), Append(m, c), open, Close(c))
      BY <1>2, <1>3, <1>4, <1>6, <1>7, ClosesServe
  <2>4. Becomes(L, D, stop, 1)
      BY <1>2, <1>6, <1>7, <2>1, <2>2, <2>3, Zenon DEF Becomes
  <2> QED BY <1>6, <1>7, <2>1, <2>4, Zenon DEF Advances
<1>8. CASE nest # <<>> /\ Sees("after") /\ Octet = ","
           /\ Consume(1, InContainer(nest[Len(nest)]) \o <<Step("skip")>> \o Rest)
  <2>1. Passes(1) /\ todo' = (InContainer(c) \o <<k>>) \o s /\ nest' = nest /\ open' = open
      BY <1>6, <1>8, ConsumeMoves, Zenon DEF c, s, k
  <2>2. (InContainer(c) \o <<k>>) \o s = InContainer(c) \o Push(k, s)
    <3> DEFINE l == InContainer(c)
    <3>1. l \in Seq(Tasks)
      <4>1. l \in Seq(Later) /\ Later \subseteq Tasks
          BY <1>6, <1>8, PutTogether, Words, Zenon DEF Later
      <4> HIDE DEF l
      <4> QED BY <4>1, SMT
    <3> HIDE DEF l
    <3>2. (l \o <<k>>) \o s = l \o (<<k>> \o s)
      <4>1. k \in Tasks /\ s \in Seq(Tasks)
          BY <1>2, <1>4
      <4> QED BY ONLY <3>1, <4>1, SMT
    <3> QED BY <3>2 DEF Push, l
  <2>3. Consumed(1) = Comma
      BY <1>6, <1>8, Zenon DEF Comma
  <2>4. Serves(L, D, stop, InContainer(c) \o Push(k, s), Append(m, c), open,
               Push(t, s), Append(m, c), open, Comma)
    <3>1. /\ i \in Tasks /\ i.do = "inside" /\ t \in Tasks /\ t.do = "after"
          /\ k \in Tasks /\ k.do = "skip" /\ s \in Seq(Tasks) /\ m \in Seq(Openers)
          /\ open \in Int /\ c \in Openers /\ L \in Families
          /\ stop \notin {"after", "inside", "skip", "expect", "chars"}
        BY <1>2, <1>3, <1>4, <1>6, <1>8, Zenon
    <3> QED BY ONLY <3>1, ContainerServes
  <2>5. Becomes(L, D, stop, 1)
      BY <1>2, <1>6, <1>8, <2>1, <2>2, <2>3, <2>4, Zenon DEF Becomes
  <2> QED BY <1>6, <1>8, <2>1, <2>5, Zenon DEF Advances
<1> QED BY <1>1, <1>5, <1>7, <1>8, Zenon

-----------------------------------------------------------------------------
(* Of a reply that is read to its end, every step of the scanner serves.    *)
Continues(L, D) ==
    \E n \in 0 .. Buffered :
        pos' = pos + n /\ UNCHANGED <<text, fetched, offset>> /\ Becomes(L, D, "read", n)

LEMMA StillContinues ==
    ASSUME StreamInv, NEW L, NEW D, UNCHANGED <<text, fetched, offset, pos>>,
           Serves(L, D, "read", todo', nest', open', todo, nest, open, Empty)
    PROVE  Continues(L, D)
<1>1. Consumed(0) = Empty /\ 0 \in 0 .. Buffered /\ pos' = pos + 0
  <2>1. Buffered \in Nat /\ pos \in Nat
      BY Spots, Zenon DEF StreamInv, Positions
  <2>2. 0 \in 0 .. Buffered /\ pos' = pos + 0
      BY <2>1, SMT
  <2> QED BY <2>2, Consuming
<1>2. Becomes(L, D, "read", 0)
    BY <1>1, Zenon DEF Becomes
<1> QED BY <1>1, <1>2, Zenon DEF Continues

LEMMA PopContinues ==
    ASSUME StreamInv, NEW L \in Families, NEW D, todo # <<>>,
           Idler(Head(todo)) \/ Head(todo).do \in Padding \/ (Head(todo).do = "returned" /\ open \in D),
           todo' = Rest, UNCHANGED <<text, fetched, offset, pos, nest, open>>
    PROVE  Continues(L, D)
<1> DEFINE t == Head(todo)
           s == Rest
<1>1. t \in Tasks /\ s \in Seq(Tasks) /\ todo = Push(t, s)
      /\ nest \in Seq(Openers) /\ open \in Int
      /\ (Idler(t) \/ t.do \in Padding \/ (t.do = "returned" /\ open \in D))
    BY Begun, Spots, Zenon
<1>2. todo' = s /\ nest' = nest /\ open' = open
    BY Zenon
<1> HIDE DEF t, s
<1>3. Serves(L, D, "read", s, nest, open, Push(t, s), nest, open, Empty)
    BY <1>1, IdleServes
<1>4. Serves(L, D, "read", todo', nest', open', todo, nest, open, Empty)
    BY <1>1, <1>2, <1>3, Zenon
<1> QED BY <1>4, StillContinues

LEMMA FirstContinues ==
    ASSUME StreamInv, First, ~ Leaves, NEW L \in Families, NEW D, nest = <<>>
    PROVE  Continues(L, D)
<1>1. /\ Sees("first")
      /\ \/ Octet = Closer(Of) /\ Consume(1, Rest)
         \/ /\ todo' = Entry(Of) \o Rest
            /\ open' = open + 1
            /\ UNCHANGED <<text, fetched, offset, pos, ended, keeping, kept, limit, taken, nest>>
    BY Zenon DEF First
<1>2. todo # <<>> /\ Head(todo).do = "first" /\ Buffered >= 1
  <2>1. "first" \in OctetSteps /\ "first" # "after"
      BY Zenon DEF OctetSteps
  <2> QED BY <1>1, <2>1, Saw
<1>3. 1 \in 0 .. Buffered
    BY <1>2, Spots, SMT
<1> DEFINE t == Head(todo)
           s == Rest
           c == t.of
           stop == "read"
           none == <<>>
<1>4. t \in Tasks /\ s \in Seq(Tasks) /\ todo = Push(t, s) /\ t.do = "first"
      /\ nest \in Seq(Openers) /\ open \in Int
    BY <1>2, Begun, Spots, Zenon
<1>5. c \in Subjects
  <2> HIDE DEF t
  <2> QED BY <1>4, SMT DEF Tasks
<1>6. CASE Octet = Closer(Of) /\ Consume(1, Rest)
  <2>1. Passes(1) /\ todo' = s /\ nest' = nest /\ open' = open
      BY <1>3, <1>6, ConsumeMoves, Zenon
  <2>2. Consumed(1) = Close(c) /\ Close(c) \in Texts
    <3>1. Consumed(1) = One(Octet) /\ Octet = Closer(c)
        BY <1>2, <1>6, Consuming, Zenon DEF Of
    <3> QED BY <3>1, Marked, Zenon DEF Close
  <2> HIDE DEF t, s, stop
  <2>3. Outer(t, nest) = nest /\ Opened(t, open) = open /\ t.do # stop /\ t.do # "returned"
      BY <1>4, SMT DEF Outer, Opened, Nesters, stop
  <2>4. May(L, t, nest, Close(c))
    <3>1. Close(t.of) \in Inner(L, t.of)
        BY InnerContainer
    <3> QED BY <1>4, <3>1, MayFirst
  <2>5. Serves(L, D, stop, s, nest, open, Push(t, s), nest, open, Close(c))
      BY <1>4, <2>2, <2>3, <2>4, Returning
  <2>6. Becomes(L, D, stop, 1)
      BY <1>4, <2>1, <2>2, <2>5, Zenon DEF Becomes
  <2> QED BY <1>3, <2>1, <2>6, Zenon DEF Continues, Passes, stop
<1>7. CASE /\ todo' = Entry(Of) \o Rest
           /\ open' = open + 1
           /\ UNCHANGED <<text, fetched, offset, pos, ended, keeping, kept, limit, taken, nest>>
  <2>1. todo' = Entry(c) \o s /\ nest' = none /\ nest = none /\ open' = open + 1
        /\ UNCHANGED <<text, fetched, offset, pos>>
      BY <1>7, Zenon DEF Of
  <2> HIDE DEF c, t, s
  <2>2. Serves(L, D, "read", Entry(c) \o s, <<>>, open + 1, Push(t, s), <<>>, open, Empty)
      BY <1>4, <1>5, EntryServes DEF c
  <2> HIDE DEF none
  <2>3. Serves(L, D, "read", todo', nest', open', todo, nest, open, Empty)
      BY <1>4, <2>1, <2>2, Zenon DEF none
  <2> QED BY <2>1, <2>3, StillContinues
<1> QED BY <1>1, <1>6, <1>7

LEMMA MoreContinues ==
    ASSUME StreamInv, More, ~ Leaves, NEW L \in Families, NEW D, nest = <<>>
    PROVE  Continues(L, D)
<1>1. /\ Sees("more")
      /\ \/ Octet = Closer(Of) /\ Advance(1, Rest, nest, open - 1)
         \/ Octet = "," /\ Consume(1, Entry(Of) \o Rest)
  <2>1. ~ RefuseConsumed
      BY Zenon DEF RefuseConsumed, Refuse
  <2> QED BY <2>1, Zenon DEF More
<1>2. todo # <<>> /\ Head(todo).do = "more" /\ Buffered >= 1
  <2>1. "more" \in OctetSteps /\ "more" # "after"
      BY Zenon DEF OctetSteps
  <2> QED BY <1>1, <2>1, Saw, Zenon
<1>3. 1 \in 0 .. Buffered
    BY <1>2, Spots, SMT
<1> DEFINE t == Head(todo)
           s == Rest
           c == t.of
           stop == "read"
           none == <<>>
<1>4. t \in Tasks /\ s \in Seq(Tasks) /\ todo = Push(t, s) /\ t.do = "more"
      /\ nest \in Seq(Openers) /\ open \in Int
    BY <1>2, Begun, Spots, Zenon
<1>5. c \in Subjects /\ open - 1 \in Int
  <2> HIDE DEF t
  <2> QED BY <1>4, SMT DEF Tasks
<1>6. Consumed(1) = One(Octet)
    BY <1>2, Consuming
<1>7. CASE Octet = Closer(Of) /\ Advance(1, Rest, nest, open - 1)
  <2>1. Passes(1) /\ todo' = s /\ nest' = nest /\ open' = open - 1
      BY <1>3, <1>7, AdvanceMoves, Zenon
  <2>2. Consumed(1) = Close(c) /\ Close(c) \in Texts
    <3>1. Octet = Closer(c)
        BY <1>7, Zenon DEF Of
    <3> QED BY <1>6, <3>1, Marked, Zenon DEF Close
  <2> HIDE DEF t, s, stop
  <2>3. Outer(t, nest) = nest /\ Opened(t, open) = open - 1 /\ t.do # stop /\ t.do # "returned"
      BY <1>4, SMT DEF Outer, Opened, Nesters, stop
  <2>4. May(L, t, nest, Close(c))
    <3>1. Close(t.of) \in Behind(L, t.of)
        BY BehindValue
    <3> QED BY <1>4, <3>1, MayMore
  <2>5. Serves(L, D, stop, s, nest, open - 1, Push(t, s), nest, open, Close(c))
    <3> DEFINE p == open - 1
    <3>1. p \in Int /\ Opened(t, open) = p
        BY <1>5, <2>3
    <3> HIDE DEF p
    <3>2. Serves(L, D, stop, s, nest, p, Push(t, s), nest, open, Close(c))
        BY <1>4, <2>2, <2>3, <2>4, <3>1, Returning
    <3> QED BY <3>2 DEF p
  <2>6. Becomes(L, D, stop, 1)
      BY <1>4, <2>1, <2>2, <2>5, Zenon DEF Becomes
  <2> QED BY <1>3, <2>1, <2>6, Zenon DEF Continues, Passes, stop
<1>8. CASE Octet = "," /\ Consume(1, Entry(Of) \o Rest)
  <2>1. Passes(1) /\ todo' = Entry(c) \o s /\ nest' = none /\ nest = none /\ open' = open
      BY <1>3, <1>8, ConsumeMoves, Zenon DEF Of
  <2>2. Consumed(1) = Comma
      BY <1>6, <1>8, Zenon DEF Comma
  <2> HIDE DEF c, t, s
  <2>3. Serves(L, D, "read", Entry(c) \o s, <<>>, open, Push(t, s), <<>>, open, Comma)
      BY <1>4, <1>5, EntryServes DEF c
  <2> HIDE DEF none
  <2>4. Becomes(L, D, "read", 1)
      BY <1>4, <2>1, <2>2, <2>3, Zenon DEF Becomes, none
  <2> QED BY <1>3, <2>1, <2>4, Zenon DEF Continues, Passes
<1> QED BY <1>1, <1>7, <1>8, Zenon

-----------------------------------------------------------------------------
(* What the stack begins with: calls of the steps M up to one of T.         *)
Leading(s, M, T) ==
    \E k \in DOMAIN s : s[k].do \in T /\ \A j \in 1 .. k - 1 : s[j].do \in M
Calls(S) == {t \in Tasks : t.do \in S}

LEMMA LeadPop ==
    ASSUME NEW s \in Seq(Tasks), NEW M, NEW T, Leading(s, M, T), Head(s).do \notin T
    PROVE  s # <<>> /\ Head(s).do \in M /\ Leading(Tail(s), M, T)
<1>1. PICK k \in DOMAIN s : s[k].do \in T /\ \A j \in 1 .. k - 1 : s[j].do \in M
    BY Zenon DEF Leading
<1> DEFINE q == Tail(s)
           h == k - 1
<1>2. s # <<>> /\ Head(s) = s[1] /\ k \in Nat /\ k >= 1
    BY SMT
<1>3. k # 1
    BY <1>1, <1>2, Zenon
<1>4. /\ 1 \in 1 .. k - 1 /\ h \in DOMAIN q /\ q[h] = s[k]
      /\ \A j \in 1 .. h - 1 : q[j] = s[j + 1] /\ j + 1 \in 1 .. k - 1
    BY <1>2, <1>3, SMT
<1> HIDE DEF q, h
<1>5. q[h].do \in T /\ \A j \in 1 .. h - 1 : q[j].do \in M
    BY <1>1, <1>4, Zenon
<1> QED BY <1>1, <1>2, <1>4, <1>5, Zenon DEF Leading, q

LEMMA LeadBehind ==
    ASSUME NEW M, NEW T, NEW p \in Seq(Calls(M)), NEW s \in Seq(Tasks), Leading(s, M, T)
    PROVE  Leading(p \o s, M, T)
<1>1. PICK k \in DOMAIN s : s[k].do \in T /\ \A j \in 1 .. k - 1 : s[j].do \in M
    BY Zenon DEF Leading
<1> DEFINE q == p \o s
           C == Calls(M)
           l == Len(p)
           h == k + l
<1>2. \A t \in C : t.do \in M
    BY Zenon DEF Calls
<1> HIDE DEF C
<1>3. /\ h \in DOMAIN q /\ q[h] = s[k] /\ l \in Nat
      /\ \A j \in 1 .. l : q[j] \in C
      /\ \A j \in 1 .. h - 1 : j \in 1 .. l \/ (q[j] = s[j - l] /\ j - l \in 1 .. k - 1)
    BY SMT DEF C
<1> HIDE DEF q, l, h
<1>4. q[h].do \in T /\ \A j \in 1 .. h - 1 : q[j].do \in M
    BY <1>1, <1>2, <1>3, Zenon
<1> QED BY <1>3, <1>4, Zenon DEF Leading, q

LEMMA LeadFront ==
    ASSUME NEW M, NEW T, NEW p \in Seq(Tasks), NEW s \in Seq(Tasks), Leading(p, M, T)
    PROVE  Leading(p \o s, M, T)
<1>1. PICK k \in DOMAIN p : p[k].do \in T /\ \A j \in 1 .. k - 1 : p[j].do \in M
    BY Zenon DEF Leading
<1> DEFINE q == p \o s
<1>2. k \in DOMAIN q /\ q[k] = p[k] /\ \A j \in 1 .. k - 1 : q[j] = p[j]
    BY SMT
<1> HIDE DEF q
<1>3. q[k].do \in T /\ \A j \in 1 .. k - 1 : q[j].do \in M
    BY <1>1, <1>2, Zenon
<1> QED BY <1>2, <1>3, Zenon DEF Leading, q

LEMMA LeadOne ==
    ASSUME NEW M, NEW T, NEW t \in Tasks, t.do \in T
    PROVE  Leading(<<t>>, M, T)
<1>1. 1 \in DOMAIN <<t>> /\ <<t>>[1] = t /\ ~ \E j \in 1 .. 1 - 1 : TRUE
    BY SMT
<1> QED BY <1>1, Zenon DEF Leading

LEMMA LeadNone ==
    ASSUME NEW M, NEW T
    PROVE  ~ Leading(<<>>, M, T)
<1>1. ~ \E k \in DOMAIN <<>> : TRUE
    BY SMT
<1> QED BY <1>1, Zenon DEF Leading

-----------------------------------------------------------------------------
(* Where containers are open, `skip` is under way; what is kept is kept     *)
(* until it is taken, and by `skip` or the name alone.                      *)
TokenSteps == {"expect", "chars", "scalar"}
ValueSteps == {"skip", "inside", "after"}
NestOK == nest # <<>> => Leading(todo, TokenSteps, ValueSteps)
KeptSteps == TokenSteps \cup ValueSteps
TakeOK == keeping # "no" => Leading(todo, KeptSteps, {"take"})

LEMMA ValueCalls ==
    /\ String \in Seq(Calls(TokenSteps))
    /\ \A c \in Subjects : InContainer(c) \in Seq(Calls(TokenSteps))
    /\ Step("skip") \in Calls(ValueSteps) /\ Step("after") \in Calls(ValueSteps)
    /\ \A c \in Subjects : Task("inside", c) \in Calls(ValueSteps)
    /\ <<Step("scalar")>> \in Seq(Calls(TokenSteps))
<1> DEFINE C == Calls(TokenSteps)
           i == Task("expect", "quote")
           j == Step("chars")
           e == Task("expect", ":")
           k == Step("scalar")
<1>1. /\ "expect" \in Steps /\ "chars" \in Steps /\ "scalar" \in Steps /\ "skip" \in Steps
      /\ "after" \in Steps /\ "inside" \in Steps
    BY Zenon DEF Steps
<1>2. "none" \in Subjects /\ "quote" \in Subjects /\ ":" \in Subjects
    BY Zenon DEF Subjects
<1>3. i \in C /\ j \in C /\ e \in C /\ k \in C
    BY <1>1, <1>2, IsTask, Zenon DEF Calls, TokenSteps
<1>4. /\ Step("skip") \in Calls(ValueSteps) /\ Step("after") \in Calls(ValueSteps)
      /\ \A c \in Subjects : Task("inside", c) \in Calls(ValueSteps)
    BY <1>1, <1>2, IsTask, Zenon DEF Calls, ValueSteps
<1> HIDE DEF C, i, j, e, k
<1>5. <<i, j>> \in Seq(C) /\ <<i, j>> \o <<e>> \in Seq(C) /\ <<>> \in Seq(C) /\ <<k>> \in Seq(C)
    BY <1>3, SMT
<1>6. \A c : InContainer(c) \in Seq(C)
    BY <1>5, Zenon DEF InContainer, MemberName, String, i, j, e
<1> QED BY <1>4, <1>5, <1>6, Zenon DEF C, String, i, j, k

(* A step inside a value leaves the calls of a value in its place.          *)
Inward(p) == p \in Seq(Calls(KeptSteps)) /\ Leading(p, TokenSteps, ValueSteps)

LEMMA InwardCalls ==
    /\ \A c \in Subjects : Inward(<<Task("inside", c)>>)
    /\ \A c \in Subjects : Inward(InContainer(c) \o <<Step("skip")>>)
    /\ Inward(<<Step("after")>>) /\ Inward(String \o <<Step("after")>>)
    /\ Inward(<<Step("scalar"), Step("after")>>)
<1>1. ASSUME NEW t \in Calls(ValueSteps) PROVE Inward(<<t>>)
  <2>1. t \in Tasks /\ t.do \in ValueSteps /\ t \in Calls(KeptSteps)
      BY Zenon DEF Calls, KeptSteps
  <2>2. <<t>> \in Seq(Calls(KeptSteps))
      BY <2>1, SMT
  <2> QED BY <2>1, <2>2, LeadOne, Zenon DEF Inward
<1>2. ASSUME NEW p \in Seq(Calls(TokenSteps)), NEW t \in Calls(ValueSteps)
      PROVE  Inward(p \o <<t>>)
  <2> DEFINE C == Calls(TokenSteps)
             K == Calls(KeptSteps)
             s == <<t>>
  <2>1. C \subseteq K /\ C \subseteq Tasks /\ t \in K /\ t \in Tasks
      BY Zenon DEF Calls, KeptSteps
  <2>2. p \in Seq(C)
      OBVIOUS
  <2>3. Leading(s, TokenSteps, ValueSteps)
      BY <1>1, Zenon DEF Inward
  <2> HIDE DEF C, K
  <2>4. s \in Seq(Tasks) /\ p \o s \in Seq(K)
      BY <2>1, <2>2, SMT
  <2> HIDE DEF s
  <2>5. Leading(p \o s, TokenSteps, ValueSteps)
      BY <2>3, <2>4, LeadBehind, Zenon
  <2> QED BY <2>4, <2>5, Zenon DEF Inward, K, s
<1>3. <<Step("scalar"), Step("after")>> = <<Step("scalar")>> \o <<Step("after")>>
  <2> DEFINE a == Step("scalar")
             b == Step("after")
  <2>1. a \in Tasks /\ b \in Tasks
    <3>1. "scalar" \in Steps /\ "after" \in Steps /\ "none" \in Subjects
        BY Zenon DEF Steps, Subjects
    <3> QED BY <3>1, IsTask, Zenon
  <2> HIDE DEF a, b
  <2>2. <<a, b>> = Append(<<a>>, b)
      BY <2>1, SMT
  <2>3. Append(<<a>>, b) = <<a>> \o <<b>>
      BY <2>1, SMT
  <2> QED BY <2>2, <2>3 DEF a, b
<1> QED BY <1>1, <1>2, <1>3, ValueCalls, Zenon

LEMMA Advanced ==
    ASSUME NEW n, NEW then, NEW within, NEW entered, ~ Leaves
    PROVE  /\ Advance(n, then, within, entered) =>
                /\ todo' = then /\ nest' = within /\ open' = entered
                /\ keeping' # "no" => keeping # "no"
           /\ Consume(n, then) =>
                /\ todo' = then /\ nest' = nest /\ open' = open
                /\ keeping' # "no" => keeping # "no"
           /\ Proceed(then) => todo' = then /\ nest' = nest /\ open' = open /\ keeping' = keeping
           /\ ~ Refuse /\ ~ RefuseConsumed
<1>1. ~ Refuse /\ ~ RefuseConsumed
    BY Zenon DEF Refuse, RefuseConsumed
<1>2. ASSUME NEW w, NEW e, Advance(n, then, w, e)
      PROVE  /\ todo' = then /\ nest' = w /\ open' = e
             /\ keeping' # "no" => keeping # "no"
    BY <1>1, <1>2, Zenon DEF Advance
<1> QED BY <1>1, <1>2, Zenon DEF Consume, Proceed

LEMMA ValueTurns ==
    ASSUME StreamInv, Scan, ~ Leaves, Head(todo).do \in KeptSteps
    PROVE  /\ keeping' # "no" => keeping # "no"
           /\ open' = open
           /\ \/ todo' = todo /\ (nest' # <<>> => nest # <<>>)
              \/ todo' = Rest /\ nest' = nest /\ (Head(todo).do \in TokenSteps \/ nest = <<>>)
              \/ \E p : Inward(p) /\ todo' = p \o Rest
<1> DEFINE Goal == /\ keeping' # "no" => keeping # "no"
                   /\ open' = open
                   /\ \/ todo' = todo /\ (nest' # <<>> => nest # <<>>)
                      \/ todo' = Rest /\ nest' = nest
                         /\ (Head(todo).do \in TokenSteps \/ nest = <<>>)
                      \/ \E p : Inward(p) /\ todo' = p \o Rest
<1> SUFFICES Goal
    OBVIOUS
<1> HIDE DEF Goal
<1>1. ASSUME NEW n, NEW then, Consume(n, then) \/ Proceed(then),
             \/ then = todo
             \/ then = Rest /\ (Head(todo).do \in TokenSteps \/ nest = <<>>)
             \/ \E p : Inward(p) /\ then = p \o Rest
      PROVE  Goal
  <2>1. todo' = then /\ nest' = nest /\ open' = open /\ (keeping' # "no" => keeping # "no")
      BY <1>1, Advanced, Zenon
  <2> QED BY <1>1, <2>1, Zenon DEF Goal
<1>2. ~ Refuse /\ ~ RefuseConsumed
    BY Advanced, Zenon
<1>3. ~ CutShort /\ ~ Keep /\ ~ Take /\ ~ First /\ ~ More /\ ~ Peek /\ ~ Caught /\ ~ End
    BY <1>2, Zenon DEF CutShort, Keep, Take, First, More, Peek, Caught, End, Sees, Doing, KeptSteps,
       TokenSteps, ValueSteps
<1>4. CASE Space
  <2>1. PICK n \in 1 .. Buffered : Consume(n, todo)
      BY <1>4, Zenon DEF Space
  <2> QED BY <1>1, <2>1, Zenon
<1>5. CASE Expect
  <2>1. Consume(1, Rest) /\ Head(todo).do \in TokenSteps
      BY <1>2, <1>5, Zenon DEF Expect, Sees, Doing, TokenSteps
  <2> QED BY <1>1, <2>1, Zenon
<1>6. CASE Chars
  <2>1. Head(todo).do \in TokenSteps
      BY <1>6, Zenon DEF Chars, Doing, TokenSteps
  <2>2. \E n : Consume(n, todo) \/ Consume(n, Rest)
      BY <1>2, <1>6, Zenon DEF Chars, Escape
  <2> QED BY <1>1, <2>1, <2>2, Zenon
<1>7. CASE Scalar
  <2>1. Head(todo).do \in TokenSteps
      BY <1>7, Zenon DEF Scalar, Doing, TokenSteps
  <2>2. \E n : Consume(n, Rest)
      BY <1>2, <1>7, Zenon DEF Scalar
  <2> QED BY <1>1, <2>1, <2>2, Zenon
<1>8. CASE Skip
  <2>1. CASE Octet \in Openers /\ Consume(1, <<Task("inside", Octet)>> \o Rest)
    <3>1. Inward(<<Task("inside", Octet)>>)
        BY <2>1, InwardCalls, Words, Zenon
    <3> QED BY <1>1, <2>1, <3>1, Zenon
  <2>2. CASE Proceed(String \o <<Step("after")>> \o Rest)
    <3> QED BY <1>1, <2>2, InwardCalls, Zenon
  <2>3. CASE Proceed(<<Step("scalar"), Step("after")>> \o Rest)
    <3> QED BY <1>1, <2>3, InwardCalls, Zenon
  <2>4. Octet = "quote" => Octet \notin Openers
      BY Zenon DEF Openers
  <2> QED BY <1>2, <1>8, <2>1, <2>2, <2>3, <2>4, Zenon DEF Skip
<1>9. CASE Inside
  <2>1. CASE Consume(1, <<Step("after")>> \o Rest)
    <3> QED BY <1>1, <2>1, InwardCalls, Zenon
  <2>2. CASE /\ todo' = InContainer(Of) \o <<Step("skip")>> \o Rest
             /\ UNCHANGED <<keeping, open>>
    <3>1. Inward(InContainer(Of) \o <<Step("skip")>>)
      <4>1. Of \in Subjects
        <5>1. todo # <<>>
            BY <1>9, Zenon DEF Inside, Sees, Doing
        <5> QED BY <5>1, Subject, Zenon
      <4> QED BY <4>1, InwardCalls
    <3> QED BY <2>2, <3>1, Zenon DEF Goal
  <2> QED BY <1>9, <2>1, <2>2, Zenon DEF Inside
<1>10. CASE After
  <2>1. CASE nest = <<>> /\ Proceed(Rest)
    <3> QED BY <1>1, <2>1, Zenon
  <2>2. CASE nest # <<>> /\ Advance(1, todo, Front(nest), open)
    <3>1. todo' = todo /\ open' = open /\ (keeping' # "no" => keeping # "no")
        BY <2>2, Advanced, Zenon
    <3> QED BY <2>2, <3>1, Zenon DEF Goal
  <2>3. CASE nest # <<>> /\ Consume(1, InContainer(nest[Len(nest)]) \o <<Step("skip")>> \o Rest)
    <3> DEFINE c == nest[Len(nest)]
    <3>1. c \in Subjects
      <4>1. c \in Openers
          BY <2>3, Room, SMT
      <4> QED BY <4>1, Words, Zenon
    <3> QED BY <1>1, <2>3, <3>1, InwardCalls, Zenon
  <2> QED BY <1>2, <1>10, <2>1, <2>2, <2>3, Zenon DEF After
<1> QED BY <1>3, <1>4, <1>5, <1>6, <1>7, <1>8, <1>9, <1>10, Zenon DEF Scan

(* A step outside of every value.                                           *)
LEMMA OtherTurns ==
    ASSUME StreamInv, Scan, ~ Leaves, Head(todo).do \notin KeptSteps
    PROVE  /\ nest' = nest
           /\ keeping' # "no" => keeping # "no" \/ Keep
<1>1. ~ Refuse /\ ~ RefuseConsumed
    BY Advanced, Zenon
<1>2. /\ ~ CutShort /\ ~ Expect /\ ~ Chars /\ ~ Scalar /\ ~ Skip /\ ~ Inside /\ ~ After
    BY <1>1, Zenon DEF CutShort, Expect, Chars, Scalar, Skip, Inside, After, Sees, Doing, KeptSteps,
       TokenSteps, ValueSteps
<1>3. ASSUME \/ \E n, then : Consume(n, then) \/ Proceed(then)
             \/ \E n, then, e : Advance(n, then, nest, e)
      PROVE  nest' = nest /\ (keeping' # "no" => keeping # "no")
    BY <1>3, Advanced, Zenon
<1>4. CASE Space \/ Peek \/ Caught \/ More
    BY <1>1, <1>3, <1>4, Zenon DEF Space, Peek, Caught, More
<1>5. CASE End
    BY <1>1, <1>3, <1>5, Zenon DEF End
<1>6. CASE First
    BY <1>3, <1>6, Zenon DEF First
<1>7. CASE Keep \/ Take
    BY <1>7, Zenon DEF Keep, Take
<1> QED BY <1>2, <1>4, <1>5, <1>6, <1>7, Zenon DEF Scan

LEMMA NestHeld ==
    ASSUME StreamInv, NestOK, todo # <<>>, Head(todo).do \notin KeptSteps
    PROVE  nest = <<>>
<1>1. ASSUME nest # <<>> PROVE FALSE
  <2>1. Leading(todo, TokenSteps, ValueSteps) /\ Head(todo).do \notin ValueSteps
        /\ Head(todo).do \notin TokenSteps /\ todo \in Seq(Tasks)
      BY <1>1, TodoTyped, Zenon DEF NestOK, KeptSteps
  <2> QED BY <2>1, LeadPop, Zenon
<1> QED BY <1>1

LEMMA NestScan ==
    ASSUME StreamInv, NestOK, Scan PROVE NestOK'
<1>1. CASE Leaves
    BY <1>1, Zenon DEF NestOK, Leaves
<1>2. todo # <<>> /\ todo \in Seq(Tasks) /\ Rest \in Seq(Tasks)
    BY ScanDoes, TodoTyped, Begun, Zenon
<1>3. CASE ~ Leaves /\ Head(todo).do \in KeptSteps
  <2>1. \/ todo' = todo /\ (nest' # <<>> => nest # <<>>)
        \/ todo' = Rest /\ nest' = nest /\ (Head(todo).do \in TokenSteps \/ nest = <<>>)
        \/ \E p : Inward(p) /\ todo' = p \o Rest
      BY <1>3, ValueTurns
  <2>2. ASSUME NEW p, Inward(p) PROVE Leading(p \o Rest, TokenSteps, ValueSteps)
    <3>1. p \in Seq(Tasks) /\ Leading(p, TokenSteps, ValueSteps)
      <4> DEFINE C == Calls(KeptSteps)
      <4>1. C \subseteq Tasks /\ p \in Seq(C)
          BY <2>2, Zenon DEF Calls, Inward
      <4> HIDE DEF C
      <4>2. p \in Seq(Tasks)
          BY <4>1, SMT
      <4> QED BY <2>2, <4>2, Zenon DEF Inward
    <3> QED BY <1>2, <3>1, LeadFront, Zenon
  <2>3. ASSUME nest # <<>>, Head(todo).do \in TokenSteps PROVE Leading(Rest, TokenSteps, ValueSteps)
    <3>1. Head(todo).do \notin ValueSteps
        BY <2>3, Zenon DEF TokenSteps, ValueSteps
    <3>2. Leading(todo, TokenSteps, ValueSteps)
        BY <2>3, Zenon DEF NestOK
    <3> QED BY <1>2, <3>1, <3>2, LeadPop, Zenon DEF Rest
  <2> QED BY <2>1, <2>2, <2>3, Zenon DEF NestOK
<1>4. CASE ~ Leaves /\ Head(todo).do \notin KeptSteps
    BY <1>2, <1>4, NestHeld, OtherTurns, Zenon DEF NestOK
<1> QED BY <1>1, <1>3, <1>4

-----------------------------------------------------------------------------
(* What the steps of the call are, by what they do to the scanner.          *)
Quiet ==
    /\ UNCHANGED <<text, keeping, kept, taken, open, nest, todo>> /\ At' = At
    /\ UNCHANGED <<members, returned, depth, start, outcome>>
Tells ==
    /\ todo' = <<>> /\ todo # <<>> /\ Head(todo).do \notin KeptSteps \cup {"take"}
    /\ UNCHANGED <<text, offset, pos, keeping, kept, taken, nest, members, returned>>
    /\ (Doing("read") /\ outcome' = Discriminate(RequestId, "ok", Envelop))
       \/ outcome' = FetchError

LEMMA QuietSteps ==
    ASSUME StreamInv
    PROVE  /\ Receive => (Leaves /\ UNCHANGED <<members, returned, depth, start, outcome>>) \/ Quiet
           /\ Elapse \/ Done \/ UNCHANGED vars => Quiet
           /\ Discriminated \/ Fail => Tells
<1>1. ASSUME NEW n, Fetch(n) PROVE At' = At
  <2>1. offset' = offset + pos /\ pos' = 0
      BY <1>1, Zenon DEF Fetch
  <2>2. offset \in Nat /\ pos \in Nat
      BY Zenon DEF StreamInv, Positions
  <2> QED BY <2>1, <2>2, SMT DEF At
<1>2. ASSUME Receive
      PROVE  (Leaves /\ UNCHANGED <<members, returned, depth, start, outcome>>) \/ Quiet
  <2>1. UNCHANGED <<members, returned, depth, start, outcome>>
      BY <1>2, Zenon DEF Receive, callVars
  <2>2. \/ Leaves
        \/ \E n : Fetch(n)
        \/ UNCHANGED <<text, offset, pos, keeping, kept, taken, open, nest, todo>>
      BY <1>2, Zenon DEF Receive, Fill, FillEnd, DropChunk, Refuse
  <2>3. CASE \E n : Fetch(n)
      BY <1>1, <2>1, <2>3, Zenon DEF Quiet, Fetch
  <2> QED BY <2>1, <2>2, <2>3, Zenon DEF Quiet, At
<1>3. ASSUME Elapse \/ Done \/ UNCHANGED vars PROVE Quiet
    BY <1>3, Zenon DEF Elapse, Done, vars, streamVars, Quiet, At
<1>4. ASSUME Discriminated \/ Fail PROVE Tells
  <2>1. todo # <<>> /\ Head(todo).do \notin KeptSteps \cup {"take"}
      BY <1>4, Zenon DEF Discriminated, Fail, Doing, KeptSteps, TokenSteps, ValueSteps
  <2> QED BY <1>4, <2>1, Zenon DEF Discriminated, Fail, Answer, Tells
<1> QED BY <1>2, <1>3, <1>4, Zenon

LEMMA NeverFailure ==
    ASSUME IndInv, WalkInv, EndInv, scenario.status = "ok"
    PROVE  ~ Doing("failure")
<1> SUFFICES ASSUME Doing("failure") PROVE FALSE
    OBVIOUS
<1>1. todo # <<>> /\ Head(todo).do = "failure" /\ todo \in Seq(Tasks) /\ Order(todo)
    BY TodoTyped, Zenon DEF Doing, IndInv, WalkInv
<1>2. Head(todo) = todo[1] /\ 1 \in DOMAIN todo
    BY <1>1, SMT
<1>3. 1 = Len(todo)
    BY <1>1, <1>2, Zenon DEF Order
<1>4. ~ Bottom(todo)
  <2>1. ~ (1 >= 2)
      BY SMT
  <2> QED BY <1>3, <2>1, Zenon DEF Bottom
<1>5. todo # <<Refused>>
  <2>1. Refused.do = "refused" /\ <<Refused>>[1] = Refused
      BY Zenon DEF Refused, Step, Task
  <2> QED BY <1>1, <1>2, <2>1, Zenon
<1> QED BY <1>1, <1>4, <1>5, Zenon DEF EndInv, Doing

Program == EnvelopeMember \/ Store \/ BeginWalk \/ WalkMember \/ Note \/ EndWalk

LEMMA ProgramSteps ==
    ASSUME Program
    PROVE  /\ todo # <<>> /\ Head(todo).do \in {"yield", "store", "walk", "note", "returned"}
           /\ Head(todo).do \notin KeptSteps /\ outcome' = outcome
           /\ Leaves \/ \E then : Proceed(then)
<1>1. todo # <<>> /\ Head(todo).do \in {"yield", "store", "walk", "note", "returned"}
    BY Zenon DEF Program, EnvelopeMember, Store, BeginWalk, WalkMember, Note, EndWalk, Doing
<1>2. Head(todo).do \notin KeptSteps
    BY <1>1, Zenon DEF KeptSteps, TokenSteps, ValueSteps
<1>3. (Leaves \/ \E then : Proceed(then)) /\ outcome' = outcome
    BY Zenon DEF Program, EnvelopeMember, Store, BeginWalk, WalkMember, Note, EndWalk, Refuse,
       callVars
<1> QED BY <1>1, <1>2, <1>3

LEMMA EveryStep ==
    ASSUME IndInv, WalkInv, EndInv, scenario.status = "ok", [Next]_vars
    PROVE  \/ Leaves /\ UNCHANGED <<members, returned, depth, start, outcome>>
           \/ Scan /\ ~ Leaves /\ UNCHANGED callVars
           \/ Program
           \/ Quiet \/ Tells
<1>1. ~ ReadFailure
    BY NeverFailure, Zenon DEF ReadFailure
<1>2. StreamInv
    BY Zenon DEF IndInv
<1> QED BY <1>1, <1>2, QuietSteps, Zenon DEF Next, Program, callVars

LEMMA NestStays ==
    ASSUME IndInv, WalkInv, EndInv, scenario.status = "ok", NestOK, [Next]_vars
    PROVE  NestOK'
<1>1. StreamInv
    BY Zenon DEF IndInv
<1>2. CASE Leaves
    BY <1>2, Zenon DEF NestOK, Leaves
<1>3. CASE Scan
    BY <1>1, <1>3, NestScan
<1>4. CASE Program
  <2>1. nest = <<>>
      BY <1>1, <1>4, ProgramSteps, NestHeld, Zenon
  <2>2. nest' = nest
      BY <1>2, <1>4, <2>1, ProgramSteps, Zenon DEF Proceed, Leaves
  <2> QED BY <2>1, <2>2, Zenon DEF NestOK
<1>5. CASE Quiet
    BY <1>5, Zenon DEF Quiet, NestOK
<1>6. CASE Tells
  <2>1. nest = <<>>
      BY <1>1, <1>6, NestHeld, Zenon DEF Tells
  <2> QED BY <1>6, <2>1, Zenon DEF Tells, NestOK
<1> QED BY <1>2, <1>3, <1>4, <1>5, <1>6, EveryStep, Zenon

LEMMA ScanContinues ==
    ASSUME StreamInv, NestOK, Scan, ~ Leaves, NEW L \in Families, NEW D
    PROVE  Continues(L, D)
<1> DEFINE stop == "read"
<1>1. stop \in Stops /\ stop # "expect" /\ stop # "chars" /\ stop # "scalar"
    BY Zenon DEF Stops
<1>2. Advances(L, D, stop) => Continues(L, D)
    BY Zenon DEF Advances, Continues, Passes
<1> HIDE DEF stop
<1>3. CASE Expect \/ Chars \/ Scalar \/ Skip \/ Inside \/ After
    BY <1>1, <1>2, <1>3, ExpectAdvances, CharsAdvances, ScalarAdvances, SkipAdvances,
       InsideAdvances, AfterAdvances, Zenon
<1>4. CASE Space
  <2>1. Head(todo).do # stop
      BY <1>4, Zenon DEF Space, ReadsOctet, OctetSteps, stop
  <2> QED BY <1>2, <1>4, <2>1, SpaceAdvances, Zenon
<1>5. CASE CutShort
    BY <1>5, Zenon DEF CutShort, Refuse
<1>6. CASE First \/ More
  <2>1. todo # <<>> /\ Head(todo).do \notin KeptSteps
      BY <1>6, Zenon DEF First, More, Sees, Doing, KeptSteps, TokenSteps, ValueSteps
  <2>2. nest = <<>>
      BY <2>1, NestHeld
  <2> QED BY <1>6, <2>2, FirstContinues, MoreContinues, Zenon
<1>7. CASE Keep \/ Take \/ Peek \/ Caught \/ End
  <2>1. /\ todo # <<>> /\ todo' = Rest /\ UNCHANGED <<text, fetched, offset, pos, nest, open>>
        /\ Head(todo).do \in {"keep", "take", "peek", "caught", "end"}
      BY <1>7, Zenon DEF Keep, Take, Peek, Caught, End, Sees, Doing, Proceed, Refuse
  <2>2. Idler(Head(todo)) \/ Head(todo).do \in Padding
      BY <2>1, Zenon DEF Idler, Padding, Readers, Nesters
  <2> QED BY <2>1, <2>2, PopContinues, Zenon
<1> QED BY <1>3, <1>4, <1>5, <1>6, <1>7, Zenon DEF Scan

-----------------------------------------------------------------------------
(* What is read, and what may follow it.                                   *)
Read == SubSeq(text, 1, At)
Faithful(L, D, s, ns, o, r) ==
    \A w \in Texts : Completes(L, D, s, "read", Conf(ns, o, w)) => r ++ w \in Elem(L)
Lacks(s, do) == \A i \in DOMAIN s : s[i].do # do

LEMMA NoMatter ==
    ASSUME NEW L, NEW D, NEW E, NEW s \in Seq(Tasks), Lacks(s, "returned"), NEW stop, NEW a,
           Completes(L, D, s, stop, a)
    PROVE  Completes(L, E, s, stop, a)
<1>1. PICK k \in DOMAIN s, c \in [Nat -> Confs] :
        /\ c[1] = a /\ s[k].do = stop /\ c[k].left = Empty
        /\ \A i \in 1 .. k - 1 : s[i].do # stop /\ Piece(L, D, s[i], c[i], c[i + 1])
    BY Zenon DEF Completes
<1>2. \A t, x, y : t.do # "returned" /\ Piece(L, D, t, x, y) => Piece(L, E, t, x, y)
    BY Zenon DEF Piece
<1>3. \A i \in 1 .. k - 1 : s[i].do # stop /\ Piece(L, E, s[i], c[i], c[i + 1])
  <2> SUFFICES ASSUME NEW i \in 1 .. k - 1
               PROVE  s[i].do # stop /\ Piece(L, E, s[i], c[i], c[i + 1])
      OBVIOUS
  <2>1. i \in DOMAIN s
      BY <1>1, DOMAIN s = 1 .. Len(s), Len(s) \in Nat, SMT
  <2> QED BY <1>1, <1>2, <2>1, Zenon DEF Lacks
<1> QED BY <1>1, <1>3, Zenon DEF Completes

LEMMA ReadOn ==
    ASSUME StreamInv
    PROVE  Read \in Texts /\ \A n \in 0 .. Buffered : SubSeq(text, 1, At + n) = Read ++ Consumed(n)
<1>1. /\ text \in Seq(Octets) /\ At \in Nat /\ Buffered \in Nat /\ At + Buffered <= Len(text)
      /\ At <= Len(text)
    BY Spots, SMT DEF Texts
<1>2. SubSeq(text, 1, At) \in Seq(Octets)
    BY <1>1, SMT
<1>3. \A n \in 0 .. Buffered :
        SubSeq(text, 1, At + n) = SubSeq(text, 1, At) \o SubSeq(text, At + 1, At + n)
    BY <1>1, SMT
<1> QED BY <1>2, <1>3, Zenon DEF Read, Consumed, Texts, ++

LEMMA Carry ==
    ASSUME StreamInv, NEW L \in Families, NEW D, Continues(L, D),
           Faithful(L, D, todo, nest, open, Read)
    PROVE  Faithful(L, D, todo', nest', open', Read')
<1>1. PICK n \in 0 .. Buffered :
        pos' = pos + n /\ UNCHANGED <<text, fetched, offset>> /\ Becomes(L, D, "read", n)
    BY Zenon DEF Continues
<1>2. /\ offset \in Nat /\ pos \in Nat
    BY Zenon DEF StreamInv, Positions
<1>3. Read' = Read ++ Consumed(n) /\ Read \in Texts
  <2>1. At' = At + n
      BY <1>1, <1>2, SMT DEF At
  <2> QED BY <1>1, <2>1, ReadOn, Zenon DEF Read
<1> SUFFICES ASSUME NEW w \in Texts, Completes(L, D, todo', "read", Conf(nest', open', w))
             PROVE  Read' ++ w \in Elem(L)
    BY Zenon DEF Faithful
<1>4. Consumed(n) \in Texts
    BY Consuming
<1>5. Completes(L, D, todo, "read", Conf(nest, open, Consumed(n) ++ w))
    BY <1>1, Zenon DEF Becomes, Serves
<1>6. Consumed(n) ++ w \in Texts
    BY <1>4, Joins
<1>7. Read ++ (Consumed(n) ++ w) \in Elem(L)
    BY <1>5, <1>6, Zenon DEF Faithful
<1>8. (Read ++ Consumed(n)) ++ w = Read ++ (Consumed(n) ++ w)
    BY <1>3, <1>4, Joins
<1> QED BY <1>3, <1>7, <1>8, Zenon

-----------------------------------------------------------------------------
(* What the stack never holds: no walk that reads one value after another  *)
(* catches a refusal, and nothing returns where no walk began.             *)
OneByOne == Walks \ {"swallow", "swallow members", "beyond"}
Singly == scenario.status = "ok" /\ scenario.walk \in OneByOne

LEMMA LacksAll ==
    /\ \A d : \A s \in Seq(Tasks) : Lacks(s, d) /\ s # <<>> => Lacks(Tail(s), d)
    /\ \A d : \A p, s \in Seq(Tasks) : Lacks(p, d) /\ Lacks(s, d) => Lacks(p \o s, d)
    /\ \A d : \A s \in Seq(Tasks), i \in Nat :
          i >= 1 /\ i <= Len(s) + 1 /\ Lacks(s, d) => Lacks(SubSeq(s, i, Len(s)), d)
    /\ \A p \in Seq(Harmless), d \in Special : p \in Seq(Tasks) /\ Lacks(p, d)
    /\ \A d : Lacks(<<>>, d)
    /\ \A d : \A t \in Tasks : t.do # d => Lacks(<<t>>, d)
<1>1. ASSUME NEW s \in Seq(Tasks), NEW d, Lacks(s, d), s # <<>> PROVE Lacks(Tail(s), d)
  <2>1. \A i \in DOMAIN Tail(s) : i + 1 \in DOMAIN s /\ Tail(s)[i] = s[i + 1]
      BY <1>1, SMT
  <2> QED BY <1>1, <2>1, Zenon DEF Lacks
<1>2. ASSUME NEW p \in Seq(Tasks), NEW s \in Seq(Tasks), NEW d, Lacks(p, d), Lacks(s, d)
      PROVE  Lacks(p \o s, d)
  <2>1. \A i \in DOMAIN (p \o s) :
            \/ i \in DOMAIN p /\ (p \o s)[i] = p[i]
            \/ i - Len(p) \in DOMAIN s /\ (p \o s)[i] = s[i - Len(p)]
      BY SMT
  <2> QED BY <1>2, <2>1, Zenon DEF Lacks
<1>3. ASSUME NEW s \in Seq(Tasks), NEW i \in Nat, NEW d, i >= 1, i <= Len(s) + 1, Lacks(s, d)
      PROVE  Lacks(SubSeq(s, i, Len(s)), d)
  <2>1. \A j \in DOMAIN SubSeq(s, i, Len(s)) :
            j + i - 1 \in DOMAIN s /\ SubSeq(s, i, Len(s))[j] = s[j + i - 1]
      BY <1>3, SMT
  <2> QED BY <1>3, <2>1, Zenon DEF Lacks
<1>4. ASSUME NEW p \in Seq(Harmless), NEW d \in Special PROVE p \in Seq(Tasks) /\ Lacks(p, d)
  <2>1. \A i \in DOMAIN p : p[i] \in Harmless
      BY SMT
  <2>2. p \in Seq(Tasks)
      BY SeqMonotonic, Zenon DEF Harmless
  <2> QED BY <2>1, <2>2, Zenon DEF Lacks, Harmless
<1>5. \A d : Lacks(<<>>, d)
    BY SMT DEF Lacks
<1>6. ASSUME NEW t \in Tasks, NEW d, t.do # d PROVE Lacks(<<t>>, d)
    BY <1>6, SMT DEF Lacks
<1> HIDE DEF Lacks
<1> QED BY <1>1, <1>2, <1>3, <1>4, <1>5, <1>6

LEMMA LacksTwo ==
    ASSUME NEW a \in Tasks, NEW b \in Tasks, NEW d, a.do # d, b.do # d
    PROVE  <<a, b>> \in Seq(Tasks) /\ Lacks(<<a, b>>, d)
BY SMT DEF Lacks

LEMMA LacksLeaves ==
    ASSUME StreamInv, Leaves, NEW d \in Special, Lacks(todo, d)
    PROVE  Lacks(todo', d) /\ (d = "caught" => todo' = <<Refused>>)
<1>1. todo \in Seq(Tasks)
    BY TodoTyped
<1>2. CASE todo' = <<Refused>>
  <2>1. Refused \in Tasks /\ Refused.do = "refused"
      BY IsTask, Zenon DEF Refused, Step, Task, Steps, Subjects, Openers, Tasks
  <2>2. d # "refused"
      BY Zenon DEF Special
  <2> QED BY <1>2, <2>1, <2>2, LacksAll
<1>3. ASSUME NEW i \in DOMAIN todo, Catches(i), todo' = SubSeq(todo, i + 1, Len(todo))
      PROVE  Lacks(todo', d) /\ d # "caught"
  <2>1. i + 1 \in Nat /\ i + 1 >= 1 /\ i + 1 <= Len(todo) + 1
      BY <1>1, SMT
  <2>2. Lacks(todo', d)
      BY <1>1, <1>3, <2>1, LacksAll
  <2>3. todo[i].do = "caught"
      BY <1>3, Zenon DEF Catches
  <2> QED BY <2>2, <2>3, Zenon DEF Lacks
<1> QED BY <1>2, <1>3, Zenon DEF Leaves

LEMMA LacksStays ==
    ASSUME IndInv, WalkInv, EndInv, scenario.status = "ok", [Next]_vars,
           NEW d \in {"caught", "returned"}, Lacks(todo, d),
           d = "caught" => scenario.walk \in OneByOne, d = "returned" => ~ BeginWalk
    PROVE  Lacks(todo', d)
<1>1. StreamInv /\ todo \in Seq(Tasks) /\ d \in Special /\ CallInv
    BY TodoTyped, Zenon DEF IndInv, Special
<1>2. todo # <<>> => Rest \in Seq(Tasks) /\ Lacks(Rest, d)
    BY <1>1, LacksAll, Begun, Zenon DEF Rest
<1>3. \A p \in Seq(Tasks) : todo # <<>> /\ Lacks(p, d) => Lacks(p \o Rest, d)
    BY <1>2, LacksAll
<1>4. \A s \in Seq(Ordinary) : s \in Seq(Tasks) /\ Lacks(s, d)
    BY <1>1, HarmlessCalls, LacksAll
<1>5. /\ \A of \in {"member", "result"} : KeepValue(of) \in Seq(Tasks) /\ Lacks(KeepValue(of), d)
    BY <1>4, AllOrdinary, Zenon
<1>6. \A do \in Steps, of \in Subjects : do # d =>
          /\ <<Task(do, of)>> \in Seq(Tasks) /\ Lacks(<<Task(do, of)>>, d)
          /\ <<Step(do)>> \in Seq(Tasks) /\ Lacks(<<Step(do)>>, d)
  <2> SUFFICES ASSUME NEW do \in Steps, NEW of \in Subjects, do # d
               PROVE  /\ <<Task(do, of)>> \in Seq(Tasks) /\ Lacks(<<Task(do, of)>>, d)
                      /\ <<Step(do)>> \in Seq(Tasks) /\ Lacks(<<Step(do)>>, d)
      OBVIOUS
  <2> DEFINE a == Task(do, of)  b == Step(do)
  <2>1. a \in Tasks /\ b \in Tasks /\ a.do = do /\ b.do = do
      BY IsTask
  <2> HIDE DEF a, b
  <2>2. /\ <<a>> \in Seq(Tasks) /\ Lacks(<<a>>, d)
        /\ <<b>> \in Seq(Tasks) /\ Lacks(<<b>>, d)
      BY <2>1, LacksAll
  <2> QED BY <2>2 DEF a, b
<1>7. /\ {"skip", "peek", "walk", "note", "caught", "returned", "store"} \subseteq Steps
      /\ "none" \in Subjects /\ \A e \in Envelope : e \in Subjects
  <2>1. {"skip", "peek", "walk", "note", "caught", "returned", "store"} \subseteq Steps
      BY Zenon DEF Steps
  <2> QED BY <2>1, Words, Zenon
<1>8. CASE Leaves
    BY <1>1, <1>8, LacksLeaves
<1>9. CASE Scan /\ ~ Leaves
  <2>1. Turns
      BY <1>1, <1>9, ScanTurns
  <2>2. \A p \in Seq(Harmless) : p \in Seq(Tasks) /\ Lacks(p, d)
      BY <1>1, LacksAll
  <2> QED BY <1>2, <1>3, <1>9, <2>1, <2>2, Zenon DEF Turns
<1>10. CASE EnvelopeMember
  <2>0. todo # <<>>
      BY <1>10, Zenon DEF EnvelopeMember, Doing
  <2> DEFINE a == Step("peek")  b == Step("walk")  k == Step("skip")
             K == KeepValue("member")  E(n) == Task("store", n)
  <2>1. \/ Leaves \/ todo' = <<a, b>> \o Rest
        \/ \E n \in Envelope : todo' = K \o <<E(n)>> \o Rest
        \/ todo' = <<k>> \o Rest
    BY <1>10, Zenon DEF EnvelopeMember, Proceed, Refuse
  <2>2. d # "peek" /\ d # "walk" /\ d # "skip" /\ d # "store"
      BY Zenon
  <2>3. /\ <<a>> \in Seq(Tasks) /\ Lacks(<<a>>, d) /\ <<b>> \in Seq(Tasks) /\ Lacks(<<b>>, d)
        /\ <<k>> \in Seq(Tasks) /\ Lacks(<<k>>, d)
        /\ \A n \in Envelope : <<E(n)>> \in Seq(Tasks) /\ Lacks(<<E(n)>>, d)
        /\ K \in Seq(Tasks) /\ Lacks(K, d)
      BY <1>5, <1>6, <1>7, <2>2, Zenon
  <2>4. Lacks(<<a, b>>, d) /\ <<a, b>> \in Seq(Tasks)
    <3>1. a \in Tasks /\ b \in Tasks /\ a.do = "peek" /\ b.do = "walk"
        BY <1>7, IsTask, Zenon
    <3> HIDE DEF a, b
    <3> QED BY <2>2, <3>1, LacksTwo, Zenon
  <2> HIDE DEF a, b, k, K, E
  <2>5. \A n \in Envelope : Lacks(K \o <<E(n)>>, d) /\ K \o <<E(n)>> \in Seq(Tasks)
    <3>2. \A n \in Envelope : Lacks(K \o <<E(n)>>, d)
        BY <2>3, LacksAll
    <3>3. \A n \in Envelope : K \o <<E(n)>> \in Seq(Tasks)
        BY <2>3, ConcatProperties
    <3> QED BY <3>2, <3>3
  <2>7. CASE todo' = <<a, b>> \o Rest \/ todo' = <<k>> \o Rest
      BY <2>0, <2>7, <1>3, <2>3, <2>4, Zenon
  <2>8. ASSUME NEW n \in Envelope, todo' = K \o <<E(n)>> \o Rest PROVE Lacks(todo', d)
    <3>1. todo' = (K \o <<E(n)>>) \o Rest
        BY <2>8
    <3> QED BY <2>0, <3>1, <1>3, <2>5, Zenon
  <2> QED BY <1>8, <2>1, <2>7, <2>8, Zenon
<1>11. CASE Store \/ Note \/ EndWalk
    BY <1>2, <1>8, <1>11, Zenon DEF Store, Note, EndWalk, Proceed, Refuse, Doing
<1>12. CASE BeginWalk
  <2>1. d = "caught" /\ scenario.walk \in OneByOne /\ scenario.walk \in Walks
      BY <1>12, Zenon DEF OneByOne
  <2> DEFINE walk == scenario.walk  r == Step("returned")
  <2>2. todo # <<>> /\ todo' = TasksOf(walk) \o <<r>> \o Rest
      BY <1>12, Zenon DEF BeginWalk, Proceed, Doing
  <2>3. <<r>> \in Seq(Tasks) /\ Lacks(<<r>>, d)
      BY <1>6, <1>7, <2>1, Zenon
  <2>4. TasksOf(walk) \in Seq(Tasks) /\ Lacks(TasksOf(walk), d)
    <3>1. walk \in {"skip", "value", "members", "items", "first member", "first item", "nothing"}
        BY <2>1, Zenon DEF OneByOne, Walks
    <3>2. CASE walk = "skip"
      <4>1. TasksOf(walk) = <<Step("skip")>>
          BY <3>2, Zenon DEF TasksOf
      <4> QED BY <1>6, <1>7, <4>1, Zenon
    <3>3. CASE walk = "value"
      <4>1. TasksOf(walk) = KeepValue("result") \o <<Step("note")>>
          BY <3>3, SMT DEF TasksOf
      <4>2. /\ <<Step("note")>> \in Seq(Tasks) /\ Lacks(<<Step("note")>>, d)
            /\ KeepValue("result") \in Seq(Tasks) /\ Lacks(KeepValue("result"), d)
          BY <1>5, <1>6, <1>7, <2>1, Zenon
      <4> DEFINE K == KeepValue("result")  N == <<Step("note")>>
      <4> HIDE DEF K, N
      <4>3. K \in Seq(Tasks) /\ N \in Seq(Tasks) /\ Lacks(K, d) /\ Lacks(N, d)
          BY <4>2 DEF K, N
      <4>4. Lacks(K \o N, d) /\ K \o N \in Seq(Tasks)
          BY <4>3, LacksAll, ConcatProperties
      <4> QED BY <4>1, <4>4 DEF K, N
    <3>4. CASE walk \in {"members", "first member"}
      <4>1. TasksOf(walk) = Generator("{")
          BY <3>4, Zenon DEF TasksOf
      <4> QED BY <1>4, <4>1, AllOrdinary, Words, Zenon DEF Openers
    <3>5. CASE walk \in {"items", "first item"}
      <4>1. TasksOf(walk) = Generator("[")
          BY <3>5, Zenon DEF TasksOf
      <4> QED BY <1>4, <4>1, AllOrdinary, Words, Zenon DEF Openers
    <3>6. CASE walk = "nothing"
      <4>1. TasksOf(walk) = <<>>
          BY <3>6, Zenon DEF TasksOf
      <4> QED BY <4>1, LacksAll, EmptySeq
    <3> QED BY <3>1, <3>2, <3>3, <3>4, <3>5, <3>6, Zenon
  <2> DEFINE T == TasksOf(walk)  R == <<r>>
  <2>5. T \in Seq(Tasks) /\ R \in Seq(Tasks) /\ Lacks(T, d) /\ Lacks(R, d) /\ todo' = T \o R \o Rest
      BY <2>2, <2>3, <2>4
  <2> HIDE DEF T, R
  <2>6. Lacks(T \o R, d) /\ T \o R \in Seq(Tasks)
      BY <2>5, LacksAll, ConcatProperties
  <2> QED BY <2>2, <2>5, <2>6, <1>3
<1>13. CASE WalkMember
  <2> DEFINE K == KeepValue("result")  c == <<Step("caught")>>  n == <<Step("note")>>
  <2>1. /\ todo # <<>>
        /\ \/ \E i \in DOMAIN todo : todo' = K \o SubSeq(todo, i, Len(todo))
           \/ scenario.walk = "swallow members" /\ todo' = K \o c \o Rest
           \/ todo' = K \o n \o Rest
      BY <1>13, Zenon DEF WalkMember, Proceed, Doing
  <2>2. /\ K \in Seq(Tasks) /\ Lacks(K, d) /\ n \in Seq(Tasks) /\ Lacks(n, d)
        /\ d # "caught" => c \in Seq(Tasks) /\ Lacks(c, d)
      BY <1>5, <1>6, <1>7, Zenon
  <2>3. d = "caught" => scenario.walk # "swallow members"
      BY Zenon DEF OneByOne
  <2> HIDE DEF K, c, n
  <2>4. ASSUME NEW i \in DOMAIN todo, todo' = K \o SubSeq(todo, i, Len(todo)) PROVE Lacks(todo', d)
    <3>1. i \in Nat /\ i >= 1 /\ i <= Len(todo) + 1 /\ SubSeq(todo, i, Len(todo)) \in Seq(Tasks)
        BY <1>1, SMT
    <3> DEFINE q == SubSeq(todo, i, Len(todo))
    <3>2. Lacks(q, d)
        BY <1>1, <3>1, LacksAll
    <3>3. q \in Seq(Tasks) /\ todo' = K \o q
        BY <2>4, <3>1
    <3> HIDE DEF q
    <3>4. Lacks(K \o q, d)
        BY ONLY <2>2, <3>2, <3>3, LacksAll, Zenon
    <3> QED BY <3>3, <3>4, Zenon
  <2>5. ASSUME NEW q \in Seq(Tasks), Lacks(q, d), todo' = K \o q \o Rest PROVE Lacks(todo', d)
    <3>1. Lacks(K \o q, d) /\ K \o q \in Seq(Tasks)
        BY <2>2, <2>5, LacksAll, ConcatProperties
    <3> DEFINE p == K \o q
    <3>2. p \in Seq(Tasks) /\ Lacks(p, d) /\ todo' = p \o Rest
        BY <2>5, <3>1
    <3> HIDE DEF p
    <3>3. Lacks(p \o Rest, d)
        BY ONLY <1>3, <2>1, <3>2, Zenon
    <3> QED BY <3>2, <3>3, Zenon
  <2> QED BY <2>1, <2>2, <2>3, <2>4, <2>5, Zenon
<1>14. CASE Quiet \/ Tells
    BY <1>14, LacksAll, Zenon DEF Quiet, Tells
<1> QED BY <1>8, <1>9, <1>10, <1>11, <1>12, <1>13, <1>14, EveryStep, Zenon DEF Program

-----------------------------------------------------------------------------
(* The walk that reads nothing, and those that leave a container open.     *)
NothingRead ==
    scenario.walk = "nothing" /\ Walking => Doing("returned") /\ At = start

LEMMA WalkingIs == Walking <=> ~ Lacks(todo, "returned")
BY Zenon DEF Walking, Lacks

LEMMA NowWalking ==
    ASSUME IndInv, WalkInv, EndInv, Singly, [Next]_vars, Lacks(todo, "caught"),
           Walking', ~ Walking
    PROVE  BeginWalk
<1>1. Lacks(todo, "returned") /\ ~ Lacks(todo', "returned")
    BY WalkingIs, Zenon DEF Walking, Lacks
<1> QED BY <1>1, LacksStays, Zenon DEF Singly

LEMMA NotThen ==
    ASSUME StreamInv
    PROVE  /\ Leaves /\ Lacks(todo, "caught") => ~ Walking'
           /\ Tells => ~ Walking'
           /\ Order(todo) /\ todo # <<>> /\ Head(todo).do \in {"walk", "returned"} /\ todo' = Rest
              => ~ Walking'
           /\ Order(todo) /\ todo # <<>> /\ Head(todo).do = "walk" => ~ Walking
<1>1. /\ todo \in Seq(Tasks)
      /\ todo # <<>> => todo = Push(Head(todo), Rest) /\ Head(todo) \in Tasks /\ Rest \in Seq(Tasks)
    BY TodoTyped, Begun
<1>2. ASSUME Leaves, Lacks(todo, "caught") PROVE ~ Walking'
  <2>1. todo' = <<Refused>>
      BY <1>2, LacksLeaves, Zenon DEF Special
  <2>2. Refused \in Tasks /\ Refused.do # "returned"
      BY IsTask, Zenon DEF Refused, Step, Task, Steps, Subjects, Openers, Tasks
  <2>3. Lacks(<<Refused>>, "returned")
      BY <2>2, LacksAll
  <2> QED BY <2>1, <2>3, Zenon DEF Walking, Lacks
<1>3. Tells => ~ Walking'
  <2>1. Lacks(<<>>, "returned")
      BY LacksAll
  <2> QED BY <2>1, Zenon DEF Tells, Walking, Lacks
<1>4. ASSUME Order(todo), todo # <<>>, Head(todo).do \in {"walk", "returned"}
      PROVE  Lacks(Rest, "returned") /\ Rest \in Seq(Tasks)
  <2>1. Idle(Tail(todo))
      BY <1>1, <1>4, IdleOrder
  <2> QED BY <1>1, <1>4, <2>1, Zenon DEF Idle, Lacks, Rest
<1>5. ASSUME Order(todo), todo # <<>>, Head(todo).do = "walk" PROVE ~ Walking
  <2> DEFINE h == Head(todo)
  <2>1. h \in Tasks /\ Rest \in Seq(Tasks) /\ todo = <<h>> \o Rest /\ Lacks(Rest, "returned")
      BY <1>1, <1>4, <1>5, Zenon DEF Push
  <2>2. h.do # "returned"
      BY <1>5
  <2> HIDE DEF h
  <2>3. <<h>> \in Seq(Tasks) /\ Lacks(<<h>>, "returned")
      BY <2>1, <2>2, LacksAll, SMT
  <2>4. Lacks(<<h>> \o Rest, "returned")
      BY ONLY <2>1, <2>3, LacksAll, Zenon
  <2> QED BY <2>1, <2>4, WalkingIs, Zenon
<1> QED BY <1>2, <1>3, <1>4, <1>5, Zenon DEF Walking, Lacks

LEMMA NothingStays ==
    ASSUME IndInv, WalkInv, EndInv, Singly, Lacks(todo, "caught"), NothingRead, [Next]_vars
    PROVE  NothingRead'
<1>1. StreamInv /\ Order(todo) /\ scenario' = scenario /\ scenario.status = "ok"
    BY ScenarioForever, Zenon DEF IndInv, WalkInv, Singly
<1> SUFFICES ASSUME scenario.walk = "nothing", Walking'
             PROVE  (Doing("returned"))' /\ At' = start'
    BY <1>1, Zenon DEF NothingRead
<1>2. CASE ~ Walking
  <2>1. BeginWalk
      BY <1>2, NowWalking
  <2> DEFINE r == Step("returned")  R == <<r>>
  <2>2. todo' = TasksOf("nothing") \o R \o Rest /\ start' = At /\ At' = At
    <3>1. offset' = offset /\ pos' = pos
        BY <2>1, Zenon DEF BeginWalk, Proceed
    <3> QED BY <2>1, <3>1, Zenon DEF BeginWalk, Proceed, At
  <2>3. TasksOf("nothing") = <<>>
      BY Zenon DEF TasksOf
  <2>4. r \in Tasks /\ r.do = "returned" /\ Rest \in Seq(Tasks)
    <3>1. "returned" \in Steps /\ "none" \in Subjects
        BY Zenon DEF Steps, Subjects
    <3> QED BY <1>1, <2>1, <3>1, IsTask, Begun, Zenon DEF BeginWalk, Doing
  <2> HIDE DEF r
  <2>5. todo' # <<>> /\ Head(todo') = r
      BY <2>2, <2>3, <2>4, SMT
  <2> QED BY <2>2, <2>4, <2>5, Zenon DEF Doing
<1>3. CASE Walking
  <2>1. Doing("returned") /\ At = start
      BY <1>3, Zenon DEF NothingRead
  <2>2. CASE Leaves \/ Tells
      BY <1>1, <2>2, NotThen, Zenon
  <2>3. CASE Scan
      BY <2>1, <2>3, ScanDoes, Zenon DEF Doing
  <2>4. CASE Program
    <3>1. EndWalk
        BY <2>1, <2>4, Zenon DEF Program, EnvelopeMember, Store, BeginWalk, WalkMember, Note, Doing
    <3>2. Leaves
        BY <2>1, <3>1, Zenon DEF EndWalk, ReadWhole, Refuse
    <3> QED BY <2>2, <3>2, Zenon
  <2>5. CASE Quiet
      BY <2>1, <2>5, Zenon DEF Quiet, Doing
  <2> QED BY <1>1, <2>2, <2>3, <2>4, <2>5, EveryStep, Zenon
<1> QED BY <1>2, <1>3

(* Before a generator entered the container, and since.                    *)
Finishing == {"returned"}
Yielding == {"yield", "returned"}
Outside == Steps \ {"yield", "more", "returned"}
Innermost == Steps \ {"first", "more", "yield", "returned"}
FirstRead ==
    scenario.walk \in {"first member", "first item"} /\ Walking =>
        \/ open = depth /\ Leading(todo, Outside, Finishing)
        \/ open = depth + 1 /\ Leading(todo, Innermost, Yielding)

LEMMA AllCalls ==
    /\ KeptSteps \subseteq Outside /\ KeptSteps \subseteq Innermost
    /\ \A do \in Outside, of \in Subjects : Task(do, of) \in Calls(Outside)
    /\ \A do \in Innermost, of \in Subjects : Task(do, of) \in Calls(Innermost)
    /\ \A c \in Subjects : Generator(c) \in Seq(Calls(Outside))
    /\ KeepValue("result") \in Seq(Calls(Innermost))
    /\ \A c \in Subjects, s \in Seq(Tasks) : Leading(Entry(c) \o s, Innermost, Yielding)
<1>1. KeptSteps \subseteq Outside /\ KeptSteps \subseteq Innermost
    BY Zenon DEF KeptSteps, TokenSteps, ValueSteps, Outside, Innermost, Steps
<1>2. /\ \A do \in Outside, of \in Subjects : Task(do, of) \in Calls(Outside)
      /\ \A do \in Innermost, of \in Subjects : Task(do, of) \in Calls(Innermost)
    BY IsTask, Zenon DEF Calls, Outside, Innermost
<1>3. /\ "expect" \in Outside /\ "first" \in Outside
      /\ "keep" \in Innermost /\ "skip" \in Innermost /\ "take" \in Innermost
      /\ "expect" \in Innermost /\ "chars" \in Innermost
    BY Zenon DEF Outside, Innermost, Steps
<1>4. /\ "quote" \in Subjects /\ ":" \in Subjects /\ "name" \in Subjects /\ "result" \in Subjects
      /\ "none" \in Subjects
    BY Words, Zenon
<1>5. \A c \in Subjects : Generator(c) \in Seq(Calls(Outside))
  <2> SUFFICES ASSUME NEW c \in Subjects PROVE Generator(c) \in Seq(Calls(Outside))
      OBVIOUS
  <2> DEFINE a == Task("expect", c)  b == Task("first", c)
  <2>1. a \in Calls(Outside) /\ b \in Calls(Outside) /\ Generator(c) = <<a, b>>
      BY <1>2, <1>3, Zenon DEF Generator
  <2> HIDE DEF a, b
  <2> QED BY <2>1, SMT
<1>6. KeepValue("result") \in Seq(Calls(Innermost))
  <2> DEFINE a == Task("keep", "result")  b == Step("skip")  c == Step("take")
  <2>1. a \in Calls(Innermost) /\ b \in Calls(Innermost) /\ c \in Calls(Innermost)
        /\ KeepValue("result") = <<a, b, c>>
      BY <1>2, <1>3, <1>4, Zenon DEF KeepValue, Step
  <2> HIDE DEF a, b, c
  <2>2. <<a, b, c>> \in Seq(Calls(Innermost))
    <3>1. a \in Calls(Innermost) /\ b \in Calls(Innermost) /\ c \in Calls(Innermost)
        BY <2>1
    <3> QED BY ONLY <3>1, SMT
  <2> QED BY <2>1, <2>2, Zenon
<1>7. ASSUME NEW c \in Subjects, NEW s \in Seq(Tasks) PROVE Leading(Entry(c) \o s, Innermost, Yielding)
  <2> DEFINE y == Task("yield", c)  m == Task("more", c)  k == Task("keep", "name")
             q == Task("expect", "quote")  h == Step("chars")
             t == Step("take")  e == Task("expect", ":")  r == Push(m, s)
  <2>1. y \in Tasks /\ y.do = "yield" /\ m \in Tasks /\ r \in Seq(Tasks)
        /\ k \in Calls(Innermost) /\ q \in Calls(Innermost) /\ h \in Calls(Innermost)
        /\ t \in Calls(Innermost) /\ e \in Calls(Innermost)
    <3>1. "yield" \in Steps /\ "more" \in Steps
        BY Zenon DEF Steps
    <3>2. m \in Tasks
        BY <3>1, IsTask, Zenon
    <3>3. r \in Seq(Tasks)
        BY <3>2, Pushing
    <3> QED BY <1>2, <1>3, <1>4, <3>1, <3>2, <3>3, IsTask, Zenon DEF Step
  <2>2. /\ c # "{" => Entry(c) \o s = Push(y, r)
        /\ c = "{" => Entry(c) \o s = Push(k, String \o Push(t, Push(e, Push(y, r))))
        /\ String = <<q, h>>
      BY EntryCalls, Zenon DEF String
  <2> HIDE DEF y, m, k, q, h, t, e, r
  <2>3. Leading(Push(y, r), Innermost, Yielding) /\ Push(y, r) \in Seq(Tasks)
    <3>1. <<y>> \in Seq(Tasks) /\ Leading(<<y>>, Innermost, Yielding)
        BY <2>1, LeadOne, SMT DEF Yielding
    <3>2. Leading(<<y>> \o r, Innermost, Yielding)
        BY <2>1, <3>1, LeadFront
    <3> QED BY <2>1, <3>2, Pushing, Zenon DEF Push
  <2>4. \A x \in Calls(Innermost), u \in Seq(Tasks) :
            Leading(u, Innermost, Yielding)
            => Leading(Push(x, u), Innermost, Yielding) /\ Push(x, u) \in Seq(Tasks)
    <3> SUFFICES ASSUME NEW x \in Calls(Innermost), NEW u \in Seq(Tasks),
                        Leading(u, Innermost, Yielding)
                 PROVE  Leading(Push(x, u), Innermost, Yielding) /\ Push(x, u) \in Seq(Tasks)
        OBVIOUS
    <3>1. <<x>> \in Seq(Calls(Innermost)) /\ x \in Tasks
        BY SMT DEF Calls
    <3>2. Leading(<<x>> \o u, Innermost, Yielding)
        BY <3>1, LeadBehind
    <3> QED BY <3>1, <3>2, Pushing, Zenon DEF Push
  <2>5. <<q, h>> \in Seq(Calls(Innermost))
      BY <2>1, SMT
  <2> DEFINE u == Push(t, Push(e, Push(y, r)))
  <2>6. Leading(u, Innermost, Yielding) /\ u \in Seq(Tasks)
      BY ONLY <2>1, <2>3, <2>4, Zenon
  <2> HIDE DEF u
  <2>7. Leading(String \o u, Innermost, Yielding) /\ String \o u \in Seq(Tasks)
    <3>1. String \in Seq(Tasks)
        BY EntryCalls, Zenon
    <3> QED BY <2>2, <2>5, <2>6, <3>1, LeadBehind, ConcatProperties, Zenon
  <2>8. Leading(Push(k, String \o u), Innermost, Yielding)
      BY ONLY <2>1, <2>4, <2>7, Zenon
  <2> QED BY <2>2, <2>3, <2>8, Zenon DEF u
<1> HIDE DEF Outside, Innermost, Yielding
<1> QED BY <1>1, <1>2, <1>5, <1>6, <1>7, Zenon

LEMMA OtherScans ==
    ASSUME StreamInv, Scan, ~ Leaves, Head(todo).do \notin KeptSteps
    PROVE  /\ todo # <<>>
           /\ \/ todo' = todo /\ open' = open
              \/ todo' = Rest /\ open' = open /\ Head(todo).do # "more"
              \/ First /\ todo' = Entry(Of) \o Rest /\ open' = open + 1
              \/ More /\ Head(todo).do = "more"
<1>1. ~ Expect /\ ~ Chars /\ ~ Scalar /\ ~ Skip /\ ~ Inside /\ ~ CutShort
    BY Zenon DEF Expect, Chars, Scalar, Skip, Inside, CutShort, Refuse, Sees, Doing,
                 KeptSteps, TokenSteps, ValueSteps
<1>2. ~ After
    BY Zenon DEF After, Sees, Doing, KeptSteps, ValueSteps
<1>3. todo # <<>>
    BY ScanDoes
<1>4. CASE Space
  <2>1. \E n : Consume(n, todo)
      BY <1>4, Zenon DEF Space
  <2> QED BY <1>3, <2>1, Advanced, Zenon
<1>5. CASE Keep \/ Take \/ Peek \/ Caught \/ End
    BY <1>5, Zenon DEF Keep, Take, Peek, Caught, End, Sees, Doing, Proceed, Refuse
<1>6. CASE First
  <2>1. Head(todo).do = "first"
      BY <1>6, Zenon DEF First, Sees, Doing
  <2>2. Consume(1, Rest) \/ (todo' = Entry(Of) \o Rest /\ open' = open + 1)
      BY <1>6, Zenon DEF First
  <2> QED BY <1>3, <1>6, <2>1, <2>2, Advanced, Zenon
<1>7. CASE More
    BY <1>3, <1>7, Zenon DEF More, Sees, Doing
<1> QED BY <1>1, <1>2, <1>4, <1>5, <1>6, <1>7, Zenon DEF Scan

LEMMA FirstScans ==
    ASSUME StreamInv, Scan, ~ Leaves,
           \/ open = depth /\ Leading(todo, Outside, Finishing)
           \/ open = depth + 1 /\ Leading(todo, Innermost, Yielding)
    PROVE  \/ open' = depth /\ Leading(todo', Outside, Finishing)
           \/ open' = depth + 1 /\ Leading(todo', Innermost, Yielding)
<1>1. /\ todo # <<>> /\ Head(todo).do \notin {"returned", "yield"} /\ todo \in Seq(Tasks)
      /\ Rest \in Seq(Tasks) /\ open \in Int
  <2>1. Head(todo).do \notin {"returned", "yield"}
      BY ScanDoes, Zenon DEF Scan, CutShort, CutOff, Reads, ReadsOctet, OctetSteps, Space, Expect, Chars,
         Scalar, Skip, Inside, After, Keep, Take, First, More, Peek, Caught, End, Sees, Doing
  <2> QED BY <2>1, ScanDoes, TodoTyped, Begun, Zenon DEF StreamInv
<1>2. Head(todo).do \notin Finishing /\ Head(todo).do \notin Yielding
    BY <1>1, Zenon DEF Finishing, Yielding
<1>3. /\ Leading(todo, Outside, Finishing)
         => Head(todo).do \in Outside /\ Leading(Rest, Outside, Finishing)
      /\ Leading(todo, Innermost, Yielding)
         => Head(todo).do \in Innermost /\ Leading(Rest, Innermost, Yielding)
    BY <1>1, <1>2, LeadPop, Zenon DEF Rest
<1>4. CASE Head(todo).do \in KeptSteps
  <2>1. ASSUME NEW p \in Seq(Calls(KeptSteps)), NEW M, NEW T, KeptSteps \subseteq M,
               Leading(Rest, M, T)
        PROVE  Leading(p \o Rest, M, T)
    <3>1. p \in Seq(Calls(M))
        BY <2>1, SeqMonotonic, Zenon DEF Calls
    <3> QED BY <1>1, <2>1, <3>1, LeadBehind
  <2>2. \A p : Inward(p) =>
            /\ Leading(Rest, Outside, Finishing) => Leading(p \o Rest, Outside, Finishing)
            /\ Leading(Rest, Innermost, Yielding) => Leading(p \o Rest, Innermost, Yielding)
      BY <2>1, AllCalls, Zenon DEF Inward
  <2>3. open' = open /\ \/ todo' = todo \/ todo' = Rest \/ \E p : Inward(p) /\ todo' = p \o Rest
      BY <1>4, ValueTurns, Zenon
  <2> QED BY <1>3, <2>2, <2>3, Zenon
<1>5. CASE Head(todo).do \notin KeptSteps
  <2>1. Head(todo).do = "more" => FALSE
      BY <1>3, Zenon DEF Outside, Innermost
  <2>2. CASE First /\ todo' = Entry(Of) \o Rest /\ open' = open + 1
    <3>1. Head(todo).do = "first" /\ Of \in Subjects
        BY <2>2, <1>1, Subject, Zenon DEF First, Sees, Doing
    <3>2. open = depth
        BY <1>3, <3>1, Zenon DEF Innermost
    <3>3. Leading(Entry(Of) \o Rest, Innermost, Yielding)
        BY <1>1, <3>1, AllCalls
    <3> QED BY <2>2, <3>2, <3>3, Zenon
  <2> QED BY <1>3, <1>5, <2>1, <2>2, OtherScans, Zenon
<1> QED BY <1>4, <1>5

LEMMA FirstStays ==
    ASSUME IndInv, WalkInv, EndInv, Singly, Lacks(todo, "caught"), FirstRead, [Next]_vars
    PROVE  FirstRead'
<1>1. StreamInv /\ Order(todo) /\ scenario' = scenario /\ scenario.status = "ok"
      /\ todo \in Seq(Tasks) /\ open \in Int
    BY ScenarioForever, TodoTyped, Zenon DEF IndInv, WalkInv, Singly, StreamInv
<1> DEFINE Goal == \/ open' = depth' /\ Leading(todo', Outside, Finishing)
                   \/ open' = depth' + 1 /\ Leading(todo', Innermost, Yielding)
<1> DEFINE F == scenario.walk \in {"first member", "first item"}
<1> SUFFICES ASSUME F, Walking'
             PROVE  Goal
    BY <1>1, Zenon DEF FirstRead
<1>4. F /\ Walking'
    BY Zenon
<1> HIDE DEF F
<1>2. CASE ~ Walking
  <2>1. BeginWalk
      BY <1>2, NowWalking
  <2> DEFINE r == Step("returned")
  <2>2. \E c \in Subjects : TasksOf(scenario.walk) = Generator(c)
    <3>1. scenario.walk = "first member" => TasksOf(scenario.walk) = Generator("{")
        BY Zenon DEF TasksOf
    <3>2. scenario.walk = "first item" => TasksOf(scenario.walk) = Generator("[")
        BY Zenon DEF TasksOf
    <3>3. "{" \in Subjects /\ "[" \in Subjects
        BY Words, Zenon DEF Openers
    <3> QED BY <1>4, <3>1, <3>2, <3>3, Zenon DEF F
  <2>3. PICK c \in Subjects : TasksOf(scenario.walk) = Generator(c)
      BY <2>2
  <2>4. todo' = Generator(c) \o <<r>> \o Rest /\ open' = depth'
      BY <2>1, <2>3, Zenon DEF BeginWalk, Proceed
  <2>5. r \in Tasks /\ r.do = "returned" /\ Rest \in Seq(Tasks)
    <3>1. "returned" \in Steps /\ "none" \in Subjects
        BY Zenon DEF Steps, Subjects
    <3> QED BY <1>1, <2>1, <3>1, IsTask, Begun, Zenon DEF BeginWalk, Doing
  <2> DEFINE G == Generator(c)
  <2>6. G \in Seq(Calls(Outside)) /\ G \in Seq(Tasks)
      BY AllCalls, AllOrdinary, SeqMonotonic, Zenon DEF Calls
  <2> HIDE DEF r, G
  <2>7. <<r>> \in Seq(Tasks) /\ Leading(<<r>>, Outside, Finishing)
      BY <2>5, LeadOne, SMT DEF Finishing
  <2> DEFINE q == <<r>> \o Rest
  <2>8. Leading(q, Outside, Finishing) /\ q \in Seq(Tasks)
      BY <2>5, <2>7, LeadFront, ConcatProperties
  <2>9. todo' = G \o q
      BY <2>4, <2>5, <2>6, <2>7, SMT DEF G
  <2> HIDE DEF q
  <2> QED BY <2>4, <2>6, <2>8, <2>9, LeadBehind, Zenon
<1>3. CASE Walking
  <2>0. \/ open = depth /\ Leading(todo, Outside, Finishing)
        \/ open = depth + 1 /\ Leading(todo, Innermost, Yielding)
      BY <1>3, <1>4, Zenon DEF FirstRead, F
  <2>1. CASE Leaves \/ Tells
      BY <1>1, <2>1, NotThen, Zenon
  <2>2. CASE Scan /\ ~ Leaves /\ UNCHANGED callVars
      BY <1>1, <2>0, <2>2, FirstScans, Zenon DEF callVars
  <2>3. CASE Quiet
      BY <2>0, <2>3, Zenon DEF Quiet
  <2>4. CASE Program
    <3>1. todo # <<>> /\ Rest \in Seq(Tasks)
        BY <1>1, <2>4, ProgramSteps, Begun
    <3>2. /\ Leading(todo, Outside, Finishing) /\ Head(todo).do # "returned"
             => Head(todo).do \in Outside /\ Leading(Rest, Outside, Finishing)
          /\ Leading(todo, Innermost, Yielding) /\ Head(todo).do \notin {"yield", "returned"}
             => Head(todo).do \in Innermost /\ Leading(Rest, Innermost, Yielding)
        BY <1>1, <3>1, LeadPop, Zenon DEF Rest, Finishing, Yielding
    <3>3. CASE EnvelopeMember
        BY <1>3, <3>3, Zenon DEF EnvelopeMember
    <3>4. CASE Store \/ Note
      <4>1. todo' = Rest /\ open' = open /\ depth' = depth /\ Head(todo).do \notin {"yield", "returned"}
          BY <3>4, Zenon DEF Store, Note, Proceed, Doing
      <4> QED BY <2>0, <3>2, <4>1, Zenon
    <3>5. CASE BeginWalk
        BY <1>1, <1>3, <3>5, NotThen, Zenon DEF BeginWalk, Doing
    <3>6. CASE EndWalk
      <4>1. Leaves \/ (todo' = Rest /\ todo # <<>> /\ Head(todo).do = "returned")
          BY <3>6, Zenon DEF EndWalk, Refuse, Proceed, Doing
      <4> QED BY <1>1, <2>1, <4>1, NotThen, Zenon
    <3>7. CASE WalkMember
      <4>1. Head(todo).do = "yield" /\ open' = open /\ depth' = depth
          BY <3>7, Zenon DEF WalkMember, Proceed, Doing
      <4>2. open = depth + 1
          BY <2>0, <3>2, <4>1, Zenon DEF Outside
      <4> DEFINE K == KeepValue("result")
      <4>3. \E i \in DOMAIN todo :
                Returns(i) /\ todo' = K \o SubSeq(todo, i, Len(todo))
          BY <1>4, <3>7, Zenon DEF WalkMember, Proceed, F
      <4>4. PICK i \in DOMAIN todo :
                Returns(i) /\ todo' = K \o SubSeq(todo, i, Len(todo))
          BY <4>3
      <4> DEFINE s == SubSeq(todo, i, Len(todo))
      <4>5. s \in Seq(Tasks) /\ 1 \in DOMAIN s /\ s[1] = todo[i]
          BY <1>1, SMT
      <4>6. todo[i].do = "returned"
          BY <4>4, Zenon DEF Returns
      <4> HIDE DEF s
      <4>7. Leading(s, Innermost, Yielding)
        <5>1. s[1].do \in Yielding
            BY <4>5, <4>6, Zenon DEF Yielding
        <5>2. \A j \in 1 .. 1 - 1 : s[j].do \in Innermost
            BY SMT
        <5> QED BY <4>5, <5>1, <5>2, Zenon DEF Leading
      <4>8. K \in Seq(Calls(Innermost))
          BY AllCalls, Zenon
      <4>9. Leading(K \o s, Innermost, Yielding)
          BY <4>5, <4>7, <4>8, LeadBehind
      <4> QED BY <4>1, <4>2, <4>4, <4>9, Zenon DEF s
    <3> QED BY <2>4, <3>3, <3>4, <3>5, <3>6, <3>7, Zenon DEF Program
  <2> QED BY <1>1, <2>1, <2>2, <2>3, <2>4, EveryStep, Zenon
<1> QED BY <1>2, <1>3

-----------------------------------------------------------------------------
(* The program that reads by the scanner, one handler at a time.           *)
Deep == IF scenario.walk = "nothing" THEN {} ELSE {depth}
WalksOK == Lacks(todo, "caught") /\ NothingRead /\ FirstRead

LEMMA StillFaithful ==
    ASSUME StreamInv, NEW L \in Families, NEW D, UNCHANGED <<text, fetched, offset, pos>>,
           Serves(L, D, "read", todo', nest', open', todo, nest, open, Empty),
           Faithful(L, D, todo, nest, open, Read)
    PROVE  Faithful(L, D, todo', nest', open', Read')
<1>1. Continues(L, D)
    BY StillContinues
<1> QED BY <1>1, Carry

LEMMA ProceedFaithful ==
    ASSUME StreamInv, NEW L \in Families, NEW D, NEW then, Proceed(then),
           Serves(L, D, "read", then, nest, open, todo, nest, open, Empty),
           Faithful(L, D, todo, nest, open, Read)
    PROVE  Faithful(L, D, todo', nest', open', Read')
<1>1. /\ UNCHANGED <<text, fetched, offset, pos>>
      /\ todo' = then /\ nest' = nest /\ open' = open
    BY Zenon DEF Proceed
<1>2. Serves(L, D, "read", todo', nest', open', todo, nest, open, Empty)
    BY <1>1, Zenon
<1> QED BY <1>1, <1>2, StillFaithful

LEMMA ProgramCalls ==
    /\ Step("peek") \in Tasks /\ Step("peek").do \in Padding
    /\ Step("walk") \in Tasks /\ Step("walk").do = "walk"
    /\ Step("skip") \in Tasks /\ Step("skip").do = "skip"
    /\ Step("note") \in Tasks /\ Idler(Step("note"))
    /\ Step("returned") \in Tasks /\ Step("returned").do = "returned"
    /\ \A e \in Envelope : Task("store", e) \in Tasks /\ Idler(Task("store", e))
<1>1. /\ "peek" \in Steps /\ "walk" \in Steps /\ "skip" \in Steps /\ "note" \in Steps
      /\ "returned" \in Steps /\ "store" \in Steps /\ "none" \in Subjects
      /\ \A e \in Envelope : e \in Subjects
    BY Words, Zenon DEF Steps
<1>2. /\ \A t : t.do = "note" \/ t.do = "store" => Idler(t)
      /\ "peek" \in Padding
    BY Zenon DEF Idler, Readers, Nesters, Padding
<1>3. \A do \in Steps : Step(do) \in Tasks /\ Step(do).do = do
    BY <1>1, IsTask
<1>4. \A e \in Envelope : Task("store", e) \in Tasks /\ Task("store", e).do = "store"
    BY <1>1, IsTask, Zenon
<1> QED BY <1>1, <1>2, <1>3, <1>4, Zenon

LEMMA MemberFaithful ==
    ASSUME StreamInv, EnvelopeMember, ~ Leaves, NEW L \in Families, NEW D,
           Faithful(L, D, todo, nest, open, Read)
    PROVE  Faithful(L, D, todo', nest', open', Read')
<1> DEFINE t == Head(todo)  p == Step("peek")  k == Step("skip")  g == Step("walk")
           n(e) == Task("store", e)  K == KeepValue("member")
<1>1. /\ todo = Push(t, Rest) /\ t \in Tasks /\ Rest \in Seq(Tasks) /\ t.do = "yield"
      /\ nest \in Seq(Openers) /\ open \in Int
    BY Begun, Zenon DEF EnvelopeMember, Doing, StreamInv, StackOK
<1>2. /\ p \in Tasks /\ p.do \in Padding /\ k \in Tasks /\ k.do = "skip" /\ g \in Tasks /\ g.do = "walk"
      /\ \A e \in Envelope : n(e) \in Tasks /\ Idler(n(e))
    BY ProgramCalls, Zenon
<1>3. \/ Proceed(<<p, g>> \o Rest) \/ Proceed(<<k>> \o Rest)
      \/ \E e \in Envelope : Proceed(K \o <<n(e)>> \o Rest)
    BY Zenon DEF EnvelopeMember, Refuse
<1>4. K \in Seq(Tasks) /\ "member" \in {"member", "result"}
  <2>1. K \in Seq(Ordinary)
      BY AllOrdinary, Zenon
  <2> QED BY <2>1, SeqMonotonic, Zenon DEF Ordinary, Later
<1> HIDE DEF t, p, k, g, n
<1>5. CASE Proceed(<<p, g>> \o Rest)
  <2>1. <<p, g>> \o Rest = Push(p, Push(g, Rest))
      BY <1>1, <1>2, Several
  <2>2. Serves(L, D, "read", Push(p, Push(g, Rest)), nest, open, Push(t, Rest), nest, open, Empty)
    <3>1. t.do \in {"yield", "walk"} /\ g.do \in {"skip", "walk"}
        BY <1>1, <1>2, Zenon
    <3> QED BY <1>1, <1>2, <3>1, ValueServes
  <2> QED BY <1>1, <1>5, <2>1, <2>2, ProceedFaithful, Zenon
<1>6. CASE Proceed(<<k>> \o Rest)
  <2>1. Serves(L, D, "read", Push(k, Rest), nest, open, Push(t, Rest), nest, open, Empty)
    <3>1. t.do \in {"yield", "walk"} /\ k.do \in {"skip", "walk"}
        BY <1>1, <1>2, Zenon
    <3> QED BY <1>1, <1>2, <3>1, ValueServes
  <2> QED BY <1>1, <1>6, <2>1, ProceedFaithful, Zenon DEF Push
<1>7. ASSUME NEW e \in Envelope, Proceed(K \o <<n(e)>> \o Rest)
      PROVE  Faithful(L, D, todo', nest', open', Read')
  <2> DEFINE N == n(e)
  <2>1. N \in Tasks /\ Idler(N)
      BY <1>2
  <2>2. Serves(L, D, "read", K \o Push(N, Rest), nest, open, Push(t, Rest), nest, open, Empty)
    <3>1. t.do \in {"yield", "walk"}
        BY <1>1, Zenon
    <3> QED BY <1>1, <1>4, <2>1, <3>1, KeptServes, Zenon
  <2>3. Proceed(K \o <<N>> \o Rest)
      BY <1>7
  <2> HIDE DEF N, K
  <2>4. K \o <<N>> \o Rest = K \o Push(N, Rest)
      BY <1>1, <1>4, <2>1, SMT DEF Push
  <2> QED BY <1>1, <2>2, <2>3, <2>4, ProceedFaithful, Zenon
<1> QED BY <1>3, <1>5, <1>6, <1>7, Zenon

LEMMA PopFaithful ==
    ASSUME StreamInv, NEW L \in Families, NEW D, Proceed(Rest), todo # <<>>,
           Idler(Head(todo)) \/ (Head(todo).do = "returned" /\ open \in D),
           Faithful(L, D, todo, nest, open, Read)
    PROVE  Faithful(L, D, todo', nest', open', Read')
<1>1. todo' = Rest /\ UNCHANGED <<text, fetched, offset, pos, nest, open>>
    BY Zenon DEF Proceed
<1>2. Continues(L, D)
    BY <1>1, PopContinues
<1> QED BY <1>2, Carry

(* Nothing is completed behind a walk that may not return.                 *)
LEMMA NoReturn ==
    ASSUME NEW L, NEW D, NEW s \in Seq(Tasks), NEW t \in Tasks, t.do = "returned",
           NEW ns \in Seq(Openers), NEW o \in Int, o \notin D
    PROVE  /\ \A w \in Texts : ~ Completes(L, D, Push(t, s), "read", Conf(ns, o, w))
           /\ \A w \in Texts :
                ~ Completes(L, D, KeepValue("result") \o Push(t, s), "read", Conf(ns, o, w))
<1> DEFINE stop == "read"  k == Task("keep", "result")  v == Step("skip")  n == Step("take")
<1>1. /\ k \in Tasks /\ v \in Tasks /\ n \in Tasks
      /\ k.do # stop /\ v.do # stop /\ n.do # stop /\ t.do # stop
      /\ k.do # "more" /\ v.do # "more" /\ n.do # "more"
  <2>1. /\ "keep" \in Steps /\ "skip" \in Steps /\ "take" \in Steps
        /\ "result" \in Subjects /\ "none" \in Subjects
      BY Words, Zenon DEF Steps
  <2> QED BY <2>1, IsTask, Zenon
<1>2. KeepValue("result") \o Push(t, s) = Push(k, Push(v, Push(n, Push(t, s))))
  <2>1. KeepValue("result") = <<k, v, n>>
      BY Zenon DEF KeepValue
  <2>2. Push(t, s) \in Seq(Tasks)
      BY Pushing
  <2> DEFINE u == Push(t, s)
  <2> HIDE DEF k, v, n, u
  <2>3. Push(k, Push(v, Push(n, u))) = <<k, v, n>> \o u
      BY <1>1, <2>2, Three DEF u
  <2> QED BY <2>1, <2>3, Zenon DEF u
<1> HIDE DEF stop, k, v, n
<1>3. /\ Push(t, s) \in Seq(Tasks) /\ Push(n, Push(t, s)) \in Seq(Tasks)
      /\ Push(v, Push(n, Push(t, s))) \in Seq(Tasks)
    BY <1>1, Pushing
<1>4. ASSUME NEW ms \in Seq(Openers), NEW w \in Texts,
             Completes(L, D, Push(t, s), stop, Conf(ms, o, w))
      PROVE  FALSE
    BY <1>1, <1>4, Peel
<1>5. ASSUME NEW w \in Texts,
             Completes(L, D, Push(k, Push(v, Push(n, Push(t, s)))), stop, Conf(ns, o, w))
      PROVE  FALSE
  <2>1. \A x \in Tasks, ms \in Seq(Openers) :
            x.do # "more" => Outer(x, ms) \in Seq(Openers) /\ Opened(x, o) = o
      BY Confsare, Zenon DEF Opened
  <2>2. \E a \in Texts, b \in Texts :
            Completes(L, D, Push(v, Push(n, Push(t, s))), stop, Conf(Outer(k, ns), Opened(k, o), b))
      BY <1>1, <1>3, <1>5, Peel
  <2>3. PICK b \in Texts, ms \in Seq(Openers) :
            Completes(L, D, Push(v, Push(n, Push(t, s))), stop, Conf(ms, o, b))
      BY <1>1, <2>1, <2>2
  <2>4. \E a \in Texts, c \in Texts :
            Completes(L, D, Push(n, Push(t, s)), stop, Conf(Outer(v, ms), Opened(v, o), c))
      BY <1>1, <1>3, <2>3, Peel
  <2>5. PICK c \in Texts, ls \in Seq(Openers) :
            Completes(L, D, Push(n, Push(t, s)), stop, Conf(ls, o, c))
      BY <1>1, <2>1, <2>4
  <2>6. \E a \in Texts, d \in Texts :
            Completes(L, D, Push(t, s), stop, Conf(Outer(n, ls), Opened(n, o), d))
      BY <1>1, <1>3, <2>5, Peel
  <2>7. PICK d \in Texts, ks \in Seq(Openers) : Completes(L, D, Push(t, s), stop, Conf(ks, o, d))
      BY <1>1, <2>1, <2>6
  <2> QED BY <1>4, <2>7
<1> QED BY <1>2, <1>4, <1>5, Zenon DEF stop

LEMMA EndFaithful ==
    ASSUME StreamInv, EndWalk, ~ Leaves, NothingRead, NEW L \in Families, NEW D, D = Deep,
           Faithful(L, D, todo, nest, open, Read)
    PROVE  Faithful(L, D, todo', nest', open', Read')
<1>1. todo # <<>> /\ Head(todo).do = "returned" /\ Proceed(Rest) /\ ReadWhole
    BY Zenon DEF EndWalk, Refuse, Doing
<1>2. Walking
  <2>1. 1 \in DOMAIN todo /\ todo[1] = Head(todo)
      BY <1>1, TodoTyped, SMT
  <2> QED BY <1>1, <2>1, Zenon DEF Walking
<1>3. scenario.walk # "nothing"
    BY <1>1, <1>2, Zenon DEF NothingRead, ReadWhole
<1>4. open \in D
    BY <1>1, <1>3, Zenon DEF Deep, ReadWhole
<1> QED BY <1>1, <1>4, PopFaithful

LEMMA SuffixFrom ==
    ASSUME NEW S, NEW s \in Seq(S), NEW i \in DOMAIN s
    PROVE  /\ s[i] \in S /\ SubSeq(s, i + 1, Len(s)) \in Seq(S)
           /\ SubSeq(s, i, Len(s)) = <<s[i]>> \o SubSeq(s, i + 1, Len(s))
<1>1. s[i] \in S /\ SubSeq(s, i + 1, Len(s)) \in Seq(S)
    BY SMT
<1>2. i \in Nat /\ i >= 1 /\ i <= Len(s) /\ Len(s) \in Nat
    BY SMT
<1>3. ASSUME NEW j \in Nat, j + 1 <= Len(s), Len(s) \in Nat
      PROVE  /\ SubSeq(s, j + 1, Len(s)) = SubSeq(s, j + 1, j + 1) \o SubSeq(s, j + 2, Len(s))
             /\ SubSeq(s, j + 1, j + 1) \in Seq(S) /\ Len(SubSeq(s, j + 1, j + 1)) = 1
             /\ SubSeq(s, j + 1, j + 1)[1] = s[j + 1]
  <2>1. SubSeq(s, j + 1, j + 1) \in Seq(S) /\ Len(SubSeq(s, j + 1, j + 1)) = 1
      BY <1>3, SMT
  <2>2. SubSeq(s, j + 1, j + 1)[1] = s[j + 1]
      BY <1>3, SMT
  <2>3. SubSeq(s, j + 1, Len(s)) = SubSeq(s, j + 1, j + 1) \o SubSeq(s, j + 2, Len(s))
      BY <1>3, SMT
  <2> QED BY <2>1, <2>2, <2>3
<1>4. ASSUME NEW j \in Nat, j + 1 <= Len(s), Len(s) \in Nat
      PROVE  SubSeq(s, j + 1, Len(s)) = <<s[j + 1]>> \o SubSeq(s, j + 2, Len(s))
  <2>1. SubSeq(s, j + 1, j + 1) = <<s[j + 1]>>
      BY <1>3, <1>4, OneLong, Zenon
  <2> QED BY <1>3, <1>4, <2>1, Zenon
<1> DEFINE j == i - 1
<1>5. j \in Nat /\ j + 1 = i /\ j + 2 = i + 1
    BY <1>2, SMT
<1> HIDE DEF j
<1>6. SubSeq(s, j + 1, Len(s)) = <<s[j + 1]>> \o SubSeq(s, j + 2, Len(s))
    BY <1>2, <1>4, <1>5
<1> QED BY <1>1, <1>5, <1>6, Zenon

LEMMA WalkFaithful ==
    ASSUME StreamInv, WalkMember, scenario.walk \in OneByOne, FirstRead,
           NEW L \in Families, NEW D, D = Deep,
           Faithful(L, D, todo, nest, open, Read)
    PROVE  Faithful(L, D, todo', nest', open', Read')
<1> DEFINE t == Head(todo)  n == Step("note")  K == KeepValue("result")
           F == scenario.walk \in {"first member", "first item"}
<1>1. /\ todo = Push(t, Rest) /\ t \in Tasks /\ Rest \in Seq(Tasks) /\ t.do = "yield"
      /\ nest \in Seq(Openers) /\ open \in Int /\ Walking /\ todo \in Seq(Tasks) /\ todo # <<>>
    BY Begun, TodoTyped, Zenon DEF WalkMember, Doing, StreamInv, StackOK
<1>2. K \in Seq(Tasks)
  <2>1. K \in Seq(Ordinary)
      BY AllOrdinary, Zenon
  <2> QED BY <2>1, SeqMonotonic, Zenon DEF Ordinary, Later
<1>3. n \in Tasks /\ Idler(n)
    BY ProgramCalls
<1>4. \/ F /\ \E i \in DOMAIN todo : Returns(i) /\ Proceed(K \o SubSeq(todo, i, Len(todo)))
      \/ Proceed(K \o <<n>> \o Rest)
    BY Zenon DEF WalkMember, OneByOne
<1>5. CASE Proceed(K \o <<n>> \o Rest)
  <2>1. Serves(L, D, "read", K \o Push(n, Rest), nest, open, Push(t, Rest), nest, open, Empty)
    <3>1. t.do \in {"yield", "walk"} /\ "result" \in {"member", "result"}
        BY <1>1, Zenon
    <3> QED BY <1>1, <1>3, <3>1, KeptServes, Zenon
  <2> HIDE DEF K, n, t
  <2>2. K \o <<n>> \o Rest = K \o Push(n, Rest)
      BY <1>1, <1>2, <1>3, SMT DEF Push
  <2> QED BY <1>1, <1>5, <2>1, <2>2, ProceedFaithful, Zenon
<1>6. ASSUME F, NEW i \in DOMAIN todo, Returns(i), Proceed(K \o SubSeq(todo, i, Len(todo)))
      PROVE  Faithful(L, D, todo', nest', open', Read')
  <2>1. open = depth + 1
    <3>1. Leading(todo, Outside, Finishing) => Head(todo).do \in Outside
        BY <1>1, LeadPop, Zenon DEF Finishing
    <3> QED BY <1>1, <1>6, <3>1, Zenon DEF FirstRead, Outside
  <2>2. open \notin D
    <3>1. open # depth
        BY <1>1, <2>1, SMT
    <3> QED BY <3>1, Zenon DEF Deep
  <2> DEFINE r == todo[i]  s == SubSeq(todo, i + 1, Len(todo))
  <2>3. /\ r \in Tasks /\ s \in Seq(Tasks) /\ SubSeq(todo, i, Len(todo)) = <<r>> \o s
    <3>1. todo \in Seq(Tasks) /\ i \in DOMAIN todo
        BY <1>1
    <3> QED BY <3>1, SuffixFrom
  <2>4. r.do = "returned"
      BY <1>6, Zenon DEF Returns
  <2>5. todo' = K \o Push(r, s) /\ nest' = nest /\ open' = open
      BY <1>6, <2>3, Zenon DEF Proceed, Push
  <2> HIDE DEF r, s
  <2>6. \A w \in Texts : ~ Completes(L, D, K \o Push(r, s), "read", Conf(nest, open, w))
      BY <1>1, <2>2, <2>3, <2>4, NoReturn, Zenon
  <2> QED BY <2>5, <2>6, Zenon DEF Faithful
<1> QED BY <1>4, <1>5, <1>6, Zenon

LEMMA BeginFaithful ==
    ASSUME StreamInv, Order(todo), NestOK, BeginWalk, scenario.walk \in OneByOne,
           NEW L \in Families, NEW D, D = Deep', NEW E,
           Faithful(L, E, todo, nest, open, Read)
    PROVE  Faithful(L, D, todo', nest', open', Read')
<1> DEFINE t == Head(todo)  r == Step("returned")  n == Step("note")  k == Step("skip")
           W == scenario.walk  T == TasksOf(W)
<1>1. /\ todo = Push(t, Rest) /\ t \in Tasks /\ Rest \in Seq(Tasks) /\ t.do = "walk" /\ todo # <<>>
      /\ nest \in Seq(Openers) /\ open \in Int /\ Proceed(T \o <<r>> \o Rest)
    BY Begun, Zenon DEF BeginWalk, Doing, StreamInv, StackOK
<1>2. /\ r \in Tasks /\ r.do = "returned" /\ n \in Tasks /\ Idler(n) /\ k \in Tasks /\ k.do = "skip"
    BY ProgramCalls
<1>3. nest = <<>>
  <2>1. Head(todo).do \notin KeptSteps
      BY <1>1, Zenon DEF KeptSteps, TokenSteps, ValueSteps
  <2> QED BY <1>1, <2>1, NestHeld
<1>4. Faithful(L, D, todo, nest, open, Read)
  <2>1. Lacks(todo, "returned")
      BY <1>1, NotThen, WalkingIs, Zenon
  <2>2. todo \in Seq(Tasks)
      BY TodoTyped
  <2>3. \A w \in Texts : Completes(L, D, todo, "read", Conf(nest, open, w))
                         => Completes(L, E, todo, "read", Conf(nest, open, w))
      BY <2>1, <2>2, NoMatter
  <2> QED BY <2>3, Zenon DEF Faithful
<1>5. /\ W = "nothing" /\ open \notin D
      \/ W \in {"skip", "value", "members", "items", "first member", "first item"}
  <2>1. D = IF W = "nothing" THEN {} ELSE {open}
      BY Zenon DEF Deep, BeginWalk
  <2> QED BY <2>1, Zenon DEF OneByOne, Walks
<1>6. /\ W = "nothing" => T = <<>>
      /\ W = "skip" => T = <<k>>
      /\ W = "value" => T = KeepValue("result") \o <<n>>
      /\ W \in {"members", "items", "first member", "first item"}
         => \E c \in Openers : T = Generator(c)
  <2>1. /\ W = "nothing" => T = <<>>
        /\ W = "skip" => T = <<k>>
        /\ W = "value" => T = KeepValue("result") \o <<n>>
      BY Zenon DEF TasksOf
  <2>2. /\ W \in {"members", "first member"} => T = Generator("{")
        /\ W \in {"items", "first item"} => T = Generator("[")
      BY Zenon DEF TasksOf
  <2> QED BY <2>1, <2>2, Zenon DEF Openers
<1> DEFINE R == Push(r, Rest)  K == KeepValue("result")
<1>7. R \in Seq(Tasks) /\ K \in Seq(Tasks)
  <2>1. K \in Seq(Ordinary)
      BY AllOrdinary, Zenon
  <2>2. K \in Seq(Tasks)
      BY <2>1, SeqMonotonic, Zenon DEF Ordinary, Later
  <2> QED BY <1>1, <1>2, <2>2, Pushing
<1>8. /\ T = <<>> => T \o <<r>> \o Rest = R
      /\ T = <<k>> => T \o <<r>> \o Rest = Push(k, R)
      /\ T = K \o <<n>> => T \o <<r>> \o Rest = K \o Push(n, R)
      /\ \A c \in Openers : T = Generator(c) => T \o <<r>> \o Rest = Generator(c) \o R
  <2>1. ASSUME NEW p \in Seq(Tasks) PROVE p \o <<r>> \o Rest = p \o R
    <3>1. r \in Tasks /\ Rest \in Seq(Tasks)
        BY <1>1, <1>2
    <3> HIDE DEF r
    <3> QED BY <2>1, <3>1, SMT DEF Push
  <2>2. <<k>> \o R = Push(k, R) /\ <<>> \o R = R /\ <<k>> \in Seq(Tasks) /\ <<>> \in Seq(Tasks)
    <3> HIDE DEF k, R
    <3> QED BY <1>2, <1>7, SMT DEF Push
  <2>3. (K \o <<n>>) \o R = K \o Push(n, R) /\ K \o <<n>> \in Seq(Tasks)
    <3> HIDE DEF n, R, K
    <3> QED BY <1>2, <1>7, SMT DEF Push
  <2>4. \A c \in Openers : Generator(c) \in Seq(Tasks)
    <3>1. \A c \in Openers : Generator(c) \in Seq(Ordinary)
        BY AllOrdinary, Words, Zenon
    <3> QED BY <3>1, SeqMonotonic, Zenon DEF Ordinary, Later
  <2> HIDE DEF T, R, K, r, k, n
  <2> QED BY <2>1, <2>2, <2>3, <2>4, Zenon
<1> DEFINE S(q) == Serves(L, D, "read", q, nest, open, Push(t, Rest), nest, open, Empty)
           B(q) == Serves(L, D, "read", q, nest, open, Push(t, R), nest, open, Empty)
<1>9. /\ Idler(r) \/ r.do = "returned"
      /\ t.do # "read" /\ t.do \in {"yield", "walk"} /\ k.do # "read" /\ k.do \in {"skip", "walk"}
      /\ "result" \in {"member", "result"}
    BY <1>1, <1>2, Zenon
<1>10. S(Push(t, R))
  <2> HIDE DEF t, r
  <2> QED BY <1>1, <1>2, <1>9, IdleBehind, Zenon
<1>11. \A q : B(q) => S(q)
  <2> SUFFICES ASSUME NEW q, B(q) PROVE S(q)
      OBVIOUS
  <2> HIDE DEF t, R
  <2>1. Serves(L, D, "read", q, nest, open, Push(t, Rest), nest, open, Empty ++ Empty)
      BY <1>10, Joins, ServesBehind, Zenon
  <2>2. Empty ++ Empty = Empty
      BY Joins
  <2> QED BY <2>1, <2>2, Zenon
<1>12. \A q : S(q) /\ T \o <<r>> \o Rest = q => Faithful(L, D, todo', nest', open', Read')
  <2> HIDE DEF t, r, T
  <2> QED BY <1>1, <1>4, ProceedFaithful, Zenon
<1>13. CASE W = "nothing" /\ open \notin D
  <2>1. todo' = R /\ nest' = nest /\ open' = open
    <3> HIDE DEF R, r, T
    <3> QED BY <1>1, <1>6, <1>8, <1>13, Zenon DEF Proceed
  <2> HIDE DEF r
  <2>2. \A w \in Texts : ~ Completes(L, D, R, "read", Conf(nest, open, w))
      BY <1>1, <1>2, <1>13, NoReturn, Zenon
  <2> QED BY <2>1, <2>2, Zenon DEF Faithful
<1>14. CASE W = "skip"
  <2>1. S(Push(k, Rest))
    <3> HIDE DEF t, k
    <3>1. Step("peek") \in Tasks /\ Step("peek").do \in Padding
        BY ProgramCalls, Zenon
    <3> QED BY <1>1, <1>2, <1>9, <3>1, ValueServes, Zenon
  <2>2. Serves(L, D, "read", Push(k, R), nest, open, Push(k, Rest), nest, open, Empty)
    <3> HIDE DEF k, r
    <3> QED BY <1>1, <1>2, <1>9, IdleBehind, Zenon
  <2>3. S(Push(k, R))
    <3> HIDE DEF k, R, t
    <3>1. Serves(L, D, "read", Push(k, R), nest, open, Push(t, Rest), nest, open, Empty ++ Empty)
        BY <2>1, <2>2, Joins, ServesBehind, Zenon
    <3>2. Empty ++ Empty = Empty
        BY Joins
    <3> QED BY <3>1, <3>2, Zenon
  <2> HIDE DEF S, R, k, r, T
  <2> QED BY <1>6, <1>8, <1>12, <1>14, <2>3, Zenon
<1>15. CASE W = "value"
  <2>1. B(K \o Push(n, R))
    <3> HIDE DEF t, n, R
    <3> QED BY <1>1, <1>2, <1>7, <1>9, KeptServes, Zenon
  <2> HIDE DEF S, B, R, k, r, n, K, T
  <2>2. S(K \o Push(n, R))
      BY <1>11, <2>1, Zenon
  <2> QED BY <1>6, <1>8, <1>12, <1>15, <2>2, Zenon DEF K
<1>16. CASE W \in {"members", "items", "first member", "first item"}
  <2>1. PICK c \in Openers : T = Generator(c)
      BY <1>6, <1>16, Zenon
  <2>2. Serves(L, D, "read", Generator(c) \o R, <<>>, open, Push(t, R), <<>>, open, Empty)
    <3> HIDE DEF t, R
    <3> QED BY <1>1, <1>7, GeneratorServes, Zenon
  <2>3. B(Generator(c) \o R)
    <3> HIDE DEF t, R
    <3> QED BY <1>3, <2>2, Zenon
  <2> HIDE DEF S, B, R, r, T
  <2>4. S(Generator(c) \o R)
      BY <1>11, <2>3, Zenon
  <2> QED BY <1>8, <1>12, <2>1, <2>4, Zenon
<1> HIDE DEF W
<1> QED BY <1>5, <1>13, <1>14, <1>15, <1>16, Zenon

-----------------------------------------------------------------------------
(* Whatever was read, and completes what the stack still has to read, is   *)
(* json; and so is all that was read where an answer is told.              *)
Told == outcome.kind \in {"result", "rpc"}
Documents ==
    \A L \in Families :
        /\ Faithful(L, Deep, todo, nest, open, Read)
        /\ Told => Read \in Elem(L)
DocumentInv ==
    scenario.status = "ok" =>
        NestOK /\ (scenario.walk \in OneByOne => WalksOK /\ Documents)

LEMMA NotAnswered ==
    /\ FetchError.kind \notin {"result", "rpc"} /\ None.kind \notin {"result", "rpc"}
    /\ WalkInv /\ todo # <<>> => ~ Told
<1>1. FetchError.kind \notin {"result", "rpc"} /\ None.kind \notin {"result", "rpc"}
    BY SMT DEF FetchError, None
<1> QED BY <1>1, Zenon DEF WalkInv, Told

LEMMA TwoCalls ==
    ASSUME NEW a \in Tasks, NEW b \in Tasks PROVE <<a, b>> \in Seq(Tasks)
BY SMT

LEMMA DocumentRead ==
    ASSUME NEW L \in Families, NEW D, NEW stop, NEW o \in Openers,
           NEW a \in Tasks, NEW f \in Tasks, NEW e \in Tasks, NEW r \in Tasks,
           a.do = "expect", a.of = o, f.do = "first", f.of = o, e.do = "end", r.do = stop,
           a.do # stop, f.do # stop, e.do # stop,
           NEW none \in Seq(Openers), NEW rest \in Seq(Tasks), none = <<>>, NEW w \in Texts,
           Completes(L, D, Push(a, Push(f, Push(e, Push(r, rest)))), stop, Conf(none, 0, w))
    PROVE  w \in Elem(L)
<1> DEFINE R == Push(r, rest)  E == Push(e, R)  F == Push(f, E)
<1>1. R \in Seq(Tasks) /\ E \in Seq(Tasks) /\ F \in Seq(Tasks)
    BY Pushing
<1>2. Completes(L, D, Push(a, F), stop, Conf(none, 0, w)) /\ r.do = stop /\ 0 \in Int
    OBVIOUS
<1>3. \A t : t.do = "expect" \/ t.do = "first" \/ t.do = "end" => t.do \notin Nesters /\ t.do # "more"
    BY Zenon DEF Nesters
<1>4. \A t : t.do = "expect" \/ t.do = "first" \/ t.do = "end"
             => Outer(t, none) = none /\ Opened(t, 0) = 0
    BY <1>3, Zenon DEF Outer, Opened
<1>5. /\ Outer(a, none) = none /\ Opened(a, 0) = 0 /\ Outer(f, none) = none /\ Opened(f, 0) = 0
      /\ Outer(e, none) = none /\ Opened(e, 0) = 0
    BY <1>4, Zenon
<1>6. e.do \in Padding
    BY Zenon DEF Padding
<1> HIDE DEF R, E, F
<1>7. \E u, v \in Texts :
          w = u ++ v /\ May(L, a, none, u) /\ Completes(L, D, F, stop, Conf(none, 0, v))
  <2>1. 0 \in Int
      OBVIOUS
  <2>2. \E u, v \in Texts :
          w = u ++ v /\ May(L, a, none, u)
          /\ Completes(L, D, F, stop, Conf(Outer(a, none), Opened(a, 0), v))
      BY <1>1, <1>2, <2>1, Peel
  <2> QED BY <1>5, <2>2, Zenon
<1>8. PICK u \in Texts, v \in Texts :
          w = u ++ v /\ May(L, a, none, u) /\ Completes(L, D, F, stop, Conf(none, 0, v))
    BY <1>7
<1>9. \E y, z \in Texts :
          v = y ++ z /\ May(L, f, none, y) /\ Completes(L, D, E, stop, Conf(none, 0, z))
  <2>1. 0 \in Int
      OBVIOUS
  <2>3. Completes(L, D, Push(f, E), stop, Conf(none, 0, v))
      BY <1>8, Zenon DEF F
  <2>2. \E y, z \in Texts :
          v = y ++ z /\ May(L, f, none, y)
          /\ Completes(L, D, E, stop, Conf(Outer(f, none), Opened(f, 0), z))
      BY ONLY f \in Tasks, f.do # stop, none \in Seq(Openers), v \in Texts, <1>1, <2>1, <2>3, Peel
  <2> QED BY <1>5, <2>2, Zenon
<1>10. PICK y \in Texts, z \in Texts :
          v = y ++ z /\ May(L, f, none, y) /\ Completes(L, D, E, stop, Conf(none, 0, z))
    BY <1>9
<1>11. \E b, c \in Texts :
          z = b ++ c /\ May(L, e, none, b) /\ Completes(L, D, R, stop, Conf(none, 0, c))
  <2>1. 0 \in Int
      OBVIOUS
  <2>3. Completes(L, D, Push(e, R), stop, Conf(none, 0, z))
      BY <1>10, Zenon DEF E
  <2>2. \E b, c \in Texts :
          z = b ++ c /\ May(L, e, none, b)
          /\ Completes(L, D, R, stop, Conf(Outer(e, none), Opened(e, 0), c))
      BY ONLY e \in Tasks, e.do # stop, none \in Seq(Openers), z \in Texts, <1>1, <2>1, <2>3, Peel
  <2> QED BY <1>5, <2>2, Zenon
<1>12. PICK b \in Texts, c \in Texts :
          z = b ++ c /\ May(L, e, none, b) /\ Completes(L, D, R, stop, Conf(none, 0, c))
    BY <1>11
<1>13. c = Empty
  <2>1. 0 \in Int
      OBVIOUS
  <2>2. Conf(none, 0, c) \in Confs /\ Conf(none, 0, c).left = c
      BY ONLY none \in Seq(Openers), c \in Texts, <2>1, IsConf
  <2>3. Conf(none, 0, c).left = Empty
      BY <1>2, <1>1, <1>12, <2>2, CompletesPush DEF R
  <2> QED BY <2>2, <2>3, Zenon
<1>14. b \in Blanks /\ z = b
  <2>1. b ++ Empty = b
      BY Joins
  <2>2. b \in Blanks
      BY <1>6, <1>12, MayPad
  <2> QED BY <1>12, <1>13, <2>1, <2>2, Zenon
<1>15. Open(o) ++ y \in Val(L)
  <2>1. y \in Inner(L, o)
      BY <1>2, <1>10, MayFirst, Zenon
  <2> QED BY <2>1, InnerContainer
<1>16. PICK s \in Blanks : u = s ++ One(o)
  <2>1. \E s \in Blanks : u = s ++ One(a.of)
      BY ONLY a.do = "expect", <1>8, MayExpect
  <2> QED BY <1>2, <2>1, Zenon
<1>17. Open(o) = One(o) /\ Open(o) \in Texts /\ s \in Texts
    BY Marked, Blank, Zenon DEF Open, Openers
<1>18. (s ++ Open(o)) ++ (y ++ b) = s ++ ((Open(o) ++ y) ++ b)
  <2>1. (s ++ Open(o)) ++ (y ++ b) = s ++ (Open(o) ++ (y ++ b)) /\ y ++ b \in Texts
      BY <1>17, Joins, SMT
  <2>2. Open(o) ++ (y ++ b) = (Open(o) ++ y) ++ b
      BY <1>17, Joins, SMT
  <2> QED BY <2>1, <2>2, Zenon
<1>19. s ++ ((Open(o) ++ y) ++ b) \in Elem(L)
    BY <1>14, <1>15, Rules
<1> QED BY <1>8, <1>10, <1>14, <1>16, <1>17, <1>18, <1>19, Zenon

LEMMA StartDocuments ==
    ASSUME Init, scenario.status = "ok"
    PROVE  NestOK /\ WalksOK /\ Documents
<1>1. /\ todo = Generator("{") \o <<Step("end"), Step("read")>> /\ nest = <<>> /\ open = 0
      /\ outcome = None /\ offset = 0 /\ pos = 0 /\ text \in Texts
  <2>1. /\ todo = Generator("{") \o <<Step("end"), Step("read")>> /\ nest = <<>> /\ open = 0
        /\ outcome = None /\ offset = 0 /\ pos = 0
      BY Zenon DEF Init, StreamInit
  <2>2. StreamInv
      BY Initially, Zenon DEF IndInv
  <2> QED BY <2>1, <2>2, Spots, Zenon
<1> DEFINE o == "{"  stop == "read"
           a == Task("expect", o)  f == Task("first", o)  e == Step("end")  r == Step("read")
           G == Generator(o)
<1>2. /\ a \in Tasks /\ f \in Tasks /\ e \in Tasks /\ r \in Tasks /\ o \in Openers
      /\ a.do = "expect" /\ f.do = "first" /\ e.do = "end" /\ r.do = stop
      /\ a.of = o /\ f.of = o
      /\ a.do # stop /\ f.do # stop /\ e.do # stop
  <2>1. /\ "expect" \in Steps /\ "first" \in Steps /\ "end" \in Steps /\ "read" \in Steps
        /\ "none" \in Subjects /\ o \in Openers /\ o \in Subjects
      BY Words, Zenon DEF Steps, Openers
  <2> QED BY <2>1, IsTask, Zenon
<1>3. todo = Push(a, Push(f, Push(e, Push(r, <<>>)))) /\ todo = G \o <<e, r>>
  <2>1. \A s \in Seq(Tasks) : s \o <<>> = s
      BY SMT
  <2>2. <<e, r>> \in Seq(Tasks) /\ <<>> \in Seq(Tasks) /\ todo = G \o <<e, r>>
    <3>1. todo = G \o <<e, r>>
        BY <1>1, Zenon
    <3> HIDE DEF e, r, G
    <3> QED BY <1>2, <3>1, TwoCalls, EmptySeq, Zenon
  <2>3. Push(e, Push(r, <<>>)) = <<e, r>>
    <3> HIDE DEF e, r
    <3> QED BY <1>2, <2>1, <2>2, Several, Zenon
  <2>4. G \o <<e, r>> = Push(a, Push(f, <<e, r>>))
    <3>1. o \in Subjects
        BY Words, Zenon DEF Openers
    <3> HIDE DEF e, r, o
    <3> QED BY <2>2, <3>1, EntryCalls, Zenon
  <2> HIDE DEF a, f, e, r, G
  <2> QED BY <2>2, <2>3, <2>4, Zenon
<1>4. Read = Empty
  <2>0. 0 + 0 = 0
      BY ONLY SMT
  <2>1. At = 0
      BY <1>1, <2>0, Zenon DEF At
  <2>2. SubSeq(text, 1, 0) = <<>>
      BY SMT
  <2> QED BY <2>1, <2>2, Zenon DEF Read, Empty
<1>5. ASSUME NEW d, d \in {"caught", "returned"} PROVE Lacks(todo, d)
  <2>1. G \in Seq(Harmless)
      BY AllOrdinary, HarmlessCalls, Words, Zenon DEF Openers
  <2>2. d \in Special /\ e.do # d /\ r.do # d
      BY <1>2, <1>5, Zenon DEF Special
  <2>4. todo = G \o <<e, r>>
      BY <1>3, Zenon
  <2> HIDE DEF e, r, G
  <2>3. G \in Seq(Tasks) /\ Lacks(G, d)
      BY <2>1, <2>2, LacksAll, Zenon
  <2>5. <<e, r>> \in Seq(Tasks) /\ Lacks(<<e, r>>, d)
      BY <1>2, <2>2, LacksTwo, Zenon
  <2>6. Lacks(G \o <<e, r>>, d)
      BY <2>3, <2>5, LacksAll
  <2> QED BY <2>4, <2>6, Zenon
<1>6. WalksOK /\ NestOK
  <2>1. Lacks(todo, "caught") /\ Lacks(todo, "returned")
      BY <1>5, Zenon
  <2> QED BY <1>1, <2>1, WalkingIs, Zenon DEF WalksOK, NothingRead, FirstRead, NestOK
<1> DEFINE none == <<>>
<1>7. ASSUME NEW L \in Families, NEW D, NEW w \in Texts,
             Completes(L, D, todo, stop, Conf(none, 0, w))
      PROVE  w \in Elem(L)
  <2>1. none \in Seq(Tasks) /\ none \in Seq(Openers) /\ none = <<>>
      BY EmptySeq
  <2> HIDE DEF none
  <2>2. Completes(L, D, Push(a, Push(f, Push(e, Push(r, none)))), stop, Conf(none, 0, w))
      BY <1>3, <1>7, Zenon DEF none
  <2> HIDE DEF a, f, e, r, stop, o
  <2> QED BY <1>2, <2>1, <2>2, DocumentRead
<1>8. Documents
  <2> SUFFICES ASSUME NEW L \in Families
               PROVE  Faithful(L, Deep, todo, nest, open, Read) /\ ~ Told
      BY Zenon DEF Documents
  <2>1. ~ Told
      BY <1>1, NotAnswered, Zenon DEF Told
  <2>2. \A w \in Texts : Empty ++ w = w
      BY Joins
  <2>3. PICK D : D = Deep
      OBVIOUS
  <2>4. \A w \in Texts : Completes(L, D, todo, stop, Conf(none, 0, w)) => w \in Elem(L)
      BY <1>7
  <2> QED BY <1>1, <1>4, <2>1, <2>2, <2>3, <2>4, Zenon DEF Faithful
<1> QED BY <1>6, <1>8

LEMMA NeverCompleted ==
    ASSUME NEW L, NEW D, NEW ns \in Seq(Openers), NEW o \in Int, NEW w \in Texts
    PROVE  /\ ~ Completes(L, D, <<Refused>>, "read", Conf(ns, o, w))
           /\ ~ Completes(L, D, <<>>, "read", Conf(ns, o, w))
<1> DEFINE stop == "read"  r == Refused
<1>1. r \in Tasks /\ r.do # stop
    BY IsTask, Zenon DEF Refused, Step, Task, Steps, Subjects, Openers, Tasks
<1>2. ~ Completes(L, D, <<>>, stop, Conf(ns, o, w))
    BY CompletesNothing
<1>3. Push(r, <<>>) = <<r>>
  <2> HIDE DEF r
  <2> QED BY <1>1, SMT DEF Push
<1>4. Conf(ns, o, w) \in Confs /\ \A a \in Confs : ~ Completes(L, D, <<>>, stop, a)
    BY IsConf, CompletesNothing
<1>5. <<>> \in Seq(Tasks)
    BY EmptySeq
<1> HIDE DEF r, stop
<1>6. ~ Completes(L, D, Push(r, <<>>), stop, Conf(ns, o, w))
    BY <1>1, <1>4, <1>5, CompletesPush
<1> QED BY <1>2, <1>3, <1>6, Zenon DEF r, stop

LEMMA FaithfulSteps ==
    ASSUME IndInv, WalkInv, EndInv, Singly, NestOK, WalksOK, [Next]_vars,
           NEW L \in Families, Faithful(L, Deep, todo, nest, open, Read)
    PROVE  Faithful(L, Deep', todo', nest', open', Read')
<1>1. /\ StreamInv /\ Order(todo) /\ scenario' = scenario /\ scenario.status = "ok"
      /\ scenario.walk \in OneByOne /\ Lacks(todo, "caught") /\ NothingRead /\ FirstRead
    BY ScenarioForever, Zenon DEF IndInv, WalkInv, Singly, WalksOK
<1>2. nest' \in Seq(Openers) /\ open' \in Int
  <2>1. StreamInv'
      BY Stays, Zenon DEF IndInv
  <2> QED BY <2>1, Zenon DEF StreamInv, StackOK
<1>3. PICK D : D = Deep
    OBVIOUS
<1>4. depth' = depth => Deep' = D
    BY <1>1, <1>3, Zenon DEF Deep
<1>5. Faithful(L, D, todo, nest, open, Read)
    BY <1>3, Zenon
<1>6. CASE todo' = <<Refused>> \/ todo' = <<>>
    BY <1>2, <1>6, NeverCompleted, Zenon DEF Faithful
<1>7. CASE Leaves \/ Tells
  <2>1. Leaves => todo' = <<Refused>>
      BY <1>1, LacksLeaves, Zenon DEF Special
  <2> QED BY <1>6, <1>7, <2>1, Zenon DEF Tells
<1>8. CASE Scan /\ ~ Leaves /\ UNCHANGED callVars
  <2>1. Continues(L, D)
      BY <1>1, <1>8, ScanContinues
  <2>2. Faithful(L, D, todo', nest', open', Read')
      BY <1>1, <1>5, <2>1, Carry
  <2> QED BY <1>4, <1>8, <2>2, Zenon DEF callVars
<1>9. CASE Quiet
  <2>1. Read' = Read /\ Deep' = D /\ todo' = todo /\ nest' = nest /\ open' = open
      BY <1>4, <1>9, Zenon DEF Quiet, Read
  <2> QED BY <1>5, <2>1, Zenon
<1>10. CASE Program /\ ~ Leaves
  <2>1. PICK E : E = Deep'
      OBVIOUS
  <2>2. CASE BeginWalk
    <3>1. Faithful(L, E, todo', nest', open', Read')
        BY <1>1, <1>5, <2>1, <2>2, BeginFaithful
    <3> QED BY <2>1, <3>1, Zenon
  <2>3. CASE EnvelopeMember
    <3>1. Faithful(L, D, todo', nest', open', Read')
        BY <1>1, <1>5, <1>10, <2>3, MemberFaithful
    <3> QED BY <1>4, <2>3, <3>1, Zenon DEF EnvelopeMember, callVars
  <2>4. CASE WalkMember
    <3>1. Faithful(L, D, todo', nest', open', Read')
        BY <1>1, <1>3, <1>5, <2>4, WalkFaithful
    <3> QED BY <1>4, <2>4, <3>1, Zenon DEF WalkMember
  <2>5. CASE EndWalk
    <3>1. Faithful(L, D, todo', nest', open', Read')
        BY <1>1, <1>3, <1>5, <1>10, <2>5, EndFaithful
    <3> QED BY <1>4, <2>5, <3>1, Zenon DEF EndWalk
  <2>6. CASE Store \/ Note
    <3>1. Head(todo).do = "store" \/ Head(todo).do = "note"
        BY <2>6, Zenon DEF Store, Note, Doing
    <3>2. Idler(Head(todo))
        BY <3>1, Zenon DEF Idler, Readers, Nesters, Padding
    <3>3. Proceed(Rest) /\ todo # <<>> /\ depth' = depth
        BY <2>6, Zenon DEF Store, Note, Doing
    <3>4. Faithful(L, D, todo', nest', open', Read')
        BY <1>1, <1>5, <3>2, <3>3, PopFaithful
    <3> QED BY <1>4, <3>3, <3>4, Zenon
  <2> QED BY <1>10, <2>2, <2>3, <2>4, <2>5, <2>6, Zenon DEF Program
<1> QED BY <1>1, <1>7, <1>8, <1>9, <1>10, EveryStep, Zenon

LEMMA ReadTold ==
    ASSUME StreamInv, Doing("read"), NEW L \in Families,
           Faithful(L, Deep, todo, nest, open, Read)
    PROVE  Read \in Elem(L)
<1> DEFINE stop == "read"  t == Head(todo)
<1>1. todo = Push(t, Rest) /\ t \in Tasks /\ Rest \in Seq(Tasks) /\ t.do = stop
    BY Begun, Zenon DEF Doing
<1>2. /\ nest \in Seq(Openers) /\ open \in Int /\ Empty \in Texts /\ Read \in Texts
      /\ Read ++ Empty = Read
    BY ReadOn, Joins, Zenon DEF StreamInv, StackOK
<1>3. Conf(nest, open, Empty) \in Confs /\ Conf(nest, open, Empty).left = Empty
    BY <1>2, IsConf
<1> HIDE DEF stop, t
<1>4. Completes(L, Deep, Push(t, Rest), stop, Conf(nest, open, Empty))
    BY <1>1, <1>3, CompletesPush
<1> QED BY <1>1, <1>2, <1>4, Zenon DEF Faithful, stop

LEMMA AnswersStay ==
    ASSUME IndInv, WalkInv, EndInv, Singly, [Next]_vars, Told',
           NEW L \in Families, Faithful(L, Deep, todo, nest, open, Read),
           Told => Read \in Elem(L)
    PROVE  Read' \in Elem(L)
<1>1. StreamInv /\ scenario.status = "ok"
    BY Zenon DEF IndInv, Singly
<1>2. CASE Quiet
  <2>1. Read' = Read /\ outcome' = outcome
      BY <1>2, Zenon DEF Quiet, Read
  <2> QED BY <2>1, Zenon DEF Told
<1>3. CASE Tells
  <2>1. Read' = Read
      BY <1>3, Zenon DEF Tells, Read, At
  <2>2. Doing("read")
      BY <1>3, NotAnswered, Zenon DEF Tells, Told
  <2> QED BY <1>1, <2>1, <2>2, ReadTold, Zenon
<1>4. CASE outcome' = outcome /\ todo # <<>>
    BY <1>4, NotAnswered, Zenon DEF Told
<1>5. CASE outcome' = outcome /\ Leaves
  <2>1. todo' # <<>> \/ todo # <<>>
    <3>1. todo' = <<Refused>> \/ todo # <<>>
      <4>1. ASSUME NEW i \in DOMAIN todo PROVE todo # <<>>
          BY <4>1, SMT
      <4> QED BY <1>5, <4>1, Zenon DEF Leaves
    <3>2. <<Refused>> # <<>>
        BY SMT
    <3> QED BY <3>1, <3>2, Zenon
  <2>2. WalkInv'
      BY WalkStays
  <2>3. outcome' = None \/ todo # <<>>
      BY <2>1, <2>2, Zenon DEF WalkInv
  <2> QED BY <1>4, <1>5, <2>3, NotAnswered, Zenon DEF Told
<1>6. CASE Scan /\ UNCHANGED callVars
    BY <1>4, <1>6, ScanDoes, Zenon DEF callVars
<1>7. CASE Program
    BY <1>4, <1>7, ProgramSteps, Zenon
<1> QED BY <1>1, <1>2, <1>3, <1>5, <1>6, <1>7, EveryStep, Zenon

LEMMA DocumentStays ==
    ASSUME IndInv, WalkInv, EndInv, DocumentInv, [Next]_vars
    PROVE  DocumentInv'
<1> SUFFICES ASSUME scenario.status = "ok"
             PROVE  NestOK' /\ (scenario.walk \in OneByOne => WalksOK' /\ Documents')
    BY ScenarioForever, Zenon DEF DocumentInv
<1>1. NestOK
    BY Zenon DEF DocumentInv
<1>2. NestOK'
    BY <1>1, NestStays
<1>3. ASSUME scenario.walk \in OneByOne PROVE WalksOK' /\ Documents'
  <2>1. Singly /\ WalksOK /\ Documents
      BY <1>3, Zenon DEF Singly, DocumentInv
  <2>2. Lacks(todo, "caught") /\ NothingRead /\ FirstRead
      BY <2>1, Zenon DEF WalksOK
  <2>3. Lacks(todo', "caught")
      BY <1>3, <2>2, LacksStays, Zenon
  <2>4. NothingRead' /\ FirstRead'
      BY <2>1, <2>2, NothingStays, FirstStays
  <2>5. ASSUME NEW L \in Families
        PROVE  Faithful(L, Deep', todo', nest', open', Read') /\ (Told' => Read' \in Elem(L))
    <3>1. Faithful(L, Deep, todo, nest, open, Read) /\ (Told => Read \in Elem(L))
        BY <2>1, Zenon DEF Documents
    <3> QED BY <1>1, <2>1, <3>1, FaithfulSteps, AnswersStay
  <2>6. Documents'
      BY <2>5, Zenon DEF Documents
  <2> QED BY <2>3, <2>4, <2>6, Zenon DEF WalksOK, Lacks
<1> QED BY <1>2, <1>3

-----------------------------------------------------------------------------
(* Utf-8: no more is kept of the stream than decodes.                      *)
DecodedInv ==
    scenario.status = "ok" => ~ NotUtf8(fetched) /\ (ended = "yes" => ~ Torn)

LEMMA DecodedStays ==
    ASSUME IndInv, WalkInv, EndInv, DecodedInv, [Next]_vars
    PROVE  DecodedInv'
<1> SUFFICES ASSUME scenario.status = "ok"
             PROVE  ~ NotUtf8(fetched)' /\ ((ended = "yes")' => ~ Torn')
    BY ScenarioForever, Zenon DEF DecodedInv
<1>1. ~ NotUtf8(fetched) /\ (ended = "yes" => ~ Torn)
    BY Zenon DEF DecodedInv
<1>2. CASE UNCHANGED <<text, fetched, ended>>
    BY <1>1, <1>2, Zenon DEF NotUtf8, Torn
<1>3. CASE Refuse
    BY <1>2, <1>3, Zenon DEF Refuse, Leaves
<1>4. CASE FillEnd
  <2>1. CASE Torn
      BY <1>3, <1>4, <2>1, Zenon DEF FillEnd
  <2>2. CASE ~ Torn
    <3>1. text' = text /\ fetched' = fetched
        BY <1>4, <2>2, Zenon DEF FillEnd
    <3> QED BY <1>1, <2>2, <3>1, Zenon DEF NotUtf8, Torn
  <2> QED BY <2>1, <2>2
<1>5. CASE Up /\ Fill
  <2>1. ended = "no"
      BY <1>5, Zenon DEF Fill, Wants
  <2>2. ASSUME NEW n, ~ NotUtf8(fetched + n), Fetch(n)
        PROVE  ~ NotUtf8(fetched)' /\ ended' = "no"
      BY <2>1, <2>2, Zenon DEF Fetch, NotUtf8
  <2>3. ASSUME NEW n \in 1 .. Chunk, fetched + n <= Len(text), DropChunk(n)
        PROVE  ~ NotUtf8(fetched)' /\ ended' = "no"
    <3>1. /\ text \in Seq(Octets) /\ fetched \in Nat /\ fetched <= Len(text) /\ n \in Nat
      <4>1. text \in Seq(Octets) /\ fetched \in 0 .. Len(text) /\ Chunk \in Nat
          BY StreamAssumption, Zenon DEF IndInv, StreamInv, Positions
      <4> QED BY <4>1, SMT
    <3>2. /\ ended' = "no" /\ fetched' = fetched
          /\ text' = SubSeq(text, 1, fetched) \o SubSeq(text, fetched + n + 1, Len(text))
        BY <2>1, <2>3, Zenon DEF DropChunk, Leaves
    <3> DEFINE q == SubSeq(text, 1, fetched) \o SubSeq(text, fetched + n + 1, Len(text))
    <3>3. \A i \in 1 .. fetched : q[i] = text[i]
      <4> DEFINE u == SubSeq(text, 1, fetched)  v == SubSeq(text, fetched + n + 1, Len(text))
      <4>1. u \in Seq(Octets) /\ Len(u) = fetched /\ \A i \in 1 .. fetched : u[i] = text[i]
          BY <3>1, SMT
      <4>2. v \in Seq(Octets)
          BY <3>1, SMT
      <4> HIDE DEF u, v
      <4>3. \A i \in 1 .. fetched : (u \o v)[i] = u[i]
          BY <3>1, <4>1, <4>2, SMT
      <4> QED BY <4>1, <4>3, Zenon DEF u, v
    <3> HIDE DEF q
    <3>4. \A i \in 1 .. fetched : text'[i] = text[i]
        BY <3>2, <3>3, Zenon DEF q
    <3> DEFINE a == "lead"  b == "tail"
    <3>5. NotUtf8(fetched)' <=>
            \E i \in 1 .. fetched :
                \/ text'[i] = b /\ (i = 1 \/ text'[i - 1] # a)
                \/ text'[i] = a /\ i < fetched /\ text'[i + 1] # b
        BY <3>2, Zenon DEF NotUtf8
    <3>6. NotUtf8(fetched) <=>
            \E i \in 1 .. fetched :
                \/ text[i] = b /\ (i = 1 \/ text[i - 1] # a)
                \/ text[i] = a /\ i < fetched /\ text[i + 1] # b
        BY Zenon DEF NotUtf8
    <3> HIDE DEF a, b
    <3>7. ASSUME NEW i \in 1 .. fetched
          PROVE  /\ i = 1 \/ text'[i - 1] = text[i - 1]
                 /\ i < fetched => text'[i + 1] = text[i + 1]
                 /\ text'[i] = text[i]
      <4>1. /\ i = 1 \/ i - 1 \in 1 .. fetched
            /\ i < fetched => i + 1 \in 1 .. fetched
          BY <3>1, SMT
      <4> QED BY <3>4, <4>1, Zenon
    <3>8. ~ NotUtf8(fetched)'
        BY <1>1, <3>5, <3>6, <3>7, Zenon
    <3> QED BY <3>2, <3>8
  <2> QED BY <1>4, <1>5, <2>2, <2>3, Zenon DEF Fill
<1>6. CASE Receive
    BY <1>3, <1>4, <1>5, <1>6, Zenon DEF Receive
<1>7. CASE Scan
    BY <1>2, <1>7, ScanStands
<1>8. CASE Program
    BY <1>2, <1>3, <1>8, ProgramSteps, Zenon DEF Proceed, Leaves, Program, EnvelopeMember, Store,
       BeginWalk, WalkMember, Note, EndWalk
<1>9. CASE Discriminated \/ Fail
    BY <1>2, <1>9, Zenon DEF Discriminated, Fail, Answer
<1>10. CASE Elapse \/ Done \/ UNCHANGED vars
    BY <1>2, <1>10, Zenon DEF Elapse, Done, vars, streamVars
<1>11. ~ ReadFailure
    BY NeverFailure, Zenon DEF ReadFailure
<1> QED BY <1>6, <1>7, <1>8, <1>9, <1>10, <1>11, Zenon DEF Next, Program

LEMMA Utf8Part ==
    ASSUME StreamInv, ~ NotUtf8(fetched), NEW m \in Nat, NEW n \in Nat, m <= n, n <= fetched,
           m = n \/ (text[m + 1] # "tail" /\ text[n] # "lead")
    PROVE  Utf8(SubSeq(text, m + 1, n))
<1> DEFINE a == "lead"  b == "tail"  s == SubSeq(text, m + 1, n)
<1>1. text \in Seq(Octets) /\ fetched \in Nat /\ fetched <= Len(text)
    BY Spots, Zenon DEF Texts
<1>2. s \in Seq(Octets) /\ DOMAIN s = 1 .. n - m /\ \A i \in 1 .. n - m : s[i] = text[m + i]
    BY <1>1, SMT
<1>3. \A i \in 1 .. fetched :
        /\ text[i] = b => i # 1 /\ text[i - 1] = a
        /\ text[i] = a /\ i < fetched => text[i + 1] = b
    BY Zenon DEF NotUtf8
<1>4. m = n \/ (text[m + 1] # b /\ text[n] # a)
    BY Zenon
<1> HIDE DEF a, b, s
<1>5. ASSUME NEW i \in DOMAIN s, s[i] = a PROVE i + 1 \in DOMAIN s /\ s[i + 1] = b
  <2>1. i \in 1 .. n - m /\ m + i \in 1 .. fetched /\ text[m + i] = a
      BY <1>1, <1>2, <1>5, SMT
  <2>2. m # n /\ m + i # n
    <3>1. m # n
        BY <2>1, SMT
    <3> QED BY <1>4, <2>1, <3>1, Zenon
  <2>3. i + 1 \in 1 .. n - m /\ m + i < fetched /\ m + (i + 1) = (m + i) + 1
      BY <1>1, <2>1, <2>2, SMT
  <2>4. text[(m + i) + 1] = b
      BY <1>3, <2>1, <2>3, Zenon
  <2> QED BY <1>2, <2>3, <2>4, Zenon
<1>6. ASSUME NEW i \in DOMAIN s, i + 1 \in DOMAIN s, s[i + 1] = b PROVE s[i] = a
  <2>1. /\ i \in 1 .. n - m /\ i + 1 \in 1 .. n - m
        /\ m + (i + 1) \in 1 .. fetched /\ (m + (i + 1)) - 1 = m + i
    <3>1. i \in 1 .. n - m /\ i + 1 \in 1 .. n - m
        BY <1>2, <1>6, Zenon
    <3> QED BY ONLY <1>1, <3>1, m \in Nat, n \in Nat, m <= n, n <= fetched, SMT
  <2>2. text[m + (i + 1)] = b
      BY <1>2, <1>6, <2>1, Zenon
  <2>3. text[m + i] = a
      BY <1>3, <2>1, <2>2, Zenon
  <2> QED BY <1>2, <2>1, <2>3, Zenon
<1>7. \A i \in DOMAIN s : s[i] = b => i > 1
    BY <1>1, <1>2, <1>4, SMT
<1>8. Utf8(s)
    BY <1>5, <1>6, <1>7, Zenon DEF Utf8, a, b
<1> QED BY <1>8 DEF s

(* What `call_stream` answers of is json: whatever walk of one value after  *)
(* another the caller reads the result by, an answer -- a result or an      *)
(* error of the node's -- is told of a reply that is, octet for octet, a    *)
(* document of the grammar, and utf-8.  (With AllIsRead, the octets read    *)
(* are all of the reply, unless the wire broke.)                            *)
AnswersAreJson ==
    scenario.status = "ok" /\ scenario.walk \in OneByOne /\ outcome.kind \in {"result", "rpc"}
    => IsJson(SubSeq(text, 1, At))
THEOREM AnsweredOfJson == Spec => []AnswersAreJson
<1>1. Init => IndInv /\ WalkInv /\ EndInv /\ DocumentInv /\ DecodedInv
  <2>1. Init => DocumentInv
      BY StartDocuments, Zenon DEF DocumentInv
  <2>2. ASSUME Init PROVE ~ NotUtf8(fetched) /\ ended = "no"
    <3>1. fetched = 0 /\ ended = "no"
        BY <2>2, Zenon DEF Init, StreamInit
    <3>2. 1 .. 0 = {}
        BY SMT
    <3> QED BY <3>1, <3>2, Zenon DEF NotUtf8
  <2> QED BY <2>1, <2>2, Initially, WalkInitially, EndInitially, Zenon DEF DecodedInv
<1>2. IndInv /\ WalkInv /\ EndInv /\ DocumentInv /\ DecodedInv /\ [Next]_vars
      => (IndInv /\ WalkInv /\ EndInv /\ DocumentInv /\ DecodedInv)'
    BY Stays, WalkStays, EndStays, DocumentStays, DecodedStays
<1>3. IndInv /\ EndInv /\ DocumentInv /\ DecodedInv => AnswersAreJson
  <2> SUFFICES ASSUME IndInv, EndInv, DocumentInv, DecodedInv, scenario.status = "ok",
                      scenario.walk \in OneByOne, Told
               PROVE  IsJson(Read)
      BY Zenon DEF AnswersAreJson, Told, Read
  <2>1. StreamInv /\ ended = "yes" /\ Buffered = 0 /\ ~ NotUtf8(fetched) /\ ~ Torn /\ Documents
      BY Zenon DEF IndInv, EndInv, AllRead, DecodedInv, DocumentInv, Told
  <2>2. At = fetched /\ fetched \in Nat
    <3>1. At \in Nat /\ fetched \in Nat
        BY <2>1, Spots
    <3> QED BY <2>1, <3>1, SMT DEF Buffered
  <2>3. fetched = 0 \/ (text[1] # "tail" /\ text[fetched] # "lead")
    <3>1. ASSUME fetched # 0 PROVE text[1] # "tail" /\ text[fetched] # "lead"
      <4>1. fetched > 0 /\ 1 \in 1 .. fetched
          BY <2>2, <3>1, SMT
      <4> QED BY <2>1, <4>1, Zenon DEF NotUtf8, Torn
    <3> QED BY <3>1
  <2>4. Utf8(SubSeq(text, 0 + 1, fetched))
    <3>1. 0 \in Nat /\ 0 <= fetched /\ fetched <= fetched /\ 0 + 1 = 1
        BY <2>2, SMT
    <3>2. 0 = fetched \/ (text[0 + 1] # "tail" /\ text[fetched] # "lead")
        BY <2>3, <3>1, Zenon
    <3> QED BY <2>1, <2>2, <3>1, <3>2, Utf8Part
  <2>5. Utf8(Read)
    <3>1. 0 + 1 = 1
        BY SMT
    <3> QED BY <2>2, <2>4, <3>1, Zenon DEF Read
  <2> QED BY <2>1, <2>5, Zenon DEF Documents, IsJson, Elem
<1> QED BY <1>1, <1>2, <1>3, PTL DEF Spec

-----------------------------------------------------------------------------
(* What a value, or a name, is kept of: behind a call that keeps there is   *)
(* the value, or the string, and the call that takes what was kept of it.   *)
Backed(s, K, A, B, C, T) ==
    \A i \in DOMAIN s : s[i] \in K =>
        \/ i + 2 \in DOMAIN s /\ s[i + 1] \in A /\ s[i + 2] \in T
        \/ i + 3 \in DOMAIN s /\ s[i + 1] \in B /\ s[i + 2] \in C /\ s[i + 3] \in T
Keepers == Calls({"keep"})
Takers == Calls({"take"})
KeepOK(s) ==
    Backed(s, Keepers, Calls({"skip"}), {Task("expect", "quote")}, {Step("chars")}, Takers)

LEMMA BackedAll ==
    ASSUME NEW K, NEW A, NEW B, NEW C, NEW T
    PROVE  /\ \A s \in Seq(Tasks) : s # <<>> /\ Backed(s, K, A, B, C, T)
                 => Backed(Tail(s), K, A, B, C, T)
           /\ \A p, s \in Seq(Tasks) : Backed(p, K, A, B, C, T) /\ Backed(s, K, A, B, C, T)
                 => Backed(p \o s, K, A, B, C, T)
           /\ \A s \in Seq(Tasks), i \in Nat :
                 i >= 1 /\ i <= Len(s) + 1 /\ Backed(s, K, A, B, C, T)
                 => Backed(SubSeq(s, i, Len(s)), K, A, B, C, T)
           /\ \A s \in Seq(Tasks) : (\A i \in DOMAIN s : s[i] \notin K)
                 => Backed(s, K, A, B, C, T)
<1>1. ASSUME NEW s \in Seq(Tasks), s # <<>>, Backed(s, K, A, B, C, T)
      PROVE  Backed(Tail(s), K, A, B, C, T)
  <2> DEFINE r == Tail(s)
  <2>1. /\ \A i : i \in DOMAIN r <=> i \in Nat /\ i >= 1 /\ i + 1 \in DOMAIN s
        /\ \A i \in DOMAIN r : i \in Nat /\ r[i] = s[i + 1]
      BY <1>1, SMT
  <2> HIDE DEF r
  <2> SUFFICES ASSUME NEW i \in DOMAIN r, r[i] \in K
               PROVE  \/ i + 2 \in DOMAIN r /\ r[i + 1] \in A /\ r[i + 2] \in T
                      \/ i + 3 \in DOMAIN r /\ r[i + 1] \in B /\ r[i + 2] \in C /\ r[i + 3] \in T
      BY Zenon DEF Backed, r
  <2>2. /\ i \in Nat /\ i >= 1 /\ i + 1 \in DOMAIN s /\ s[i + 1] \in K
        /\ (i + 1) + 1 = i + 2 /\ (i + 1) + 2 = i + 3 /\ (i + 1) + 3 = i + 4
        /\ (i + 2) + 1 = i + 3 /\ (i + 3) + 1 = i + 4
        /\ i + 1 \in Nat /\ i + 2 \in Nat /\ i + 3 \in Nat
        /\ i + 1 >= 1 /\ i + 2 >= 1 /\ i + 3 >= 1
      BY <2>1, SMT
  <2>3. \/ i + 3 \in DOMAIN s /\ s[i + 2] \in A /\ s[i + 3] \in T
        \/ i + 4 \in DOMAIN s /\ s[i + 2] \in B /\ s[i + 3] \in C /\ s[i + 4] \in T
      BY <1>1, <2>2, Zenon DEF Backed
  <2>4. i + 3 \in DOMAIN s => i + 2 \in DOMAIN s
      BY <2>2, SMT
  <2>5. i + 4 \in DOMAIN s => i + 3 \in DOMAIN s
    <3>1. DOMAIN s = 1 .. Len(s) /\ Len(s) \in Nat /\ i \in Nat
        BY <2>2, SMT
    <3> QED BY ONLY <3>1, SMT
  <2> QED BY <2>1, <2>2, <2>3, <2>4, <2>5, Zenon
<1>2. ASSUME NEW p \in Seq(Tasks), NEW s \in Seq(Tasks),
             Backed(p, K, A, B, C, T), Backed(s, K, A, B, C, T)
      PROVE  Backed(p \o s, K, A, B, C, T)
  <2> DEFINE r == p \o s  n == Len(p)
  <2>1. /\ n \in Nat /\ DOMAIN p = 1 .. n /\ DOMAIN r = 1 .. n + Len(s) /\ DOMAIN s = 1 .. Len(s)
        /\ Len(s) \in Nat
        /\ \A i \in DOMAIN p : i \in DOMAIN r /\ r[i] = p[i]
        /\ \A i \in DOMAIN s : n + i \in DOMAIN r /\ r[n + i] = s[i]
      BY SMT
  <2> HIDE DEF r, n
  <2> SUFFICES ASSUME NEW i \in DOMAIN r, r[i] \in K
               PROVE  \/ i + 2 \in DOMAIN r /\ r[i + 1] \in A /\ r[i + 2] \in T
                      \/ i + 3 \in DOMAIN r /\ r[i + 1] \in B /\ r[i + 2] \in C /\ r[i + 3] \in T
      BY Zenon DEF Backed, r
  <2>2. CASE i \in DOMAIN p
    <3>1. p[i] \in K
        BY <2>1, <2>2
    <3>2. \/ i + 2 \in DOMAIN p /\ p[i + 1] \in A /\ p[i + 2] \in T
          \/ i + 3 \in DOMAIN p /\ p[i + 1] \in B /\ p[i + 2] \in C /\ p[i + 3] \in T
        BY <1>2, <2>2, <3>1, Zenon DEF Backed
    <3>3. /\ i + 2 \in DOMAIN p => i + 1 \in DOMAIN p
          /\ i + 3 \in DOMAIN p => i + 1 \in DOMAIN p /\ i + 2 \in DOMAIN p
        BY <2>1, <2>2, SMT
    <3> QED BY <2>1, <3>2, <3>3, Zenon
  <2>3. CASE i \notin DOMAIN p
    <3> DEFINE j == i - n
    <3>1. /\ j \in Nat /\ j \in DOMAIN s /\ n + j = i /\ n + (j + 1) = i + 1 /\ n + (j + 2) = i + 2
          /\ n + (j + 3) = i + 3
        BY <2>1, <2>3, SMT
    <3> HIDE DEF j
    <3>2. s[j] \in K
        BY <2>1, <3>1, Zenon
    <3>3. \/ j + 2 \in DOMAIN s /\ s[j + 1] \in A /\ s[j + 2] \in T
          \/ j + 3 \in DOMAIN s /\ s[j + 1] \in B /\ s[j + 2] \in C /\ s[j + 3] \in T
        BY <1>2, <3>1, <3>2, Zenon DEF Backed
    <3>4. /\ j + 2 \in DOMAIN s => j + 1 \in DOMAIN s
          /\ j + 3 \in DOMAIN s => j + 1 \in DOMAIN s /\ j + 2 \in DOMAIN s
      <4>1. DOMAIN s = 1 .. Len(s) /\ Len(s) \in Nat /\ j \in Nat
          BY <2>1, <3>1, Zenon
      <4> QED BY ONLY <4>1, SMT
    <3> QED BY <2>1, <3>1, <3>3, <3>4, Zenon
  <2> QED BY <2>2, <2>3
<1>3. ASSUME NEW s \in Seq(Tasks), NEW k \in Nat, k >= 1, k <= Len(s) + 1,
             Backed(s, K, A, B, C, T)
      PROVE  Backed(SubSeq(s, k, Len(s)), K, A, B, C, T)
  <2> DEFINE r == SubSeq(s, k, Len(s))  n == k - 1
  <2>1. /\ n \in Nat /\ DOMAIN r = 1 .. Len(s) - n /\ DOMAIN s = 1 .. Len(s) /\ Len(s) \in Nat
        /\ \A i \in DOMAIN r : n + i \in DOMAIN s /\ r[i] = s[n + i]
      BY <1>3, SMT
  <2> HIDE DEF r, n
  <2> SUFFICES ASSUME NEW i \in DOMAIN r, r[i] \in K
               PROVE  \/ i + 2 \in DOMAIN r /\ r[i + 1] \in A /\ r[i + 2] \in T
                      \/ i + 3 \in DOMAIN r /\ r[i + 1] \in B /\ r[i + 2] \in C /\ r[i + 3] \in T
      BY Zenon DEF Backed, r
  <2>2. n + i \in DOMAIN s /\ s[n + i] \in K
      BY <2>1, Zenon
  <2>3. /\ (n + i) + 1 = n + (i + 1) /\ (n + i) + 2 = n + (i + 2) /\ (n + i) + 3 = n + (i + 3)
        /\ n + (i + 2) \in DOMAIN s => i + 1 \in DOMAIN r /\ i + 2 \in DOMAIN r
        /\ n + (i + 3) \in DOMAIN s => i + 1 \in DOMAIN r /\ i + 2 \in DOMAIN r /\ i + 3 \in DOMAIN r
    <3>1. /\ DOMAIN s = 1 .. Len(s) /\ Len(s) \in Nat /\ n \in Nat
          /\ DOMAIN r = 1 .. Len(s) - n /\ i \in DOMAIN r
        BY <2>1, Zenon
    <3> QED BY ONLY <3>1, SMT
  <2>4. \/ n + (i + 2) \in DOMAIN s /\ s[n + (i + 1)] \in A /\ s[n + (i + 2)] \in T
        \/ n + (i + 3) \in DOMAIN s /\ s[n + (i + 1)] \in B /\ s[n + (i + 2)] \in C
           /\ s[n + (i + 3)] \in T
      BY <1>3, <2>2, <2>3, Zenon DEF Backed
  <2> QED BY <2>1, <2>3, <2>4, Zenon
<1>4. ASSUME NEW s \in Seq(Tasks), \A i \in DOMAIN s : s[i] \notin K
      PROVE  Backed(s, K, A, B, C, T)
    BY <1>4, Zenon DEF Backed
<1> QED BY <1>1, <1>2, <1>3, <1>4

LEMMA Four ==
    ASSUME NEW s \in Seq(Tasks), NEW a \in Tasks, NEW b \in Tasks, NEW c \in Tasks,
           NEW d \in Tasks
    PROVE  Push(a, Push(b, Push(c, Push(d, s)))) = <<a, b, c, d>> \o s
<1> DEFINE A == <<a>>  BCD == <<b, c, d>>  ABCD == <<a, b, c, d>>  q == Push(b, Push(c, Push(d, s)))
<1>1. q = BCD \o s
    BY Three
<1>2. ABCD = A \o BCD
    BY SMT
<1>3. A \in Seq(Tasks) /\ BCD \in Seq(Tasks)
    BY SMT
<1>4. Push(a, q) = A \o q
    BY Zenon DEF Push
<1> HIDE DEF A, BCD, ABCD, q
<1>5. (A \o BCD) \o s = A \o (BCD \o s)
    BY <1>3, SMT
<1>6. Push(a, q) = ABCD \o s
    BY <1>1, <1>2, <1>4, <1>5, Zenon
<1> QED BY <1>6 DEF q, ABCD

LEMMA BackedFront ==
    ASSUME NEW K, NEW A, NEW B, NEW C, NEW T, NEW s \in Seq(Tasks), Backed(s, K, A, B, C, T),
           NEW a \in Tasks, NEW b \in Tasks, NEW c \in Tasks, NEW d \in Tasks,
           b \notin K, c \notin K, d \notin K
    PROVE  /\ b \in A /\ c \in T => Backed(Push(a, Push(b, Push(c, s))), K, A, B, C, T)
           /\ b \in B /\ c \in C /\ d \in T
              => Backed(Push(a, Push(b, Push(c, Push(d, s)))), K, A, B, C, T)
<1>1. ASSUME b \in A, c \in T PROVE Backed(<<a, b, c>>, K, A, B, C, T)
  <2> DEFINE r == <<a, b, c>>
  <2>1. DOMAIN r = {1, 2, 3} /\ r[1] = a /\ r[2] = b /\ r[3] = c
      BY SMT
  <2>2. 1 + 1 = 2 /\ 1 + 2 = 3
      BY SMT
  <2> HIDE DEF r
  <2> QED BY <1>1, <2>1, <2>2, Zenon DEF Backed, r
<1>2. ASSUME b \in B, c \in C, d \in T PROVE Backed(<<a, b, c, d>>, K, A, B, C, T)
  <2> DEFINE r == <<a, b, c, d>>
  <2>1. DOMAIN r = {1, 2, 3, 4} /\ r[1] = a /\ r[2] = b /\ r[3] = c /\ r[4] = d
      BY SMT
  <2>2. 1 + 1 = 2 /\ 1 + 2 = 3 /\ 1 + 3 = 4
      BY SMT
  <2> HIDE DEF r
  <2> QED BY <1>2, <2>1, <2>2, Zenon DEF Backed, r
<1>3. <<a, b, c>> \in Seq(Tasks) /\ <<a, b, c, d>> \in Seq(Tasks)
    BY SMT
<1>4. /\ Push(a, Push(b, Push(c, s))) = <<a, b, c>> \o s
      /\ Push(a, Push(b, Push(c, Push(d, s)))) = <<a, b, c, d>> \o s
  <2>1. s \in Seq(Tasks) /\ a \in Tasks /\ b \in Tasks /\ c \in Tasks /\ d \in Tasks
      OBVIOUS
  <2>2. Push(a, Push(b, Push(c, s))) = <<a, b, c>> \o s
      BY ONLY <2>1, Three
  <2>3. Push(a, Push(b, Push(c, Push(d, s)))) = <<a, b, c, d>> \o s
      BY ONLY <2>1, Four
  <2> QED BY <2>2, <2>3
<1> QED BY <1>1, <1>2, <1>3, <1>4, BackedAll, Zenon

(* The calls that are put on the stack are backed, if what is below is.     *)
LEMMA KeepAll ==
    /\ \A s \in Seq(Tasks) : s # <<>> /\ KeepOK(s) => KeepOK(Tail(s))
    /\ \A p, s \in Seq(Tasks) : KeepOK(p) /\ KeepOK(s) => KeepOK(p \o s)
    /\ \A s \in Seq(Tasks), i \in Nat :
          i >= 1 /\ i <= Len(s) + 1 /\ KeepOK(s) => KeepOK(SubSeq(s, i, Len(s)))
    /\ \A s \in Seq(Tasks) : Lacks(s, "keep") => KeepOK(s)
    /\ \A t \in Tasks, s \in Seq(Tasks) : t.do # "keep" /\ KeepOK(s) => KeepOK(Push(t, s))
<1>1. \A s \in Seq(Tasks) : s # <<>> /\ KeepOK(s) => KeepOK(Tail(s))
    BY BackedAll, Zenon DEF KeepOK
<1>2. \A p, s \in Seq(Tasks) : KeepOK(p) /\ KeepOK(s) => KeepOK(p \o s)
    BY BackedAll, Zenon DEF KeepOK
<1>3. \A s \in Seq(Tasks), i \in Nat :
          i >= 1 /\ i <= Len(s) + 1 /\ KeepOK(s) => KeepOK(SubSeq(s, i, Len(s)))
    BY BackedAll, Zenon DEF KeepOK
<1>4. ASSUME NEW s \in Seq(Tasks), Lacks(s, "keep") PROVE KeepOK(s)
  <2>1. \A i \in DOMAIN s : s[i] \notin Keepers
      BY <1>4, Zenon DEF Lacks, Keepers, Calls
  <2> QED BY <2>1, BackedAll, Zenon DEF KeepOK
<1>5. ASSUME NEW t \in Tasks, NEW s \in Seq(Tasks), t.do # "keep", KeepOK(s)
      PROVE  KeepOK(Push(t, s))
  <2>1. <<t>> \in Seq(Tasks) /\ Lacks(<<t>>, "keep")
    <3>1. <<t>> \in Seq(Tasks)
        BY SMT
    <3> QED BY <1>5, <3>1, LacksAll, Zenon
  <2> QED BY <1>2, <1>4, <1>5, <2>1, Zenon DEF Push
<1> QED BY <1>1, <1>2, <1>3, <1>4, <1>5

LEMMA KeepFront ==
    ASSUME NEW s \in Seq(Tasks), KeepOK(s), NEW k \in Tasks, NEW v \in Tasks, NEW t \in Tasks,
           v.do = "skip", t.do = "take"
    PROVE  /\ KeepOK(Push(k, Push(v, Push(t, s))))
           /\ KeepOK(Push(k, String \o Push(t, s)))
<1> DEFINE e == Task("expect", "quote")  c == Step("chars")
<1>1. /\ e \in Tasks /\ c \in Tasks /\ e.do = "expect" /\ c.do = "chars"
    BY IsTask, Zenon DEF Steps, Subjects
<1>2. v \notin Keepers /\ t \notin Keepers /\ e \notin Keepers /\ c \notin Keepers
    BY <1>1, Zenon DEF Keepers, Calls
<1>3. v \in Calls({"skip"}) /\ t \in Takers /\ e \in {Task("expect", "quote")} /\ c \in {Step("chars")}
    BY <1>1, Zenon DEF Takers, Calls
<1>4. Push(t, s) \in Seq(Tasks) /\ String \o Push(t, s) = Push(e, Push(c, Push(t, s)))
  <2>1. Push(t, s) \in Seq(Tasks)
      BY Pushing
  <2> HIDE DEF e, c
  <2>2. Push(e, Push(c, Push(t, s))) = <<e, c>> \o Push(t, s)
    <3> DEFINE r == Push(t, s)
    <3>1. r \in Seq(Tasks) /\ e \in Tasks /\ c \in Tasks
        BY <1>1, <2>1
    <3> HIDE DEF r
    <3>2. Push(e, Push(c, r)) = <<e, c>> \o r
        BY ONLY <3>1, Several
    <3> QED BY <3>2 DEF r
  <2> QED BY <2>1, <2>2, Zenon DEF String, e, c
<1> HIDE DEF e, c
<1>5. KeepOK(Push(k, Push(v, Push(t, s))))
    BY <1>1, <1>2, <1>3, BackedFront, Zenon DEF KeepOK
<1>6. KeepOK(Push(k, Push(e, Push(c, Push(t, s)))))
    BY <1>1, <1>2, <1>3, BackedFront, Zenon DEF KeepOK
<1> QED BY <1>4, <1>5, <1>6, Zenon

(* What is behind a call that keeps.                                        *)
LEMMA KeepBack ==
    ASSUME NEW s \in Seq(Tasks), s # <<>>, KeepOK(s), Head(s).do = "keep"
    PROVE  /\ \E t \in Tasks, r \in Seq(Tasks) :
                 /\ t.do = "take"
                 /\ \/ Tail(s) = String \o Push(t, r)
                    \/ \E v \in Tasks : v.do = "skip" /\ Tail(s) = Push(v, Push(t, r))
<1> DEFINE e == Task("expect", "quote")  c == Step("chars")
<1>1. 1 \in DOMAIN s /\ s[1] \in Keepers
  <2>1. 1 \in DOMAIN s /\ s[1] = Head(s) /\ s[1] \in Tasks
      BY SMT
  <2> QED BY <2>1, Zenon DEF Keepers, Calls
<1>2. \/ 1 + 2 \in DOMAIN s /\ s[1 + 1] \in Calls({"skip"}) /\ s[1 + 2] \in Takers
      \/ 1 + 3 \in DOMAIN s /\ s[1 + 1] \in {e} /\ s[1 + 2] \in {c} /\ s[1 + 3] \in Takers
    BY <1>1, Zenon DEF KeepOK, Backed
<1>3. /\ Tail(s) = SubSeq(s, 2, Len(s)) /\ s[1] \in Tasks
      /\ \A i \in DOMAIN s : i \in Nat /\ s[i] \in Tasks /\ SubSeq(s, i + 1, Len(s)) \in Seq(Tasks)
            /\ SubSeq(s, i, Len(s)) = Push(s[i], SubSeq(s, i + 1, Len(s)))
            /\ \A j \in 1 .. i : j \in DOMAIN s
  <2>1. Tail(s) = SubSeq(s, 2, Len(s)) /\ s[1] \in Tasks
      BY SMT
  <2>2. \A i \in DOMAIN s : i \in Nat /\ \A j \in 1 .. i : j \in DOMAIN s
      BY SMT
  <2> QED BY <2>1, <2>2, SuffixFrom, Zenon DEF Push
<1>4. 1 + 1 = 2 /\ 1 + 2 = 3 /\ 1 + 3 = 4 /\ 2 + 1 = 3 /\ 3 + 1 = 4 /\ 4 + 1 = 5
      /\ 2 \in 1 .. 3 /\ 2 \in 1 .. 4 /\ 3 \in 1 .. 4
    BY SMT
<1>5. CASE 1 + 2 \in DOMAIN s /\ s[1 + 1] \in Calls({"skip"}) /\ s[1 + 2] \in Takers
  <2>1. 2 \in DOMAIN s /\ 3 \in DOMAIN s
      BY <1>3, <1>4, <1>5, Zenon
  <2>2. s[2] \in Tasks /\ s[2].do = "skip" /\ s[3] \in Tasks /\ s[3].do = "take"
      BY <1>4, <1>5, Zenon DEF Calls, Takers
  <2>3. /\ Tail(s) = Push(s[2], Push(s[3], SubSeq(s, 4, Len(s))))
        /\ SubSeq(s, 4, Len(s)) \in Seq(Tasks)
      BY <1>3, <1>4, <2>1, Zenon
  <2> QED BY <2>2, <2>3, Zenon
<1>6. CASE 1 + 3 \in DOMAIN s /\ s[1 + 1] \in {e} /\ s[1 + 2] \in {c} /\ s[1 + 3] \in Takers
  <2>1. 2 \in DOMAIN s /\ 3 \in DOMAIN s /\ 4 \in DOMAIN s
      BY <1>3, <1>4, <1>6, Zenon
  <2>2. s[2] = e /\ s[3] = c /\ s[4] \in Tasks /\ s[4].do = "take"
      BY <1>4, <1>6, Zenon DEF Calls, Takers
  <2> DEFINE t == s[4]  r == SubSeq(s, 5, Len(s))  x == Push(t, r)
  <2>3. r \in Seq(Tasks) /\ x \in Seq(Tasks) /\ Tail(s) = Push(e, Push(c, x))
    <3>1. r \in Seq(Tasks) /\ SubSeq(s, 4, Len(s)) = x /\ SubSeq(s, 4, Len(s)) \in Seq(Tasks)
        BY <1>3, <1>4, <2>1, Zenon
    <3>2. Tail(s) = Push(s[2], Push(s[3], SubSeq(s, 4, Len(s))))
        BY <1>3, <1>4, <2>1, Zenon
    <3> QED BY <2>2, <3>1, <3>2, Zenon
  <2>4. e \in Tasks /\ c \in Tasks
      BY <1>3, <2>1, <2>2, Zenon
  <2> HIDE DEF t, r, x, e, c
  <2>5. Push(e, Push(c, x)) = <<e, c>> \o x
    <3>1. e \in Tasks /\ c \in Tasks /\ x \in Seq(Tasks)
        BY <2>3, <2>4
    <3> QED BY ONLY <3>1, Several
  <2>6. Tail(s) = String \o x
      BY <2>3, <2>5, Zenon DEF String, e, c
  <2> QED BY <2>2, <2>3, <2>6, Zenon DEF x, t
<1> QED BY <1>2, <1>5, <1>6, Zenon

(* The pieces the stack is made of.                                         *)
Backs(p) == p \in Seq(Tasks) /\ KeepOK(p)

LEMMA BacksAll ==
    /\ Backs(<<>>)
    /\ \A p, s : Backs(p) /\ Backs(s) => Backs(p \o s)
    /\ \A p : p \in Seq(Calls(KeptSteps)) => Backs(p)
    /\ \A do \in Steps, of \in Subjects : do # "keep" =>
          Backs(<<Task(do, of)>>) /\ Backs(<<Step(do)>>)
    /\ \A of \in {"member", "result"} : Backs(KeepValue(of))
    /\ \A c \in Subjects : Backs(Entry(c)) /\ Backs(Generator(c))
    /\ \A s : Backs(s) /\ s # <<>> => Backs(Tail(s))
    /\ \A s : \A i \in DOMAIN s : Backs(s) =>
          Backs(SubSeq(s, i, Len(s))) /\ Backs(SubSeq(s, i + 1, Len(s)))
<1>1. Backs(<<>>)
  <2>1. <<>> \in Seq(Tasks) /\ Lacks(<<>>, "keep")
      BY EmptySeq, LacksAll
  <2> QED BY <2>1, KeepAll, Zenon DEF Backs
<1>2. ASSUME NEW p, NEW s, Backs(p), Backs(s) PROVE Backs(p \o s)
  <2>1. p \in Seq(Tasks) /\ s \in Seq(Tasks) /\ p \o s \in Seq(Tasks)
      BY <1>2, ConcatProperties, Zenon DEF Backs
  <2> QED BY <1>2, <2>1, KeepAll, Zenon DEF Backs
<1>3. ASSUME NEW p \in Seq(Calls(KeptSteps)) PROVE Backs(p)
  <2>1. Calls(KeptSteps) \subseteq Tasks
      BY Zenon DEF Calls
  <2>2. p \in Seq(Tasks) /\ \A i \in DOMAIN p : p[i] \in Calls(KeptSteps)
      BY <2>1, SMT
  <2>3. "keep" \notin KeptSteps
      BY Zenon DEF KeptSteps, TokenSteps, ValueSteps
  <2>4. Lacks(p, "keep")
      BY <2>2, <2>3, Zenon DEF Lacks, Calls
  <2> QED BY <2>2, <2>4, KeepAll, Zenon DEF Backs
<1>4. ASSUME NEW do \in Steps, NEW of \in Subjects, do # "keep"
      PROVE  Backs(<<Task(do, of)>>) /\ Backs(<<Step(do)>>)
  <2> DEFINE a == Task(do, of)  b == Step(do)
  <2>1. a \in Tasks /\ b \in Tasks /\ a.do = do /\ b.do = do
      BY IsTask
  <2> HIDE DEF a, b
  <2>2. Lacks(<<a>>, "keep") /\ Lacks(<<b>>, "keep")
      BY <1>4, <2>1, LacksAll, Zenon
  <2>3. <<a>> \in Seq(Tasks) /\ <<b>> \in Seq(Tasks)
      BY <2>1, SMT
  <2> QED BY <2>2, <2>3, KeepAll, Zenon DEF Backs, a, b
<1>5. ASSUME NEW of \in {"member", "result"} PROVE Backs(KeepValue(of))
  <2> DEFINE k == Task("keep", of)  v == Step("skip")  t == Step("take")  none == <<>>
  <2>1. k \in Tasks /\ v \in Tasks /\ t \in Tasks /\ v.do = "skip" /\ t.do = "take"
    <3>1. {"keep", "skip", "take"} \subseteq Steps /\ of \in Subjects /\ "none" \in Subjects
        BY Words, Zenon DEF Steps
    <3> QED BY <3>1, IsTask, Zenon
  <2>2. Backs(none)
      BY <1>1
  <2> HIDE DEF k, v, t, none
  <2>3. KeepOK(Push(k, Push(v, Push(t, none)))) /\ none \in Seq(Tasks)
      BY <2>1, <2>2, KeepFront, Zenon DEF Backs
  <2>4. Push(k, Push(v, Push(t, none))) = <<k, v, t>> \o none
      BY <2>1, <2>3, Three
  <2>5. <<k, v, t>> \in Seq(Tasks)
      BY <2>1, SMT
  <2>6. <<k, v, t>> \o none = <<k, v, t>>
      BY <2>5, SMT DEF none
  <2>7. <<k, v, t>> = KeepValue(of)
      BY Zenon DEF KeepValue, k, v, t
  <2> QED BY <2>3, <2>4, <2>5, <2>6, <2>7, Zenon DEF Backs
<1>6. ASSUME NEW c \in Subjects PROVE Backs(Entry(c)) /\ Backs(Generator(c))
  <2> DEFINE k == Task("keep", "name")  t == Step("take")  e == Task("expect", ":")
             y == Task("yield", c)  m == Task("more", c)  none == <<>>
             g == Task("expect", c)  f == Task("first", c)
             s == Push(e, Push(y, Push(m, none)))
             u == Push(y, Push(m, none))
  <2>1. /\ {"expect", "yield", "more", "take", "first", "skip"} \subseteq Steps
        /\ ":" \in Subjects /\ "none" \in Subjects
      BY Words, Zenon DEF Steps
  <2>2. /\ e \in Tasks /\ y \in Tasks /\ m \in Tasks /\ g \in Tasks /\ f \in Tasks /\ t \in Tasks
        /\ e.do # "keep" /\ y.do # "keep" /\ m.do # "keep" /\ g.do # "keep" /\ f.do # "keep"
        /\ t.do = "take" /\ k \in Tasks /\ Step("skip") \in Tasks /\ Step("skip").do = "skip"
    <3>1. \A do \in Steps, of \in Subjects : Task(do, of).do = do /\ Step(do).do = do
        BY IsTask
    <3> QED BY <2>1, <3>1, EntryCalls, IsTask, Zenon
  <2>3. Backs(none)
      BY <1>1
  <2>4. \A a \in Tasks : \A q : a.do # "keep" /\ Backs(q) => Backs(Push(a, q))
      BY KeepAll, Pushing, Zenon DEF Backs
  <2> HIDE DEF k, t, e, y, m, g, f, none
  <2>5. Backs(u) /\ Backs(s) /\ Backs(Push(g, Push(f, none)))
      BY <2>2, <2>3, <2>4, Zenon
  <2>6. KeepOK(Push(k, String \o Push(t, s)))
      BY <2>2, <2>5, KeepFront, Zenon DEF Backs
  <2>7. /\ none \in Seq(Tasks)
        /\ c # "{" => Entry(c) \o none = u
        /\ c = "{" => Entry(c) \o none = Push(k, String \o Push(t, s))
        /\ Generator(c) \o none = Push(g, Push(f, none))
      BY <2>3, EntryCalls, Zenon DEF Backs, k, t, e, y, m, g, f
  <2>8. KeepOK(Entry(c) \o none) /\ KeepOK(Generator(c) \o none)
      BY <2>5, <2>6, <2>7, Zenon DEF Backs
  <2>9. Entry(c) \in Seq(Tasks) /\ Generator(c) \in Seq(Tasks)
    <3>1. Entry(c) \in Seq(Later) /\ Generator(c) \in Seq(Later) /\ Later \subseteq Tasks
        BY PutTogether, Zenon DEF Later
    <3> QED BY <3>1, SeqMonotonic, Zenon
  <2>10. Entry(c) \o none = Entry(c) /\ Generator(c) \o none = Generator(c)
    <3>1. \A q \in Seq(Tasks) : q \o none = q
        BY SMT DEF none
    <3> QED BY <2>9, <3>1, Zenon
  <2> QED BY <2>8, <2>9, <2>10, Zenon DEF Backs
<1>7. ASSUME NEW s, Backs(s), s # <<>> PROVE Backs(Tail(s))
  <2>1. s \in Seq(Tasks) /\ Tail(s) \in Seq(Tasks)
      BY <1>7, HeadTailProperties, Zenon DEF Backs
  <2> QED BY <1>7, <2>1, KeepAll, Zenon DEF Backs
<1>8. ASSUME NEW s, NEW i \in DOMAIN s, Backs(s)
      PROVE  Backs(SubSeq(s, i, Len(s))) /\ Backs(SubSeq(s, i + 1, Len(s)))
  <2>1. s \in Seq(Tasks) /\ KeepOK(s)
      BY <1>8, Zenon DEF Backs
  <2>2. /\ i \in Nat /\ i >= 1 /\ i <= Len(s) + 1 /\ SubSeq(s, i, Len(s)) \in Seq(Tasks)
        /\ i + 1 \in Nat /\ i + 1 >= 1 /\ i + 1 <= Len(s) + 1 /\ SubSeq(s, i + 1, Len(s)) \in Seq(Tasks)
      BY <2>1, SMT
  <2> QED BY <2>1, <2>2, KeepAll, Zenon DEF Backs
<1> QED BY <1>1, <1>2, <1>3, <1>4, <1>5, <1>6, <1>7, <1>8, Zenon

LEMMA ScanNeeds == Scan => todo # <<>>
BY Zenon DEF Scan, CutShort, CutOff, Reads, ReadsOctet, Space, Expect, Chars, Scalar, Skip, Inside,
   After, Keep, Take, First, More, Peek, Caught, End, Sees, Doing

(* Whatever the walk, what keeps is backed.                                 *)
LEMMA KeepStays ==
    ASSUME IndInv, WalkInv, EndInv, scenario.status = "ok", [Next]_vars, Backs(todo)
    PROVE  Backs(todo')
<1>1. StreamInv /\ todo \in Seq(Tasks)
    BY TodoTyped, Zenon DEF IndInv
<1>2. todo # <<>> => Backs(Rest)
    BY BacksAll, Zenon DEF Rest
<1>3. /\ {"skip", "peek", "walk", "note", "caught", "returned", "store", "refused"} \subseteq Steps
      /\ "none" \in Subjects /\ Envelope \subseteq Subjects /\ "{" \in Subjects /\ "[" \in Subjects
  <2>1. {"skip", "peek", "walk", "note", "caught", "returned", "store", "refused"} \subseteq Steps
      BY Zenon DEF Steps
  <2> QED BY <2>1, Words, Zenon DEF Openers
<1>4. /\ Backs(<<Step("skip")>>) /\ Backs(<<Step("peek")>>) /\ Backs(<<Step("walk")>>)
      /\ Backs(<<Step("note")>>) /\ Backs(<<Step("caught")>>) /\ Backs(<<Step("returned")>>)
      /\ Backs(<<Refused>>) /\ \A e \in Envelope : Backs(<<Task("store", e)>>)
      /\ Backs(KeepValue("member")) /\ Backs(KeepValue("result"))
  <2>1. /\ "skip" # "keep" /\ "peek" # "keep" /\ "walk" # "keep" /\ "note" # "keep"
        /\ "caught" # "keep" /\ "returned" # "keep" /\ "refused" # "keep" /\ "store" # "keep"
      OBVIOUS
  <2> QED BY <1>3, <2>1, BacksAll, Zenon DEF Refused
<1>5. CASE Leaves
  <2>1. CASE todo' = <<Refused>>
      BY <1>4, <2>1
  <2>2. CASE \E i \in DOMAIN todo : todo' = SubSeq(todo, i + 1, Len(todo))
      BY <2>2, BacksAll, Zenon
  <2> QED BY <1>5, <2>1, <2>2, Zenon DEF Leaves
<1>6. ASSUME Scan, ~ Leaves, Head(todo).do \in KeptSteps PROVE Backs(todo')
  <2>1. todo # <<>>
      BY <1>1, <1>6, ScanNeeds, Zenon
  <2>2. \/ todo' = todo \/ todo' = Rest \/ \E p : Inward(p) /\ todo' = p \o Rest
      BY <1>1, <1>6, ValueTurns
  <2> QED BY <1>2, <2>1, <2>2, BacksAll, Zenon DEF Inward
<1>7. ASSUME Scan, ~ Leaves, Head(todo).do \notin KeptSteps PROVE Backs(todo')
  <2>1. /\ todo # <<>>
        /\ \/ todo' = todo \/ todo' = Rest
           \/ First /\ todo' = Entry(Of) \o Rest
           \/ More /\ Head(todo).do = "more"
      BY <1>1, <1>7, OtherScans, Zenon
  <2>2. Of \in Subjects
    <3>1. Head(todo) \in Tasks
        BY <1>1, <2>1, Begun
    <3> QED BY <3>1, Zenon DEF Tasks, Of
  <2>3. More => todo' = Rest \/ todo' = Entry(Of) \o Rest
      BY <1>7, Advanced, Zenon DEF More
  <2>4. Backs(Entry(Of) \o Rest)
      BY <1>2, <2>1, <2>2, BacksAll, Zenon
  <2> QED BY <1>2, <2>1, <2>3, <2>4, Zenon
<1>8. CASE EnvelopeMember
  <2>0. todo # <<>>
      BY <1>8, Zenon DEF EnvelopeMember, Doing
  <2> DEFINE a == Step("peek")  b == Step("walk")  k == Step("skip")
             K == KeepValue("member")  E(n) == Task("store", n)
  <2>1. \/ Leaves \/ todo' = <<a, b>> \o Rest
        \/ \E n \in Envelope : todo' = K \o <<E(n)>> \o Rest
        \/ todo' = <<k>> \o Rest
    BY <1>8, Zenon DEF EnvelopeMember, Proceed, Refuse
  <2>2. a \in Tasks /\ b \in Tasks
      BY <1>3, IsTask, Zenon
  <2>3. Backs(<<a>>) /\ Backs(<<b>>) /\ Backs(<<k>>) /\ Backs(K) /\ \A n \in Envelope : Backs(<<E(n)>>)
      BY <1>4
  <2> HIDE DEF a, b, k, K, E
  <2>4. <<a, b>> = <<a>> \o <<b>>
    <3>1. <<a, b>> = Append(<<a>>, b)
        BY SMT
    <3>2. Append(<<a>>, b) = <<a>> \o <<b>>
        BY SMT
    <3> QED BY <3>1, <3>2
  <2>5. Backs(<<a, b>> \o Rest) /\ Backs(<<k>> \o Rest)
      BY <1>2, <2>0, <2>3, <2>4, BacksAll, Zenon
  <2>6. \A n \in Envelope : Backs(K \o <<E(n)>> \o Rest)
      BY <1>2, <2>0, <2>3, BacksAll, Zenon
  <2> QED BY <1>5, <2>1, <2>5, <2>6, Zenon
<1>9. CASE Store \/ Note \/ EndWalk
    BY <1>2, <1>5, <1>9, Zenon DEF Store, Note, EndWalk, Proceed, Refuse, Doing
<1>10. CASE BeginWalk
  <2> DEFINE walk == scenario.walk  r == Step("returned")
  <2>1. todo # <<>> /\ todo' = TasksOf(walk) \o <<r>> \o Rest /\ walk \in Walks
    <3>1. walk \in Walks
        BY Zenon DEF IndInv, CallInv, Scenario
    <3> QED BY <1>10, <3>1, Zenon DEF BeginWalk, Proceed, Doing
  <2>2. Backs(TasksOf(walk))
    <3> DEFINE K == KeepValue("result")  N == <<Step("note")>>  C == <<Step("caught")>>
               S == Step("skip")
    <3>1. \/ TasksOf(walk) = <<S>> \/ TasksOf(walk) = K \o N
          \/ TasksOf(walk) = Generator("{") \/ TasksOf(walk) = Generator("[")
          \/ TasksOf(walk) = <<>> \/ TasksOf(walk) = K \o C \/ TasksOf(walk) = <<S, S>>
      <4> HIDE DEF S, K, N, C
      <4>1. walk = "skip" => TasksOf(walk) = <<S>>
          BY Zenon DEF TasksOf, S
      <4>2. walk = "value" => TasksOf(walk) = K \o N
          BY Zenon DEF TasksOf, K, N
      <4>3. walk \in {"members", "first member", "swallow members"} => TasksOf(walk) = Generator("{")
          BY Zenon DEF TasksOf
      <4>4. walk \in {"items", "first item"} => TasksOf(walk) = Generator("[")
          BY Zenon DEF TasksOf
      <4>5. walk = "nothing" => TasksOf(walk) = <<>>
          BY Zenon DEF TasksOf
      <4>6. walk = "swallow" => TasksOf(walk) = K \o C
          BY Zenon DEF TasksOf, K, C
      <4>7. walk = "beyond" => TasksOf(walk) = <<S, S>>
          BY Zenon DEF TasksOf, S
      <4> QED BY <2>1, <4>1, <4>2, <4>3, <4>4, <4>5, <4>6, <4>7, Zenon DEF Walks
    <3>2. Backs(K) /\ Backs(N) /\ Backs(C) /\ Backs(<<S>>) /\ S \in Tasks
        BY <1>3, <1>4, IsTask, Zenon
    <3>3. Backs(Generator("{")) /\ Backs(Generator("["))
        BY <1>3, BacksAll, Zenon
    <3> HIDE DEF K, N, C, S
    <3>4. <<S, S>> = <<S>> \o <<S>>
        BY <3>2, SMT
    <3> QED BY <3>1, <3>2, <3>3, <3>4, BacksAll, Zenon
  <2>3. Backs(<<r>>)
      BY <1>4
  <2> HIDE DEF walk, r
  <2> QED BY <1>2, <2>1, <2>2, <2>3, BacksAll, Zenon
<1>11. CASE WalkMember
  <2> DEFINE K == KeepValue("result")  c == <<Step("caught")>>  n == <<Step("note")>>
  <2>1. /\ todo # <<>>
        /\ \/ \E i \in DOMAIN todo : todo' = K \o SubSeq(todo, i, Len(todo))
           \/ todo' = K \o c \o Rest
           \/ todo' = K \o n \o Rest
      BY <1>11, Zenon DEF WalkMember, Proceed, Doing
  <2>2. Backs(K) /\ Backs(c) /\ Backs(n)
      BY <1>4
  <2> HIDE DEF K, c, n
  <2>3. \A i \in DOMAIN todo : Backs(K \o SubSeq(todo, i, Len(todo)))
      BY <2>2, BacksAll, Zenon
  <2> QED BY <1>2, <2>1, <2>2, <2>3, BacksAll, Zenon
<1>12. CASE Quiet \/ Tells
    BY <1>12, BacksAll, Zenon DEF Quiet, Tells
<1> QED BY <1>5, <1>6, <1>7, <1>8, <1>9, <1>10, <1>11, <1>12, EveryStep, Zenon DEF Program
-----------------------------------------------------------------------------
(* What is kept, and what completes it up to where it is taken, is an       *)
(* element: the value, with the blanks before it.                           *)
Proper(L, s, ns, o, k) ==
    \A w \in Texts : Completes(L, {}, s, "take", Conf(ns, o, w)) => k ++ w \in Elem(L)

LEMMA ValueWhole ==
    ASSUME NEW L \in Families, NEW D, NEW x \in Seq(Tasks), NEW stop,
           stop # "expect", stop # "chars", stop # "skip",
           NEW none \in Seq(Openers), \A c \in Closing(L, none) : c = Empty, NEW o \in Int,
           \A m \in Seq(Openers), v \in Texts : Completes(L, D, x, stop, Conf(m, o, v)) => v = Empty,
           NEW w \in Texts
    PROVE  /\ Completes(L, D, String \o x, stop, Conf(none, o, w)) => w \in Elem(L)
           /\ \A v \in Tasks : v.do = "skip" /\ Completes(L, D, Push(v, x), stop, Conf(none, o, w))
                 => w \in Elem(L)
<1>1. Empty \in Blanks /\ \A u \in Texts : u ++ Empty = u
    BY Joins, Blank
<1>2. ASSUME Completes(L, D, String \o x, stop, Conf(none, o, w)) PROVE w \in Elem(L)
  <2>0. stop \notin {"expect", "chars"}
      BY Zenon
  <2>1. PICK b \in Blanks, q \in Str(L), v \in Texts :
          w = b ++ (q ++ v) /\ Completes(L, D, x, stop, Conf(none, o, v))
      BY <1>2, <2>0, StringRead
  <2>2. v = Empty /\ q \in Val(L)
      BY <2>1, Strings, Zenon
  <2>3. b ++ (q ++ Empty) \in Elem(L)
      BY <1>1, <2>2, Rules, Zenon
  <2> QED BY <2>1, <2>2, <2>3, Zenon
<1>3. ASSUME NEW v \in Tasks, v.do = "skip", Completes(L, D, Push(v, x), stop, Conf(none, o, w))
      PROVE  w \in Elem(L)
  <2>1. v.do # stop /\ v.do \in {"skip", "yield", "walk"}
      BY <1>3, Zenon
  <2>2. PICK u \in Texts, y \in Texts :
          /\ w = u ++ y /\ May(L, v, none, u)
          /\ Completes(L, D, x, stop, Conf(Outer(v, none), Opened(v, o), y))
    <3>1. v.do # stop
        BY <2>1
    <3> QED BY ONLY L \in Families, x \in Seq(Tasks), v \in Tasks, <3>1, none \in Seq(Openers), o \in Int,
                    w \in Texts, Completes(L, D, Push(v, x), stop, Conf(none, o, w)), <1>3, Peel
  <2>3. Outer(v, none) \in Seq(Openers) /\ Opened(v, o) = o
    <3>1. Opened(v, o) = o
        BY <1>3, Zenon DEF Opened
    <3> QED BY <3>1, Confsare, Zenon
  <2>4. y = Empty
      BY <2>2, <2>3, Zenon
  <2>6. PICK l \in Lead(L), c \in Closing(L, none) : u = l ++ c
    <3>1. May(L, v, none, u) <=> \E l \in Lead(L), c \in Closing(L, none) : u = l ++ c
        BY <2>1, MayValue
    <3> QED BY <2>2, <3>1, Zenon
  <2>7. c = Empty
      BY <2>6, Zenon
  <2>8. l \in Texts /\ l \in Elem(L)
      BY <2>6, Leads
  <2>9. w = l
      BY <1>1, <2>2, <2>4, <2>6, <2>7, <2>8, Zenon
  <2> QED BY <2>8, <2>9
<1> QED BY <1>2, <1>3, Zenon

LEMMA ProperAtFirst ==
    ASSUME NEW L \in Families, NEW t \in Tasks, t.do = "take", NEW r \in Seq(Tasks), NEW o \in Int,
           NEW s,
           \/ s = String \o Push(t, r)
           \/ \E v \in Tasks : v.do = "skip" /\ s = Push(v, Push(t, r))
    PROVE  Proper(L, s, <<>>, o, Empty)
<1> DEFINE stop == "take"  x == Push(t, r)  D == {}  none == <<>>
<1>1. none \in Seq(Openers) /\ \A c \in Closing(L, none) : c = Empty
    BY AfterNone, EmptySeq
<1>2. /\ t.do = stop /\ x \in Seq(Tasks) /\ stop # "expect" /\ stop # "chars" /\ stop # "skip"
      /\ s = String \o x \/ \E v \in Tasks : v.do = "skip" /\ s = Push(v, x)
    BY Pushing
<1>3. \A w \in Texts : Empty ++ w = w
    BY Joins
<1> HIDE DEF stop, D, none
<1>4. ASSUME NEW m \in Seq(Openers), NEW v \in Texts, Completes(L, D, x, stop, Conf(m, o, v))
      PROVE  v = Empty
  <2>1. Conf(m, o, v) \in Confs /\ Conf(m, o, v).left = v
      BY IsConf
  <2> QED BY <1>2, <1>4, <2>1, CompletesPush, Zenon
<1> HIDE DEF x
<1>5. \A w \in Texts : Completes(L, D, s, stop, Conf(none, o, w)) => w \in Elem(L)
  <2> SUFFICES ASSUME NEW w \in Texts, Completes(L, D, s, stop, Conf(none, o, w))
               PROVE  w \in Elem(L)
      OBVIOUS
  <2>1. /\ Completes(L, D, String \o x, stop, Conf(none, o, w)) => w \in Elem(L)
        /\ \A v \in Tasks : v.do = "skip" /\ Completes(L, D, Push(v, x), stop, Conf(none, o, w))
              => w \in Elem(L)
    <3>1. stop # "expect" /\ stop # "chars" /\ stop # "skip" /\ x \in Seq(Tasks)
        BY <1>2
    <3> QED BY <1>1, <1>4, <3>1, ValueWhole
  <2> QED BY <1>2, <2>1, Zenon
<1> QED BY <1>3, <1>5, Zenon DEF Proper, D, stop, none

(* Where it is taken, nothing is left to complete it.                       *)
LEMMA ProperAtLast ==
    ASSUME NEW L \in Families, NEW s \in Seq(Tasks), s # <<>>, Head(s).do = "take",
           NEW ns \in Seq(Openers), NEW o \in Int, NEW k \in Texts, Proper(L, s, ns, o, k)
    PROVE  k \in Elem(L)
<1> DEFINE t == Head(s)  r == Tail(s)  stop == "take"
<1>1. t \in Tasks /\ r \in Seq(Tasks) /\ s = Push(t, r) /\ t.do = stop
  <2>1. Head(s) \in Tasks /\ Tail(s) \in Seq(Tasks) /\ s = <<Head(s)>> \o Tail(s)
      BY SMT
  <2> QED BY <2>1, Zenon DEF Push
<1>2. Empty \in Texts /\ k ++ Empty = k
    BY Joins
<1>3. Conf(ns, o, Empty) \in Confs /\ Conf(ns, o, Empty).left = Empty
    BY <1>2, IsConf
<1> HIDE DEF t, r, stop
<1>4. Completes(L, {}, Push(t, r), stop, Conf(ns, o, Empty))
    BY <1>1, <1>3, CompletesPush
<1> QED BY <1>1, <1>2, <1>4, Zenon DEF Proper, stop

LEMMA ProperCarried ==
    ASSUME NEW L, NEW s, NEW ns, NEW o, NEW k \in Texts, Proper(L, s, ns, o, k),
           NEW z, NEW ms, NEW p, NEW x \in Texts, Serves(L, {}, "take", z, ms, p, s, ns, o, x)
    PROVE  Proper(L, z, ms, p, k ++ x)
<1> SUFFICES ASSUME NEW w \in Texts, Completes(L, {}, z, "take", Conf(ms, p, w))
             PROVE  (k ++ x) ++ w \in Elem(L)
    BY Zenon DEF Proper
<1>1. Completes(L, {}, s, "take", Conf(ns, o, x ++ w))
    BY Zenon DEF Serves
<1>2. x ++ w \in Texts /\ (k ++ x) ++ w = k ++ (x ++ w)
    BY Joins
<1> QED BY <1>1, <1>2, Zenon DEF Proper

(* A step of what is kept reads on from it, whoever stops there.            *)
LEMMA ValueAdvances ==
    ASSUME StreamInv, Scan, ~ Leaves, Head(todo).do \in KeptSteps, NEW L \in Families, NEW D,
           NEW stop \in Stops
    PROVE  Advances(L, D, stop)
<1>1. stop # "expect" /\ stop # "chars" /\ stop # "scalar" /\ stop \notin KeptSteps
    BY Zenon DEF Stops, KeptSteps, TokenSteps, ValueSteps
<1>2. CASE Expect \/ Chars \/ Scalar \/ Skip \/ Inside \/ After
    BY <1>1, <1>2, ExpectAdvances, CharsAdvances, ScalarAdvances, SkipAdvances,
       InsideAdvances, AfterAdvances, Zenon
<1>3. CASE Space
    BY <1>1, <1>3, SpaceAdvances, Zenon
<1>4. ~ CutShort
    BY Zenon DEF CutShort, Refuse
<1>5. ~ (Keep \/ Take \/ Peek \/ Caught \/ End \/ First \/ More)
    BY Zenon DEF Keep, Take, Peek, Caught, End, First, More, Sees, Doing, KeptSteps, TokenSteps,
       ValueSteps
<1> QED BY <1>2, <1>3, <1>4, <1>5, Zenon DEF Scan
-----------------------------------------------------------------------------
(* A family whose elements neither begin nor end inside a character.        *)
Unbroken == {s \in Seq(Octets) : s # <<>> /\ s[1] # "tail" /\ s[Len(s)] # "lead"}
Unbrokens == [y \in Symbols |-> IF y = "characters" THEN Seq(Octets) ELSE Unbroken]

LEMMA UnbrokenSeq ==
    /\ \A s, t \in Unbroken, m \in Seq(Octets) : s \o m \o t \in Unbroken
    /\ \A a \in Octets \ {"lead", "tail"} : <<a>> \in Unbroken
    /\ \A v \in Unbroken, b, c \in Blanks : b \o v \o c \in Unbroken
<1> DEFINE i == "tail"  j == "lead"  S == {" "}
<1>1. Unbroken = {s \in Seq(Octets) : s # <<>> /\ s[1] # i /\ s[Len(s)] # j}
    BY DEF Unbroken
<1>2. S \subseteq Octets /\ i \notin S /\ j \notin S /\ Octets \ {"lead", "tail"} = Octets \ {i, j}
      /\ Blanks = Seq(S)
    BY Zenon DEF Octets, Marks, Blanks
<1> HIDE DEF i, j, S
<1>3. \A s \in Seq(Octets) :
        s # <<>> <=> Len(s) \in Nat /\ Len(s) >= 1
    BY SMT
<1>4. ASSUME NEW s \in Unbroken, NEW t \in Unbroken, NEW m \in Seq(Octets)
      PROVE  s \o m \o t \in Unbroken
  <2> DEFINE q == s \o m \o t
  <2>1. /\ s \in Seq(Octets) /\ t \in Seq(Octets) /\ s[1] # i /\ t[Len(t)] # j
        /\ Len(s) \in Nat /\ Len(s) >= 1 /\ Len(t) \in Nat /\ Len(t) >= 1
      BY <1>1, <1>3, Zenon
  <2>2. q \in Seq(Octets) /\ Len(q) >= 1 /\ q[1] = s[1] /\ q[Len(q)] = t[Len(t)]
      BY <2>1, SMT
  <2>3. q # <<>>
      BY <2>2, SMT
  <2> QED BY <1>1, <2>1, <2>2, <2>3, Zenon
<1>5. ASSUME NEW a \in Octets \ {i, j} PROVE <<a>> \in Unbroken
  <2>1. <<a>> \in Seq(Octets) /\ <<a>> # <<>> /\ Len(<<a>>) = 1 /\ <<a>>[1] = a
      BY <1>5, SMT
  <2>2. a # i /\ a # j
      BY <1>5, Zenon
  <2> QED BY <1>1, <2>1, <2>2, Zenon
<1>6. ASSUME NEW v \in Unbroken, NEW b \in Seq(S), NEW c \in Seq(S) PROVE b \o v \o c \in Unbroken
  <2> DEFINE q == b \o v \o c
  <2>1. /\ v \in Seq(Octets) /\ v[1] # i /\ v[Len(v)] # j /\ Len(v) \in Nat /\ Len(v) >= 1
      BY <1>1, <1>3, Zenon
  <2>2. b \in Seq(Octets) /\ c \in Seq(Octets)
      BY <1>2, SMT
  <2>3. q \in Seq(Octets) /\ Len(q) >= 1
      BY <2>1, <2>2, SMT
  <2>4. q[1] = v[1] \/ q[1] \in S
      BY <2>1, <2>2, SMT
  <2>5. q[Len(q)] = v[Len(v)] \/ q[Len(q)] \in S
      BY <2>1, <2>2, SMT
  <2>6. q # <<>>
      BY <2>3, SMT
  <2> QED BY <1>1, <1>2, <2>1, <2>3, <2>4, <2>5, <2>6, Zenon
<1> QED BY <1>2, <1>4, <1>5, <1>6, Zenon

LEMMA UnbrokenNumbers == Numbers \subseteq Unbroken /\ <<"n", "l">> \in Unbroken
<1> DEFINE d == "d"  z == "0"  h == "-"  n == "n"  l == "l"  i == "tail"  j == "lead"
           D == {d, z}
<1>1. /\ d \in Octets /\ z \in Octets /\ h \in Octets /\ n \in Octets /\ l \in Octets
      /\ d # i /\ z # i /\ h # i /\ n # i /\ d # j /\ z # j /\ l # j
    BY Zenon DEF Octets, Marks
<1>2. Unbroken = {s \in Seq(Octets) : s # <<>> /\ s[1] # i /\ s[Len(s)] # j}
    BY DEF Unbroken
<1>3. Digital = {<<z>>} \cup {<<d>> \o s : s \in Seq(D)}
    BY DEF Digital
<1>4. Numbers = Digital \cup {<<h>> \o s : s \in Digital}
    BY DEF Numbers
<1>5. D \subseteq Octets /\ i \notin D /\ j \notin D /\ z \in D
    BY <1>1
<1> HIDE DEF d, z, h, n, l, i, j, D
<1>6. \A q \in Seq(Octets) : Len(q) >= 1 => q # <<>>
    BY SMT
<1>7. <<n, l>> \in Unbroken
  <2>1. <<n, l>> \in Seq(Octets) /\ <<n, l>>[1] = n /\ Len(<<n, l>>) = 2 /\ <<n, l>>[2] = l /\ 2 >= 1
      BY <1>1, SMT
  <2>2. <<n, l>> # <<>>
      BY <1>6, <2>1, Zenon
  <2> QED BY <1>1, <1>2, <2>1, <2>2, Zenon
<1>8. ASSUME NEW s \in Digital
      PROVE  s \in Seq(Octets) /\ Len(s) \in Nat /\ Len(s) >= 1 /\ s[1] # i /\ s[Len(s)] # j
  <2>1. CASE s = <<z>>
    <3>1. s \in Seq(Octets) /\ Len(s) = 1 /\ 1 \in Nat /\ 1 >= 1 /\ s[1] = z
        BY <1>1, <2>1, SMT
    <3> QED BY <1>1, <3>1, Zenon
  <2>2. ASSUME NEW t \in Seq(D), s = <<d>> \o t
        PROVE  s \in Seq(Octets) /\ Len(s) \in Nat /\ Len(s) >= 1 /\ s[1] # i /\ s[Len(s)] # j
    <3>1. t \in Seq(Octets)
        BY <1>5, SMT
    <3>2. s \in Seq(Octets) /\ Len(s) \in Nat /\ Len(s) >= 1 /\ s[1] = d
        BY <1>1, <2>2, <3>1, SMT
    <3>3. s[Len(s)] = d \/ s[Len(s)] \in D
        BY <1>1, <2>2, <3>1, SMT
    <3> QED BY <1>1, <1>5, <3>2, <3>3, Zenon
  <2> QED BY <1>3, <2>1, <2>2, Zenon
<1>9. ASSUME NEW s \in Digital PROVE s \in Unbroken /\ <<h>> \o s \in Unbroken
  <2> DEFINE q == <<h>> \o s
  <2>1. q \in Seq(Octets) /\ Len(q) >= 1 /\ q[1] = h /\ q[Len(q)] = s[Len(s)]
      BY <1>1, <1>8, SMT
  <2>2. q # <<>> /\ s # <<>>
      BY <1>6, <1>8, <2>1, Zenon
  <2> QED BY <1>1, <1>2, <1>8, <2>1, <2>2, Zenon
<1> QED BY <1>4, <1>7, <1>9, Zenon DEF n, l

LEMMA EscapedTexts == \A t \in Unescaped \cup Escaped : t \in Seq(Octets)
<1> DEFINE S == Octets \ {"quote", "\\", "ctrl"}  b == "\\"  u == "u"  Q == {"quote", "\\", "n"}
           H == {"d", "0", "E"}
<1>1. /\ Unescaped = Seq(S) /\ S \subseteq Octets
      /\ Escaped = {<<b, o>> : o \in Q}
                   \cup {<<b, u, h[1], h[2], h[3], h[4]>> : h \in [1 .. 4 -> H]}
    BY DEF Unescaped, Escaped
<1>2. b \in Octets /\ u \in Octets /\ Q \subseteq Octets /\ H \subseteq Octets
    BY Zenon DEF Octets, Marks
<1> HIDE DEF S, b, u, Q, H
<1>3. \A t \in Seq(S) : t \in Seq(Octets)
    BY <1>1, SMT
<1>4. \A o \in Q : <<b, o>> \in Seq(Octets)
    BY <1>2, SMT
<1>5. ASSUME NEW h \in [1 .. 4 -> H] PROVE <<b, u, h[1], h[2], h[3], h[4]>> \in Seq(Octets)
  <2>1. h[1] \in Octets /\ h[2] \in Octets /\ h[3] \in Octets /\ h[4] \in Octets
      BY <1>2, SMT
  <2> DEFINE v == h[1]  x == h[2]  y == h[3]  z == h[4]
  <2> HIDE DEF v, x, y, z
  <2>2. <<b, u, v, x, y, z>> \in Seq(Octets)
    <3>1. v \in Octets /\ x \in Octets /\ y \in Octets /\ z \in Octets
        BY <2>1 DEF v, x, y, z
    <3> QED BY ONLY <1>2, <3>1, SMT
  <2> QED BY <2>2 DEF v, x, y, z
<1> QED BY <1>1, <1>3, <1>4, <1>5, Zenon

LEMMA UnbrokenFamily == Unbrokens \in Families
<1> DEFINE L == Unbrokens
<1>1. /\ L["characters"] = Seq(Octets) /\ L["string"] = Unbroken /\ L["value"] = Unbroken
      /\ L["element"] = Unbroken /\ L["elements"] = Unbroken /\ L["name"] = Unbroken
      /\ L["member"] = Unbroken /\ L["members"] = Unbroken /\ L \in [Symbols -> SUBSET Seq(Octets)]
  <2>1. "characters" \in Symbols /\ \A y \in Symbols : L[y] = IF y = "characters" THEN Seq(Octets) ELSE Unbroken
      BY Zenon DEF Symbols, Unbrokens
  <2>2. /\ "string" \in Symbols /\ "value" \in Symbols /\ "element" \in Symbols /\ "elements" \in Symbols
        /\ "name" \in Symbols /\ "member" \in Symbols /\ "members" \in Symbols
      BY Zenon DEF Symbols
  <2>3. L \in [Symbols -> SUBSET Seq(Octets)]
      BY Zenon DEF Unbrokens, Unbroken
  <2> QED BY <2>1, <2>2, <2>3, Zenon
<1>2. \A o \in {"quote", ",", ":", "[", "]", "{", "}"} : <<o>> \in Unbroken /\ o \in Octets
  <2>1. {"quote", ",", ":", "[", "]", "{", "}"} \subseteq Octets \ {"lead", "tail"}
      BY Zenon DEF Octets, Marks
  <2> QED BY <2>1, UnbrokenSeq, Zenon
<1>3. \A s \in Unbroken : s \in Seq(Octets)
    BY Zenon DEF Unbroken
<1>4. \A o \in Octets : <<o>> \in Seq(Octets)
    BY SMT
<1>5. \A s, t \in Seq(Octets) : s \o t \in Seq(Octets)
    BY SMT
<1>6. \A s \in Blanks : s \in Seq(Octets)
    BY Blank, Zenon DEF Texts
<1>7. <<>> \in Seq(Octets) /\ \A t \in Unescaped \cup Escaped : t \in Seq(Octets)
    BY EmptySeq, EscapedTexts, Zenon
<1> HIDE DEF L
<1>8. StringRules(L)
    BY <1>1, <1>2, <1>5, <1>7, UnbrokenSeq, Zenon DEF StringRules
<1>9. ScalarRules(L)
    BY <1>1, UnbrokenNumbers, Zenon DEF ScalarRules
<1>10. ElementRules(L)
    BY <1>1, <1>2, <1>4, UnbrokenSeq, Zenon DEF ElementRules
<1>11. MemberRules(L)
    BY <1>1, <1>2, <1>4, UnbrokenSeq, Zenon DEF MemberRules
<1>12. ContainerRules(L)
    BY <1>1, <1>2, <1>3, <1>6, UnbrokenSeq, Zenon DEF ContainerRules
<1> QED BY <1>1, <1>8, <1>9, <1>10, <1>11, <1>12, Zenon DEF Families, Closed, L
-----------------------------------------------------------------------------
(* What is kept is a stretch of the stream, up to where it is read.         *)
Stretch == \E m \in 0 .. At : kept = SubSeq(text, m + 1, At)
Whole == \A L \in Families : Proper(L, todo, nest, open, kept)
KeptInv ==
    scenario.status = "ok" =>
        NestOK /\ Backs(todo) /\ TakeOK /\ (keeping # "no" => Whole /\ Stretch)

LEMMA StretchGrows ==
    ASSUME StreamInv, Stretch, NEW n \in 0 .. Buffered, At' = At + n, text' = text,
           kept' = kept ++ Consumed(n)
    PROVE  Stretch'
<1> DEFINE a == At  b == Buffered
<1>1. /\ text \in Seq(Octets) /\ a \in Nat /\ b \in Nat /\ a + b <= Len(text) /\ n \in 0 .. b
    BY Spots, Zenon DEF Texts
<1>2. PICK m \in 0 .. a : kept = SubSeq(text, m + 1, a)
    BY Zenon DEF Stretch
<1>3. kept' = SubSeq(text, m + 1, a) \o SubSeq(text, a + 1, a + n)
    BY <1>2, Zenon DEF Consumed, ++
<1>4. At' = a + n
    OBVIOUS
<1> HIDE DEF a, b
<1>5. SubSeq(text, m + 1, a) \o SubSeq(text, a + 1, a + n) = SubSeq(text, m + 1, a + n)
    BY ONLY <1>1, m \in 0 .. a, SMT
<1>6. m \in 0 .. a + n
    BY ONLY <1>1, m \in 0 .. a, SMT
<1> QED BY <1>3, <1>4, <1>5, <1>6, Zenon DEF Stretch

(* A step inside what is kept.                                              *)
LEMMA KeptGrows ==
    ASSUME StreamInv, Scan, ~ Leaves, Head(todo).do \in KeptSteps, TakeOK, keeping' # "no",
           Whole, Stretch
    PROVE  Whole' /\ Stretch' /\ TakeOK'
<1> DEFINE stop == "take"  D == {}
<1>1. keeping # "no" /\ stop \in Stops
    BY ValueTurns, Zenon DEF Stops
<1>2. Leading(todo, KeptSteps, {"take"}) /\ todo \in Seq(Tasks) /\ todo # <<>> /\ Rest \in Seq(Tasks)
    BY <1>1, ScanNeeds, Begun, TodoTyped, Zenon DEF TakeOK
<1>3. offset \in Nat /\ pos \in Nat
    BY Zenon DEF StreamInv, Positions
<1>4. kept \in Texts
    BY Spots
<1>5. TakeOK'
  <2>1. Head(todo).do \notin {"take"}
      BY Zenon DEF KeptSteps, TokenSteps, ValueSteps
  <2>2. Leading(Rest, KeptSteps, {"take"})
      BY <1>2, <2>1, LeadPop, Zenon DEF Rest
  <2>3. \/ todo' = todo \/ todo' = Rest \/ \E p \in Seq(Calls(KeptSteps)) : todo' = p \o Rest
      BY ValueTurns, Zenon DEF Inward
  <2> QED BY <1>2, <2>2, <2>3, LeadBehind, Zenon DEF TakeOK
<1> HIDE DEF stop, D
<1>6. ASSUME NEW L \in Families
      PROVE  \E n \in 0 .. Buffered :
                /\ At' = At + n /\ text' = text /\ kept' = kept ++ Consumed(n)
                /\ Becomes(L, D, stop, n)
  <2>1. PICK n \in 0 .. Buffered : Passes(n) /\ Becomes(L, D, stop, n)
      BY <1>1, ValueAdvances, Zenon DEF Advances
  <2>2. pos' = pos + n /\ offset' = offset /\ text' = text /\ kept' = kept ++ Consumed(n)
      BY <2>1, Zenon DEF Passes, Extends, ++
  <2>3. At' = At + n
      BY <1>3, <2>2, SMT DEF At
  <2> QED BY <2>1, <2>2, <2>3, Zenon
<1>7. Stretch'
    BY <1>6, UnbrokenFamily, StretchGrows, Zenon
<1>8. ASSUME NEW L \in Families PROVE Proper(L, todo', nest', open', kept')
  <2>1. PICK n \in 0 .. Buffered : kept' = kept ++ Consumed(n) /\ Becomes(L, D, stop, n)
      BY <1>6, Zenon
  <2>2. Consumed(n) \in Texts /\ Proper(L, todo, nest, open, kept)
      BY Consuming, Zenon DEF Whole
  <2>3. Serves(L, {}, "take", todo', nest', open', todo, nest, open, Consumed(n))
      BY <2>1, Zenon DEF Becomes, D, stop
  <2>4. Proper(L, todo', nest', open', kept ++ Consumed(n))
      BY <1>4, <2>2, <2>3, ProperCarried
  <2> QED BY <2>1, <2>4, Zenon
<1>9. Whole'
    BY <1>8, Zenon DEF Whole
<1> QED BY <1>5, <1>7, <1>9

(* Where keeping begins.                                                    *)
LEMMA KeptBegins ==
    ASSUME StreamInv, NestOK, Backs(todo), Keep
    PROVE  Whole' /\ Stretch' /\ TakeOK'
<1>1. /\ todo # <<>> /\ Head(todo).do = "keep" /\ todo' = Rest /\ kept' = <<>> /\ nest' = nest
      /\ open' = open /\ text' = text /\ offset' = offset /\ pos' = pos
    BY Zenon DEF Keep, Sees, Doing
<1>2. nest = <<>>
  <2>1. Head(todo).do \notin KeptSteps
      BY <1>1, Zenon DEF KeptSteps, TokenSteps, ValueSteps
  <2> QED BY <1>1, <2>1, NestHeld
<1>3. PICK t \in Tasks, r \in Seq(Tasks) :
        /\ t.do = "take"
        /\ \/ Rest = String \o Push(t, r)
           \/ \E v \in Tasks : v.do = "skip" /\ Rest = Push(v, Push(t, r))
    BY <1>1, KeepBack, Zenon DEF Backs, Rest
<1>4. open \in Int /\ text \in Seq(Octets) /\ At \in Nat /\ At <= Len(text)
  <2>1. open \in Int /\ text \in Texts /\ At \in Nat /\ fetched \in Nat /\ At <= fetched
        /\ fetched <= Len(text)
      BY Spots
  <2>2. At <= Len(text)
    <3> DEFINE a == At  l == Len(text)
    <3>1. l \in Nat
        BY <2>1, SMT DEF Texts
    <3> HIDE DEF a, l
    <3> QED BY <2>1, <3>1, SMT DEF a, l
  <2> QED BY <2>1, <2>2, Zenon DEF Texts
<1>5. Whole'
  <2>1. ASSUME NEW L \in Families PROVE Proper(L, todo', nest', open', kept')
    <3>1. Proper(L, Rest, <<>>, open, Empty)
        BY <1>3, <1>4, ProperAtFirst, Zenon
    <3> QED BY <1>1, <1>2, <3>1, Zenon DEF Empty
  <2> QED BY <2>1, Zenon DEF Whole
<1>6. Stretch'
  <2>1. At' = At
      BY <1>1, Zenon DEF At
  <2>2. SubSeq(text, At + 1, At) = <<>> /\ At \in 0 .. At
    <3> DEFINE a == At
    <3>1. a \in Nat /\ a <= Len(text) /\ text \in Seq(Octets)
        BY <1>4
    <3> HIDE DEF a
    <3>2. SubSeq(text, a + 1, a) = <<>> /\ a \in 0 .. a
        BY ONLY <3>1, SMT
    <3> QED BY <3>2 DEF a
  <2> QED BY <1>1, <2>1, <2>2, Zenon DEF Stretch
<1>7. Leading(Rest, KeptSteps, {"take"})
  <2> DEFINE x == Push(t, r)  T == {"take"}  none == <<>>
  <2>1. t \in Tasks /\ r \in Seq(Tasks) /\ t.do \in T
      BY <1>3
  <2>2. <<t>> \in Seq(Tasks) /\ x = <<t>> \o r /\ x \in Seq(Tasks)
    <3> HIDE DEF T
    <3> QED BY <2>1, Pushing, SMT DEF Push
  <2>3. Leading(x, KeptSteps, T)
      BY <2>1, <2>2, LeadOne, LeadFront, Zenon
  <2>4. String \in Seq(Calls(KeptSteps)) /\ \A v \in Tasks : v.do = "skip" => <<v>> \in Seq(Calls(KeptSteps))
    <3> DEFINE K == Calls(KeptSteps)  M == Calls(TokenSteps)
    <3>1. M \subseteq K /\ String \in Seq(M) /\ \A v \in Tasks : v.do = "skip" => v \in K
        BY ValueCalls, Zenon DEF Calls, KeptSteps, ValueSteps
    <3> HIDE DEF K, M
    <3>2. Seq(M) \subseteq Seq(K) /\ \A v \in K : <<v>> \in Seq(K)
        BY <3>1, SMT
    <3> QED BY <3>1, <3>2, Zenon DEF K
  <2> HIDE DEF T, x
  <2>5. \A p \in Seq(Calls(KeptSteps)) : Leading(p \o x, KeptSteps, T)
      BY <2>2, <2>3, LeadBehind, Zenon
  <2> QED BY <1>3, <2>4, <2>5, Zenon DEF Push, x, T
<1> QED BY <1>1, <1>5, <1>6, <1>7, Zenon DEF TakeOK
-----------------------------------------------------------------------------
(* The kept, whatever the walk.                                             *)
LEMMA TakeHeld ==
    ASSUME StreamInv, TakeOK, todo # <<>>, Head(todo).do \notin KeptSteps \cup {"take"}
    PROVE  keeping = "no"
<1> SUFFICES ASSUME keeping # "no" PROVE FALSE
    OBVIOUS
<1>1. todo \in Seq(Tasks) /\ Leading(todo, KeptSteps, {"take"}) /\ Head(todo).do \notin {"take"}
    BY TodoTyped, Zenon DEF TakeOK
<1>2. Head(todo).do \in KeptSteps
    BY <1>1, LeadPop, Zenon
<1> QED BY <1>2

LEMMA OnlyTake ==
    ASSUME Scan, ~ Leaves, Head(todo).do = "take"
    PROVE  Take
<1>1. ~ CutShort
    BY Zenon DEF CutShort, Refuse
<1>2. ~ Space
    BY Zenon DEF Space, ReadsOctet, OctetSteps
<1>3. ~ (Expect \/ Chars \/ Scalar \/ Skip \/ Inside \/ After \/ Keep \/ First \/ More \/ Peek
         \/ Caught \/ End)
    BY Zenon DEF Expect, Chars, Scalar, Skip, Inside, After, Keep, First, More, Peek, Caught, End,
       Sees, Doing
<1> QED BY <1>1, <1>2, <1>3, Zenon DEF Scan

LEMMA KeptStays ==
    ASSUME IndInv, WalkInv, EndInv, KeptInv, [Next]_vars
    PROVE  KeptInv'
<1> SUFFICES ASSUME scenario.status = "ok"
             PROVE  /\ NestOK' /\ Backs(todo') /\ TakeOK'
                    /\ keeping' # "no" => Whole' /\ Stretch'
    BY ScenarioForever, Zenon DEF KeptInv, Backs, KeepOK, Backed
<1>1. NestOK /\ Backs(todo) /\ TakeOK /\ (keeping # "no" => Whole /\ Stretch)
    BY Zenon DEF KeptInv
<1>2. NestOK' /\ Backs(todo') /\ StreamInv
    BY <1>1, NestStays, KeepStays, Zenon DEF IndInv
<1>3. SUFFICES ASSUME keeping' # "no" PROVE Whole' /\ Stretch' /\ TakeOK'
    BY <1>2, Zenon DEF TakeOK
<1>4. ~ Leaves
    BY <1>3, Zenon DEF Leaves
<1>5. todo # <<>> /\ Head(todo).do \notin KeptSteps \cup {"take"} => keeping = "no"
    BY <1>1, <1>2, TakeHeld
<1>6. CASE Scan
  <2>1. CASE Head(todo).do \in KeptSteps
    <3>1. keeping # "no"
        BY <1>2, <1>3, <1>4, <1>6, <2>1, ValueTurns, Zenon
    <3> QED BY <1>1, <1>2, <1>3, <1>4, <1>6, <2>1, <3>1, KeptGrows
  <2>2. CASE Head(todo).do \notin KeptSteps
    <3>1. Head(todo).do # "take"
      <4>1. ASSUME Head(todo).do = "take" PROVE keeping' = "no"
          BY <1>4, <1>6, <4>1, OnlyTake, Zenon DEF Take
      <4> QED BY <1>3, <4>1, Zenon
    <3>2. keeping = "no"
        BY <1>5, <1>6, <2>2, <3>1, ScanNeeds, Zenon
    <3>3. Keep
        BY <1>2, <1>3, <1>4, <1>6, <2>2, <3>2, OtherTurns, Zenon
    <3> QED BY <1>1, <1>2, <3>3, KeptBegins
  <2> QED BY <2>1, <2>2
<1>7. CASE Program
  <2>1. todo # <<>> /\ Head(todo).do \notin KeptSteps \cup {"take"} /\ \E then : Proceed(then)
    <3>1. todo # <<>> /\ Head(todo).do \in {"yield", "store", "walk", "note", "returned"}
          /\ \E then : Proceed(then)
        BY <1>4, <1>7, ProgramSteps, Zenon
    <3> QED BY <3>1, Zenon DEF KeptSteps, TokenSteps, ValueSteps
  <2> QED BY <1>3, <1>5, <2>1, Zenon DEF Proceed
<1>8. CASE Quiet
  <2>1. /\ todo' = todo /\ nest' = nest /\ open' = open /\ kept' = kept /\ keeping' = keeping
        /\ text' = text /\ At' = At
      BY <1>8, Zenon DEF Quiet
  <2> QED BY <1>1, <1>3, <2>1, Zenon DEF Whole, Stretch, TakeOK
<1>9. CASE Tells
    BY <1>3, <1>5, <1>9, Zenon DEF Tells
<1> QED BY <1>4, <1>6, <1>7, <1>8, <1>9, EveryStep, Zenon

LEMMA KeptInitially == Init => KeptInv
<1> SUFFICES ASSUME Init, scenario.status = "ok"
             PROVE  nest = <<>> /\ Backs(todo) /\ keeping = "no"
    BY Zenon DEF KeptInv, NestOK, TakeOK
<1> DEFINE e == Step("end")  r == Step("read")
<1>1. nest = <<>> /\ keeping = "no" /\ todo = Generator("{") \o <<e, r>>
    BY Zenon DEF Init, StreamInit
<1>2. "{" \in Subjects /\ "none" \in Subjects /\ "end" \in Steps /\ "read" \in Steps
      /\ "end" # "keep" /\ "read" # "keep"
    BY Words, Zenon DEF Steps, Openers
<1>3. Backs(Generator("{")) /\ Backs(<<e>>) /\ Backs(<<r>>) /\ e \in Tasks /\ r \in Tasks
    BY <1>2, BacksAll, IsTask, Zenon
<1>5. e \in Tasks /\ r \in Tasks
    BY <1>2, IsTask, Zenon
<1> HIDE DEF e, r
<1>4. <<e, r>> = <<e>> \o <<r>>
  <2>1. <<e, r>> = Append(<<e>>, r)
      BY ONLY <1>5, SMT
  <2>2. Append(<<e>>, r) = <<e>> \o <<r>>
      BY ONLY <1>5, SMT
  <2> QED BY <2>1, <2>2
<1> QED BY <1>1, <1>3, <1>4, BacksAll, Zenon

(* What `value` and `_name` keep is json when they take it, whatever walk   *)
(* the caller reads the result by, and whatever refusal the walk caught     *)
(* before: the octets kept are a document of the grammar by themselves, and *)
(* utf-8, so that json.loads, which they are handed to, has nothing left to *)
(* refuse.  A name that outgrew its limit is let go, and keeps nothing.     *)
ParserTakesAll ==
    scenario.status = "ok" /\ Doing("take") /\ keeping # "no" => IsJson(kept)
THEOREM KeptIsJson == Spec => []ParserTakesAll
<1>1. Init => IndInv /\ WalkInv /\ EndInv /\ KeptInv /\ DecodedInv
  <2>1. ASSUME Init PROVE ~ NotUtf8(fetched) /\ ended = "no"
    <3>1. fetched = 0 /\ ended = "no"
        BY <2>1, Zenon DEF Init, StreamInit
    <3>2. 1 .. 0 = {}
        BY SMT
    <3> QED BY <3>1, <3>2, Zenon DEF NotUtf8
  <2> QED BY <2>1, KeptInitially, Initially, WalkInitially, EndInitially, Zenon DEF DecodedInv
<1>2. IndInv /\ WalkInv /\ EndInv /\ KeptInv /\ DecodedInv /\ [Next]_vars
      => (IndInv /\ WalkInv /\ EndInv /\ KeptInv /\ DecodedInv)'
    BY Stays, WalkStays, EndStays, KeptStays, DecodedStays
<1>3. IndInv /\ KeptInv /\ DecodedInv => ParserTakesAll
  <2> SUFFICES ASSUME IndInv, KeptInv, DecodedInv, scenario.status = "ok", Doing("take"),
                      keeping # "no"
               PROVE  IsJson(kept)
      BY Zenon DEF ParserTakesAll
  <2>1. StreamInv /\ Whole /\ Stretch /\ ~ NotUtf8(fetched) /\ todo # <<>> /\ Head(todo).do = "take"
      BY Zenon DEF IndInv, KeptInv, DecodedInv, Doing
  <2>2. /\ todo \in Seq(Tasks) /\ nest \in Seq(Openers) /\ open \in Int /\ kept \in Texts
        /\ text \in Seq(Octets) /\ At \in Nat /\ fetched \in Nat /\ At <= fetched
        /\ fetched <= Len(text)
      BY <2>1, Spots, Zenon DEF Texts
  <2>3. \A L \in Families : kept \in Elem(L)
      BY <2>1, <2>2, ProperAtLast, Zenon DEF Whole
  <2>4. kept \in Unbroken
    <3>1. Unbrokens["element"] = Unbroken
        BY Zenon DEF Unbrokens, Symbols
    <3> QED BY <2>3, <3>1, UnbrokenFamily, Zenon DEF Elem
  <2>5. PICK m \in 0 .. At : kept = SubSeq(text, m + 1, At)
      BY <2>1, Zenon DEF Stretch
  <2> DEFINE a == At
  <2>6. m \in Nat /\ m <= a /\ a <= fetched /\ a \in Nat
      BY <2>2, SMT
  <2>7. m = a \/ (text[m + 1] # "tail" /\ text[a] # "lead")
    <3>1. text \in Seq(Octets) /\ a <= Len(text) /\ m <= a /\ m \in Nat /\ a \in Nat
          /\ kept = SubSeq(text, m + 1, a)
      <4>1. Len(text) \in Nat
          BY <2>2, SMT
      <4>2. a <= Len(text)
        <5> DEFINE l == Len(text)
        <5> HIDE DEF a, l
        <5> QED BY <2>2, <2>6, <4>1, SMT DEF l
      <4> QED BY <2>2, <2>5, <2>6, <4>2
    <3> HIDE DEF a
    <3>2. m # a => kept[1] = text[m + 1] /\ kept[Len(kept)] = text[a]
        BY ONLY <3>1, SMT
    <3> QED BY <2>4, <3>2, Zenon DEF Unbroken
  <2>8. Utf8(kept)
      BY <2>1, <2>5, <2>6, <2>7, Utf8Part, Zenon
  <2> QED BY <2>3, <2>8, Zenon DEF IsJson, Elem
<1> QED BY <1>1, <1>2, <1>3, PTL DEF Spec
=============================================================================
