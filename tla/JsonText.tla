------------------------------ MODULE JsonText ------------------------------
(***************************************************************************)
(* What `json.loads` makes of a whole body, by recursive descent: what a   *)
(* reading of the same octets as they arrive is compared with.  Octets are *)
(* the classes of JsonStream.                                              *)
(***************************************************************************)
EXTENDS Naturals, Sequences, FiniteSetsExt

LOCAL At(t, i) == IF i \in DOMAIN t THEN t[i] ELSE "end"
Slice(t, v) == SubSeq(t, v.from, v.to - 1)

(* A value: where it begins, where it ends (0 where there is none), how     *)
(* deep it nests, its longest number, and the members or elements of it.   *)
Val(i, j, d, n, p) == [from |-> i, to |-> j, deep |-> d, digits |-> n, parts |-> p]
NoValue == Val(0, 0, 0, 0, <<>>)

RECURSIVE PastSpace(_, _)
PastSpace(t, i) == IF At(t, i) = " " THEN PastSpace(t, i + 1) ELSE i

(* Past the closing quote, from inside a string.                           *)
RECURSIVE StringEnd(_, _)
StringEnd(t, i) ==
    CASE At(t, i) \in {"end", "ctrl"} -> 0
      [] At(t, i) = "quote" -> i + 1
      [] At(t, i) = "\\" ->
            IF At(t, i + 1) \in {"quote", "\\", "n"} THEN StringEnd(t, i + 2)
            ELSE IF At(t, i + 1) = "u" /\ \A k \in i + 2 .. i + 5 : At(t, k) \in {"d", "0", "E"}
                 THEN StringEnd(t, i + 6) ELSE 0
      [] OTHER -> StringEnd(t, i + 1)

RECURSIVE DigitsEnd(_, _)
DigitsEnd(t, i) == IF At(t, i) \in {"0", "d"} THEN DigitsEnd(t, i + 1) ELSE i
NumberTo(t, i, j, k) ==
    IF k = j \/ At(t, k) = "E" THEN NoValue ELSE Val(i, k, 0, k - i, <<>>)
Unsigned(t, i, j) ==
    NumberTo(t, i, j, IF At(t, j) = "0" THEN j + 1 ELSE DigitsEnd(t, j))
Number(t, i) == Unsigned(t, i, IF At(t, i) = "-" THEN i + 1 ELSE i)

(* A string up to j, a container of what is inside it, and one element      *)
(* before the others; each of which may be none.                            *)
Text(i, j) == IF j = 0 THEN NoValue ELSE Val(i, j, 0, 0, <<>>)
Container(i, inner) ==
    IF inner.to = 0 THEN NoValue
    ELSE Val(i, inner.to, inner.deep + 1, inner.digits, inner.parts)
Joined(i, v, part, more) ==
    IF more.to = 0 THEN NoValue
    ELSE Val(i, more.to, Max({v.deep, more.deep}), Max({v.digits, more.digits}),
             <<part>> \o more.parts)

RECURSIVE Value_(_, _), Elements(_, _, _)
Inner(t, j, close) == IF At(t, j) = close THEN Val(j, j + 1, 0, 0, <<>>) ELSE Elements(t, j, close)
(* The value whose first octet is at i.                                    *)
Value_(t, i) ==
    CASE At(t, i) = "quote" -> Text(i, StringEnd(t, i + 1))
      [] At(t, i) = "n" /\ At(t, i + 1) = "l" -> Val(i, i + 2, 0, 0, <<>>)
      [] At(t, i) \in {"{", "["} ->
            Container(i, Inner(t, PastSpace(t, i + 1), IF t[i] = "{" THEN "}" ELSE "]"))
      [] OTHER -> Number(t, i)
(* The elements from the one at i to the end of the container, past it:     *)
(* the name, the colon behind it, the value and what is after that.         *)
From(t, i, close, part, v, after) ==
    CASE v.to = 0 -> NoValue
      [] v.to # 0 /\ At(t, after) = close -> Val(i, after + 1, v.deep, v.digits, <<part>>)
      [] v.to # 0 /\ At(t, after) = "," ->
            Joined(i, v, part, Elements(t, PastSpace(t, after + 1), close))
      [] OTHER -> NoValue
Element(t, i, close, name, v) ==
    From(t, i, close, [name |-> name, value |-> v], v, PastSpace(t, v.to))
Named_(t, i, nameEnd, colon) ==
    Element(t, i, "}", SubSeq(t, i, nameEnd - 1),
            IF nameEnd # 0 /\ At(t, colon) = ":" THEN Value_(t, PastSpace(t, colon + 1))
            ELSE NoValue)
NamedTo(t, i, nameEnd) == Named_(t, i, nameEnd, PastSpace(t, nameEnd))
Elements(t, i, close) ==
    IF close = "]" THEN Element(t, i, close, <<>>, Value_(t, i))
    ELSE NamedTo(t, i, IF At(t, i) = "quote" THEN StringEnd(t, i + 1) ELSE 0)

Torn_(t) ==
    \E i \in DOMAIN t :
        \/ t[i] = "tail" /\ At(t, i - 1) # "lead"
        \/ t[i] = "lead" /\ At(t, i + 1) # "tail"

(* The value a body is.                                                    *)
WholeOf(t, v) == IF Torn_(t) \/ v.to = 0 \/ PastSpace(t, v.to) # Len(t) + 1 THEN NoValue ELSE v
Document(t) == WholeOf(t, Value_(t, PastSpace(t, 1)))
=============================================================================
