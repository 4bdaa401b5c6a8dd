----------------------------- MODULE JsonStream -----------------------------
(***************************************************************************)
(* The scanner of client.py: one json document read a chunk at a time, in  *)
(* which any token may be cut anywhere.                                     *)
(*                                                                          *)
(* An octet is its class: "d" any digit but 0, "E" the exponent of a number *)
(* json has and Python does not build, "n" "l" a literal of two octets, "u" *)
(* the letter of a \u escape, "lead" and "tail" the two halves of a utf-8   *)
(* sequence, and a letter of Letters whatever else a string is made of.     *)
(*                                                                          *)
(* `todo` is the stack of Python calls, the innermost first: what is left   *)
(* to do once the octets for it are there.                                  *)
(***************************************************************************)
EXTENDS Integers, Sequences

CONSTANTS
    Letters,
    Chunk,     \* _READ_CHUNK
    MaxNumber, \* _MAX_STREAM_NUMBER
    MaxDepth,  \* _MAX_STREAM_DEPTH
    Limits     \* what a "name", a "member" of the reply, and a value of the
               \* "result" may weigh: _MAX_STREAM_NAME, max_body_size, and
               \* what the walk passes to `value`

Marks == {" ", "{", "}", "[", "]", ":", ",", "quote", "\\", "u", "d", "0", "-",
          "E", "n", "l", "ctrl", "lead", "tail"}
Octets == Marks \cup Letters

ASSUME StreamAssumption ==
    /\ Chunk \in Nat \ {0} /\ MaxNumber \in Nat \ {0} /\ MaxDepth \in Nat
    /\ Limits \in [{"name", "member", "result"} -> Nat]
    /\ Letters \cap Marks = {}

VARIABLES
    text,     \* the document, as the stream brings it
    fetched,  \* how much of it read() has answered
    offset,   \* _offset: how much of it was dropped from the buffer
    pos,      \* _pos
    ended,    \* _ended, "yes" or "no"
    keeping,  \* "no" (_kept is None), or kept under a "hard" or "soft" limit
    kept, limit,
    taken,    \* what the last `value` or `_name` answered
    open,     \* _open: how many containers the generators have entered
    nest,     \* open_, of the `skip` under way
    todo

streamVars ==
    <<text, fetched, offset, pos, ended, keeping, kept, limit, taken, open, nest, todo>>

Openers == {"{", "["}
(* The steps of the scanner, then those of the program that reads by it.    *)
Steps ==
    {"expect", "chars", "scalar", "keep", "skip", "inside", "after", "take", "first",
     "more", "yield", "peek", "end", "caught", "refused"}
    \cup {"store", "walk", "note", "returned", "read", "failure"}
Subjects ==
    Openers \cup {"none", "quote", ":", "name", "member", "result", "jsonrpc", "id", "error"}
Task(do, of) == [do |-> do, of |-> of]
Step(do) == Task(do, "none")
Tasks == [do : Steps, of : Subjects]
Refused == Step("refused")
String == <<Task("expect", "quote"), Step("chars")>>
MemberName == String \o <<Task("expect", ":")>>
KeepValue(of) == <<Task("keep", of), Step("skip"), Step("take")>>

StreamInit(document, first) ==
    /\ text = document
    /\ fetched = 0 /\ offset = 0 /\ pos = 0 /\ ended = "no"
    /\ keeping = "no" /\ kept = <<>> /\ limit = 0 /\ taken = <<>>
    /\ open = 0 /\ nest = <<>>
    /\ todo = first

At == offset + pos
Buffered == fetched - At
Octet == text[At + 1] \* the first octet of the buffer, where it has one
Closer(c) == IF c = "{" THEN "}" ELSE "]"
Rest == Tail(todo)
Doing(do) == todo # <<>> /\ Head(todo).do = do
Of == Head(todo).of

(* Every octet is consumed once, after it was fetched and before the next.  *)
StreamTypeOK ==
    /\ text \in Seq(Octets)
    /\ fetched \in 0 .. Len(text) /\ offset \in Nat /\ pos \in Nat /\ At <= fetched
    /\ ended \in {"yes", "no"} /\ keeping \in {"no", "hard", "soft"}
    /\ kept \in Seq(Octets) /\ limit \in Nat /\ taken \in Seq(Octets)
    /\ open \in Int /\ nest \in Seq(Openers)
    /\ todo \in Seq(Tasks)

-----------------------------------------------------------------------------
(* Refusing, and consuming.                                                *)

(* A FetchError leaves every call up to a walk that catches it, `value` and *)
(* `_name` keeping nothing on the way out; `_open` stays where it was.      *)
Catches(i) == todo[i].do = "caught" /\ \A j \in 1 .. i - 1 : todo[j].do # "caught"
Leaves ==
    /\ \/ \E i \in DOMAIN todo : Catches(i) /\ todo' = SubSeq(todo, i + 1, Len(todo))
       \/ (\A i \in DOMAIN todo : todo[i].do # "caught") /\ todo' = <<Refused>>
    /\ keeping' = "no" /\ kept' = <<>> /\ nest' = <<>>
    /\ UNCHANGED <<fetched, offset, ended, limit, taken, open>>
Refuse == Leaves /\ UNCHANGED <<text, pos>>

(* _advance: past a hard limit the octets stay unread, past a soft one they *)
(* are read and no longer kept.                                            *)
Outgrown(n) == keeping # "no" /\ Len(kept) + n > limit
Advance(n, then, within, entered) ==
    IF keeping = "hard" /\ Outgrown(n) THEN Refuse
    ELSE /\ pos' = pos + n
         /\ todo' = then /\ nest' = within /\ open' = entered
         /\ keeping' = IF Outgrown(n) THEN "no" ELSE keeping
         /\ kept' = IF keeping = "no" \/ Outgrown(n) THEN <<>>
                    ELSE kept \o SubSeq(text, At + 1, At + n)
         /\ UNCHANGED <<text, fetched, offset, ended, limit, taken>>
Consume(n, then) == Advance(n, then, nest, open)
(* Where a closer or a comma has to be, the octet is consumed before it is  *)
(* looked at.                                                              *)
RefuseConsumed ==
    IF keeping = "hard" /\ Outgrown(1) THEN Refuse
    ELSE Leaves /\ pos' = pos + 1 /\ UNCHANGED text
Proceed(then) ==
    /\ todo' = then
    /\ UNCHANGED <<text, fetched, offset, pos, ended, keeping, kept, limit, taken, open, nest>>

-----------------------------------------------------------------------------
(* Reading.                                                                *)

(* The steps that begin with _next_octet, or with _at_end.                  *)
OctetSteps == {"expect", "keep", "skip", "inside", "after", "first", "more", "peek", "end"}

(* What _ensure is asked for: six octets for a \u escape, two for another.  *)
EscapeSize == IF Buffered >= 2 /\ text[At + 2] = "u" THEN 6 ELSE 2
Wanted ==
    CASE Doing("chars") -> IF Buffered > 0 /\ Octet = "\\" THEN EscapeSize ELSE 1
      [] Doing("scalar") -> MaxNumber + 1
      [] OTHER -> 1
ReadsOctet ==
    todo # <<>> /\ Head(todo).do \in OctetSteps /\ (Doing("after") => nest # <<>>)
Reads == ReadsOctet \/ Doing("chars") \/ Doing("scalar")
Wants == Reads /\ ended = "no" /\ Buffered < Wanted
Has == Reads /\ Buffered >= Wanted
CutOff == Reads /\ ended = "yes" /\ Buffered < Wanted

(* What the incremental decoder refuses, of the first n octets.             *)
NotUtf8(n) ==
    \E i \in 1 .. n :
        \/ text[i] = "tail" /\ (IF i = 1 THEN TRUE ELSE text[i - 1] # "lead")
        \/ text[i] = "lead" /\ i < n /\ text[i + 1] # "tail"
Torn == fetched > 0 /\ text[fetched] = "lead"

FaultyFetch(n) == \* a fault: the position is not moved back with the buffer
    /\ fetched' = fetched + n
    /\ offset' = offset + pos
    /\ UNCHANGED <<text, pos, ended, keeping, kept, limit, taken, open, nest, todo>>
FaultyFetchAll(n) == \* a fault: what was consumed is not dropped
    /\ fetched' = fetched + n
    /\ UNCHANGED <<text, offset, pos, ended, keeping, kept, limit, taken, open, nest, todo>>
Fetch(n) ==
    /\ fetched' = fetched + n
    /\ offset' = offset + pos
    /\ pos' = 0
    /\ UNCHANGED <<text, ended, keeping, kept, limit, taken, open, nest, todo>>

(* A chunk that is no utf-8 was read and is in no buffer: where the refusal *)
(* is caught, the stream goes on behind it.                                *)
DropChunk(n) ==
    /\ Leaves /\ UNCHANGED pos
    /\ text' = SubSeq(text, 1, fetched) \o SubSeq(text, fetched + n + 1, Len(text))

(* _fill: read(_READ_CHUNK) answers a chunk of any size, or the end.        *)
FillEnd ==
    IF Torn THEN Refuse
    ELSE /\ ended' = "yes"
         /\ UNCHANGED <<text, fetched, offset, pos, keeping, kept, limit, taken, open,
                        nest, todo>>
Fill ==
    /\ Wants
    /\ \/ \E n \in 1 .. Chunk :
            /\ fetched + n <= Len(text)
            /\ IF NotUtf8(fetched + n) THEN DropChunk(n) ELSE Fetch(n)
       \/ fetched = Len(text) /\ FillEnd

(* "a reply cut short": every step but `end` and a scalar, which makes do   *)
(* with what there is.                                                     *)
CutShort == CutOff /\ ~ Doing("end") /\ ~ Doing("scalar") /\ Refuse

(* The longest run of octets of S at the start of the buffer.               *)
Run(S, n) ==
    /\ n \in 1 .. Buffered
    /\ \A i \in 1 .. n : text[At + i] \in S
    /\ n < Buffered => text[At + n + 1] \notin S
Space ==
    /\ ReadsOctet /\ Has
    /\ \E n \in 1 .. Buffered : Run({" "}, n) /\ Consume(n, todo)

Sees(do) == Doing(do) /\ Has /\ Octet # " "

-----------------------------------------------------------------------------
(* One token.                                                              *)

Expect ==
    /\ Sees("expect")
    /\ IF Octet = Of THEN Consume(1, Rest) ELSE Refuse

(* The rest of a string.                                                   *)
Plain == Octets \ {"quote", "\\", "ctrl"}
Hex == {"d", "0", "E"}
Escape ==
    IF EscapeSize = 6
    THEN IF \A i \in 3 .. 6 : text[At + i] \in Hex THEN Consume(6, todo) ELSE Refuse
    ELSE IF text[At + 2] \in {"quote", "\\", "n"} THEN Consume(2, todo) ELSE Refuse
Chars ==
    /\ Doing("chars") /\ Has
    /\ \/ \E n \in 1 .. Buffered : Run(Plain, n) /\ Consume(n, todo)
       \/ Octet = "quote" /\ Consume(1, Rest)
       \/ Octet = "ctrl" /\ Refuse
       \/ Octet = "\\" /\ Escape

(* What _STREAM_NUMBER matches, and the longest match in the buffer.        *)
Digits(s) ==
    /\ s # <<>> /\ \A i \in DOMAIN s : s[i] \in {"0", "d"}
    /\ s[1] = "0" => Len(s) = 1
Magnitude(s) == IF s # <<>> /\ s[1] = "-" THEN Tail(s) ELSE s
Mantissa(s) == IF s[Len(s)] = "E" THEN SubSeq(s, 1, Len(s) - 1) ELSE s
IsNumber(s) == Digits(Magnitude(s)) \/ (Len(s) > 1 /\ Digits(Magnitude(Mantissa(s))))
NumberHere(n) == n \in 1 .. Buffered /\ IsNumber(SubSeq(text, At + 1, At + n))
Literal == Buffered >= 2 /\ SubSeq(text, At + 1, At + 2) = <<"n", "l">>
Longest(n) == NumberHere(n) /\ \A m \in n + 1 .. Buffered : ~ NumberHere(m)

FaultyScalarReady == Buffered > 0 \* a fault: a scalar is matched in what is there
ScalarReady == Has \/ CutOff
Scalar ==
    /\ Doing("scalar") /\ ScalarReady
    /\ \/ Literal /\ Consume(2, Rest)
       \/ /\ ~ Literal
          /\ \E n \in 1 .. Buffered :
                /\ Longest(n)
                /\ IF n > MaxNumber \/ text[At + n] = "E" THEN Refuse ELSE Consume(n, Rest)
       \/ ~ Literal /\ (\A n \in 1 .. Buffered : ~ NumberHere(n)) /\ Refuse

-----------------------------------------------------------------------------
(* One value: `skip`, and `_next_in` after each value inside it.            *)

Skip ==
    /\ Sees("skip")
    /\ CASE Octet \in Openers ->
              IF Len(nest) = MaxDepth THEN Refuse
              ELSE Consume(1, <<Task("inside", Octet)>> \o Rest)
         [] Octet = "quote" -> Proceed(String \o <<Step("after")>> \o Rest)
         [] OTHER -> Proceed(<<Step("scalar"), Step("after")>> \o Rest)

(* What comes before a value in the container c.                            *)
InContainer(c) == IF c = "{" THEN MemberName ELSE <<>>

Inside ==
    /\ Sees("inside")
    /\ IF Octet = Closer(Of) THEN Consume(1, <<Step("after")>> \o Rest)
       ELSE /\ todo' = InContainer(Of) \o <<Step("skip")>> \o Rest
            /\ nest' = Append(nest, Of)
            /\ UNCHANGED <<text, fetched, offset, pos, ended, keeping, kept, limit, taken, open>>

Front(s) == SubSeq(s, 1, Len(s) - 1)
After ==
    \/ Doing("after") /\ nest = <<>> /\ Proceed(Rest)
    \/ /\ nest # <<>> /\ Sees("after")
       /\ LET c == nest[Len(nest)] IN
          CASE Octet = Closer(c) -> Advance(1, todo, Front(nest), open)
            [] Octet = "," -> Consume(1, InContainer(c) \o <<Step("skip")>> \o Rest)
            [] OTHER -> RefuseConsumed

-----------------------------------------------------------------------------
(* `value` and `_name`: what is consumed from here is kept.                 *)

FaultyKeep == \* a fault: a value over its limit is let go, as a name is
    /\ Sees("keep")
    /\ keeping' = "soft"
    /\ kept' = <<>> /\ limit' = Limits[Of] /\ todo' = Rest
    /\ UNCHANGED <<text, fetched, offset, pos, ended, taken, open, nest>>
Keep ==
    /\ Sees("keep")
    /\ keeping' = IF Of = "name" THEN "soft" ELSE "hard"
    /\ kept' = <<>> /\ limit' = Limits[Of] /\ todo' = Rest
    /\ UNCHANGED <<text, fetched, offset, pos, ended, taken, open, nest>>

(* Nothing where a name outgrew its limit, which is None.                   *)
Take ==
    /\ Doing("take")
    /\ taken' = kept /\ kept' = <<>> /\ keeping' = "no" /\ todo' = Rest
    /\ UNCHANGED <<text, fetched, offset, pos, ended, limit, open, nest>>

(* The generators `members` and `items`, of a container with the given      *)
(* opener: up to the first name or element, and from one to the next.       *)
Entry(c) ==
    (IF c = "{" THEN <<Task("keep", "name")>> \o String
                     \o <<Step("take"), Task("expect", ":")>> ELSE <<>>)
    \o <<Task("yield", c), Task("more", c)>>
Generator(c) == <<Task("expect", c), Task("first", c)>>

First ==
    /\ Sees("first")
    /\ IF Octet = Closer(Of) THEN Consume(1, Rest)
       ELSE /\ todo' = Entry(Of) \o Rest
            /\ open' = open + 1
            /\ UNCHANGED <<text, fetched, offset, pos, ended, keeping, kept, limit, taken, nest>>
More ==
    /\ Sees("more")
    /\ CASE Octet = Closer(Of) -> Advance(1, Rest, nest, open - 1)
         [] Octet = "," -> Consume(1, Entry(Of) \o Rest)
         [] OTHER -> RefuseConsumed

Peek == Sees("peek") /\ Proceed(Rest)
Caught == Doing("caught") /\ Proceed(Rest)

(* `end`, which answers where the stream ends.                              *)
End ==
    \/ Sees("end") /\ Refuse
    \/ Doing("end") /\ CutOff /\ Proceed(Rest)

Scan ==
    \/ CutShort \/ Space \/ Expect \/ Chars \/ Scalar \/ Skip \/ Inside \/ After
    \/ Keep \/ Take \/ First \/ More \/ Peek \/ Caught \/ End
=============================================================================
