------------------------ MODULE StreamedResultProofs ------------------------
(***************************************************************************)
(* What a streamed call holds of a reply, and what it tells of it,         *)
(* whatever the reply, the walk and the chunks: TypeOK, HeldIsBounded and  *)
(* LateWalkIsNoAnswer of StreamedResult, and three properties stated       *)
(* here.                                                                   *)
(*                                                                         *)
(* What it holds: `skip` looks at the depth before it consumes an opener   *)
(* and `inside` enters the container, with nothing between them but a      *)
(* read; so "inside" is only ever the innermost call, and where it is      *)
(* there is room.                                                          *)
(*                                                                         *)
(* What it tells rests on the order of the calls under way.  There is one  *)
(* walk, what catches a refusal runs inside of it, and behind it is what   *)
(* reads the rest of the reply: so a walk the deadline ended is followed   *)
(* by a read that refuses (LateIsRefused), and a result is told only       *)
(* behind the one call that looks for the end of the document              *)
(* (AllIsRead).  A number is consumed with an octet more in memory than    *)
(* the longest one (NumbersKept), and of the body of a failure no more is  *)
(* read than its first octets (FailureToldByItsBody).                      *)
(***************************************************************************)
EXTENDS StreamedResult, SequenceTheorems, TLAPS

(* The calls that may be under way behind the innermost one.                *)
Later == {t \in Tasks : t.do # "inside" /\ (t.do = "keep" => t.of \in {"name", "member", "result"})}
(* Those of them that are neither the walk, nor what it runs in, nor the    *)
(* last call of all.                                                        *)
Special == {"walk", "returned", "caught", "failure", "read"}
Ordinary == {t \in Later : t.do \notin Special}
Entering == {Task("inside", c) : c \in Openers}
Stack(s, entered) ==
    \/ s \in Seq(Later)
    \/ s # <<>> /\ s \in Seq(Tasks) /\ Head(s) \in Entering /\ Tail(s) \in Seq(Later)
       /\ entered < MaxDepth

Positions ==
    /\ text \in Seq(Octets)
    /\ fetched \in 0 .. Len(text) /\ offset \in Nat /\ pos \in Nat /\ At <= fetched
    /\ fetched - offset <= LookAhead - 1 + Chunk \/ fetched <= MaxError
KeptOK ==
    /\ keeping \in {"no", "hard", "soft"} /\ kept \in Seq(Octets) /\ limit \in Nat
    /\ taken \in Seq(Octets) /\ Len(kept) <= limit
StackOK ==
    /\ Stack(todo, Len(nest))
    /\ nest \in Seq(Openers) /\ Len(nest) <= MaxDepth
StreamInv == Positions /\ KeptOK /\ StackOK /\ ended \in {"yes", "no"} /\ open \in Int

(***************************************************************************)
(* The stack of calls.                                                     *)
(***************************************************************************)
LEMMA Pops ==
    ASSUME NEW s, NEW d, Stack(s, d), s # <<>>
    PROVE  Tail(s) \in Seq(Later) /\ Head(s) \in Tasks
BY SMT DEF Stack, Later

LEMMA NotEntering ==
    ASSUME NEW s, NEW d, Stack(s, d), s # <<>>, Head(s).do # "inside"
    PROVE  s \in Seq(Later) /\ Head(s) \in Later
BY SMT DEF Stack, Entering, Task, Later

LEMMA Unwinds ==
    ASSUME NEW s, NEW d, Stack(s, d), NEW i \in DOMAIN s
    PROVE  SubSeq(s, i + 1, Len(s)) \in Seq(Later)
<1>1. s # <<>> /\ s \in Seq(Tasks) /\ Tail(s) \in Seq(Later)
    BY SMT DEF Stack, Later
<1>2. \A j \in 2 .. Len(s) : s[j] \in Later
    BY <1>1, SMT
<1> QED BY <1>1, <1>2, SMT

-----------------------------------------------------------------------------
(* What the steps are made of keeps the invariant.                         *)

USE StreamAssumption

LEMMA LeavesStack ==
    ASSUME StackOK, Leaves
    PROVE  StackOK'
<1>1. todo' \in Seq(Later)
  <2>1. CASE \E i \in DOMAIN todo : Catches(i) /\ todo' = SubSeq(todo, i + 1, Len(todo))
    <3>1. PICK i \in DOMAIN todo : todo' = SubSeq(todo, i + 1, Len(todo))
        BY <2>1, Zenon
    <3>2. Stack(todo, Len(nest))
        BY Zenon DEF StackOK
    <3> QED BY <3>1, <3>2, Unwinds, Zenon
  <2>2. CASE todo' = <<Refused>>
    <3>1. Refused \in Later
        BY SMT DEF Refused, Step, Task, Tasks, Later, Steps, Subjects
    <3> QED BY <2>2, <3>1, SMT
  <2> QED BY <2>1, <2>2, Zenon DEF Leaves
<1>2. nest' = <<>>
    BY SMT DEF Leaves
<1>3. nest' \in Seq(Openers) /\ Len(nest') = 0
    BY <1>2, SMT
<1> QED BY <1>1, <1>3, SMT DEF StackOK, Stack

LEMMA LeavesKept ==
    ASSUME KeptOK, Leaves
    PROVE  KeptOK' /\ ended' = ended /\ open' = open
BY SMT DEF KeptOK, Leaves

LEMMA RefuseKeeps ==
    ASSUME StreamInv, Refuse
    PROVE  StreamInv'
<1>1. Positions'
    BY SMT DEF StreamInv, Positions, Refuse, Leaves, At
<1> QED BY <1>1, LeavesStack, LeavesKept, SMT DEF StreamInv, Refuse

LEMMA RefuseConsumedKeeps ==
    ASSUME StreamInv, Buffered >= 1, RefuseConsumed
    PROVE  StreamInv'
<1>1. CASE Refuse
    BY <1>1, RefuseKeeps
<1>2. CASE Leaves /\ pos' = pos + 1 /\ UNCHANGED text
  <2>1. Positions'
      BY <1>2, SMT DEF StreamInv, Positions, Leaves, At, Buffered
  <2> QED BY <1>2, <2>1, LeavesStack, LeavesKept, SMT DEF StreamInv
<1> QED BY <1>1, <1>2, Zenon DEF RefuseConsumed

LEMMA AdvanceKeeps ==
    ASSUME StreamInv, NEW n \in Nat, n <= Buffered, NEW then,
           NEW within \in Seq(Openers), NEW entered \in Int,
           Stack(then, Len(within)), Len(within) <= MaxDepth,
           Advance(n, then, within, entered)
    PROVE  StreamInv'
<1>1. CASE keeping = "hard" /\ Outgrown(n)
    BY <1>1, RefuseKeeps, Zenon DEF Advance
<1>2. CASE ~ (keeping = "hard" /\ Outgrown(n))
  <2>1. /\ pos' = pos + n
        /\ todo' = then /\ nest' = within /\ open' = entered
        /\ keeping' = IF Outgrown(n) THEN "no" ELSE keeping
        /\ kept' = IF keeping = "no" \/ Outgrown(n) THEN <<>>
                   ELSE kept \o SubSeq(text, At + 1, At + n)
        /\ UNCHANGED <<text, fetched, offset, ended, limit, taken>>
      BY <1>2, Zenon DEF Advance
  <2>2. Positions'
      BY <2>1, SMT DEF StreamInv, Positions, At, Buffered
  <2>3. StackOK'
      BY <2>1, SMT DEF StackOK
  <2>4. KeptOK'
    <3> DEFINE read == SubSeq(text, At + 1, At + n)
    <3>1. read \in Seq(Octets) /\ Len(read) = n
        BY SMT DEF StreamInv, Positions, At, Buffered
    <3> HIDE DEF read
    <3>2. CASE keeping = "no" \/ Outgrown(n)
        BY <2>1, <3>2, SMT DEF StreamInv, KeptOK
    <3>3. CASE ~ (keeping = "no" \/ Outgrown(n))
      <4>1. kept' = kept \o read
          BY <2>1, <3>3, Zenon DEF read
      <4>2. Len(kept) + n <= limit
          BY <3>3, SMT DEF Outgrown, StreamInv, KeptOK
      <4>3. kept' \in Seq(Octets) /\ Len(kept') <= limit
          BY <3>1, <4>1, <4>2, SMT DEF StreamInv, KeptOK
      <4> QED BY <2>1, <3>3, <4>3, SMT DEF StreamInv, KeptOK
    <3> QED BY <3>2, <3>3
  <2> QED BY <2>1, <2>2, <2>3, <2>4, SMT DEF StreamInv
<1> QED BY <1>1, <1>2

LEMMA ConsumeKeeps ==
    ASSUME StreamInv, NEW n \in Nat, n <= Buffered, NEW then,
           Stack(then, Len(nest)), Consume(n, then)
    PROVE  StreamInv'
<1>1. nest \in Seq(Openers) /\ Len(nest) <= MaxDepth /\ open \in Int
    BY Zenon DEF StreamInv, StackOK
<1>2. Advance(n, then, nest, open)
    BY Zenon DEF Consume
<1> QED BY <1>1, <1>2, AdvanceKeeps, Zenon

LEMMA ProceedKeeps ==
    ASSUME StreamInv, NEW then, Stack(then, Len(nest)), Proceed(then)
    PROVE  StreamInv'
BY SMT DEF StreamInv, Proceed, Positions, KeptOK, StackOK, At

LEMMA FetchKeeps ==
    ASSUME StreamInv, NEW n \in Nat, fetched + n <= Len(text), Fetch(n),
           Buffered + n <= LookAhead - 1 + Chunk \/ fetched + n <= MaxError
    PROVE  StreamInv'
<1>1. Positions'
    BY SMT DEF StreamInv, Positions, Fetch, At, Buffered, LookAhead
<1> QED BY <1>1, SMT DEF StreamInv, Fetch, KeptOK, StackOK

LEMMA DropKeeps ==
    ASSUME StreamInv, NEW n \in Nat, fetched + n <= Len(text), DropChunk(n)
    PROVE  StreamInv'
<1>1. Positions'
  <2> DEFINE read == SubSeq(text, 1, fetched)
             behind == SubSeq(text, fetched + n + 1, Len(text))
  <2>1. read \in Seq(Octets) /\ Len(read) = fetched /\ behind \in Seq(Octets)
      BY SMT DEF StreamInv, Positions
  <2>2. text' = read \o behind /\ UNCHANGED <<fetched, offset, pos>>
      BY SMT DEF DropChunk, Leaves
  <2> HIDE DEF read, behind
  <2>3. text' \in Seq(Octets) /\ Len(text') >= fetched
      BY <2>1, <2>2, SMT DEF StreamInv, Positions
  <2> QED BY <2>2, <2>3, SMT DEF StreamInv, Positions, At
<1> QED BY <1>1, LeavesStack, LeavesKept, SMT DEF StreamInv, DropChunk

LEMMA FillEndKeeps ==
    ASSUME StreamInv, FillEnd
    PROVE  StreamInv'
<1>1. CASE Refuse
    BY <1>1, RefuseKeeps
<1>2. CASE ended' = "yes" /\ UNCHANGED <<text, fetched, offset, pos, keeping, kept, limit,
                                         taken, open, nest, todo>>
    BY <1>2, SMT DEF StreamInv, Positions, KeptOK, StackOK, At
<1> QED BY <1>1, <1>2, Zenon DEF FillEnd

-----------------------------------------------------------------------------
(* What the steps put on the stack.                                        *)

LEMMA Words ==
    /\ {"none", "quote", ":"} \subseteq Subjects
    /\ {"name", "member", "result"} \subseteq Subjects
    /\ Envelope \subseteq Subjects /\ Openers \subseteq Subjects
BY Zenon DEF Subjects, Envelope

LEMMA LaterCall ==
    ASSUME NEW do \in Steps, NEW of \in Subjects, do # "inside",
           do = "keep" => of \in {"name", "member", "result"}
    PROVE  Task(do, of) \in Later
BY SMT DEF Later, Tasks, Task

LEMMA LaterStep ==
    ASSUME NEW do \in Steps, do \notin {"keep", "inside"}
    PROVE  Step(do) \in Later
BY Words, LaterCall, SMT DEF Step

LEMMA OrdinaryCall ==
    ASSUME NEW do \in Steps, NEW of \in Subjects, do # "inside", do \notin Special,
           do = "keep" => of \in {"name", "member", "result"}
    PROVE  Task(do, of) \in Ordinary
BY SMT DEF Ordinary, Later, Tasks, Task

LEMMA OrdinaryStep ==
    ASSUME NEW do \in Steps, do \notin Special, do \notin {"keep", "inside"}
    PROVE  Step(do) \in Ordinary
BY Words, OrdinaryCall, SMT DEF Step

LEMMA AllOrdinary ==
    /\ MemberName \in Seq(Ordinary) /\ String \in Seq(Ordinary)
    /\ \A of \in {"name", "member", "result"} : KeepValue(of) \in Seq(Ordinary)
    /\ \A c \in Subjects : InContainer(c) \in Seq(Ordinary) /\ Entry(c) \in Seq(Ordinary)
                           /\ Generator(c) \in Seq(Ordinary)
<1>1. String \in Seq(Ordinary)
  <2>1. Task("expect", "quote") \in Ordinary
      BY Words, OrdinaryCall, SMT DEF Steps, Special
  <2>2. Step("chars") \in Ordinary
      BY OrdinaryStep, SMT DEF Steps, Special
  <2> QED BY <2>1, <2>2, SMT DEF String
<1>2. Task("expect", ":") \in Ordinary
    BY Words, OrdinaryCall, SMT DEF Steps, Special
<1>3. MemberName \in Seq(Ordinary)
  <2>1. <<Task("expect", ":")>> \in Seq(Ordinary)
      BY <1>2, SMT
  <2> QED BY <1>1, <2>1, SMT DEF MemberName
<1>4. ASSUME NEW of \in {"name", "member", "result"} PROVE KeepValue(of) \in Seq(Ordinary)
  <2>1. Step("skip") \in Ordinary /\ Step("take") \in Ordinary
      BY OrdinaryStep, SMT DEF Steps, Special
  <2>2. Task("keep", of) \in Ordinary
      BY Words, OrdinaryCall, SMT DEF Steps, Special
  <2> QED BY <2>1, <2>2, SMT DEF KeepValue
<1>5. ASSUME NEW c \in Subjects
      PROVE  InContainer(c) \in Seq(Ordinary) /\ Entry(c) \in Seq(Ordinary)
             /\ Generator(c) \in Seq(Ordinary)
  <2>2. <<>> \in Seq(Ordinary)
      BY SMT
  <2>3. InContainer(c) \in Seq(Ordinary)
      BY <1>3, <2>2, Zenon DEF InContainer
  <2>4. Generator(c) \in Seq(Ordinary)
    <3>1. Task("expect", c) \in Ordinary /\ Task("first", c) \in Ordinary
        BY OrdinaryCall, SMT DEF Steps, Special
    <3> QED BY <3>1, SMT DEF Generator
  <2>5. Entry(c) \in Seq(Ordinary)
    <3> DEFINE name == <<Task("keep", "name")>> \o String
                       \o <<Step("take"), Task("expect", ":")>>
               named == IF c = "{" THEN name ELSE <<>>
               on == <<Task("yield", c), Task("more", c)>>
    <3>1. Task("yield", c) \in Ordinary /\ Task("more", c) \in Ordinary
        BY OrdinaryCall, SMT DEF Steps, Special
    <3>2. on \in Seq(Ordinary)
        BY <3>1, SMT
    <3>3. Task("keep", "name") \in Ordinary /\ Step("take") \in Ordinary
        BY Words, OrdinaryCall, OrdinaryStep, SMT DEF Steps, Special
    <3>4. name \in Seq(Ordinary)
        BY <1>1, <1>2, <3>3, SMT
    <3>5. named \in Seq(Ordinary)
        BY <2>2, <3>4, Zenon
    <3>6. Entry(c) = named \o on
        BY Zenon DEF Entry
    <3> HIDE DEF named, on
    <3> QED BY <3>2, <3>5, <3>6, SMT
  <2> QED BY <2>3, <2>4, <2>5
<1> QED BY <1>1, <1>3, <1>4, <1>5

LEMMA PutTogether ==
    /\ MemberName \in Seq(Later) /\ String \in Seq(Later)
    /\ \A of \in {"name", "member", "result"} : KeepValue(of) \in Seq(Later)
    /\ \A c \in Subjects : InContainer(c) \in Seq(Later) /\ Entry(c) \in Seq(Later)
                           /\ Generator(c) \in Seq(Later)
<1>1. \A s \in Seq(Ordinary) : s \in Seq(Later)
    BY SMT DEF Ordinary
<1> QED BY <1>1, AllOrdinary, Zenon

LEMMA Pushes ==
    ASSUME NEW s, NEW d, Stack(s, d), s # <<>>, NEW p \in Seq(Later), NEW e
    PROVE  Stack(Tail(s), e) /\ Stack(p \o Tail(s), e)
<1>1. Tail(s) \in Seq(Later)
    BY Pops
<1> QED BY <1>1, SMT DEF Stack

LEMMA PushesOne ==
    ASSUME NEW s, NEW d, Stack(s, d), s # <<>>, NEW t \in Later, NEW e
    PROVE  Stack(<<t>> \o Tail(s), e)
<1>1. <<t>> \in Seq(Later)
    BY SMT
<1> QED BY <1>1, Pushes

-----------------------------------------------------------------------------
(* The steps of the scanner.                                               *)

LEMMA Room ==
    ASSUME StreamInv
    PROVE  /\ Stack(todo, Len(nest)) /\ nest \in Seq(Openers) /\ Len(nest) <= MaxDepth
           /\ Buffered \in Int
BY SMT DEF StreamInv, StackOK, Positions, Buffered, At

LEMMA SeesOctet ==
    ASSUME StreamInv, ReadsOctet, Has
    PROVE  Buffered >= 1
<1>1. Wanted = 1
    BY SMT DEF Wanted, ReadsOctet, OctetSteps, Doing
<1> QED BY <1>1, Room, SMT DEF Has

LEMMA RestStacks ==
    ASSUME StreamInv, todo # <<>>
    PROVE  Stack(Rest, Len(nest))
BY Room, Pops, Zenon DEF Rest, Stack

LEMMA PushStacks ==
    ASSUME StreamInv, todo # <<>>, NEW p \in Seq(Later), NEW e
    PROVE  Stack(p \o Rest, e)
BY Room, Pushes, Zenon DEF Rest

LEMMA PushOneStacks ==
    ASSUME StreamInv, todo # <<>>, NEW p \in Seq(Later), NEW t \in Later, NEW e
    PROVE  Stack(p \o <<t>> \o Rest, e)
<1>1. p \o <<t>> \in Seq(Later)
    BY SMT
<1> QED BY <1>1, PushStacks

LEMMA Saw ==
    ASSUME StreamInv, NEW do \in OctetSteps, Sees(do), do # "after" \/ nest # <<>>
    PROVE  todo # <<>> /\ Head(todo).do = do /\ Buffered >= 1
<1>1. ReadsOctet
    BY Zenon DEF Sees, ReadsOctet, Doing
<1> QED BY <1>1, SeesOctet, Zenon DEF Sees, Doing

LEMMA SpaceKeeps == ASSUME StreamInv, Space PROVE StreamInv'
<1>1. PICK n \in 1 .. Buffered : Consume(n, todo)
    BY Zenon DEF Space
<1> QED BY <1>1, Room, ConsumeKeeps, SMT

LEMMA ExpectKeeps == ASSUME StreamInv, Expect PROVE StreamInv'
<1>1. todo # <<>> /\ Buffered >= 1
    BY Saw, Zenon DEF Expect, OctetSteps
<1>2. CASE Consume(1, Rest)
    BY <1>1, <1>2, RestStacks, ConsumeKeeps, SMT
<1> QED BY <1>2, RefuseKeeps, Zenon DEF Expect

LEMMA CharsKeeps == ASSUME StreamInv, Chars PROVE StreamInv'
<1>1. todo # <<>> /\ Buffered >= Wanted
    BY Zenon DEF Chars, Has, Doing
<1>2. Wanted = IF Buffered > 0 /\ Octet = "\\" THEN EscapeSize ELSE 1
    BY SMT DEF Wanted, Chars, Doing
<1>3. EscapeSize = 6 \/ EscapeSize = 2
    BY Zenon DEF EscapeSize
<1>4. Buffered >= 1
    BY <1>1, <1>2, <1>3, Room, SMT
<1>5. ASSUME NEW n \in 1 .. Buffered, Consume(n, todo) PROVE StreamInv'
    BY <1>5, Room, ConsumeKeeps, SMT
<1>6. CASE Consume(1, Rest)
    BY <1>1, <1>4, <1>6, RestStacks, ConsumeKeeps, SMT
<1>7. CASE Octet = "\\" /\ Escape
  <2>1. Buffered >= EscapeSize
      BY <1>1, <1>2, <1>4, <1>7, Room, SMT
  <2>2. CASE EscapeSize = 6 /\ Consume(6, todo)
    <3>1. 6 \in 1 .. Buffered
        BY <2>1, <2>2, Room, SMT
    <3> QED BY <1>5, <2>2, <3>1
  <2>3. CASE Consume(2, todo)
    <3>1. 2 \in 1 .. Buffered
        BY <1>3, <2>1, Room, SMT
    <3> QED BY <1>5, <2>3, <3>1
  <2> QED BY <1>7, <2>2, <2>3, RefuseKeeps, Zenon DEF Escape
<1> QED BY <1>5, <1>6, <1>7, RefuseKeeps, Zenon DEF Chars

LEMMA ScalarKeeps == ASSUME StreamInv, Scalar PROVE StreamInv'
<1>1. todo # <<>>
    BY Zenon DEF Scalar, Doing
<1>2. CASE Literal /\ Consume(2, Rest)
  <2>1. Buffered >= 2
      BY <1>2, Zenon DEF Literal
  <2> QED BY <1>1, <1>2, <2>1, RestStacks, ConsumeKeeps, SMT
<1>3. ASSUME NEW n \in 1 .. Buffered, Consume(n, Rest) PROVE StreamInv'
    BY <1>1, <1>3, Room, RestStacks, ConsumeKeeps, SMT
<1> QED BY <1>2, <1>3, RefuseKeeps, Zenon DEF Scalar

LEMMA SkipKeeps == ASSUME StreamInv, Skip PROVE StreamInv'
<1>1. todo # <<>> /\ Buffered >= 1
    BY Saw, Zenon DEF Skip, OctetSteps
<1>2. CASE Octet \in Openers /\ Len(nest) # MaxDepth
           /\ Consume(1, <<Task("inside", Octet)>> \o Rest)
  <2> DEFINE t == Task("inside", Octet)
  <2>1. t \in Entering /\ t \in Tasks
    <3>1. Octet \in Subjects
        BY <1>2, Words, Zenon
    <3> QED BY <1>2, <3>1, SMT DEF Entering, Tasks, Task, Steps
  <2>2. Rest \in Seq(Later)
      BY <1>1, Room, Pops, Zenon DEF Rest
  <2>3. Rest \in Seq(Tasks)
      BY <2>2, SMT DEF Later
  <2> HIDE DEF t
  <2>4. /\ <<t>> \o Rest \in Seq(Tasks) /\ <<t>> \o Rest # <<>>
        /\ Head(<<t>> \o Rest) = t /\ Tail(<<t>> \o Rest) = Rest
      BY <2>1, <2>3, SMT
  <2>5. Len(nest) < MaxDepth
      BY <1>2, Room, SMT
  <2>6. Stack(<<t>> \o Rest, Len(nest))
      BY <2>1, <2>2, <2>4, <2>5, Zenon DEF Stack
  <2>7. Consume(1, <<t>> \o Rest)
      BY <1>2, Zenon DEF t
  <2> QED BY <1>1, <2>6, <2>7, ConsumeKeeps, SMT
<1>3. CASE Proceed(String \o <<Step("after")>> \o Rest)
  <2>1. Step("after") \in Later
      BY LaterStep, SMT DEF Steps
  <2> QED BY <1>1, <1>3, <2>1, PutTogether, PushOneStacks, ProceedKeeps, Zenon
<1>4. CASE Proceed(<<Step("scalar"), Step("after")>> \o Rest)
  <2>1. Step("after") \in Later /\ Step("scalar") \in Later
      BY LaterStep, SMT DEF Steps
  <2>2. <<Step("scalar"), Step("after")>> \in Seq(Later)
      BY <2>1, SMT
  <2> QED BY <1>1, <1>4, <2>2, PushStacks, ProceedKeeps, Zenon
<1> QED BY <1>2, <1>3, <1>4, RefuseKeeps, Zenon DEF Skip

LEMMA InsideKeeps == ASSUME StreamInv, Inside PROVE StreamInv'
<1>1. todo # <<>> /\ Head(todo).do = "inside" /\ Buffered >= 1
    BY Saw, Zenon DEF Inside, OctetSteps
<1>2. Head(todo) \in Entering /\ Len(nest) < MaxDepth
    BY <1>1, Room, SMT DEF Stack, Later
<1>3. Of \in Openers
  <2>1. PICK c \in Openers : Head(todo) = Task("inside", c)
      BY <1>2, Zenon DEF Entering
  <2> QED BY <2>1, SMT DEF Of, Task
<1>4. CASE Consume(1, <<Step("after")>> \o Rest)
  <2>1. Step("after") \in Later
      BY LaterStep, SMT DEF Steps
  <2>2. <<Step("after")>> \in Seq(Later)
      BY <2>1, SMT
  <2>3. Stack(<<Step("after")>> \o Rest, Len(nest))
      BY <1>1, <2>2, PushStacks, Zenon
  <2> QED BY <1>1, <1>4, <2>3, ConsumeKeeps, SMT
<1>5. CASE /\ todo' = InContainer(Of) \o <<Step("skip")>> \o Rest
           /\ nest' = Append(nest, Of)
           /\ UNCHANGED <<text, fetched, offset, pos, ended, keeping, kept, limit, taken, open>>
  <2>1. Step("skip") \in Later
      BY LaterStep, SMT DEF Steps
  <2>2. InContainer(Of) \in Seq(Later)
      BY <1>3, Words, PutTogether, Zenon
  <2>3. Stack(todo', Len(nest'))
      BY <1>1, <1>5, <2>1, <2>2, PushOneStacks, Zenon
  <2>4. nest' \in Seq(Openers) /\ Len(nest') <= MaxDepth
      BY <1>2, <1>3, <1>5, Room, SMT
  <2>5. Positions' /\ KeptOK' /\ ended' = ended /\ open' = open
      BY <1>5, SMT DEF StreamInv, Positions, KeptOK, At, LookAhead
  <2> QED BY <2>3, <2>4, <2>5, Zenon DEF StreamInv, StackOK
<1> QED BY <1>4, <1>5, Zenon DEF Inside

LEMMA AfterKeeps == ASSUME StreamInv, After PROVE StreamInv'
<1>1. todo # <<>> /\ Head(todo).do = "after"
    BY Zenon DEF After, Sees, Doing
<1>2. CASE Proceed(Rest)
    BY <1>1, <1>2, RestStacks, ProceedKeeps
<1>3. CASE nest # <<>> /\ Sees("after")
  <2> DEFINE c == nest[Len(nest)]
  <2>1. Buffered >= 1
      BY <1>3, Saw, Zenon DEF OctetSteps
  <2>2. c \in Openers
      BY <1>3, Room, SMT
  <2>3. CASE Advance(1, todo, Front(nest), open)
    <3>1. Front(nest) \in Seq(Openers) /\ Len(Front(nest)) <= MaxDepth
        BY <1>3, Room, SMT DEF Front
    <3>2. todo \in Seq(Later)
        BY <1>1, Room, NotEntering, SMT
    <3>3. Stack(todo, Len(Front(nest)))
        BY <3>2, Zenon DEF Stack
    <3>4. open \in Int
        BY Zenon DEF StreamInv
    <3> QED BY <2>1, <2>3, <3>1, <3>3, <3>4, AdvanceKeeps, SMT
  <2>4. CASE Consume(1, InContainer(c) \o <<Step("skip")>> \o Rest)
    <3>1. Step("skip") \in Later
        BY LaterStep, SMT DEF Steps
    <3>2. InContainer(c) \in Seq(Later)
        BY <2>2, Words, PutTogether, Zenon
    <3>3. Stack(InContainer(c) \o <<Step("skip")>> \o Rest, Len(nest))
        BY <1>1, <3>1, <3>2, PushOneStacks
    <3> QED BY <2>1, <2>4, <3>3, ConsumeKeeps, SMT
  <2> QED BY <1>2, <1>3, <2>1, <2>3, <2>4, RefuseConsumedKeeps, Zenon DEF After
<1> QED BY <1>2, <1>3, Zenon DEF After

LEMMA KeepKeeps == ASSUME StreamInv, Keep PROVE StreamInv'
<1>1. todo # <<>> /\ Head(todo).do = "keep"
    BY Saw, Zenon DEF Keep, OctetSteps
<1>2. Of \in {"name", "member", "result"}
  <2>1. Head(todo) \in Later
      BY <1>1, Room, NotEntering, SMT
  <2> QED BY <1>1, <2>1, SMT DEF Later, Of
<1>3. Limits[Of] \in Nat
    BY <1>2, Zenon DEF StreamAssumption
<1>4. Stack(Rest, Len(nest))
    BY <1>1, RestStacks
<1> QED BY <1>3, <1>4, SMT DEF Keep, StreamInv, Positions, KeptOK, StackOK, At

LEMMA TakeKeeps == ASSUME StreamInv, Take PROVE StreamInv'
<1>1. Stack(Rest, Len(nest))
    BY RestStacks, Zenon DEF Take, Doing
<1> QED BY <1>1, SMT DEF Take, StreamInv, Positions, KeptOK, StackOK, At

LEMMA Subject ==
    ASSUME StreamInv, todo # <<>>
    PROVE  Of \in Subjects /\ Entry(Of) \in Seq(Later)
<1>1. Of \in Subjects
    BY Room, Pops, SMT DEF Of, Tasks
<1> QED BY <1>1, PutTogether

LEMMA FirstKeeps == ASSUME StreamInv, First PROVE StreamInv'
<1>1. todo # <<>> /\ Buffered >= 1
    BY Saw, Zenon DEF First, OctetSteps
<1>2. CASE Consume(1, Rest)
    BY <1>1, <1>2, RestStacks, ConsumeKeeps, SMT
<1>3. CASE /\ todo' = Entry(Of) \o Rest
           /\ open' = open + 1
           /\ UNCHANGED <<text, fetched, offset, pos, ended, keeping, kept, limit, taken, nest>>
  <2>1. Stack(todo', Len(nest'))
      BY <1>1, <1>3, Subject, PushStacks, Zenon
  <2> QED BY <1>3, <2>1, SMT DEF StreamInv, Positions, KeptOK, StackOK, At
<1> QED BY <1>2, <1>3, Zenon DEF First

LEMMA MoreKeeps == ASSUME StreamInv, More PROVE StreamInv'
<1>1. todo # <<>> /\ Buffered >= 1
    BY Saw, Zenon DEF More, OctetSteps
<1>2. CASE Advance(1, Rest, nest, open - 1)
  <2>1. open - 1 \in Int
      BY SMT DEF StreamInv
  <2> QED BY <1>1, <1>2, <2>1, Room, RestStacks, AdvanceKeeps, SMT
<1>3. CASE Consume(1, Entry(Of) \o Rest)
    BY <1>1, <1>3, Subject, PushStacks, ConsumeKeeps, SMT
<1> QED BY <1>1, <1>2, <1>3, RefuseConsumedKeeps, Zenon DEF More

(* A step of the scanner, and a read.                                       *)
LEMMA ScanKeeps == ASSUME StreamInv, Scan PROVE StreamInv'
<1>1. CASE CutShort \/ End \/ Peek \/ Caught
  <2>1. CASE Refuse
      BY <2>1, RefuseKeeps
  <2>2. CASE todo # <<>> /\ Proceed(Rest)
      BY <2>2, RestStacks, ProceedKeeps
  <2> QED BY <1>1, <2>1, <2>2, Zenon DEF CutShort, End, Peek, Caught, Sees, Doing
<1> QED BY <1>1, SpaceKeeps, ExpectKeeps, CharsKeeps, ScalarKeeps, SkipKeeps, InsideKeeps,
           AfterKeeps, KeepKeeps, TakeKeeps, FirstKeeps, MoreKeeps, Zenon DEF Scan

LEMMA WantedIsLittle ==
    ASSUME StreamInv, Wants
    PROVE  Buffered <= LookAhead - 1
<1>1. EscapeSize = 6 \/ EscapeSize = 2
    BY Zenon DEF EscapeSize
<1>2. Wanted = EscapeSize \/ Wanted = MaxNumber + 1 \/ Wanted = 1
    BY SMT DEF Wanted
<1> QED BY <1>1, <1>2, Room, SMT DEF Wants, LookAhead, StreamAssumption

LEMMA FillKeeps == ASSUME StreamInv, Fill PROVE StreamInv'
<1>1. ASSUME NEW n \in 1 .. Chunk, fetched + n <= Len(text), Wants, Fetch(n) PROVE StreamInv'
  <2>1. Buffered + n <= LookAhead - 1 + Chunk
      BY <1>1, WantedIsLittle, Room, SMT DEF LookAhead, StreamAssumption
  <2> QED BY <1>1, <2>1, FetchKeeps, SMT DEF StreamAssumption
<1>2. ASSUME NEW n \in 1 .. Chunk, fetched + n <= Len(text), DropChunk(n) PROVE StreamInv'
    BY <1>2, DropKeeps, SMT DEF StreamAssumption
<1> QED BY <1>1, <1>2, FillEndKeeps, Zenon DEF Fill

-----------------------------------------------------------------------------
(* The steps of the call.                                                  *)

Kinds == {Unread} \cup Seq(Octets) \cup Seq(Seq(Octets))
CallInv ==
    /\ scenario \in Scenario /\ wire \in {"up", "late", "broken"}
    /\ members \in [Envelope \cup {"result"} -> Kinds]
    /\ returned \in Seq(Seq(Octets))
    /\ depth \in Int /\ start \in Nat
IndInv == StreamInv /\ CallInv

LEMMA UnchangedStream == ASSUME StreamInv, UNCHANGED streamVars PROVE StreamInv'
BY SMT DEF StreamInv, Positions, KeptOK, StackOK, streamVars, At, LookAhead

LEMMA UnchangedCall == ASSUME CallInv, UNCHANGED callVars PROVE CallInv'
BY SMT DEF CallInv, callVars

LEMMA AnswerKeeps ==
    ASSUME StreamInv, NEW v, Answer(v)
    PROVE  StreamInv' /\ UNCHANGED <<scenario, members, returned, depth, start>>
<1>1. Stack(<<>>, Len(nest))
    BY SMT DEF Stack
<1> QED BY <1>1, SMT DEF Answer, StreamInv, Positions, KeptOK, StackOK, At, LookAhead

LEMMA ReceiveKeeps == ASSUME IndInv, Receive PROVE IndInv'
<1>1. CASE (Fill \/ FillEnd) /\ UNCHANGED callVars
    BY <1>1, FillKeeps, FillEndKeeps, UnchangedCall, Zenon DEF IndInv
<1>2. CASE /\ Refuse
           /\ wire' = IF Up THEN "broken" ELSE wire
           /\ UNCHANGED <<scenario, members, returned, depth, start, outcome>>
  <2>1. CallInv'
      BY <1>2, SMT DEF IndInv, CallInv
  <2> QED BY <1>2, <2>1, RefuseKeeps, Zenon DEF IndInv
<1> QED BY <1>1, <1>2, Zenon DEF Receive

LEMMA ReadFailureKeeps == ASSUME IndInv, ReadFailure PROVE IndInv'
<1>1. ASSUME NEW n \in 1 .. Chunk, fetched + n <= Len(text), fetched + n <= MaxError,
             Fetch(n), UNCHANGED callVars
      PROVE  IndInv'
  <2>1. StreamInv'
      BY <1>1, FetchKeeps, SMT DEF IndInv, StreamAssumption
  <2> QED BY <1>1, <2>1, UnchangedCall, Zenon DEF IndInv
<1>2. ASSUME NEW v, Answer(v), wire' \in {wire, "broken"} PROVE IndInv'
  <2>1. StreamInv' /\ UNCHANGED <<scenario, members, returned, depth, start>>
      BY <1>2, AnswerKeeps, Zenon DEF IndInv
  <2>2. CallInv'
      BY <1>2, <2>1, SMT DEF IndInv, CallInv
  <2> QED BY <2>1, <2>2, Zenon DEF IndInv
<1>3. ASSUME NEW v, Answer(v), wire' = (IF Up THEN "broken" ELSE wire) PROVE IndInv'
    BY <1>2, <1>3, Zenon
<1> QED BY <1>1, <1>2, <1>3, Zenon DEF ReadFailure

LEMMA EnvelopeMemberKeeps == ASSUME IndInv, EnvelopeMember PROVE IndInv'
<1>1. todo # <<>> /\ UNCHANGED callVars /\ StreamInv
    BY Zenon DEF EnvelopeMember, Doing, IndInv
<1>2. CASE Proceed(<<Step("peek"), Step("walk")>> \o Rest)
  <2>1. Step("peek") \in Later /\ Step("walk") \in Later
      BY LaterStep, SMT DEF Steps
  <2>2. <<Step("peek"), Step("walk")>> \in Seq(Later)
      BY <2>1, SMT
  <2> QED BY <1>1, <1>2, <2>2, PushStacks, ProceedKeeps, UnchangedCall, Zenon DEF IndInv
<1>3. ASSUME NEW name \in Envelope,
             Proceed(KeepValue("member") \o <<Task("store", name)>> \o Rest)
      PROVE  IndInv'
  <2>1. Task("store", name) \in Later
    <3>1. name \in Subjects
        BY Words, Zenon
    <3> QED BY <3>1, LaterCall, SMT DEF Steps
  <2>2. KeepValue("member") \in Seq(Later)
      BY PutTogether, Zenon
  <2> QED BY <1>1, <1>3, <2>1, <2>2, PushOneStacks, ProceedKeeps, UnchangedCall, Zenon DEF IndInv
<1>4. CASE Proceed(<<Step("skip")>> \o Rest)
  <2>1. Step("skip") \in Later
      BY LaterStep, SMT DEF Steps
  <2>2. <<Step("skip")>> \in Seq(Later)
      BY <2>1, SMT
  <2> QED BY <1>1, <1>4, <2>2, PushStacks, ProceedKeeps, UnchangedCall, Zenon DEF IndInv
<1>5. CASE Refuse
    BY <1>1, <1>5, RefuseKeeps, UnchangedCall, Zenon DEF IndInv
<1> QED BY <1>2, <1>3, <1>4, <1>5, SMT DEF EnvelopeMember

LEMMA StoreKeeps == ASSUME IndInv, Store PROVE IndInv'
<1>1. StreamInv'
    BY RestStacks, ProceedKeeps, Zenon DEF Store, IndInv, Doing
<1>2. taken \in Seq(Octets)
    BY Zenon DEF IndInv, StreamInv, KeptOK
<1>3. taken \in Kinds
    BY <1>2, Zenon DEF Kinds
<1>4. members' = [members EXCEPT ![Of] = taken]
      /\ UNCHANGED <<scenario, wire, returned, depth, start>>
    BY Zenon DEF Store
<1>5. members' \in [Envelope \cup {"result"} -> Kinds]
  <2> DEFINE names == Envelope \cup {"result"}
  <2>1. members \in [names -> Kinds]
      BY Zenon DEF IndInv, CallInv
  <2> HIDE DEF names
  <2>2. [members EXCEPT ![Of] = taken] \in [names -> Kinds]
      BY <1>3, <2>1, Zenon
  <2> QED BY <1>4, <2>2, Zenon DEF names
<1>6. CallInv'
    BY <1>4, <1>5, SMT DEF IndInv, CallInv
<1> QED BY <1>1, <1>6, Zenon DEF IndInv

LEMMA WalksCalls ==
    ASSUME NEW walk \in Walks
    PROVE  TasksOf(walk) \in Seq(Later)
<1>1. Step("skip") \in Later /\ Step("note") \in Later /\ Step("caught") \in Later
    BY LaterStep, SMT DEF Steps
<1>2. KeepValue("result") \in Seq(Later)
    BY PutTogether, Zenon
<1>3. Generator("{") \in Seq(Later) /\ Generator("[") \in Seq(Later)
    BY PutTogether, Words, Zenon DEF Openers
<1>4. /\ <<Step("skip")>> \in Seq(Later) /\ <<Step("skip"), Step("skip")>> \in Seq(Later)
      /\ <<>> \in Seq(Later)
    BY <1>1, SMT
<1>5. /\ KeepValue("result") \o <<Step("note")>> \in Seq(Later)
      /\ KeepValue("result") \o <<Step("caught")>> \in Seq(Later)
    BY <1>1, <1>2, SMT
<1> QED BY <1>2, <1>3, <1>4, <1>5, Zenon DEF TasksOf, Walks

LEMMA BeginWalkKeeps == ASSUME IndInv, BeginWalk PROVE IndInv'
<1>1. Step("returned") \in Later
    BY LaterStep, SMT DEF Steps
<1>2. StreamInv'
  <2>1. scenario.walk \in Walks
      BY SMT DEF IndInv, CallInv, Scenario
  <2> QED BY <1>1, <2>1, WalksCalls, PushOneStacks, ProceedKeeps,
             Zenon DEF BeginWalk, IndInv, Doing
<1>3. CallInv'
    BY SMT DEF BeginWalk, IndInv, CallInv, StreamInv, Positions, At
<1> QED BY <1>2, <1>3, Zenon DEF IndInv

LEMMA WalkMemberKeeps == ASSUME IndInv, WalkMember PROVE IndInv'
<1>1. todo # <<>> /\ Head(todo).do = "yield" /\ StreamInv
    BY Zenon DEF WalkMember, Doing, IndInv
<1>2. KeepValue("result") \in Seq(Later)
    BY PutTogether, Zenon
<1>3. ASSUME NEW i \in DOMAIN todo, Proceed(KeepValue("result") \o SubSeq(todo, i, Len(todo)))
      PROVE  StreamInv'
  <2>1. todo \in Seq(Later)
      BY <1>1, Room, NotEntering, SMT
  <2>2. SubSeq(todo, i, Len(todo)) \in Seq(Later)
      BY <2>1, SMT
  <2>3. KeepValue("result") \o SubSeq(todo, i, Len(todo)) \in Seq(Later)
      BY <1>2, <2>2, SMT
  <2> QED BY <1>1, <1>3, <2>3, ProceedKeeps, Zenon DEF Stack
<1>4. ASSUME NEW do \in {"caught", "note"},
             Proceed(KeepValue("result") \o <<Step(do)>> \o Rest)
      PROVE  StreamInv'
  <2>1. Step(do) \in Later
      BY LaterStep, SMT DEF Steps
  <2> QED BY <1>1, <1>2, <1>4, <2>1, PushOneStacks, ProceedKeeps, Zenon
<1>5. StreamInv'
    BY <1>3, <1>4, Zenon DEF WalkMember
<1>6. CallInv'
  <2>1. taken \in Seq(Octets)
      BY Zenon DEF IndInv, StreamInv, KeptOK
  <2>2. returned' = returned \/ returned' = Append(returned, taken)
      BY Zenon DEF WalkMember
  <2>3. returned' \in Seq(Seq(Octets))
    <3>1. returned \in Seq(Seq(Octets))
        BY Zenon DEF IndInv, CallInv
    <3>2. Append(returned, taken) \in Seq(Seq(Octets))
        BY <2>1, <3>1, SMT
    <3> QED BY <2>2, <3>1, <3>2, Zenon
  <2>4. UNCHANGED <<scenario, wire, members, depth, start>>
      BY Zenon DEF WalkMember
  <2> QED BY <2>3, <2>4, SMT DEF IndInv, CallInv
<1> QED BY <1>5, <1>6, Zenon DEF IndInv

LEMMA NoteKeeps == ASSUME IndInv, Note PROVE IndInv'
<1>1. StreamInv'
    BY RestStacks, ProceedKeeps, Zenon DEF Note, IndInv, Doing
<1>2. taken \in Seq(Octets)
    BY Zenon DEF IndInv, StreamInv, KeptOK
<1>3. CallInv'
    BY <1>2, SMT DEF Note, IndInv, CallInv
<1> QED BY <1>1, <1>3, Zenon DEF IndInv

LEMMA EndWalkKeeps == ASSUME IndInv, EndWalk PROVE IndInv'
<1>1. StreamInv /\ todo # <<>>
    BY Zenon DEF EndWalk, Doing, IndInv
<1>2. StreamInv'
    BY <1>1, RestStacks, ProceedKeeps, RefuseKeeps, Zenon DEF EndWalk
<1>3. returned \in Seq(Seq(Octets))
    BY Zenon DEF IndInv, CallInv
<1>4. returned \in Kinds
    BY <1>3, Zenon DEF Kinds
<1>5. members' = [members EXCEPT !["result"] = returned] \/ members' = members
    BY Zenon DEF EndWalk
<1>6. UNCHANGED <<scenario, wire, returned, depth, start>>
    BY Zenon DEF EndWalk
<1>7. CallInv'
    BY <1>4, <1>5, <1>6, SMT DEF IndInv, CallInv
<1> QED BY <1>2, <1>7, Zenon DEF IndInv

LEMMA Initially == Init => IndInv
<1> SUFFICES ASSUME Init PROVE IndInv
    OBVIOUS
<1>1. PICK s \in Scenarios :
          /\ scenario = s
          /\ StreamInit(s.text, IF s.status = "ok"
                                THEN Generator("{") \o <<Step("end"), Step("read")>>
                                ELSE <<Step("failure")>>)
          /\ wire = "up"
          /\ members = [m \in Envelope \cup {"result"} |-> Unread]
          /\ returned = <<>> /\ depth = 0 /\ start = 0
    BY Zenon DEF Init
<1>2. s \in Scenario
    BY ScenariosAssumption, Zenon DEF ScenariosAssumption
<1>3. s.text \in Seq(Octets)
    BY <1>2, SMT DEF Scenario
<1>4. todo \in Seq(Later)
  <2> DEFINE reply == Generator("{")
  <2>1. Step("end") \in Later /\ Step("read") \in Later /\ Step("failure") \in Later
      BY LaterStep, SMT DEF Steps
  <2>2. reply \in Seq(Later)
      BY PutTogether, Words, Zenon DEF Openers
  <2>3. todo = reply \o <<Step("end"), Step("read")>> \/ todo = <<Step("failure")>>
      BY <1>1, Zenon DEF StreamInit
  <2> HIDE DEF reply
  <2>4. <<Step("end"), Step("read")>> \in Seq(Later) /\ <<Step("failure")>> \in Seq(Later)
      BY <2>1, SMT
  <2>5. reply \o <<Step("end"), Step("read")>> \in Seq(Later)
      BY <2>2, <2>4, SMT
  <2> QED BY <2>3, <2>4, <2>5, Zenon
<1>5. /\ text = s.text /\ fetched = 0 /\ offset = 0 /\ pos = 0 /\ ended = "no"
      /\ keeping = "no" /\ kept = <<>> /\ limit = 0 /\ taken = <<>> /\ open = 0 /\ nest = <<>>
    BY <1>1, Zenon DEF StreamInit
<1>6. scenario = s /\ wire = "up" /\ returned = <<>> /\ depth = 0 /\ start = 0
      /\ members = [m \in Envelope \cup {"result"} |-> Unread]
    BY <1>1, Zenon
<1>7. Positions /\ KeptOK /\ ended \in {"yes", "no"} /\ open \in Int
    BY <1>3, <1>5, ScenariosAssumption,
       SMT DEF Positions, KeptOK, At, LookAhead, ScenariosAssumption
<1>8. StackOK
    BY <1>4, <1>5, SMT DEF StackOK, Stack, StreamAssumption
<1>9. CallInv
  <2>1. Unread \in Kinds
      BY Zenon DEF Kinds
  <2> QED BY <1>2, <1>6, <2>1, SMT DEF CallInv
<1> QED BY <1>7, <1>8, <1>9, Zenon DEF IndInv, StreamInv

LEMMA Stays == IndInv /\ [Next]_vars => IndInv'
<1> SUFFICES ASSUME IndInv, [Next]_vars PROVE IndInv'
    OBVIOUS
<1>1. CASE UNCHANGED vars
    BY <1>1, UnchangedStream, UnchangedCall, SMT DEF vars, callVars, IndInv
<1>2. CASE Elapse
  <2>1. CallInv'
      BY <1>2, SMT DEF Elapse, IndInv, CallInv
  <2> QED BY <1>2, <2>1, UnchangedStream, Zenon DEF Elapse, IndInv, streamVars
<1>3. CASE Scan /\ UNCHANGED callVars
    BY <1>3, ScanKeeps, UnchangedCall, Zenon DEF IndInv
<1>4. CASE Discriminated \/ Fail
  <2>1. PICK v : Answer(v) /\ UNCHANGED wire
      BY <1>4, Zenon DEF Discriminated, Fail
  <2>2. StreamInv' /\ UNCHANGED <<scenario, members, returned, depth, start>>
      BY <2>1, AnswerKeeps, Zenon DEF IndInv
  <2>3. CallInv'
      BY <2>1, <2>2, SMT DEF IndInv, CallInv
  <2> QED BY <2>2, <2>3, Zenon DEF IndInv
<1> QED BY <1>1, <1>2, <1>3, <1>4, ReceiveKeeps, ReadFailureKeeps, EnvelopeMemberKeeps,
           StoreKeeps, BeginWalkKeeps, WalkMemberKeeps, NoteKeeps, EndWalkKeeps,
           Zenon DEF Next, Done

LEMMA Held == IndInv => TypeOK /\ HeldIsBounded
<1> SUFFICES ASSUME IndInv PROVE TypeOK /\ HeldIsBounded
    OBVIOUS
<1>1. todo \in Seq(Tasks)
    BY SMT DEF IndInv, StreamInv, StackOK, Stack, Later
<1>2. StreamTypeOK
    BY <1>1, Zenon DEF StreamTypeOK, IndInv, StreamInv, Positions, KeptOK, StackOK
<1>3. TypeOK
    BY <1>2, Zenon DEF TypeOK, IndInv, CallInv, Kinds
<1>4. HeldIsBounded
    BY Zenon DEF HeldIsBounded, IndInv, StreamInv, Positions, KeptOK, StackOK
<1> QED BY <1>3, <1>4

-----------------------------------------------------------------------------
(* Whatever the reply and the walk, every octet is consumed at most once    *)
(* and after it was fetched, and every variable keeps its type.             *)
THEOREM StreamTyped == Spec => []TypeOK
<1> QED BY Initially, Stays, Held, PTL DEF Spec

(* The stream is read so that the document is never in memory whole: for    *)
(* any chunk, number, depth and limits, the octets in the buffer, what      *)
(* `value` keeps and how deep `skip` nests are bounded by those, and by     *)
(* nothing of the reply.                                                    *)
THEOREM StreamIsBounded == Spec => []HeldIsBounded
<1> QED BY Initially, Stays, Held, PTL DEF Spec

-----------------------------------------------------------------------------
(* The order of the calls: one walk, which begins where the reading of the  *)
(* envelope left off, whatever catches a refusal runs in it, and what reads *)
(* the reply of it is behind all the rest.                                  *)
Order(s) ==
    /\ \A i, j \in DOMAIN s :
          i < j /\ s[i].do \in {"walk", "returned"}
          => s[j].do \notin {"walk", "returned", "caught"}
    /\ \A i \in DOMAIN s :
          s[i].do = "caught" => \E j \in DOMAIN s : i < j /\ s[j].do = "returned"
    /\ \A i \in DOMAIN s : s[i].do \in {"failure", "read"} => i = Len(s)
    /\ \A i \in DOMAIN s :
          s[i].do = "walk" => i = 1 \/ (i = 2 /\ s[1].do = "peek")
Runs(s) == \E i \in DOMAIN s : s[i].do = "returned"
NoWalk(s) == \A i \in DOMAIN s : s[i].do # "walk"
Harmless == {t \in Tasks : t.do \notin Special}
(* What a reply is read by ends with `end`, and then it is read.            *)
Bottom(s) == Len(s) >= 2 /\ s[Len(s)].do = "read" /\ s[Len(s) - 1].do = "end"

WalkInv == Order(todo) /\ (todo # <<>> => outcome = None)

LEMMA OrderOfNothing ==
    ASSUME NEW t \in Tasks, t.do # "caught", NEW s, s = <<>> \/ s = <<t>>
    PROVE  Order(s)
<1>1. \A i \in DOMAIN s : i = 1 /\ Len(s) = 1 /\ s[i] = t
    BY SMT
<1>2. \A i \in DOMAIN s : s[i].do # "caught" /\ i = Len(s) /\ i = 1
    BY <1>1, Zenon
<1>3. \A i, j \in DOMAIN s : ~ (i < j)
  <2>1. ~ (1 < 1)
      BY SMT
  <2> QED BY <1>2, <2>1, Zenon
<1> QED BY <1>2, <1>3, Zenon DEF Order

LEMMA OrderBehind ==
    ASSUME NEW s \in Seq(Tasks), Order(s), NEW i \in DOMAIN s
    PROVE  /\ Order(SubSeq(s, i + 1, Len(s)))
           /\ i > 1 \/ s[1].do # "peek" => NoWalk(SubSeq(s, i + 1, Len(s)))
           /\ s[i].do = "caught" => Runs(SubSeq(s, i + 1, Len(s)))
           /\ Bottom(s) /\ Runs(SubSeq(s, i + 1, Len(s)))
              => Bottom(SubSeq(s, i + 1, Len(s)))
<1> DEFINE b == SubSeq(s, i + 1, Len(s))
<1>1. /\ i \in 1 .. Len(s) /\ Len(s) \in Nat /\ DOMAIN s = 1 .. Len(s)
      /\ Len(b) = Len(s) - i /\ DOMAIN b = 1 .. Len(s) - i
      /\ \A j \in DOMAIN b : b[j] = s[j + i] /\ j + i \in DOMAIN s
    BY SMT
<1> HIDE DEF b
<1>2. ASSUME NEW j \in DOMAIN s, i < j
      PROVE  j - i \in DOMAIN b /\ b[j - i] = s[j]
  <2>1. j - i \in DOMAIN b
      BY <1>1, <1>2, SMT
  <2>2. b[j - i] = s[(j - i) + i]
      BY <1>1, <2>1, Zenon
  <2>3. (j - i) + i = j
      BY <1>1, SMT
  <2> QED BY <2>1, <2>2, <2>3
<1>3. ASSUME NEW j \in DOMAIN b, b[j].do = "walk"
      PROVE  j = 1 /\ i = 1 /\ s[1].do = "peek"
  <2>1. s[j + i].do = "walk" /\ j + i \in DOMAIN s
      BY <1>1, <1>3, Zenon
  <2>2. j + i = 1 \/ (j + i = 2 /\ s[1].do = "peek")
      BY <2>1, Zenon DEF Order
  <2> QED BY <1>1, <2>2, SMT
<1>4. Order(b)
  <2>1. ASSUME NEW j \in DOMAIN b, NEW k \in DOMAIN b, j < k,
               b[j].do \in {"walk", "returned"}
        PROVE  b[k].do \notin {"walk", "returned", "caught"}
    <3>1. j + i < k + i
        BY <1>1, <2>1, SMT
    <3>2. s[j + i].do \in {"walk", "returned"} /\ j + i \in DOMAIN s /\ k + i \in DOMAIN s
        BY <1>1, <2>1, Zenon
    <3>3. s[k + i].do \notin {"walk", "returned", "caught"}
        BY <3>1, <3>2, Zenon DEF Order
    <3> QED BY <1>1, <3>3, Zenon
  <2>2. ASSUME NEW j \in DOMAIN b, b[j].do = "caught"
        PROVE  \E k \in DOMAIN b : j < k /\ b[k].do = "returned"
    <3>1. PICK k \in DOMAIN s : j + i < k /\ s[k].do = "returned"
        BY <1>1, <2>2, Zenon DEF Order
    <3>2. i < k /\ j < k - i
        BY <1>1, <3>1, SMT
    <3> QED BY <1>2, <3>1, <3>2, Zenon
  <2>3. ASSUME NEW j \in DOMAIN b, b[j].do \in {"failure", "read"}
        PROVE  j = Len(b)
    <3>1. j + i = Len(s)
        BY <1>1, <2>3, Zenon DEF Order
    <3> QED BY <1>1, <3>1, SMT
  <2> QED BY <1>3, <2>1, <2>2, <2>3, Zenon DEF Order
<1>5. i > 1 \/ s[1].do # "peek" => NoWalk(b)
    BY <1>1, <1>3, SMT DEF NoWalk
<1>6. ASSUME s[i].do = "caught" PROVE Runs(b)
  <2>1. PICK j \in DOMAIN s : i < j /\ s[j].do = "returned"
      BY <1>6, Zenon DEF Order
  <2> QED BY <1>2, <2>1, Zenon DEF Runs
<1>7. ASSUME Bottom(s), Runs(b) PROVE Bottom(b)
  <2>1. PICK j \in DOMAIN b : s[j + i].do = "returned"
      BY <1>1, <1>7, Zenon DEF Runs
  <2>2. j + i # Len(s) /\ j + i # Len(s) - 1
      BY <1>7, <2>1, Zenon DEF Bottom
  <2> DEFINE l == Len(s)
  <2>3. l \in Nat /\ i \in 1 .. l /\ j \in 1 .. l - i /\ j + i # l /\ j + i # l - 1
      BY <1>1, <2>2, Zenon
  <2>4. /\ l - 1 \in 1 .. l /\ i < l - 1 /\ l \in 1 .. l /\ i < l
        /\ (l - 1) - i = (l - i) - 1 /\ l - i >= 2
    <3> HIDE DEF l
    <3> QED BY ONLY <2>3, SMT
  <2>5. Len(b) = l - i /\ b[l - i] = s[l] /\ b[(l - i) - 1] = s[l - 1]
    <3>1. \A k \in 1 .. l : i < k => b[k - i] = s[k]
        BY <1>1, <1>2, Zenon
    <3>2. b[l - i] = s[l] /\ b[(l - 1) - i] = s[l - 1]
        BY <2>4, <3>1, Zenon
    <3> QED BY <1>1, <2>4, <3>2, Zenon
  <2> QED BY <1>7, <2>4, <2>5, Zenon DEF Bottom
<1> QED BY <1>4, <1>5, <1>6, <1>7, Zenon DEF b

Idle(s) == \A i \in DOMAIN s : s[i].do \notin {"walk", "returned", "caught"}

LEMMA IdleOrder ==
    ASSUME NEW s \in Seq(Tasks), Order(s)
    PROVE  /\ NoWalk(s) /\ ~ Runs(s) => Idle(s)
           /\ s # <<>> /\ Head(s).do \in {"walk", "returned"} => Idle(Tail(s))
<1>1. ASSUME NoWalk(s), ~ Runs(s) PROVE Idle(s)
    BY <1>1, Zenon DEF Order, NoWalk, Runs, Idle
<1>2. ASSUME s # <<>>, Head(s).do \in {"walk", "returned"} PROVE Idle(Tail(s))
  <2>1. /\ 1 \in DOMAIN s /\ Head(s) = s[1]
        /\ \A j \in DOMAIN Tail(s) : Tail(s)[j] = s[j + 1] /\ j + 1 \in DOMAIN s /\ 1 < j + 1
      BY <1>2, SMT
  <2>2. \A j \in DOMAIN s : 1 < j => s[j].do \notin {"walk", "returned", "caught"}
      BY <1>2, <2>1, Zenon DEF Order
  <2> QED BY <2>1, <2>2, Zenon DEF Idle
<1> QED BY <1>1, <1>2, Zenon

LEMMA OrderTail ==
    ASSUME NEW s \in Seq(Tasks), Order(s), s # <<>>
    PROVE  /\ Order(Tail(s)) /\ Tail(s) \in Seq(Tasks)
           /\ Head(s).do # "peek" => NoWalk(Tail(s))
           /\ Head(s).do = "caught" => Runs(Tail(s))
           /\ Head(s).do # "returned" /\ Runs(s) => Runs(Tail(s))
           /\ (Head(s).do # "end" \/ Len(s) # 2) /\ Bottom(s) => Bottom(Tail(s))
<1>1. /\ 1 \in DOMAIN s /\ Head(s) = s[1] /\ Tail(s) = SubSeq(s, 1 + 1, Len(s))
      /\ Tail(s) \in Seq(Tasks)
    BY SMT
<1>2. /\ Order(Tail(s))
      /\ Head(s).do # "peek" => NoWalk(Tail(s))
      /\ Head(s).do = "caught" => Runs(Tail(s))
    BY <1>1, OrderBehind, Zenon
<1>3. ASSUME Head(s).do # "returned", Runs(s) PROVE Runs(Tail(s))
  <2>1. PICK i \in DOMAIN s : s[i].do = "returned"
      BY <1>3, Zenon DEF Runs
  <2>2. i # 1
      BY <1>1, <1>3, <2>1, Zenon
  <2>3. i - 1 \in DOMAIN Tail(s) /\ Tail(s)[i - 1] = s[i]
      BY <2>2, SMT
  <2> QED BY <2>1, <2>3, Zenon DEF Runs
<1>4. ASSUME Head(s).do # "end" \/ Len(s) # 2, Bottom(s) PROVE Bottom(Tail(s))
  <2>1. Len(s) # 2
    <3>1. Len(s) = 2 => Len(s) - 1 = 1
        BY SMT
    <3> QED BY <1>1, <1>4, <3>1, Zenon DEF Bottom
  <2> DEFINE n == Len(Tail(s))
             l == Len(s)
  <2>2. n = l - 1 /\ \A i \in 1 .. n : Tail(s)[i] = s[i + 1]
      BY HeadTailProperties
  <2>3. l \in Nat /\ l >= 2 /\ l # 2
      BY <1>4, <2>1, LenProperties, Zenon DEF Bottom
  <2>4. /\ l - 1 >= 2 /\ l - 1 \in 1 .. l - 1 /\ (l - 1) - 1 \in 1 .. l - 1
        /\ (l - 1) + 1 = l /\ ((l - 1) - 1) + 1 = l - 1
    <3> HIDE DEF l
    <3> QED BY ONLY <2>3, SMT
  <2>5. n >= 2 /\ Tail(s)[n] = s[l] /\ Tail(s)[n - 1] = s[l - 1]
      BY <2>2, <2>4, Zenon
  <2> QED BY <1>4, <2>5, Zenon DEF Bottom
<1> QED BY <1>1, <1>2, <1>3, <1>4

LEMMA OrderPush ==
    ASSUME NEW s \in Seq(Tasks), Order(s), NoWalk(s), NEW p \in Seq(Tasks),
           \A i \in DOMAIN p : p[i].do \notin {"walk", "returned", "failure", "read"},
           Runs(s) \/ \A i \in DOMAIN p : p[i].do # "caught"
    PROVE  /\ Order(p \o s) /\ NoWalk(p \o s) /\ (Runs(s) => Runs(p \o s))
           /\ Bottom(s) => Bottom(p \o s)
<1> DEFINE q == p \o s
           n == Len(p)
<1>1. /\ n \in Nat /\ Len(s) \in Nat /\ Len(q) = n + Len(s)
      /\ DOMAIN q = 1 .. n + Len(s) /\ DOMAIN s = 1 .. Len(s) /\ DOMAIN p = 1 .. n
      /\ \A i \in DOMAIN q : q[i] = IF i <= n THEN p[i] ELSE s[i - n]
    BY SMT
<1> HIDE DEF q, n
<1>2. \A i \in DOMAIN q : i <= n => q[i] = p[i] /\ i \in DOMAIN p
    BY <1>1, SMT
<1>3. \A i \in DOMAIN q : ~ (i <= n) => q[i] = s[i - n] /\ i - n \in DOMAIN s
    BY <1>1, SMT
<1>4. \A i \in DOMAIN s : i + n \in DOMAIN q /\ q[i + n] = s[i]
  <2>1. ASSUME NEW i \in DOMAIN s PROVE i + n \in DOMAIN q /\ q[i + n] = s[i]
    <3>1. i + n \in DOMAIN q /\ ~ (i + n <= n) /\ (i + n) - n = i
        BY <1>1, SMT
    <3> QED BY <1>3, <3>1, Zenon
  <2> QED BY <2>1
<1>5. NoWalk(q)
    BY <1>2, <1>3, Zenon DEF NoWalk
<1>6. Runs(s) => Runs(q)
    BY <1>4, Zenon DEF Runs
<1>7. ASSUME NEW i \in DOMAIN q, NEW j \in DOMAIN q, i < j,
             q[i].do \in {"walk", "returned"}
      PROVE  q[j].do \notin {"walk", "returned", "caught"}
  <2>1. ~ (i <= n)
      BY <1>2, <1>7, Zenon
  <2>2. ~ (j <= n) /\ i - n < j - n
      BY <1>1, <1>7, <2>1, SMT
  <2>3. s[i - n].do \in {"walk", "returned"} /\ i - n \in DOMAIN s /\ j - n \in DOMAIN s
      BY <1>3, <1>7, <2>1, <2>2, Zenon
  <2>4. s[j - n].do \notin {"walk", "returned", "caught"}
      BY <2>2, <2>3, Zenon DEF Order
  <2> QED BY <1>3, <2>2, <2>4, Zenon
<1>8. ASSUME NEW i \in DOMAIN q, q[i].do = "caught"
      PROVE  \E j \in DOMAIN q : i < j /\ q[j].do = "returned"
  <2>1. CASE i <= n
    <3>1. Runs(s)
        BY <1>2, <1>8, <2>1, Zenon
    <3>2. PICK j \in DOMAIN s : s[j].do = "returned"
        BY <3>1, Zenon DEF Runs
    <3>3. i < j + n
        BY <1>1, <2>1, SMT
    <3> QED BY <1>4, <3>2, <3>3, Zenon
  <2>2. CASE ~ (i <= n)
    <3>1. s[i - n].do = "caught" /\ i - n \in DOMAIN s
        BY <1>3, <1>8, <2>2, Zenon
    <3>2. PICK j \in DOMAIN s : i - n < j /\ s[j].do = "returned"
        BY <3>1, Zenon DEF Order
    <3>3. i < j + n
        BY <1>1, <3>2, SMT
    <3> QED BY <1>4, <3>2, <3>3, Zenon
  <2> QED BY <2>1, <2>2
<1>9. ASSUME NEW i \in DOMAIN q, q[i].do \in {"failure", "read"} PROVE i = Len(q)
  <2>1. ~ (i <= n)
      BY <1>2, <1>9, Zenon
  <2>2. s[i - n].do \in {"failure", "read"} /\ i - n \in DOMAIN s
      BY <1>3, <1>9, <2>1, Zenon
  <2>3. i - n = Len(s)
      BY <2>2, Zenon DEF Order
  <2> QED BY <1>1, <2>3, SMT
<1>10. Order(q)
    BY <1>5, <1>7, <1>8, <1>9, Zenon DEF Order, NoWalk
<1>11. ASSUME Bottom(s) PROVE Bottom(q)
  <2>1. /\ Len(s) \in DOMAIN s /\ Len(s) - 1 \in DOMAIN s /\ Len(q) >= 2
        /\ Len(s) + n = Len(q) /\ (Len(s) - 1) + n = Len(q) - 1
      BY <1>1, <1>11, SMT DEF Bottom
  <2>2. q[Len(q)] = s[Len(s)] /\ q[Len(q) - 1] = s[Len(s) - 1]
      BY <1>4, <2>1, Zenon
  <2> QED BY <1>11, <2>1, <2>2, Zenon DEF Bottom
<1> QED BY <1>5, <1>6, <1>10, <1>11, Zenon DEF q

LEMMA OrderWalk ==
    ASSUME NEW s \in Seq(Tasks), Order(s), Idle(s), NEW t \in Tasks, NEW w \in Tasks,
           t.do = "peek", w.do = "walk"
    PROVE  Order(<<t, w>> \o s) /\ (Bottom(s) => Bottom(<<t, w>> \o s))
<1> DEFINE q == <<t, w>> \o s
<1>1. /\ Len(s) \in Nat /\ Len(q) = 2 + Len(s)
      /\ DOMAIN q = 1 .. 2 + Len(s) /\ q[1] = t /\ q[2] = w
      /\ \A i \in DOMAIN q : i > 2 => q[i] = s[i - 2] /\ i - 2 \in DOMAIN s
      /\ \A i \in DOMAIN q : i \in Int /\ (i = 1 \/ i = 2 \/ i > 2)
    BY SMT
<1> HIDE DEF q
<1>2. \A i \in DOMAIN q : i > 2 => q[i].do \notin {"walk", "returned", "caught"}
    BY <1>1, Zenon DEF Idle
<1>3. ASSUME NEW i \in DOMAIN q, NEW j \in DOMAIN q, i < j,
             q[i].do \in {"walk", "returned"}
      PROVE  q[j].do \notin {"walk", "returned", "caught"}
  <2>1. i = 2
      BY <1>1, <1>2, <1>3, SMT
  <2>2. j > 2
      BY <1>3, <2>1, SMT
  <2> QED BY <1>2, <2>2, Zenon
<1>4. \A i \in DOMAIN q : q[i].do # "caught"
    BY <1>1, <1>2, SMT
<1>5. ASSUME NEW i \in DOMAIN q, q[i].do \in {"failure", "read"} PROVE i = Len(q)
  <2>1. i > 2
      BY <1>1, <1>5, SMT
  <2>2. s[i - 2].do \in {"failure", "read"} /\ i - 2 \in DOMAIN s
      BY <1>1, <1>5, <2>1, Zenon
  <2>3. i - 2 = Len(s)
      BY <2>2, Zenon DEF Order
  <2> QED BY <1>1, <2>3, SMT
<1>6. \A i \in DOMAIN q : q[i].do = "walk" => i = 2
    BY <1>1, <1>2, SMT
<1>7. q[1].do = "peek"
    BY <1>1, Zenon
<1>8. Order(q)
    BY <1>3, <1>4, <1>5, <1>6, <1>7, Zenon DEF Order
<1>9. ASSUME Bottom(s) PROVE Bottom(q)
  <2>1. /\ Len(q) \in DOMAIN q /\ Len(q) > 2 /\ Len(q) - 2 = Len(s) /\ Len(q) >= 2
        /\ Len(q) - 1 \in DOMAIN q /\ Len(q) - 1 > 2 /\ (Len(q) - 1) - 2 = Len(s) - 1
      BY <1>1, <1>9, SMT DEF Bottom
  <2>2. q[Len(q)] = s[Len(s)] /\ q[Len(q) - 1] = s[Len(s) - 1]
      BY <1>1, <2>1, Zenon
  <2> QED BY <1>9, <2>1, <2>2, Zenon DEF Bottom
<1> QED BY <1>8, <1>9, Zenon DEF q

LEMMA OrderReturn ==
    ASSUME NEW s \in Seq(Tasks), Order(s), Idle(s), NEW t \in Tasks, t.do = "returned"
    PROVE  /\ Order(<<t>> \o s) /\ NoWalk(<<t>> \o s) /\ Runs(<<t>> \o s)
           /\ Bottom(s) => Bottom(<<t>> \o s)
<1> DEFINE q == <<t>> \o s
<1>1. /\ Len(s) \in Nat /\ Len(q) = 1 + Len(s)
      /\ DOMAIN q = 1 .. 1 + Len(s) /\ q[1] = t /\ 1 \in DOMAIN q
      /\ \A i \in DOMAIN q : i > 1 => q[i] = s[i - 1] /\ i - 1 \in DOMAIN s
      /\ \A i \in DOMAIN q : i \in Int /\ (i = 1 \/ i > 1)
    BY SMT
<1> HIDE DEF q
<1>2. \A i \in DOMAIN q : i > 1 => q[i].do \notin {"walk", "returned", "caught"}
    BY <1>1, Zenon DEF Idle
<1>3. ASSUME NEW i \in DOMAIN q, NEW j \in DOMAIN q, i < j
      PROVE  q[j].do \notin {"walk", "returned", "caught"}
  <2>1. j > 1
      BY <1>1, <1>3, SMT
  <2> QED BY <1>2, <2>1, Zenon
<1>4. \A i \in DOMAIN q : q[i].do # "caught" /\ q[i].do # "walk"
    BY <1>1, <1>2, SMT
<1>5. ASSUME NEW i \in DOMAIN q, q[i].do \in {"failure", "read"} PROVE i = Len(q)
  <2>1. i > 1
      BY <1>1, <1>5, SMT
  <2>2. s[i - 1].do \in {"failure", "read"} /\ i - 1 \in DOMAIN s
      BY <1>1, <1>5, <2>1, Zenon
  <2>3. i - 1 = Len(s)
      BY <2>2, Zenon DEF Order
  <2> QED BY <1>1, <2>3, SMT
<1>6. Order(q)
    BY <1>3, <1>4, <1>5, Zenon DEF Order
<1>7. NoWalk(q) /\ Runs(q)
    BY <1>1, <1>4, Zenon DEF NoWalk, Runs
<1>8. ASSUME Bottom(s) PROVE Bottom(q)
  <2>1. /\ Len(q) \in DOMAIN q /\ Len(q) > 1 /\ Len(q) - 1 = Len(s) /\ Len(q) >= 2
        /\ Len(q) - 1 \in DOMAIN q /\ Len(q) - 1 > 1 /\ (Len(q) - 1) - 1 = Len(s) - 1
      BY <1>1, <1>8, SMT DEF Bottom
  <2>2. q[Len(q)] = s[Len(s)] /\ q[Len(q) - 1] = s[Len(s) - 1]
      BY <1>1, <2>1, Zenon
  <2> QED BY <1>8, <2>1, <2>2, Zenon DEF Bottom
<1> QED BY <1>6, <1>7, <1>8, Zenon DEF q

-----------------------------------------------------------------------------
(* What a step of the scanner makes of the stack: a refusal, nothing, or    *)
(* harmless calls in the place of the innermost.                            *)
Turns ==
    \/ Leaves \/ todo' = todo
    \/ todo # <<>> /\ todo' = Rest
    \/ /\ todo # <<>> /\ Head(todo).do \notin {"peek", "end"}
       /\ \E p \in Seq(Harmless) : todo' = p \o Rest

LEMMA Goes ==
    ASSUME NEW n, NEW then, NEW within, NEW entered
    PROVE  /\ Advance(n, then, within, entered) => Leaves \/ todo' = then
           /\ Consume(n, then) => Leaves \/ todo' = then
           /\ Proceed(then) => todo' = then
           /\ Refuse => Leaves
           /\ RefuseConsumed => Leaves
BY Zenon DEF Advance, Consume, Proceed, Refuse, RefuseConsumed

LEMMA HarmlessCalls ==
    /\ \A s \in Seq(Ordinary) : s \in Seq(Harmless)
    /\ \A do \in Steps \ Special : \A of \in Subjects : <<Task(do, of)>> \in Seq(Harmless)
    /\ \A do \in Steps \ Special : <<Step(do)>> \in Seq(Harmless)
    /\ \A s, t \in Seq(Harmless) : s \o t \in Seq(Harmless)
<1>1. Ordinary \subseteq Harmless
    BY SMT DEF Ordinary, Harmless, Later
<1>2. \A s \in Seq(Ordinary) : s \in Seq(Harmless)
    BY <1>1, SMT
<1>3. ASSUME NEW do \in Steps \ Special, NEW of \in Subjects
      PROVE  <<Task(do, of)>> \in Seq(Harmless)
  <2>1. Task(do, of) \in Harmless
      BY SMT DEF Task, Harmless, Tasks
  <2> QED BY <2>1, SMT
<1>4. \A do \in Steps \ Special : <<Step(do)>> \in Seq(Harmless)
    BY <1>3, Words, Zenon DEF Step
<1>5. \A s, t \in Seq(Harmless) : s \o t \in Seq(Harmless)
    BY SMT
<1> QED BY <1>2, <1>3, <1>4, <1>5, Zenon

LEMMA Pushed ==
    ASSUME todo # <<>>, NEW do, Head(todo).do = do, do \notin {"peek", "end"}, NEW p \in Seq(Harmless),
           Leaves \/ todo' = p \o Rest
    PROVE  Turns
BY Zenon DEF Turns

LEMMA ScanTurns == ASSUME StreamInv, Scan PROVE Turns
<1>1. ASSUME NEW n, NEW then, Consume(n, then) \/ Proceed(then), todo # <<>>,
             then = todo \/ then = Rest
      PROVE  Turns
  <2>1. Leaves \/ todo' = then
      BY <1>1, Goes, Zenon
  <2> QED BY <1>1, <2>1, Zenon DEF Turns
<1>2. ASSUME NEW n, NEW then, NEW p \in Seq(Harmless), NEW do \in {"skip", "inside", "after", "more"},
             Consume(n, then) \/ Proceed(then), then = p \o Rest,
             Doing(do)
      PROVE  Turns
  <2>1. Leaves \/ todo' = then
      BY <1>2, Goes, Zenon
  <2>2. todo # <<>> /\ Head(todo).do = do /\ do \notin {"peek", "end"}
      BY <1>2, Zenon DEF Doing
  <2> QED BY <1>2, <2>1, <2>2, Pushed, Zenon
<1>3. Refuse \/ RefuseConsumed => Turns
    BY Goes, Zenon DEF Turns
<1>4. /\ String \in Seq(Harmless)
      /\ \A c \in Subjects : InContainer(c) \in Seq(Harmless) /\ Entry(c) \in Seq(Harmless)
    BY HarmlessCalls, AllOrdinary, Zenon
<1>5. {"inside", "after", "scalar", "skip"} \subseteq Steps \ Special
    BY SMT DEF Steps, Special
<1>6. \A c \in Subjects : InContainer(c) \o <<Step("skip")>> \in Seq(Harmless)
    BY <1>4, <1>5, HarmlessCalls, Zenon
<1>7. CASE CutShort \/ End \/ Peek \/ Caught
    BY <1>1, <1>3, <1>7, Zenon DEF CutShort, End, Peek, Caught, Sees, Doing
<1>8. CASE Space
    BY <1>1, <1>8, Zenon DEF Space, ReadsOctet
<1>9. CASE Expect
    BY <1>1, <1>3, <1>9, Zenon DEF Expect, Sees, Doing
<1>10. CASE Chars
    BY <1>1, <1>3, <1>10, Zenon DEF Chars, Escape, Doing
<1>11. CASE Scalar
    BY <1>1, <1>3, <1>11, Zenon DEF Scalar, Doing
<1>12. CASE Skip
  <2>1. Doing("skip")
      BY <1>12, Zenon DEF Skip, Sees
  <2>2. CASE Octet \in Openers /\ Consume(1, <<Task("inside", Octet)>> \o Rest)
    <3>1. <<Task("inside", Octet)>> \in Seq(Harmless)
        BY <1>5, <2>2, HarmlessCalls, Words, Zenon
    <3> QED BY <1>2, <2>1, <2>2, <3>1, Zenon
  <2>3. CASE Proceed(String \o <<Step("after")>> \o Rest)
    <3>1. String \o <<Step("after")>> \in Seq(Harmless)
        BY <1>4, <1>5, HarmlessCalls, Zenon
    <3> QED BY <1>2, <2>1, <2>3, <3>1, Zenon
  <2>4. CASE Proceed(<<Step("scalar"), Step("after")>> \o Rest)
    <3>1. <<Step("scalar")>> \o <<Step("after")>> \in Seq(Harmless)
        BY <1>5, HarmlessCalls, Zenon
    <3>2. <<Step("scalar"), Step("after")>> \in Seq(Harmless)
        BY <3>1, SMT
    <3> QED BY <1>2, <2>1, <2>4, <3>2, Zenon
  <2> QED BY <1>3, <1>12, <2>2, <2>3, <2>4, Zenon DEF Skip
<1>13. CASE Inside
  <2>1. Doing("inside")
      BY <1>13, Zenon DEF Inside, Sees
  <2>2. CASE Consume(1, <<Step("after")>> \o Rest)
    <3>1. <<Step("after")>> \in Seq(Harmless)
        BY <1>5, HarmlessCalls, Zenon
    <3> QED BY <1>2, <2>1, <2>2, <3>1, Zenon
  <2>3. CASE todo' = InContainer(Of) \o <<Step("skip")>> \o Rest
    <3>1. Of \in Subjects
        BY <2>1, Subject, Zenon DEF Doing
    <3> QED BY <1>6, <2>1, <2>3, <3>1, Pushed, Zenon DEF Doing
  <2> QED BY <1>13, <2>2, <2>3, Zenon DEF Inside
<1>14. CASE After
  <2>1. Doing("after")
      BY <1>14, Zenon DEF After, Sees
  <2>2. CASE Proceed(Rest)
      BY <1>1, <2>1, <2>2, Zenon DEF Doing
  <2>3. CASE nest # <<>> /\ Sees("after")
    <3> DEFINE c == nest[Len(nest)]
    <3>1. c \in Subjects
      <4>1. c \in Openers
          BY <2>3, Room, SMT
      <4> QED BY <4>1, Words, Zenon
    <3>2. CASE Advance(1, todo, Front(nest), open)
        BY <3>2, Goes, Zenon DEF Turns
    <3>3. CASE Consume(1, InContainer(c) \o <<Step("skip")>> \o Rest)
      <4>1. InContainer(c) \o <<Step("skip")>> \in Seq(Harmless)
          BY <1>6, <3>1, Zenon
      <4> QED BY <1>2, <2>1, <3>3, <4>1, Zenon
    <3> QED BY <1>3, <1>14, <2>2, <2>3, <3>2, <3>3, Zenon DEF After
  <2> QED BY <1>14, <2>2, <2>3, Zenon DEF After
<1>15. CASE Keep \/ Take
    BY <1>15, Zenon DEF Keep, Take, Turns, Sees, Doing
<1>16. CASE First
  <2>1. Doing("first") /\ Of \in Subjects
      BY <1>16, Subject, Zenon DEF First, Sees, Doing
  <2>2. CASE Consume(1, Rest)
      BY <1>1, <2>1, <2>2, Zenon DEF Doing
  <2>3. CASE todo' = Entry(Of) \o Rest
      BY <1>4, <2>1, <2>3, Pushed, Zenon DEF Doing
  <2> QED BY <1>16, <2>2, <2>3, Zenon DEF First
<1>17. CASE More
  <2>1. Doing("more") /\ Of \in Subjects
      BY <1>17, Subject, Zenon DEF More, Sees, Doing
  <2>2. CASE Advance(1, Rest, nest, open - 1)
      BY <2>1, <2>2, Goes, Zenon DEF Turns, Doing
  <2>3. CASE Consume(1, Entry(Of) \o Rest)
      BY <1>2, <1>4, <2>1, <2>3, Zenon
  <2> QED BY <1>3, <1>17, <2>2, <2>3, Zenon DEF More
<1> QED BY <1>7, <1>8, <1>9, <1>10, <1>11, <1>12, <1>13, <1>14, <1>15, <1>16, <1>17,
           Zenon DEF Scan

LEMMA ScanDoes ==
    ASSUME Scan \/ Reads
    PROVE  todo # <<>> /\ Head(todo).do \notin {"returned", "refused"}
<1>1. OctetSteps \cup {"chars", "scalar", "take", "caught"} \subseteq Steps
      /\ {"returned", "refused"} \cap (OctetSteps \cup {"chars", "scalar", "take", "caught"}) = {}
    BY SMT DEF OctetSteps, Steps
<1>2. CASE Reads
    BY <1>1, <1>2, Zenon DEF Reads, ReadsOctet, Doing
<1>3. Scan => Reads \/ Doing("take") \/ Doing("caught")
      \/ Doing("after")
    BY Zenon DEF Scan, CutShort, CutOff, Space, Has, Expect, Sees, Chars, Scalar, ScalarReady,
       Skip, Inside, After, Keep, Take, First, More, Peek, Caught, End
<1>4. "after" \in OctetSteps
    BY Zenon DEF OctetSteps
<1> QED BY <1>1, <1>2, <1>3, <1>4, Zenon DEF Doing

(* The step of a call that is not over: to another call of the right order, *)
(* in the walk still unless the walk is over in time.                       *)
Follows ==
    /\ todo # <<>> /\ Head(todo).do # "refused" /\ outcome' = outcome
    /\ Order(todo')
    /\ Runs(todo) => Runs(todo') \/ todo' = <<Refused>> \/ (Doing("returned") /\ InTime)
    /\ Bottom(todo) => Bottom(todo') \/ todo' = <<Refused>> \/ (Doing("end") /\ todo' = Rest)
Moves ==
    \/ todo' = todo /\ outcome' = outcome
    \/ Follows
    \/ todo # <<>> /\ Head(todo).do \in {"failure", "read"} /\ todo' = <<>>
    \/ todo # <<>> /\ Head(todo).do = "refused" /\ todo' = <<>> /\ outcome' = FetchError

LEMMA TodoTyped == ASSUME StreamInv PROVE todo \in Seq(Tasks)
BY SMT DEF StreamInv, StackOK, Stack, Later

LEMMA LeavesOrder ==
    ASSUME StreamInv, Order(todo), Leaves
    PROVE  /\ Order(todo') /\ (Runs(todo') \/ todo' = <<Refused>>)
           /\ Bottom(todo) => Bottom(todo') \/ todo' = <<Refused>>
<1>1. CASE \E i \in DOMAIN todo : Catches(i) /\ todo' = SubSeq(todo, i + 1, Len(todo))
  <2>1. PICK i \in DOMAIN todo :
            todo[i].do = "caught" /\ todo' = SubSeq(todo, i + 1, Len(todo))
      BY <1>1, Zenon DEF Catches
  <2> QED BY <2>1, TodoTyped, OrderBehind, Zenon
<1>2. CASE todo' = <<Refused>>
  <2>1. Refused \in Tasks /\ Refused.do # "caught"
      BY SMT DEF Refused, Step, Task, Tasks, Steps, Subjects
  <2> QED BY <1>2, <2>1, OrderOfNothing, Zenon
<1> QED BY <1>1, <1>2, Zenon DEF Leaves

LEMMA TurnsFollow ==
    ASSUME StreamInv, Order(todo), Turns, outcome' = outcome, todo # <<>>,
           Head(todo).do \notin {"returned", "refused"}
    PROVE  Follows
<1> USE TodoTyped
<1>1. CASE Leaves
    BY <1>1, LeavesOrder, Zenon DEF Follows
<1>2. CASE todo' = todo
    BY <1>2, Zenon DEF Follows
<1>3. CASE todo' = Rest
  <2>1. Order(Rest) /\ (Runs(todo) => Runs(Rest))
        /\ (Bottom(todo) /\ Head(todo).do # "end" => Bottom(Rest))
      BY OrderTail, Zenon DEF Rest
  <2> QED BY <1>3, <2>1, Zenon DEF Follows, Doing
<1>4. ASSUME NEW p \in Seq(Harmless), todo' = p \o Rest, Head(todo).do \notin {"peek", "end"}
      PROVE  Follows
  <2>1. p \in Seq(Tasks) /\ \A i \in DOMAIN p : p[i].do \notin Special
      BY SMT DEF Harmless
  <2>2. \A i \in DOMAIN p : p[i].do \notin {"walk", "returned", "failure", "read"}
                            /\ p[i].do # "caught"
      BY <2>1, Zenon DEF Special
  <2>3. /\ Order(Rest) /\ NoWalk(Rest) /\ Rest \in Seq(Tasks) /\ (Runs(todo) => Runs(Rest))
        /\ Bottom(todo) => Bottom(Rest)
      BY <1>4, OrderTail, Zenon DEF Rest
  <2>4. Order(p \o Rest) /\ (Runs(Rest) => Runs(p \o Rest))
        /\ (Bottom(Rest) => Bottom(p \o Rest))
      BY <2>1, <2>2, <2>3, OrderPush, Zenon
  <2> QED BY <1>4, <2>3, <2>4, Zenon DEF Follows
<1> QED BY <1>1, <1>2, <1>3, <1>4, Zenon DEF Turns

(* Harmless calls, or those of a walk, in the place of the innermost.       *)
LEMMA PushFollows ==
    ASSUME NEW s \in Seq(Tasks), Order(s), NoWalk(s), NEW p \in Seq(Ordinary),
           Runs(todo) => Runs(s), Bottom(todo) => Bottom(s), todo' = p \o s, outcome' = outcome,
           todo # <<>>, Head(todo).do # "refused"
    PROVE  Follows
<1>1. p \in Seq(Tasks) /\ \A i \in DOMAIN p : p[i].do \notin Special
    BY SMT DEF Ordinary, Later
<1>2. \A i \in DOMAIN p : p[i].do \notin {"walk", "returned", "failure", "read"}
                          /\ p[i].do # "caught"
    BY <1>1, Zenon DEF Special
<1>3. Order(p \o s) /\ (Runs(s) => Runs(p \o s)) /\ (Bottom(s) => Bottom(p \o s))
    BY <1>1, <1>2, OrderPush, Zenon
<1> QED BY <1>3, Zenon DEF Follows

LEMMA RefuseFollows ==
    ASSUME StreamInv, Order(todo), Refuse \/ Leaves, outcome' = outcome,
           todo # <<>>, Head(todo).do # "refused"
    PROVE  Follows
BY LeavesOrder, Zenon DEF Follows, Refuse

LEMMA ReceiveMoves == ASSUME IndInv, WalkInv, Receive PROVE Moves
<1>1. StreamInv /\ Order(todo) /\ outcome' = outcome /\ Wants
    BY Zenon DEF IndInv, WalkInv, Receive, callVars, Fill
<1>2. Leaves \/ todo' = todo
    BY Zenon DEF Receive, Refuse, Fill, FillEnd, Fetch, DropChunk
<1>3. todo # <<>> /\ Head(todo).do \notin {"returned", "refused"}
    BY <1>1, ScanDoes, Zenon DEF Wants
<1>4. Turns
    BY <1>2, Zenon DEF Turns
<1> QED BY <1>1, <1>3, <1>4, TurnsFollow, Zenon DEF Moves

LEMMA ReadFailureMoves == ASSUME ReadFailure PROVE Moves
<1>1. todo # <<>> /\ Head(todo).do = "failure"
    BY Zenon DEF ReadFailure, Doing
<1>2. (todo' = todo /\ outcome' = outcome) \/ todo' = <<>>
    BY Zenon DEF ReadFailure, Fetch, callVars, Answer
<1> QED BY <1>1, <1>2, Zenon DEF Moves

LEMMA ScanMoves == ASSUME IndInv, WalkInv, Scan, UNCHANGED callVars PROVE Moves
<1>1. StreamInv /\ Order(todo) /\ outcome' = outcome
    BY Zenon DEF IndInv, WalkInv, callVars
<1> QED BY <1>1, ScanDoes, ScanTurns, TurnsFollow, Zenon DEF Moves

LEMMA EnvelopeMemberMoves == ASSUME IndInv, WalkInv, EnvelopeMember PROVE Moves
<1>1. /\ StreamInv /\ Order(todo) /\ todo # <<>> /\ outcome' = outcome /\ ~ Runs(todo)
      /\ Head(todo).do = "yield" /\ Head(todo).do # "refused"
    BY Zenon DEF IndInv, WalkInv, EnvelopeMember, Doing, Walking, Runs, callVars
<1>2. /\ Rest \in Seq(Tasks) /\ Order(Rest) /\ NoWalk(Rest)
      /\ Bottom(todo) => Bottom(Rest)
    BY <1>1, TodoTyped, OrderTail, Zenon DEF Rest
<1>3. CASE Refuse
    BY <1>1, <1>3, RefuseFollows, Zenon DEF Moves
<1>4. CASE Proceed(<<Step("peek"), Step("walk")>> \o Rest)
  <2>1. NoWalk(todo)
    <3>1. todo[1].do = "yield"
        BY <1>1, TodoTyped, SMT
    <3> QED BY <1>1, <3>1, Zenon DEF Order, NoWalk
  <2>2. Idle(todo)
      BY <1>1, <2>1, TodoTyped, IdleOrder, Zenon
  <2>3. \A j \in DOMAIN Rest : j + 1 \in DOMAIN todo /\ Rest[j] = todo[j + 1]
      BY <1>1, TodoTyped, SMT DEF Rest
  <2>4. Idle(Rest)
      BY <2>2, <2>3, Zenon DEF Idle
  <2>5. /\ Step("peek") \in Tasks /\ Step("walk") \in Tasks
        /\ Step("peek").do = "peek" /\ Step("walk").do = "walk"
      BY SMT DEF Step, Task, Tasks, Steps, Subjects
  <2>6. /\ Order(<<Step("peek"), Step("walk")>> \o Rest)
        /\ Bottom(Rest) => Bottom(<<Step("peek"), Step("walk")>> \o Rest)
      BY <1>2, <2>4, <2>5, OrderWalk, Zenon
  <2>7. todo' = <<Step("peek"), Step("walk")>> \o Rest
      BY <1>4, Goes, Zenon
  <2>8. Follows
      BY <1>1, <1>2, <2>6, <2>7, Zenon DEF Follows
  <2> QED BY <2>8, Zenon DEF Moves
<1>5. ASSUME NEW name \in Envelope,
             Proceed(KeepValue("member") \o <<Task("store", name)>> \o Rest)
      PROVE  Moves
  <2>1. <<Task("store", name)>> \in Seq(Ordinary) /\ KeepValue("member") \in Seq(Ordinary)
    <3>1. Task("store", name) \in Ordinary
        BY Words, OrdinaryCall, SMT DEF Steps, Special
    <3> QED BY <3>1, AllOrdinary, SMT
  <2>2. KeepValue("member") \o <<Task("store", name)>> \in Seq(Ordinary)
      BY <2>1, SMT
  <2> DEFINE p == KeepValue("member") \o <<Task("store", name)>>
  <2>3. todo' = p \o Rest /\ p \in Seq(Ordinary)
      BY <1>5, <2>2, Goes, Zenon
  <2> HIDE DEF p
  <2>4. Follows
      BY <1>1, <1>2, <2>3, PushFollows, Zenon
  <2> QED BY <2>4, Zenon DEF Moves
<1>6. CASE Proceed(<<Step("skip")>> \o Rest)
  <2>1. <<Step("skip")>> \in Seq(Ordinary)
    <3>1. Step("skip") \in Ordinary
        BY OrdinaryStep, SMT DEF Steps, Special
    <3> QED BY <3>1, SMT
  <2>2. todo' = <<Step("skip")>> \o Rest
      BY <1>6, Goes, Zenon
  <2>3. Follows
      BY <1>1, <1>2, <2>1, <2>2, PushFollows, Zenon
  <2> QED BY <2>3, Zenon DEF Moves
<1> QED BY <1>3, <1>4, <1>5, <1>6, SMT DEF EnvelopeMember

LEMMA PopMoves ==
    ASSUME IndInv, WalkInv, todo # <<>>, Proceed(Rest), outcome' = outcome,
           Head(todo).do \notin {"returned", "refused"}
    PROVE  Moves
<1>1. StreamInv /\ Order(todo) /\ Turns
    BY Goes, Zenon DEF IndInv, WalkInv, Turns
<1> QED BY <1>1, TurnsFollow, Zenon DEF Moves

LEMMA StoreMoves == ASSUME IndInv, WalkInv, Store \/ Note PROVE Moves
BY PopMoves, Zenon DEF Store, Note, Doing

(* What a walk is made of.                                                  *)
Reading == Ordinary \cup {Step("caught")}

LEMMA ReadingCalls ==
    ASSUME NEW p \in Seq(Reading)
    PROVE  /\ p \in Seq(Tasks)
           /\ \A i \in DOMAIN p : p[i].do \notin {"walk", "returned", "failure", "read"}
<1>1. Step("caught") \in Tasks /\ Step("caught").do = "caught"
    BY SMT DEF Step, Task, Tasks, Steps, Subjects
<1>2. \A t \in Reading :
          t \in Tasks /\ t.do \notin {"walk", "returned", "failure", "read"}
    BY <1>1, SMT DEF Reading, Ordinary, Later, Special
<1> QED BY <1>2, SMT

LEMMA WalksRead ==
    ASSUME NEW walk \in Walks
    PROVE  TasksOf(walk) \in Seq(Reading)
<1>1. Step("skip") \in Reading /\ Step("note") \in Reading /\ Step("caught") \in Reading
    BY OrdinaryStep, SMT DEF Steps, Special, Reading
<1>2. \A s \in Seq(Ordinary) : s \in Seq(Reading)
    BY SMT DEF Reading
<1>3. KeepValue("result") \in Seq(Reading)
    BY <1>2, AllOrdinary, Zenon
<1>4. Generator("{") \in Seq(Reading) /\ Generator("[") \in Seq(Reading)
    BY <1>2, AllOrdinary, Words, Zenon DEF Openers
<1>5. /\ <<Step("skip")>> \in Seq(Reading) /\ <<Step("skip"), Step("skip")>> \in Seq(Reading)
      /\ <<>> \in Seq(Reading)
    BY <1>1, SMT
<1>6. /\ KeepValue("result") \o <<Step("note")>> \in Seq(Reading)
      /\ KeepValue("result") \o <<Step("caught")>> \in Seq(Reading)
    BY <1>1, <1>3, SMT
<1> QED BY <1>3, <1>4, <1>5, <1>6, Zenon DEF TasksOf, Walks

LEMMA BeginWalkMoves == ASSUME IndInv, WalkInv, BeginWalk PROVE Moves
<1>1. /\ StreamInv /\ Order(todo) /\ todo # <<>> /\ outcome' = outcome
      /\ Head(todo).do = "walk" /\ Head(todo).do # "refused"
    BY Zenon DEF IndInv, WalkInv, BeginWalk, Doing
<1>2. Rest \in Seq(Tasks) /\ Order(Rest) /\ Idle(Rest) /\ (Bottom(todo) => Bottom(Rest))
    BY <1>1, TodoTyped, OrderTail, IdleOrder, Zenon DEF Rest
<1>3. Step("returned") \in Tasks /\ Step("returned").do = "returned"
    BY SMT DEF Step, Task, Tasks, Steps, Subjects
<1> DEFINE b == <<Step("returned")>> \o Rest
           p == TasksOf(scenario.walk)
<1>4. Order(b) /\ NoWalk(b) /\ Runs(b) /\ (Bottom(todo) => Bottom(b))
    BY <1>2, <1>3, OrderReturn, Zenon
<1>5. b \in Seq(Tasks)
    BY <1>2, <1>3, SMT
<1>6. p \in Seq(Reading)
  <2>1. scenario.walk \in Walks
      BY SMT DEF IndInv, CallInv, Scenario
  <2> QED BY <2>1, WalksRead, Zenon
<1>7. p \in Seq(Tasks)
    BY <1>6, ReadingCalls, Zenon
<1>8. todo' = p \o b
  <2>1. todo' = p \o <<Step("returned")>> \o Rest
      BY Goes, Zenon DEF BeginWalk
  <2> HIDE DEF p
  <2>2. <<Step("returned")>> \in Seq(Tasks)
      BY <1>3, SMT
  <2> DEFINE r == <<Step("returned")>>
  <2> HIDE DEF r
  <2>3. (p \o r) \o Rest = p \o (r \o Rest)
      BY <1>2, <1>7, <2>2, SMT DEF r
  <2> QED BY <2>1, <2>3, Zenon DEF r
<1> HIDE DEF p, b
<1>9. Order(p \o b) /\ Runs(p \o b) /\ (Bottom(todo) => Bottom(p \o b))
    BY <1>4, <1>5, <1>6, ReadingCalls, OrderPush, Zenon
<1>10. Follows
    BY <1>1, <1>8, <1>9, Zenon DEF Follows
<1> QED BY <1>10, Zenon DEF Moves

LEMMA WalkMemberMoves == ASSUME IndInv, WalkInv, WalkMember PROVE Moves
<1>1. /\ StreamInv /\ Order(todo) /\ todo # <<>> /\ outcome' = outcome /\ Runs(todo)
      /\ Head(todo).do = "yield"
    BY Zenon DEF IndInv, WalkInv, WalkMember, Doing, Walking, Runs
<1>2. /\ Rest \in Seq(Tasks) /\ Order(Rest) /\ NoWalk(Rest)
      /\ Runs(Rest) /\ (Bottom(todo) => Bottom(Rest))
    BY <1>1, TodoTyped, OrderTail, Zenon DEF Rest
<1>3. KeepValue("result") \in Seq(Reading)
  <2>1. KeepValue("result") \in Seq(Ordinary)
      BY AllOrdinary, Zenon
  <2> QED BY <2>1, SMT DEF Reading
<1>4. ASSUME NEW s \in Seq(Tasks), Order(s), NoWalk(s), Runs(s), NEW p \in Seq(Reading),
             todo' = p \o s, Bottom(todo) => Bottom(s)
      PROVE  Moves
  <2>1. Order(p \o s) /\ Runs(p \o s) /\ (Bottom(s) => Bottom(p \o s))
      BY <1>4, ReadingCalls, OrderPush, Zenon
  <2>2. Follows
      BY <1>1, <1>4, <2>1, Zenon DEF Follows
  <2> QED BY <2>2, Zenon DEF Moves
<1>5. ASSUME NEW do \in {"caught", "note"},
             Proceed(KeepValue("result") \o <<Step(do)>> \o Rest)
      PROVE  Moves
  <2>1. Step(do) \in Reading
      BY OrdinaryStep, SMT DEF Steps, Special, Reading
  <2> DEFINE p == KeepValue("result") \o <<Step(do)>>
  <2>2. p \in Seq(Reading)
      BY <1>3, <2>1, SMT
  <2>3. todo' = p \o Rest
      BY <1>5, Goes, Zenon
  <2> HIDE DEF p
  <2> QED BY <1>2, <1>4, <2>2, <2>3, Zenon
<1>6. ASSUME NEW i \in DOMAIN todo, Returns(i),
             Proceed(KeepValue("result") \o SubSeq(todo, i, Len(todo)))
      PROVE  Moves
  <2> DEFINE s == SubSeq(todo, i, Len(todo))
             h == i - 1
  <2>1. todo[i].do = "returned" /\ todo[1].do = "yield"
    <3>1. todo[1] = Head(todo)
        BY <1>1, TodoTyped, SMT
    <3> QED BY <1>1, <1>6, <3>1, Zenon DEF Returns
  <2>2. h \in DOMAIN todo /\ h + 1 = i
    <3>1. i # 1
        BY <2>1, Zenon
    <3> QED BY <1>1, <3>1, TodoTyped, SMT
  <2>4. s \in Seq(Tasks) /\ 1 \in DOMAIN s /\ s[1] = todo[i]
      BY <1>1, TodoTyped, SMT
  <2>5. Runs(s)
      BY <2>1, <2>4, Zenon DEF Runs
  <2>3. Order(s) /\ NoWalk(s) /\ (Bottom(todo) => Bottom(s))
    <3> DEFINE b == SubSeq(todo, h + 1, Len(todo))
    <3> HIDE DEF h
    <3>1. /\ Order(b) /\ NoWalk(b)
          /\ Bottom(todo) /\ Runs(b) => Bottom(b)
        BY <1>1, <2>1, <2>2, TodoTyped, OrderBehind, Zenon
    <3>2. b = s
        BY <2>2, Zenon
    <3> QED BY <2>5, <3>1, <3>2, Zenon
  <2>6. todo' = KeepValue("result") \o s
      BY <1>6, Goes, Zenon
  <2> HIDE DEF s
  <2> QED BY <1>3, <1>4, <2>3, <2>4, <2>5, <2>6, Zenon
<1> QED BY <1>5, <1>6, Zenon DEF WalkMember

LEMMA EndWalkMoves == ASSUME IndInv, WalkInv, EndWalk PROVE Moves
<1>1. /\ StreamInv /\ Order(todo) /\ todo # <<>> /\ outcome' = outcome
      /\ Head(todo).do = "returned" /\ Head(todo).do # "refused"
    BY Zenon DEF IndInv, WalkInv, EndWalk, Doing
<1>2. CASE InTime /\ Proceed(Rest)
  <2>1. Order(Rest) /\ (Bottom(todo) => Bottom(Rest))
      BY <1>1, TodoTyped, OrderTail, Zenon DEF Rest
  <2>2. todo' = Rest
      BY <1>2, Goes, Zenon
  <2>3. Doing("returned")
      BY <1>1, Zenon DEF Doing
  <2>4. Follows
      BY <1>1, <1>2, <2>1, <2>2, <2>3, Zenon DEF Follows
  <2> QED BY <2>4, Zenon DEF Moves
<1>3. CASE Refuse
    BY <1>1, <1>3, RefuseFollows, Zenon DEF Moves
<1> QED BY <1>2, <1>3, Zenon DEF EndWalk

LEMMA NextMoves ==
    ASSUME IndInv, WalkInv, [Next]_vars
    PROVE  Moves
<1>1. CASE UNCHANGED vars \/ Elapse
    BY <1>1, Zenon DEF vars, streamVars, Elapse, Moves
<1>2. CASE Discriminated \/ Fail
    BY <1>2, Zenon DEF Discriminated, Fail, Answer, Doing, Moves
<1> QED BY <1>1, <1>2, ReceiveMoves, ReadFailureMoves, ScanMoves, EnvelopeMemberMoves,
           StoreMoves, BeginWalkMoves, WalkMemberMoves, EndWalkMoves, Zenon DEF Next, Done

LEMMA WalkInitially == Init => WalkInv
<1> SUFFICES ASSUME Init PROVE WalkInv
    OBVIOUS
<1>1. /\ outcome = None
      /\ \/ todo = Generator("{") \o <<Step("end"), Step("read")>>
         \/ todo = <<Step("failure")>>
    BY Zenon DEF Init, StreamInit
<1>2. CASE todo = Generator("{") \o <<Step("end"), Step("read")>>
  <2> DEFINE e == Step("end")
             r == Step("read")
  <2>1. e \in Tasks /\ r \in Tasks /\ e.do = "end" /\ r.do = "read"
      BY SMT DEF Step, Task, Tasks, Steps, Subjects
  <2> HIDE DEF e, r
  <2> DEFINE s == <<e, r>>
  <2>2. /\ s \in Seq(Tasks) /\ Len(s) = 2 /\ s[1] = e /\ s[2] = r
        /\ \A i \in DOMAIN s : i = 1 \/ i = 2
      BY <2>1, SMT
  <2> HIDE DEF s
  <2>3. \A i \in DOMAIN s :
            /\ s[i].do \notin {"walk", "returned", "caught", "failure"}
            /\ s[i].do = "read" => i = Len(s)
      BY <2>1, <2>2, SMT
  <2>4. Order(s) /\ NoWalk(s)
      BY <2>3, Zenon DEF Order, NoWalk
  <2>5. ASSUME NEW p \in Seq(Ordinary) PROVE Order(p \o s)
    <3>1. p \in Seq(Tasks) /\ \A i \in DOMAIN p : p[i].do \notin Special
        BY SMT DEF Ordinary, Later
    <3>2. \A i \in DOMAIN p : p[i].do \notin {"walk", "returned", "failure", "read"}
                              /\ p[i].do # "caught"
        BY <3>1, Zenon DEF Special
    <3> QED BY <2>2, <2>4, <3>1, <3>2, OrderPush, Zenon
  <2>6. Generator("{") \in Seq(Ordinary)
      BY AllOrdinary, Words, Zenon DEF Openers
  <2>7. Order(Generator("{") \o s)
      BY <2>5, <2>6, Zenon
  <2> QED BY <1>1, <1>2, <2>7, Zenon DEF WalkInv, s, e, r
<1>3. CASE todo = <<Step("failure")>>
  <2>1. Step("failure") \in Tasks /\ Step("failure").do # "caught"
      BY SMT DEF Step, Task, Tasks, Steps, Subjects
  <2> QED BY <1>1, <1>3, <2>1, OrderOfNothing, Zenon DEF WalkInv
<1> QED BY <1>1, <1>2, <1>3, Zenon

LEMMA WalkStays ==
    ASSUME IndInv, WalkInv, [Next]_vars
    PROVE  WalkInv'
<1>1. Order(todo') /\ (todo' # <<>> => outcome' = None)
  <2>1. CASE todo' = <<>>
    <3>1. Refused \in Tasks /\ Refused.do # "caught"
        BY SMT DEF Refused, Step, Task, Tasks, Steps, Subjects
    <3> QED BY <2>1, <3>1, OrderOfNothing, Zenon
  <2>2. CASE todo' # <<>>
      BY <2>2, NextMoves, Zenon DEF Moves, Follows, WalkInv
  <2> QED BY <2>1, <2>2
<1> QED BY <1>1, Zenon DEF WalkInv, None

(* Past the deadline there is no way back from it, and none from the walk   *)
(* to an answer.                                                            *)
Late ==
    /\ wire = "late" /\ outcome.kind \notin {"result", "rpc"}
    /\ Runs(todo) \/ todo = <<Refused>> \/ todo = <<>>

LEMMA LateForever == ASSUME wire = "late", [Next]_vars PROVE wire' = "late"
BY Zenon DEF vars, Next, Elapse, Up, Receive, callVars, ReadFailure, EnvelopeMember, Store,
   BeginWalk, WalkMember, Note, EndWalk, Discriminated, Fail, Done

LEMMA LateWalks ==
    ASSUME WalkInv, wire = "late", Walking
    PROVE  Late
<1>1. todo # <<>> /\ Runs(todo)
    BY SMT DEF Walking, Runs
<1> QED BY <1>1, SMT DEF WalkInv, None, Late

LEMMA LateStays ==
    ASSUME IndInv, WalkInv, Late, [Next]_vars
    PROVE  Late'
<1>1. wire' = "late" /\ ~ InTime
    BY LateForever, Zenon DEF Late, InTime
<1>2. /\ outcome.kind \notin {"result", "rpc"}
      /\ Runs(todo) \/ todo = <<Refused>> \/ todo = <<>>
    BY Zenon DEF Late
<1>3. CASE todo' = todo /\ outcome' = outcome
    BY <1>1, <1>2, <1>3, Zenon DEF Late
<1>4. CASE Follows
  <2>1. todo # <<Refused>>
    <3>1. Head(<<Refused>>).do = "refused"
        BY SMT DEF Refused, Step, Task
    <3> QED BY <1>4, <3>1, Zenon DEF Follows
  <2>2. Runs(todo') \/ todo' = <<Refused>>
      BY <1>1, <1>2, <1>4, <2>1, Zenon DEF Follows
  <2> QED BY <1>1, <1>2, <1>4, <2>2, Zenon DEF Late, Follows
<1>5. CASE todo # <<>> /\ Head(todo).do \in {"failure", "read"} /\ todo' = <<>>
  <2>1. todo # <<Refused>>
    <3>1. Head(<<Refused>>).do = "refused"
        BY SMT DEF Refused, Step, Task
    <3> QED BY <1>5, <3>1, Zenon
  <2>2. todo \in Seq(Tasks) /\ Order(todo)
      BY TodoTyped, Zenon DEF IndInv, WalkInv
  <2>3. 1 \in DOMAIN todo /\ todo[1].do \in {"failure", "read"}
      BY <1>5, <2>2, SMT
  <2>4. Len(todo) = 1
      BY <2>2, <2>3, Zenon DEF Order
  <2>5. \A i \in DOMAIN todo : i = 1
      BY <2>2, <2>4, SMT
  <2>6. ~ Runs(todo)
      BY <2>3, <2>5, Zenon DEF Runs
  <2> QED BY <1>2, <1>5, <2>1, <2>6, Zenon
<1>6. CASE todo' = <<>> /\ outcome' = FetchError
  <2>1. outcome'.kind \notin {"result", "rpc"}
      BY <1>6, SMT DEF FetchError
  <2> QED BY <1>1, <1>6, <2>1, Zenon DEF Late
<1> QED BY <1>3, <1>4, <1>5, <1>6, NextMoves, Zenon DEF Moves

(* A walk that ran past the deadline never becomes an answer: whatever is   *)
(* in memory of the reply, whichever refusals the walk catches and however  *)
(* many steps it takes to return, the call tells no result and no error of  *)
(* the node's, since read(0) stands between the walk and what follows it.   *)
THEOREM LateIsRefused == Spec => LateWalkIsNoAnswer
<1>1. IndInv /\ WalkInv /\ [Next]_vars => IndInv' /\ WalkInv'
    BY Stays, WalkStays
<1>2. Init => IndInv /\ WalkInv
    BY Initially, WalkInitially
<1>3. WalkInv /\ wire = "late" /\ Walking => Late
    BY LateWalks
<1>4. IndInv /\ WalkInv /\ Late /\ [Next]_vars => Late'
    BY LateStays
<1>5. Late => outcome.kind \notin {"result", "rpc"}
    BY Zenon DEF Late
<1> QED BY <1>1, <1>2, <1>3, <1>4, <1>5, PTL DEF Spec, LateWalkIsNoAnswer

-----------------------------------------------------------------------------
(* What the stream ends with.                                              *)

(* The end of the stream is that of the reply, unless the wire broke.       *)
EndedInv == ended = "yes" => fetched = Len(text) \/ wire = "broken"

(* The scanner reads what was fetched, and fetches nothing.                 *)
LEMMA ScanStands == ASSUME Scan PROVE UNCHANGED <<text, fetched, ended>>
<1>1. ASSUME NEW n, NEW then, NEW within, NEW entered, Advance(n, then, within, entered)
      PROVE  UNCHANGED <<text, fetched, ended>>
    BY <1>1, Zenon DEF Advance, Refuse, Leaves
<1>2. ASSUME NEW n, NEW then, Consume(n, then) PROVE UNCHANGED <<text, fetched, ended>>
    BY <1>1, <1>2, Zenon DEF Consume
<1>3. Refuse \/ RefuseConsumed => UNCHANGED <<text, fetched, ended>>
    BY Zenon DEF Refuse, RefuseConsumed, Leaves
<1>4. ASSUME NEW then, Proceed(then) PROVE UNCHANGED <<text, fetched, ended>>
    BY <1>4, Zenon DEF Proceed
<1>5. CASE CutShort \/ Space \/ Expect \/ Chars \/ Scalar
    BY <1>2, <1>3, <1>5, Zenon DEF CutShort, Space, Expect, Chars, Escape, Scalar
<1>6. CASE Skip \/ Inside
    BY <1>2, <1>3, <1>4, <1>6, Zenon DEF Skip, Inside
<1>7. CASE After
    BY <1>1, <1>2, <1>3, <1>4, <1>7, Zenon DEF After
<1>8. CASE Keep \/ Take \/ First \/ Peek \/ Caught \/ End
    BY <1>2, <1>3, <1>4, <1>8, Zenon DEF Keep, Take, First, Peek, Caught, End
<1>9. CASE More
    BY <1>1, <1>2, <1>3, <1>9, Zenon DEF More
<1> QED BY <1>5, <1>6, <1>7, <1>8, <1>9, Zenon DEF Scan

LEMMA EndedStays ==
    ASSUME StreamInv, EndedInv, [Next]_vars
    PROVE  EndedInv'
<1>1. CASE UNCHANGED <<text, fetched, ended, wire>>
    BY <1>1, Zenon DEF EndedInv
<1>2. ASSUME UNCHANGED <<text, fetched, ended>>, wire' = (IF Up THEN "broken" ELSE wire)
      PROVE  EndedInv'
    BY <1>2, Zenon DEF EndedInv, Up
<1>3. CASE Leaves /\ ended = "no"
    BY <1>3, Zenon DEF Leaves, EndedInv
<1>4. ASSUME NEW n, Fetch(n), ended = "no" PROVE EndedInv'
    BY <1>4, Zenon DEF Fetch, EndedInv
<1>5. CASE UNCHANGED vars
    BY <1>1, <1>5, Zenon DEF vars, streamVars
<1>6. CASE Elapse
    BY <1>6, Zenon DEF Elapse, streamVars, EndedInv, Up
<1>7. CASE Receive
  <2>1. CASE Up /\ Fill /\ UNCHANGED callVars
    <3>1. CASE fetched = Len(text) /\ FillEnd
      <4>1. text' = text /\ fetched' = fetched
          BY <3>1, Zenon DEF FillEnd, Refuse, Leaves
      <4> QED BY <3>1, <4>1, Zenon DEF EndedInv
    <3> QED BY <1>3, <1>4, <2>1, <3>1, Zenon DEF Fill, Wants, DropChunk
  <2>2. CASE wire = "broken" /\ UNCHANGED callVars
      BY <2>2, Zenon DEF callVars, EndedInv
  <2>3. CASE Refuse /\ wire' = IF Up THEN "broken" ELSE wire
      BY <1>2, <2>3, Zenon DEF Refuse, Leaves
  <2> QED BY <1>7, <2>1, <2>2, <2>3, Zenon DEF Receive
<1>8. CASE ReadFailure
  <2>1. ASSUME NEW n \in 1 .. Chunk, Up, fetched + n <= Len(text), Fetch(n) PROVE EndedInv'
    <3>1. fetched # Len(text)
        BY <2>1, SMT DEF StreamInv, Positions, StreamAssumption
    <3>2. ended # "yes"
        BY <2>1, <3>1, Zenon DEF EndedInv, Up
    <3> QED BY <2>1, <3>2, Zenon DEF Fetch, EndedInv
  <2>2. ASSUME NEW v, Answer(v), wire' = wire \/ wire' = IF Up THEN "broken" ELSE wire
        PROVE  EndedInv'
      BY <1>1, <1>2, <2>2, Zenon DEF Answer
  <2> QED BY <1>8, <2>1, <2>2, Zenon DEF ReadFailure
<1>9. ASSUME Leaves, UNCHANGED <<wire, text>> PROVE EndedInv'
    BY <1>1, <1>9, Zenon DEF Leaves
<1>10. CASE Scan /\ UNCHANGED callVars
    BY <1>1, <1>10, ScanStands, Zenon DEF callVars
<1>11. ASSUME NEW then, Proceed(then) \/ Refuse, wire' = wire PROVE EndedInv'
    BY <1>1, <1>9, <1>11, Zenon DEF Proceed, Refuse
<1>12. CASE EnvelopeMember
  <2>1. wire' = wire /\ (Refuse \/ \E then : Proceed(then))
    <3>1. wire' = wire
        BY <1>12, Zenon DEF EnvelopeMember, callVars
    <3>2. Refuse \/ \E then : Proceed(then)
        BY <1>12, SMT DEF EnvelopeMember
    <3> QED BY <3>1, <3>2
  <2> QED BY <1>11, <2>1, Zenon
<1>13. CASE Store \/ BeginWalk \/ WalkMember \/ Note \/ EndWalk
    BY <1>11, <1>13, Zenon DEF Store, BeginWalk, WalkMember, Note, EndWalk
<1>14. CASE Discriminated \/ Fail
    BY <1>1, <1>14, Zenon DEF Discriminated, Fail, Answer
<1> QED BY <1>5, <1>6, <1>7, <1>8, <1>10, <1>12, <1>13, <1>14, Zenon DEF Next, Done

-----------------------------------------------------------------------------
(* Numbers.                                                                *)

LEMMA DigitsPrefix ==
    ASSUME NEW s \in Seq(Octets), Digits(Magnitude(s)), NEW k \in 2 .. Len(s)
    PROVE  Digits(Magnitude(SubSeq(s, 1, k)))
<1> DEFINE p == SubSeq(s, 1, k)
<1>1. /\ p \in Seq(Octets) /\ Len(p) = k /\ p # <<>> /\ s # <<>>
      /\ \A i \in 1 .. k : p[i] = s[i]
      /\ Len(s) \in Nat /\ k \in Nat /\ 2 <= k /\ k <= Len(s)
    BY SMT
<1> HIDE DEF p
<1>2. p[1] = s[1]
    BY <1>1, SMT
<1>3. CASE s[1] = "-"
  <2> DEFINE t == Tail(s)
             q == Tail(p)
  <2>1. Digits(t)
      BY <1>1, <1>3, Zenon DEF Magnitude
  <2>2. /\ Len(t) = Len(s) - 1 /\ Len(q) = k - 1 /\ q # <<>>
        /\ DOMAIN q = 1 .. k - 1 /\ DOMAIN t = 1 .. Len(s) - 1
        /\ \A i \in 1 .. k - 1 : q[i] = p[i + 1]
        /\ \A i \in 1 .. Len(s) - 1 : t[i] = s[i + 1]
        /\ t \in Seq(Octets) /\ q \in Seq(Octets)
    <3>1. /\ t \in Seq(Octets) /\ Len(t) = Len(s) - 1
          /\ \A i \in 1 .. Len(s) - 1 : t[i] = s[i + 1]
        BY <1>1, HeadTailProperties
    <3>2. /\ q \in Seq(Octets) /\ Len(q) = k - 1 /\ \A i \in 1 .. k - 1 : q[i] = p[i + 1]
        BY <1>1, HeadTailProperties
    <3> HIDE DEF t, q
    <3> QED BY <1>1, <3>1, <3>2, SMT
  <2> HIDE DEF t, q
  <2>3. \A i \in DOMAIN q : i \in DOMAIN t /\ q[i] = t[i]
    <3>1. ASSUME NEW i \in 1 .. k - 1 PROVE i \in 1 .. Len(s) - 1 /\ i + 1 \in 1 .. k
        BY <1>1, SMT
    <3>2. ASSUME NEW i \in 1 .. k - 1 PROVE q[i] = t[i]
        BY ONLY <1>1, <2>2, <3>1, Zenon
    <3> QED BY <2>2, <3>1, <3>2, Zenon
  <2>4. q[1] = "0" => Len(q) = 1
    <3>1. 1 \in DOMAIN q
        BY <1>1, <2>2, SMT
    <3>2. q[1] = t[1]
        BY <2>3, <3>1, Zenon
    <3>3. q[1] = "0" => Len(t) = 1
        BY <2>1, <3>2, Zenon DEF Digits
    <3>4. \A a \in Nat : \A b \in 2 .. a : a - 1 = 1 => b - 1 = 1
        BY ONLY SMT
    <3> QED BY <1>1, <2>2, <3>3, <3>4, Zenon
  <2>5. \A i \in DOMAIN q : q[i] \in {"0", "d"}
      BY <2>1, <2>3, Zenon DEF Digits
  <2>6. Digits(q)
      BY <2>2, <2>4, <2>5, Zenon DEF Digits
  <2>7. Magnitude(p) = q
      BY <1>1, <1>2, <1>3, Zenon DEF Magnitude, q
  <2> QED BY <2>6, <2>7, Zenon DEF p
<1>4. CASE s[1] # "-"
  <2>1. Digits(s) /\ Magnitude(p) = p
      BY <1>1, <1>2, <1>4, Zenon DEF Magnitude
  <2>2. DOMAIN p = 1 .. k /\ \A i \in 1 .. k : i \in DOMAIN s
      BY <1>1, SMT
  <2>3. \A i \in DOMAIN p : p[i] \in {"0", "d"}
      BY <1>1, <2>1, <2>2, Zenon DEF Digits
  <2>4. s[1] # "0"
    <3>1. Len(s) # 1
        BY <1>1, SMT
    <3> QED BY <2>1, <3>1, Zenon DEF Digits
  <2>5. Digits(p)
      BY <1>1, <1>2, <2>3, <2>4, Zenon DEF Digits
  <2> QED BY <2>1, <2>5, Zenon DEF p
<1> QED BY <1>3, <1>4

(* What begins a number is one: but for a sign alone, and an exponent which *)
(* is the last octet of it.                                                *)
LEMMA NumberPrefix ==
    ASSUME NEW s \in Seq(Octets), IsNumber(s), NEW k \in 2 .. Len(s) - 1
    PROVE  IsNumber(SubSeq(s, 1, k))
<1>1. CASE Digits(Magnitude(s))
  <2>1. k \in 2 .. Len(s)
      BY SMT
  <2> QED BY <1>1, <2>1, DigitsPrefix, Zenon DEF IsNumber
<1>2. CASE Len(s) > 1 /\ Digits(Magnitude(Mantissa(s)))
  <2>1. CASE s[Len(s)] = "E"
    <3> DEFINE t == SubSeq(s, 1, Len(s) - 1)
    <3>1. /\ t \in Seq(Octets) /\ k \in 2 .. Len(t)
          /\ SubSeq(t, 1, k) = SubSeq(s, 1, k)
        BY <1>2, SMT
    <3>2. Digits(Magnitude(t))
        BY <1>2, <2>1, Zenon DEF Mantissa
    <3> HIDE DEF t
    <3> QED BY <3>1, <3>2, DigitsPrefix, Zenon DEF IsNumber
  <2>2. CASE s[Len(s)] # "E"
    <3>1. Digits(Magnitude(s))
        BY <1>2, <2>2, Zenon DEF Mantissa
    <3> QED BY <1>1, <3>1
  <2> QED BY <2>1, <2>2
<1> QED BY <1>1, <1>2, Zenon DEF IsNumber

(* Whatever stands at the place where a scalar is read is read whole: what  *)
(* is consumed is a number, and no longer one begins there, neither in the  *)
(* buffer nor in what is not fetched yet, unless the wire broke.            *)
NumberAt(m) == IsNumber(SubSeq(text, At + 1, At + m))
ReadsNumber(n) == Doing("scalar") /\ ~ Literal /\ todo' = Rest /\ pos' = pos + n
NumbersAreWhole ==
    [][\A n \in 1 .. Len(text) - At :
          wire # "broken" /\ ReadsNumber(n)
          => NumberAt(n) /\ \A m \in n + 1 .. Len(text) - At : ~ NumberAt(m)]_vars

LEMMA OnlyScalar ==
    ASSUME [Next]_vars, Doing("scalar"), pos' # pos, pos' # 0
    PROVE  Scalar
<1>1. todo # <<>> /\ Head(todo).do = "scalar"
    BY Zenon DEF Doing
<1>2. ASSUME NEW do, do # "scalar", Doing(do) PROVE FALSE
    BY <1>1, <1>2, Zenon DEF Doing
<1>3. ~ ReadsOctet
    BY <1>1, Zenon DEF ReadsOctet, OctetSteps
<1>4. ASSUME NEW do, do # "scalar", Sees(do) PROVE FALSE
    BY <1>2, <1>4, Zenon DEF Sees
<1>5. Refuse \/ UNCHANGED vars \/ Elapse => FALSE
    BY Zenon DEF Refuse, vars, streamVars, Elapse
<1>6. Receive => FALSE
    BY <1>5, Zenon DEF Receive, Fill, FillEnd, Fetch, DropChunk
<1>7. Scan => Scalar
    BY <1>2, <1>3, <1>4, <1>5, Zenon DEF Scan, CutShort, Space, Expect, Chars, Skip, Inside,
       After, Keep, Take, First, More, Peek, Caught, End
<1>8. ReadFailure \/ EnvelopeMember \/ Store \/ BeginWalk \/ WalkMember \/ Note \/ EndWalk
      \/ Discriminated \/ Fail => FALSE
    BY <1>2, Zenon DEF ReadFailure, EnvelopeMember, Store, BeginWalk, WalkMember, Note, EndWalk,
       Discriminated, Fail
<1> QED BY <1>1, <1>5, <1>6, <1>7, <1>8, Zenon DEF Next, Done

LEMMA ScalarReads ==
    ASSUME IndInv, [Next]_vars, NEW n \in 1 .. Len(text) - At, ReadsNumber(n)
    PROVE  n \in 1 .. Buffered /\ Longest(n) /\ n <= MaxNumber /\ ScalarReady
<1>1. pos' = pos + n /\ pos' # pos /\ pos' # 0
    BY SMT DEF ReadsNumber, IndInv, StreamInv, Positions, At
<1>2. Scalar
    BY <1>1, OnlyScalar, Zenon DEF ReadsNumber
<1>3. ~ Refuse
    BY <1>1, Zenon DEF Refuse
<1>4. PICK m \in 1 .. Buffered : Longest(m) /\ ~ (m > MaxNumber) /\ Consume(m, Rest)
    BY <1>2, <1>3, Zenon DEF Scalar, ReadsNumber
<1>5. pos' = pos + m
    BY <1>3, <1>4, Zenon DEF Consume, Advance
<1>6. m = n
    BY <1>1, <1>4, <1>5, Room, SMT DEF IndInv, StreamInv, Positions, At
<1>7. n <= MaxNumber
    BY <1>4, <1>6, SMT DEF StreamAssumption
<1> QED BY <1>2, <1>4, <1>6, <1>7, Zenon DEF Scalar

LEMMA LongestOfAll ==
    ASSUME IndInv, EndedInv, wire # "broken", ScalarReady, Doing("scalar"),
           NEW n \in 1 .. Buffered, Longest(n), n <= MaxNumber,
           NEW m \in n + 1 .. Len(text) - At, NumberAt(m)
    PROVE  FALSE
<1>1. /\ text \in Seq(Octets) /\ At \in Nat /\ fetched \in Nat /\ fetched <= Len(text)
      /\ Buffered = fetched - At /\ m \in Nat /\ n \in Nat /\ At + m <= Len(text) /\ n < m
    BY SMT DEF IndInv, StreamInv, Positions, At, Buffered
<1>2. ~ (m \in n + 1 .. Buffered)
  <2>1. m \in 1 .. Buffered => NumberHere(m)
      BY Zenon DEF NumberHere, NumberAt
  <2>2. m \in n + 1 .. Buffered => m \in 1 .. Buffered
      BY <1>1, SMT
  <2> QED BY <2>1, <2>2, Zenon DEF Longest
<1>3. CASE Buffered >= Wanted
  <2>1. Wanted = MaxNumber + 1
      BY SMT DEF Wanted, Doing
  <2> DEFINE s == SubSeq(text, At + 1, At + m)
             k == n + 1
  <2>2. s \in Seq(Octets) /\ Len(s) = m
      BY <1>1, SMT
  <2>3. k \in n + 1 .. Buffered /\ k \in 1 .. Buffered
      BY <1>1, <1>3, <2>1, SMT DEF StreamAssumption
  <2>4. k \in 2 .. m - 1
      BY <1>1, <1>2, <2>3, SMT
  <2>5. SubSeq(s, 1, k) = SubSeq(text, At + 1, At + k)
      BY <1>1, <2>4, SMT
  <2>6. IsNumber(s)
      BY Zenon DEF NumberAt
  <2> HIDE DEF s
  <2>7. IsNumber(SubSeq(s, 1, k))
      BY <2>2, <2>4, <2>6, NumberPrefix, Zenon
  <2>8. NumberHere(k)
      BY <2>3, <2>5, <2>7, Zenon DEF NumberHere
  <2> QED BY <2>3, <2>8, Zenon DEF Longest
<1>4. CASE CutOff
  <2>1. fetched = Len(text)
      BY <1>4, Zenon DEF CutOff, EndedInv
  <2> QED BY <1>1, <1>2, <2>1, SMT
<1> QED BY <1>3, <1>4, Zenon DEF ScalarReady, Has

(* A chunk may end inside of a number: the scanner reads on until it has an *)
(* octet more than the longest number it takes, or the end, so that no      *)
(* number is split where a chunk of the wire happens to be.                 *)
THEOREM NumbersKept == Spec => NumbersAreWhole
<1> DEFINE Whole == \A n \in 1 .. Len(text) - At :
               wire # "broken" /\ ReadsNumber(n)
               => NumberAt(n) /\ \A m \in n + 1 .. Len(text) - At : ~ NumberAt(m)
<1>1. ASSUME IndInv, EndedInv, [Next]_vars PROVE Whole
  <2> SUFFICES ASSUME NEW n \in 1 .. Len(text) - At, wire # "broken", ReadsNumber(n)
               PROVE  NumberAt(n) /\ \A m \in n + 1 .. Len(text) - At : ~ NumberAt(m)
      BY Zenon
  <2>1. n \in 1 .. Buffered /\ Longest(n) /\ n <= MaxNumber /\ ScalarReady
      BY <1>1, ScalarReads, Zenon
  <2>2. Doing("scalar")
      BY Zenon DEF ReadsNumber
  <2>3. NumberAt(n)
      BY <2>1, Zenon DEF Longest, NumberHere, NumberAt
  <2>4. ASSUME NEW m \in n + 1 .. Len(text) - At PROVE ~ NumberAt(m)
      BY <1>1, <2>1, <2>2, LongestOfAll, Zenon
  <2> QED BY <2>3, <2>4, Zenon
<1>2. IndInv /\ EndedInv /\ [Next]_vars => IndInv' /\ EndedInv'
    BY Stays, EndedStays, Zenon DEF IndInv
<1>3. Init => IndInv /\ EndedInv
  <2>1. Init => EndedInv
      BY Zenon DEF Init, StreamInit, EndedInv
  <2> QED BY <2>1, Initially
<1>4. IndInv /\ EndedInv /\ [Next]_vars => [Whole]_vars
    BY <1>1
<1> HIDE DEF Whole
<1>5. Spec => [][Whole]_vars
    BY <1>2, <1>3, <1>4, PTL DEF Spec
<1> QED BY <1>5 DEF NumbersAreWhole, Whole

-----------------------------------------------------------------------------
(* The reply is read when nothing of it is left.                            *)
AllRead == ended = "yes" /\ Buffered = 0
EndInv ==
    scenario.status = "ok" =>
        /\ \/ todo = <<>> \/ todo = <<Refused>> \/ Bottom(todo)
           \/ Len(todo) = 1 /\ Doing("read") /\ AllRead
        /\ outcome.kind \in {"result", "rpc"} => AllRead

LEMMA ScenarioForever == ASSUME [Next]_vars PROVE scenario' = scenario
BY Zenon DEF vars, Next, Elapse, Receive, callVars, ReadFailure, Answer, EnvelopeMember, Store,
   BeginWalk, WalkMember, Note, EndWalk, Discriminated, Fail, Done

(* Where the calls are all made, or the reply of them is to be read, the    *)
(* stream is left alone.                                                    *)
LEMMA ReadRests ==
    ASSUME [Next]_vars, todo = <<>> \/ Doing("read")
    PROVE  /\ UNCHANGED <<text, fetched, offset, pos, ended>>
           /\ (todo' = todo /\ outcome' = outcome) \/ todo' = <<>>
<1>1. ASSUME NEW do, do # "read", Doing(do) PROVE FALSE
    BY <1>1, Zenon DEF Doing
<1>2. ~ ReadsOctet
    BY Zenon DEF ReadsOctet, OctetSteps, Doing
<1>3. ~ Reads
    BY <1>1, <1>2, Zenon DEF Reads
<1>4. ~ Scan
    BY <1>1, <1>3, Zenon DEF Scan, CutShort, CutOff, Has, Space, Expect, Chars, Scalar, Skip,
       Inside, After, Keep, Take, First, More, Peek, Caught, End, Sees
<1>5. ~ Receive
    BY <1>3, Zenon DEF Receive, Fill, Wants
<1>6. ~ (ReadFailure \/ EnvelopeMember \/ Store \/ BeginWalk \/ WalkMember \/ Note \/ EndWalk
         \/ Fail)
    BY <1>1, Zenon DEF ReadFailure, EnvelopeMember, Store, BeginWalk, WalkMember, Note, EndWalk,
       Fail
<1>7. UNCHANGED vars \/ Elapse \/ Discriminated
    BY <1>4, <1>5, <1>6, Zenon DEF Next, Done
<1> QED BY <1>7, Zenon DEF vars, streamVars, Elapse, Discriminated, Answer

LEMMA OnlyEnd ==
    ASSUME [Next]_vars, Doing("end"), todo' # todo, ~ Leaves
    PROVE  CutOff /\ Proceed(Rest)
<1>1. ASSUME NEW do, do # "end", Doing(do) PROVE FALSE
    BY <1>1, Zenon DEF Doing
<1>2. ASSUME NEW do, do # "end", Sees(do) PROVE FALSE
    BY <1>1, <1>2, Zenon DEF Sees
<1>3. ~ (Refuse \/ UNCHANGED vars \/ Elapse)
    BY Zenon DEF Refuse, vars, streamVars, Elapse
<1>4. ~ Receive
    BY <1>3, Zenon DEF Receive, Fill, FillEnd, Fetch, DropChunk
<1>5. Scan => End
    BY <1>1, <1>2, <1>3, Zenon DEF Scan, CutShort, Space, Consume, Advance, Expect, Chars, Scalar,
       Skip, Inside, After, Keep, Take, First, More, Peek, Caught
<1>6. ~ (ReadFailure \/ EnvelopeMember \/ Store \/ BeginWalk \/ WalkMember \/ Note \/ EndWalk
         \/ Discriminated \/ Fail)
    BY <1>1, Zenon DEF ReadFailure, EnvelopeMember, Store, BeginWalk, WalkMember, Note, EndWalk,
       Discriminated, Fail
<1>7. End
    BY <1>3, <1>4, <1>5, <1>6, Zenon DEF Next, Done
<1> QED BY <1>3, <1>7, Zenon DEF End

LEMMA TailOfTwo ==
    ASSUME NEW s \in Seq(Tasks), Len(s) = 2
    PROVE  /\ Tail(s) \in Seq(Tasks) /\ Len(Tail(s)) = 1 /\ Tail(s) # <<>>
           /\ Head(Tail(s)) = s[2] /\ DOMAIN s = 1 .. 2
<1>1. s # <<>> /\ DOMAIN s = 1 .. 2
  <2>1. 2 # 0
      BY SMT
  <2> QED BY <2>1, EmptySeq, LenProperties, Zenon
<1>2. /\ Tail(s) \in Seq(Tasks) /\ Len(Tail(s)) = Len(s) - 1
      /\ \A i \in 1 .. Len(Tail(s)) : Tail(s)[i] = s[i + 1]
    BY <1>1, HeadTailProperties
<1>3. Len(s) - 1 = 1 /\ 1 + 1 = 2 /\ 1 \in 1 .. 1 /\ 1 # 0
    BY SMT
<1>4. Len(Tail(s)) = 1 /\ Tail(s)[1] = s[2]
    BY <1>2, <1>3, Zenon
<1>5. Tail(s) # <<>>
    BY <1>3, <1>4, EmptySeq, Zenon
<1>6. Head(Tail(s)) = Tail(s)[1]
  <2> DEFINE t == Tail(s)
  <2>1. t \in Seq(Tasks) /\ t # <<>>
      BY <1>2, <1>5
  <2> HIDE DEF t
  <2>2. Head(t) = t[1]
      BY <2>1, SMT
  <2> QED BY <2>2 DEF t
<1> QED BY <1>1, <1>2, <1>4, <1>5, <1>6, Zenon

LEMMA EndReadsAll ==
    ASSUME IndInv, Order(todo), Bottom(todo), Doing("end"), todo' = Rest, [Next]_vars
    PROVE  Bottom(todo') \/ (Len(todo') = 1 /\ (Doing("read"))' /\ AllRead')
<1>1. /\ todo \in Seq(Tasks) /\ todo # <<>> /\ 1 \in DOMAIN todo /\ Head(todo) = todo[1]
      /\ Len(todo) >= 2 /\ todo[1].do = "end" /\ StreamInv
    <2>1. todo \in Seq(Tasks) /\ StreamInv
        BY TodoTyped, Zenon DEF IndInv
    <2> QED BY <2>1, SMT DEF Doing, Bottom
<1>2. CASE Len(todo) = 2
  <2>1. /\ todo[2].do = "read" /\ Rest \in Seq(Tasks) /\ Len(Rest) = 1 /\ Rest # <<>>
        /\ Head(Rest) = todo[2] /\ DOMAIN todo = 1 .. 2
    <3>1. todo[2].do = "read"
        BY <1>2, Zenon DEF Bottom
    <3> QED BY <1>1, <1>2, <3>1, TailOfTwo, Zenon DEF Rest
  <2>2. ~ Leaves
    <3>1. ASSUME NEW i \in DOMAIN todo, todo[i].do = "caught" PROVE FALSE
      <4>1. i = 1 \/ i = 2
          BY <2>1, SMT
      <4> QED BY <1>1, <2>1, <3>1, <4>1, Zenon
    <3>2. Head(<<Refused>>).do = "refused"
        BY SMT DEF Refused, Step, Task
    <3>3. todo' # <<Refused>>
        BY <2>1, <3>2, Zenon
    <3> QED BY <3>1, <3>3, Zenon DEF Leaves, Catches
  <2>3. todo' # todo
    <3>1. 1 # 2
        BY SMT
    <3> QED BY <1>2, <2>1, <3>1, Zenon
  <2>4. CutOff /\ Proceed(Rest)
      BY <2>2, <2>3, OnlyEnd
  <2>5. ended = "yes" /\ Buffered < 1
      BY <2>4, SMT DEF CutOff, Wanted, Doing
  <2>6. ended' = "yes" /\ Buffered' = 0
      BY <1>1, <2>4, <2>5, SMT DEF Proceed, Buffered, At, StreamInv, Positions
  <2>7. Len(todo') = 1 /\ (Doing("read"))'
      BY <2>1, Zenon DEF Doing
  <2> QED BY <2>6, <2>7, Zenon DEF AllRead
<1>3. CASE Len(todo) # 2
    BY <1>1, <1>3, OrderTail, Zenon DEF Rest
<1> QED BY <1>2, <1>3

LEMMA EndStays ==
    ASSUME IndInv, WalkInv, EndInv, [Next]_vars
    PROVE  EndInv'
<1> SUFFICES ASSUME scenario.status = "ok"
             PROVE  /\ \/ todo' = <<>> \/ todo' = <<Refused>> \/ Bottom(todo')
                       \/ Len(todo') = 1 /\ (Doing("read"))' /\ AllRead'
                    /\ outcome'.kind \in {"result", "rpc"} => AllRead'
    BY ScenarioForever, Zenon DEF EndInv
<1>1. /\ \/ todo = <<>> \/ todo = <<Refused>> \/ Bottom(todo)
         \/ Len(todo) = 1 /\ Doing("read") /\ AllRead
      /\ outcome.kind \in {"result", "rpc"} => AllRead
    BY Zenon DEF EndInv
<1>2. ASSUME UNCHANGED <<text, fetched, offset, pos, ended>>, AllRead PROVE AllRead'
    BY <1>2, Zenon DEF AllRead, Buffered, At
<1>3. None.kind \notin {"result", "rpc"} /\ FetchError.kind \notin {"result", "rpc"}
    BY SMT DEF None, FetchError
<1>4. CASE todo = <<>> \/ (Len(todo) = 1 /\ Doing("read") /\ AllRead)
  <2>1. /\ UNCHANGED <<text, fetched, offset, pos, ended>>
        /\ (todo' = todo /\ outcome' = outcome) \/ todo' = <<>>
      BY <1>4, ReadRests
  <2>2. CASE todo = <<>>
    <3>1. outcome' = outcome /\ todo' = todo
      <4>1. \A do : ~ Doing(do)
          BY <2>2, Zenon DEF Doing
      <4> QED BY <1>1, <2>2, <4>1, NextMoves, Zenon DEF Moves, Follows
    <3> QED BY <1>1, <1>2, <2>1, <2>2, <3>1, Zenon
  <2>3. CASE Len(todo) = 1 /\ Doing("read") /\ AllRead
    <3>1. AllRead'
        BY <1>2, <2>1, <2>3
    <3>2. todo' = todo => (Doing("read"))'
        BY <2>3, Zenon DEF Doing
    <3> QED BY <2>1, <2>3, <3>1, <3>2, Zenon
  <2> QED BY <1>4, <2>2, <2>3
<1>5. CASE Bottom(todo)
  <2>1. todo \in Seq(Tasks) /\ Order(todo) /\ outcome = None /\ todo # <<>>
    <3>1. todo \in Seq(Tasks) /\ Order(todo)
        BY TodoTyped, Zenon DEF IndInv, WalkInv
    <3>2. todo # <<>>
        BY <1>5, SMT DEF Bottom
    <3> QED BY <3>1, <3>2, Zenon DEF WalkInv
  <2>2. Head(todo).do \notin {"failure", "read"}
    <3>1. 1 \in DOMAIN todo /\ Head(todo) = todo[1] /\ 1 # Len(todo)
        BY <1>5, <2>1, SMT DEF Bottom
    <3> QED BY <2>1, <3>1, Zenon DEF Order
  <2>3. CASE todo' = todo /\ outcome' = outcome
      BY <1>3, <1>5, <2>1, <2>3, Zenon
  <2>4. CASE Follows
    <3>1. outcome' = None
        BY <2>1, <2>4, Zenon DEF Follows
    <3>2. Bottom(todo') \/ todo' = <<Refused>> \/ (Doing("end") /\ todo' = Rest)
        BY <1>5, <2>4, Zenon DEF Follows
    <3> QED BY <1>3, <1>5, <2>1, <3>1, <3>2, EndReadsAll, Zenon
  <2>5. CASE todo' = <<>> /\ outcome' = FetchError
      BY <1>3, <2>5, Zenon
  <2> QED BY <2>2, <2>3, <2>4, <2>5, NextMoves, Zenon DEF Moves
<1>6. CASE todo = <<Refused>>
  <2>1. Head(todo).do = "refused" /\ todo # <<>>
      BY <1>6, SMT DEF Refused, Step, Task
  <2>2. outcome = None
      BY <2>1, Zenon DEF WalkInv
  <2> QED BY <1>3, <1>6, <2>1, <2>2, NextMoves, Zenon DEF Moves, Follows
<1> QED BY <1>1, <1>4, <1>5, <1>6, Zenon

LEMMA EndInitially == Init => EndInv
<1> SUFFICES ASSUME Init, scenario.status = "ok"
             PROVE  Bottom(todo) /\ outcome.kind \notin {"result", "rpc"}
    BY Zenon DEF EndInv
<1>1. outcome = None /\ todo = Generator("{") \o <<Step("end"), Step("read")>>
    BY Zenon DEF Init, StreamInit
<1> DEFINE e == Step("end")
           r == Step("read")
           s == <<e, r>>
<1>2. e \in Tasks /\ r \in Tasks /\ e.do = "end" /\ r.do = "read"
    BY SMT DEF Step, Task, Tasks, Steps, Subjects
<1> HIDE DEF e, r
<1>3. ASSUME NEW p \in Seq(Ordinary) PROVE Bottom(p \o s)
  <2>1. LET q == p \o s IN
            Len(q) >= 2 /\ q[Len(q)] = r /\ q[Len(q) - 1] = e
      BY <1>2, SMT
  <2> QED BY <1>2, <2>1, Zenon DEF Bottom
<1>4. Generator("{") \in Seq(Ordinary)
    BY AllOrdinary, Words, Zenon DEF Openers
<1>5. Bottom(Generator("{") \o s)
    BY <1>3, <1>4, Zenon
<1>6. None.kind \notin {"result", "rpc"}
    BY SMT DEF None
<1> QED BY <1>1, <1>5, <1>6, Zenon DEF e, r

(* No answer is told of a reply before all of it is read: a result, or an   *)
(* error of the node's, stands only where every octet of the document was   *)
(* consumed, what follows the object included, unless the wire broke.       *)
AnswerReadsAll ==
    outcome.kind \in {"result", "rpc"} /\ scenario.status = "ok" /\ wire # "broken"
    => At = Len(text)
THEOREM AllIsRead == Spec => []AnswerReadsAll
<1>1. Init => IndInv /\ WalkInv /\ EndedInv /\ EndInv
  <2>1. Init => EndedInv
      BY Zenon DEF Init, StreamInit, EndedInv
  <2> QED BY <2>1, Initially, WalkInitially, EndInitially
<1>2. IndInv /\ WalkInv /\ EndedInv /\ EndInv /\ [Next]_vars
      => (IndInv /\ WalkInv /\ EndedInv /\ EndInv)'
    BY Stays, WalkStays, EndedStays, EndStays, Zenon DEF IndInv
<1>3. IndInv /\ EndedInv /\ EndInv => AnswerReadsAll
  <2> SUFFICES ASSUME IndInv, EndedInv, AllRead, wire # "broken" PROVE At = Len(text)
      BY Zenon DEF EndInv, AnswerReadsAll
  <2>1. fetched = Len(text)
      BY Zenon DEF EndedInv, AllRead
  <2> QED BY <2>1, SMT DEF AllRead, Buffered, IndInv, StreamInv, Positions, At
<1> QED BY <1>1, <1>2, <1>3, PTL DEF Spec

-----------------------------------------------------------------------------
(* The body of a failure.                                                  *)

(* What the reply of a failure is to be read by: all of its body, or as     *)
(* much of it as is read of one; or nothing, where reading it failed.       *)
FailureBody ==
    SubSeq(scenario.text, 1,
           IF Len(scenario.text) < MaxError THEN Len(scenario.text) ELSE MaxError)
FailureTold ==
    \/ outcome = ReadReply(RequestId, Reply(FailureBody))
    \/ wire # "up" /\ outcome = ReadReply(RequestId, Reply(<<>>))
FailureInv ==
    scenario.status = "error" =>
        /\ text = scenario.text
        /\ \/ todo = <<Step("failure")>> /\ fetched <= MaxError /\ outcome = None
           \/ todo = <<>> /\ FailureTold

(* Where a failure is read, nothing else is.                                *)
LEMMA OnlyFailure ==
    ASSUME [Next]_vars, todo = <<>> \/ Doing("failure")
    PROVE  UNCHANGED vars \/ Elapse \/ (Doing("failure") /\ ReadFailure)
<1>1. ASSUME NEW do, do # "failure", Doing(do) PROVE FALSE
    BY <1>1, Zenon DEF Doing
<1>2. ~ ReadsOctet
    BY Zenon DEF ReadsOctet, OctetSteps, Doing
<1>3. ~ Reads
    BY <1>1, <1>2, Zenon DEF Reads
<1>4. ~ Scan
    BY <1>1, <1>3, Zenon DEF Scan, CutShort, CutOff, Has, Space, Expect, Chars, Scalar, Skip,
       Inside, After, Keep, Take, First, More, Peek, Caught, End, Sees
<1>5. ~ Receive
    BY <1>3, Zenon DEF Receive, Fill, Wants
<1>6. ~ (EnvelopeMember \/ Store \/ BeginWalk \/ WalkMember \/ Note \/ EndWalk
         \/ Discriminated \/ Fail)
    BY <1>1, Zenon DEF EnvelopeMember, Store, BeginWalk, WalkMember, Note, EndWalk,
       Discriminated, Fail
<1> QED BY <1>4, <1>5, <1>6, Zenon DEF Next, Done, ReadFailure

LEMMA FailureStays ==
    ASSUME IndInv, FailureInv, [Next]_vars
    PROVE  FailureInv'
<1> SUFFICES ASSUME scenario.status = "error"
             PROVE  /\ text' = scenario.text
                    /\ \/ todo' = <<Step("failure")>> /\ fetched' <= MaxError /\ outcome' = None
                       \/ todo' = <<>> /\ FailureTold'
    BY ScenarioForever, Zenon DEF FailureInv, None
<1>1. /\ text = scenario.text
      /\ \/ todo = <<Step("failure")>> /\ fetched <= MaxError /\ outcome = None
         \/ todo = <<>> /\ FailureTold
    BY Zenon DEF FailureInv
<1>2. scenario' = scenario
    BY ScenarioForever
<1>3. CASE UNCHANGED vars
    BY <1>1, <1>3, Zenon DEF vars, streamVars, FailureTold, FailureBody, Reply, None
<1>4. CASE Elapse
    BY <1>1, <1>4, Zenon DEF Elapse, streamVars, None
<1>5. CASE Doing("failure") /\ ReadFailure
  <2>1. todo = <<Step("failure")>> /\ fetched <= MaxError /\ outcome = None
      BY <1>1, <1>5, Zenon DEF Doing
  <2>2. /\ text \in Seq(Octets) /\ fetched \in Nat /\ fetched <= Len(text) /\ MaxError \in Nat
        /\ Len(text) \in Nat
      BY ScenariosAssumption, SMT DEF IndInv, StreamInv, Positions, ScenariosAssumption
  <2>3. ASSUME NEW n \in 1 .. Chunk, fetched + n <= MaxError, Fetch(n), UNCHANGED callVars
        PROVE  /\ text' = scenario.text
               /\ todo' = <<Step("failure")>> /\ fetched' <= MaxError /\ outcome' = None
      BY <1>1, <2>1, <2>3, Zenon DEF Fetch, callVars, None
  <2>4. ASSUME fetched = MaxError \/ (Up /\ fetched = Len(text)),
               Answer(ReadReply(RequestId, Reply(SubSeq(text, 1, fetched)))), UNCHANGED wire
        PROVE  text' = scenario.text /\ todo' = <<>> /\ FailureTold'
    <3>1. SubSeq(text, 1, fetched) = FailureBody
      <4>1. fetched = IF Len(text) < MaxError THEN Len(text) ELSE MaxError
          BY <2>1, <2>2, <2>4, SMT
      <4> QED BY <1>1, <4>1, Zenon DEF FailureBody
    <3>2. FailureBody' = FailureBody
        BY <1>2, Zenon DEF FailureBody
    <3>3. outcome' = ReadReply(RequestId, Reply(FailureBody))
        BY <2>4, <3>1, Zenon DEF Answer
    <3>4. text' = text /\ todo' = <<>>
        BY <2>4, Zenon DEF Answer
    <3>5. FailureTold'
        BY <3>2, <3>3, Zenon DEF FailureTold
    <3> QED BY <1>1, <3>4, <3>5, Zenon
  <2>5. ASSUME Answer(ReadReply(RequestId, Reply(<<>>))),
               wire' = IF Up THEN "broken" ELSE wire
        PROVE  text' = scenario.text /\ todo' = <<>> /\ FailureTold'
    <3>1. wire' # "up"
        BY <2>5, Zenon DEF Up
    <3>2. /\ outcome' = ReadReply(RequestId, Reply(<<>>)) /\ text' = text /\ todo' = <<>>
        BY <2>5, Zenon DEF Answer
    <3>3. FailureTold'
        BY <3>1, <3>2, Zenon DEF FailureTold
    <3> QED BY <1>1, <3>2, <3>3, Zenon
  <2> QED BY <1>5, <2>3, <2>4, <2>5, Zenon DEF ReadFailure
<1>6. todo = <<>> \/ Doing("failure")
  <2>1. <<Step("failure")>> # <<>> /\ Head(<<Step("failure")>>).do = "failure"
      BY SMT DEF Step, Task
  <2> QED BY <1>1, <2>1, Zenon DEF Doing
<1> QED BY <1>3, <1>4, <1>5, <1>6, OnlyFailure, Zenon

(* A call that failed is told of its failure by the body of it: once it is  *)
(* told anything, that is what the first MAX_ERROR_BODY_SIZE octets of the  *)
(* body say, in whatever chunks they came and though there be more of them; *)
(* or, only where the wire broke or the deadline passed, what no body says. *)
FailureIsTold == scenario.status = "error" /\ outcome # None => FailureTold
THEOREM FailureToldByItsBody == Spec => []FailureIsTold
<1>1. Init => IndInv /\ FailureInv
  <2> SUFFICES ASSUME Init, scenario.status = "error" PROVE FailureInv
      BY Initially, Zenon DEF FailureInv
  <2>1. /\ text = scenario.text /\ todo = <<Step("failure")>> /\ fetched = 0 /\ outcome = None
      BY Zenon DEF Init, StreamInit
  <2>2. 0 <= MaxError
      BY ScenariosAssumption, SMT DEF ScenariosAssumption
  <2> QED BY <2>1, <2>2, Zenon DEF FailureInv
<1>2. IndInv /\ FailureInv /\ [Next]_vars => (IndInv /\ FailureInv)'
    BY Stays, FailureStays, Zenon
<1>3. FailureInv => FailureIsTold
    BY Zenon DEF FailureInv, FailureIsTold
<1> QED BY <1>1, <1>2, <1>3, PTL DEF Spec
=============================================================================
