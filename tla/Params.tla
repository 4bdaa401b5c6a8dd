------------------------------- MODULE Params -------------------------------
(***************************************************************************)
(* `_request` of client.py, and the batch's: the caller's params are walked *)
(* and refused where json has no text for them, and then read a second time *)
(* and encoded, while another thread may change what they hold.             *)
(*                                                                          *)
(* The params of a member are a copy (`_params_member`) of the caller's     *)
(* outermost container; everything inside is the caller's own.              *)
(***************************************************************************)
EXTENDS Naturals, Sequences

CONSTANTS
    Containers,     \* the dicts and lists there are
    Copies,         \* those `_params_member` made
    MaxParamsDepth, \* _MAX_PARAMS_DEPTH
    MaxStack,       \* how many levels the encoder recurses before the interpreter stops it
    MaxChanges      \* a bound: how often the other thread comes between

(* What a value is to the walk and to the encoder.  "digits" is an int or a *)
(* Decimal json has and the interpreter will not write out; "object" has no *)
(* json, and a `bytes` is one; "nan" is a number json has not.              *)
Leaves == {"scalar", "digits", "object", "nan"}
Item == [name : {"string", "other"}, value : Leaves \cup Containers]
Container == [kind : {"dict", "list"}, items : Seq(Item)]

ASSUME ParamsAssumption ==
    /\ Copies \subseteq Containers /\ Containers \cap Leaves = {}
    /\ MaxParamsDepth \in Nat /\ MaxStack \in Nat /\ MaxParamsDepth < MaxStack
    /\ MaxChanges \in Nat

VARIABLES
    heap,    \* what each container holds
    members, \* the params of each member of the request, still to read
    phase,   \* "none", "walk", "encode", "built" or "refused"
    path,    \* the loops under way: of which container, at which item, of how many
    refusal, \* where the request was refused, and as what
    written, \* what the text holds
    changes

paramsVars == <<heap, members, phase, path, refusal, written, changes>>

Frame == [of : Containers, at : Nat, size : Nat]
NotRefused == [in |-> "none", as |-> "none"]

ParamsTypeOK ==
    /\ heap \in [Containers -> Container]
    /\ members \in Seq(Seq(Containers))
    /\ phase \in {"none", "walk", "encode", "built", "refused"}
    /\ path \in Seq(Frame)
    /\ refusal \in [in : {"none", "walk", "encode"},
                    as : {"none", "type", "value", "digits", "runtime"}]
    /\ written \subseteq Item
    /\ changes \in 0 .. MaxChanges

Loop(c) == [of |-> c, at |-> 1, size |-> Len(heap[c].items)]
Top == path[Len(path)]
Outer == SubSeq(path, 1, Len(path) - 1)
Here == heap[Top.of]
This == Here.items[Top.at]
IsLeaf(v) == v \in Leaves
Onward == Outer \o <<[Top EXCEPT !.at = @ + 1]>>

(* The first element of `members` is read now, first in a walk of each and  *)
(* then in the encoding of all: `todo` is both rounds.                      *)
BeginRequest(roots) ==
    /\ phase' = "walk" /\ members' = <<roots, roots>>
    /\ path' = <<>> /\ refusal' = NotRefused /\ written' = {}
    /\ UNCHANGED <<heap, changes>>

RefuseAs(kind) ==
    /\ phase' = "refused" /\ refusal' = [in |-> phase, as |-> kind]
    /\ path' = <<>> /\ members' = <<>>
    /\ UNCHANGED <<heap, written, changes>>

Reading == phase \in {"walk", "encode"}

(* The next member, the other round, or the text of the request.            *)
NextMember ==
    /\ Reading /\ path = <<>>
    /\ IF Head(members) # <<>>
       THEN /\ path' = <<Loop(Head(Head(members)))>>
            /\ members' = <<Tail(Head(members))>> \o Tail(members)
            /\ UNCHANGED phase
       ELSE /\ members' = Tail(members)
            /\ phase' = IF phase = "walk" THEN "encode" ELSE "built"
            /\ UNCHANGED path
    /\ UNCHANGED <<heap, refusal, written, changes>>

(* A dict that changed its size under its iterator is a RuntimeError, at    *)
(* the next item or at the end; a list is read as it is by then.            *)
Resized == Here.kind = "dict" /\ Len(Here.items) # Top.size
LoopEnds == ~ Resized /\ Top.at > Len(Here.items)
AtItem == ~ Resized /\ Top.at <= Len(Here.items)

LeaveContainer ==
    /\ Reading /\ path # <<>> /\ LoopEnds
    /\ path' = Outer
    /\ UNCHANGED <<heap, members, phase, refusal, written, changes>>
Interrupted == Reading /\ path # <<>> /\ Resized /\ RefuseAs("runtime")

(* A name is asked for in a dict alone.                                     *)
BadName == Here.kind = "dict" /\ This.name = "other"
Enclosing == {path[i].of : i \in DOMAIN path}

(* _assert_json_params, of one item: its name, its depth, what it is.       *)
WalkRefusal ==
    CASE BadName -> "type"
      [] ~ BadName /\ Len(path) > MaxParamsDepth -> "value"
      [] ~ BadName /\ Len(path) <= MaxParamsDepth /\ This.value = "object" -> "type"
      [] ~ BadName /\ Len(path) <= MaxParamsDepth /\ This.value \in Enclosing \cup {"nan"}
           -> "value"
      [] OTHER -> "none"

(* _request_json, of one item: it looks for no cycle, and the stack it has  *)
(* is the interpreter's.                                                    *)
FaultyEncodeRefusal == \* a fault: a name is rewritten, as json.dumps does
    CASE This.value = "object" -> "type"
      [] This.value = "digits" -> "digits"
      [] This.value = "nan" \/ (~ IsLeaf(This.value) /\ Len(path) >= MaxStack) -> "value"
      [] OTHER -> "none"
EncodeRefusal ==
    CASE BadName \/ This.value = "object" -> "type"
      [] ~ BadName /\ This.value = "digits" -> "digits"
      [] ~ BadName /\ (This.value = "nan" \/ (~ IsLeaf(This.value) /\ Len(path) >= MaxStack))
           -> "value"
      [] OTHER -> "none"

ReadItem ==
    /\ Reading /\ path # <<>> /\ AtItem
    /\ LET why == IF phase = "walk" THEN WalkRefusal ELSE EncodeRefusal IN
       IF why # "none" THEN RefuseAs(why)
       ELSE /\ path' = IF IsLeaf(This.value) THEN Onward ELSE Onward \o <<Loop(This.value)>>
            /\ written' = IF phase = "encode"
                          THEN written \cup {[name |-> IF BadName THEN "other" ELSE "string",
                                              value |-> This.value]}
                          ELSE written
            /\ UNCHANGED <<heap, members, phase, refusal, changes>>

BuildRequest == NextMember \/ LeaveContainer \/ Interrupted \/ ReadItem

(* Another thread sets an item, adds one or takes the last one out.         *)
Changed(items, item) ==
    {[items EXCEPT ![i] = item] : i \in DOMAIN items} \cup {Append(items, item)}
    \cup (IF items = <<>> THEN {} ELSE {SubSeq(items, 1, Len(items) - 1)})
Change ==
    /\ Reading /\ changes < MaxChanges
    /\ \E c \in Containers \ Copies, item \in Item :
        \E items \in Changed(heap[c].items, item) :
            heap' = [heap EXCEPT ![c].items = items]
    /\ changes' = changes + 1
    /\ UNCHANGED <<members, phase, path, refusal, written>>

(* What is sent is json, whatever came between the walk and the encoder;    *)
(* and where nothing did, the walk has refused all that the encoder would,  *)
(* but for a number of too many digits: nothing recurses out of the         *)
(* interpreter's stack and nothing is refused without its place.            *)
RequestIsJson ==
    /\ phase = "built" =>
          \A i \in written : i.name = "string" /\ i.value \in {"scalar"} \cup Containers
    /\ changes = 0 /\ refusal.in = "encode" => refusal.as = "digits"
    /\ changes = 0 => refusal.as # "runtime"
=============================================================================
