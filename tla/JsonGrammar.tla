---------------------------- MODULE JsonGrammar ----------------------------
(***************************************************************************)
(* The grammar of json, as json.org gives it, over the octets of            *)
(* JsonStream: a family L of sets of sequences is closed under the rules,   *)
(* and a document is json where it is an element of each such family.       *)
(* There is no reader in it: nothing is consumed, in any order.             *)
(***************************************************************************)
EXTENDS JsonStream

Symbols == {"characters", "string", "value", "element", "elements", "name", "member", "members"}

(* Two octets of utf-8 are one character, and no octet else is a half of one. *)
Utf8(s) ==
    /\ \A i \in DOMAIN s : s[i] = "lead" <=> i + 1 \in DOMAIN s /\ s[i + 1] = "tail"
    /\ \A i \in DOMAIN s : s[i] = "tail" => i > 1

(* Octets that stand for themselves, as many as there are.                  *)
Unescaped == Seq(Octets \ {"quote", "\\", "ctrl"})
Escaped ==
    {<<"\\", o>> : o \in {"quote", "\\", "n"}}
    \cup {<<"\\", "u", h[1], h[2], h[3], h[4]>> : h \in [1 .. 4 -> {"d", "0", "E"}]}
Blanks == Seq({" "})
Digital == {<<"0">>} \cup {<<"d">> \o s : s \in Seq({"d", "0"})}
Numbers == Digital \cup {<<"-">> \o s : s \in Digital}

StringRules(L) ==
    /\ <<>> \in L["characters"]
    /\ \A s \in L["characters"], t \in Unescaped \cup Escaped : s \o t \in L["characters"]
    /\ \A s \in L["characters"] : <<"quote">> \o s \o <<"quote">> \in L["string"]
ScalarRules(L) == L["string"] \cup Numbers \cup {<<"n", "l">>} \subseteq L["value"]
ElementRules(L) ==
    /\ \A v \in L["value"], s, t \in Blanks : s \o v \o t \in L["element"]
    /\ L["element"] \subseteq L["elements"]
    /\ \A s \in L["elements"], e \in L["element"] : s \o <<",">> \o e \in L["elements"]
MemberRules(L) ==
    /\ \A v \in L["string"], s, t \in Blanks : s \o v \o t \in L["name"]
    /\ \A n \in L["name"], e \in L["element"] : n \o <<":">> \o e \in L["member"]
    /\ L["member"] \subseteq L["members"]
    /\ \A s \in L["members"], m \in L["member"] : s \o <<",">> \o m \in L["members"]
ContainerRules(L) ==
    /\ \A s \in Blanks \cup L["elements"] : <<"[">> \o s \o <<"]">> \in L["value"]
    /\ \A s \in Blanks \cup L["members"] : <<"{">> \o s \o <<"}">> \in L["value"]
Closed(L) ==
    StringRules(L) /\ ScalarRules(L) /\ ElementRules(L) /\ MemberRules(L) /\ ContainerRules(L)

Families == {L \in [Symbols -> SUBSET Seq(Octets)] : Closed(L)}

IsJson(s) == Utf8(s) /\ \A L \in Families : s \in L["element"]
=============================================================================
