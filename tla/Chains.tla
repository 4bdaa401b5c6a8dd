------------------------------- MODULE Chains -------------------------------
(***************************************************************************)
(* What chains.py computes: the CompactSize prefix of a script, and the p2p *)
(* magic of a signet, which is a hash of both.  A hash is taken to have no  *)
(* collisions, so it is the pair that is hashed.                            *)
(***************************************************************************)
EXTENDS Naturals, Sequences

CONSTANTS
    Radix,         \* how many values an octet has: 256, and fewer where TLC counts
    Texts,         \* the challenges a caller or a node may spell
    Scripts,       \* the scripts they spell
    ScriptOf,      \* bytes.fromhex, NoScript where a text is no hex
    ScriptSize,    \* the length of a script
    NoScript,
    DefaultScript  \* the script of DEFAULT_SIGNET_CHALLENGE

(* The octets of n, the least significant first: to_bytes(width, "little"). *)
Square == Radix * Radix
LittleEndian2(n) == <<n % Radix, n \div Radix>>
LittleEndian4(n) == LittleEndian2(n % Square) \o LittleEndian2(n \div Square)
LittleEndian8(n) ==
    LittleEndian4(n % (Square * Square)) \o LittleEndian4(n \div (Square * Square))

(* 0xFD, 0xFE and 0xFF say that two, four or eight octets follow.           *)
CompactSize(n) ==
    CASE n < Radix - 3 -> <<n>>
      [] n >= Radix - 3 /\ n < Square -> <<Radix - 3>> \o LittleEndian2(n)
      [] n >= Square /\ n < Square * Square -> <<Radix - 2>> \o LittleEndian4(n)
      [] OTHER -> <<Radix - 1>> \o LittleEndian8(n)

(* magic_from_signet_challenge, and the table's entry for a chain.          *)
Magic(script) == <<CompactSize(ScriptSize[script]), script>>
DefaultMagic == Magic(DefaultScript)

ASSUME TextsAssumption ==
    /\ Radix \in Nat /\ Radix > 3
    /\ NoScript \notin Scripts /\ DefaultScript \in Scripts
    /\ ScriptOf \in [Texts -> Scripts \cup {NoScript}]
    /\ ScriptSize \in [Scripts -> Nat]
=============================================================================
