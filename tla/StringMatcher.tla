--------------------------- MODULE StringMatcher ---------------------------
(***************************************************************************)
(* KmpMatcher::match() (code/inc/algorithm/StringMatcher.h), which looks   *)
(* for a pattern in a text without going back in the text.  How far the    *)
(* pattern goes back after a partial match is read from a table: zero, for *)
(* the function that would fill it in is never called.                     *)
(*                                                                         *)
(* One step is one turn of the outer loop.                                 *)
(***************************************************************************)
EXTENDS Integers, Sequences

CONSTANTS Letter, Patterns, Texts

\* An empty pattern would be "found" at 1.
ASSUME MatcherAssumption ==
  /\ Patterns \subseteq Seq(Letter) \ {<<>>}
  /\ Texts \subseteq Seq(Letter)

VARIABLES pat, text,
  i,         \* the letters of the text that have been looked at
  matched,   \* how many of the last of them are the beginning of the pattern
  ret        \* what match() has returned, -2 before that

matchVars == <<pat, text, i, matched, ret>>

MatchInit == pat \in Patterns /\ text \in Texts /\ i = 0 /\ matched = 0 /\ ret = -2

\* mutant: what a longer match left behind is kept
dfsKept(n) == n - 1

dfs(n) == 0

\* the match that the next letter of the text can continue
Kept == IF matched > 0 /\ pat[matched + 1] # text[i + 1] THEN dfs(matched) ELSE matched

\* mutant: a letter that does not continue a match does not begin one either
TurnLosesLetter ==
  /\ ret = -2 /\ i < Len(text)
  /\ i' = i + 1
  /\ matched' = IF pat[matched + 1] = text[i + 1] THEN matched + 1 ELSE 0
  /\ ret' = IF matched' = Len(pat) THEN i + 1 - matched' ELSE ret
  /\ UNCHANGED <<pat, text>>

Turn ==
  /\ ret = -2 /\ i < Len(text)
  /\ i' = i + 1
  /\ matched' = IF pat[Kept + 1] = text[i + 1] THEN Kept + 1 ELSE Kept
  /\ ret' = IF matched' = Len(pat) THEN i + 1 - matched' ELSE ret
  /\ UNCHANGED <<pat, text>>

NotFound ==
  /\ ret = -2 /\ i = Len(text)
  /\ ret' = -1
  /\ UNCHANGED <<pat, text, i, matched>>

MatchNext == Turn \/ NotFound

MatchSpec == MatchInit /\ [][MatchNext]_matchVars

-----------------------------------------------------------------------------
(* Safety.                                                                 *)

\* match(text, pat), the function beside the matcher, returns the first of
\* these places, counted from 0, or -1.
Occurs(p) == /\ p + Len(pat) <= Len(text)
             /\ \A j \in 1 .. Len(pat) : text[p + j] = pat[j]

\* the first letter of the pattern does not come again in it
FirstAlone == \A j \in 2 .. Len(pat) : pat[j] # pat[1]

\* What a turn preserves.
MatchInv ==
  /\ pat \in Seq(Letter) \ {<<>>} /\ text \in Seq(Letter)
  /\ i \in 0 .. Len(text) /\ matched \in 0 .. i /\ ret \in Int
  /\ ret = -2 => matched < Len(pat)
  /\ \A j \in 1 .. matched : text[i - matched + j] = pat[j]
  /\ ret >= 0 => matched = Len(pat) /\ ret = i - matched
  /\ ret = -1 => i = Len(text) /\ matched < Len(pat)
  /\ FirstAlone => \A p \in 0 .. i - matched - 1 : ~ Occurs(p)

(* What match() returns is a place where the pattern stands, with the empty *)
(* table too.  It misses no place, and returns the first, as the plain      *)
(* function does, if the first letter of the pattern does not come again in *)
(* it: the tests have no other patterns ("cssx").  Those that the table is  *)
(* for it may miss: "aab" in "aaab", where all but the last letter matches  *)
(* and nothing of that is kept.                                             *)
FirstFound ==
  /\ ret >= 0 => Occurs(ret)
  /\ FirstAlone =>
       /\ ret >= 0 => \A p \in 0 .. ret - 1 : ~ Occurs(p)
       /\ ret = -1 => \A p \in 0 .. Len(text) : ~ Occurs(p)

=============================================================================
