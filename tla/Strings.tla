------------------------------ MODULE Strings -------------------------------
(***************************************************************************)
(* The string helpers of the command line (cli/strings.cpp).               *)
(*                                                                         *)
(* A text is a sequence of symbols.  A symbol is one character, or a word  *)
(* nothing ever looks into: a keyword, a name, a number.  White space      *)
(* between the symbols of a constraint is not represented.                 *)
(***************************************************************************)
EXTENDS Integers, Sequences, FiniteSets

CONSTANTS
  Upper,      \* the symbols towupper changes, with what it makes of them
  CharRank,   \* how compare() ranks symbols
  NumberOf    \* the symbols stod reads as a number, with that number

ToUpper(s) ==
  [i \in DOMAIN s |-> IF s[i] \in DOMAIN Upper THEN Upper[s[i]] ELSE s[i]]

Cased(s, caseSensitive) == IF caseSensitive THEN s ELSE ToUpper(s)

(* Below, equal to or above 0: the first difference decides, or the length. *)
StringCompare(s1, s2, caseSensitive) ==
  LET a == Cased(s1, caseSensitive)
      b == Cased(s2, caseSensitive)
      differ == { i \in DOMAIN a \cap DOMAIN b : a[i] # b[i] }
      first  == CHOOSE i \in differ : \A j \in differ : i <= j
  IN  IF differ = {} THEN Len(a) - Len(b)
                     ELSE CharRank[a[first]] - CharRank[b[first]]

SameText(s1, s2, caseSensitive) == StringCompare(s1, s2, caseSensitive) = 0

IsSpace(symbol) == symbol = " "

Trim(s) ==
  LET kept == { i \in DOMAIN s : ~ IsSpace(s[i]) }
  IN  IF kept = {} THEN <<>>
      ELSE SubSeq(s, CHOOSE i \in kept : \A j \in kept : i <= j,
                     CHOOSE i \in kept : \A j \in kept : i >= j)

(* The items between the delimiters: one more than there are delimiters.   *)
Split(s, delimiter) ==
  LET cuts == { i \in DOMAIN s : s[i] = delimiter }
      cut[n \in 0 .. Cardinality(cuts) + 1] ==
        IF n = 0 THEN 0
        ELSE IF n > Cardinality(cuts) THEN Len(s) + 1
        ELSE CHOOSE i \in cuts : /\ i > cut[n - 1]
                                 /\ \A j \in cuts : j > cut[n - 1] => i <= j
  IN  [n \in 1 .. Cardinality(cuts) + 1 |-> SubSeq(s, cut[n - 1] + 1, cut[n] - 1)]

TextContainsNumber(s) == Len(s) = 1 /\ s[1] \in DOMAIN NumberOf

StringToNumber(s) == NumberOf[s[1]]

(***************************************************************************)
(* patternMatch: what is left of the pattern from i on matches what is     *)
(* left of the text from j on.  An asterisk consumes the asterisks after   *)
(* it, then symbols until the rest of the pattern matches; it never moves  *)
(* past the first symbol without matching the one after the asterisk.      *)
(***************************************************************************)
PatternMatch(pattern, text) ==
  LET n == Len(pattern)
      m == Len(text)
      LastStar(i) == CHOOSE k \in i .. n :
                       /\ \A l \in i .. k : pattern[l] = "*"
                       /\ k = n \/ pattern[k + 1] # "*"
      match[i \in 1 .. n + 1, j \in 1 .. m + 1] ==
        IF j > m THEN i > n \/ (i = n /\ pattern[n] = "*")
        ELSE IF i > n THEN FALSE
        ELSE IF pattern[i] = "*" THEN
               LET k == LastStar(i)
               IN  \/ k = n
                   \/ pattern[k + 1] \in {text[j], "?"} /\ match[k + 1, j]
                   \/ match[k, j + 1]
        ELSE pattern[i] \in {text[j], "?"} /\ match[i + 1, j + 1]
  IN  match[1, 1]
=============================================================================
