------------------------------ MODULE GlobPattern ------------------------------
(***************************************************************************)
(* Restricted globs: how constraintEvaluator.js matches one against a       *)
(* string, and how delegationVerifier.js decides that one refines another.  *)
(*                                                                          *)
(* A pattern is the sequence of its segments, which "/" separates; a        *)
(* segment is a sequence of characters and of the tokens "*" and "**", no   *)
(* two tokens next to each other.  A string is a sequence of characters.    *)
(***************************************************************************)
EXTENDS Integers, Sequences, SequencesExt

Texts == Seq(STRING)  \* of characters

(* One of the characters that end a line. *)
LineBreak == "newline"

(* The segments that a pattern is split into. *)
Globs == {g \in Seq(Texts) : g # <<>> /\ \A i \in DOMAIN g : \A k \in DOMAIN g[i] : g[i][k] # "/"}

Stars == {"*", "**"}
AnyDepth == <<"**">>
Sentinel == "x"

(* The pattern as it is written. *)
Flat(pattern) ==
  LET upto[k \in 1..Len(pattern)] ==
        IF k = 1 THEN pattern[1] ELSE upto[k - 1] \o <<"/">> \o pattern[k]
  IN upto[Len(pattern)]

(* What one step of a star may take: "**" is written .* and stops at the    *)
(* end of a line, "*" is [^/]* and stops at a separator.                    *)
Takes(star, c) == IF star = "**" THEN c # LineBreak ELSE c # "/"

(* The anchored regular expression of the tokens. *)
MatchesTokens(tokens, s) ==
  LET from[at \in (1..Len(tokens) + 1) \X (1..Len(s) + 1)] ==
        LET i == at[1]
            j == at[2]
        IN IF i > Len(tokens) THEN j > Len(s)
           ELSE IF tokens[i] \in Stars
             THEN \/ from[<<i + 1, j>>]
                  \/ j <= Len(s) /\ Takes(tokens[i], s[j]) /\ from[<<i, j + 1>>]
             ELSE j <= Len(s) /\ s[j] = tokens[i] /\ from[<<i + 1, j + 1>>]
  IN from[<<1, 1>>]

MatchesGlob(pattern, s) == MatchesTokens(Flat(pattern), s)

--------------------------------------------------------------------------------
(* Refinement.                                                              *)

(* Within a segment the tokenizer makes one star of "**". *)
Tokens(seg) == [i \in DOMAIN seg |-> IF seg[i] \in Stars THEN "*" ELSE seg[i]]

StarsIn(seg) == {i \in DOMAIN seg : seg[i] \in Stars}
Literals(seg) == SelectSeq(seg, LAMBDA token : token \notin Stars)
WithSentinel(seg) == [i \in DOMAIN seg |-> IF seg[i] \in Stars THEN Sentinel ELSE seg[i]]

(* Two strings of the delegate are tried, and its stars are counted. *)
TokenSubset(p, d) ==
  /\ MatchesTokens(Tokens(p), Literals(d))
  /\ MatchesTokens(Tokens(p), WithSentinel(d))
  /\ Cardinality(StarsIn(d)) <= Cardinality(StarsIn(p))

IntraSegmentSubset(p, d) == p = d \/ TokenSubset(p, d)

(* A "**" segment of the parent stands for any number of segments of the    *)
(* delegate, also for none; any other stands for one.                       *)
SegmentSubset(parent, delegate) ==
  LET n == Len(parent)
      m == Len(delegate)
      from[at \in (1..n + 1) \X (1..m + 1)] ==
        LET i == at[1]
            j == at[2]
        IN IF i > n \/ j > m THEN j > m /\ \A k \in i..n : parent[k] = AnyDepth
           ELSE IF parent[i] = AnyDepth
             THEN i = n \/ \E k \in j..m + 1 : from[<<i + 1, k>>]
             ELSE /\ delegate[j] # AnyDepth
                  /\ IntraSegmentSubset(parent[i], delegate[j])
                  /\ from[<<i + 1, j + 1>>]
  IN from[<<1, 1>>]

GlobRefines(parent, delegate) == parent = delegate \/ SegmentSubset(parent, delegate)
================================================================================
