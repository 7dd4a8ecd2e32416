---------------------------- MODULE Negotiation ----------------------------
(***************************************************************************)
(* What the homepage is served as, HTML for people or Markdown for agents, *)
(* by the request's Accept header (server/pages.rs).  A header is the      *)
(* sequence of its entries that parse; a range is what it matches and how  *)
(* specific it is, and qualities are in tenths.                            *)
(***************************************************************************)
EXTENDS Naturals, Sequences, SequencesExt, FiniteSets, FiniteSetsExt

CONSTANTS
    Qualities,      \* bound: of an entry, in tenths
    Entries         \* bound: entries of a header

ASSUME NegotiationTyped == Qualities \subseteq 0 .. 10 /\ Entries \in Nat

Representations == {"html", "markdown"}

(* accept_matches, and the specificity parse_accept gives the range.       *)
Ranges == {"*/*", "text/*", "text/html", "text/markdown", "image/png"}
Matched(range) ==
    CASE range = "text/html" -> {"html"}
      [] range = "text/markdown" -> {"markdown"}
      [] range = "image/png" -> {}
      [] OTHER -> Representations
Specificity(range) ==
    CASE range = "*/*" -> 0 [] range = "text/*" -> 1 [] OTHER -> 2

Headers == SeqOf([range : Ranges, quality : Qualities], Entries)

-----------------------------------------------------------------------------
(* Fault: the first range that matches counts, however vague.              *)
BetterMatchFirst(header, i, j) == i < j

(* Whether entry i is a better match than entry j.                         *)
BetterMatch(header, i, j) ==
    LET Rank(k) == Specificity(header[k].range)
    IN  Rank(i) > Rank(j) \/ (Rank(i) = Rank(j) /\ i < j)

(* The entry that decides about a representation, or 0.                    *)
Deciding(header, representation) ==
    LET matching == {i \in DOMAIN header : representation \in Matched(header[i].range)}
        best == {i \in matching : \A j \in matching \ {i} : BetterMatch(header, i, j)}
    IN  IF best = {} THEN 0 ELSE Min(best)

(* preferred_representation: of those whose entry accepts them the one of  *)
(* the higher quality, then of the earlier entry, then HTML; none is 406.  *)
Preferred(header) ==
    LET html     == Deciding(header, "html")
        markdown == Deciding(header, "markdown")
        Accepted(i) == i # 0 /\ header[i].quality > 0
    IN  CASE header = <<>> -> "html"
          [] Accepted(html) /\ Accepted(markdown) ->
               IF \/ header[markdown].quality > header[html].quality
                  \/ header[markdown].quality = header[html].quality /\ markdown < html
                 THEN "markdown" ELSE "html"
          [] Accepted(html) /\ ~Accepted(markdown) -> "html"
          [] Accepted(markdown) /\ ~Accepted(html) -> "markdown"
          [] OTHER -> "none"

-----------------------------------------------------------------------------
(* What the header says of a representation: the quality of its most       *)
(* specific range, the first of several; absent when none matches.         *)
Asked(header, representation) ==
    LET InClass(s) == {i \in DOMAIN header : /\ representation \in Matched(header[i].range)
                                             /\ Specificity(header[i].range) = s}
        classes == {s \in 0 .. 2 : InClass(s) # {}}
    IN  IF classes = {} THEN 0 ELSE header[Min(InClass(Max(classes)))].quality
=============================================================================
