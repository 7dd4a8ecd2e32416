-------------------------------- MODULE Dial --------------------------------
(***************************************************************************)
(* The TCP dial of a name with several addresses (cli/ws.rs): they are     *)
(* tried in order, on a budget they share.                                 *)
(***************************************************************************)
EXTENDS Naturals, Sequences, SequencesExt, FiniteSets, FiniteSetsExt

CONSTANTS
    DialTimeout,        \* DIAL_TIMEOUT, in seconds
    MinDialAttempt,     \* MIN_DIAL_ATTEMPT
    Addresses           \* bound: addresses of a name

ASSUME DialTyped == /\ DialTimeout \in Nat \ {0} /\ MinDialAttempt \in Nat \ {0}
                    /\ Addresses \in Nat

(* How long an address takes to answer: at once, as long as an attempt may *)
(* be relied on to wait, or never.  refused is an answer too.              *)
Kinds == {"prompt", "slow", "refused", "silent"}
Takes(kind) ==
    CASE kind = "slow" -> MinDialAttempt
      [] kind = "silent" -> DialTimeout + 1
      [] OTHER -> 0

(* Fault: an attempt may spend the whole budget.                           *)
SliceUnshared(remaining, left) == remaining

(* An attempt's timeout: an equal slice of what is left, but not too thin. *)
Slice(remaining, left) ==
    Min({remaining, Max({remaining \div left, MinDialAttempt})})

(* One address more: what remains of the budget, how many are left, and    *)
(* the one that was connected to.  0 is none.                              *)
Attempt(dial, kind) ==
    LET slice == Slice(dial.remaining, dial.left)
        spent == Min({Takes(kind), slice})
    IN  IF dial.to # 0 \/ slice = 0 THEN [dial EXCEPT !.left = @ - 1, !.at = @ + 1]
        ELSE [remaining |-> dial.remaining - spent,
              left      |-> dial.left - 1,
              at        |-> dial.at + 1,
              to        |-> IF kind # "refused" /\ Takes(kind) <= slice THEN dial.at ELSE 0]

Dialed(kinds) ==
    LET dial[n \in 0 .. Len(kinds)] ==
          IF n = 0 THEN [remaining |-> DialTimeout, left |-> Len(kinds), at |-> 1, to |-> 0]
                   ELSE Attempt(dial[n - 1], kinds[n])
    IN  dial[Len(kinds)]
=============================================================================
