----------------------------- MODULE Selection -----------------------------
(***************************************************************************)
(* What the restore picker promises its operator: of the files offered,    *)
(* space on a line takes all the files of that branch, or drops them all   *)
(* when every one was taken; and what is confirmed for a restore is what   *)
(* was taken.  Marks, trees and patterns are the business of module        *)
(* PickerTree, which with module Restore implements this one.              *)
(***************************************************************************)
EXTENDS Naturals, SequencesExt

CONSTANT Listing        \* the paths of the files in a revision

VARIABLES
  open,                 \* the picker is on the screen
  offered,              \* the files it shows
  chosen,               \* those the operator has taken
  outcome               \* the files a select asks to confirm

Branch(p) == {f \in offered : IsPrefix(p, f)}

Open ==
  /\ ~open /\ open' = TRUE
  /\ offered' \in (SUBSET Listing) \ {{}}
  /\ chosen' = {} /\ outcome' = {}

Flip(p) ==
  /\ open
  /\ chosen' = IF Branch(p) \subseteq chosen THEN chosen \ Branch(p)
                                             ELSE chosen \union Branch(p)
  /\ UNCHANGED <<open, offered, outcome>>

Close(result) ==
  /\ open /\ open' = FALSE
  /\ offered' = {} /\ chosen' = {} /\ outcome' = result

\* A whole branch without the picker.
Everything(p) ==
  /\ ~open
  /\ outcome' = {f \in Listing : IsPrefix(p, f)}
  /\ UNCHANGED <<open, offered, chosen>>

Leave == ~open /\ outcome' = {} /\ UNCHANGED <<open, offered, chosen>>

SelectionInit == open = FALSE /\ offered = {} /\ chosen = {} /\ outcome = {}

SelectionNext ==
  \/ Open \/ Leave
  \/ \E f \in Listing : \E k \in 0 .. Len(f) : LET p == SubSeq(f, 1, k)
                                              IN  Flip(p) \/ Everything(p)
  \/ Close({})
  \/ chosen # {} /\ Close(chosen)

SelectionSpec == SelectionInit /\ [][SelectionNext]_<<open, offered, chosen, outcome>>
=============================================================================
