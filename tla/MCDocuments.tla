---------------------------- MODULE MCDocuments ----------------------------
(***************************************************************************)
(* Documents for TLC, with every text of up to MaxLength characters: at     *)
(* each position a letter of its own, a space or a newline.                *)
(***************************************************************************)
EXTENDS Documents

CONSTANT MaxLength

AllTexts ==
    UNION { { [i \in 1..n |-> IF kind[i] = "letter" THEN i
                              ELSE IF kind[i] = "space" THEN Space ELSE Newline] :
              kind \in [1..n -> {"letter", "space", "newline"}] } : n \in 0..MaxLength }
=============================================================================
