--------------------------- MODULE MCAdminConsole ---------------------------
(* AdminConsole for TLC: two requests of the administrator, two attempts of *)
(* the player, two cases.                                                   *)
EXTENDS AdminConsole, TLC

Symmetry == Permutations(Workers) \cup Permutations(Attempts) \cup Permutations(Cases)

(* The second factor and the reviews share nothing but the lock in front:   *)
(* wrong codes are counted only while the player has not begun.             *)
MCCodesFirst == tries' + fails' > 0 => \A s \in Attempts : attempt'[s] = Resting /\ \A c \in Cases : case'[c] = "NONE"
=============================================================================
