------------------------------ MODULE MCPairing ------------------------------
(* Instances of Pairing for TLC. *)
EXTENDS Pairing

CONSTANTS a, b, c

Quiet ==
    /\ \A s \in Stakes : queue[s] = <<>>
    /\ \A f \in Fundings : funding[f] = Resting
    /\ \A k \in Callouts : callout[k].status = "none"
    /\ matches = <<>>

(* Every limit and break, and requests that overlap, are tried while nobody *)
(* queues, calls out or plays.  Beside the matchmaking there is at most one *)
(* request at once, for a limit below the stake, for none, or for a break   *)
(* of an hour, and no step of the matchmaking between its two halves: no    *)
(* such step looks at what is not written.  c queues only.                  *)
MCOneRequestBeside ==
    /\ \A k \in Callouts : callout'[k].by # c /\ c \notin ToSet(funding'[k].players)
    /\ \/ Quiet'
       \/ /\ edits' # {} => UNCHANGED <<queue, funding, callout, matches>>
          /\ Cardinality(edits') <= 1 /\ overtaken' = {}
          /\ \A e \in edits' : ~e.stage /\ e.value \in {None, 1}
          /\ \A p \in Editors, f \in Fields :
                limits'[p][f].base \in {None, 1} /\ limits'[p][f].pending = None
          /\ \A p \in Editors, brk \in Breaks : until'[p][brk] \in {0, 1}
=============================================================================
