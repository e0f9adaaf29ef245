--------------------------- MODULE DependencyGate ---------------------------
(***************************************************************************)
(* What the command queue promises about order, whatever it does inside:   *)
(* a command is submitted with the dependencies that gate it, some of them *)
(* hard; it starts (is first sent) only after every gate has settled and   *)
(* every hard gate was accepted by the server.                             *)
(***************************************************************************)
CONSTANT Cmd

VARIABLES
  gate,     \* gate[c]: the dependencies open when c was submitted
  hard,     \* hard[c]: those of them c cannot do without
  started,  \* commands sent at least once
  settled,  \* commands that have reached a terminal status
  accepted  \* commands the server has accepted

vars == <<gate, hard, started, settled, accepted>>

Init ==
  /\ gate = [c \in Cmd |-> {}] /\ hard = [c \in Cmd |-> {}]
  /\ started = {} /\ settled = {} /\ accepted = {}

Submit(c) ==
  /\ gate[c] = {} /\ c \notin started
  /\ \E G \in SUBSET Cmd : \E H \in SUBSET G :
       gate' = [gate EXCEPT ![c] = G] /\ hard' = [hard EXCEPT ![c] = H]
  /\ UNCHANGED <<started, settled, accepted>>

Start(c) ==
  /\ gate[c] \subseteq settled /\ hard[c] \subseteq accepted
  /\ started' = started \cup {c}
  /\ UNCHANGED <<gate, hard, settled, accepted>>

Settle(C) ==
  /\ settled' = settled \cup C
  /\ UNCHANGED <<gate, hard, started, accepted>>

Accept(c) ==
  /\ c \in started
  /\ accepted' = accepted \cup {c} /\ settled' = settled \cup {c}
  /\ UNCHANGED <<gate, hard, started>>

Next ==
  \/ \E c \in Cmd : Submit(c) \/ Start(c) \/ Accept(c)
  \/ \E C \in SUBSET Cmd : Settle(C)

Spec == Init /\ [][Next]_vars
=============================================================================
