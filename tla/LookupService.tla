--------------------------- MODULE LookupService ---------------------------
(***************************************************************************)
(* What a resolver promises its clients: each hears at most once, after it *)
(* asked, and hears of an address only if an answer gave one of a family   *)
(* it wants.                                                               *)
(***************************************************************************)
CONSTANTS Client, Name, Prefs, Family, Wanted

VARIABLES
  asked,    \* asked[c]: empty, or what c asked for
  known,    \* known[n]: the families answers gave an address of for n
  outcome   \* outcome[c]: empty, or {resolved}

vars == <<asked, known, outcome>>

Init ==
  /\ asked = [c \in Client |-> {}]
  /\ known = [n \in Name |-> {}]
  /\ outcome = [c \in Client |-> {}]

Suits(c) ==
  \E a \in asked'[c] : known'[a.name] \cap Wanted[a.prefs] # {}

Ask(c) ==
  /\ asked[c] = {}
  /\ \E n \in Name, p \in Prefs :
       asked' = [asked EXCEPT ![c] = {[name |-> n, prefs |-> p]}]
  /\ UNCHANGED known

Hear(c) ==
  /\ outcome[c] = {}
  /\ \E resolved \in BOOLEAN :
       /\ outcome' = [outcome EXCEPT ![c] = {resolved}]
       /\ resolved => Suits(c)

Learn ==
  /\ \E n \in Name, f \in Family : known' = [known EXCEPT ![n] = @ \cup {f}]
  /\ UNCHANGED <<asked, outcome>>

Next ==
  \/ Learn
  \/ \E c \in Client :
       \/ Ask(c) /\ UNCHANGED outcome
       \/ Ask(c) /\ Hear(c)
       \/ asked[c] # {} /\ Hear(c) /\ UNCHANGED <<asked, known>>

Spec == Init /\ [][Next]_vars
=============================================================================
