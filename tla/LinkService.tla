----------------------------- MODULE LinkService -----------------------------
(***************************************************************************)
(* What MTP3 may rely on from its links (Event in src/src/link.rs): a link *)
(* comes up only through alignment, every change of the service it gives   *)
(* raises one notice, and the notices are read in the order of the changes. *)
(***************************************************************************)
EXTENDS Sequences

CONSTANT Links

VARIABLES
    phase,     \* phase[l]: "Down", "Aligning", "Ready" (proved) or "Up"
    notices    \* notices[l]: "up" and "down", not yet read

vars == <<phase, notices>>

Init ==
    /\ phase = [l \in Links |-> "Down"]
    /\ notices = [l \in Links |-> <<>>]

Move(l, from, to) ==
    /\ phase[l] \in from
    /\ phase' = [phase EXCEPT ![l] = to]

Notify(l, notice) == notices' = [notices EXCEPT ![l] = Append(@, notice)]

Begin(l) == Move(l, {"Down"}, "Aligning") /\ UNCHANGED notices

Prove(l) == Move(l, {"Aligning"}, "Ready") /\ UNCHANGED notices

Enter(l) == Move(l, {"Ready"}, "Up") /\ Notify(l, "up")

\* A link that is down may be taken down again.
Fail(l) == Move(l, {"Down", "Aligning", "Ready", "Up"}, "Down") /\ Notify(l, "down")

Read(l) ==
    /\ notices[l] # <<>>
    /\ notices' = [notices EXCEPT ![l] = Tail(@)]
    /\ UNCHANGED phase

Next == \E l \in Links : Begin(l) \/ Prove(l) \/ Enter(l) \/ Fail(l) \/ Read(l)

Spec == Init /\ [][Next]_vars
=============================================================================
