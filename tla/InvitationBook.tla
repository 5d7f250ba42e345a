--------------------------- MODULE InvitationBook ---------------------------
(***************************************************************************)
(* What the invitation desk promises, without saying how: an invitation    *)
(* the administrator issued admits at most as many people as it allows,    *)
(* never after it was disabled, and nobody twice.  Registration implements *)
(* this module.                                                            *)
(***************************************************************************)
EXTENDS Naturals, FiniteSets

CONSTANTS
    Invitations,
    People,
    Sizes             \* how many people an invitation may allow

VARIABLES
    allows,           \* [Invitations -> Nat], 0 before the invitation exists
    disabled,         \* invitations the administrator has withdrawn
    members           \* [Invitations -> SUBSET People]

vars == <<allows, disabled, members>>

Init ==
    /\ allows = [i \in Invitations |-> 0]
    /\ disabled = {}
    /\ members = [i \in Invitations |-> {}]

Issue(i) ==
    /\ allows[i] = 0
    /\ \E n \in Sizes : allows' = [allows EXCEPT ![i] = n]
    /\ UNCHANGED <<disabled, members>>

Disable(i) ==
    /\ allows[i] # 0
    /\ disabled' = disabled \cup {i}
    /\ UNCHANGED <<allows, members>>

Admit(i, p) ==
    /\ i \notin disabled
    /\ Cardinality(members[i]) < allows[i]
    /\ p \notin UNION {members[j] : j \in Invitations}
    /\ members' = [members EXCEPT ![i] = @ \cup {p}]
    /\ UNCHANGED <<allows, disabled>>

Next == \E i \in Invitations :
    Issue(i) \/ Disable(i) \/ \E p \in People : Admit(i, p)

Spec == Init /\ [][Next]_vars

=============================================================================
