-------------------------- MODULE BrokerProjection --------------------------
(***************************************************************************)
(* What the desk may rely on when it reads the broker projection, without  *)
(* saying who keeps it or how: account and positions appear together, the  *)
(* positions are of orders the broker has had, the state is known only     *)
(* beside an account, and a deletion takes the known state with it, though *)
(* perhaps not every row.  BrokerSync implements this module with its      *)
(* reconciliations, stream and clock; OrderExecution takes the             *)
(* projection's changes from here.                                         *)
(***************************************************************************)
EXTENDS TLAPS

CONSTANT Orders       \* orders at the broker; a filled one leaves a position

VARIABLES
    row,              \* [known, account]: what the execution gate reads
    positions,        \* orders the projection shows a position of
    placed            \* orders the broker has had

vars == <<row, positions, placed>>

NoRow == [known |-> FALSE, account |-> "absent"]

Init == row = NoRow /\ positions = {} /\ placed \subseteq Orders

(* The broker creates an order; the projection does not notice. *)
Place ==
    /\ \E o \in Orders : placed' = placed \cup {o}
    /\ UNCHANGED <<row, positions>>

(* A reconciliation writes account, positions and state in one transaction; the
   state is not known when the stream is down or the snapshot stale, and the
   positions may be those of any time since the orders were placed.            *)
Writes ==
    /\ \E known \in BOOLEAN, account \in {"usable", "blocked"} :
           row' = [known |-> known, account |-> account]
    /\ positions' \in SUBSET placed
    /\ UNCHANGED placed

(* The state alone changes: marked, aged, disconnected or reconnected. *)
Turns ==
    /\ row.account # "absent"
    /\ row' = [row EXCEPT !.known = ~@]
    /\ UNCHANGED <<positions, placed>>

(* The projection is removed with the credential, table by table: rows that a
   reconciliation wrote meanwhile may stay, the known state may not.          *)
Removed ==
    /\ row' \in [known : {FALSE}, account : {"absent", "usable", "blocked"}]
    /\ positions' \in SUBSET placed
    /\ UNCHANGED placed

Next == Place \/ Writes \/ Turns \/ Removed

Spec == Init /\ [][Next]_vars

-----------------------------------------------------------------------------

(* What a reader of the projection never finds: a position of no order, or a
   known state without an account.                                            *)
Coherent ==
    /\ row \in [known : BOOLEAN, account : {"absent", "usable", "blocked"}]
    /\ placed \subseteq Orders
    /\ positions \subseteq placed
    /\ row.known => row.account # "absent"

(* The contract is enough for a coherent projection: whoever implements it, as
   the worker does, keeps account, state and positions together.              *)
THEOREM Coherence == Spec => []Coherent
<1>1. Init => Coherent
  BY DEF Init, NoRow, Coherent
<1>2. Coherent /\ [Next]_vars => Coherent'
  <2> SUFFICES ASSUME Coherent, [Next]_vars PROVE Coherent'
    OBVIOUS
  <2> USE DEF Coherent
  <2>1. CASE Place
    BY <2>1 DEF Place
  <2>2. CASE Writes
    BY <2>2 DEF Writes
  <2>3. CASE Turns
    BY <2>3 DEF Turns
  <2>4. CASE Removed
    BY <2>4 DEF Removed
  <2>5. CASE UNCHANGED vars
    BY <2>5 DEF vars
  <2> QED
    BY <2>1, <2>2, <2>3, <2>4, <2>5 DEF Next
<1> QED
  BY <1>1, <1>2, PTL DEF Spec

=============================================================================
