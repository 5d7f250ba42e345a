------------------------- MODULE RegistrationProofs -------------------------
(***************************************************************************)
(* Theorems of Registration for any number of calls, invitations and       *)
(* emails.  Two facts carry them: the row lock makes what a registration   *)
(* read of its invitation stay true until it commits, and an identity is   *)
(* only ever in one of three places, asked for, held by Supabase, or gone. *)
(***************************************************************************)
EXTENDS Registration, FiniteSetTheorems, TLAPS

(* What a registration knows of the invitation whose row it has locked. *)
LockInv ==
    /\ \A c, d \in Calls :
           /\ Holds(c)
           /\ Holds(d)
           /\ call[c].invitation = call[d].invitation
           => c = d
    /\ \A c \in Calls : Holds(c) =>
           /\ call[c].invitation \notin disabled
           /\ call[c].read = uses[call[c].invitation]
           /\ call[c].read < max[call[c].invitation]
    /\ \A c \in Calls : call[c].pc \notin {"new", "done"} => call[c].invitation \in Invitations

(* Where a registration stands when its identity, or its workspace, exists. *)
IdentityInv ==
    /\ wire \cap identities = {}
    /\ \A c \in Calls : call[c].pc \in {"new", "asking", "entering"} =>
           c \notin wire \cup identities
    /\ \A c \in wire : At(c, "creating") \/ call[c].answer \in {"refused", "uncaught", "lost"}
    /\ \A c \in Calls : call[c].pc \in {"flushing", "committing"} => c \in identities
    /\ \A c \in Calls \cap workspaces : call[c].pc \in {"cleaning", "done"}

IInv ==
    /\ TypeOK
    /\ LockInv
    /\ IdentityInv
    /\ UsesAreRedemptions
    /\ CreatedCanEnter
    /\ OrphansExplained

-----------------------------------------------------------------------------

LEMMA InitInv == Init => IInv
<1> SUFFICES ASSUME Init PROVE IInv
  OBVIOUS
<1>1. TypeOK
  BY RegistrationAssumption DEF Init, TypeOK, NoCall, Stages, Answers, Subjects, At
<1>2. LockInv /\ IdentityInv
  BY RegistrationAssumption DEF Init, LockInv, IdentityInv, NoCall, Holds, At
<1>3. UsesAreRedemptions
  BY FS_EmptySet DEF Init, UsesAreRedemptions
<1>4. CreatedCanEnter /\ OrphansExplained
  BY DEF Init, CreatedCanEnter, OrphansExplained, NoCall
<1> QED
  BY <1>1, <1>2, <1>3, <1>4 DEF IInv

-----------------------------------------------------------------------------
(* How one registration moves on.                                            *)

(* The part of TypeOK about the registrations. *)
CallOK ==
    /\ call \in [Calls -> [pc : Stages, email : Emails \cup {NoEmail},
                           invitation : Invitations \cup {NoInvitation},
                           read : Nat, answer : Answers]]
    /\ \A c \in Calls : At(c, "done") <=> call[c].answer # "none"

(* What is the same after a registration went to p and was answered a. *)
Moved(c, p, a) ==
    /\ \A d \in Calls \ {c} : call'[d] = call[d]
    /\ call'[c].pc = p
    /\ call'[c].answer = a
    /\ call'[c].email = call[c].email
    /\ call'[c].invitation = call[c].invitation
    /\ call'[c].read = call[c].read

LEMMA GotoMoves ==
    ASSUME NEW c \in Calls, NEW p \in Stages \ {"done"}, CallOK, ~At(c, "done"), Goto(c, p)
    PROVE  CallOK' /\ Moved(c, p, "none")
<1>1. call[c] \in [pc : Stages, email : Emails \cup {NoEmail},
                   invitation : Invitations \cup {NoInvitation}, read : Nat, answer : Answers]
  BY DEF CallOK
<1>2. [call[c] EXCEPT !.pc = p]
          \in [pc : Stages, email : Emails \cup {NoEmail},
              invitation : Invitations \cup {NoInvitation}, read : Nat, answer : Answers]
  BY <1>1
<1>3. call' = [call EXCEPT ![c] = [call[c] EXCEPT !.pc = p]]
  BY DEF Goto, CallOK
<1>4. Moved(c, p, "none")
  BY <1>1, <1>3 DEF Moved, CallOK, At
<1>5. CallOK'
  BY <1>2, <1>3, <1>4 DEF Moved, CallOK, At
<1> QED
  BY <1>4, <1>5

LEMMA FinishMoves ==
    ASSUME NEW c \in Calls, NEW a \in Answers \ {"none"}, CallOK, Finish(c, a)
    PROVE  CallOK' /\ Moved(c, "done", a)
<1>1. call[c] \in [pc : Stages, email : Emails \cup {NoEmail},
                   invitation : Invitations \cup {NoInvitation}, read : Nat, answer : Answers]
  BY DEF CallOK
<1>2. [call[c] EXCEPT !.pc = "done", !.answer = a]
          \in [pc : Stages, email : Emails \cup {NoEmail},
              invitation : Invitations \cup {NoInvitation}, read : Nat, answer : Answers]
  BY <1>1 DEF Stages
<1>3. call' = [call EXCEPT ![c] = [call[c] EXCEPT !.pc = "done", !.answer = a]]
  BY DEF Finish, CallOK
<1>4. Moved(c, "done", a)
  BY <1>1, <1>3 DEF Moved, CallOK
<1>5. CallOK'
  BY <1>2, <1>3, <1>4 DEF Moved, CallOK, At
<1> QED
  BY <1>4, <1>5

(* The stages and answers the actions name. *)
LEMMA Names ==
    /\ {"asking", "entering", "creating", "flushing", "committing", "cleaning"}
           \subseteq Stages \ {"done"}
    /\ {"created", "refused", "unavailable", "error", "uncaught"} \subseteq Answers \ {"none"}
BY DEF Stages, Answers

(* One step of a handler as its move: what it did to call, and the data.     *)
LEMMA AskProviderMoves ==
    ASSUME NEW c \in Calls, CallOK, AskProvider(c)
    PROVE  /\ CallOK'
           /\ \/ Moved(c, "entering", "none")
              \/ Moved(c, "done", "unavailable")
              \/ Moved(c, "done", "uncaught")
BY Names, GotoMoves, FinishMoves DEF AskProvider, At

LEMMA EnterMoves ==
    ASSUME NEW c \in Calls, CallOK, uses \in [Invitations -> Nat],
           call[c].invitation \in Invitations, Enter(c)
    PROVE  /\ CallOK'
           /\ \/ /\ Moved(c, "done", "refused")
                 /\ UNCHANGED wire
              \/ /\ ~Refuses(c)
                 /\ \A d \in Calls \ {c} : call'[d] = call[d]
                 /\ call'[c] = [call[c] EXCEPT !.pc = "creating",
                                              !.read = uses[call[c].invitation]]
                 /\ wire' = wire \cup {c}
<1>1. CASE Refuses(c)
  BY <1>1, Names, FinishMoves DEF Enter
<1>2. CASE ~Refuses(c)
  <2> DEFINE new == [call[c] EXCEPT !.pc = "creating", !.read = uses[call[c].invitation]]
  <2>1. call[c] \in [pc : Stages, email : Emails \cup {NoEmail},
                     invitation : Invitations \cup {NoInvitation}, read : Nat, answer : Answers]
    BY DEF CallOK
  <2>2. new \in [pc : Stages, email : Emails \cup {NoEmail},
                 invitation : Invitations \cup {NoInvitation}, read : Nat, answer : Answers]
    BY <2>1 DEF Stages
  <2>3. call' = [call EXCEPT ![c] = new] /\ wire' = wire \cup {c}
    BY <1>2, <2>1 DEF Enter, CallOK
  <2>4. new.pc = "creating" /\ new.answer = "none"
    BY <2>1 DEF Enter, CallOK, At
  <2> HIDE DEF new
  <2>5. call'[c] = new /\ \A d \in Calls \ {c} : call'[d] = call[d]
    BY <2>3 DEF CallOK
  <2>6. CallOK'
    BY <2>2, <2>3, <2>4, <2>5 DEF CallOK, At
  <2> QED
    BY <1>2, <2>3, <2>5, <2>6 DEF new
<1> QED
  BY <1>1, <1>2

-----------------------------------------------------------------------------
(* The handler's steps preserve the invariant.                               *)

Data == <<book, local, supabase, logged>>

LEMMA QuietStep ==
    ASSUME NEW c \in Calls, IInv,
           \/ AskProvider(c) \/ CreateSucceeds(c) \/ CreateFails(c) \/ Flush(c) \/ Fail(c)
    PROVE  IInv'
<1>0. CallOK /\ wire \subseteq Calls
  BY DEF IInv, TypeOK, CallOK
<1>1. UNCHANGED Data
  BY DEF AskProvider, CreateSucceeds, CreateFails, Flush, Fail, Data
<1> DEFINE From(A) == call[c].pc \in A
<1>2. /\ CallOK'
      /\ \/ From({"asking"}) /\ Moved(c, "entering", "none")
         \/ From({"asking"}) /\ Moved(c, "done", "unavailable")
         \/ From({"asking"}) /\ Moved(c, "done", "uncaught")
         \/ From({"creating"}) /\ c \in identities /\ Moved(c, "flushing", "none")
         \/ From({"creating"}) /\ Moved(c, "done", "refused")
         \/ From({"creating"}) /\ Moved(c, "done", "uncaught")
         \/ From({"flushing"}) /\ Moved(c, "committing", "none")
         \/ From({"flushing", "committing"}) /\ Moved(c, "cleaning", "none")
  <2>1. CASE AskProvider(c)
    BY <1>0, <2>1, AskProviderMoves DEF AskProvider, At
  <2>2. CASE CreateSucceeds(c)
    BY <1>0, <2>2, Names, GotoMoves DEF CreateSucceeds, At
  <2>3. CASE CreateFails(c)
    BY <1>0, <2>3, Names, FinishMoves DEF CreateFails, At
  <2>4. CASE Flush(c)
    BY <1>0, <2>4, Names, GotoMoves DEF Flush, At
  <2>5. CASE Fail(c)
    BY <1>0, <2>5, Names, GotoMoves DEF Fail, At
  <2> QED
    BY <2>1, <2>2, <2>3, <2>4, <2>5
<1>3. TypeOK'
  BY <1>1, <1>2 DEF IInv, TypeOK, CallOK, Data, book, local, supabase
<1>4. LockInv'
  BY <1>1, <1>2 DEF IInv, LockInv, Moved, Holds, At, Data, book
<1>5. IdentityInv'
  BY <1>0, <1>1, <1>2 DEF IInv, IdentityInv, Moved, At, Data, local, supabase
<1>6. UsesAreRedemptions'
  BY <1>1 DEF IInv, UsesAreRedemptions, Data, book, local
<1>7. CreatedCanEnter'
  BY <1>1, <1>2 DEF IInv, CreatedCanEnter, Granted, Moved, Data, local, supabase
<1>8. OrphansExplained'
  BY <1>1, <1>2 DEF IInv, OrphansExplained, IdentityInv, Moved, Data, local, supabase
<1> QED
  BY <1>3, <1>4, <1>5, <1>6, <1>7, <1>8 DEF IInv

LEMMA EnterStep ==
    ASSUME NEW c \in Calls, IInv, Enter(c)
    PROVE  IInv'
<1> DEFINE i == call[c].invitation
<1>0. /\ CallOK
      /\ i \in Invitations
      /\ call[c].pc = "entering"
      /\ call[c].answer = "none"
      /\ Unlocked(i)
      /\ wire \subseteq Calls
      /\ UNCHANGED <<book, local, identities, tokens, logged>>
  BY DEF IInv, TypeOK, CallOK, LockInv, Enter, At
<1>1. CASE CallOK' /\ Moved(c, "done", "refused") /\ UNCHANGED wire
  <2>1. TypeOK'
    BY <1>0, <1>1 DEF IInv, TypeOK, CallOK, book, local
  <2>2. LockInv'
    BY <1>0, <1>1 DEF IInv, LockInv, Moved, Holds, At, book
  <2>3. IdentityInv'
    BY <1>0, <1>1 DEF IInv, IdentityInv, Moved, At, local
  <2>4. UsesAreRedemptions'
    BY <1>0 DEF IInv, UsesAreRedemptions, book, local
  <2>5. CreatedCanEnter' /\ OrphansExplained'
    BY <1>0, <1>1 DEF IInv, CreatedCanEnter, OrphansExplained, Granted, Moved, local
  <2> QED
    BY <2>1, <2>2, <2>3, <2>4, <2>5 DEF IInv
<1>2. CASE /\ CallOK'
           /\ ~Refuses(c)
           /\ \A d \in Calls \ {c} : call'[d] = call[d]
           /\ call'[c] = [call[c] EXCEPT !.pc = "creating", !.read = uses[i]]
           /\ wire' = wire \cup {c}
  <2>0. /\ call'[c].pc = "creating"
        /\ call'[c].read = uses[i]
        /\ call'[c].invitation = i
        /\ call'[c].answer = "none"
    BY <1>0, <1>2 DEF CallOK
  <2>a. i \notin disabled /\ uses[i] < max[i]
    BY <1>2 DEF Refuses, Available
  <2>1. TypeOK'
    BY <1>0, <1>2 DEF IInv, TypeOK, CallOK, book, local
  <2>2. LockInv'
    <3>1. ASSUME NEW d \in Calls, Holds(d)', call'[d].invitation = i PROVE d = c
      BY <1>0, <1>2, <3>1 DEF Unlocked, Holds
    <3> HIDE DEF i
    <3>2. \A d, e \in Calls : /\ Holds(d)'
                              /\ Holds(e)'
                              /\ call'[d].invitation = call'[e].invitation
                              => d = e
      <4> SUFFICES ASSUME NEW d \in Calls, NEW e \in Calls, Holds(d)', Holds(e)',
                          call'[d].invitation = call'[e].invitation
                   PROVE  d = e
        OBVIOUS
      <4>1. CASE d = c \/ e = c
        BY <2>0, <3>1, <4>1
      <4>2. CASE d # c /\ e # c
        <5>1. call'[d] = call[d] /\ call'[e] = call[e]
          BY <1>2, <4>2
        <5> QED
          BY <5>1 DEF IInv, LockInv, Holds
      <4> QED
        BY <4>1, <4>2
    <3>3. ASSUME NEW d \in Calls, Holds(d)'
          PROVE  /\ call'[d].invitation \notin disabled'
                 /\ call'[d].read = uses'[call'[d].invitation]
                 /\ call'[d].read < max'[call'[d].invitation]
      <4>1. CASE d = c
        BY <1>0, <2>0, <2>a, <4>1 DEF book
      <4>2. CASE d # c
        <5>1. call'[d] = call[d] /\ Holds(d)
          BY <1>2, <3>3, <4>2 DEF Holds
        <5> QED
          BY <1>0, <5>1 DEF IInv, LockInv, book
      <4> QED
        BY <4>1, <4>2
    <3>4. \A d \in Calls : call'[d].pc \notin {"new", "done"} => call'[d].invitation \in Invitations
      BY <1>0, <1>2, <2>0 DEF IInv, LockInv
    <3> QED
      BY <3>2, <3>3, <3>4 DEF LockInv
  <2>3. IdentityInv'
    <3>1. wire' \cap identities' = {}
      BY <1>0, <1>2 DEF IInv, IdentityInv
    <3>2. ASSUME NEW d \in Calls
          PROVE  /\ call'[d].pc \in {"new", "asking", "entering"} => d \notin wire' \cup identities'
                 /\ d \in wire' => \/ call'[d].pc = "creating"
                                    \/ call'[d].answer \in {"refused", "uncaught", "lost"}
                 /\ call'[d].pc \in {"flushing", "committing"} => d \in identities'
                 /\ d \in workspaces' => call'[d].pc \in {"cleaning", "done"}
      <4>1. CASE d = c
        BY <1>0, <2>0, <4>1 DEF IInv, IdentityInv, local
      <4>2. CASE d # c
        BY <1>0, <1>2, <4>2 DEF IInv, IdentityInv, At, local
      <4> QED
        BY <4>1, <4>2
    <3> QED
      BY <1>0, <1>2, <3>1, <3>2 DEF IdentityInv, At
  <2>4. UsesAreRedemptions'
    BY <1>0 DEF IInv, UsesAreRedemptions, book, local
  <2>5. CreatedCanEnter' /\ OrphansExplained'
    BY <1>0, <1>2, <2>0 DEF IInv, CreatedCanEnter, OrphansExplained, Granted, local
  <2> QED
    BY <2>1, <2>2, <2>3, <2>4, <2>5 DEF IInv
<1> QED
  BY <1>0, <1>1, <1>2, EnterMoves DEF IInv, TypeOK

(* The row's lock is what makes the count right: what Enter read still holds. *)
LEMMA WriteStep ==
    ASSUME NEW c \in Calls, IInv, Commit(c) \/ CommitUnheard(c)
    PROVE  IInv'
<1> DEFINE i == call[c].invitation
<1>0. /\ CallOK
      /\ call[c].pc = "committing"
      /\ call[c].answer = "none"
      /\ i \in Invitations
      /\ i \notin disabled
      /\ call[c].read = uses[i]
      /\ uses[i] < max[i]
      /\ c \notin workspaces
      /\ c \in identities
      /\ wire \subseteq Calls
  BY DEF IInv, TypeOK, CallOK, LockInv, IdentityInv, Holds, Commit, CommitUnheard, At
<1>1. /\ users' = users \cup {c}
      /\ workspaces' = workspaces \cup {c}
      /\ redeemed' = [redeemed EXCEPT ![i] = @ \cup {c}]
      /\ uses' = [uses EXCEPT ![i] = call[c].read + 1]
      /\ UNCHANGED <<max, disabled, expired, supabase, logged>>
  BY DEF Commit, CommitUnheard, Write
<1>2. CallOK' /\ (Moved(c, "done", "created") \/ Moved(c, "cleaning", "none"))
  BY <1>0, Names, GotoMoves, FinishMoves DEF Commit, CommitUnheard, At
<1>3. TypeOK'
  <2>1. uses' \in [Invitations -> Nat] /\ redeemed' \in [Invitations -> SUBSET Calls]
    BY <1>0, <1>1 DEF IInv, TypeOK
  <2> QED
    BY <1>1, <1>2, <2>1 DEF IInv, TypeOK, CallOK, Subjects, supabase
<1>4. LockInv'
  <2>1. ASSUME NEW d \in Calls, Holds(d)'
        PROVE  /\ d # c
               /\ call'[d] = call[d]
               /\ Holds(d)
               /\ call[d].invitation # i
    BY <1>0, <1>2, <2>1 DEF Moved, Holds, IInv, LockInv
  <2>2. ASSUME NEW d \in Calls, NEW e \in Calls, Holds(d)', Holds(e)',
               call'[d].invitation = call'[e].invitation
        PROVE  d = e
    BY <2>1, <2>2 DEF IInv, LockInv
  <2>3. ASSUME NEW d \in Calls, Holds(d)'
        PROVE  /\ call'[d].invitation \notin disabled'
               /\ call'[d].read = uses'[call'[d].invitation]
               /\ call'[d].read < max'[call'[d].invitation]
    <3>1. call[d].invitation \in Invitations
      BY <2>1, <2>3 DEF IInv, LockInv, Holds
    <3>2. uses'[call[d].invitation] = uses[call[d].invitation]
      BY <1>1, <2>1, <2>3, <3>1 DEF IInv, TypeOK
    <3> QED
      BY <1>1, <2>1, <2>3, <3>2 DEF IInv, LockInv
  <2>4. \A d \in Calls : call'[d].pc \notin {"new", "done"} => call'[d].invitation \in Invitations
    BY <1>0, <1>2 DEF Moved, IInv, LockInv
  <2> QED
    BY <2>2, <2>3, <2>4 DEF LockInv
<1>5. IdentityInv'
  BY <1>0, <1>1, <1>2 DEF IInv, IdentityInv, Moved, At, supabase
<1>6. UsesAreRedemptions'
  <2>1. c \notin UNION {redeemed[j] : j \in Invitations}
    BY <1>0, RegistrationAssumption DEF IInv, UsesAreRedemptions
  <2>2. \A j \in Invitations : redeemed'[j] = IF j = i THEN redeemed[i] \cup {c} ELSE redeemed[j]
    BY <1>0, <1>1 DEF IInv, TypeOK
  <2>3. ASSUME NEW j \in Invitations
        PROVE  uses'[j] = Cardinality(redeemed'[j]) /\ uses'[j] <= max'[j]
    <3>1. CASE j = i
      <4>1. IsFiniteSet(redeemed[i])
        BY <1>0, RegistrationAssumption, FS_Subset DEF IInv, TypeOK
      <4>2. c \notin redeemed[i]
        BY <1>0, <2>1
      <4>3. Cardinality(redeemed[i] \cup {c}) = Cardinality(redeemed[i]) + 1
        BY <4>1, <4>2, FS_AddElement
      <4>4. uses'[i] = uses[i] + 1 /\ uses[i] \in Nat /\ max[i] \in Nat /\ max' = max
        BY <1>0, <1>1 DEF IInv, TypeOK
      <4>5. uses[i] = Cardinality(redeemed[i])
        BY <1>0 DEF IInv, UsesAreRedemptions
      <4> QED
        BY <1>0, <2>2, <3>1, <4>3, <4>4, <4>5
    <3>2. CASE j # i
      <4>1. uses'[j] = uses[j] /\ max' = max
        BY <1>1, <3>2 DEF IInv, TypeOK
      <4> QED
        BY <2>2, <3>2, <4>1 DEF IInv, UsesAreRedemptions
    <3> QED
      BY <3>1, <3>2
  <2>4. ASSUME NEW x
        PROVE  x \in UNION {redeemed'[j] : j \in Invitations}
                   <=> x = c \/ x \in UNION {redeemed[j] : j \in Invitations}
    <3>1. x \in UNION {redeemed'[j] : j \in Invitations}
              <=> \E j \in Invitations : x \in redeemed'[j]
      OBVIOUS
    <3>2. x \in UNION {redeemed[j] : j \in Invitations}
              <=> \E j \in Invitations : x \in redeemed[j]
      OBVIOUS
    <3> QED
      BY <1>0, <2>2, <3>1, <3>2
  <2>5. UNION {redeemed'[j] : j \in Invitations} = workspaces' \ {Admin}
    <3>1. UNION {redeemed[j] : j \in Invitations} = workspaces \ {Admin}
      BY DEF IInv, UsesAreRedemptions
    <3> QED
      BY <1>1, <2>4, <3>1, RegistrationAssumption
  <2>6. \A j, k \in Invitations : j # k => redeemed'[j] \cap redeemed'[k] = {}
    BY <2>1, <2>2 DEF IInv, UsesAreRedemptions
  <2> QED
    BY <2>3, <2>5, <2>6 DEF UsesAreRedemptions
<1>7. CreatedCanEnter'
  BY <1>0, <1>1, <1>2 DEF IInv, CreatedCanEnter, Granted, Moved, supabase
<1>8. OrphansExplained'
  BY <1>0, <1>1, <1>2 DEF IInv, OrphansExplained, Moved, supabase
<1> QED
  BY <1>3, <1>4, <1>5, <1>6, <1>7, <1>8 DEF IInv

LEMMA CleanUpStep ==
    ASSUME NEW c \in Calls, IInv, CleanUp(c)
    PROVE  IInv'
<1>0. /\ CallOK
      /\ call[c].pc = "cleaning"
      /\ call[c].answer = "none"
      /\ wire \subseteq Calls
  BY DEF IInv, TypeOK, CallOK, CleanUp, At
<1>1. /\ UNCHANGED <<book, local, wire, tokens>>
      /\ identities' \in {identities, identities \ {c}}
      /\ logged' \in {logged, logged \cup {c}}
  BY DEF CleanUp
<1>2. /\ CallOK'
      /\ \/ Moved(c, "done", "error") /\ (c \in identities' => c \in logged')
         \/ Moved(c, "done", "uncaught")
  BY <1>0, Names, FinishMoves DEF CleanUp
<1>3. TypeOK'
  BY <1>1, <1>2 DEF IInv, TypeOK, CallOK, book, local
<1>4. LockInv'
  BY <1>0, <1>1, <1>2 DEF IInv, LockInv, Moved, Holds, book
<1>5. IdentityInv'
  BY <1>0, <1>1, <1>2 DEF IInv, IdentityInv, Moved, At, local
<1>6. UsesAreRedemptions'
  BY <1>1 DEF IInv, UsesAreRedemptions, book, local
<1>7. CreatedCanEnter' /\ OrphansExplained'
  BY <1>0, <1>1, <1>2 DEF IInv, CreatedCanEnter, OrphansExplained, Granted, Moved, local
<1> QED
  BY <1>3, <1>4, <1>5, <1>6, <1>7 DEF IInv

LEMMA HandleStep == ASSUME NEW c \in Calls, IInv, Handle(c) PROVE IInv'
BY QuietStep, EnterStep, WriteStep, CleanUpStep DEF Handle

-----------------------------------------------------------------------------
(* The steps of everybody else preserve it too.                              *)

LEMMA RegisterStep ==
    ASSUME NEW c \in Calls, NEW e \in Emails, NEW i \in Invitations, IInv, Register(c, e, i)
    PROVE  IInv'
<1> DEFINE new == [NoCall EXCEPT !.pc = "asking", !.email = e, !.invitation = i]
<1>0. /\ CallOK
      /\ call[c].pc = "new"
      /\ call[c].answer = "none"
      /\ wire \subseteq Calls
      /\ UNCHANGED <<book, local, supabase, logged>>
  BY DEF IInv, TypeOK, CallOK, Register, At
<1>1. /\ new.pc = "asking"
      /\ new.answer = "none"
      /\ new.invitation = i
      /\ new \in [pc : Stages, email : Emails \cup {NoEmail},
                  invitation : Invitations \cup {NoInvitation}, read : Nat, answer : Answers]
  BY DEF NoCall, Stages, Answers
<1>2. call' = [call EXCEPT ![c] = new]
  BY DEF Register
<1> HIDE DEF new
<1>3. call'[c] = new /\ \A d \in Calls \ {c} : call'[d] = call[d]
  BY <1>0, <1>2 DEF CallOK
<1>4. CallOK'
  BY <1>0, <1>1, <1>2, <1>3 DEF CallOK, At
<1>5. TypeOK'
  BY <1>0, <1>4 DEF IInv, TypeOK, CallOK, book, local, supabase
<1>6. LockInv'
  <2>1. \A d \in Calls : Holds(d)' => d # c /\ Holds(d) /\ call'[d] = call[d]
    BY <1>1, <1>3 DEF Holds
  <2>2. \A d \in Calls : call'[d].pc \notin {"new", "done"} => call'[d].invitation \in Invitations
    BY <1>1, <1>3 DEF IInv, LockInv
  <2> QED
    BY <1>0, <2>1, <2>2 DEF IInv, LockInv, book
<1>7. IdentityInv'
  BY <1>0, <1>1, <1>3 DEF IInv, IdentityInv, At, local, supabase
<1>8. UsesAreRedemptions'
  BY <1>0 DEF IInv, UsesAreRedemptions, book, local
<1>9. CreatedCanEnter' /\ OrphansExplained'
  BY <1>0, <1>1, <1>3 DEF IInv, CreatedCanEnter, OrphansExplained, Granted, local, supabase
<1> QED
  BY <1>5, <1>6, <1>7, <1>8, <1>9 DEF IInv

LEMMA CrashStep == ASSUME IInv, ApiCrash PROVE IInv'
<1>0. /\ CallOK
      /\ wire \subseteq Calls
      /\ UNCHANGED <<book, local, supabase, logged>>
  BY DEF IInv, TypeOK, CallOK, ApiCrash
<1>1. ASSUME NEW c \in Calls
      PROVE  /\ call'[c] \in [pc : Stages, email : Emails \cup {NoEmail},
                              invitation : Invitations \cup {NoInvitation},
                              read : Nat, answer : Answers]
             /\ \/ call'[c] = call[c] /\ call[c].pc \in {"new", "done"}
                \/ /\ call'[c].pc = "done"
                   /\ call'[c].answer = "lost"
                   /\ call[c].answer = "none"
  BY <1>0 DEF ApiCrash, CallOK, Stages, Answers, At
<1>2. CallOK'
  <2>1. call' \in [Calls -> [pc : Stages, email : Emails \cup {NoEmail},
                            invitation : Invitations \cup {NoInvitation},
                            read : Nat, answer : Answers]]
    BY <1>1 DEF ApiCrash
  <2> QED
    BY <1>0, <1>1, <2>1 DEF CallOK, At
<1>3. TypeOK'
  BY <1>0, <1>2 DEF IInv, TypeOK, CallOK, book, local, supabase
<1>4. LockInv'
  BY <1>1 DEF LockInv, Holds
<1>5. IdentityInv'
  BY <1>0, <1>1 DEF IInv, IdentityInv, At, local, supabase
<1>6. UsesAreRedemptions'
  BY <1>0 DEF IInv, UsesAreRedemptions, book, local
<1>7. CreatedCanEnter' /\ OrphansExplained'
  BY <1>0, <1>1 DEF IInv, CreatedCanEnter, OrphansExplained, Granted, local, supabase
<1> QED
  BY <1>3, <1>4, <1>5, <1>6, <1>7 DEF IInv

LEMMA SupabaseStep ==
    ASSUME NEW c \in Calls, IInv, SupabaseCreates(c) \/ SupabaseDrops(c)
    PROVE  IInv'
<1>0. /\ CallOK
      /\ c \in wire
      /\ wire' = wire \ {c}
      /\ identities' \in {identities, identities \cup {c}}
      /\ UNCHANGED <<book, local, call, tokens, logged>>
      /\ wire \subseteq Calls
  BY DEF IInv, TypeOK, CallOK, SupabaseCreates, SupabaseDrops
<1>1. call[c].answer \in {"none", "refused", "uncaught", "lost"}
  BY <1>0 DEF IInv, IdentityInv, CallOK, At
<1>2. TypeOK'
  BY <1>0 DEF IInv, TypeOK, Subjects, book, local, At
<1>3. LockInv'
  BY <1>0 DEF IInv, LockInv, Holds, book
<1>4. IdentityInv'
  BY <1>0 DEF IInv, IdentityInv, At, local
<1>5. UsesAreRedemptions'
  BY <1>0 DEF IInv, UsesAreRedemptions, book, local
<1>6. CreatedCanEnter' /\ OrphansExplained'
  BY <1>0, <1>1 DEF IInv, CreatedCanEnter, OrphansExplained, Granted, local
<1> QED
  BY <1>2, <1>3, <1>4, <1>5, <1>6 DEF IInv

LEMMA UserStep ==
    ASSUME NEW s \in Subjects, IInv, SignIn(s) \/ SyncUser(s)
    PROVE  IInv'
<1>0. /\ users' \in {users, users \cup {s}}
      /\ tokens' \in {tokens, tokens \cup {s}}
      /\ UNCHANGED <<book, workspaces, call, wire, identities, logged>>
  BY DEF SignIn, SyncUser, local, supabase
<1>1. TypeOK'
  BY <1>0 DEF IInv, TypeOK, Subjects, book, At
<1>2. LockInv' /\ IdentityInv'
  BY <1>0 DEF IInv, LockInv, IdentityInv, Holds, At, book
<1>3. UsesAreRedemptions'
  BY <1>0 DEF IInv, UsesAreRedemptions, book
<1>4. CreatedCanEnter' /\ OrphansExplained'
  BY <1>0 DEF IInv, CreatedCanEnter, OrphansExplained, Granted
<1> QED
  BY <1>1, <1>2, <1>3, <1>4 DEF IInv

LEMMA AdminStep ==
    ASSUME IInv,
           \/ \E i \in Invitations : CreateInvitation(i) \/ DisableInvitation(i) \/ Expire(i)
           \/ Provision
    PROVE  IInv'
<1>1. ASSUME NEW i \in Invitations, CreateInvitation(i) PROVE IInv'
  <2>0. /\ max[i] = 0
        /\ UNCHANGED <<uses, disabled, expired, redeemed, local, call, supabase, logged>>
    BY <1>1 DEF CreateInvitation
  <2>1. /\ max' \in [Invitations -> Nat]
        /\ \A j \in Invitations : max[j] <= max'[j]
    BY <1>1, RegistrationAssumption DEF CreateInvitation, IInv, TypeOK
  <2>2. TypeOK'
    BY <2>0, <2>1 DEF IInv, TypeOK, local, supabase, At
  <2>3. LockInv'
    <3>1. \A c \in Calls : Holds(c) => /\ call[c].invitation \in Invitations
                                      /\ call[c].read \in Nat
      BY DEF IInv, LockInv, TypeOK, Holds
    <3>2. ASSUME NEW c \in Calls, Holds(c) PROVE call[c].read < max'[call[c].invitation]
      BY <2>1, <3>1, <3>2 DEF IInv, LockInv, TypeOK
    <3> QED
      BY <2>0, <3>2 DEF IInv, LockInv, Holds
  <2>4. IdentityInv' /\ CreatedCanEnter' /\ OrphansExplained'
    BY <2>0 DEF IInv, IdentityInv, CreatedCanEnter, OrphansExplained, Granted, At, local, supabase
  <2>5. UsesAreRedemptions'
    BY <2>0, <2>1 DEF IInv, UsesAreRedemptions, TypeOK, local
  <2> QED
    BY <2>2, <2>3, <2>4, <2>5 DEF IInv
<1>2. ASSUME NEW i \in Invitations, DisableInvitation(i) PROVE IInv'
  <2>0. /\ Unlocked(i)
        /\ disabled' = disabled \cup {i}
        /\ UNCHANGED <<max, uses, expired, redeemed, local, call, supabase, logged>>
    BY <1>2 DEF DisableInvitation
  <2>1. TypeOK'
    BY <2>0 DEF IInv, TypeOK, local, supabase, At
  <2>2. LockInv'
    BY <2>0 DEF IInv, LockInv, Holds, Unlocked
  <2>3. IdentityInv' /\ UsesAreRedemptions' /\ CreatedCanEnter' /\ OrphansExplained'
    BY <2>0 DEF IInv, IdentityInv, UsesAreRedemptions, CreatedCanEnter, OrphansExplained,
                Granted, At, local, supabase
  <2> QED
    BY <2>1, <2>2, <2>3 DEF IInv
<1>3. ASSUME NEW i \in Invitations, Expire(i) PROVE IInv'
  <2>0. /\ expired' = expired \cup {i}
        /\ UNCHANGED <<max, uses, disabled, redeemed, local, call, supabase, logged>>
    BY <1>3 DEF Expire
  <2>1. TypeOK'
    BY <2>0 DEF IInv, TypeOK, local, supabase, At
  <2>2. LockInv' /\ IdentityInv' /\ UsesAreRedemptions' /\ CreatedCanEnter' /\ OrphansExplained'
    BY <2>0 DEF IInv, LockInv, IdentityInv, UsesAreRedemptions, CreatedCanEnter,
                OrphansExplained, Granted, Holds, At, local, supabase
  <2> QED
    BY <2>1, <2>2 DEF IInv
<1>4. CASE Provision
  <2>0. /\ Admin \in users
        /\ workspaces' = workspaces \cup {Admin}
        /\ UNCHANGED <<book, users, call, supabase, logged>>
    BY <1>4 DEF Provision, AdminActs
  <2>1. TypeOK'
    BY <2>0 DEF IInv, TypeOK, book, supabase, At
  <2>2. LockInv' /\ CreatedCanEnter' /\ OrphansExplained'
    BY <2>0 DEF IInv, LockInv, CreatedCanEnter, OrphansExplained, Granted, Holds, book, supabase
  <2>3. IdentityInv'
    BY <2>0, RegistrationAssumption DEF IInv, IdentityInv, At, supabase
  <2>4. UsesAreRedemptions'
    <3>1. workspaces' \ {Admin} = workspaces \ {Admin}
      BY <2>0
    <3> QED
      BY <2>0, <3>1 DEF IInv, UsesAreRedemptions, book
  <2> QED
    BY <2>1, <2>2, <2>3, <2>4 DEF IInv
<1> QED
  BY <1>1, <1>2, <1>3, <1>4

LEMMA IInvStep == IInv /\ [Next]_vars => IInv'
<1> SUFFICES ASSUME IInv, [Next]_vars PROVE IInv'
  OBVIOUS
<1>1. CASE Next
  BY <1>1, HandleStep, RegisterStep, CrashStep, SupabaseStep, UserStep, AdminStep DEF Next
<1>2. CASE UNCHANGED vars
  BY <1>2 DEF vars, IInv, TypeOK, LockInv, IdentityInv, UsesAreRedemptions, CreatedCanEnter,
              OrphansExplained, Granted, Holds, At
<1> QED
  BY <1>1, <1>2

LEMMA Invariance == Spec => []IInv
BY InitInv, IInvStep, PTL DEF Spec

-----------------------------------------------------------------------------
(* The theorems.                                                             *)

(* Every variable of the registration desk keeps its type, and a workspace
   never exists without its owner's row (create_connected_workspace).        *)
THEOREM TypeCorrect == Spec => []TypeOK
BY Invariance, PTL DEF IInv

(* However many registrations race for an invitation, its use_count is the
   number of its redemptions and within max_uses (the lock in register).     *)
THEOREM UsesCounted == Spec => []UsesAreRedemptions
BY Invariance, PTL DEF IInv

(* Whoever was told 201 has an identity, a user and a workspace. *)
THEOREM CreatedEnters == Spec => []CreatedCanEnter
BY Invariance, PTL DEF IInv

(* An identity without a workspace is in the critical log, or its registration
   ended with a creation nobody heard of, a Supabase error register does not catch
   or a crash: no failure of its own transaction leaves one (the cleanup in
   register).                                                                *)
THEOREM OrphansAccounted == Spec => []OrphansExplained
BY Invariance, PTL DEF IInv

(* The instance counts as this module does. *)
LEMMA BookCounts == ASSUME NEW S PROVE Book!Cardinality(S) = Cardinality(S)
BY DEF Book!Cardinality, Cardinality

(* Each step of the registration desk is one of the invitation book's. *)
LEMMA BookStep == IInv /\ [Next]_vars => [Book!Next]_(Book!vars)
<1> SUFFICES ASSUME IInv, [Next]_vars PROVE Book!Next \/ UNCHANGED Book!vars
  OBVIOUS
<1>1. ASSUME NEW c \in Calls, Commit(c) \/ CommitUnheard(c) PROVE Book!Next
  <2> DEFINE i == call[c].invitation
  <2>0. /\ i \in Invitations
        /\ i \notin disabled
        /\ uses[i] < max[i]
        /\ c \in Calls \ workspaces
    BY <1>1 DEF IInv, LockInv, IdentityInv, Holds, Commit, CommitUnheard, At
  <2>1. Cardinality(redeemed[i]) < max[i]
    BY <2>0 DEF IInv, UsesAreRedemptions
  <2>2. c \notin UNION {redeemed[j] : j \in Invitations}
    <3>1. c \notin workspaces \ {Admin}
      BY <2>0
    <3> QED
      BY <3>1 DEF IInv, UsesAreRedemptions
  <2>3. /\ redeemed' = [redeemed EXCEPT ![i] = @ \cup {c}]
        /\ UNCHANGED <<max, disabled>>
    BY <1>1 DEF Commit, CommitUnheard, Write
  <2> HIDE DEF i
  <2>4. Book!Admit(i, c)
    BY <2>0, <2>1, <2>2, <2>3, BookCounts DEF Book!Admit
  <2> QED
    BY <2>0, <2>4 DEF Book!Next
<1>2. ASSUME NEW c \in Calls, Handle(c), ~Commit(c), ~CommitUnheard(c) PROVE UNCHANGED Book!vars
  BY <1>2 DEF Handle, AskProvider, Enter, CreateSucceeds, CreateFails, Flush, Fail, CleanUp,
              book, Book!vars
<1>3. ASSUME NEW c \in Calls, NEW e \in Emails, NEW i \in Invitations, Register(c, e, i)
      PROVE  UNCHANGED Book!vars
  BY <1>3 DEF Register, book, Book!vars
<1>4. ASSUME NEW c \in Calls, SupabaseCreates(c) \/ SupabaseDrops(c) PROVE UNCHANGED Book!vars
  BY <1>4 DEF SupabaseCreates, SupabaseDrops, book, Book!vars
<1>5. ASSUME NEW s \in Subjects, SignIn(s) \/ SyncUser(s) PROVE UNCHANGED Book!vars
  BY <1>5 DEF SignIn, SyncUser, book, Book!vars
<1>6. ASSUME NEW i \in Invitations, CreateInvitation(i) PROVE Book!Next
  BY <1>6 DEF CreateInvitation, Book!Issue, Book!Next
<1>7. ASSUME NEW i \in Invitations, DisableInvitation(i) PROVE Book!Next
  BY <1>7 DEF DisableInvitation, Book!Disable, Book!Next
<1>8. ASSUME NEW i \in Invitations, Expire(i) PROVE UNCHANGED Book!vars
  BY <1>8 DEF Expire, Book!vars
<1>9. CASE Provision \/ ApiCrash \/ UNCHANGED vars
  BY <1>9 DEF Provision, ApiCrash, vars, book, Book!vars
<1> QED
  BY <1>1, <1>2, <1>3, <1>4, <1>5, <1>6, <1>7, <1>8, <1>9 DEF Next

(* Registration implements the invitation book: an invitation admits at most
   as many people as it allows, none after it was disabled, nobody twice.    *)
THEOREM Refinement == Spec => BookSpec
<1>1. Init => Book!Init
  BY DEF Init, Book!Init
<1>2. IInv /\ [Next]_vars => [Book!Next]_(Book!vars)
  BY BookStep
<1> QED
  BY <1>1, <1>2, Invariance, PTL DEF Spec, BookSpec, Book!Spec

-----------------------------------------------------------------------------
(* What follows for one invitation and for one registration.                 *)

(* Who was admitted stays admitted, the size of an invitation is fixed when it
   is issued, and one that is disabled admits nobody any more.                *)
AdmissionStands(i) ==
    /\ redeemed[i] \subseteq redeemed'[i]
    /\ max[i] # 0 => max'[i] = max[i]
    /\ i \in disabled => i \in disabled' /\ redeemed'[i] = redeemed[i]

(* Once an invitation is disabled it admits none of the registrations that had
   found it open before, and no cleanup, crash or unheard commit takes an admission
   back: read off the invitation book.                                        *)
THEOREM AdmissionsStand == Spec => [][\A i \in Invitations : AdmissionStands(i)]_vars
<1>1. ASSUME IInv, [Next]_vars, NEW i \in Invitations PROVE AdmissionStands(i)
  <2>1. Book!Next \/ UNCHANGED Book!vars
    BY <1>1, BookStep
  <2>2. max \in [Invitations -> Nat] /\ redeemed \in [Invitations -> SUBSET Calls]
    BY <1>1 DEF IInv, TypeOK
  <2>3. CASE UNCHANGED Book!vars
    BY <2>3 DEF Book!vars, AdmissionStands
  <2>4. ASSUME NEW j \in Invitations, Book!Issue(j) \/ Book!Disable(j) PROVE AdmissionStands(i)
    BY <2>2, <2>4 DEF Book!Issue, Book!Disable, AdmissionStands
  <2>5. ASSUME NEW j \in Invitations, NEW p \in Calls, Book!Admit(j, p)
        PROVE  AdmissionStands(i)
    <3>1. /\ j \notin disabled
          /\ redeemed' = [redeemed EXCEPT ![j] = @ \cup {p}]
          /\ max' = max /\ disabled' = disabled
      BY <2>5 DEF Book!Admit
    <3> QED
      BY <2>2, <3>1 DEF AdmissionStands
  <2> QED
    BY <2>1, <2>3, <2>4, <2>5 DEF Book!Next
<1>2. IInv /\ [Next]_vars => [\A i \in Invitations : AdmissionStands(i)]_vars
  BY <1>1
<1> QED
  BY <1>2, Invariance, PTL DEF Spec

(* How far a registration is. *)
Rank(p) ==
    CASE p = "new" -> 0        [] p = "asking" -> 1      [] p = "entering" -> 2
      [] p = "creating" -> 3   [] p = "flushing" -> 4    [] p = "committing" -> 5
      [] p = "cleaning" -> 6   [] p = "done" -> 7

CallAdvances(c) ==
    /\ Rank(call[c].pc) \in 0 .. 7
    /\ call'[c] # call[c] => Rank(call'[c].pc) > Rank(call[c].pc)

LEMMA Ranks ==
    /\ Rank("new") = 0 /\ Rank("asking") = 1 /\ Rank("entering") = 2 /\ Rank("creating") = 3
    /\ Rank("flushing") = 4 /\ Rank("committing") = 5 /\ Rank("cleaning") = 6 /\ Rank("done") = 7
BY DEF Rank

LEMMA HandleAdvances ==
    ASSUME NEW c \in Calls, IInv, Handle(c)
    PROVE  Rank(call'[c].pc) > Rank(call[c].pc) /\ \A d \in Calls \ {c} : call'[d] = call[d]
<1>1. CallOK /\ uses \in [Invitations -> Nat]
  BY DEF IInv, TypeOK, CallOK
<1> USE Ranks
<1>2. CASE AskProvider(c)
  BY <1>1, <1>2, AskProviderMoves DEF AskProvider, Moved, At
<1>3. CASE Enter(c)
  <2>1. call[c].pc = "entering" /\ call[c].invitation \in Invitations
    BY <1>3 DEF Enter, At, IInv, LockInv
  <2>2. [call[c] EXCEPT !.pc = "creating", !.read = uses[call[c].invitation]].pc = "creating"
    BY <1>1 DEF CallOK
  <2>3. /\ \A d \in Calls \ {c} : call'[d] = call[d]
        /\ \/ call'[c].pc = "done"
           \/ call'[c] = [call[c] EXCEPT !.pc = "creating", !.read = uses[call[c].invitation]]
    <3>1. \/ Moved(c, "done", "refused")
          \/ /\ \A d \in Calls \ {c} : call'[d] = call[d]
             /\ call'[c] = [call[c] EXCEPT !.pc = "creating", !.read = uses[call[c].invitation]]
      BY <1>1, <1>3, <2>1, EnterMoves
    <3> QED
      BY <3>1 DEF Moved
  <2>4. call'[c].pc \in {"done", "creating"}
    BY <2>2, <2>3, Zenon
  <2> QED
    BY <2>1, <2>3, <2>4
<1>4. CASE CreateSucceeds(c) \/ Flush(c) \/ CommitUnheard(c) \/ Fail(c)
  <2>1. PICK p \in {"flushing", "committing", "cleaning"} :
           /\ Goto(c, p) /\ ~At(c, "done")
           /\ \/ call[c].pc = "creating" /\ p = "flushing"
              \/ call[c].pc = "flushing" /\ p \in {"committing", "cleaning"}
              \/ call[c].pc = "committing" /\ p = "cleaning"
    BY <1>4 DEF CreateSucceeds, Flush, CommitUnheard, Fail, At
  <2>2. Moved(c, p, "none")
    BY <1>1, <2>1, Names, GotoMoves
  <2> QED
    BY <2>1, <2>2 DEF Moved
<1>5. CASE CreateFails(c) \/ Commit(c) \/ CleanUp(c)
  <2>1. PICK a \in {"refused", "created", "error", "uncaught"} :
           Finish(c, a) /\ call[c].pc \in {"creating", "committing", "cleaning"}
    BY <1>5 DEF CreateFails, Commit, CleanUp, At
  <2>2. Moved(c, "done", a)
    BY <1>1, <2>1, Names, FinishMoves
  <2> QED
    BY <2>1, <2>2 DEF Moved
<1> QED
  BY <1>2, <1>3, <1>4, <1>5 DEF Handle

LEMMA AdvanceStep ==
    ASSUME IInv, [Next]_vars, NEW d \in Calls
    PROVE  CallAdvances(d)
<1>1. call \in [Calls -> [pc : Stages, email : Emails \cup {NoEmail},
                          invitation : Invitations \cup {NoInvitation},
                          read : Nat, answer : Answers]]
  BY DEF IInv, TypeOK
<1>2. Rank(call[d].pc) \in 0 .. 7
  BY <1>1, Ranks DEF Stages
<1>3. ASSUME UNCHANGED call PROVE CallAdvances(d)
  BY <1>2, <1>3 DEF CallAdvances
<1>4. ASSUME NEW c \in Calls, Handle(c) PROVE CallAdvances(d)
  BY <1>2, <1>4, HandleAdvances DEF CallAdvances
<1>5. ASSUME NEW c \in Calls, NEW e \in Emails, NEW i \in Invitations, Register(c, e, i)
      PROVE  CallAdvances(d)
  <2>1. [NoCall EXCEPT !.pc = "asking", !.email = e, !.invitation = i].pc = "asking"
    BY DEF NoCall
  <2> QED
    BY <1>1, <1>2, <1>5, <2>1, Ranks DEF Register, At, CallAdvances
<1>6. CASE ApiCrash
  <2>1. CASE call[d].pc \in {"new", "done"}
    BY <1>2, <1>6, <2>1 DEF ApiCrash, CallAdvances
  <2>2. CASE call[d].pc \notin {"new", "done"}
    <3>1. call'[d] = [call[d] EXCEPT !.pc = "done", !.answer = "lost"]
      BY <1>6, <2>2 DEF ApiCrash
    <3>2. call'[d].pc = "done"
      BY <1>1, <3>1
    <3> QED
      BY <1>1, <1>2, <2>2, <3>2, Ranks DEF Stages, CallAdvances
  <2> QED
    BY <2>1, <2>2
<1> QED
  BY <1>3, <1>4, <1>5, <1>6
     DEF Next, vars, SupabaseCreates, SupabaseDrops, SignIn, SyncUser, CreateInvitation,
         DisableInvitation, Expire, Provision

(* A registration takes at most seven steps and each brings it on, so that none
   runs for ever, is answered twice or begins again after its answer.         *)
THEOREM CallsRunOut == Spec => [][\A c \in Calls : CallAdvances(c)]_vars
<1>1. IInv /\ [Next]_vars => [\A c \in Calls : CallAdvances(c)]_vars
  BY AdvanceStep
<1> QED
  BY <1>1, Invariance, PTL DEF Spec

=============================================================================
