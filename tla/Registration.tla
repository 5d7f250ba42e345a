---------------------------- MODULE Registration ----------------------------
(***************************************************************************)
(* Invited registration (packages/auth/registration.py), the invitations   *)
(* and workspaces it consumes and creates, and the sign-in that turns a    *)
(* Supabase token into a local user (packages/auth/dependencies.py).       *)
(*                                                                         *)
(* One registration is one database transaction with a call to Supabase in *)
(* the middle of it: the invitation's row stays locked (SELECT ... FOR     *)
(* UPDATE) while the identity is created, and whatever fails afterwards is *)
(* undone by deleting the identity.  Supabase may act late, or act and not *)
(* be heard; COMMIT may succeed and not be heard; the API may die.         *)
(*                                                                         *)
(* A call is made once, and names the subject Supabase would give it.      *)
(***************************************************************************)
EXTENDS Naturals, FiniteSets

CONSTANTS
    Calls,            \* POST /auth/register requests
    Invitations,      \* invitations the administrator may create
    Emails,
    Admin,            \* the subject of the bootstrap administrator
    AdminEmail,       \* settings.admin_emails
    NoEmail,
    NoInvitation,
    MaxUses           \* values of max_uses the administrator chooses from

ASSUME RegistrationAssumption ==
    /\ Admin \notin Calls
    /\ AdminEmail \in Emails
    /\ NoEmail \notin Emails
    /\ NoInvitation \notin Invitations
    /\ MaxUses \subseteq Nat \ {0}
    /\ IsFiniteSet(Calls)

Subjects == Calls \cup {Admin}

VARIABLES
    max,              \* invitations.max_uses, 0 where there is no row yet
    uses,             \* invitations.use_count
    disabled,         \* invitations with disabled_at
    expired,          \* invitations past expires_at
    redeemed,         \* invitation_redemptions: [Invitations -> SUBSET Calls]
    users,            \* app_users, by auth_subject
    workspaces,       \* workspaces, by their owner's auth_subject
    call,             \* [Calls -> [pc, email, invitation, read, answer]]
    wire,             \* creations Supabase has not decided yet
    identities,       \* the identities Supabase holds
    tokens,           \* subjects that hold an access token
    logged            \* cleanup failures in the critical log

book  == <<max, uses, disabled, expired, redeemed>>
local == <<users, workspaces>>
supabase == <<wire, identities, tokens>>
vars  == <<max, uses, disabled, expired, redeemed, users, workspaces, call,
           wire, identities, tokens, logged>>

Email(s) == IF s = Admin THEN AdminEmail ELSE call[s].email

(* The program points of register: "asking" for the provider's status, before
   the transaction ("entering"), waiting for the reply of create_user
   ("creating"), before the flush, before the commit, and in the cleanup.    *)
Stages == {"new", "asking", "entering", "creating", "flushing", "committing",
           "cleaning", "done"}

(* 201, 409, 503, the error that undid the transaction, an exception of a call
   to Supabase that SupabaseAdminAuth does not turn into its own (a connection
   that breaks in the middle of a reply), or no answer because the API died.  *)
Answers == {"none", "created", "refused", "unavailable", "error", "uncaught", "lost"}

NoCall == [pc |-> "new", email |-> NoEmail, invitation |-> NoInvitation,
           read |-> 0, answer |-> "none"]

Init ==
    /\ max = [i \in Invitations |-> 0]
    /\ uses = [i \in Invitations |-> 0]
    /\ disabled = {}
    /\ expired = {}
    /\ redeemed = [i \in Invitations |-> {}]
    /\ users = {}
    /\ workspaces = {}
    /\ call = [c \in Calls |-> NoCall]
    /\ wire = {}
    /\ identities = {Admin}
    /\ tokens = {}
    /\ logged = {}
-----------------------------------------------------------------------------
(* The transaction.                                                        *)

At(c, pc) == call[c].pc = pc

(* Mistakes for Holds: a plain SELECT, a lock given up before the commit, a
   session that is not closed.                                               *)
NeverHolds(c) == FALSE
HoldsUntilReply(c) == At(c, "creating")
HoldsForEver(c) == call[c].pc \in {"creating", "flushing", "committing", "done"}

(* Calls that hold the lock on their invitation's row. *)
Holds(c) == call[c].pc \in {"creating", "flushing", "committing"}

Unlocked(i) == \A c \in Calls : Holds(c) => call[c].invitation # i

(* Users whose row is inserted but not committed: the unique indexes on
   auth_subject and email make another insert wait for them.                *)
Pending == {c \in Calls : At(c, "committing")}

Available(i) ==
    /\ max[i] # 0
    /\ i \notin disabled
    /\ i \notin expired
    /\ uses[i] < max[i]

Goto(c, pc) == call' = [call EXCEPT ![c].pc = pc]

Finish(c, answer) ==
    call' = [call EXCEPT ![c].pc = "done", ![c].answer = answer]

Known(email) == \E s \in users : Email(s) = email

Register(c, email, i) ==
    /\ At(c, "new")
    /\ call' = [call EXCEPT ![c] = [NoCall EXCEPT !.pc = "asking", !.email = email,
                                                  !.invitation = i]]
    /\ UNCHANGED <<book, local, supabase, logged>>

(* The provider's status is asked for first, and refusing it costs nothing. *)
AskProvider(c) ==
    /\ At(c, "asking")
    /\ Goto(c, "entering") \/ Finish(c, "unavailable") \/ Finish(c, "uncaught")
    /\ UNCHANGED <<book, local, supabase, logged>>

Refuses(c) ==
    \/ call[c].email = AdminEmail
    \/ ~Available(call[c].invitation)
    \/ Known(call[c].email)

(* The invitation's row, once it can be locked, and the user's by email. *)
Enter(c) ==
    /\ At(c, "entering")
    /\ Unlocked(call[c].invitation)
    /\ IF Refuses(c)
       THEN Finish(c, "refused") /\ UNCHANGED wire
       ELSE /\ call' = [call EXCEPT ![c].pc = "creating",
                                    ![c].read = uses[call[c].invitation]]
            /\ wire' = wire \cup {c}
    /\ UNCHANGED <<book, local, identities, tokens, logged>>

CreateSucceeds(c) ==
    /\ At(c, "creating")
    /\ c \in identities
    /\ Goto(c, "flushing")
    /\ UNCHANGED <<book, local, supabase, logged>>

(* A refusal, a timeout, or a reply that is lost or malformed: the transaction
   rolls back, and created_subject was never set, so that nothing is cleaned up
   whatever Supabase did.                                                    *)
CreateFails(c) ==
    /\ At(c, "creating")
    /\ Finish(c, "refused") \/ Finish(c, "uncaught")
    /\ UNCHANGED <<book, local, supabase, logged>>

Flush(c) ==
    /\ At(c, "flushing")
    /\ \A d \in Pending : call[d].email # call[c].email
    /\ Goto(c, IF c \in users \/ Known(call[c].email) THEN "cleaning" ELSE "committing")
    /\ UNCHANGED <<book, local, supabase, logged>>

Write(c) ==
    LET i == call[c].invitation
    IN  /\ users' = users \cup {c}
        /\ workspaces' = workspaces \cup {c}
        /\ redeemed' = [redeemed EXCEPT ![i] = @ \cup {c}]
        /\ uses' = [uses EXCEPT ![i] = call[c].read + 1]
        /\ UNCHANGED <<max, disabled, expired, supabase, logged>>

Commit(c) ==
    /\ At(c, "committing")
    /\ Write(c)
    /\ Finish(c, "created")

(* PostgreSQL commits, and the connection breaks before it says so. *)
CommitUnheard(c) ==
    /\ At(c, "committing")
    /\ Write(c)
    /\ Goto(c, "cleaning")

(* A mistake for Fail: the rollback is all that happens. *)
FailOnly(c) ==
    /\ call[c].pc \in {"flushing", "committing"}
    /\ Finish(c, "error")
    /\ UNCHANGED <<book, local, supabase, logged>>

(* Any other exception after the identity exists rolls back. *)
Fail(c) ==
    /\ call[c].pc \in {"flushing", "committing"}
    /\ Goto(c, "cleaning")
    /\ UNCHANGED <<book, local, supabase, logged>>

(* A mistake for CleanUp: the exception is not raised again. *)
CleanUpQuietly(c) ==
    /\ At(c, "cleaning")
    /\ identities' = identities \ {c}
    /\ Finish(c, "created")
    /\ UNCHANGED <<book, local, wire, tokens, logged>>

(* delete_user: a failure of it, whether Supabase acted or not, is logged when it
   is a SupabaseAdminError, and any other replaces the error it should follow. *)
CleanUp(c) ==
    /\ At(c, "cleaning")
    /\ \/ identities' = identities \ {c} /\ UNCHANGED logged /\ Finish(c, "error")
       \/ /\ identities' \in {identities, identities \ {c}}
          /\ \/ logged' = logged \cup {c} /\ Finish(c, "error")
             \/ UNCHANGED logged /\ Finish(c, "uncaught")
    /\ UNCHANGED <<book, local, wire, tokens>>

(* Every request dies with the process; PostgreSQL rolls their transactions
   back, and Supabase keeps what it holds.                                   *)
ApiCrash ==
    /\ \E c \in Calls : call[c].pc \notin {"new", "done"}
    /\ call' = [c \in Calls |-> IF call[c].pc \in {"new", "done"} THEN call[c]
                                ELSE [call[c] EXCEPT !.pc = "done", !.answer = "lost"]]
    /\ UNCHANGED <<book, local, supabase, logged>>
-----------------------------------------------------------------------------
(* Supabase, and the tokens it hands to whoever signs in.                  *)

SupabaseCreates(c) ==
    /\ c \in wire
    /\ \A s \in identities : Email(s) # call[c].email
    /\ wire' = wire \ {c}
    /\ identities' = identities \cup {c}
    /\ UNCHANGED <<book, local, call, tokens, logged>>

(* The email is taken, or the request got lost. *)
SupabaseDrops(c) ==
    /\ c \in wire
    /\ wire' = wire \ {c}
    /\ UNCHANGED <<book, local, call, identities, tokens, logged>>

SignIn(s) ==
    /\ s \in identities
    /\ tokens' = tokens \cup {s}
    /\ UNCHANGED <<book, local, call, wire, identities, logged>>

(* The first request with a token inserts the user; a token outlives the
   identity it was issued for.  A taken email makes the request fail.        *)
SyncUser(s) ==
    /\ s \in tokens
    /\ s \notin users
    /\ \A d \in Pending : call[d].email # Email(s)
    /\ ~Known(Email(s))
    /\ users' = users \cup {s}
    /\ UNCHANGED <<book, workspaces, call, supabase, logged>>
-----------------------------------------------------------------------------
(* The administrator.                                                      *)

AdminActs == Admin \in tokens /\ Admin \in users

CreateInvitation(i) ==
    /\ AdminActs
    /\ max[i] = 0
    /\ \E n \in MaxUses : max' = [max EXCEPT ![i] = n]
    /\ UNCHANGED <<uses, disabled, expired, redeemed, local, call, supabase, logged>>

(* The row is read FOR UPDATE too: a registration in flight comes first. *)
DisableInvitation(i) ==
    /\ AdminActs
    /\ max[i] # 0
    /\ i \notin disabled
    /\ Unlocked(i)
    /\ disabled' = disabled \cup {i}
    /\ UNCHANGED <<max, uses, expired, redeemed, local, call, supabase, logged>>

Expire(i) ==
    /\ max[i] # 0
    /\ expired' = expired \cup {i}
    /\ UNCHANGED <<max, uses, disabled, redeemed, local, call, supabase, logged>>

(* A mistake for Provision: the administrator's row is not asked for. *)
ProvisionBlindly ==
    /\ workspaces' = workspaces \cup {Admin}
    /\ UNCHANGED <<book, users, call, supabase, logged>>

(* The administrator's own workspace, once however often it is asked for. *)
Provision ==
    /\ AdminActs
    /\ workspaces' = workspaces \cup {Admin}
    /\ UNCHANGED <<book, users, call, supabase, logged>>
-----------------------------------------------------------------------------

Handle(c) ==
    \/ AskProvider(c) \/ Enter(c) \/ CreateSucceeds(c) \/ CreateFails(c)
    \/ Flush(c) \/ Commit(c) \/ CommitUnheard(c) \/ Fail(c) \/ CleanUp(c)

Next ==
    \/ \E c \in Calls :
          \/ \E e \in Emails, i \in Invitations : Register(c, e, i)
          \/ Handle(c) \/ SupabaseCreates(c) \/ SupabaseDrops(c)
    \/ \E s \in Subjects : SignIn(s) \/ SyncUser(s)
    \/ \E i \in Invitations : CreateInvitation(i) \/ DisableInvitation(i) \/ Expire(i)
    \/ Provision \/ ApiCrash

Spec == Init /\ [][Next]_vars

(* An await of the handler returns: urlopen has a timeout, and PostgreSQL
   grants a row to those that wait for it.                                   *)
FairSpec == Spec /\ \A c \in Calls : WF_vars(Handle(c))
-----------------------------------------------------------------------------

TypeOK ==
    /\ max \in [Invitations -> Nat]
    /\ uses \in [Invitations -> Nat]
    /\ disabled \subseteq Invitations
    /\ expired \subseteq Invitations
    /\ redeemed \in [Invitations -> SUBSET Calls]
    /\ users \subseteq Subjects
    /\ workspaces \subseteq users
    /\ call \in [Calls -> [pc : Stages, email : Emails \cup {NoEmail},
                           invitation : Invitations \cup {NoInvitation},
                           read : Nat, answer : Answers]]
    /\ \A c \in Calls : At(c, "done") <=> call[c].answer # "none"
    /\ wire \subseteq Calls
    /\ identities \subseteq Subjects
    /\ tokens \subseteq Subjects
    /\ logged \subseteq Calls

(* However many registrations race for an invitation, fail or are answered by
   nobody, its use_count is the number of its redemptions and no more than it
   allows, and every workspace but the administrator's was paid for by one
   redemption.                                                               *)
UsesAreRedemptions ==
    /\ \A i \in Invitations : uses[i] = Cardinality(redeemed[i]) /\ uses[i] <= max[i]
    /\ UNION {redeemed[i] : i \in Invitations} = workspaces \ {Admin}
    /\ \A i, j \in Invitations : i # j => redeemed[i] \cap redeemed[j] = {}

(* Who is told 201 can use the desk: the identity exists and its requests find
   their user and workspace (require_workspace), whatever else went wrong.   *)
Granted(s) == s \in users /\ s \in workspaces
CreatedCanEnter ==
    \A c \in Calls : call[c].answer = "created" => c \in identities /\ Granted(c)

(* Whatever the transaction failed with, the cleanup followed: an identity without
   a workspace is in the critical log, unless a request to Supabase failed in a
   way register could not follow up (the creation was not heard of, or the error
   was not one of SupabaseAdminAuth's), or the API died.                      *)
OrphansExplained ==
    \A c \in Calls \cap identities :
        c \in workspaces \/ c \in logged
        \/ call[c].answer \in {"none", "refused", "uncaught", "lost"}

(* Every registration is answered, also one that waits for a locked row. *)
Answered == \A c \in Calls : At(c, "asking") ~> At(c, "done")

(* Registration keeps the promises of the invitation book. *)
Book == INSTANCE InvitationBook WITH
            People <- Calls,
            Sizes <- MaxUses,
            allows <- max,
            members <- redeemed
BookSpec == Book!Spec

=============================================================================
