---------------------- MODULE WorkspaceLifecycleProofs ----------------------
(***************************************************************************)
(* Theorems of WorkspaceLifecycle for any number of workspaces, secrets,   *)
(* calls and any connection limit.  The limit holds because the supervisor *)
(* wants no more than it discovered among the first Limit credentials, and *)
(* starts what it wants only when everything else has stopped.             *)
(* A runtime is followed from its start to its end by how far it is.       *)
(***************************************************************************)
EXTENDS WorkspaceLifecycle, SequenceTheorems, FiniteSetTheorems, TLAPS

(* The credentials in the order of updated_at. *)
Elements(s) == {s[n] : n \in DOMAIN s}
NoRepeats(s) == \A m, n \in DOMAIN s : s[m] = s[n] => m = n

Ordered ==
    /\ cred \in [Workspaces -> Secrets \cup {NoSecret}]
    /\ saved \in Seq(Workspaces)
    /\ Elements(saved) = {w \in Workspaces : cred[w] # NoSecret}
    /\ NoRepeats(saved)
    /\ unreadable \subseteq {w \in Workspaces : cred[w] # NoSecret}

Calling ==
    call \in [Calls -> [pc : {"idle", "connecting", "purging", "enabling"},
                        workspace : Workspaces \cup {NoWorkspace}]]

(* An API call between its transactions names a workspace. *)
CallsNamed == \A c \in Calls : call[c].pc # "idle" => call[c].workspace \in Workspaces

Entry == [stage : Stages, print : Secrets \cup {NoSecret}, uses : Secrets \cup {NoSecret}]

Working ==
    /\ up \in BOOLEAN
    /\ wanted \in [Workspaces -> Secrets \cup {NoSecret}]
    /\ supervisor \in {"sleep", "refresh"}
    /\ runtime \in [Workspaces -> Entry]
    /\ todo \subseteq Workspaces

Described ==
    /\ status \in [Workspaces -> Statuses]
    /\ scanner \subseteq Workspaces

Wanted == {w \in Workspaces : wanted[w] # NoSecret}

(* What the supervisor wants fits the limit, and so does what it runs. *)
CapInv ==
    /\ IsFiniteSet(Wanted) /\ Cardinality(Wanted) <= Limit
    /\ IsFiniteSet(Entries) /\ Cardinality(Entries) <= Limit
    /\ \A w \in Entries : runtime[w].print # NoSecret

IInv == Ordered /\ Calling /\ CallsNamed /\ Working /\ Described /\ CapInv

LEMMA IInvImplies == IInv => TypeOK /\ ConnectionCap
BY DEF IInv, Ordered, Calling, Working, Described, Entry, CapInv, TypeOK, ConnectionCap,
       Elements, NoRepeats

-----------------------------------------------------------------------------

LEMMA InitInv == Init => IInv
<1> SUFFICES ASSUME Init PROVE IInv
  OBVIOUS
<1>1. Ordered
  BY DEF Init, Ordered, Nothing, Elements, NoRepeats
<1>2. Calling /\ CallsNamed
  BY DEF Init, Calling, CallsNamed, Free
<1>3. Working /\ Described
  BY DEF Init, Working, Described, Nothing, NoEntry, Entry, Stages, Statuses
<1>4. CapInv
  <2>1. Wanted = {} /\ Entries = {}
    BY DEF Init, Wanted, Entries, Nothing, NoEntry
  <2> QED
    BY <2>1, FS_EmptySet, ConstantsAssumption DEF CapInv
<1> QED
  BY <1>1, <1>2, <1>3, <1>4 DEF IInv

-----------------------------------------------------------------------------
(* The order of the credentials.                                             *)

LEMMA WithoutProperties ==
    ASSUME Ordered, NEW w \in Workspaces
    PROVE  /\ Without(w) \in Seq(Workspaces)
           /\ Elements(Without(w)) = Elements(saved) \ {w}
           /\ NoRepeats(Without(w))
<1>0. /\ saved \in Seq(Workspaces) /\ Len(saved) \in Nat /\ DOMAIN saved = 1 .. Len(saved)
      /\ NoRepeats(saved)
  BY LenProperties DEF Ordered
<1>1. CASE cred[w] = NoSecret
  BY <1>0, <1>1 DEF Without, Ordered
<1>2. CASE cred[w] # NoSecret
  <2> DEFINE p == Position(w)
             r == Without(w)
  <2>1. p \in 1 .. Len(saved) /\ saved[p] = w
    <3>1. \E n \in DOMAIN saved : saved[n] = w
      BY <1>2 DEF Ordered, Elements
    <3> QED
      BY <1>0, <3>1 DEF Position
  <2>2. r = SubSeq(saved, 1, p - 1) \o SubSeq(saved, p + 1, Len(saved))
    BY <1>2 DEF Without
  <2> HIDE DEF p, r
  <2>3. /\ SubSeq(saved, 1, p - 1) \in Seq(Workspaces)
        /\ Len(SubSeq(saved, 1, p - 1)) = p - 1
        /\ \A i \in 1 .. p - 1 : SubSeq(saved, 1, p - 1)[i] = saved[i]
    <3>1. \A i \in 1 .. p - 1 : saved[i] \in Workspaces
      BY <1>0, <2>1, ElementOfSeq
    <3>2. p - 1 \in Int
      BY <1>0, <2>1
    <3> QED
      BY <1>0, <2>1, <3>1, <3>2, SubSeqProperties
  <2>4. /\ SubSeq(saved, p + 1, Len(saved)) \in Seq(Workspaces)
        /\ Len(SubSeq(saved, p + 1, Len(saved))) = Len(saved) - p
        /\ \A i \in 1 .. Len(saved) - p : SubSeq(saved, p + 1, Len(saved))[i] = saved[p + i]
    <3>1. \A i \in p + 1 .. Len(saved) : saved[i] \in Workspaces
      BY <1>0, <2>1, ElementOfSeq
    <3>2. p + 1 \in Int /\ Len(saved) \in Int
      BY <1>0, <2>1
    <3>3. /\ SubSeq(saved, p + 1, Len(saved)) \in Seq(Workspaces)
          /\ Len(SubSeq(saved, p + 1, Len(saved)))
                = IF p + 1 <= Len(saved) THEN Len(saved) - (p + 1) + 1 ELSE 0
          /\ \A i \in 1 .. Len(saved) - (p + 1) + 1 :
                SubSeq(saved, p + 1, Len(saved))[i] = saved[(p + 1) + i - 1]
      BY <3>1, <3>2, SubSeqProperties
    <3>4. Len(SubSeq(saved, p + 1, Len(saved))) = Len(saved) - p
      <4>1. p \in Nat /\ Len(saved) \in Nat /\ p <= Len(saved)
        BY <1>0, <2>1
      <4>2. CASE p + 1 <= Len(saved)
        <5>1. Len(SubSeq(saved, p + 1, Len(saved))) = Len(saved) - (p + 1) + 1
          BY <3>3, <4>2
        <5>2. Len(saved) - (p + 1) + 1 = Len(saved) - p
          BY <4>1
        <5> QED
          BY <5>1, <5>2
      <4>3. CASE ~(p + 1 <= Len(saved))
        <5>1. Len(SubSeq(saved, p + 1, Len(saved))) = 0
          BY <3>3, <4>3
        <5>2. 0 = Len(saved) - p
          BY <4>1, <4>3
        <5> QED
          BY <5>1, <5>2
      <4> QED
        BY <4>2, <4>3
    <3>5. Len(saved) - (p + 1) + 1 = Len(saved) - p
      BY <1>0, <2>1
    <3>6. ASSUME NEW i \in 1 .. Len(saved) - p
          PROVE  SubSeq(saved, p + 1, Len(saved))[i] = saved[p + i]
      <4>1. (p + 1) + i - 1 = p + i
        BY <1>0, <2>1
      <4>2. SubSeq(saved, p + 1, Len(saved))[i] = saved[(p + 1) + i - 1]
        BY <3>3, <3>5
      <4> QED
        BY <4>1, <4>2
    <3> QED
      BY <3>3, <3>4, <3>6
  <2>5. /\ r \in Seq(Workspaces)
        /\ Len(r) = Len(saved) - 1
        /\ \A i \in 1 .. Len(saved) - 1 : r[i] = IF i < p THEN saved[i] ELSE saved[i + 1]
    <3>1. /\ r \in Seq(Workspaces)
          /\ Len(r) = (p - 1) + (Len(saved) - p)
          /\ \A i \in 1 .. (p - 1) + (Len(saved) - p) :
                r[i] = IF i <= p - 1 THEN SubSeq(saved, 1, p - 1)[i]
                       ELSE SubSeq(saved, p + 1, Len(saved))[i - (p - 1)]
      <4> DEFINE a == SubSeq(saved, 1, p - 1)
                 b == SubSeq(saved, p + 1, Len(saved))
      <4>1. /\ a \in Seq(Workspaces) /\ Len(a) = p - 1
            /\ b \in Seq(Workspaces) /\ Len(b) = Len(saved) - p
            /\ r = a \o b
        BY <2>2, <2>3, <2>4
      <4> HIDE DEF a, b
      <4>2. /\ a \o b \in Seq(Workspaces)
            /\ Len(a \o b) = Len(a) + Len(b)
            /\ \A i \in 1 .. Len(a) + Len(b) :
                  (a \o b)[i] = IF i <= Len(a) THEN a[i] ELSE b[i - Len(a)]
        BY <4>1, ConcatProperties
      <4>3. /\ r \in Seq(Workspaces)
            /\ Len(r) = (p - 1) + (Len(saved) - p)
            /\ \A i \in 1 .. (p - 1) + (Len(saved) - p) :
                  r[i] = IF i <= p - 1 THEN a[i] ELSE b[i - (p - 1)]
        BY <4>1, <4>2, Zenon
      <4> QED
        BY <4>3 DEF a, b
    <3>2. ASSUME NEW i \in 1 .. Len(saved) - 1
          PROVE  r[i] = IF i < p THEN saved[i] ELSE saved[i + 1]
      <4>1. CASE i < p
        BY <1>0, <2>1, <2>3, <3>1, <4>1
      <4>2. CASE ~(i < p)
        <5>1. r[i] = SubSeq(saved, p + 1, Len(saved))[i - (p - 1)]
          BY <1>0, <2>1, <3>1, <4>2
        <5>2. i - (p - 1) \in 1 .. Len(saved) - p /\ p + (i - (p - 1)) = i + 1
          BY <1>0, <2>1, <4>2
        <5> QED
          BY <2>4, <4>2, <5>1, <5>2
      <4> QED
        BY <4>1, <4>2
    <3> QED
      BY <1>0, <2>1, <3>1, <3>2
  <2>6. DOMAIN r = 1 .. Len(saved) - 1
    BY <2>5, LenProperties
  <2>7. NoRepeats(r)
    <3> SUFFICES ASSUME NEW m \in 1 .. Len(saved) - 1, NEW n \in 1 .. Len(saved) - 1, r[m] = r[n]
                 PROVE  m = n
      BY <2>6 DEF NoRepeats
    <3> DEFINE at(i) == IF i < p THEN i ELSE i + 1
    <3>1. at(m) \in DOMAIN saved /\ at(n) \in DOMAIN saved /\ r[m] = saved[at(m)] /\ r[n] = saved[at(n)]
      BY <1>0, <2>1, <2>5
    <3>2. at(m) = at(n)
      BY <1>0, <3>1 DEF NoRepeats
    <3> QED
      BY <2>1, <3>2
  <2>8. \A x : x \in Elements(r) <=> x \in Elements(saved) \ {w}
    <3>1. ASSUME NEW i \in 1 .. Len(saved) - 1 PROVE r[i] \in Elements(saved) \ {w}
      <4>1. /\ i # p => i \in 1 .. Len(saved)
            /\ i + 1 \in 1 .. Len(saved)
            /\ ~(i < p) => i + 1 # p
        BY <1>0, <2>1
      <4>2. CASE i < p
        BY <1>0, <2>1, <2>5, <4>1, <4>2 DEF Elements, NoRepeats
      <4>3. CASE ~(i < p)
        BY <1>0, <2>1, <2>5, <4>1, <4>3 DEF Elements, NoRepeats
      <4> QED
        BY <4>2, <4>3
    <3>2. ASSUME NEW n \in 1 .. Len(saved), n # p PROVE saved[n] \in Elements(r)
      <4>1. CASE n < p
        <5>1. n \in 1 .. Len(saved) - 1 /\ r[n] = saved[n]
          BY <1>0, <2>1, <2>5, <4>1
        <5> QED
          BY <2>6, <5>1 DEF Elements
      <4>2. CASE p < n
        <5>1. n - 1 \in 1 .. Len(saved) - 1 /\ r[n - 1] = saved[n]
          BY <1>0, <2>1, <2>5, <4>2
        <5> QED
          BY <2>6, <5>1 DEF Elements
      <4> QED
        BY <1>0, <2>1, <3>2, <4>1, <4>2
    <3> QED
      BY <1>0, <2>1, <2>6, <3>1, <3>2 DEF Elements
  <2> QED
    BY <2>5, <2>7, <2>8 DEF r
<1> QED
  BY <1>1, <1>2

(* Saving moves the workspace to the end. *)
LEMMA MovedToEnd ==
    ASSUME NEW s \in Seq(Workspaces), NoRepeats(s), NEW w \in Workspaces, w \notin Elements(s)
    PROVE  /\ Append(s, w) \in Seq(Workspaces)
           /\ Elements(Append(s, w)) = Elements(s) \cup {w}
           /\ NoRepeats(Append(s, w))
<1> DEFINE r == Append(s, w)
<1>1. Len(s) \in Nat /\ DOMAIN s = 1 .. Len(s)
  BY LenProperties
<1>2. /\ r \in Seq(Workspaces)
      /\ Len(r) = Len(s) + 1
      /\ \A i \in 1 .. Len(s) : r[i] = s[i]
      /\ r[Len(s) + 1] = w
  BY AppendProperties
<1> HIDE DEF r
<1>3. DOMAIN r = 1 .. Len(s) + 1
  BY <1>2, LenProperties
<1>4. \A x : x \in Elements(r) <=> x \in Elements(s) \cup {w}
  <2>1. \A i \in 1 .. Len(s) + 1 : i \in 1 .. Len(s) \/ i = Len(s) + 1
    BY <1>1
  <2>2. Len(s) + 1 \in 1 .. Len(s) + 1 /\ \A i \in 1 .. Len(s) : i \in 1 .. Len(s) + 1
    BY <1>1
  <2> QED
    BY <1>1, <1>2, <1>3, <2>1, <2>2 DEF Elements
<1>5. NoRepeats(r)
  <2>1. \A i \in 1 .. Len(s) + 1 : i \in 1 .. Len(s) \/ i = Len(s) + 1
    BY <1>1
  <2>2. \A i \in 1 .. Len(s) : r[i] # w
    BY <1>1, <1>2 DEF Elements
  <2> QED
    BY <1>1, <1>2, <1>3, <2>1, <2>2 DEF NoRepeats
<1> QED
  BY <1>2, <1>4, <1>5 DEF r

-----------------------------------------------------------------------------
(* The limit.                                                                *)

(* The first saved workspaces are no more than the limit. *)
LEMMA FewAreDiscovered ==
    ASSUME Ordered
    PROVE  IsFiniteSet(FirstSaved) /\ Cardinality(FirstSaved) <= Limit
<1> DEFINE Places == {k \in DOMAIN saved : k <= Limit}
           At == [n \in Places |-> saved[n]]
<1>1. Limit \in Nat
  BY ConstantsAssumption
<1>2. Places \in SUBSET (1 .. Limit)
  BY <1>1, LenProperties DEF Ordered
<1>3. IsFiniteSet(1 .. Limit) /\ Cardinality(1 .. Limit) <= Limit
  BY <1>1, FS_Interval
<1>4. /\ IsFiniteSet(Places) /\ Cardinality(Places) <= Cardinality(1 .. Limit)
  BY <1>2, <1>3, FS_Subset
<1>5. At \in Surjection(Places, FirstSaved)
  BY DEF Surjection, FirstSaved
<1>6. IsFiniteSet(FirstSaved) /\ Cardinality(FirstSaved) <= Cardinality(Places)
  BY <1>4, <1>5, FS_Surjection
<1> QED
  BY <1>1, <1>3, <1>4, <1>6, FS_CardinalityType

(* A set within a set that fits the limit fits it. *)
LEMMA Fits ==
    ASSUME NEW S, IsFiniteSet(S), Cardinality(S) <= Limit, NEW T, T \subseteq S
    PROVE  IsFiniteSet(T) /\ Cardinality(T) <= Limit
<1>1. Limit \in Nat
  BY ConstantsAssumption
<1>2. IsFiniteSet(T) /\ Cardinality(T) <= Cardinality(S)
  BY FS_Subset
<1> QED
  BY <1>1, <1>2, FS_CardinalityType

(* A step that starts nothing keeps the limit. *)
LEMMA StopsOnly ==
    ASSUME CapInv, Wanted' \subseteq Wanted, Entries' \subseteq Entries,
           \A w \in Entries' : runtime'[w].print = runtime[w].print
    PROVE  CapInv'
<1>1. IsFiniteSet(Wanted') /\ Cardinality(Wanted') <= Limit
  BY Fits DEF CapInv
<1>2. IsFiniteSet(Entries') /\ Cardinality(Entries') <= Limit
  BY Fits DEF CapInv
<1>3. \A w \in Entries' : runtime'[w].print # NoSecret
  BY DEF CapInv
<1> QED
  BY <1>1, <1>2, <1>3 DEF CapInv

(* A step that leaves the supervisor's table alone. *)
LEMMA TableUnchanged ==
    ASSUME CapInv, UNCHANGED <<wanted, runtime>>
    PROVE  CapInv'
<1>1. Wanted' = Wanted /\ Entries' = Entries
  BY DEF Wanted, Entries
<1> QED
  BY <1>1, StopsOnly

-----------------------------------------------------------------------------
(* The API's steps.                                                          *)

LEMMA PendingTyped ==
    ASSUME Calling, CallsNamed, NEW c \in Calls, NEW w \in Workspaces,
           NEW pc \in {"connecting", "purging", "enabling"}, Pending(c, pc, w)
    PROVE  Calling' /\ CallsNamed'
BY DEF Calling, CallsNamed, Pending

LEMMA DoneTyped ==
    ASSUME Calling, CallsNamed, NEW c \in Calls, Done(c)
    PROVE  Calling' /\ CallsNamed'
BY DEF Calling, CallsNamed, Done, Free

LEMMA SaveStep ==
    ASSUME IInv, NEW c \in Calls, NEW w \in Workspaces, NEW secret \in Secrets,
           SaveCredential(c, w, secret)
    PROVE  IInv'
<1>1. /\ Without(w) \in Seq(Workspaces) /\ NoRepeats(Without(w))
      /\ Elements(Without(w)) = Elements(saved) \ {w}
  BY WithoutProperties DEF IInv
<1>2. /\ saved' \in Seq(Workspaces) /\ NoRepeats(saved')
      /\ Elements(saved') = Elements(saved) \cup {w}
  <2>1. saved' = Append(Without(w), w) /\ w \notin Elements(Without(w))
    BY <1>1 DEF SaveCredential
  <2> HIDE DEF Without
  <2>2. /\ Append(Without(w), w) \in Seq(Workspaces) /\ NoRepeats(Append(Without(w), w))
        /\ Elements(Append(Without(w), w)) = Elements(Without(w)) \cup {w}
    BY <1>1, <2>1, MovedToEnd
  <2>3. w \in Workspaces
    OBVIOUS
  <2> QED
    BY <1>1, <2>1, <2>2
<1>3. Ordered'
  <2>1. cred' \in [Workspaces -> Secrets \cup {NoSecret}]
    BY DEF IInv, Ordered, SaveCredential
  <2>2. {v \in Workspaces : cred'[v] # NoSecret} = {v \in Workspaces : cred[v] # NoSecret} \cup {w}
    BY ConstantsAssumption DEF IInv, Ordered, SaveCredential
  <2>3. unreadable' \subseteq {v \in Workspaces : cred'[v] # NoSecret}
    BY <2>2 DEF IInv, Ordered, SaveCredential
  <2>4. Elements(saved)' = Elements(saved') /\ NoRepeats(saved)' = NoRepeats(saved')
    BY DEF Elements, NoRepeats
  <2> QED
    BY <1>2, <2>1, <2>2, <2>3, <2>4 DEF IInv, Ordered
<1>4. Calling' /\ CallsNamed'
  BY PendingTyped DEF IInv, SaveCredential
<1>5. Working' /\ Described' /\ CapInv'
  BY TableUnchanged DEF IInv, SaveCredential, worker, desk, Working, Described
<1> QED
  BY <1>3, <1>4, <1>5 DEF IInv

LEMMA DeleteStep ==
    ASSUME IInv, NEW c \in Calls, NEW w \in Workspaces, DeleteCredential(c, w)
    PROVE  IInv'
<1>1. /\ saved' \in Seq(Workspaces) /\ NoRepeats(saved')
      /\ Elements(saved') = Elements(saved) \ {w}
  BY WithoutProperties DEF IInv, DeleteCredential
<1>2. Ordered'
  <2>1. cred' \in [Workspaces -> Secrets \cup {NoSecret}]
    BY DEF IInv, Ordered, DeleteCredential
  <2>2. {v \in Workspaces : cred'[v] # NoSecret} = {v \in Workspaces : cred[v] # NoSecret} \ {w}
    BY DEF IInv, Ordered, DeleteCredential
  <2>3. unreadable' \subseteq {v \in Workspaces : cred'[v] # NoSecret}
    BY <2>2 DEF IInv, Ordered, DeleteCredential
  <2>4. Elements(saved)' = Elements(saved') /\ NoRepeats(saved)' = NoRepeats(saved')
    BY DEF Elements, NoRepeats
  <2> QED
    BY <1>1, <2>1, <2>2, <2>3, <2>4 DEF IInv, Ordered
<1>3. Calling' /\ CallsNamed'
  BY PendingTyped DEF IInv, DeleteCredential
<1>4. Working' /\ Described' /\ CapInv'
  BY TableUnchanged DEF IInv, DeleteCredential, worker, desk, Working, Described
<1> QED
  BY <1>2, <1>3, <1>4 DEF IInv

LEMMA VaultUnchanged ==
    ASSUME Ordered, UNCHANGED vault
    PROVE  Ordered'
BY DEF Ordered, vault, Elements, NoRepeats

LEMMA ApiStep ==
    ASSUME IInv, Api
    PROVE  IInv'
<1>1. ASSUME NEW c \in Calls, MarkConnecting(c) PROVE IInv'
  <2>1. Ordered' /\ Calling' /\ CallsNamed' /\ CapInv'
    BY <1>1, VaultUnchanged, DoneTyped, TableUnchanged DEF IInv, MarkConnecting, worker
  <2>2. Working' /\ Described'
    BY <1>1 DEF IInv, MarkConnecting, worker, Working, Described, Statuses
  <2> QED
    BY <2>1, <2>2 DEF IInv
<1>2. ASSUME NEW c \in Calls, PurgeWorkspace(c) PROVE IInv'
  <2>1. Ordered' /\ Calling' /\ CallsNamed' /\ CapInv'
    BY <1>2, VaultUnchanged, DoneTyped, TableUnchanged DEF IInv, PurgeWorkspace, worker
  <2>2. Working' /\ Described'
    BY <1>2 DEF IInv, PurgeWorkspace, worker, Working, Described, Statuses
  <2> QED
    BY <2>1, <2>2 DEF IInv
<1>3. ASSUME NEW c \in Calls, EnableScanner(c) PROVE IInv'
  <2>1. Ordered' /\ Calling' /\ CallsNamed' /\ CapInv'
    BY <1>3, VaultUnchanged, DoneTyped, TableUnchanged DEF IInv, EnableScanner, worker
  <2>2. call[c].workspace \in Workspaces
    BY <1>3 DEF IInv, CallsNamed, EnableScanner
  <2>3. Working' /\ Described'
    BY <1>3, <2>2 DEF IInv, EnableScanner, worker, Working, Described
  <2> QED
    BY <2>1, <2>3 DEF IInv
<1>4. ASSUME NEW c \in Calls, NEW w \in Workspaces, CheckScanner(c, w) PROVE IInv'
  <2>1. Ordered' /\ Calling' /\ CallsNamed' /\ CapInv'
    BY <1>4, VaultUnchanged, PendingTyped, TableUnchanged DEF IInv, CheckScanner, worker
  <2>2. Working' /\ Described'
    BY <1>4 DEF IInv, CheckScanner, worker, desk, Working, Described
  <2> QED
    BY <2>1, <2>2 DEF IInv
<1>5. ASSUME NEW w \in Workspaces, DisableScanner(w) PROVE IInv'
  <2>1. Ordered' /\ CapInv'
    BY <1>5, VaultUnchanged, TableUnchanged DEF IInv, DisableScanner, worker
  <2>2. Calling' /\ CallsNamed' /\ Working' /\ Described'
    BY <1>5 DEF IInv, DisableScanner, worker, Calling, CallsNamed, Working, Described
  <2> QED
    BY <2>1, <2>2 DEF IInv
<1>6. ASSUME ApiCrash PROVE IInv'
  <2>1. Ordered' /\ CapInv'
    BY <1>6, VaultUnchanged, TableUnchanged DEF IInv, ApiCrash, worker
  <2>2. Calling' /\ CallsNamed' /\ Working' /\ Described'
    BY <1>6 DEF IInv, ApiCrash, Free, worker, desk, Calling, CallsNamed, Working, Described
  <2> QED
    BY <2>1, <2>2 DEF IInv
<1> QED
  BY <1>1, <1>2, <1>3, <1>4, <1>5, <1>6, SaveStep, DeleteStep DEF Api

-----------------------------------------------------------------------------
(* The supervisor's steps.                                                   *)

LEMMA DiscoverStep ==
    ASSUME IInv, Discover
    PROVE  IInv'
<1>1. Ordered' /\ Calling' /\ CallsNamed' /\ Described'
  BY VaultUnchanged DEF IInv, Discover, desk, Calling, CallsNamed, Described
<1>2. Working'
  BY DEF IInv, Ordered, Working, Discover
<1>3. Wanted' \subseteq FirstSaved
  BY DEF Wanted, Discover
<1>4. IsFiniteSet(Wanted') /\ Cardinality(Wanted') <= Limit
  BY <1>3, FewAreDiscovered, Fits DEF IInv
<1>5. Entries' = Entries /\ runtime' = runtime
  BY DEF Discover, Entries
<1>6. CapInv'
  BY <1>4, <1>5 DEF IInv, CapInv
<1> QED
  BY <1>1, <1>2, <1>6 DEF IInv

(* A runtime's entry keeps its print until it is removed. *)
LEMMA StageTyped ==
    ASSUME Working, NEW w \in Workspaces, NEW stage \in Stages, Stage(w, stage)
    PROVE  /\ runtime' \in [Workspaces -> Entry]
           /\ \A v \in Workspaces : runtime'[v].print = runtime[v].print
           /\ \A v \in Workspaces : v # w => runtime'[v] = runtime[v]
BY DEF Working, Entry, Stage

LEMMA Removed ==
    ASSUME Working, NEW w \in Workspaces, runtime' = [runtime EXCEPT ![w] = NoEntry]
    PROVE  /\ runtime' \in [Workspaces -> Entry]
           /\ Entries' \subseteq Entries
           /\ \A v \in Entries' : runtime'[v].print = runtime[v].print
BY DEF Working, Entry, NoEntry, Stages, Entries

LEMMA Staged ==
    ASSUME Working, NEW w \in Entries, NEW stage \in Stages, Stage(w, stage)
    PROVE  /\ runtime' \in [Workspaces -> Entry]
           /\ Entries' \subseteq Entries
           /\ \A v \in Entries' : runtime'[v].print = runtime[v].print
<1>1. w \in Workspaces /\ runtime[w].stage # "none"
  BY DEF Entries
<1> QED
  BY <1>1, StageTyped DEF Entries

LEMMA CancelStep ==
    ASSUME IInv, NEW w \in Workspaces, CancelStale(w)
    PROVE  IInv'
<1>1. Ordered' /\ Calling' /\ CallsNamed'
  BY VaultUnchanged DEF IInv, CancelStale, Calling, CallsNamed
<1>2. Described'
  BY DEF IInv, CancelStale, Described, Statuses
<1>3. /\ runtime' \in [Workspaces -> Entry]
      /\ Entries' \subseteq Entries
      /\ \A v \in Entries' : runtime'[v].print = runtime[v].print
  <2>1. w \in Entries
    BY DEF CancelStale, StaleEntries
  <2>2. CASE runtime[w].stage \in {"revealing", "leaving", "done"}
    BY <2>2, Removed DEF CancelStale, IInv
  <2>3. CASE runtime[w].stage \notin {"revealing", "leaving", "done"}
    <3>1. Stage(w, "cancelled") /\ "cancelled" \in Stages
      BY <2>3 DEF CancelStale, Stages
    <3> QED
      BY <2>1, <3>1, Staged DEF IInv
  <2> QED
    BY <2>2, <2>3
<1>4. Working'
  BY <1>3 DEF IInv, CancelStale, Working
<1>5. CapInv'
  <2>1. Wanted' = Wanted
    BY DEF CancelStale, Wanted
  <2> QED
    BY <1>3, <2>1, StopsOnly DEF IInv
<1> QED
  BY <1>1, <1>2, <1>4, <1>5 DEF IInv

(* Nothing is stale, so whatever runs is wanted: with what is started now, the
   entries are those wanted.                                                 *)
LEMMA StartStep ==
    ASSUME IInv, StartMissing
    PROVE  IInv'
<1>1. Ordered' /\ Calling' /\ CallsNamed' /\ Described'
  BY VaultUnchanged DEF IInv, StartMissing, desk, Calling, CallsNamed, Described
<1>2. ASSUME NEW w \in Workspaces
      PROVE  /\ runtime'[w] \in Entry
             /\ w \in Entries => w \in Wanted /\ runtime'[w].print # NoSecret
             /\ w \in Entries' => w \in Wanted /\ runtime'[w].print # NoSecret
  <2>1. CASE w \in Entries
    <3>1. wanted[w] = runtime[w].print /\ runtime[w].print # NoSecret
      BY <2>1 DEF IInv, CapInv, StartMissing, StaleEntries
    <3>2. runtime'[w] = runtime[w]
      BY <2>1 DEF StartMissing
    <3> QED
      BY <3>1, <3>2 DEF IInv, Working, Wanted
  <2>2. CASE w \notin Entries /\ wanted[w] = NoSecret
    <3>1. runtime'[w] = runtime[w]
      BY <2>2 DEF StartMissing
    <3> QED
      BY <2>2, <3>1 DEF IInv, Working, Entries
  <2>3. CASE w \notin Entries /\ wanted[w] # NoSecret
    <3>1. runtime'[w] = [stage |-> "revealing", print |-> wanted[w], uses |-> NoSecret]
      BY <2>3 DEF StartMissing, NoEntry
    <3> QED
      BY <2>3, <3>1 DEF IInv, Working, Wanted, Entry, Stages
  <2> QED
    BY <2>1, <2>2, <2>3
<1>3. Working'
  <2>1. runtime' \in [Workspaces -> Entry]
    BY <1>2 DEF StartMissing
  <2> QED
    BY <2>1 DEF IInv, StartMissing, Working
<1>4. CapInv'
  <2>1. Wanted' = Wanted
    BY DEF StartMissing, Wanted
  <2>2. Entries' \subseteq Wanted /\ \A w \in Entries' : runtime'[w].print # NoSecret
    BY <1>2 DEF Entries
  <2>3. IsFiniteSet(Entries') /\ Cardinality(Entries') <= Limit
    BY <2>2, Fits DEF IInv, CapInv
  <2> QED
    BY <2>1, <2>2, <2>3 DEF IInv, CapInv
<1> QED
  BY <1>1, <1>3, <1>4 DEF IInv

-----------------------------------------------------------------------------
(* A runtime's steps.                                                        *)

LEMMA RunStep ==
    ASSUME IInv, NEW w \in Workspaces, Run(w)
    PROVE  IInv'
<1>1. w \in Entries
  BY DEF Run, Reveal, Reconcile, Activate, MarkError, Leave, Entries
<1>2. UNCHANGED RestOfRuntime
  BY DEF Run, Reveal, Reconcile, Activate, MarkError, Leave
<1>3. Described'
  BY <1>2 DEF IInv, Described, RestOfRuntime, Statuses, Told,
              Run, Reveal, Reconcile, Activate, MarkError, Leave
<1>4. /\ runtime' \in [Workspaces -> Entry]
      /\ Entries' \subseteq Entries
      /\ \A v \in Entries' : runtime'[v].print = runtime[v].print
  <2>1. CASE \E stage \in Stages : Stage(w, stage)
    BY <1>1, <2>1, Staged DEF IInv
  <2>2. CASE runtime' = [runtime EXCEPT ![w] = NoEntry]
    BY <2>2, Removed DEF IInv
  <2>3. CASE runtime' = [runtime EXCEPT ![w].stage = "reconciling", ![w].uses = cred[w]]
    <3>1. /\ cred[w] \in Secrets \cup {NoSecret} /\ runtime \in [Workspaces -> Entry]
          /\ runtime[w].stage # "none"
      BY <1>1 DEF IInv, Ordered, Working, Entries
    <3>2. runtime'[w] = [stage |-> "reconciling", print |-> runtime[w].print, uses |-> cred[w]]
      BY <2>3, <3>1 DEF Entry
    <3>3. \A v \in Workspaces : v # w => runtime'[v] = runtime[v]
      BY <2>3, <3>1
    <3>4. DOMAIN runtime' = Workspaces /\ runtime' = [v \in Workspaces |-> runtime'[v]]
      BY <2>3, <3>1
    <3>5. runtime'[w] \in Entry
      BY <3>1, <3>2 DEF Entry, Stages
    <3>6. runtime' \in [Workspaces -> Entry]
      BY <3>1, <3>3, <3>4, <3>5
    <3> QED
      BY <1>1, <3>2, <3>3, <3>6 DEF Entries
  <2>4. Run(w) => \/ \E stage \in Stages : Stage(w, stage)
                  \/ runtime' = [runtime EXCEPT ![w] = NoEntry]
                  \/ runtime' = [runtime EXCEPT ![w].stage = "reconciling", ![w].uses = cred[w]]
    BY DEF Run, Reveal, Reconcile, Activate, MarkError, Leave, Stages
  <2> QED
    BY <2>1, <2>2, <2>3, <2>4
<1>5. Ordered' /\ Calling' /\ CallsNamed' /\ Working'
  BY <1>2, <1>4, VaultUnchanged DEF IInv, RestOfRuntime, Calling, CallsNamed, Working
<1>6. CapInv'
  <2>1. Wanted' = Wanted
    BY <1>2 DEF RestOfRuntime, Wanted
  <2> QED
    BY <1>4, <2>1, StopsOnly DEF IInv
<1> QED
  BY <1>3, <1>5, <1>6 DEF IInv

-----------------------------------------------------------------------------
(* The scanner's steps, and the worker process.                              *)

LEMMA GoneStep ==
    ASSUME IInv, WorkerGone
    PROVE  IInv'
<1>1. Ordered' /\ Calling' /\ CallsNamed' /\ Described'
  BY VaultUnchanged DEF IInv, WorkerGone, desk, Calling, CallsNamed, Described
<1>2. Working'
  BY DEF WorkerGone, Working, Nothing, NoEntry, Entry, Stages
<1>3. Wanted' = {} /\ Entries' = {}
  BY DEF WorkerGone, Wanted, Entries, Nothing, NoEntry
<1>4. CapInv'
  BY <1>3, StopsOnly DEF IInv
<1> QED
  BY <1>1, <1>2, <1>4 DEF IInv

LEMMA ScanStep ==
    ASSUME IInv, Scan
    PROVE  IInv'
<1>1. ASSUME ScanRound PROVE IInv'
  BY <1>1, VaultUnchanged, TableUnchanged
     DEF IInv, ScanRound, desk, Calling, CallsNamed, Described, Working
<1>2. ASSUME NEW w \in Workspaces, ScanNext(w) PROVE IInv'
  BY <1>2, VaultUnchanged, TableUnchanged
     DEF IInv, ScanNext, desk, Calling, CallsNamed, Described, Working
<1>3. ASSUME ScanRaises PROVE IInv'
  BY <1>3, GoneStep DEF ScanRaises
<1> QED
  BY <1>1, <1>2, <1>3 DEF Scan

LEMMA WorkerStartStep ==
    ASSUME IInv, WorkerStart
    PROVE  IInv'
<1>1. Ordered'
  BY DEF IInv, Ordered, WorkerStart, Elements, NoRepeats
<1>2. Calling' /\ CallsNamed' /\ Described' /\ Working'
  BY DEF IInv, WorkerStart, desk, Calling, CallsNamed, Described, Working
<1>3. CapInv'
  BY TableUnchanged DEF IInv, WorkerStart
<1> QED
  BY <1>1, <1>2, <1>3 DEF IInv

LEMMA StepInv == IInv /\ [Next]_vars => IInv'
<1> SUFFICES ASSUME IInv, [Next]_vars PROVE IInv'
  OBVIOUS
<1>1. CASE UNCHANGED vars
  BY <1>1, VaultUnchanged, TableUnchanged
     DEF IInv, vars, vault, Calling, CallsNamed, Described, Working
<1>2. CASE WorkerCrash
  BY <1>2, GoneStep DEF WorkerCrash
<1> QED
  BY <1>1, <1>2, ApiStep, DiscoverStep, CancelStep, StartStep, RunStep, ScanStep,
     WorkerStartStep DEF Next, Supervise

-----------------------------------------------------------------------------

LEMMA Invariance == Spec => []IInv
<1> QED
  BY InitInv, StepInv, PTL DEF Spec

(* The tables of the lifecycle keep their types; the credentials are ordered
   without repetition, and one that is unreadable exists.                    *)
THEOREM TypeCorrect == Spec => []TypeOK
<1>1. IInv => TypeOK
  BY IInvImplies
<1> QED
  BY <1>1, Invariance, PTL

(* Whatever is saved, deleted, restarted and refused decryption in whatever
   order, the worker never holds more connections than the limit.            *)
THEOREM Cap == Spec => []ConnectionCap
<1>1. IInv => ConnectionCap
  BY IInvImplies
<1> QED
  BY <1>1, Invariance, PTL

-----------------------------------------------------------------------------
(* One workspace's runtime from its start to its end.                        *)

(* How far a runtime is. *)
Far(stage) ==
    CASE stage = "none" -> 0          [] stage = "revealing" -> 1
      [] stage = "reconciling" -> 2   [] stage = "activating" -> 3
      [] stage = "erroring" -> 4      [] stage = "running" -> 5
      [] stage = "leaving" -> 6       [] stage = "cancelled" -> 7
      [] stage = "done" -> 8

(* A runtime comes on, under the secret it was started for and the one it read. *)
Advances(w) ==
    /\ Far(runtime'[w].stage) > Far(runtime[w].stage)
    /\ runtime'[w].print = runtime[w].print
    /\ runtime[w].stage # "revealing" => runtime'[w].uses = runtime[w].uses

(* It is forgotten with its worker, or where it holds no connection any more or
   is at its finally clause.                                                  *)
Ends(w) ==
    /\ runtime'[w] = NoEntry
    /\ up' => runtime[w].stage \in {"revealing", "leaving", "cancelled", "done"}

(* It starts for a secret that is wanted, when nothing stale is left. *)
Starts(w) ==
    /\ runtime[w].stage = "none" /\ StaleEntries = {}
    /\ wanted[w] # NoSecret
    /\ runtime'[w] = [NoEntry EXCEPT !.stage = "revealing", !.print = wanted[w]]

RuntimeMoves(w) == runtime'[w] = runtime[w] \/ Advances(w) \/ Ends(w) \/ Starts(w)

LEMMA HowFar ==
    /\ Far("none") = 0 /\ Far("revealing") = 1 /\ Far("reconciling") = 2
    /\ Far("activating") = 3 /\ Far("erroring") = 4 /\ Far("running") = 5
    /\ Far("leaving") = 6 /\ Far("cancelled") = 7 /\ Far("done") = 8
BY DEF Far

LEMMA StagedFurther ==
    ASSUME runtime \in [Workspaces -> Entry], NEW w \in Workspaces, NEW v \in Workspaces,
           NEW stage \in Stages, Stage(w, stage), Far(stage) > Far(runtime[w].stage)
    PROVE  RuntimeMoves(v)
<1>1. CASE v = w
  <2>1. runtime[w] \in Entry /\ runtime'[w] = [runtime[w] EXCEPT !.stage = stage]
    BY DEF Stage
  <2>2. /\ runtime'[w].stage = stage /\ runtime'[w].print = runtime[w].print
        /\ runtime'[w].uses = runtime[w].uses
    BY <2>1 DEF Entry
  <2> QED
    BY <1>1, <2>2 DEF RuntimeMoves, Advances
<1>2. CASE v # w
  BY <1>2 DEF Stage, RuntimeMoves
<1> QED
  BY <1>1, <1>2

LEMMA RunMoves ==
    ASSUME runtime \in [Workspaces -> Entry], NEW w \in Workspaces, NEW v \in Workspaces, Run(w)
    PROVE  RuntimeMoves(v)
<1> USE HowFar
<1>1. CASE Reveal(w)
  <2>1. CASE Stage(w, "done")
    BY <1>1, <2>1, StagedFurther DEF Reveal, Stages
  <2>2. CASE ~Stage(w, "done")
    <3>1. runtime' = [runtime EXCEPT ![w].stage = "reconciling", ![w].uses = cred[w]]
      BY <1>1, <2>2 DEF Reveal
    <3>2. runtime'[w] = [[runtime[w] EXCEPT !.stage = "reconciling"] EXCEPT !.uses = cred[w]]
      BY <3>1
    <3>3. runtime'[w].stage = "reconciling" /\ runtime'[w].print = runtime[w].print
      <4> DEFINE read == [runtime[w] EXCEPT !.stage = "reconciling"]
      <4>1. read = [stage |-> "reconciling", print |-> runtime[w].print, uses |-> runtime[w].uses]
        BY DEF Entry
      <4> HIDE DEF read
      <4>2. [read EXCEPT !.uses = cred[w]].stage = "reconciling"
        BY <4>1
      <4>3. [read EXCEPT !.uses = cred[w]].print = runtime[w].print
        BY <4>1
      <4> QED
        BY <3>2, <4>2, <4>3, Zenon DEF read
    <3>4. v # w => runtime'[v] = runtime[v]
      BY <3>1
    <3> QED
      BY <1>1, <3>3, <3>4 DEF Reveal, RuntimeMoves, Advances
  <2> QED
    BY <2>1, <2>2
<1>2. CASE Reconcile(w)
  BY <1>2, StagedFurther DEF Reconcile, Stages
<1>3. CASE Activate(w) \/ MarkError(w)
  BY <1>3, StagedFurther DEF Activate, MarkError, Stages
<1>4. CASE Leave(w)
  <2>1. CASE runtime[w].stage = "cancelled"
    <3>1. runtime' = [runtime EXCEPT ![w] = NoEntry]
      BY <1>4, <2>1 DEF Leave
    <3> QED
      BY <2>1, <3>1 DEF RuntimeMoves, Ends
  <2>2. CASE runtime[w].stage # "cancelled"
    BY <1>4, <2>2, StagedFurther DEF Leave, Stages
  <2> QED
    BY <2>1, <2>2
<1> QED
  BY <1>1, <1>2, <1>3, <1>4 DEF Run

LEMMA SuperviseMoves ==
    ASSUME runtime \in [Workspaces -> Entry], NEW v \in Workspaces, Supervise
    PROVE  RuntimeMoves(v)
<1>1. CASE Discover
  BY <1>1 DEF Discover, RuntimeMoves
<1>2. CASE StartMissing
  BY <1>2 DEF StartMissing, Entries, RuntimeMoves, Starts
<1>3. ASSUME NEW w \in Workspaces, CancelStale(w) PROVE RuntimeMoves(v)
  <2>1. CASE runtime[w].stage \in {"revealing", "leaving", "done"}
    <3>1. runtime' = [runtime EXCEPT ![w] = NoEntry]
      BY <1>3, <2>1 DEF CancelStale
    <3> QED
      BY <2>1, <3>1 DEF RuntimeMoves, Ends
  <2>2. CASE runtime[w].stage \notin {"revealing", "leaving", "done"}
    <3>1. Stage(w, "cancelled") /\ runtime[w].stage # "cancelled"
      BY <1>3, <2>2 DEF CancelStale
    <3>2. runtime[w].stage \in {"none", "reconciling", "activating", "erroring", "running"}
      BY <2>2, <3>1 DEF Entry, Stages
    <3>3. Far("cancelled") > Far(runtime[w].stage)
      BY <3>2, HowFar
    <3> QED
      BY <3>1, <3>3, StagedFurther DEF Stages
  <2> QED
    BY <2>1, <2>2
<1> QED
  BY <1>1, <1>2, <1>3 DEF Supervise

LEMMA WorkerMoves ==
    ASSUME runtime \in [Workspaces -> Entry], [Next]_vars, NEW v \in Workspaces
    PROVE  RuntimeMoves(v)
<1>1. CASE WorkerGone
  BY <1>1 DEF WorkerGone, RuntimeMoves, Ends
<1>2. CASE UNCHANGED runtime
  BY <1>2 DEF RuntimeMoves
<1>3. Api \/ ScanRound \/ WorkerStart \/ UNCHANGED vars \/ (\E w \in Workspaces : ScanNext(w))
        => UNCHANGED runtime
  BY DEF Api, MarkConnecting, PurgeWorkspace, EnableScanner, DeleteCredential, CheckScanner,
         SaveCredential, DisableScanner, ApiCrash, ScanRound, WorkerStart, ScanNext, worker, vars
<1> QED
  BY <1>1, <1>2, <1>3, RunMoves, SuperviseMoves DEF Next, Scan, ScanRaises, WorkerCrash

(* A runtime takes at most seven steps, keeps the secret it has read, is not
   forgotten where it holds a connection, and starts again only after its entry
   was removed, when nothing stale is left: however credentials are replaced under
   it, a workspace is never served by two connections.                        *)
THEOREM RuntimesRunOut == Spec => [][\A w \in Workspaces : RuntimeMoves(w)]_vars
<1>1. IInv /\ [Next]_vars => [\A w \in Workspaces : RuntimeMoves(w)]_vars
  BY WorkerMoves DEF IInv, Working
<1> QED
  BY <1>1, Invariance, PTL DEF Spec

(* Nothing serves the workspace and the supervisor has nothing to start for it. *)
Disconnected(w) == w \notin Entries /\ wanted[w] = NoSecret

StaysDisconnected(w) ==
    Disconnected(w) /\ cred'[w] = NoSecret /\ cred[w] = NoSecret => Disconnected(w)'

(* Once a deleted workspace is disconnected it stays so until a credential is
   saved again, also under a round of the supervisor that discovered before the
   deletion, and over any crash: what DeletedIsDisconnected reaches is final.  *)
THEOREM DisconnectedStays == Spec => [][\A w \in Workspaces : StaysDisconnected(w)]_vars
<1>1. ASSUME IInv, [Next]_vars, NEW w \in Workspaces, Disconnected(w), cred[w] = NoSecret
      PROVE  Disconnected(w)'
  <2>1. runtime \in [Workspaces -> Entry] /\ runtime[w].stage = "none"
    BY <1>1 DEF IInv, Working, Disconnected, Entries
  <2>2. wanted'[w] = NoSecret
    <3>1. wanted' = wanted \/ Discover \/ WorkerGone
      BY <1>1 DEF Next, vars, worker, Api, MarkConnecting, PurgeWorkspace, EnableScanner,
              DeleteCredential, CheckScanner, SaveCredential, DisableScanner, ApiCrash, Supervise,
              StartMissing, CancelStale, Scan, ScanRound, ScanNext, ScanRaises, WorkerCrash,
              WorkerStart, Run, Reveal, Reconcile, Activate, MarkError, Leave, RestOfRuntime
    <3> QED
      BY <1>1, <3>1 DEF Disconnected, Discover, WorkerGone, Nothing
  <2>3. runtime'[w].stage = "none"
    <3>1. CASE Run(w) \/ CancelStale(w)
      BY <1>1, <2>1, <3>1 DEF Run, Reveal, Reconcile, Activate, MarkError, Leave, CancelStale,
                             StaleEntries, Disconnected
    <3>2. CASE StartMissing
      BY <1>1, <2>1, <3>2 DEF StartMissing, Disconnected
    <3>3. CASE WorkerGone
      BY <3>3 DEF WorkerGone, NoEntry
    <3>4. ASSUME NEW v \in Workspaces \ {w}, Run(v) \/ CancelStale(v)
          PROVE  runtime'[w] = runtime[w]
      BY <2>1, <3>4 DEF Run, Reveal, Reconcile, Activate, MarkError, Leave, CancelStale, Stage
    <3>5. Api \/ ScanRound \/ Discover \/ WorkerStart \/ UNCHANGED vars
            \/ (\E v \in Workspaces : ScanNext(v)) => runtime' = runtime
      BY DEF Api, MarkConnecting, PurgeWorkspace, EnableScanner, DeleteCredential, CheckScanner,
             SaveCredential, DisableScanner, ApiCrash, ScanRound, Discover, WorkerStart, ScanNext,
             worker, vars
    <3> QED
      BY <1>1, <2>1, <3>1, <3>2, <3>3, <3>4, <3>5
         DEF Next, Supervise, Scan, ScanRaises, WorkerCrash
  <2> QED
    BY <2>2, <2>3 DEF Disconnected, Entries
<1>2. IInv /\ [Next]_vars => [\A w \in Workspaces : StaysDisconnected(w)]_vars
  BY <1>1 DEF StaysDisconnected
<1> QED
  BY <1>2, Invariance, PTL DEF Spec

-----------------------------------------------------------------------------
(* What the supervisor leaves alone.                                         *)

KeepsWanted(w) ==
    /\ w \in Entries /\ runtime[w].stage # "cancelled"
    /\ wanted[w] = runtime[w].print
    /\ up'
    => /\ w \in Entries' /\ runtime'[w].stage # "cancelled"
       /\ runtime'[w].print = runtime[w].print
       /\ runtime[w].stage # "revealing" => runtime'[w].uses = runtime[w].uses
       /\ runtime[w].stage = "done" => runtime'[w] = runtime[w]

(* A runtime comes on to no cancellation by itself, and one that has ended has
   nothing left to do.                                                        *)
LEMMA RunKeeps ==
    ASSUME runtime \in [Workspaces -> Entry], NEW w \in Workspaces, Run(w),
           runtime[w].stage # "cancelled"
    PROVE  /\ runtime'[w].stage \notin {"none", "cancelled"}
           /\ runtime[w].stage \notin {"none", "done"}
<1>1. ASSUME NEW stage \in Stages \ {"none", "cancelled"}, Stage(w, stage)
      PROVE  runtime'[w].stage \notin {"none", "cancelled"}
  <2>1. runtime'[w] = [runtime[w] EXCEPT !.stage = stage] /\ runtime[w] \in Entry
    BY <1>1 DEF Stage
  <2>2. runtime'[w].stage = stage
    BY <2>1 DEF Entry
  <2> QED
    BY <1>1, <2>2
<1>2. CASE Reveal(w)
  <2>1. CASE Stage(w, "done")
    BY <1>1, <1>2, <2>1 DEF Reveal, Stages
  <2>2. CASE runtime' = [runtime EXCEPT ![w].stage = "reconciling", ![w].uses = cred[w]]
    <3> DEFINE read == [runtime[w] EXCEPT !.stage = "reconciling"]
    <3>1. read = [stage |-> "reconciling", print |-> runtime[w].print, uses |-> runtime[w].uses]
      BY DEF Entry
    <3>2. runtime'[w] = [read EXCEPT !.uses = cred[w]]
      BY <2>2
    <3> HIDE DEF read
    <3>3. runtime'[w].stage = "reconciling"
      BY <3>1, <3>2
    <3> QED
      BY <1>2, <3>3 DEF Reveal
  <2> QED
    BY <1>2, <2>1, <2>2 DEF Reveal
<1>3. CASE Reconcile(w) \/ Activate(w) \/ MarkError(w)
  BY <1>1, <1>3 DEF Reconcile, Activate, MarkError, Stages
<1>4. CASE Leave(w)
  BY <1>1, <1>4 DEF Leave, Stages
<1> QED
  BY <1>2, <1>3, <1>4 DEF Run

(* While the supervisor discovers the secret that a runtime was started for, it
   neither cancels nor replaces it: a runtime whose first reconciliation failed
   keeps its place and is never tried again in this worker, and one that read
   another secret, replaced and put back in between, goes on with that one.   *)
THEOREM WantedIsKept == Spec => [][\A w \in Workspaces : KeepsWanted(w)]_vars
<1>1. ASSUME IInv, [Next]_vars, NEW w \in Workspaces PROVE KeepsWanted(w)
  <2> SUFFICES ASSUME runtime[w].stage \notin {"none", "cancelled"},
                      wanted[w] = runtime[w].print, up'
               PROVE  /\ runtime'[w].stage \notin {"none", "cancelled"}
                      /\ runtime'[w].print = runtime[w].print
                      /\ runtime[w].stage # "revealing" => runtime'[w].uses = runtime[w].uses
                      /\ runtime[w].stage = "done" => runtime'[w] = runtime[w]
    BY DEF KeepsWanted, Entries
  <2>0. runtime \in [Workspaces -> Entry] /\ w \in Entries /\ w \notin StaleEntries
    BY <1>1 DEF IInv, Working, Entries, StaleEntries
  <2>1. CASE runtime'[w] = runtime[w]
    BY <2>1
  <2>2. CASE Run(w)
    <3>1. /\ runtime'[w].stage \notin {"none", "cancelled"}
          /\ runtime[w].stage # "done"
      BY <2>0, <2>2, RunKeeps
    <3>2. RuntimeMoves(w)
      BY <2>0, <2>2, RunMoves
    <3>3. runtime'[w] # NoEntry
      BY <3>1 DEF NoEntry
    <3> QED
      BY <3>1, <3>2, <3>3 DEF RuntimeMoves, Advances, Ends, Starts
  <2>3. ASSUME NEW v \in Workspaces \ {w}, Run(v) \/ CancelStale(v)
        PROVE  runtime'[w] = runtime[w]
    BY <2>0, <2>3 DEF Run, Reveal, Reconcile, Activate, MarkError, Leave, CancelStale, Stage
  <2>4. ~CancelStale(w)
    BY <2>0 DEF CancelStale
  <2>5. CASE StartMissing
    BY <2>0, <2>5 DEF StartMissing
  <2>6. ~WorkerGone
    BY DEF WorkerGone
  <2>7. Api \/ ScanRound \/ Discover \/ WorkerStart \/ UNCHANGED vars
          \/ (\E v \in Workspaces : ScanNext(v)) => runtime' = runtime
    BY DEF Api, MarkConnecting, PurgeWorkspace, EnableScanner, DeleteCredential, CheckScanner,
           SaveCredential, DisableScanner, ApiCrash, ScanRound, Discover, WorkerStart, ScanNext,
           worker, vars
  <2> QED
    BY <1>1, <2>1, <2>2, <2>3, <2>4, <2>5, <2>6, <2>7
       DEF Next, Supervise, Scan, ScanRaises, WorkerCrash
<1>2. IInv /\ [Next]_vars => [\A w \in Workspaces : KeepsWanted(w)]_vars
  BY <1>1
<1> QED
  BY <1>2, Invariance, PTL DEF Spec

(* A runtime that runs under a workspace that is not ACTIVE. *)
LeftConnecting(w) ==
    runtime[w].stage = "running" /\ wanted[w] = runtime[w].print /\ status[w] # "ACTIVE"

StaysConnecting(w) ==
    LeftConnecting(w) /\ up' => runtime'[w] = runtime[w] /\ status'[w] # "ACTIVE"

(* Why SavingNeedsNoRestart fails, in every instance: a status that a save has
   set to CONNECTING over a running connection stays so, whatever the API and
   the worker do, as long as the supervisor discovers the same secret: only
   another secret, a deletion or a restart of the worker ends it.             *)
THEOREM ConnectingStays == Spec => [][\A w \in Workspaces : StaysConnecting(w)]_vars
<1>1. ASSUME IInv, [Next]_vars, NEW w \in Workspaces, LeftConnecting(w), up'
      PROVE  runtime'[w] = runtime[w] /\ status'[w] # "ACTIVE"
  <2>0. /\ runtime \in [Workspaces -> Entry] /\ status \in [Workspaces -> Statuses]
        /\ w \in Entries /\ w \notin StaleEntries
        /\ runtime[w].stage = "running" /\ status[w] # "ACTIVE"
    BY <1>1 DEF IInv, Working, Described, LeftConnecting, Entries, StaleEntries
  <2>1. ~Run(w) /\ ~CancelStale(w) /\ ~WorkerGone
    BY <1>1, <2>0 DEF Run, Reveal, Reconcile, Activate, MarkError, Leave, CancelStale, WorkerGone
  <2>2. ASSUME NEW v \in Workspaces \ {w}, Run(v) \/ CancelStale(v)
        PROVE  runtime'[w] = runtime[w] /\ status'[w] = status[w]
    <3>1. runtime'[w] = runtime[w]
      BY <2>0, <2>2 DEF Run, Reveal, Reconcile, Activate, MarkError, Leave, CancelStale, Stage
    <3>2. status'[w] = status[w]
      BY <2>0, <2>2 DEF Run, Reveal, Reconcile, Activate, MarkError, Leave, CancelStale, Told
    <3> QED
      BY <3>1, <3>2
  <2>3. CASE StartMissing
    <3>1. runtime'[w] = runtime[w]
      BY <2>0, <2>3 DEF StartMissing
    <3>2. status' = status
      BY <2>3 DEF StartMissing, desk
    <3> QED
      BY <2>0, <3>1, <3>2
  <2>4. CASE Api
    <3>1. runtime' = runtime
      BY <2>4 DEF Api, MarkConnecting, PurgeWorkspace, EnableScanner, DeleteCredential,
             CheckScanner, SaveCredential, DisableScanner, ApiCrash, worker
    <3>2. status' = status
            \/ \E v \in Workspaces \cup {NoWorkspace} : \E s \in {"CONNECTING", "ONBOARDING"} :
                   status' = [status EXCEPT ![v] = s]
      BY <1>1, <2>4 DEF IInv, Calling, Api, MarkConnecting, PurgeWorkspace, EnableScanner,
             DeleteCredential, CheckScanner, SaveCredential, DisableScanner, ApiCrash, desk
    <3> QED
      BY <2>0, <3>1, <3>2
  <2>5. CASE ScanRound \/ Discover \/ WorkerStart \/ UNCHANGED vars
               \/ \E v \in Workspaces : ScanNext(v)
    BY <2>0, <2>5 DEF ScanRound, Discover, WorkerStart, ScanNext, desk, vars
  <2> QED
    BY <1>1, <2>0, <2>1, <2>2, <2>3, <2>4, <2>5
       DEF Next, Supervise, Scan, ScanRaises, WorkerCrash
<1>2. IInv /\ [Next]_vars => [\A w \in Workspaces : StaysConnecting(w)]_vars
  BY <1>1 DEF StaysConnecting
<1> QED
  BY <1>2, Invariance, PTL DEF Spec

-----------------------------------------------------------------------------
(* Refinement: each workspace's runtime lives as RuntimeLife says.           *)

LifeStage(s) ==
    CASE s \in {"none", "revealing"}         -> "off"
      [] s \in {"reconciling", "activating"} -> "initial"
      [] s = "running"                       -> "running"
      [] s \in {"erroring", "leaving"}       -> "failing"
      [] s = "cancelled"                     -> "closing"
      [] s = "done"                          -> "ended"

LifeOf(w) == LifeStage(runtime[w].stage)

Life(w) == INSTANCE RuntimeLife WITH stage <- LifeOf(w)

LEMMA LifeStages ==
    /\ LifeStage("none") = "off"           /\ LifeStage("revealing") = "off"
    /\ LifeStage("reconciling") = "initial" /\ LifeStage("activating") = "initial"
    /\ LifeStage("running") = "running"
    /\ LifeStage("erroring") = "failing"   /\ LifeStage("leaving") = "failing"
    /\ LifeStage("cancelled") = "closing"  /\ LifeStage("done") = "ended"
BY DEF LifeStage

(* What a runtime's own step makes of its stage, and the supervisor's. *)
Turns(from, to) ==
    \/ from = "revealing"   /\ to \in {"reconciling", "done", "none"}
    \/ from = "reconciling" /\ to \in {"activating", "erroring", "cancelled"}
    \/ from = "activating"  /\ to \in {"running", "erroring", "cancelled"}
    \/ from = "running"     /\ to = "cancelled"
    \/ from = "erroring"    /\ to \in {"leaving", "cancelled"}
    \/ from = "leaving"     /\ to \in {"done", "none"}
    \/ from = "cancelled"   /\ to = "none"
    \/ from = "done"        /\ to = "none"

LEMMA TurnLives ==
    ASSUME NEW w \in Workspaces, Turns(runtime[w].stage, runtime'[w].stage)
    PROVE  Life(w)!Next \/ LifeOf(w)' = LifeOf(w)
BY LifeStages DEF Turns, LifeOf, Life!Next, Life!Begins, Life!FindsNothing, Life!Reconciles,
                  Life!Cancelled, Life!FailsForGood, Life!Gone

LEMMA StageTurns ==
    ASSUME runtime \in [Workspaces -> Entry], NEW w \in Workspaces, NEW stage \in Stages,
           Stage(w, stage)
    PROVE  runtime'[w].stage = stage
<1>1. runtime'[w] = [runtime[w] EXCEPT !.stage = stage] /\ runtime[w] \in Entry
  BY DEF Stage
<1> QED
  BY <1>1 DEF Entry

LEMMA RunTurns ==
    ASSUME runtime \in [Workspaces -> Entry], NEW w \in Workspaces, Run(w) \/ CancelStale(w)
    PROVE  Turns(runtime[w].stage, runtime'[w].stage)
<1>0. runtime[w].stage \in Stages
  BY DEF Entry
<1>1. ASSUME runtime' = [runtime EXCEPT ![w] = NoEntry] PROVE runtime'[w].stage = "none"
  BY <1>1 DEF NoEntry
<1>2. CASE Reveal(w)
  <2>1. CASE Stage(w, "done")
    BY <1>2, <2>1, StageTurns DEF Reveal, Stages, Turns
  <2>2. CASE ~Stage(w, "done")
    <3>1. runtime[w].stage = "revealing" /\ runtime'[w].stage \notin {"none", "cancelled"}
      BY <1>2, RunKeeps DEF Reveal, Run
    <3> DEFINE read == [runtime[w] EXCEPT !.stage = "reconciling"]
    <3>2. read = [stage |-> "reconciling", print |-> runtime[w].print, uses |-> runtime[w].uses]
      BY DEF Entry
    <3>3. runtime'[w] = [read EXCEPT !.uses = cred[w]]
      BY <1>2, <2>2 DEF Reveal
    <3> HIDE DEF read
    <3>4. runtime'[w].stage = "reconciling"
      BY <3>2, <3>3
    <3> QED
      BY <3>1, <3>4 DEF Turns
  <2> QED
    BY <2>1, <2>2
<1>3. CASE Reconcile(w) \/ Activate(w) \/ MarkError(w)
  BY <1>3, StageTurns DEF Reconcile, Activate, MarkError, Stages, Turns
<1>4. CASE Leave(w)
  BY <1>1, <1>4, StageTurns DEF Leave, Stages, Turns
<1>5. CASE CancelStale(w)
  <2>1. runtime[w].stage \notin {"none", "cancelled"}
    BY <1>5 DEF CancelStale, StaleEntries, Entries
  <2>2. CASE runtime[w].stage \in {"revealing", "leaving", "done"}
    BY <1>1, <1>5, <2>2 DEF CancelStale, Turns
  <2>3. CASE runtime[w].stage \notin {"revealing", "leaving", "done"}
    BY <1>0, <1>5, <2>1, <2>3, StageTurns DEF CancelStale, Stages, Turns
  <2> QED
    BY <2>2, <2>3
<1> QED
  BY <1>2, <1>3, <1>4, <1>5 DEF Run

LEMMA LifeStep ==
    ASSUME IInv, [Next]_vars, NEW w \in Workspaces
    PROVE  Life(w)!Next \/ LifeOf(w)' = LifeOf(w)
<1>0. runtime \in [Workspaces -> Entry]
  BY DEF IInv, Working
<1>1. CASE runtime'[w] = runtime[w]
  BY <1>1 DEF LifeOf
<1>2. CASE Run(w) \/ CancelStale(w)
  BY <1>0, <1>2, RunTurns, TurnLives
<1>3. ASSUME NEW v \in Workspaces \ {w}, Run(v) \/ CancelStale(v)
      PROVE  runtime'[w] = runtime[w]
  BY <1>0, <1>3 DEF Run, Reveal, Reconcile, Activate, MarkError, Leave, CancelStale, Stage
<1>4. CASE StartMissing
  <2>1. CASE w \in Entries \/ wanted[w] = NoSecret
    BY <1>1, <1>4, <2>1 DEF StartMissing
  <2>2. CASE w \notin Entries /\ wanted[w] # NoSecret
    <3>1. runtime'[w] = [NoEntry EXCEPT !.stage = "revealing", !.print = wanted[w]]
      BY <1>4, <2>2 DEF StartMissing
    <3>2. runtime'[w].stage = "revealing" /\ runtime[w].stage = "none"
      BY <2>2, <3>1 DEF NoEntry, Entries
    <3> QED
      BY <3>2, LifeStages DEF LifeOf
  <2> QED
    BY <2>1, <2>2
<1>5. CASE WorkerGone
  BY <1>5, LifeStages DEF WorkerGone, NoEntry, LifeOf, Life!Next, Life!Gone
<1>6. Api \/ ScanRound \/ Discover \/ WorkerStart \/ UNCHANGED vars
        \/ (\E v \in Workspaces : ScanNext(v)) => runtime' = runtime
  BY DEF Api, MarkConnecting, PurgeWorkspace, EnableScanner, DeleteCredential, CheckScanner,
         SaveCredential, DisableScanner, ApiCrash, ScanRound, Discover, WorkerStart, ScanNext,
         worker, vars
<1> QED
  BY <1>1, <1>2, <1>3, <1>4, <1>5, <1>6 DEF Next, Supervise, Scan, ScanRaises, WorkerCrash

(* Each workspace's runtime, however the supervisor cancels, forgets and starts
   it and whatever becomes of its credential, begins, fails and ends as
   RuntimeLife says, the same life that BrokerSync gives the runtime that keeps
   one projection: the two modules agree on what they share.                  *)
THEOREM RuntimeLives == ASSUME NEW w \in Workspaces PROVE Spec => Life(w)!Spec
<1>1. Init => Life(w)!Init
  BY LifeStages DEF Init, NoEntry, LifeOf, Life!Init
<1>2. IInv /\ [Next]_vars => [Life(w)!Next]_(LifeOf(w))
  BY LifeStep
<1> QED
  BY <1>1, <1>2, Invariance, PTL DEF Spec, Life!Spec

=============================================================================
